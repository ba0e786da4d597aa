---------------------------- MODULE GoalLoop_proofs ----------------------------
(***************************************************************************)
(* Proofs about GoalLoop: what is verified, checkpointed and delivered.    *)
(***************************************************************************)
EXTENDS GoalLoop, SequenceTheorems, TLAPS

-----------------------------------------------------------------------------
(* The types of the state.                                                 *)

Steps == {"none", "prepare", "planning", "select", "turn", "settle", "typecheck",
          "claim", "audit", "capture", "verify", "accept", "publish", "final",
          "reverify"}
Kinds == {"build", "settlement_repair", "typecheck_repair", "workspace_audit_repair",
          "verification_repair"}
Nexts == {"typecheck", "claim"}
Policies == {"must_change", "may_noop"}
Sources == Contents \cup {None}
Manifests == (Contents \X Taints) \cup {None}
Flags == BOOLEAN
Counts == Nat
Suites == SUBSET GoalIds
Drafts == SUBSET InvalidDrafts

Tasks == [pc : Steps, kind : Kinds, next : Nexts, goalStart : Sources,
          turnStart : Manifests, candidateStart : Sources, goalPolicy : Policies,
          policy : Policies, round : Counts, unknown : Flags, paths : Capsules,
          audited : Sources, candidate : Sources, suite : Suites,
          corrections : Counts, rejected : Drafts]

Cursors == [kind : Kinds, round : Counts, goalStart : Sources, turnStart : Manifests,
            candidateStart : Sources, goalPolicy : Policies, policy : Policies]

Verifications == [frozen : Contents, live : Contents]

LoopTypes ==
    /\ status \in {"queued", "running", "waiting"} \cup Ended
    /\ graph \in {"none", "active", "verified", "closed"}
    /\ verified \in 0 .. GoalCount
    /\ goal \in {"pending", "active", "claimed"}
    /\ inherited \in Sources /\ published \in Sources /\ refuted \in Sources
    /\ checkpoint \in Checkpoints \cup {None}
    /\ question \in Cursors \cup {None}
    /\ G \in Generations \cup {None}
    /\ V \in Verifications \cup {None}
    /\ task \in Tasks
    /\ strays \in SUBSET GoalIds
    /\ turns \in 0 .. MaxTurns /\ faults \in 0 .. MaxFaults

-----------------------------------------------------------------------------
(* The inductive invariant.                                                *)

Repairing == {"turn", "settle", "typecheck", "claim", "audit", "capture"}
Judging == {"verify", "accept"}
Working == Repairing \cup Judging
Delivering == {"final", "reverify", "publish"}

(* Where the run is, its graph and its sandboxes agree.                    *)
PhaseInv ==
    /\ status # "running" => task = NoTask
    /\ published # None => status = "succeeded"
    /\ graph = "verified" <=> verified = GoalCount
    /\ graph = "none" => verified = 0 /\ refuted = None
    /\ task.pc = "planning" => graph = "none"
    /\ task.pc \in Working \cup {"select"} => graph \notin {"none", "verified"}
    /\ task.pc \in Delivering => graph = "verified"
    /\ task.pc \notin {"none", "prepare"} => G \in Generations
    /\ task.pc = "prepare" /\ question # None => G # None
    /\ task.pc \in Working \ {"turn"} => question = None
    /\ task.pc \in {"verify", "accept", "reverify", "publish"} => V \in Verifications
    /\ V # None => \/ task.pc \in {"verify", "accept", "reverify", "publish"}
                   \/ status = "succeeded"

Approved(content, suite) ==
    content \in Compiling /\ \A g \in suite : content \in Passing[g]

(* A verdict holds for what V froze as long as V has not drifted.          *)
JudgeInv ==
    /\ task.pc = "capture" => task.audited \in Contents
    /\ task.pc \in Judging => task.candidate \in Contents
    /\ task.pc \in Judging => /\ verified + 1 \in task.suite
                              /\ verified + 1 = GoalCount => task.suite = GoalIds
    /\ task.pc = "reverify" => task.suite = GoalIds
    /\ task.pc = "accept" /\ VerificationStable => Approved(V.frozen, task.suite)
    /\ task.pc = "publish" /\ VerificationStable => Approved(V.frozen, GoalIds)

(* What a task, or the durable cursor of a question, relies on.            *)
HasCause(cursor) ==
    cursor.goalPolicy = "may_noop" =>
        verified > 0 /\ checkpoint.content = cursor.goalStart

StartsClean(cursor) ==
    cursor.kind = "build" => cursor.turnStart = <<cursor.goalStart, "clean">>

Remembers(cursor) ==
    refuted # None => cursor.candidateStart = refuted

(* The logical turn, also while it waits for the answer to a question.     *)
TurnInv ==
    /\ task.pc \in Working => HasCause(task) /\ StartsClean(task)
    /\ task.pc \in Repairing => Remembers(task)
    /\ question # None /\ graph # "none" =>
           HasCause(question) /\ StartsClean(question) /\ Remembers(question)
    /\ task.pc \in Judging =>
           task.goalPolicy = "may_noop" \/ task.candidate # task.goalStart

(* Unless its goal strayed, what is audited, captured, verified and        *)
(* recorded is the same content.                                           *)
SourceInv ==
    /\ task.pc = "capture" /\ verified + 1 \notin strays => G.content = task.audited
    /\ task.pc \in Judging /\ verified + 1 \notin strays =>
           V.frozen = task.candidate /\ task.audited = task.candidate
    /\ verified > 0 /\ verified \notin strays => Approved(checkpoint.content, {verified})

(* No goal with a checkpoint strayed.                                      *)
CheckpointsAreStraight == \A id \in strays : id > verified

(* The capsule of a run that inherited nothing names every file in which   *)
(* its checkpoint differs from the base.                                   *)
Covered(capsule, content) ==
    \A f \in Files : content[f] # Base[f] => \E id \in DOMAIN capsule : f \in capsule[id]

CapsuleInv ==
    /\ verified = 0 /\ inherited = None => checkpoint = None
    /\ verified > 0 => checkpoint # None
    /\ task.pc \notin {"none", "prepare"} =>
           task.paths = IF checkpoint = None THEN <<>> ELSE checkpoint.paths
    /\ CheckpointsAreStraight /\ inherited = None /\ checkpoint # None =>
           /\ DOMAIN checkpoint.paths \subseteq 1 .. verified
           /\ Covered(checkpoint.paths, checkpoint.content)

(* Unless it is marked as unknown, a goal starts from the last checkpoint, *)
(* the first goal from the base.                                           *)
StartInv ==
    /\ task.pc \in Working /\ ~task.unknown /\ verified > 0 =>
           task.goalStart = checkpoint.content
    /\ task.pc \in Working /\ ~task.unknown /\ inherited = None /\ verified = 0 =>
           task.goalStart = Base
    /\ G # None /\ checkpoint = None => G.worked \/ G.content = Base
    /\ graph = "none" /\ G # None => ~G.worked
    /\ task.pc = "select" /\ question = None /\ verified = 0 => ~G.worked

(* A focused verification follows a goal that left every earlier file as   *)
(* the checkpoint has it.                                                  *)
FocusInv ==
    CheckpointsAreStraight /\ inherited = None /\ verified > 0 /\ task.pc \in Judging
    /\ task.suite = {verified + 1} =>
        \A f \in Files : checkpoint.content[f] # Base[f] =>
                             task.candidate[f] = checkpoint.content[f]

LoopIInv == /\ LoopTypes /\ PhaseInv /\ JudgeInv /\ TurnInv
            /\ SourceInv /\ CapsuleInv /\ StartInv /\ FocusInv

-----------------------------------------------------------------------------
(* What an update of the task changes and keeps.                           *)

SameTurn(u, t) ==
    /\ u.kind = t.kind /\ u.goalStart = t.goalStart /\ u.turnStart = t.turnStart
    /\ u.candidateStart = t.candidateStart /\ u.goalPolicy = t.goalPolicy
    /\ u.unknown = t.unknown

SameWork(u, t) ==
    u.paths = t.paths /\ u.audited = t.audited /\ u.candidate = t.candidate
    /\ u.suite = t.suite

Moved(t, pc) == [t EXCEPT !.pc = pc]
Prepared(t, pc, paths) == [t EXCEPT !.pc = pc, !.paths = paths]
Corrected(t, draft) == [t EXCEPT !.corrections = @ + 1, !.rejected = @ \cup {draft}]
Begun(t, content, policy, unknown) ==
    [t EXCEPT !.pc = "turn", !.kind = "build", !.next = "typecheck",
              !.goalStart = content, !.turnStart = <<content, "clean">>,
              !.candidateStart = None, !.goalPolicy = policy,
              !.policy = policy, !.round = 0, !.unknown = unknown]
Continued(t, cursor) ==
    [[t EXCEPT !.kind = cursor.kind, !.round = cursor.round,
               !.goalStart = cursor.goalStart, !.turnStart = cursor.turnStart,
               !.candidateStart = cursor.candidateStart,
               !.goalPolicy = cursor.goalPolicy, !.policy = cursor.policy]
        EXCEPT !.pc = "turn", !.next = "typecheck", !.unknown = TRUE]
Repaired(t, kind, next, manifest, candidate) ==
    [t EXCEPT !.pc = "turn", !.kind = kind, !.next = next, !.policy = "must_change",
              !.turnStart = manifest, !.candidateStart = candidate]
Refuted(t, manifest, candidate) ==
    [t EXCEPT !.pc = "turn", !.kind = "verification_repair", !.next = "claim",
              !.policy = "must_change", !.turnStart = manifest,
              !.candidateStart = candidate, !.round = @ + 1]
Audited(t, content) == [t EXCEPT !.pc = "capture", !.audited = content]
Captured(t, content, suite) ==
    [t EXCEPT !.pc = "verify", !.candidate = content, !.candidateStart = None,
              !.suite = suite]
Recorded(t, pc, paths) == [t EXCEPT !.pc = pc, !.paths = paths, !.unknown = FALSE]
Reverified(t, suite) == [t EXCEPT !.pc = "reverify", !.suite = suite]

LEMMA MovedFields ==
    ASSUME NEW t \in Tasks, NEW pc \in Steps
    PROVE  LET u == Moved(t, pc)
           IN  u \in Tasks /\ u.pc = pc /\ SameTurn(u, t) /\ SameWork(u, t)
    BY DEF Moved, Tasks, SameTurn, SameWork

LEMMA PreparedFields ==
    ASSUME NEW t \in Tasks, NEW pc \in Steps, NEW paths \in Capsules
    PROVE  LET u == Prepared(t, pc, paths)
           IN  u \in Tasks /\ u.pc = pc /\ u.paths = paths
    BY DEF Prepared, Tasks

LEMMA CorrectedFields ==
    ASSUME NEW t \in Tasks, NEW draft \in InvalidDrafts
    PROVE  LET u == Corrected(t, draft)
           IN  u \in Tasks /\ u.pc = t.pc /\ SameTurn(u, t) /\ SameWork(u, t)
<1>1. t.corrections + 1 \in Counts /\ t.rejected \cup {draft} \in Drafts
    BY DEF Tasks, Counts, Drafts
<1> QED  BY <1>1 DEF Corrected, Tasks, SameTurn, SameWork

LEMMA BegunFields ==
    ASSUME NEW t \in Tasks, NEW content \in Contents, NEW policy \in Policies,
           NEW flag \in Flags
    PROVE  LET u == Begun(t, content, policy, flag)
           IN  /\ u \in Tasks /\ u.pc = "turn" /\ u.kind = "build"
               /\ u.goalStart = content /\ u.turnStart = <<content, "clean">>
               /\ u.candidateStart = None /\ u.goalPolicy = policy /\ u.unknown = flag
               /\ SameWork(u, t)
<1>1. /\ content \in Sources /\ None \in Sources /\ <<content, "clean">> \in Manifests
      /\ 0 \in Counts /\ "turn" \in Steps /\ "build" \in Kinds /\ "typecheck" \in Nexts
    BY DEF Sources, Manifests, Taints, Counts, Steps, Kinds, Nexts
<1> QED  BY <1>1 DEF Begun, Tasks, SameWork

LEMMA ContinuedFields ==
    ASSUME NEW t \in Tasks, NEW cursor \in Cursors
    PROVE  LET u == Continued(t, cursor)
           IN  /\ u \in Tasks /\ u.pc = "turn" /\ u.kind = cursor.kind
               /\ u.goalStart = cursor.goalStart /\ u.turnStart = cursor.turnStart
               /\ u.candidateStart = cursor.candidateStart
               /\ u.goalPolicy = cursor.goalPolicy /\ u.unknown /\ SameWork(u, t)
               /\ u.paths = t.paths
<1>1. "turn" \in Steps /\ "typecheck" \in Nexts /\ TRUE \in Flags
    BY DEF Steps, Nexts, Flags
<1> QED  BY <1>1 DEF Continued, Tasks, Cursors, SameWork

LEMMA RepairedFields ==
    ASSUME NEW t \in Tasks, NEW kind \in Kinds, NEW next \in Nexts,
           NEW manifest \in Manifests, NEW candidate \in Sources
    PROVE  /\ LET u == Repaired(t, kind, next, manifest, candidate)
              IN  /\ u \in Tasks /\ u.pc = "turn" /\ u.kind = kind
                  /\ u.turnStart = manifest /\ u.candidateStart = candidate
                  /\ u.goalStart = t.goalStart /\ u.goalPolicy = t.goalPolicy
                  /\ u.unknown = t.unknown /\ SameWork(u, t)
           /\ LET u == Refuted(t, manifest, candidate)
              IN  /\ u \in Tasks /\ u.pc = "turn" /\ u.kind = "verification_repair"
                  /\ u.turnStart = manifest /\ u.candidateStart = candidate
                  /\ u.goalStart = t.goalStart /\ u.goalPolicy = t.goalPolicy
                  /\ u.unknown = t.unknown /\ SameWork(u, t)
<1>1. /\ "must_change" \in Policies /\ "turn" \in Steps
      /\ "verification_repair" \in Kinds /\ "claim" \in Nexts
    BY DEF Policies, Steps, Kinds, Nexts
<1>2. t.round + 1 \in Counts
    BY DEF Tasks, Counts
<1>3. LET u == Repaired(t, kind, next, manifest, candidate)
      IN  /\ u \in Tasks /\ u.pc = "turn" /\ u.kind = kind
          /\ u.turnStart = manifest /\ u.candidateStart = candidate
          /\ u.goalStart = t.goalStart /\ u.goalPolicy = t.goalPolicy
          /\ u.unknown = t.unknown /\ SameWork(u, t)
    BY <1>1 DEF Repaired, Tasks, SameWork
<1>4. LET u == Refuted(t, manifest, candidate)
      IN  /\ u \in Tasks /\ u.pc = "turn" /\ u.kind = "verification_repair"
          /\ u.turnStart = manifest /\ u.candidateStart = candidate
          /\ u.goalStart = t.goalStart /\ u.goalPolicy = t.goalPolicy
          /\ u.unknown = t.unknown /\ SameWork(u, t)
    BY <1>1, <1>2 DEF Refuted, Tasks, SameWork
<1> QED  BY <1>3, <1>4

LEMMA JudgedFields ==
    ASSUME NEW t \in Tasks, NEW content \in Contents, NEW suite \in Suites
    PROVE  /\ LET u == Audited(t, content)
              IN  /\ u \in Tasks /\ u.pc = "capture" /\ u.audited = content
                  /\ SameTurn(u, t) /\ u.paths = t.paths /\ u.suite = t.suite
           /\ LET u == Captured(t, content, suite)
              IN  /\ u \in Tasks /\ u.pc = "verify" /\ u.candidate = content
                  /\ u.suite = suite /\ u.kind = t.kind /\ u.goalStart = t.goalStart
                  /\ u.turnStart = t.turnStart /\ u.goalPolicy = t.goalPolicy
                  /\ u.unknown = t.unknown /\ u.paths = t.paths /\ u.audited = t.audited
           /\ LET u == Reverified(t, suite)
              IN  /\ u \in Tasks /\ u.pc = "reverify" /\ u.suite = suite
                  /\ u.paths = t.paths
<1>1. /\ content \in Sources /\ None \in Sources /\ "capture" \in Steps
      /\ "verify" \in Steps /\ "reverify" \in Steps
    BY DEF Sources, Steps
<1>2. LET u == Audited(t, content)
      IN  /\ u \in Tasks /\ u.pc = "capture" /\ u.audited = content
          /\ SameTurn(u, t) /\ u.paths = t.paths /\ u.suite = t.suite
    BY <1>1 DEF Audited, Tasks, SameTurn
<1>3. LET u == Captured(t, content, suite)
      IN  /\ u \in Tasks /\ u.pc = "verify" /\ u.candidate = content
          /\ u.suite = suite /\ u.kind = t.kind /\ u.goalStart = t.goalStart
          /\ u.turnStart = t.turnStart /\ u.goalPolicy = t.goalPolicy
          /\ u.unknown = t.unknown /\ u.paths = t.paths /\ u.audited = t.audited
    BY <1>1 DEF Captured, Tasks
<1>4. LET u == Reverified(t, suite)
      IN  u \in Tasks /\ u.pc = "reverify" /\ u.suite = suite /\ u.paths = t.paths
    BY <1>1 DEF Reverified, Tasks
<1> QED  BY <1>2, <1>3, <1>4

LEMMA RecordedFields ==
    ASSUME NEW t \in Tasks, NEW pc \in Steps, NEW paths \in Capsules
    PROVE  LET u == Recorded(t, pc, paths)
           IN  /\ u \in Tasks /\ u.pc = pc /\ u.paths = paths /\ ~u.unknown
               /\ u.suite = t.suite
    BY DEF Recorded, Tasks, Flags

-----------------------------------------------------------------------------
(* Capsules.                                                               *)

LEMMA EmptyCapsule == <<>> \in Capsules /\ DOMAIN <<>> = {}
<1>1. <<>> \in Seq(SUBSET Files) /\ Len(<<>>) = 0 /\ DOMAIN <<>> = {}
    OBVIOUS
<1>2. <<>> \in [1 .. 0 -> SUBSET Files]
    BY <1>1, LenProperties
<1>3. 1 .. 0 \in SUBSET (0 .. GoalCount)
    OBVIOUS
<1> QED  BY <1>1, <1>2, <1>3 DEF Capsules

LEMMA NothingIsDone ==
    /\ NoTask \in Tasks /\ NoTask.pc = "none" /\ NoTask.suite = {}
    /\ NoTask.kind = "build"
    BY EmptyCapsule DEF NoTask, Tasks, Steps, Kinds, Nexts, Sources, Manifests, Policies,
                        Counts, Flags, Suites, Drafts

LEMMA LimitsAreNaturals ==
    /\ GoalCount \in Nat \ {0} /\ MaxTurns \in Nat /\ MaxFaults \in Nat
    /\ Base \in Contents /\ Compiling \subseteq Contents /\ Inheritable \subseteq Contents
    BY GoalLoopAssumption

(* A recovery run starts from a readable checkpoint of its own.            *)
LEMMA InitIsLoopIInv == Init => LoopIInv
<1> SUFFICES ASSUME Init
             PROVE  LoopIInv
    OBVIOUS
<1>1. /\ status = "queued" /\ graph = "none" /\ verified = 0 /\ goal = "pending"
      /\ question = None /\ G = None /\ V = None /\ task = NoTask
      /\ published = None /\ refuted = None /\ strays = {} /\ turns = 0 /\ faults = 0
      /\ inherited \in Sources /\ GoalCount \in Nat \ {0}
    BY GoalLoopAssumption DEF Init, Sources
<1>2. checkpoint \in Checkpoints \cup {None} /\ (inherited = None => checkpoint = None)
    <2>1. CASE inherited # None
        <3>1. PICK id \in {0, 1} :
                  checkpoint = [content |-> inherited,
                                paths |-> [i \in {id} |->
                                              {f \in Files : inherited[f] # Base[f]}]]
            BY <2>1 DEF Init
        <3>2. [i \in {id} |-> {f \in Files : inherited[f] # Base[f]}]
                  \in [{id} -> SUBSET Files]
            OBVIOUS
        <3>3. {id} \in SUBSET (0 .. GoalCount) /\ inherited \in Contents
            BY <1>1, <2>1 DEF Sources
        <3>4. [i \in {id} |-> {f \in Files : inherited[f] # Base[f]}] \in Capsules
            BY <3>2, <3>3 DEF Capsules
        <3> QED  BY <2>1, <3>1, <3>3, <3>4 DEF Checkpoints
    <2> QED  BY <2>1 DEF Init
<1>3. LoopTypes
    BY <1>1, <1>2, NothingIsDone, GoalLoopAssumption DEF LoopTypes, Sources
<1>4. PhaseInv
    BY <1>1, NothingIsDone DEF PhaseInv, Working, Repairing, Judging, Delivering
<1>5. JudgeInv /\ TurnInv /\ StartInv
    BY <1>1, NothingIsDone DEF JudgeInv, TurnInv, StartInv, Working, Repairing, Judging
<1>6. SourceInv /\ CapsuleInv /\ FocusInv
    BY <1>1, <1>2, NothingIsDone DEF SourceInv, CapsuleInv, FocusInv, CheckpointsAreStraight, Judging
<1> QED  BY <1>3, <1>4, <1>5, <1>6 DEF LoopIInv

-----------------------------------------------------------------------------
(* The steps.                                                              *)

(* A run that is over, or queued again, holds nothing.                     *)
LEMMA LeaveKeepsLoopIInv ==
    ASSUME LoopIInv, status = "running",
           status' \in Ended \cup {"queued"}, status' # "succeeded",
           graph' = graph \/ (graph = "active" /\ graph' = "closed"),
           G' = None, V' = None, task' = NoTask, faults' \in 0 .. MaxFaults,
           turns' = turns,
           UNCHANGED <<verified, goal, inherited, checkpoint, question, published, refuted, strays>>
    PROVE  LoopIInv'
<1>1. LoopTypes'
    BY NothingIsDone DEF LoopIInv, LoopTypes, Ended
<1>2. PhaseInv'
    BY NothingIsDone DEF LoopIInv, PhaseInv, Working, Repairing, Judging, Delivering
<1>3. JudgeInv' /\ SourceInv' /\ CapsuleInv' /\ StartInv' /\ FocusInv'
    BY NothingIsDone DEF LoopIInv, JudgeInv, SourceInv, CapsuleInv, StartInv, FocusInv, CheckpointsAreStraight,
                         Working, Repairing, Judging, Approved
<1>4. TurnInv'
    BY NothingIsDone DEF LoopIInv, TurnInv, Working, Repairing, Judging, HasCause,
                         StartsClean, Remembers
<1> QED  BY <1>1, <1>2, <1>3, <1>4 DEF LoopIInv

LEMMA EndKeepsLoopIInv ==
    ASSUME LoopIInv, status = "running", NEW outcome \in Ended \ {"succeeded"},
           End(outcome), faults' \in 0 .. MaxFaults
    PROVE  LoopIInv'
    BY LeaveKeepsLoopIInv DEF End

LEMMA StartKeepsLoopIInv ==
    ASSUME LoopIInv, Start
    PROVE  LoopIInv'
<1>1. PICK u : u = Moved(NoTask, "prepare")
    OBVIOUS
<1>2. task' = u /\ u \in Tasks /\ u.pc = "prepare" /\ u.suite = {}
    BY <1>1, NothingIsDone, MovedFields DEF Start, Moved, Steps, SameWork
<1>3. /\ status = "queued" /\ status' = "running" /\ (question # None => G # None)
      /\ UNCHANGED <<graph, verified, goal, inherited, checkpoint, question, G, V>>
      /\ UNCHANGED <<published, refuted, strays, turns, faults>>
    BY DEF Start
<1>4. LoopTypes'
    BY <1>2, <1>3 DEF LoopIInv, LoopTypes
<1>5. PhaseInv'
    <2>1. PhaseInv /\ V = None /\ published = None
        BY <1>3 DEF LoopIInv, PhaseInv, Working, Repairing, Judging, NoTask
    <2>2. /\ graph' = "verified" <=> verified' = GoalCount
          /\ graph' = "none" => verified' = 0 /\ refuted' = None
        BY <1>3, <2>1 DEF PhaseInv
    <2> QED  BY <1>2, <1>3, <2>1, <2>2 DEF PhaseInv, Working, Repairing, Judging, Delivering
<1>6. JudgeInv' /\ SourceInv' /\ CapsuleInv' /\ StartInv' /\ FocusInv'
    BY <1>2, <1>3 DEF LoopIInv, JudgeInv, SourceInv, CapsuleInv, StartInv, FocusInv, CheckpointsAreStraight,
                      Working, Repairing, Judging, Approved
<1>7. TurnInv'
    BY <1>2, <1>3 DEF LoopIInv, TurnInv, Working, Repairing, Judging, HasCause,
                      StartsClean, Remembers
<1> QED  BY <1>4, <1>5, <1>6, <1>7 DEF LoopIInv

LEMMA PrepareKeepsLoopIInv ==
    ASSUME LoopIInv, Prepare
    PROVE  LoopIInv'
<1> DEFINE pc == CASE graph = "verified" -> "final"
                   [] graph = "none"     -> "planning"
                   [] OTHER              -> "select"
           paths == IF checkpoint = None THEN <<>> ELSE checkpoint.paths
<1>1. /\ status = "running" /\ task.pc = "prepare" /\ task \in Tasks
      /\ UNCHANGED <<status, graph, verified, goal, inherited, checkpoint, question, V>>
      /\ UNCHANGED <<published, refuted, strays, turns, faults>>
    BY DEF Prepare, At, LoopIInv, LoopTypes
<1>2. /\ pc \in {"final", "planning", "select"}
      /\ pc = "final" <=> graph = "verified"
      /\ pc = "planning" <=> graph = "none"
    BY <1>1 DEF LoopIInv, LoopTypes
<1>3. paths \in Capsules
    BY EmptyCapsule DEF LoopIInv, LoopTypes, Checkpoints
<1>4. task' = Prepared(task, pc, paths)
    BY <1>1 DEF Prepare, Prepared
<1> HIDE DEF pc, paths
<1>5. task' \in Tasks /\ task'.pc = pc /\ task'.paths = paths
    <2>1. pc \in Steps
        BY <1>2 DEF Steps
    <2> QED  BY <1>1, <1>3, <1>4, <2>1, PreparedFields
<1>6. /\ G' \in Generations
      /\ question # None => G' = G
      /\ question = None => ~G'.worked
      /\ question = None /\ checkpoint = None => G'.content = Base
    <2>1. CASE question # None
        <3>1. G # None /\ G \in Generations
            BY <1>1, <2>1 DEF LoopIInv, LoopTypes, PhaseInv
        <3>2. G' = G
            BY <2>1 DEF Prepare
        <3> QED  BY <2>1, <3>1, <3>2
    <2>2. CASE question = None /\ checkpoint # None
        <3>1. G' = [content |-> checkpoint.content, taint |-> "clean", worked |-> FALSE]
            BY <2>2 DEF Prepare, RestoredGeneration, FreshGeneration
        <3>2. checkpoint.content \in Contents
            BY <2>2 DEF LoopIInv, LoopTypes, Checkpoints
        <3> QED  BY <2>2, <3>1, <3>2 DEF Generations, Taints
    <2>3. CASE question = None /\ checkpoint = None
        <3>1. G' = [content |-> Base, taint |-> "clean", worked |-> FALSE]
            BY <2>3 DEF Prepare, SeededGeneration, FreshGeneration
        <3> QED  BY <2>3, <3>1, GoalLoopAssumption DEF Generations, Taints
    <2> QED  BY <2>1, <2>2, <2>3
<1>7. LoopTypes'
    BY <1>1, <1>5, <1>6 DEF LoopIInv, LoopTypes
<1>8. PhaseInv'
    <2>1. PhaseInv /\ V = None
        BY <1>1 DEF LoopIInv, PhaseInv, Working, Repairing, Judging
    <2> QED  BY <1>1, <1>2, <1>5, <1>6, <2>1 DEF PhaseInv, Working, Repairing, Judging, Delivering
<1>9. JudgeInv' /\ SourceInv' /\ FocusInv'
    BY <1>1, <1>2, <1>5 DEF LoopIInv, JudgeInv, SourceInv, FocusInv, CheckpointsAreStraight, Working, Repairing,
                            Judging, Approved
<1>10. CapsuleInv'
    BY <1>1, <1>2, <1>5 DEF LoopIInv, CapsuleInv, CheckpointsAreStraight, Covered, paths
<1>11. StartInv'
    BY <1>1, <1>2, <1>5, <1>6 DEF LoopIInv, StartInv, Working, Repairing, Judging
<1>12. TurnInv'
    BY <1>1, <1>2, <1>5 DEF LoopIInv, TurnInv, Working, Repairing, Judging, HasCause,
                            StartsClean, Remembers
<1> QED  BY <1>7, <1>8, <1>9, <1>10, <1>11, <1>12 DEF LoopIInv

LEMMA ContinuationUnavailableKeepsLoopIInv ==
    ASSUME LoopIInv, ContinuationUnavailable
    PROVE  LoopIInv'
<1>1. /\ status = "running" /\ task.pc = "prepare" /\ V = None
      /\ faults' \in 0 .. MaxFaults
    BY GoalLoopAssumption DEF ContinuationUnavailable, At, Fault, LoopIInv, LoopTypes,
                              PhaseInv
<1> QED
    BY <1>1, LeaveKeepsLoopIInv DEF ContinuationUnavailable, Ended

(* The plan is frozen and its question, if any, answered.                  *)
LEMMA PlannedKeepsLoopIInv ==
    ASSUME LoopIInv, At("planning"), Planned, turns' \in 0 .. MaxTurns,
           UNCHANGED <<status, verified, goal, inherited, checkpoint, G, V, published,
                       refuted, strays, faults>>
    PROVE  LoopIInv'
<1>1. /\ status = "running" /\ task.pc = "planning" /\ task \in Tasks
      /\ graph = "none" /\ V = None /\ G \in Generations
      /\ graph' = "active" /\ question' = None
      /\ task' = Moved(task, "select")
    BY DEF At, Planned, Moved, LoopIInv, LoopTypes, PhaseInv
<1>2. /\ task' \in Tasks /\ task'.pc = "select" /\ SameWork(task', task)
    BY <1>1, MovedFields DEF Steps
<1>3. LoopTypes'
    BY <1>1, <1>2 DEF LoopIInv, LoopTypes
<1>4. PhaseInv'
    <2>1. PhaseInv /\ verified # GoalCount /\ published = None
        BY <1>1 DEF LoopIInv, PhaseInv
    <2> QED  BY <1>1, <1>2, <2>1 DEF PhaseInv, Working, Repairing, Judging, Delivering
<1>5. JudgeInv' /\ SourceInv' /\ FocusInv'
    BY <1>1, <1>2 DEF LoopIInv, JudgeInv, SourceInv, FocusInv, CheckpointsAreStraight, Judging, Approved
<1>6. CapsuleInv' /\ StartInv' /\ TurnInv'
    BY <1>1, <1>2, NoneAssumption DEF LoopIInv, CapsuleInv, CheckpointsAreStraight, StartInv, TurnInv, Covered,
                                      SameWork, Working, Repairing, Judging
<1> QED  BY <1>3, <1>4, <1>5, <1>6 DEF LoopIInv

LEMMA PlanningTurnKeepsLoopIInv ==
    ASSUME LoopIInv, PlanningTurn
    PROVE  LoopIInv'
<1>1. turns' \in 0 .. MaxTurns
    <2>1. turns \in 0 .. MaxTurns /\ turns < MaxTurns /\ turns' = turns + 1
        BY DEF PlanningTurn, LoopIInv, LoopTypes
    <2> QED  BY <2>1, LimitsAreNaturals
<1>2. CASE Planned
    BY <1>1, <1>2, PlannedKeepsLoopIInv DEF PlanningTurn
<1>3. ASSUME NEW draft \in InvalidDrafts,
             task' = Corrected(task, draft), question' = None, graph' = graph
      PROVE  LoopIInv'
    <2>1. /\ status = "running" /\ task.pc = "planning" /\ task \in Tasks
          /\ graph = "none" /\ V = None /\ G \in Generations
          /\ UNCHANGED <<status, verified, goal, inherited, checkpoint, G, V, published>>
          /\ UNCHANGED <<refuted, strays, faults>>
        BY DEF PlanningTurn, At, LoopIInv, LoopTypes, PhaseInv
    <2>2. task' \in Tasks /\ task'.pc = "planning" /\ SameWork(task', task)
        BY <1>3, <2>1, CorrectedFields
    <2>3. LoopTypes'
        BY <1>1, <1>3, <2>1, <2>2 DEF LoopIInv, LoopTypes
    <2>4. PhaseInv'
        <3>1. PhaseInv /\ published = None
            BY <2>1 DEF LoopIInv, PhaseInv
        <3> QED  BY <1>3, <2>1, <2>2, <3>1 DEF PhaseInv, Working, Repairing, Judging, Delivering
    <2>5. JudgeInv' /\ SourceInv' /\ FocusInv'
        BY <2>1, <2>2 DEF LoopIInv, JudgeInv, SourceInv, FocusInv, CheckpointsAreStraight, Judging, Approved
    <2>6. CapsuleInv' /\ StartInv' /\ TurnInv'
        BY <1>3, <2>1, <2>2 DEF LoopIInv, CapsuleInv, CheckpointsAreStraight, StartInv, TurnInv, Covered, SameWork,
                                Working, Repairing, Judging
    <2> QED  BY <2>3, <2>4, <2>5, <2>6 DEF LoopIInv
<1> QED  BY <1>2, <1>3 DEF PlanningTurn, Corrected

(* The goal starts from what G is, and may do nothing only if that is the  *)
(* last checkpoint.                                                        *)
LEMMA StartGoalKeepsLoopIInv ==
    ASSUME LoopIInv, StartGoal
    PROVE  LoopIInv'
<1> DEFINE policy == InitialGoalEffectPolicy(CheckpointBound)
           unknown == task.unknown \/ (checkpoint # None /\ ~CheckpointBound)
<1>1. /\ status = "running" /\ task.pc = "select" /\ task \in Tasks /\ question = None
      /\ G \in Generations /\ G # None /\ graph \notin {"none", "verified"}
      /\ UNCHANGED <<status, graph, verified, inherited, checkpoint, question, V>>
      /\ UNCHANGED <<published, strays, turns, faults>>
      /\ goal' = "active" /\ refuted' = None
    BY NoneAssumption DEF StartGoal, At, LoopIInv, LoopTypes, PhaseInv
<1>2. G' \in Generations /\ G'.content = G.content /\ G'.worked = G.worked
    <2>1. PICK taint \in Taints : G' = [G EXCEPT !.taint = taint]
        BY <1>1 DEF StartGoal, ReconcileAdvisory, Generations, Taints
    <2> QED  BY <1>1, <2>1 DEF Generations
<1>3. G.content \in Contents /\ policy \in Policies
    BY <1>1 DEF Generations, InitialGoalEffectPolicy, Policies
<1>4. PICK flag \in Flags : flag = unknown
    BY DEF Flags
<1>5. task' = Begun(task, G.content, policy, flag)
    BY <1>1, <1>4 DEF StartGoal, Begun
<1>6. /\ policy = "may_noop" =>
             verified > 0 /\ checkpoint # None /\ checkpoint.content = G.content
      /\ ~flag /\ checkpoint # None => checkpoint.content = G.content
    BY <1>4 DEF InitialGoalEffectPolicy, CheckpointBound
<1> HIDE DEF policy, unknown
<1>7. /\ task' \in Tasks /\ task'.pc = "turn" /\ task'.kind = "build"
      /\ task'.goalStart = G.content /\ task'.turnStart = <<G.content, "clean">>
      /\ task'.candidateStart = None /\ task'.goalPolicy = policy /\ task'.unknown = flag
      /\ task'.paths = task.paths
    BY <1>1, <1>3, <1>5, BegunFields DEF SameWork
<1>8. LoopTypes'
    BY <1>1, <1>2, <1>7 DEF LoopIInv, LoopTypes, Sources
<1>9. PhaseInv'
    <2>1. PhaseInv
        BY DEF LoopIInv
    <2> QED  BY <1>1, <1>2, <1>7, <2>1 DEF PhaseInv, Working, Repairing, Judging, Delivering
<1>10. JudgeInv' /\ SourceInv' /\ FocusInv'
    BY <1>1, <1>7 DEF LoopIInv, JudgeInv, SourceInv, FocusInv, CheckpointsAreStraight, Judging, Approved
<1>11. TurnInv'
    BY <1>1, <1>6, <1>7 DEF TurnInv, Working, Repairing, Judging, HasCause, StartsClean,
                            Remembers
<1>12. CapsuleInv'
    BY <1>1, <1>7 DEF LoopIInv, CapsuleInv, CheckpointsAreStraight, Covered
<1>13. StartInv'
    <2>1. StartInv /\ (verified > 0 => checkpoint # None)
          /\ (verified = 0 /\ inherited = None => checkpoint = None)
        BY DEF LoopIInv, CapsuleInv, CheckpointsAreStraight
    <2>2. ~flag /\ verified > 0 => G.content = checkpoint.content
        BY <1>6, <2>1
    <2>3. inherited = None /\ verified = 0 => G.content = Base
        BY <1>1, <2>1 DEF StartInv
    <2>4. /\ task'.pc = "turn" => task'.pc # "select"
          /\ checkpoint' = None => G'.worked \/ G'.content = Base
        BY <1>1, <1>2, <2>1 DEF StartInv
    <2> QED  BY <1>1, <1>7, <2>2, <2>3, <2>4 DEF StartInv
<1> QED  BY <1>8, <1>9, <1>10, <1>11, <1>12, <1>13 DEF LoopIInv

LEMMA ContinueGoalKeepsLoopIInv ==
    ASSUME LoopIInv, ContinueGoal
    PROVE  LoopIInv'
<1>1. /\ status = "running" /\ task.pc = "select" /\ task \in Tasks
      /\ question # None /\ question \in Cursors
      /\ G \in Generations /\ G # None /\ graph \notin {"none", "verified"}
      /\ UNCHANGED <<status, graph, verified, goal, inherited, checkpoint, question, V>>
      /\ UNCHANGED <<published, refuted, strays, turns, faults>>
    BY NoneAssumption DEF ContinueGoal, At, LoopIInv, LoopTypes, PhaseInv
<1>2. G' \in Generations /\ G'.content = G.content /\ G'.worked = G.worked
    <2>1. PICK taint \in Taints : G' = [G EXCEPT !.taint = taint]
        BY <1>1 DEF ContinueGoal, ReconcileAdvisory, Generations, Taints
    <2> QED  BY <1>1, <2>1 DEF Generations
<1>3. task' = Continued(task, question)
    BY DEF ContinueGoal, ContinuedTurn, Continued
<1>4. /\ task' \in Tasks /\ task'.pc = "turn" /\ task'.kind = question.kind
      /\ task'.goalStart = question.goalStart /\ task'.turnStart = question.turnStart
      /\ task'.candidateStart = question.candidateStart
      /\ task'.goalPolicy = question.goalPolicy /\ task'.unknown
      /\ task'.paths = task.paths
    BY <1>1, <1>3, ContinuedFields
<1>5. LoopTypes'
    BY <1>1, <1>2, <1>4 DEF LoopIInv, LoopTypes
<1>6. PhaseInv'
    <2>1. PhaseInv
        BY DEF LoopIInv
    <2> QED  BY <1>1, <1>2, <1>4, <2>1 DEF PhaseInv, Working, Repairing, Judging, Delivering
<1>7. JudgeInv' /\ SourceInv' /\ FocusInv'
    BY <1>1, <1>4 DEF LoopIInv, JudgeInv, SourceInv, FocusInv, CheckpointsAreStraight, Judging, Approved
<1>8. TurnInv'
    BY <1>1, <1>4 DEF LoopIInv, TurnInv, Working, Repairing, Judging, HasCause,
                      StartsClean, Remembers
<1>9. CapsuleInv'
    BY <1>1, <1>4 DEF LoopIInv, CapsuleInv, CheckpointsAreStraight, Covered
<1>10. StartInv'
    BY <1>1, <1>2, <1>4 DEF LoopIInv, StartInv
<1> QED  BY <1>5, <1>6, <1>7, <1>8, <1>9, <1>10 DEF LoopIInv

LEMMA TurnKeepsLoopIInv ==
    ASSUME LoopIInv, Turn
    PROVE  LoopIInv'
<1>1. /\ status = "running" /\ task.pc = "turn" /\ task \in Tasks
      /\ graph \notin {"none", "verified"}
      /\ UNCHANGED <<status, graph, verified, goal, inherited, checkpoint, V>>
      /\ UNCHANGED <<published, refuted, strays, faults>>
      /\ question' = None
    BY DEF Turn, At, LoopIInv, LoopTypes, PhaseInv, Working, Repairing
<1>2. turns' \in 0 .. MaxTurns
    <2>1. turns \in 0 .. MaxTurns /\ turns < MaxTurns /\ turns' = turns + 1
        BY DEF Turn, LoopIInv, LoopTypes
    <2> QED  BY <2>1, LimitsAreNaturals
<1>3. G' \in Generations /\ G'.worked
    BY DEF Turn, Work, Generations
<1>4. task' = Moved(task, "settle")
    BY DEF Turn, Moved
<1>5. /\ task' \in Tasks /\ task'.pc = "settle"
      /\ SameTurn(task', task) /\ SameWork(task', task)
    BY <1>1, <1>4, MovedFields DEF Steps
<1>6. LoopTypes'
    BY <1>1, <1>2, <1>3, <1>5 DEF LoopIInv, LoopTypes
<1>7. PhaseInv'
    <2>1. PhaseInv
        BY DEF LoopIInv
    <2> QED  BY <1>1, <1>3, <1>5, <2>1 DEF PhaseInv, Working, Repairing, Judging, Delivering
<1>8. JudgeInv' /\ SourceInv' /\ FocusInv'
    BY <1>1, <1>5 DEF LoopIInv, JudgeInv, SourceInv, FocusInv, CheckpointsAreStraight, Judging, Approved
<1>9. TurnInv'
    BY <1>1, <1>5 DEF LoopIInv, TurnInv, Working, Repairing, Judging, HasCause,
                      StartsClean, Remembers, SameTurn
<1>10. CapsuleInv'
    BY <1>1, <1>5 DEF LoopIInv, CapsuleInv, CheckpointsAreStraight, Covered, SameWork
<1>11. StartInv'
    BY <1>1, <1>3, <1>5 DEF LoopIInv, StartInv, SameTurn, Working, Repairing
<1> QED  BY <1>6, <1>7, <1>8, <1>9, <1>10, <1>11 DEF LoopIInv

(* The cursor of the question keeps what the turn relies on.               *)
LEMMA AskUserKeepsLoopIInv ==
    ASSUME LoopIInv, AskUser
    PROVE  LoopIInv'
<1>1. /\ status = "running" /\ task.pc \in {"planning", "turn"} /\ task \in Tasks
      /\ G \in Generations /\ G # None /\ V = None /\ published = None
      /\ status' = "waiting" /\ task' = NoTask /\ question' = TurnContext
      /\ UNCHANGED <<graph, verified, goal, inherited, checkpoint, V>>
      /\ UNCHANGED <<published, refuted, strays, faults>>
    BY NoneAssumption DEF AskUser, At, LoopIInv, LoopTypes, PhaseInv
<1>2. turns' \in 0 .. MaxTurns
    <2>1. turns \in 0 .. MaxTurns /\ turns < MaxTurns /\ turns' = turns + 1
        BY DEF AskUser, LoopIInv, LoopTypes
    <2> QED  BY <2>1, LimitsAreNaturals
<1>3. /\ G' \in Generations
      /\ task.pc = "planning" => G' = G
      /\ task.pc = "turn" => G'.worked
    <2>1. CASE task.pc = "planning" /\ G' = G
        BY <1>1, <2>1
    <2>2. CASE task.pc = "turn" /\ \E content \in Contents, taint \in Taints :
                                       Work(content, taint)
        BY <2>2 DEF Work, Generations
    <2> QED  BY <2>1, <2>2 DEF AskUser, At
<1>4. /\ question' \in Cursors
      /\ question'.kind = task.kind /\ question'.goalStart = task.goalStart
      /\ question'.turnStart = task.turnStart /\ question'.goalPolicy = task.goalPolicy
      /\ question'.candidateStart = task.candidateStart
    BY <1>1 DEF TurnContext, Tasks, Cursors
<1>5. LoopTypes'
    BY <1>1, <1>2, <1>3, <1>4, NothingIsDone DEF LoopIInv, LoopTypes
<1>6. PhaseInv'
    <2>1. PhaseInv
        BY DEF LoopIInv
    <2> QED  BY <1>1, <2>1, NothingIsDone DEF PhaseInv, Working, Repairing, Judging, Delivering
<1>7. JudgeInv' /\ SourceInv' /\ FocusInv' /\ CapsuleInv'
    BY <1>1, NothingIsDone DEF LoopIInv, JudgeInv, SourceInv, FocusInv, CheckpointsAreStraight, CapsuleInv,
                               Covered, Judging, Approved
<1>8. TurnInv'
    <2>1. CASE task.pc = "planning"
        <3>1. graph' = "none"
            BY <1>1, <2>1 DEF LoopIInv, PhaseInv
        <3> QED  BY <1>1, <3>1, NothingIsDone DEF TurnInv, Working, Repairing, Judging
    <2>2. CASE task.pc = "turn"
        <3>1. HasCause(task) /\ StartsClean(task) /\ Remembers(task)
            BY <2>2 DEF LoopIInv, TurnInv, Working, Repairing
        <3>2. (HasCause(question) /\ StartsClean(question) /\ Remembers(question))'
            BY <1>1, <1>4, <3>1 DEF HasCause, StartsClean, Remembers
        <3> QED  BY <1>1, <3>2, NothingIsDone DEF TurnInv, Working, Repairing, Judging
    <2> QED  BY <1>1, <2>1, <2>2
<1>9. StartInv'
    <2>1. StartInv /\ (task.pc = "turn" => graph # "none")
        BY DEF LoopIInv, PhaseInv, Working, Repairing
    <2> QED  BY <1>1, <1>3, <2>1, NothingIsDone DEF StartInv, Working, Repairing, Judging
<1> QED  BY <1>5, <1>6, <1>7, <1>8, <1>9 DEF LoopIInv

LEMMA AnswerUserKeepsLoopIInv ==
    ASSUME LoopIInv, AnswerUser
    PROVE  LoopIInv'
<1>1. /\ status = "waiting" /\ status' = "queued" /\ task = NoTask
      /\ UNCHANGED <<graph, verified, goal, inherited, checkpoint, question, G, V, task>>
      /\ UNCHANGED <<published, refuted, strays, turns, faults>>
    BY DEF AnswerUser, LoopIInv, PhaseInv
<1>2. LoopTypes' /\ JudgeInv' /\ SourceInv' /\ FocusInv' /\ CapsuleInv'
    BY <1>1 DEF LoopIInv, LoopTypes, JudgeInv, SourceInv, FocusInv, CheckpointsAreStraight, CapsuleInv, Covered,
                Approved, VerificationStable
<1>3. StartInv' /\ TurnInv'
    BY <1>1 DEF LoopIInv, StartInv, TurnInv, HasCause, StartsClean, Remembers
<1>4. PhaseInv'
    <2>1. PhaseInv
        BY DEF LoopIInv
    <2> QED  BY <1>1, <2>1 DEF PhaseInv
<1> QED  BY <1>2, <1>3, <1>4 DEF LoopIInv

(* The server goes from one check of the turn to the next.                 *)
LEMMA CheckedKeepsLoopIInv ==
    ASSUME LoopIInv, status = "running", task.pc \in {"settle", "typecheck", "claim"},
           NEW pc \in {"typecheck", "claim", "audit"},
           task' = [task EXCEPT !.pc = pc], goal' \in {goal, "claimed"},
           UNCHANGED <<status, graph, verified, inherited, checkpoint, question, G, V,
                       published, refuted, strays, turns, faults>>
    PROVE  LoopIInv'
<1>1. task' = Moved(task, pc) /\ pc \in Steps /\ task \in Tasks
    BY DEF Moved, Steps, LoopIInv, LoopTypes
<1>2. /\ task' \in Tasks /\ task'.pc = pc
      /\ SameTurn(task', task) /\ SameWork(task', task)
    BY <1>1, MovedFields
<1>3. LoopTypes'
    BY <1>2 DEF LoopIInv, LoopTypes
<1>4. PhaseInv'
    <2>1. PhaseInv
        BY DEF LoopIInv
    <2> QED  BY <1>2, <2>1 DEF PhaseInv, Working, Repairing, Judging, Delivering
<1>5. JudgeInv' /\ SourceInv' /\ FocusInv'
    BY <1>2 DEF LoopIInv, JudgeInv, SourceInv, FocusInv, CheckpointsAreStraight, Judging, Approved
<1>6. TurnInv'
    BY <1>2 DEF LoopIInv, TurnInv, Working, Repairing, Judging, HasCause, StartsClean,
                Remembers, SameTurn
<1>7. CapsuleInv' /\ StartInv'
    BY <1>2 DEF LoopIInv, CapsuleInv, CheckpointsAreStraight, StartInv, Covered, SameTurn, SameWork, Working,
                Repairing, Judging
<1> QED  BY <1>3, <1>4, <1>5, <1>6, <1>7 DEF LoopIInv

(* The goal goes back to the agent, which has to change something; the     *)
(* candidate that failed a verification is not forgotten.                  *)
LEMMA RepairKeepsLoopIInv ==
    ASSUME LoopIInv, status = "running", task.pc \in {"settle", "typecheck", "audit"},
           NEW kind \in Kinds \ {"build"}, NEW next \in Nexts,
           task' = Repair(kind, next), goal' \in {goal, "active"},
           UNCHANGED <<status, graph, verified, inherited, checkpoint, question, G, V,
                       published, refuted, strays, turns, faults>>
    PROVE  LoopIInv'
<1> DEFINE candidate == IF task.candidateStart = None /\ G.taint # "rejected"
                        THEN G.content ELSE task.candidateStart
<1>1. /\ G \in Generations /\ task \in Tasks
      /\ task' = Repaired(task, kind, next, Manifest, candidate)
    BY DEF Repair, Repaired, LoopIInv, LoopTypes, PhaseInv
<1>2. candidate \in Sources /\ Manifest \in Manifests
    BY <1>1 DEF Generations, Tasks, Sources, Manifest, Manifests
<1>3. refuted # None => candidate = refuted
    BY DEF LoopIInv, TurnInv, Repairing, Remembers
<1> HIDE DEF candidate
<1>4. /\ task' \in Tasks /\ task'.pc = "turn" /\ task'.kind = kind
      /\ task'.candidateStart = candidate /\ task'.goalStart = task.goalStart
      /\ task'.goalPolicy = task.goalPolicy /\ task'.unknown = task.unknown
      /\ SameWork(task', task)
    BY <1>1, <1>2, RepairedFields
<1>5. LoopTypes'
    BY <1>4 DEF LoopIInv, LoopTypes
<1>6. PhaseInv'
    <2>1. PhaseInv
        BY DEF LoopIInv
    <2> QED  BY <1>4, <2>1 DEF PhaseInv, Working, Repairing, Judging, Delivering
<1>7. JudgeInv' /\ SourceInv' /\ FocusInv'
    BY <1>4 DEF LoopIInv, JudgeInv, SourceInv, FocusInv, CheckpointsAreStraight, Judging, Approved
<1>8. TurnInv'
    BY <1>3, <1>4 DEF LoopIInv, TurnInv, Working, Repairing, Judging, HasCause,
                      StartsClean, Remembers
<1>9. CapsuleInv' /\ StartInv'
    BY <1>4 DEF LoopIInv, CapsuleInv, CheckpointsAreStraight, StartInv, Covered, SameWork, Working, Repairing,
                Judging
<1> QED  BY <1>5, <1>6, <1>7, <1>8, <1>9 DEF LoopIInv

LEMMA SettleTurnKeepsLoopIInv ==
    ASSUME LoopIInv, SettleTurn
    PROVE  LoopIInv'
<1>1. /\ status = "running" /\ task.pc = "settle" /\ task \in Tasks
      /\ UNCHANGED <<verified, goal, inherited, checkpoint, question, published>>
      /\ UNCHANGED <<refuted, strays, turns, faults>>
    BY DEF SettleTurn, At, LoopIInv, LoopTypes
<1>2. CASE task' = [task EXCEPT !.pc = task.next] /\ UNCHANGED <<status, graph, G, V>>
    <2>1. task.next \in {"typecheck", "claim"}
        BY <1>1 DEF Tasks, Nexts
    <2> QED  BY <1>1, <1>2, <2>1, CheckedKeepsLoopIInv
<1>3. CASE task' = Repair("settlement_repair", "typecheck") /\ UNCHANGED <<status, graph, G, V>>
    BY <1>1, <1>3, RepairKeepsLoopIInv DEF Kinds, Nexts
<1>4. CASE End("failed")
    BY <1>1, <1>4, EndKeepsLoopIInv DEF Ended, LoopIInv, LoopTypes
<1> QED  BY <1>2, <1>3, <1>4 DEF SettleTurn

LEMMA TypecheckKeepsLoopIInv ==
    ASSUME LoopIInv, Typecheck
    PROVE  LoopIInv'
<1>1. /\ status = "running" /\ task.pc = "typecheck"
      /\ UNCHANGED <<status, graph, verified, goal, inherited, checkpoint, question, G>>
      /\ UNCHANGED <<V, published, refuted, strays, turns, faults>>
    BY DEF Typecheck, At
<1>2. CASE task' = [task EXCEPT !.pc = "claim"]
    BY <1>1, <1>2, CheckedKeepsLoopIInv
<1>3. CASE task' = Repair("typecheck_repair", "typecheck")
    BY <1>1, <1>3, RepairKeepsLoopIInv DEF Kinds, Nexts
<1> QED  BY <1>2, <1>3 DEF Typecheck

LEMMA ClaimKeepsLoopIInv ==
    ASSUME LoopIInv, Claim
    PROVE  LoopIInv'
    BY CheckedKeepsLoopIInv DEF Claim, At

(* What the audit read is what G is until the capture, unless it strays.   *)
LEMMA AuditKeepsLoopIInv ==
    ASSUME LoopIInv, Audit
    PROVE  LoopIInv'
<1>1. /\ status = "running" /\ task.pc = "audit" /\ task \in Tasks
      /\ G \in Generations /\ G # None
      /\ UNCHANGED <<status, graph, verified, inherited, checkpoint, question, V>>
      /\ UNCHANGED <<published, refuted, turns, faults>> /\ verified \in Nat
    BY NoneAssumption, LimitsAreNaturals DEF Audit, At, LoopIInv, LoopTypes, PhaseInv
<1>2. CASE task' = [task EXCEPT !.pc = "capture", !.audited = G.content]
           /\ strays' = strays \ {verified + 1}
           /\ UNCHANGED <<goal, G>>
    <2>1. task' = Audited(task, G.content) /\ G.content \in Contents /\ {} \in Suites
        BY <1>1, <1>2 DEF Audited, Generations, Suites
    <2>2. /\ task' \in Tasks /\ task'.pc = "capture" /\ task'.audited = G.content
          /\ SameTurn(task', task) /\ task'.paths = task.paths
        BY <1>1, <2>1, JudgedFields
    <2>3. LoopTypes'
        BY <1>1, <1>2, <2>2 DEF LoopIInv, LoopTypes
    <2>4. PhaseInv'
        <3>1. PhaseInv
            BY DEF LoopIInv
        <3> QED  BY <1>1, <1>2, <2>2, <3>1 DEF PhaseInv, Working, Repairing, Judging,
                                               Delivering
    <2>5. JudgeInv' /\ SourceInv' /\ FocusInv'
        BY <1>1, <1>2, <2>1, <2>2 DEF LoopIInv, JudgeInv, SourceInv, FocusInv, CheckpointsAreStraight, Judging,
                                      Approved
    <2>6. TurnInv'
        BY <1>1, <1>2, <2>2 DEF LoopIInv, TurnInv, Working, Repairing, Judging, HasCause,
                                StartsClean, Remembers, SameTurn
    <2>7. CapsuleInv' /\ StartInv'
        BY <1>1, <1>2, <2>2 DEF LoopIInv, CapsuleInv, CheckpointsAreStraight, StartInv, Covered, SameTurn, Working,
                                Repairing, Judging
    <2> QED  BY <2>3, <2>4, <2>5, <2>6, <2>7 DEF LoopIInv
<1>3. CASE G' = RestoreProtectedFiles /\ UNCHANGED <<goal, task, strays>>
    <2>1. G' \in Generations /\ G'.content = G.content /\ G'.worked = G.worked
        BY <1>1, <1>3 DEF RestoreProtectedFiles, Generations, Taints
    <2>2. LoopTypes'
        BY <1>1, <1>3, <2>1 DEF LoopIInv, LoopTypes
    <2>3. PhaseInv'
        <3>1. PhaseInv
            BY DEF LoopIInv
        <3> QED  BY <1>1, <1>3, <2>1, <3>1 DEF PhaseInv, Working, Repairing, Judging
    <2>4. JudgeInv' /\ SourceInv' /\ FocusInv'
        BY <1>1, <1>3, <2>1 DEF LoopIInv, JudgeInv, SourceInv, FocusInv, CheckpointsAreStraight, Judging, Approved
    <2>5. TurnInv'
        BY <1>1, <1>3 DEF LoopIInv, TurnInv, HasCause, StartsClean, Remembers
    <2>6. CapsuleInv' /\ StartInv'
        BY <1>1, <1>3, <2>1 DEF LoopIInv, CapsuleInv, CheckpointsAreStraight, StartInv, Covered
    <2> QED  BY <2>2, <2>3, <2>4, <2>5, <2>6 DEF LoopIInv
<1>4. CASE /\ goal' = "active"
           /\ task' = Repair("workspace_audit_repair", "claim")
           /\ UNCHANGED <<G, strays>>
    BY <1>1, <1>4, RepairKeepsLoopIInv DEF Kinds, Nexts
<1> QED  BY <1>2, <1>3, <1>4 DEF Audit

(* The suite of a focused verification: what the goal changed is none of   *)
(* the earlier goals' business, so it left their files as they were.       *)
LEMMA SuiteIsSound ==
    ASSUME LoopIInv, task.pc = "capture", NEW content \in Contents
    PROVE  /\ RegressionSuite(content) \in Suites
           /\ verified + 1 \in RegressionSuite(content)
           /\ verified + 1 = GoalCount => RegressionSuite(content) = GoalIds
           /\ CheckpointsAreStraight /\ inherited = None /\ verified > 0
              /\ RegressionSuite(content) = {verified + 1} =>
                     \A f \in Files : checkpoint.content[f] # Base[f] =>
                                          content[f] = checkpoint.content[f]
<1>1. verified \in 0 .. GoalCount /\ verified # GoalCount /\ GoalCount \in Nat \ {0}
    BY LimitsAreNaturals DEF LoopIInv, LoopTypes, PhaseInv, Working, Repairing
<1>2. verified + 1 \in GoalIds
    BY <1>1 DEF GoalIds
<1>3. RegressionSuite(content) \in {1 .. verified + 1, {verified + 1}}
    BY DEF RegressionSuite
<1>4. 1 .. verified + 1 \in Suites /\ verified + 1 \in 1 .. verified + 1
    BY <1>1 DEF Suites, GoalIds
<1>5. verified + 1 = GoalCount => RegressionSuite(content) = GoalIds
    BY DEF RegressionSuite, GoalIds
<1>6. ASSUME CheckpointsAreStraight, inherited = None, verified > 0,
             RegressionSuite(content) = {verified + 1},
             NEW f \in Files, checkpoint.content[f] # Base[f]
      PROVE  content[f] = checkpoint.content[f]
    <2>1. 1 .. verified + 1 # {verified + 1}
        <3>1. 1 \in 1 .. verified + 1 /\ 1 # verified + 1
            BY <1>1, <1>6
        <3> QED  BY <3>1
    <2>2. ~task.unknown /\ Delta(task.goalStart, content) \cap PriorPaths = {}
        BY <1>6, <2>1 DEF RegressionSuite
    <2>3. task.goalStart = checkpoint.content /\ task.paths = checkpoint.paths
        BY <1>6, <2>2 DEF LoopIInv, StartInv, CapsuleInv, CheckpointsAreStraight, Working, Repairing
    <2>4. f \in PriorPaths
        BY <1>6, <2>3 DEF LoopIInv, CapsuleInv, CheckpointsAreStraight, Covered, PriorPaths
    <2> QED  BY <2>2, <2>3, <2>4 DEF Delta
<1> QED  BY <1>2, <1>3, <1>4, <1>5, <1>6 DEF Suites

(* The candidate is captured: V is what the audit read, and so, unless G   *)
(* strayed, the candidate itself.                                          *)
LEMMA CaptureKeepsLoopIInv ==
    ASSUME LoopIInv, Capture
    PROVE  LoopIInv'
<1>1. /\ status = "running" /\ task.pc = "capture" /\ task \in Tasks
      /\ G \in Generations /\ G # None /\ task.audited \in Contents
      /\ UNCHANGED <<verified, goal, inherited, checkpoint, question, published>>
      /\ UNCHANGED <<refuted, strays, turns, faults>>
    BY NoneAssumption DEF Capture, At, LoopIInv, LoopTypes, PhaseInv, JudgeInv
<1>2. CASE CandidateIsAdmitted
           /\ V' = CreateVerification(task.audited)
           /\ task' = Captured(task, G.content, RegressionSuite(G.content))
           /\ UNCHANGED <<status, graph, G>>
    <2>1. G.content \in Contents
        BY <1>1 DEF Generations
    <2>2. PICK suite : suite = RegressionSuite(G.content)
        OBVIOUS
    <2>3. /\ suite \in Suites
          /\ verified + 1 \in suite
          /\ verified + 1 = GoalCount => suite = GoalIds
          /\ CheckpointsAreStraight /\ inherited = None /\ verified > 0
             /\ suite = {verified + 1} =>
                    \A f \in Files : checkpoint.content[f] # Base[f] =>
                                         G.content[f] = checkpoint.content[f]
        BY <1>1, <2>1, <2>2, SuiteIsSound
    <2>4. /\ task' \in Tasks /\ task'.pc = "verify" /\ task'.candidate = G.content
          /\ task'.suite = suite /\ task'.kind = task.kind
          /\ task'.goalStart = task.goalStart /\ task'.turnStart = task.turnStart
          /\ task'.goalPolicy = task.goalPolicy /\ task'.unknown = task.unknown
          /\ task'.paths = task.paths /\ task'.audited = task.audited
        <3>1. task' = Captured(task, G.content, suite)
            BY <1>2, <2>2
        <3>2. task \in Tasks /\ G.content \in Contents /\ suite \in Suites
            BY <1>1, <2>1, <2>3
        <3> QED  BY ONLY <3>1, <3>2, JudgedFields
    <2>5. V' \in Verifications /\ V'.frozen = task.audited
        BY <1>1, <1>2 DEF CreateVerification, Verifications
    <2>6. LoopTypes'
        BY <1>1, <1>2, <2>4, <2>5 DEF LoopIInv, LoopTypes
    <2>7. PhaseInv'
        <3>1. PhaseInv
            BY DEF LoopIInv
        <3> QED  BY <1>1, <1>2, <2>4, <2>5, <3>1 DEF PhaseInv, Working, Repairing, Judging,
                                                     Delivering
    <2>8. JudgeInv'
        BY <1>1, <2>1, <2>3, <2>4 DEF JudgeInv, Judging
    <2>9. SourceInv'
        BY <1>1, <1>2, <2>4, <2>5 DEF LoopIInv, SourceInv, Judging, Approved
    <2>10. FocusInv'
        BY <1>1, <2>3, <2>4 DEF FocusInv, CheckpointsAreStraight
    <2>11. TurnInv'
        <3>1. task.goalPolicy = "may_noop" \/ G.content # task.goalStart
            BY <1>2 DEF CandidateIsAdmitted, Settled
        <3>2. HasCause(task) /\ StartsClean(task)
            BY <1>1 DEF LoopIInv, TurnInv, Working, Repairing
        <3> QED  BY <1>1, <1>2, <2>4, <3>1, <3>2 DEF LoopIInv, TurnInv, Working, Repairing,
                     Judging, HasCause, StartsClean, Remembers
    <2>12. CapsuleInv' /\ StartInv'
        BY <1>1, <1>2, <2>4 DEF LoopIInv, CapsuleInv, CheckpointsAreStraight, StartInv, Covered, Working, Repairing,
                                Judging
    <2> QED  BY <2>6, <2>7, <2>8, <2>9, <2>10, <2>11, <2>12 DEF LoopIInv
<1>3. CASE End("failed")
    BY <1>1, <1>3, EndKeepsLoopIInv DEF Ended, LoopIInv, LoopTypes
<1> QED  BY <1>2, <1>3 DEF Capture, Captured

LEMMA VerificationPassesKeepsLoopIInv ==
    ASSUME LoopIInv, VerificationPasses
    PROVE  LoopIInv'
<1>1. /\ status = "running" /\ task.pc = "verify" /\ task \in Tasks /\ V \in Verifications
      /\ UNCHANGED <<status, graph, verified, goal, inherited, checkpoint, question, G>>
      /\ UNCHANGED <<V, published, refuted, strays, turns, faults>>
      /\ GatesPass(task.suite)
    BY DEF VerificationPasses, At, LoopIInv, LoopTypes, PhaseInv
<1>2. task' = Moved(task, "accept")
    BY DEF VerificationPasses, Moved
<1>3. /\ task' \in Tasks /\ task'.pc = "accept"
      /\ SameTurn(task', task) /\ SameWork(task', task)
    BY <1>1, <1>2, MovedFields DEF Steps
<1>4. LoopTypes'
    BY <1>1, <1>3 DEF LoopIInv, LoopTypes
<1>5. PhaseInv'
    <2>1. PhaseInv
        BY DEF LoopIInv
    <2> QED  BY <1>1, <1>3, <2>1 DEF PhaseInv, Working, Repairing, Judging, Delivering
<1>6. JudgeInv'
    <2>1. VerificationStable => Approved(V.frozen, task.suite)
        BY <1>1 DEF VerificationStable, GatesPass, Approved
    <2> QED  BY <1>1, <1>3, <2>1 DEF LoopIInv, JudgeInv, Judging, SameWork,
                                     VerificationStable, Approved
<1>7. SourceInv' /\ FocusInv'
    BY <1>1, <1>3 DEF LoopIInv, SourceInv, FocusInv, CheckpointsAreStraight, Judging, Approved, SameWork
<1>8. TurnInv'
    BY <1>1, <1>3 DEF LoopIInv, TurnInv, Working, Repairing, Judging, HasCause,
                      StartsClean, Remembers, SameTurn, SameWork
<1>9. CapsuleInv' /\ StartInv'
    BY <1>1, <1>3 DEF LoopIInv, CapsuleInv, CheckpointsAreStraight, StartInv, Covered, SameTurn, SameWork, Working,
                      Repairing, Judging
<1> QED  BY <1>4, <1>5, <1>6, <1>7, <1>8, <1>9 DEF LoopIInv

(* What was judged is what the repair has to leave behind.                 *)
LEMMA VerificationFailsKeepsLoopIInv ==
    ASSUME LoopIInv, VerificationFails
    PROVE  LoopIInv'
<1>1. /\ status = "running" /\ task.pc = "verify" /\ task \in Tasks /\ V \in Verifications
      /\ G \in Generations /\ task.candidate \in Contents
      /\ UNCHANGED <<status, graph, verified, inherited, checkpoint, question, G>>
      /\ UNCHANGED <<published, strays, turns, faults>>
      /\ V' = None /\ goal' = "active" /\ refuted' = task.candidate
    BY DEF VerificationFails, At, LoopIInv, LoopTypes, PhaseInv, JudgeInv, Judging
<1>2. task' = Refuted(task, Manifest, task.candidate)
    BY DEF VerificationFails, Repair, Refuted
<1>3. Manifest \in Manifests /\ task.candidate \in Sources /\ "build" \in Kinds
      /\ "claim" \in Nexts
    BY <1>1 DEF Generations, Manifest, Manifests, Sources, Kinds, Nexts
<1>4. /\ task' \in Tasks /\ task'.pc = "turn" /\ task'.kind = "verification_repair"
      /\ task'.candidateStart = task.candidate /\ task'.goalStart = task.goalStart
      /\ task'.goalPolicy = task.goalPolicy /\ task'.unknown = task.unknown
      /\ SameWork(task', task)
    BY <1>1, <1>2, <1>3, RepairedFields
<1>5. LoopTypes'
    BY <1>1, <1>4 DEF LoopIInv, LoopTypes, Verifications, Sources
<1>6. PhaseInv'
    <2>1. PhaseInv
        BY DEF LoopIInv
    <2> QED  BY <1>1, <1>4, <2>1 DEF PhaseInv, Working, Repairing, Judging, Delivering
<1>7. JudgeInv' /\ SourceInv' /\ FocusInv'
    BY <1>1, <1>4 DEF LoopIInv, JudgeInv, SourceInv, FocusInv, CheckpointsAreStraight, Judging, Approved
<1>8. TurnInv'
    <2>1. HasCause(task) /\ question = None
        BY <1>1 DEF LoopIInv, TurnInv, PhaseInv, Working, Judging, Repairing
    <2> QED  BY <1>1, <1>4, <2>1 DEF TurnInv, Working, Repairing, Judging, HasCause,
                                           StartsClean, Remembers
<1>9. CapsuleInv' /\ StartInv'
    BY <1>1, <1>4 DEF LoopIInv, CapsuleInv, CheckpointsAreStraight, StartInv, Covered, SameWork, Working,
                      Repairing, Judging
<1> QED  BY <1>5, <1>6, <1>7, <1>8, <1>9 DEF LoopIInv

LEMMA CapsuleGrows ==
    ASSUME NEW capsule \in Capsules, NEW g \in GoalIds, NEW changed \in SUBSET Files,
           NEW grown, grown = [id \in DOMAIN capsule \cup {g} |->
                                  IF id = g THEN changed ELSE capsule[id]]
    PROVE  /\ grown \in Capsules
           /\ DOMAIN grown = DOMAIN capsule \cup {g}
           /\ grown[g] = changed
           /\ \A id \in DOMAIN capsule \ {g} : grown[id] = capsule[id]
<1>1. PICK ids \in SUBSET (0 .. GoalCount) : capsule \in [ids -> SUBSET Files]
    BY DEF Capsules
<1>2. ids \cup {g} \in SUBSET (0 .. GoalCount)
    BY LimitsAreNaturals DEF GoalIds
<1>3. grown \in [ids \cup {g} -> SUBSET Files]
    BY <1>1
<1>4. grown \in Capsules
    BY <1>2, <1>3 DEF Capsules
<1> QED  BY <1>1, <1>4

(* What the goal changed, or, if that is not known, whatever differs from  *)
(* the base, completes the capsule of the checkpoints before it.           *)
LEMMA RecordedCapsuleCovers ==
    ASSUME LoopIInv, task.pc = "accept", inherited = None,
           CheckpointsAreStraight, verified + 1 \notin strays,
           NEW grown, DOMAIN grown = DOMAIN task.paths \cup {verified + 1},
           grown[verified + 1] = GoalPaths(task.candidate),
           \A id \in DOMAIN task.paths \ {verified + 1} : grown[id] = task.paths[id]
    PROVE  /\ DOMAIN grown \subseteq 1 .. verified + 1
           /\ Covered(grown, task.candidate)
<1>1. verified \in Nat /\ task.audited = task.candidate
    BY DEF LoopIInv, LoopTypes, SourceInv, Judging
<1>2. DOMAIN task.paths \subseteq 1 .. verified
    <2>1. task.paths = IF checkpoint = None THEN <<>> ELSE checkpoint.paths
        BY DEF LoopIInv, CapsuleInv, CheckpointsAreStraight
    <2>2. checkpoint # None => DOMAIN checkpoint.paths \subseteq 1 .. verified
        BY DEF LoopIInv, CapsuleInv, CheckpointsAreStraight
    <2> QED  BY <2>1, <2>2, EmptyCapsule
<1>3. ASSUME NEW f \in Files, task.candidate[f] # Base[f]
      PROVE  \E id \in DOMAIN grown : f \in grown[id]
    <2>1. CASE task.candidate[f] # task.goalStart[f]
        BY <2>1 DEF GoalPaths, Delta
    <2>2. CASE task.unknown
        BY <1>1, <1>3, <2>2 DEF GoalPaths, Delta
    <2>3. CASE ~task.unknown /\ task.candidate[f] = task.goalStart[f]
        <3>1. verified > 0
            BY <1>1, <1>3, <2>3 DEF LoopIInv, StartInv, Working, Judging
        <3>2. task.goalStart = checkpoint.content /\ checkpoint # None
              /\ task.paths = checkpoint.paths /\ Covered(checkpoint.paths, checkpoint.content)
            BY <2>3, <3>1 DEF LoopIInv, StartInv, CapsuleInv, CheckpointsAreStraight, Working, Judging
        <3>3. PICK id \in DOMAIN task.paths : f \in task.paths[id]
            BY <1>3, <2>3, <3>2 DEF Covered
        <3>4. id # verified + 1
            BY <1>1, <1>2, <3>3
        <3> QED  BY <3>3, <3>4
    <2> QED  BY <2>1, <2>2, <2>3
<1>4. DOMAIN grown \subseteq 1 .. verified + 1
    BY <1>1, <1>2
<1> QED  BY <1>3, <1>4 DEF Covered

LEMMA RecordKeepsLoopIInv ==
    ASSUME LoopIInv, RecordVerifiedCheckpoint
    PROVE  LoopIInv'
<1> DEFINE final == verified + 1 = GoalCount
           pc == IF final THEN "publish" ELSE "select"
<1>1. /\ status = "running" /\ task.pc = "accept" /\ task \in Tasks /\ V \in Verifications
      /\ G \in Generations /\ G # None /\ question = None /\ task.candidate \in Contents
      /\ verified \in 0 .. GoalCount /\ verified # GoalCount /\ GoalCount \in Nat \ {0}
      /\ graph \notin {"none", "verified"} /\ task.paths \in Capsules
      /\ UNCHANGED <<status, inherited, question, G, published, refuted, strays, turns, faults>>
      /\ verified' = verified + 1
    BY NoneAssumption, LimitsAreNaturals
       DEF RecordVerifiedCheckpoint, At, LoopIInv, LoopTypes, PhaseInv, JudgeInv, Working,
           Repairing, Judging, Tasks
<1>2. PICK grown : grown = [id \in DOMAIN task.paths \cup {verified + 1} |->
                               IF id = verified + 1 THEN GoalPaths(task.candidate)
                               ELSE task.paths[id]]
    OBVIOUS
<1>3. /\ checkpoint' = VerifiedCheckpoint(grown)
      /\ task' = Recorded(task, pc, grown)
      /\ goal' = IF final THEN goal ELSE "active"
      /\ graph' = IF final THEN "verified" ELSE graph
      /\ V' = IF final THEN V ELSE None
      /\ VerificationStable
    BY <1>2 DEF RecordVerifiedCheckpoint, Recorded
<1>4. verified + 1 \in GoalIds /\ GoalPaths(task.candidate) \in SUBSET Files
    BY <1>1 DEF GoalIds, GoalPaths, Delta
<1>5. /\ grown \in Capsules
      /\ DOMAIN grown = DOMAIN task.paths \cup {verified + 1}
      /\ grown[verified + 1] = GoalPaths(task.candidate)
      /\ \A id \in DOMAIN task.paths \ {verified + 1} : grown[id] = task.paths[id]
    <2>1. task.paths \in Capsules
        BY <1>1
    <2> QED  BY ONLY <2>1, <1>2, <1>4, CapsuleGrows
<1>6. pc \in Steps /\ pc \in {"publish", "select"} /\ (pc = "publish" <=> final)
    BY DEF Steps
<1>7. /\ task' \in Tasks /\ task'.pc = pc /\ task'.paths = grown /\ task'.suite = task.suite
    BY <1>1, <1>3, <1>5, <1>6, RecordedFields
<1>8. /\ checkpoint' \in Checkpoints /\ checkpoint' # None
      /\ checkpoint'.content = task.candidate /\ checkpoint'.paths = grown
    BY <1>1, <1>3, <1>5, NoneAssumption DEF VerifiedCheckpoint, Checkpoints
<1> HIDE DEF pc
<1>9. LoopTypes'
    BY <1>1, <1>3, <1>7, <1>8 DEF LoopIInv, LoopTypes
<1>10. PhaseInv'
    <2>1. PhaseInv
        BY DEF LoopIInv
    <2> QED  BY <1>1, <1>3, <1>6, <1>7, <2>1 DEF PhaseInv, Working, Repairing, Judging,
                                                 Delivering
<1>11. Approved(V.frozen, task.suite) /\ verified + 1 \in task.suite
       /\ (final => task.suite = GoalIds)
    BY <1>1, <1>3 DEF LoopIInv, JudgeInv, Judging
<1>12. JudgeInv'
    BY <1>1, <1>3, <1>6, <1>7, <1>11 DEF JudgeInv, Judging, VerificationStable, Approved
<1>13. SourceInv'
    <2>1. verified + 1 \notin strays => task.candidate = V.frozen
        BY <1>1 DEF LoopIInv, SourceInv, Judging
    <2> QED  BY <1>1, <1>6, <1>7, <1>8, <1>11, <2>1 DEF SourceInv, Judging, Approved
<1>14. FocusInv' /\ TurnInv'
    BY <1>1, <1>6, <1>7 DEF FocusInv, CheckpointsAreStraight, TurnInv, Working, Repairing, Judging
<1>15. CapsuleInv'
    <2>1. ASSUME CheckpointsAreStraight', inherited = None
          PROVE  DOMAIN grown \subseteq 1 .. verified + 1 /\ Covered(grown, task.candidate)
        <3>1. CheckpointsAreStraight /\ verified + 1 \notin strays
            BY <1>1, <2>1 DEF CheckpointsAreStraight, LoopIInv, LoopTypes, GoalIds
        <3> QED  BY <1>1, <1>5, <2>1, <3>1, RecordedCapsuleCovers
    <2> QED  BY <1>1, <1>6, <1>7, <1>8, <2>1 DEF CapsuleInv, CheckpointsAreStraight, Covered
<1>16. StartInv'
    BY <1>1, <1>3, <1>6, <1>7, <1>8 DEF StartInv, Working, Repairing, Judging
<1> QED  BY <1>9, <1>10, <1>12, <1>13, <1>14, <1>15, <1>16 DEF LoopIInv

LEMMA PublishKeepsLoopIInv ==
    ASSUME LoopIInv, Publish
    PROVE  LoopIInv'
<1>1. /\ status = "running" /\ V \in Verifications
      /\ status' = "succeeded" /\ G' = None /\ task' = NoTask /\ published' = V.frozen
      /\ UNCHANGED <<graph, verified, goal, inherited, checkpoint, question, V, refuted, strays>>
      /\ UNCHANGED <<turns, faults>>
    BY DEF Publish, At, LoopIInv, PhaseInv
<1>2. LoopTypes'
    BY <1>1, NothingIsDone DEF LoopIInv, LoopTypes, Ended, Verifications, Sources
<1>3. PhaseInv'
    <2>1. PhaseInv
        BY DEF LoopIInv
    <2> QED  BY <1>1, <2>1, NothingIsDone DEF PhaseInv, Working, Repairing, Judging, Delivering
<1>4. JudgeInv' /\ SourceInv' /\ FocusInv'
    BY <1>1, NothingIsDone DEF LoopIInv, JudgeInv, SourceInv, FocusInv, CheckpointsAreStraight, Judging, Approved
<1>5. TurnInv'
    BY <1>1, NothingIsDone DEF LoopIInv, TurnInv, Working, Repairing, Judging, HasCause,
                               StartsClean, Remembers
<1>6. CapsuleInv' /\ StartInv'
    BY <1>1, NothingIsDone DEF LoopIInv, CapsuleInv, CheckpointsAreStraight, StartInv, Covered, Working, Repairing,
                               Judging
<1> QED  BY <1>2, <1>3, <1>4, <1>5, <1>6 DEF LoopIInv

LEMMA AuditFinalKeepsLoopIInv ==
    ASSUME LoopIInv, AuditFinalCheckpoint
    PROVE  LoopIInv'
<1>1. /\ status = "running" /\ task.pc = "final" /\ task \in Tasks /\ G \in Generations
      /\ UNCHANGED <<status, graph, verified, goal, inherited, checkpoint, question, G>>
      /\ UNCHANGED <<published, refuted, strays, turns, faults>>
    BY DEF AuditFinalCheckpoint, At, LoopIInv, LoopTypes, PhaseInv
<1>2. task' = Reverified(task, GoalIds) /\ GoalIds \in Suites /\ G.content \in Contents
    BY <1>1 DEF AuditFinalCheckpoint, Reverified, Suites, Generations
<1>3. task' \in Tasks /\ task'.pc = "reverify" /\ task'.suite = GoalIds
      /\ task'.paths = task.paths
    BY <1>1, <1>2, JudgedFields
<1>4. V' \in Verifications
    BY <1>2 DEF AuditFinalCheckpoint, CreateVerification, Verifications
<1>5. LoopTypes'
    BY <1>1, <1>3, <1>4 DEF LoopIInv, LoopTypes
<1>6. PhaseInv'
    <2>1. PhaseInv
        BY DEF LoopIInv
    <2> QED  BY <1>1, <1>3, <1>4, <2>1 DEF PhaseInv, Working, Repairing, Judging, Delivering
<1>7. JudgeInv' /\ SourceInv' /\ FocusInv'
    BY <1>1, <1>3 DEF LoopIInv, JudgeInv, SourceInv, FocusInv, CheckpointsAreStraight, Judging, Approved
<1>8. TurnInv'
    BY <1>1, <1>3 DEF LoopIInv, TurnInv, Working, Repairing, Judging, HasCause,
                      StartsClean, Remembers
<1>9. CapsuleInv' /\ StartInv'
    BY <1>1, <1>3 DEF LoopIInv, CapsuleInv, CheckpointsAreStraight, StartInv, Covered, Working, Repairing, Judging
<1> QED  BY <1>5, <1>6, <1>7, <1>8, <1>9 DEF LoopIInv

LEMMA ReverifyKeepsLoopIInv ==
    ASSUME LoopIInv, ReverifyFinalCheckpoint
    PROVE  LoopIInv'
<1>1. /\ status = "running" /\ task.pc = "reverify" /\ task \in Tasks /\ V \in Verifications
      /\ UNCHANGED <<verified, goal, inherited, checkpoint, question, published>>
      /\ UNCHANGED <<refuted, strays, turns, faults>>
    BY DEF ReverifyFinalCheckpoint, At, LoopIInv, LoopTypes, PhaseInv
<1>2. CASE GatesPass(task.suite) /\ task' = Moved(task, "publish")
           /\ UNCHANGED <<status, graph, G, V>>
    <2>1. task' \in Tasks /\ task'.pc = "publish" /\ SameWork(task', task)
        BY <1>1, <1>2, MovedFields DEF Steps
    <2>2. LoopTypes'
        BY <1>1, <1>2, <2>1 DEF LoopIInv, LoopTypes
    <2>3. PhaseInv'
        <3>1. PhaseInv
            BY DEF LoopIInv
        <3> QED  BY <1>1, <1>2, <2>1, <3>1 DEF PhaseInv, Working, Repairing, Judging,
                                               Delivering
    <2>4. JudgeInv'
        <3>1. VerificationStable => Approved(V.frozen, GoalIds)
            BY <1>1, <1>2 DEF LoopIInv, JudgeInv, VerificationStable, GatesPass, Approved
        <3> QED  BY <1>1, <1>2, <2>1, <3>1 DEF JudgeInv, Judging, VerificationStable,
                                               Approved
    <2>5. SourceInv' /\ FocusInv'
        BY <1>1, <1>2, <2>1 DEF LoopIInv, SourceInv, FocusInv, CheckpointsAreStraight, Judging, Approved
    <2>6. TurnInv'
        BY <1>1, <1>2, <2>1 DEF LoopIInv, TurnInv, Working, Repairing, Judging, HasCause,
                                StartsClean, Remembers
    <2>7. CapsuleInv' /\ StartInv'
        BY <1>1, <1>2, <2>1 DEF LoopIInv, CapsuleInv, CheckpointsAreStraight, StartInv, Covered, SameWork, Working,
                                Repairing, Judging
    <2> QED  BY <2>2, <2>3, <2>4, <2>5, <2>6, <2>7 DEF LoopIInv
<1>3. CASE End("needs_attention")
    BY <1>1, <1>3, EndKeepsLoopIInv DEF Ended, LoopIInv, LoopTypes
<1> QED  BY <1>2, <1>3 DEF ReverifyFinalCheckpoint, Moved

LEMMA CrashKeepsLoopIInv ==
    ASSUME LoopIInv, Crash
    PROVE  LoopIInv'
<1>1. faults' \in 0 .. MaxFaults
    BY LimitsAreNaturals DEF Crash, Fault, LoopIInv, LoopTypes
<1> QED  BY <1>1, LeaveKeepsLoopIInv DEF Crash, Ended

(* A process writes in G where nothing relies on what G is, or the goal has*)
(* strayed.                                                                *)
LEMMA DriftGenerationKeepsLoopIInv ==
    ASSUME LoopIInv, DriftGeneration
    PROVE  LoopIInv'
<1>1. /\ G # None /\ G \in Generations /\ G.worked /\ faults' \in 0 .. MaxFaults
      /\ strays' = IF task.pc = "capture" THEN strays \cup {verified + 1} ELSE strays
      /\ UNCHANGED <<status, graph, verified, goal, inherited, checkpoint, question, V>>
      /\ UNCHANGED <<task, published, refuted, turns>>
    BY LimitsAreNaturals DEF DriftGeneration, Fault, LoopIInv, LoopTypes
<1>2. G' \in Generations /\ G' # None /\ G'.worked
    BY <1>1, NoneAssumption DEF DriftGeneration, Generations
<1>3. LoopTypes'
    <2>1. verified \in Nat /\ (task.pc = "capture" => verified + 1 \in GoalIds)
        BY LimitsAreNaturals
           DEF LoopIInv, LoopTypes, PhaseInv, Working, Repairing, GoalIds
    <2> QED  BY <1>1, <1>2, <2>1 DEF LoopIInv, LoopTypes
<1>4. PhaseInv'
    <2>1. PhaseInv
        BY DEF LoopIInv
    <2> QED  BY <1>1, <1>2, <2>1 DEF PhaseInv
<1>5. JudgeInv' /\ SourceInv' /\ FocusInv' /\ verified \in Nat
    BY <1>1, LimitsAreNaturals
       DEF LoopIInv, LoopTypes, JudgeInv, SourceInv, FocusInv, CheckpointsAreStraight,
           VerificationStable, Approved, Judging
<1>6. TurnInv' /\ CapsuleInv' /\ StartInv'
    BY <1>1, <1>2, <1>5 DEF LoopIInv, TurnInv, CapsuleInv, CheckpointsAreStraight, StartInv, HasCause, StartsClean,
                      Remembers, Covered
<1> QED  BY <1>3, <1>4, <1>5, <1>6 DEF LoopIInv

(* A drift in V is not undone, so that no stable V has drifted.            *)
LEMMA DriftVerificationKeepsLoopIInv ==
    ASSUME LoopIInv, DriftVerification
    PROVE  LoopIInv'
<1>1. /\ V # None /\ V \in Verifications /\ VerificationStable /\ faults' \in 0 .. MaxFaults
      /\ UNCHANGED <<status, graph, verified, goal, inherited, checkpoint, question, G>>
      /\ UNCHANGED <<task, published, refuted, strays, turns>>
      /\ task.pc \in {"verify", "accept", "reverify", "publish"}
    BY LimitsAreNaturals DEF DriftVerification, Fault, LoopIInv, LoopTypes, PhaseInv
<1>2. V' \in Verifications /\ V'.frozen = V.frozen /\ V'.live # V.live
    BY <1>1 DEF DriftVerification, Verifications
<1>3. (~VerificationStable)'
    BY <1>1, <1>2 DEF VerificationStable
<1>4. LoopTypes'
    BY <1>1, <1>2 DEF LoopIInv, LoopTypes
<1>5. PhaseInv'
    <2>1. PhaseInv
        BY DEF LoopIInv
    <2> QED  BY <1>1, <1>2, <2>1 DEF PhaseInv
<1>6. JudgeInv' /\ SourceInv' /\ FocusInv'
    BY <1>1, <1>2, <1>3 DEF LoopIInv, JudgeInv, SourceInv, FocusInv, CheckpointsAreStraight, Approved
<1>7. TurnInv' /\ CapsuleInv' /\ StartInv'
    BY <1>1, <1>2 DEF LoopIInv, TurnInv, CapsuleInv, CheckpointsAreStraight, StartInv, HasCause, StartsClean,
                      Remembers, Covered
<1> QED  BY <1>4, <1>5, <1>6, <1>7 DEF LoopIInv

LEMMA StepKeepsLoopIInv ==
    ASSUME LoopIInv, [Next]_vars
    PROVE  LoopIInv'
<1>1. ASSUME NEW outcome \in Ended \ {"succeeded"}, status = "running", End(outcome),
             UNCHANGED faults \/ Fault
      PROVE  LoopIInv'
    <2>1. faults' \in 0 .. MaxFaults
        BY <1>1, LimitsAreNaturals DEF Fault, LoopIInv, LoopTypes
    <2> QED  BY <1>1, <2>1, EndKeepsLoopIInv
<1>2. CASE RefuseCapsule \/ PlanningFails \/ VerificationUnstable \/ Fail
    BY <1>1, <1>2 DEF RefuseCapsule, PlanningFails, VerificationUnstable, Fail, At, Ended
<1>3. CASE InfrastructureFails \/ Cancel
    BY <1>1, <1>3 DEF InfrastructureFails, Cancel, At, Ended
<1>4. CASE PlanFromCache
    BY <1>4, PlannedKeepsLoopIInv DEF PlanFromCache, LoopIInv, LoopTypes
<1>5. CASE Start \/ Prepare \/ ContinuationUnavailable \/ PlanningTurn \/ StartGoal
           \/ ContinueGoal \/ Turn \/ AskUser \/ AnswerUser \/ SettleTurn \/ Typecheck
    BY <1>5, StartKeepsLoopIInv, PrepareKeepsLoopIInv, ContinuationUnavailableKeepsLoopIInv,
       PlanningTurnKeepsLoopIInv, StartGoalKeepsLoopIInv, ContinueGoalKeepsLoopIInv,
       TurnKeepsLoopIInv, AskUserKeepsLoopIInv, AnswerUserKeepsLoopIInv,
       SettleTurnKeepsLoopIInv, TypecheckKeepsLoopIInv
<1>6. CASE Claim \/ Audit \/ Capture \/ VerificationPasses \/ VerificationFails
           \/ RecordVerifiedCheckpoint \/ Publish \/ AuditFinalCheckpoint
           \/ ReverifyFinalCheckpoint \/ Crash \/ DriftGeneration \/ DriftVerification
    BY <1>6, ClaimKeepsLoopIInv, AuditKeepsLoopIInv, CaptureKeepsLoopIInv,
       VerificationPassesKeepsLoopIInv, VerificationFailsKeepsLoopIInv,
       RecordKeepsLoopIInv, PublishKeepsLoopIInv, AuditFinalKeepsLoopIInv,
       ReverifyKeepsLoopIInv, CrashKeepsLoopIInv, DriftGenerationKeepsLoopIInv,
       DriftVerificationKeepsLoopIInv
<1>7. CASE UNCHANGED vars
    BY <1>7 DEF vars, LoopIInv, LoopTypes, PhaseInv, JudgeInv, TurnInv, SourceInv,
                CapsuleInv, StartInv, FocusInv, CheckpointsAreStraight, HasCause, StartsClean, Remembers, Covered,
                VerificationStable, Approved
<1> QED  BY <1>2, <1>3, <1>4, <1>5, <1>6, <1>7 DEF Next

-----------------------------------------------------------------------------
(* Theorems.                                                               *)

(* The inductive invariant holds of every run of the orchestrator.         *)
THEOREM LoopInvariantHolds == Spec => []LoopIInv
<1>1. LoopIInv /\ [Next]_vars => LoopIInv'
    BY StepKeepsLoopIInv
<1> QED  BY <1>1, InitIsLoopIInv, PTL DEF Spec

LEMMA OnlyRecordPromotes ==
    ASSUME LoopIInv, [Next]_vars, verified' # verified
    PROVE  RecordVerifiedCheckpoint
    BY DEF Next, vars, Start, Prepare, RefuseCapsule, PlanFromCache, PlanningTurn,
           PlanningFails, StartGoal, ContinueGoal, Turn, AskUser, SettleTurn, Typecheck,
           Claim, Audit, Capture, VerificationPasses, VerificationFails,
           VerificationUnstable, Publish, AuditFinalCheckpoint, ReverifyFinalCheckpoint,
           Fail, ContinuationUnavailable, AnswerUser, InfrastructureFails, Cancel, Crash,
           DriftGeneration, DriftVerification, End

(* A verdict is about the code it is recorded for: what is promoted passed,*)
(* what is recorded is what passed unless its goal strayed, and a focused  *)
(* suite leaves nothing unverified that the goal could have broken.        *)
THEOREM VerdictIsSoundHolds == Spec => VerdictIsSound
<1>1. ASSUME LoopIInv
      PROVE  TypeOK /\ CheckpointIsVerified /\ FocusIsSafe
    <2>1. TypeOK
        <3>1. checkpoint # None => checkpoint.content \in Contents
            BY <1>1 DEF LoopIInv, LoopTypes, Checkpoints
        <3>2. G # None => G.content \in Contents /\ G.taint \in Taints
            BY <1>1 DEF LoopIInv, LoopTypes, Generations
        <3>3. V # None => {V.frozen, V.live} \subseteq Contents
            BY <1>1 DEF LoopIInv, LoopTypes, Verifications
        <3>4. task.suite \subseteq GoalIds
            BY <1>1 DEF LoopIInv, LoopTypes, Tasks, Suites
        <3> QED  BY <1>1, <3>1, <3>2, <3>3, <3>4 DEF TypeOK, LoopIInv, LoopTypes, Sources
    <2>2. CheckpointIsVerified
        BY <1>1 DEF CheckpointIsVerified, LoopIInv, SourceInv, Approved
    <2>3. ASSUME inherited = None, V # None, verified > 0, task.suite = {verified + 1},
                 strays = {}, NEW f \in Files, checkpoint.content[f] # Base[f]
          PROVE  /\ task.candidate[f] = checkpoint.content[f]
                 /\ V.frozen[f] = checkpoint.content[f]
        <3>1. verified \in 0 .. GoalCount /\ task.suite \subseteq 1 .. GoalCount
            BY <1>1 DEF LoopIInv, LoopTypes, Tasks, Suites, GoalIds
        <3>2. graph # "verified"
            BY <1>1, <2>3, <3>1, LimitsAreNaturals DEF LoopIInv, PhaseInv
        <3>3. task.pc \in Judging
            BY <1>1, <2>3, <3>2, NothingIsDone DEF LoopIInv, PhaseInv, Judging, Delivering
        <3>4. V.frozen = task.candidate /\ CheckpointsAreStraight
            BY <1>1, <2>3, <3>3 DEF LoopIInv, SourceInv, CheckpointsAreStraight
        <3> QED  BY <1>1, <2>3, <3>3, <3>4 DEF LoopIInv, FocusInv
    <2> QED  BY <2>1, <2>2, <2>3 DEF FocusIsSafe
<1>2. ASSUME LoopIInv, [Next]_vars, verified' = verified + 1
      PROVE  V.frozen \in Compiling /\ V.frozen \in Passing[verified']
    <2>1. RecordVerifiedCheckpoint
        BY <1>2, OnlyRecordPromotes DEF LoopIInv, LoopTypes
    <2>2. task.pc = "accept" /\ VerificationStable
        BY <2>1 DEF RecordVerifiedCheckpoint, At
    <2> QED  BY <1>2, <2>2 DEF LoopIInv, JudgeInv, Judging, Approved
<1>3. Spec => [](TypeOK /\ CheckpointIsVerified /\ FocusIsSafe)
    BY <1>1, LoopInvariantHolds, PTL
<1>4. Spec => PromotionIsJudged
    BY <1>2, LoopInvariantHolds, PTL DEF Spec, PromotionIsJudged
<1> QED  BY <1>3, <1>4, PTL DEF VerdictIsSound

LEMMA OnlyPublishDelivers ==
    ASSUME LoopIInv, [Next]_vars, published' # published
    PROVE  Publish
    BY DEF Next, vars, Start, Prepare, RefuseCapsule, PlanFromCache, PlanningTurn,
           PlanningFails, StartGoal, ContinueGoal, Turn, AskUser, SettleTurn, Typecheck,
           Claim, Audit, Capture, VerificationPasses, VerificationFails,
           RecordVerifiedCheckpoint, VerificationUnstable, AuditFinalCheckpoint,
           ReverifyFinalCheckpoint, Fail, ContinuationUnavailable, AnswerUser,
           InfrastructureFails, Cancel, Crash, DriftGeneration, DriftVerification, End

(* GoalLoop implements GoalDelivery: goals are promoted one at a time, in  *)
(* their order, and what _publish delivers compiles and passes every       *)
(* goal's acceptance, whatever drifted, crashed or was asked meanwhile.    *)
THEOREM GoalLoopImplementsGoalDelivery == Spec => DeliverySpec
<1>1. Init => Delivery!DeliveryInit
    BY DEF Init, Delivery!DeliveryInit
<1>2. ASSUME LoopIInv, [Next]_vars
      PROVE  [Delivery!DeliveryNext]_Delivery!deliveryVars
    <2>1. CASE RecordVerifiedCheckpoint
        <3>1. status = "running" /\ task.pc = "accept" /\ verified' = verified + 1
              /\ published' = published
            BY <2>1 DEF RecordVerifiedCheckpoint, At
        <3>2. published = None /\ verified < GoalCount
            BY <1>2, <3>1, LimitsAreNaturals DEF LoopIInv, LoopTypes, PhaseInv, Working,
                                                 Judging
        <3> QED  BY <3>1, <3>2 DEF Delivery!DeliveryNext, Delivery!Promote
    <2>2. CASE Publish
        <3>1. status = "running" /\ task.pc = "publish" /\ VerificationStable
              /\ published' = V.frozen /\ verified' = verified
            BY <2>2 DEF Publish, At
        <3>2. published = None /\ verified = GoalCount
            BY <1>2, <3>1 DEF LoopIInv, PhaseInv, Delivering
        <3>3. Approved(V.frozen, GoalIds)
            BY <1>2, <3>1 DEF LoopIInv, JudgeInv
        <3>4. Delivery!Deliver(V.frozen) /\ V.frozen \in Compiling
            BY <3>1, <3>2, <3>3 DEF Delivery!Deliver, Approved, GoalIds
        <3> QED  BY <3>4 DEF Delivery!DeliveryNext
    <2>3. CASE verified' = verified /\ published' = published
        BY <2>3 DEF Delivery!deliveryVars
    <2> QED  BY <1>2, <2>1, <2>2, <2>3, OnlyRecordPromotes, OnlyPublishDelivers
<1> QED  BY <1>1, <1>2, LoopInvariantHolds, PTL DEF Spec, DeliverySpec, Delivery!DeliverySpec

(* No goal is promoted on an unchanged workspace, unless that workspace is *)
(* the checkpoint of a goal verified before it (settle_workspace_turn,     *)
(* _initial_goal_effect_policy), over repairs, questions and restarts.     *)
THEOREM GoalsHaveEffectHolds == Spec => GoalsHaveEffect
<1>1. ASSUME LoopIInv, [Next]_vars, verified' = verified + 1
      PROVE  \/ checkpoint'.content # task.goalStart
             \/ verified > 0 /\ checkpoint.content = task.goalStart
    <2>1. RecordVerifiedCheckpoint
        BY <1>1, OnlyRecordPromotes DEF LoopIInv, LoopTypes
    <2>2. task.pc = "accept" /\ checkpoint'.content = task.candidate
        BY <2>1 DEF RecordVerifiedCheckpoint, At, VerifiedCheckpoint
    <2> QED  BY <1>1, <2>2 DEF LoopIInv, TurnInv, HasCause, Working, Judging
<1> QED  BY <1>1, LoopInvariantHolds, PTL DEF Spec, GoalsHaveEffect

LEMMA OnlyCaptureMakesV ==
    ASSUME LoopIInv, [Next]_vars, At("capture"), V = None, V' # None
    PROVE  Capture
    BY DEF Next, vars, Start, Prepare, RefuseCapsule, PlanFromCache, PlanningTurn,
           PlanningFails, StartGoal, ContinueGoal, Turn, AskUser, SettleTurn, Typecheck,
           Claim, Audit, VerificationPasses, VerificationFails,
           RecordVerifiedCheckpoint, VerificationUnstable, Publish, AuditFinalCheckpoint,
           ReverifyFinalCheckpoint, Fail, ContinuationUnavailable, AnswerUser,
           InfrastructureFails, Cancel, Crash, DriftGeneration, DriftVerification, End, At

LEMMA OnlySettlementSendsBack ==
    ASSUME LoopIInv, [Next]_vars, At("settle"), task.kind = "build",
           task'.kind = "settlement_repair"
    PROVE  ~Settled(task.policy, Manifest # task.turnStart)
<1>1. task' # task /\ task' # NoTask
    BY NothingIsDone
<1>2. SettleTurn
    BY <1>1 DEF Next, vars, Start, Prepare, RefuseCapsule, PlanFromCache, PlanningTurn,
           PlanningFails, StartGoal, ContinueGoal, Turn, AskUser, Typecheck,
           Claim, Audit, Capture, VerificationPasses, VerificationFails,
           RecordVerifiedCheckpoint, VerificationUnstable, Publish, AuditFinalCheckpoint,
           ReverifyFinalCheckpoint, Fail, ContinuationUnavailable, AnswerUser,
           InfrastructureFails, Cancel, Crash, DriftGeneration, DriftVerification, End, At
<1>3. CASE task' = [task EXCEPT !.pc = task.next]
    <2>1. task \in Tasks /\ task.next \in Steps /\ task' = Moved(task, task.next)
        BY <1>3 DEF LoopIInv, LoopTypes, Tasks, Nexts, Steps, Moved
    <2> QED  BY <2>1, MovedFields DEF SameTurn
<1> QED  BY <1>1, <1>2, <1>3 DEF SettleTurn, End

(* A logical turn is judged from where it began: a candidate that failed   *)
(* its verification is not captured again as it is, and a build is sent    *)
(* back as without effect only if the goal's workspace is what it was when *)
(* the goal began, whatever repairs, questions, drifts and restored files  *)
(* lie between.                                                            *)
THEOREM LogicalTurnIsKeptHolds == Spec => LogicalTurnIsKept
<1>1. ASSUME LoopIInv, [Next]_vars, V = None, V' # None, At("capture")
      PROVE  /\ task'.candidate # refuted
             /\ verified + 1 \notin strays => V'.frozen # refuted
    <2>1. Capture
        BY <1>1, OnlyCaptureMakesV
    <2>2. CandidateIsAdmitted /\ V' = CreateVerification(task.audited)
        BY <1>1, <2>1 DEF Capture, End
    <2>3. /\ V'.frozen = task.audited
          /\ verified + 1 \notin strays => G.content = task.audited
          /\ G.content \in Contents
        BY <1>1, <2>2, NoneAssumption
           DEF At, LoopIInv, PhaseInv, SourceInv, CreateVerification, Generations
    <2>4. task'.candidate = G.content
        <3>1. task' = Captured(task, G.content, RegressionSuite(G.content))
            BY <1>1, <2>1 DEF Capture, End, Captured
        <3>2. task \in Tasks /\ RegressionSuite(G.content) \in Suites
            BY <1>1, <2>3, SuiteIsSound DEF At, LoopIInv, LoopTypes
        <3> QED  BY <2>3, <3>1, <3>2, JudgedFields
    <2>5. refuted # None => task.candidateStart = refuted
        BY <1>1 DEF At, LoopIInv, TurnInv, Repairing, Remembers
    <2>6. task.candidateStart # None => G.content # task.candidateStart
        BY <2>2 DEF CandidateIsAdmitted, Settled
    <2> QED  BY <2>3, <2>4, <2>5, <2>6, NoneAssumption
<1>2. ASSUME LoopIInv, [Next]_vars, At("settle"), task.kind = "build",
             task'.kind = "settlement_repair"
      PROVE  G.content = task.goalStart
    <2>1. Manifest = task.turnStart
        BY <1>2, OnlySettlementSendsBack DEF Settled
    <2>2. task.turnStart = <<task.goalStart, "clean">>
        BY <1>2 DEF At, LoopIInv, TurnInv, Working, Repairing, StartsClean
    <2> QED  BY <2>1, <2>2 DEF Manifest
<1>3. Spec => RepairIsVerifiedAnew
    BY <1>1, LoopInvariantHolds, PTL DEF Spec, RepairIsVerifiedAnew
<1>4. Spec => QuestionKeepsTheTurn
    BY <1>2, LoopInvariantHolds, PTL DEF Spec, QuestionKeepsTheTurn
<1> QED  BY <1>3, <1>4, PTL DEF LogicalTurnIsKept
=============================================================================
