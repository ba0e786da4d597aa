------------------------------ MODULE GoalLoop ------------------------------
(***************************************************************************)
(* One run of the orchestrator: planning, the turns of the agent in the    *)
(* generation sandbox G, what the server settles, audits and captures of   *)
(* them, the clean verification sandbox V, the durable checkpoints and the *)
(* publication, against questions to the user, files that drift between    *)
(* the steps, crashes and recovery from the last checkpoint.               *)
(*                                                                         *)
(* The candidate's source is a function from files to values.  Goals are   *)
(* numbered in the order in which select_executable_goal takes them.       *)
(***************************************************************************)
EXTENDS Integers, FiniteSets

CONSTANTS GoalCount,        \* goals of the graph
          Files,            \* the candidate's files
          Contents,         \* what the agent and its processes may make of them
          Base,             \* the content of the starter and the base version
          Inheritable,      \* checkpoints a recovery run may start from
          Passing,          \* for every goal, the contents its acceptance suite passes
          Compiling,        \* the contents that type-check and build
          ConfigFiles,      \* _PROJECT_CONFIG_PATHS
          InvalidDrafts,    \* plans the server rejects
          MaxCorrections,   \* _MAX_GOAL_GRAPH_CORRECTIONS
          MaxCapsuleGoals,  \* limits of _checkpoint_goal_changed_paths: 6 goals
          MaxCapsulePaths,  \*   and 24 paths each
          MaxTurns,         \* turns the spend budget pays for
          MaxFaults,        \* crashes and drifts
          None

GoalIds == 1 .. GoalCount

ASSUME GoalLoopAssumption ==
    /\ GoalCount \in Nat \ {0}
    /\ \A content \in Contents : DOMAIN content = Files
    /\ Base \in Contents
    /\ Inheritable \subseteq Contents
    /\ Passing \in [GoalIds -> SUBSET Contents]
    /\ Compiling \subseteq Contents
    /\ ConfigFiles \subseteq Files
    /\ {MaxCorrections, MaxCapsuleGoals, MaxCapsulePaths, MaxTurns, MaxFaults} \subseteq Nat

(* What the auditor finds wrong with the files that are not the candidate's*)
(* to change, or with a file it may not have: a secret, a link, a binary.  *)
Taints == {"clean", "protected", "rejected"}

Generations == [content : Contents, taint : Taints, worked : BOOLEAN]

(* A capsule names the paths that each goal changed.  A recovery run starts*)
(* from the capsule of another run, whose goal ids need not be its own.    *)
Capsules == UNION {[ids -> SUBSET Files] : ids \in SUBSET (0 .. GoalCount)}

Checkpoints == [content : Contents, paths : Capsules]

(* None is Python's None, which is no sandbox, source or checkpoint.       *)
ASSUME NoneAssumption == None \notin Contents \cup Generations \cup Checkpoints

VARIABLES
    status,      \* RunRecord.status
    graph,       \* "none" until planned, then GraphStatus
    verified,    \* goals verified
    goal,        \* status of goal verified + 1
    inherited,   \* content of the source run's checkpoint, or None
    checkpoint,  \* the last checkpoint: its content and its capsule's paths
    question,    \* the durable cursor of a question to the user, or None
    G, V,        \* the generation and the verification sandbox
    task,        \* the orchestrator's locals
    published,   \* content of the published version
    refuted,     \* history: the candidate of the goal's last failed verification
    strays,      \* history: goals in whose G a process wrote between the last
                 \* audit and the capture that followed it
    turns, faults

vars == <<status, graph, verified, goal, inherited, checkpoint, question, G, V,
          task, published, refuted, strays, turns, faults>>

Ended == {"succeeded", "failed", "needs_attention", "cancelled"}

NoTask ==
    [pc |-> "none", kind |-> "build", next |-> "typecheck",
     goalStart |-> None, turnStart |-> None, candidateStart |-> None,
     goalPolicy |-> "must_change", policy |-> "must_change", round |-> 0,
     unknown |-> FALSE, paths |-> <<>>,
     audited |-> None, candidate |-> None, suite |-> {},
     corrections |-> 0, rejected |-> {}]

(* A recovery run inherits a checkpoint of another run, whose goal ids may *)
(* or may not be those of its own graph.                                   *)
Init ==
    /\ inherited \in {None} \cup Inheritable
    /\ IF inherited = None THEN checkpoint = None
       ELSE \E id \in {0, 1} :
                checkpoint = [content |-> inherited,
                              paths |-> [i \in {id} |->
                                             {f \in Files : inherited[f] # Base[f]}]]
    /\ status = "queued" /\ graph = "none" /\ verified = 0 /\ goal = "pending"
    /\ question = None /\ G = None /\ V = None /\ task = NoTask
    /\ published = None /\ refuted = None /\ strays = {} /\ turns = 0 /\ faults = 0

-----------------------------------------------------------------------------
(* Helpers.                                                                *)

At(pc) == status = "running" /\ task.pc = pc

Fault == faults < MaxFaults /\ faults' = faults + 1

Delta(before, after) == {f \in Files : before[f] # after[f]}

(* snapshot_hashes: every listed file, the protected ones included.        *)
Manifest == <<G.content, G.taint>>

FreshGeneration(content) == [content |-> content, taint |-> "clean", worked |-> FALSE]

SeededGeneration == FreshGeneration(Base)

(* The base is seeded first, and stays what the auditor compares with.     *)
RestoredGeneration == FreshGeneration(checkpoint.content)

(* The limits the capsule is read back with; it is written without any.    *)
Restorable(paths) ==
    /\ Cardinality(DOMAIN paths) <= MaxCapsuleGoals
    /\ \A id \in DOMAIN paths : Cardinality(paths[id]) <= MaxCapsulePaths

PriorPaths == UNION {task.paths[id] : id \in DOMAIN task.paths}

(* _initial_goal_effect_policy                                             *)
InitialGoalEffectPolicy(bound) ==
    IF bound /\ verified > 0 THEN "may_noop" ELSE "must_change"

(* settle_workspace_turn                                                   *)
Settled(policy, changed) == policy = "may_noop" \/ changed

(* A repair turn must change something; the candidate it starts from is    *)
(* captured unless an earlier repair did, or a file of it is unacceptable. *)
Repair(kind, next) ==
    [task EXCEPT !.pc = "turn", !.kind = kind, !.next = next,
                 !.policy = "must_change", !.turnStart = Manifest,
                 !.candidateStart = IF @ = None /\ G.taint # "rejected"
                                    THEN G.content ELSE @]

MutantFocusOnEveryGoal(candidate) == {verified + 1}

MutantSuiteReachesAhead(candidate) == 1 .. verified + 2

(* build_regression_suite: the goals whose acceptance is verified.         *)
RegressionSuite(candidate) ==
    LET changed == Delta(task.goalStart, candidate)
        final == verified + 1 = GoalCount
        full == \/ final
                \/ task.unknown
                \/ changed \cap ConfigFiles # {}
                \/ changed \cap PriorPaths # {}
    IN  IF full THEN 1 .. verified + 1 ELSE {verified + 1}

(* V is seeded from the base and receives the audited difference.          *)
CreateVerification(audited) == [frozen |-> audited, live |-> audited]

(* The gates run in V, on what is in it by then.                           *)
GatesPass(suite) ==
    /\ V.live \in Compiling
    /\ \A g \in suite : V.live \in Passing[g]

VerificationStable == V.live = V.frozen

(* The run is over; both sandboxes are discarded, a success keeps V.       *)
End(outcome) ==
    /\ status' = outcome
    /\ graph' = IF graph = "active" THEN "closed" ELSE graph
    /\ G' = None /\ V' = None /\ task' = NoTask
    /\ UNCHANGED <<verified, goal, inherited, checkpoint, question, published,
                   refuted, strays, turns>>

-----------------------------------------------------------------------------
(* A claim of the run, and the generation sandbox it works in.             *)

(* A question whose sandbox was reclaimed by a recovery cannot be loaded.  *)
Start ==
    /\ status = "queued"
    /\ question # None => G # None
    /\ status' = "running"
    /\ task' = [NoTask EXCEPT !.pc = "prepare"]
    /\ UNCHANGED <<graph, verified, goal, inherited, checkpoint, question, G, V,
                   published, refuted, strays, turns, faults>>

CapsuleIsReadable == checkpoint # None => Restorable(checkpoint.paths)

(* Adopt the retained sandbox, else restore the checkpoint, else seed.     *)
Prepare ==
    /\ At("prepare")
    /\ CapsuleIsReadable
    /\ G' = IF question # None THEN G
            ELSE IF checkpoint # None THEN RestoredGeneration
            ELSE SeededGeneration
    /\ task' = [task EXCEPT !.pc = CASE graph = "verified" -> "final"
                                     [] graph = "none"     -> "planning"
                                     [] OTHER              -> "select",
                            !.paths = IF checkpoint = None THEN <<>> ELSE checkpoint.paths]
    /\ UNCHANGED <<status, graph, verified, goal, inherited, checkpoint, question,
                   V, published, refuted, strays, turns, faults>>

RefuseCapsule ==
    /\ At("prepare")
    /\ ~CapsuleIsReadable
    /\ End("failed")
    /\ UNCHANGED faults

(* The retained sandbox is gone: the graph is left as it is.               *)
ContinuationUnavailable ==
    /\ At("prepare")
    /\ question # None
    /\ Fault
    /\ status' = "needs_attention" /\ G' = None /\ task' = NoTask
    /\ UNCHANGED <<graph, verified, goal, inherited, checkpoint, question, V,
                   published, refuted, strays, turns>>

-----------------------------------------------------------------------------
(* Planning.  A turn that changes a file fails the run (see Fail).         *)

Planned ==
    /\ graph' = "active"
    /\ task' = [task EXCEPT !.pc = "select"]
    /\ question' = None

PlanFromCache ==
    /\ At("planning")
    /\ question = None /\ task.corrections = 0
    /\ Planned
    /\ UNCHANGED <<status, verified, goal, inherited, checkpoint, G, V, published,
                   refuted, strays, turns, faults>>

PlanningTurn ==
    /\ At("planning")
    /\ turns < MaxTurns
    /\ turns' = turns + 1
    /\ \/ Planned
       \/ \E draft \in InvalidDrafts \ task.rejected :
              /\ task.corrections < MaxCorrections
              /\ task' = [task EXCEPT !.corrections = @ + 1, !.rejected = @ \cup {draft}]
              /\ question' = None
              /\ UNCHANGED graph
    /\ UNCHANGED <<status, verified, goal, inherited, checkpoint, G, V, published,
                   refuted, strays, faults>>

(* The same draft again, or one more after the last correction.            *)
PlanningFails ==
    /\ At("planning")
    /\ turns < MaxTurns
    /\ \E draft \in InvalidDrafts :
           draft \in task.rejected \/ task.corrections = MaxCorrections
    /\ End("failed")
    /\ UNCHANGED faults

-----------------------------------------------------------------------------
(* A goal: taken up, or continued after the user's answer.                 *)

MutantNoOpOnDriftedWorkspace == checkpoint # None

(* The workspace is exactly the last checkpoint.                           *)
CheckpointBound == checkpoint # None /\ G.content = checkpoint.content

(* reconcile_generation_advisory reinstalls the server's own files.        *)
ReconcileAdvisory ==
    G' = [G EXCEPT !.taint = IF @ = "protected" THEN "clean" ELSE @]

(* A current goal of an earlier claim is resumed, else the next one is     *)
(* activated; no file may be one that a checkpoint refuses.                *)
StartGoal ==
    /\ At("select")
    /\ question = None
    /\ G.taint # "rejected"
    /\ goal' = "active"
    /\ ReconcileAdvisory
    /\ LET policy == InitialGoalEffectPolicy(CheckpointBound)
       IN  task' = [task EXCEPT
                       !.pc = "turn", !.kind = "build", !.next = "typecheck",
                       !.goalStart = G.content, !.turnStart = <<G.content, "clean">>,
                       !.candidateStart = None, !.goalPolicy = policy,
                       !.policy = policy, !.round = 0,
                       !.unknown = @ \/ (checkpoint # None /\ ~CheckpointBound)]
    /\ refuted' = None
    /\ UNCHANGED <<status, graph, verified, inherited, checkpoint, question, V,
                   published, strays, turns, faults>>

MutantFreshTurnAfterAnswer ==
    [task EXCEPT !.kind = question.kind, !.round = question.round,
                 !.goalStart = question.goalStart, !.turnStart = Manifest,
                 !.candidateStart = question.candidateStart,
                 !.goalPolicy = question.goalPolicy, !.policy = question.policy]

MutantAnswerForgetsTheRepair ==
    [task EXCEPT !.kind = question.kind, !.round = question.round,
                 !.goalStart = question.goalStart, !.turnStart = question.turnStart,
                 !.goalPolicy = question.goalPolicy, !.policy = question.policy]

(* What the durable cursor of the question restores.                       *)
ContinuedTurn ==
    [task EXCEPT !.kind = question.kind, !.round = question.round,
                 !.goalStart = question.goalStart, !.turnStart = question.turnStart,
                 !.candidateStart = question.candidateStart,
                 !.goalPolicy = question.goalPolicy, !.policy = question.policy]

(* The logical turn goes on from where the question interrupted it; what   *)
(* it changed before is not known, so every verified goal is checked again.*)
ContinueGoal ==
    /\ At("select")
    /\ question # None
    /\ goal = "active"
    /\ ReconcileAdvisory
    /\ task' = [ContinuedTurn EXCEPT !.pc = "turn", !.next = "typecheck",
                                     !.unknown = TRUE]
    /\ UNCHANGED <<status, graph, verified, goal, inherited, checkpoint, question, V,
                   published, refuted, strays, turns, faults>>

-----------------------------------------------------------------------------
(* A turn of the agent.                                                    *)

Work(content, taint) ==
    G' = [content |-> content, taint |-> taint, worked |-> TRUE]

Turn ==
    /\ At("turn")
    /\ turns < MaxTurns
    /\ turns' = turns + 1
    /\ \E content \in Contents, taint \in Taints : Work(content, taint)
    /\ question' = None
    /\ task' = [task EXCEPT !.pc = "settle"]
    /\ UNCHANGED <<status, graph, verified, goal, inherited, checkpoint, V, published,
                   refuted, strays, faults>>

TurnContext ==
    [kind |-> task.kind, round |-> task.round,
     goalStart |-> task.goalStart, turnStart |-> task.turnStart,
     candidateStart |-> task.candidateStart,
     goalPolicy |-> task.goalPolicy, policy |-> task.policy]

(* wait_for_user_input: the cursor is durable, the lease is given up, G is *)
(* kept as it is.                                                          *)
AskUser ==
    /\ turns < MaxTurns
    /\ turns' = turns + 1
    /\ \/ /\ At("planning")
          /\ UNCHANGED G
       \/ /\ At("turn")
          /\ \E content \in Contents, taint \in Taints : Work(content, taint)
    /\ question' = TurnContext
    /\ status' = "waiting"
    /\ task' = NoTask
    /\ UNCHANGED <<graph, verified, goal, inherited, checkpoint, V, published, refuted, strays,
                   faults>>

AnswerUser ==
    /\ status = "waiting"
    /\ status' = "queued"
    /\ UNCHANGED <<graph, verified, goal, inherited, checkpoint, question, G, V, task,
                   published, refuted, strays, turns, faults>>

(* A turn without effect gets one more turn if it was the build, and ends  *)
(* the run otherwise.                                                      *)
SettleTurn ==
    /\ At("settle")
    /\ LET changed == Manifest # task.turnStart
       IN  \/ /\ Settled(task.policy, changed)
              /\ task' = [task EXCEPT !.pc = task.next]
              /\ UNCHANGED <<status, graph, G, V>>
           \/ /\ ~Settled(task.policy, changed)
              /\ task.kind = "build"
              /\ task' = Repair("settlement_repair", "typecheck")
              /\ UNCHANGED <<status, graph, G, V>>
           \/ /\ ~Settled(task.policy, changed)
              /\ task.kind # "build"
              /\ End("failed")
    /\ UNCHANGED <<verified, goal, inherited, checkpoint, question, published,
                   refuted, strays, turns, faults>>

Typecheck ==
    /\ At("typecheck")
    /\ task' = IF G.content \in Compiling
               THEN [task EXCEPT !.pc = "claim"]
               ELSE Repair("typecheck_repair", "typecheck")
    /\ UNCHANGED <<status, graph, verified, goal, inherited, checkpoint, question, G, V,
                   published, refuted, strays, turns, faults>>

-----------------------------------------------------------------------------
(* Claim, audit, capture.                                                  *)

Claim ==
    /\ At("claim")
    /\ goal = "active"
    /\ goal' = "claimed"
    /\ task' = [task EXCEPT !.pc = "audit"]
    /\ UNCHANGED <<status, graph, verified, inherited, checkpoint, question, G, V,
                   published, refuted, strays, turns, faults>>

RestoreProtectedFiles == [G EXCEPT !.taint = "clean"]

(* Protected files are restored and the audit runs again; a file that may  *)
(* not be there takes the goal back to the agent.                          *)
Audit ==
    /\ At("audit")
    /\ \/ /\ G.taint = "clean"
          /\ task' = [task EXCEPT !.pc = "capture", !.audited = G.content]
          /\ strays' = strays \ {verified + 1}
          /\ UNCHANGED <<goal, G>>
       \/ /\ G.taint = "protected"
          /\ G' = RestoreProtectedFiles
          /\ UNCHANGED <<goal, task, strays>>
       \/ /\ G.taint = "rejected"
          /\ goal' = "active"
          /\ task' = Repair("workspace_audit_repair", "claim")
          /\ UNCHANGED <<G, strays>>
    /\ UNCHANGED <<status, graph, verified, inherited, checkpoint, question, V,
                   published, refuted, turns, faults>>

(* The turn, the goal and the repair each must have had their effect, now  *)
(* that the server has put its own files back.                             *)
CandidateIsAdmitted ==
    /\ G.taint # "rejected"
    /\ task.kind # "build" => Settled("must_change", Manifest # task.turnStart)
    /\ Settled(task.goalPolicy, G.content # task.goalStart)
    /\ task.candidateStart # None => Settled("must_change", G.content # task.candidateStart)

(* The candidate is read from G again; V gets what the audit read.         *)
Capture ==
    /\ At("capture")
    /\ \/ /\ CandidateIsAdmitted
          /\ V' = CreateVerification(task.audited)
          /\ task' = [task EXCEPT !.pc = "verify", !.candidate = G.content,
                                  !.candidateStart = None,
                                  !.suite = RegressionSuite(G.content)]
          /\ UNCHANGED <<status, graph, G>>
       \/ /\ ~CandidateIsAdmitted
          /\ End("failed")
    /\ UNCHANGED <<verified, goal, inherited, checkpoint, question, published,
                   refuted, strays, turns, faults>>

-----------------------------------------------------------------------------
(* Verification, checkpoint, publication.                                  *)

VerificationPasses ==
    /\ At("verify")
    /\ GatesPass(task.suite)
    /\ task' = [task EXCEPT !.pc = "accept"]
    /\ UNCHANGED <<status, graph, verified, goal, inherited, checkpoint, question, G, V,
                   published, refuted, strays, turns, faults>>

(* A gate failed: V is retired and the goal goes back to the agent, with   *)
(* the candidate as the content its repair has to leave behind.            *)
VerificationFails ==
    /\ At("verify")
    /\ V' = None
    /\ goal' = "active"
    /\ task' = [Repair("verification_repair", "claim") EXCEPT
                   !.candidateStart = task.candidate, !.round = @ + 1]
    /\ refuted' = task.candidate
    /\ UNCHANGED <<status, graph, verified, inherited, checkpoint, question, G, published,
                   strays, turns, faults>>

(* No trustworthy result: the claim is given up, nothing is repaired.      *)
InfrastructureFails ==
    /\ At("verify")
    /\ Fault
    /\ End("needs_attention")

MutantGoalPathsOnly(candidate) == Delta(task.goalStart, candidate)

(* When earlier changes are not known, everything that differs from the    *)
(* base counts as changed by this goal.                                    *)
GoalPaths(candidate) ==
    Delta(task.goalStart, candidate)
        \cup (IF task.unknown THEN Delta(Base, task.audited) ELSE {})

MutantRecordWhatIsThere(paths) == [content |-> G.content, paths |-> paths]

VerifiedCheckpoint(paths) == [content |-> task.candidate, paths |-> paths]

(* record_verified_checkpoint: checkpoint, goal and graph in one           *)
(* transaction, which also activates the next goal.                        *)
RecordVerifiedCheckpoint ==
    LET paths == [id \in DOMAIN task.paths \cup {verified + 1} |->
                     IF id = verified + 1 THEN GoalPaths(task.candidate)
                     ELSE task.paths[id]]
        final == verified + 1 = GoalCount
    IN  /\ At("accept")
        /\ VerificationStable
        /\ checkpoint' = VerifiedCheckpoint(paths)
        /\ verified' = verified + 1
        /\ goal' = IF final THEN goal ELSE "active"
        /\ graph' = IF final THEN "verified" ELSE graph
        /\ V' = IF final THEN V ELSE None
        /\ task' = [task EXCEPT !.pc = IF final THEN "publish" ELSE "select",
                                !.paths = paths, !.unknown = FALSE]
        /\ UNCHANGED <<status, inherited, question, G, published, refuted, strays, turns, faults>>

(* V drifted from what was frozen, or its preview is gone.                 *)
VerificationUnstable ==
    /\ task.pc \in {"accept", "publish"} /\ status = "running"
    /\ ~VerificationStable
    /\ End("failed")
    /\ UNCHANGED faults

(* _publish: the same check again, then the version of what V froze.       *)
Publish ==
    /\ At("publish")
    /\ VerificationStable
    /\ published' = V.frozen
    /\ status' = "succeeded" /\ G' = None /\ task' = NoTask
    /\ UNCHANGED <<graph, verified, goal, inherited, checkpoint, question, V, refuted, strays,
                   turns, faults>>

(* A recovered run whose graph is verified verifies everything once more.  *)
AuditFinalCheckpoint ==
    /\ At("final")
    /\ V' = CreateVerification(G.content)
    /\ task' = [task EXCEPT !.pc = "reverify", !.suite = GoalIds]
    /\ UNCHANGED <<status, graph, verified, goal, inherited, checkpoint, question, G,
                   published, refuted, strays, turns, faults>>

ReverifyFinalCheckpoint ==
    /\ At("reverify")
    /\ \/ /\ GatesPass(task.suite)
          /\ task' = [task EXCEPT !.pc = "publish"]
          /\ UNCHANGED <<status, graph, G, V>>
       \/ End("needs_attention")
    /\ UNCHANGED <<verified, goal, inherited, checkpoint, question, published,
                   refuted, strays, turns, faults>>

-----------------------------------------------------------------------------
(* The world around it.                                                    *)

(* Any step may raise: a broken turn, a workspace contract, the budget.    *)
Fail ==
    /\ status = "running"
    /\ End("failed")
    /\ UNCHANGED faults

Cancel ==
    /\ status = "running"
    /\ End("cancelled")
    /\ UNCHANGED faults

(* The worker dies and the sweep reclaims its sandboxes; the run is queued *)
(* again if its graph has a checkpoint of its own.                         *)
Crash ==
    /\ status = "running"
    /\ Fault
    /\ G' = None /\ V' = None /\ task' = NoTask
    /\ status' = IF verified > 0 THEN "queued" ELSE "failed"
    /\ graph' = IF verified = 0 /\ graph = "active" THEN "closed" ELSE graph
    /\ UNCHANGED <<verified, goal, inherited, checkpoint, question, published, refuted, strays,
                   turns>>

(* A process the agent left behind writes in G between the turns, between  *)
(* the audit and the capture too: nothing looks at G a second time.        *)
DriftGeneration ==
    /\ G # None
    /\ G.worked
    /\ task.pc # "turn"
    /\ Fault
    /\ \E content \in Contents \ {G.content} : G' = [G EXCEPT !.content = content]
    /\ strays' = IF task.pc = "capture" THEN strays \cup {verified + 1} ELSE strays
    /\ UNCHANGED <<status, graph, verified, goal, inherited, checkpoint, question, V,
                   task, published, refuted, turns>>

(* The candidate's own processes write in V, and do not undo it: a change  *)
(* that is undone in time is not noticed (README, "not solved").           *)
DriftVerification ==
    /\ V # None
    /\ status = "running"
    /\ VerificationStable
    /\ Fault
    /\ \E content \in Contents \ {V.live} : V' = [V EXCEPT !.live = content]
    /\ UNCHANGED <<status, graph, verified, goal, inherited, checkpoint, question, G,
                   task, published, refuted, strays, turns>>

Next ==
    \/ Start \/ Prepare \/ RefuseCapsule
    \/ PlanFromCache \/ PlanningTurn \/ PlanningFails
    \/ StartGoal \/ ContinueGoal \/ Turn \/ AskUser
    \/ SettleTurn \/ Typecheck \/ Claim \/ Audit \/ Capture
    \/ VerificationPasses \/ VerificationFails
    \/ RecordVerifiedCheckpoint \/ VerificationUnstable \/ Publish
    \/ AuditFinalCheckpoint \/ ReverifyFinalCheckpoint
    \/ Fail
    \/ ContinuationUnavailable \/ AnswerUser \/ InfrastructureFails
    \/ Cancel \/ Crash \/ DriftGeneration \/ DriftVerification

Spec == Init /\ [][Next]_vars

-----------------------------------------------------------------------------
(* Properties.                                                             *)

TypeOK ==
    /\ status \in {"queued", "running", "waiting"} \cup Ended
    /\ graph \in {"none", "active", "verified", "closed"}
    /\ verified \in 0 .. GoalCount
    /\ goal \in {"pending", "active", "claimed"}
    /\ {inherited, published, refuted} \subseteq Contents \cup {None}
    /\ checkpoint # None => checkpoint.content \in Contents
    /\ G # None => G.content \in Contents /\ G.taint \in Taints
    /\ V # None => {V.frozen, V.live} \subseteq Contents
    /\ task.suite \subseteq GoalIds
    /\ strays \subseteq GoalIds
    /\ turns \in 0 .. MaxTurns /\ faults \in 0 .. MaxFaults

(* The graph's promise: goals one at a time, and a delivery that satisfies *)
(* every one of them (GoalDelivery).                                       *)
Delivery == INSTANCE GoalDelivery WITH promoted <- verified, delivered <- published
DeliverySpec == Delivery!DeliverySpec

(* A recorded checkpoint compiles and passes the acceptance suite of the   *)
(* goal it promotes, although it is read from G after the audit that V was *)
(* made from: the two differ only if G was written between those reads.    *)
CheckpointIsVerified ==
    verified > 0 /\ verified \notin strays =>
        /\ checkpoint.content \in Compiling
        /\ checkpoint.content \in Passing[verified]

(* Even then a goal is promoted for what passed: V is judged and unchanged.*)
PromotionIsJudged ==
    [][verified' = verified + 1 =>
           /\ V.frozen \in Compiling
           /\ V.frozen \in Passing[verified']]_vars

(* No goal is promoted on an unchanged workspace, unless that workspace is *)
(* the checkpoint of a goal verified before it.                            *)
GoalsHaveEffect ==
    [][verified' = verified + 1 =>
           \/ checkpoint'.content # task.goalStart
           \/ verified > 0 /\ checkpoint.content = task.goalStart]_vars

(* A candidate that failed its verification is not captured again as it is,*)
(* whatever repairs, questions, restored files and drifts lie between, and *)
(* V does not judge it again unless G strayed between audit and capture.   *)
RepairIsVerifiedAnew ==
    [][V = None /\ V' # None /\ At("capture") =>
           /\ task'.candidate # refuted
           /\ verified + 1 \notin strays => V'.frozen # refuted]_vars

(* A build is sent back as having no effect only if the goal's workspace   *)
(* is what it was when the goal started, also over a question to the user. *)
QuestionKeepsTheTurn ==
    [][At("settle") /\ task.kind = "build" /\ task'.kind = "settlement_repair" =>
           G.content = task.goalStart]_vars

(* A logical turn is judged from where it began (TurnContext), over repairs,*)
(* questions, adopted sandboxes and restored files.                        *)
LogicalTurnIsKept == RepairIsVerifiedAnew /\ QuestionKeepsTheTurn

(* A goal verified by its own suite alone leaves every file as it was that *)
(* an earlier goal of the run has delivered, in what will be its checkpoint*)
(* and in what V judges: while no settlement of the run has strayed.       *)
FocusIsSafe ==
    (inherited = None /\ V # None /\ verified > 0 /\ task.suite = {verified + 1} /\ strays = {}) =>
        \A f \in Files :
            checkpoint.content[f] # Base[f] =>
                task.candidate[f] = checkpoint.content[f] /\ V.frozen[f] = checkpoint.content[f]

(* A verdict is about the code it is recorded for, and a focused one leaves*)
(* nothing unverified that it could have broken.                           *)
VerdictIsSound == [](TypeOK /\ CheckpointIsVerified /\ FocusIsSafe) /\ PromotionIsJudged

(* README.md:112: "Recovery starts a fresh session from the latest         *)
(* verified checkpoint": what is recorded was verified.                    *)
LatestCheckpointIsVerified ==
    verified > 0 =>
        /\ checkpoint.content \in Compiling
        /\ checkpoint.content \in Passing[verified]

(* The same: what is recorded can be read back.                            *)
CheckpointIsReadable == verified > 0 => CapsuleIsReadable
=============================================================================
