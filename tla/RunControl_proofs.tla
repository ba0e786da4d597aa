-------------------------- MODULE RunControl_proofs --------------------------
(***************************************************************************)
(* Proofs, for every number of workers, runs, tokens and goals, of the     *)
(* safety properties that RunControl's runs check on small instances.      *)
(***************************************************************************)
EXTENDS RunControl, SequenceTheorems, WellFoundedInduction, TLAPS

-----------------------------------------------------------------------------
(* Operators.                                                              *)

(* "The oldest" is well defined: a non-empty set of numbers has a least    *)
(* one, and Oldest returns it.                                             *)
LEMMA OldestIsLeast ==
    ASSUME NEW S \in SUBSET Nat, S # {}
    PROVE  Oldest(S) \in S /\ \A s \in S : Oldest(S) <= s
<1>1. \E r \in S : \A s \in S : ~(<<s, r>> \in OpToRel(<, Nat))
  BY NatLessThanWellFounded, WFMin
<1>2. \E r \in S : \A s \in S : r <= s
  <2>1. PICK r \in S : \A s \in S : ~(<<s, r>> \in OpToRel(<, Nat))
    BY <1>1
  <2>2. ASSUME NEW s \in S PROVE r <= s
    <3>1. ~(s < r)
      BY <2>1 DEF OpToRel
    <3> QED
      BY <3>1
  <2> QED
    BY <2>2
<1> QED
  BY <1>2 DEF Oldest

(* The queued run _advance_project_after_terminal picks is one of the      *)
(* queued runs, whenever there is one.                                     *)
LEMMA OldestIsMember ==
    ASSUME NEW S \in SUBSET Runs, S # {}
    PROVE  Oldest(S) \in S
<1>1. S \in SUBSET Nat
  BY BoundsAssumption DEF Runs
<1> QED
  BY <1>1, OldestIsLeast

(* The project pointer is set to a run number or to none.                  *)
LEMMA OldestType ==
    ASSUME NEW S \in SUBSET Runs
    PROVE  Oldest(S) \in 0 .. MaxRuns
<1>1. ASSUME S = {} PROVE Oldest(S) \in 0 .. MaxRuns
  BY <1>1, BoundsAssumption DEF Oldest, NoRun
<1>2. ASSUME S # {} PROVE Oldest(S) \in 0 .. MaxRuns
  <2>1. Oldest(S) \in 1 .. MaxRuns
    BY <1>2, OldestIsMember DEF Runs
  <2> QED
    BY <2>1, BoundsAssumption
<1> QED
  BY <1>1, <1>2

(* _advance_project_after_terminal keeps the project's columns typed.      *)
LEMMA AdvanceType ==
    ASSUME AdvanceProjectAfterTerminal
    PROVE  activeRun' \in 0 .. MaxRuns /\ projectStatus' \in {"idle", "queued"}
BY OldestType DEF AdvanceProjectAfterTerminal

(* What a run's end leaves in active_run_id: a queued run, or NULL when    *)
(* the queue is empty.                                                     *)
LEMMA AdvancePointsAtQueue ==
    ASSUME AdvanceProjectAfterTerminal
    PROVE  /\ activeRun' # NoRun => activeRun' \in Runs /\ status'[activeRun'] = "queued"
           /\ activeRun' = NoRun => \A r \in Runs : status'[r] # "queued"
<1> DEFINE Queue == {r \in Runs : status'[r] = "queued"}
<1>1. activeRun' = Oldest(Queue)
  BY DEF AdvanceProjectAfterTerminal
<1>2. CASE Queue = {}
  <2>1. activeRun' = NoRun
    BY <1>1, <1>2 DEF Oldest
  <2> QED
    BY <1>2, <2>1
<1>3. CASE Queue # {}
  <2>1. activeRun' \in Queue
    BY <1>1, <1>3, OldestIsMember
  <2>2. activeRun' # NoRun
    BY <2>1 DEF Runs, NoRun
  <2> QED
    BY <2>1, <2>2
<1> QED
  BY <1>2, <1>3

(* A published, saved or restored version is appended to the history.      *)
LEMMA NewVersionType ==
    ASSUME versions \in Seq(Version),
           NEW parent \in Nat, NEW qa \in {"passed", "manual", "restored"}, NEW run \in Nat,
           NewVersion(parent, qa, run)
    PROVE  versions' \in Seq(Version) /\ headVersion' \in Nat
BY AppendProperties, LenProperties DEF NewVersion, Version

(* A task that passes the write fence executes a run.                      *)
LEMMA FencedRun ==
    ASSUME TypeOK, NEW w \in Workers, Fenced(w)
    PROVE  taskRun[w] \in Runs
BY BoundsAssumption DEF TypeOK, Fenced, NoRun, Runs

-----------------------------------------------------------------------------
(* Type correctness.                                                       *)

(* TypeOK is inductive.                                                   *)
LEMMA TypeStep == TypeOK /\ [Next]_vars => TypeOK'
<1> SUFFICES ASSUME TypeOK, [Next]_vars PROVE TypeOK'
  OBVIOUS
<1> USE BoundsAssumption DEF TypeOK
<1>1. ASSUME NEW base \in Nat, QueueRun(base) PROVE TypeOK'
  BY <1>1 DEF QueueRun, lease, goals, published, dialogue, tasks, Runs, RunStatus
<1>2. CASE Request
  <2>1. ASSUME NEW r \in Runs, AnswerUserInput(r) PROVE TypeOK'
    BY <2>1 DEF AnswerUserInput, ReleaseLease, PointProjectAt, Runs, RunStatus, Continuation,
                goals, published, tasks
  <2>2. ASSUME NEW r \in Runs, RequestCancel(r) PROVE TypeOK'
    <3>1. /\ status' \in [Runs -> RunStatus]
          /\ continuation' \in [Runs -> Continuation]
      <4>1. CASE UNCHANGED <<status, continuation>>
        BY <4>1
      <4>2. CASE /\ status' = [status EXCEPT ![r] = "cancelled"]
                 /\ continuation' = [continuation EXCEPT ![r] = "none"]
        BY <4>2 DEF RunStatus, Terminal, Continuation
      <4> QED
        BY <2>2, <4>1, <4>2 DEF RequestCancel
    <3>4. cancelRequested' \in [Runs -> BOOLEAN]
      BY <2>2 DEF RequestCancel
    <3>2. leaseOwner' \in [Runs -> Tokens \cup {NoToken}] /\ leaseExpired' \in [Runs -> BOOLEAN]
      BY <2>2 DEF RequestCancel, ReleaseLease, lease
    <3>3. /\ activeRun' \in 0 .. MaxRuns
          /\ projectStatus' \in {"idle", "queued", "running", "waiting_for_user"}
      BY <2>2, AdvanceType DEF RequestCancel, project
    <3> QED
      BY <2>2, <3>1, <3>2, <3>3, <3>4 DEF RequestCancel, goals, published, tasks
  <2>3. ASSUME NEW base \in 0 .. Len(versions), CreateMessageAndRun(base) PROVE TypeOK'
    BY <2>3, <1>1 DEF CreateMessageAndRun
  <2>4. ASSUME NEW r \in Runs, CreateRecoveryMessageAndRun(r) PROVE TypeOK'
    <3>1. VerifiedBaseVersion(r) \in Nat
      BY DEF VerifiedBaseVersion, NoVersion
    <3> QED
      BY <2>4, <3>1, <1>1 DEF CreateRecoveryMessageAndRun
  <2>5. CASE SaveFileContent
    BY <2>5, NewVersionType DEF SaveFileContent, NoRun, lifecycle, lease, goals, project, dialogue, tasks
  <2>6. CASE RestoreVersion
    BY <2>6, NewVersionType DEF RestoreVersion, NoRun, lifecycle, lease, goals, project, dialogue, tasks
  <2> QED
    BY <1>2, <2>1, <2>2, <2>3, <2>4, <2>5, <2>6 DEF Request
<1>3. ASSUME NEW w \in Workers, NEW r \in Runs, NEW token \in Tokens, ClaimNextRun(w, r, token)
      PROVE  TypeOK'
  <2>1. OtherCandidates(w) \subseteq Runs
    <3>1. \A v \in Workers : locked[v] # {} => Oldest(locked[v]) \in Runs
      BY OldestIsMember
    <3> QED
      BY <3>1 DEF OtherCandidates
  <2>2. status' \in [Runs -> RunStatus] /\ leaseOwner' \in [Runs -> Tokens \cup {NoToken}]
    BY <1>3 DEF ClaimNextRun, RunStatus, Writing
  <2>3. taskRun' \in [Workers -> 0 .. MaxRuns] /\ taskToken' \in [Workers -> Tokens \cup {NoToken}]
    BY <1>3 DEF ClaimNextRun, Runs
  <2>4. locked' \in [Workers -> SUBSET Runs] /\ overtaken' \subseteq Runs
    BY <1>3, <2>1 DEF ClaimNextRun
  <2> QED
    BY <1>3, <2>2, <2>3, <2>4 DEF ClaimNextRun, PointProjectAt, Runs, goals, published, dialogue
<1>4. ASSUME NEW r \in Runs, NEW intact \in BOOLEAN, RecoverExpiredRunningRun(r, intact)
      PROVE  TypeOK'
  <2>1. CASE Resumable(r, intact)
    <3>1. status' \in [Runs -> RunStatus] /\ continuation' \in [Runs -> Continuation]
      BY <1>4, <2>1 DEF RecoverExpiredRunningRun, RequeueExpired, RunStatus, Continuation
    <3>2. leaseOwner' \in [Runs -> Tokens \cup {NoToken}] /\ leaseExpired' \in [Runs -> BOOLEAN]
      BY <1>4 DEF RecoverExpiredRunningRun, ReleaseLease
    <3>3. activeRun' \in 0 .. MaxRuns /\ projectStatus' = "queued"
      BY <1>4, <2>1 DEF RecoverExpiredRunningRun, RequeueExpired, PointProjectAt, Runs
    <3> QED
      BY <1>4, <2>1, <3>1, <3>2, <3>3 DEF RecoverExpiredRunningRun, RequeueExpired, goals, published, tasks
  <2>2. CASE ~Resumable(r, intact)
    BY <1>4, <2>2, AdvanceType DEF RecoverExpiredRunningRun, FailExpired, ReleaseLease, RunStatus,
                      Terminal, GraphStatus, published, dialogue, tasks
  <2> QED
    BY <2>1, <2>2
<1>5. ASSUME NEW w \in Workers, Turn(w) PROVE TypeOK'
  <2>1. CASE CompleteRunContinuation(w)
    BY <2>1 DEF CompleteRunContinuation, Continuation, lifecycle, lease, goals, project, published, tasks
  <2>2. CASE CreateGoalGraph(w)
    BY <2>2 DEF CreateGoalGraph, GraphStatus, lifecycle, lease, project, published, dialogue, tasks
  <2>3. CASE RecordVerifiedCheckpoint(w)
    <3>1. taskRun[w] \in Runs
      BY <2>3, FencedRun DEF RecordVerifiedCheckpoint, Advancing
    <3>2. checkpoints' \in [Runs -> Nat]
      BY <2>3, <3>1 DEF RecordVerifiedCheckpoint
    <3>3. graph' \in [Runs -> GraphStatus]
      BY <2>3 DEF RecordVerifiedCheckpoint, GraphStatus
    <3> QED
      BY <2>3, <3>2, <3>3 DEF RecordVerifiedCheckpoint, lifecycle, lease, project, published, dialogue, tasks
  <2>4. ASSUME NEW to \in {"failed", "cancelled"}, CloseGoalGraph(w, to) PROVE TypeOK'
    BY <2>4 DEF CloseGoalGraph, GraphStatus, lifecycle, lease, project, published, dialogue, tasks
  <2> QED
    BY <1>5, <2>1, <2>2, <2>3, <2>4 DEF Turn
<1>6. ASSUME NEW w \in Workers, Conclude(w) PROVE TypeOK'
  <2>2. CASE WaitForUserInput(w)
    <3>1. taskRun[w] \in 0 .. MaxRuns
      OBVIOUS
    <3>2. status' \in [Runs -> RunStatus] /\ continuation' \in [Runs -> Continuation]
      BY <2>2 DEF WaitForUserInput, Continuation, RunStatus, Writing
    <3>3. leaseOwner' \in [Runs -> Tokens \cup {NoToken}] /\ leaseExpired' \in [Runs -> BOOLEAN]
      BY <2>2 DEF WaitForUserInput, ReleaseLease
    <3> QED
      BY <2>2, <3>1, <3>2, <3>3 DEF WaitForUserInput, PointProjectAt, goals, published, tasks
  <2>3. ASSUME NEW to \in {"failed", "needs_attention"}, MarkTerminal(w, to) PROVE TypeOK'
    BY <2>3, AdvanceType DEF MarkTerminal, ReleaseLease, RunStatus, Terminal,
                goals, published, dialogue, tasks
  <2>4. CASE FinalizeVerifiedPublish(w)
    <3>1. baseVersion[taskRun[w]] \in Nat
      BY <2>4 DEF FinalizeVerifiedPublish, Advancing, Fenced, NoRun, Runs
    <3>2. versions' \in Seq(Version) /\ headVersion' \in Nat
      BY <2>4, <3>1, NewVersionType DEF FinalizeVerifiedPublish
    <3> QED
      BY <2>4, <3>2, AdvanceType DEF FinalizeVerifiedPublish, ReleaseLease, RunStatus, Terminal,
                goals, dialogue, tasks
  <2> QED
    BY <1>6, <2>2, <2>3, <2>4 DEF Conclude
<1>7. ASSUME NEW w \in Workers, LeaveTask(w) \/ EscapeTask(w) \/ CrashWorker(w) \/ ClaimRefused(w)
      PROVE  TypeOK'
  <2>1. /\ taskRun' \in [Workers -> 0 .. MaxRuns] /\ taskToken' \in [Workers -> Tokens \cup {NoToken}]
        /\ locked' \in [Workers -> SUBSET Runs] /\ overtaken' \subseteq Runs
    <3>1. DropTask(w)
      BY <1>7 DEF LeaveTask, EscapeTask, CrashWorker, ClaimRefused
    <3>2. NoRun \in 0 .. MaxRuns
      BY DEF NoRun
    <3> QED
      BY <3>1, <3>2 DEF DropTask
  <2>2. UNCHANGED <<lifecycle, lease, goals, project, published, dialogue>>
    BY <1>7 DEF LeaveTask, EscapeTask, CrashWorker, ClaimRefused
  <2>3. faults' \in Nat
    BY <1>7 DEF LeaveTask, EscapeTask, CrashWorker, ClaimRefused
  <2> QED
    BY <2>1, <2>2, <2>3 DEF lifecycle, lease, goals, project, published, dialogue
<1>8. ASSUME NEW r \in Runs, LeaseExpires(r) PROVE TypeOK'
  BY <1>8 DEF LeaseExpires, lifecycle, goals, project, published, dialogue, tasks
<1>9. CASE UNCHANGED vars
  BY <1>9 DEF vars, lifecycle, lease, goals, project, published, dialogue, tasks
<1>10. ASSUME NEW w \in Workers, NEW rows \in SUBSET Runs, SelectCandidates(w, rows) PROVE TypeOK'
  BY <1>10 DEF SelectCandidates, lifecycle, lease, goals, project, published, dialogue
<1> QED
  BY <1>2, <1>3, <1>4, <1>5, <1>6, <1>7, <1>8, <1>9, <1>10 DEF Next, Claim, Recover

(* The initial state is well typed.                                        *)
LEMMA InitIsTyped == Init => TypeOK
<1> SUFFICES ASSUME Init PROVE TypeOK
  OBVIOUS
<1>1. versions \in Seq(Version)
  BY DEF Init
<1> QED
  BY <1>1, BoundsAssumption DEF Init, TypeOK, RunStatus, GraphStatus, Continuation, NoVersion, NoRun

(* Every reachable state is well typed: TypeOK is inductive.               *)
THEOREM TypeCorrect == Spec => []TypeOK
  BY InitIsTyped, TypeStep, PTL DEF Spec

-----------------------------------------------------------------------------
(* One writer, one worker that passes the fence.                           *)

(* SingleWriter and OneEffectiveWorker are not inductive: a second fenced  *)
(* worker is excluded because leases and running runs correspond, every    *)
(* task carries a token, and no two tasks carry the same one; a new run is *)
(* never an old one because runs are numbered in the order of creation.    *)
LeaseInv ==
    /\ \A r \in Runs : status[r] = "absent" <=> r > created
    /\ \A r \in Runs : status[r] = "running" <=> leaseOwner[r] # NoToken
    /\ \A w \in Workers : taskRun[w] = NoRun <=> taskToken[w] = NoToken
    /\ \A v, w \in Workers : taskToken[v] = taskToken[w] /\ taskToken[v] # NoToken => v = w

(* What a claim in progress may rely on: its rows stay queued and are its  *)
(* own, and while no other claim has committed since it counted, the       *)
(* project has no writer, for nothing but a claim makes one.               *)
ClaimInv ==
    /\ \A w \in Workers, r \in Runs : r \in locked[w] => status[r] = "queued"
    /\ \A v, w \in Workers, r \in Runs : r \in locked[v] /\ r \in locked[w] => v = w
    /\ \A w \in Workers : locked[w] # {} => taskRun[w] = NoRun
    /\ \A w \in Workers : locked[w] # {} =>
          \/ Oldest(locked[w]) \in overtaken
          \/ ProjectIsFree(Oldest(locked[w]))

WriterInv == SingleWriter /\ LeaseInv /\ ClaimInv

(* A transaction that gains the project no writer and takes no locked row  *)
(* out of the queue leaves every claim in progress what it relies on.      *)
LEMMA RunsMovePreservesClaimInv ==
    ASSUME ClaimInv, UNCHANGED tasks,
           \A r \in Runs : status'[r] \in Writing => status[r] \in Writing,
           \A r \in Runs : status[r] = "queued" /\ IsLocked(r) => status'[r] = "queued"
    PROVE  ClaimInv'
BY DEF ClaimInv, tasks, ProjectIsFree, IsLocked

(* Every transaction that takes a run out of the workers' hands: it leaves *)
(* the run without a lease, and nobody else gains one.                     *)
LEMMA ReleasePreservesWriterInv ==
    ASSUME TypeOK, WriterInv, NEW r \in Runs, NEW x,
           x \notin {"running", "absent"},
           x = "waiting_for_user" => status[r] = "running",
           status[r] # "absent",
           status[r] = "queued" => ~IsLocked(r),
           status' = [status EXCEPT ![r] = x],
           ReleaseLease(r), UNCHANGED <<created, tasks>>
    PROVE  WriterInv'
<1> USE DEF TypeOK, WriterInv
<1>1. SingleWriter'
  BY DEF SingleWriter, Writing, tasks
<1>2. \A s \in Runs : status'[s] = "absent" <=> s > created'
  BY DEF LeaseInv
<1>3. \A s \in Runs : status'[s] = "running" <=> leaseOwner'[s] # NoToken
  BY DEF LeaseInv, ReleaseLease
<1>4. ClaimInv'
  BY RunsMovePreservesClaimInv DEF Writing
<1> QED
  BY <1>1, <1>2, <1>3, <1>4 DEF LeaseInv, tasks

(* A step that moves no run between states and no lease or task.           *)
LEMMA StutterPreservesWriterInv ==
    ASSUME WriterInv, UNCHANGED <<created, status, leaseOwner, tasks>>
    PROVE  WriterInv'
<1>1. ClaimInv'
  BY RunsMovePreservesClaimInv DEF WriterInv
<1> QED
  BY <1>1 DEF WriterInv, SingleWriter, LeaseInv, tasks

(* A task that ends forgets its run, its token and its locks together.     *)
LEMMA DropPreservesWriterInv ==
    ASSUME TypeOK, WriterInv, NEW w \in Workers, DropTask(w), UNCHANGED <<created, status, leaseOwner>>
    PROVE  WriterInv'
<1> USE DEF TypeOK, DropTask, WriterInv
<1>1. LeaseInv'
  BY DEF LeaseInv
<1>2. ClaimInv'
  BY DEF ClaimInv, ProjectIsFree
<1> QED
  BY <1>1, <1>2 DEF SingleWriter

(* A claim begins: its rows are queued and nobody else's, and the project  *)
(* has no writer but perhaps the row it chose, which is queued.            *)
LEMMA SelectPreservesWriterInv ==
    ASSUME TypeOK, WriterInv, NEW w \in Workers, NEW rows \in SUBSET Runs, SelectCandidates(w, rows)
    PROVE  WriterInv'
<1> USE DEF TypeOK, SelectCandidates, WriterInv
<1> DEFINE c == Oldest(rows)
<1>1. c \in rows /\ status[c] = "queued" /\ ~IsLocked(c)
  BY OldestIsMember
<1>2. SingleWriter'
  <2>1. \A s \in Runs : status'[s] \notin Writing
    BY <1>1 DEF ProjectIsFree, Writing, lifecycle
  <2> QED
    BY <2>1 DEF SingleWriter
<1>3. LeaseInv'
  BY DEF LeaseInv, lifecycle, lease
<1>4. \A v \in Workers, r \in Runs : r \in locked'[v] => status'[r] = "queued"
  BY DEF ClaimInv, lifecycle
<1>5. \A u, v \in Workers, r \in Runs : r \in locked'[u] /\ r \in locked'[v] => u = v
  BY DEF ClaimInv, IsLocked
<1>6. \A v \in Workers : locked'[v] # {} => taskRun'[v] = NoRun
  BY DEF ClaimInv
<1>7. ASSUME NEW v \in Workers, locked'[v] # {}
      PROVE  \/ Oldest(locked'[v]) \in overtaken'
             \/ \A s \in Runs \ {Oldest(locked'[v])} : status'[s] \notin Writing
  <2>1. CASE v = w
    BY <2>1 DEF ProjectIsFree, lifecycle
  <2>2. CASE v # w
    <3>1. locked'[v] = locked[v]
      BY <2>2
    <3>2. Oldest(locked[v]) # c
      BY <1>1, <1>7, <3>1, OldestIsMember DEF IsLocked
    <3>3. Oldest(locked[v]) \in OtherCandidates(w)
      BY <1>7, <2>2, <3>1 DEF OtherCandidates
    <3> QED
      BY <1>7, <3>1, <3>2, <3>3 DEF ClaimInv, ProjectIsFree, lifecycle
  <2> QED
    BY <2>1, <2>2
<1>8. ClaimInv'
  BY <1>4, <1>5, <1>6, <1>7 DEF ClaimInv, ProjectIsFree
<1> QED
  BY <1>2, <1>3, <1>8

(* The row a claim writes is one it locked, so it is still queued.         *)
LEMMA ClaimTakesQueued ==
    ASSUME TypeOK, WriterInv, NEW w \in Workers, NEW r \in Runs, NEW token \in Tokens,
           ClaimNextRun(w, r, token)
    PROVE  status[r] = "queued" /\ r \in locked[w]
<1>1. locked[w] \in SUBSET Runs /\ locked[w] # {} /\ r = Oldest(locked[w])
  BY DEF TypeOK, ClaimNextRun
<1>2. r \in locked[w]
  BY <1>1, OldestIsMember
<1> QED
  BY <1>2 DEF WriterInv, ClaimInv

(* A claim that commits takes a token nobody has.  It is the only writer,  *)
(* or its run was overtaken and the index saw no running one; every other  *)
(* claim in progress is overtaken by it.                                   *)
LEMMA ClaimPreservesWriterInv ==
    ASSUME TypeOK, WriterInv, NEW w \in Workers, NEW r \in Runs, NEW token \in Tokens,
           ClaimNextRun(w, r, token)
    PROVE  WriterInv'
<1> USE DEF TypeOK, ClaimNextRun, WriterInv
<1>0. token # NoToken /\ r # NoRun
  BY TokenAssumption, BoundsAssumption DEF NoRun, Runs
<1>1. SingleWriter'
  <2> SUFFICES ASSUME NEW p \in Runs, NEW q \in Runs,
                      status'[p] \in Writing, status'[q] \in Writing, p # q
               PROVE  /\ p \in overtaken' \/ q \in overtaken'
                      /\ "waiting_for_user" \in {status'[p], status'[q]}
    BY DEF SingleWriter
  <2>1. ASSUME NEW s \in Runs, s # r, status[s] \in Writing
        PROVE  r \in overtaken' /\ status[s] = "waiting_for_user"
    <3>1. r \in overtaken
      BY <2>1 DEF ClaimInv, ProjectIsFree
    <3>2. status[s] # "running"
      BY <2>1 DEF IndexAdmits
    <3>3. ~ProjectIsFree(r)
      BY <2>1 DEF ProjectIsFree
    <3> QED
      BY <2>1, <3>1, <3>2, <3>3 DEF Writing
  <2>2. \A s \in Runs : s # r => status'[s] = status[s]
    OBVIOUS
  <2>3. CASE p # r /\ q # r
    <3>1. status[p] \in Writing /\ status[q] \in Writing
      BY <2>2, <2>3
    <3>2. ~ProjectIsFree(r)
      BY <2>3, <3>1 DEF ProjectIsFree
    <3> QED
      BY <2>2, <2>3, <3>1, <3>2 DEF SingleWriter
  <2>4. CASE p = r
    BY <2>1, <2>2, <2>4
  <2>5. CASE q = r
    BY <2>1, <2>2, <2>5
  <2> QED
    BY <2>3, <2>4, <2>5
<1>2. \A s \in Runs : status'[s] = "absent" <=> s > created'
  BY ClaimTakesQueued DEF LeaseInv
<1>3. \A s \in Runs : status'[s] = "running" <=> leaseOwner'[s] # NoToken
  BY <1>0 DEF LeaseInv
<1>4. \A v \in Workers : taskRun'[v] = NoRun <=> taskToken'[v] = NoToken
  BY <1>0 DEF LeaseInv
<1>5. \A u, v \in Workers : taskToken'[u] = taskToken'[v] /\ taskToken'[u] # NoToken => u = v
  <2>1. \A v \in Workers : taskToken[v] # token
    BY DEF FreshTokens
  <2> QED
    BY <2>1 DEF LeaseInv
<1>6. ClaimInv'
  <2>1. \A v \in Workers : v # w => r \notin locked[v]
    BY ClaimTakesQueued DEF ClaimInv
  <2>2. \A v \in Workers, s \in Runs : s \in locked'[v] => status'[s] = "queued"
    BY <2>1 DEF ClaimInv
  <2>3. \A u, v \in Workers, s \in Runs : s \in locked'[u] /\ s \in locked'[v] => u = v
    BY DEF ClaimInv
  <2>4. \A v \in Workers : locked'[v] # {} => taskRun'[v] = NoRun
    BY DEF ClaimInv
  <2>5. \A v \in Workers : locked'[v] # {} => Oldest(locked'[v]) \in overtaken'
    BY DEF OtherCandidates
  <2> QED
    BY <2>2, <2>3, <2>4, <2>5 DEF ClaimInv
<1> QED
  BY <1>1, <1>2, <1>3, <1>4, <1>5, <1>6 DEF LeaseInv

(* A new run comes after every earlier one.                                *)
LEMMA QueuePreservesWriterInv ==
    ASSUME TypeOK, WriterInv, NEW base, QueueRun(base)
    PROVE  WriterInv'
<1> USE BoundsAssumption DEF TypeOK, QueueRun, Runs, WriterInv
<1>1. created + 1 \in Runs /\ status[created + 1] = "absent"
  BY DEF LeaseInv
<1>2. SingleWriter'
  BY <1>1 DEF SingleWriter, Writing, tasks
<1>3. \A s \in Runs : status'[s] = "absent" <=> s > created'
  BY <1>1 DEF LeaseInv
<1>4. \A s \in Runs : status'[s] = "running" <=> leaseOwner'[s] # NoToken
  BY <1>1 DEF LeaseInv, lease
<1>5. ClaimInv'
  BY <1>1, RunsMovePreservesClaimInv DEF Writing
<1> QED
  BY <1>2, <1>3, <1>4, <1>5 DEF LeaseInv, tasks

(* WriterInv is inductive relative to TypeOK.                              *)
LEMMA WriterInvStep == TypeOK /\ WriterInv /\ [Next]_vars => WriterInv'
<1> SUFFICES ASSUME TypeOK, WriterInv, [Next]_vars PROVE WriterInv'
  OBVIOUS
<1>1. CASE Request
  <2>1. ASSUME NEW base, QueueRun(base) PROVE WriterInv'
    BY <2>1, QueuePreservesWriterInv
  <2>2. ASSUME NEW r \in Runs, AnswerUserInput(r) PROVE WriterInv'
    BY <2>2, ReleasePreservesWriterInv DEF AnswerUserInput
  <2>3. ASSUME NEW r \in Runs, RequestCancel(r) PROVE WriterInv'
    <3>1. CASE status[r] = "running"
      BY <2>3, <3>1, StutterPreservesWriterInv DEF RequestCancel, lease, tasks
    <3>2. CASE status[r] # "running"
      <4>1. /\ status[r] \in {"queued", "waiting_for_user"}
            /\ ~IsLocked(r)
            /\ status' = [status EXCEPT ![r] = "cancelled"]
            /\ ReleaseLease(r)
            /\ UNCHANGED <<created, tasks>>
        BY <2>3, <3>2 DEF RequestCancel
      <4> QED
        BY <4>1, ReleasePreservesWriterInv
    <3> QED
      BY <3>1, <3>2
  <2>4. CASE SaveFileContent \/ RestoreVersion
    BY <2>4, StutterPreservesWriterInv DEF SaveFileContent, RestoreVersion, lifecycle, lease, tasks
  <2> QED
    BY <1>1, <2>1, <2>2, <2>3, <2>4 DEF Request, CreateMessageAndRun, CreateRecoveryMessageAndRun
<1>2. CASE Claim
  BY <1>2, SelectPreservesWriterInv, ClaimPreservesWriterInv, DropPreservesWriterInv
     DEF Claim, ClaimRefused, lifecycle, lease
<1>3. CASE Recover
  <2>1. PICK r \in Runs, intact \in BOOLEAN : RecoverExpiredRunningRun(r, intact)
    BY <1>3 DEF Recover
  <2>2. CASE Resumable(r, intact)
    BY <2>1, <2>2, ReleasePreservesWriterInv DEF RecoverExpiredRunningRun, RequeueExpired
  <2>3. CASE ~Resumable(r, intact)
    <3>1. PICK x \in {"cancelled", "failed"} : status' = [status EXCEPT ![r] = x]
      BY <2>1, <2>3 DEF RecoverExpiredRunningRun, FailExpired
    <3> QED
      BY <2>1, <3>1, ReleasePreservesWriterInv DEF RecoverExpiredRunningRun
  <2> QED
    BY <2>2, <2>3
<1>4. ASSUME NEW w \in Workers, Turn(w) PROVE WriterInv'
  BY <1>4, StutterPreservesWriterInv
     DEF Turn, CompleteRunContinuation, CreateGoalGraph, RecordVerifiedCheckpoint, CloseGoalGraph,
         lifecycle, lease, tasks
<1>5. ASSUME NEW w \in Workers, Conclude(w) PROVE WriterInv'
  <2> DEFINE r == taskRun[w]
  <2>1. Fenced(w)
    BY <1>5 DEF Conclude, WaitForUserInput, MarkTerminal, FinalizeVerifiedPublish, Working, Advancing
  <2>2. r \in Runs /\ status[r] = "running"
    BY <2>1, FencedRun DEF Fenced
  <2>3. PICK x \in {"waiting_for_user", "cancelled", "failed", "needs_attention", "succeeded"} :
            status' = [status EXCEPT ![r] = x]
    BY <1>5 DEF Conclude, WaitForUserInput, MarkTerminal, FinalizeVerifiedPublish
  <2>4. ReleaseLease(r) /\ UNCHANGED <<created, tasks>>
    BY <1>5 DEF Conclude, WaitForUserInput, MarkTerminal, FinalizeVerifiedPublish
  <2> HIDE DEF r
  <2> QED
    BY <2>2, <2>3, <2>4, ReleasePreservesWriterInv
<1>6. ASSUME NEW w \in Workers, LeaveTask(w) \/ EscapeTask(w) \/ CrashWorker(w) PROVE WriterInv'
  BY <1>6, DropPreservesWriterInv DEF LeaveTask, EscapeTask, CrashWorker, lifecycle, lease
<1>7. ASSUME NEW r \in Runs, LeaseExpires(r) PROVE WriterInv'
  BY <1>7, StutterPreservesWriterInv DEF LeaseExpires, lifecycle, tasks
<1>8. CASE UNCHANGED vars
  BY <1>8, StutterPreservesWriterInv DEF vars, lifecycle, lease, tasks
<1> QED
  BY <1>1, <1>2, <1>3, <1>4, <1>5, <1>6, <1>7, <1>8 DEF Next

LEMMA InitIsWriterInv == Init => WriterInv
  BY BoundsAssumption DEF Init, WriterInv, LeaseInv, ClaimInv, SingleWriter, Writing, Runs

(* The invariant of the leases and tasks holds in every reachable state.   *)
THEOREM WriterInvariant == Spec => []WriterInv
  BY InitIsWriterInv, WriterInvStep, TypeCorrect, PTL DEF Spec

(* What claim_next_run really guarantees: two runs of the project are never*)
(* running together, and are both writers only if the claim of one of them *)
(* was overtaken, between its count and its commit, by the other's.        *)
THEOREM SingleWriterHolds == Spec => []SingleWriter
<1>1. WriterInv => SingleWriter
  BY DEF WriterInv
<1> QED
  BY <1>1, WriterInvariant, PTL

(* Two tasks that pass the fence execute the one running run under its one *)
(* token, which only one task carries.                                     *)
LEMMA FenceAdmitsOne == TypeOK /\ WriterInv => OneEffectiveWorker
<1> SUFFICES ASSUME TypeOK, WriterInv, NEW v \in Workers, NEW w \in Workers, Fenced(v), Fenced(w)
             PROVE  v = w
  BY DEF OneEffectiveWorker
<1>1. taskRun[v] \in Runs /\ taskRun[w] \in Runs
  BY FencedRun
<1>2. taskRun[v] = taskRun[w]
  BY <1>1 DEF Fenced, WriterInv, SingleWriter, Writing
<1>3. taskToken[v] = taskToken[w] /\ taskToken[v] # NoToken
  BY <1>1, <1>2 DEF Fenced, WriterInv, LeaseInv
<1> QED
  BY <1>3 DEF WriterInv, LeaseInv

(* Of all the processes that still execute a task of the project, at most  *)
(* one passes the write fence of _run_for_write.                           *)
THEOREM OneEffectiveWorkerHolds == Spec => []OneEffectiveWorker
  BY FenceAdmitsOne, TypeCorrect, WriterInvariant, PTL

(* A task passes the fence from its claim on and never again once it has   *)
(* failed to: an expired lease is not renewed, a released one not taken    *)
(* back, and a run claimed anew has a token the old task does not carry.   *)
LEMMA FenceIsEarnedByClaim ==
    ASSUME TypeOK, WriterInv, [Next]_vars, NEW w \in Workers, Fenced(w)'
    PROVE  \/ Fenced(w) /\ taskRun'[w] = taskRun[w]
           \/ \E r \in Runs, token \in Tokens : ClaimNextRun(w, r, token)
<1> USE DEF TypeOK
<1>1. CASE Request
  <2>1. UNCHANGED tasks
    BY <1>1 DEF Request, CreateMessageAndRun, CreateRecoveryMessageAndRun, QueueRun, AnswerUserInput,
          RequestCancel, SaveFileContent, RestoreVersion
  <2>2. \A r \in Runs : status'[r] = "running" =>
            /\ status[r] = "running"
            /\ leaseOwner'[r] = leaseOwner[r]
            /\ leaseExpired'[r] = leaseExpired[r]
    <3>1. ASSUME NEW base, QueueRun(base), NEW r \in Runs, status'[r] = "running"
          PROVE  status[r] = "running" /\ UNCHANGED lease
      BY <3>1 DEF QueueRun
    <3>2. ASSUME NEW s \in Runs, AnswerUserInput(s) \/ RequestCancel(s),
                 NEW r \in Runs, status'[r] = "running"
          PROVE  /\ status[r] = "running"
                 /\ leaseOwner'[r] = leaseOwner[r]
                 /\ leaseExpired'[r] = leaseExpired[r]
      BY <3>2 DEF AnswerUserInput, RequestCancel, ReleaseLease, lease
    <3>3. CASE SaveFileContent \/ RestoreVersion
      BY <3>3 DEF SaveFileContent, RestoreVersion, lifecycle, lease
    <3> QED
      BY <1>1, <3>1, <3>2, <3>3 DEF Request, CreateMessageAndRun, CreateRecoveryMessageAndRun, lease
  <2>3. taskRun[w] \in Runs
    BY <2>1, BoundsAssumption DEF Fenced, tasks, NoRun, Runs
  <2> QED
    BY <2>1, <2>2, <2>3 DEF Fenced, tasks
<1>2. ASSUME NEW v \in Workers, NEW r \in Runs, NEW token \in Tokens, ClaimNextRun(v, r, token)
      PROVE  \/ Fenced(w) /\ taskRun'[w] = taskRun[w]
             \/ ClaimNextRun(w, r, token)
  <2>1. CASE v = w
    BY <1>2, <2>1
  <2>2. CASE v # w
    <3>1. taskRun'[w] = taskRun[w] /\ taskToken'[w] = taskToken[w] /\ token # taskToken[w]
      BY <1>2, <2>2 DEF ClaimNextRun, FreshTokens
    <3>2. taskRun[w] \in Runs
      BY <3>1, BoundsAssumption DEF Fenced, NoRun, Runs
    <3>3. taskRun[w] # r
      BY <1>2, <3>1, ClaimTakesQueued DEF ClaimNextRun, Fenced
    <3> QED
      BY <1>2, <3>1, <3>2, <3>3 DEF ClaimNextRun, Fenced
  <2> QED
    BY <2>1, <2>2
<1>3. ASSUME NEW r \in Runs, NEW intact \in BOOLEAN, RecoverExpiredRunningRun(r, intact)
      PROVE  Fenced(w) /\ taskRun'[w] = taskRun[w]
  <2>1. UNCHANGED tasks /\ ReleaseLease(r)
    BY <1>3 DEF RecoverExpiredRunningRun
  <2>2. PICK x \in {"queued", "failed", "cancelled"} : status' = [status EXCEPT ![r] = x]
    BY <1>3 DEF RecoverExpiredRunningRun, RequeueExpired, FailExpired
  <2>3. taskRun[w] \in Runs
    BY <2>1, BoundsAssumption DEF Fenced, tasks, NoRun, Runs
  <2> QED
    BY <2>1, <2>2, <2>3 DEF Fenced, tasks, ReleaseLease
<1>4. ASSUME NEW v \in Workers, Turn(v) PROVE Fenced(w) /\ taskRun'[w] = taskRun[w]
  BY <1>4 DEF Turn, CompleteRunContinuation, CreateGoalGraph, RecordVerifiedCheckpoint, CloseGoalGraph,
        lifecycle, lease, tasks, Fenced
<1>5. ASSUME NEW v \in Workers, Conclude(v) PROVE Fenced(w) /\ taskRun'[w] = taskRun[w]
  <2> DEFINE r == taskRun[v]
  <2>1. UNCHANGED tasks /\ ReleaseLease(r) /\ Fenced(v)
    BY <1>5 DEF Conclude, WaitForUserInput, MarkTerminal, FinalizeVerifiedPublish, Working, Advancing
  <2>2. PICK x \in {"waiting_for_user", "cancelled", "failed", "needs_attention", "succeeded"} :
            status' = [status EXCEPT ![r] = x]
    BY <1>5 DEF Conclude, WaitForUserInput, MarkTerminal, FinalizeVerifiedPublish
  <2>3. taskRun[w] \in Runs /\ r \in Runs
    BY <2>1, FencedRun, BoundsAssumption DEF Fenced, tasks, NoRun, Runs
  <2> HIDE DEF r
  <2> QED
    BY <2>1, <2>2, <2>3 DEF Fenced, tasks, ReleaseLease
<1>6. ASSUME NEW v \in Workers,
             LeaveTask(v) \/ EscapeTask(v) \/ CrashWorker(v) \/ ClaimRefused(v)
      PROVE  Fenced(w) /\ taskRun'[w] = taskRun[w]
  BY <1>6 DEF LeaveTask, EscapeTask, CrashWorker, ClaimRefused, DropTask, Fenced, lifecycle, lease
<1>7. ASSUME NEW r \in Runs, LeaseExpires(r) PROVE Fenced(w) /\ taskRun'[w] = taskRun[w]
  <2>1. UNCHANGED <<status, leaseOwner, tasks>> /\ leaseExpired' = [leaseExpired EXCEPT ![r] = TRUE]
    BY <1>7 DEF LeaseExpires, lifecycle
  <2>2. taskRun[w] \in Runs
    BY <2>1, BoundsAssumption DEF Fenced, tasks, NoRun, Runs
  <2> QED
    BY <2>1, <2>2 DEF Fenced, tasks
<1>8. CASE UNCHANGED vars
  BY <1>8 DEF vars, lifecycle, lease, tasks, Fenced
<1>9. ASSUME NEW v \in Workers, NEW rows \in SUBSET Runs, SelectCandidates(v, rows)
      PROVE  Fenced(w) /\ taskRun'[w] = taskRun[w]
  BY <1>9 DEF SelectCandidates, lifecycle, lease, Fenced
<1> QED
  BY <1>1, <1>2, <1>3, <1>4, <1>5, <1>6, <1>7, <1>8, <1>9 DEF Next, Claim, Recover

-----------------------------------------------------------------------------
(* Graphs, questions and the project pointer.                              *)

(* No transaction makes a second graph active.                             *)
LEMMA OneActiveGraphStep == TypeOK /\ OneActiveGraph /\ [Next]_vars => OneActiveGraph'
<1> SUFFICES ASSUME TypeOK, OneActiveGraph, [Next]_vars PROVE OneActiveGraph'
  OBVIOUS
<1> USE DEF OneActiveGraph, TypeOK
<1>1. ASSUME UNCHANGED goals PROVE OneActiveGraph'
  BY <1>1 DEF goals
<1>2. CASE Request
  BY <1>1, <1>2 DEF Request, CreateMessageAndRun, CreateRecoveryMessageAndRun, QueueRun,
                    AnswerUserInput, RequestCancel, SaveFileContent, RestoreVersion
<1>3. CASE Claim
  BY <1>1, <1>3 DEF Claim, SelectCandidates, ClaimNextRun, ClaimRefused
<1>4. CASE Recover
  <2>1. PICK r \in Runs, intact \in BOOLEAN : RecoverExpiredRunningRun(r, intact)
    BY <1>4 DEF Recover
  <2>2. CASE Resumable(r, intact)
    BY <1>1, <2>1, <2>2 DEF RecoverExpiredRunningRun, RequeueExpired
  <2>3. CASE ~Resumable(r, intact)
    BY <2>1, <2>3 DEF RecoverExpiredRunningRun, FailExpired
  <2> QED
    BY <2>2, <2>3
<1>5. ASSUME NEW w \in Workers, Turn(w) PROVE OneActiveGraph'
  <2>1. CASE CompleteRunContinuation(w)
    BY <1>1, <2>1 DEF CompleteRunContinuation
  <2>2. CASE CreateGoalGraph(w)
    BY <2>2 DEF CreateGoalGraph
  <2>3. CASE RecordVerifiedCheckpoint(w)
    BY <2>3 DEF RecordVerifiedCheckpoint
  <2>4. ASSUME NEW to \in {"failed", "cancelled"}, CloseGoalGraph(w, to) PROVE OneActiveGraph'
    BY <2>4 DEF CloseGoalGraph
  <2> QED
    BY <1>5, <2>1, <2>2, <2>3, <2>4 DEF Turn
<1>6. ASSUME NEW w \in Workers, Conclude(w) PROVE OneActiveGraph'
  BY <1>1, <1>6 DEF Conclude, WaitForUserInput, MarkTerminal, FinalizeVerifiedPublish
<1>7. ASSUME NEW w \in Workers, LeaveTask(w) \/ EscapeTask(w) \/ CrashWorker(w) PROVE OneActiveGraph'
  BY <1>1, <1>7 DEF LeaveTask, EscapeTask, CrashWorker
<1>8. ASSUME NEW r \in Runs, LeaseExpires(r) PROVE OneActiveGraph'
  BY <1>1, <1>8 DEF LeaseExpires
<1>9. CASE UNCHANGED vars
  BY <1>1, <1>9 DEF vars
<1> QED
  BY <1>2, <1>3, <1>4, <1>5, <1>6, <1>7, <1>8, <1>9 DEF Next

(* Two GoalGraphs of a project are never active together: create_goal_graph*)
(* closes what ended runs left active and refuses if a live run owns one.  *)
THEOREM OneActiveGraphHolds == Spec => []OneActiveGraph
<1>1. Init => OneActiveGraph
  BY DEF Init, OneActiveGraph
<1>2. TypeOK /\ OneActiveGraph /\ [Next]_vars => OneActiveGraph'
  BY OneActiveGraphStep
<1> QED
  BY <1>1, <1>2, TypeCorrect, PTL DEF Spec

(* A run waits for its user exactly while its continuation names a pending *)
(* question, through answers, cancellations, recoveries and new questions. *)
THEOREM WaitingHasPendingQuestionHolds == Spec => []WaitingHasPendingQuestion
<1>1. Init => WaitingHasPendingQuestion
  BY DEF Init, WaitingHasPendingQuestion
<1>2. TypeOK /\ WriterInv /\ WaitingHasPendingQuestion /\ [Next]_vars => WaitingHasPendingQuestion'
  <2> SUFFICES ASSUME TypeOK, WriterInv, WaitingHasPendingQuestion, [Next]_vars
               PROVE  WaitingHasPendingQuestion'
    OBVIOUS
  <2> USE DEF WaitingHasPendingQuestion, TypeOK
  <2>1. ASSUME UNCHANGED <<status, continuation>> PROVE WaitingHasPendingQuestion'
    BY <2>1
  <2>2. CASE Request
    <3>1. ASSUME NEW base, QueueRun(base) PROVE WaitingHasPendingQuestion'
      <4>1. created + 1 \in Runs /\ status[created + 1] = "absent"
        BY <3>1, BoundsAssumption DEF QueueRun, Runs, WriterInv, LeaseInv
      <4> QED
        BY <3>1, <4>1 DEF QueueRun, dialogue
    <3>2. ASSUME NEW r \in Runs, AnswerUserInput(r) PROVE WaitingHasPendingQuestion'
      BY <3>2 DEF AnswerUserInput
    <3>3. ASSUME NEW r \in Runs, RequestCancel(r) PROVE WaitingHasPendingQuestion'
      BY <3>3 DEF RequestCancel
    <3>4. CASE SaveFileContent \/ RestoreVersion
      BY <2>1, <3>4 DEF SaveFileContent, RestoreVersion, lifecycle, dialogue
    <3> QED
      BY <2>2, <3>1, <3>2, <3>3, <3>4 DEF Request, CreateMessageAndRun, CreateRecoveryMessageAndRun
  <2>3. CASE Claim
    <3>1. ASSUME NEW w \in Workers, NEW r \in Runs, NEW token \in Tokens, ClaimNextRun(w, r, token)
          PROVE  WaitingHasPendingQuestion'
      BY <3>1, ClaimTakesQueued DEF ClaimNextRun, dialogue
    <3>2. ASSUME NEW w \in Workers, NEW rows \in SUBSET Runs,
                 SelectCandidates(w, rows) \/ ClaimRefused(w)
          PROVE  WaitingHasPendingQuestion'
      BY <2>1, <3>2 DEF SelectCandidates, ClaimRefused, lifecycle, dialogue
    <3> QED
      BY <2>3, <3>1, <3>2 DEF Claim
  <2>4. CASE Recover
    <3>1. PICK r \in Runs, intact \in BOOLEAN : RecoverExpiredRunningRun(r, intact)
      BY <2>4 DEF Recover
    <3>2. CASE Resumable(r, intact)
      BY <3>1, <3>2 DEF RecoverExpiredRunningRun, RequeueExpired
    <3>3. CASE ~Resumable(r, intact)
      BY <3>1, <3>3 DEF RecoverExpiredRunningRun, FailExpired, dialogue
    <3> QED
      BY <3>2, <3>3
  <2>5. ASSUME NEW w \in Workers, Turn(w) PROVE WaitingHasPendingQuestion'
    <3>1. CASE CompleteRunContinuation(w)
      BY <3>1 DEF CompleteRunContinuation, Fenced, lifecycle
    <3>2. CASE CreateGoalGraph(w) \/ RecordVerifiedCheckpoint(w)
      BY <2>1, <3>2 DEF CreateGoalGraph, RecordVerifiedCheckpoint, lifecycle, dialogue
    <3>3. ASSUME NEW to \in {"failed", "cancelled"}, CloseGoalGraph(w, to)
          PROVE  WaitingHasPendingQuestion'
      BY <2>1, <3>3 DEF CloseGoalGraph, lifecycle, dialogue
    <3> QED
      BY <2>5, <3>1, <3>2, <3>3 DEF Turn
  <2>6. ASSUME NEW w \in Workers, Conclude(w) PROVE WaitingHasPendingQuestion'
    <3>1. CASE WaitForUserInput(w)
      BY <3>1 DEF WaitForUserInput
    <3>2. ASSUME NEW to \in {"failed", "needs_attention"}, MarkTerminal(w, to)
          PROVE  WaitingHasPendingQuestion'
      BY <3>2 DEF MarkTerminal, Working, Fenced, dialogue
    <3>3. CASE FinalizeVerifiedPublish(w)
      BY <3>3 DEF FinalizeVerifiedPublish, Advancing, Fenced, dialogue
    <3> QED
      BY <2>6, <3>1, <3>2, <3>3 DEF Conclude
  <2>7. ASSUME NEW w \in Workers, LeaveTask(w) \/ EscapeTask(w) \/ CrashWorker(w)
        PROVE  WaitingHasPendingQuestion'
    BY <2>1, <2>7 DEF LeaveTask, EscapeTask, CrashWorker, lifecycle, dialogue
  <2>8. ASSUME NEW r \in Runs, LeaseExpires(r) PROVE WaitingHasPendingQuestion'
    BY <2>1, <2>8 DEF LeaseExpires, lifecycle, dialogue
  <2>9. CASE UNCHANGED vars
    BY <2>1, <2>9 DEF vars, lifecycle, dialogue
  <2> QED
    BY <2>2, <2>3, <2>4, <2>5, <2>6, <2>7, <2>8, <2>9 DEF Next
<1> QED
  BY <1>1, <1>2, TypeCorrect, WriterInvariant, PTL DEF Spec

(* active_run_id is a run that is still queued, running or waiting, and it *)
(* is NULL only when no run is queued: whoever moves the pointer looks at  *)
(* the queue as the same transaction leaves it.                            *)
THEOREM ActiveRunPointsAtLiveRunHolds == Spec => []ActiveRunPointsAtLiveRun
<1>1. Init => ActiveRunPointsAtLiveRun
  BY DEF Init, ActiveRunPointsAtLiveRun
<1>2. TypeOK /\ ActiveRunPointsAtLiveRun /\ [Next]_vars => ActiveRunPointsAtLiveRun'
  <2> SUFFICES ASSUME TypeOK, ActiveRunPointsAtLiveRun, [Next]_vars
               PROVE  ActiveRunPointsAtLiveRun'
    OBVIOUS
  <2> USE DEF ActiveRunPointsAtLiveRun
  <2>1. ASSUME UNCHANGED <<status, activeRun>> PROVE ActiveRunPointsAtLiveRun'
    BY <2>1
  <2>2. ASSUME AdvanceProjectAfterTerminal PROVE ActiveRunPointsAtLiveRun'
    BY <2>2, AdvancePointsAtQueue
  <2>3. ASSUME NEW r \in Runs, NEW x \in {"queued"} \cup Writing, NEW state,
               status' = [status EXCEPT ![r] = x], PointProjectAt(r, state)
        PROVE  ActiveRunPointsAtLiveRun'
    BY <2>3 DEF PointProjectAt, TypeOK, Runs, NoRun
  <2>4. CASE Request
    <3>1. ASSUME NEW base, QueueRun(base) PROVE ActiveRunPointsAtLiveRun'
      <4>1. created + 1 \in Runs
        BY <3>1, BoundsAssumption DEF QueueRun, TypeOK, Runs
      <4> QED
        BY <3>1, <4>1, BoundsAssumption DEF QueueRun, TypeOK, Runs, NoRun
    <3>2. ASSUME NEW r \in Runs, AnswerUserInput(r) PROVE ActiveRunPointsAtLiveRun'
      BY <3>2, <2>3 DEF AnswerUserInput
    <3>3. ASSUME NEW r \in Runs, RequestCancel(r) PROVE ActiveRunPointsAtLiveRun'
      BY <3>3, <2>1, <2>2 DEF RequestCancel, project
    <3>4. CASE SaveFileContent \/ RestoreVersion
      BY <2>1, <3>4 DEF SaveFileContent, RestoreVersion, lifecycle, project
    <3> QED
      BY <2>4, <3>1, <3>2, <3>3, <3>4 DEF Request, CreateMessageAndRun, CreateRecoveryMessageAndRun
  <2>5. CASE Claim
    BY <2>1, <2>3, <2>5 DEF Claim, SelectCandidates, ClaimNextRun, ClaimRefused, Writing,
                            lifecycle, project
  <2>6. CASE Recover
    <3>1. PICK r \in Runs, intact \in BOOLEAN : RecoverExpiredRunningRun(r, intact)
      BY <2>6 DEF Recover
    <3>2. CASE Resumable(r, intact)
      BY <2>3, <3>1, <3>2 DEF RecoverExpiredRunningRun, RequeueExpired
    <3>3. CASE ~Resumable(r, intact)
      BY <2>2, <3>1, <3>3 DEF RecoverExpiredRunningRun, FailExpired
    <3> QED
      BY <3>2, <3>3
  <2>7. ASSUME NEW w \in Workers, Turn(w) PROVE ActiveRunPointsAtLiveRun'
    BY <2>1, <2>7 DEF Turn, CompleteRunContinuation, CreateGoalGraph, RecordVerifiedCheckpoint,
                      CloseGoalGraph, lifecycle, project
  <2>8. ASSUME NEW w \in Workers, Conclude(w) PROVE ActiveRunPointsAtLiveRun'
    <3>1. CASE WaitForUserInput(w)
      <4>1. taskRun[w] \in Runs
        BY <3>1, FencedRun DEF WaitForUserInput, Working
      <4> QED
        BY <2>3, <3>1, <4>1 DEF WaitForUserInput, Writing
    <3>2. CASE (\E to \in {"failed", "needs_attention"} : MarkTerminal(w, to)) \/ FinalizeVerifiedPublish(w)
      BY <2>2, <3>2 DEF MarkTerminal, FinalizeVerifiedPublish
    <3> QED
      BY <2>8, <3>1, <3>2 DEF Conclude
  <2>9. ASSUME NEW w \in Workers, LeaveTask(w) \/ EscapeTask(w) \/ CrashWorker(w)
        PROVE  ActiveRunPointsAtLiveRun'
    BY <2>1, <2>9 DEF LeaveTask, EscapeTask, CrashWorker, lifecycle, project
  <2>10. ASSUME NEW r \in Runs, LeaseExpires(r) PROVE ActiveRunPointsAtLiveRun'
    BY <2>1, <2>10 DEF LeaseExpires, lifecycle, project
  <2>11. CASE UNCHANGED vars
    BY <2>1, <2>11 DEF vars, lifecycle, project
  <2> QED
    BY <2>4, <2>5, <2>6, <2>7, <2>8, <2>9, <2>10, <2>11 DEF Next
<1> QED
  BY <1>1, <1>2, TypeCorrect, PTL DEF Spec

-----------------------------------------------------------------------------
(* How runs end.                                                           *)

(* After an accepted cancellation the run ends cancelled or not at all:    *)
(* request_cancel, mark_terminal and lease recovery choose that outcome    *)
(* and finalize_verified_publish refuses.                                  *)
THEOREM CancelDecidesHolds == Spec => CancelDecides
<1> DEFINE Decided(r) == cancelRequested[r] /\ status'[r] \in Terminal
                            => status'[r] \in {"cancelled", status[r]}
<1>1. TypeOK /\ [Next]_vars => EndsAsCancelled
  <2> SUFFICES ASSUME TypeOK, [Next]_vars, NEW r \in Runs PROVE Decided(r)
    BY DEF EndsAsCancelled
  <2>1. ASSUME UNCHANGED status PROVE Decided(r)
    BY <2>1
  <2>2. ASSUME NEW s, NEW x, x \notin Terminal \ {"cancelled"}, status' = [status EXCEPT ![s] = x]
        PROVE  Decided(r)
    BY <2>2 DEF TypeOK
  <2>3. CASE Request
    <3>1. ASSUME NEW base, QueueRun(base) PROVE Decided(r)
      BY <2>2, <3>1 DEF QueueRun, Terminal
    <3>2. ASSUME NEW s \in Runs, AnswerUserInput(s) PROVE Decided(r)
      BY <2>2, <3>2 DEF AnswerUserInput, Terminal
    <3>3. ASSUME NEW s \in Runs, RequestCancel(s) PROVE Decided(r)
      BY <2>1, <2>2, <3>3 DEF RequestCancel
    <3>4. CASE SaveFileContent \/ RestoreVersion
      BY <2>1, <3>4 DEF SaveFileContent, RestoreVersion, lifecycle
    <3> QED
      BY <2>3, <3>1, <3>2, <3>3, <3>4 DEF Request, CreateMessageAndRun, CreateRecoveryMessageAndRun
  <2>4. CASE Claim
    <3>1. ASSUME NEW w \in Workers, NEW s \in Runs, NEW token \in Tokens, ClaimNextRun(w, s, token)
          PROVE  Decided(r)
      BY <2>2, <3>1 DEF ClaimNextRun, Terminal
    <3>2. ASSUME NEW w \in Workers, NEW rows \in SUBSET Runs,
                 SelectCandidates(w, rows) \/ ClaimRefused(w)
          PROVE  Decided(r)
      BY <2>1, <3>2 DEF SelectCandidates, ClaimRefused, lifecycle
    <3> QED
      BY <2>4, <3>1, <3>2 DEF Claim
  <2>5. CASE Recover
    <3>1. PICK s \in Runs, intact \in BOOLEAN : RecoverExpiredRunningRun(s, intact)
      BY <2>5 DEF Recover
    <3>2. CASE Resumable(s, intact)
      BY <2>2, <3>1, <3>2 DEF RecoverExpiredRunningRun, RequeueExpired, Terminal
    <3>3. CASE ~Resumable(s, intact)
      BY <3>1, <3>3 DEF RecoverExpiredRunningRun, FailExpired, TypeOK
    <3> QED
      BY <3>2, <3>3
  <2>6. ASSUME NEW w \in Workers, Turn(w) PROVE Decided(r)
    BY <2>1, <2>6 DEF Turn, CompleteRunContinuation, CreateGoalGraph, RecordVerifiedCheckpoint,
                      CloseGoalGraph, lifecycle
  <2>7. ASSUME NEW w \in Workers, Conclude(w) PROVE Decided(r)
    <3>1. CASE WaitForUserInput(w)
      BY <2>2, <3>1 DEF WaitForUserInput, Terminal
    <3>2. ASSUME NEW to \in {"failed", "needs_attention"}, MarkTerminal(w, to) PROVE Decided(r)
      BY <3>2 DEF MarkTerminal, TypeOK
    <3>3. CASE FinalizeVerifiedPublish(w)
      BY <3>3 DEF FinalizeVerifiedPublish, TypeOK
    <3> QED
      BY <2>7, <3>1, <3>2, <3>3 DEF Conclude
  <2>8. ASSUME NEW w \in Workers, LeaveTask(w) \/ EscapeTask(w) \/ CrashWorker(w) PROVE Decided(r)
    BY <2>1, <2>8 DEF LeaveTask, EscapeTask, CrashWorker, lifecycle
  <2>9. ASSUME NEW s \in Runs, LeaseExpires(s) PROVE Decided(r)
    BY <2>1, <2>9 DEF LeaseExpires, lifecycle
  <2>10. CASE UNCHANGED vars
    BY <2>1, <2>10 DEF vars, lifecycle
  <2> QED
    BY <2>3, <2>4, <2>5, <2>6, <2>7, <2>8, <2>9, <2>10 DEF Next
<1> QED
  BY <1>1, TypeCorrect, PTL DEF Spec, CancelDecides

(* A finished run keeps its outcome and its checkpoints, and its graph can *)
(* only be superseded: stale workers miss the fence, and answers, recovery *)
(* and cancellations look at the status first.                             *)
THEOREM TerminalRunIsFrozenHolds == Spec => TerminalRunIsFrozen
<1> DEFINE Frozen(r) == status[r] \in Terminal =>
              /\ status'[r] = status[r]
              /\ checkpoints'[r] = checkpoints[r]
              /\ graph'[r] = graph[r] \/ (graph[r] = "active" /\ graph'[r] = "superseded")
<1>1. TypeOK /\ WriterInv /\ [Next]_vars => KeepsEndedRuns
  <2> SUFFICES ASSUME TypeOK, WriterInv, [Next]_vars, NEW r \in Runs, status[r] \in Terminal
               PROVE  Frozen(r)
    BY DEF KeepsEndedRuns
  <2> USE DEF Terminal
  <2>1. ASSUME UNCHANGED <<status, goals>> PROVE Frozen(r)
    BY <2>1 DEF goals
  <2>2. ASSUME NEW s, s # r, NEW x, status' = [status EXCEPT ![s] = x], UNCHANGED goals
        PROVE  Frozen(r)
    BY <2>2 DEF TypeOK, goals
  <2>3. ASSUME NEW w \in Workers, Fenced(w) PROVE taskRun[w] # r
    BY <2>3 DEF Fenced
  <2>4. CASE Request
    <3>1. ASSUME NEW base, QueueRun(base) PROVE Frozen(r)
      <4>1. created + 1 # r
        BY <3>1, BoundsAssumption DEF QueueRun, WriterInv, TypeOK, Runs, LeaseInv
      <4> QED
        BY <2>2, <3>1, <4>1 DEF QueueRun
    <3>2. ASSUME NEW s \in Runs, AnswerUserInput(s) PROVE Frozen(r)
      BY <2>2, <3>2 DEF AnswerUserInput
    <3>3. ASSUME NEW s \in Runs, RequestCancel(s) PROVE Frozen(r)
      BY <2>1, <2>2, <3>3 DEF RequestCancel
    <3>4. CASE SaveFileContent \/ RestoreVersion
      BY <2>1, <3>4 DEF SaveFileContent, RestoreVersion, lifecycle
    <3> QED
      BY <2>4, <3>1, <3>2, <3>3, <3>4 DEF Request, CreateMessageAndRun, CreateRecoveryMessageAndRun
  <2>5. CASE Claim
    <3>1. ASSUME NEW w \in Workers, NEW s \in Runs, NEW token \in Tokens, ClaimNextRun(w, s, token)
          PROVE  Frozen(r)
      <4>1. s # r
        BY <3>1, ClaimTakesQueued
      <4> QED
        BY <2>2, <3>1, <4>1 DEF ClaimNextRun
    <3>2. ASSUME NEW w \in Workers, NEW rows \in SUBSET Runs,
                 SelectCandidates(w, rows) \/ ClaimRefused(w)
          PROVE  Frozen(r)
      BY <2>1, <3>2 DEF SelectCandidates, ClaimRefused, lifecycle
    <3> QED
      BY <2>5, <3>1, <3>2 DEF Claim
  <2>6. CASE Recover
    <3>1. PICK s \in Runs, intact \in BOOLEAN : RecoverExpiredRunningRun(s, intact)
      BY <2>6 DEF Recover
    <3>2. s # r
      BY <3>1 DEF RecoverExpiredRunningRun
    <3>3. CASE Resumable(s, intact)
      BY <2>2, <3>1, <3>2, <3>3 DEF RecoverExpiredRunningRun, RequeueExpired
    <3>4. CASE ~Resumable(s, intact)
      BY <3>1, <3>2, <3>4 DEF RecoverExpiredRunningRun, FailExpired, TypeOK
    <3> QED
      BY <3>3, <3>4
  <2>7. ASSUME NEW w \in Workers, Turn(w) PROVE Frozen(r)
    <3>1. CASE CompleteRunContinuation(w)
      BY <2>1, <3>1 DEF CompleteRunContinuation, lifecycle
    <3>2. CASE CreateGoalGraph(w)
      <4>1. taskRun[w] # r
        BY <2>3, <3>2 DEF CreateGoalGraph, Advancing
      <4> QED
        BY <3>2, <4>1 DEF CreateGoalGraph, TypeOK, lifecycle
    <3>3. CASE RecordVerifiedCheckpoint(w)
      <4>1. taskRun[w] # r
        BY <2>3, <3>3 DEF RecordVerifiedCheckpoint, Advancing
      <4> QED
        BY <3>3, <4>1 DEF RecordVerifiedCheckpoint, TypeOK, lifecycle
    <3>4. ASSUME NEW to \in {"failed", "cancelled"}, CloseGoalGraph(w, to) PROVE Frozen(r)
      <4>1. taskRun[w] # r
        BY <2>3, <3>4 DEF CloseGoalGraph, Working
      <4> QED
        BY <3>4, <4>1 DEF CloseGoalGraph, TypeOK, lifecycle
    <3> QED
      BY <2>7, <3>1, <3>2, <3>3, <3>4 DEF Turn
  <2>8. ASSUME NEW w \in Workers, Conclude(w) PROVE Frozen(r)
    <3>1. taskRun[w] # r
      BY <2>3, <2>8 DEF Conclude, WaitForUserInput, MarkTerminal, FinalizeVerifiedPublish,
                        Working, Advancing
    <3> QED
      BY <2>2, <2>8, <3>1 DEF Conclude, WaitForUserInput, MarkTerminal, FinalizeVerifiedPublish
  <2>9. ASSUME NEW w \in Workers, LeaveTask(w) \/ EscapeTask(w) \/ CrashWorker(w) PROVE Frozen(r)
    BY <2>1, <2>9 DEF LeaveTask, EscapeTask, CrashWorker, lifecycle
  <2>10. ASSUME NEW s \in Runs, LeaseExpires(s) PROVE Frozen(r)
    BY <2>1, <2>10 DEF LeaseExpires, lifecycle
  <2>11. CASE UNCHANGED vars
    BY <2>1, <2>11 DEF vars, lifecycle
  <2> QED
    BY <2>4, <2>5, <2>6, <2>7, <2>8, <2>9, <2>10, <2>11 DEF Next
<1> QED
  BY <1>1, TypeCorrect, WriterInvariant, PTL DEF Spec, TerminalRunIsFrozen

(* What an appended version changes: nothing before it.                    *)
LEMMA NewVersionAppends ==
    ASSUME versions \in Seq(Version),
           NEW parent \in Nat, NEW qa \in {"passed", "manual", "restored"}, NEW run \in Nat,
           NewVersion(parent, qa, run)
    PROVE  /\ DOMAIN versions' = DOMAIN versions \cup {Len(versions) + 1}
           /\ Len(versions) + 1 \notin DOMAIN versions
           /\ versions'[Len(versions) + 1].run = run
           /\ \A n \in DOMAIN versions : versions'[n] = versions[n]
<1> DEFINE version == [parent |-> parent, qa |-> qa, run |-> run]
<1>1. version \in Version
  BY DEF Version
<1>2. versions' = Append(versions, version)
  BY DEF NewVersion
<1>3. /\ Len(versions) \in Nat
      /\ DOMAIN versions = 1 .. Len(versions)
  BY LenProperties
<1>4. /\ Len(versions') = Len(versions) + 1
      /\ DOMAIN versions' = 1 .. Len(versions) + 1
      /\ versions'[Len(versions) + 1] = version
      /\ \A n \in 1 .. Len(versions) : versions'[n] = versions[n]
  BY <1>1, <1>2, AppendProperties, LenProperties
<1> QED
  BY <1>3, <1>4

(* Success and publication are one event: finalize_verified_publish is the *)
(* only place for both, its run was not successful before, and no manual   *)
(* version names a run.                                                    *)
THEOREM SuccessIsOnePublicationHolds == Spec => []SuccessIsOnePublication
<1>1. Init => SuccessIsOnePublication
  BY DEF Init, SuccessIsOnePublication
<1>2. TypeOK /\ WriterInv /\ SuccessIsOnePublication /\ [Next]_vars => SuccessIsOnePublication'
  <2> SUFFICES ASSUME TypeOK, WriterInv, SuccessIsOnePublication, [Next]_vars
               PROVE  SuccessIsOnePublication'
    OBVIOUS
  <2>1. ASSUME UNCHANGED <<status, versions>> PROVE SuccessIsOnePublication'
    BY <2>1 DEF SuccessIsOnePublication
  <2>2. ASSUME NEW r \in Runs, NEW x, x # "succeeded", status[r] # "succeeded",
               status' = [status EXCEPT ![r] = x], UNCHANGED versions
        PROVE  SuccessIsOnePublication'
    BY <2>2 DEF SuccessIsOnePublication, TypeOK
  <2>3. ASSUME NEW qa \in {"manual", "restored"}, NewVersion(headVersion, qa, NoRun), UNCHANGED status
        PROVE  SuccessIsOnePublication'
    <3>1. /\ DOMAIN versions' = DOMAIN versions \cup {Len(versions) + 1}
          /\ Len(versions) + 1 \notin DOMAIN versions
          /\ versions'[Len(versions) + 1].run = NoRun
          /\ \A n \in DOMAIN versions : versions'[n] = versions[n]
      BY <2>3, NewVersionAppends DEF TypeOK, NoRun
    <3>2. NoRun \notin Runs
      BY DEF NoRun, Runs
    <3> QED
      BY <2>3, <3>1, <3>2 DEF SuccessIsOnePublication
  <2>4. CASE Request
    <3>1. ASSUME NEW base, QueueRun(base) PROVE SuccessIsOnePublication'
      <4>1. created + 1 \in Runs /\ status[created + 1] = "absent"
        BY <3>1, BoundsAssumption DEF QueueRun, TypeOK, Runs, WriterInv, LeaseInv
      <4> QED
        BY <2>2, <3>1, <4>1 DEF QueueRun, published
    <3>2. ASSUME NEW r \in Runs, AnswerUserInput(r) PROVE SuccessIsOnePublication'
      BY <2>2, <3>2 DEF AnswerUserInput, published
    <3>3. ASSUME NEW r \in Runs, RequestCancel(r) PROVE SuccessIsOnePublication'
      BY <2>1, <2>2, <3>3 DEF RequestCancel, published
    <3>4. CASE SaveFileContent
      BY <2>3, <3>4 DEF SaveFileContent, lifecycle
    <3>5. CASE RestoreVersion
      BY <2>3, <3>5 DEF RestoreVersion, lifecycle
    <3> QED
      BY <2>4, <3>1, <3>2, <3>3, <3>4, <3>5
         DEF Request, CreateMessageAndRun, CreateRecoveryMessageAndRun
  <2>5. CASE Claim
    <3>1. ASSUME NEW w \in Workers, NEW r \in Runs, NEW token \in Tokens, ClaimNextRun(w, r, token)
          PROVE  SuccessIsOnePublication'
      <4>1. status[r] = "queued"
        BY <3>1, ClaimTakesQueued
      <4> QED
        BY <2>2, <3>1, <4>1 DEF ClaimNextRun, published
    <3>2. ASSUME NEW w \in Workers, NEW rows \in SUBSET Runs,
                 SelectCandidates(w, rows) \/ ClaimRefused(w)
          PROVE  SuccessIsOnePublication'
      BY <2>1, <3>2 DEF SelectCandidates, ClaimRefused, lifecycle, published
    <3> QED
      BY <2>5, <3>1, <3>2 DEF Claim
  <2>6. CASE Recover
    <3>1. PICK r \in Runs, intact \in BOOLEAN : RecoverExpiredRunningRun(r, intact)
      BY <2>6 DEF Recover
    <3>2. PICK x \in {"queued", "failed", "cancelled"} : status' = [status EXCEPT ![r] = x]
      BY <3>1 DEF RecoverExpiredRunningRun, RequeueExpired, FailExpired
    <3> QED
      BY <2>2, <3>1, <3>2 DEF RecoverExpiredRunningRun, published
  <2>7. ASSUME NEW w \in Workers, Turn(w) PROVE SuccessIsOnePublication'
    BY <2>1, <2>7 DEF Turn, CompleteRunContinuation, CreateGoalGraph, RecordVerifiedCheckpoint,
                      CloseGoalGraph, lifecycle, published
  <2>8. ASSUME NEW w \in Workers, Conclude(w) PROVE SuccessIsOnePublication'
    <3>1. taskRun[w] \in Runs /\ status[taskRun[w]] = "running"
      <4>1. Fenced(w)
        BY <2>8 DEF Conclude, WaitForUserInput, MarkTerminal, FinalizeVerifiedPublish, Working, Advancing
      <4> QED
        BY <4>1, FencedRun DEF Fenced
    <3>2. CASE WaitForUserInput(w)
      BY <2>2, <3>1, <3>2 DEF WaitForUserInput, published
    <3>3. ASSUME NEW to \in {"failed", "needs_attention"}, MarkTerminal(w, to)
          PROVE  SuccessIsOnePublication'
      <4>1. PICK x \in {"failed", "needs_attention", "cancelled"} :
                status' = [status EXCEPT ![taskRun[w]] = x]
        BY <3>3 DEF MarkTerminal
      <4> QED
        BY <2>2, <3>1, <3>3, <4>1 DEF MarkTerminal, published
    <3>4. CASE FinalizeVerifiedPublish(w)
      <4> DEFINE r == taskRun[w]
      <4>1. baseVersion[r] \in Nat /\ r \in Nat
        BY <3>1, BoundsAssumption DEF TypeOK, Runs
      <4>2. /\ DOMAIN versions' = DOMAIN versions \cup {Len(versions) + 1}
            /\ Len(versions) + 1 \notin DOMAIN versions
            /\ versions'[Len(versions) + 1].run = r
            /\ \A n \in DOMAIN versions : versions'[n] = versions[n]
        BY <3>4, <4>1, NewVersionAppends DEF FinalizeVerifiedPublish, TypeOK
      <4>3. status' = [status EXCEPT ![r] = "succeeded"]
        BY <3>4 DEF FinalizeVerifiedPublish
      <4>4. \A n \in DOMAIN versions : versions[n].run # r
        BY <3>1 DEF SuccessIsOnePublication
      <4> HIDE DEF r
      <4>5. \A s \in Runs :
              status'[s] = "succeeded" <=> \E n \in DOMAIN versions' : versions'[n].run = s
        <5> SUFFICES ASSUME NEW s \in Runs
                     PROVE  status'[s] = "succeeded" <=>
                                \E n \in DOMAIN versions' : versions'[n].run = s
          OBVIOUS
        <5>1. CASE s = r
          BY <4>2, <4>3, <5>1 DEF TypeOK
        <5>2. CASE s # r
          <6>1. status'[s] = status[s]
            BY <4>3, <5>2 DEF TypeOK
          <6>2. (\E n \in DOMAIN versions' : versions'[n].run = s)
                    <=> \E n \in DOMAIN versions : versions[n].run = s
            BY <4>2, <5>2
          <6> QED
            BY <6>1, <6>2 DEF SuccessIsOnePublication
        <5> QED
          BY <5>1, <5>2
      <4>6. \A m, n \in DOMAIN versions' :
              versions'[m].run = versions'[n].run /\ versions'[m].run # NoRun => m = n
        BY <4>2, <4>4 DEF SuccessIsOnePublication
      <4> QED
        BY <4>5, <4>6 DEF SuccessIsOnePublication
    <3> QED
      BY <2>8, <3>2, <3>3, <3>4 DEF Conclude
  <2>9. ASSUME NEW w \in Workers, LeaveTask(w) \/ EscapeTask(w) \/ CrashWorker(w)
        PROVE  SuccessIsOnePublication'
    BY <2>1, <2>9 DEF LeaveTask, EscapeTask, CrashWorker, lifecycle, published
  <2>10. ASSUME NEW r \in Runs, LeaseExpires(r) PROVE SuccessIsOnePublication'
    BY <2>1, <2>10 DEF LeaseExpires, lifecycle, published
  <2>11. CASE UNCHANGED vars
    BY <2>1, <2>11 DEF vars, lifecycle, published
  <2> QED
    BY <2>4, <2>5, <2>6, <2>7, <2>8, <2>9, <2>10, <2>11 DEF Next
<1> QED
  BY <1>1, <1>2, TypeCorrect, WriterInvariant, PTL DEF Spec
=============================================================================
