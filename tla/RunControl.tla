----------------------------- MODULE RunControl -----------------------------
(***************************************************************************)
(* The durable run of one project: how the API, the workers and lease      *)
(* recovery move it, each transaction of persistence/repository.py being   *)
(* one action, except the claim: under READ COMMITTED others commit between*)
(* its count of the project's writers and its own write.  Runs are numbered*)
(* in the order of created_at, versions by VersionRecord.number; 0 stands  *)
(* for a NULL column.                                                      *)
(*                                                                         *)
(* Sandboxes, and with them the order in which queued runs may be claimed, *)
(* are added by SandboxCustody.  Goals are counted here and have their     *)
(* statuses in GoalGraph.                                                  *)
(***************************************************************************)
EXTENDS Naturals, Sequences

CONSTANTS
    Workers,        \* worker processes (worker/runner.py)
    Tokens,         \* bound: lease tokens in use at one time
    NoToken,        \* a NULL lease_owner
    MaxRuns,        \* bound: runs ever created in the project
    Goals,          \* number of goals of every GoalGraph
    MaxQuestions,   \* bound: clarifying questions asked by all the runs
    MaxEdits,       \* bound: manual saves and restores
    MaxFaults       \* bound: worker crashes and lease stalls

ASSUME TokenAssumption == NoToken \notin Tokens

ASSUME BoundsAssumption ==
    /\ MaxRuns \in Nat
    /\ Goals \in Nat \ {0}
    /\ MaxQuestions \in Nat
    /\ MaxEdits \in Nat
    /\ MaxFaults \in Nat

Runs == 1 .. MaxRuns
NoRun == 0
NoVersion == 0

Terminal == {"succeeded", "failed", "cancelled", "needs_attention"}
Recoverable == {"failed", "cancelled", "needs_attention"}
Writing == {"running", "waiting_for_user"}
RunStatus == {"absent", "queued"} \cup Writing \cup Terminal
GraphStatus == {"none", "active", "verified", "failed", "cancelled", "superseded"}
(* "detached": an answered continuation whose run lost its sandbox_id.     *)
Continuation == {"none", "pending", "answered", "detached"}

VARIABLES
    created,          \* number of runs created
    status,           \* RunRecord.status
    cancelRequested,  \* RunRecord.cancel_requested_at is not NULL
    leaseOwner,       \* RunRecord.lease_owner, the token of the claim
    leaseExpired,     \* RunRecord.lease_expires_at <= now
    continuation,     \* continuation_request_id, by its request's status
    baseVersion,      \* RunRecord.base_version_id
    graph,            \* GoalGraphRecord.status of the run's graph
    checkpoints,      \* verified checkpoints of that graph
    activeRun,        \* ProjectRecord.active_run_id
    projectStatus,    \* ProjectRecord.status
    headVersion,      \* ProjectRecord.head_version_id
    versions,         \* VersionRecords by number
    questions,        \* questions asked
    faults,           \* crashes and stalls so far
    taskRun,          \* run a worker process is executing
    taskToken,        \* lease token that execution carries
    locked,           \* rows its claim in progress selected FOR UPDATE
    overtaken         \* history: runs whose claim counted no other writer and
                      \* then saw another claim commit before it did, while it
                      \* is in progress or the run has another writer beside it

lifecycle == <<created, status, cancelRequested, baseVersion>>
lease == <<leaseOwner, leaseExpired>>
goals == <<graph, checkpoints>>
project == <<activeRun, projectStatus>>
published == <<headVersion, versions>>
dialogue == <<continuation, questions>>
tasks == <<taskRun, taskToken, locked, overtaken>>
vars == <<lifecycle, lease, goals, project, published, dialogue, tasks, faults>>

Version == [parent : Nat, qa : {"passed", "manual", "restored"}, run : Nat]

Init ==
    /\ created = 0
    /\ status = [r \in Runs |-> "absent"]
    /\ cancelRequested = [r \in Runs |-> FALSE]
    /\ leaseOwner = [r \in Runs |-> NoToken]
    /\ leaseExpired = [r \in Runs |-> FALSE]
    /\ continuation = [r \in Runs |-> "none"]
    /\ baseVersion = [r \in Runs |-> NoVersion]
    /\ graph = [r \in Runs |-> "none"]
    /\ checkpoints = [r \in Runs |-> 0]
    /\ activeRun = NoRun
    /\ projectStatus = "idle"
    /\ headVersion = NoVersion
    /\ versions = << >>
    /\ questions = 0
    /\ faults = 0
    /\ taskRun = [w \in Workers |-> NoRun]
    /\ taskToken = [w \in Workers |-> NoToken]
    /\ locked = [w \in Workers |-> {}]
    /\ overtaken = {}

-----------------------------------------------------------------------------
(* Helpers shared by the transactions.                                     *)

(* Operators named Mutant... are plausible mistakes in the definition that *)
(* follows them; each breaks one property and none is used by the model.   *)
MutantFencedByStatus(w) ==
    LET r == taskRun[w]
    IN  /\ r # NoRun
        /\ status[r] = "running"
        /\ ~leaseExpired[r]

(* The write fence: the one UPDATE predicate every worker write repeats.   *)
Fenced(w) ==
    LET r == taskRun[w]
    IN  /\ r # NoRun
        /\ status[r] = "running"
        /\ leaseOwner[r] = taskToken[w]
        /\ ~leaseExpired[r]

Oldest(S) == IF S = {} THEN NoRun
             ELSE CHOOSE r \in S : \A s \in S : r <= s

MutantAdvanceKeepsOutcome ==
    LET nextRun == Oldest({r \in Runs : status'[r] = "queued"})
    IN  /\ activeRun' = nextRun
        /\ projectStatus' = IF nextRun = NoRun THEN status'[activeRun] ELSE "queued"

MutantAdvanceBeforeFlush ==
    LET nextRun == Oldest({r \in Runs : status[r] = "queued"})
    IN  /\ activeRun' = nextRun
        /\ projectStatus' = IF nextRun = NoRun THEN "idle" ELSE "queued"

(* The project points at its oldest queued run, or at none.                *)
AdvanceProjectAfterTerminal ==
    LET nextRun == Oldest({r \in Runs : status'[r] = "queued"})
    IN  /\ activeRun' = nextRun
        /\ projectStatus' = IF nextRun = NoRun THEN "idle" ELSE "queued"

PointProjectAt(r, state) ==
    /\ activeRun' = r
    /\ projectStatus' = state

ReleaseLease(r) ==
    /\ leaseOwner' = [leaseOwner EXCEPT ![r] = NoToken]
    /\ leaseExpired' = [leaseExpired EXCEPT ![r] = FALSE]

(* What a transaction that wants the row FOR UPDATE waits for.             *)
IsLocked(r) == \E w \in Workers : r \in locked[w]

EnsureNoActiveWriter == activeRun = NoRun

-----------------------------------------------------------------------------
(* API transactions on runs.                                               *)

QueueRun(base) ==
    LET r == created + 1
    IN  /\ created < MaxRuns
        /\ created' = r
        /\ status' = [status EXCEPT ![r] = "queued"]
        /\ baseVersion' = [baseVersion EXCEPT ![r] = base]
        /\ activeRun' = IF activeRun = NoRun THEN r ELSE activeRun
        /\ projectStatus' = "queued"
        /\ UNCHANGED <<cancelRequested, lease, goals, published, dialogue, tasks, faults>>

CreateMessageAndRun(base) ==
    /\ base \in {headVersion} \cup DOMAIN versions
    /\ activeRun # NoRun => status[activeRun] # "waiting_for_user"
    /\ QueueRun(base)

(* Only a QA-passed base version of the source is inherited.               *)
VerifiedBaseVersion(source) ==
    LET base == baseVersion[source]
    IN  IF base # NoVersion /\ versions[base].qa = "passed" THEN base ELSE NoVersion

CreateRecoveryMessageAndRun(source) ==
    /\ status[source] \in Recoverable
    /\ QueueRun(VerifiedBaseVersion(source))

AnswerUserInput(r) ==
    /\ status[r] = "waiting_for_user"
    /\ continuation[r] = "pending"
    /\ continuation' = [continuation EXCEPT ![r] = "answered"]
    /\ status' = [status EXCEPT ![r] = "queued"]
    /\ ReleaseLease(r)
    /\ PointProjectAt(r, "queued")
    /\ UNCHANGED <<created, cancelRequested, baseVersion, goals, published, questions, tasks, faults>>

MutantRequestCancelKeepsQuestion(r) ==
    /\ ~IsLocked(r)
    /\ cancelRequested' = [cancelRequested EXCEPT ![r] = TRUE]
    /\ \/ /\ status[r] \in {"queued", "waiting_for_user"}
          /\ status' = [status EXCEPT ![r] = "cancelled"]
          /\ ReleaseLease(r)
          /\ AdvanceProjectAfterTerminal
          /\ UNCHANGED continuation
       \/ /\ status[r] = "running"
          /\ UNCHANGED <<status, continuation, lease, project>>
    /\ UNCHANGED <<created, baseVersion, goals, published, questions, tasks, faults>>

(* A queued or waiting run is closed on the spot; a running one is only    *)
(* flagged, and its worker is expected to notice.                          *)
RequestCancel(r) ==
    /\ ~IsLocked(r)
    /\ cancelRequested' = [cancelRequested EXCEPT ![r] = TRUE]
    /\ \/ /\ status[r] \in {"queued", "waiting_for_user"}
          /\ status' = [status EXCEPT ![r] = "cancelled"]
          /\ continuation' = [continuation EXCEPT ![r] = "none"]
          /\ ReleaseLease(r)
          /\ AdvanceProjectAfterTerminal
       \/ /\ status[r] = "running"
          /\ UNCHANGED <<status, continuation, lease, project>>
    /\ UNCHANGED <<created, baseVersion, goals, published, questions, tasks, faults>>

-----------------------------------------------------------------------------
(* API transactions on versions.                                           *)

NewVersion(parent, qa, run) ==
    /\ versions' = Append(versions, [parent |-> parent, qa |-> qa, run |-> run])
    /\ headVersion' = Len(versions) + 1

MayEdit == Len(SelectSeq(versions, LAMBDA v : v.qa # "passed")) < MaxEdits

SaveFileContent ==
    /\ EnsureNoActiveWriter
    /\ MayEdit
    /\ NewVersion(headVersion, "manual", NoRun)
    /\ UNCHANGED <<lifecycle, lease, goals, project, dialogue, tasks, faults>>

RestoreVersion ==
    /\ EnsureNoActiveWriter
    /\ versions # << >>
    /\ MayEdit
    /\ NewVersion(headVersion, "restored", NoRun)
    /\ UNCHANGED <<lifecycle, lease, goals, project, dialogue, tasks, faults>>

-----------------------------------------------------------------------------
(* Worker transactions.                                                    *)

(* A token nobody stores or carries stands for a new uuid.                 *)
FreshTokens ==
    Tokens \ ({leaseOwner[r] : r \in Runs} \cup {taskToken[w] : w \in Workers})

MutantProjectIsFreeWhileWaiting(r) == \A s \in Runs \ {r} : status[s] # "running"

(* The claim counts the project's other runs and ignores its pointer.      *)
ProjectIsFree(r) == \A s \in Runs \ {r} : status[s] \notin Writing

(* The runs other claims in progress have chosen.                          *)
OtherCandidates(w) == {Oldest(locked[v]) : v \in {u \in Workers \ {w} : locked[u] # {}}}

(* SELECT ... FOR UPDATE SKIP LOCKED, then the count: a row that another   *)
(* transaction holds, or that is not claimable yet, is passed over.  The   *)
(* first of the rows is chosen; the rest stay locked until the end.        *)
SelectCandidates(w, rows) ==
    /\ taskRun[w] = NoRun
    /\ locked[w] = {}
    /\ rows # {}
    /\ \A r \in rows : status[r] = "queued" /\ ~IsLocked(r)
    /\ ProjectIsFree(Oldest(rows))
    /\ locked' = [locked EXCEPT ![w] = rows]
    /\ overtaken' = overtaken \cap OtherCandidates(w)
    /\ UNCHANGED <<lifecycle, lease, goals, project, published, dialogue, taskRun, taskToken, faults>>

(* uq_runs_one_running_writer_per_project admits one running run; a waiting*)
(* one is no obstacle to it.                                               *)
IndexAdmits(r) == \A s \in Runs \ {r} : status[s] # "running"

(* The write and the commit of a claim that counted no other writer.  A    *)
(* mark is dropped once the project is seen to have no other writer.       *)
ClaimNextRun(w, r, token) ==
    /\ locked[w] # {}
    /\ r = Oldest(locked[w])
    /\ IndexAdmits(r)
    /\ token \in FreshTokens
    /\ status' = [status EXCEPT ![r] = "running"]
    /\ leaseOwner' = [leaseOwner EXCEPT ![r] = token]
    /\ leaseExpired' = [leaseExpired EXCEPT ![r] = FALSE]
    /\ PointProjectAt(r, "running")
    /\ taskRun' = [taskRun EXCEPT ![w] = r]
    /\ taskToken' = [taskToken EXCEPT ![w] = token]
    /\ locked' = [locked EXCEPT ![w] = {}]
    /\ overtaken' = OtherCandidates(w) \cup (IF ProjectIsFree(r) THEN {} ELSE overtaken)
    /\ UNCHANGED <<created, cancelRequested, baseVersion, goals, published, dialogue, faults>>

(* A fenced task that got past get_run_continuation.                       *)
Working(w) == Fenced(w) /\ continuation[taskRun[w]] # "detached"

(* A turn ended with a question: planning, building and repairing turns    *)
(* run only while the graph is missing or active.                          *)
WaitForUserInput(w) ==
    LET r == taskRun[w]
    IN  /\ Working(w)
        /\ graph[r] \in {"none", "active"}
        /\ continuation[r] # "pending"
        /\ questions < MaxQuestions
        /\ questions' = questions + 1
        /\ continuation' = [continuation EXCEPT ![r] = "pending"]
        /\ status' = [status EXCEPT ![r] = "waiting_for_user"]
        /\ ReleaseLease(r)
        /\ PointProjectAt(r, "waiting_for_user")
        /\ UNCHANGED <<created, cancelRequested, baseVersion, goals, published, tasks, faults>>

CompleteRunContinuation(w) ==
    LET r == taskRun[w]
    IN  /\ Fenced(w)
        /\ graph[r] \in {"none", "active"}
        /\ continuation[r] = "answered"
        /\ continuation' = [continuation EXCEPT ![r] = "none"]
        /\ UNCHANGED <<lifecycle, lease, goals, project, published, questions, tasks, faults>>

(* The first turn after an answer completes the continuation before the    *)
(* orchestrator plans, checkpoints or publishes anything else.             *)
Advancing(w) == Fenced(w) /\ continuation[taskRun[w]] = "none"

MutantCreateGoalGraphBesideOld(w) ==
    LET r == taskRun[w]
    IN  /\ Advancing(w)
        /\ graph[r] = "none"
        /\ \A s \in Runs : graph[s] = "active" => status[s] \in Terminal
        /\ graph' = [graph EXCEPT ![r] = "active"]
        /\ UNCHANGED <<lifecycle, lease, checkpoints, project, published, dialogue, tasks, faults>>

CreateGoalGraph(w) ==
    LET r == taskRun[w]
    IN  /\ Advancing(w)
        /\ graph[r] = "none"
        /\ \A s \in Runs : graph[s] = "active" => status[s] \in Terminal
        /\ graph' = [s \in Runs |->
                        IF s = r THEN "active"
                        ELSE IF graph[s] = "active" THEN "superseded"
                        ELSE graph[s]]
        /\ UNCHANGED <<lifecycle, lease, checkpoints, project, published, dialogue, tasks, faults>>

RecordVerifiedCheckpoint(w) ==
    LET r == taskRun[w]
    IN  /\ Advancing(w)
        /\ ~cancelRequested[r]
        /\ graph[r] = "active"
        /\ checkpoints' = [checkpoints EXCEPT ![r] = @ + 1]
        /\ graph' = [graph EXCEPT ![r] =
                        IF checkpoints[r] + 1 = Goals THEN "verified" ELSE @]
        /\ UNCHANGED <<lifecycle, lease, project, published, dialogue, tasks, faults>>

MutantCloseGoalGraphUnfenced(w, to) ==
    LET r == taskRun[w]
    IN  /\ r # NoRun
        /\ graph[r] = "active"
        /\ to \in {"failed", "cancelled"}
        /\ to = "cancelled" => cancelRequested[r]
        /\ graph' = [graph EXCEPT ![r] = to]
        /\ UNCHANGED <<lifecycle, lease, checkpoints, project, published, dialogue, tasks, faults>>

(* fail_goal and terminalize_goal_graph of the orchestrator's exits.       *)
CloseGoalGraph(w, to) ==
    LET r == taskRun[w]
    IN  /\ Working(w)
        /\ graph[r] = "active"
        /\ to \in {"failed", "cancelled"}
        /\ to = "cancelled" => cancelRequested[r]
        /\ graph' = [graph EXCEPT ![r] = to]
        /\ UNCHANGED <<lifecycle, lease, checkpoints, project, published, dialogue, tasks, faults>>

MutantMarkTerminalIgnoresCancel(w, to) ==
    LET r == taskRun[w]
    IN  /\ Working(w)
        /\ to \in {"failed", "needs_attention"}
        /\ status' = [status EXCEPT ![r] = to]
        /\ ReleaseLease(r)
        /\ AdvanceProjectAfterTerminal
        /\ UNCHANGED <<created, cancelRequested, baseVersion, goals, published, dialogue, tasks, faults>>

MarkTerminal(w, to) ==
    LET r == taskRun[w]
    IN  /\ Working(w)
        /\ to \in {"failed", "needs_attention"}
        /\ status' = [status EXCEPT ![r] =
                        IF cancelRequested[r] THEN "cancelled" ELSE to]
        /\ ReleaseLease(r)
        /\ AdvanceProjectAfterTerminal
        /\ UNCHANGED <<created, cancelRequested, baseVersion, goals, published, dialogue, tasks, faults>>

MutantPublishBeforeSuccess(w) ==
    LET r == taskRun[w]
    IN  /\ Advancing(w)
        /\ ~cancelRequested[r]
        /\ graph[r] = "verified"
        /\ NewVersion(baseVersion[r], "passed", r)
        /\ UNCHANGED <<lifecycle, lease, goals, project, dialogue, tasks, faults>>

FinalizeVerifiedPublish(w) ==
    LET r == taskRun[w]
    IN  /\ Advancing(w)
        /\ ~cancelRequested[r]
        /\ graph[r] = "verified"
        /\ NewVersion(baseVersion[r], "passed", r)
        /\ status' = [status EXCEPT ![r] = "succeeded"]
        /\ ReleaseLease(r)
        /\ AdvanceProjectAfterTerminal
        /\ UNCHANGED <<created, cancelRequested, baseVersion, goals, dialogue, tasks, faults>>

(* The process is left with no task, and with no claim in progress.        *)
DropTask(w) ==
    /\ taskRun' = [taskRun EXCEPT ![w] = NoRun]
    /\ taskToken' = [taskToken EXCEPT ![w] = NoToken]
    /\ locked' = [locked EXCEPT ![w] = {}]
    /\ UNCHANGED overtaken

(* The write violates the index and rolls back; run_forever catches nothing*)
(* and the process starts over.                                            *)
ClaimRefused(w) ==
    /\ locked[w] # {}
    /\ ~IndexAdmits(Oldest(locked[w]))
    /\ DropTask(w)
    /\ UNCHANGED <<lifecycle, lease, goals, project, published, dialogue, faults>>

(* The task unwinds once its token writes nothing any more: its run ended, *)
(* waits for the user, or a renewal failed and the heartbeat cancelled it. *)
LeaveTask(w) ==
    /\ taskRun[w] # NoRun
    /\ ~Fenced(w)
    /\ DropTask(w)
    /\ UNCHANGED <<lifecycle, lease, goals, project, published, dialogue, faults>>

(* get_run_continuation refuses a detached continuation before any of the  *)
(* orchestrator's handlers is in place: run_once logs the error and drops  *)
(* the task, and the run stays "running" under a lease nobody renews.      *)
EscapeTask(w) ==
    /\ Fenced(w)
    /\ continuation[taskRun[w]] = "detached"
    /\ DropTask(w)
    /\ UNCHANGED <<lifecycle, lease, goals, project, published, dialogue, faults>>

-----------------------------------------------------------------------------
(* Time, crashes and lease recovery.                                       *)

CrashWorker(w) ==
    /\ taskRun[w] # NoRun \/ locked[w] # {}
    /\ faults < MaxFaults
    /\ faults' = faults + 1
    /\ DropTask(w)
    /\ UNCHANGED <<lifecycle, lease, goals, project, published, dialogue>>

(* A lease nobody renews runs out; one whose worker is alive runs out only *)
(* when its heartbeat is starved past the deadline.                        *)
LeaseExpires(r) ==
    /\ status[r] = "running"
    /\ ~leaseExpired[r]
    /\ \/ /\ \A w \in Workers : taskToken[w] # leaseOwner[r]
          /\ UNCHANGED faults
       \/ /\ faults < MaxFaults
          /\ faults' = faults + 1
    /\ leaseExpired' = [leaseExpired EXCEPT ![r] = TRUE]
    /\ UNCHANGED <<lifecycle, leaseOwner, goals, project, published, dialogue, tasks>>

(* The checkpoint of an unfinished or verified graph, when its manifest is *)
(* intact, lets the run start over; a cancellation request forbids it.     *)
Resumable(r, intact) ==
    /\ graph[r] \in {"active", "verified"}
    /\ checkpoints[r] > 0
    /\ intact
    /\ ~cancelRequested[r]

(* The requeue forgets sandbox_id and keeps the continuation.              *)
RequeueExpired(r) ==
    /\ status' = [status EXCEPT ![r] = "queued"]
    /\ continuation' = [continuation EXCEPT ![r] =
                            IF @ = "none" THEN "none" ELSE "detached"]
    /\ PointProjectAt(r, "queued")
    /\ UNCHANGED <<goals, questions>>

FailExpired(r) ==
    LET outcome == IF cancelRequested[r] THEN "cancelled" ELSE "failed"
    IN  /\ status' = [status EXCEPT ![r] = outcome]
        /\ graph' = [graph EXCEPT ![r] = IF @ = "active" THEN outcome ELSE @]
        /\ AdvanceProjectAfterTerminal
        /\ UNCHANGED <<checkpoints, dialogue>>

MutantRecoverSkipsCancelled(r, intact) ==
    /\ \E w \in Workers : taskRun[w] = NoRun
    /\ status[r] = "running"
    /\ leaseExpired[r]
    /\ ~cancelRequested[r]
    /\ IF Resumable(r, intact) THEN RequeueExpired(r) ELSE FailExpired(r)
    /\ ReleaseLease(r)
    /\ UNCHANGED <<created, cancelRequested, baseVersion, published, tasks, faults>>

RecoverExpiredRunningRun(r, intact) ==
    /\ \E w \in Workers : taskRun[w] = NoRun
    /\ status[r] = "running"
    /\ leaseExpired[r]
    /\ IF Resumable(r, intact) THEN RequeueExpired(r) ELSE FailExpired(r)
    /\ ReleaseLease(r)
    /\ UNCHANGED <<created, cancelRequested, baseVersion, published, tasks, faults>>

-----------------------------------------------------------------------------

Request ==
    \/ \E base \in 0 .. Len(versions) : CreateMessageAndRun(base)
    \/ \E r \in Runs :
        \/ CreateRecoveryMessageAndRun(r)
        \/ AnswerUserInput(r)
        \/ RequestCancel(r)
    \/ SaveFileContent
    \/ RestoreVersion

Turn(w) ==
    \/ CompleteRunContinuation(w)
    \/ CreateGoalGraph(w)
    \/ RecordVerifiedCheckpoint(w)
    \/ \E to \in {"failed", "cancelled"} : CloseGoalGraph(w, to)

Conclude(w) ==
    \/ WaitForUserInput(w)
    \/ \E to \in {"failed", "needs_attention"} : MarkTerminal(w, to)
    \/ FinalizeVerifiedPublish(w)

Claim ==
    \E w \in Workers :
        \/ \E rows \in SUBSET Runs : SelectCandidates(w, rows)
        \/ \E r \in Runs, token \in Tokens : ClaimNextRun(w, r, token)
        \/ ClaimRefused(w)
Recover == \E r \in Runs, intact \in BOOLEAN : RecoverExpiredRunningRun(r, intact)

Next ==
    \/ Request
    \/ Claim
    \/ Recover
    \/ \E w \in Workers : Turn(w) \/ Conclude(w) \/ LeaveTask(w) \/ EscapeTask(w) \/ CrashWorker(w)
    \/ \E r \in Runs : LeaseExpires(r)

Spec == Init /\ [][Next]_vars

(* Idle workers keep polling (run_forever), every agent turn ends, a       *)
(* cancelled task unwinds, and time passes.  Users owe nothing.            *)
Fairness ==
    /\ WF_vars(Claim)
    /\ WF_vars(Recover)
    /\ \A w \in Workers : WF_vars(Conclude(w) \/ LeaveTask(w) \/ EscapeTask(w))
    /\ WF_vars(\E r \in Runs : LeaseExpires(r))

FairSpec == Spec /\ Fairness

-----------------------------------------------------------------------------
(* Safety.                                                                 *)

(* Every column and every worker variable keeps its type.                  *)
TypeOK ==
    /\ created \in 0 .. MaxRuns
    /\ status \in [Runs -> RunStatus]
    /\ cancelRequested \in [Runs -> BOOLEAN]
    /\ leaseOwner \in [Runs -> Tokens \cup {NoToken}]
    /\ leaseExpired \in [Runs -> BOOLEAN]
    /\ continuation \in [Runs -> Continuation]
    /\ baseVersion \in [Runs -> Nat]
    /\ graph \in [Runs -> GraphStatus]
    /\ checkpoints \in [Runs -> Nat]
    /\ activeRun \in 0 .. MaxRuns
    /\ projectStatus \in {"idle", "queued", "running", "waiting_for_user"}
    /\ headVersion \in Nat
    /\ versions \in Seq(Version)
    /\ questions \in Nat
    /\ faults \in Nat
    /\ taskRun \in [Workers -> 0 .. MaxRuns]
    /\ taskToken \in [Workers -> Tokens \cup {NoToken}]
    /\ locked \in [Workers -> SUBSET Runs]
    /\ overtaken \subseteq Runs

(* Two runs of a project are both running or waiting only because the claim*)
(* of one committed between the count and the commit of the other's, and   *)
(* never both running: no answer, expiry, requeue, cancellation or crash   *)
(* lets a second writer in.  The docstring of claim_next_run promises it   *)
(* without the exception (repository.py:2900), which ClaimRace.cfg refutes.*)
SingleWriter ==
    \A r, s \in Runs :
        status[r] \in Writing /\ status[s] \in Writing /\ r # s =>
            /\ r \in overtaken \/ s \in overtaken
            /\ "waiting_for_user" \in {status[r], status[s]}

(* However many processes still execute tasks of this project after stalls *)
(* and recoveries, at most one passes the write fence.                     *)
OneEffectiveWorker ==
    \A v, w \in Workers : Fenced(v) /\ Fenced(w) => v = w

(* active_run_id never dangles on a finished run, and when it is NULL, the *)
(* condition under which edits are admitted, no run is left queued: no     *)
(* order of creations, cancellations and endings strands a queued run.     *)
ActiveRunPointsAtLiveRun ==
    /\ activeRun # NoRun => status[activeRun] \in {"queued"} \cup Writing
    /\ activeRun = NoRun => \A r \in Runs : status[r] # "queued"

(* Closing a stale GoalGraph of a finished run at the next graph creation  *)
(* is enough: two graphs of a project are never active together.           *)
OneActiveGraph ==
    \A r, s \in Runs : graph[r] = "active" /\ graph[s] = "active" => r = s

(* Success and publication are one event: a run succeeded exactly when one *)
(* version carries it, whatever crashed or was retried in between.         *)
SuccessIsOnePublication ==
    /\ \A r \in Runs :
          status[r] = "succeeded" <=> \E n \in DOMAIN versions : versions[n].run = r
    /\ \A m, n \in DOMAIN versions :
          versions[m].run = versions[n].run /\ versions[m].run # NoRun => m = n

(* A run waits exactly while its continuation names an unanswered question:*)
(* an answer, a cancellation or a recovery never splits the two.           *)
WaitingHasPendingQuestion ==
    \A r \in Runs : status[r] = "waiting_for_user" <=> continuation[r] = "pending"

-----------------------------------------------------------------------------
(* Action properties.                                                      *)

(* How an accepted cancellation lets the run end in a step.                *)
EndsAsCancelled ==
    \A r \in Runs :
        cancelRequested[r] /\ status'[r] \in Terminal => status'[r] \in {"cancelled", status[r]}

(* Once a cancellation is accepted the run can end in no other way, even   *)
(* when the request races a publication, a failure or lease recovery.      *)
CancelDecides == [][EndsAsCancelled]_vars

(* What a step leaves of a finished run.                                   *)
KeepsEndedRuns ==
    \A r \in Runs : status[r] \in Terminal =>
        /\ status'[r] = status[r]
        /\ checkpoints'[r] = checkpoints[r]
        /\ graph'[r] = graph[r] \/ (graph[r] = "active" /\ graph'[r] = "superseded")

(* A finished run stays as it ended: no stale worker, answer, recovery or  *)
(* cancellation reopens it, adds a checkpoint to it or verifies its graph. *)
TerminalRunIsFrozen == [][KeepsEndedRuns]_vars

-----------------------------------------------------------------------------
(* Liveness, under FairSpec.                                               *)

(* No run is lost: one that is queued or running does not stay so, through *)
(* any crash, stall or retry, but ends or comes to wait for its user, unless*)
(* a question or a detached continuation holds the project.                *)
NoRunIsLost ==
    \A r \in Runs :
        []<>(\/ status[r] \notin {"queued", "running"}
            \/ \E s \in Runs : \/ status[s] = "waiting_for_user"
                              \/ continuation[s] = "detached")

-----------------------------------------------------------------------------
(* Statements of the code's own texts that its transactions do not keep.   *)

(* "An agent run is active; wait for it before changing the published      *)
(* version": no save or restore lands while a run is being written.        *)
NoEditUnderWriter ==
    [][\A n \in DOMAIN versions' :
          n \notin DOMAIN versions /\ versions'[n].qa # "passed"
          => \A r \in Runs : status[r] \notin Writing]_vars

(* "requeued so a fresh sandbox/session can resume": a run lease recovery  *)
(* returned to the queue comes to execute a turn, or ends.                 *)
RequeuedRunResumes ==
    \A r \in Runs :
        status[r] = "queued" /\ graph[r] = "active" /\ checkpoints[r] > 0 ~>
            \/ status[r] \in Terminal
            \/ \E s \in Runs : status[s] = "waiting_for_user"
            \/ \E w \in Workers : taskRun[w] = r /\ Working(w)

(* "cancellation taking precedence": a run whose cancellation was accepted *)
(* does not come to wait for an answer of the user who cancelled it.       *)
CancelledRunNeverWaits ==
    \A r \in Runs : cancelRequested[r] => status[r] # "waiting_for_user"
=============================================================================
