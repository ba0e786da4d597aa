--------------------------- MODULE SandboxCustody ---------------------------
(***************************************************************************)
(* Who may use, and who must destroy, the sandboxes of a run.  RunControl  *)
(* is refined: a worker task executes the steps of the orchestrator around *)
(* RunControl's transactions, holds a generation sandbox G and sometimes a *)
(* verification sandbox V at the provider, and registers both as resource  *)
(* rows; idle workers sweep what dead tasks left behind; a queued run may  *)
(* be claimed only when nothing of an earlier attempt is registered.       *)
(***************************************************************************)
EXTENDS RunControl

CONSTANTS
    MaxSandboxes,   \* bound: sandboxes ever created at the provider
    MaxSlips        \* bound: provider calls and acknowledgements that fail

ASSUME CustodyAssumption == MaxSandboxes \in Nat /\ MaxSlips \in Nat

Sandboxes == 1 .. MaxSandboxes
NoSandbox == 0
Kinds == {"none", "generation", "verification"}

(* Where the orchestrator's coroutine, or the sweep between two runs, is.  *)
Acting == {"register", "attach", "work", "registerV", "attachV",
           "verify", "judged", "passed", "retire", "return"}
Phases == {"idle", "sweep", "claim", "begin", "asked", "unavailable", "abort",
           "committed", "disown", "close"} \cup Acting

VARIABLES
    provided,   \* sandboxes created so far, their ids are 1 .. provided
    alive,      \* sandboxes the provider runs
    expired,    \* sandboxes whose lifetime at the provider ended
    rowRun,     \* RunSandboxResourceRecord.run_id, NoRun if not registered
    rowKind,    \* RunSandboxResourceRecord.kind
    cleaned,    \* rows with cleaned_at set
    sandboxId,  \* RunRecord.sandbox_id
    preview,    \* RunRecord.preview_url is not NULL
    pc,         \* phase of the worker process
    gen, ver,   \* the refs G and V its task holds
    targets,    \* cleanup targets of the sweep in progress
    slips       \* failed provider calls and acknowledgements so far

provider == <<provided, alive, expired>>
rows == <<rowRun, rowKind, cleaned>>
refs == <<sandboxId, preview>>
hands == <<pc, gen, ver>>
custody == <<provider, rows, refs, hands, targets, slips>>
custodyVars == <<vars, custody>>

Target == [run : Runs, sandbox : Sandboxes, row : BOOLEAN]

CustodyInit ==
    /\ Init
    /\ provided = 0
    /\ alive = {}
    /\ expired = {}
    /\ rowRun = [s \in Sandboxes |-> NoRun]
    /\ rowKind = [s \in Sandboxes |-> "none"]
    /\ cleaned = {}
    /\ sandboxId = [r \in Runs |-> NoSandbox]
    /\ preview = [r \in Runs |-> FALSE]
    /\ pc = [w \in Workers |-> "idle"]
    /\ gen = [w \in Workers |-> NoSandbox]
    /\ ver = [w \in Workers |-> NoSandbox]
    /\ targets = [w \in Workers |-> {}]
    /\ slips = 0

-----------------------------------------------------------------------------
(* Helpers.                                                                *)

Goto(w, phase) == pc' = [pc EXCEPT ![w] = phase]

LiveResources(r) == {s \in Sandboxes \ cleaned : rowRun[s] = r}

(* The one row of the run is the generation sandbox of its continuation.   *)
ResumableContinuation(r) ==
    /\ continuation[r] # "none"
    /\ sandboxId[r] # NoSandbox
    /\ LiveResources(r) = {sandboxId[r]}
    /\ rowKind[sandboxId[r]] = "generation"

MutantClaimableUnfenced(r) == status[r] = "queued"

Claimable(r) ==
    /\ status[r] = "queued"
    /\ LiveResources(r) = {} \/ ResumableContinuation(r)

TargetOf(r, s, row) == [run |-> r, sandbox |-> s, row |-> row]

(* A later list adds only the sandboxes no earlier list already names.     *)
Merge(first, more) ==
    first \cup {t \in more : \A u \in first : <<u.run, u.sandbox>> # <<t.run, t.sandbox>>}

MutantAwaitsOnlyWhileWaiting(r, s) ==
    /\ status[r] = "waiting_for_user"
    /\ continuation[r] # "none"
    /\ sandboxId[r] \in {NoSandbox, s}
    /\ rowKind[s] = "generation"

(* In the SQL the comparison with a NULL sandbox_id is neither true nor    *)
(* false, so a generation row of a continuation without one stays unlisted.*)
AwaitsContinuation(r, s) ==
    /\ status[r] \in {"waiting_for_user", "queued"}
    /\ continuation[r] # "none"
    /\ sandboxId[r] \in {NoSandbox, s}
    /\ rowKind[s] = "generation"

MutantIsPreview(r, s) ==
    /\ rowKind[s] = "verification"
    /\ preview[r]
    /\ sandboxId[r] = s

IsVerifiedPreview(r, s) ==
    /\ status[r] = "succeeded"
    /\ rowKind[s] = "verification"
    /\ preview[r]
    /\ sandboxId[r] = s

MutantListEveryResource ==
    {TargetOf(rowRun[s], s, TRUE) :
        s \in {x \in Sandboxes \ cleaned :
                  /\ rowRun[x] # NoRun
                  /\ ~AwaitsContinuation(rowRun[x], x)
                  /\ ~IsVerifiedPreview(rowRun[x], x)}}

MutantListForgetsPreview ==
    {TargetOf(rowRun[s], s, TRUE) :
        s \in {x \in Sandboxes \ cleaned :
                  /\ rowRun[x] # NoRun
                  /\ status[rowRun[x]] # "running"
                  /\ ~AwaitsContinuation(rowRun[x], x)}}

ListSandboxCleanupTargets ==
    {TargetOf(rowRun[s], s, TRUE) :
        s \in {x \in Sandboxes \ cleaned :
                  /\ rowRun[x] # NoRun
                  /\ status[rowRun[x]] # "running"
                  /\ ~AwaitsContinuation(rowRun[x], x)
                  /\ ~IsVerifiedPreview(rowRun[x], x)}}

ListTerminalSandboxCleanupTargets ==
    {TargetOf(r, sandboxId[r], FALSE) :
        r \in {x \in Runs : /\ status[x] \in Recoverable
                            /\ sandboxId[x] # NoSandbox
                            /\ status[x] = "cancelled" \/ ~preview[x]}}

ClearSandboxId(r, s) ==
    sandboxId' = [sandboxId EXCEPT ![r] = IF @ = s THEN NoSandbox ELSE @]

MutantDestroyUnfenced(w, s) ==
    /\ alive' = alive \ {s}
    /\ cleaned' = IF rowRun[s] # NoRun THEN cleaned \cup {s} ELSE cleaned
    /\ ClearSandboxId(taskRun[w], s)

(* WorkspaceManager.destroy: kill, acknowledge the row this task registered*)
(* or adopted, forget the reference if the fence still admits it.          *)
Destroy(w, s) ==
    /\ alive' = alive \ {s}
    /\ cleaned' = IF rowRun[s] # NoRun THEN cleaned \cup {s} ELSE cleaned
    /\ IF Fenced(w) THEN ClearSandboxId(taskRun[w], s) ELSE UNCHANGED sandboxId

(* The provider hands out a sandbox only while the task is active.         *)
Provide(s) ==
    /\ s = provided + 1
    /\ s <= MaxSandboxes
    /\ provided' = s
    /\ alive' = alive \cup {s}
    /\ UNCHANGED expired

RegisterRow(w, s, kind) ==
    /\ Working(w)
    /\ rowRun' = [rowRun EXCEPT ![s] = taskRun[w]]
    /\ rowKind' = [rowKind EXCEPT ![s] = kind]
    /\ UNCHANGED cleaned

SetSandboxId(w, s) ==
    /\ Working(w)
    /\ sandboxId' = [sandboxId EXCEPT ![taskRun[w]] = s]

-----------------------------------------------------------------------------
(* Between two runs: recovery, the sweep, the claim (run_once).            *)

MutantRecoverTargetsOfNull(r, requeued) ==
    LET registered == {TargetOf(r, s, TRUE) : s \in LiveResources(r)}
        named == {TargetOf(r, sandboxId[r], FALSE)}
    IN  IF requeued THEN Merge(registered, named)
        ELSE IF cancelRequested[r] \/ ~preview[r] THEN named ELSE {}

RecoverTargets(r, requeued) ==
    LET registered == {TargetOf(r, s, TRUE) : s \in LiveResources(r)}
        named == {TargetOf(r, s, FALSE) : s \in {sandboxId[r]} \ {NoSandbox}}
    IN  IF requeued THEN Merge(registered, named)
        ELSE IF cancelRequested[r] \/ ~preview[r] THEN named ELSE {}

(* Recovery and the two lists run concurrently: it may commit after them.  *)
RecoverExpired(w, r, intact) ==
    LET requeued == Resumable(r, intact)
    IN  /\ pc[w] \in {"idle", "sweep"}
        /\ RecoverExpiredRunningRun(r, intact)
        /\ targets' = [targets EXCEPT ![w] = Merge(RecoverTargets(r, requeued), @)]
        /\ sandboxId' = [sandboxId EXCEPT ![r] = IF requeued THEN NoSandbox ELSE @]
        /\ preview' = [preview EXCEPT ![r] = IF requeued THEN FALSE ELSE @]
        /\ UNCHANGED <<provider, rows, hands, slips>>

ListTargets(w) ==
    /\ pc[w] = "idle"
    /\ Goto(w, "sweep")
    /\ targets' = [targets EXCEPT ![w] =
            Merge(Merge(@, ListSandboxCleanupTargets), ListTerminalSandboxCleanupTargets)]
    /\ UNCHANGED <<vars, provider, rows, refs, gen, ver, slips>>

(* The sweep kills through the provider, acknowledges the row and clears   *)
(* the exact reference; a failed kill leaves all three, a failed           *)
(* acknowledgement leaves the row, the reference or both.                  *)
DestroyStale(w, t) ==
    /\ pc[w] = "sweep"
    /\ t \in targets[w]
    /\ targets' = [targets EXCEPT ![w] = @ \ {t}]
    /\ alive' = alive \ {t.sandbox}
    /\ cleaned' = IF t.row THEN cleaned \cup {t.sandbox} ELSE cleaned
    /\ ClearSandboxId(t.run, t.sandbox)
    /\ UNCHANGED <<vars, provided, expired, rowRun, rowKind, preview, hands, slips>>

Slip == slips < MaxSlips /\ slips' = slips + 1

MutantDestroyStaleAcknowledges(w, t) ==
    /\ pc[w] = "sweep"
    /\ t \in targets[w]
    /\ Slip
    /\ targets' = [targets EXCEPT ![w] = @ \ {t}]
    /\ cleaned' = IF t.row THEN cleaned \cup {t.sandbox} ELSE cleaned
    /\ UNCHANGED <<vars, provided, alive, expired, rowRun, rowKind, refs, hands>>

DestroyStaleFails(w, t) ==
    /\ pc[w] = "sweep"
    /\ t \in targets[w]
    /\ Slip
    /\ targets' = [targets EXCEPT ![w] = @ \ {t}]
    /\ \/ UNCHANGED <<alive, cleaned>>
       \/ /\ alive' = alive \ {t.sandbox}
          /\ \/ UNCHANGED cleaned
             \/ cleaned' = IF t.row THEN cleaned \cup {t.sandbox} ELSE cleaned
    /\ UNCHANGED <<vars, provided, expired, rowRun, rowKind, refs, hands>>

(* The claim's select, with the resource fence in its WHERE, and its count.*)
SelectRuns(w, candidates) ==
    /\ pc[w] = "sweep"
    /\ targets[w] = {}
    /\ \A r \in candidates : Claimable(r)
    /\ SelectCandidates(w, candidates)
    /\ Goto(w, "claim")
    /\ UNCHANGED <<provider, rows, refs, gen, ver, targets, slips>>

ClaimRun(w, r, token) ==
    /\ pc[w] = "claim"
    /\ ClaimNextRun(w, r, token)
    /\ Goto(w, "begin")
    /\ UNCHANGED <<provider, rows, refs, gen, ver, targets, slips>>

(* Every candidate is held by another claim, or a writer was counted.      *)
NothingToClaim(w) ==
    /\ pc[w] = "sweep"
    /\ targets[w] = {}
    /\ \/ \A r \in Runs : Claimable(r) => IsLocked(r)
       \/ \E r \in Runs : status[r] \in Writing
    /\ Goto(w, "idle")
    /\ UNCHANGED <<vars, provider, rows, refs, gen, ver, targets, slips>>

-----------------------------------------------------------------------------
(* The task: opening the workspace.                                        *)

Escape(w) ==
    /\ pc[w] = "begin"
    /\ EscapeTask(w)
    /\ Goto(w, "idle")
    /\ UNCHANGED <<provider, rows, refs, gen, ver, targets, slips>>

(* An answered continuation adopts its own sandbox and no other.           *)
Adopt(w) ==
    LET r == taskRun[w]
        s == sandboxId[r]
    IN  /\ pc[w] = "begin"
        /\ Working(w)
        /\ continuation[r] = "answered"
        /\ s # NoSandbox
        /\ gen' = [gen EXCEPT ![w] = s]
        /\ \/ /\ s \in LiveResources(r) \cap alive
              /\ rowKind[s] = "generation"
              /\ Goto(w, "work")
              /\ UNCHANGED slips
           \/ /\ \/ s \notin LiveResources(r) \cap alive /\ UNCHANGED slips
                 \/ Slip
              /\ Goto(w, "unavailable")
        /\ UNCHANGED <<vars, provider, rows, refs, ver, targets>>

CreateGeneration(w) ==
    /\ pc[w] = "begin"
    /\ Working(w)
    /\ continuation[taskRun[w]] = "none"
    /\ ~cancelRequested[taskRun[w]]
    /\ Provide(provided + 1)
    /\ gen' = [gen EXCEPT ![w] = provided + 1]
    /\ Goto(w, "register")
    /\ UNCHANGED <<vars, rows, refs, ver, targets, slips>>

RegisterGeneration(w) ==
    /\ pc[w] = "register"
    /\ RegisterRow(w, gen[w], "generation")
    /\ Goto(w, "attach")
    /\ UNCHANGED <<vars, provider, refs, gen, ver, targets, slips>>

AttachGeneration(w) ==
    /\ pc[w] = "attach"
    /\ SetSandboxId(w, gen[w])
    /\ Goto(w, "work")
    /\ UNCHANGED <<vars, provider, rows, preview, gen, ver, targets, slips>>

-----------------------------------------------------------------------------
(* The task: turns, verification, publication.                             *)

TurnInG(w) ==
    /\ pc[w] = "work"
    /\ gen[w] \in alive
    /\ CompleteRunContinuation(w) \/ CreateGoalGraph(w)
    /\ UNCHANGED custody

(* The question names G, which must be the run's current sandbox.          *)
Ask(w) ==
    /\ pc[w] = "work"
    /\ gen[w] \in alive
    /\ sandboxId[taskRun[w]] = gen[w]
    /\ WaitForUserInput(w)
    /\ Goto(w, "asked")
    /\ UNCHANGED <<provider, rows, refs, gen, ver, targets, slips>>

CreateVerification(w) ==
    /\ pc[w] = "work"
    /\ Advancing(w)
    /\ ~cancelRequested[taskRun[w]]
    /\ graph[taskRun[w]] \in {"active", "verified"}
    /\ Provide(provided + 1)
    /\ ver' = [ver EXCEPT ![w] = provided + 1]
    /\ Goto(w, "registerV")
    /\ UNCHANGED <<vars, rows, refs, gen, targets, slips>>

RegisterVerification(w) ==
    /\ pc[w] = "registerV"
    /\ RegisterRow(w, ver[w], "verification")
    /\ Goto(w, "attachV")
    /\ UNCHANGED <<vars, provider, refs, gen, ver, targets, slips>>

AttachVerification(w) ==
    /\ pc[w] = "attachV"
    /\ ver[w] \in alive
    /\ SetSandboxId(w, ver[w])
    /\ Goto(w, "verify")
    /\ UNCHANGED <<vars, provider, rows, preview, gen, ver, targets, slips>>

StartPreview(w) ==
    /\ pc[w] = "verify"
    /\ Working(w)
    /\ ver[w] \in alive
    /\ preview' = [preview EXCEPT ![taskRun[w]] = TRUE]
    /\ Goto(w, "judged")
    /\ UNCHANGED <<vars, provider, rows, sandboxId, gen, ver, targets, slips>>

(* All gates passed and V is still healthy; on a graph that recovery found *)
(* verified there is nothing left to checkpoint.                           *)
Pass(w) ==
    /\ pc[w] = "judged"
    /\ ver[w] \in alive
    /\ \/ RecordVerifiedCheckpoint(w)
       \/ /\ Working(w)
          /\ graph[taskRun[w]] = "verified"
          /\ UNCHANGED vars
    /\ Goto(w, "passed")
    /\ UNCHANGED <<provider, rows, refs, gen, ver, targets, slips>>

(* V is retired after a verdict that leaves work to do; the preview URL and*)
(* the run's reference follow in two more writes.                          *)
RetireVerification(w) ==
    /\ pc[w] \in {"verify", "judged", "passed"}
    /\ Working(w)
    /\ graph[taskRun[w]] = "active"
    /\ Destroy(w, ver[w])
    /\ ver' = [ver EXCEPT ![w] = NoSandbox]
    /\ Goto(w, "retire")
    /\ UNCHANGED <<vars, provided, expired, rowRun, rowKind, preview, gen, targets, slips>>

ForgetPreview(w) ==
    /\ pc[w] = "retire"
    /\ Working(w)
    /\ preview' = [preview EXCEPT ![taskRun[w]] = FALSE]
    /\ Goto(w, "return")
    /\ UNCHANGED <<vars, provider, rows, sandboxId, gen, ver, targets, slips>>

ReturnToG(w) ==
    /\ pc[w] = "return"
    /\ SetSandboxId(w, gen[w])
    /\ Goto(w, "work")
    /\ UNCHANGED <<vars, provider, rows, preview, gen, ver, targets, slips>>

Publish(w) ==
    /\ pc[w] = "passed"
    /\ ver[w] \in alive
    /\ FinalizeVerifiedPublish(w)
    /\ preview' = [preview EXCEPT ![taskRun[w]] = TRUE]
    /\ Goto(w, "committed")
    /\ UNCHANGED <<provider, rows, sandboxId, gen, ver, targets, slips>>

-----------------------------------------------------------------------------
(* The task: its exits.                                                    *)

(* wait_for_user_input has committed: G is forgotten, not destroyed.       *)
Preserve(w) ==
    /\ pc[w] = "asked"
    /\ gen' = [gen EXCEPT ![w] = NoSandbox]
    /\ Goto(w, "close")
    /\ UNCHANGED <<vars, provider, rows, refs, ver, targets, slips>>

(* keep_verification: the published V is no longer the task's to destroy.  *)
Keep(w) ==
    /\ pc[w] = "committed"
    /\ ver' = [ver EXCEPT ![w] = NoSandbox]
    /\ Goto(w, "close")
    /\ UNCHANGED <<vars, provider, rows, refs, gen, targets, slips>>

(* is_user_input_suspended: the one lost lease the heartbeat tolerates.    *)
Suspended(r) ==
    /\ continuation[r] # "none"
    /\ status[r] \in {"waiting_for_user", "queued"}

(* A failed renewal cancels the task wherever it awaits: after its own     *)
(* commit too, if it has not yet forgotten the sandbox it meant to spare.  *)
HeartbeatStrikes(w) ==
    /\ pc[w] \in {"asked", "committed"}
    /\ ~Fenced(w)
    /\ ~Suspended(taskRun[w])
    /\ Goto(w, "close")
    /\ UNCHANGED <<vars, provider, rows, refs, gen, ver, targets, slips>>

(* Any other fenced write, or the heartbeat, finds the lease lost.         *)
LoseLease(w) ==
    /\ pc[w] \in Acting \cup {"begin", "unavailable", "abort"}
    /\ ~Fenced(w)
    /\ Goto(w, IF pc[w] = "unavailable" THEN "disown" ELSE "close")
    /\ UNCHANGED <<vars, provider, rows, refs, gen, ver, targets, slips>>

(* An error, a failed gate of the final re-verification or an accepted     *)
(* cancellation; from here the exit handlers run.                          *)
Abort(w) ==
    /\ pc[w] \in Acting \cup {"begin"}
    /\ Working(w)
    /\ Goto(w, "abort")
    /\ UNCHANGED <<vars, provider, rows, refs, gen, ver, targets, slips>>

CloseGoals(w) ==
    /\ pc[w] = "abort"
    /\ \E to \in {"failed", "cancelled"} : CloseGoalGraph(w, to)
    /\ UNCHANGED custody

ClearPreview(w) ==
    /\ pc[w] = "abort"
    /\ Working(w)
    /\ preview[taskRun[w]]
    /\ preview' = [preview EXCEPT ![taskRun[w]] = FALSE]
    /\ UNCHANGED <<vars, provider, rows, sandboxId, hands, targets, slips>>

Release(w, s) ==
    /\ gen' = [gen EXCEPT ![w] = IF @ = s THEN NoSandbox ELSE @]
    /\ ver' = [ver EXCEPT ![w] = IF @ = s THEN NoSandbox ELSE @]

(* _discard_goal_workspace swallows every error of the destruction.        *)
Discard(w, s) ==
    /\ pc[w] \in {"abort", "close"}
    /\ s \in {gen[w], ver[w]} \ {NoSandbox}
    /\ Release(w, s)
    /\ Destroy(w, s)
    /\ UNCHANGED <<vars, provided, expired, rowRun, rowKind, preview, pc, targets, slips>>

DiscardFails(w, s) ==
    /\ pc[w] \in {"abort", "close"}
    /\ s \in {gen[w], ver[w]} \ {NoSandbox}
    /\ Slip
    /\ Release(w, s)
    /\ UNCHANGED alive \/ alive' = alive \ {s}
    /\ UNCHANGED <<vars, provided, expired, rows, refs, pc, targets>>

(* A sandbox that could not be adopted is killed, but this task never      *)
(* learnt its row: acknowledging it is left to the sweep.                  *)
Disown(w) ==
    /\ pc[w] = "disown"
    /\ UNCHANGED alive \/ alive' = alive \ {gen[w]}
    /\ gen' = [gen EXCEPT ![w] = NoSandbox]
    /\ Goto(w, "close")
    /\ UNCHANGED <<vars, provided, expired, rows, refs, ver, targets, slips>>

(* V is gone and the preview cleared before the run ends; a run that needs *)
(* attention ends before its G is discarded.                               *)
End(w) ==
    /\ \/ /\ pc[w] = "abort"
          /\ ver[w] = NoSandbox
          /\ ~preview[taskRun[w]]
          /\ \/ gen[w] = NoSandbox /\ MarkTerminal(w, "failed")
             \/ MarkTerminal(w, "needs_attention")
          /\ Goto(w, "close")
       \/ /\ pc[w] = "unavailable"
          /\ MarkTerminal(w, "needs_attention")
          /\ Goto(w, "disown")
    /\ UNCHANGED <<provider, rows, refs, gen, ver, targets, slips>>

(* The task is over when its last discard returned, or earlier when the    *)
(* heartbeat's cancellation arrives inside the finally block.              *)
Leave(w) ==
    /\ pc[w] = "close"
    /\ LeaveTask(w)
    /\ Goto(w, "idle")
    /\ gen' = [gen EXCEPT ![w] = NoSandbox]
    /\ ver' = [ver EXCEPT ![w] = NoSandbox]
    /\ UNCHANGED <<provider, rows, refs, targets, slips>>

(* The process starts over: it crashed, or its claim met the index.        *)
Crash(w) ==
    /\ CrashWorker(w) \/ ClaimRefused(w)
    /\ Goto(w, "idle")
    /\ gen' = [gen EXCEPT ![w] = NoSandbox]
    /\ ver' = [ver EXCEPT ![w] = NoSandbox]
    /\ targets' = [targets EXCEPT ![w] = {}]
    /\ UNCHANGED <<provider, rows, refs, slips>>

-----------------------------------------------------------------------------
(* The provider and the preview gateway.                                   *)

SandboxExpires(s) ==
    /\ s \in alive
    /\ alive' = alive \ {s}
    /\ expired' = expired \cup {s}
    /\ UNCHANGED <<vars, provided, rows, refs, hands, targets, slips>>

MutantExpireFailsRun(s) ==
    LET r == rowRun[s]
    IN  /\ s \in 1 .. provided \ (alive \cup cleaned)
        /\ r # NoRun
        /\ IsVerifiedPreview(r, s)
        /\ preview' = [preview EXCEPT ![r] = FALSE]
        /\ cleaned' = cleaned \cup {s}
        /\ status' = [status EXCEPT ![r] = "failed"]
        /\ UNCHANGED <<created, cancelRequested, baseVersion, lease, goals, project,
                       published, dialogue, tasks, faults>>
        /\ UNCHANGED <<provider, rowRun, rowKind, sandboxId, hands, targets, slips>>

(* The gateway converges a preview the provider confirmed gone.            *)
ExpireVerifiedPreview(s) ==
    LET r == rowRun[s]
    IN  /\ s \in 1 .. provided \ (alive \cup cleaned)
        /\ r # NoRun
        /\ IsVerifiedPreview(r, s)
        /\ preview' = [preview EXCEPT ![r] = FALSE]
        /\ cleaned' = cleaned \cup {s}
        /\ UNCHANGED <<vars, provider, rowRun, rowKind, sandboxId, hands, targets, slips>>

-----------------------------------------------------------------------------

Idle(w) ==
    \/ \E r \in Runs, intact \in BOOLEAN : RecoverExpired(w, r, intact)
    \/ ListTargets(w)
    \/ \E t \in targets[w] : DestroyStale(w, t) \/ DestroyStaleFails(w, t)
    \/ \E candidates \in SUBSET Runs : SelectRuns(w, candidates)
    \/ \E r \in Runs, token \in Tokens : ClaimRun(w, r, token)
    \/ NothingToClaim(w)

Work(w) ==
    \/ Escape(w) \/ Adopt(w)
    \/ CreateGeneration(w) \/ RegisterGeneration(w) \/ AttachGeneration(w)
    \/ TurnInG(w) \/ Ask(w)
    \/ CreateVerification(w) \/ RegisterVerification(w) \/ AttachVerification(w)
    \/ StartPreview(w) \/ Pass(w) \/ RetireVerification(w)
    \/ ForgetPreview(w) \/ ReturnToG(w) \/ Publish(w)

Exit(w) ==
    \/ Preserve(w) \/ Keep(w) \/ HeartbeatStrikes(w) \/ LoseLease(w)
    \/ Abort(w) \/ CloseGoals(w) \/ ClearPreview(w)
    \/ \E s \in Sandboxes : Discard(w, s) \/ DiscardFails(w, s)
    \/ Disown(w) \/ End(w) \/ Leave(w)

Environment ==
    \/ Request /\ UNCHANGED custody
    \/ \E r \in Runs : LeaseExpires(r) /\ UNCHANGED custody
    \/ \E w \in Workers : Crash(w)
    \/ \E s \in Sandboxes : SandboxExpires(s) \/ ExpireVerifiedPreview(s)

CustodyNext ==
    \/ \E w \in Workers : Idle(w) \/ Work(w) \/ Exit(w)
    \/ Environment

CustodySpec == CustodyInit /\ [][CustodyNext]_custodyVars

(* Idle workers poll, every turn, verification and exit handler finishes,  *)
(* and a lease nobody renews runs out.                                     *)
CustodyFairness ==
    /\ \A w \in Workers :
          /\ WF_custodyVars(Idle(w))
          /\ WF_custodyVars(Work(w) \/ Exit(w))
    /\ \A r \in Runs : WF_custodyVars(LeaseExpires(r) /\ UNCHANGED custody)

FairCustodySpec == CustodySpec /\ CustodyFairness

-----------------------------------------------------------------------------
(* Safety.                                                                 *)

(* Rows, references and the hands of the tasks keep their types.           *)
CustodyTypeOK ==
    /\ provided \in 0 .. MaxSandboxes
    /\ alive \subseteq Sandboxes
    /\ expired \subseteq Sandboxes
    /\ rowRun \in [Sandboxes -> 0 .. MaxRuns]
    /\ rowKind \in [Sandboxes -> Kinds]
    /\ cleaned \subseteq Sandboxes
    /\ sandboxId \in [Runs -> 0 .. MaxSandboxes]
    /\ preview \in [Runs -> BOOLEAN]
    /\ pc \in [Workers -> Phases]
    /\ gen \in [Workers -> 0 .. MaxSandboxes]
    /\ ver \in [Workers -> 0 .. MaxSandboxes]
    /\ targets \in [Workers -> SUBSET Target]
    /\ slips \in 0 .. MaxSlips

(* A row is marked cleaned only after the provider confirmed the end of its*)
(* sandbox: the fence on the next claim never opens on a live sandbox.     *)
CleanedMeansGone == cleaned \cap alive = {}

(* The purpose of the resource fence: whoever works on a run holds every   *)
(* sandbox registered for it, so no sandbox of an earlier attempt, stalled,*)
(* crashed or half cleaned, is left beside the one being written.          *)
WriterHoldsEveryResource ==
    \A w \in Workers :
        Working(w) /\ pc[w] \in Acting =>
            LiveResources(taskRun[w]) \subseteq {gen[w], ver[w]}

(* A run waits, or is queued with a continuation, without a sandbox        *)
(* reference exactly when lease recovery requeued it: no sweep, discard or *)
(* stale task clears the reference an answer will need.                    *)
DetachedIffSandboxForgotten ==
    \A r \in Runs :
        status[r] \in {"queued", "waiting_for_user"} /\ continuation[r] # "none" =>
            (continuation[r] = "detached" <=> sandboxId[r] = NoSandbox)

(* What the rows and references of a run agree on, whatever transaction, kill,*)
(* stall or sweep came last (_run_for_write guards most, not all, of them).*)
CustodyInvariant == CustodyTypeOK /\ DetachedIffSandboxForgotten

-----------------------------------------------------------------------------
(* Action properties.                                                      *)

(* Neither recovery nor the sweep, whose targets were listed before the    *)
(* run moved on, destroys a sandbox that is kept for an answer, published, *)
(* or held by the task that passes the write fence.                        *)
SweepSparesLiveWork ==
    [][\A w \in Workers, s \in alive \ alive' :
          pc[w] = "sweep" /\ targets'[w] # targets[w] =>
            /\ \A r \in Runs :
                  /\ ~(AwaitsContinuation(r, s) /\ sandboxId[r] = s)
                  /\ ~IsVerifiedPreview(r, s)
            /\ \A v \in Workers :
                  Working(v) /\ pc[v] \in Acting => s \notin {gen[v], ver[v]}]_custodyVars

(* Struck between the commit of its publication and its Keep, a task has   *)
(* nothing left that tells its exit handlers to spare V.                   *)
StruckAfterPublishing(w, r) == taskRun[w] = r /\ pc[w] = "close" /\ ver[w] = sandboxId[r]

(* The preview a successful run advertises is its own registered V, and no *)
(* sweep with an old list, stale task or exit handler kills, acknowledges  *)
(* or forgets that V while it is advertised: it ends by its lifetime, or by*)
(* the hands of the very task that published it, when that was struck too  *)
(* early.  The exception is what PublishedPreviewSurvives complains of.    *)
PublishedPreviewIsKept ==
    /\ [](\A r \in Runs :
            status[r] = "succeeded" /\ preview[r] =>
                /\ sandboxId[r] # NoSandbox
                /\ rowRun[sandboxId[r]] = r
                /\ rowKind[sandboxId[r]] = "verification")
    /\ [][\A r \in Runs :
            LET s == sandboxId[r]
            IN  /\ status[r] = "succeeded" /\ preview[r] /\ preview'[r]
                /\ s \in alive \ alive' \/ s \in cleaned' \ cleaned \/ sandboxId'[r] # s
                => \/ s \in expired' \ expired
                   \/ \E w \in Workers : StruckAfterPublishing(w, r)]_custodyVars

-----------------------------------------------------------------------------
(* Liveness, under FairCustodySpec.                                        *)

(* Whatever crashed, stalled or failed once, the registered sandboxes of an*)
(* unsuccessful run are destroyed and acknowledged in the end.             *)
EndedRunIsReclaimed ==
    \A r \in Runs, s \in Sandboxes :
        status[r] \in Recoverable /\ s \in LiveResources(r) ~> s \in cleaned

-----------------------------------------------------------------------------
(* Statements of the code's own texts that it does not keep.               *)

(* "Preserve G exactly as-is": while the user is asked, the sandbox of the *)
(* question ends by its provider lifetime at the earliest.                 *)
AwaitedSandboxSurvives ==
    \A r \in Runs :
        status[r] = "waiting_for_user" => sandboxId[r] \in alive \cup expired

(* "Retain it until the preview is invalidated": the V of an advertised    *)
(* preview ends by its provider lifetime at the earliest.                  *)
PublishedPreviewSurvives ==
    \A r \in Runs :
        status[r] = "succeeded" /\ preview[r] => sandboxId[r] \in alive \cup expired

(* "registered resources fence the next claim until cleanup is             *)
(* acknowledged": what fences a queued run is on a cleanup list.           *)
FencingResourcesAreSwept ==
    \A r \in Runs, s \in Sandboxes :
        /\ status[r] = "queued"
        /\ s \in LiveResources(r)
        /\ ~ResumableContinuation(r)
        => \/ TargetOf(r, s, TRUE) \in ListSandboxCleanupTargets
           \/ \E w \in Workers : TargetOf(r, s, TRUE) \in targets[w]
=============================================================================
