----------------------------- MODULE WorkerGate -----------------------------
(***************************************************************************)
(* The worker's loop in front of a run: the hint that a run may be claimed,*)
(* the paid preflight of the runtime with its cached success and its       *)
(* doubling backoff, and the claim itself, statement by statement, as READ *)
(* COMMITTED lets two workers interleave it.                               *)
(*                                                                         *)
(* Runs are numbered in the order of created_at.  RunControl takes a claim *)
(* in two steps, here it is the select that locks, the count, the write    *)
(* that may block on another one and the commit.  Time is counted in ticks.*)
(***************************************************************************)
EXTENDS Integers, FiniteSets

CONSTANTS Workers,
          Runs,          \* a set of numbers
          Project,       \* the project of every run
          SuccessTTL,    \* _PREFLIGHT_SUCCESS_TTL_SECONDS
          RetryBase,     \* _PREFLIGHT_RETRY_BASE_SECONDS
          RetryMax,      \* _PREFLIGHT_RETRY_MAX_SECONDS
          MaxFaults,     \* failures of the runtime and of worker processes
          MaxQuestions,  \* questions the agents ask
          None

ASSUME WorkerGateAssumption ==
    /\ Runs \subseteq Nat /\ IsFiniteSet(Runs)
    /\ DOMAIN Project = Runs
    /\ SuccessTTL \in Nat \ {0}
    /\ RetryBase \in Nat \ {0} /\ RetryMax \in Nat /\ RetryBase <= RetryMax
    /\ {MaxFaults, MaxQuestions} \subseteq Nat

VARIABLES
    status,    \* RunRecord.status; "expired" is running with an expired lease
    lockedBy,  \* the transaction that holds the row FOR UPDATE
    worker,    \* process, gate and preflight of every worker
    faults, questions

vars == <<status, lockedBy, worker, faults, questions>>

ProbeSteps == {"create", "aliases", "issue", "probe", "block", "kill"}

(* A process starts with no success to its name and no backoff.            *)
FreshWorker ==
    [pc |-> "idle", run |-> None,
     readyFor |-> 0,          \* ticks until _preflight_ready_until
     waitFor |-> 0,           \* ticks until _preflight_next_attempt_at
     retry |-> RetryBase,     \* _preflight_retry_seconds
     owed |-> {},             \* what the preflight made and has not given back
     failed |-> {},           \* history: steps of the last preflight that failed
     stopping |-> FALSE]      \* a cancellation is deferred

Init ==
    /\ status = [r \in Runs |-> "absent"]
    /\ lockedBy = [r \in Runs |-> None]
    /\ worker = [w \in Workers |-> FreshWorker]
    /\ faults = 0 /\ questions = 0

-----------------------------------------------------------------------------
(* Helpers.                                                                *)

At(w, pc) == worker[w].pc = pc

Goto(w, pc) == worker' = [worker EXCEPT ![w].pc = pc]

Fault == faults < MaxFaults /\ faults' = faults + 1

SameProject(r, q) == Project[r] = Project[q]

Running(r) == status[r] \in {"running", "expired"}

(* The other runs that the filter of a claim counts as writers.            *)
ActiveWriters(r) ==
    {q \in Runs \ {r} : SameProject(r, q) /\ (Running(q) \/ status[q] = "waiting")}

Held(w) == {r \in Runs : lockedBy[r] = w}

Released(w) == [r \in Runs |-> IF lockedBy[r] = w THEN None ELSE lockedBy[r]]

Oldest(S) == CHOOSE r \in S : \A q \in S : r <= q

-----------------------------------------------------------------------------
(* The loop.                                                               *)

(* recover_expired_running_runs: the run is queued again or ends.          *)
Recover(w) ==
    /\ At(w, "idle")
    /\ Goto(w, "hint")
    /\ \E outcome \in {"queued", "ended"} :
           status' = [r \in Runs |-> IF status[r] = "expired" THEN outcome
                                                            ELSE status[r]]
    /\ UNCHANGED <<lockedBy, faults, questions>>

HasClaimableRun == \E r \in Runs : status[r] = "queued" /\ ActiveWriters(r) = {}

MutantSlidingBackoff(w) ==
    worker' = [worker EXCEPT ![w].pc = "idle",
                             ![w].waitFor = IF @ > 0 THEN worker[w].retry ELSE 0]

(* Nothing to claim, or the backoff is not over: run_once returns False.   *)
Refused(w) == Goto(w, "idle")

(* has_claimable_run, then _ensure_runtime_ready: a cached success, a      *)
(* backoff that refuses, or a new attempt.                                 *)
Hint(w) ==
    LET readyFor == worker[w].readyFor
        waitFor == worker[w].waitFor
    IN  /\ At(w, "hint")
        /\ \/ /\ HasClaimableRun /\ readyFor > 0
              /\ Goto(w, "select")
           \/ /\ HasClaimableRun /\ readyFor = 0 /\ waitFor = 0
              /\ worker' = [worker EXCEPT ![w].pc = "create", ![w].failed = {}]
           \/ /\ HasClaimableRun => readyFor = 0 /\ waitFor > 0
              /\ Refused(w)
        /\ UNCHANGED <<status, lockedBy, faults, questions>>

-----------------------------------------------------------------------------
(* The preflight: a temporary sandbox, the gateway's aliases, a virtual    *)
(* key, the probe in the sandbox; then the key is blocked and the sandbox  *)
(* killed, whatever happened.                                              *)

Made(step) ==
    CASE step = "create" -> {"sandbox"}
      [] step = "issue"  -> {"key"}
      [] OTHER           -> {}

GivenBack(step) ==
    CASE step = "block" -> {"key"}
      [] step = "kill"  -> {"sandbox"}
      [] OTHER          -> {}

Following(step) ==
    CASE step = "create"  -> "aliases"
      [] step = "aliases" -> "issue"
      [] step = "issue"   -> "probe"
      [] step = "probe"   -> "block"
      [] step = "block"   -> "kill"
      [] step = "kill"    -> "settle"

MutantStraightToKill(step) ==
    CASE step \in {"create", "kill"}             -> "settle"
      [] step \in {"aliases", "issue", "probe", "block"} -> "kill"

(* Where a failure or a cancellation of a step continues: the finally of   *)
(* the gateway blocks an issued key, the preflight kills a made sandbox.   *)
Unwinding(step) ==
    CASE step \in {"create", "kill"}             -> "settle"
      [] step \in {"aliases", "issue", "block"}  -> "kill"
      [] step = "probe"                          -> "block"

StepSucceeds(w) ==
    LET step == worker[w].pc
    IN  /\ step \in ProbeSteps
        /\ worker' = [worker EXCEPT ![w].pc = Following(step),
                                    ![w].owed = (@ \cup Made(step)) \ GivenBack(step)]
        /\ UNCHANGED <<status, lockedBy, faults, questions>>

(* Revocation is tried three times and the kill is bounded in time; what   *)
(* either leaves behind ends with its own lifetime.                        *)
StepFails(w) ==
    LET step == worker[w].pc
    IN  /\ step \in ProbeSteps
        /\ Fault
        /\ worker' = [worker EXCEPT ![w].pc = Unwinding(step),
                                    ![w].owed = @ \ GivenBack(step),
                                    ![w].failed = @ \cup {step}]
        /\ UNCHANGED <<status, lockedBy, questions>>

MutantUncapped(retry) == 2 * retry

Doubled(retry) == IF 2 * retry < RetryMax THEN 2 * retry ELSE RetryMax

MutantOutcome(w) ==
    IF worker[w].failed \ {"block", "kill"} = {}
    THEN [worker[w] EXCEPT !.pc = "select", !.readyFor = SuccessTTL,
                           !.waitFor = 0, !.retry = RetryBase]
    ELSE [worker[w] EXCEPT !.pc = "idle", !.readyFor = 0, !.waitFor = worker[w].retry,
                           !.retry = Doubled(@)]

(* A preflight has passed only if no step of it failed, the two that clean *)
(* up included.                                                            *)
Outcome(w) ==
    IF worker[w].failed = {}
    THEN [worker[w] EXCEPT !.pc = "select", !.readyFor = SuccessTTL,
                           !.waitFor = 0, !.retry = RetryBase]
    ELSE [worker[w] EXCEPT !.pc = "idle", !.readyFor = 0, !.waitFor = worker[w].retry,
                           !.retry = Doubled(@)]

Settle(w) ==
    /\ At(w, "settle")
    /\ worker' = [worker EXCEPT ![w] = IF worker[w].stopping
                                       THEN [FreshWorker EXCEPT !.pc = "dead"]
                                       ELSE Outcome(w)]
    /\ UNCHANGED <<status, lockedBy, faults, questions>>

-----------------------------------------------------------------------------
(* claim_next_run, one transaction of four statements.                     *)

(* SELECT ... FOR UPDATE SKIP LOCKED                                       *)
Select(w) ==
    LET candidates == {r \in Runs : status[r] = "queued" /\ lockedBy[r] = None}
    IN  /\ At(w, "select")
        /\ lockedBy' = [r \in Runs |-> IF r \in candidates THEN w ELSE lockedBy[r]]
        /\ Goto(w, IF candidates = {} THEN "idle" ELSE "count")
        /\ UNCHANGED <<status, faults, questions>>

(* The first candidate whose project has no other writer, as committed.    *)
Count(w) ==
    LET free == {r \in Held(w) : ActiveWriters(r) = {}}
    IN  /\ At(w, "count")
        /\ IF free = {}
           THEN /\ Goto(w, "idle")
                /\ lockedBy' = Released(w)
           ELSE /\ worker' = [worker EXCEPT ![w].pc = "write", ![w].run = Oldest(free)]
                /\ UNCHANGED lockedBy
        /\ UNCHANGED <<status, faults, questions>>

(* uq_runs_one_running_writer_per_project: it knows running runs only, and *)
(* waits for a transaction that has written another.                       *)
MutantNoIndex(w) ==
    /\ Goto(w, "commit")
    /\ UNCHANGED lockedBy

WriteUnderIndex(w) ==
    LET r == worker[w].run
        written == {v \in Workers \ {w} : At(v, "commit") /\ SameProject(worker[v].run, r)}
        conflict == \E q \in Runs \ {r} : SameProject(r, q) /\ Running(q)
    IN  /\ written = {}
        /\ IF conflict
           THEN /\ worker' = [worker EXCEPT ![w] = [FreshWorker EXCEPT !.pc = "dead"]]
                /\ lockedBy' = Released(w)
           ELSE /\ Goto(w, "commit")
                /\ UNCHANGED lockedBy

(* run_forever catches nothing: a refused write ends the process.          *)
Write(w) ==
    /\ At(w, "write")
    /\ WriteUnderIndex(w)
    /\ UNCHANGED <<status, faults, questions>>

Commit(w) ==
    /\ At(w, "commit")
    /\ status' = [status EXCEPT ![worker[w].run] = "running"]
    /\ lockedBy' = Released(w)
    /\ Goto(w, "task")
    /\ UNCHANGED <<faults, questions>>

-----------------------------------------------------------------------------
(* The task, and what the users, the clock and the operators do.           *)

Executed(r) == \E w \in Workers : At(w, "task") /\ worker[w].run = r

(* run_once returns when its task is over.                                 *)
EndTask(w) ==
    /\ At(w, "task")
    /\ worker' = [worker EXCEPT ![w].pc = "idle", ![w].run = None]
    /\ \/ /\ status' = [status EXCEPT ![worker[w].run] = "ended"]
          /\ UNCHANGED questions
       \/ /\ questions < MaxQuestions
          /\ questions' = questions + 1
          /\ status' = [status EXCEPT ![worker[w].run] = "waiting"]
    /\ UNCHANGED <<lockedBy, faults>>

(* The user answers, or cancels.                                           *)
LeaveWaiting(r) ==
    /\ status[r] = "waiting"
    /\ \E next \in {"queued", "ended"} : status' = [status EXCEPT ![r] = next]
    /\ UNCHANGED <<lockedBy, worker, faults, questions>>

(* A new run is refused only while the project waits for an answer.        *)
CreateRun(r) ==
    /\ status[r] = "absent"
    /\ \A q \in Runs : q < r => status[q] # "absent"
    /\ \A q \in Runs : SameProject(r, q) => status[q] # "waiting"
    /\ status' = [status EXCEPT ![r] = "queued"]
    /\ UNCHANGED <<lockedBy, worker, faults, questions>>

LeaseExpires(r) ==
    /\ status[r] = "running"
    /\ ~Executed(r)
    /\ status' = [status EXCEPT ![r] = "expired"]
    /\ UNCHANGED <<lockedBy, worker, faults, questions>>

(* Cancellation of the process: before the cleanup it unwinds, in the      *)
(* cleanup it is deferred until that is done.                              *)
Unwound(w) ==
    LET step == worker[w].pc
    IN  worker' = [worker EXCEPT
                      ![w] = IF step \in ProbeSteps
                             THEN [@ EXCEPT !.stopping = TRUE,
                                            !.pc = IF step \in {"block", "kill"} THEN step
                                                   ELSE Unwinding(step)]
                             ELSE [FreshWorker EXCEPT !.pc = "dead"]]

Stop(w) ==
    /\ ~At(w, "dead") /\ ~worker[w].stopping /\ ~At(w, "settle")
    /\ Fault
    /\ Unwound(w)
    /\ lockedBy' = Released(w)
    /\ UNCHANGED <<status, questions>>

(* The process is killed: its sandbox and key end with their lifetimes.    *)
Crash(w) ==
    /\ ~At(w, "dead")
    /\ Fault
    /\ worker' = [worker EXCEPT ![w] = [FreshWorker EXCEPT !.pc = "dead"]]
    /\ lockedBy' = Released(w)
    /\ UNCHANGED <<status, questions>>

(* restart: unless-stopped                                                 *)
Restart(w) ==
    /\ At(w, "dead")
    /\ worker' = [worker EXCEPT ![w] = [FreshWorker EXCEPT !.owed = worker[w].owed]]
    /\ UNCHANGED <<status, lockedBy, faults, questions>>

Less(n) == IF n > 0 THEN n - 1 ELSE 0

Tick ==
    /\ \E w \in Workers : worker[w].readyFor > 0 \/ worker[w].waitFor > 0
    /\ worker' = [w \in Workers |-> [worker[w] EXCEPT !.readyFor = Less(@),
                                                      !.waitFor = Less(@)]]
    /\ UNCHANGED <<status, lockedBy, faults, questions>>

-----------------------------------------------------------------------------

Step(w) ==
    \/ Recover(w) \/ Hint(w) \/ Settle(w)
    \/ Select(w) \/ Count(w) \/ Write(w) \/ Commit(w) \/ EndTask(w)
    \/ StepSucceeds(w) \/ StepFails(w)

Next ==
    \/ \E w \in Workers : Step(w) \/ Stop(w) \/ Crash(w) \/ Restart(w)
    \/ \E r \in Runs : CreateRun(r) \/ LeaveWaiting(r) \/ LeaseExpires(r)
    \/ Tick

Spec == Init /\ [][Next]_vars

(* Processes run and are restarted, leases expire, clocks advance.  Nobody *)
(* has to create a run, answer a question, fail or stop.                   *)
Fairness ==
    /\ \A w \in Workers : WF_vars(Step(w)) /\ WF_vars(Restart(w))
    /\ \A r \in Runs : WF_vars(LeaseExpires(r))
    /\ WF_vars(Tick)

FairSpec == Spec /\ Fairness

-----------------------------------------------------------------------------
(* Properties.                                                             *)

GateTypeOK ==
    /\ status \in [Runs -> {"absent", "queued", "running", "expired", "waiting", "ended"}]
    /\ lockedBy \in [Runs -> Workers \cup {None}]
    /\ \A w \in Workers :
           /\ worker[w].pc \in {"idle", "hint", "settle", "select", "count", "write",
                                "commit", "task", "dead"} \cup ProbeSteps
           /\ worker[w].run \in Runs \cup {None}
           /\ worker[w].readyFor \in 0 .. SuccessTTL
           /\ worker[w].waitFor \in 0 .. RetryMax
           /\ worker[w].retry \in RetryBase .. RetryMax
    /\ faults \in 0 .. MaxFaults /\ questions \in 0 .. MaxQuestions

(* claim_next_run: two runs of a project never run together, although both *)
(* claims may have counted no other writer.                                *)
OneRunningWriter ==
    \A r, q \in Runs : r # q /\ SameProject(r, q) => ~(Running(r) /\ Running(q))

(* DirectPiRuntimePreflight: however a preflight ends, by a failure of any *)
(* step or a cancellation during any, it has tried to give back the key    *)
(* and the sandbox it made.                                                *)
ProbeGivesBack ==
    \A w \in Workers : worker[w].pc \notin ProbeSteps => worker[w].owed = {}

(* A worker never claims on the strength of a preflight that failed in     *)
(* part, be it only in taking back the probe's key or sandbox.             *)
ReadyIsProven ==
    \A w \in Workers : worker[w].readyFor > 0 => worker[w].failed = {}

(* Whatever step of the preflight failed or was cancelled: the backoff keeps*)
(* its bounds, nothing is left behind and no success is taken for granted. *)
PreflightIsClean == GateTypeOK /\ ProbeGivesBack /\ ReadyIsProven

(* A queued run is taken up, whatever the backoff and the refused claims,  *)
(* unless its project waits for the user.                                  *)
QueuedRunIsTaken ==
    \A r \in Runs :
        status[r] = "queued" ~>
            \/ status[r] # "queued"
            \/ \E q \in Runs : SameProject(r, q) /\ status[q] = "waiting"

(* "Claim one queued run without allowing two writers for a project"       *)
(* (repository.py:2900); a waiting run is a writer for that claim.         *)
NoTwoWriters ==
    \A r \in Runs : Running(r) => ActiveWriters(r) = {}
=============================================================================
