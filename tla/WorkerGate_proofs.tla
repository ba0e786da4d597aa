-------------------------- MODULE WorkerGate_proofs --------------------------
(***************************************************************************)
(* Proofs about the worker's loop, for every number of workers, runs and   *)
(* projects and every setting of the preflight: a preflight leaves nothing *)
(* behind and its success is never taken for granted, and the claims of    *)
(* workers that interleave statement by statement never run two runs of a  *)
(* project together.                                                       *)
(***************************************************************************)
EXTENDS WorkerGate, WellFoundedInduction, NaturalsInduction, TLAPS

-----------------------------------------------------------------------------
(* The preflight.                                                          *)

WorkerState ==
    [pc : {"idle", "hint", "settle", "select", "count", "write", "commit", "task", "dead"}
              \cup ProbeSteps,
     run : Runs \cup {None},
     readyFor : 0 .. SuccessTTL,
     waitFor : 0 .. RetryMax,
     retry : RetryBase .. RetryMax,
     owed : SUBSET {"sandbox", "key"},
     failed : SUBSET ProbeSteps,
     stopping : BOOLEAN]

(* What a preflight may still have to give back in each of its steps.      *)
OwedAt(step) ==
    IF step \in {"aliases", "issue", "kill"} THEN {"sandbox"}
    ELSE IF step \in {"probe", "block"} THEN {"sandbox", "key"}
    ELSE {}

(* A preflight is under way only without a cached success, owes no more    *)
(* than the steps it has passed have made, and a worker that has chosen a  *)
(* run keeps it to the end of its task.                                    *)
InOrder(x) ==
    /\ x \in WorkerState
    /\ x.owed \subseteq OwedAt(x.pc)
    /\ x.pc \in ProbeSteps \cup {"settle"} => x.readyFor = 0
    /\ x.readyFor > 0 => x.failed = {}
    /\ x.pc \in {"write", "commit", "task"} => x.run \in Runs

GateInv ==
    /\ status \in [Runs -> {"absent", "queued", "running", "expired", "waiting", "ended"}]
    /\ lockedBy \in [Runs -> Workers \cup {None}]
    /\ worker \in [Workers -> WorkerState]
    /\ \A w \in Workers : InOrder(worker[w])
    /\ faults \in 0 .. MaxFaults /\ questions \in 0 .. MaxQuestions

(* The index uq_runs_one_running_writer_per_project at work: a transaction *)
(* that has written its run has no rival in its project, neither a run that*)
(* runs nor another transaction that has written one.                      *)
IndexInv ==
    /\ OneRunningWriter
    /\ \A w \in Workers : At(w, "commit") =>
          \A q \in Runs \ {worker[w].run} : SameProject(worker[w].run, q) => ~Running(q)
    /\ \A v, w \in Workers : v # w /\ At(v, "commit") /\ At(w, "commit") =>
          ~SameProject(worker[v].run, worker[w].run)

GateIInv == GateInv /\ IndexInv

(* A step of one worker keeps the others in order.                         *)
LEMMA OneWorkerMoves ==
    ASSUME GateInv, NEW w \in Workers, NEW x, InOrder(x), worker' = [worker EXCEPT ![w] = x]
    PROVE  worker' \in [Workers -> WorkerState] /\ \A v \in Workers : InOrder(worker'[v])
BY DEF GateInv, InOrder

(* The run a claim takes is one of those it counted as free.               *)
LEMMA OldestIsMember ==
    ASSUME NEW S \in SUBSET Runs, S # {}
    PROVE  Oldest(S) \in S
<1>1. \E r \in S : \A q \in S : ~(<<q, r>> \in OpToRel(<, Nat))
  BY NatLessThanWellFounded, WFMin, WorkerGateAssumption
<1>2. PICK r \in S : \A q \in S : ~(<<q, r>> \in OpToRel(<, Nat))
  BY <1>1
<1>3. \A q \in S : q \in Nat /\ r \in Nat /\ ~(q < r)
  BY <1>2, WorkerGateAssumption DEF OpToRel
<1>4. \A q \in S : r <= q
  BY <1>3
<1> QED
  BY <1>4 DEF Oldest

(* A process that starts, or has ended, is in order.                       *)
LEMMA FreshIsInOrder ==
    ASSUME NEW x,
           x \in {FreshWorker, [FreshWorker EXCEPT !.pc = "dead"], [FreshWorker EXCEPT !.owed = {}]}
    PROVE  InOrder(x)
<1>1. FreshWorker \in WorkerState
  BY WorkerGateAssumption DEF FreshWorker, WorkerState
<1>2. x \in WorkerState /\ x.pc \in {"idle", "dead"} /\ x.owed = {} /\ x.readyFor = 0
  <2>1. FreshWorker.owed = {} /\ FreshWorker.readyFor = 0 /\ FreshWorker.pc = "idle"
    BY DEF FreshWorker
  <2> QED
    BY <1>1, <2>1 DEF WorkerState
<1> QED
  BY <1>2 DEF InOrder, OwedAt, ProbeSteps

(* Every step of the preflight, successful, failed or cancelled, goes on   *)
(* where the rest of what it made is given back.                           *)
LEMMA PreflightStep ==
    ASSUME NEW y, InOrder(y), y.pc \in ProbeSteps,
           NEW x, NEW pc, NEW owed, NEW failed \in SUBSET ProbeSteps, NEW stopping \in BOOLEAN,
           \/ pc = Following(y.pc) /\ owed = (y.owed \cup Made(y.pc)) \ GivenBack(y.pc)
           \/ pc = Unwinding(y.pc) /\ owed = y.owed \ GivenBack(y.pc),
           x = [y EXCEPT !.pc = pc, !.owed = owed, !.failed = failed, !.stopping = stopping]
    PROVE  InOrder(x)
<1>1. pc \in ProbeSteps \cup {"settle"}
  BY DEF ProbeSteps, Following, Unwinding
<1>2. owed \subseteq OwedAt(pc) /\ owed \subseteq {"sandbox", "key"}
  BY DEF InOrder, OwedAt, ProbeSteps, Following, Unwinding, Made, GivenBack
<1>3. y \in WorkerState /\ y.readyFor = 0
  BY DEF InOrder
<1>4. x \in WorkerState /\ x.pc = pc /\ x.owed = owed /\ x.readyFor = 0
  BY <1>1, <1>2, <1>3 DEF WorkerState
<1> QED
  BY <1>1, <1>2, <1>4 DEF InOrder, ProbeSteps

(* The loop around the claim moves one worker at a time, and between the   *)
(* steps of a claim it carries the run it has chosen.                      *)
LEMMA LoopStep ==
    ASSUME NEW y, InOrder(y), y.pc \notin ProbeSteps, NEW x,
           \/ \E pc \in {"idle", "hint", "select", "count"} : x = [y EXCEPT !.pc = pc]
           \/ \E pc \in {"commit", "task"} : y.run \in Runs /\ x = [y EXCEPT !.pc = pc]
           \/ y.readyFor = 0 /\ x = [y EXCEPT !.pc = "create", !.failed = {}]
           \/ \E r \in Runs : x = [y EXCEPT !.pc = "write", !.run = r]
           \/ x = [y EXCEPT !.pc = "idle", !.run = None]
    PROVE  InOrder(x)
<1>1. y \in WorkerState /\ y.owed = {}
  BY DEF InOrder, OwedAt, ProbeSteps
<1>2. CASE \E pc \in {"idle", "hint", "select", "count"} : x = [y EXCEPT !.pc = pc]
  BY <1>1, <1>2 DEF InOrder, WorkerState, OwedAt, ProbeSteps
<1>3. CASE \E pc \in {"commit", "task"} : y.run \in Runs /\ x = [y EXCEPT !.pc = pc]
  BY <1>1, <1>3 DEF InOrder, WorkerState, OwedAt, ProbeSteps
<1>4. CASE y.readyFor = 0 /\ x = [y EXCEPT !.pc = "create", !.failed = {}]
  BY <1>1, <1>4 DEF InOrder, WorkerState, OwedAt, ProbeSteps
<1>5. CASE \E r \in Runs : x = [y EXCEPT !.pc = "write", !.run = r]
  BY <1>1, <1>5 DEF InOrder, WorkerState, OwedAt, ProbeSteps
<1>6. CASE x = [y EXCEPT !.pc = "idle", !.run = None]
  BY <1>1, <1>6 DEF InOrder, WorkerState, OwedAt, ProbeSteps
<1> QED
  BY <1>2, <1>3, <1>4, <1>5, <1>6

(* The end of a preflight: a cached success only if no step of it failed,  *)
(* else a backoff within its bounds.                                       *)
LEMMA OutcomeIsInOrder ==
    ASSUME GateInv, NEW w \in Workers, At(w, "settle"), NEW x, x = Outcome(w)
    PROVE  InOrder(x)
<1> DEFINE y == worker[w]
<1>1. y \in WorkerState /\ y.owed = {}
  BY DEF GateInv, InOrder, OwedAt, At
<1>2. y.retry \in RetryBase .. RetryMax /\ y.retry \in 0 .. RetryMax
  BY <1>1, WorkerGateAssumption DEF WorkerState
<1>3. Doubled(y.retry) \in RetryBase .. RetryMax
  BY <1>2, WorkerGateAssumption DEF Doubled
<1>4. SuccessTTL \in 0 .. SuccessTTL /\ 0 \in 0 .. SuccessTTL /\ 0 \in 0 .. RetryMax
      /\ RetryBase \in RetryBase .. RetryMax
  BY WorkerGateAssumption
<1>5. CASE y.failed = {}
  <2>1. x = [y EXCEPT !.pc = "select", !.readyFor = SuccessTTL, !.waitFor = 0, !.retry = RetryBase]
    BY <1>5 DEF Outcome
  <2>2. x \in WorkerState /\ x.pc = "select" /\ x.owed = {} /\ x.failed = {}
    BY <1>1, <1>4, <1>5, <2>1 DEF WorkerState
  <2> QED
    BY <2>2 DEF InOrder, ProbeSteps, OwedAt
<1>6. CASE y.failed # {}
  <2>1. x = [y EXCEPT !.pc = "idle", !.readyFor = 0, !.waitFor = y.retry, !.retry = Doubled(y.retry)]
    BY <1>6 DEF Outcome
  <2>2. x \in WorkerState /\ x.pc = "idle" /\ x.owed = {} /\ x.readyFor = 0
    BY <1>1, <1>2, <1>3, <1>4, <2>1 DEF WorkerState
  <2> QED
    BY <2>2 DEF InOrder, ProbeSteps, OwedAt
<1> QED
  BY <1>5, <1>6

LEMMA ReleaseType ==
    ASSUME GateInv, NEW w \in Workers
    PROVE  Released(w) \in [Runs -> Workers \cup {None}]
BY DEF GateInv, Released

LEMMA GateInvStep == GateInv /\ [Next]_vars => GateInv'
<1> SUFFICES ASSUME GateInv, [Next]_vars PROVE GateInv'
  OBVIOUS
<1> USE DEF Goto
<1>0. /\ status \in [Runs -> {"absent", "queued", "running", "expired", "waiting", "ended"}]
      /\ lockedBy \in [Runs -> Workers \cup {None}]
      /\ worker \in [Workers -> WorkerState]
      /\ \A w \in Workers : InOrder(worker[w])
      /\ faults \in 0 .. MaxFaults /\ questions \in 0 .. MaxQuestions
      /\ MaxFaults \in Nat /\ MaxQuestions \in Nat
  BY WorkerGateAssumption DEF GateInv
(* The worker moves to x, the run r to the status s.                       *)
<1>1. ASSUME NEW w \in Workers, NEW x, InOrder(x), worker' = [worker EXCEPT ![w] = x],
             status' \in [Runs -> {"absent", "queued", "running", "expired", "waiting", "ended"}],
             lockedBy' \in [Runs -> Workers \cup {None}],
             faults' \in 0 .. MaxFaults, questions' \in 0 .. MaxQuestions
      PROVE  GateInv'
  BY <1>1, OneWorkerMoves DEF GateInv
<1>2. ASSUME NEW w \in Workers, Recover(w) \/ Hint(w) PROVE GateInv'
  <2>1. InOrder(worker[w]) /\ worker[w].pc \notin ProbeSteps /\ worker[w].readyFor \in Nat
    BY <1>0, <1>2, WorkerGateAssumption DEF Recover, Hint, At, ProbeSteps, WorkerState
  <2>2. /\ worker' = [worker EXCEPT ![w] = worker'[w]]
        /\ \/ \E pc \in {"idle", "hint", "select", "count"} : worker'[w] = [worker[w] EXCEPT !.pc = pc]
           \/ worker[w].readyFor = 0 /\ worker'[w] = [worker[w] EXCEPT !.pc = "create", !.failed = {}]
    BY <1>0, <1>2 DEF Recover, Hint, Refused
  <2>3. InOrder(worker'[w])
    BY <2>1, <2>2, LoopStep
  <2>4. status' \in [Runs -> {"absent", "queued", "running", "expired", "waiting", "ended"}]
    BY <1>0, <1>2 DEF Recover, Hint
  <2>5. UNCHANGED <<lockedBy, faults, questions>>
    BY <1>2 DEF Recover, Hint
  <2> QED
    BY <1>0, <1>1, <2>2, <2>3, <2>4, <2>5
<1>3. ASSUME NEW w \in Workers, StepSucceeds(w) \/ StepFails(w) PROVE GateInv'
  <2> DEFINE y == worker[w]
             x == worker'[w]
  <2>1. InOrder(y) /\ y \in WorkerState /\ y.pc \in ProbeSteps
    BY <1>0, <1>3 DEF StepSucceeds, StepFails
  <2>2. CASE StepSucceeds(w)
    <3>1. worker' = [worker EXCEPT ![w] = x] /\
          x = [y EXCEPT !.pc = Following(y.pc), !.owed = (y.owed \cup Made(y.pc)) \ GivenBack(y.pc)]
      BY <1>0, <2>2 DEF StepSucceeds
    <3>2. x = [y EXCEPT !.pc = Following(y.pc), !.owed = (y.owed \cup Made(y.pc)) \ GivenBack(y.pc),
                        !.failed = y.failed, !.stopping = y.stopping]
      BY <2>1, <3>1 DEF WorkerState
    <3>3. InOrder(x)
      BY <2>1, <3>2, PreflightStep DEF WorkerState
    <3> QED
      BY <1>0, <1>1, <2>2, <3>1, <3>3 DEF StepSucceeds
  <2>3. CASE StepFails(w)
    <3>1. worker' = [worker EXCEPT ![w] = x] /\
          x = [y EXCEPT !.pc = Unwinding(y.pc), !.owed = y.owed \ GivenBack(y.pc),
                        !.failed = y.failed \cup {y.pc}]
      BY <1>0, <2>3 DEF StepFails
    <3>2. x = [y EXCEPT !.pc = Unwinding(y.pc), !.owed = y.owed \ GivenBack(y.pc),
                        !.failed = y.failed \cup {y.pc}, !.stopping = y.stopping]
      BY <2>1, <3>1 DEF WorkerState
    <3>3. y.failed \cup {y.pc} \in SUBSET ProbeSteps /\ y.stopping \in BOOLEAN
      BY <2>1 DEF WorkerState
    <3>4. InOrder(x)
      BY <2>1, <3>2, <3>3, PreflightStep
    <3>5. faults' \in 0 .. MaxFaults
      BY <1>0, <2>3 DEF StepFails, Fault
    <3> QED
      BY <1>0, <1>1, <2>3, <3>1, <3>4, <3>5 DEF StepFails
  <2> QED
    BY <1>3, <2>2, <2>3
<1>4. ASSUME NEW w \in Workers, Settle(w) PROVE GateInv'
  <2>1. PICK x : /\ worker' = [worker EXCEPT ![w] = x]
                 /\ x = [FreshWorker EXCEPT !.pc = "dead"] \/ x = Outcome(w)
    BY <1>4 DEF Settle
  <2>2. InOrder(x)
    BY <1>4, <2>1, FreshIsInOrder, OutcomeIsInOrder DEF Settle
  <2> QED
    BY <1>0, <1>1, <1>4, <2>1, <2>2 DEF Settle
<1>5. ASSUME NEW w \in Workers, Select(w) \/ Count(w) PROVE GateInv'
  <2>1. InOrder(worker[w]) /\ worker[w].pc \notin ProbeSteps
    BY <1>0, <1>5 DEF Select, Count, At, ProbeSteps
  <2>2. {r \in Held(w) : ActiveWriters(r) = {}} \in SUBSET Runs
    BY DEF Held
  <2>3. /\ worker' = [worker EXCEPT ![w] = worker'[w]]
        /\ \/ \E pc \in {"idle", "hint", "select", "count"} : worker'[w] = [worker[w] EXCEPT !.pc = pc]
           \/ \E r \in Runs : worker'[w] = [worker[w] EXCEPT !.pc = "write", !.run = r]
    BY <1>0, <1>5, <2>2, OldestIsMember DEF Select, Count
  <2>4. InOrder(worker'[w])
    BY <2>1, <2>3, LoopStep
  <2>5. lockedBy' \in [Runs -> Workers \cup {None}] /\ UNCHANGED <<status, faults, questions>>
    BY <1>0, <1>5, ReleaseType DEF Select, Count
  <2> QED
    BY <1>0, <1>1, <2>3, <2>4, <2>5
<1>6. ASSUME NEW w \in Workers, Write(w) PROVE GateInv'
  <2>1. InOrder(worker[w]) /\ worker[w].pc \notin ProbeSteps /\ worker[w].run \in Runs
    BY <1>0, <1>6 DEF Write, At, ProbeSteps, InOrder
  <2>2. PICK x : /\ worker' = [worker EXCEPT ![w] = x]
                 /\ x = [FreshWorker EXCEPT !.pc = "dead"] \/ x = [worker[w] EXCEPT !.pc = "commit"]
    BY <1>6 DEF Write, WriteUnderIndex
  <2>3. InOrder(x)
    BY <2>1, <2>2, FreshIsInOrder, LoopStep
  <2>4. lockedBy' \in [Runs -> Workers \cup {None}] /\ UNCHANGED <<status, faults, questions>>
    BY <1>0, <1>6, ReleaseType DEF Write, WriteUnderIndex
  <2> QED
    BY <1>0, <1>1, <2>2, <2>3, <2>4
<1>7. ASSUME NEW w \in Workers, Commit(w) \/ EndTask(w) PROVE GateInv'
  <2>1. InOrder(worker[w]) /\ worker[w].pc \notin ProbeSteps /\ worker[w].run \in Runs
    BY <1>0, <1>7 DEF Commit, EndTask, At, ProbeSteps, InOrder
  <2>2. PICK x : /\ worker' = [worker EXCEPT ![w] = x]
                 /\ \/ x = [worker[w] EXCEPT !.pc = "task"]
                    \/ x = [worker[w] EXCEPT !.pc = "idle", !.run = None]
    BY <1>7 DEF Commit, EndTask
  <2>3. InOrder(x)
    BY <2>1, <2>2, LoopStep
  <2>4. /\ lockedBy' \in [Runs -> Workers \cup {None}]
        /\ status' \in [Runs -> {"absent", "queued", "running", "expired", "waiting", "ended"}]
        /\ faults' = faults /\ questions' \in 0 .. MaxQuestions
    BY <1>0, <1>7, ReleaseType DEF Commit, EndTask
  <2> QED
    BY <1>0, <1>1, <2>2, <2>3, <2>4
<1>8. ASSUME NEW w \in Workers, Stop(w) PROVE GateInv'
  <2> DEFINE y == worker[w]
  <2>1. InOrder(y) /\ y \in WorkerState
    BY <1>0
  <2>2. lockedBy' \in [Runs -> Workers \cup {None}] /\ faults' \in 0 .. MaxFaults
    BY <1>0, <1>8, ReleaseType DEF Stop, Fault
  <2>3. PICK x : worker' = [worker EXCEPT ![w] = x] /\ InOrder(x)
    <3>1. CASE y.pc \notin ProbeSteps
      <4>1. worker' = [worker EXCEPT ![w] = [FreshWorker EXCEPT !.pc = "dead"]]
        BY <1>8, <3>1 DEF Stop, Unwound
      <4> QED
        BY <4>1, FreshIsInOrder
    <3>2. CASE y.pc \in {"block", "kill"}
      <4> DEFINE x == worker'[w]
      <4>1. y.pc \in ProbeSteps
        BY <3>2 DEF ProbeSteps
      <4>2. worker' = [worker EXCEPT ![w] = x] /\ x = [y EXCEPT !.stopping = TRUE, !.pc = y.pc]
        BY <1>0, <1>8, <3>2, <4>1 DEF Stop, Unwound
      <4>3. x \in WorkerState /\ x.pc = y.pc /\ x.run = y.run /\ x.owed = y.owed /\ x.failed = y.failed
            /\ x.readyFor = y.readyFor
        BY <2>1, <3>2, <4>2 DEF WorkerState
      <4> QED
        BY <2>1, <4>2, <4>3 DEF InOrder
    <3>3. CASE y.pc \in ProbeSteps \ {"block", "kill"}
      <4>1. worker' = [worker EXCEPT ![w] = worker'[w]]
            /\ worker'[w] = [y EXCEPT !.stopping = TRUE, !.pc = Unwinding(y.pc)]
        BY <1>0, <1>8, <3>3 DEF Stop, Unwound
      <4>2. y.owed \ GivenBack(y.pc) = y.owed
        BY <3>3 DEF GivenBack
      <4>3. worker'[w] = [y EXCEPT !.pc = Unwinding(y.pc), !.owed = y.owed, !.failed = y.failed,
                                   !.stopping = TRUE]
        BY <2>1, <4>1 DEF WorkerState
      <4>4. y.failed \in SUBSET ProbeSteps /\ TRUE \in BOOLEAN
        BY <2>1 DEF WorkerState
      <4>5. InOrder(worker'[w])
        BY <2>1, <3>3, <4>2, <4>3, <4>4, PreflightStep
      <4> QED
        BY <4>1, <4>5
    <3> QED
      BY <3>1, <3>2, <3>3
  <2> QED
    BY <1>0, <1>1, <1>8, <2>2, <2>3 DEF Stop
<1>9. ASSUME NEW w \in Workers, Crash(w) \/ Restart(w) PROVE GateInv'
  <2>1. lockedBy' \in [Runs -> Workers \cup {None}] /\ faults' \in 0 .. MaxFaults
    BY <1>0, <1>9, ReleaseType DEF Crash, Restart, Fault
  <2>2. CASE Crash(w)
    BY <1>0, <1>1, <2>1, <2>2, FreshIsInOrder DEF Crash
  <2>3. CASE Restart(w)
    <3>1. worker[w].owed = {}
      BY <1>0, <2>3 DEF Restart, At, InOrder, OwedAt
    <3>2. InOrder([FreshWorker EXCEPT !.owed = worker[w].owed])
      BY <3>1, FreshIsInOrder
    <3> QED
      BY <1>0, <1>1, <2>1, <2>3, <3>2 DEF Restart
  <2> QED
    BY <1>9, <2>2, <2>3
<1>10. ASSUME NEW r \in Runs, CreateRun(r) \/ LeaveWaiting(r) \/ LeaseExpires(r) PROVE GateInv'
  <2>1. status' \in [Runs -> {"absent", "queued", "running", "expired", "waiting", "ended"}]
    BY <1>0, <1>10 DEF CreateRun, LeaveWaiting, LeaseExpires
  <2> QED
    BY <1>0, <1>10, <2>1 DEF CreateRun, LeaveWaiting, LeaseExpires, GateInv
<1>11. CASE Tick
  <2>1. ASSUME NEW w \in Workers PROVE worker'[w] \in WorkerState /\ InOrder(worker'[w])
    <3> DEFINE y == worker[w]
               x == worker'[w]
    <3>1. InOrder(y) /\ y \in WorkerState
      BY <1>0
    <3>2. x = [y EXCEPT !.readyFor = Less(y.readyFor), !.waitFor = Less(y.waitFor)]
      BY <1>11 DEF Tick
    <3>3. Less(y.readyFor) \in 0 .. SuccessTTL /\ Less(y.waitFor) \in 0 .. RetryMax
          /\ (Less(y.readyFor) > 0 => y.readyFor > 0)
          /\ (y.readyFor = 0 => Less(y.readyFor) = 0)
      BY <3>1, WorkerGateAssumption DEF Less, WorkerState
    <3>4. x \in WorkerState /\ x.pc = y.pc /\ x.run = y.run /\ x.owed = y.owed /\ x.failed = y.failed
          /\ x.readyFor = Less(y.readyFor)
      BY <3>1, <3>2, <3>3 DEF WorkerState
    <3> QED
      BY <3>1, <3>3, <3>4 DEF InOrder
  <2>2. worker' \in [Workers -> WorkerState]
    BY <1>11, <2>1 DEF Tick
  <2> QED
    BY <1>0, <1>11, <2>1, <2>2 DEF Tick, GateInv
<1>12. CASE UNCHANGED vars
  BY <1>12 DEF vars, GateInv
<1> QED
  BY <1>2, <1>3, <1>4, <1>5, <1>6, <1>7, <1>8, <1>9, <1>10, <1>11, <1>12 DEF Next, Step

LEMMA GateInitIsInOrder == Init => GateInv
<1> SUFFICES ASSUME Init PROVE GateInv
  OBVIOUS
<1>1. InOrder(FreshWorker)
  BY FreshIsInOrder
<1> QED
  BY <1>1, WorkerGateAssumption DEF Init, GateInv, InOrder

(* The parts of a preflight, and the run of a claim, are in order in every *)
(* reachable state.                                                        *)
THEOREM GateInvariantHolds == Spec => []GateInv
  BY GateInitIsInOrder, GateInvStep, PTL DEF Spec

(* However a preflight ends, by a failure of any of its steps or by the    *)
(* end of the process, it has tried to give back its key and its sandbox,  *)
(* its backoff stays within its bounds, and a worker that counts on its    *)
(* success had a preflight in which nothing failed.                        *)
THEOREM PreflightIsCleanHolds == Spec => []PreflightIsClean
<1>1. GateInv => PreflightIsClean
  <2> SUFFICES ASSUME GateInv PROVE PreflightIsClean
    OBVIOUS
  <2>1. GateTypeOK
    BY DEF GateInv, GateTypeOK, WorkerState
  <2>2. ProbeGivesBack
    BY DEF GateInv, InOrder, OwedAt, ProbeGivesBack, ProbeSteps
  <2>3. ReadyIsProven
    BY DEF GateInv, InOrder, ReadyIsProven
  <2> QED
    BY <2>1, <2>2, <2>3 DEF PreflightIsClean
<1> QED
  BY <1>1, GateInvariantHolds, PTL

-----------------------------------------------------------------------------
(* The claim.                                                              *)

(* A run comes to run only when a claim commits.                           *)
LEMMA RunsByCommit ==
    ASSUME GateInv, [Next]_vars
    PROVE  \/ \A r \in Runs : Running(r)' => Running(r)
           \/ \E w \in Workers : Commit(w)
<1> USE DEF Running, GateInv
<1>1. ASSUME NEW w \in Workers, Step(w), ~Commit(w)
      PROVE  \A r \in Runs : Running(r)' => Running(r)
  <2>1. CASE Recover(w) \/ EndTask(w)
    BY <2>1 DEF Recover, EndTask
  <2>2. CASE UNCHANGED status
    BY <2>2
  <2> QED
    BY <1>1, <2>1, <2>2 DEF Step, Hint, Settle, Select, Count, Write, StepSucceeds, StepFails
<1>2. ASSUME NEW w \in Workers, Stop(w) \/ Crash(w) \/ Restart(w) PROVE UNCHANGED status
  BY <1>2 DEF Stop, Crash, Restart
<1>3. ASSUME NEW r \in Runs, CreateRun(r) \/ LeaveWaiting(r) \/ LeaseExpires(r)
      PROVE  \A q \in Runs : Running(q)' => Running(q)
  BY <1>3 DEF CreateRun, LeaveWaiting, LeaseExpires
<1>4. CASE Tick \/ UNCHANGED vars
  BY <1>4 DEF Tick, vars
<1> QED
  BY <1>1, <1>2, <1>3, <1>4 DEF Next

(* A transaction comes to have written only by the write, and keeps its run*)
(* until it ends.                                                          *)
LEMMA CommitsByWrite ==
    ASSUME GateInv, [Next]_vars, NEW w \in Workers, At(w, "commit")'
    PROVE  /\ worker'[w].run = worker[w].run
           /\ At(w, "commit") \/ Write(w)
<1> USE DEF GateInv, At, Goto
<1>1. ASSUME NEW v \in Workers, Step(v), v # w PROVE worker'[w] = worker[w]
  BY <1>1 DEF Step, Recover, Hint, Refused, Settle, Select, Count, Write, WriteUnderIndex, Commit,
     EndTask, StepSucceeds, StepFails
<1>2. ASSUME Step(w) PROVE Write(w) /\ worker'[w].run = worker[w].run
  <2>1. CASE Write(w)
    BY <2>1 DEF Write, WriteUnderIndex, FreshWorker, WorkerState
  <2>2. CASE StepSucceeds(w) \/ StepFails(w)
    <3>1. worker'[w].pc \in {Following(worker[w].pc), Unwinding(worker[w].pc)} /\ worker[w].pc \in ProbeSteps
      BY <2>2 DEF StepSucceeds, StepFails, WorkerState
    <3>2. worker'[w].pc # "commit"
      BY <3>1 DEF Following, Unwinding, ProbeSteps
    <3> QED
      BY <3>2
  <2>3. CASE Settle(w)
    <3>1. worker'[w] \in {[FreshWorker EXCEPT !.pc = "dead"], Outcome(w)}
      BY <2>3 DEF Settle
    <3>2. worker'[w].pc # "commit"
      BY <3>1 DEF Outcome, FreshWorker, WorkerState
    <3> QED
      BY <3>2
  <2>4. CASE Recover(w) \/ Hint(w) \/ Select(w) \/ Count(w) \/ Commit(w) \/ EndTask(w)
    <3>1. worker'[w].pc # "commit"
      BY <2>4 DEF Recover, Hint, Refused, Select, Count, Commit, EndTask, WorkerState
    <3> QED
      BY <3>1
  <2> QED
    BY <1>2, <2>1, <2>2, <2>3, <2>4 DEF Step
<1>3. ASSUME NEW v \in Workers, Stop(v) \/ Crash(v) \/ Restart(v)
      PROVE  worker'[w] = worker[w]
  <2>1. CASE v # w
    BY <1>3, <2>1 DEF Stop, Unwound, Crash, Restart
  <2>2. CASE v = w
    <3>1. CASE Crash(w) \/ Restart(w)
      BY <3>1 DEF Crash, Restart, FreshWorker
    <3>2. CASE Stop(w)
      <4>1. CASE worker[w].pc \in ProbeSteps
        <5>1. worker'[w].pc \in {worker[w].pc, Unwinding(worker[w].pc)}
          BY <3>2, <4>1 DEF Stop, Unwound, WorkerState
        <5> QED
          BY <4>1, <5>1 DEF Unwinding, ProbeSteps
      <4>2. CASE worker[w].pc \notin ProbeSteps
        <5>1. worker'[w] = [FreshWorker EXCEPT !.pc = "dead"]
          BY <3>2, <4>2 DEF Stop, Unwound
        <5> QED
          BY <5>1 DEF FreshWorker
      <4> QED
        BY <4>1, <4>2
    <3> QED
      BY <1>3, <2>2, <3>1, <3>2
  <2> QED
    BY <2>1, <2>2
<1>4. CASE Tick
  <2>1. worker'[w] = [worker[w] EXCEPT !.readyFor = Less(@), !.waitFor = Less(@)]
    BY <1>4 DEF Tick
  <2>2. worker'[w].pc = worker[w].pc /\ worker'[w].run = worker[w].run
    BY <2>1 DEF WorkerState
  <2> QED
    BY <2>2
<1>5. CASE UNCHANGED vars
  BY <1>5 DEF vars
<1>6. ASSUME NEW r \in Runs, CreateRun(r) \/ LeaveWaiting(r) \/ LeaseExpires(r)
      PROVE  worker' = worker
  BY <1>6 DEF CreateRun, LeaveWaiting, LeaseExpires
<1> QED
  BY <1>1, <1>2, <1>3, <1>4, <1>5, <1>6 DEF Next

LEMMA IndexStep ==
    ASSUME GateInv, IndexInv, [Next]_vars
    PROVE  IndexInv'
<1>0. \A w \in Workers : At(w, "commit") => worker[w].run \in Runs
  BY DEF GateInv, InOrder, At
(* A transaction that has written still has no running rival.              *)
<1>1. ASSUME NEW w \in Workers, At(w, "commit")', NEW q \in Runs \ {worker[w].run},
             SameProject(worker[w].run, q), Running(q)'
      PROVE  FALSE
  <2>1. CASE Running(q)
    <3>1. At(w, "commit") \/ Write(w)
      BY <1>1, CommitsByWrite
    <3>2. CASE At(w, "commit")
      BY <1>1, <2>1, <3>2 DEF IndexInv
    <3>3. CASE Write(w)
      <4>1. \E p \in Runs \ {worker[w].run} : SameProject(worker[w].run, p) /\ Running(p)
        BY <1>1, <2>1
      <4>2. worker'[w] = [FreshWorker EXCEPT !.pc = "dead"]
        BY <3>3, <4>1 DEF Write, WriteUnderIndex, GateInv
      <4> QED
        BY <1>1, <4>2 DEF At, FreshWorker
    <3> QED
      BY <3>1, <3>2, <3>3
  <2>2. CASE ~Running(q)
    <3>1. PICK v \in Workers : Commit(v)
      BY <1>1, <2>2, RunsByCommit
    <3>2. worker[v].run = q /\ At(v, "commit") /\ v # w
      BY <1>1, <2>2, <3>1 DEF Commit, Running, GateInv, At, Goto, WorkerState
    <3>3. worker'[w] = worker[w]
      BY <3>1, <3>2 DEF Commit, Goto, GateInv
    <3>4. At(w, "commit")
      BY <1>1, <3>3 DEF At
    <3> QED
      BY <1>1, <3>2, <3>4 DEF IndexInv
  <2> QED
    BY <2>1, <2>2
<1>2. ASSUME NEW v \in Workers, NEW w \in Workers, v # w, At(v, "commit")', At(w, "commit")',
             SameProject(worker[v].run, worker[w].run)
      PROVE  FALSE
  <2>1. CASE At(v, "commit") /\ At(w, "commit")
    BY <1>2, <2>1 DEF IndexInv
  <2>2. ASSUME NEW u \in Workers, NEW x \in Workers, u # x, At(u, "commit"), Write(x),
               SameProject(worker[u].run, worker[x].run)
        PROVE  FALSE
    BY <2>2 DEF Write, WriteUnderIndex
  <2>3. CASE Write(v) /\ Write(w)
    <3>1. worker'[v] = worker[v]
      BY <1>2, <2>3 DEF Write, WriteUnderIndex, GateInv, Goto
    <3> QED
      BY <1>2, <2>3, <3>1 DEF Write, At
  <2> QED
    BY <1>2, <2>1, <2>2, <2>3, CommitsByWrite DEF SameProject
<1>3. OneRunningWriter'
  <2> SUFFICES ASSUME NEW r \in Runs, NEW q \in Runs, r # q, SameProject(r, q),
                      Running(r)', Running(q)'
               PROVE  FALSE
    BY DEF OneRunningWriter, SameProject
  <2>1. PICK w \in Workers : Commit(w)
    BY RunsByCommit DEF IndexInv, OneRunningWriter
  <2>2. At(w, "commit") /\ \A p \in Runs : Running(p)' => Running(p) \/ p = worker[w].run
    BY <2>1 DEF Commit, Running, GateInv, At
  <2> QED
    BY <2>2 DEF IndexInv, OneRunningWriter, SameProject
<1> QED
  <2>1. \A w \in Workers : At(w, "commit")' =>
          \A q \in Runs \ {worker'[w].run} : SameProject(worker'[w].run, q) => ~Running(q)'
    BY <1>1, CommitsByWrite
  <2>2. \A v, w \in Workers : v # w /\ At(v, "commit")' /\ At(w, "commit")' =>
          ~SameProject(worker'[v].run, worker'[w].run)
    BY <1>2, CommitsByWrite
  <2> QED
    BY <1>3, <2>1, <2>2 DEF IndexInv, SameProject

(* Two workers may both count no other writer before either has written:   *)
(* the partial unique index alone makes the later one wait for the earlier *)
(* and fail, so that two runs of a project never run together.             *)
THEOREM OneRunningWriterHolds == Spec => []OneRunningWriter
<1>1. Init => IndexInv
  BY DEF Init, IndexInv, OneRunningWriter, Running, At, FreshWorker
<1>2. GateInv /\ IndexInv /\ [Next]_vars => IndexInv'
  BY IndexStep
<1>3. IndexInv => OneRunningWriter
  BY DEF IndexInv
<1> QED
  BY <1>1, <1>2, <1>3, GateInvariantHolds, PTL DEF Spec
=============================================================================
