----------------------------- MODULE AgentTurn -----------------------------
(***************************************************************************)
(* The paid turns of one run: the session that starts them, the transport  *)
(* and the bridge in the sandbox that carry them out, the run's inference  *)
(* key, and the usage ledger, against cancellation, a lost lease, a crash  *)
(* and a retry of the run by another worker.                               *)
(*                                                                         *)
(* An attempt is one claim of the run.  Its number stands for its lease    *)
(* token, for its inference key and for the sandbox it creates.  Turns are *)
(* numbered in the order of their reservations; their cost is counted in   *)
(* units of the provider's smallest charge.                                *)
(***************************************************************************)
EXTENDS Integers, FiniteSetsExt

CONSTANTS Workers,      \* worker processes
          MaxAttempts,  \* claims of the run
          MaxTurns,     \* turns reserved over all attempts
          MaxSpend,     \* runtime_contract.max_spend_micros, in units of cost
          MaxFaults     \* crashes, stalls and failed calls

ASSUME AgentAssumption ==
    /\ IsFiniteSet(Workers)
    /\ {MaxAttempts, MaxTurns, MaxSpend} \subseteq Nat \ {0}
    /\ MaxFaults \in Nat

Attempts == 1 .. MaxAttempts
Turns == 1 .. MaxTurns
None == 0
Detached == MaxAttempts + 1   \* a pending continuation whose sandbox is forgotten

VARIABLES
    \* the run's row
    status, leaseOwner, leaseExpired, cancelRequested, continuation, claims,
    \* the workers' tasks
    token, pc, turn, resuming, cancelEvent,
    \* sandboxes and keys
    place, alive, key, credit,
    \* the ledger
    turns, owner, entry, cost, blind,
    \* the bridges and what the provider has charged
    bridge, stream, spent, initial, final,
    faults

runVars == <<status, leaseOwner, leaseExpired, cancelRequested, continuation, claims>>
taskVars == <<token, pc, turn, resuming, cancelEvent>>
sandboxVars == <<place, alive>>
keyVars == <<key, credit>>
ledgerVars == <<turns, owner, entry, cost, blind>>
bridgeVars == <<bridge, stream, spent, initial, final>>
vars == <<runVars, taskVars, sandboxVars, keyVars, ledgerVars, bridgeVars, faults>>

Init ==
    /\ status = "queued" /\ leaseOwner = None /\ leaseExpired = FALSE
    /\ cancelRequested = FALSE /\ continuation = None /\ claims = 0
    /\ token = [w \in Workers |-> None]
    /\ pc = [w \in Workers |-> "idle"]
    /\ turn = [w \in Workers |-> None]
    /\ resuming = [w \in Workers |-> FALSE]
    /\ cancelEvent = [w \in Workers |-> "clear"]
    /\ place = [a \in Attempts |-> None] /\ alive = {}
    /\ key = [a \in Attempts |-> "none"] /\ credit = [a \in Attempts |-> 0]
    /\ turns = 0 /\ owner = [t \in Turns |-> None]
    /\ entry = [t \in Turns |-> "none"] /\ cost = [t \in Turns |-> 0]
    /\ blind = FALSE
    /\ bridge = [t \in Turns |-> "none"] /\ stream = [t \in Turns |-> "waiting"]
    /\ spent = [t \in Turns |-> 0]
    /\ initial = [t \in Turns |-> 0] /\ final = [t \in Turns |-> 0]
    /\ faults = 0

Fault == faults < MaxFaults /\ faults' = faults + 1

(* The predicate of every write of a worker: its token, still in force. *)
Fenced(w) ==
    status = "running" /\ leaseOwner = token[w] /\ ~leaseExpired

(* What a worker asks the database before each side effect. *)
RunActive(w) == ~cancelRequested /\ Fenced(w)

(* The ledger's totals: a run with an unsettled entry is left out and so *)
(* counts as having spent nothing.                                       *)
UsageTotals ==
    IF \E t \in Turns : entry[t] = "reserved" THEN 0
    ELSE MapThenSumSet(LAMBDA t : cost[t], Turns)

TotalSpent == MapThenSumSet(LAMBDA t : spent[t], Turns)

(* The cumulative cost that the agent's session in sandbox s reports. *)
SessionCost(s) ==
    MapThenSumSet(LAMBDA t : spent[t],
                  {t \in Turns : owner[t] # None /\ place[owner[t]] = s})

(* Killing sandbox s ends the bridges in it. *)
BridgesWithout(s) ==
    [t \in Turns |-> IF bridge[t] = "up" /\ place[owner[t]] = s THEN "dead"
                     ELSE bridge[t]]

Goto(w, label) == pc' = [pc EXCEPT ![w] = label]

(* Operators named Mutant... are plausible mistakes in the definition that *)
(* follows them; no action uses them.                                      *)

(***************************************************************************)
(* The user.                                                               *)
(***************************************************************************)

RequestCancel ==
    /\ ~cancelRequested /\ status # "ended"
    /\ cancelRequested' = TRUE
    /\ IF status = "running" THEN UNCHANGED <<status, continuation>>
       ELSE status' = "ended" /\ continuation' = None
    /\ UNCHANGED <<leaseOwner, leaseExpired, claims, taskVars, sandboxVars,
                   keyVars, ledgerVars, bridgeVars, faults>>

AnswerUserInput ==
    /\ status = "waiting_for_user"
    /\ status' = "queued"
    /\ UNCHANGED <<leaseOwner, leaseExpired, cancelRequested, continuation, claims,
                   taskVars, sandboxVars, keyVars, ledgerVars, bridgeVars, faults>>

(***************************************************************************)
(* A worker takes the run, opens a workspace and buys a key.               *)
(***************************************************************************)

MutantClaimBesideSandboxes(w) ==
    /\ pc[w] = "idle" /\ status = "queued" /\ claims < MaxAttempts
    /\ claims' = claims + 1
    /\ status' = "running" /\ leaseOwner' = claims' /\ leaseExpired' = FALSE
    /\ token' = [token EXCEPT ![w] = claims']
    /\ resuming' = [resuming EXCEPT ![w] = continuation # None]
    /\ Goto(w, "claimed")
    /\ UNCHANGED <<cancelRequested, continuation, turn, cancelEvent, sandboxVars,
                   keyVars, ledgerVars, bridgeVars, faults>>

(* No sandbox but the one the run continues in may be left from before. *)
Claim(w) ==
    /\ pc[w] = "idle" /\ status = "queued" /\ claims < MaxAttempts
    /\ alive \subseteq {continuation}
    /\ claims' = claims + 1
    /\ status' = "running" /\ leaseOwner' = claims' /\ leaseExpired' = FALSE
    /\ token' = [token EXCEPT ![w] = claims']
    /\ resuming' = [resuming EXCEPT ![w] = continuation # None]
    /\ Goto(w, "claimed")
    /\ UNCHANGED <<cancelRequested, continuation, turn, cancelEvent, sandboxVars,
                   keyVars, ledgerVars, bridgeVars, faults>>

(* A continuation without its sandbox raises before any handler is in place. *)
Escape(w) ==
    /\ pc[w] = "claimed" /\ continuation = Detached
    /\ token' = [token EXCEPT ![w] = None] /\ Goto(w, "idle")
    /\ UNCHANGED <<runVars, turn, resuming, cancelEvent, sandboxVars, keyVars,
                   ledgerVars, bridgeVars, faults>>

OpenWorkspace(w) ==
    /\ pc[w] = "claimed" /\ continuation # Detached /\ Fenced(w)
    /\ LET s == IF continuation = None THEN token[w] ELSE continuation IN
         /\ place' = [place EXCEPT ![token[w]] = s]
         /\ IF continuation = None
            THEN alive' = alive \cup {s} /\ Goto(w, "opened")
            ELSE /\ alive' = alive
                 /\ Goto(w, IF s \in alive THEN "opened" ELSE "failing")
    /\ UNCHANGED <<runVars, token, turn, resuming, cancelEvent, keyVars,
                   ledgerVars, bridgeVars, faults>>

(* A check that finds the run cancelled or the lease gone raises. *)
Refused(w) ==
    /\ pc[w] \in {"opened", "ready", "reserved", "settled"} /\ ~RunActive(w)
    /\ Goto(w, "failing")
    /\ UNCHANGED <<runVars, token, turn, resuming, cancelEvent, sandboxVars, keyVars,
                   ledgerVars, bridgeVars, faults>>

(* A fenced write that finds the lease gone raises. *)
WriteRefused(w) ==
    /\ pc[w] \in {"claimed", "funded", "public"} /\ ~Fenced(w)
    /\ Goto(w, "failing")
    /\ UNCHANGED <<runVars, token, turn, resuming, cancelEvent, sandboxVars, keyVars,
                   ledgerVars, bridgeVars, faults>>

Admit(w) ==
    /\ pc[w] = "opened" /\ RunActive(w)
    /\ Goto(w, "admitted")
    /\ UNCHANGED <<runVars, token, turn, resuming, cancelEvent, sandboxVars, keyVars,
                   ledgerVars, bridgeVars, faults>>

MutantFullBudget == MaxSpend

RemainingSpendBudget == MaxSpend - UsageTotals

MutantIssueKeyUnchecked(w) ==
    /\ pc[w] = "admitted"
    /\ key' = [key EXCEPT ![token[w]] = "live"]
    /\ credit' = [credit EXCEPT ![token[w]] = RemainingSpendBudget]
    /\ blind' = (blind \/ \E t \in Turns : entry[t] = "reserved")
    /\ Goto(w, "ready")
    /\ UNCHANGED <<runVars, token, turn, resuming, cancelEvent, sandboxVars,
                   turns, owner, entry, cost, bridgeVars, faults>>

(* The key's budget is what the ledger leaves.  blind remembers that a key *)
(* was issued while the ledger could not tell what had been spent.         *)
IssueKey(w) ==
    /\ pc[w] = "admitted"
    /\ IF RemainingSpendBudget <= 0
       THEN Goto(w, "failing") /\ UNCHANGED <<key, credit, blind>>
       ELSE /\ key' = [key EXCEPT ![token[w]] = "live"]
            /\ credit' = [credit EXCEPT ![token[w]] = RemainingSpendBudget]
            /\ blind' = (blind \/ \E t \in Turns : entry[t] = "reserved")
            /\ Goto(w, "ready")
    /\ UNCHANGED <<runVars, token, turn, resuming, cancelEvent, sandboxVars,
                   turns, owner, entry, cost, bridgeVars, faults>>

(***************************************************************************)
(* One turn: check, reserve, check again, start the bridge.                *)
(***************************************************************************)

CheckActive(w) ==
    /\ pc[w] = "ready" /\ RunActive(w)
    /\ Goto(w, "checked")
    /\ UNCHANGED <<runVars, token, turn, resuming, cancelEvent, sandboxVars, keyVars,
                   ledgerVars, bridgeVars, faults>>

CheckBudget(w) ==
    /\ pc[w] = "checked"
    /\ Goto(w, IF UsageTotals >= MaxSpend THEN "failing" ELSE "funded")
    /\ UNCHANGED <<runVars, token, turn, resuming, cancelEvent, sandboxVars, keyVars,
                   ledgerVars, bridgeVars, faults>>

ReserveUsageEntry(w) ==
    /\ pc[w] = "funded" /\ Fenced(w) /\ turns < MaxTurns
    /\ turns' = turns + 1
    /\ turn' = [turn EXCEPT ![w] = turns']
    /\ owner' = [owner EXCEPT ![turns'] = token[w]]
    /\ entry' = [entry EXCEPT ![turns'] = "reserved"]
    /\ Goto(w, "reserved")
    /\ UNCHANGED <<runVars, token, resuming, cancelEvent, sandboxVars, keyVars,
                   cost, blind, bridgeVars, faults>>

CheckAgain(w) ==
    /\ pc[w] = "reserved" /\ RunActive(w)
    /\ Goto(w, "clear")
    /\ UNCHANGED <<runVars, token, turn, resuming, cancelEvent, sandboxVars, keyVars,
                   ledgerVars, bridgeVars, faults>>

(* The transport connects to the sandbox and starts the bridge in it. *)
Launch(w) ==
    /\ pc[w] = "clear"
    /\ LET s == place[token[w]] IN
         IF s \in alive
         THEN /\ bridge' = [bridge EXCEPT ![turn[w]] = "up"]
              /\ initial' = [initial EXCEPT ![turn[w]] = SessionCost(s)]
              /\ cancelEvent' = [cancelEvent EXCEPT ![w] = "clear"]
              /\ Goto(w, "streaming")
         ELSE Goto(w, "failing") /\ UNCHANGED <<bridge, initial, cancelEvent>>
    /\ UNCHANGED <<runVars, token, turn, resuming, sandboxVars, keyVars, ledgerVars,
                   stream, spent, final, faults>>

(* The agent calls the model: the gateway charges the key of its attempt *)
(* while the key is live and has budget.                                 *)
Charge(t) ==
    /\ bridge[t] = "up" /\ stream[t] # "settled" /\ stream[t] # "askedSettled"
    /\ key[owner[t]] = "live" /\ credit[owner[t]] > 0
    /\ spent' = [spent EXCEPT ![t] = @ + 1]
    /\ credit' = [credit EXCEPT ![owner[t]] = @ - 1]
    /\ UNCHANGED <<runVars, taskVars, sandboxVars, key, ledgerVars, bridge, stream,
                   initial, final, faults>>

(* The reducer of the bridge's stream: one lifecycle of envelopes, one     *)
(* settlement, at most one question, which the completion must repeat.     *)
Kinds == {"started", "event", "input_request", "agent_settled", "completed",
          "completed_asking", "failed"}

Reduce(state, kind) ==
    CASE state = "waiting" /\ kind = "started" -> "running"
      [] state \in {"running", "asked", "settled", "askedSettled"} /\ kind = "event" -> state
      [] state = "running" /\ kind = "input_request" -> "asked"
      [] state = "running" /\ kind = "agent_settled" -> "settled"
      [] state = "asked" /\ kind = "agent_settled" -> "askedSettled"
      [] state = "settled" /\ kind = "completed" -> "completed"
      [] state = "askedSettled" /\ kind = "completed_asking" -> "asking"
      [] state \in {"waiting", "running", "asked", "settled", "askedSettled"}
           /\ kind = "failed" -> "failed"
      [] OTHER -> "broken"

(* An envelope arrives: reduced, then written as an event under the fence. *)
(* A protocol violation or a refused write makes the transport interrupt   *)
(* the bridge and raise.                                                   *)
Envelope(w, kind) ==
    LET t == turn[w]
        next == Reduce(stream[t], kind) IN
    /\ pc[w] = "streaming" /\ bridge[t] = "up"
    /\ IF next = "broken" THEN Fault ELSE faults' = faults
    /\ stream' = [stream EXCEPT ![t] = next]
    /\ IF next = "broken" \/ ~Fenced(w)
       THEN /\ bridge' = [bridge EXCEPT ![t] = "dead"]
            /\ Goto(w, "failing") /\ final' = final
       ELSE /\ bridge' = [bridge EXCEPT ![t] =
                            IF next \in {"completed", "asking", "failed"} THEN "done" ELSE @]
            /\ final' = [final EXCEPT ![t] =
                            IF next \in {"completed", "asking"}
                            THEN SessionCost(place[owner[t]]) ELSE @]
            /\ pc' = pc
    /\ UNCHANGED <<runVars, token, turn, resuming, cancelEvent, sandboxVars, keyVars,
                   ledgerVars, spent, initial>>

MutantWatchTheLease(w) ==
    /\ pc[w] = "streaming" /\ cancelEvent[w] = "clear"
    /\ \/ ~Fenced(w) /\ faults' = faults
       \/ Fenced(w) /\ Fault
    /\ cancelEvent' = [cancelEvent EXCEPT ![w] = "set"]
    /\ UNCHANGED <<runVars, token, pc, turn, resuming, sandboxVars, keyVars,
                   ledgerVars, bridgeVars>>

(* The watcher polls the database; a failure of the poll also stops the turn. *)
Watch(w) ==
    /\ pc[w] = "streaming" /\ cancelEvent[w] = "clear"
    /\ \/ ~RunActive(w) /\ faults' = faults
       \/ RunActive(w) /\ Fault
    /\ cancelEvent' = [cancelEvent EXCEPT ![w] = "set"]
    /\ UNCHANGED <<runVars, token, pc, turn, resuming, sandboxVars, keyVars,
                   ledgerVars, bridgeVars>>

(* The transport interrupts the bridge once; if the provider refuses, the *)
(* command runs on until its own timeout.                                 *)
Interrupt(w) ==
    /\ pc[w] = "streaming" /\ cancelEvent[w] = "set" /\ bridge[turn[w]] = "up"
    /\ \/ /\ bridge' = [bridge EXCEPT ![turn[w]] = "dead"]
          /\ UNCHANGED <<cancelEvent, faults>>
       \/ /\ Fault
          /\ cancelEvent' = [cancelEvent EXCEPT ![w] = "stuck"]
          /\ bridge' = bridge
    /\ UNCHANGED <<runVars, token, pc, turn, resuming, sandboxVars, keyVars, ledgerVars,
                   stream, spent, initial, final>>

CommandTimesOut(w) ==
    /\ pc[w] = "streaming" /\ cancelEvent[w] = "stuck" /\ bridge[turn[w]] = "up"
    /\ bridge' = [bridge EXCEPT ![turn[w]] = "dead"]
    /\ UNCHANGED <<runVars, taskVars, sandboxVars, keyVars, ledgerVars, stream, spent,
                   initial, final, faults>>

(* The command stream to the sandbox breaks and the bridge is not reached. *)
TransportBreaks(w) ==
    /\ pc[w] = "streaming" /\ bridge[turn[w]] = "up" /\ Fault
    /\ Goto(w, "failing")
    /\ UNCHANGED <<runVars, token, turn, resuming, cancelEvent, sandboxVars, keyVars,
                   ledgerVars, bridgeVars>>

(* The command has ended.  A set cancel event wins over a completed bridge. *)
Return(w) ==
    /\ pc[w] = "streaming" /\ bridge[turn[w]] \in {"done", "dead"}
    /\ Goto(w, IF cancelEvent[w] = "clear" /\ stream[turn[w]] \in {"completed", "asking"}
               THEN "returned" ELSE "failing")
    /\ UNCHANGED <<runVars, token, turn, resuming, cancelEvent, sandboxVars, keyVars,
                   ledgerVars, bridgeVars, faults>>

MutantSettleCumulative(w) ==
    /\ pc[w] = "returned"
    /\ entry' = [entry EXCEPT ![turn[w]] = "settled"]
    /\ cost' = [cost EXCEPT ![turn[w]] = final[turn[w]]]
    /\ Goto(w, "settled")
    /\ UNCHANGED <<runVars, token, turn, resuming, cancelEvent, sandboxVars, keyVars,
                   turns, owner, blind, bridgeVars, faults>>

(* Not fenced: the reservation's own token is enough. *)
SettleUsageEntry(w) ==
    /\ pc[w] = "returned"
    /\ entry' = [entry EXCEPT ![turn[w]] = "settled"]
    /\ cost' = [cost EXCEPT ![turn[w]] = final[turn[w]] - initial[turn[w]]]
    /\ Goto(w, "settled")
    /\ UNCHANGED <<runVars, token, turn, resuming, cancelEvent, sandboxVars, keyVars,
                   turns, owner, blind, bridgeVars, faults>>

CheckAfter(w) ==
    /\ pc[w] = "settled" /\ RunActive(w)
    /\ Goto(w, "public")
    /\ UNCHANGED <<runVars, token, turn, resuming, cancelEvent, sandboxVars, keyVars,
                   ledgerVars, bridgeVars, faults>>

(* The turn ended in a question: the run waits, its sandbox is kept. *)
WaitForUserInput(w) ==
    /\ pc[w] = "public" /\ stream[turn[w]] = "asking" /\ Fenced(w)
    /\ status' = "waiting_for_user" /\ leaseOwner' = None
    /\ continuation' = place[token[w]]
    /\ Goto(w, "blocking")
    /\ UNCHANGED <<leaseExpired, cancelRequested, claims, token, turn, resuming,
                   cancelEvent, sandboxVars, keyVars, ledgerVars, bridgeVars, faults>>

(* The turn's text is used, unless it reached the output limit or the run *)
(* has spent more than it may; a resumed turn completes its continuation. *)
FinishTurn(w) ==
    /\ pc[w] = "public" /\ stream[turn[w]] = "completed" /\ Fenced(w)
    /\ \/ /\ UsageTotals <= MaxSpend
          /\ Goto(w, "ready")
          /\ continuation' = IF resuming[w] THEN None ELSE continuation
          /\ resuming' = [resuming EXCEPT ![w] = FALSE]
       \/ Goto(w, "failing") /\ UNCHANGED <<continuation, resuming>>
    /\ UNCHANGED <<status, leaseOwner, leaseExpired, cancelRequested, claims, token, turn,
                   cancelEvent, sandboxVars, keyVars, ledgerVars, bridgeVars, faults>>

(***************************************************************************)
(* The end of a task.                                                      *)
(***************************************************************************)

(* The orchestrator has done with its turns: published, or out of turns. *)
Publish(w) ==
    /\ pc[w] = "ready" /\ ~resuming[w] /\ Fenced(w) /\ ~cancelRequested
    /\ status' = "ended" /\ leaseOwner' = None
    /\ Goto(w, "closing")
    /\ UNCHANGED <<leaseExpired, cancelRequested, continuation, claims, token, turn,
                   resuming, cancelEvent, sandboxVars, keyVars, ledgerVars, bridgeVars,
                   faults>>

(* The sandbox is killed; a failure is logged and left to the sweep. *)
Discard(w) ==
    /\ pc[w] \in {"failing", "closing", "unwinding"}
    /\ Goto(w, IF pc[w] = "failing" THEN "discarded" ELSE "blocking")
    /\ LET s == IF token[w] = None THEN None ELSE place[token[w]] IN
         \/ alive' = alive \ {s} /\ bridge' = BridgesWithout(s) /\ faults' = faults
         \/ s \in alive /\ Fault /\ UNCHANGED <<alive, bridge>>
    /\ UNCHANGED <<runVars, token, turn, resuming, cancelEvent, place, keyVars, ledgerVars,
                   stream, spent, initial, final>>

MarkTerminal(w) ==
    /\ pc[w] = "discarded"
    /\ IF Fenced(w) THEN status' = "ended" /\ leaseOwner' = None /\ continuation' = None
       ELSE UNCHANGED <<status, leaseOwner, continuation>>
    /\ Goto(w, "blocking")
    /\ UNCHANGED <<leaseExpired, cancelRequested, claims, token, turn, resuming,
                   cancelEvent, sandboxVars, keyVars, ledgerVars, bridgeVars, faults>>

(* A resumed turn that cannot go on ends the run before the clean-up. *)
ContinuationUnavailable(w) ==
    /\ pc[w] = "failing" /\ resuming[w]
    /\ IF Fenced(w) THEN status' = "ended" /\ leaseOwner' = None /\ continuation' = None
       ELSE UNCHANGED <<status, leaseOwner, continuation>>
    /\ Goto(w, "closing")
    /\ UNCHANGED <<leaseExpired, cancelRequested, claims, token, turn, resuming,
                   cancelEvent, sandboxVars, keyVars, ledgerVars, bridgeVars, faults>>

LeaveTask(w) ==
    /\ token' = [token EXCEPT ![w] = None]
    /\ turn' = [turn EXCEPT ![w] = None]
    /\ resuming' = [resuming EXCEPT ![w] = FALSE]
    /\ cancelEvent' = [cancelEvent EXCEPT ![w] = "clear"]
    /\ Goto(w, "idle")

(* Revocation is retried and shielded; if it fails the key's TTL remains. *)
BlockKey(w) ==
    /\ pc[w] = "blocking"
    /\ \/ /\ key' = [key EXCEPT ![token[w]] = IF @ = "live" THEN "dead" ELSE @]
          /\ faults' = faults
       \/ key[token[w]] = "live" /\ Fault /\ key' = key
    /\ LeaveTask(w)
    /\ UNCHANGED <<runVars, sandboxVars, credit, ledgerVars, bridgeVars>>

(* The heartbeat could not renew the lease: it cancels the task, except in *)
(* the hand-over of a question.  A running bridge is interrupted.  If the  *)
(* cancellation strikes the clean-up itself the key is not revoked.        *)
HeartbeatStrikes(w) ==
    /\ pc[w] \notin {"idle", "unwinding", "blocking"} /\ ~Fenced(w)
    /\ ~(continuation # None /\ status \in {"waiting_for_user", "queued"})
    /\ IF pc[w] = "closing" THEN LeaveTask(w)
       ELSE Goto(w, "unwinding") /\ UNCHANGED <<token, turn, resuming, cancelEvent>>
    /\ \/ pc[w] = "streaming" /\ bridge' = [bridge EXCEPT ![turn[w]] =
                                              IF @ = "up" THEN "dead" ELSE @]
       \/ pc[w] # "streaming" /\ bridge' = bridge
    /\ UNCHANGED <<runVars, sandboxVars, keyVars, ledgerVars, stream, spent, initial,
                   final, faults>>

(* The process dies: bridge, sandbox and key stay behind. *)
Crash(w) ==
    /\ pc[w] # "idle" /\ Fault /\ LeaveTask(w)
    /\ UNCHANGED <<runVars, sandboxVars, keyVars, ledgerVars, bridgeVars>>

(***************************************************************************)
(* Time and recovery.                                                      *)
(***************************************************************************)

(* A live task renews its lease; it expires only if the process stalls. *)
LeaseExpires ==
    /\ status = "running" /\ ~leaseExpired
    /\ \/ (\A w \in Workers : token[w] # leaseOwner) /\ faults' = faults
       \/ (\E w \in Workers : token[w] = leaseOwner) /\ Fault
    /\ leaseExpired' = TRUE
    /\ UNCHANGED <<status, leaseOwner, cancelRequested, continuation, claims, taskVars,
                   sandboxVars, keyVars, ledgerVars, bridgeVars>>

(* Requeued if a checkpoint can be resumed, otherwise failed. *)
RecoverExpiredRun ==
    /\ status = "running" /\ leaseExpired
    /\ leaseOwner' = None /\ leaseExpired' = FALSE
    /\ \/ /\ status' = "ended" /\ continuation' = None
       \/ /\ ~cancelRequested /\ status' = "queued"
          /\ continuation' = IF continuation = None THEN None ELSE Detached
    /\ UNCHANGED <<cancelRequested, claims, taskVars, sandboxVars, keyVars, ledgerVars,
                   bridgeVars, faults>>

(* The sweep of any worker kills the sandboxes that nothing will use again. *)
Sweep(s) ==
    /\ s \in alive
    /\ status = "ended" \/ (status = "queued" /\ s # continuation)
    /\ alive' = alive \ {s} /\ bridge' = BridgesWithout(s)
    /\ UNCHANGED <<runVars, taskVars, place, keyVars, ledgerVars, stream, spent, initial,
                   final, faults>>

(* The TTL of a key nobody holds any more. *)
KeyExpires(a) ==
    /\ key[a] = "live" /\ \A w \in Workers : token[w] # a
    /\ key' = [key EXCEPT ![a] = "dead"]
    /\ UNCHANGED <<runVars, taskVars, sandboxVars, credit, ledgerVars, bridgeVars, faults>>

(* What a worker does without waiting for the agent. *)
WorkerStep(w) ==
    \/ Escape(w) \/ OpenWorkspace(w) \/ Refused(w) \/ WriteRefused(w) \/ Admit(w)
    \/ IssueKey(w) \/ CheckActive(w) \/ CheckBudget(w) \/ ReserveUsageEntry(w)
    \/ CheckAgain(w) \/ Launch(w) \/ Watch(w) \/ Interrupt(w) \/ CommandTimesOut(w)
    \/ Return(w) \/ SettleUsageEntry(w) \/ CheckAfter(w) \/ WaitForUserInput(w)
    \/ FinishTurn(w) \/ Discard(w) \/ MarkTerminal(w)
    \/ ContinuationUnavailable(w) \/ BlockKey(w)

Next ==
    \/ RequestCancel \/ AnswerUserInput \/ LeaseExpires \/ RecoverExpiredRun
    \/ \E w \in Workers : \/ Claim(w) \/ WorkerStep(w) \/ Publish(w)
                          \/ HeartbeatStrikes(w) \/ TransportBreaks(w) \/ Crash(w)
                          \/ \E kind \in Kinds : Envelope(w, kind)
    \/ \E t \in Turns : Charge(t)
    \/ \E a \in Attempts : Sweep(a) \/ KeyExpires(a)

Spec == Init /\ [][Next]_vars

(* Polling and clean-up go on by themselves; the agent and the user need not. *)
FairSpec ==
    /\ Spec
    /\ WF_vars(LeaseExpires) /\ WF_vars(RecoverExpiredRun)
    /\ \A w \in Workers : WF_vars(WorkerStep(w))
    /\ \A a \in Attempts : WF_vars(Sweep(a))

(***************************************************************************)
(* Properties.                                                             *)
(***************************************************************************)

Labels == {"idle", "claimed", "opened", "admitted", "ready", "checked", "funded",
           "reserved", "clear", "streaming", "returned", "settled", "public", "failing",
           "discarded", "closing", "unwinding", "blocking"}

(* The values every variable may take. *)
AgentTypeOK ==
    /\ status \in {"queued", "running", "waiting_for_user", "ended"}
    /\ leaseOwner \in Attempts \cup {None}
    /\ leaseExpired \in BOOLEAN /\ cancelRequested \in BOOLEAN /\ blind \in BOOLEAN
    /\ continuation \in Attempts \cup {None, Detached}
    /\ claims \in 0 .. MaxAttempts /\ turns \in 0 .. MaxTurns /\ faults \in 0 .. MaxFaults
    /\ token \in [Workers -> Attempts \cup {None}]
    /\ pc \in [Workers -> Labels]
    /\ turn \in [Workers -> Turns \cup {None}]
    /\ resuming \in [Workers -> BOOLEAN]
    /\ cancelEvent \in [Workers -> {"clear", "set", "stuck"}]
    /\ place \in [Attempts -> Attempts \cup {None}] /\ alive \subseteq Attempts
    /\ key \in [Attempts -> {"none", "live", "dead"}]
    /\ credit \in [Attempts -> 0 .. MaxSpend]
    /\ owner \in [Turns -> Attempts \cup {None}]
    /\ entry \in [Turns -> {"none", "reserved", "settled"}]
    /\ cost \in [Turns -> 0 .. MaxSpend] /\ spent \in [Turns -> 0 .. MaxSpend]
    /\ bridge \in [Turns -> {"none", "up", "done", "dead"}]
    /\ initial \in [Turns -> Nat] /\ final \in [Turns -> Nat]

(* At most one bridge of a run is at work, whatever worker started it: no  *)
(* attempt edits or pays beside a stalled or crashed one.                  *)
OneBridge ==
    \A t, u \in Turns : bridge[t] = "up" /\ bridge[u] = "up" => t = u

(* A settled entry holds what the provider charged for exactly that turn,  *)
(* although the session's counters run on over turns, attempts and workers.*)
SettledIsCharged ==
    \A t \in Turns : entry[t] = "settled" => cost[t] = spent[t]

(* The run stays within its spend limit over all its attempts, provided no *)
(* key was bought while a turn's cost was unknown to the ledger.           *)
SpendIsBoundedUnlessBlind == ~blind => TotalSpent <= MaxSpend

(* What a run pays is in its ledger, turn by turn, and within its limit as *)
(* far as the ledger can see (reserve_ and settle_usage_entry, the budget).*)
SpendIsAccounted ==
    AgentTypeOK /\ SettledIsCharged /\ SpendIsBoundedUnlessBlind

(* The run stays within its spend limit over all its attempts. *)
SpendIsBounded == TotalSpent <= MaxSpend

(* Once a run is cancelled or has ended, its paid work stops for good:     *)
(* watcher, clean-up, recovery and sweep between them reach every bridge.  *)
PaidWorkStops ==
    (cancelRequested \/ status = "ended") ~> [](\A t \in Turns : bridge[t] # "up")
=============================================================================
