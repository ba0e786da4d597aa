------------------------------ MODULE GoalGraph ------------------------------
(***************************************************************************)
(* The goals behind RunControl's count of checkpoints: the status of every *)
(* node of a run's GoalGraph, and the transactions with which the          *)
(* orchestrator takes up, claims, checkpoints and fails one goal after the *)
(* other.  Goals are numbered by position.  RunControl is refined: every   *)
(* step here is one of its steps or leaves its variables unchanged.        *)
(***************************************************************************)
EXTENDS RunControl, FiniteSets

CONSTANT DependsOn      \* GoalDraft.depends_on, for every goal

GoalIds == 1 .. Goals
NoGoal == 0

(* _validate_goal_topology: dependencies reference earlier goals.          *)
TopologyAssumption ==
    /\ DependsOn \in [GoalIds -> SUBSET GoalIds]
    /\ \A g \in GoalIds : \A d \in DependsOn[g] : d < g

ASSUME TopologyAssumption

Current == {"active", "claimed"}
Open == {"pending"} \cup Current
GoalStatus == {"absent", "verified", "failed", "superseded"} \cup Open

(* What transition_goal_status admits; anything else raises and rolls back.*)
Transitions ==
    [from \in GoalStatus |->
        CASE from = "pending" -> {"active", "superseded"}
          [] from = "active"  -> {"claimed", "failed", "superseded"}
          [] from = "claimed" -> {"active", "verified", "failed", "superseded"}
          [] OTHER            -> {}]

VARIABLE node       \* GoalNodeRecord.status, by run and position

goalVars == <<vars, node>>

GoalInit == Init /\ node = [r \in Runs |-> [g \in GoalIds |-> "absent"]]

-----------------------------------------------------------------------------
(* Helpers.                                                                *)

Transit(r, g, to) ==
    /\ to \in Transitions[node[r][g]]
    /\ node' = [node EXCEPT ![r][g] = to]

CurrentGoals(r) == {g \in GoalIds : node[r][g] \in Current}

ProjectHasCurrentGoal == \E r \in Runs : CurrentGoals(r) # {}

Executable(nodes) ==
    {g \in GoalIds : /\ nodes[g] = "pending"
                     /\ \A d \in DependsOn[g] : nodes[d] = "verified"}

(* The first pending goal, in graph order, whose dependencies are verified.*)
NextEligibleGoal(nodes) == Oldest(Executable(nodes))

MutantRetireEveryNode(nodes, current) ==
    [g \in GoalIds |-> IF nodes[g] \in Current THEN current ELSE "superseded"]

(* Closing a graph: current goals become `current', pending ones never ran.*)
Retire(nodes, current) ==
    [g \in GoalIds |-> CASE nodes[g] \in Current   -> current
                         [] nodes[g] = "pending"   -> "superseded"
                         [] OTHER                  -> nodes[g]]

-----------------------------------------------------------------------------
(* Goal transactions of the worker.                                        *)

MutantPersistGraphKeepsOldGoals(w) ==
    /\ CreateGoalGraph(w)
    /\ node' = [node EXCEPT ![taskRun[w]] = [g \in GoalIds |-> "pending"]]

(* The new graph is pending throughout; the active graphs of ended runs are*)
(* superseded with their open goals in the same transaction.               *)
PersistGoalGraph(w) ==
    /\ CreateGoalGraph(w)
    /\ node' = [r \in Runs |->
                   IF r = taskRun[w] THEN [g \in GoalIds |-> "pending"]
                   ELSE IF graph[r] = "active" THEN Retire(node[r], "superseded")
                   ELSE node[r]]

MutantActivateBesideCurrent(w) ==
    LET r == taskRun[w]
        g == NextEligibleGoal(node[r])
    IN  /\ Advancing(w)
        /\ graph[r] = "active"
        /\ g # NoGoal
        /\ Transit(r, g, "active")
        /\ UNCHANGED vars

(* The orchestrator takes up the next goal only when the run has no current*)
(* one; activate_goal refuses while any run of the project has one.        *)
ActivateGoal(w) ==
    LET r == taskRun[w]
        g == NextEligibleGoal(node[r])
    IN  /\ Advancing(w)
        /\ graph[r] = "active"
        /\ g # NoGoal
        /\ ~ProjectHasCurrentGoal
        /\ Transit(r, g, "active")
        /\ UNCHANGED vars

ClaimGoal(w, g) ==
    LET r == taskRun[w]
    IN  /\ Advancing(w)
        /\ graph[r] = "active"
        /\ Transit(r, g, "claimed")
        /\ UNCHANGED vars

(* An audit or a verification failed, or the run was recovered: claimed    *)
(* work becomes executable again.                                          *)
ResumeGoal(w, g) ==
    LET r == taskRun[w]
    IN  /\ Advancing(w)
        /\ graph[r] = "active"
        /\ node[r][g] = "claimed"
        /\ Transit(r, g, "active")
        /\ UNCHANGED vars

MutantCheckpointLeavesNextPending(w, g) ==
    LET r == taskRun[w]
        verified == [node[r] EXCEPT ![g] = "verified"]
    IN  /\ Advancing(w)
        /\ ~cancelRequested[r]
        /\ graph[r] = "active"
        /\ "verified" \in Transitions[node[r][g]]
        /\ checkpoints' = [checkpoints EXCEPT ![r] = @ + 1]
        /\ node' = [node EXCEPT ![r] = verified]
        /\ graph' = [graph EXCEPT ![r] =
                        IF \A h \in GoalIds : verified[h] = "verified" THEN "verified" ELSE @]
        /\ UNCHANGED <<lifecycle, lease, project, published, dialogue, tasks, faults>>

(* One transaction checkpoints the claimed goal and activates the next; if *)
(* none is left every goal must be verified, and the graph is.             *)
CheckpointGoal(w, g) ==
    LET r == taskRun[w]
        verified == [node[r] EXCEPT ![g] = "verified"]
        next == NextEligibleGoal(verified)
    IN  /\ Advancing(w)
        /\ ~cancelRequested[r]
        /\ graph[r] = "active"
        /\ "verified" \in Transitions[node[r][g]]
        /\ checkpoints' = [checkpoints EXCEPT ![r] = @ + 1]
        /\ \/ /\ next = NoGoal
              /\ \A h \in GoalIds : verified[h] = "verified"
              /\ node' = [node EXCEPT ![r] = verified]
              /\ graph' = [graph EXCEPT ![r] = "verified"]
           \/ /\ next # NoGoal
              /\ node' = [node EXCEPT ![r] = [verified EXCEPT ![next] = "active"]]
              /\ UNCHANGED graph
        /\ UNCHANGED <<lifecycle, lease, project, published, dialogue, tasks, faults>>

(* fail_goal: the goal and the graph fail, later goals keep their status;  *)
(* the terminalize_goal_graph that follows finds the graph failed already. *)
FailGoal(w, g) ==
    LET r == taskRun[w]
    IN  /\ Working(w)
        /\ graph[r] = "active"
        /\ Transit(r, g, "failed")
        /\ graph' = [graph EXCEPT ![r] = "failed"]
        /\ UNCHANGED <<lifecycle, lease, checkpoints, project, published, dialogue, tasks, faults>>

MutantTerminalizeCopiesGraphStatus(w, to) ==
    LET r == taskRun[w]
    IN  /\ Working(w)
        /\ graph[r] = "active"
        /\ to \in {"failed", "cancelled"}
        /\ to = "cancelled" => cancelRequested[r]
        /\ node' = [node EXCEPT ![r] = Retire(@, to)]
        /\ graph' = [graph EXCEPT ![r] = to]
        /\ UNCHANGED <<lifecycle, lease, checkpoints, project, published, dialogue, tasks, faults>>

MutantTerminalizeVerifiedGraph(w, to) ==
    LET r == taskRun[w]
    IN  /\ Working(w)
        /\ graph[r] \notin {"none", to}
        /\ to \in {"failed", "cancelled"}
        /\ to = "cancelled" => cancelRequested[r]
        /\ node' = [node EXCEPT ![r] =
                       Retire(@, IF to = "failed" THEN "failed" ELSE "superseded")]
        /\ graph' = [graph EXCEPT ![r] = to]
        /\ UNCHANGED <<lifecycle, lease, checkpoints, project, published, dialogue, tasks, faults>>

TerminalizeGoalGraph(w, to) ==
    LET r == taskRun[w]
    IN  /\ Working(w)
        /\ graph[r] = "active"
        /\ to \in {"failed", "cancelled"}
        /\ to = "cancelled" => cancelRequested[r]
        /\ node' = [node EXCEPT ![r] =
                       Retire(@, IF to = "failed" THEN "failed" ELSE "superseded")]
        /\ graph' = [graph EXCEPT ![r] = to]
        /\ UNCHANGED <<lifecycle, lease, checkpoints, project, published, dialogue, tasks, faults>>

(* A turn, and so a question, runs before the graph exists or on its one   *)
(* active goal.                                                            *)
AskInTurn(w) ==
    /\ WaitForUserInput(w)
    /\ graph[taskRun[w]] = "active" =>
          \E g \in GoalIds : node[taskRun[w]][g] = "active"
    /\ UNCHANGED node

-----------------------------------------------------------------------------
(* Lease recovery looks for the current goal itself.                       *)

ResumableAtGoal(r, intact) ==
    /\ graph[r] \in {"active", "verified"}
    /\ checkpoints[r] > 0
    /\ intact
    /\ graph[r] = "verified" \/ CurrentGoals(r) # {}
    /\ ~cancelRequested[r]

RecoverGoals(r, intact) ==
    /\ \E w \in Workers : taskRun[w] = NoRun
    /\ status[r] = "running"
    /\ leaseExpired[r]
    /\ \/ /\ ResumableAtGoal(r, intact)
          /\ RequeueExpired(r)
          /\ UNCHANGED node
       \/ /\ ~ResumableAtGoal(r, intact)
          /\ FailExpired(r)
          /\ node' = [node EXCEPT ![r] =
                IF graph[r] # "active" THEN @
                ELSE Retire(@, IF cancelRequested[r] THEN "superseded" ELSE "failed")]
    /\ ReleaseLease(r)
    /\ UNCHANGED <<created, cancelRequested, baseVersion, published, tasks, faults>>

-----------------------------------------------------------------------------

GoalStep(w) ==
    \/ PersistGoalGraph(w)
    \/ ActivateGoal(w)
    \/ \E g \in GoalIds :
        ClaimGoal(w, g) \/ ResumeGoal(w, g) \/ CheckpointGoal(w, g) \/ FailGoal(w, g)
    \/ \E to \in {"failed", "cancelled"} : TerminalizeGoalGraph(w, to)
    \/ AskInTurn(w)

(* The steps of RunControl that no goal takes part in.                     *)
OtherStep(w) ==
    \/ CompleteRunContinuation(w)
    \/ \E to \in {"failed", "needs_attention"} : MarkTerminal(w, to)
    \/ FinalizeVerifiedPublish(w)
    \/ LeaveTask(w) \/ EscapeTask(w) \/ CrashWorker(w)

GoalNext ==
    \/ \E w \in Workers : GoalStep(w) \/ (OtherStep(w) /\ UNCHANGED node)
    \/ \E r \in Runs, intact \in BOOLEAN : RecoverGoals(r, intact)
    \/ (Request \/ Claim) /\ UNCHANGED node
    \/ (\E r \in Runs : LeaseExpires(r)) /\ UNCHANGED node

GoalSpec == GoalInit /\ [][GoalNext]_goalVars

-----------------------------------------------------------------------------
(* Safety.                                                                 *)

(* Node statuses keep their type.                                          *)
GoalTypeOK == node \in [Runs -> [GoalIds -> GoalStatus]]

(* One goal of the project is worked on at a time.  activate_goal checks   *)
(* it, but a checkpoint activates the next goal without looking beyond its *)
(* own graph, and recovery returns a run to the queue with its goal.       *)
OneCurrentGoal ==
    \A r, s \in Runs : \A g \in CurrentGoals(r), h \in CurrentGoals(s) :
        r = s /\ g = h

(* The worker of an active graph always finds work: it has a current goal, *)
(* or one is executable and no stale goal of an earlier run forbids taking *)
(* it up.  No sequence of crashes, cancellations and questions blocks it.  *)
WorkerIsNeverBlocked ==
    \A w \in Workers :
        Advancing(w) /\ graph[taskRun[w]] = "active" =>
            \/ CurrentGoals(taskRun[w]) # {}
            \/ Executable(node[taskRun[w]]) # {} /\ ~ProjectHasCurrentGoal

(* What lease recovery relies on when it requeues a run: between two       *)
(* checkpoints of an active graph there is always a goal to resume.        *)
CheckpointedGraphHasCurrentGoal ==
    \A r \in Runs : graph[r] = "active" /\ checkpoints[r] > 0 => CurrentGoals(r) # {}

(* What the stored graphs of a project agree on, so that recovery and the  *)
(* one-current-goal index find them as they expect.                        *)
GoalInvariant ==
    GoalTypeOK /\ OneCurrentGoal /\ CheckpointedGraphHasCurrentGoal

(* Checkpoints and verified goals are the same, whatever happens to the    *)
(* graph afterwards, and a verified goal rests on verified goals; a graph  *)
(* is verified when all of them are, never before.                         *)
CheckpointsAreVerifiedGoals ==
    \A r \in Runs :
        LET verified == {g \in GoalIds : node[r][g] = "verified"}
        IN  /\ checkpoints[r] = Cardinality(verified)
            /\ \A g \in verified : DependsOn[g] \subseteq verified
            /\ graph[r] = "verified" <=> verified = GoalIds
=============================================================================
