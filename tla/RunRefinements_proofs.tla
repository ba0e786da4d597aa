----------------------- MODULE RunRefinements_proofs -----------------------
(***************************************************************************)
(* Proofs about the two components that implement RunControl, each adding  *)
(* to a run what its transactions also write: GoalGraph the goals behind   *)
(* its checkpoints, SandboxCustody the sandboxes that its workers and the  *)
(* sweep hold, use and clean up.                                           *)
(*                                                                         *)
(* Of the goals, for every number of them and every topology that          *)
(* _validate_goal_topology admits: the graphs that are stored keep what    *)
(* claims, checkpoints and lease recovery expect of them.                  *)
(*                                                                         *)
(* Of the sandboxes, for every number of workers, runs and sandboxes: the  *)
(* worker that passes the write fence holds every resource of its run, and *)
(* the sweep, whose targets may be old, spares what is still needed.       *)
(***************************************************************************)
EXTENDS GoalGraph, SandboxCustody, RunControl_proofs, FiniteSetTheorems

-----------------------------------------------------------------------------
(* The goals: the inductive invariant.                                     *)

Verified(nodes) == {g \in GoalIds : nodes[g] = "verified"}

(* What the goals, the status and the checkpoints of one graph have to do  *)
(* with each other.  Each part is needed to carry another one over a step: *)
(* a checkpoint counts right because its goal was not verified yet, the    *)
(* goal rests on verified goals because it was executable when it was      *)
(* taken up, and the next one is the only current goal because the         *)
(* checkpointed one was.                                                   *)
GraphAgrees(nodes, state, count) ==
    /\ nodes \in [GoalIds -> GoalStatus]
    /\ state = "none" => count = 0 /\ \A g \in GoalIds : nodes[g] = "absent"
    /\ state = "active" => \A g \in GoalIds : nodes[g] \in Open \cup {"verified"}
    /\ \A g \in GoalIds : nodes[g] \in Current => state = "active"
    /\ \A g, h \in GoalIds : nodes[g] \in Current /\ nodes[h] \in Current => g = h
    /\ \A g \in GoalIds : nodes[g] \in Current \cup {"verified"} =>
          \A d \in DependsOn[g] : nodes[d] = "verified"
    /\ state = "active" /\ count > 0 => \E g \in GoalIds : nodes[g] \in Current
    /\ count = Cardinality(Verified(nodes))
    /\ state = "verified" <=> Verified(nodes) = GoalIds

GraphsAgree ==
    /\ GoalTypeOK
    /\ \A r \in Runs : GraphAgrees(node[r], graph[r], checkpoints[r])

GoalIInv ==
    /\ TypeOK
    /\ WriterInv
    /\ OneActiveGraph
    /\ GraphsAgree

-----------------------------------------------------------------------------
(* Lemmas about the operators on goals.                                    *)

(* The goal the orchestrator takes up next is executable.                  *)
LEMMA EligibleIsExecutable ==
    ASSUME NEW nodes, NextEligibleGoal(nodes) # NoGoal
    PROVE  NextEligibleGoal(nodes) \in Executable(nodes)
<1>1. Executable(nodes) \in SUBSET Nat
  BY BoundsAssumption DEF Executable, GoalIds
<1>2. Executable(nodes) # {}
  BY DEF NextEligibleGoal, Oldest, NoGoal, NoRun
<1> QED
  BY <1>1, <1>2, OldestIsLeast DEF NextEligibleGoal

(* Dependencies are goals of the same graph.                               *)
LEMMA DependenciesAreGoals ==
    \A g \in GoalIds : DependsOn[g] \subseteq GoalIds
BY TopologyAssumption DEF TopologyAssumption

(* The goals of a graph, and any part of them, can be counted.             *)
LEMMA GoalsAreFinite ==
    /\ IsFiniteSet(GoalIds)
    /\ Cardinality(GoalIds) = Goals
    /\ \A nodes : IsFiniteSet(Verified(nodes)) /\ Cardinality(Verified(nodes)) \in Nat
<1>1. IsFiniteSet(GoalIds) /\ Cardinality(GoalIds) = Goals
  BY FS_Interval, BoundsAssumption DEF GoalIds
<1>2. ASSUME NEW nodes PROVE IsFiniteSet(Verified(nodes)) /\ Cardinality(Verified(nodes)) \in Nat
  <2>1. Verified(nodes) \subseteq GoalIds
    BY DEF Verified
  <2>2. IsFiniteSet(Verified(nodes))
    BY <1>1, <2>1, FS_Subset
  <2> QED
    BY <2>2, FS_CardinalityType
<1> QED
  BY <1>1, <1>2

(* Verifying one more goal adds one to the count; the count reaches the    *)
(* number of goals exactly when no goal is left.                           *)
LEMMA CountGrowsByOne ==
    ASSUME NEW before, NEW after, NEW g \in GoalIds,
           before[g] # "verified",
           Verified(after) = Verified(before) \cup {g}
    PROVE  /\ Cardinality(Verified(after)) = Cardinality(Verified(before)) + 1
           /\ Cardinality(Verified(after)) = Goals <=> Verified(after) = GoalIds
<1>1. g \notin Verified(before)
  BY DEF Verified
<1>2. Cardinality(Verified(after)) = Cardinality(Verified(before)) + 1
  BY <1>1, GoalsAreFinite, FS_AddElement
<1>3. Verified(after) \subseteq GoalIds
  BY DEF Verified
<1>4. Verified(after) # GoalIds => Cardinality(Verified(after)) < Cardinality(GoalIds)
  <2>1. Cardinality(Verified(after)) \in Nat /\ Cardinality(GoalIds) \in Nat
    BY GoalsAreFinite, BoundsAssumption
  <2>2. /\ Cardinality(Verified(after)) <= Cardinality(GoalIds)
        /\ Cardinality(GoalIds) = Cardinality(Verified(after)) => GoalIds = Verified(after)
    BY <1>3, GoalsAreFinite, FS_Subset
  <2> QED
    BY <2>1, <2>2
<1>5. Verified(after) = GoalIds => Cardinality(Verified(after)) = Goals
  BY GoalsAreFinite
<1>6. Cardinality(Verified(after)) \in Nat /\ Goals \in Nat /\ Cardinality(GoalIds) = Goals
  BY GoalsAreFinite, BoundsAssumption
<1> QED
  BY <1>2, <1>4, <1>5, <1>6

-----------------------------------------------------------------------------
(* What each transaction makes of one graph.                               *)

(* create_goal_graph stores every goal as pending.                         *)
LEMMA PersistAgrees ==
    ASSUME NEW nodes, NEW count, GraphAgrees(nodes, "none", count)
    PROVE  GraphAgrees([g \in GoalIds |-> "pending"], "active", count)
<1> DEFINE fresh == [g \in GoalIds |-> "pending"]
<1>1. fresh \in [GoalIds -> GoalStatus] /\ \A g \in GoalIds : fresh[g] \in Open
  BY DEF GoalStatus, Open
<1>2. Verified(fresh) = {} /\ Verified(nodes) = {}
  BY DEF Verified, GraphAgrees
<1>3. GoalIds # {}
  BY BoundsAssumption DEF GoalIds
<1>4. count = 0
  BY DEF GraphAgrees
<1>5. \A g \in GoalIds : fresh[g] \notin Current \cup {"verified"}
  BY DEF Current
<1> HIDE DEF fresh
<1>6. count = Cardinality(Verified(fresh))
  BY <1>2 DEF GraphAgrees
<1>7. GraphAgrees(fresh, "active", count)
  BY <1>1, <1>2, <1>3, <1>4, <1>5, <1>6 DEF GraphAgrees
<1> QED
  BY <1>7 DEF fresh

(* Closing an active graph retires its open goals and keeps the verified.  *)
LEMMA RetireAgrees ==
    ASSUME NEW nodes, NEW count, GraphAgrees(nodes, "active", count),
           NEW state \in {"failed", "cancelled", "superseded"},
           NEW current \in {"failed", "superseded"}
    PROVE  GraphAgrees(Retire(nodes, current), state, count)
<1> DEFINE retired == Retire(nodes, current)
<1>0. nodes \in [GoalIds -> GoalStatus]
  BY DEF GraphAgrees
<1>1. /\ retired \in [GoalIds -> GoalStatus]
      /\ \A g \in GoalIds : retired[g] \notin Current
      /\ \A g \in GoalIds : retired[g] = "verified" <=> nodes[g] = "verified"
  BY <1>0 DEF Retire, GoalStatus, Current, Open
<1> HIDE DEF retired
<1>2. Verified(retired) = Verified(nodes)
  BY <1>1 DEF Verified
<1>3. \A g \in GoalIds : retired[g] = "verified" =>
          \A d \in DependsOn[g] : retired[d] = "verified"
  <2>1. \A g \in GoalIds : nodes[g] = "verified" => \A d \in DependsOn[g] : nodes[d] = "verified"
    BY DEF GraphAgrees
  <2> QED
    BY <1>1, <2>1, DependenciesAreGoals
<1>4. retired \in [GoalIds -> GoalStatus] /\ \A g \in GoalIds : retired[g] \notin Current
  BY <1>1
<1>5. count = Cardinality(Verified(retired)) /\ Verified(retired) # GoalIds
  BY <1>2 DEF GraphAgrees
<1>6. GraphAgrees(retired, state, count)
  BY <1>3, <1>4, <1>5 DEF GraphAgrees
<1> QED
  BY <1>6 DEF retired

(* activate_goal takes up an executable goal when no other is current.     *)
LEMMA ActivateAgrees ==
    ASSUME NEW nodes, NEW count, GraphAgrees(nodes, "active", count),
           NEW g \in Executable(nodes),
           \A h \in GoalIds : nodes[h] \notin Current
    PROVE  GraphAgrees([nodes EXCEPT ![g] = "active"], "active", count)
<1> DEFINE after == [nodes EXCEPT ![g] = "active"]
<1>1. g \in GoalIds /\ nodes[g] = "pending" /\ \A d \in DependsOn[g] : nodes[d] = "verified"
  BY DEF Executable
<1>2. /\ after \in [GoalIds -> GoalStatus]
      /\ after[g] = "active"
      /\ \A h \in GoalIds \ {g} : after[h] = nodes[h]
  BY <1>1 DEF GraphAgrees, GoalStatus, Open, Current
<1> HIDE DEF after
<1>3. Verified(after) = Verified(nodes)
  BY <1>1, <1>2 DEF Verified
<1>4. \A h \in GoalIds : after[h] \in Current \cup {"verified"} =>
          \A d \in DependsOn[h] : after[d] = "verified"
  <2>1. \A h \in GoalIds : nodes[h] \in Current \cup {"verified"} =>
            \A d \in DependsOn[h] : nodes[d] = "verified"
    BY DEF GraphAgrees
  <2> QED
    BY <1>1, <1>2, <2>1, DependenciesAreGoals
<1>5. GraphAgrees(after, "active", count)
  BY <1>1, <1>2, <1>3, <1>4 DEF GraphAgrees, Open, Current
<1> QED
  BY <1>5 DEF after

(* Claiming a goal, and resuming it after a failed audit or verification,  *)
(* keep it the one current goal.                                           *)
LEMMA SwitchAgrees ==
    ASSUME NEW nodes, NEW count, GraphAgrees(nodes, "active", count),
           NEW g \in GoalIds, nodes[g] \in Current,
           NEW to \in Current
    PROVE  GraphAgrees([nodes EXCEPT ![g] = to], "active", count)
<1> DEFINE after == [nodes EXCEPT ![g] = to]
<1>1. /\ after \in [GoalIds -> GoalStatus]
      /\ after[g] = to
      /\ \A h \in GoalIds \ {g} : after[h] = nodes[h]
  BY DEF GraphAgrees, GoalStatus, Open, Current
<1> HIDE DEF after
<1>2. Verified(after) = Verified(nodes)
  BY <1>1 DEF Verified, Current
<1>3. \A h \in GoalIds : after[h] \in Current \cup {"verified"} =>
          \A d \in DependsOn[h] : after[d] = "verified"
  <2>1. \A h \in GoalIds : nodes[h] \in Current \cup {"verified"} =>
            \A d \in DependsOn[h] : nodes[d] = "verified"
    BY DEF GraphAgrees
  <2> QED
    BY <1>1, <2>1, DependenciesAreGoals DEF Current
<1>4. GraphAgrees(after, "active", count)
  BY <1>1, <1>2, <1>3 DEF GraphAgrees, Open, Current
<1> QED
  BY <1>4 DEF after

(* fail_goal ends the graph with its goal.                                 *)
LEMMA FailAgrees ==
    ASSUME NEW nodes, NEW count, GraphAgrees(nodes, "active", count),
           NEW g \in GoalIds, nodes[g] \in Current
    PROVE  GraphAgrees([nodes EXCEPT ![g] = "failed"], "failed", count)
<1> DEFINE after == [nodes EXCEPT ![g] = "failed"]
<1>1. /\ after \in [GoalIds -> GoalStatus]
      /\ after[g] = "failed"
      /\ \A h \in GoalIds \ {g} : after[h] = nodes[h]
  BY DEF GraphAgrees, GoalStatus
<1> HIDE DEF after
<1>2. Verified(after) = Verified(nodes)
  BY <1>1 DEF Verified, Current
<1>3. \A h \in GoalIds : after[h] \notin Current
  BY <1>1 DEF GraphAgrees, Current
<1>4. \A h \in GoalIds : after[h] = "verified" => \A d \in DependsOn[h] : after[d] = "verified"
  <2>1. \A h \in GoalIds : nodes[h] = "verified" => \A d \in DependsOn[h] : nodes[d] = "verified"
    BY DEF GraphAgrees
  <2> QED
    BY <1>1, <2>1, DependenciesAreGoals DEF Current
<1>5. GraphAgrees(after, "failed", count)
  BY <1>1, <1>2, <1>3, <1>4 DEF GraphAgrees
<1> QED
  BY <1>5 DEF after

(* The checkpoint of the current goal: it was not verified before, so the  *)
(* count grows with the goals, and nothing is current until the next goal  *)
(* is taken up.                                                            *)
LEMMA VerifyingOne ==
    ASSUME NEW nodes, NEW count, GraphAgrees(nodes, "active", count),
           NEW g \in GoalIds, nodes[g] \in Current,
           NEW verified, verified = [nodes EXCEPT ![g] = "verified"]
    PROVE  /\ verified \in [GoalIds -> GoalStatus]
           /\ \A h \in GoalIds : verified[h] \in {"pending", "verified"}
           /\ \A h \in GoalIds : verified[h] = "verified" =>
                 \A d \in DependsOn[h] : verified[d] = "verified"
           /\ count \in Nat
           /\ count + 1 = Cardinality(Verified(verified))
           /\ count + 1 = Goals <=> Verified(verified) = GoalIds
<1>1. /\ verified \in [GoalIds -> GoalStatus]
      /\ verified[g] = "verified"
      /\ \A h \in GoalIds \ {g} : verified[h] = nodes[h]
  BY DEF GraphAgrees, GoalStatus
<1>2. \A h \in GoalIds : verified[h] \in {"pending", "verified"}
  BY <1>1 DEF GraphAgrees, Open, Current
<1>3. \A h \in GoalIds : verified[h] = "verified" => \A d \in DependsOn[h] : verified[d] = "verified"
  <2>1. \A h \in GoalIds : nodes[h] \in Current \cup {"verified"} =>
            \A d \in DependsOn[h] : nodes[d] = "verified"
    BY DEF GraphAgrees
  <2> QED
    BY <1>1, <2>1, DependenciesAreGoals
<1>4. Verified(verified) = Verified(nodes) \cup {g}
  BY <1>1 DEF Verified
<1>5. nodes[g] # "verified" /\ count = Cardinality(Verified(nodes))
  BY DEF GraphAgrees, Current
<1>6. count \in Nat
  BY <1>5, GoalsAreFinite
<1> QED
  BY <1>1, <1>2, <1>3, <1>4, <1>5, <1>6, CountGrowsByOne

(* record_verified_checkpoint, when no goal is left.                       *)
LEMMA LastCheckpointAgrees ==
    ASSUME NEW nodes, NEW count, GraphAgrees(nodes, "active", count),
           NEW g \in GoalIds, nodes[g] \in Current,
           NEW verified, verified = [nodes EXCEPT ![g] = "verified"],
           \A h \in GoalIds : verified[h] = "verified"
    PROVE  GraphAgrees(verified, "verified", count + 1) /\ count + 1 = Goals
<1>1. Verified(verified) = GoalIds
  BY DEF Verified
<1>2. /\ verified \in [GoalIds -> GoalStatus]
      /\ \A h \in GoalIds : verified[h] = "verified" =>
            \A d \in DependsOn[h] : verified[d] = "verified"
  BY DependenciesAreGoals DEF GraphAgrees, GoalStatus
<1>3. /\ count + 1 = Cardinality(Verified(verified))
      /\ count + 1 = Goals <=> Verified(verified) = GoalIds
  BY VerifyingOne
<1>4. GraphAgrees(verified, "verified", count + 1)
  BY <1>1, <1>2, <1>3 DEF GraphAgrees, Current
<1> QED
  BY <1>1, <1>3, <1>4

(* record_verified_checkpoint, when it takes up the next goal.             *)
LEMMA NextCheckpointAgrees ==
    ASSUME NEW nodes, NEW count, GraphAgrees(nodes, "active", count),
           NEW g \in GoalIds, nodes[g] \in Current,
           NEW verified, verified = [nodes EXCEPT ![g] = "verified"],
           NEW next \in Executable(verified)
    PROVE  /\ GraphAgrees([verified EXCEPT ![next] = "active"], "active", count + 1)
           /\ count + 1 # Goals
<1> DEFINE after == [verified EXCEPT ![next] = "active"]
<1>1. /\ next \in GoalIds
      /\ verified[next] = "pending"
      /\ \A d \in DependsOn[next] : verified[d] = "verified"
  BY DEF Executable
<1>2. /\ verified \in [GoalIds -> GoalStatus]
      /\ \A h \in GoalIds : verified[h] \in {"pending", "verified"}
      /\ \A h \in GoalIds : verified[h] = "verified" =>
            \A d \in DependsOn[h] : verified[d] = "verified"
      /\ count + 1 = Cardinality(Verified(verified))
      /\ count + 1 = Goals <=> Verified(verified) = GoalIds
  BY VerifyingOne
<1>3. /\ after \in [GoalIds -> GoalStatus]
      /\ after[next] = "active"
      /\ \A h \in GoalIds \ {next} : after[h] = verified[h]
  BY <1>1, <1>2 DEF GoalStatus, Open, Current
<1> HIDE DEF after
<1>4. Verified(after) = Verified(verified) /\ Verified(verified) # GoalIds
  BY <1>1, <1>3 DEF Verified
<1>5. \A h \in GoalIds : after[h] \in Current <=> h = next
  BY <1>1, <1>2, <1>3 DEF Current
<1>6. \A h \in GoalIds : after[h] \in Current \cup {"verified"} =>
          \A d \in DependsOn[h] : after[d] = "verified"
  BY <1>1, <1>2, <1>3, <1>5, DependenciesAreGoals
<1>7. \A h \in GoalIds : after[h] \in Open \cup {"verified"}
  BY <1>2, <1>3, <1>1 DEF Open, Current
<1>8. GraphAgrees(after, "active", count + 1)
  BY <1>1, <1>2, <1>3, <1>4, <1>5, <1>6, <1>7 DEF GraphAgrees
<1> QED
  BY <1>2, <1>4, <1>8 DEF after

(* What transition_goal_status admits.                                     *)
LEMMA AdmittedTransitions ==
    ASSUME NEW from \in GoalStatus
    PROVE  /\ "active" \in Transitions[from] => from \in {"pending", "claimed"}
           /\ "claimed" \in Transitions[from] => from = "active"
           /\ "verified" \in Transitions[from] => from = "claimed"
           /\ "failed" \in Transitions[from] => from \in Current
BY DEF Transitions, Current

-----------------------------------------------------------------------------
(* Every step of GoalGraph is a step of RunControl, and keeps the graphs   *)
(* in agreement.  The two are shown together: a checkpoint is RunControl's *)
(* because the count agrees with the goals, and recovery requeues the run  *)
(* RunControl requeues because a checkpointed graph has a current goal.    *)

(* A step that touches no graph keeps them in agreement.                   *)
LEMMA UntouchedGraphsAgree ==
    ASSUME GraphsAgree, UNCHANGED <<graph, checkpoints, node>>
    PROVE  GraphsAgree'
BY DEF GraphsAgree, GoalTypeOK

(* A step that touches one run's graph keeps them in agreement if that one *)
(* agrees.                                                                 *)
LEMMA OneGraphAgrees ==
    ASSUME GraphsAgree, NEW r \in Runs, node' = [s \in Runs |-> node'[s]],
           \A s \in Runs \ {r} : /\ node'[s] = node[s]
                                 /\ graph'[s] = graph[s]
                                 /\ checkpoints'[s] = checkpoints[s],
           GraphAgrees(node'[r], graph'[r], checkpoints'[r])
    PROVE  GraphsAgree'
<1>1. \A s \in Runs : GraphAgrees(node'[s], graph'[s], checkpoints'[s])
  BY DEF GraphsAgree
<1>2. \A s \in Runs : node'[s] \in [GoalIds -> GoalStatus]
  BY <1>1 DEF GraphAgrees
<1> QED
  BY <1>1, <1>2 DEF GraphsAgree, GoalTypeOK

(* The requests, the claim and the expiry of a lease touch no graph.       *)
LEMMA RequestsTouchNoGraph ==
    ASSUME \/ Request
           \/ Claim
           \/ \E r \in Runs : LeaseExpires(r)
           \/ \E w \in Workers : OtherStep(w)
           \/ \E w \in Workers : AskInTurn(w)
    PROVE  UNCHANGED <<graph, checkpoints>>
<1>1. CASE Request
  BY <1>1 DEF Request, CreateMessageAndRun, CreateRecoveryMessageAndRun, QueueRun, AnswerUserInput,
              RequestCancel, SaveFileContent, RestoreVersion, goals
<1>2. CASE Claim
  BY <1>2 DEF Claim, SelectCandidates, ClaimNextRun, ClaimRefused, goals
<1>3. CASE \E r \in Runs : LeaseExpires(r)
  BY <1>3 DEF LeaseExpires, goals
<1>4. CASE \E w \in Workers : OtherStep(w)
  BY <1>4 DEF OtherStep, CompleteRunContinuation, MarkTerminal, FinalizeVerifiedPublish,
              LeaveTask, EscapeTask, CrashWorker, goals
<1>5. CASE \E w \in Workers : AskInTurn(w)
  BY <1>5 DEF AskInTurn, WaitForUserInput, goals
<1> QED
  BY <1>1, <1>2, <1>3, <1>4, <1>5

(* create_goal_graph.                                                      *)
LEMMA PersistStep ==
    ASSUME GoalIInv, NEW w \in Workers, PersistGoalGraph(w)
    PROVE  Next /\ GraphsAgree'
<1> DEFINE r == taskRun[w]
<1>1. r \in Runs
  BY FencedRun DEF GoalIInv, PersistGoalGraph, CreateGoalGraph, Advancing
<1>2. Next
  BY DEF PersistGoalGraph, Next, Turn
<1>3. /\ graph[r] = "none"
      /\ graph' = [s \in Runs |-> IF s = r THEN "active"
                                  ELSE IF graph[s] = "active" THEN "superseded" ELSE graph[s]]
      /\ node' = [s \in Runs |-> IF s = r THEN [g \in GoalIds |-> "pending"]
                                 ELSE IF graph[s] = "active" THEN Retire(node[s], "superseded")
                                 ELSE node[s]]
      /\ checkpoints' = checkpoints
  BY DEF PersistGoalGraph, CreateGoalGraph
<1> HIDE DEF r
<1>4. ASSUME NEW s \in Runs PROVE GraphAgrees(node'[s], graph'[s], checkpoints'[s])
  <2>1. GraphAgrees(node[s], graph[s], checkpoints[s])
    BY DEF GoalIInv, GraphsAgree
  <2>2. CASE s = r
    BY <1>1, <1>3, <2>1, <2>2, PersistAgrees
  <2>3. CASE s # r /\ graph[s] = "active"
    BY <1>3, <2>1, <2>3, RetireAgrees
  <2>4. CASE s # r /\ graph[s] # "active"
    BY <1>3, <2>1, <2>4
  <2> QED
    BY <2>2, <2>3, <2>4
<1>5. GoalTypeOK'
  BY <1>3, <1>4 DEF GoalTypeOK, GraphAgrees
<1> QED
  BY <1>2, <1>4, <1>5 DEF GraphsAgree

(* activate_goal, claim_goal and resume_goal leave RunControl's variables  *)
(* unchanged.                                                              *)
LEMMA TakeUpStep ==
    ASSUME GoalIInv, NEW w \in Workers,
           \/ ActivateGoal(w)
           \/ \E g \in GoalIds : ClaimGoal(w, g) \/ ResumeGoal(w, g)
    PROVE  UNCHANGED vars /\ GraphsAgree'
<1> DEFINE r == taskRun[w]
<1>1. r \in Runs
  BY FencedRun DEF GoalIInv, ActivateGoal, ClaimGoal, ResumeGoal, Advancing
<1>2. UNCHANGED vars /\ graph[r] = "active"
  BY DEF ActivateGoal, ClaimGoal, ResumeGoal
<1>3. GraphAgrees(node[r], "active", checkpoints[r])
  BY <1>1, <1>2 DEF GoalIInv, GraphsAgree
<1>5. PICK g \in GoalIds, to \in Current :
          /\ Transit(r, g, to)
          /\ \/ /\ to = "active"
                /\ g \in Executable(node[r])
                /\ \A h \in GoalIds : node[r][h] \notin Current
             \/ node[r][g] \in Current
  <2>1. CASE ActivateGoal(w)
    <3>1. NextEligibleGoal(node[r]) \in Executable(node[r])
      BY <2>1, EligibleIsExecutable DEF ActivateGoal
    <3>2. \A h \in GoalIds : node[r][h] \notin Current
      BY <1>1, <2>1 DEF ActivateGoal, ProjectHasCurrentGoal, CurrentGoals
    <3> QED
      BY <2>1, <3>1, <3>2 DEF ActivateGoal, Executable, Current
  <2>2. ASSUME NEW g \in GoalIds, ClaimGoal(w, g) PROVE Transit(r, g, "claimed") /\ node[r][g] \in Current
    BY <1>3, <2>2, AdmittedTransitions DEF ClaimGoal, Transit, GraphAgrees, Current
  <2>3. ASSUME NEW g \in GoalIds, ResumeGoal(w, g) PROVE Transit(r, g, "active") /\ node[r][g] \in Current
    BY <2>3 DEF ResumeGoal, Current
  <2> QED
    BY <2>1, <2>2, <2>3 DEF Current
<1>6. node' = [node EXCEPT ![r] = [node[r] EXCEPT ![g] = to]]
  BY <1>5 DEF Transit
<1>7. GraphAgrees([node[r] EXCEPT ![g] = to], "active", checkpoints[r])
  BY <1>3, <1>5, ActivateAgrees, SwitchAgrees
<1> HIDE DEF r
<1>8. graph' = graph /\ checkpoints' = checkpoints
  BY <1>2 DEF vars, goals
<1>9. node \in [Runs -> [GoalIds -> GoalStatus]]
  BY DEF GoalIInv, GraphsAgree, GoalTypeOK
<1>10. GraphAgrees(node'[r], graph'[r], checkpoints'[r])
  BY <1>1, <1>2, <1>6, <1>7, <1>8, <1>9
<1>11. \A s \in Runs \ {r} : node'[s] = node[s]
  BY <1>6, <1>9
<1>12. node' = [s \in Runs |-> node'[s]]
  BY <1>6, <1>9
<1> QED
  BY <1>1, <1>2, <1>8, <1>10, <1>11, <1>12, OneGraphAgrees DEF GoalIInv

(* record_verified_checkpoint with its next goal is RunControl's.          *)
LEMMA CheckpointStep ==
    ASSUME GoalIInv, NEW w \in Workers, NEW g \in GoalIds, CheckpointGoal(w, g)
    PROVE  RecordVerifiedCheckpoint(w) /\ GraphsAgree'
<1> DEFINE r == taskRun[w]
           verified == [node[r] EXCEPT ![g] = "verified"]
           next == NextEligibleGoal(verified)
<1>1. r \in Runs
  BY FencedRun DEF GoalIInv, CheckpointGoal, Advancing
<1>2. /\ Advancing(w) /\ ~cancelRequested[r] /\ graph[r] = "active"
      /\ "verified" \in Transitions[node[r][g]]
      /\ checkpoints' = [checkpoints EXCEPT ![r] = @ + 1]
      /\ \/ /\ \A h \in GoalIds : verified[h] = "verified"
            /\ node' = [node EXCEPT ![r] = verified]
            /\ graph' = [graph EXCEPT ![r] = "verified"]
         \/ /\ next # NoGoal
            /\ node' = [node EXCEPT ![r] = [verified EXCEPT ![next] = "active"]]
            /\ graph' = graph
      /\ UNCHANGED <<lifecycle, lease, project, published, dialogue, tasks, faults>>
  BY DEF CheckpointGoal
<1>3. /\ GraphAgrees(node[r], "active", checkpoints[r])
      /\ node \in [Runs -> [GoalIds -> GoalStatus]]
      /\ graph \in [Runs -> GraphStatus] /\ checkpoints \in [Runs -> Nat]
  BY <1>1, <1>2 DEF GoalIInv, GraphsAgree, GoalTypeOK, TypeOK
<1>4. node[r][g] \in Current
  BY <1>1, <1>2, <1>3, AdmittedTransitions DEF Current
<1>5. /\ GraphAgrees(node'[r], graph'[r], checkpoints'[r])
      /\ \E nodes : node' = [node EXCEPT ![r] = nodes]
      /\ graph' = [graph EXCEPT ![r] = IF checkpoints[r] + 1 = Goals THEN "verified" ELSE @]
  <2>1. CASE \A h \in GoalIds : verified[h] = "verified"
    <3>1. GraphAgrees(verified, "verified", checkpoints[r] + 1) /\ checkpoints[r] + 1 = Goals
      BY <1>3, <1>4, <2>1, LastCheckpointAgrees
    <3>2. next = NoGoal
      BY <2>1, EligibleIsExecutable DEF Executable
    <3> HIDE DEF verified, next
    <3>3. node' = [node EXCEPT ![r] = verified] /\ graph' = [graph EXCEPT ![r] = "verified"]
      BY <1>2, <3>2
    <3> HIDE DEF r
    <3> QED
      BY <1>1, <1>2, <1>3, <3>1, <3>3
  <2>2. CASE ~ \A h \in GoalIds : verified[h] = "verified"
    <3> HIDE DEF verified, next
    <3>1. /\ next # NoGoal
          /\ node' = [node EXCEPT ![r] = [verified EXCEPT ![next] = "active"]]
          /\ graph' = graph
      BY <1>2, <2>2
    <3>2. next \in Executable(verified)
      BY <3>1, EligibleIsExecutable DEF next
    <3>3. /\ GraphAgrees([verified EXCEPT ![next] = "active"], "active", checkpoints[r] + 1)
          /\ checkpoints[r] + 1 # Goals
      BY <1>3, <1>4, <3>2, NextCheckpointAgrees DEF verified
    <3> HIDE DEF r
    <3> QED
      BY <1>1, <1>2, <1>3, <3>1, <3>3
  <2> QED
    BY <2>1, <2>2
<1>6. RecordVerifiedCheckpoint(w)
  BY <1>2, <1>5 DEF RecordVerifiedCheckpoint
<1> HIDE DEF r, verified, next
<1>7. /\ node' = [s \in Runs |-> node'[s]]
      /\ \A s \in Runs \ {r} : /\ node'[s] = node[s]
                               /\ graph'[s] = graph[s]
                               /\ checkpoints'[s] = checkpoints[s]
  BY <1>2, <1>3, <1>5
<1> QED
  BY <1>1, <1>5, <1>6, <1>7, OneGraphAgrees DEF GoalIInv

(* fail_goal and terminalize_goal_graph close the graph of the run.        *)
LEMMA CloseStep ==
    ASSUME GoalIInv, NEW w \in Workers,
           \/ \E g \in GoalIds : FailGoal(w, g)
           \/ \E to \in {"failed", "cancelled"} : TerminalizeGoalGraph(w, to)
    PROVE  Turn(w) /\ GraphsAgree'
<1> DEFINE r == taskRun[w]
<1>1. /\ Working(w) /\ graph[r] = "active"
      /\ UNCHANGED <<lifecycle, lease, checkpoints, project, published, dialogue, tasks, faults>>
  BY DEF FailGoal, TerminalizeGoalGraph
<1>2. r \in Runs
  BY <1>1, FencedRun DEF GoalIInv, Working
<1>3. /\ GraphAgrees(node[r], "active", checkpoints[r])
      /\ node \in [Runs -> [GoalIds -> GoalStatus]]
      /\ graph \in [Runs -> GraphStatus]
  BY <1>1, <1>2 DEF GoalIInv, GraphsAgree, GoalTypeOK, TypeOK
<1>4. PICK to \in {"failed", "cancelled"} :
          \E nodes :
              /\ to = "cancelled" => cancelRequested[r]
              /\ graph' = [graph EXCEPT ![r] = to]
              /\ node' = [node EXCEPT ![r] = nodes]
              /\ GraphAgrees(nodes, to, checkpoints[r])
  <2>1. ASSUME NEW g \in GoalIds, FailGoal(w, g)
        PROVE  \E to \in {"failed", "cancelled"} :
                  \E nodes :
                      /\ to = "cancelled" => cancelRequested[r]
                      /\ graph' = [graph EXCEPT ![r] = to]
                      /\ node' = [node EXCEPT ![r] = nodes]
                      /\ GraphAgrees(nodes, to, checkpoints[r])
    <3>1. node[r][g] \in Current
      BY <1>2, <1>3, <2>1, AdmittedTransitions DEF FailGoal, Transit
    <3>2. GraphAgrees([node[r] EXCEPT ![g] = "failed"], "failed", checkpoints[r])
      BY <1>3, <3>1, FailAgrees
    <3>3. /\ graph' = [graph EXCEPT ![r] = "failed"]
          /\ node' = [node EXCEPT ![r] = [node[r] EXCEPT ![g] = "failed"]]
      BY <2>1 DEF FailGoal, Transit
    <3> HIDE DEF r
    <3> QED
      BY <3>2, <3>3
  <2>2. ASSUME NEW to \in {"failed", "cancelled"}, TerminalizeGoalGraph(w, to)
        PROVE  \E nodes :
                  /\ to = "cancelled" => cancelRequested[r]
                  /\ graph' = [graph EXCEPT ![r] = to]
                  /\ node' = [node EXCEPT ![r] = nodes]
                  /\ GraphAgrees(nodes, to, checkpoints[r])
    <3> DEFINE current == IF to = "failed" THEN "failed" ELSE "superseded"
    <3>1. GraphAgrees(Retire(node[r], current), to, checkpoints[r])
      BY <1>3, RetireAgrees
    <3>2. /\ to = "cancelled" => cancelRequested[r]
          /\ graph' = [graph EXCEPT ![r] = to]
          /\ node' = [node EXCEPT ![r] = Retire(node[r], current)]
      BY <2>2 DEF TerminalizeGoalGraph
    <3> HIDE DEF r, current
    <3> QED
      BY <3>1, <3>2
  <2> QED
    BY <2>1, <2>2
<1>5. CloseGoalGraph(w, to)
  BY <1>1, <1>4 DEF CloseGoalGraph
<1>nodes. PICK nodes :
          /\ graph' = [graph EXCEPT ![r] = to]
          /\ node' = [node EXCEPT ![r] = nodes]
          /\ GraphAgrees(nodes, to, checkpoints[r])
  BY <1>4
<1>6. Turn(w)
  BY <1>5 DEF Turn
<1> HIDE DEF r
<1>7. /\ GraphAgrees(node'[r], graph'[r], checkpoints'[r])
      /\ node' = [s \in Runs |-> node'[s]]
      /\ \A s \in Runs \ {r} : /\ node'[s] = node[s]
                               /\ graph'[s] = graph[s]
                               /\ checkpoints'[s] = checkpoints[s]
  BY <1>1, <1>2, <1>3, <1>4
<1> QED
  BY <1>2, <1>6, <1>7, OneGraphAgrees DEF GoalIInv

(* What _recover_expired_running_runs asks of the stored graph comes to    *)
(* what RunControl asks of the count: a checkpointed active graph has a    *)
(* current goal.                                                           *)
LEMMA ResumableIsAtGoal ==
    ASSUME GoalIInv, NEW r \in Runs, NEW intact \in BOOLEAN
    PROVE  ResumableAtGoal(r, intact) <=> Resumable(r, intact)
<1>1. graph[r] = "active" /\ checkpoints[r] > 0 => CurrentGoals(r) # {}
  BY DEF GoalIInv, GraphsAgree, GraphAgrees, CurrentGoals
<1> QED
  BY <1>1 DEF ResumableAtGoal, Resumable

(* Lease recovery.                                                         *)
LEMMA RecoverStep ==
    ASSUME GoalIInv, NEW r \in Runs, NEW intact \in BOOLEAN, RecoverGoals(r, intact)
    PROVE  RecoverExpiredRunningRun(r, intact) /\ GraphsAgree'
<1>1. RecoverExpiredRunningRun(r, intact)
  BY ResumableIsAtGoal DEF RecoverGoals, RecoverExpiredRunningRun
<1>2. CASE ResumableAtGoal(r, intact)
  <2>1. UNCHANGED <<graph, checkpoints, node>>
    BY <1>2 DEF RecoverGoals, RequeueExpired, goals
  <2> QED
    BY <1>1, <2>1, UntouchedGraphsAgree DEF GoalIInv
<1>3. CASE ~ResumableAtGoal(r, intact)
  <2> DEFINE to == IF cancelRequested[r] THEN "cancelled" ELSE "failed"
             current == IF cancelRequested[r] THEN "superseded" ELSE "failed"
  <2>1. /\ graph' = [graph EXCEPT ![r] = IF @ = "active" THEN to ELSE @]
        /\ node' = [node EXCEPT ![r] = IF graph[r] # "active" THEN @ ELSE Retire(@, current)]
        /\ checkpoints' = checkpoints
    BY <1>3 DEF RecoverGoals, FailExpired
  <2>2. /\ GraphAgrees(node[r], graph[r], checkpoints[r])
        /\ node \in [Runs -> [GoalIds -> GoalStatus]]
        /\ graph \in [Runs -> GraphStatus]
    BY DEF GoalIInv, GraphsAgree, GoalTypeOK, TypeOK
  <2>3. to \in {"failed", "cancelled"} /\ current \in {"failed", "superseded"}
    OBVIOUS
  <2> HIDE DEF to, current
  <2>4. GraphAgrees(node'[r], graph'[r], checkpoints'[r])
    BY <2>1, <2>2, <2>3, RetireAgrees
  <2>5. /\ node' = [s \in Runs |-> node'[s]]
        /\ \A s \in Runs \ {r} : /\ node'[s] = node[s]
                                 /\ graph'[s] = graph[s]
                                 /\ checkpoints'[s] = checkpoints[s]
    BY <2>1, <2>2
  <2> QED
    BY <1>1, <2>4, <2>5, OneGraphAgrees DEF GoalIInv
<1> QED
  BY <1>2, <1>3

(* A step of one worker on its goals.                                      *)
LEMMA GoalStepRefines ==
    ASSUME GoalIInv, NEW w \in Workers, GoalStep(w)
    PROVE  [Next]_vars /\ GraphsAgree'
<1>1. CASE PersistGoalGraph(w)
  BY <1>1, PersistStep
<1>2. CASE \/ ActivateGoal(w)
           \/ \E g \in GoalIds : ClaimGoal(w, g) \/ ResumeGoal(w, g)
  BY <1>2, TakeUpStep
<1>3. ASSUME NEW g \in GoalIds, CheckpointGoal(w, g) PROVE Next /\ GraphsAgree'
  BY <1>3, CheckpointStep DEF Next, Turn
<1>4. CASE \/ \E g \in GoalIds : FailGoal(w, g)
           \/ \E to \in {"failed", "cancelled"} : TerminalizeGoalGraph(w, to)
  BY <1>4, CloseStep DEF Next
<1>5. CASE AskInTurn(w)
  <2>1. Next
    BY <1>5 DEF AskInTurn, Next, Conclude
  <2>2. UNCHANGED <<graph, checkpoints, node>>
    BY <1>5, RequestsTouchNoGraph DEF AskInTurn
  <2> QED
    BY <2>1, <2>2, UntouchedGraphsAgree DEF GoalIInv
<1> QED
  BY <1>1, <1>2, <1>3, <1>4, <1>5 DEF GoalStep

(* Every step of GoalGraph is one of RunControl's, or leaves its variables *)
(* unchanged.                                                              *)
LEMMA GoalNextRefines ==
    GoalIInv /\ [GoalNext]_goalVars => [Next]_vars /\ GraphsAgree'
<1> SUFFICES ASSUME GoalIInv, [GoalNext]_goalVars PROVE [Next]_vars /\ GraphsAgree'
  OBVIOUS
<1>1. ASSUME NEW w \in Workers, GoalStep(w) PROVE [Next]_vars /\ GraphsAgree'
  BY <1>1, GoalStepRefines
<1>2. ASSUME NEW r \in Runs, NEW intact \in BOOLEAN, RecoverGoals(r, intact)
      PROVE  Next /\ GraphsAgree'
  BY <1>2, RecoverStep DEF Next, Recover
<1>3. CASE /\ \/ Request
              \/ Claim
              \/ \E r \in Runs : LeaseExpires(r)
              \/ \E w \in Workers : OtherStep(w)
           /\ UNCHANGED node
  <2>1. Next
    BY <1>3 DEF Next, OtherStep, Turn, Conclude
  <2>2. UNCHANGED <<graph, checkpoints, node>>
    BY <1>3, RequestsTouchNoGraph
  <2> QED
    BY <2>1, <2>2, UntouchedGraphsAgree DEF GoalIInv
<1>4. CASE UNCHANGED goalVars
  BY <1>4, UntouchedGraphsAgree DEF goalVars, vars, goals, GoalIInv
<1> QED
  BY <1>1, <1>2, <1>3, <1>4 DEF GoalNext

-----------------------------------------------------------------------------
(* Theorems.                                                               *)

(* The invariant holds in every reachable state.                           *)
THEOREM GoalInvariantHolds == GoalSpec => []GoalIInv
<1>1. GoalInit => GoalIInv
  <2> SUFFICES ASSUME GoalInit PROVE GoalIInv
    OBVIOUS
  <2>1. TypeOK /\ WriterInv /\ OneActiveGraph
    BY InitIsTyped, InitIsWriterInv DEF GoalInit, Init, OneActiveGraph
  <2> DEFINE fresh == [g \in GoalIds |-> "absent"]
  <2>2. fresh \in [GoalIds -> GoalStatus] /\ Verified(fresh) = {} /\ GoalIds # {}
    BY BoundsAssumption DEF GoalStatus, Verified, GoalIds
  <2>3. \A g \in GoalIds : fresh[g] = "absent"
    OBVIOUS
  <2>4. node = [r \in Runs |-> fresh]
    BY DEF GoalInit
  <2> HIDE DEF fresh
  <2>5. GraphAgrees(fresh, "none", 0)
    BY <2>2, <2>3, FS_EmptySet DEF GraphAgrees, Current
  <2>6. GraphsAgree
    BY <2>2, <2>4, <2>5 DEF GraphsAgree, GoalTypeOK, GoalInit, Init
  <2> QED
    BY <2>1, <2>6 DEF GoalIInv
<1>2. GoalIInv /\ [GoalNext]_goalVars => GoalIInv'
  BY GoalNextRefines, TypeStep, WriterInvStep, OneActiveGraphStep DEF GoalIInv
<1> QED
  BY <1>1, <1>2, PTL DEF GoalSpec

(* GoalGraph implements RunControl: whatever the orchestrator does with    *)
(* the goals of a run, the API, the workers and lease recovery see a run   *)
(* that RunControl allows, so everything proved of RunControl's Spec holds *)
(* of GoalGraph too.                                                       *)
THEOREM GoalGraphImplementsRunControl == GoalSpec => Spec
<1>1. GoalInit => Init
  BY DEF GoalInit
<1>2. GoalIInv /\ [GoalNext]_goalVars => [Next]_vars
  BY GoalNextRefines
<1> QED
  BY <1>1, <1>2, GoalInvariantHolds, PTL DEF GoalSpec, Spec

(* Of all the runs of a project at most one goal is being worked on, and a *)
(* checkpointed active graph has one to resume: activate_goal checks the   *)
(* project, the checkpoint only its own graph, and that is enough because  *)
(* two graphs are never active together.                                   *)
THEOREM GoalInvariantOfRuns == GoalSpec => []GoalInvariant
<1>1. GoalIInv => GoalInvariant
  <2> SUFFICES ASSUME GoalIInv PROVE GoalInvariant
    OBVIOUS
  <2>1. \A r \in Runs : GraphAgrees(node[r], graph[r], checkpoints[r])
    BY DEF GoalIInv, GraphsAgree
  <2>2. OneCurrentGoal
    <3> SUFFICES ASSUME NEW r \in Runs, NEW s \in Runs,
                        NEW g \in CurrentGoals(r), NEW h \in CurrentGoals(s)
                 PROVE  r = s /\ g = h
      BY DEF OneCurrentGoal
    <3>1. graph[r] = "active" /\ graph[s] = "active"
      BY <2>1 DEF GraphAgrees, CurrentGoals
    <3>2. r = s
      BY <3>1 DEF GoalIInv, OneActiveGraph
    <3>3. \A i, j \in GoalIds : node[r][i] \in Current /\ node[r][j] \in Current => i = j
      BY <2>1 DEF GraphAgrees
    <3> QED
      BY <3>2, <3>3 DEF CurrentGoals
  <2>3. CheckpointedGraphHasCurrentGoal
    BY <2>1 DEF CheckpointedGraphHasCurrentGoal, GraphAgrees, CurrentGoals
  <2> QED
    BY <2>2, <2>3 DEF GoalInvariant, GoalIInv, GraphsAgree
<1> QED
  BY <1>1, GoalInvariantHolds, PTL

(* A worker whose graph is active finds a goal to work on, whatever ended  *)
(* the runs before it.  An active graph without a current goal has no      *)
(* checkpoint, so none of its goals is verified and all are pending; the   *)
(* first one depends on nothing.                                           *)
THEOREM WorkerIsNeverBlockedHolds == GoalSpec => []WorkerIsNeverBlocked
<1>1. GoalIInv => WorkerIsNeverBlocked
  <2> SUFFICES ASSUME GoalIInv, NEW w \in Workers, Advancing(w),
                      graph[taskRun[w]] = "active", CurrentGoals(taskRun[w]) = {}
               PROVE  Executable(node[taskRun[w]]) # {} /\ ~ProjectHasCurrentGoal
    BY DEF WorkerIsNeverBlocked
  <2> DEFINE r == taskRun[w]
  <2>1. r \in Runs
    BY FencedRun DEF GoalIInv, Advancing
  <2> HIDE DEF r
  <2>2. graph[r] = "active" /\ \A g \in GoalIds : node[r][g] \notin Current
    BY DEF r, CurrentGoals
  <2>3. GraphAgrees(node[r], graph[r], checkpoints[r])
    BY <2>1 DEF GoalIInv, GraphsAgree
  <2>4. Cardinality(Verified(node[r])) \in Nat /\ ~(Cardinality(Verified(node[r])) > 0)
    BY <2>2, <2>3, GoalsAreFinite DEF GraphAgrees
  <2>5. Verified(node[r]) = {}
    BY <2>4, GoalsAreFinite, FS_EmptySet
  <2>6. \A g \in GoalIds : node[r][g] = "pending"
    BY <2>2, <2>3, <2>5 DEF GraphAgrees, Open, Verified, Current
  <2>7. 1 \in GoalIds /\ DependsOn[1] = {}
    BY BoundsAssumption, TopologyAssumption DEF TopologyAssumption, GoalIds
  <2>8. 1 \in Executable(node[r])
    BY <2>6, <2>7 DEF Executable
  <2>9. ~ProjectHasCurrentGoal
    <3> SUFFICES ASSUME NEW s \in Runs, NEW g \in CurrentGoals(s) PROVE FALSE
      BY DEF ProjectHasCurrentGoal
    <3>1. graph[s] = "active" /\ node[s][g] \in Current /\ g \in GoalIds
      BY DEF GoalIInv, GraphsAgree, GraphAgrees, CurrentGoals
    <3>2. s = r
      BY <2>1, <2>2, <3>1 DEF GoalIInv, OneActiveGraph
    <3> QED
      BY <2>2, <3>1, <3>2
  <2> QED
    BY <2>8, <2>9 DEF r
<1> QED
  BY <1>1, GoalInvariantHolds, PTL

(* The checkpoints of a run are its verified goals, each of them rests on  *)
(* verified goals, and the graph is verified when they all are.            *)
THEOREM CheckpointsAreVerifiedGoalsHolds == GoalSpec => []CheckpointsAreVerifiedGoals
<1>1. GoalIInv => CheckpointsAreVerifiedGoals
  <2> SUFFICES ASSUME GoalIInv, NEW r \in Runs
               PROVE  LET verified == {g \in GoalIds : node[r][g] = "verified"}
                      IN  /\ checkpoints[r] = Cardinality(verified)
                          /\ \A g \in verified : DependsOn[g] \subseteq verified
                          /\ graph[r] = "verified" <=> verified = GoalIds
    BY DEF CheckpointsAreVerifiedGoals
  <2>1. GraphAgrees(node[r], graph[r], checkpoints[r])
    BY DEF GoalIInv, GraphsAgree
  <2> DEFINE verified == {g \in GoalIds : node[r][g] = "verified"}
  <2>2. verified = Verified(node[r])
    BY DEF Verified
  <2>3. \A g \in verified : \A d \in DependsOn[g] : d \in verified
    BY <2>1, DependenciesAreGoals DEF GraphAgrees
  <2> HIDE DEF verified
  <2>4. checkpoints[r] = Cardinality(verified) /\ (graph[r] = "verified" <=> verified = GoalIds)
    BY <2>1, <2>2 DEF GraphAgrees
  <2> QED
    BY <2>3, <2>4 DEF verified
<1> QED
  BY <1>1, GoalInvariantHolds, PTL

-----------------------------------------------------------------------------
(* The sandboxes: the inductive invariant, in parts.                       *)

(* What exists was handed out by the provider, and what is acknowledged as *)
(* cleaned, or has outlived its lifetime, is gone.                         *)
ProvidedInv ==
    /\ \A s \in alive \cup cleaned \cup expired : s <= provided
    /\ \A s \in Sandboxes : rowRun[s] # NoRun => s <= provided
    /\ \A w \in Workers : gen[w] <= provided /\ ver[w] <= provided
    /\ CleanedMeansGone
    /\ expired \cap alive = {}

(* The sandboxes a task has created and not registered.                    *)
Unregistered(w) == {s \in {gen[w], ver[w]} \ {NoSandbox} : rowRun[s] = NoRun}

(* What a task holds in each of its phases, and how that is registered: as *)
(* its G and as the V of its own run, if at all.                           *)
HandsOf(w) ==
    /\ pc[w] \in {"idle", "sweep", "claim"} <=> taskRun[w] = NoRun
    /\ pc[w] \in {"idle", "sweep", "claim", "begin"} => gen[w] = NoSandbox
    /\ pc[w] \in {"idle", "sweep", "claim", "begin", "register", "attach", "work", "retire", "return"} =>
          ver[w] = NoSandbox
    /\ gen[w] # NoSandbox /\ rowRun[gen[w]] # NoRun => rowKind[gen[w]] = "generation"
    /\ ver[w] # NoSandbox /\ rowRun[ver[w]] # NoRun => rowRun[ver[w]] = taskRun[w]
    /\ pc[w] \in Acting => gen[w] # NoSandbox
    /\ pc[w] = "register" => rowRun[gen[w]] = NoRun
    /\ pc[w] \in Acting \ {"register"} =>
          rowRun[gen[w]] = taskRun[w] /\ rowKind[gen[w]] = "generation"
    /\ pc[w] = "registerV" => ver[w] # NoSandbox /\ rowRun[ver[w]] = NoRun
    /\ pc[w] \in {"attachV", "verify", "judged", "passed"} =>
          ver[w] # NoSandbox /\ rowRun[ver[w]] = taskRun[w] /\ rowKind[ver[w]] = "verification"

HandsInv ==
    /\ \A w \in Workers : HandsOf(w)
    /\ \A v, w \in Workers : v # w => Unregistered(v) \cap Unregistered(w) = {}
    /\ \A v, w \in Workers : ver[v] = ver[w] /\ ver[v] # NoSandbox => v = w

(* What the reference of a run, its status and its continuation agree on.  *)
ReferenceOf(r) ==
    /\ sandboxId[r] # NoSandbox => rowRun[sandboxId[r]] = r
    /\ status[r] = "absent" => continuation[r] = "none" /\ sandboxId[r] = NoSandbox
    /\ status[r] = "queued" /\ continuation[r] = "none" => sandboxId[r] = NoSandbox
    /\ status[r] \in {"queued", "waiting_for_user"} /\ sandboxId[r] # NoSandbox =>
          rowKind[sandboxId[r]] = "generation"
    /\ status[r] \in {"queued", "waiting_for_user"} /\ continuation[r] # "none" =>
          (continuation[r] = "detached" <=> sandboxId[r] = NoSandbox)
    /\ status[r] = "succeeded" /\ preview[r] =>
          sandboxId[r] # NoSandbox /\ rowKind[sandboxId[r]] = "verification"

ReferenceInv == \A r \in Runs : ReferenceOf(r)

(* What a task that passes the write fence may rely on.                    *)
WriterOf(w) ==
    LET r == taskRun[w]
    IN  /\ pc[w] = "begin" =>
              /\ LiveResources(r) \subseteq {sandboxId[r]}
              /\ continuation[r] = "none" => LiveResources(r) = {}
              /\ sandboxId[r] # NoSandbox => rowKind[sandboxId[r]] = "generation"
        /\ pc[w] \in Acting => LiveResources(r) \subseteq {gen[w], ver[w]}
        /\ pc[w] \in {"verify", "judged", "passed"} => sandboxId[r] = ver[w]

CustodianInv == \A w \in Workers : Fenced(w) => WriterOf(w)

(* What became of a cleanup target since it was listed: while its run is   *)
(* written again it names a sandbox of the past, which the run no longer   *)
(* refers to and its worker does not hold; while it is not, a target that  *)
(* is the run's sandbox is neither kept for an answer nor published.       *)
TargetOK(t) ==
    /\ rowRun[t.sandbox] = t.run
    /\ status[t.run] = "running" => t.sandbox \in cleaned /\ sandboxId[t.run] # t.sandbox
    /\ \A w \in Workers : Fenced(w) /\ taskRun[w] = t.run => t.sandbox \notin {gen[w], ver[w]}
    /\ sandboxId[t.run] = t.sandbox =>
          ~AwaitsContinuation(t.run, t.sandbox) /\ ~IsVerifiedPreview(t.run, t.sandbox)

TargetInv == \A w \in Workers : \A t \in targets[w] : TargetOK(t)

(* The rows a claim in progress has locked stay free of the resources of   *)
(* an earlier attempt until it commits.                                    *)
ClaimantInv == \A w \in Workers : \A r \in locked[w] : Claimable(r)

(* The only task that still holds the V of a successful run is the one that*)
(* published it, between that commit and its own end.                      *)
PublisherInv ==
    \A w \in Workers, r \in Runs :
        status[r] = "succeeded" /\ sandboxId[r] = ver[w] /\ ver[w] # NoSandbox =>
            pc[w] \in {"committed", "close"}

CustodyIInv ==
    /\ TypeOK
    /\ WriterInv
    /\ CustodyTypeOK
    /\ ProvidedInv
    /\ HandsInv
    /\ ReferenceInv
    /\ CustodianInv
    /\ TargetInv
    /\ ClaimantInv
    /\ PublisherInv

-----------------------------------------------------------------------------
(* Refinement.                                                             *)

(* Every step of SandboxCustody makes one transaction of RunControl or     *)
(* none.                                                                   *)
LEMMA CustodyNextRefines == [CustodyNext]_custodyVars => [Next]_vars
<1> SUFFICES ASSUME [CustodyNext]_custodyVars PROVE [Next]_vars
  OBVIOUS
<1>1. ASSUME NEW w \in Workers, Idle(w) PROVE [Next]_vars
  <2>1. ASSUME NEW r \in Runs, NEW intact \in BOOLEAN, RecoverExpired(w, r, intact) PROVE Next
    BY <2>1 DEF RecoverExpired, Next, Recover
  <2>2. ASSUME NEW r \in Runs, NEW token \in Tokens, ClaimRun(w, r, token) PROVE Next
    BY <2>2 DEF ClaimRun, Next, Claim
  <2>3. ASSUME NEW candidates \in SUBSET Runs, SelectRuns(w, candidates) PROVE Next
    BY <2>3 DEF SelectRuns, Next, Claim
  <2> QED
    BY <1>1, <2>1, <2>2, <2>3 DEF Idle, ListTargets, DestroyStale, DestroyStaleFails, NothingToClaim
<1>2. ASSUME NEW w \in Workers, Work(w) PROVE [Next]_vars
  <2>1. CASE Escape(w) \/ TurnInG(w) \/ Ask(w) \/ Pass(w) \/ Publish(w)
    BY <2>1 DEF Escape, TurnInG, Ask, Pass, Publish, Next, Turn, Conclude
  <2>2. CASE UNCHANGED vars
    BY <2>2
  <2> QED
    BY <1>2, <2>1, <2>2 DEF Work, Adopt, CreateGeneration, RegisterGeneration, AttachGeneration,
         CreateVerification, RegisterVerification, AttachVerification, StartPreview,
         RetireVerification, ForgetPreview, ReturnToG
<1>3. ASSUME NEW w \in Workers, Exit(w) PROVE [Next]_vars
  <2>1. CASE CloseGoals(w) \/ End(w) \/ Leave(w)
    BY <2>1 DEF CloseGoals, End, Leave, Next, Turn, Conclude
  <2>2. CASE UNCHANGED vars
    BY <2>2
  <2> QED
    BY <1>3, <2>1, <2>2 DEF Exit, Preserve, Keep, HeartbeatStrikes, LoseLease, Abort, ClearPreview,
         Discard, DiscardFails, Disown
<1>4. CASE Environment
  BY <1>4 DEF Environment, Crash, SandboxExpires, ExpireVerifiedPreview, Next, Claim
<1>5. CASE UNCHANGED custodyVars
  BY <1>5 DEF custodyVars
<1> QED
  BY <1>1, <1>2, <1>3, <1>4, <1>5 DEF CustodyNext

(* The custody of sandboxes restricts and never extends what happens to a  *)
(* run: everything proved of RunControl's Spec holds of SandboxCustody.    *)
THEOREM CustodyImplementsRunControl == CustodySpec => Spec
<1>1. CustodyInit => Init
  BY DEF CustodyInit
<1> QED
  BY <1>1, CustodyNextRefines, PTL DEF CustodySpec, Spec

-----------------------------------------------------------------------------
(* Types.                                                                  *)

(* Cleanup targets name a run and a sandbox of it.                         *)
LEMMA RecoverTargetsType ==
    ASSUME CustodyTypeOK, NEW r \in Runs, NEW requeued \in BOOLEAN
    PROVE  RecoverTargets(r, requeued) \in SUBSET Target
<1>1. \A s \in LiveResources(r) \cup ({sandboxId[r]} \ {NoSandbox}), row \in BOOLEAN :
          TargetOf(r, s, row) \in Target
  BY CustodyAssumption DEF CustodyTypeOK, LiveResources, TargetOf, Target, Sandboxes, NoSandbox
<1> QED
  BY <1>1 DEF RecoverTargets, Merge

LEMMA ListedTargetsType ==
    ASSUME TypeOK, CustodyTypeOK
    PROVE  /\ ListSandboxCleanupTargets \in SUBSET Target
           /\ ListTerminalSandboxCleanupTargets \in SUBSET Target
<1>1. ASSUME NEW s \in Sandboxes, rowRun[s] # NoRun PROVE TargetOf(rowRun[s], s, TRUE) \in Target
  BY <1>1, BoundsAssumption DEF CustodyTypeOK, TargetOf, Target, Runs, NoRun
<1>2. ASSUME NEW r \in Runs, sandboxId[r] # NoSandbox
      PROVE  TargetOf(r, sandboxId[r], FALSE) \in Target
  BY <1>2, CustodyAssumption DEF CustodyTypeOK, TargetOf, Target, Sandboxes, NoSandbox
<1> QED
  BY <1>1, <1>2 DEF ListSandboxCleanupTargets, ListTerminalSandboxCleanupTargets

(* Custody keeps its types; that a retired V is a sandbox is HandsInv's.   *)
LEMMA CustodyTypeStep ==
    TypeOK /\ CustodyTypeOK /\ HandsInv /\ [CustodyNext]_custodyVars => CustodyTypeOK'
<1> SUFFICES ASSUME TypeOK, CustodyTypeOK, HandsInv, [CustodyNext]_custodyVars PROVE CustodyTypeOK'
  OBVIOUS
<1> USE CustodyAssumption DEF CustodyTypeOK, provider, rows, refs, hands, Goto
<1>1. ASSUME NEW w \in Workers, Idle(w) PROVE CustodyTypeOK'
  <2>1. ASSUME NEW r \in Runs, NEW intact \in BOOLEAN, RecoverExpired(w, r, intact)
        PROVE  CustodyTypeOK'
    <3> DEFINE requeued == Resumable(r, intact)
    <3>1. requeued \in BOOLEAN
      BY DEF Resumable
    <3>2. RecoverTargets(r, requeued) \in SUBSET Target
      BY <3>1, RecoverTargetsType
    <3> HIDE DEF requeued
    <3>3. targets' = [targets EXCEPT ![w] = Merge(RecoverTargets(r, requeued), @)]
      BY <2>1 DEF RecoverExpired, requeued
    <3>4. targets' \in [Workers -> SUBSET Target]
      BY <3>2, <3>3 DEF Merge
    <3>5. sandboxId' \in [Runs -> 0 .. MaxSandboxes]
      BY <2>1 DEF RecoverExpired, NoSandbox
    <3>6. preview' \in [Runs -> BOOLEAN]
      BY <2>1 DEF RecoverExpired
    <3>7. UNCHANGED <<provider, rows, hands, slips>>
      BY <2>1 DEF RecoverExpired
    <3> QED
      BY <3>4, <3>5, <3>6, <3>7
  <2>2. CASE ListTargets(w)
    <3>1. targets' \in [Workers -> SUBSET Target]
      BY <2>2, ListedTargetsType DEF ListTargets, Merge
    <3> QED
      BY <2>2, <3>1 DEF ListTargets, Phases
  <2>3. ASSUME NEW t \in targets[w], DestroyStale(w, t) \/ DestroyStaleFails(w, t) PROVE CustodyTypeOK'
    <3>1. t \in Target
      OBVIOUS
    <3>2. t.sandbox \in Sandboxes
      BY <3>1 DEF Target
    <3>3. targets' \in [Workers -> SUBSET Target] /\ alive' \subseteq Sandboxes /\ cleaned' \subseteq Sandboxes
      BY <2>3, <3>2 DEF DestroyStale, DestroyStaleFails
    <3>4. sandboxId' \in [Runs -> 0 .. MaxSandboxes] /\ slips' \in 0 .. MaxSlips
      BY <2>3 DEF DestroyStale, DestroyStaleFails, ClearSandboxId, Slip, NoSandbox
    <3> QED
      BY <2>3, <3>3, <3>4 DEF DestroyStale, DestroyStaleFails
  <2>4. ASSUME NEW r \in Runs, NEW token \in Tokens, ClaimRun(w, r, token) PROVE CustodyTypeOK'
    BY <2>4 DEF ClaimRun, Phases
  <2>5. CASE NothingToClaim(w)
    BY <2>5 DEF NothingToClaim, Phases
  <2>6. ASSUME NEW candidates \in SUBSET Runs, SelectRuns(w, candidates) PROVE CustodyTypeOK'
    BY <2>6 DEF SelectRuns, Phases
  <2> QED
    BY <1>1, <2>1, <2>2, <2>3, <2>4, <2>5, <2>6 DEF Idle
<1>2. ASSUME NEW w \in Workers, Work(w) PROVE CustodyTypeOK'
  <2>1. CASE Escape(w) \/ Ask(w) \/ Pass(w) \/ Publish(w) \/ StartPreview(w) \/ ForgetPreview(w)
    BY <2>1 DEF Escape, Ask, Pass, Publish, StartPreview, ForgetPreview, Phases, Acting
  <2>2. CASE Adopt(w)
    <3>1. sandboxId[taskRun[w]] \in 0 .. MaxSandboxes
      BY <2>2, FencedRun DEF Adopt, Working
    <3> QED
      BY <2>2, <3>1 DEF Adopt, Slip, Phases, Acting
  <2>3. CASE CreateGeneration(w) \/ CreateVerification(w)
    <3>1. Provide(provided + 1)
      BY <2>3 DEF CreateGeneration, CreateVerification
    <3>2. provided + 1 \in Sandboxes /\ provided + 1 \in 0 .. MaxSandboxes
      BY <3>1 DEF Provide, Sandboxes
    <3>3. /\ gen' \in [Workers -> 0 .. MaxSandboxes] /\ ver' \in [Workers -> 0 .. MaxSandboxes]
          /\ pc' \in [Workers -> Phases]
      BY <2>3, <3>2 DEF CreateGeneration, CreateVerification, Phases, Acting
    <3>4. provided' \in 0 .. MaxSandboxes /\ alive' \subseteq Sandboxes /\ expired' \subseteq Sandboxes
      BY <3>1, <3>2 DEF Provide, Sandboxes
    <3> QED
      BY <2>3, <3>3, <3>4 DEF CreateGeneration, CreateVerification
  <2>4. CASE RegisterGeneration(w) \/ RegisterVerification(w)
    BY <2>4 DEF RegisterGeneration, RegisterVerification, RegisterRow, TypeOK, Kinds, Phases, Acting
  <2>5. CASE AttachGeneration(w) \/ AttachVerification(w) \/ ReturnToG(w)
    BY <2>5 DEF AttachGeneration, AttachVerification, ReturnToG, SetSandboxId, Phases, Acting
  <2>6. CASE RetireVerification(w)
    <3>1. ver[w] \in Sandboxes
      BY <2>6 DEF RetireVerification, HandsInv, HandsOf, NoSandbox, Sandboxes
    <3>2. /\ alive' = alive \ {ver[w]}
          /\ cleaned' = IF rowRun[ver[w]] # NoRun THEN cleaned \cup {ver[w]} ELSE cleaned
          /\ sandboxId' \in [Runs -> 0 .. MaxSandboxes]
      BY <2>6 DEF RetireVerification, Destroy, ClearSandboxId, NoSandbox
    <3> QED
      BY <2>6, <3>1, <3>2 DEF RetireVerification, NoSandbox, Phases, Acting
  <2>7. CASE TurnInG(w)
    BY <2>7 DEF TurnInG, custody
  <2> QED
    BY <1>2, <2>1, <2>2, <2>3, <2>4, <2>5, <2>6, <2>7 DEF Work
<1>3. ASSUME NEW w \in Workers, Exit(w) PROVE CustodyTypeOK'
  <2>1. CASE Preserve(w) \/ Keep(w) \/ Disown(w) \/ Leave(w)
    BY <2>1 DEF Preserve, Keep, Disown, Leave, NoSandbox, Phases
  <2>2. CASE HeartbeatStrikes(w) \/ LoseLease(w) \/ Abort(w) \/ ClearPreview(w) \/ End(w)
    BY <2>2 DEF HeartbeatStrikes, LoseLease, Abort, ClearPreview, End, Phases
  <2>3. ASSUME NEW s \in Sandboxes, Discard(w, s) PROVE CustodyTypeOK'
    BY <2>3 DEF Discard, Release, Destroy, ClearSandboxId, NoSandbox
  <2>4. ASSUME NEW s \in Sandboxes, DiscardFails(w, s) PROVE CustodyTypeOK'
    <3>1. slips' \in 0 .. MaxSlips
      BY <2>4 DEF DiscardFails, Slip
    <3>2. gen' \in [Workers -> 0 .. MaxSandboxes] /\ ver' \in [Workers -> 0 .. MaxSandboxes]
      BY <2>4 DEF DiscardFails, Release, NoSandbox
    <3> QED
      BY <2>4, <3>1, <3>2 DEF DiscardFails
  <2>5. CASE CloseGoals(w)
    BY <2>5 DEF CloseGoals, custody
  <2> QED
    BY <1>3, <2>1, <2>2, <2>3, <2>4, <2>5 DEF Exit
<1>4. CASE Environment
  <2>1. ASSUME NEW w \in Workers, Crash(w) PROVE CustodyTypeOK'
    BY <2>1 DEF Crash, NoSandbox, Phases
  <2>2. ASSUME NEW s \in Sandboxes, SandboxExpires(s) \/ ExpireVerifiedPreview(s) PROVE CustodyTypeOK'
    BY <2>2 DEF SandboxExpires, ExpireVerifiedPreview
  <2>3. CASE UNCHANGED custody
    BY <2>3 DEF custody
  <2> QED
    BY <1>4, <2>1, <2>2, <2>3 DEF Environment
<1>5. CASE UNCHANGED custodyVars
  BY <1>5 DEF custodyVars, custody
<1> QED
  BY <1>1, <1>2, <1>3, <1>4, <1>5 DEF CustodyNext

-----------------------------------------------------------------------------
(* What steps may do to rows, references and the fence.                    *)

(* Only register_run_sandbox_resource writes a row, once, for a sandbox    *)
(* its task has just created.                                              *)
LEMMA RowsAreWrittenOnce ==
    ASSUME CustodyTypeOK, TypeOK, HandsInv, [CustodyNext]_custodyVars
    PROVE  \/ UNCHANGED <<rowRun, rowKind>>
           \/ \E w \in Workers, s \in Sandboxes, kind \in {"generation", "verification"} :
                 /\ RegisterRow(w, s, kind)
                 /\ rowRun[s] = NoRun
                 /\ s \in Unregistered(w)
                 /\ UNCHANGED <<vars, provider, refs, gen, ver, targets>>
                 /\ \/ /\ pc[w] = "register" /\ kind = "generation" /\ s = gen[w]
                       /\ pc' = [pc EXCEPT ![w] = "attach"]
                    \/ /\ pc[w] = "registerV" /\ kind = "verification" /\ s = ver[w]
                       /\ pc' = [pc EXCEPT ![w] = "attachV"]
<1> USE DEF rows
<1>1. ASSUME NEW w \in Workers, RegisterGeneration(w)
      PROVE  /\ gen[w] \in Sandboxes /\ rowRun[gen[w]] = NoRun
             /\ gen[w] \in Unregistered(w)
             /\ RegisterRow(w, gen[w], "generation")
             /\ UNCHANGED <<vars, provider, refs, gen, ver, targets>>
             /\ pc[w] = "register" /\ pc' = [pc EXCEPT ![w] = "attach"]
  BY <1>1, CustodyAssumption DEF RegisterGeneration, HandsInv, HandsOf, CustodyTypeOK, Sandboxes,
        NoSandbox, Unregistered, Goto, Acting
<1>2. ASSUME NEW w \in Workers, RegisterVerification(w)
      PROVE  /\ ver[w] \in Sandboxes /\ rowRun[ver[w]] = NoRun
             /\ ver[w] \in Unregistered(w)
             /\ RegisterRow(w, ver[w], "verification")
             /\ UNCHANGED <<vars, provider, refs, gen, ver, targets>>
             /\ pc[w] = "registerV" /\ pc' = [pc EXCEPT ![w] = "attachV"]
  BY <1>2, CustodyAssumption DEF RegisterVerification, HandsInv, HandsOf, CustodyTypeOK, Sandboxes,
        NoSandbox, Unregistered, Goto
<1>3. ASSUME NEW w \in Workers, Idle(w) PROVE UNCHANGED <<rowRun, rowKind>>
  BY <1>3 DEF Idle, RecoverExpired, ListTargets, DestroyStale, DestroyStaleFails, SelectRuns, ClaimRun, NothingToClaim
<1>4. ASSUME NEW w \in Workers, Work(w), ~RegisterGeneration(w), ~RegisterVerification(w)
      PROVE  UNCHANGED <<rowRun, rowKind>>
  BY <1>4 DEF Work, Escape, Adopt, CreateGeneration, AttachGeneration, TurnInG, Ask,
        CreateVerification, AttachVerification, StartPreview, Pass, RetireVerification,
        ForgetPreview, ReturnToG, Publish, custody
<1>5. ASSUME NEW w \in Workers, Exit(w) PROVE UNCHANGED <<rowRun, rowKind>>
  BY <1>5 DEF Exit, Preserve, Keep, HeartbeatStrikes, LoseLease, Abort, CloseGoals, ClearPreview,
        Discard, DiscardFails, Disown, End, Leave, custody
<1>6. CASE Environment \/ UNCHANGED custodyVars
  BY <1>6 DEF Environment, Crash, SandboxExpires, ExpireVerifiedPreview, custody, custodyVars
<1> QED
  BY <1>1, <1>2, <1>3, <1>4, <1>5, <1>6 DEF CustodyNext

(* A registered row keeps its run and its kind, and stays cleaned.         *)
LEMMA RowsAreKept ==
    ASSUME CustodyTypeOK, TypeOK, HandsInv, [CustodyNext]_custodyVars
    PROVE  /\ \A s \in Sandboxes : rowRun[s] # NoRun =>
                 rowRun'[s] = rowRun[s] /\ rowKind'[s] = rowKind[s]
           /\ cleaned \subseteq cleaned'
<1>1. \A s \in Sandboxes : rowRun[s] # NoRun => rowRun'[s] = rowRun[s] /\ rowKind'[s] = rowKind[s]
  BY RowsAreWrittenOnce DEF RegisterRow, CustodyTypeOK
<1>2. cleaned \subseteq cleaned'
  <2> USE DEF rows
  <2>1. ASSUME NEW w \in Workers, Idle(w) PROVE cleaned \subseteq cleaned'
    BY <2>1 DEF Idle, RecoverExpired, ListTargets, DestroyStale, DestroyStaleFails, SelectRuns, ClaimRun, NothingToClaim
  <2>2. ASSUME NEW w \in Workers, Work(w) PROVE cleaned \subseteq cleaned'
    BY <2>2 DEF Work, Escape, Adopt, CreateGeneration, RegisterGeneration, AttachGeneration, TurnInG,
          Ask, CreateVerification, RegisterVerification, AttachVerification, StartPreview, Pass,
          RetireVerification, ForgetPreview, ReturnToG, Publish, RegisterRow, Destroy, custody
  <2>3. ASSUME NEW w \in Workers, Exit(w) PROVE cleaned \subseteq cleaned'
    BY <2>3 DEF Exit, Preserve, Keep, HeartbeatStrikes, LoseLease, Abort, CloseGoals, ClearPreview,
          Discard, DiscardFails, Destroy, Disown, End, Leave, custody
  <2>4. CASE Environment \/ UNCHANGED custodyVars
    BY <2>4 DEF Environment, Crash, SandboxExpires, ExpireVerifiedPreview, custody, custodyVars
  <2> QED
    BY <2>1, <2>2, <2>3, <2>4 DEF CustodyNext
<1> QED
  BY <1>1, <1>2

-----------------------------------------------------------------------------
(* Preservation of the parts.                                              *)

(* What a target names was registered, so the provider handed it out.      *)
LEMMA TargetIsRegistered ==
    ASSUME CustodyTypeOK, TargetInv, NEW w \in Workers, NEW t \in targets[w]
    PROVE  /\ t.run \in Runs /\ t.sandbox \in Sandboxes /\ t.row \in BOOLEAN
           /\ rowRun[t.sandbox] = t.run /\ t.run # NoRun
<1>1. t \in Target
  BY DEF CustodyTypeOK
<1> QED
  BY <1>1, BoundsAssumption DEF Target, TargetInv, TargetOK, Runs, NoRun

LEMMA ProvidedStep ==
    ASSUME CustodyIInv, CustodyTypeOK', [CustodyNext]_custodyVars
    PROVE  ProvidedInv'
<1> USE DEF CustodyIInv, ProvidedInv, CleanedMeansGone, provider, rows, hands
<1>0. /\ provided \in Nat /\ Sandboxes \subseteq Nat
      /\ alive \subseteq Sandboxes /\ cleaned \subseteq Sandboxes /\ expired \subseteq Sandboxes
      /\ rowRun \in [Sandboxes -> 0 .. MaxRuns]
      /\ gen \in [Workers -> 0 .. MaxSandboxes] /\ ver \in [Workers -> 0 .. MaxSandboxes]
  BY CustodyAssumption DEF CustodyTypeOK, Sandboxes
<1>1. ASSUME UNCHANGED <<provided, expired, rowRun, gen, ver>>,
             NEW s \in Sandboxes, s <= provided,
             alive' \in {alive, alive \ {s}},
             cleaned' \in {cleaned, cleaned \cup {s}},
             cleaned' = cleaned \/ s \notin alive'
      PROVE  ProvidedInv'
  BY <1>1, <1>0
<1>2. ASSUME UNCHANGED <<provided, alive, expired, rowRun, cleaned>>,
             \A w \in Workers : /\ gen'[w] \in {gen[w], NoSandbox}
                                /\ ver'[w] \in {ver[w], NoSandbox}
      PROVE  ProvidedInv'
  BY <1>2, <1>0 DEF NoSandbox
<1>3. ASSUME NEW w \in Workers, Idle(w) PROVE ProvidedInv'
  <2>1. ASSUME NEW t \in targets[w], DestroyStale(w, t) \/ DestroyStaleFails(w, t) PROVE ProvidedInv'
    <3>1. t.sandbox \in Sandboxes /\ t.sandbox <= provided
      BY TargetIsRegistered
    <3>2. /\ UNCHANGED <<provided, expired, rowRun, gen, ver>>
          /\ alive' \in {alive, alive \ {t.sandbox}}
          /\ cleaned' \in {cleaned, cleaned \cup {t.sandbox}}
          /\ cleaned' = cleaned \/ t.sandbox \notin alive'
      BY <2>1 DEF DestroyStale, DestroyStaleFails
    <3> QED
      BY <1>1, <3>1, <3>2
  <2>2. ASSUME UNCHANGED <<provider, rows, gen, ver>> PROVE ProvidedInv'
    BY <2>2, <1>2
  <2> QED
    BY <1>3, <2>1, <2>2 DEF Idle, RecoverExpired, ListTargets, SelectRuns, ClaimRun, NothingToClaim
<1>4. ASSUME NEW w \in Workers, Work(w) PROVE ProvidedInv'
  <2>1. CASE CreateGeneration(w) \/ CreateVerification(w)
    <3>1. /\ provided' = provided + 1 /\ alive' = alive \cup {provided + 1}
          /\ UNCHANGED <<expired, rowRun, cleaned>>
      BY <2>1 DEF CreateGeneration, CreateVerification, Provide
    <3>2. \A v \in Workers : /\ gen'[v] \in {gen[v], provided + 1}
                             /\ ver'[v] \in {ver[v], provided + 1}
      BY <2>1, <1>0 DEF CreateGeneration, CreateVerification
    <3>3. provided + 1 \notin cleaned \cup expired
      BY <1>0
    <3>4. CleanedMeansGone' /\ expired' \cap alive' = {}
      BY <3>1, <3>3
    <3>5. \A s \in alive' \cup cleaned' \cup expired' : s <= provided'
      BY <1>0, <3>1
    <3>6. \A v \in Workers : gen'[v] <= provided' /\ ver'[v] <= provided'
      BY <1>0, <3>1, <3>2
    <3>7. \A s \in Sandboxes : rowRun'[s] # NoRun => s <= provided'
      BY <1>0, <3>1
    <3> QED
      BY <3>4, <3>5, <3>6, <3>7
  <2>2. CASE RegisterGeneration(w) \/ RegisterVerification(w)
    <3>1. PICK s \in {gen[w], ver[w]} : rowRun' = [rowRun EXCEPT ![s] = taskRun[w]]
      BY <2>2 DEF RegisterGeneration, RegisterVerification, RegisterRow
    <3>2. UNCHANGED <<provided, alive, expired, cleaned, gen, ver>>
      BY <2>2 DEF RegisterGeneration, RegisterVerification, RegisterRow
    <3> QED
      BY <1>0, <3>1, <3>2
  <2>3. CASE Adopt(w)
    <3>1. taskRun[w] \in Runs
      BY <2>3, FencedRun DEF Adopt, Working
    <3>2. /\ sandboxId[taskRun[w]] \in Sandboxes
          /\ rowRun[sandboxId[taskRun[w]]] = taskRun[w]
          /\ taskRun[w] # NoRun
      BY <2>3, <3>1, CustodyAssumption, BoundsAssumption
         DEF Adopt, ReferenceInv, ReferenceOf, CustodyTypeOK, Sandboxes, NoSandbox, Runs, NoRun
    <3>3. sandboxId[taskRun[w]] <= provided
      BY <3>2
    <3>4. UNCHANGED <<provided, alive, expired, cleaned, rowRun, ver>>
          /\ gen' = [gen EXCEPT ![w] = sandboxId[taskRun[w]]]
      BY <2>3 DEF Adopt
    <3> QED
      BY <1>0, <3>3, <3>4
  <2>4. CASE RetireVerification(w)
    <3>1. ver[w] \in Sandboxes
      BY <1>0, <2>4, CustodyAssumption DEF RetireVerification, HandsInv, HandsOf, NoSandbox, Sandboxes
    <3>2. /\ UNCHANGED <<provided, expired, rowRun, gen>>
          /\ alive' = alive \ {ver[w]}
          /\ cleaned' \in {cleaned, cleaned \cup {ver[w]}}
          /\ \A v \in Workers : ver'[v] \in {ver[v], NoSandbox}
      BY <2>4, <1>0 DEF RetireVerification, Destroy
    <3>3. \A v \in Workers : gen'[v] <= provided' /\ ver'[v] <= provided'
      BY <1>0, <3>2 DEF NoSandbox
    <3>4. /\ CleanedMeansGone' /\ expired' \cap alive' = {}
          /\ \A s \in alive' \cup cleaned' \cup expired' : s <= provided'
      BY <1>0, <3>1, <3>2
    <3> QED
      BY <1>0, <3>2, <3>3, <3>4
  <2>5. CASE UNCHANGED <<provider, rows, gen, ver>>
    BY <2>5, <1>2
  <2> QED
    BY <1>4, <2>1, <2>2, <2>3, <2>4, <2>5 DEF Work, Escape, AttachGeneration, TurnInG, Ask,
         AttachVerification, StartPreview, Pass, ForgetPreview, ReturnToG, Publish, custody
<1>5. ASSUME NEW w \in Workers, Exit(w) PROVE ProvidedInv'
  <2>1. ASSUME NEW s \in Sandboxes, Discard(w, s) \/ DiscardFails(w, s) PROVE ProvidedInv'
    <3>1. s <= provided
      BY <2>1 DEF Discard, DiscardFails
    <3>2. /\ UNCHANGED <<provided, expired, rowRun>>
          /\ alive' \in {alive, alive \ {s}}
          /\ cleaned' \in {cleaned, cleaned \cup {s}}
          /\ cleaned' = cleaned \/ s \notin alive'
      BY <2>1 DEF Discard, DiscardFails, Destroy
    <3>3. \A v \in Workers : /\ gen'[v] \in {gen[v], NoSandbox}
                             /\ ver'[v] \in {ver[v], NoSandbox}
      BY <2>1, <1>0 DEF Discard, DiscardFails, Release
    <3>4. \A v \in Workers : gen'[v] <= provided' /\ ver'[v] <= provided'
      BY <1>0, <3>2, <3>3 DEF NoSandbox
    <3>5. /\ CleanedMeansGone' /\ expired' \cap alive' = {}
          /\ \A x \in alive' \cup cleaned' \cup expired' : x <= provided'
      BY <1>0, <3>1, <3>2
    <3> QED
      BY <1>0, <3>2, <3>4, <3>5
  <2>2. CASE Disown(w)
    <3>1. /\ UNCHANGED <<provided, expired, rowRun, cleaned>>
          /\ alive' \subseteq alive
          /\ \A v \in Workers : gen'[v] \in {gen[v], NoSandbox} /\ ver'[v] = ver[v]
      BY <2>2, <1>0 DEF Disown
    <3>2. \A v \in Workers : gen'[v] <= provided' /\ ver'[v] <= provided'
      BY <1>0, <3>1 DEF NoSandbox
    <3>3. /\ CleanedMeansGone' /\ expired' \cap alive' = {}
          /\ \A x \in alive' \cup cleaned' \cup expired' : x <= provided'
      BY <1>0, <3>1
    <3> QED
      BY <1>0, <3>1, <3>2, <3>3
  <2>3. CASE Preserve(w) \/ Keep(w) \/ Leave(w)
    BY <2>3, <1>0, <1>2 DEF Preserve, Keep, Leave
  <2>4. CASE UNCHANGED <<provider, rows, gen, ver>>
    BY <2>4, <1>2
  <2> QED
    BY <1>5, <2>1, <2>2, <2>3, <2>4 DEF Exit, HeartbeatStrikes, LoseLease, Abort, CloseGoals,
         ClearPreview, End, custody
<1>6. CASE Environment
  <2>1. ASSUME NEW w \in Workers, Crash(w) PROVE ProvidedInv'
    BY <2>1, <1>0, <1>2 DEF Crash
  <2>2. ASSUME NEW s \in Sandboxes, SandboxExpires(s) PROVE ProvidedInv'
    BY <2>2, <1>0 DEF SandboxExpires
  <2>3. ASSUME NEW s \in Sandboxes, ExpireVerifiedPreview(s) PROVE ProvidedInv'
    BY <2>3, <1>0 DEF ExpireVerifiedPreview
  <2>4. CASE UNCHANGED custody
    BY <2>4, <1>2 DEF custody
  <2> QED
    BY <1>6, <2>1, <2>2, <2>3, <2>4 DEF Environment
<1>7. CASE UNCHANGED custodyVars
  BY <1>7, <1>2 DEF custodyVars, custody
<1> QED
  BY <1>3, <1>4, <1>5, <1>6, <1>7 DEF CustodyNext

(* A task that another one's step does not move keeps its hands as they    *)
(* were: registered rows are kept, and the one row a step may write is not *)
(* of a sandbox this task has created.                                     *)
LEMMA HandsAreKept ==
    ASSUME CustodyIInv, [CustodyNext]_custodyVars, NEW v \in Workers,
           pc'[v] = pc[v], gen'[v] = gen[v], ver'[v] = ver[v], taskRun'[v] = taskRun[v],
           \A s \in Unregistered(v) : rowRun'[s] = rowRun[s]
    PROVE  HandsOf(v)' /\ Unregistered(v)' = Unregistered(v)
<1>1. /\ \A s \in Sandboxes : rowRun[s] # NoRun =>
            rowRun'[s] = rowRun[s] /\ rowKind'[s] = rowKind[s]
      /\ HandsOf(v)
  BY RowsAreKept DEF CustodyIInv, HandsInv
<1>2. /\ gen[v] # NoSandbox => gen[v] \in Sandboxes
      /\ ver[v] # NoSandbox => ver[v] \in Sandboxes
  BY CustodyAssumption DEF CustodyIInv, CustodyTypeOK, NoSandbox, Sandboxes
<1>3. \A x \in {gen[v], ver[v]} \ {NoSandbox} :
          rowRun'[x] = rowRun[x] /\ (rowRun[x] # NoRun => rowKind'[x] = rowKind[x])
  BY <1>1, <1>2 DEF Unregistered
<1>4. Unregistered(v)' = Unregistered(v)
  BY <1>3 DEF Unregistered
<1> QED
  BY <1>1, <1>3, <1>4 DEF HandsOf, Acting

(* A step of one task that writes no row keeps HandsInv if it leaves that  *)
(* task's hands in order, and puts in them what is new or registered.      *)
LEMMA HandsByOne ==
    ASSUME CustodyIInv, [CustodyNext]_custodyVars, UNCHANGED rowRun, NEW w \in Workers,
           \A v \in Workers \ {w} : /\ pc'[v] = pc[v]
                                    /\ gen'[v] = gen[v]
                                    /\ ver'[v] = ver[v]
                                    /\ taskRun'[v] = taskRun[v],
           HandsOf(w)',
           gen'[w] \in {gen[w], NoSandbox, provided + 1} \/ rowRun[gen'[w]] # NoRun,
           ver'[w] \in {ver[w], NoSandbox, provided + 1}
    PROVE  HandsInv'
<1>1. \A v \in Workers \ {w} : HandsOf(v)' /\ Unregistered(v)' = Unregistered(v)
  BY HandsAreKept
<1>2. \A v \in Workers \ {w} : provided + 1 # gen[v] /\ provided + 1 # ver[v]
  BY CustodyAssumption DEF CustodyIInv, ProvidedInv, CustodyTypeOK
<1>3. /\ Unregistered(w)' \subseteq Unregistered(w) \cup {provided + 1}
      /\ \A v \in Workers \ {w} :
            provided + 1 \notin Unregistered(v) /\ Unregistered(v) \cap Unregistered(w) = {}
  BY <1>2 DEF Unregistered, CustodyIInv, HandsInv
<1>4. \A v \in Workers \ {w} : Unregistered(v)' \cap Unregistered(w)' = {}
  BY <1>1, <1>3
<1>5. \A u, v \in Workers : u # v => Unregistered(u)' \cap Unregistered(v)' = {}
  <2> SUFFICES ASSUME NEW u \in Workers, NEW v \in Workers, u # v
               PROVE  Unregistered(u)' \cap Unregistered(v)' = {}
    OBVIOUS
  <2>1. CASE u = w
    BY <1>4, <2>1
  <2>2. CASE v = w
    BY <1>4, <2>2
  <2>3. CASE u # w /\ v # w
    <3>1. Unregistered(u) \cap Unregistered(v) = {}
      BY DEF CustodyIInv, HandsInv
    <3> QED
      BY <1>1, <2>3, <3>1
  <2> QED
    BY <2>1, <2>2, <2>3
<1>6. \A u, v \in Workers : ver'[u] = ver'[v] /\ ver'[u] # NoSandbox => u = v
  BY <1>2 DEF CustodyIInv, HandsInv
<1> QED
  BY <1>1, <1>5, <1>6 DEF HandsInv

(* The same when no task moves.                                            *)
LEMMA HandsOfNone ==
    ASSUME CustodyIInv, [CustodyNext]_custodyVars, UNCHANGED <<rowRun, pc, gen, ver, taskRun>>
    PROVE  HandsInv'
<1>1. \A v \in Workers : HandsOf(v)' /\ Unregistered(v)' = Unregistered(v)
  BY HandsAreKept
<1> QED
  BY <1>1 DEF CustodyIInv, HandsInv

LEMMA HandsStep ==
    ASSUME CustodyIInv, [CustodyNext]_custodyVars
    PROVE  HandsInv'
<1>0. /\ pc \in [Workers -> Phases]
      /\ gen \in [Workers -> 0 .. MaxSandboxes] /\ ver \in [Workers -> 0 .. MaxSandboxes]
      /\ taskRun \in [Workers -> 0 .. MaxRuns]
      /\ \A w \in Workers : HandsOf(w)
  BY DEF CustodyIInv, CustodyTypeOK, TypeOK, HandsInv
<1> USE DEF Goto, rows
(* A change of phase alone.                                                *)
<1>1. ASSUME NEW w \in Workers, NEW phase, Goto(w, phase),
             UNCHANGED <<rowRun, rowKind, gen, ver, taskRun>>,
             \/ pc[w] \in {"idle", "sweep", "claim"} /\ phase \in {"idle", "sweep", "claim"}
             \/ /\ pc[w] \notin {"idle", "sweep", "claim"}
                /\ phase \in {"close", "abort", "asked", "committed", "disown", "unavailable"}
             \/ pc[w] = "attach" /\ phase = "work"
             \/ pc[w] = "attachV" /\ phase = "verify"
             \/ pc[w] = "verify" /\ phase = "judged"
             \/ pc[w] = "judged" /\ phase = "passed"
             \/ pc[w] = "retire" /\ phase = "return"
             \/ pc[w] = "return" /\ phase = "work"
      PROVE  HandsInv'
  <2>1. pc'[w] = phase /\ \A v \in Workers \ {w} : pc'[v] = pc[v]
    BY <1>0, <1>1
  <2>2. HandsOf(w)'
    BY <1>0, <1>1, <2>1 DEF HandsOf, Acting
  <2> QED
    BY <1>1, <2>1, <2>2, HandsByOne
(* The hands are emptied, some of them.                                    *)
<1>2. ASSUME NEW w \in Workers, UNCHANGED <<rowRun, rowKind, taskRun>>,
             pc' = [pc EXCEPT ![w] = pc'[w]],
             pc'[w] \in {"close", "abort"}, pc[w] \notin {"idle", "sweep", "claim"},
             gen'[w] \in {gen[w], NoSandbox}, ver'[w] \in {ver[w], NoSandbox},
             \A v \in Workers \ {w} : gen'[v] = gen[v] /\ ver'[v] = ver[v]
      PROVE  HandsInv'
  <2>1. HandsOf(w)'
    BY <1>0, <1>2 DEF HandsOf, Acting
  <2>2. \A v \in Workers \ {w} : pc'[v] = pc[v]
    BY <1>0, <1>2
  <2> QED
    BY <1>2, <2>1, <2>2, HandsByOne
(* The task ends.                                                          *)
<1>3. ASSUME NEW w \in Workers, DropTask(w), UNCHANGED <<rowRun, rowKind>>, Goto(w, "idle"),
             gen' = [gen EXCEPT ![w] = NoSandbox], ver' = [ver EXCEPT ![w] = NoSandbox]
      PROVE  HandsInv'
  <2>1. /\ pc'[w] = "idle" /\ gen'[w] = NoSandbox /\ ver'[w] = NoSandbox /\ taskRun'[w] = NoRun
        /\ \A v \in Workers \ {w} : /\ pc'[v] = pc[v] /\ gen'[v] = gen[v]
                                    /\ ver'[v] = ver[v] /\ taskRun'[v] = taskRun[v]
    BY <1>0, <1>3 DEF DropTask
  <2>2. HandsOf(w)'
    BY <2>1 DEF HandsOf, Acting
  <2> QED
    BY <1>3, <2>1, <2>2, HandsByOne
<1>4. ASSUME NEW w \in Workers, Idle(w) PROVE HandsInv'
  <2>1. CASE ListTargets(w) \/ NothingToClaim(w)
    BY <1>1, <2>1 DEF ListTargets, NothingToClaim, vars, tasks
  <2>2. ASSUME NEW r \in Runs, NEW token \in Tokens, ClaimRun(w, r, token) PROVE HandsInv'
    <3>1. /\ pc'[w] = "begin" /\ taskRun'[w] = r /\ r # NoRun
          /\ \A v \in Workers \ {w} : pc'[v] = pc[v] /\ taskRun'[v] = taskRun[v]
          /\ UNCHANGED <<gen, ver, rowRun, rowKind>>
          /\ pc[w] = "claim"
      BY <1>0, <2>2, BoundsAssumption DEF ClaimRun, ClaimNextRun, Runs, NoRun
    <3>2. HandsOf(w)'
      BY <1>0, <3>1 DEF HandsOf, Acting
    <3> QED
      BY <3>1, <3>2, HandsByOne
  <2>3. CASE UNCHANGED <<rowRun, hands, taskRun>>
    BY <2>3, HandsOfNone DEF hands
  <2>4. ASSUME NEW candidates, SelectRuns(w, candidates) PROVE HandsInv'
    BY <1>1, <2>4 DEF SelectRuns, SelectCandidates
  <2> QED
    BY <1>4, <2>1, <2>2, <2>3, <2>4 DEF Idle, RecoverExpired, RecoverExpiredRunningRun, DestroyStale,
         DestroyStaleFails, vars, tasks
<1>5. ASSUME NEW w \in Workers, Work(w) PROVE HandsInv'
  <2>1. CASE Escape(w)
    <3>1. gen[w] = NoSandbox /\ ver[w] = NoSandbox
      BY <1>0, <2>1 DEF Escape, HandsOf
    <3>2. gen' = [gen EXCEPT ![w] = NoSandbox] /\ ver' = [ver EXCEPT ![w] = NoSandbox]
      BY <1>0, <2>1, <3>1 DEF Escape
    <3> QED
      BY <1>3, <2>1, <3>2 DEF Escape, EscapeTask
  <2>2. CASE Adopt(w)
    <3> DEFINE r == taskRun[w]
    <3>1. r \in Runs
      BY <2>2, FencedRun DEF Adopt, Working, CustodyIInv
    <3>2. /\ gen'[w] = sandboxId[r] /\ ver'[w] = NoSandbox /\ taskRun'[w] = r /\ r # NoRun
          /\ pc'[w] = "unavailable" \/
               (pc'[w] = "work" /\ rowRun[gen'[w]] = r /\ rowKind[gen'[w]] = "generation")
          /\ UNCHANGED <<rowRun, rowKind>>
          /\ gen'[w] # NoSandbox /\ ver[w] = NoSandbox
          /\ \A v \in Workers \ {w} : /\ pc'[v] = pc[v] /\ gen'[v] = gen[v]
                                      /\ ver'[v] = ver[v] /\ taskRun'[v] = taskRun[v]
      BY <1>0, <2>2, <3>1, BoundsAssumption DEF Adopt, HandsOf, LiveResources, vars, tasks, Runs, NoRun
    <3>3. rowRun[gen'[w]] = r /\ rowKind[gen'[w]] = "generation"
      BY <2>2, <3>1, <3>2 DEF Adopt, Working, CustodyIInv, ReferenceInv, ReferenceOf, CustodianInv, WriterOf
    <3> HIDE DEF r
    <3>4. HandsOf(w)'
      BY <3>2, <3>3 DEF HandsOf, Acting
    <3> QED
      BY <3>2, <3>3, <3>4, HandsByOne
  <2>3. CASE CreateGeneration(w)
    <3>1. /\ pc[w] = "begin" /\ pc'[w] = "register"
          /\ gen'[w] = provided + 1 /\ UNCHANGED <<ver, taskRun, rowRun, rowKind>>
          /\ provided + 1 \in Sandboxes
          /\ \A v \in Workers \ {w} : pc'[v] = pc[v] /\ gen'[v] = gen[v]
      BY <1>0, <2>3, CustodyAssumption
         DEF CreateGeneration, Provide, vars, tasks, CustodyIInv, CustodyTypeOK, Sandboxes
    <3>2. rowRun[provided + 1] = NoRun /\ provided + 1 # NoSandbox
      BY <3>1, CustodyAssumption DEF CustodyIInv, ProvidedInv, CustodyTypeOK, Sandboxes, NoSandbox
    <3>3. HandsOf(w)'
      BY <1>0, <3>1, <3>2 DEF HandsOf, Acting
    <3> QED
      BY <3>1, <3>3, HandsByOne
  <2>4. CASE CreateVerification(w)
    <3>1. /\ pc[w] = "work" /\ pc'[w] = "registerV"
          /\ ver'[w] = provided + 1 /\ UNCHANGED <<gen, taskRun, rowRun, rowKind>>
          /\ provided + 1 \in Sandboxes
          /\ \A v \in Workers \ {w} : pc'[v] = pc[v] /\ ver'[v] = ver[v]
      BY <1>0, <2>4, CustodyAssumption
         DEF CreateVerification, Provide, vars, tasks, CustodyIInv, CustodyTypeOK, Sandboxes
    <3>2. rowRun[provided + 1] = NoRun /\ provided + 1 # NoSandbox
      BY <3>1, CustodyAssumption DEF CustodyIInv, ProvidedInv, CustodyTypeOK, Sandboxes, NoSandbox
    <3>3. HandsOf(w)'
      BY <1>0, <3>1, <3>2 DEF HandsOf, Acting
    <3> QED
      BY <3>1, <3>3, HandsByOne
  <2>5. CASE RegisterGeneration(w) \/ RegisterVerification(w)
    <3>1. PICK v \in Workers, s \in Sandboxes, kind \in {"generation", "verification"} :
              /\ RegisterRow(v, s, kind)
              /\ rowRun[s] = NoRun
              /\ s \in Unregistered(v)
              /\ UNCHANGED <<vars, provider, refs, gen, ver, targets>>
              /\ \/ /\ pc[v] = "register" /\ kind = "generation" /\ s = gen[v]
                    /\ pc' = [pc EXCEPT ![v] = "attach"]
                 \/ /\ pc[v] = "registerV" /\ kind = "verification" /\ s = ver[v]
                    /\ pc' = [pc EXCEPT ![v] = "attachV"]
      <4>1. ~UNCHANGED <<rowRun, rowKind>>
        <5>1. taskRun[w] # NoRun /\ gen[w] \in Sandboxes /\ (pc[w] = "registerV" => ver[w] \in Sandboxes)
          BY <1>0, <2>5, CustodyAssumption
             DEF RegisterGeneration, RegisterVerification, HandsOf, Acting, NoSandbox, Sandboxes
        <5>2. rowRun \in [Sandboxes -> 0 .. MaxRuns]
          BY DEF CustodyIInv, CustodyTypeOK
        <5> QED
          BY <1>0, <2>5, <5>1, <5>2 DEF RegisterGeneration, RegisterVerification, RegisterRow, HandsOf
      <4> QED
        BY <4>1, RowsAreWrittenOnce DEF CustodyIInv
    <3>2. /\ \A u \in Workers \ {v} : pc'[u] = pc[u]
          /\ UNCHANGED <<gen, ver, taskRun>>
          /\ rowRun'[s] = taskRun[v] /\ rowKind'[s] = kind
          /\ \A x \in Sandboxes \ {s} : rowRun'[x] = rowRun[x] /\ rowKind'[x] = rowKind[x]
      BY <1>0, <3>1 DEF RegisterRow, vars, tasks, CustodyIInv, CustodyTypeOK
    <3>3. ASSUME NEW u \in Workers \ {v} PROVE HandsOf(u)' /\ Unregistered(u)' = Unregistered(u)
      <4>1. s \notin Unregistered(u)
        BY <3>1 DEF CustodyIInv, HandsInv
      <4>2. \A x \in Unregistered(u) : x \in Sandboxes
        BY <1>0, CustodyAssumption DEF Unregistered, NoSandbox, Sandboxes
      <4>3. \A x \in Unregistered(u) : rowRun'[x] = rowRun[x]
        BY <3>2, <4>1, <4>2
      <4> QED
        BY <3>2, <4>3, HandsAreKept
    <3>4. HandsOf(v)'
      <4>1. CASE pc[v] = "register"
        <5>1. pc'[v] = "attach" /\ s = gen[v] /\ kind = "generation"
          BY <1>0, <3>1, <4>1
        <5> QED
          BY <1>0, <3>2, <4>1, <5>1 DEF HandsOf, Acting
      <4>2. CASE pc[v] = "registerV"
        <5>1. pc'[v] = "attachV" /\ s = ver[v] /\ kind = "verification"
          BY <1>0, <3>1, <4>2
        <5>2. gen[v] # s /\ gen[v] \in Sandboxes
          <6>1. taskRun[v] # NoRun /\ rowRun[gen[v]] = taskRun[v]
            BY <1>0, <4>2 DEF HandsOf, Acting
          <6> QED
            BY <1>0, <3>1, <4>2, <6>1, CustodyAssumption DEF HandsOf, Acting, NoSandbox, Sandboxes
        <5> QED
          BY <1>0, <3>2, <4>2, <5>1, <5>2 DEF HandsOf, Acting
      <4> QED
        BY <3>1, <4>1, <4>2
    <3>5. \A x, y \in Workers : x # y => Unregistered(x)' \cap Unregistered(y)' = {}
      <4>1. Unregistered(v)' \subseteq Unregistered(v)
        <5>1. rowRun \in [Sandboxes -> 0 .. MaxRuns]
          BY DEF CustodyIInv, CustodyTypeOK
        <5> QED
          BY <3>1, <3>2, <5>1 DEF Unregistered, RegisterRow
      <4>2. \A x \in Workers : Unregistered(x)' \subseteq Unregistered(x)
        BY <3>3, <4>1
      <4> QED
        BY <4>2 DEF CustodyIInv, HandsInv
    <3>6. \A x, y \in Workers : ver'[x] = ver'[y] /\ ver'[x] # NoSandbox => x = y
      BY <3>2 DEF CustodyIInv, HandsInv
    <3> QED
      BY <3>3, <3>4, <3>5, <3>6 DEF HandsInv
  <2>6. CASE RetireVerification(w)
    <3>1. /\ pc[w] \in {"verify", "judged", "passed"} /\ pc'[w] = "retire" /\ ver'[w] = NoSandbox
          /\ UNCHANGED <<gen, taskRun, rowRun, rowKind>>
          /\ \A v \in Workers \ {w} : pc'[v] = pc[v] /\ ver'[v] = ver[v]
      BY <1>0, <2>6 DEF RetireVerification, vars, tasks
    <3>2. HandsOf(w)'
      BY <1>0, <3>1 DEF HandsOf, Acting
    <3> QED
      BY <3>1, <3>2, HandsByOne
  <2>7. CASE TurnInG(w)
    <3>1. UNCHANGED <<rowRun, pc, gen, ver, taskRun>>
      BY <2>7 DEF TurnInG, CompleteRunContinuation, CreateGoalGraph, tasks, custody, hands
    <3> QED
      BY <3>1, HandsOfNone
  <2>8. CASE Ask(w) \/ Pass(w) \/ Publish(w)
    <3>1. UNCHANGED <<rowRun, rowKind, gen, ver, tasks>>
      BY <2>8 DEF Ask, WaitForUserInput, Pass, RecordVerifiedCheckpoint, Publish,
            FinalizeVerifiedPublish, vars
    <3> QED
      BY <1>1, <2>8, <3>1 DEF Ask, Pass, Publish, tasks
  <2>9. CASE AttachGeneration(w) \/ AttachVerification(w) \/ StartPreview(w) \/ ForgetPreview(w)
             \/ ReturnToG(w)
    <3>1. UNCHANGED <<rowRun, rowKind, gen, ver, tasks>>
      BY <2>9 DEF AttachGeneration, AttachVerification, StartPreview, ForgetPreview, ReturnToG, vars
    <3> QED
      BY <1>1, <2>9, <3>1
         DEF AttachGeneration, AttachVerification, StartPreview, ForgetPreview, ReturnToG, tasks
  <2> QED
    BY <1>5, <2>1, <2>2, <2>3, <2>4, <2>5, <2>6, <2>7, <2>8, <2>9 DEF Work
<1>6. ASSUME NEW w \in Workers, Exit(w) PROVE HandsInv'
  <2>1. CASE Preserve(w) \/ Keep(w) \/ Disown(w)
    <3>1. /\ UNCHANGED <<rowRun, rowKind, taskRun>> /\ pc' = [pc EXCEPT ![w] = "close"]
          /\ pc[w] \notin {"idle", "sweep", "claim"}
          /\ gen'[w] \in {gen[w], NoSandbox} /\ ver'[w] \in {ver[w], NoSandbox}
          /\ \A v \in Workers \ {w} : gen'[v] = gen[v] /\ ver'[v] = ver[v]
      BY <1>0, <2>1 DEF Preserve, Keep, Disown, vars, tasks
    <3>2. pc'[w] = "close" /\ pc' = [pc EXCEPT ![w] = pc'[w]]
      BY <1>0, <3>1
    <3> QED
      BY <1>2, <3>1, <3>2
  <2>2. ASSUME NEW s \in Sandboxes, Discard(w, s) \/ DiscardFails(w, s) PROVE HandsInv'
    <3>1. /\ UNCHANGED <<rowRun, rowKind, taskRun, pc>> /\ pc[w] \in {"abort", "close"}
          /\ gen'[w] \in {gen[w], NoSandbox} /\ ver'[w] \in {ver[w], NoSandbox}
          /\ \A v \in Workers \ {w} : gen'[v] = gen[v] /\ ver'[v] = ver[v]
      BY <1>0, <2>2 DEF Discard, DiscardFails, Release, vars, tasks
    <3>2. pc' = [pc EXCEPT ![w] = pc'[w]]
      BY <1>0, <3>1
    <3> QED
      BY <1>2, <3>1, <3>2
  <2>3. CASE CloseGoals(w) \/ ClearPreview(w)
    <3>1. UNCHANGED <<rowRun, pc, gen, ver, taskRun>>
      BY <2>3 DEF CloseGoals, CloseGoalGraph, ClearPreview, vars, tasks, custody, hands
    <3> QED
      BY <3>1, HandsOfNone
  <2>4. CASE HeartbeatStrikes(w) \/ LoseLease(w) \/ Abort(w) \/ End(w)
    <3>1. UNCHANGED <<rowRun, rowKind, gen, ver, tasks>>
      BY <2>4 DEF HeartbeatStrikes, LoseLease, Abort, End, MarkTerminal, vars
    <3>2. pc[w] \notin {"idle", "sweep", "claim"} /\ \E phase \in {"close", "abort", "disown"} : Goto(w, phase)
      BY <2>4 DEF HeartbeatStrikes, LoseLease, Abort, End, Acting
    <3> QED
      BY <1>1, <3>1, <3>2 DEF tasks
  <2>5. CASE Leave(w)
    BY <1>3, <2>5 DEF Leave, LeaveTask
  <2> QED
    BY <1>6, <2>1, <2>2, <2>3, <2>4, <2>5 DEF Exit
<1>7. CASE Environment
  <2>1. ASSUME NEW w \in Workers, Crash(w) PROVE HandsInv'
    BY <1>3, <2>1 DEF Crash, CrashWorker, ClaimRefused
  <2>2. CASE Request /\ UNCHANGED custody
    <3>1. UNCHANGED taskRun
      BY <2>2 DEF Request, CreateMessageAndRun, CreateRecoveryMessageAndRun, QueueRun, AnswerUserInput,
            RequestCancel, SaveFileContent, RestoreVersion, tasks
    <3> QED
      BY <2>2, <3>1, HandsOfNone DEF custody, hands
  <2>3. ASSUME NEW s \in Sandboxes, SandboxExpires(s) \/ ExpireVerifiedPreview(s) PROVE HandsInv'
    BY <2>3, HandsOfNone DEF SandboxExpires, ExpireVerifiedPreview, vars, tasks, hands
  <2>4. ASSUME NEW r \in Runs, LeaseExpires(r) /\ UNCHANGED custody PROVE HandsInv'
    BY <2>4, HandsOfNone DEF LeaseExpires, tasks, custody, hands
  <2> QED
    BY <1>7, <2>1, <2>2, <2>3, <2>4 DEF Environment
<1>8. CASE UNCHANGED custodyVars
  BY <1>8, HandsOfNone DEF custodyVars, custody, vars, tasks, hands
<1> QED
  BY <1>4, <1>5, <1>6, <1>7, <1>8 DEF CustodyNext

(* Whoever acts on behalf of a run passes the fence, and only one task     *)
(* does.                                                                   *)
LEMMA WorkIsFenced ==
    ASSUME NEW w \in Workers, Work(w)
    PROVE  Fenced(w)
BY DEF Work, Escape, EscapeTask, Adopt, CreateGeneration, RegisterGeneration, AttachGeneration,
       TurnInG, CompleteRunContinuation, CreateGoalGraph, Ask, WaitForUserInput, CreateVerification,
       RegisterVerification, AttachVerification, StartPreview, Pass, RecordVerifiedCheckpoint,
       RetireVerification, ForgetPreview, ReturnToG, Publish, FinalizeVerifiedPublish,
       RegisterRow, SetSandboxId, Working, Advancing

(* The fence is passed from the commit of a claim on.                      *)
LEMMA FenceIsEarnedInClaim ==
    ASSUME CustodyIInv, [CustodyNext]_custodyVars, NEW w \in Workers, Fenced(w)'
    PROVE  \/ Fenced(w) /\ taskRun'[w] = taskRun[w]
           \/ \E r \in Runs, token \in Tokens : ClaimRun(w, r, token)
<1>1. \/ Fenced(w) /\ taskRun'[w] = taskRun[w]
      \/ \E r \in Runs, token \in Tokens : ClaimNextRun(w, r, token)
  BY CustodyNextRefines, FenceIsEarnedByClaim DEF CustodyIInv
<1> SUFFICES ASSUME NEW r \in Runs, NEW token \in Tokens, ClaimNextRun(w, r, token)
             PROVE  \E s \in Runs, k \in Tokens : ClaimRun(w, s, k)
  BY <1>1
<1>2. taskRun[w] = NoRun /\ taskRun'[w] # NoRun
  BY BoundsAssumption DEF ClaimNextRun, CustodyIInv, TypeOK, WriterInv, ClaimInv, Runs, NoRun
<1>3. ASSUME NEW v \in Workers, Idle(v), \A s \in Runs, k \in Tokens : ~ClaimRun(v, s, k)
      PROVE  taskRun' = taskRun
  BY <1>3 DEF Idle, RecoverExpired, RecoverExpiredRunningRun, ListTargets, DestroyStale,
        DestroyStaleFails, SelectRuns, SelectCandidates, NothingToClaim, vars, tasks
<1>4. ASSUME NEW v \in Workers, NEW s \in Runs, NEW k \in Tokens, ClaimRun(v, s, k)
      PROVE  v = w
  BY <1>2, <1>4 DEF ClaimRun, ClaimNextRun, CustodyIInv, TypeOK
<1>5. ASSUME NEW v \in Workers, Work(v) \/ Exit(v) PROVE taskRun'[w] \in {taskRun[w], NoRun}
  <2>1. \/ UNCHANGED taskRun
        \/ DropTask(v)
    BY <1>5 DEF Work, Escape, EscapeTask, Adopt, CreateGeneration, RegisterGeneration, AttachGeneration,
         TurnInG, CompleteRunContinuation, CreateGoalGraph, Ask, WaitForUserInput, CreateVerification,
         RegisterVerification, AttachVerification, StartPreview, Pass, RecordVerifiedCheckpoint,
         RetireVerification, ForgetPreview, ReturnToG, Publish, FinalizeVerifiedPublish,
         Exit, Preserve, Keep, HeartbeatStrikes, LoseLease, Abort, CloseGoals, CloseGoalGraph,
         ClearPreview, Discard, DiscardFails, Disown, End, MarkTerminal, Leave, LeaveTask, vars, tasks
  <2> QED
    BY <2>1 DEF DropTask, CustodyIInv, TypeOK
<1>6. CASE Environment
  <2>1. \/ UNCHANGED taskRun
        \/ \E v \in Workers : DropTask(v)
    BY <1>6 DEF Environment, Request, CreateMessageAndRun, CreateRecoveryMessageAndRun, QueueRun,
         AnswerUserInput, RequestCancel, SaveFileContent, RestoreVersion, LeaseExpires, Crash,
         CrashWorker, ClaimRefused, SandboxExpires, ExpireVerifiedPreview, vars, tasks
  <2> QED
    BY <1>2, <2>1 DEF DropTask, CustodyIInv, TypeOK
<1>7. CASE UNCHANGED custodyVars
  BY <1>2, <1>7 DEF custodyVars, vars, tasks
<1> QED
  BY <1>2, <1>3, <1>4, <1>5, <1>6, <1>7 DEF CustodyNext

(* A step that gives the run of the worker no row and leaves its reference *)
(* and continuation alone keeps what the worker relies on.                 *)
LEMMA WriterIsSpared ==
    ASSUME NEW w \in Workers, WriterOf(w), UNCHANGED <<rowRun, rowKind>>, cleaned \subseteq cleaned',
           pc'[w] = pc[w], gen'[w] = gen[w], ver'[w] = ver[w], taskRun'[w] = taskRun[w],
           sandboxId'[taskRun[w]] = sandboxId[taskRun[w]],
           continuation'[taskRun[w]] = continuation[taskRun[w]]
    PROVE  WriterOf(w)'
<1>1. LiveResources(taskRun[w])' \subseteq LiveResources(taskRun[w])
  BY DEF LiveResources
<1> QED
  BY <1>1 DEF WriterOf

(* What a claim commits is claimable still, and its worker held nothing.   *)
LEMMA ClaimedIsClaimable ==
    ASSUME CustodyIInv, NEW w \in Workers, NEW r \in Runs, NEW token \in Tokens, ClaimRun(w, r, token)
    PROVE  Claimable(r) /\ status[r] = "queued" /\ taskRun[w] = NoRun
<1>1. ClaimNextRun(w, r, token) /\ locked[w] # {}
  BY DEF ClaimRun, ClaimNextRun
<1>2. r \in locked[w] /\ status[r] = "queued"
  BY <1>1, ClaimTakesQueued DEF CustodyIInv
<1> QED
  BY <1>1, <1>2 DEF CustodyIInv, ClaimantInv, WriterInv, ClaimInv

LEMMA CustodianStep ==
    ASSUME CustodyIInv, [CustodyNext]_custodyVars
    PROVE  CustodianInv'
<1> SUFFICES ASSUME NEW w \in Workers, Fenced(w)' PROVE WriterOf(w)'
  BY DEF CustodianInv
<1>0. /\ pc \in [Workers -> Phases]
      /\ gen \in [Workers -> 0 .. MaxSandboxes] /\ ver \in [Workers -> 0 .. MaxSandboxes]
      /\ taskRun \in [Workers -> 0 .. MaxRuns]
      /\ sandboxId \in [Runs -> 0 .. MaxSandboxes]
      /\ rowRun \in [Sandboxes -> 0 .. MaxRuns]
      /\ continuation \in [Runs -> Continuation]
      /\ HandsOf(w)
      /\ cleaned \subseteq cleaned'
  BY RowsAreKept DEF CustodyIInv, CustodyTypeOK, TypeOK, HandsInv
<1> USE DEF Goto, rows, hands, refs
<1>1. ASSUME NEW r \in Runs, NEW token \in Tokens, ClaimRun(w, r, token) PROVE WriterOf(w)'
  <2>1. /\ pc'[w] = "begin" /\ taskRun'[w] = r
        /\ UNCHANGED <<rowRun, rowKind, cleaned, sandboxId, continuation>>
        /\ LiveResources(r) = {} \/ ResumableContinuation(r)
    BY <1>0, <1>1, ClaimedIsClaimable DEF ClaimRun, ClaimNextRun, Claimable, dialogue
  <2>2. LiveResources(r)' = LiveResources(r)
    BY <2>1 DEF LiveResources
  <2>3. sandboxId[r] # NoSandbox => rowKind[sandboxId[r]] = "generation"
    BY <1>1, ClaimedIsClaimable DEF CustodyIInv, ReferenceInv, ReferenceOf
  <2> QED
    BY <2>1, <2>2, <2>3 DEF WriterOf, ResumableContinuation, Acting
<1> SUFFICES ASSUME Fenced(w), taskRun'[w] = taskRun[w] PROVE WriterOf(w)'
  BY <1>1, FenceIsEarnedInClaim
<1> DEFINE r == taskRun[w]
<1>2. /\ WriterOf(w) /\ r \in Runs /\ status[r] = "running" /\ ~leaseExpired[r]
      /\ r # NoRun
      /\ \A v \in Workers : Fenced(v) => v = w
  BY FencedRun, FenceAdmitsOne DEF CustodyIInv, CustodianInv, Fenced, OneEffectiveWorker
<1> HIDE DEF r
<1>3. ASSUME NEW v \in Workers, Idle(v) PROVE WriterOf(w)'
  <2>1. ASSUME NEW s \in Runs, NEW intact \in BOOLEAN, RecoverExpired(v, s, intact) PROVE WriterOf(w)'
    <3>1. s # r
      BY <1>2, <2>1 DEF RecoverExpired, RecoverExpiredRunningRun
    <3>2. sandboxId'[r] = sandboxId[r] /\ continuation'[r] = continuation[r]
      BY <1>0, <1>2, <2>1, <3>1 DEF RecoverExpired, RecoverExpiredRunningRun, RequeueExpired, FailExpired,
            dialogue
    <3> QED
      BY <1>0, <1>2, <2>1, <3>2, WriterIsSpared DEF RecoverExpired, r
  <2>2. ASSUME NEW t \in targets[v], DestroyStale(v, t) \/ DestroyStaleFails(v, t) PROVE WriterOf(w)'
    <3>1. t.run = r => sandboxId[r] # t.sandbox
      BY <1>2 DEF CustodyIInv, TargetInv, TargetOK
    <3>2. sandboxId'[r] = sandboxId[r]
      BY <1>0, <1>2, <2>2, <3>1 DEF DestroyStale, DestroyStaleFails, ClearSandboxId
    <3> QED
      BY <1>0, <1>2, <2>2, <3>2, WriterIsSpared DEF DestroyStale, DestroyStaleFails, vars, dialogue, r
  <2>3. CASE ListTargets(v) \/ NothingToClaim(v)
    <3>1. v # w
      BY <1>0, <1>2, <2>3 DEF ListTargets, NothingToClaim, HandsOf, r
    <3>2. pc'[w] = pc[w]
      BY <1>0, <2>3, <3>1 DEF ListTargets, NothingToClaim
    <3> QED
      BY <1>0, <1>2, <2>3, <3>2, WriterIsSpared DEF ListTargets, NothingToClaim, vars, dialogue, r
  <2>4. ASSUME NEW s \in Runs, NEW token \in Tokens, ClaimRun(v, s, token) PROVE WriterOf(w)'
    <3>1. v # w
      BY <1>2, <2>4, ClaimedIsClaimable DEF r
    <3>2. pc'[w] = pc[w]
      BY <1>0, <2>4, <3>1 DEF ClaimRun
    <3> QED
      BY <1>0, <1>2, <2>4, <3>2, WriterIsSpared DEF ClaimRun, ClaimNextRun, dialogue, r
  <2>5. ASSUME NEW candidates, SelectRuns(v, candidates) PROVE WriterOf(w)'
    <3>1. v # w
      BY <1>2, <2>5 DEF SelectRuns, SelectCandidates, r
    <3>2. pc'[w] = pc[w]
      BY <1>0, <2>5, <3>1 DEF SelectRuns
    <3> QED
      BY <1>0, <1>2, <2>5, <3>2, WriterIsSpared DEF SelectRuns, SelectCandidates, dialogue, r
  <2> QED
    BY <1>3, <2>1, <2>2, <2>3, <2>4, <2>5 DEF Idle
<1>4. CASE Work(w)
  <2>1. CASE Escape(w) \/ Ask(w) \/ Publish(w)
    <3>1. ~(pc'[w] \in Acting \/ pc'[w] = "begin")
      BY <1>0, <2>1 DEF Escape, Ask, Publish, Acting
    <3> QED
      BY <3>1 DEF WriterOf, Acting
  <2>2. CASE Adopt(w)
    <3>1. /\ pc[w] = "begin" /\ pc'[w] \in {"work", "unavailable"}
          /\ gen'[w] = sandboxId[r] /\ UNCHANGED <<rowRun, cleaned>>
      BY <1>0, <2>2 DEF Adopt, r
    <3>2. LiveResources(r)' \subseteq {sandboxId[r]}
      BY <1>2, <3>1 DEF WriterOf, LiveResources, r
    <3> QED
      BY <3>1, <3>2 DEF WriterOf, r
  <2>3. CASE CreateGeneration(w) \/ CreateVerification(w)
    <3>1. /\ UNCHANGED <<rowRun, cleaned>>
          /\ \/ pc[w] = "begin" /\ pc'[w] = "register" /\ continuation[r] = "none"
             \/ pc[w] = "work" /\ pc'[w] = "registerV" /\ gen'[w] = gen[w] /\ ver[w] = NoSandbox
      BY <1>0, <2>3 DEF CreateGeneration, CreateVerification, HandsOf, r
    <3>2. LiveResources(r) \subseteq {gen'[w], NoSandbox} /\ NoSandbox \notin LiveResources(r)
      BY <1>2, <3>1 DEF WriterOf, Acting, LiveResources, Sandboxes, NoSandbox, r
    <3>3. LiveResources(r)' = LiveResources(r)
      BY <3>1 DEF LiveResources, r
    <3> QED
      BY <3>1, <3>2, <3>3 DEF WriterOf, r
  <2>4. CASE RegisterGeneration(w) \/ RegisterVerification(w)
    <3>1. PICK s \in {gen[w], ver[w]} : rowRun' = [rowRun EXCEPT ![s] = r]
      BY <2>4 DEF RegisterGeneration, RegisterVerification, RegisterRow, r
    <3>2. LiveResources(r)' \subseteq LiveResources(r) \cup {s}
      BY <1>0, <3>1 DEF LiveResources, r
    <3>3. /\ pc[w] \in Acting /\ pc'[w] \in {"attach", "attachV"} /\ UNCHANGED <<gen, ver>>
      BY <1>0, <2>4 DEF RegisterGeneration, RegisterVerification, Acting
    <3>4. LiveResources(r) \subseteq {gen[w], ver[w]}
      BY <1>2, <3>3 DEF WriterOf, r
    <3> QED
      BY <3>1, <3>2, <3>3, <3>4 DEF WriterOf, r
  <2>5. CASE AttachGeneration(w) \/ AttachVerification(w) \/ ReturnToG(w)
    <3>1. /\ UNCHANGED <<rowRun, cleaned, gen, ver>> /\ pc[w] \in Acting
          /\ \/ pc'[w] = "work"
             \/ pc'[w] = "verify" /\ sandboxId'[r] = ver[w]
      BY <1>0, <1>2, <2>5 DEF AttachGeneration, AttachVerification, ReturnToG, SetSandboxId, Acting, r
    <3>2. LiveResources(r)' \subseteq {gen'[w], ver'[w]}
      BY <1>2, <3>1 DEF WriterOf, LiveResources, r
    <3> QED
      BY <3>1, <3>2 DEF WriterOf, r
  <2>6. CASE RetireVerification(w)
    <3>1. /\ pc[w] \in Acting /\ pc'[w] = "retire" /\ UNCHANGED <<gen, rowRun>>
          /\ rowRun[ver[w]] = r
      BY <1>0, <2>6 DEF RetireVerification, Acting, HandsOf, r
    <3>2. cleaned' = cleaned \cup {ver[w]}
      BY <1>2, <2>6, <3>1 DEF RetireVerification, Destroy
    <3>3. LiveResources(r)' \subseteq {gen'[w]}
      BY <1>2, <3>1, <3>2 DEF WriterOf, LiveResources, r
    <3> QED
      BY <3>1, <3>3 DEF WriterOf, r
  <2>7. CASE StartPreview(w) \/ Pass(w) \/ ForgetPreview(w)
    <3>1. /\ UNCHANGED <<rowRun, cleaned, gen, ver, sandboxId>> /\ pc[w] \in Acting
          /\ \/ pc[w] = "retire" /\ pc'[w] = "return"
             \/ pc[w] \in {"verify", "judged"} /\ pc'[w] \in {"judged", "passed"}
      BY <1>0, <2>7 DEF StartPreview, Pass, ForgetPreview, Acting
    <3>2. LiveResources(r)' \subseteq {gen'[w], ver'[w]}
      BY <1>2, <3>1 DEF WriterOf, LiveResources, r
    <3> QED
      BY <1>2, <3>1, <3>2 DEF WriterOf, r
  <2>8. CASE TurnInG(w)
    <3>1. /\ UNCHANGED <<rowRun, cleaned, gen, ver, sandboxId, pc>> /\ pc[w] = "work"
      BY <2>8 DEF TurnInG, custody
    <3>2. LiveResources(r)' \subseteq {gen'[w], ver'[w]}
      BY <1>2, <3>1 DEF WriterOf, LiveResources, Acting, r
    <3> QED
      BY <3>1, <3>2 DEF WriterOf, r
  <2> QED
    BY <1>4, <2>1, <2>2, <2>3, <2>4, <2>5, <2>6, <2>7, <2>8 DEF Work
<1>5. CASE Exit(w)
  <2>1. ~(pc'[w] \in Acting \/ pc'[w] = "begin")
    BY <1>0, <1>5 DEF Exit, Preserve, Keep, HeartbeatStrikes, LoseLease, Abort, CloseGoals, ClearPreview,
         Discard, DiscardFails, Disown, End, Leave, custody, Acting
  <2> QED
    BY <2>1 DEF WriterOf, Acting
<1>6. ASSUME NEW v \in Workers \ {w}, Work(v) \/ Exit(v) PROVE WriterOf(w)'
  <2>1. ~Fenced(v)
    BY <1>2, <1>6
  <2>2. Exit(v)
    BY <1>6, <2>1, WorkIsFenced
  <2>3. /\ UNCHANGED <<rowRun, rowKind, sandboxId, continuation>>
        /\ pc'[w] = pc[w] /\ gen'[w] = gen[w] /\ ver'[w] = ver[w]
    BY <1>0, <2>1, <2>2
       DEF Exit, Preserve, Keep, HeartbeatStrikes, LoseLease, Abort, CloseGoals, CloseGoalGraph,
         ClearPreview, Discard, DiscardFails, Release, Destroy, Disown, End, MarkTerminal, Leave, LeaveTask,
         Working, custody, vars, dialogue
  <2> QED
    BY <1>0, <1>2, <2>3, WriterIsSpared
<1>7. CASE Environment
  <2>1. CASE Request /\ UNCHANGED custody
    <3>1. continuation'[r] = continuation[r]
      BY <1>0, <1>2, <2>1 DEF Request, CreateMessageAndRun, CreateRecoveryMessageAndRun, QueueRun,
           AnswerUserInput, RequestCancel, SaveFileContent, RestoreVersion, dialogue
    <3> QED
      BY <1>0, <1>2, <2>1, <3>1, WriterIsSpared DEF custody, r
  <2>2. ASSUME NEW s \in Runs, LeaseExpires(s) /\ UNCHANGED custody PROVE WriterOf(w)'
    BY <1>0, <1>2, <2>2, WriterIsSpared DEF LeaseExpires, dialogue, custody, r
  <2>3. ASSUME NEW v \in Workers, Crash(v) PROVE WriterOf(w)'
    <3>1. v # w
      BY <1>0, <1>2, <2>3 DEF Crash, CrashWorker, ClaimRefused, DropTask, r
    <3> QED
      BY <1>0, <1>2, <2>3, <3>1, WriterIsSpared DEF Crash, CrashWorker, ClaimRefused, dialogue, r
  <2>4. ASSUME NEW s \in Sandboxes, SandboxExpires(s) \/ ExpireVerifiedPreview(s) PROVE WriterOf(w)'
    BY <1>0, <1>2, <2>4, WriterIsSpared DEF SandboxExpires, ExpireVerifiedPreview, vars, dialogue, r
  <2> QED
    BY <1>7, <2>1, <2>2, <2>3, <2>4 DEF Environment
<1>8. CASE UNCHANGED custodyVars
  BY <1>0, <1>2, <1>8, WriterIsSpared DEF custodyVars, custody, vars, dialogue, r
<1> QED
  BY <1>3, <1>4, <1>5, <1>6, <1>7, <1>8 DEF CustodyNext

-----------------------------------------------------------------------------
(* What a step may do to the status, continuation and reference of a run.  *)

(* Nothing, but for the preview: it is advertised only by a running run.   *)
Kept(r) ==
    /\ status'[r] = status[r]
    /\ continuation'[r] = continuation[r]
    /\ sandboxId'[r] = sandboxId[r]
    /\ status[r] # "running" /\ preview'[r] => preview[r]

(* The worker that passes the fence points the run at what it holds.       *)
Written(r) ==
    /\ status[r] = "running" /\ status'[r] = "running"
    /\ \E w \in Workers :
          /\ Fenced(w) /\ taskRun[w] = r
          /\ \/ sandboxId'[r] \in {sandboxId[r], NoSandbox}
             \/ /\ sandboxId'[r] \in {gen[w], ver[w]} \ {NoSandbox}
                /\ rowRun[sandboxId'[r]] = r

(* The run ends, asks, is published, or is requeued by lease recovery.     *)
Left(r) ==
    /\ status[r] = "running"
    /\ \/ status'[r] \in Recoverable /\ sandboxId'[r] = sandboxId[r]
       \/ /\ status'[r] = "queued" /\ sandboxId'[r] = NoSandbox
          /\ continuation'[r] \in {"none", "detached"}
       \/ /\ status'[r] = "waiting_for_user" /\ continuation'[r] = "pending"
          /\ sandboxId'[r] = sandboxId[r] /\ sandboxId[r] # NoSandbox
          /\ rowKind[sandboxId[r]] = "generation"
       \/ /\ status'[r] = "succeeded"
          /\ sandboxId'[r] = sandboxId[r] /\ sandboxId[r] # NoSandbox
          /\ rowKind[sandboxId[r]] = "verification"

Claimed(r) ==
    /\ Claimable(r)
    /\ status'[r] = "running"
    /\ sandboxId'[r] = sandboxId[r]

(* The sweep forgets the reference its target names.                       *)
Cleared(r) ==
    /\ \E w \in Workers : \E t \in targets[w] : t.run = r /\ t.sandbox = sandboxId[r]
    /\ sandboxId'[r] = NoSandbox
    /\ status'[r] = status[r]
    /\ continuation'[r] = continuation[r]
    /\ preview'[r] = preview[r]

Requested(r) ==
    /\ sandboxId'[r] = sandboxId[r]
    /\ \/ status[r] = "absent" /\ status'[r] = "queued" /\ continuation'[r] = continuation[r]
       \/ /\ status[r] = "waiting_for_user" /\ status'[r] = "queued"
          /\ continuation[r] = "pending" /\ continuation'[r] = "answered"
       \/ status[r] \in {"queued", "waiting_for_user"} /\ status'[r] = "cancelled"

RunMoves(r) ==
    Kept(r) \/ Written(r) \/ Left(r) \/ Claimed(r) \/ Cleared(r) \/ Requested(r)

(* The worker's own steps.                                                 *)
LEMMA WorkMoves ==
    ASSUME CustodyIInv, NEW w \in Workers, Work(w), NEW r \in Runs
    PROVE  RunMoves(r)
<1>0. /\ pc \in [Workers -> Phases]
      /\ sandboxId \in [Runs -> 0 .. MaxSandboxes] /\ preview \in [Runs -> BOOLEAN]
      /\ continuation \in [Runs -> Continuation] /\ status \in [Runs -> RunStatus]
      /\ HandsOf(w) /\ WriterOf(w) /\ Fenced(w)
  BY WorkIsFenced DEF CustodyIInv, CustodyTypeOK, TypeOK, HandsInv, CustodianInv
<1>1. taskRun[w] \in Runs /\ taskRun[w] # NoRun /\ status[taskRun[w]] = "running"
  BY <1>0, FencedRun DEF CustodyIInv, Fenced
<1> USE DEF Goto, rows, hands, refs, RunMoves
<1>2. CASE \/ Escape(w) \/ Adopt(w) \/ CreateGeneration(w) \/ RegisterGeneration(w)
           \/ CreateVerification(w) \/ RegisterVerification(w)
  BY <1>2 DEF Escape, EscapeTask, Adopt, CreateGeneration, RegisterGeneration, CreateVerification,
     RegisterVerification, Kept, vars, lifecycle, dialogue
<1>3. CASE TurnInG(w)
  <2>1. UNCHANGED <<status, sandboxId, preview>>
    BY <1>3 DEF TurnInG, CompleteRunContinuation, CreateGoalGraph, lifecycle, custody
  <2>2. continuation'[r] = continuation[r] \/ taskRun[w] = r
    BY <1>0, <1>1, <1>3 DEF TurnInG, CompleteRunContinuation, CreateGoalGraph, dialogue
  <2> QED
    BY <1>0, <1>1, <2>1, <2>2 DEF Kept, Written
<1>4. CASE Ask(w)
  <2>1. /\ UNCHANGED <<sandboxId, preview>>
        /\ status' = [status EXCEPT ![taskRun[w]] = "waiting_for_user"]
        /\ continuation' = [continuation EXCEPT ![taskRun[w]] = "pending"]
        /\ sandboxId[taskRun[w]] = gen[w]
        /\ pc[w] = "work"
    BY <1>4 DEF Ask, WaitForUserInput
  <2>2. gen[w] # NoSandbox /\ rowKind[gen[w]] = "generation"
    BY <1>0, <2>1 DEF HandsOf, Acting
  <2> QED
    BY <1>0, <1>1, <2>1, <2>2 DEF Kept, Left
<1>5. CASE AttachGeneration(w) \/ AttachVerification(w) \/ ReturnToG(w)
  <2>1. PICK s \in {gen[w], ver[w]} :
            /\ sandboxId' = [sandboxId EXCEPT ![taskRun[w]] = s]
            /\ s # NoSandbox /\ rowRun[s] = taskRun[w]
    BY <1>0, <1>5 DEF AttachGeneration, AttachVerification, ReturnToG, SetSandboxId, HandsOf, Acting
  <2>2. UNCHANGED <<status, continuation, preview>>
    BY <1>5 DEF AttachGeneration, AttachVerification, ReturnToG, vars, lifecycle, dialogue
  <2> QED
    BY <1>0, <1>1, <2>1, <2>2 DEF Kept, Written
<1>6. CASE StartPreview(w) \/ ForgetPreview(w)
  <2>1. /\ UNCHANGED <<status, continuation, sandboxId>>
        /\ \A s \in Runs : s # taskRun[w] => preview'[s] = preview[s]
    BY <1>0, <1>6 DEF StartPreview, ForgetPreview, vars, lifecycle, dialogue
  <2> QED
    BY <1>1, <2>1 DEF Kept
<1>7. CASE Pass(w)
  BY <1>7 DEF Pass, RecordVerifiedCheckpoint, Kept, vars, lifecycle, dialogue
<1>8. CASE RetireVerification(w)
  <2>1. /\ UNCHANGED <<status, continuation, preview>>
        /\ \/ sandboxId' = [sandboxId EXCEPT ![taskRun[w]] = NoSandbox]
           \/ sandboxId' = sandboxId
    BY <1>0, <1>1, <1>8 DEF RetireVerification, Destroy, ClearSandboxId, vars, lifecycle, dialogue
  <2> QED
    BY <1>0, <1>1, <2>1 DEF Kept, Written
<1>9. CASE Publish(w)
  <2>1. /\ UNCHANGED <<sandboxId, continuation>>
        /\ status' = [status EXCEPT ![taskRun[w]] = "succeeded"]
        /\ preview' = [preview EXCEPT ![taskRun[w]] = TRUE]
        /\ pc[w] = "passed"
    BY <1>9 DEF Publish, FinalizeVerifiedPublish, dialogue
  <2>2. sandboxId[taskRun[w]] = ver[w] /\ ver[w] # NoSandbox /\ rowKind[ver[w]] = "verification"
    BY <1>0, <2>1 DEF HandsOf, WriterOf
  <2> QED
    BY <1>0, <1>1, <2>1, <2>2 DEF Kept, Left
<1> QED
  BY <1>2, <1>3, <1>4, <1>5, <1>6, <1>7, <1>8, <1>9 DEF Work

(* The exits of a task.                                                    *)
LEMMA ExitMoves ==
    ASSUME CustodyIInv, NEW w \in Workers, Exit(w), NEW r \in Runs
    PROVE  RunMoves(r)
<1>0. /\ sandboxId \in [Runs -> 0 .. MaxSandboxes] /\ preview \in [Runs -> BOOLEAN]
      /\ status \in [Runs -> RunStatus]
      /\ Fenced(w) => taskRun[w] \in Runs /\ taskRun[w] # NoRun /\ status[taskRun[w]] = "running"
  BY FencedRun DEF CustodyIInv, CustodyTypeOK, TypeOK, Fenced
<1> USE DEF Goto, rows, hands, refs, RunMoves
<1>1. CASE \/ Preserve(w) \/ Keep(w) \/ HeartbeatStrikes(w) \/ LoseLease(w) \/ Abort(w) \/ CloseGoals(w)
           \/ (\E s \in Sandboxes : DiscardFails(w, s)) \/ Disown(w) \/ Leave(w)
  BY <1>1 DEF Preserve, Keep, HeartbeatStrikes, LoseLease, Abort, CloseGoals, CloseGoalGraph,
     DiscardFails, Disown, Leave, LeaveTask, custody, vars, lifecycle, dialogue, Kept
<1>2. CASE ClearPreview(w)
  <2>1. /\ UNCHANGED <<status, continuation, sandboxId>>
        /\ preview' = [preview EXCEPT ![taskRun[w]] = FALSE]
    BY <1>2 DEF ClearPreview, vars, lifecycle, dialogue
  <2> QED
    BY <1>0, <2>1 DEF Kept
<1>3. ASSUME NEW s \in Sandboxes, Discard(w, s) PROVE RunMoves(r)
  <2>1. /\ UNCHANGED <<status, continuation, preview>>
        /\ \/ Fenced(w) /\ sandboxId' = [sandboxId EXCEPT ![taskRun[w]] = NoSandbox]
           \/ sandboxId' = sandboxId
    BY <1>0, <1>3 DEF Discard, Destroy, ClearSandboxId, vars, lifecycle, dialogue
  <2> QED
    BY <1>0, <2>1 DEF Kept, Written
<1>4. CASE End(w)
  <2>1. PICK x \in Recoverable : status' = [status EXCEPT ![taskRun[w]] = x]
    BY <1>4 DEF End, MarkTerminal, Recoverable
  <2>2. UNCHANGED <<sandboxId, preview, continuation>> /\ Fenced(w)
    BY <1>4 DEF End, MarkTerminal, Working, dialogue
  <2> QED
    BY <1>0, <2>1, <2>2 DEF Kept, Left
<1> QED
  BY <1>1, <1>2, <1>3, <1>4 DEF Exit

(* Recovery, the sweep and the claim.                                      *)
LEMMA IdleMoves ==
    ASSUME CustodyIInv, NEW w \in Workers, Idle(w), NEW r \in Runs
    PROVE  RunMoves(r)
<1>0. /\ sandboxId \in [Runs -> 0 .. MaxSandboxes] /\ preview \in [Runs -> BOOLEAN]
      /\ continuation \in [Runs -> Continuation] /\ status \in [Runs -> RunStatus]
  BY DEF CustodyIInv, CustodyTypeOK, TypeOK
<1> USE DEF Goto, rows, hands, refs, RunMoves
<1>1. ASSUME NEW s \in Runs, NEW intact \in BOOLEAN, RecoverExpired(w, s, intact) PROVE RunMoves(r)
  <2>0. RecoverExpiredRunningRun(s, intact) /\ status[s] = "running"
    BY <1>1 DEF RecoverExpired, RecoverExpiredRunningRun
  <2>1. CASE Resumable(s, intact)
    <3>1. /\ status' = [status EXCEPT ![s] = "queued"]
          /\ continuation' = [continuation EXCEPT ![s] = IF @ = "none" THEN "none" ELSE "detached"]
          /\ sandboxId' = [sandboxId EXCEPT ![s] = NoSandbox]
          /\ preview' = [preview EXCEPT ![s] = FALSE]
      BY <1>1, <2>0, <2>1 DEF RecoverExpired, RecoverExpiredRunningRun, RequeueExpired
    <3> QED
      BY <1>0, <2>0, <3>1 DEF Kept, Left
  <2>2. CASE ~Resumable(s, intact)
    <3>1. PICK x \in Recoverable : status' = [status EXCEPT ![s] = x]
      BY <2>0, <2>2 DEF RecoverExpiredRunningRun, FailExpired, Recoverable
    <3>2. UNCHANGED <<sandboxId, preview, continuation>>
      BY <1>0, <1>1, <2>0, <2>2 DEF RecoverExpired, RecoverExpiredRunningRun, FailExpired, dialogue
    <3> QED
      BY <1>0, <2>0, <3>1, <3>2 DEF Kept, Left
  <2> QED
    BY <2>1, <2>2
<1>2. ASSUME NEW t \in targets[w], DestroyStale(w, t) \/ DestroyStaleFails(w, t) PROVE RunMoves(r)
  <2>1. /\ UNCHANGED <<status, continuation, preview>>
        /\ \/ sandboxId' = sandboxId
           \/ sandboxId' = [sandboxId EXCEPT ![t.run] = IF @ = t.sandbox THEN NoSandbox ELSE @]
    BY <1>2 DEF DestroyStale, DestroyStaleFails, ClearSandboxId, vars, lifecycle, dialogue
  <2> QED
    BY <1>0, <2>1 DEF Kept, Cleared
<1>3. ASSUME NEW s \in Runs, NEW token \in Tokens, ClaimRun(w, s, token) PROVE RunMoves(r)
  <2>1. /\ Claimable(s) /\ status' = [status EXCEPT ![s] = "running"]
        /\ UNCHANGED <<sandboxId, preview, continuation>>
    BY <1>3, ClaimedIsClaimable DEF ClaimRun, ClaimNextRun, dialogue
  <2> QED
    BY <1>0, <2>1 DEF Kept, Claimed
<1>4. CASE ListTargets(w) \/ NothingToClaim(w)
  BY <1>4 DEF ListTargets, NothingToClaim, vars, lifecycle, dialogue, Kept
<1>5. ASSUME NEW candidates, SelectRuns(w, candidates) PROVE RunMoves(r)
  BY <1>5 DEF SelectRuns, SelectCandidates, lifecycle, dialogue, Kept
<1> QED
  BY <1>1, <1>2, <1>3, <1>4, <1>5 DEF Idle

(* Requests, expiries and crashes.                                         *)
LEMMA EnvironmentMoves ==
    ASSUME CustodyIInv, Environment, NEW r \in Runs
    PROVE  RunMoves(r)
<1>0. /\ preview \in [Runs -> BOOLEAN] /\ rowRun \in [Sandboxes -> 0 .. MaxRuns]
      /\ continuation \in [Runs -> Continuation] /\ status \in [Runs -> RunStatus]
  BY DEF CustodyIInv, CustodyTypeOK, TypeOK
<1> USE DEF rows, hands, refs, RunMoves
<1>1. CASE Request /\ UNCHANGED custody
  <2>0. UNCHANGED <<sandboxId, preview>>
    BY <1>1 DEF custody
  <2>1. ASSUME NEW base, QueueRun(base) PROVE RunMoves(r)
    <3>1. created + 1 \in Runs /\ status[created + 1] = "absent"
      BY <2>1, BoundsAssumption DEF QueueRun, CustodyIInv, TypeOK, WriterInv, LeaseInv, Runs
    <3>2. status' = [status EXCEPT ![created + 1] = "queued"] /\ UNCHANGED continuation
      BY <2>1 DEF QueueRun, dialogue
    <3> QED
      BY <1>0, <2>0, <3>1, <3>2 DEF Kept, Requested
  <2>2. ASSUME NEW s \in Runs, AnswerUserInput(s) PROVE RunMoves(r)
    BY <1>0, <2>0, <2>2 DEF AnswerUserInput, Kept, Requested
  <2>3. ASSUME NEW s \in Runs, RequestCancel(s) PROVE RunMoves(r)
    BY <1>0, <2>0, <2>3 DEF RequestCancel, Kept, Requested
  <2>4. CASE SaveFileContent \/ RestoreVersion
    BY <2>0, <2>4 DEF SaveFileContent, RestoreVersion, lifecycle, dialogue, Kept
  <2> QED
    BY <1>1, <2>1, <2>2, <2>3, <2>4 DEF Request, CreateMessageAndRun, CreateRecoveryMessageAndRun
<1>2. ASSUME NEW s \in Runs, LeaseExpires(s) /\ UNCHANGED custody PROVE RunMoves(r)
  BY <1>2 DEF LeaseExpires, lifecycle, dialogue, custody, Kept
<1>3. ASSUME NEW w \in Workers, Crash(w) PROVE RunMoves(r)
  BY <1>3 DEF Crash, CrashWorker, ClaimRefused, lifecycle, dialogue, Kept
<1>4. ASSUME NEW s \in Sandboxes, SandboxExpires(s) PROVE RunMoves(r)
  BY <1>4 DEF SandboxExpires, vars, lifecycle, dialogue, Kept
<1>5. ASSUME NEW s \in Sandboxes, ExpireVerifiedPreview(s) PROVE RunMoves(r)
  <2>1. /\ UNCHANGED <<status, continuation, sandboxId>>
        /\ preview' = [preview EXCEPT ![rowRun[s]] = FALSE]
    BY <1>5 DEF ExpireVerifiedPreview, vars, lifecycle, dialogue
  <2> QED
    BY <1>0, <2>1 DEF Kept
<1> QED
  BY <1>1, <1>2, <1>3, <1>4, <1>5 DEF Environment

(* No step does anything else to a run.                                    *)
LEMMA EveryStepMovesRuns ==
    ASSUME CustodyIInv, [CustodyNext]_custodyVars, NEW r \in Runs
    PROVE  RunMoves(r)
<1>1. CASE UNCHANGED custodyVars
  BY <1>1 DEF custodyVars, custody, vars, lifecycle, dialogue, refs, RunMoves, Kept
<1> QED
  BY <1>1, WorkMoves, ExitMoves, IdleMoves, EnvironmentMoves DEF CustodyNext

-----------------------------------------------------------------------------
(* References.                                                             *)

LEMMA ReferenceStep ==
    ASSUME CustodyIInv, [CustodyNext]_custodyVars
    PROVE  ReferenceInv'
<1> SUFFICES ASSUME NEW r \in Runs PROVE ReferenceOf(r)'
  BY DEF ReferenceInv
<1>0. /\ ReferenceOf(r) /\ RunMoves(r) /\ r # NoRun
      /\ sandboxId[r] # NoSandbox => sandboxId[r] \in Sandboxes
      /\ \A s \in Sandboxes : rowRun[s] # NoRun => rowRun'[s] = rowRun[s] /\ rowKind'[s] = rowKind[s]
  <2>1. RunMoves(r)
    BY EveryStepMovesRuns
  <2>2. ReferenceOf(r) /\ r # NoRun
    BY BoundsAssumption DEF CustodyIInv, ReferenceInv, Runs, NoRun
  <2>3. sandboxId[r] # NoSandbox => sandboxId[r] \in Sandboxes
    BY CustodyAssumption DEF CustodyIInv, CustodyTypeOK, Sandboxes, NoSandbox
  <2>4. \A s \in Sandboxes : rowRun[s] # NoRun => rowRun'[s] = rowRun[s] /\ rowKind'[s] = rowKind[s]
    BY RowsAreKept DEF CustodyIInv
  <2> QED
    BY <2>1, <2>2, <2>3, <2>4
<1>1. sandboxId[r] # NoSandbox => rowRun'[sandboxId[r]] = r /\ rowKind'[sandboxId[r]] = rowKind[sandboxId[r]]
  BY <1>0 DEF ReferenceOf
<1>2. CASE Kept(r)
  BY <1>0, <1>1, <1>2 DEF Kept, ReferenceOf
<1>3. CASE Written(r)
  <2>1. PICK w \in Workers :
            \/ sandboxId'[r] \in {sandboxId[r], NoSandbox}
            \/ sandboxId'[r] \in {gen[w], ver[w]} \ {NoSandbox} /\ rowRun[sandboxId'[r]] = r
    BY <1>3 DEF Written
  <2>2. gen[w] # NoSandbox => gen[w] \in Sandboxes
    BY CustodyAssumption DEF CustodyIInv, CustodyTypeOK, Sandboxes, NoSandbox
  <2>3. ver[w] # NoSandbox => ver[w] \in Sandboxes
    BY CustodyAssumption DEF CustodyIInv, CustodyTypeOK, Sandboxes, NoSandbox
  <2>4. sandboxId'[r] # NoSandbox => rowRun'[sandboxId'[r]] = r
    BY <1>0, <1>1, <2>1, <2>2, <2>3
  <2>5. status'[r] = "running"
    BY <1>3 DEF Written
  <2> QED
    BY <2>4, <2>5 DEF ReferenceOf
<1>4. CASE Left(r)
  BY <1>0, <1>1, <1>4 DEF Left, ReferenceOf, Recoverable
<1>5. CASE Claimed(r)
  BY <1>0, <1>1, <1>5 DEF Claimed, ReferenceOf
<1>6. CASE Cleared(r)
  <2>1. PICK w \in Workers : \E t \in targets[w] : t.run = r /\ t.sandbox = sandboxId[r]
    BY <1>6 DEF Cleared
  <2>2. PICK t \in targets[w] : t.run = r /\ t.sandbox = sandboxId[r]
    BY <2>1
  <2>3. /\ sandboxId[r] # NoSandbox
        /\ ~AwaitsContinuation(r, sandboxId[r]) /\ ~IsVerifiedPreview(r, sandboxId[r])
    BY <2>2, TargetIsRegistered DEF CustodyIInv, TargetInv, TargetOK, Sandboxes, NoSandbox
  <2> QED
    BY <1>0, <1>6, <2>3 DEF Cleared, ReferenceOf, AwaitsContinuation, IsVerifiedPreview
<1>7. CASE Requested(r)
  BY <1>0, <1>1, <1>7 DEF Requested, ReferenceOf
<1> QED
  BY <1>0, <1>2, <1>3, <1>4, <1>5, <1>6, <1>7 DEF RunMoves

-----------------------------------------------------------------------------
(* Cleanup targets.                                                        *)

(* What a task that passes the fence may come to hold in a step.           *)
LEMMA HandsMoves ==
    ASSUME CustodyIInv, [CustodyNext]_custodyVars, NEW w \in Workers, Fenced(w)'
    PROVE  \/ gen'[w] = NoSandbox /\ ver'[w] = NoSandbox
           \/ /\ Fenced(w) /\ taskRun'[w] = taskRun[w]
              /\ {gen'[w], ver'[w]} \subseteq
                    {gen[w], ver[w], NoSandbox, provided + 1, sandboxId[taskRun[w]]}
<1>0. /\ gen \in [Workers -> 0 .. MaxSandboxes] /\ ver \in [Workers -> 0 .. MaxSandboxes]
      /\ HandsOf(w)
  BY DEF CustodyIInv, CustodyTypeOK, HandsInv
<1>1. ASSUME NEW r \in Runs, NEW token \in Tokens, ClaimRun(w, r, token)
      PROVE  gen'[w] = NoSandbox /\ ver'[w] = NoSandbox
  BY <1>0, <1>1 DEF ClaimRun, HandsOf
<1> DEFINE Held == {gen'[w], ver'[w]} \subseteq
                       {gen[w], ver[w], NoSandbox, provided + 1, sandboxId[taskRun[w]]}
<1>2. ASSUME UNCHANGED <<gen, ver>> PROVE Held
  BY <1>2
<1>3. ASSUME NEW v \in Workers, Idle(v) PROVE Held
  BY <1>2, <1>3 DEF Idle, RecoverExpired, ListTargets, DestroyStale, DestroyStaleFails, SelectRuns, ClaimRun,
     NothingToClaim, hands
<1>4. ASSUME NEW v \in Workers, Work(v) PROVE Held
  <2>1. CASE Adopt(v) \/ CreateGeneration(v) \/ CreateVerification(v) \/ RetireVerification(v)
    BY <1>0, <2>1 DEF Adopt, CreateGeneration, CreateVerification, RetireVerification
  <2>2. CASE UNCHANGED <<gen, ver>>
    BY <1>2, <2>2
  <2> QED
    BY <1>4, <2>1, <2>2 DEF Work, Escape, RegisterGeneration, AttachGeneration, TurnInG, Ask,
       RegisterVerification, AttachVerification, StartPreview, Pass, ForgetPreview, ReturnToG,
       Publish, custody, hands
<1>5. ASSUME NEW v \in Workers, Exit(v) PROVE Held
  <2>1. ASSUME NEW s \in Sandboxes, Discard(v, s) \/ DiscardFails(v, s) PROVE Held
    BY <1>0, <2>1 DEF Discard, DiscardFails, Release
  <2>2. CASE Preserve(v) \/ Keep(v) \/ Disown(v) \/ Leave(v)
    BY <1>0, <2>2 DEF Preserve, Keep, Disown, Leave
  <2>3. CASE UNCHANGED <<gen, ver>>
    BY <1>2, <2>3
  <2> QED
    BY <1>5, <2>1, <2>2, <2>3 DEF Exit, HeartbeatStrikes, LoseLease, Abort, CloseGoals, ClearPreview,
       End, custody, hands
<1>6. ASSUME Environment PROVE Held
  BY <1>0, <1>2, <1>6 DEF Environment, Crash, SandboxExpires, ExpireVerifiedPreview, custody, hands
<1>7. ASSUME UNCHANGED custodyVars PROVE Held
  BY <1>2, <1>7 DEF custodyVars, custody, hands
<1>8. Held
  BY <1>3, <1>4, <1>5, <1>6, <1>7 DEF CustodyNext
<1> HIDE DEF Held
<1>9. CASE Fenced(w) /\ taskRun'[w] = taskRun[w]
  BY <1>8, <1>9 DEF Held
<1> QED
  BY <1>1, <1>9, FenceIsEarnedInClaim

(* A target stays harmless for as long as it is kept, whatever its run     *)
(* lives through in the meantime: an answer, a claim, a new attempt.       *)
LEMMA TargetStaysHarmless ==
    ASSUME CustodyIInv, [CustodyNext]_custodyVars, NEW v \in Workers, NEW t \in targets[v]
    PROVE  TargetOK(t)'
<1> DEFINE r == t.run
           s == t.sandbox
<1>1. /\ r \in Runs /\ s \in Sandboxes /\ rowRun[s] = r /\ r # NoRun /\ s # NoSandbox
      /\ TargetOK(t)
  BY TargetIsRegistered DEF CustodyIInv, TargetInv, Sandboxes, NoSandbox
<1>2. rowRun'[s] = r /\ rowKind'[s] = rowKind[s] /\ cleaned \subseteq cleaned'
  BY <1>1, RowsAreKept DEF CustodyIInv
<1>3. RunMoves(r) /\ ReferenceOf(r)
  BY <1>1, EveryStepMovesRuns DEF CustodyIInv, ReferenceInv
<1>4. s <= provided /\ s # provided + 1
  BY <1>1, CustodyAssumption DEF CustodyIInv, ProvidedInv, CustodyTypeOK, Sandboxes
<1>5. ASSUME NEW w \in Workers, Fenced(w)', taskRun'[w] = r PROVE s \notin {gen'[w], ver'[w]}
  <2>1. CASE gen'[w] = NoSandbox /\ ver'[w] = NoSandbox
    BY <1>1, <2>1
  <2>2. CASE Fenced(w) /\ taskRun'[w] = taskRun[w]
    <3>1. status[r] = "running" /\ s # sandboxId[r] /\ s \notin {gen[w], ver[w]}
      BY <1>1, <1>5, <2>2 DEF Fenced, TargetOK
    <3> QED
      BY <1>1, <1>4, <1>5, <2>1, <2>2, <3>1, HandsMoves
  <2> QED
    BY <1>5, <2>1, <2>2, HandsMoves
<1> DEFINE Running == status'[r] = "running" => s \in cleaned' /\ sandboxId'[r] # s
           Awaited == sandboxId'[r] = s => ~AwaitsContinuation(r, s)' /\ ~IsVerifiedPreview(r, s)'
<1>6. Running /\ Awaited
  <2> USE <1>1, <1>2, <1>3 DEF TargetOK
  <2>1. CASE Kept(r)
    BY <2>1 DEF Kept, AwaitsContinuation, IsVerifiedPreview
  <2>2. CASE Written(r)
    BY <2>2 DEF Written, AwaitsContinuation, IsVerifiedPreview
  <2>3. CASE Left(r)
    BY <2>3 DEF Left, Recoverable
  <2>4. CASE Claimed(r)
    <3>1. status[r] = "queued" /\ (LiveResources(r) = {} \/ LiveResources(r) = {sandboxId[r]})
      BY <2>4 DEF Claimed, Claimable, ResumableContinuation
    <3>2. sandboxId[r] # s
      BY <3>1 DEF AwaitsContinuation, ReferenceOf
    <3>3. s \in cleaned
      BY <3>1, <3>2 DEF LiveResources
    <3> QED
      BY <2>4, <3>2, <3>3 DEF Claimed
  <2>5. CASE Cleared(r)
    BY <2>5 DEF Cleared
  <2>6. CASE Requested(r)
    BY <2>6 DEF Requested, ReferenceOf, AwaitsContinuation, IsVerifiedPreview
  <2> QED
    BY <2>1, <2>2, <2>3, <2>4, <2>5, <2>6 DEF RunMoves
<1> QED
  BY <1>2, <1>5, <1>6 DEF TargetOK

(* What the sweep and lease recovery put on a worker's list is harmless:   *)
(* it belongs to a run nobody writes, and is not kept for it.              *)
LEMMA ListedTargetIsHarmless ==
    ASSUME CustodyIInv, [CustodyNext]_custodyVars, NEW v \in Workers,
           NEW t \in targets'[v], t \notin targets[v]
    PROVE  TargetOK(t)'
<1>0. /\ targets \in [Workers -> SUBSET Target] /\ sandboxId \in [Runs -> 0 .. MaxSandboxes]
      /\ status \in [Runs -> RunStatus]
      /\ rowRun \in [Sandboxes -> 0 .. MaxRuns]
  BY DEF CustodyIInv, CustodyTypeOK, TypeOK
<1>1. ASSUME NEW w \in Workers, NEW r \in Runs, NEW intact \in BOOLEAN, RecoverExpired(w, r, intact)
      PROVE  TargetOK(t)'
  <2> DEFINE requeued == Resumable(r, intact)
  <2>1. t \in RecoverTargets(r, requeued)
    <3>1. targets' = [targets EXCEPT ![w] = Merge(RecoverTargets(r, requeued), @)]
      BY <1>1 DEF RecoverExpired
    <3> HIDE DEF requeued
    <3> QED
      BY <1>0, <3>1 DEF Merge
  <2>2. status'[r] # "running" /\ UNCHANGED <<rowRun, rowKind>>
    BY <1>0, <1>1 DEF RecoverExpired, RecoverExpiredRunningRun, RequeueExpired, FailExpired, rows
  <2>3. t.run = r /\ rowRun[t.sandbox] = r
    <3>1. sandboxId[r] # NoSandbox => rowRun[sandboxId[r]] = r
      BY DEF CustodyIInv, ReferenceInv, ReferenceOf
    <3>2. \A s \in LiveResources(r) : rowRun[s] = r
      BY DEF LiveResources
    <3> HIDE DEF requeued
    <3> QED
      BY <2>1, <3>1, <3>2 DEF RecoverTargets, Merge, TargetOf
  <2>4. sandboxId'[r] = t.sandbox => status'[r] \in Recoverable
    <3>1. CASE requeued
      <4>1. sandboxId'[r] = NoSandbox
        BY <1>0, <1>1, <3>1 DEF RecoverExpired
      <4>2. t.sandbox # NoSandbox
        <5> HIDE DEF requeued
        <5> QED
          BY <2>1 DEF RecoverTargets, Merge, TargetOf, LiveResources, Sandboxes, NoSandbox
      <4> QED
        BY <4>1, <4>2
    <3>2. CASE ~requeued
      BY <1>0, <1>1, <3>2 DEF RecoverExpired, RecoverExpiredRunningRun, FailExpired, Recoverable
    <3> QED
      BY <3>1, <3>2
  <2> QED
    BY <2>2, <2>3, <2>4 DEF TargetOK, Fenced, AwaitsContinuation, IsVerifiedPreview, Recoverable
<1>2. ASSUME NEW w \in Workers, ListTargets(w) PROVE TargetOK(t)'
  <2>1. t \in ListSandboxCleanupTargets \cup ListTerminalSandboxCleanupTargets
    BY <1>0, <1>2 DEF ListTargets, Merge
  <2>2. /\ rowRun[t.sandbox] = t.run /\ status[t.run] # "running"
        /\ sandboxId[t.run] = t.sandbox =>
              ~AwaitsContinuation(t.run, t.sandbox) /\ ~IsVerifiedPreview(t.run, t.sandbox)
    <3>1. CASE t \in ListSandboxCleanupTargets
      BY <3>1 DEF ListSandboxCleanupTargets, TargetOf
    <3>2. CASE t \in ListTerminalSandboxCleanupTargets
      <4>1. PICK r \in Runs : /\ t = TargetOf(r, sandboxId[r], FALSE)
                              /\ status[r] \in Recoverable /\ sandboxId[r] # NoSandbox
        BY <3>2 DEF ListTerminalSandboxCleanupTargets
      <4> QED
        BY <4>1 DEF TargetOf, CustodyIInv, ReferenceInv, ReferenceOf, AwaitsContinuation,
             IsVerifiedPreview, Recoverable
    <3> QED
      BY <2>1, <3>1, <3>2
  <2>3. UNCHANGED <<rowRun, rowKind, status, continuation, sandboxId, preview>>
    BY <1>2 DEF ListTargets, vars, lifecycle, dialogue, rows, refs
  <2> QED
    BY <2>2, <2>3 DEF TargetOK, Fenced, AwaitsContinuation, IsVerifiedPreview
<1>3. \/ targets'[v] \subseteq targets[v]
      \/ \E w \in Workers : ListTargets(w)
      \/ \E w \in Workers, r \in Runs, intact \in BOOLEAN : RecoverExpired(w, r, intact)
  <2>1. ASSUME NEW w \in Workers, Idle(w)
        PROVE  \/ targets'[v] \subseteq targets[v]
               \/ ListTargets(w)
               \/ \E r \in Runs, intact \in BOOLEAN : RecoverExpired(w, r, intact)
    BY <1>0, <2>1 DEF Idle, DestroyStale, DestroyStaleFails, SelectRuns, ClaimRun, NothingToClaim
  <2>2. ASSUME NEW w \in Workers, Work(w) PROVE UNCHANGED targets
    BY <2>2 DEF Work, Escape, Adopt, CreateGeneration, RegisterGeneration, AttachGeneration, TurnInG,
        Ask, CreateVerification, RegisterVerification, AttachVerification, StartPreview, Pass,
        RetireVerification, ForgetPreview, ReturnToG, Publish, custody
  <2>3. ASSUME NEW w \in Workers, Exit(w) PROVE UNCHANGED targets
    BY <2>3 DEF Exit, Preserve, Keep, HeartbeatStrikes, LoseLease, Abort, CloseGoals, ClearPreview,
        Discard, DiscardFails, Disown, End, Leave, custody
  <2>4. CASE Environment \/ UNCHANGED custodyVars
    BY <1>0, <2>4 DEF Environment, Crash, SandboxExpires, ExpireVerifiedPreview, custody, custodyVars
  <2> QED
    BY <2>1, <2>2, <2>3, <2>4 DEF CustodyNext
<1> QED
  BY <1>1, <1>2, <1>3

LEMMA TargetStep ==
    ASSUME CustodyIInv, [CustodyNext]_custodyVars
    PROVE  TargetInv'
<1> SUFFICES ASSUME NEW v \in Workers, NEW t \in targets'[v] PROVE TargetOK(t)'
  BY DEF TargetInv
<1> QED
  BY TargetStaysHarmless, ListedTargetIsHarmless

-----------------------------------------------------------------------------
(* Claims in progress, and the task that published.                        *)

(* Rows are locked by the select of a claim alone.                         *)
LEMMA LocksComeFromSelect ==
    ASSUME CustodyIInv, [CustodyNext]_custodyVars, NEW w \in Workers
    PROVE  \/ locked'[w] \subseteq locked[w]
           \/ \E candidates : SelectRuns(w, candidates) /\ locked'[w] = candidates
<1>0. locked \in [Workers -> SUBSET Runs]
  BY DEF CustodyIInv, TypeOK
<1>1. ASSUME NEW v \in Workers, Idle(v)
      PROVE  \/ locked'[w] \subseteq locked[w]
             \/ \E candidates : SelectRuns(w, candidates) /\ locked'[w] = candidates
  <2>1. ASSUME NEW candidates, SelectRuns(v, candidates)
        PROVE  \/ locked'[w] \subseteq locked[w]
               \/ SelectRuns(w, candidates) /\ locked'[w] = candidates
    BY <1>0, <2>1 DEF SelectRuns, SelectCandidates
  <2>2. ASSUME NEW r \in Runs, NEW token \in Tokens, ClaimRun(v, r, token)
        PROVE  locked'[w] \subseteq locked[w]
    BY <1>0, <2>2 DEF ClaimRun, ClaimNextRun
  <2> QED
    BY <1>1, <2>1, <2>2 DEF Idle, RecoverExpired, RecoverExpiredRunningRun, ListTargets, DestroyStale,
       DestroyStaleFails, NothingToClaim, vars, tasks
<1>2. ASSUME NEW v \in Workers, Work(v) \/ Exit(v) PROVE UNCHANGED locked \/ DropTask(v)
  BY <1>2 DEF Work, Escape, EscapeTask, Adopt, CreateGeneration, RegisterGeneration, AttachGeneration,
     TurnInG, CompleteRunContinuation, CreateGoalGraph, Ask, WaitForUserInput, CreateVerification,
     RegisterVerification, AttachVerification, StartPreview, Pass, RecordVerifiedCheckpoint,
     RetireVerification, ForgetPreview, ReturnToG, Publish, FinalizeVerifiedPublish,
     Exit, Preserve, Keep, HeartbeatStrikes, LoseLease, Abort, CloseGoals, CloseGoalGraph,
     ClearPreview, Discard, DiscardFails, Disown, End, MarkTerminal, Leave, LeaveTask, vars, tasks
<1>3. ASSUME Environment PROVE UNCHANGED locked \/ \E v \in Workers : DropTask(v)
  BY <1>3 DEF Environment, Request, CreateMessageAndRun, CreateRecoveryMessageAndRun, QueueRun,
     AnswerUserInput, RequestCancel, SaveFileContent, RestoreVersion, LeaseExpires, Crash,
     CrashWorker, ClaimRefused, SandboxExpires, ExpireVerifiedPreview, vars, tasks
<1>4. ASSUME NEW v \in Workers, DropTask(v) PROVE locked'[w] \subseteq locked[w]
  BY <1>0, <1>4 DEF DropTask
<1> QED
  BY <1>1, <1>2, <1>3, <1>4 DEF CustodyNext, custodyVars, vars, tasks

(* A locked row stays claimable: it can gain no resource while no task     *)
(* works for it, and no sweep clears the reference of its continuation.    *)
LEMMA ClaimantStep ==
    ASSUME CustodyIInv, WriterInv', [CustodyNext]_custodyVars
    PROVE  ClaimantInv'
<1> SUFFICES ASSUME NEW w \in Workers, NEW r \in locked'[w] PROVE Claimable(r)'
  BY DEF ClaimantInv
<1>1. CASE r \in locked[w]
  <2>1. r \in Runs /\ status[r] = "queued" /\ Claimable(r)
    BY <1>1 DEF CustodyIInv, ClaimantInv, WriterInv, ClaimInv, TypeOK
  <2>2. status'[r] = "queued"
    BY <2>1 DEF WriterInv, ClaimInv
  <2>3. /\ continuation'[r] = continuation[r]
        /\ \/ sandboxId'[r] = sandboxId[r]
           \/ Cleared(r)
    BY <2>1, <2>2, EveryStepMovesRuns DEF RunMoves, Kept, Written, Left, Claimed, Cleared, Requested
  <2>4. LiveResources(r)' \subseteq LiveResources(r)
    <3>1. cleaned \subseteq cleaned'
      BY RowsAreKept DEF CustodyIInv
    <3>2. \A s \in Sandboxes : rowRun'[s] = r => rowRun[s] = r
      <4>1. ASSUME NEW v \in Workers, NEW s \in Sandboxes, NEW kind, RegisterRow(v, s, kind),
                   NEW x \in Sandboxes, rowRun'[x] = r
            PROVE  rowRun[x] = r
        <5>1. taskRun[v] # r
          BY <2>1, <4>1 DEF RegisterRow, Working, Fenced
        <5> QED
          BY <4>1, <5>1 DEF RegisterRow, CustodyIInv, CustodyTypeOK
      <4> QED
        BY <4>1, RowsAreWrittenOnce DEF CustodyIInv
    <3> QED
      BY <3>1, <3>2 DEF LiveResources
  <2>5. CASE LiveResources(r) = {}
    BY <2>2, <2>4, <2>5 DEF Claimable
  <2>6. CASE ResumableContinuation(r)
    <3>1. /\ continuation[r] # "none" /\ sandboxId[r] \in Sandboxes /\ sandboxId[r] # NoSandbox
          /\ LiveResources(r) = {sandboxId[r]} /\ rowRun[sandboxId[r]] = r /\ r # NoRun
          /\ rowKind[sandboxId[r]] = "generation"
      BY <2>1, <2>6, BoundsAssumption DEF ResumableContinuation, LiveResources, Runs, NoRun
    <3>2. ~Cleared(r)
      <4> SUFFICES ASSUME NEW v \in Workers, NEW t \in targets[v], t.run = r, t.sandbox = sandboxId[r]
                   PROVE  FALSE
        BY DEF Cleared
      <4>1. ~AwaitsContinuation(r, sandboxId[r])
        BY DEF CustodyIInv, TargetInv, TargetOK
      <4> QED
        BY <2>1, <3>1, <4>1 DEF AwaitsContinuation
    <3>3. rowKind'[sandboxId[r]] = "generation"
      BY <3>1, RowsAreKept DEF CustodyIInv
    <3>4. LiveResources(r)' = {} \/ LiveResources(r)' = {sandboxId[r]}
      BY <2>4, <3>1
    <3> QED
      BY <2>2, <2>3, <3>1, <3>2, <3>3, <3>4 DEF Claimable, ResumableContinuation
  <2> QED
    BY <2>1, <2>5, <2>6 DEF Claimable
<1>2. CASE r \notin locked[w]
  <2>1. PICK candidates : SelectRuns(w, candidates) /\ r \in candidates
    BY <1>2, LocksComeFromSelect
  <2>2. Claimable(r) /\ UNCHANGED <<status, continuation, sandboxId, rowRun, rowKind, cleaned>>
    BY <2>1 DEF SelectRuns, SelectCandidates, lifecycle, dialogue, rows, refs
  <2> QED
    BY <2>2 DEF Claimable, ResumableContinuation, LiveResources
<1> QED
  BY <1>1, <1>2

(* A V comes into the hands of a task when it is created, and a task past  *)
(* its publication has nothing to do but to let go of it.                  *)
LEMMA VerificationMoves ==
    ASSUME CustodyIInv, [CustodyNext]_custodyVars, NEW w \in Workers
    PROVE  /\ ver'[w] \in {ver[w], NoSandbox, provided + 1}
           /\ pc[w] \in {"committed", "close"} /\ ver'[w] # NoSandbox =>
                 ver'[w] = ver[w] /\ pc'[w] \in {"committed", "close"}
<1> DEFINE Moves ==
      /\ ver'[w] \in {ver[w], NoSandbox, provided + 1}
      /\ pc[w] \in {"committed", "close"} /\ ver'[w] # NoSandbox =>
            ver'[w] = ver[w] /\ pc'[w] \in {"committed", "close"}
<1>0. /\ ver \in [Workers -> 0 .. MaxSandboxes] /\ pc \in [Workers -> Phases]
  BY DEF CustodyIInv, CustodyTypeOK
<1> USE DEF Goto, hands
<1>1. ASSUME UNCHANGED hands PROVE Moves
  BY <1>1
<1>2. ASSUME NEW v \in Workers, Idle(v) PROVE Moves
  BY <1>0, <1>2 DEF Idle, RecoverExpired, ListTargets, DestroyStale, DestroyStaleFails, SelectRuns,
     ClaimRun, NothingToClaim
<1>3. ASSUME NEW v \in Workers, Work(v) PROVE Moves
  <2>1. CASE CreateVerification(v) \/ RetireVerification(v)
    BY <1>0, <2>1 DEF CreateVerification, RetireVerification
  <2>2. CASE UNCHANGED ver /\ pc[v] \notin {"committed", "close"}
             /\ \A u \in Workers \ {v} : pc'[u] = pc[u]
    BY <2>2
  <2>3. CASE Publish(v) \/ TurnInG(v)
    BY <1>0, <1>1, <2>3 DEF Publish, TurnInG, custody
  <2> QED
    BY <1>0, <1>3, <2>1, <2>2, <2>3 DEF Work, Escape, Adopt, CreateGeneration, RegisterGeneration,
       AttachGeneration, Ask, RegisterVerification, AttachVerification, StartPreview, Pass,
       ForgetPreview, ReturnToG
<1>4. ASSUME NEW v \in Workers, Exit(v) PROVE Moves
  <2>1. ASSUME NEW s \in Sandboxes, Discard(v, s) \/ DiscardFails(v, s) PROVE Moves
    BY <1>0, <2>1 DEF Discard, DiscardFails, Release
  <2>2. CASE CloseGoals(v) \/ ClearPreview(v)
    BY <1>1, <2>2 DEF CloseGoals, ClearPreview, custody
  <2>3. CASE Preserve(v) \/ Keep(v) \/ HeartbeatStrikes(v) \/ LoseLease(v) \/ Abort(v)
    BY <1>0, <2>3 DEF Preserve, Keep, HeartbeatStrikes, LoseLease, Abort, Acting
  <2>4. CASE Disown(v) \/ End(v) \/ Leave(v)
    BY <1>0, <2>4 DEF Disown, End, Leave
  <2> QED
    BY <1>4, <2>1, <2>2, <2>3, <2>4 DEF Exit
<1>5. ASSUME Environment PROVE Moves
  <2>1. ASSUME NEW v \in Workers, Crash(v) PROVE Moves
    BY <1>0, <2>1 DEF Crash
  <2> QED
    BY <1>1, <1>5, <2>1 DEF Environment, SandboxExpires, ExpireVerifiedPreview, custody
<1>6. ASSUME UNCHANGED custodyVars PROVE Moves
  BY <1>1, <1>6 DEF custodyVars, custody
<1> QED
  BY <1>2, <1>3, <1>4, <1>5, <1>6 DEF CustodyNext

(* A run succeeds by the publication of its task alone.                    *)
LEMMA SuccessIsPublish ==
    ASSUME CustodyIInv, [CustodyNext]_custodyVars, NEW r \in Runs,
           status[r] # "succeeded", status'[r] = "succeeded"
    PROVE  \E w \in Workers : Publish(w) /\ sandboxId[r] = ver[w]
<1>0. status \in [Runs -> RunStatus] /\ status[r] \in RunStatus
  BY DEF CustodyIInv, TypeOK
<1>1. ASSUME NEW w \in Workers, Idle(w) PROVE FALSE
  <2>1. ASSUME NEW s \in Runs, NEW intact \in BOOLEAN, RecoverExpiredRunningRun(s, intact) PROVE FALSE
    <3>1. PICK x \in {"queued", "failed", "cancelled"} : status' = [status EXCEPT ![s] = x]
      BY <2>1 DEF RecoverExpiredRunningRun, RequeueExpired, FailExpired
    <3> QED
      BY <1>0, <3>1
  <2>2. ASSUME NEW s \in Runs, NEW token \in Tokens, ClaimNextRun(w, s, token) PROVE FALSE
    BY <1>0, <2>2 DEF ClaimNextRun
  <2> QED
    BY <1>1, <2>1, <2>2 DEF Idle, RecoverExpired, ListTargets, DestroyStale, DestroyStaleFails,
       SelectRuns, SelectCandidates, ClaimRun, NothingToClaim, vars, lifecycle
<1>2. ASSUME NEW w \in Workers, Work(w) PROVE Publish(w) /\ taskRun[w] = r
  <2>1. CASE Publish(w)
    BY <1>0, <2>1 DEF Publish, FinalizeVerifiedPublish
  <2>2. CASE ~Publish(w)
    BY <1>0, <1>2, <2>2 DEF Work, Escape, EscapeTask, Adopt, CreateGeneration, RegisterGeneration,
       AttachGeneration, TurnInG, CompleteRunContinuation, CreateGoalGraph, Ask, WaitForUserInput,
       CreateVerification, RegisterVerification, AttachVerification, StartPreview, Pass,
       RecordVerifiedCheckpoint, RetireVerification, ForgetPreview, ReturnToG, vars, lifecycle
  <2> QED
    BY <2>1, <2>2
<1>3. ASSUME NEW w \in Workers, Exit(w) PROVE FALSE
  BY <1>0, <1>3 DEF Exit, Preserve, Keep, HeartbeatStrikes, LoseLease, Abort, CloseGoals, CloseGoalGraph,
     ClearPreview, Discard, DiscardFails, Disown, End, MarkTerminal, Leave, LeaveTask, vars, lifecycle
<1>4. ASSUME Environment \/ UNCHANGED custodyVars PROVE FALSE
  BY <1>0, <1>4 DEF Environment, Request, CreateMessageAndRun, CreateRecoveryMessageAndRun, QueueRun,
     AnswerUserInput, RequestCancel, SaveFileContent, RestoreVersion, LeaseExpires, Crash, CrashWorker,
     ClaimRefused, SandboxExpires, ExpireVerifiedPreview, custodyVars, vars, lifecycle
<1>5. PICK w \in Workers : Publish(w) /\ taskRun[w] = r
  BY <1>1, <1>2, <1>3, <1>4 DEF CustodyNext
<1>6. pc[w] = "passed" /\ Fenced(w) /\ WriterOf(w)
  BY <1>5 DEF Publish, FinalizeVerifiedPublish, Advancing, CustodyIInv, CustodianInv
<1> QED
  BY <1>5, <1>6 DEF WriterOf

LEMMA PublisherStep ==
    ASSUME CustodyIInv, [CustodyNext]_custodyVars
    PROVE  PublisherInv'
<1> SUFFICES ASSUME NEW w \in Workers, NEW r \in Runs,
                    status'[r] = "succeeded", sandboxId'[r] = ver'[w], ver'[w] # NoSandbox
             PROVE  pc'[w] \in {"committed", "close"}
  BY DEF PublisherInv
<1>1. CASE status[r] = "succeeded"
  <2>1. sandboxId'[r] = sandboxId[r]
    BY <1>1, EveryStepMovesRuns DEF RunMoves, Kept, Written, Left, Claimed, Claimable, Cleared, Requested
  <2>2. sandboxId[r] # provided + 1
    <3>1. sandboxId[r] \in Sandboxes /\ rowRun[sandboxId[r]] = r /\ r # NoRun
      BY <2>1, CustodyAssumption, BoundsAssumption
         DEF CustodyIInv, CustodyTypeOK, ReferenceInv, ReferenceOf, Sandboxes, NoSandbox, Runs, NoRun
    <3> QED
      BY <3>1, CustodyAssumption DEF CustodyIInv, CustodyTypeOK, ProvidedInv, Sandboxes
  <2>3. ver[w] = sandboxId[r]
    BY <2>1, <2>2, VerificationMoves
  <2>4. pc[w] \in {"committed", "close"}
    BY <1>1, <2>1, <2>3 DEF CustodyIInv, PublisherInv
  <2> QED
    BY <2>4, VerificationMoves
<1>2. CASE status[r] # "succeeded"
  <2>1. PICK v \in Workers : Publish(v) /\ sandboxId[r] = ver[v]
    BY <1>2, SuccessIsPublish
  <2>2. UNCHANGED <<sandboxId, ver>> /\ pc' = [pc EXCEPT ![v] = "committed"]
    BY <2>1 DEF Publish, Goto
  <2>3. v = w
    BY <2>1, <2>2 DEF CustodyIInv, HandsInv
  <2> QED
    BY <2>2, <2>3 DEF CustodyIInv, CustodyTypeOK
<1> QED
  BY <1>1, <1>2

-----------------------------------------------------------------------------
(* The invariant and what it says.                                         *)

LEMMA CustodyInvStep == CustodyIInv /\ [CustodyNext]_custodyVars => CustodyIInv'
<1> SUFFICES ASSUME CustodyIInv, [CustodyNext]_custodyVars PROVE CustodyIInv'
  OBVIOUS
<1>1. TypeOK' /\ WriterInv'
  BY CustodyNextRefines, TypeStep, WriterInvStep DEF CustodyIInv
<1>2. CustodyTypeOK'
  BY CustodyTypeStep DEF CustodyIInv
<1>3. ProvidedInv' /\ HandsInv' /\ ReferenceInv' /\ CustodianInv' /\ TargetInv'
  BY <1>2, ProvidedStep, HandsStep, ReferenceStep, CustodianStep, TargetStep
<1>4. ClaimantInv' /\ PublisherInv'
  BY <1>1, ClaimantStep, PublisherStep
<1> QED
  BY <1>1, <1>2, <1>3, <1>4 DEF CustodyIInv

LEMMA CustodyInitIsSafe == CustodyInit => CustodyIInv
<1> SUFFICES ASSUME CustodyInit PROVE CustodyIInv
  OBVIOUS
<1>1. Init
  BY DEF CustodyInit
<1>2. TypeOK /\ WriterInv
  BY <1>1, InitIsTyped, InitIsWriterInv
<1>3. CustodyTypeOK
  BY CustodyAssumption, BoundsAssumption DEF CustodyInit, CustodyTypeOK, Kinds, Phases, NoSandbox, NoRun
<1>4. ProvidedInv
  BY DEF CustodyInit, ProvidedInv, CleanedMeansGone, NoSandbox
<1>5. HandsInv
  BY <1>1 DEF CustodyInit, Init, HandsInv, HandsOf, Unregistered, Acting
<1>6. ReferenceInv
  BY <1>1 DEF CustodyInit, Init, ReferenceInv, ReferenceOf
<1>7. CustodianInv /\ TargetInv
  BY <1>1 DEF CustodyInit, Init, CustodianInv, Fenced, TargetInv
<1>8. ClaimantInv /\ PublisherInv
  BY <1>1 DEF CustodyInit, Init, ClaimantInv, PublisherInv
<1> QED
  BY <1>2, <1>3, <1>4, <1>5, <1>6, <1>7, <1>8 DEF CustodyIInv

(* Rows, references, hands, targets and fence agree in every state of the  *)
(* sandboxes' custody, whatever crashed, stalled, expired or was swept.    *)
THEOREM CustodyInvariantOfSandboxes == CustodySpec => []CustodyIInv
  BY CustodyInitIsSafe, CustodyInvStep, PTL DEF CustodySpec

(* A waiting or requeued run keeps the sandbox reference of its            *)
(* continuation until recovery detaches both together.                     *)
THEOREM CustodyInvariantHolds == CustodySpec => []CustodyInvariant
<1>1. CustodyIInv => CustodyInvariant
  BY DEF CustodyIInv, CustodyInvariant, DetachedIffSandboxForgotten, ReferenceInv, ReferenceOf
<1> QED
  BY <1>1, CustodyInvariantOfSandboxes, PTL

(* No row is acknowledged as cleaned while its sandbox runs.               *)
THEOREM CleanedMeansGoneHolds == CustodySpec => []CleanedMeansGone
<1>1. CustodyIInv => CleanedMeansGone
  BY DEF CustodyIInv, ProvidedInv
<1> QED
  BY <1>1, CustodyInvariantOfSandboxes, PTL

(* The worker of a run holds all that is registered for it: the claim was  *)
(* fenced by the resources of earlier attempts.                            *)
THEOREM WriterHoldsEveryResourceHolds == CustodySpec => []WriterHoldsEveryResource
<1>1. CustodyIInv => WriterHoldsEveryResource
  BY DEF CustodyIInv, CustodianInv, WriterOf, WriterHoldsEveryResource, Working
<1> QED
  BY <1>1, CustodyInvariantOfSandboxes, PTL

(* The V that a finished run advertises is its own, and is spared by every *)
(* sweep, stale task and exit handler but the one of the task struck       *)
(* between its publication and its Keep; otherwise its lifetime ends it.   *)
THEOREM PublishedPreviewIsKeptHolds == CustodySpec => PublishedPreviewIsKept
<1> DEFINE Advertised ==
      \A r \in Runs :
          status[r] = "succeeded" /\ preview[r] =>
              /\ sandboxId[r] # NoSandbox
              /\ rowRun[sandboxId[r]] = r
              /\ rowKind[sandboxId[r]] = "verification"
           Spared ==
      \A r \in Runs :
          LET s == sandboxId[r]
          IN  /\ status[r] = "succeeded" /\ preview[r] /\ preview'[r]
              /\ s \in alive \ alive' \/ s \in cleaned' \ cleaned \/ sandboxId'[r] # s
              => \/ s \in expired' \ expired
                 \/ \E w \in Workers : StruckAfterPublishing(w, r)
<1>1. CustodyIInv => Advertised
  BY DEF CustodyIInv, ReferenceInv, ReferenceOf
<1>2. ASSUME CustodyIInv, [CustodyNext]_custodyVars PROVE Spared
  <2> SUFFICES ASSUME NEW r \in Runs, status[r] = "succeeded", preview[r], preview'[r],
                      \/ sandboxId[r] \in alive \ alive' \/ sandboxId[r] \in cleaned' \ cleaned
                      \/ sandboxId'[r] # sandboxId[r]
               PROVE  \/ sandboxId[r] \in expired' \ expired
                      \/ \E w \in Workers : StruckAfterPublishing(w, r)
    OBVIOUS
  <2> DEFINE s == sandboxId[r]
  <2>1. /\ s \in Sandboxes /\ s # NoSandbox /\ rowRun[s] = r /\ r # NoRun
        /\ rowKind[s] = "verification" /\ IsVerifiedPreview(r, s)
    <3>1. s # NoSandbox /\ rowRun[s] = r /\ rowKind[s] = "verification"
      BY <1>1, <1>2
    <3>2. s \in Sandboxes
      BY <1>2, <3>1, CustodyAssumption DEF CustodyIInv, CustodyTypeOK, Sandboxes, NoSandbox
    <3>3. r # NoRun
      BY BoundsAssumption DEF Runs, NoRun
    <3> QED
      BY <3>1, <3>2, <3>3 DEF IsVerifiedPreview
  <2>2. ASSUME NEW w \in Workers, NEW t \in targets[w], t.sandbox = s PROVE FALSE
    BY <1>2, <2>1, <2>2 DEF CustodyIInv, TargetInv, TargetOK
  <2>3. sandboxId'[r] = s
    <3>1. RunMoves(r) /\ ~Cleared(r)
      BY <1>2, <2>2, EveryStepMovesRuns DEF Cleared
    <3> QED
      BY <3>1 DEF RunMoves, Kept, Written, Left, Claimed, Claimable, Requested
  <2>4. s \in alive \ alive' \/ s \in cleaned' \ cleaned
    BY <2>3
  <2> HIDE DEF s
  <2>5. \A w \in Workers : HandsOf(w) /\ gen[w] # s /\ (ver[w] = s => taskRun[w] = r)
    BY <1>2, <2>1 DEF CustodyIInv, HandsInv, HandsOf
  <2>6. ASSUME NEW w \in Workers, Idle(w) PROVE FALSE
    BY <2>2, <2>4, <2>6 DEF Idle, RecoverExpired, ListTargets, DestroyStale, DestroyStaleFails, SelectRuns,
       ClaimRun, NothingToClaim, provider, rows
  <2>7. ASSUME NEW w \in Workers, Work(w) PROVE FALSE
    <3>1. CASE RetireVerification(w)
      <4>1. ver[w] = s /\ status[taskRun[w]] = "running"
        BY <2>4, <3>1 DEF RetireVerification, Destroy, Working, Fenced
      <4> QED
        BY <2>5, <4>1
    <3>2. CASE CreateGeneration(w) \/ CreateVerification(w)
      BY <2>4, <3>2 DEF CreateGeneration, CreateVerification, Provide, rows
    <3> QED
      BY <2>4, <2>7, <3>1, <3>2 DEF Work, Escape, Adopt, RegisterGeneration, RegisterRow, AttachGeneration,
         TurnInG, Ask, RegisterVerification, AttachVerification, StartPreview, Pass, ForgetPreview,
         ReturnToG, Publish, custody, provider, rows
  <2>8. ASSUME NEW w \in Workers, Exit(w) PROVE StruckAfterPublishing(w, r)
    <3>1. ASSUME NEW x \in Sandboxes, Discard(w, x) \/ DiscardFails(w, x)
          PROVE  x = s /\ pc[w] \in {"abort", "close"} /\ x \in {gen[w], ver[w]}
      BY <2>4, <3>1 DEF Discard, DiscardFails, Destroy, rows
    <3>2. PICK x \in Sandboxes : Discard(w, x) \/ DiscardFails(w, x)
      BY <2>4, <2>5, <2>8 DEF Exit, Preserve, Keep, HeartbeatStrikes, LoseLease, Abort, CloseGoals,
         ClearPreview, Disown, End, Leave, custody, provider, rows
    <3>3. ver[w] = s /\ taskRun[w] = r /\ pc[w] \in {"abort", "close"}
      BY <2>5, <3>1, <3>2
    <3>4. pc[w] \in {"committed", "close"}
      BY <1>2, <2>1, <3>3 DEF CustodyIInv, PublisherInv, s
    <3> QED
      BY <3>3, <3>4 DEF StruckAfterPublishing, s
  <2>9. ASSUME Environment PROVE s \in expired' \ expired
    <3>1. ASSUME NEW x \in Sandboxes, ExpireVerifiedPreview(x) PROVE FALSE
      <4>1. x = s
        BY <2>4, <3>1 DEF ExpireVerifiedPreview, provider
      <4> QED
        BY <1>2, <2>1, <3>1, <4>1 DEF ExpireVerifiedPreview, CustodyIInv, CustodyTypeOK
    <3>2. PICK x \in Sandboxes : SandboxExpires(x)
      BY <2>4, <2>9, <3>1 DEF Environment, Crash, custody, provider, rows
    <3> QED
      BY <1>2, <2>4, <3>2 DEF SandboxExpires, rows, CustodyIInv, ProvidedInv
  <2> QED
    BY <1>2, <2>4, <2>6, <2>7, <2>8, <2>9 DEF CustodyNext, custodyVars, custody, provider, rows, s
<1> QED
  BY <1>1, <1>2, CustodyInvariantOfSandboxes, PTL DEF CustodySpec, PublishedPreviewIsKept

(* The targets of a sweep, however old, never name a sandbox that waits    *)
(* for an answer, is published or is in the hands of a fenced worker.      *)
THEOREM SweepSparesLiveWorkHolds == CustodySpec => SweepSparesLiveWork
<1> DEFINE Spares ==
      \A w \in Workers, s \in alive \ alive' :
          pc[w] = "sweep" /\ targets'[w] # targets[w] =>
            /\ \A r \in Runs :
                  /\ ~(AwaitsContinuation(r, s) /\ sandboxId[r] = s)
                  /\ ~IsVerifiedPreview(r, s)
            /\ \A v \in Workers :
                  Working(v) /\ pc[v] \in Acting => s \notin {gen[v], ver[v]}
<1>1. ASSUME CustodyIInv, [CustodyNext]_custodyVars PROVE Spares
  <2> SUFFICES ASSUME NEW w \in Workers, NEW s \in alive \ alive',
                      pc[w] = "sweep", targets'[w] # targets[w]
               PROVE  /\ \A r \in Runs :
                           /\ ~(AwaitsContinuation(r, s) /\ sandboxId[r] = s)
                           /\ ~IsVerifiedPreview(r, s)
                      /\ \A v \in Workers :
                            Working(v) /\ pc[v] \in Acting => s \notin {gen[v], ver[v]}
    OBVIOUS
  <2>1. PICK t \in targets[w] : t.sandbox = s
    <3>0. targets \in [Workers -> SUBSET Target]
      BY <1>1 DEF CustodyIInv, CustodyTypeOK
    <3>1. ASSUME NEW v \in Workers, Idle(v) PROVE v = w /\ \E t \in targets[w] : t.sandbox = s
      BY <3>0, <3>1 DEF Idle, RecoverExpired, ListTargets, DestroyStale, DestroyStaleFails, SelectRuns,
         ClaimRun, NothingToClaim, provider
    <3>2. ASSUME NEW v \in Workers, Work(v) \/ Exit(v) PROVE UNCHANGED targets
      BY <3>2 DEF Work, Escape, Adopt, CreateGeneration, RegisterGeneration, AttachGeneration, TurnInG,
        Ask, CreateVerification, RegisterVerification, AttachVerification, StartPreview, Pass,
        RetireVerification, ForgetPreview, ReturnToG, Publish, Exit, Preserve, Keep, HeartbeatStrikes,
        LoseLease, Abort, CloseGoals, ClearPreview, Discard, DiscardFails, Disown, End, Leave, custody
    <3>3. CASE Environment \/ UNCHANGED custodyVars
      BY <3>0, <3>3 DEF Environment, Crash, SandboxExpires, ExpireVerifiedPreview, custody, custodyVars,
         provider
    <3> QED
      BY <1>1, <3>1, <3>2, <3>3 DEF CustodyNext
  <2>2. TargetOK(t) /\ rowRun[s] = t.run /\ t.run # NoRun /\ s # NoSandbox
    BY <1>1, <2>1, TargetIsRegistered DEF CustodyIInv, TargetInv, Sandboxes, NoSandbox
  <2>3. ASSUME NEW r \in Runs, sandboxId[r] = s
        PROVE  ~AwaitsContinuation(r, s) /\ ~IsVerifiedPreview(r, s)
    <3>1. t.run = r
      BY <1>1, <2>2, <2>3 DEF CustodyIInv, ReferenceInv, ReferenceOf
    <3> QED
      BY <2>1, <2>2, <2>3, <3>1 DEF TargetOK
  <2>4. ASSUME NEW v \in Workers, Working(v), pc[v] \in Acting PROVE s \notin {gen[v], ver[v]}
    <3>1. CASE taskRun[v] = t.run
      BY <2>1, <2>2, <2>4, <3>1 DEF TargetOK, Working
    <3>2. CASE taskRun[v] # t.run
      <4>1. HandsOf(v)
        BY <1>1 DEF CustodyIInv, HandsInv
      <4> QED
        BY <2>2, <2>4, <3>2, <4>1 DEF HandsOf, Acting
    <3> QED
      BY <3>1, <3>2
  <2> QED
    BY <2>3, <2>4 DEF IsVerifiedPreview
<1> QED
  BY <1>1, CustodyInvariantOfSandboxes, PTL DEF CustodySpec, SweepSparesLiveWork
=============================================================================
