---------------------------- MODULE GoalDelivery ----------------------------
(***************************************************************************)
(* What a GoalGraph run promises: goals are promoted one at a time, in the *)
(* frozen order, and what is delivered compiles and passes the acceptance  *)
(* suite of every goal.                                                    *)
(***************************************************************************)
EXTENDS Naturals

CONSTANTS GoalCount,    \* goals of the graph
          Passing,      \* for every goal, the contents its acceptance suite passes
          Compiling,    \* the contents that type-check and build
          None

VARIABLES promoted,     \* goals verified so far
          delivered     \* the published content, or None

deliveryVars == <<promoted, delivered>>

DeliveryInit == promoted = 0 /\ delivered = None

Promote ==
    /\ delivered = None
    /\ promoted < GoalCount
    /\ promoted' = promoted + 1
    /\ UNCHANGED delivered

Deliver(content) ==
    /\ delivered = None
    /\ promoted = GoalCount
    /\ content \in Compiling
    /\ \A g \in 1 .. GoalCount : content \in Passing[g]
    /\ delivered' = content
    /\ UNCHANGED promoted

DeliveryNext == Promote \/ \E content \in Compiling : Deliver(content)

DeliverySpec == DeliveryInit /\ [][DeliveryNext]_deliveryVars
=============================================================================
