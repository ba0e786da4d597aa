----------------------------- MODULE EventFeed -----------------------------
(***************************************************************************)
(* What the event log promises a subscriber: the log only grows, and one   *)
(* subscription hands out consecutive events, the first the one after the  *)
(* cursor it was opened with, none of them before it is published.         *)
(***************************************************************************)
EXTENDS Naturals

CONSTANT Subscriptions

VARIABLES published,  \* the number of events in the log
          opened,     \* the subscriptions in use
          handed      \* the last sequence number each has handed out

vars == <<published, opened, handed>>

Init ==
    /\ published = 0
    /\ opened = {}
    /\ handed = [c \in Subscriptions |-> 0]

Publish == published' = published + 1 /\ UNCHANGED <<opened, handed>>

Open(c) ==
    /\ c \notin opened /\ opened' = opened \cup {c}
    /\ handed' \in {[handed EXCEPT ![c] = n] : n \in 0 .. published}
    /\ UNCHANGED published

HandOut(c) ==
    /\ c \in opened /\ handed[c] < published
    /\ handed' = [handed EXCEPT ![c] = @ + 1]
    /\ UNCHANGED <<published, opened>>

Close(c) ==
    /\ c \in opened /\ opened' = opened \ {c}
    /\ handed' = [handed EXCEPT ![c] = 0]
    /\ UNCHANGED published

Next == Publish \/ \E c \in Subscriptions : Open(c) \/ HandOut(c) \/ Close(c)

Spec == Init /\ [][Next]_vars
=============================================================================
