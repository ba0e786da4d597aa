-------------------------- MODULE AgentTurn_proofs --------------------------
(***************************************************************************)
(* Proofs about the paid turns of a run, for every number of workers,      *)
(* attempts, turns and faults, and every spend limit: one bridge at most   *)
(* is at work, a settled entry is what its turn has cost, and the run      *)
(* stays within its limit as long as its ledger knows what it has spent.   *)
(*                                                                         *)
(* At the centre is who uses the run's sandbox.  A claim waits until none  *)
(* but the sandbox the run continues in is left, so at most one attempt    *)
(* uses one; therefore one key at most is charged, no other turn counts in *)
(* the session while a turn is under way, and the difference of the two    *)
(* readings of the session is the cost of that turn alone.                 *)
(***************************************************************************)
EXTENDS AgentTurn, FiniteSetTheorems, WellFoundedInduction, NaturalsInduction, TLAPS

-----------------------------------------------------------------------------
(* Sums over sets of turns.  MapThenSumSet adds the values of a set in an  *)
(* order that it chooses; here it is shown that the order does not matter. *)

SumOver(f, S) == MapThenSumSet(LAMBDA t : f[t], S)

First(s) == CHOOSE x \in s : TRUE

(* g is the recursive function inside MapThenSumSet.                       *)
Adds(g, f, S) ==
    g = [s \in SUBSET S |-> IF s = {} THEN 0 ELSE f[First(s)] + g[s \ {First(s)}]]

LEMMA SumIsIteration ==
    ASSUME NEW f, NEW S
    PROVE  SumOver(f, S) = (CHOOSE g : Adds(g, f, S))[S]
BY Zenon DEF SumOver, Adds, First, MapThenSumSet, MapThenFoldSet

LEMMA TurnsAreFinite ==
    ASSUME NEW S \in SUBSET Turns
    PROVE  IsFiniteSet(S) /\ Cardinality(S) \in Nat
<1>1. MaxTurns \in Int /\ IsFiniteSet(1 .. MaxTurns)
  BY FS_Interval, AgentAssumption
<1>2. IsFiniteSet(S)
  BY <1>1, FS_Subset DEF Turns
<1> QED
  BY <1>2, FS_CardinalityType

(* Among sets of turns there is one without a smaller one: this stands for *)
(* induction over the size of a set.                                       *)
LEMMA SmallestSet ==
    ASSUME NEW B \in SUBSET SUBSET Turns, B # {}
    PROVE  \E s \in B : \A t \in SUBSET s : t # s => t \notin B
<1> DEFINE sizes == {Cardinality(s) : s \in B}
           R == {p \in Nat \X Nat : p[1] < p[2]}
<1>1. sizes \subseteq Nat /\ sizes # {}
  BY TurnsAreFinite
<1>2. IsWellFoundedOn(R, Nat)
  BY NatLessThanWellFounded DEF OpToRel
<1>3. \E n \in sizes : \A m \in sizes : ~(<<m, n>> \in R)
  <2> HIDE DEF sizes, R
  <2> QED
    BY <1>1, <1>2, WFMin
<1>4. PICK s \in B : \A t \in B : ~(<<Cardinality(t), Cardinality(s)>> \in R)
  BY <1>3
<1>5. ASSUME NEW t \in SUBSET s, t # s, t \in B PROVE FALSE
  <2>1. IsFiniteSet(s) /\ Cardinality(s) \in Nat /\ Cardinality(t) \in Nat
    BY TurnsAreFinite, <1>4, <1>5
  <2>2. Cardinality(t) < Cardinality(s)
    BY <2>1, <1>5, FS_Subset
  <2> QED
    BY <1>4, <1>5, <2>1, <2>2
<1> QED
  BY <1>4, <1>5

LEMMA FirstIsMember ==
    ASSUME NEW s, s # {}
    PROVE  First(s) \in s
BY DEF First

(* Two iterations over the same values agree where both are defined.       *)
LEMMA IterationsAgree ==
    ASSUME NEW f, NEW g, NEW h, NEW S \in SUBSET Turns, NEW T \in SUBSET Turns,
           Adds(g, f, S), Adds(h, f, T),
           NEW s \in SUBSET (S \cap T)
    PROVE  g[s] = h[s]
<1> DEFINE B == {u \in SUBSET (S \cap T) : g[u] # h[u]}
<1>1. CASE B = {}
  BY <1>1
<1>2. CASE B # {}
  <2>1. PICK u \in B : \A t \in SUBSET u : t # u => t \notin B
    BY <1>2, SmallestSet
  <2>2. /\ g[u] = IF u = {} THEN 0 ELSE f[First(u)] + g[u \ {First(u)}]
        /\ h[u] = IF u = {} THEN 0 ELSE f[First(u)] + h[u \ {First(u)}]
    BY <2>1 DEF Adds
  <2>3. CASE u = {}
    BY <2>1, <2>2, <2>3
  <2>4. CASE u # {}
    <3>1. First(u) \in u /\ u \ {First(u)} \in SUBSET u /\ u \ {First(u)} # u
      BY <2>4, FirstIsMember
    <3>2. g[u \ {First(u)}] = h[u \ {First(u)}]
      BY <2>1, <3>1
    <3> QED
      BY <2>1, <2>2, <3>2
  <2> QED
    BY <2>3, <2>4
<1> QED
  BY <1>1, <1>2

LEMMA IterationExists ==
    ASSUME NEW f, NEW S \in SUBSET Turns
    PROVE  \E g : Adds(g, f, S)
<1> DEFINE B == {T \in SUBSET Turns : ~ \E g : Adds(g, f, T)}
<1>1. CASE B = {}
  BY <1>1
<1>2. CASE B # {}
  <2>1. PICK T \in B : \A t \in SUBSET T : t # T => t \notin B
    BY <1>2, SmallestSet
  <2> DEFINE H(u) == CHOOSE g : Adds(g, f, u)
             G == [t \in SUBSET T |->
                      IF t = {} THEN 0
                      ELSE f[First(t)] + H(t \ {First(t)})[t \ {First(t)}]]
  <2>2. ASSUME NEW u \in SUBSET T, u # T PROVE Adds(H(u), f, u)
    BY <2>1, <2>2
  <2>3. ASSUME NEW u \in SUBSET T, u # T PROVE G[u] = H(u)[u]
    <3>1. H(u)[u] = IF u = {} THEN 0 ELSE f[First(u)] + H(u)[u \ {First(u)}]
      <4>1. Adds(H(u), f, u)
        BY <2>2, <2>3
      <4> HIDE DEF H
      <4> QED
        BY <4>1 DEF Adds
    <3>2. CASE u = {}
      BY <3>1, <3>2
    <3>3. CASE u # {}
      <4> DEFINE v == u \ {First(u)}
      <4>1. v \in SUBSET u /\ v \in SUBSET T /\ v # T /\ v \in SUBSET (u \cap v)
        BY <2>3, <3>3, FirstIsMember
      <4>2. Adds(H(v), f, v) /\ Adds(H(u), f, u)
        BY <4>1, <2>2, <2>3
      <4>3. u \in SUBSET Turns /\ v \in SUBSET Turns
        BY <2>1, <2>3
      <4> HIDE DEF v, H
      <4>4. H(u)[v] = H(v)[v]
        BY <4>1, <4>2, <4>3, IterationsAgree
      <4> USE DEF v
      <4> QED
        BY <3>1, <3>3, <4>4, <2>3
    <3> QED
      BY <3>2, <3>3
  <2>4. ASSUME NEW t \in SUBSET T
        PROVE  G[t] = IF t = {} THEN 0 ELSE f[First(t)] + G[t \ {First(t)}]
    <3>1. CASE t = {}
      BY <3>1
    <3>2. CASE t # {}
      <4>1. t \ {First(t)} \in SUBSET T /\ t \ {First(t)} # T
        BY <3>2, FirstIsMember
      <4>2. G[t] = f[First(t)] + H(t \ {First(t)})[t \ {First(t)}]
        BY <3>2
      <4>3. G[t \ {First(t)}] = H(t \ {First(t)})[t \ {First(t)}]
        BY <4>1, <2>3
      <4> HIDE DEF G, H
      <4> QED
        BY <3>2, <4>2, <4>3
    <3> QED
      BY <3>1, <3>2
  <2>5. G = [t \in SUBSET T |-> G[t]]
    OBVIOUS
  <2>6. Adds(G, f, T)
    <3> HIDE DEF G
    <3> QED
      BY <2>4, <2>5, Zenon DEF Adds
  <2> QED
    BY <2>1, <2>6
<1> QED
  BY <1>1, <1>2

LEMMA SumUnfolds ==
    ASSUME NEW f, NEW S \in SUBSET Turns
    PROVE  SumOver(f, S) = IF S = {} THEN 0
                           ELSE f[First(S)] + SumOver(f, S \ {First(S)})
<1> DEFINE It(T) == CHOOSE g : Adds(g, f, T)
<1>1. ASSUME NEW T \in SUBSET Turns PROVE Adds(It(T), f, T) /\ SumOver(f, T) = It(T)[T]
  BY <1>1, IterationExists, SumIsIteration
<1>2. It(S)[S] = IF S = {} THEN 0 ELSE f[First(S)] + It(S)[S \ {First(S)}]
  <2> HIDE DEF It
  <2> QED
    BY <1>1 DEF Adds
<1>3. CASE S = {}
  BY <1>1, <1>2, <1>3
<1>4. CASE S # {}
  <2> DEFINE T == S \ {First(S)}
  <2>1. T \in SUBSET Turns /\ T \in SUBSET (S \cap T)
    OBVIOUS
  <2> HIDE DEF It, T
  <2>2. It(S)[T] = It(T)[T]
    BY <1>1, <2>1, IterationsAgree
  <2> USE DEF T
  <2> QED
    BY <1>1, <1>2, <1>4, <2>1, <2>2
<1> QED
  BY <1>3, <1>4

LEMMA SumIsNat ==
    ASSUME NEW S \in SUBSET Turns, NEW f, \A x \in S : f[x] \in Nat
    PROVE  SumOver(f, S) \in Nat
<1> DEFINE B == {T \in SUBSET S : SumOver(f, T) \notin Nat}
<1>1. CASE B = {}
  BY <1>1
<1>2. CASE B # {}
  <2>1. PICK T \in B : \A t \in SUBSET T : t # T => t \notin B
    BY <1>2, SmallestSet
  <2>2. T # {}
    <3>1. SumOver(f, {}) = 0
      BY SumUnfolds
    <3>2. SumOver(f, T) \notin Nat
      BY <2>1
    <3> QED
      BY <3>1, <3>2
  <2>3. First(T) \in T /\ T \ {First(T)} \in SUBSET T /\ T \ {First(T)} # T
    BY <2>2, FirstIsMember
  <2>4. SumOver(f, T \ {First(T)}) \in Nat
    BY <2>1, <2>3
  <2>5. SumOver(f, T) = f[First(T)] + SumOver(f, T \ {First(T)})
    BY <2>1, <2>2, SumUnfolds
  <2> QED
    BY <2>1, <2>3, <2>4, <2>5
<1> QED
  BY <1>1, <1>2

(* Values that are the same have the same sum.                             *)
LEMMA SumOfSame ==
    ASSUME NEW S \in SUBSET Turns, NEW f, NEW g, \A x \in S : f[x] = g[x]
    PROVE  SumOver(f, S) = SumOver(g, S)
<1> DEFINE B == {T \in SUBSET S : SumOver(f, T) # SumOver(g, T)}
<1>1. CASE B = {}
  BY <1>1
<1>2. CASE B # {}
  <2>1. PICK T \in B : \A t \in SUBSET T : t # T => t \notin B
    BY <1>2, SmallestSet
  <2>2. T # {}
    <3>1. SumOver(f, {}) = 0 /\ SumOver(g, {}) = 0
      BY SumUnfolds
    <3> QED
      BY <2>1, <3>1
  <2>3. First(T) \in T /\ T \ {First(T)} \in SUBSET T /\ T \ {First(T)} # T
    BY <2>2, FirstIsMember
  <2>4. SumOver(f, T \ {First(T)}) = SumOver(g, T \ {First(T)})
    BY <2>1, <2>3
  <2>5. /\ SumOver(f, T) = f[First(T)] + SumOver(f, T \ {First(T)})
        /\ SumOver(g, T) = g[First(T)] + SumOver(g, T \ {First(T)})
    BY <2>1, <2>2, SumUnfolds
  <2> QED
    BY <2>1, <2>3, <2>4, <2>5
<1> QED
  BY <1>1, <1>2

(* Any member may be added last.                                           *)
LEMMA SumTakesOut ==
    ASSUME NEW S \in SUBSET Turns, NEW f, \A y \in S : f[y] \in Nat, NEW x \in S
    PROVE  SumOver(f, S) = f[x] + SumOver(f, S \ {x})
<1> DEFINE Out(T) == \A y \in T : SumOver(f, T) = f[y] + SumOver(f, T \ {y})
           B == {T \in SUBSET S : ~Out(T)}
<1>1. CASE B = {}
  BY <1>1
<1>2. CASE B # {}
  <2>1. PICK T \in B : \A t \in SUBSET T : t # T => t \notin B
    BY <1>2, SmallestSet
  <2>2. PICK y \in T : SumOver(f, T) # f[y] + SumOver(f, T \ {y})
    BY <2>1
  <2> DEFINE c == First(T)
  <2>3. c \in T /\ SumOver(f, T) = f[c] + SumOver(f, T \ {c})
    BY <2>1, <2>2, SumUnfolds, FirstIsMember
  <2> HIDE DEF c
  <2>4. c # y
    BY <2>2, <2>3
  <2>5. SumOver(f, T \ {c}) = f[y] + SumOver(f, (T \ {c}) \ {y})
    <3>1. T \ {c} \in SUBSET T /\ T \ {c} # T /\ y \in T \ {c} /\ T \ {c} \in SUBSET S
      BY <2>1, <2>3, <2>4
    <3>2. Out(T \ {c})
      BY <2>1, <3>1
    <3> QED
      BY <3>1, <3>2
  <2>6. SumOver(f, T \ {y}) = f[c] + SumOver(f, (T \ {y}) \ {c})
    <3>1. T \ {y} \in SUBSET T /\ T \ {y} # T /\ c \in T \ {y} /\ T \ {y} \in SUBSET S
      BY <2>1, <2>2, <2>3, <2>4
    <3>2. Out(T \ {y})
      BY <2>1, <3>1
    <3> QED
      BY <3>1, <3>2
  <2>7. (T \ {c}) \ {y} = (T \ {y}) \ {c}
    OBVIOUS
  <2>8. SumOver(f, (T \ {y}) \ {c}) \in Nat /\ f[y] \in Nat /\ f[c] \in Nat
    <3>1. T \in SUBSET S
      BY <2>1
    <3> QED
      BY <2>2, <2>3, <3>1, SumIsNat
  <2>9. \A m, n, k \in Nat : m + (n + k) = n + (m + k)
    OBVIOUS
  <2>10. SumOver(f, T) = f[c] + (f[y] + SumOver(f, (T \ {y}) \ {c}))
    BY <2>3, <2>5, <2>7
  <2>11. SumOver(f, T) = f[y] + SumOver(f, T \ {y})
    BY <2>6, <2>8, <2>9, <2>10
  <2> QED
    BY <2>2, <2>11
<1> QED
  BY <1>1, <1>2

(* One more for a member is one more for the set.                          *)
LEMMA SumGrows ==
    ASSUME NEW S \in SUBSET Turns, NEW f \in [Turns -> Nat], NEW x \in Turns
    PROVE  SumOver([f EXCEPT ![x] = @ + 1], S) =
               IF x \in S THEN SumOver(f, S) + 1 ELSE SumOver(f, S)
<1> DEFINE g == [f EXCEPT ![x] = @ + 1]
<1>1. g \in [Turns -> Nat] /\ g[x] = f[x] + 1 /\ \A y \in Turns \ {x} : g[y] = f[y]
  OBVIOUS
<1> HIDE DEF g
<1>2. CASE x \in S
  <2>1. SumOver(g, S) = g[x] + SumOver(g, S \ {x})
    BY <1>1, <1>2, SumTakesOut
  <2>2. SumOver(f, S) = f[x] + SumOver(f, S \ {x})
    BY <1>2, SumTakesOut
  <2>3. SumOver(g, S \ {x}) = SumOver(f, S \ {x})
    BY <1>1, SumOfSame
  <2>4. SumOver(f, S \ {x}) \in Nat /\ f[x] \in Nat
    BY SumIsNat
  <2>5. SumOver(g, S) = SumOver(f, S) + 1
    BY <1>1, <2>1, <2>2, <2>3, <2>4
  <2> QED
    BY <1>2, <2>5 DEF g
<1>3. CASE x \notin S
  <2>1. SumOver(g, S) = SumOver(f, S)
    BY <1>1, <1>3, SumOfSame
  <2> QED
    BY <1>3, <2>1 DEF g
<1> QED
  BY <1>2, <1>3

(* A turn that has cost nothing may be added.                              *)
LEMMA SumWithNothing ==
    ASSUME NEW S \in SUBSET Turns, NEW f \in [Turns -> Nat],
           NEW x \in Turns, f[x] = 0
    PROVE  SumOver(f, S \cup {x}) = SumOver(f, S)
<1>1. CASE x \in S
  <2>1. S \cup {x} = S
    BY <1>1
  <2> QED
    BY <2>1
<1>2. CASE x \notin S
  <2>1. (S \cup {x}) \ {x} = S /\ S \cup {x} \in SUBSET Turns
    BY <1>2
  <2>2. SumOver(f, S \cup {x}) = f[x] + SumOver(f, (S \cup {x}) \ {x})
    BY <2>1, SumTakesOut
  <2>3. SumOver(f, S) \in Nat
    BY SumIsNat
  <2> QED
    BY <2>1, <2>2, <2>3
<1> QED
  BY <1>1, <1>2

LEMMA SumOfZeros ==
    ASSUME NEW S \in SUBSET Turns, NEW f, \A x \in S : f[x] = 0
    PROVE  SumOver(f, S) = 0
<1> DEFINE B == {T \in SUBSET S : SumOver(f, T) # 0}
<1>1. CASE B = {}
  BY <1>1
<1>2. CASE B # {}
  <2>1. PICK T \in B : \A t \in SUBSET T : t # T => t \notin B
    BY <1>2, SmallestSet
  <2>2. T # {}
    <3>1. SumOver(f, {}) = 0
      BY SumUnfolds
    <3> QED
      BY <2>1, <3>1
  <2>3. First(T) \in T /\ T \ {First(T)} \in SUBSET T /\ T \ {First(T)} # T
    BY <2>2, FirstIsMember
  <2>4. SumOver(f, T \ {First(T)}) = 0
    BY <2>1, <2>3
  <2>5. SumOver(f, T) = f[First(T)] + SumOver(f, T \ {First(T)})
    BY <2>1, <2>2, SumUnfolds
  <2> QED
    BY <2>1, <2>3, <2>4, <2>5
<1> QED
  BY <1>1, <1>2

-----------------------------------------------------------------------------
(* The inductive invariant, in parts.                                      *)

(* What the session in sandbox s has cost, given the cost of every turn.   *)
Session(costs, owners, places, s) ==
    SumOver(costs, {t \in Turns : owners[t] # None /\ places[owners[t]] = s})

StreamStates == {"waiting", "running", "asked", "settled", "askedSettled", "completed",
                 "asking", "failed", "broken"}

Steps == {"opened", "admitted", "ready", "checked", "funded", "reserved", "clear",
          "streaming", "returned", "settled", "public"}

AgentTypes == AgentTypeOK /\ stream \in [Turns -> StreamStates]

(* The row: who holds the run, and what it continues in.                   *)
RowInv ==
    /\ status = "running" => leaseOwner # None
    /\ status # "running" => leaseOwner = None
    /\ leaseOwner <= claims
    /\ status = "waiting_for_user" => continuation \in Attempts
    /\ continuation \in Attempts => place[continuation] # None

(* An attempt not made yet has no sandbox and no key; a sandbox that is    *)
(* continued in was opened by the attempt it is named after.               *)
PlaceInv ==
    /\ \A a \in Attempts : a > claims => place[a] = None /\ key[a] = "none"
    /\ \A a \in Attempts : place[a] # None => place[place[a]] # None
    /\ \A s \in alive : place[s] # None

(* What a task in each of its steps knows of its attempt and its turn.     *)
TaskOf(w) ==
    /\ token[w] = None <=> pc[w] = "idle"
    /\ token[w] <= claims
    /\ turn[w] # None => turn[w] <= turns /\ owner[turn[w]] = token[w]
    /\ pc[w] = "claimed" => place[token[w]] = None
    /\ pc[w] \in Steps => place[token[w]] # None
    /\ pc[w] \in {"claimed", "opened", "admitted"} =>
           key[token[w]] = "none" /\ \A t \in Turns : owner[t] # token[w]
    /\ pc[w] \in {"reserved", "clear", "streaming", "returned", "settled", "public"} =>
           turn[w] # None
    /\ pc[w] \in {"reserved", "clear"} => bridge[turn[w]] = "none"
    /\ pc[w] \in {"reserved", "clear", "streaming", "returned"} => entry[turn[w]] = "reserved"
    /\ pc[w] = "streaming" => bridge[turn[w]] # "none"
    /\ pc[w] = "streaming" /\ stream[turn[w]] \in {"completed", "asking"} =>
           bridge[turn[w]] = "done" /\ final[turn[w]] - initial[turn[w]] = spent[turn[w]]
    /\ pc[w] = "returned" =>
           bridge[turn[w]] = "done" /\ final[turn[w]] - initial[turn[w]] = spent[turn[w]]
    /\ pc[w] \in Steps => \A t \in Turns :
           owner[t] = token[w] /\ bridge[t] = "up" => pc[w] = "streaming" /\ t = turn[w]

TaskInv ==
    /\ \A w \in Workers : TaskOf(w)
    /\ \A v, w \in Workers : token[v] = token[w] /\ token[v] # None => v = w

(* What the ledger, the bridge and the key of a turn have to do with each  *)
(* other.  The session of a sandbox counts on over its turns, so what it   *)
(* reports beyond the count at the start of a turn is that turn's cost.    *)
TurnOf(t) ==
    /\ t > turns => owner[t] = None /\ entry[t] = "none" /\ bridge[t] = "none"
    /\ t <= turns => /\ owner[t] # None /\ owner[t] <= claims
                     /\ place[owner[t]] # None /\ entry[t] # "none"
    /\ bridge[t] = "none" => spent[t] = 0 /\ stream[t] = "waiting"
    /\ entry[t] = "none" => cost[t] = 0
    /\ entry[t] = "settled" => bridge[t] # "up"
    /\ bridge[t] = "up" => /\ place[owner[t]] \in alive
                           /\ Session(spent, owner, place, place[owner[t]])
                                = initial[t] + spent[t]
    /\ owner[t] # None => spent[t] + credit[owner[t]] <= MaxSpend

TurnInv == (\A t \in Turns : TurnOf(t)) /\ SettledIsCharged

(* An attempt uses its sandbox while its task is in one of its steps there *)
(* or a bridge it has started is up.                                       *)
Uses(a) ==
    /\ place[a] \in alive
    /\ \/ \E w \in Workers : token[w] = a /\ pc[w] \in Steps
       \/ \E t \in Turns : owner[t] = a /\ bridge[t] = "up"

(* It holds the run, or keeps every later claim out: its sandbox is alive, *)
(* and is not the one that the run may continue in.                        *)
Holds(a) ==
    \/ status = "running" /\ leaseOwner = a
    \/ status \in {"queued", "ended"} /\ continuation # place[a]

UseInv ==
    /\ \A a \in Attempts : Uses(a) => Holds(a)
    /\ \A a, b \in Attempts : Uses(a) /\ Uses(b) => a = b
    /\ OneBridge

(* What may be spent is what the attempt that uses the run has left.       *)
MoneyInv ==
    ~blind => /\ SumOver(spent, Turns) <= MaxSpend
              /\ \A a \in Attempts : Uses(a) /\ key[a] = "live" =>
                     SumOver(spent, Turns) + credit[a] <= MaxSpend

AgentIInv ==
    AgentTypes /\ RowInv /\ PlaceInv /\ TaskInv /\ TurnInv /\ UseInv /\ MoneyInv

-----------------------------------------------------------------------------
(* The model's sums.                                                       *)

LEMMA TotalIsSum == TotalSpent = SumOver(spent, Turns)
BY Zenon DEF TotalSpent, SumOver

LEMMA SessionIsSum ==
    ASSUME NEW s
    PROVE  SessionCost(s) = Session(spent, owner, place, s)
BY Zenon DEF SessionCost, Session, SumOver

LEMMA SessionIsNat ==
    ASSUME AgentTypes, NEW s
    PROVE  Session(spent, owner, place, s) \in Nat /\ SumOver(spent, Turns) \in Nat
<1>1. \A t \in Turns : spent[t] \in Nat
  BY AgentAssumption DEF AgentTypes, AgentTypeOK
<1> QED
  BY <1>1, SumIsNat DEF Session

LEMMA LedgerTotals ==
    ASSUME AgentTypes, TurnInv
    PROVE  /\ UsageTotals \in Nat
           /\ (\A t \in Turns : entry[t] # "reserved") => UsageTotals = SumOver(spent, Turns)
<1> DEFINE sum == SumOver(cost, Turns)
<1>1. UsageTotals = IF \E t \in Turns : entry[t] = "reserved" THEN 0 ELSE sum
  BY Zenon DEF UsageTotals, SumOver
<1>2. sum \in Nat
  <2>1. \A t \in Turns : cost[t] \in Nat
    BY AgentAssumption DEF AgentTypes, AgentTypeOK
  <2> QED
    BY <2>1, SumIsNat
<1>3. ASSUME \A t \in Turns : entry[t] # "reserved"
      PROVE  sum = SumOver(spent, Turns)
  <2>1. ASSUME NEW t \in Turns PROVE cost[t] = spent[t]
    <3>1. entry[t] = "none" \/ entry[t] = "settled"
      BY <1>3, <2>1 DEF AgentTypes, AgentTypeOK
    <3>2. t \in Nat /\ turns \in Nat
      BY <2>1, AgentAssumption DEF Turns, AgentTypes, AgentTypeOK
    <3>3. CASE entry[t] = "none"
      BY <3>2, <3>3 DEF TurnInv, TurnOf
    <3>4. CASE entry[t] = "settled"
      BY <3>4 DEF TurnInv, SettledIsCharged
    <3> QED
      BY <3>1, <3>3, <3>4
  <2> QED
    BY <2>1, SumOfSame
<1> HIDE DEF sum
<1> QED
  BY <1>1, <1>2, <1>3

-----------------------------------------------------------------------------
(* The initial state.                                                      *)

LEMMA InitIsInOrder == Init => AgentIInv
<1> SUFFICES ASSUME Init PROVE AgentIInv
  OBVIOUS
<1>1. AgentTypes
  <2>1. {MaxAttempts, MaxTurns, MaxSpend, MaxFaults} \subseteq Nat
    BY AgentAssumption
  <2>2. /\ status \in {"queued", "running", "waiting_for_user", "ended"}
        /\ leaseOwner \in Attempts \cup {None} /\ continuation \in Attempts \cup {None, Detached}
        /\ leaseExpired \in BOOLEAN /\ cancelRequested \in BOOLEAN /\ blind \in BOOLEAN
        /\ claims \in 0 .. MaxAttempts /\ turns \in 0 .. MaxTurns /\ faults \in 0 .. MaxFaults
    <3>1. /\ status \in {"queued", "running", "waiting_for_user", "ended"}
          /\ leaseOwner \in Attempts \cup {None} /\ continuation \in Attempts \cup {None, Detached}
      BY DEF Init
    <3>2. leaseExpired \in BOOLEAN /\ cancelRequested \in BOOLEAN /\ blind \in BOOLEAN
      BY DEF Init
    <3>3. claims \in 0 .. MaxAttempts /\ turns \in 0 .. MaxTurns /\ faults \in 0 .. MaxFaults
      BY <2>1 DEF Init
    <3> QED
      BY <3>1, <3>2, <3>3
  <2>3. /\ token \in [Workers -> Attempts \cup {None}] /\ pc \in [Workers -> Labels]
        /\ turn \in [Workers -> Turns \cup {None}] /\ resuming \in [Workers -> BOOLEAN]
        /\ cancelEvent \in [Workers -> {"clear", "set", "stuck"}]
    BY DEF Init, Labels
  <2>4. /\ place \in [Attempts -> Attempts \cup {None}] /\ alive \subseteq Attempts
        /\ key \in [Attempts -> {"none", "live", "dead"}]
        /\ credit \in [Attempts -> 0 .. MaxSpend]
    BY <2>1 DEF Init
  <2>5. /\ owner \in [Turns -> Attempts \cup {None}]
        /\ entry \in [Turns -> {"none", "reserved", "settled"}]
        /\ cost \in [Turns -> 0 .. MaxSpend] /\ spent \in [Turns -> 0 .. MaxSpend]
        /\ bridge \in [Turns -> {"none", "up", "done", "dead"}]
        /\ initial \in [Turns -> Nat] /\ final \in [Turns -> Nat]
        /\ stream \in [Turns -> StreamStates]
    BY <2>1 DEF Init, StreamStates
  <2> QED
    BY <2>2, <2>3, <2>4, <2>5 DEF AgentTypes, AgentTypeOK
<1>2. RowInv /\ PlaceInv
  BY AgentAssumption DEF Init, RowInv, PlaceInv, None, Attempts
<1>3. TaskInv
  BY DEF Init, TaskInv, TaskOf, None, Steps, Attempts
<1>4. TurnInv
  BY AgentAssumption DEF Init, TurnInv, TurnOf, SettledIsCharged, None, Turns
<1>5. UseInv
  BY <1>4 DEF Init, UseInv, Uses, OneBridge, Steps
<1>6. MoneyInv
  <2>1. SumOver(spent, Turns) = 0
    BY SumOfZeros DEF Init
  <2> QED
    BY <2>1, AgentAssumption DEF Init, MoneyInv, Uses, Steps
<1> QED
  BY <1>1, <1>2, <1>3, <1>4, <1>5, <1>6 DEF AgentIInv

-----------------------------------------------------------------------------
(* What carries the parts of the invariant over the steps that do not      *)
(* concern them.                                                           *)

(* Most steps make nobody use a sandbox, and change no money.              *)
NoNewUse ==
    /\ alive' \subseteq alive
    /\ UNCHANGED <<place, owner>>
    /\ \A w \in Workers : pc'[w] \in Steps => pc[w] \in Steps /\ token'[w] = token[w]
    /\ \A t \in Turns : bridge'[t] = "up" => bridge[t] = "up"

NoNewMoney ==
    /\ UNCHANGED <<spent, credit, blind>>
    /\ \A a \in Attempts : key'[a] = "live" => key[a] = "live"

LEMMA UsesShrink ==
    ASSUME NoNewUse, NEW a, Uses(a)'
    PROVE  Uses(a)
BY DEF NoNewUse, Uses

LEMMA MoneyKept ==
    ASSUME MoneyInv, NoNewUse, NoNewMoney
    PROVE  MoneyInv'
BY UsesShrink DEF MoneyInv, NoNewMoney

LEMMA UseKept ==
    ASSUME UseInv, NoNewUse,
           \A a \in Attempts : Uses(a) /\ Uses(a)' /\ Holds(a) => Holds(a)'
    PROVE  UseInv'
<1>1. \A a \in Attempts : Uses(a)' => Uses(a)
  BY UsesShrink
<1>2. OneBridge'
  BY DEF UseInv, OneBridge, NoNewUse
<1> QED
  BY <1>1, <1>2 DEF UseInv

LEMMA TurnKept ==
    ASSUME TurnInv, UNCHANGED <<turns, owner, entry, bridge, stream, spent, cost, initial,
                                place, alive, credit, claims>>
    PROVE  TurnInv'
BY DEF TurnInv, TurnOf, SettledIsCharged

LEMMA PlaceKept ==
    ASSUME PlaceInv, UNCHANGED <<place, claims>>, alive' \subseteq alive,
           \A a \in Attempts : key[a] = "none" => key'[a] = "none"
    PROVE  PlaceInv'
BY DEF PlaceInv

LEMMA RowKept ==
    ASSUME RowInv, UNCHANGED <<status, leaseOwner, continuation, claims, place>>
    PROVE  RowInv'
BY DEF RowInv

(* The steps of a task that a check or a failure may take.                 *)
Exits == {"failing", "discarded", "closing", "unwinding", "blocking"}
Onward == {<<"opened", "admitted">>, <<"ready", "checked">>, <<"checked", "funded">>,
           <<"reserved", "clear">>, <<"settled", "public">>, <<"public", "ready">>}

MayReturn(w, label) ==
    /\ pc[w] = "streaming" /\ label = "returned"
    /\ stream[turn[w]] \in {"completed", "asking"}

LEMMA TaskMoves ==
    ASSUME AgentTypes, TaskInv, NEW w \in Workers, NEW label, pc[w] # "idle",
           pc' = [pc EXCEPT ![w] = label],
           label \in Exits \/ <<pc[w], label>> \in Onward \/ MayReturn(w, label),
           UNCHANGED <<claims, token, turn, turns, owner, place, key, entry, bridge,
                       stream, spent, initial, final>>
    PROVE  TaskInv'
<1>1. pc'[w] = label /\ \A v \in Workers \ {w} : pc'[v] = pc[v]
  BY DEF AgentTypes, AgentTypeOK
<1>2. ASSUME NEW v \in Workers, v # w PROVE TaskOf(v)'
  BY <1>1, <1>2 DEF TaskInv, TaskOf
<1>3. TaskOf(w)'
  <2>1. CASE label \in Exits
    BY <1>1, <2>1 DEF TaskInv, TaskOf, Exits, Steps
  <2>2. CASE <<pc[w], label>> \in Onward
    BY <1>1, <2>2 DEF TaskInv, TaskOf, Onward, Steps
  <2>3. CASE MayReturn(w, label)
    BY <1>1, <2>3 DEF TaskInv, TaskOf, MayReturn, Steps
  <2> QED
    BY <2>1, <2>2, <2>3
<1> QED
  BY <1>2, <1>3 DEF TaskInv

LEMMA TaskStays ==
    ASSUME TaskInv, UNCHANGED <<pc, claims, token, turn, turns, owner, place, key, entry,
                                bridge, stream, spent, initial, final>>
    PROVE  TaskInv'
BY DEF TaskInv, TaskOf

-----------------------------------------------------------------------------
(* One lemma for each kind of step: first those in which a task goes on    *)
(* and nothing else but the row changes.                                   *)

TypeFacts ==
    /\ AgentTypes
    /\ {MaxAttempts, MaxTurns, MaxSpend, MaxFaults} \subseteq Nat
    /\ Attempts \subseteq Nat \ {0} /\ Turns \subseteq Nat \ {0} /\ None = 0

LEMMA TypesGiveFacts == AgentTypes => TypeFacts
BY AgentAssumption DEF TypeFacts, Attempts, Turns, None

LEMMA Numbers ==
    ASSUME AgentTypes
    PROVE  /\ claims \in Nat /\ turns \in Nat /\ MaxSpend \in Nat
           /\ \A a \in Attempts : a \in Nat /\ a # None /\ credit[a] \in Nat
                                 /\ place[a] \in Attempts \cup {None}
           /\ \A t \in Turns : /\ t \in Nat /\ t # None /\ owner[t] \in Nat
                              /\ (owner[t] # None => owner[t] \in Attempts)
                              /\ spent[t] \in Nat /\ cost[t] \in Nat
                              /\ initial[t] \in Nat /\ final[t] \in Nat
           /\ \A w \in Workers : /\ token[w] \in Nat /\ turn[w] \in Nat
                                /\ (token[w] # None => token[w] \in Attempts)
                                /\ (turn[w] # None => turn[w] \in Turns)
<1>1. TypeFacts
  BY TypesGiveFacts
<1>2. \A x \in 0 .. MaxSpend : x \in Nat
  BY <1>1 DEF TypeFacts
<1>3. \A w \in Workers : token[w] \in Attempts \cup {None} /\ turn[w] \in Turns \cup {None}
  BY DEF AgentTypes, AgentTypeOK
<1>4. \A t \in Turns : owner[t] \in Attempts \cup {None} /\ spent[t] \in 0 .. MaxSpend
                     /\ cost[t] \in 0 .. MaxSpend /\ initial[t] \in Nat /\ final[t] \in Nat
  BY DEF AgentTypes, AgentTypeOK
<1>5. \A a \in Attempts : place[a] \in Attempts \cup {None} /\ credit[a] \in 0 .. MaxSpend
  BY DEF AgentTypes, AgentTypeOK
<1>6. claims \in Nat /\ turns \in Nat /\ MaxSpend \in Nat
  BY <1>1 DEF TypeFacts, AgentTypes, AgentTypeOK
<1>7. None = 0 /\ \A x \in Attempts \cup Turns : x \in Nat /\ x # None
  BY <1>1 DEF TypeFacts
<1> QED
  BY <1>2, <1>3, <1>4, <1>5, <1>6, <1>7

(* A check, a refusal, a failure.                                          *)
Check(w) ==
    \/ Refused(w) \/ WriteRefused(w) \/ Admit(w) \/ CheckActive(w) \/ CheckBudget(w)
    \/ CheckAgain(w) \/ TransportBreaks(w) \/ Return(w) \/ CheckAfter(w)

LEMMA CheckMoves ==
    ASSUME NEW w \in Workers, Check(w)
    PROVE  \E label \in Labels :
               /\ pc[w] # "idle" /\ pc' = [pc EXCEPT ![w] = label]
               /\ label \in Exits \/ <<pc[w], label>> \in Onward \/ MayReturn(w, label)
<1>1. CASE Refused(w)
  BY <1>1 DEF Refused, Goto, Exits, Labels
<1>2. CASE WriteRefused(w)
  BY <1>2 DEF WriteRefused, Goto, Exits, Labels
<1>3. CASE Admit(w)
  BY <1>3 DEF Admit, Goto, Onward, Labels
<1>4. CASE CheckActive(w)
  BY <1>4 DEF CheckActive, Goto, Onward, Labels
<1>5. CASE CheckBudget(w)
  BY <1>5 DEF CheckBudget, Goto, Onward, Exits, Labels
<1>6. CASE CheckAgain(w)
  BY <1>6 DEF CheckAgain, Goto, Onward, Labels
<1>7. CASE TransportBreaks(w)
  BY <1>7 DEF TransportBreaks, Goto, Exits, Labels
<1>8. CASE Return(w)
  BY <1>8 DEF Return, Goto, Exits, MayReturn, Labels
<1>9. CASE CheckAfter(w)
  BY <1>9 DEF CheckAfter, Goto, Onward, Labels
<1> QED
  BY <1>1, <1>2, <1>3, <1>4, <1>5, <1>6, <1>7, <1>8, <1>9 DEF Check

(* A step to an exit or to the next check never begins to use a sandbox.   *)
LEMMA MoveIsNoNewUse ==
    ASSUME AgentTypes, NEW w \in Workers, NEW label, pc' = [pc EXCEPT ![w] = label],
           label \in Exits \/ <<pc[w], label>> \in Onward \/ MayReturn(w, label),
           UNCHANGED <<token, alive, place, owner, bridge>>
    PROVE  NoNewUse
<1>1. pc'[w] = label /\ \A v \in Workers \ {w} : pc'[v] = pc[v]
  BY DEF AgentTypes, AgentTypeOK
<1>2. label \in Steps => pc[w] \in Steps
  BY DEF Exits, Onward, MayReturn, Steps
<1> QED
  BY <1>1, <1>2 DEF NoNewUse

LEMMA CheckKeepsInvariant ==
    ASSUME AgentIInv, NEW w \in Workers, Check(w)
    PROVE  AgentIInv'
<1>1. AgentTypes /\ RowInv /\ PlaceInv /\ TaskInv /\ TurnInv /\ UseInv /\ MoneyInv
  BY DEF AgentIInv
<1>2. PICK label \in Labels :
               /\ pc[w] # "idle" /\ pc' = [pc EXCEPT ![w] = label]
               /\ label \in Exits \/ <<pc[w], label>> \in Onward \/ MayReturn(w, label)
  BY CheckMoves
<1>3. /\ UNCHANGED <<runVars, token, turn, resuming, cancelEvent, sandboxVars, keyVars,
                     ledgerVars, bridgeVars>>
      /\ faults' = faults \/ Fault
  BY DEF Check, Refused, WriteRefused, Admit, CheckActive, CheckBudget, CheckAgain,
         TransportBreaks, Return, CheckAfter
<1>4. UNCHANGED <<status, leaseOwner, leaseExpired, cancelRequested, continuation, claims>>
      /\ UNCHANGED <<token, turn, resuming, cancelEvent, place, alive, key, credit>>
      /\ UNCHANGED <<turns, owner, entry, cost, blind, bridge, stream, spent, initial, final>>
  BY <1>3 DEF runVars, sandboxVars, keyVars, ledgerVars, bridgeVars
<1>5. faults' \in 0 .. MaxFaults
  BY <1>1, <1>3, AgentAssumption DEF Fault, AgentTypes, AgentTypeOK
<1>6. AgentTypes'
  BY <1>1, <1>2, <1>4, <1>5 DEF AgentTypes, AgentTypeOK
<1>7. RowInv' /\ PlaceInv' /\ TurnInv'
  BY <1>1, <1>4, RowKept, PlaceKept, TurnKept
<1>8. TaskInv'
  BY <1>1, <1>2, <1>4, TaskMoves
<1>9. NoNewUse
  BY <1>1, <1>2, <1>4, MoveIsNoNewUse
<1>10. UseInv'
  BY <1>1, <1>4, <1>9, UseKept DEF Holds
<1>11. MoneyInv'
  BY <1>1, <1>4, <1>9, MoneyKept DEF NoNewMoney
<1> QED
  BY <1>6, <1>7, <1>8, <1>10, <1>11 DEF AgentIInv

-----------------------------------------------------------------------------
(* The row of the run.                                                     *)

Row == <<leaseExpired, cancelRequested, faults, status, leaseOwner, continuation>>

RowTypes ==
    /\ status \in {"queued", "running", "waiting_for_user", "ended"}
    /\ leaseOwner \in Attempts \cup {None}
    /\ leaseExpired \in BOOLEAN /\ cancelRequested \in BOOLEAN
    /\ continuation \in Attempts \cup {None, Detached} /\ faults \in 0 .. MaxFaults

LEMMA UsedIsOpened ==
    ASSUME TypeFacts, NEW a \in Attempts, Uses(a)
    PROVE  place[a] \in Attempts
BY DEF TypeFacts, AgentTypes, AgentTypeOK, Uses

(* A step of the row that moves no task.                                   *)
LEMMA RowStepKeepsInvariant ==
    ASSUME AgentIInv, RowTypes', RowInv',
           UNCHANGED <<claims, taskVars, sandboxVars, keyVars, ledgerVars, bridgeVars>>,
           \A a \in Attempts : Uses(a) /\ Holds(a) => Holds(a)'
    PROVE  AgentIInv'
<1>1. AgentTypes /\ RowInv /\ PlaceInv /\ TaskInv /\ TurnInv /\ UseInv /\ MoneyInv
  BY DEF AgentIInv
<1>2. UNCHANGED <<claims, pc, token, turn, resuming, cancelEvent, place, alive, key, credit>>
      /\ UNCHANGED <<turns, owner, entry, cost, blind, bridge, stream, spent, initial, final>>
  BY DEF taskVars, sandboxVars, keyVars, ledgerVars, bridgeVars
<1>3. AgentTypes'
  BY <1>1, <1>2 DEF AgentTypes, AgentTypeOK, RowTypes
<1>4. PlaceInv' /\ TurnInv' /\ TaskInv'
  BY <1>1, <1>2, PlaceKept, TurnKept, TaskStays
<1>5. NoNewUse
  BY <1>2 DEF NoNewUse
<1>6. UseInv'
  BY <1>1, <1>5, UseKept
<1>7. MoneyInv'
  BY <1>1, <1>2, <1>5, MoneyKept DEF NoNewMoney
<1> QED
  BY <1>3, <1>4, <1>6, <1>7 DEF AgentIInv

UserOrClock == RequestCancel \/ AnswerUserInput \/ LeaseExpires \/ RecoverExpiredRun

LEMMA UserOrClockKeepsInvariant ==
    ASSUME AgentIInv, UserOrClock
    PROVE  AgentIInv'
<1>1. AgentTypes /\ RowInv /\ UseInv /\ TypeFacts
  BY TypesGiveFacts DEF AgentIInv
<1>2. RowTypes
  BY <1>1 DEF AgentTypes, AgentTypeOK, RowTypes
<1>3. UNCHANGED <<claims, taskVars, sandboxVars, keyVars, ledgerVars, bridgeVars>>
  BY DEF UserOrClock, RequestCancel, AnswerUserInput, LeaseExpires, RecoverExpiredRun
<1>4. place' = place
  BY <1>3 DEF sandboxVars
<1>5. \A a \in Attempts : Uses(a) => place[a] \in Attempts
  BY <1>1, UsedIsOpened
<1>6. None \notin Attempts /\ Detached \notin Attempts /\ leaseOwner' \in Attempts \cup {None}
  BY <1>1, <1>2 DEF TypeFacts, Detached, Attempts, UserOrClock, RequestCancel,
                    AnswerUserInput, LeaseExpires, RecoverExpiredRun, RowTypes
<1>7. CASE RequestCancel
  <2>1. RowTypes'
    BY <1>2, <1>7 DEF RowTypes, RequestCancel
  <2>2. RowInv'
    BY <1>1, <1>4, <1>6, <1>7, <1>3 DEF RowInv, RequestCancel
  <2>3. \A a \in Attempts : Uses(a) /\ Holds(a) => Holds(a)'
    BY <1>4, <1>5, <1>6, <1>7 DEF Holds, RequestCancel
  <2> QED
    BY <1>3, <2>1, <2>2, <2>3, RowStepKeepsInvariant
<1>8. CASE AnswerUserInput
  <2>1. RowTypes'
    BY <1>2, <1>8 DEF RowTypes, AnswerUserInput
  <2>2. RowInv'
    BY <1>1, <1>4, <1>6, <1>8, <1>3 DEF RowInv, AnswerUserInput
  <2>3. \A a \in Attempts : Uses(a) /\ Holds(a) => Holds(a)'
    BY <1>4, <1>5, <1>6, <1>8 DEF Holds, AnswerUserInput
  <2> QED
    BY <1>3, <2>1, <2>2, <2>3, RowStepKeepsInvariant
<1>9. CASE LeaseExpires
  <2>1. RowTypes'
    BY <1>1, <1>2, <1>9 DEF RowTypes, LeaseExpires, Fault, TypeFacts
  <2>2. RowInv'
    BY <1>1, <1>4, <1>6, <1>9, <1>3 DEF RowInv, LeaseExpires
  <2>3. \A a \in Attempts : Uses(a) /\ Holds(a) => Holds(a)'
    BY <1>4, <1>5, <1>6, <1>9 DEF Holds, LeaseExpires
  <2> QED
    BY <1>3, <2>1, <2>2, <2>3, RowStepKeepsInvariant
<1>10. CASE RecoverExpiredRun
  <2>1. RowTypes'
    BY <1>2, <1>10 DEF RowTypes, RecoverExpiredRun
  <2>2. RowInv'
    BY <1>1, <1>4, <1>6, <1>10, <1>3 DEF RowInv, RecoverExpiredRun, TypeFacts, AgentTypes, AgentTypeOK
  <2>3. \A a \in Attempts : Uses(a) /\ Holds(a) => Holds(a)'
    BY <1>4, <1>5, <1>6, <1>10 DEF Holds, RecoverExpiredRun
  <2> QED
    BY <1>3, <2>1, <2>2, <2>3, RowStepKeepsInvariant
<1> QED
  BY <1>7, <1>8, <1>9, <1>10 DEF UserOrClock

(* A step of a task that also changes the row.                             *)
LEMMA RowMoveKeepsInvariant ==
    ASSUME AgentIInv, NEW w \in Workers, NEW label \in Labels, pc[w] # "idle",
           pc' = [pc EXCEPT ![w] = label],
           label \in Exits \/ <<pc[w], label>> \in Onward,
           RowTypes', RowInv', resuming' \in [Workers -> BOOLEAN],
           UNCHANGED <<claims, token, turn, cancelEvent, sandboxVars, keyVars, ledgerVars,
                       bridgeVars>>,
           \A a \in Attempts : Uses(a) /\ Uses(a)' /\ Holds(a) => Holds(a)'
    PROVE  AgentIInv'
<1>1. AgentTypes /\ RowInv /\ PlaceInv /\ TaskInv /\ TurnInv /\ UseInv /\ MoneyInv
  BY DEF AgentIInv
<1>2. UNCHANGED <<claims, token, turn, cancelEvent, place, alive, key, credit>>
      /\ UNCHANGED <<turns, owner, entry, cost, blind, bridge, stream, spent, initial, final>>
  BY DEF sandboxVars, keyVars, ledgerVars, bridgeVars
<1>3. AgentTypes'
  BY <1>1, <1>2 DEF AgentTypes, AgentTypeOK, RowTypes
<1>4. PlaceInv' /\ TurnInv'
  BY <1>1, <1>2, PlaceKept, TurnKept
<1>5. TaskInv'
  BY <1>1, <1>2, TaskMoves
<1>6. NoNewUse
  BY <1>1, <1>2, MoveIsNoNewUse
<1>7. UseInv'
  BY <1>1, <1>6, UseKept
<1>8. MoneyInv'
  BY <1>1, <1>2, <1>6, MoneyKept DEF NoNewMoney
<1> QED
  BY <1>3, <1>4, <1>5, <1>7, <1>8 DEF AgentIInv

(* A task that ends outside a turn leaves its sandbox to nobody.           *)
LEMMA OwnUseEnds ==
    ASSUME AgentTypes, TaskInv, NEW w \in Workers, NEW label \in Exits,
           pc[w] \in Steps \ {"streaming"}, pc' = [pc EXCEPT ![w] = label],
           UNCHANGED <<token, owner, bridge>>
    PROVE  ~Uses(token[w])'
<1>1. pc'[w] \notin Steps /\ \A v \in Workers \ {w} : pc'[v] = pc[v]
  BY DEF AgentTypes, AgentTypeOK, Exits, Steps
<1>2. token[w] # None /\ \A v \in Workers : token[v] = token[w] => v = w
  BY DEF TaskInv, TaskOf, Steps
<1>3. \A t \in Turns : owner[t] = token[w] => bridge[t] # "up"
  BY DEF TaskInv, TaskOf
<1> QED
  BY <1>1, <1>2, <1>3 DEF Uses

Conclude(w) == MarkTerminal(w) \/ ContinuationUnavailable(w) \/ Publish(w)

LEMMA ConcludeKeepsInvariant ==
    ASSUME AgentIInv, NEW w \in Workers, Conclude(w)
    PROVE  AgentIInv'
<1>1. AgentTypes /\ RowInv /\ TaskInv /\ UseInv /\ TypeFacts
  BY TypesGiveFacts DEF AgentIInv
<1>2. RowTypes
  BY <1>1 DEF AgentTypes, AgentTypeOK, RowTypes
<1>3. UNCHANGED <<claims, token, turn, cancelEvent, sandboxVars, keyVars, ledgerVars, bridgeVars>>
      /\ UNCHANGED <<leaseExpired, cancelRequested, resuming, faults>>
  BY DEF Conclude, MarkTerminal, ContinuationUnavailable, Publish
<1>4. UNCHANGED <<place, owner, bridge>>
  BY <1>3 DEF sandboxVars, ledgerVars, bridgeVars
<1>5. PICK label \in Exits \cap Labels : pc[w] # "idle" /\ pc' = [pc EXCEPT ![w] = label]
  BY DEF Conclude, MarkTerminal, ContinuationUnavailable, Publish, Goto, Exits, Labels
<1>6. \/ UNCHANGED <<status, leaseOwner, continuation>>
      \/ Fenced(w) /\ status' = "ended" /\ leaseOwner' = None /\ continuation' = None
      \/ Publish(w)
  BY DEF Conclude, MarkTerminal, ContinuationUnavailable
<1>7. RowTypes'
  BY <1>1, <1>2, <1>3, <1>6 DEF RowTypes, Publish
<1>8. RowInv'
  BY <1>1, <1>2, <1>3, <1>4, <1>6 DEF RowInv, TypeFacts, AgentTypes, AgentTypeOK, Publish
<1>9. resuming' \in [Workers -> BOOLEAN]
  BY <1>1, <1>3 DEF AgentTypes, AgentTypeOK
<1>10. ASSUME NEW a \in Attempts, Uses(a), Uses(a)', Holds(a)
       PROVE  Holds(a)'
  <2>1. place[a] # None
    BY <1>1, <1>10, UsedIsOpened DEF TypeFacts
  <2>2. CASE UNCHANGED <<status, leaseOwner, continuation>>
    BY <1>4, <1>10, <2>2 DEF Holds
  <2>3. CASE status' = "ended" /\ continuation' = None
    BY <1>4, <2>1, <2>3 DEF Holds
  <2>4. CASE Publish(w)
    <3>1. a = token[w]
      BY <1>10, <2>4 DEF Publish, Fenced, Holds
    <3>2. ~Uses(token[w])'
      BY <1>1, <1>4, <1>5, <1>3, <2>4, OwnUseEnds DEF Publish, Steps
    <3>3. token' = token
      BY <1>3
    <3> QED
      BY <1>10, <3>1, <3>2, <3>3 DEF Uses
  <2> QED
    BY <1>6, <2>2, <2>3, <2>4
<1> QED
  BY <1>3, <1>5, <1>7, <1>8, <1>9, <1>10, RowMoveKeepsInvariant

LEMMA WaitKeepsInvariant ==
    ASSUME AgentIInv, NEW w \in Workers, WaitForUserInput(w)
    PROVE  AgentIInv'
<1>1. AgentTypes /\ RowInv /\ TaskInv /\ UseInv /\ PlaceInv /\ TypeFacts
  BY TypesGiveFacts DEF AgentIInv
<1>2. RowTypes /\ token[w] \in Attempts /\ place[token[w]] \in Attempts
  BY <1>1 DEF AgentTypes, AgentTypeOK, RowTypes, WaitForUserInput, TaskInv, TaskOf, Steps
<1>3. UNCHANGED <<claims, token, turn, cancelEvent, sandboxVars, keyVars, ledgerVars, bridgeVars>>
      /\ UNCHANGED <<leaseExpired, cancelRequested, resuming, faults>>
  BY DEF WaitForUserInput
<1>4. UNCHANGED <<place, owner, bridge>>
  BY <1>3 DEF sandboxVars, ledgerVars, bridgeVars
<1>5. pc[w] = "public" /\ pc' = [pc EXCEPT ![w] = "blocking"]
      /\ "blocking" \in Exits /\ "blocking" \in Labels
  BY DEF WaitForUserInput, Goto, Exits, Labels
<1>6. RowTypes'
  BY <1>2, <1>3 DEF RowTypes, WaitForUserInput
<1>7. RowInv'
  <2>1. continuation' = place[token[w]] /\ place[token[w]] # None
    BY <1>1, <1>2 DEF WaitForUserInput, TypeFacts
  <2>2. place[continuation'] # None
    BY <1>1, <1>2, <2>1 DEF PlaceInv
  <2>3. status' = "waiting_for_user" /\ leaseOwner' = None /\ claims' = claims
        /\ claims \in Nat /\ None = 0
    BY <1>1, <1>3 DEF WaitForUserInput, TypeFacts, AgentTypes, AgentTypeOK
  <2> QED
    BY <1>2, <1>4, <2>1, <2>2, <2>3 DEF RowInv
<1>8. resuming' \in [Workers -> BOOLEAN]
  BY <1>1, <1>3 DEF AgentTypes, AgentTypeOK
<1>9. ASSUME NEW a \in Attempts, Uses(a)', Holds(a)
      PROVE  FALSE
  <2>1. a = token[w]
    BY <1>9 DEF WaitForUserInput, Fenced, Holds
  <2>2. ~Uses(token[w])'
    BY <1>1, <1>4, <1>5, <1>3, OwnUseEnds DEF Steps
  <2>3. token' = token
    BY <1>3
  <2> QED
    BY <1>9, <2>1, <2>2, <2>3 DEF Uses
<1> QED
  BY <1>3, <1>5, <1>6, <1>7, <1>8, <1>9, RowMoveKeepsInvariant

LEMMA FinishKeepsInvariant ==
    ASSUME AgentIInv, NEW w \in Workers, FinishTurn(w)
    PROVE  AgentIInv'
<1>1. AgentTypes /\ RowInv /\ TaskInv /\ UseInv /\ PlaceInv /\ TypeFacts
  BY TypesGiveFacts DEF AgentIInv
<1>2. RowTypes
  BY <1>1 DEF AgentTypes, AgentTypeOK, RowTypes
<1>3. UNCHANGED <<claims, token, turn, cancelEvent, sandboxVars, keyVars, ledgerVars, bridgeVars>>
      /\ UNCHANGED <<leaseExpired, cancelRequested, faults, status, leaseOwner>>
      /\ continuation' \in {None, continuation}
  BY DEF FinishTurn
<1>4. place' = place
  BY <1>3 DEF sandboxVars
<1>5. PICK label \in {"ready", "failing"} : pc' = [pc EXCEPT ![w] = label]
  BY DEF FinishTurn, Goto
<1>6. label \in Labels /\ pc[w] # "idle" /\ (label \in Exits \/ <<pc[w], label>> \in Onward)
  BY <1>5 DEF FinishTurn, Exits, Labels, Onward
<1>7. RowTypes'
  BY <1>2, <1>3 DEF RowTypes
<1>8. RowInv'
  BY <1>1, <1>3, <1>4 DEF RowInv, TypeFacts, FinishTurn, Fenced
<1>9. resuming' \in [Workers -> BOOLEAN]
  BY <1>1 DEF AgentTypes, AgentTypeOK, FinishTurn
<1>10. ASSUME NEW a \in Attempts, Uses(a), Holds(a)
       PROVE  Holds(a)'
  BY <1>3, <1>10 DEF Holds, FinishTurn, Fenced
<1> QED
  BY <1>3, <1>5, <1>6, <1>7, <1>8, <1>9, <1>10, RowMoveKeepsInvariant

-----------------------------------------------------------------------------
(* Steps that only end something: a task, a bridge, a sandbox, a key.      *)

TasksEnd ==
    /\ pc' \in [Workers -> Labels]
    /\ token' \in [Workers -> Attempts \cup {None}] /\ turn' \in [Workers -> Turns \cup {None}]
    /\ resuming' \in [Workers -> BOOLEAN]
    /\ cancelEvent' \in [Workers -> {"clear", "set", "stuck"}]
    /\ \A w \in Workers :
          \/ pc'[w] = pc[w] /\ token'[w] = token[w] /\ turn'[w] = turn[w]
          \/ pc[w] # "idle" /\ pc'[w] \in Exits /\ token'[w] = token[w] /\ turn'[w] = turn[w]
          \/ pc'[w] = "idle" /\ token'[w] = None /\ turn'[w] = None

KeysEnd ==
    /\ key' \in [Attempts -> {"none", "live", "dead"}]
    /\ \A a \in Attempts : key'[a] = key[a] \/ (key[a] = "live" /\ key'[a] = "dead")

BridgesEnd ==
    /\ bridge' \in [Turns -> {"none", "up", "done", "dead"}]
    /\ \A t \in Turns : bridge'[t] = bridge[t] \/ (bridge[t] = "up" /\ bridge'[t] = "dead")
    /\ alive' \subseteq alive
    /\ \A t \in Turns : bridge'[t] = "up" /\ place[owner[t]] \in alive => place[owner[t]] \in alive'

LEMMA EndKeepsInvariant ==
    ASSUME AgentIInv, TasksEnd, KeysEnd, BridgesEnd, faults' \in 0 .. MaxFaults,
           UNCHANGED <<runVars, place, credit, ledgerVars, stream, spent, initial, final>>
    PROVE  AgentIInv'
<1>1. AgentTypes /\ RowInv /\ PlaceInv /\ TaskInv /\ TurnInv /\ UseInv /\ MoneyInv
  BY DEF AgentIInv
<1>2. /\ UNCHANGED <<status, leaseOwner, leaseExpired, cancelRequested, continuation, claims>>
      /\ UNCHANGED <<place, credit, turns, owner, entry, cost, blind, stream, spent>>
      /\ UNCHANGED <<initial, final>>
  BY DEF runVars, ledgerVars
<1>3. AgentTypes'
  BY <1>1, <1>2 DEF AgentTypes, AgentTypeOK, TasksEnd, KeysEnd, BridgesEnd
<1>4. RowInv' /\ PlaceInv'
  BY <1>1, <1>2, RowKept, PlaceKept DEF KeysEnd, BridgesEnd
<1>5. TaskInv'
  <2>1. ASSUME NEW w \in Workers PROVE TaskOf(w)'
    <3>1. TaskOf(w) /\ TypeFacts
      BY <1>1, TypesGiveFacts DEF TaskInv
    <3>2. claims \in Nat /\ claims' = claims /\ (turn[w] # None => turn[w] \in Turns)
      BY <1>1, <1>2 DEF AgentTypes, AgentTypeOK
    <3>3. \A t \in Turns : /\ bridge'[t] = "up" => bridge[t] = "up"
                           /\ bridge[t] = "none" => bridge'[t] = "none"
                           /\ bridge[t] # "none" => bridge'[t] # "none"
                           /\ bridge[t] = "done" => bridge'[t] = "done"
      BY DEF BridgesEnd
    <3>4. token[w] # None => token[w] \in Attempts
      BY <1>1 DEF AgentTypes, AgentTypeOK
    <3>5. \A a \in Attempts : key[a] = "none" => key'[a] = "none"
      BY DEF KeysEnd
    <3>6. pc[w] \in Steps \cup {"claimed"} => pc[w] # "idle"
      BY DEF Steps
    <3>7. CASE pc'[w] = pc[w] /\ token'[w] = token[w] /\ turn'[w] = turn[w]
      BY <1>2, <3>1, <3>2, <3>3, <3>4, <3>5, <3>6, <3>7 DEF TaskOf
    <3>8. CASE pc[w] # "idle" /\ pc'[w] \in Exits /\ token'[w] = token[w] /\ turn'[w] = turn[w]
      BY <1>2, <3>1, <3>2, <3>8 DEF TaskOf, Exits, Steps
    <3>9. CASE pc'[w] = "idle" /\ token'[w] = None /\ turn'[w] = None
      BY <3>1, <3>2, <3>9 DEF TaskOf, Steps, TypeFacts
    <3> QED
      BY <3>7, <3>8, <3>9 DEF TasksEnd
  <2>2. ASSUME NEW v \in Workers, NEW w \in Workers, token'[v] = token'[w], token'[v] # None
        PROVE  v = w
    BY <1>1, <2>2 DEF TasksEnd, TaskInv
  <2> QED
    BY <2>1, <2>2 DEF TaskInv
<1>6. TurnInv'
  BY <1>1, <1>2 DEF TurnInv, TurnOf, SettledIsCharged, BridgesEnd
<1>7. NoNewUse
  BY <1>1, <1>2 DEF NoNewUse, TasksEnd, BridgesEnd, Exits, Steps
<1>8. UseInv'
  BY <1>1, <1>2, <1>7, UseKept DEF Holds
<1>9. MoneyInv'
  BY <1>1, <1>2, <1>7, MoneyKept DEF NoNewMoney, KeysEnd
<1> QED
  BY <1>3, <1>4, <1>5, <1>6, <1>8, <1>9 DEF AgentIInv

LEMMA NothingEnds ==
    ASSUME AgentTypes
    PROVE  /\ UNCHANGED <<pc, token, turn, resuming, cancelEvent>> => TasksEnd
           /\ UNCHANGED key => KeysEnd
           /\ UNCHANGED <<bridge, alive>> => BridgesEnd
BY DEF AgentTypes, AgentTypeOK, TasksEnd, KeysEnd, BridgesEnd

LEMMA OneTaskEnds ==
    ASSUME AgentTypes, NEW w \in Workers, LeaveTask(w)
    PROVE  TasksEnd
BY DEF AgentTypes, AgentTypeOK, TasksEnd, LeaveTask, Goto, Labels

LEMMA OneTaskExits ==
    ASSUME AgentTypes, NEW w \in Workers, pc[w] # "idle", NEW label \in Exits, Goto(w, label),
           UNCHANGED <<token, turn, resuming, cancelEvent>>
    PROVE  TasksEnd
BY DEF AgentTypes, AgentTypeOK, TasksEnd, Goto, Labels, Exits

(* Killing a sandbox ends the bridges in it, which are those that need it. *)
LEMMA KillEnds ==
    ASSUME AgentTypes, NEW s, alive' = alive \ {s}, bridge' = BridgesWithout(s)
    PROVE  BridgesEnd
BY DEF AgentTypes, AgentTypeOK, BridgesEnd, BridgesWithout

Ending(w) ==
    \/ Watch(w) \/ Interrupt(w) \/ CommandTimesOut(w) \/ Discard(w) \/ HeartbeatStrikes(w)
    \/ Escape(w) \/ BlockKey(w) \/ Crash(w)

LEMMA EndingKeepsInvariant ==
    ASSUME AgentIInv, NEW w \in Workers, Ending(w)
    PROVE  AgentIInv'
<1>1. AgentTypes /\ TaskInv /\ TypeFacts
  BY TypesGiveFacts DEF AgentIInv
<1>2. faults' \in 0 .. MaxFaults
  <2>1. faults' = faults \/ Fault
    BY DEF Ending, Watch, Interrupt, CommandTimesOut, Discard, HeartbeatStrikes, Escape,
           BlockKey, Crash, taskVars
  <2> QED
    BY <1>1, <2>1 DEF Fault, TypeFacts, AgentTypes, AgentTypeOK
<1>3. UNCHANGED <<runVars, place, credit, ledgerVars, stream, spent, initial, final>>
  BY DEF Ending, Watch, Interrupt, CommandTimesOut, Discard, HeartbeatStrikes, Escape,
         BlockKey, Crash, sandboxVars, keyVars, bridgeVars
<1>4. TasksEnd
  <2>1. CASE Watch(w)
    BY <1>1, <2>1 DEF Watch, TasksEnd, AgentTypes, AgentTypeOK
  <2>2. CASE Interrupt(w)
    BY <1>1, <2>2 DEF Interrupt, TasksEnd, AgentTypes, AgentTypeOK
  <2>3. CASE CommandTimesOut(w)
    BY <1>1, <2>3, NothingEnds DEF CommandTimesOut, taskVars
  <2>4. CASE Discard(w)
    BY <1>1, <2>4, OneTaskExits DEF Discard, Exits
  <2>5. CASE HeartbeatStrikes(w)
    BY <1>1, <2>5, OneTaskExits, OneTaskEnds DEF HeartbeatStrikes, Exits
  <2>6. CASE Escape(w)
    <3>1. turn[w] = None
      BY <1>1, <2>6 DEF Escape, TaskInv, TaskOf, AgentTypes, AgentTypeOK
    <3> QED
      BY <1>1, <2>6, <3>1 DEF Escape, TasksEnd, Goto, Labels, AgentTypes, AgentTypeOK
  <2>7. CASE BlockKey(w) \/ Crash(w)
    BY <1>1, <2>7, OneTaskEnds DEF BlockKey, Crash
  <2> QED
    BY <2>1, <2>2, <2>3, <2>4, <2>5, <2>6, <2>7 DEF Ending
<1>5. KeysEnd
  <2>1. CASE BlockKey(w)
    BY <1>1, <2>1 DEF BlockKey, KeysEnd, AgentTypes, AgentTypeOK
  <2>2. CASE ~BlockKey(w)
    <3>1. key' = key
      BY <2>2 DEF Ending, Watch, Interrupt, CommandTimesOut, Discard, HeartbeatStrikes,
                  Escape, Crash, keyVars
    <3> QED
      BY <1>1, <3>1, NothingEnds
  <2> QED
    BY <2>1, <2>2
<1>6. BridgesEnd
  <2>1. CASE Interrupt(w) \/ CommandTimesOut(w)
    BY <1>1, <2>1 DEF Interrupt, CommandTimesOut, sandboxVars, BridgesEnd, AgentTypes, AgentTypeOK
  <2>2. CASE HeartbeatStrikes(w)
    BY <1>1, <2>2 DEF HeartbeatStrikes, sandboxVars, BridgesEnd, AgentTypes, AgentTypeOK
  <2>3. CASE Discard(w)
    BY <1>1, <2>3, KillEnds, NothingEnds DEF Discard
  <2>4. CASE Watch(w) \/ Escape(w) \/ BlockKey(w) \/ Crash(w)
    <3>1. UNCHANGED <<bridge, alive>>
      BY <2>4 DEF Watch, Escape, BlockKey, Crash, bridgeVars, sandboxVars
    <3> QED
      BY <1>1, <3>1, NothingEnds
  <2> QED
    BY <2>1, <2>2, <2>3, <2>4 DEF Ending
<1> QED
  BY <1>2, <1>3, <1>4, <1>5, <1>6, EndKeepsInvariant

LEMMA SweepKeepsInvariant ==
    ASSUME AgentIInv, NEW a \in Attempts, Sweep(a) \/ KeyExpires(a)
    PROVE  AgentIInv'
<1>1. AgentTypes
  BY DEF AgentIInv
<1>2. TasksEnd
  BY <1>1, NothingEnds DEF Sweep, KeyExpires, taskVars
<1>3. faults' \in 0 .. MaxFaults
  BY <1>1 DEF Sweep, KeyExpires, AgentTypes, AgentTypeOK
<1>4. KeysEnd
  BY <1>1 DEF Sweep, KeyExpires, keyVars, KeysEnd, AgentTypes, AgentTypeOK
<1>5. BridgesEnd
  BY <1>1, KillEnds, NothingEnds DEF Sweep, KeyExpires, bridgeVars, sandboxVars
<1>6. UNCHANGED <<runVars, place, credit, ledgerVars, stream, spent, initial, final>>
  BY DEF Sweep, KeyExpires, keyVars, sandboxVars, bridgeVars
<1> QED
  BY <1>2, <1>3, <1>4, <1>5, <1>6, EndKeepsInvariant

-----------------------------------------------------------------------------
(* A worker takes the run, opens a workspace, buys a key.                  *)

(* A claim finds no sandbox in use: the ones that are alive are those the  *)
(* run continues in.                                                       *)
LEMMA ClaimKeepsInvariant ==
    ASSUME AgentIInv, NEW w \in Workers, Claim(w)
    PROVE  AgentIInv'
<1>1. AgentTypes /\ RowInv /\ PlaceInv /\ TaskInv /\ TurnInv /\ UseInv /\ MoneyInv /\ TypeFacts
  BY TypesGiveFacts DEF AgentIInv
<1>2. /\ UNCHANGED <<cancelRequested, continuation, turn, cancelEvent, place, alive, key, credit>>
      /\ UNCHANGED <<turns, owner, entry, cost, blind, bridge, stream, spent, initial, final, faults>>
  BY DEF Claim, sandboxVars, keyVars, ledgerVars, bridgeVars
<1> DEFINE n == claims + 1
<1>3. /\ n \in Attempts /\ claims \in Nat /\ claims' = n /\ leaseOwner' = n /\ status' = "running"
      /\ leaseExpired' = FALSE /\ status = "queued" /\ pc[w] = "idle"
  BY <1>1 DEF Claim, AgentTypes, AgentTypeOK, TypeFacts, Attempts
<1>4. /\ token' = [token EXCEPT ![w] = n] /\ pc' = [pc EXCEPT ![w] = "claimed"]
      /\ resuming' \in [Workers -> BOOLEAN]
  BY <1>1, <1>3 DEF Claim, Goto, AgentTypes, AgentTypeOK
<1> HIDE DEF n
<1>5. AgentTypes'
  <2>1. token' \in [Workers -> Attempts \cup {None}] /\ pc' \in [Workers -> Labels]
    BY <1>1, <1>3, <1>4 DEF AgentTypes, AgentTypeOK, Labels
  <2>2. n \in 0 .. MaxAttempts
    BY <1>1, <1>3 DEF TypeFacts, Attempts
  <2> QED
    BY <1>1, <1>2, <1>3, <1>4, <2>1, <2>2 DEF AgentTypes, AgentTypeOK
<1>6. RowInv'
  BY <1>1, <1>2, <1>3 DEF RowInv, TypeFacts, n
<1>7. PlaceInv'
  BY <1>1, <1>2, <1>3 DEF PlaceInv, TypeFacts, n
<1>8. /\ \A t \in Turns : owner[t] # n
      /\ place[n] = None /\ key[n] = "none"
      /\ \A v \in Workers : token[v] # n
      /\ turn[w] = None
  <2>1. \A t \in Turns : t \in Nat /\ turns \in Nat /\ owner[t] \in Nat
    BY <1>1, Numbers
  <2>2. \A t \in Turns : owner[t] <= claims
    BY <1>1, <1>3, <2>1 DEF TurnInv, TurnOf, TypeFacts
  <2>3. n > claims
    BY <1>3 DEF n
  <2>4. place[n] = None /\ key[n] = "none"
    BY <1>1, <1>3, <2>3 DEF PlaceInv
  <2>5. \A v \in Workers : token[v] \in Nat /\ token[v] <= claims
    BY <1>1, Numbers DEF TaskInv, TaskOf
  <2>6. turn[w] = None
    <3>1. token[w] = None /\ (turn[w] # None => turn[w] \in Turns)
      BY <1>1, <1>3, Numbers DEF TaskInv, TaskOf
    <3> QED
      BY <1>1, <3>1 DEF TaskInv, TaskOf, TurnInv, TurnOf
  <2> QED
    BY <1>3, <2>1, <2>2, <2>3, <2>4, <2>5, <2>6
<1>9. TaskInv'
  <2>1. pc'[w] = "claimed" /\ token'[w] = n
        /\ \A v \in Workers \ {w} : pc'[v] = pc[v] /\ token'[v] = token[v]
    BY <1>1, <1>4 DEF AgentTypes, AgentTypeOK
  <2>2. ASSUME NEW v \in Workers, v # w PROVE TaskOf(v)'
    <3>1. token[v] <= claims'
      BY <1>1, <1>3, Numbers DEF TaskInv, TaskOf, n
    <3> QED
      BY <1>1, <1>2, <2>1, <2>2, <3>1 DEF TaskInv, TaskOf
  <2>3. TaskOf(w)'
    BY <1>1, <1>2, <1>3, <1>8, <2>1 DEF TaskOf, Steps, TypeFacts, n
  <2> QED
    BY <1>1, <1>8, <2>1, <2>2, <2>3 DEF TaskInv
<1>10. TurnInv'
  <2>1. \A t \in Turns : owner[t] <= claims => owner[t] <= claims'
    BY <1>1, <1>3, Numbers DEF n
  <2> QED
    BY <1>1, <1>2, <2>1 DEF TurnInv, TurnOf, SettledIsCharged
<1>11. NoNewUse
  BY <1>1, <1>2, <1>4 DEF NoNewUse, Steps, AgentTypes, AgentTypeOK
<1>12. \A a \in Attempts : ~(Uses(a) /\ Holds(a))
  BY <1>3 DEF Claim, Uses, Holds
<1>13. UseInv' /\ MoneyInv'
  BY <1>1, <1>2, <1>11, <1>12, UseKept, MoneyKept DEF NoNewMoney
<1> QED
  BY <1>5, <1>6, <1>7, <1>9, <1>10, <1>13 DEF AgentIInv

(* The sandbox of a new attempt is new, or the one the run continues in.   *)
LEMMA OpenKeepsInvariant ==
    ASSUME AgentIInv, NEW w \in Workers, OpenWorkspace(w)
    PROVE  AgentIInv'
<1>1. AgentTypes /\ RowInv /\ PlaceInv /\ TaskInv /\ TurnInv /\ UseInv /\ MoneyInv /\ TypeFacts
  BY TypesGiveFacts DEF AgentIInv
<1>2. /\ UNCHANGED <<status, leaseOwner, leaseExpired, cancelRequested, continuation, claims>>
      /\ UNCHANGED <<token, turn, resuming, cancelEvent, key, credit, faults>>
      /\ UNCHANGED <<turns, owner, entry, cost, blind, bridge, stream, spent, initial, final>>
  BY DEF OpenWorkspace, runVars, keyVars, ledgerVars, bridgeVars
<1>3. PICK a0 \in Attempts : a0 = token[w]
  BY <1>1, Numbers DEF OpenWorkspace, TaskInv, TaskOf
<1> DEFINE s == IF continuation = None THEN token[w] ELSE continuation
<1>4. /\ a0 \in Attempts /\ s \in Attempts /\ place[a0] = None /\ pc[w] = "claimed"
      /\ status = "running" /\ leaseOwner = a0 /\ a0 <= claims /\ key[a0] = "none"
      /\ \A t \in Turns : owner[t] # a0
      /\ \A v \in Workers : token[v] = a0 => v = w
  BY <1>1, <1>3 DEF OpenWorkspace, Fenced, TaskInv, TaskOf, TypeFacts, AgentTypes, AgentTypeOK
<1>5. /\ place' = [place EXCEPT ![a0] = s] /\ alive' \subseteq alive \cup {a0}
      /\ alive \subseteq alive' /\ (s = a0 \/ (s = continuation /\ alive' = alive))
  BY <1>3 DEF OpenWorkspace
<1>6. PICK label \in {"opened", "failing"} : pc' = [pc EXCEPT ![w] = label]
  BY DEF OpenWorkspace, Goto
<1> HIDE DEF s
<1>7. place'[a0] = s /\ s # None /\ \A a \in Attempts \ {a0} : place'[a] = place[a]
  BY <1>1, <1>4, <1>5 DEF TypeFacts, AgentTypes, AgentTypeOK
<1>8. \A t \in Turns : owner[t] # None => place'[owner[t]] = place[owner[t]]
  BY <1>1, <1>4, <1>7 DEF AgentTypes, AgentTypeOK
<1>9. AgentTypes'
  <2>1. place' \in [Attempts -> Attempts \cup {None}] /\ alive' \subseteq Attempts
        /\ pc' \in [Workers -> Labels]
    BY <1>1, <1>4, <1>5, <1>6 DEF AgentTypes, AgentTypeOK, Labels
  <2> QED
    BY <1>1, <1>2, <2>1 DEF AgentTypes, AgentTypeOK
<1>10. RowInv'
  <2>1. continuation \in Attempts => place'[continuation] # None
    BY <1>1, <1>7 DEF RowInv
  <2> QED
    BY <1>1, <1>2, <2>1 DEF RowInv
<1>11. PlaceInv'
  <2>1. \A a \in Attempts : a > claims => place'[a] = None
    BY <1>1, <1>4, <1>7 DEF PlaceInv, TypeFacts, AgentTypes, AgentTypeOK
  <2>2. place'[s] # None
    BY <1>1, <1>4, <1>5, <1>7 DEF RowInv
  <2>3. \A a \in Attempts : place'[a] # None => place'[place'[a]] # None
    BY <1>1, <1>4, <1>7, <2>2 DEF PlaceInv, AgentTypes, AgentTypeOK
  <2>4. \A x \in alive' : place'[x] # None
    BY <1>1, <1>5, <1>7 DEF PlaceInv, AgentTypes, AgentTypeOK
  <2> QED
    BY <1>1, <1>2, <2>1, <2>3, <2>4 DEF PlaceInv
<1>12. pc'[w] = label /\ \A v \in Workers \ {w} : pc'[v] = pc[v]
  BY <1>1, <1>6 DEF AgentTypes, AgentTypeOK
<1>13. TaskInv'
  <2>1. ASSUME NEW v \in Workers, v # w PROVE TaskOf(v)'
    <3>1. TaskOf(v)
      BY <1>1 DEF TaskInv
    <3>2. token[v] # None => token[v] \in Attempts \ {a0}
      BY <1>1, <1>4, <2>1 DEF AgentTypes, AgentTypeOK
    <3>3. pc[v] \in Steps \cup {"claimed"} => token[v] # None
      BY <3>1 DEF TaskOf, Steps
    <3> QED
      BY <1>2, <1>7, <1>12, <2>1, <3>1, <3>2, <3>3 DEF TaskOf
  <2>2. TaskOf(w)'
    <3>1. TaskOf(w) /\ token[w] = a0 /\ pc[w] = "claimed"
      BY <1>1, <1>3, <1>4 DEF TaskInv
    <3>2. a0 # None
      BY <1>1, <1>4 DEF TypeFacts
    <3> QED
      BY <1>2, <1>4, <1>6, <1>7, <1>12, <3>1, <3>2 DEF TaskOf, Steps
  <2> QED
    BY <1>1, <1>2, <2>1, <2>2 DEF TaskInv
<1>14. TurnInv'
  <2>1. ASSUME NEW x PROVE Session(spent, owner, place', x) = Session(spent, owner, place, x)
    <3>1. {t \in Turns : owner[t] # None /\ place'[owner[t]] = x} =
              {t \in Turns : owner[t] # None /\ place[owner[t]] = x}
      BY <1>8
    <3> QED
      BY <3>1 DEF Session
  <2>2. ASSUME NEW t \in Turns PROVE TurnOf(t)'
    <3>1. TurnOf(t)
      BY <1>1 DEF TurnInv
    <3>2. owner[t] # None => place'[owner[t]] = place[owner[t]]
      BY <1>8
    <3>3. bridge[t] = "up" => owner[t] # None
      BY <1>1, <3>1 DEF TurnOf, TypeFacts, AgentTypes, AgentTypeOK
    <3>4. t <= turns => owner[t] # None
      BY <3>1 DEF TurnOf
    <3>5. bridge[t] = "up" => Session(spent, owner, place', place'[owner[t]])
                                  = Session(spent, owner, place, place[owner[t]])
      BY <2>1, <3>2, <3>3
    <3> QED
      BY <1>2, <1>5, <3>1, <3>2, <3>3, <3>4, <3>5 DEF TurnOf
  <2> QED
    BY <1>1, <1>2, <2>2 DEF TurnInv, SettledIsCharged
<1>15. ASSUME NEW a \in Attempts, Uses(a)' PROVE a = a0
  <2> SUFFICES ASSUME a # a0 PROVE FALSE
    OBVIOUS
  <2>1. place[a] \in alive' /\ place[a] # None
    BY <1>1, <1>7, <1>15, <1>9 DEF Uses, AgentTypes, AgentTypeOK, TypeFacts
  <2>2. place[a] # a0
    BY <1>1, <1>4, <2>1 DEF PlaceInv
  <2>3. place[a] \in alive
    BY <1>5, <2>1, <2>2
  <2>4. Uses(a)
    BY <1>2, <1>3, <1>4, <1>12, <1>15, <2>3 DEF Uses
  <2> QED
    BY <1>1, <1>4, <2>4 DEF UseInv, Holds
<1>16. UseInv'
  <2>1. Holds(a0)'
    BY <1>2, <1>4 DEF Holds
  <2>2. OneBridge'
    BY <1>1, <1>2 DEF UseInv, OneBridge
  <2>3. \A a \in Attempts : Uses(a)' => Holds(a)'
    BY <1>15, <2>1
  <2>4. \A a, b \in Attempts : Uses(a)' /\ Uses(b)' => a = b
    BY <1>15
  <2> QED
    BY <2>2, <2>3, <2>4 DEF UseInv
<1>17. MoneyInv'
  BY <1>1, <1>2, <1>4, <1>15 DEF MoneyInv
<1> QED
  BY <1>9, <1>10, <1>11, <1>13, <1>14, <1>16, <1>17 DEF AgentIInv

(* The key is bought for what the ledger leaves, which is what the turns   *)
(* before have left if the ledger knows them all.                          *)
LEMMA IssueKeepsInvariant ==
    ASSUME AgentIInv, NEW w \in Workers, IssueKey(w)
    PROVE  AgentIInv'
<1>1. AgentTypes /\ RowInv /\ PlaceInv /\ TaskInv /\ TurnInv /\ UseInv /\ MoneyInv /\ TypeFacts
  BY TypesGiveFacts DEF AgentIInv
<1>2. /\ UNCHANGED <<status, leaseOwner, leaseExpired, cancelRequested, continuation, claims>>
      /\ UNCHANGED <<token, turn, resuming, cancelEvent, place, alive, faults>>
      /\ UNCHANGED <<turns, owner, entry, cost, bridge, stream, spent, initial, final>>
  BY DEF IssueKey, runVars, sandboxVars, bridgeVars
<1>3. PICK a0 \in Attempts : a0 = token[w]
  BY <1>1, Numbers DEF IssueKey, TaskInv, TaskOf
<1>4. /\ pc[w] = "admitted" /\ a0 <= claims /\ key[a0] = "none" /\ \A t \in Turns : owner[t] # a0
      /\ \A v \in Workers : token[v] = a0 => v = w
  BY <1>1, <1>3 DEF IssueKey, TaskInv, TaskOf, TypeFacts
<1>5. PICK label \in {"ready", "failing"} : pc' = [pc EXCEPT ![w] = label]
  BY DEF IssueKey, Goto
<1>6. pc'[w] = label /\ \A v \in Workers \ {w} : pc'[v] = pc[v]
  BY <1>1, <1>5 DEF AgentTypes, AgentTypeOK
<1>7. \/ UNCHANGED <<key, credit, blind>> /\ label = "failing"
      \/ /\ RemainingSpendBudget > 0
         /\ key' = [key EXCEPT ![a0] = "live"]
         /\ credit' = [credit EXCEPT ![a0] = RemainingSpendBudget]
         /\ blind' = (blind \/ \E t \in Turns : entry[t] = "reserved")
  <2>1. RemainingSpendBudget \in Int
    BY <1>1, LedgerTotals, Numbers DEF RemainingSpendBudget
  <2>2. CASE RemainingSpendBudget <= 0
    <3>1. Goto(w, "failing") /\ UNCHANGED <<key, credit, blind>>
      BY <2>2 DEF IssueKey
    <3>2. label = "failing"
      BY <1>1, <1>6, <3>1 DEF Goto, AgentTypes, AgentTypeOK
    <3> QED
      BY <3>1, <3>2
  <2>3. CASE ~(RemainingSpendBudget <= 0)
    BY <1>3, <2>1, <2>3 DEF IssueKey
  <2> QED
    BY <2>2, <2>3
<1>8. RemainingSpendBudget > 0 => RemainingSpendBudget \in 0 .. MaxSpend
  BY <1>1, LedgerTotals, Numbers DEF RemainingSpendBudget
<1>9. AgentTypes'
  <2>1. pc' \in [Workers -> Labels] /\ key' \in [Attempts -> {"none", "live", "dead"}]
        /\ credit' \in [Attempts -> 0 .. MaxSpend]
    BY <1>1, <1>5, <1>7, <1>8 DEF AgentTypes, AgentTypeOK, Labels
  <2>2. blind' \in BOOLEAN
    BY <1>1, <1>7 DEF AgentTypes, AgentTypeOK
  <2> QED
    BY <1>1, <1>2, <2>1, <2>2 DEF AgentTypes, AgentTypeOK
<1>10. \A a \in Attempts \ {a0} : key'[a] = key[a] /\ credit'[a] = credit[a]
  BY <1>1, <1>7 DEF AgentTypes, AgentTypeOK
<1>11. RowInv'
  BY <1>1, <1>2, RowKept
<1>12. PlaceInv'
  <2>1. \A a \in Attempts : a > claims => key'[a] = "none"
    BY <1>1, <1>4, <1>10, Numbers DEF PlaceInv
  <2> QED
    BY <1>1, <1>2, <2>1 DEF PlaceInv
<1>13. TaskInv'
  <2>1. ASSUME NEW v \in Workers, v # w PROVE TaskOf(v)'
    <3>1. TaskOf(v) /\ token[v] # a0 /\ (token[v] # None => token[v] \in Attempts)
      BY <1>1, <1>4, <2>1, Numbers DEF TaskInv
    <3>2. token[v] # None => key'[token[v]] = key[token[v]]
      BY <1>10, <3>1
    <3>3. pc[v] \in Steps \cup {"claimed"} => token[v] # None
      BY <3>1 DEF TaskOf, Steps
    <3>4. pc[v] \in {"claimed", "opened", "admitted"} => key'[token[v]] = "none"
      BY <3>1, <3>2, <3>3 DEF TaskOf, Steps
    <3> QED
      BY <1>2, <1>6, <2>1, <3>1, <3>4 DEF TaskOf
  <2>2. TaskOf(w)'
    <3>1. TaskOf(w) /\ a0 # None
      BY <1>1, Numbers DEF TaskInv
    <3> QED
      BY <1>2, <1>3, <1>4, <1>5, <1>6, <3>1 DEF TaskOf, Steps
  <2> QED
    BY <1>1, <1>2, <2>1, <2>2 DEF TaskInv
<1>14. TurnInv'
  <2>1. ASSUME NEW t \in Turns PROVE TurnOf(t)'
    <3>1. TurnOf(t)
      BY <1>1 DEF TurnInv
    <3>2. owner[t] # None => credit'[owner[t]] = credit[owner[t]]
      BY <1>1, <1>4, <1>10, Numbers
    <3> QED
      BY <1>2, <3>1, <3>2 DEF TurnOf
  <2> QED
    BY <1>1, <1>2, <2>1 DEF TurnInv, SettledIsCharged
<1>15. NoNewUse
  BY <1>2, <1>4, <1>6 DEF NoNewUse, Steps
<1>16. UseInv'
  BY <1>1, <1>2, <1>15, UseKept DEF Holds
<1>17. MoneyInv'
  <2>1. CASE UNCHANGED <<key, credit, blind>>
    BY <1>1, <1>2, <1>15, <2>1, MoneyKept DEF NoNewMoney
  <2>2. CASE /\ credit' = [credit EXCEPT ![a0] = RemainingSpendBudget]
             /\ blind' = (blind \/ \E t \in Turns : entry[t] = "reserved")
    <3> SUFFICES ASSUME ~blind' PROVE MoneyInv'
      BY DEF MoneyInv
    <3>1. ~blind /\ \A t \in Turns : entry[t] # "reserved"
      BY <2>2
    <3>2. RemainingSpendBudget = MaxSpend - SumOver(spent, Turns)
      BY <1>1, <3>1, LedgerTotals DEF RemainingSpendBudget
    <3>3. credit'[a0] = MaxSpend - SumOver(spent, Turns)
      BY <1>1, <2>2, <3>2 DEF AgentTypes, AgentTypeOK
    <3>4. SumOver(spent, Turns) \in Nat /\ MaxSpend \in Nat
      BY <1>1, SessionIsNat, Numbers
    <3>5. SumOver(spent, Turns) + credit'[a0] <= MaxSpend
      BY <3>3, <3>4
    <3>6. ASSUME NEW a \in Attempts \ {a0}, Uses(a)', key'[a] = "live"
          PROVE  SumOver(spent, Turns) + credit'[a] <= MaxSpend
      BY <1>1, <1>10, <1>15, <3>1, <3>6, UsesShrink DEF MoneyInv
    <3>7. SumOver(spent, Turns) <= MaxSpend
      BY <1>1, <3>1 DEF MoneyInv
    <3> QED
      BY <1>2, <3>5, <3>6, <3>7 DEF MoneyInv
  <2> QED
    BY <1>7, <2>1, <2>2
<1> QED
  BY <1>9, <1>11, <1>12, <1>13, <1>14, <1>16, <1>17 DEF AgentIInv

-----------------------------------------------------------------------------
(* A turn: reserved, launched, charged, reported, settled.                 *)

LEMMA ReserveKeepsInvariant ==
    ASSUME AgentIInv, NEW w \in Workers, ReserveUsageEntry(w)
    PROVE  AgentIInv'
<1>1. AgentTypes /\ RowInv /\ PlaceInv /\ TaskInv /\ TurnInv /\ UseInv /\ MoneyInv /\ TypeFacts
  BY TypesGiveFacts DEF AgentIInv
<1>2. /\ UNCHANGED <<status, leaseOwner, leaseExpired, cancelRequested, continuation, claims>>
      /\ UNCHANGED <<token, resuming, cancelEvent, place, alive, key, credit, faults>>
      /\ UNCHANGED <<cost, blind, bridge, stream, spent, initial, final>>
  BY DEF ReserveUsageEntry, runVars, sandboxVars, keyVars, bridgeVars
<1>3. PICK a0 \in Attempts : a0 = token[w]
  BY <1>1, Numbers DEF ReserveUsageEntry, TaskInv, TaskOf
<1>4. turns + 1 \in Turns /\ turns + 1 \in 0 .. MaxTurns
  BY <1>1 DEF ReserveUsageEntry, TypeFacts, AgentTypes, AgentTypeOK, Turns
<1>5. PICK n \in Turns : n = turns + 1
  BY <1>4
<1>6. /\ turns' = n /\ turn' = [turn EXCEPT ![w] = n] /\ owner' = [owner EXCEPT ![n] = a0]
      /\ entry' = [entry EXCEPT ![n] = "reserved"] /\ pc' = [pc EXCEPT ![w] = "reserved"]
      /\ pc[w] = "funded"
  BY <1>3, <1>5 DEF ReserveUsageEntry, Goto
<1>7. /\ pc'[w] = "reserved" /\ turn'[w] = n
      /\ \A v \in Workers \ {w} : pc'[v] = pc[v] /\ turn'[v] = turn[v]
      /\ owner'[n] = a0 /\ entry'[n] = "reserved"
      /\ \A t \in Turns \ {n} : owner'[t] = owner[t] /\ entry'[t] = entry[t]
  BY <1>1, <1>6 DEF AgentTypes, AgentTypeOK
<1>8. /\ owner[n] = None /\ bridge[n] = "none" /\ spent[n] = 0 /\ stream[n] = "waiting"
      /\ turns \in Nat /\ n > turns
  BY <1>1, <1>5, Numbers DEF TurnInv, TurnOf
<1>9. a0 # None /\ a0 <= claims /\ place[a0] # None
      /\ \A v \in Workers : token[v] = a0 => v = w
  BY <1>1, <1>3, <1>6, Numbers DEF TaskInv, TaskOf, Steps
<1>10. AgentTypes'
  <2>1. turns' \in 0 .. MaxTurns /\ turn' \in [Workers -> Turns \cup {None}]
        /\ owner' \in [Turns -> Attempts \cup {None}]
        /\ entry' \in [Turns -> {"none", "reserved", "settled"}] /\ pc' \in [Workers -> Labels]
    BY <1>1, <1>4, <1>5, <1>6 DEF AgentTypes, AgentTypeOK, Labels
  <2> QED
    BY <1>1, <1>2, <2>1 DEF AgentTypes, AgentTypeOK
<1>11. RowInv' /\ PlaceInv'
  BY <1>1, <1>2, RowKept, PlaceKept
<1>12. TaskInv'
  <2>1. ASSUME NEW v \in Workers, v # w PROVE TaskOf(v)'
    <3>1. TaskOf(v) /\ token[v] # a0 /\ (turn[v] # None => turn[v] \in Turns)
          /\ turn[v] \in Nat
      BY <1>1, <1>9, <2>1, Numbers DEF TaskInv
    <3>2. turn[v] # None => turn[v] \in Turns \ {n} /\ turn[v] <= turns'
      BY <1>5, <1>6, <1>8, <3>1 DEF TaskOf
    <3> QED
      BY <1>2, <1>7, <1>8, <2>1, <3>1, <3>2 DEF TaskOf
  <2>2. TaskOf(w)'
    <3>1. TaskOf(w) /\ n # None
      BY <1>1, Numbers DEF TaskInv
    <3>2. \A t \in Turns : owner'[t] = a0 => bridge[t] # "up"
      BY <1>3, <1>6, <1>7, <1>8, <3>1 DEF TaskOf, Steps
    <3>3. /\ token'[w] = a0 /\ token'[w] # None /\ token'[w] <= claims' /\ n <= turns'
          /\ pc'[w] = "reserved" /\ turn'[w] = n /\ n # None /\ owner'[n] = a0
          /\ place'[a0] # None /\ bridge'[n] = "none" /\ entry'[n] = "reserved"
          /\ \A t \in Turns : owner'[t] = a0 => bridge'[t] # "up"
      BY <1>2, <1>3, <1>5, <1>6, <1>7, <1>8, <1>9, <3>1, <3>2
    <3> QED
      BY <3>3 DEF TaskOf
  <2> QED
    BY <1>1, <1>2, <2>1, <2>2 DEF TaskInv
<1>13. TurnInv'
  <2>1. ASSUME NEW x PROVE Session(spent, owner', place, x) = Session(spent, owner, place, x)
    <3> DEFINE S == {t \in Turns : owner[t] # None /\ place[owner[t]] = x}
               T == {t \in Turns : owner'[t] # None /\ place[owner'[t]] = x}
    <3>1. T = S \/ T = S \cup {n}
      BY <1>7, <1>8
    <3>2. spent \in [Turns -> Nat] /\ S \in SUBSET Turns
      BY <1>1, Numbers DEF AgentTypes, AgentTypeOK
    <3> HIDE DEF S, T
    <3>3. SumOver(spent, S \cup {n}) = SumOver(spent, S)
      BY <1>8, <3>2, SumWithNothing
    <3>4. SumOver(spent, T) = SumOver(spent, S)
      BY <3>1, <3>3
    <3> QED
      BY <3>4 DEF Session, S, T
  <2>2. ASSUME NEW t \in Turns, t # n PROVE TurnOf(t)'
    <3>1. TurnOf(t) /\ t \in Nat /\ owner'[t] = owner[t] /\ entry'[t] = entry[t]
      BY <1>1, <1>7, <2>2, Numbers DEF TurnInv
    <3>2. (t > turns' <=> t > turns) /\ (t <= turns' <=> t <= turns)
      BY <1>5, <1>6, <1>8, <2>2, <3>1
    <3>3. Session(spent, owner', place, place[owner[t]]) = Session(spent, owner, place, place[owner[t]])
      BY <2>1
    <3> QED
      BY <1>2, <3>1, <3>2, <3>3 DEF TurnOf
  <2>3. TurnOf(n)'
    <3>1. n \in Nat /\ ~(n > turns') /\ n <= turns'
      BY <1>6, Numbers, <1>1
    <3>2. spent[n] + credit[a0] <= MaxSpend
      BY <1>1, <1>8 DEF AgentTypes, AgentTypeOK, TypeFacts
    <3> QED
      BY <1>2, <1>7, <1>8, <1>9, <3>1, <3>2 DEF TurnOf
  <2>4. SettledIsCharged'
    BY <1>1, <1>2, <1>7 DEF TurnInv, SettledIsCharged
  <2> QED
    BY <2>2, <2>3, <2>4 DEF TurnInv
<1>14. ASSUME NEW a \in Attempts, Uses(a)' PROVE Uses(a)
  <2>1. \A v \in Workers : pc'[v] \in Steps => pc[v] \in Steps
    BY <1>6, <1>7 DEF Steps
  <2>2. \A t \in Turns : bridge[t] = "up" => owner'[t] = owner[t]
    BY <1>7, <1>8
  <2> QED
    BY <1>2, <1>14, <2>1, <2>2 DEF Uses
<1>15. UseInv'
  <2>1. OneBridge'
    BY <1>1, <1>2 DEF UseInv, OneBridge
  <2> QED
    BY <1>1, <1>2, <1>14, <2>1 DEF UseInv, Holds
<1>16. MoneyInv'
  BY <1>1, <1>2, <1>14 DEF MoneyInv
<1> QED
  BY <1>10, <1>11, <1>12, <1>13, <1>15, <1>16 DEF AgentIInv

(* A bridge that is up is used by the attempt that owns its turn.          *)
LEMMA UpIsUsed ==
    ASSUME AgentTypes, TurnInv, NEW t \in Turns, bridge[t] = "up"
    PROVE  owner[t] \in Attempts /\ Uses(owner[t]) /\ t <= turns
<1>1. TurnOf(t) /\ t \in Nat /\ turns \in Nat
  BY Numbers DEF TurnInv
<1>2. t <= turns /\ owner[t] # None /\ place[owner[t]] \in alive
  BY <1>1 DEF TurnOf
<1> QED
  BY <1>2, Numbers DEF Uses

LEMMA LaunchKeepsInvariant ==
    ASSUME AgentIInv, NEW w \in Workers, Launch(w)
    PROVE  AgentIInv'
<1>1. AgentTypes /\ RowInv /\ PlaceInv /\ TaskInv /\ TurnInv /\ UseInv /\ MoneyInv /\ TypeFacts
  BY TypesGiveFacts DEF AgentIInv
<1>2. /\ UNCHANGED <<status, leaseOwner, leaseExpired, cancelRequested, continuation, claims>>
      /\ UNCHANGED <<token, turn, resuming, place, alive, key, credit, faults>>
      /\ UNCHANGED <<turns, owner, entry, cost, blind, stream, spent, final>>
  BY DEF Launch, runVars, sandboxVars, keyVars, ledgerVars
<1>3. PICK a0 \in Attempts : a0 = token[w]
  BY <1>1, Numbers DEF Launch, TaskInv, TaskOf
<1>4. CASE place[a0] \notin alive
  <2>1. pc' = [pc EXCEPT ![w] = "failing"] /\ UNCHANGED <<bridge, initial, cancelEvent>>
        /\ pc[w] = "clear"
    BY <1>3, <1>4 DEF Launch, Goto
  <2>2. RowTypes' /\ RowInv' /\ resuming' \in [Workers -> BOOLEAN]
    BY <1>1, <1>2, RowKept DEF AgentTypes, AgentTypeOK, RowTypes
  <2>3. UNCHANGED <<sandboxVars, keyVars, ledgerVars, bridgeVars>>
    BY <1>2, <2>1 DEF sandboxVars, keyVars, ledgerVars, bridgeVars
  <2>4. \A a \in Attempts : Holds(a) => Holds(a)'
    BY <1>2 DEF Holds
  <2>5. "failing" \in Labels /\ "failing" \in Exits /\ pc[w] # "idle"
    BY <2>1 DEF Labels, Exits
  <2> QED
    BY <1>2, <2>1, <2>2, <2>3, <2>4, <2>5, RowMoveKeepsInvariant
<1>5. CASE place[a0] \in alive
  <2>1. PICK n \in Turns : n = turn[w]
    BY <1>1, Numbers DEF Launch, TaskInv, TaskOf
  <2>2. /\ pc[w] = "clear" /\ owner[n] = a0 /\ bridge[n] = "none" /\ entry[n] = "reserved"
        /\ spent[n] = 0 /\ stream[n] = "waiting" /\ n <= turns
        /\ \A v \in Workers : token[v] = a0 => v = w
        /\ \A t \in Turns : owner[t] = a0 => bridge[t] # "up"
    <3>1. TaskOf(w) /\ TurnOf(n) /\ pc[w] = "clear" /\ n # None /\ a0 # None
      BY <1>1, Numbers DEF TaskInv, TurnInv, Launch
    <3>2. owner[n] = a0 /\ n <= turns /\ bridge[n] = "none" /\ entry[n] = "reserved"
      BY <1>3, <2>1, <3>1 DEF TaskOf
    <3>3. \A t \in Turns : owner[t] = a0 => bridge[t] # "up"
      BY <1>3, <3>1 DEF TaskOf, Steps
    <3> QED
      BY <1>1, <1>3, <3>1, <3>2, <3>3 DEF TurnOf, TaskInv
  <2>3. /\ bridge' = [bridge EXCEPT ![n] = "up"] /\ pc' = [pc EXCEPT ![w] = "streaming"]
        /\ initial' = [initial EXCEPT ![n] = Session(spent, owner, place, place[a0])]
        /\ cancelEvent' = [cancelEvent EXCEPT ![w] = "clear"]
    BY <1>3, <1>5, <2>1, SessionIsSum DEF Launch, Goto
  <2>4. Session(spent, owner, place, place[a0]) \in Nat
    BY <1>1, SessionIsNat
  <2>5. AgentTypes'
    <3>1. /\ bridge' \in [Turns -> {"none", "up", "done", "dead"}] /\ pc' \in [Workers -> Labels]
          /\ initial' \in [Turns -> Nat] /\ cancelEvent' \in [Workers -> {"clear", "set", "stuck"}]
      BY <1>1, <2>3, <2>4 DEF AgentTypes, AgentTypeOK, Labels
    <3> QED
      BY <1>1, <1>2, <3>1 DEF AgentTypes, AgentTypeOK
  <2>6. /\ bridge'[n] = "up" /\ initial'[n] = Session(spent, owner, place, place[a0])
        /\ \A t \in Turns \ {n} : bridge'[t] = bridge[t] /\ initial'[t] = initial[t]
        /\ pc'[w] = "streaming" /\ \A v \in Workers \ {w} : pc'[v] = pc[v]
    BY <1>1, <2>3 DEF AgentTypes, AgentTypeOK
  <2>7. RowInv' /\ PlaceInv'
    BY <1>1, <1>2, RowKept, PlaceKept
  <2>8. TaskInv'
    <3>1. ASSUME NEW v \in Workers, v # w PROVE TaskOf(v)'
      <4>1. TaskOf(v) /\ token[v] # a0 /\ (turn[v] # None => turn[v] \in Turns)
        BY <1>1, <2>2, <3>1, Numbers DEF TaskInv
      <4>2. turn[v] # None => turn[v] \in Turns \ {n}
        BY <2>2, <4>1 DEF TaskOf
      <4> QED
        BY <1>2, <2>2, <2>6, <3>1, <4>1, <4>2 DEF TaskOf
    <3>2. TaskOf(w)'
      <4>1. TaskOf(w) /\ n # None /\ a0 # None
        BY <1>1, Numbers DEF TaskInv
      <4>2. place[a0] # None /\ token[w] <= claims
        BY <1>3, <2>2, <4>1 DEF TaskOf, Steps
      <4>3. \A t \in Turns : owner[t] = a0 /\ bridge'[t] = "up" => t = n
        BY <2>2, <2>6
      <4>4. /\ token'[w] = a0 /\ token'[w] # None /\ token'[w] <= claims'
            /\ pc'[w] = "streaming" /\ turn'[w] = n /\ n # None /\ n <= turns' /\ owner'[n] = a0
            /\ place'[a0] # None /\ bridge'[n] = "up" /\ entry'[n] = "reserved"
            /\ stream'[n] = "waiting"
            /\ \A t \in Turns : owner'[t] = a0 /\ bridge'[t] = "up" => t = n
        BY <1>2, <1>3, <2>1, <2>2, <2>6, <4>1, <4>2, <4>3
      <4> QED
        BY <4>4 DEF TaskOf
    <3> QED
      BY <1>1, <1>2, <3>1, <3>2 DEF TaskInv
  <2>9. TurnInv'
    <3>1. ASSUME NEW t \in Turns, t # n PROVE TurnOf(t)'
      BY <1>1, <1>2, <2>6, <3>1 DEF TurnInv, TurnOf
    <3>2. TurnOf(n)'
      <4>1. TurnOf(n) /\ n \in Nat /\ turns \in Nat
        BY <1>1, Numbers DEF TurnInv
      <4>2. ~(n > turns)
        BY <2>2, <4>1
      <4>3. Session(spent, owner, place, place[owner[n]]) = initial'[n] + spent[n]
        BY <2>2, <2>4, <2>6
      <4> QED
        BY <1>2, <1>5, <2>2, <2>6, <4>1, <4>2, <4>3 DEF TurnOf
    <3> QED
      BY <1>1, <1>2, <3>1, <3>2 DEF TurnInv, SettledIsCharged
  <2>10. ASSUME NEW a \in Attempts, Uses(a)' PROVE Uses(a)
    <3>1. CASE a = a0
      BY <1>3, <1>5, <2>2, <3>1 DEF Uses, Steps
    <3>2. CASE a # a0
      BY <1>2, <1>3, <2>2, <2>6, <2>10, <3>2 DEF Uses
    <3> QED
      BY <3>1, <3>2
  <2>11. OneBridge'
    <3>1. ASSUME NEW u \in Turns, u # n, bridge[u] = "up" PROVE FALSE
      <4>1. owner[u] \in Attempts /\ Uses(owner[u])
        BY <1>1, <3>1, UpIsUsed
      <4>2. Uses(a0)
        BY <1>3, <1>5, <2>2 DEF Uses, Steps
      <4>3. owner[u] = a0
        BY <1>1, <4>1, <4>2 DEF UseInv
      <4> QED
        BY <2>2, <3>1, <4>3
    <3> QED
      BY <2>6, <3>1 DEF OneBridge
  <2>12. UseInv'
    BY <1>1, <1>2, <2>10, <2>11 DEF UseInv, Holds
  <2>13. MoneyInv'
    BY <1>1, <1>2, <2>10 DEF MoneyInv
  <2> QED
    BY <2>5, <2>7, <2>8, <2>9, <2>12, <2>13 DEF AgentIInv
<1> QED
  BY <1>4, <1>5

(* A charge moves one unit from the key of the one attempt in use to the   *)
(* one turn whose bridge is up, so that their sum stays.                   *)
LEMMA ChargeKeepsInvariant ==
    ASSUME AgentIInv, NEW n \in Turns, Charge(n)
    PROVE  AgentIInv'
<1>1. AgentTypes /\ RowInv /\ PlaceInv /\ TaskInv /\ TurnInv /\ UseInv /\ MoneyInv /\ TypeFacts
  BY TypesGiveFacts DEF AgentIInv
<1>2. /\ UNCHANGED <<status, leaseOwner, leaseExpired, cancelRequested, continuation, claims>>
      /\ UNCHANGED <<token, pc, turn, resuming, cancelEvent, place, alive, key, faults>>
      /\ UNCHANGED <<turns, owner, entry, cost, blind, bridge, stream, initial, final>>
  BY DEF Charge, runVars, taskVars, sandboxVars, ledgerVars
<1>3. bridge[n] = "up" /\ owner[n] \in Attempts /\ Uses(owner[n]) /\ n <= turns
  BY <1>1, UpIsUsed DEF Charge
<1>4. PICK a0 \in Attempts : a0 = owner[n]
  BY <1>3
<1>5. /\ key[a0] = "live" /\ credit[a0] > 0 /\ spent' = [spent EXCEPT ![n] = @ + 1]
      /\ credit' = [credit EXCEPT ![a0] = @ - 1]
  BY <1>4 DEF Charge
<1>6. spent \in [Turns -> Nat] /\ credit[a0] \in Nat /\ spent[n] \in Nat /\ MaxSpend \in Nat
  BY <1>1, Numbers DEF AgentTypes, AgentTypeOK
<1>7. /\ spent'[n] = spent[n] + 1 /\ credit'[a0] = credit[a0] - 1
      /\ \A t \in Turns \ {n} : spent'[t] = spent[t]
      /\ \A a \in Attempts \ {a0} : credit'[a] = credit[a]
  BY <1>1, <1>5 DEF AgentTypes, AgentTypeOK
<1>8. spent[n] + credit[a0] <= MaxSpend
  BY <1>1, <1>4, Numbers DEF TurnInv, TurnOf
<1>9. AgentTypes'
  <2>1. spent[n] + 1 \in 0 .. MaxSpend /\ credit[a0] - 1 \in 0 .. MaxSpend
    BY <1>1, <1>5, <1>6, <1>8
  <2>2. spent' \in [Turns -> 0 .. MaxSpend] /\ credit' \in [Attempts -> 0 .. MaxSpend]
    BY <1>1, <1>5, <2>1 DEF AgentTypes, AgentTypeOK
  <2> QED
    BY <1>1, <1>2, <2>2 DEF AgentTypes, AgentTypeOK
<1>10. RowInv' /\ PlaceInv'
  BY <1>1, <1>2, RowKept, PlaceKept
<1>11. TaskInv'
  <2>1. ASSUME NEW v \in Workers PROVE TaskOf(v)'
    <3>1. TaskOf(v) /\ (turn[v] # None => turn[v] \in Turns)
      BY <1>1, Numbers DEF TaskInv
    <3>2. turn[v] # None /\ bridge[turn[v]] = "done" => spent'[turn[v]] = spent[turn[v]]
      BY <1>3, <1>7, <3>1
    <3>3. pc[v] \in {"streaming", "returned"} => turn[v] # None
      BY <3>1 DEF TaskOf
    <3> QED
      BY <1>2, <3>1, <3>2, <3>3 DEF TaskOf
  <2> QED
    BY <1>1, <1>2, <2>1 DEF TaskInv
<1>12. TurnInv'
  <2>1. ASSUME NEW t \in Turns, t # n PROVE TurnOf(t)'
    <3>1. TurnOf(t) /\ spent'[t] = spent[t] /\ bridge[t] # "up" /\ spent[t] \in Nat
      BY <1>1, <1>3, <1>7, <2>1, Numbers DEF TurnInv, UseInv, OneBridge
    <3>2. owner[t] # None => owner[t] \in Attempts /\ credit[owner[t]] \in Nat
      BY <1>1, Numbers
    <3>3. owner[t] # None => spent[t] + credit'[owner[t]] <= MaxSpend
      <4>1. CASE owner[t] = a0
        BY <1>6, <1>7, <3>1, <3>2, <4>1 DEF TurnOf
      <4>2. CASE owner[t] # a0
        BY <1>7, <3>1, <3>2, <4>2 DEF TurnOf
      <4> QED
        BY <4>1, <4>2
    <3> QED
      BY <1>2, <3>1, <3>3 DEF TurnOf
  <2>2. TurnOf(n)'
    <3>1. TurnOf(n) /\ n \in Nat /\ turns \in Nat /\ initial[n] \in Nat
      BY <1>1, Numbers DEF TurnInv
    <3> DEFINE S == {t \in Turns : owner[t] # None /\ place[owner[t]] = place[a0]}
    <3>2. S \in SUBSET Turns /\ n \in S
      BY <1>3, <1>4, <1>1 DEF TypeFacts
    <3> HIDE DEF S
    <3>3. SumOver(spent', S) = SumOver(spent, S) + 1
      BY <1>5, <1>6, <3>2, SumGrows
    <3>4. Session(spent', owner, place, place[a0]) = Session(spent, owner, place, place[a0]) + 1
      BY <3>3 DEF Session, S
    <3>5. Session(spent', owner, place, place[owner[n]]) = initial[n] + (spent[n] + 1)
      BY <1>3, <1>4, <1>6, <3>1, <3>4 DEF TurnOf
    <3>6. spent'[n] + credit'[a0] <= MaxSpend
      BY <1>6, <1>7, <1>8
    <3>7. entry[n] # "settled" /\ bridge[n] # "none" /\ ~(n > turns)
      BY <1>3, <3>1 DEF TurnOf
    <3>8. entry[n] = "none" => cost[n] = 0
      BY <3>1 DEF TurnOf
    <3>9. owner[n] # None /\ owner[n] <= claims /\ place[owner[n]] # None /\ entry[n] # "none"
          /\ place[owner[n]] \in alive
      BY <1>3, <3>1 DEF TurnOf
    <3> QED
      BY <1>2, <1>3, <1>4, <1>7, <3>5, <3>6, <3>7, <3>9 DEF TurnOf
  <2>3. SettledIsCharged'
    BY <1>1, <1>2, <1>3, <1>7 DEF TurnInv, TurnOf, SettledIsCharged
  <2> QED
    BY <2>1, <2>2, <2>3 DEF TurnInv
<1>13. NoNewUse
  BY <1>2 DEF NoNewUse
<1>14. UseInv'
  BY <1>1, <1>2, <1>13, UseKept DEF Holds
<1>15. MoneyInv'
  <2> SUFFICES ASSUME ~blind' PROVE MoneyInv'
    BY DEF MoneyInv
  <2>1. Turns \in SUBSET Turns
    OBVIOUS
  <2>2. SumOver(spent', Turns) = SumOver(spent, Turns) + 1
    BY <1>5, <1>6, <2>1, SumGrows
  <2>3. SumOver(spent, Turns) \in Nat
    BY <1>1, SessionIsNat
  <2>4. SumOver(spent, Turns) + credit[a0] <= MaxSpend
    BY <1>1, <1>2, <1>3, <1>4, <1>5 DEF MoneyInv
  <2>5. SumOver(spent', Turns) <= MaxSpend /\ SumOver(spent', Turns) + credit'[a0] <= MaxSpend
    BY <1>5, <1>6, <1>7, <2>2, <2>3, <2>4
  <2>6. ASSUME NEW a \in Attempts, Uses(a)' PROVE a = a0
    BY <1>1, <1>3, <1>4, <1>13, <2>6, UsesShrink DEF UseInv
  <2> QED
    BY <1>2, <2>5, <2>6 DEF MoneyInv
<1> QED
  BY <1>9, <1>10, <1>11, <1>12, <1>14, <1>15 DEF AgentIInv

LEMMA ReduceType ==
    ASSUME NEW state \in StreamStates, NEW kind
    PROVE  Reduce(state, kind) \in StreamStates
BY DEF Reduce, StreamStates

LEMMA EnvelopeKeepsInvariant ==
    ASSUME AgentIInv, NEW w \in Workers, NEW kind \in Kinds, Envelope(w, kind)
    PROVE  AgentIInv'
<1>1. AgentTypes /\ RowInv /\ PlaceInv /\ TaskInv /\ TurnInv /\ UseInv /\ MoneyInv /\ TypeFacts
  BY TypesGiveFacts DEF AgentIInv
<1>2. /\ UNCHANGED <<status, leaseOwner, leaseExpired, cancelRequested, continuation, claims>>
      /\ UNCHANGED <<token, turn, resuming, cancelEvent, place, alive, key, credit>>
      /\ UNCHANGED <<turns, owner, entry, cost, blind, spent, initial>>
  BY DEF Envelope, runVars, sandboxVars, keyVars, ledgerVars
<1>3. PICK n \in Turns : n = turn[w]
  BY <1>1, Numbers DEF Envelope, TaskInv, TaskOf
<1> DEFINE next == Reduce(stream[n], kind)
           final1 == Session(spent, owner, place, place[owner[n]])
<1>4. next \in StreamStates
  BY <1>1, ReduceType DEF AgentTypes
<1>5. final1 \in Nat
  BY <1>1, SessionIsNat
<1>6. /\ pc[w] = "streaming" /\ bridge[n] = "up"
      /\ IF next = "broken" THEN Fault ELSE faults' = faults
      /\ stream' = [stream EXCEPT ![n] = next]
      /\ IF next = "broken" \/ ~Fenced(w)
         THEN /\ bridge' = [bridge EXCEPT ![n] = "dead"]
              /\ pc' = [pc EXCEPT ![w] = "failing"] /\ final' = final
         ELSE /\ bridge' = [bridge EXCEPT ![n] =
                              IF next \in {"completed", "asking", "failed"} THEN "done" ELSE @]
              /\ final' = [final EXCEPT ![n] =
                              IF next \in {"completed", "asking"} THEN final1 ELSE @]
              /\ pc' = pc
  BY <1>3, SessionIsSum DEF Envelope, Goto
<1> HIDE DEF next, final1
<1>7. faults' \in 0 .. MaxFaults
  BY <1>1, <1>6 DEF Fault, TypeFacts, AgentTypes, AgentTypeOK
<1>8. /\ bridge' \in [Turns -> {"none", "up", "done", "dead"}] /\ pc' \in [Workers -> Labels]
      /\ stream' \in [Turns -> StreamStates] /\ final' \in [Turns -> Nat]
  <2>1. stream' \in [Turns -> StreamStates]
    BY <1>1, <1>4, <1>6 DEF AgentTypes
  <2>2. bridge' \in [Turns -> {"none", "up", "done", "dead"}] /\ pc' \in [Workers -> Labels]
    BY <1>1, <1>6 DEF AgentTypes, AgentTypeOK, Labels
  <2>3. final' \in [Turns -> Nat]
    BY <1>1, <1>5, <1>6 DEF AgentTypes, AgentTypeOK
  <2> QED
    BY <2>1, <2>2, <2>3
<1>9. AgentTypes'
  BY <1>1, <1>2, <1>7, <1>8 DEF AgentTypes, AgentTypeOK
<1>10. /\ stream'[n] = next
       /\ \A t \in Turns \ {n} : stream'[t] = stream[t] /\ bridge'[t] = bridge[t]
                                 /\ final'[t] = final[t]
       /\ \A v \in Workers \ {w} : pc'[v] = pc[v]
       /\ \/ pc'[w] = "failing" /\ bridge'[n] = "dead"
          \/ pc'[w] = "streaming" /\ next \in {"completed", "asking"}
             /\ bridge'[n] = "done" /\ final'[n] = final1
          \/ pc'[w] = "streaming" /\ next \notin {"completed", "asking"}
             /\ bridge'[n] \in {"up", "done"}
  BY <1>1, <1>6 DEF AgentTypes, AgentTypeOK
<1>11. RowInv' /\ PlaceInv'
  BY <1>1, <1>2, RowKept, PlaceKept
<1>12. /\ token[w] \in Attempts /\ owner[n] = token[w] /\ entry[n] = "reserved"
       /\ n <= turns /\ token[w] <= claims /\ place[token[w]] # None
       /\ \A t \in Turns : owner[t] = token[w] /\ bridge[t] = "up" => t = n
       /\ final1 = initial[n] + spent[n]
  <2>1. TaskOf(w) /\ TurnOf(n) /\ n # None
    BY <1>1, Numbers DEF TaskInv, TurnInv
  <2>2. owner[n] = token[w] /\ n <= turns /\ entry[n] = "reserved" /\ token[w] <= claims
        /\ token[w] # None
    BY <1>3, <1>6, <2>1 DEF TaskOf
  <2>3. place[token[w]] # None /\ \A t \in Turns : owner[t] = token[w] /\ bridge[t] = "up" => t = n
    BY <1>3, <1>6, <2>1 DEF TaskOf, Steps
  <2>4. final1 = initial[n] + spent[n]
    BY <1>6, <2>1 DEF TurnOf, final1
  <2> QED
    BY <1>1, <2>2, <2>3, <2>4, Numbers
<1>13. TaskInv'
  <2>1. ASSUME NEW v \in Workers, v # w PROVE TaskOf(v)'
    <3>1. TaskOf(v) /\ token[v] # token[w] /\ (turn[v] # None => turn[v] \in Turns)
      BY <1>1, <1>12, <2>1, Numbers DEF TaskInv
    <3>2. turn[v] # None => turn[v] \in Turns \ {n}
      BY <1>12, <3>1 DEF TaskOf
    <3>3. pc[v] \in {"reserved", "clear", "streaming", "returned"} => turn[v] # None
      BY <3>1 DEF TaskOf
    <3>4. \A t \in Turns : bridge'[t] = "up" => bridge[t] = "up"
      BY <1>6, <1>10
    <3> QED
      BY <1>2, <1>10, <2>1, <3>1, <3>2, <3>3, <3>4 DEF TaskOf
  <2>2. TaskOf(w)'
    <3>1. TaskOf(w) /\ n # None /\ token[w] # None
      BY <1>1, <1>12, Numbers DEF TaskInv
    <3>2. CASE pc'[w] = "failing"
      BY <1>2, <1>3, <1>12, <3>1, <3>2 DEF TaskOf, Steps
    <3>3. CASE pc'[w] = "streaming"
      <4>1. \A t \in Turns : owner[t] = token[w] /\ bridge'[t] = "up" => t = n
        BY <1>6, <1>10, <1>12
      <4>2. next \in {"completed", "asking"} =>
                bridge'[n] = "done" /\ final'[n] - initial[n] = spent[n]
        <5>1. initial[n] \in Nat /\ spent[n] \in Nat
          BY <1>1, Numbers
        <5> QED
          BY <1>10, <1>12, <3>3, <5>1
      <4>3. /\ pc'[w] = "streaming" /\ token'[w] = token[w] /\ token[w] # None
            /\ token[w] <= claims' /\ turn'[w] = n /\ n # None /\ n <= turns'
            /\ owner'[n] = token[w] /\ place'[token[w]] # None /\ entry'[n] = "reserved"
            /\ bridge'[n] # "none" /\ stream'[n] = next /\ initial'[n] = initial[n]
            /\ spent'[n] = spent[n] /\ owner' = owner
        BY <1>2, <1>3, <1>10, <1>12, <3>1, <3>3
      <4> QED
        BY <4>1, <4>2, <4>3 DEF TaskOf
    <3> QED
      BY <1>10, <3>2, <3>3
  <2> QED
    BY <1>1, <1>2, <2>1, <2>2 DEF TaskInv
<1>14. TurnInv'
  <2>1. ASSUME NEW t \in Turns, t # n PROVE TurnOf(t)'
    BY <1>1, <1>2, <1>10, <2>1 DEF TurnInv, TurnOf
  <2>2. TurnOf(n)'
    <3>1. TurnOf(n) /\ n \in Nat /\ turns \in Nat /\ ~(n > turns)
      BY <1>1, <1>12, Numbers DEF TurnInv
    <3>2. bridge'[n] # "none" /\ (bridge'[n] = "up" => bridge[n] = "up")
      BY <1>6, <1>10
    <3> QED
      BY <1>2, <3>1, <3>2 DEF TurnOf
  <2>3. SettledIsCharged'
    BY <1>1, <1>2 DEF TurnInv, SettledIsCharged
  <2> QED
    BY <2>1, <2>2, <2>3 DEF TurnInv
<1>15. NoNewUse
  <2>1. \A v \in Workers : pc'[v] \in Steps => pc[v] \in Steps
    BY <1>6, <1>10 DEF Steps
  <2>2. \A t \in Turns : bridge'[t] = "up" => bridge[t] = "up"
    BY <1>6, <1>10
  <2> QED
    BY <1>2, <2>1, <2>2 DEF NoNewUse
<1>16. UseInv'
  BY <1>1, <1>2, <1>15, UseKept DEF Holds
<1>17. MoneyInv'
  BY <1>1, <1>2, <1>15, MoneyKept DEF NoNewMoney
<1> QED
  BY <1>9, <1>11, <1>13, <1>14, <1>16, <1>17 DEF AgentIInv

(* What is settled is what the turn has cost: the difference of the two    *)
(* readings of the session.                                                *)
LEMMA SettleKeepsInvariant ==
    ASSUME AgentIInv, NEW w \in Workers, SettleUsageEntry(w)
    PROVE  AgentIInv'
<1>1. AgentTypes /\ RowInv /\ PlaceInv /\ TaskInv /\ TurnInv /\ UseInv /\ MoneyInv /\ TypeFacts
  BY TypesGiveFacts DEF AgentIInv
<1>2. /\ UNCHANGED <<status, leaseOwner, leaseExpired, cancelRequested, continuation, claims>>
      /\ UNCHANGED <<token, turn, resuming, cancelEvent, place, alive, key, credit, faults>>
      /\ UNCHANGED <<turns, owner, blind, bridge, stream, spent, initial, final>>
  BY DEF SettleUsageEntry, runVars, sandboxVars, keyVars, bridgeVars
<1>3. PICK n \in Turns : n = turn[w]
  BY <1>1, Numbers DEF SettleUsageEntry, TaskInv, TaskOf
<1>4. /\ TaskOf(w) /\ n # None /\ pc[w] = "returned" /\ bridge[n] = "done"
      /\ final[n] - initial[n] = spent[n] /\ owner[n] = token[w] /\ n <= turns
  BY <1>1, <1>3, Numbers DEF SettleUsageEntry, TaskInv, TaskOf
<1>5. /\ entry' = [entry EXCEPT ![n] = "settled"] /\ cost' = [cost EXCEPT ![n] = spent[n]]
      /\ pc' = [pc EXCEPT ![w] = "settled"]
  BY <1>3, <1>4 DEF SettleUsageEntry, Goto
<1>6. AgentTypes'
  <2>1. /\ entry' \in [Turns -> {"none", "reserved", "settled"}] /\ pc' \in [Workers -> Labels]
        /\ cost' \in [Turns -> 0 .. MaxSpend]
    BY <1>1, <1>5 DEF AgentTypes, AgentTypeOK, Labels
  <2> QED
    BY <1>1, <1>2, <2>1 DEF AgentTypes, AgentTypeOK
<1>7. /\ entry'[n] = "settled" /\ cost'[n] = spent[n]
      /\ \A t \in Turns \ {n} : entry'[t] = entry[t] /\ cost'[t] = cost[t]
      /\ pc'[w] = "settled" /\ \A v \in Workers \ {w} : pc'[v] = pc[v]
  BY <1>1, <1>5 DEF AgentTypes, AgentTypeOK
<1>8. RowInv' /\ PlaceInv'
  BY <1>1, <1>2, RowKept, PlaceKept
<1>9. TaskInv'
  <2>1. ASSUME NEW v \in Workers, v # w PROVE TaskOf(v)'
    <3>1. TaskOf(v) /\ (token[v] # None => token[v] # token[w])
          /\ (turn[v] # None => turn[v] \in Turns)
      BY <1>1, <2>1, Numbers DEF TaskInv
    <3>2. turn[v] # None => turn[v] \in Turns \ {n}
      BY <1>4, <3>1 DEF TaskOf
    <3>3. pc[v] \in {"reserved", "clear", "streaming", "returned"} => turn[v] # None
      BY <3>1 DEF TaskOf
    <3> QED
      BY <1>2, <1>7, <2>1, <3>1, <3>2, <3>3 DEF TaskOf
  <2>2. TaskOf(w)'
    BY <1>2, <1>3, <1>4, <1>7 DEF TaskOf, Steps
  <2> QED
    BY <1>1, <1>2, <2>1, <2>2 DEF TaskInv
<1>10. TurnInv'
  <2>1. ASSUME NEW t \in Turns, t # n PROVE TurnOf(t)'
    BY <1>1, <1>2, <1>7, <2>1 DEF TurnInv, TurnOf
  <2>2. TurnOf(n)'
    <3>1. TurnOf(n) /\ n \in Nat /\ turns \in Nat /\ ~(n > turns)
      BY <1>1, <1>4, Numbers DEF TurnInv
    <3> QED
      BY <1>2, <1>4, <1>7, <3>1 DEF TurnOf
  <2>3. SettledIsCharged'
    BY <1>1, <1>2, <1>7 DEF TurnInv, SettledIsCharged
  <2> QED
    BY <2>1, <2>2, <2>3 DEF TurnInv
<1>11. NoNewUse
  BY <1>2, <1>4, <1>7 DEF NoNewUse, Steps
<1>12. UseInv'
  BY <1>1, <1>2, <1>11, UseKept DEF Holds
<1>13. MoneyInv'
  BY <1>1, <1>2, <1>11, MoneyKept DEF NoNewMoney
<1> QED
  BY <1>6, <1>8, <1>9, <1>10, <1>12, <1>13 DEF AgentIInv

-----------------------------------------------------------------------------
(* Together.                                                               *)

LEMMA StepKeepsInvariant ==
    ASSUME AgentIInv, [Next]_vars
    PROVE  AgentIInv'
<1>1. CASE UNCHANGED vars
  <2>1. UNCHANGED <<status, leaseOwner, leaseExpired, cancelRequested, continuation, claims>>
        /\ UNCHANGED <<token, pc, turn, resuming, cancelEvent, place, alive, key, credit>>
        /\ UNCHANGED <<turns, owner, entry, cost, blind, bridge, stream, spent, initial>>
        /\ UNCHANGED <<final, faults>>
    BY <1>1 DEF vars, runVars, taskVars, sandboxVars, keyVars, ledgerVars, bridgeVars
  <2>2. AgentTypes /\ RowInv /\ PlaceInv /\ TaskInv /\ TurnInv /\ UseInv /\ MoneyInv
    BY DEF AgentIInv
  <2>3. AgentTypes'
    BY <2>1, <2>2 DEF AgentTypes, AgentTypeOK
  <2>4. RowInv' /\ PlaceInv' /\ TaskInv' /\ TurnInv'
    BY <2>1, <2>2, RowKept, PlaceKept, TaskStays, TurnKept
  <2>5. NoNewUse
    BY <2>1 DEF NoNewUse
  <2>6. UseInv' /\ MoneyInv'
    BY <2>1, <2>2, <2>5, UseKept, MoneyKept DEF Holds, NoNewMoney
  <2> QED
    BY <2>3, <2>4, <2>6 DEF AgentIInv
<1>2. CASE RequestCancel \/ AnswerUserInput \/ LeaseExpires \/ RecoverExpiredRun
  BY <1>2, UserOrClockKeepsInvariant DEF UserOrClock
<1>3. ASSUME NEW w \in Workers,
             Claim(w) \/ WorkerStep(w) \/ Publish(w) \/ HeartbeatStrikes(w)
               \/ TransportBreaks(w) \/ Crash(w)
      PROVE  AgentIInv'
  <2>1. CASE Claim(w)
    BY <2>1, ClaimKeepsInvariant
  <2>2. CASE OpenWorkspace(w)
    BY <2>2, OpenKeepsInvariant
  <2>3. CASE IssueKey(w)
    BY <2>3, IssueKeepsInvariant
  <2>4. CASE ReserveUsageEntry(w)
    BY <2>4, ReserveKeepsInvariant
  <2>5. CASE Launch(w)
    BY <2>5, LaunchKeepsInvariant
  <2>6. CASE SettleUsageEntry(w)
    BY <2>6, SettleKeepsInvariant
  <2>7. CASE WaitForUserInput(w)
    BY <2>7, WaitKeepsInvariant
  <2>8. CASE FinishTurn(w)
    BY <2>8, FinishKeepsInvariant
  <2>9. CASE Conclude(w)
    BY <2>9, ConcludeKeepsInvariant
  <2>10. CASE Ending(w)
    BY <2>10, EndingKeepsInvariant
  <2>11. CASE Check(w)
    BY <2>11, CheckKeepsInvariant
  <2> QED
    BY <1>3, <2>1, <2>2, <2>3, <2>4, <2>5, <2>6, <2>7, <2>8, <2>9, <2>10, <2>11
       DEF WorkerStep, Conclude, Ending, Check
<1>4. ASSUME NEW w \in Workers, NEW kind \in Kinds, Envelope(w, kind) PROVE AgentIInv'
  BY <1>4, EnvelopeKeepsInvariant
<1>5. ASSUME NEW t \in Turns, Charge(t) PROVE AgentIInv'
  BY <1>5, ChargeKeepsInvariant
<1>6. ASSUME NEW a \in Attempts, Sweep(a) \/ KeyExpires(a) PROVE AgentIInv'
  BY <1>6, SweepKeepsInvariant
<1> QED
  BY <1>1, <1>2, <1>3, <1>4, <1>5, <1>6 DEF Next

(* The inductive invariant holds in every state: who may use the run's     *)
(* sandbox, which turn a task is in, what the session, the key and the     *)
(* ledger say of its cost.                                                 *)
THEOREM AgentInvariantHolds == Spec => []AgentIInv
<1>1. AgentIInv /\ [Next]_vars => AgentIInv'
  BY StepKeepsInvariant
<1> QED
  BY InitIsInOrder, <1>1, PTL DEF Spec

(* What a run pays is in its ledger turn by turn, and within its limit as  *)
(* far as the ledger can see: reserve_usage_entry, settle_usage_entry and  *)
(* the budget of the key keep it so over every attempt, worker and crash.  *)
THEOREM SpendIsAccountedHolds == Spec => []SpendIsAccounted
<1>1. AgentIInv => SpendIsAccounted
  BY TotalIsSum DEF AgentIInv, AgentTypes, TurnInv, MoneyInv, SpendIsAccounted,
                    SpendIsBoundedUnlessBlind
<1> QED
  BY AgentInvariantHolds, <1>1, PTL

(* No attempt edits or pays beside another one: at most one bridge of a    *)
(* run is up, however many workers stall, crash or claim it.               *)
THEOREM OneBridgeHolds == Spec => []OneBridge
<1>1. AgentIInv => OneBridge
  BY DEF AgentIInv, UseInv
<1> QED
  BY AgentInvariantHolds, <1>1, PTL
=============================================================================
