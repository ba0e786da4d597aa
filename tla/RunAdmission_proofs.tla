------------------------ MODULE RunAdmission_proofs ------------------------
(***************************************************************************)
(* Proofs about RunAdmission.  The properties speak of the lineage of a    *)
(* run, which the model, like the code, computes by walking from run to    *)
(* source.  Here the walk is justified first: a source is older than the   *)
(* run that forks it, so the lineage exists, and what is said of it is     *)
(* shown for the oldest run of which it could fail.                        *)
(***************************************************************************)
EXTENDS RunAdmission, TLAPS, WellFoundedInduction

-----------------------------------------------------------------------------
(* The inductive invariant.                                                *)

\* A request under way found no run of its key, and its source can be forked.
CallInv ==
    \A c \in Clients : call[c] # None =>
        /\ call[c].knew = 0
        /\ call[c].request.source \in 0 .. Len(runs)

\* A source is older than the run that forks it, has ended without success,
\* and what it handed over is what it still has to hand over.
SourceInv ==
    \A r \in Created : runs[r].source # 0 =>
        /\ runs[r].source < r
        /\ runs[runs[r].source].status \in Recoverable
        /\ runs[r].checkpoint = SourceCheckpoint(runs[r].source)

PromptInv == \A r \in Created : PromptIsValid(r)

AdmissionIInv ==
    /\ AdmissionTypeOK
    /\ OneRunPerKey
    /\ CallInv
    /\ SourceInv
    /\ PromptInv
    /\ misled = {}

-----------------------------------------------------------------------------
(* Recursion over the natural numbers.                                     *)

LEMMA LeastElement ==
    ASSUME NEW T, T \subseteq Nat, T # {}
    PROVE  \E x \in T : \A y \in T : x <= y
<1> DEFINE R == {p \in Nat \X Nat : p[1] < p[2]}
<1>1. IsWellFoundedOn(R, Nat)
    BY NatLessThanWellFounded DEF OpToRel
<1>2. PICK x \in T : \A y \in T : ~ (<<y, x>> \in R)
    BY <1>1, WFMin
<1>3. ASSUME NEW y \in T PROVE x <= y
    <2>1. <<y, x>> \in Nat \X Nat
        BY <1>2
    <2>2. ~ (y < x)
        BY <1>2, <2>1
    <2> QED  BY <1>2, <2>2
<1> QED  BY <1>2, <1>3

\* The chains of runs that are linked by sources older than themselves.
LEMMA ChainsExist ==
    ASSUME NEW n \in Nat, NEW src, \A s \in 1 .. n : src[s] \in 0 .. s - 1
    PROVE  \E f : f = [s \in 1 .. n |-> IF src[s] = 0 THEN <<s>>
                                        ELSE Append(f[src[s]], s)]
<1> DEFINE Solves(m, f) ==
        f = [s \in 1 .. m |-> IF src[s] = 0 THEN <<s>> ELSE Append(f[src[s]], s)]
<1> DEFINE Bad == {m \in 0 .. n : ~ \E f : Solves(m, f)}
<1>1. SUFFICES ASSUME Bad # {} PROVE FALSE
    <2>1. n \notin Bad
        BY <1>1
    <2> QED  BY <2>1
<1>2. PICK m \in Bad : \A k \in Bad : m <= k
    <2>1. Bad \subseteq Nat
        OBVIOUS
    <2> HIDE DEF Bad
    <2> QED  BY <1>1, <2>1, LeastElement
<1>3. m # 0
    <2>1. SUFFICES Solves(0, <<>>)
        BY <1>2
    <2> QED  OBVIOUS
<1>4. PICK f : Solves(m - 1, f)
    <2>1. m \in 0 .. n
        BY <1>2
    <2>2. m - 1 \in 0 .. n /\ ~ (m <= m - 1)
        BY <2>1, <1>3
    <2>3. m - 1 \notin Bad
        BY <1>2, <2>2
    <2> QED  BY <2>2, <2>3
<1> DEFINE g == [s \in 1 .. m |-> IF s = m
                     THEN IF src[m] = 0 THEN <<m>> ELSE Append(f[src[m]], m)
                     ELSE f[s]]
<1>5. Solves(m, g)
    <2> DEFINE h == [s \in 1 .. m |-> IF src[s] = 0 THEN <<s>> ELSE Append(g[src[s]], s)]
    <2>1. ASSUME NEW s \in 1 .. m PROVE g[s] = h[s]
        <3>0. m \in Nat /\ m <= n
            BY <1>2
        <3>1. src[s] \in 0 .. s - 1
            BY <3>0, <2>1
        <3>2. src[s] # 0 => g[src[s]] = f[src[s]]
            BY <3>0, <3>1
        <3>3. h[s] = IF src[s] = 0 THEN <<s>> ELSE Append(f[src[s]], s)
            BY <3>2
        <3>4. CASE s = m
            BY <3>3, <3>4
        <3>5. CASE s # m
            <4>1. s \in 1 .. m - 1
                BY <3>0, <3>5
            <4>2. f[s] = IF src[s] = 0 THEN <<s>> ELSE Append(f[src[s]], s)
                BY <4>1, <1>4
            <4> QED  BY <4>2, <3>3, <3>5
        <3> QED  BY <3>4, <3>5
    <2> HIDE DEF Solves
    <2>2. g = h
        BY <2>1
    <2> QED  BY <2>2 DEF Solves
<1> QED  BY <1>2, <1>5

\* The sums of the first contents of a lineage.
LEMMA SumsExist ==
    ASSUME NEW n \in Nat, NEW w, \A i \in 1 .. n : w[i] \in Nat
    PROVE  \E z : z = [k \in 0 .. n |-> IF k = 0 THEN 0 ELSE z[k - 1] + w[k]]
<1> DEFINE Solves(m, z) ==
        z = [k \in 0 .. m |-> IF k = 0 THEN 0 ELSE z[k - 1] + w[k]]
<1> DEFINE Bad == {m \in 0 .. n : ~ \E z : Solves(m, z)}
<1>1. SUFFICES ASSUME Bad # {} PROVE FALSE
    <2>1. n \notin Bad
        BY <1>1
    <2> QED  BY <2>1
<1>2. PICK m \in Bad : \A k \in Bad : m <= k
    <2>1. Bad \subseteq Nat
        OBVIOUS
    <2> HIDE DEF Bad
    <2> QED  BY <1>1, <2>1, LeastElement
<1>3. m # 0
    <2>1. SUFFICES Solves(0, [k \in 0 .. 0 |-> 0])
        BY <1>2
    <2> QED  OBVIOUS
<1>4. PICK z : Solves(m - 1, z)
    <2>1. m \in 0 .. n
        BY <1>2
    <2>2. m - 1 \in 0 .. n /\ ~ (m <= m - 1)
        BY <2>1, <1>3
    <2>3. m - 1 \notin Bad
        BY <1>2, <2>2
    <2> QED  BY <2>2, <2>3
<1> DEFINE y == [k \in 0 .. m |-> IF k = m THEN z[m - 1] + w[m] ELSE z[k]]
<1>5. Solves(m, y)
    <2> DEFINE h == [k \in 0 .. m |-> IF k = 0 THEN 0 ELSE y[k - 1] + w[k]]
    <2>0. m \in Nat \ {0}
        BY <1>2, <1>3
    <2>1. ASSUME NEW k \in 0 .. m PROVE y[k] = h[k]
        <3>1. CASE k = m
            BY <2>0, <3>1
        <3>2. CASE k # m
            <4>1. k \in 0 .. m - 1
                BY <2>0, <3>2
            <4>2. z[k] = IF k = 0 THEN 0 ELSE z[k - 1] + w[k]
                BY <4>1, <1>4
            <4>3. k # 0 => y[k - 1] = z[k - 1]
                BY <4>1, <2>0
            <4> QED  BY <4>1, <4>2, <4>3, <3>2
        <3> QED  BY <3>1, <3>2
    <2> HIDE DEF Solves
    <2>2. y = h
        BY <2>1
    <2> QED  BY <2>2 DEF Solves
<1> QED  BY <1>2, <1>5

\* z[k] is the sum of the first k numbers of w.
IsSum(z, w, n) ==
    \A k \in 0 .. n : z[k] = IF k = 0 THEN 0 ELSE z[k - 1] + w[k]

SameNumbers(v, w, n) ==
    \A i \in 1 .. n : w[i] \in Nat /\ v[i] = w[i]

LEMMA SumsAgree ==
    ASSUME NEW n \in Nat, NEW m \in Nat, n <= m, NEW v, NEW w, NEW y, NEW z,
           SameNumbers(v, w, n), IsSum(y, v, n), IsSum(z, w, m)
    PROVE  y[n] = z[n] /\ y[n] \in Nat
<1> DEFINE Bad == {k \in 0 .. n : ~ (y[k] = z[k] /\ y[k] \in Nat)}
<1>1. SUFFICES ASSUME Bad # {} PROVE FALSE
    <2>1. n \notin Bad
        BY <1>1
    <2> QED  BY <2>1
<1>2. PICK k \in Bad : \A j \in Bad : k <= j
    <2>1. Bad \subseteq Nat
        OBVIOUS
    <2> HIDE DEF Bad
    <2> QED  BY <1>1, <2>1, LeastElement
<1>3. k \in 0 .. n /\ k \in Nat
    BY <1>2
<1>4. /\ y[k] = IF k = 0 THEN 0 ELSE y[k - 1] + v[k]
      /\ z[k] = IF k = 0 THEN 0 ELSE z[k - 1] + w[k]
      /\ k # 0 => w[k] \in Nat /\ v[k] = w[k]
    BY <1>3 DEF IsSum, SameNumbers
<1>5. k # 0
    BY <1>2, <1>4
<1>6. k - 1 \in 0 .. n /\ k - 1 \notin Bad
    <2>1. k - 1 \in 0 .. n /\ ~ (k <= k - 1)
        BY <1>3, <1>5
    <2> QED  BY <1>2, <2>1
<1>7. y[k - 1] = z[k - 1] /\ y[k - 1] \in Nat
    BY <1>6
<1> QED  BY <1>2, <1>3, <1>4, <1>5, <1>7

-----------------------------------------------------------------------------
(* Lineages.                                                               *)

LEMMA RunFacts ==
    AdmissionTypeOK /\ SourceInv =>
        /\ Len(runs) \in Nat /\ Created = 1 .. Len(runs)
        /\ \A r \in Created :
              /\ runs[r] \in Run
              /\ r \in Nat \ {0}
              /\ runs[r].content \in Contents /\ runs[r].content \in Nat
              /\ runs[r].verified \in Nat
              /\ runs[r].source \in 0 .. r - 1
              /\ runs[r].source # 0 => runs[r].source \in Created
<1> SUFFICES ASSUME AdmissionTypeOK, SourceInv
             PROVE  /\ Len(runs) \in Nat /\ Created = 1 .. Len(runs)
                    /\ \A r \in Created :
                          /\ runs[r] \in Run
                          /\ r \in Nat \ {0}
                          /\ runs[r].content \in Contents /\ runs[r].content \in Nat
                          /\ runs[r].verified \in Nat
                          /\ runs[r].source \in 0 .. r - 1
                          /\ runs[r].source # 0 => runs[r].source \in Created
    OBVIOUS
<1>1. Len(runs) \in Nat /\ Created = 1 .. Len(runs) /\ \A r \in Created : runs[r] \in Run
    BY DEF AdmissionTypeOK, Created
<1>2. ASSUME NEW r \in Created
      PROVE  /\ r \in Nat \ {0}
             /\ runs[r].content \in Contents /\ runs[r].content \in Nat
             /\ runs[r].verified \in Nat
             /\ runs[r].source \in 0 .. r - 1
             /\ runs[r].source # 0 => runs[r].source \in Created
    <2>1. /\ r \in Nat \ {0} /\ r \in 1 .. Len(runs)
          /\ runs[r].content \in Contents
          /\ runs[r].verified \in 0 .. MaxCheckpoints
          /\ runs[r].source \in 0 .. MaxRuns
        BY <1>1, <1>2 DEF Run
    <2>2. runs[r].content \in Nat /\ runs[r].verified \in Nat /\ runs[r].source \in Nat
        BY <2>1, LimitsAssumption
    <2>3. runs[r].source # 0 => runs[r].source < r
        BY <1>2 DEF SourceInv
    <2> QED  BY <1>1, <2>1, <2>2, <2>3
<1> QED  BY <1>1, <1>2

\* The lineage of a message is the run itself, that of a recovery extends its
\* source's.
LineageEquation ==
    \A r \in Created :
        Lineage(r) = IF runs[r].source = 0 THEN <<r>>
                     ELSE Append(Lineage(runs[r].source), r)

LEMMA LineageUnfolds ==
    AdmissionTypeOK /\ SourceInv => LineageEquation
<1> SUFFICES ASSUME AdmissionTypeOK, SourceInv
             PROVE  LineageEquation
    OBVIOUS
<1> DEFINE up == CHOOSE f : f = [s \in Created |-> IF runs[s].source = 0 THEN <<s>>
                                          ELSE Append(f[runs[s].source], s)]
<1>1. \A r : Lineage(r) = up[r]
    BY DEF Lineage
<1>2. Len(runs) \in Nat /\ Created = 1 .. Len(runs)
    BY RunFacts
<1>3. \A s \in 1 .. Len(runs) : runs[s].source \in 0 .. s - 1
    BY <1>2, RunFacts
<1>4. \E f : f = [s \in Created |-> IF runs[s].source = 0 THEN <<s>>
                                    ELSE Append(f[runs[s].source], s)]
    <2> DEFINE src == [s \in 1 .. Len(runs) |-> runs[s].source]
    <2>1. \A s \in 1 .. Len(runs) : src[s] \in 0 .. s - 1
        BY <1>3
    <2> HIDE DEF src
    <2>2. PICK f : f = [s \in 1 .. Len(runs) |-> IF src[s] = 0 THEN <<s>>
                                                 ELSE Append(f[src[s]], s)]
        BY <1>2, <2>1, ChainsExist
    <2>3. \A s \in 1 .. Len(runs) : src[s] = runs[s].source
        BY DEF src
    <2> WITNESS f
    <2>4. f = [s \in 1 .. Len(runs) |-> IF runs[s].source = 0 THEN <<s>>
                                        ELSE Append(f[runs[s].source], s)]
        BY <2>2, <2>3, Zenon
    <2> QED  BY <1>2, <2>4
<1>5. up = [s \in Created |-> IF runs[s].source = 0 THEN <<s>>
                              ELSE Append(up[runs[s].source], s)]
    BY <1>4
<1> QED  BY <1>1, <1>5 DEF LineageEquation

\* A lineage ends in its run; everything before it is older and has ended
\* without success.
AreAncestors(chain, r) ==
    /\ chain \in Seq(Created)
    /\ Len(chain) \in Nat \ {0}
    /\ chain[Len(chain)] = r
    /\ \A i \in 1 .. Len(chain) - 1 : chain[i] < r /\ runs[chain[i]].status \in Recoverable

LEMMA AncestorsExtend ==
    ASSUME AdmissionTypeOK, SourceInv,
           NEW r \in Created, runs[r].source # 0, NEW chain,
           AreAncestors(chain, runs[r].source)
    PROVE  /\ AreAncestors(Append(chain, r), r)
           /\ Len(Append(chain, r)) = Len(chain) + 1
           /\ \A i \in 1 .. Len(chain) : Append(chain, r)[i] = chain[i]
<1> DEFINE s == runs[r].source
<1>1. /\ s \in Created /\ s < r /\ runs[s].status \in Recoverable
      /\ r \in Nat /\ s \in Nat /\ Created \subseteq Nat
    BY RunFacts DEF SourceInv
<1>2. /\ chain \in Seq(Created) /\ Len(chain) \in Nat \ {0}
      /\ chain[Len(chain)] = s
      /\ \A i \in 1 .. Len(chain) - 1 : chain[i] < s /\ runs[chain[i]].status \in Recoverable
    BY DEF AreAncestors
<1> HIDE DEF s
<1>3. /\ Append(chain, r) \in Seq(Created)
      /\ Len(Append(chain, r)) = Len(chain) + 1
      /\ \A i \in 1 .. Len(chain) : Append(chain, r)[i] = chain[i]
      /\ Append(chain, r)[Len(chain) + 1] = r
    BY <1>2
<1>4. ASSUME NEW i \in 1 .. Len(chain)
      PROVE  chain[i] < r /\ runs[chain[i]].status \in Recoverable
    <2>0. chain[i] \in Created
        BY <1>2, <1>4
    <2>1. chain[i] \in Nat
        BY <1>1, <2>0
    <2>2. CASE i = Len(chain)
        BY <1>1, <1>2, <2>2
    <2>3. CASE i # Len(chain)
        <3>1. i \in 1 .. Len(chain) - 1
            BY <1>2, <2>3
        <3> QED  BY <1>1, <1>2, <2>1, <3>1
    <2> QED  BY <2>2, <2>3
<1>5. AreAncestors(Append(chain, r), r)
    <2>1. Len(Append(chain, r)) \in Nat \ {0}
        BY <1>2, <1>3
    <2>2. Append(chain, r)[Len(Append(chain, r))] = r
        BY <1>3
    <2>3. ASSUME NEW i \in 1 .. Len(Append(chain, r)) - 1
          PROVE  /\ Append(chain, r)[i] < r
                 /\ runs[Append(chain, r)[i]].status \in Recoverable
        <3>1. i \in 1 .. Len(chain)
            BY <1>2, <1>3
        <3> QED  BY <1>3, <1>4, <3>1
    <2> QED  BY <1>3, <2>1, <2>2, <2>3 DEF AreAncestors
<1> QED  BY <1>3, <1>5

LEMMA LineageIsOfAncestors ==
    AdmissionTypeOK /\ SourceInv => \A r \in Created : AreAncestors(Lineage(r), r)
<1> SUFFICES ASSUME AdmissionTypeOK, SourceInv
             PROVE  \A r \in Created : AreAncestors(Lineage(r), r)
    OBVIOUS
<1> DEFINE Bad == {r \in Created : ~ AreAncestors(Lineage(r), r)}
<1>1. SUFFICES ASSUME Bad # {} PROVE FALSE
    BY <1>1
<1>2. PICK r \in Bad : \A s \in Bad : r <= s
    <2>1. Bad \subseteq Nat
        BY RunFacts
    <2> HIDE DEF Bad
    <2> QED  BY <1>1, <2>1, LeastElement
<1>3. r \in Created /\ r \in Nat /\ ~ AreAncestors(Lineage(r), r)
    BY <1>2, RunFacts
<1>4. CASE runs[r].source = 0
    <2>1. Lineage(r) = <<r>>
        BY <1>3, <1>4, LineageUnfolds DEF LineageEquation
    <2> HIDE DEF Bad
    <2> QED  BY <1>3, <2>1 DEF AreAncestors
<1>5. CASE runs[r].source # 0
    <2> DEFINE s == runs[r].source
    <2>1. s \in Created /\ s \in Nat /\ s < r
        BY <1>3, <1>5, RunFacts
    <2>2. s \notin Bad
        BY <1>2, <1>3, <2>1
    <2>3. AreAncestors(Lineage(s), s)
        BY <2>1, <2>2
    <2>4. Lineage(r) = Append(Lineage(s), r)
        BY <1>3, <1>5, LineageUnfolds DEF LineageEquation
    <2> QED  BY <1>3, <1>5, <2>3, <2>4, AncestorsExtend
<1> QED  BY <1>4, <1>5

-----------------------------------------------------------------------------
(* What the invariant says of each lineage.                                *)

\* A recovery inherits the last checkpoint of its nearest ancestor with one.
LEMMA NewestWorkIsKept ==
    AdmissionTypeOK /\ SourceInv => RecoveryKeepsNewestWork
<1> DEFINE Ancestors(r) == {Lineage(r)[n] : n \in 1 .. Len(Lineage(r)) - 1}
           Verified(r) == {s \in Ancestors(r) : runs[s].verified > 0}
           Newest(r) == CHOOSE s \in Verified(r) : \A t \in Verified(r) : t <= s
           Keeps(r) ==
               /\ Verified(r) = {} => runs[r].checkpoint = None
               /\ Verified(r) # {} =>
                      \E s \in Verified(r) :
                          /\ \A t \in Verified(r) : t <= s
                          /\ runs[r].checkpoint = [run |-> s, ordinal |-> runs[s].verified]
           Bad == {r \in Created : ~ Keeps(r)}
<1> SUFFICES ASSUME AdmissionTypeOK, SourceInv
             PROVE  RecoveryKeepsNewestWork
    OBVIOUS
<1>1. Created \subseteq Nat
    BY RunFacts
<1>2. Bad = {}
    <2>1. SUFFICES ASSUME Bad # {} PROVE FALSE
        OBVIOUS
    <2>2. PICK r \in Bad : \A s \in Bad : r <= s
        <3>1. Bad \subseteq Nat
            BY <1>1
        <3> HIDE DEF Bad
        <3> QED  BY <2>1, <3>1, LeastElement
    <2>3. r \in Created /\ r \in Nat /\ ~ Keeps(r)
        BY <2>2, <1>1
    <2>4. CASE runs[r].source = 0
        <3>1. Lineage(r) = <<r>>
            BY <2>3, <2>4, LineageUnfolds DEF LineageEquation
        <3>2. Ancestors(r) = {}
            BY <3>1
        <3>3. runs[r].checkpoint = None
            BY <2>3, <2>4 DEF AdmissionTypeOK
        <3> QED  BY <2>3, <3>2, <3>3
    <2>5. CASE runs[r].source # 0
        <3> DEFINE s == runs[r].source
                   chain == Lineage(s)
        <3>1. s \in Created /\ s \in Nat /\ s < r /\ runs[s].verified \in Nat
            BY <2>3, <2>5, RunFacts
        <3>2. Keeps(s)
            <4>1. ~ (r <= s)
                BY <2>3, <3>1
            <4> HIDE DEF Keeps
            <4>2. s \notin Bad
                <5> HIDE DEF Bad
                <5> QED  BY <2>2, <4>1
            <4> QED  BY <3>1, <4>2
        <3>3. Lineage(r) = Append(chain, r)
            BY <2>3, <2>5, LineageUnfolds DEF LineageEquation
        <3>4. AreAncestors(chain, s)
            BY <3>1, LineageIsOfAncestors
        <3>5. /\ Len(Lineage(r)) = Len(chain) + 1
              /\ \A i \in 1 .. Len(chain) : Lineage(r)[i] = chain[i]
            BY <2>3, <2>5, <3>3, <3>4, AncestorsExtend
        <3>6. /\ Len(chain) \in Nat \ {0} /\ chain[Len(chain)] = s
              /\ \A i \in 1 .. Len(chain) - 1 : chain[i] < s /\ chain[i] \in Created
            BY <3>4 DEF AreAncestors
        <3>7. Ancestors(r) = Ancestors(s) \cup {s}
            BY <3>5, <3>6
        <3>8. \A t \in Ancestors(s) : t < s
            BY <3>6
        <3>9. runs[r].checkpoint = SourceCheckpoint(s)
            BY <2>3, <2>5 DEF SourceInv
        <3>10. CASE runs[s].verified > 0
            <4>1. s \in Verified(r) /\ \A t \in Verified(r) : t <= s
                <5> HIDE DEF Ancestors, s
                <5>1. Ancestors(s) \subseteq Nat
                    BY <1>1, <3>6 DEF Ancestors
                <5> QED  BY <3>1, <3>7, <3>8, <3>10, <5>1
            <4>2. runs[r].checkpoint = [run |-> s, ordinal |-> runs[s].verified]
                BY <3>9, <3>10 DEF SourceCheckpoint
            <4> QED  BY <2>3, <4>1, <4>2
        <3>11. CASE ~ (runs[s].verified > 0)
            <4>1. Verified(r) = Verified(s)
                BY <3>7, <3>11
            <4>2. runs[r].checkpoint = runs[s].checkpoint
                BY <3>9, <3>11 DEF SourceCheckpoint
            <4> QED  BY <2>3, <3>2, <4>1, <4>2
        <3> QED  BY <3>10, <3>11
    <2> QED  BY <2>4, <2>5
<1>3. ASSUME NEW r \in Created
      PROVE  IF Verified(r) = {} THEN runs[r].checkpoint = None
             ELSE runs[r].checkpoint = [run |-> Newest(r), ordinal |-> runs[Newest(r)].verified]
    <2>1. Keeps(r)
        BY <1>2
    <2>2. CASE Verified(r) # {}
        <3>1. PICK s \in Verified(r) :
                  /\ \A t \in Verified(r) : t <= s
                  /\ runs[r].checkpoint = [run |-> s, ordinal |-> runs[s].verified]
            BY <2>1, <2>2
        <3>2. Verified(r) \subseteq Nat
            BY <1>1, LineageIsOfAncestors DEF AreAncestors
        <3> HIDE DEF Verified
        <3>3. Newest(r) = s
            BY <3>1, <3>2
        <3> QED  BY <2>2, <3>1, <3>3
    <2> QED  BY <2>1, <2>2
<1> QED  BY <1>3 DEF RecoveryKeepsNewestWork

\* The worker's check of an inherited checkpoint passes whatever the run: each
\* ancestor between it and the owner has ended and hands on what it was given.
LEMMA CheckpointsStayValid ==
    AdmissionTypeOK /\ SourceInv /\ PromptInv => \A r \in Created : CheckpointIsValid(r)
<1> DEFINE Bad == {r \in Created : ~ CheckpointIsValid(r)}
<1> SUFFICES ASSUME AdmissionTypeOK, SourceInv, PromptInv, Bad # {}
             PROVE  FALSE
    OBVIOUS
<1>1. PICK r \in Bad : \A s \in Bad : r <= s
    <2>1. Bad \subseteq Nat
        BY RunFacts
    <2> HIDE DEF Bad
    <2> QED  BY <2>1, LeastElement
<1>2. r \in Created /\ r \in Nat /\ runs[r].checkpoint # None /\ ~ InheritanceIsIntact(r)
    BY <1>1, RunFacts DEF CheckpointIsValid
<1>3. runs[r].source # 0
    BY <1>2 DEF AdmissionTypeOK
<1> DEFINE s == runs[r].source
           chain == Lineage(s)
           n == Len(chain)
<1>4. s \in Created /\ s \in Nat /\ s < r /\ runs[s].verified \in Nat
    BY <1>2, <1>3, RunFacts
<1>5. CheckpointIsValid(s)
    <2>1. ~ (r <= s)
        BY <1>2, <1>4
    <2>2. s \notin Bad
        <3> HIDE DEF Bad
        <3> QED  BY <1>1, <2>1
    <2> QED  BY <1>4, <2>2
<1>6. Lineage(r) = Append(chain, r)
    BY <1>2, <1>3, LineageUnfolds DEF LineageEquation
<1>7. AreAncestors(chain, s)
    BY <1>4, LineageIsOfAncestors
<1>8. /\ Len(Lineage(r)) = n + 1
      /\ \A i \in 1 .. n : Lineage(r)[i] = chain[i]
    BY <1>2, <1>3, <1>6, <1>7, AncestorsExtend
<1>9. n \in Nat \ {0} /\ chain[n] = s
    BY <1>7 DEF AreAncestors
<1>10. n + 1 <= MaxLineageRuns
    BY <1>2, <1>8 DEF PromptInv, PromptIsValid
<1>11. runs[s].status \in Recoverable /\ runs[r].checkpoint = SourceCheckpoint(s)
    BY <1>2, <1>3 DEF SourceInv
<1> DEFINE Intact(owner) ==
        /\ Lineage(r)[owner] = runs[r].checkpoint.run
        /\ n + 1 - owner <= MaxLineageRuns
        /\ \A i \in owner .. n : runs[Lineage(r)[i]].status \in Recoverable
        /\ \A i \in owner + 1 .. n : runs[Lineage(r)[i]].checkpoint = runs[r].checkpoint
<1>12. \A owner \in 1 .. n : ~ Intact(owner)
    <2> SUFFICES ASSUME NEW owner \in 1 .. n, Intact(owner)
                 PROVE  InheritanceIsIntact(r)
        BY <1>2
    <2>1. owner \in 1 .. Len(Lineage(r)) - 1 /\ Len(Lineage(r)) - 1 = n
        BY <1>8, <1>9
    <2>2. Len(Lineage(r)) - owner <= MaxLineageRuns
        BY <1>8
    <2> HIDE DEF n, chain, s
    <2> QED  BY <2>1, <2>2 DEF InheritanceIsIntact
<1>13. CASE runs[s].verified > 0
    <2>1. runs[r].checkpoint.run = s
        BY <1>11, <1>13 DEF SourceCheckpoint
    <2>2. Lineage(r)[n] = s
        BY <1>8, <1>9
    <2>3. 1 <= MaxLineageRuns
        BY LimitsAssumption
    <2>4. \A i \in n .. n : i = n
        BY <1>9
    <2>5. \A i \in n + 1 .. n : FALSE
        BY <1>9
    <2> HIDE DEF n, chain, s
    <2>6. n + 1 - n <= MaxLineageRuns
        BY <1>9, <2>3
    <2> QED  BY <1>9, <1>11, <1>12, <2>1, <2>2, <2>4, <2>5, <2>6
<1>14. CASE ~ (runs[s].verified > 0)
    <2>1. runs[r].checkpoint = runs[s].checkpoint
        BY <1>11, <1>14 DEF SourceCheckpoint
    <2>2. InheritanceIsIntact(s)
        BY <1>2, <1>5, <2>1 DEF CheckpointIsValid
    <2>3. PICK owner \in 1 .. n - 1 :
              /\ chain[owner] = runs[s].checkpoint.run
              /\ \A t \in {chain[i] : i \in owner .. n - 1} : runs[t].status \in Recoverable
              /\ \A t \in {chain[i] : i \in owner + 1 .. n - 1} :
                     runs[t].checkpoint = runs[s].checkpoint
        BY <2>2 DEF InheritanceIsIntact
    <2> HIDE DEF n, chain, s
    <2>4. owner \in 1 .. n /\ n + 1 - owner <= MaxLineageRuns
        BY <1>9, <1>10, <2>3, LimitsAssumption
    <2>5. ASSUME NEW i \in owner .. n PROVE runs[Lineage(r)[i]].status \in Recoverable
        <3>1. i \in 1 .. n /\ (i = n \/ i \in owner .. n - 1)
            BY <1>9, <2>4
        <3> QED  BY <1>8, <1>9, <1>11, <2>3, <3>1
    <2>6. ASSUME NEW i \in owner + 1 .. n
          PROVE  runs[Lineage(r)[i]].checkpoint = runs[r].checkpoint
        <3>1. i \in 1 .. n /\ (i = n \/ i \in owner + 1 .. n - 1)
            BY <1>9, <2>4
        <3> QED  BY <1>8, <1>9, <2>1, <2>3, <3>1
    <2>7. Lineage(r)[owner] = runs[r].checkpoint.run
        BY <1>8, <2>1, <2>3, <2>4
    <2> QED  BY <1>12, <2>4, <2>5, <2>6, <2>7
<1> QED  BY <1>13, <1>14

\* The size of a prompt sums up the contents of a lineage.
SizeEquation ==
    \A l \in Seq(Created) : \E z :
        /\ \A k \in 0 .. Len(l) :
               z[k] = IF k = 0 THEN 0 ELSE z[k - 1] + runs[l[k]].content
        /\ PromptSize(l) = z[Len(l)]

LEMMA PromptSizeUnfolds ==
    AdmissionTypeOK /\ SourceInv => SizeEquation
<1> SUFFICES ASSUME AdmissionTypeOK, SourceInv, NEW l \in Seq(Created)
             PROVE  \E z :
                        /\ \A k \in 0 .. Len(l) :
                               z[k] = IF k = 0 THEN 0 ELSE z[k - 1] + runs[l[k]].content
                        /\ PromptSize(l) = z[Len(l)]
    BY DEF SizeEquation
<1> DEFINE size == CHOOSE z : z = [k \in 0 .. Len(l) |-> IF k = 0 THEN 0
                                          ELSE z[k - 1] + runs[l[k]].content]
           w == [k \in 1 .. Len(l) |-> runs[l[k]].content]
<1>1. PromptSize(l) = size[Len(l)]
    BY DEF PromptSize
<1>2. Len(l) \in Nat /\ \A k \in 1 .. Len(l) : w[k] \in Nat
    <2>1. \A k \in 1 .. Len(l) : l[k] \in Created
        OBVIOUS
    <2> QED  BY <2>1, RunFacts
<1>3. \A k \in 1 .. Len(l) : w[k] = runs[l[k]].content
    OBVIOUS
<1> HIDE DEF w
<1>4. PICK z : z = [k \in 0 .. Len(l) |-> IF k = 0 THEN 0 ELSE z[k - 1] + w[k]]
    BY <1>2, SumsExist
<1>5. \A k \in 0 .. Len(l) : k # 0 => k \in 1 .. Len(l)
    BY <1>2
<1>6. z = [k \in 0 .. Len(l) |-> IF k = 0 THEN 0 ELSE z[k - 1] + runs[l[k]].content]
    BY <1>3, <1>4, <1>5, Zenon
<1>7. size = [k \in 0 .. Len(l) |-> IF k = 0 THEN 0 ELSE size[k - 1] + runs[l[k]].content]
    BY <1>6
<1> HIDE DEF size
<1>8. \A k \in 0 .. Len(l) :
          size[k] = IF k = 0 THEN 0 ELSE size[k - 1] + runs[l[k]].content
    BY <1>7
<1> QED  BY <1>1, <1>8

SizeExtension ==
    /\ PromptSize(<<>>) = 0
    /\ \A l \in Seq(Created), r \in Created :
           /\ PromptSize(l) \in Nat
           /\ PromptSize(Append(l, r)) = PromptSize(l) + runs[r].content

LEMMA PromptSizeExtends ==
    AdmissionTypeOK /\ SourceInv => SizeExtension
<1>0. ASSUME AdmissionTypeOK, SourceInv PROVE PromptSize(<<>>) = 0
    <2>1. /\ <<>> \in Seq(Created) /\ Len(<<>>) = 0 /\ 0 \in 0 .. 0
        OBVIOUS
    <2>2. PICK z : /\ \A k \in 0 .. Len(<<>>) :
                          z[k] = IF k = 0 THEN 0 ELSE z[k - 1] + runs[<<>>[k]].content
                   /\ PromptSize(<<>>) = z[Len(<<>>)]
        BY <1>0, <2>1, PromptSizeUnfolds, Zenon DEF SizeEquation
    <2> QED  BY <2>1, <2>2
<1> SUFFICES ASSUME AdmissionTypeOK, SourceInv, NEW l \in Seq(Created), NEW r \in Created
             PROVE  /\ PromptSize(l) \in Nat
                    /\ PromptSize(Append(l, r)) = PromptSize(l) + runs[r].content
    BY <1>0 DEF SizeExtension
<1> DEFINE n == Len(l)
           e == Append(l, r)
           v == [k \in 1 .. n |-> runs[l[k]].content]
           w == [k \in 1 .. n + 1 |-> runs[e[k]].content]
<1>1. /\ n \in Nat /\ e \in Seq(Created) /\ Len(e) = n + 1
      /\ e[n + 1] = r /\ \A k \in 1 .. n : e[k] = l[k]
    OBVIOUS
<1>2. PICK y : /\ \A k \in 0 .. n :
                      y[k] = IF k = 0 THEN 0 ELSE y[k - 1] + runs[l[k]].content
               /\ PromptSize(l) = y[n]
    BY PromptSizeUnfolds DEF SizeEquation
<1>3. PICK z : /\ \A k \in 0 .. n + 1 :
                      z[k] = IF k = 0 THEN 0 ELSE z[k - 1] + runs[e[k]].content
               /\ PromptSize(e) = z[n + 1]
    <2> HIDE DEF e
    <2> QED  BY <1>1, PromptSizeUnfolds DEF SizeEquation
<1>4. /\ \A k \in 1 .. n : v[k] = runs[l[k]].content /\ l[k] \in Created
      /\ \A k \in 1 .. n + 1 : w[k] = runs[e[k]].content
    OBVIOUS
<1> HIDE DEF v, w, e, n
<1>5. SameNumbers(v, w, n)
    <2>1. \A k \in 1 .. n : k \in 1 .. n + 1 /\ w[k] = runs[l[k]].content
        BY <1>1, <1>4
    <2>2. \A k \in 1 .. n : w[k] \in Nat /\ v[k] = w[k]
        BY <1>4, <2>1, RunFacts
    <2> QED  BY <2>2 DEF SameNumbers
<1>6. /\ \A k \in 0 .. n : k # 0 => k \in 1 .. n
      /\ \A k \in 0 .. n + 1 : k # 0 => k \in 1 .. n + 1
    BY <1>1
<1>7. IsSum(y, v, n) /\ IsSum(z, w, n + 1)
    <2>1. ASSUME NEW k \in 0 .. n
          PROVE  y[k] = IF k = 0 THEN 0 ELSE y[k - 1] + v[k]
        BY <1>2, <1>4, <1>6
    <2>2. ASSUME NEW k \in 0 .. n + 1
          PROVE  z[k] = IF k = 0 THEN 0 ELSE z[k - 1] + w[k]
        BY <1>3, <1>4, <1>6
    <2> QED  BY <2>1, <2>2 DEF IsSum
<1>8. n \in Nat /\ n + 1 \in Nat /\ n <= n + 1
    BY <1>1
<1>9. y[n] = z[n] /\ y[n] \in Nat
    BY <1>5, <1>7, <1>8, SumsAgree
<1>10. z[n + 1] = z[n] + runs[e[n + 1]].content
    BY <1>1, <1>3
<1> QED  BY <1>1, <1>2, <1>3, <1>9, <1>10 DEF e

-----------------------------------------------------------------------------
(* What no step changes.                                                   *)

\* The part of a run that is written once.
Frozen ==
    \A r \in Created : /\ r \in Created'
                       /\ runs'[r].source = runs[r].source
                       /\ runs'[r].content = runs[r].content

LEMMA LineageStays ==
    ASSUME AdmissionTypeOK, SourceInv, AdmissionTypeOK', SourceInv', Frozen
    PROVE  \A r \in Created : Lineage(r)' = Lineage(r)
<1> DEFINE Bad == {r \in Created : Lineage(r)' # Lineage(r)}
<1>1. SUFFICES ASSUME Bad # {} PROVE FALSE
    BY <1>1
<1>2. PICK r \in Bad : \A s \in Bad : r <= s
    <2>1. Bad \subseteq Nat
        BY RunFacts
    <2> HIDE DEF Bad
    <2> QED  BY <1>1, <2>1, LeastElement
<1>3. r \in Created /\ r \in Nat /\ r \in Created'
    BY <1>2, RunFacts DEF Frozen
<1>5. runs'[r].source = runs[r].source
    BY <1>3 DEF Frozen
<1>4. /\ Lineage(r) = IF runs[r].source = 0 THEN <<r>>
                      ELSE Append(Lineage(runs[r].source), r)
      /\ Lineage(r)' = IF runs'[r].source = 0 THEN <<r>>
                       ELSE Append(Lineage(runs[r].source)', r)
    <2>1. (AdmissionTypeOK /\ SourceInv => LineageEquation)'
        BY LineageUnfolds, PTL
    <2>2. Lineage(r)' = IF runs'[r].source = 0 THEN <<r>>
                        ELSE Append(Lineage(runs[r].source)', r)
        BY <1>3, <1>5, <2>1 DEF LineageEquation
    <2> QED  BY <1>3, <2>2, LineageUnfolds DEF LineageEquation
<1>6. runs[r].source # 0
    BY <1>2, <1>4, <1>5
<1> DEFINE s == runs[r].source
<1>7. s \in Created /\ ~ (r <= s)
    BY <1>3, <1>6, RunFacts
<1>8. s \notin Bad
    <2> HIDE DEF Bad, s
    <2> QED  BY <1>2, <1>7
<1> QED  BY <1>2, <1>4, <1>5, <1>6, <1>7, <1>8

LEMMA SizeStays ==
    ASSUME AdmissionTypeOK, SourceInv, AdmissionTypeOK', SourceInv', Frozen,
           NEW l \in Seq(Created)
    PROVE  PromptSize(l)' = PromptSize(l)
<1>1. l \in Seq(Created') /\ \A k \in 1 .. Len(l) : l[k] \in Created
    BY DEF Frozen
<1>2. PICK z : /\ \A k \in 0 .. Len(l) :
                      z[k] = IF k = 0 THEN 0 ELSE z[k - 1] + runs[l[k]].content
               /\ PromptSize(l) = z[Len(l)]
    BY PromptSizeUnfolds DEF SizeEquation
<1>3. PICK y : /\ \A k \in 0 .. Len(l) :
                      y[k] = IF k = 0 THEN 0 ELSE y[k - 1] + runs'[l[k]].content
               /\ PromptSize(l)' = y[Len(l)]
    <2>1. (AdmissionTypeOK /\ SourceInv => SizeEquation)'
        BY PromptSizeUnfolds, PTL
    <2> QED  BY <1>1, <2>1 DEF SizeEquation
<1> DEFINE v == [k \in 1 .. Len(l) |-> runs'[l[k]].content]
           w == [k \in 1 .. Len(l) |-> runs[l[k]].content]
<1>4. \A k \in 1 .. Len(l) : v[k] = runs'[l[k]].content /\ w[k] = runs[l[k]].content
    OBVIOUS
<1> HIDE DEF v, w
<1>5. SameNumbers(v, w, Len(l))
    <2>1. \A k \in 1 .. Len(l) : w[k] \in Nat /\ v[k] = w[k]
        BY <1>1, <1>4, RunFacts DEF Frozen
    <2> QED  BY <2>1 DEF SameNumbers
<1>6. Len(l) \in Nat /\ Len(l) <= Len(l)
    OBVIOUS
<1>7. \A k \in 0 .. Len(l) : k # 0 => k \in 1 .. Len(l)
    BY <1>6
<1>8. IsSum(y, v, Len(l)) /\ IsSum(z, w, Len(l))
    <2>1. ASSUME NEW k \in 0 .. Len(l)
          PROVE  /\ y[k] = IF k = 0 THEN 0 ELSE y[k - 1] + v[k]
                 /\ z[k] = IF k = 0 THEN 0 ELSE z[k - 1] + w[k]
        BY <1>2, <1>3, <1>4, <1>7
    <2> QED  BY <2>1 DEF IsSum
<1>9. y[Len(l)] = z[Len(l)]
    BY <1>5, <1>6, <1>8, SumsAgree
<1> QED  BY <1>2, <1>3, <1>9

LEMMA PromptsStayValid ==
    ASSUME AdmissionTypeOK, SourceInv, PromptInv,
           AdmissionTypeOK', SourceInv', Frozen
    PROVE  \A r \in Created : PromptIsValid(r)'
<1> SUFFICES ASSUME NEW r \in Created PROVE PromptIsValid(r)'
    OBVIOUS
<1>1. Lineage(r) \in Seq(Created) /\ Lineage(r)' = Lineage(r)
    BY LineageIsOfAncestors, LineageStays DEF AreAncestors
<1>2. \A l \in Seq(Created) : PromptSize(l)' = PromptSize(l)
    BY SizeStays
<1>3. PromptSize(Lineage(r))' = PromptSize(Lineage(r))
    BY <1>1, <1>2
<1>4. PromptIsValid(r)
    BY DEF PromptInv
<1> QED  BY <1>1, <1>3, <1>4 DEF PromptIsValid

-----------------------------------------------------------------------------
(* Requests.                                                               *)

\* A request whose key is not taken has no run of its own.
LEMMA UnusedKey ==
    ASSUME NEW request, RunOf(request.key) = {}
    PROVE  CreatedBy(request) = 0
BY DEF CreatedBy

\* The one run of a key answers the request that made it, and nothing else
\* can be mistaken for it.
LEMMA OriginalAnswers ==
    ASSUME OneRunPerKey, misled = {}, NEW c, NEW request, NEW knew,
           AnswerOriginal(c, request, knew)
    PROVE  call' = [call EXCEPT ![c] = None] /\ misled' = {}
<1>1. PICK r \in RunOf(request.key) :
          Finish(c, request, knew, IF SameRequest(request, r) THEN r ELSE 0)
    BY DEF AnswerOriginal
<1>2. RunOf(request.key) = {r}
    BY <1>1 DEF OneRunPerKey, RunOf
<1> DEFINE own == {s \in RunOf(request.key) :
                      /\ runs[s].source = request.source
                      /\ runs[s].content = request.content
                      /\ request.runtime \in {None, runs[s].runtime}}
<1>3. CreatedBy(request) = IF own = {} THEN 0 ELSE CHOOSE s \in own : TRUE
    BY DEF CreatedBy
<1>4. CASE own = {}
    BY <1>1, <1>3, <1>4 DEF Finish
<1>5. CASE own # {}
    <2>1. own = {r}
        BY <1>2, <1>5
    <2>2. SameRequest(request, r)
        BY <2>1 DEF SameRequest
    <2>3. (CHOOSE s \in own : TRUE) = r
        <3> HIDE DEF own
        <3> QED  BY <2>1
    <2>4. CreatedBy(request) = r
        <3> HIDE DEF own
        <3> QED  BY <1>3, <1>5, <2>3
    <2> QED  BY <1>1, <2>2, <2>4 DEF Finish
<1> QED  BY <1>4, <1>5

\* A transaction that answers or refuses, without a new run.
LEMMA AnswersKeepInvariant ==
    ASSUME AdmissionIInv, NEW c \in Clients,
           call' = [call EXCEPT ![c] = None], misled' = {},
           UNCHANGED <<runs, activeRun>>
    PROVE  AdmissionIInv'
<1>1. AdmissionTypeOK' /\ OneRunPerKey' /\ SourceInv'
    BY DEF AdmissionIInv, AdmissionTypeOK, OneRunPerKey, SourceInv, SourceCheckpoint, Created
<1>2. CallInv'
    BY DEF AdmissionIInv, AdmissionTypeOK, CallInv
<1>3. Frozen /\ Created' = Created
    BY DEF Frozen, Created
<1>4. PromptInv'
    BY <1>1, <1>3, PromptsStayValid DEF AdmissionIInv, PromptInv
<1> QED  BY <1>1, <1>2, <1>4 DEF AdmissionIInv

LEMMA LookUpKeepsInvariant ==
    ASSUME AdmissionIInv, NEW c \in Clients, NEW request \in Request, LookUp(c, request)
    PROVE  AdmissionIInv'
<1>1. /\ call[c] = None /\ request.source \in 0 .. Len(runs)
      /\ UNCHANGED <<runs, activeRun>>
    BY DEF LookUp
<1>2. CASE RunOf(request.key) # {}
    <2>1. AnswerOriginal(c, request, 0)
        BY <1>2 DEF LookUp
    <2>2. call' = [call EXCEPT ![c] = None] /\ misled' = {}
        BY <2>1, OriginalAnswers DEF AdmissionIInv
    <2> QED  BY <1>1, <2>2, AnswersKeepInvariant
<1>3. CASE RunOf(request.key) = {} /\ Finish(c, request, 0, 0)
    <2>1. CreatedBy(request) = 0
        BY <1>3, UnusedKey
    <2>2. call' = [call EXCEPT ![c] = None] /\ misled' = {}
        BY <1>3, <2>1 DEF Finish, AdmissionIInv
    <2> QED  BY <1>1, <2>2, AnswersKeepInvariant
<1>4. CASE RunOf(request.key) = {} /\ Proceed(c, request)
    <2>1. CreatedBy(request) = 0
        BY <1>4, UnusedKey
    <2>2. call' = [call EXCEPT ![c] = [request |-> request, knew |-> 0]] /\ misled' = {}
        BY <1>4, <2>1 DEF Proceed, AdmissionIInv
    <2>3. OneRunPerKey' /\ SourceInv'
        BY <1>1 DEF AdmissionIInv, OneRunPerKey, SourceInv, SourceCheckpoint, Created
    <2>4. AdmissionTypeOK'
        <3>1. [request |-> request, knew |-> 0] \in [request : Request, knew : 0 .. MaxRuns]
            BY LimitsAssumption
        <3> QED  BY <1>1, <2>2, <3>1 DEF AdmissionIInv, AdmissionTypeOK, Created
    <2>5. CallInv'
        BY <1>1, <2>2 DEF AdmissionIInv, AdmissionTypeOK, CallInv
    <2>6. Frozen /\ Created' = Created
        BY <1>1 DEF Frozen, Created
    <2>7. PromptInv'
        BY <2>3, <2>4, <2>6, PromptsStayValid DEF AdmissionIInv, PromptInv
    <2> QED  BY <2>2, <2>3, <2>4, <2>5, <2>7 DEF AdmissionIInv
<1> QED  BY <1>2, <1>3, <1>4 DEF LookUp

LEMMA RefusalKeepsInvariant ==
    ASSUME AdmissionIInv, NEW c \in Clients, RefuseByPolicy(c)
    PROVE  AdmissionIInv'
<1>1. call[c].knew = 0
    BY DEF RefuseByPolicy, AdmissionIInv, CallInv
<1>2. call' = [call EXCEPT ![c] = None] /\ misled' = {} /\ UNCHANGED <<runs, activeRun>>
    BY <1>1 DEF RefuseByPolicy, Finish, AdmissionIInv
<1> QED  BY <1>2, AnswersKeepInvariant

\* What both endpoints make sure of before they queue a run.
MayQueue(run) ==
    /\ run \in Run /\ RunOf(run.key) = {}
    /\ run.source \in 0 .. Len(runs) /\ run.verified = 0 /\ run.status = "queued"
    /\ run.source = 0 => run.checkpoint = None
    /\ run.source # 0 =>
           /\ runs[run.source].status \in Recoverable
           /\ run.checkpoint = SourceCheckpoint(run.source)
           /\ FollowUpFits(run.source, run.content)

LEMMA QueueKeepsInvariant ==
    ASSUME AdmissionIInv, NEW c \in Clients, NEW run, MayQueue(run), QueueRun(c, run)
    PROVE  AdmissionIInv'
<1>a. PICK n : n = Len(runs) + 1
    OBVIOUS
<1>0. AdmissionTypeOK /\ SourceInv /\ PromptInv /\ OneRunPerKey /\ CallInv /\ misled = {}
    BY DEF AdmissionIInv
<1>1. Len(runs) \in Nat /\ Created = 1 .. Len(runs) /\ runs \in Seq(Run)
    BY <1>0, RunFacts DEF AdmissionTypeOK
<1>2. /\ runs' = Append(runs, run) /\ n <= MaxRuns
      /\ activeRun' = (IF activeRun = 0 THEN n ELSE activeRun)
      /\ call' = [call EXCEPT ![c] = None] /\ misled' = {}
    BY <1>a, <1>0, <1>1, LimitsAssumption DEF QueueRun
<1>3. /\ runs' \in Seq(Run) /\ Len(runs') = n /\ Created' = 1 .. n
      /\ runs'[n] = run /\ \A r \in Created : runs'[r] = runs[r] /\ r \in Created'
      /\ n \in Created' /\ n \notin Created /\ Created' = Created \cup {n}
    BY <1>a, <1>1, <1>2 DEF MayQueue, Created
<1>4. Frozen
    BY <1>3 DEF Frozen
<1>5. AdmissionTypeOK'
    <2>1. \A r \in Created' : runs'[r].checkpoint # None => runs'[r].source # 0
        BY <1>0, <1>3 DEF MayQueue, AdmissionTypeOK
    <2>2. activeRun' \in 0 .. Len(runs')
        BY <1>a, <1>0, <1>1, <1>2, <1>3 DEF AdmissionTypeOK
    <2>3. call' \in [Clients -> {None} \cup [request : Request, knew : 0 .. MaxRuns]]
        BY <1>0, <1>2 DEF AdmissionTypeOK
    <2> QED  BY <1>2, <1>3, <2>1, <2>2, <2>3 DEF AdmissionTypeOK
<1>6. OneRunPerKey'
    <2>1. \A r \in Created : runs[r].key # run.key
        BY DEF MayQueue, RunOf
    <2> QED  BY <1>0, <1>3, <2>1 DEF OneRunPerKey
<1>7. CallInv'
    <2> SUFFICES ASSUME NEW d \in Clients, call'[d] # None
                 PROVE  /\ call'[d].knew = 0
                        /\ call'[d].request.source \in 0 .. Len(runs')
        BY DEF CallInv
    <2>1. call'[d] = call[d] /\ call[d] # None
        BY <1>0, <1>2 DEF AdmissionTypeOK
    <2>2. call[d].knew = 0 /\ call[d].request.source \in 0 .. Len(runs)
        BY <1>0, <2>1 DEF CallInv
    <2> QED  BY <1>a, <1>1, <1>3, <2>1, <2>2
<1>8. SourceInv'
    <2> SUFFICES ASSUME NEW r \in Created', runs'[r].source # 0
                 PROVE  /\ runs'[r].source < r
                        /\ runs'[runs'[r].source].status \in Recoverable
                        /\ runs'[r].checkpoint = SourceCheckpoint(runs[r].source)'
        BY DEF SourceInv
    <2>1. SourceCheckpoint(runs[r].source)' =
              IF runs'[runs'[r].source].verified > 0
              THEN [run |-> runs'[r].source, ordinal |-> runs'[runs'[r].source].verified]
              ELSE runs'[runs'[r].source].checkpoint
        BY DEF SourceCheckpoint
    <2>2. CASE r = n
        <3>1. run.source \in Created /\ run.source < n
            BY <1>a, <1>1, <1>3, <2>2 DEF MayQueue
        <3>2. run.checkpoint = SourceCheckpoint(run.source)
            BY <1>3, <2>2 DEF MayQueue
        <3> QED  BY <1>3, <2>1, <2>2, <3>1, <3>2 DEF MayQueue, SourceCheckpoint
    <2>3. CASE r # n
        <3>1. r \in Created /\ runs'[r] = runs[r]
            BY <1>3, <2>3
        <3>2. runs[r].source \in Created
            BY <1>0, <3>1, RunFacts
        <3> QED  BY <1>0, <1>3, <2>1, <3>1, <3>2 DEF SourceInv, SourceCheckpoint
    <2> QED  BY <2>2, <2>3
<1>9. PromptInv'
    <2>1. \A r \in Created : PromptIsValid(r)'
        BY <1>0, <1>4, <1>5, <1>8, PromptsStayValid
    <2>2. PromptIsValid(n)'
        <3>1. (AdmissionTypeOK /\ SourceInv => LineageEquation)'
            BY LineageUnfolds, PTL
        <3>2. (AdmissionTypeOK /\ SourceInv => SizeExtension)'
            BY PromptSizeExtends, PTL
        <3>3. \A l \in Seq(Created') :
                 PromptSize(Append(l, n))' = PromptSize(l)' + run.content
            BY <1>3, <1>5, <1>8, <3>2 DEF SizeExtension
        <3>4. CASE run.source = 0
            <4>0. run.content \in Contents
                BY DEF MayQueue, Run
            <4>1. Lineage(n)' = <<n>>
                BY <1>3, <1>5, <1>8, <3>1, <3>4 DEF LineageEquation
            <4>2. /\ <<>> \in Seq(Created') /\ Append(<<>>, n) = <<n>> /\ Len(<<n>>) = 1
                OBVIOUS
            <4>3. PromptSize(<<>>)' = 0
                BY <1>5, <1>8, <3>2 DEF SizeExtension
            <4>4. PromptSize(Append(<<>>, n))' = PromptSize(<<>>)' + run.content
                BY <3>3, <4>2
            <4>5. PromptSize(Lineage(n))' = run.content
                <5>1. PromptSize(<<n>>)' = PromptSize(Append(<<>>, n))'
                    BY <4>2
                <5>2. run.content \in Nat
                    <6>1. run.content \in 1 .. MaxPrompt
                        BY <4>0, LimitsAssumption
                    <6> QED  BY <6>1
                <5> QED  BY <4>1, <4>3, <4>4, <5>1, <5>2
            <4>6. run.content <= MaxPrompt /\ 1 <= MaxLineageRuns
                <5>1. run.content \in 1 .. MaxPrompt
                    <6>1. run.content \in 1 .. MaxPrompt
                        BY <4>0, LimitsAssumption
                    <6> QED  BY <6>1
                <5> QED  BY <5>1, LimitsAssumption
            <4> QED  BY <4>1, <4>2, <4>5, <4>6 DEF PromptIsValid
        <3>5. CASE run.source # 0
            <4> DEFINE s == run.source
            <4>1. s \in Created
                BY <1>1, <3>5 DEF MayQueue
            <4>2. Lineage(n)' = Append(Lineage(s), n)
                <5>1. Lineage(n)' = Append(Lineage(s)', n)
                    BY <1>3, <1>5, <1>8, <3>1, <3>5 DEF LineageEquation
                <5> QED  BY <1>0, <1>4, <1>5, <1>8, <4>1, <5>1, LineageStays
            <4>3. Lineage(s) \in Seq(Created) /\ Lineage(s) \in Seq(Created')
                <5>1. Lineage(s) \in Seq(Created)
                    BY <1>0, <4>1, LineageIsOfAncestors DEF AreAncestors
                <5>2. Created \subseteq Created'
                    BY <1>3
                <5> HIDE DEF s
                <5> QED  BY <5>1, <5>2
            <4>4. Len(Lineage(n))' = Len(Lineage(s)) + 1
                BY <4>2, <4>3
            <4>5. PromptSize(Lineage(n))' = PromptSize(Lineage(s)) + run.content
                <5>1. PICK l : l = Lineage(s)
                    OBVIOUS
                <5>2. l \in Seq(Created) /\ l \in Seq(Created') /\ Lineage(n)' = Append(l, n)
                    BY <4>2, <4>3, <5>1
                <5>3. PromptSize(Append(l, n))' = PromptSize(l)' + run.content
                    BY <3>3, <5>2
                <5>4. PromptSize(l)' = PromptSize(l)
                    BY <1>0, <1>4, <1>5, <1>8, <5>2, SizeStays
                <5>5. PromptSize(Lineage(n))' = PromptSize(Append(l, n))'
                    BY <5>2
                <5> QED  BY <5>1, <5>3, <5>4, <5>5
            <4>6. /\ Len(Lineage(s)) + 1 <= MaxLineageRuns
                  /\ PromptSize(Lineage(s)) + run.content <= MaxPrompt
                BY <3>5 DEF MayQueue, FollowUpFits
            <4> QED  BY <4>4, <4>5, <4>6 DEF PromptIsValid
        <3> QED  BY <3>4, <3>5
    <2> QED  BY <1>3, <2>1, <2>2 DEF PromptInv
<1> QED  BY <1>2, <1>5, <1>6, <1>7, <1>8, <1>9 DEF AdmissionIInv

LEMMA SelectedRuntime ==
    ASSUME AdmissionIInv, NEW c \in Clients, call[c] # None
    PROVE  call[c].request \in Request /\ call[c].request.source \in 0 .. Len(runs)
BY DEF AdmissionIInv, AdmissionTypeOK, CallInv

LEMMA MessageKeepsInvariant ==
    ASSUME AdmissionIInv, NEW c \in Clients, NEW runtime \in Runtimes,
           CreateMessageAndRun(c, runtime)
    PROVE  AdmissionIInv'
<1> DEFINE request == call[c].request
<1>1. /\ call[c] # None /\ request.source = 0
      /\ request \in Request /\ request.source \in 0 .. Len(runs)
    BY SelectedRuntime DEF CreateMessageAndRun
<1>2. CASE RunOf(request.key) # {}
    <2>1. /\ AnswerOriginal(c, request, call[c].knew)
          /\ UNCHANGED <<runs, activeRun>>
        BY <1>2 DEF CreateMessageAndRun
    <2>2. call' = [call EXCEPT ![c] = None] /\ misled' = {}
        BY <2>1, OriginalAnswers DEF AdmissionIInv
    <2> QED  BY <2>1, <2>2, AnswersKeepInvariant
<1>3. CASE /\ RunOf(request.key) = {}
           /\ Finish(c, request, call[c].knew, 0)
           /\ UNCHANGED <<runs, activeRun>>
    <2>1. CreatedBy(request) = 0
        BY <1>3, UnusedKey
    <2>2. call' = [call EXCEPT ![c] = None] /\ misled' = {}
        BY <1>3, <2>1 DEF Finish, AdmissionIInv
    <2> QED  BY <1>3, <2>2, AnswersKeepInvariant
<1>4. CASE /\ RunOf(request.key) = {}
           /\ QueueRun(c, NewRun(request, runtime))
    <2> DEFINE run == NewRun(request, runtime)
    <2>1. run \in Run
        BY <1>1, LimitsAssumption DEF Request, NewRun, Run
    <2>2. MayQueue(run)
        BY <1>1, <1>4, <2>1 DEF MayQueue, NewRun
    <2> HIDE DEF run
    <2> QED  BY <1>4, <2>2, QueueKeepsInvariant DEF run
<1> QED  BY <1>2, <1>3, <1>4 DEF CreateMessageAndRun

LEMMA InheritedCheckpoint ==
    ASSUME AdmissionTypeOK, SourceInv, NEW s \in Created
    PROVE  SourceCheckpoint(s) \in Checkpoint \cup {None}
<1>1. runs[s] \in Run /\ s \in 1 .. Len(runs)
    BY RunFacts
<1>2. s \in 1 .. MaxRuns
    BY <1>1, RunFacts, LimitsAssumption DEF AdmissionTypeOK
<1>3. runs[s].verified \in 0 .. MaxCheckpoints /\ runs[s].checkpoint \in Checkpoint \cup {None}
    BY <1>1 DEF Run
<1>4. runs[s].verified > 0 => runs[s].verified \in 1 .. MaxCheckpoints
    BY <1>3, LimitsAssumption
<1> QED  BY <1>2, <1>3, <1>4 DEF SourceCheckpoint, Checkpoint

LEMMA RecoveryKeepsInvariant ==
    ASSUME AdmissionIInv, NEW c \in Clients, NEW runtime \in Runtimes,
           CreateRecoveryMessageAndRun(c, runtime)
    PROVE  AdmissionIInv'
<1> DEFINE request == call[c].request
<1>0. AdmissionTypeOK /\ SourceInv
    BY DEF AdmissionIInv
<1>1. /\ call[c] # None /\ request.source # 0
      /\ request \in Request /\ request.source \in 0 .. Len(runs)
      /\ request.source \in Created
    BY <1>0, SelectedRuntime, RunFacts DEF CreateRecoveryMessageAndRun
<1>2. CASE RunOf(request.key) # {}
    <2>1. /\ AnswerOriginal(c, request, call[c].knew)
          /\ UNCHANGED <<runs, activeRun>>
        BY <1>2 DEF CreateRecoveryMessageAndRun
    <2>2. call' = [call EXCEPT ![c] = None] /\ misled' = {}
        BY <2>1, OriginalAnswers DEF AdmissionIInv
    <2> QED  BY <2>1, <2>2, AnswersKeepInvariant
<1>3. CASE /\ RunOf(request.key) = {}
           /\ Finish(c, request, call[c].knew, 0)
           /\ UNCHANGED <<runs, activeRun>>
    <2>1. CreatedBy(request) = 0
        BY <1>3, UnusedKey
    <2>2. call' = [call EXCEPT ![c] = None] /\ misled' = {}
        BY <1>3, <2>1 DEF Finish, AdmissionIInv
    <2> QED  BY <1>3, <2>2, AnswersKeepInvariant
<1>4. CASE /\ RunOf(request.key) = {}
           /\ runs[request.source].status \in Recoverable
           /\ FollowUpFits(request.source, request.content)
           /\ QueueRun(c, RecoveryRun(request, runtime))
    <2> DEFINE run == RecoveryRun(request, runtime)
    <2>1. run = [key |-> request.key, content |-> request.content,
                 source |-> request.source, runtime |-> runtime,
                 checkpoint |-> SourceCheckpoint(request.source),
                 verified |-> 0, status |-> "queued"]
        BY DEF RecoveryRun, NewRun
    <2>2. run \in Run
        BY <1>0, <1>1, <2>1, InheritedCheckpoint, LimitsAssumption DEF Request, Run
    <2>3. /\ run.key = request.key /\ run.content = request.content
          /\ run.source = request.source
          /\ run.checkpoint = SourceCheckpoint(request.source)
          /\ run.verified = 0 /\ run.status = "queued"
        BY <2>1
    <2> HIDE DEF run
    <2>4. MayQueue(run)
        BY <1>1, <1>4, <2>2, <2>3 DEF MayQueue
    <2> QED  BY <1>4, <2>4, QueueKeepsInvariant DEF run
<1> QED  BY <1>2, <1>3, <1>4 DEF CreateRecoveryMessageAndRun

-----------------------------------------------------------------------------
(* The life of a run.                                                      *)

\* A run that has not ended is nobody's source, so nothing rests on its
\* status or on its checkpoints.
LEMMA LiveRunMayChange ==
    ASSUME AdmissionIInv, NEW r \in Created, NEW status, NEW verified,
           runs[r].status \notin Recoverable,
           status \in Terminal \cup {"queued", "running", "waiting_for_user"},
           verified \in 0 .. MaxCheckpoints,
           runs' = [runs EXCEPT ![r] = [runs[r] EXCEPT !.status = status,
                                                       !.verified = verified]],
           activeRun' \in 0 .. Len(runs), UNCHANGED <<call, misled>>
    PROVE  AdmissionIInv'
<1>0. AdmissionTypeOK /\ SourceInv /\ PromptInv /\ OneRunPerKey /\ CallInv /\ misled = {}
    BY DEF AdmissionIInv
<1> DEFINE run == [runs[r] EXCEPT !.status = status, !.verified = verified]
<1>1. /\ Len(runs) \in Nat /\ Created = 1 .. Len(runs) /\ runs \in Seq(Run)
      /\ runs[r] \in Run
    BY <1>0, RunFacts DEF AdmissionTypeOK
<1>2. /\ run \in Run /\ run.source = runs[r].source /\ run.key = runs[r].key
      /\ run.content = runs[r].content /\ run.checkpoint = runs[r].checkpoint
    BY <1>1 DEF Run
<1>3. runs' = [runs EXCEPT ![r] = run]
    OBVIOUS
<1> HIDE DEF run
<1>4. /\ runs' \in Seq(Run) /\ Len(runs') = Len(runs) /\ Created' = Created
      /\ runs'[r] = run /\ \A s \in Created : s # r => runs'[s] = runs[s]
    BY <1>1, <1>2, <1>3 DEF Created
<1>5. \A s \in Created : /\ runs'[s].source = runs[s].source
                         /\ runs'[s].content = runs[s].content
                         /\ runs'[s].key = runs[s].key
                         /\ runs'[s].checkpoint = runs[s].checkpoint
    BY <1>2, <1>4
<1>6. Frozen
    BY <1>4, <1>5 DEF Frozen
<1>7. AdmissionTypeOK'
    BY <1>0, <1>4, <1>5 DEF AdmissionTypeOK
<1>8. OneRunPerKey' /\ CallInv'
    BY <1>0, <1>4, <1>5 DEF OneRunPerKey, CallInv
<1>9. SourceInv'
    <2> SUFFICES ASSUME NEW t \in Created', runs'[t].source # 0
                 PROVE  /\ runs'[t].source < t
                        /\ runs'[runs'[t].source].status \in Recoverable
                        /\ runs'[t].checkpoint = SourceCheckpoint(runs[t].source)'
        BY DEF SourceInv
    <2>1. SourceCheckpoint(runs[t].source)' =
              IF runs'[runs'[t].source].verified > 0
              THEN [run |-> runs'[t].source, ordinal |-> runs'[runs'[t].source].verified]
              ELSE runs'[runs'[t].source].checkpoint
        BY DEF SourceCheckpoint
    <2>2. /\ t \in Created /\ runs[t].source # 0 /\ runs'[t].source = runs[t].source
          /\ runs'[t].checkpoint = runs[t].checkpoint
        BY <1>4, <1>5
    <2>3. /\ runs[t].source < t /\ runs[runs[t].source].status \in Recoverable
          /\ runs[t].checkpoint = SourceCheckpoint(runs[t].source)
          /\ runs[t].source \in Created
        BY <1>0, <2>2, RunFacts DEF SourceInv
    <2>4. runs'[runs[t].source] = runs[runs[t].source]
        BY <1>4, <2>3
    <2> QED  BY <2>1, <2>2, <2>3, <2>4 DEF SourceCheckpoint
<1>10. PromptInv'
    BY <1>0, <1>4, <1>6, <1>7, <1>9, PromptsStayValid DEF PromptInv
<1> QED  BY <1>0, <1>7, <1>8, <1>9, <1>10 DEF AdmissionIInv

\* The same for a change of status alone.
LEMMA LiveStatusMayChange ==
    ASSUME AdmissionIInv, NEW r \in Created, NEW status,
           runs[r].status \notin Recoverable,
           status \in Terminal \cup {"queued", "running", "waiting_for_user"},
           SetStatus(r, status),
           activeRun' \in 0 .. Len(runs), UNCHANGED <<call, misled>>
    PROVE  AdmissionIInv'
<1>1. /\ runs[r] \in Run /\ runs[r].verified \in 0 .. MaxCheckpoints
    BY RunFacts DEF AdmissionIInv, Run
<1>2. [runs[r] EXCEPT !.status = status] =
          [runs[r] EXCEPT !.status = status, !.verified = runs[r].verified]
    BY <1>1 DEF Run
<1>3. runs' = [runs EXCEPT ![r] = [runs[r] EXCEPT !.status = status,
                                                  !.verified = runs[r].verified]]
    BY <1>2 DEF SetStatus
<1> QED  BY <1>1, <1>3, LiveRunMayChange

LEMMA OldestIsARun ==
    ASSUME NEW S \in SUBSET Nat
    PROVE  Oldest(S) \in S \cup {0}
<1>1. CASE S = {}
    BY <1>1 DEF Oldest
<1>2. CASE S # {}
    <2>1. \E r \in S : \A s \in S : r <= s
        BY <1>2, LeastElement
    <2> QED  BY <1>2, <2>1 DEF Oldest
<1> QED  BY <1>1, <1>2

LEMMA ProgressKeepsInvariant ==
    ASSUME AdmissionIInv, NEW r \in Created,
           \/ Start(r) \/ RecordVerifiedCheckpoint(r) \/ WaitForUserInput(r)
           \/ AnswerUserInput(r) \/ \E status \in Outcomes : End(r, status)
    PROVE  AdmissionIInv'
<1>1. /\ Len(runs) \in Nat /\ Created = 1 .. Len(runs) /\ activeRun \in 0 .. Len(runs)
      /\ runs[r] \in Run /\ runs[r].verified \in 0 .. MaxCheckpoints
    BY RunFacts DEF AdmissionIInv, AdmissionTypeOK, Run
<1>2. CASE Start(r)
    BY <1>1, <1>2, LiveStatusMayChange DEF Start, Recoverable
<1>3. CASE RecordVerifiedCheckpoint(r)
    <2>1. [runs[r] EXCEPT !.verified = @ + 1] =
              [runs[r] EXCEPT !.status = runs[r].status, !.verified = runs[r].verified + 1]
        BY <1>1 DEF Run
    <2>2. runs' = [runs EXCEPT ![r] = [runs[r] EXCEPT !.status = runs[r].status,
                                           !.verified = runs[r].verified + 1]]
        BY <1>3, <2>1 DEF RecordVerifiedCheckpoint
    <2>3. runs[r].verified + 1 \in 0 .. MaxCheckpoints
        BY <1>1, <1>3, LimitsAssumption DEF RecordVerifiedCheckpoint
    <2> QED  BY <1>1, <1>3, <2>2, <2>3, LiveRunMayChange
             DEF RecordVerifiedCheckpoint, Recoverable
<1>4. CASE WaitForUserInput(r)
    BY <1>1, <1>4, LiveStatusMayChange DEF WaitForUserInput, Recoverable
<1>5. CASE AnswerUserInput(r)
    BY <1>1, <1>5, LiveStatusMayChange DEF AnswerUserInput, Recoverable
<1>6. ASSUME NEW status \in Outcomes, End(r, status)
      PROVE  AdmissionIInv'
    <2>1. Queued \ {r} \in SUBSET Nat /\ Queued \subseteq 1 .. Len(runs)
        BY <1>1 DEF Queued
    <2>2. activeRun' \in 0 .. Len(runs)
        <3>1. activeRun' = Oldest(Queued \ {r})
            BY <1>6 DEF End
        <3>2. activeRun' \in (Queued \ {r}) \cup {0}
            BY <2>1, <3>1, OldestIsARun
        <3> QED  BY <1>1, <2>1, <3>2
    <2>3. status \in Terminal
        BY OutcomesAssumption
    <2> QED  BY <1>6, <2>2, <2>3, LiveStatusMayChange DEF End, Recoverable
<1> QED  BY <1>2, <1>3, <1>4, <1>5, <1>6

-----------------------------------------------------------------------------
(* The theorems.                                                           *)

\* Types, one run per key, truthful answers and startable runs are inductive
\* together with what a recovery rests on.
THEOREM AdmissionInvariantHolds == Spec => []AdmissionIInv
<1>1. Init => AdmissionIInv
    <2> SUFFICES ASSUME Init PROVE AdmissionIInv
        OBVIOUS
    <2>1. runs = <<>> /\ Len(runs) = 0 /\ Created = {} /\ runs \in Seq(Run)
        BY DEF Init, Created
    <2> QED  BY <2>1, LimitsAssumption
             DEF Init, AdmissionIInv, AdmissionTypeOK, OneRunPerKey, CallInv, SourceInv, PromptInv
<1>2. AdmissionIInv /\ [Next]_vars => AdmissionIInv'
    <2> SUFFICES ASSUME AdmissionIInv, [Next]_vars PROVE AdmissionIInv'
        OBVIOUS
    <2>1. CASE UNCHANGED vars
        <3>1. AdmissionTypeOK' /\ OneRunPerKey' /\ SourceInv' /\ CallInv' /\ misled' = {}
            BY <2>1 DEF vars, AdmissionIInv, AdmissionTypeOK, OneRunPerKey, SourceInv,
                        CallInv, SourceCheckpoint, Created
        <3>2. Frozen /\ Created' = Created
            BY <2>1 DEF vars, Frozen, Created
        <3>3. PromptInv'
            BY <3>1, <3>2, PromptsStayValid DEF AdmissionIInv, PromptInv
        <3> QED  BY <3>1, <3>3 DEF AdmissionIInv
    <2>2. CASE Serve
        BY <2>2, LookUpKeepsInvariant, RefusalKeepsInvariant, MessageKeepsInvariant,
           RecoveryKeepsInvariant DEF Serve
    <2>3. CASE Progress
        BY <2>3, ProgressKeepsInvariant DEF Progress
    <2> QED  BY <2>1, <2>2, <2>3 DEF Next
<1> QED  BY <1>1, <1>2, PTL DEF Spec

\* However the attempts of a request overlap, its key is one run.
THEOREM OneRunPerKeyHolds == Spec => []AdmissionInvariant
<1>1. AdmissionIInv => AdmissionInvariant
    BY DEF AdmissionIInv, AdmissionInvariant
<1> QED  BY <1>1, AdmissionInvariantHolds, PTL

\* A request that made a run is never answered with another run, with a
\* conflict or, looked up again, with a refusal.
THEOREM RetryGetsItsRunHolds == Spec => []RetryGetsItsRun
<1>1. AdmissionIInv => RetryGetsItsRun
    BY DEF AdmissionIInv, RetryGetsItsRun
<1> QED  BY <1>1, AdmissionInvariantHolds, PTL

\* The worker's checks of a run that was admitted never fail later.
THEOREM AdmittedRunCanStartHolds == Spec => []AdmittedRunCanStart
<1>1. AdmissionIInv => AdmittedRunCanStart
    BY CheckpointsStayValid DEF AdmissionIInv, AdmittedRunCanStart, PromptInv
<1> QED  BY <1>1, AdmissionInvariantHolds, PTL

\* A recovery, and a recovery of recoveries, builds on the newest verified
\* work of its chain.
THEOREM RecoveryKeepsNewestWorkHolds == Spec => []RecoveryKeepsNewestWork
<1>1. AdmissionIInv => RecoveryKeepsNewestWork
    BY NewestWorkIsKept DEF AdmissionIInv
<1> QED  BY <1>1, AdmissionInvariantHolds, PTL
=============================================================================
