----------------------- MODULE WallfacerElectionProofs -----------------------
(***************************************************************************)
(* Proofs about WallfacerElection: whatever elections, rollbacks and       *)
(* resignations follow each other, for any number of wallfacers, miners    *)
(* and assets and any replace queues, the committee keeps its size and an  *)
(* election that failed leaves nothing behind.                             *)
(***************************************************************************)
EXTENDS Integers, WallfacerElection, SumTheorems, SequenceTheorems, NaturalsInduction

\* A non-empty set of naturals has a smallest member.
LEMMA SmallestOf ==
  ASSUME NEW B, B \subseteq Nat, B # {}
  PROVE  \E n \in B : \A m \in B : n <= m
<1>1. PICK n \in B : \A m \in B : ~ (<<m, n>> \in OpToRel(<, Nat))
  BY NatLessThanWellFounded, WFMin
<1>2. \A m \in B : ~ (m < n)
  BY <1>1 DEF OpToRel
<1> QED BY <1>2

-----------------------------------------------------------------------------
(* Replace queues.                                                          *)

Kinds == {"PERMANENT", "EXTERNAL"}
Committee == [ok : BOOLEAN, formal : SUBSET Wallfacers, kind : [Wallfacers -> Kinds]]

\* The wallfacers that the first n queues of ops make formal, and those they
\* replace.
Added(ops, n) == UNION {DOMAIN ops[i] : i \in 1 .. n}
Removed(ops, n) == UNION {Range(ops[i]) : i \in 1 .. n}

\* What the creation of an election has checked of its queues: nobody is both made
\* formal and replaced, and each new wallfacer replaces another one.
Agreed(ops) ==
  /\ \A i, j \in 1 .. Len(ops) : DOMAIN ops[i] \cap Range(ops[j]) = {}
  /\ \A i \in 1 .. Len(ops) : UniqueTargets(ops[i])

\* The committee g is f after the first n queues were applied.
Exchanged(ops, n, f, g) ==
  /\ Added(ops, n) \cap f = {}
  /\ Removed(ops, n) \subseteq f
  /\ Cardinality(Added(ops, n)) = Cardinality(Removed(ops, n))
  /\ g = (f \ Removed(ops, n)) \cup Added(ops, n)

LEMMA QueueShape ==
  ASSUME NEW q \in Queues
  PROVE  DOMAIN q \subseteq Wallfacers /\ Range(q) \subseteq Wallfacers
<1>1. PICK S \in SUBSET Wallfacers : q \in [S -> Wallfacers]
  BY DEF Queues
<1> QED BY <1>1 DEF Range

LEMMA OpsShape ==
  ASSUME NEW ops \in Elections \cup Referenda
  PROVE  /\ ops \in Seq(Queues) /\ Len(ops) \in Nat /\ Len(ops) >= 1
         /\ DOMAIN ops = 1 .. Len(ops)
         /\ \A i \in 1 .. Len(ops) : /\ DOMAIN ops[i] \subseteq Wallfacers
                                     /\ Range(ops[i]) \subseteq Wallfacers
<1>1. ops \in Seq(Queues) /\ ops # <<>>
  BY ElectionAssumption
<1>2. Len(ops) \in Nat /\ DOMAIN ops = 1 .. Len(ops)
  BY <1>1, LenProperties
<1>3. Len(ops) # 0
  BY <1>1, EmptySeq
<1>4. \A i \in 1 .. Len(ops) : ops[i] \in Queues
  BY <1>1, ElementOfSeq
<1> QED BY <1>1, <1>2, <1>3, <1>4, QueueShape

\* Sets of wallfacers are finite.
LEMMA Finite ==
  ASSUME NEW S, S \subseteq Wallfacers
  PROVE  IsFiniteSet(S) /\ Cardinality(S) \in Nat
<1>1. IsFiniteSet(S)
  BY FS_Subset, ElectionAssumption
<1> QED BY <1>1, FS_CardinalityType

LEMMA SmallerPart ==
  ASSUME NEW S, S \subseteq Wallfacers, NEW T, T \subseteq S
  PROVE  Cardinality(T) <= Cardinality(S)
  BY Finite, FS_Subset

\* Adding members that are not there adds their number.
LEMMA Joined ==
  ASSUME NEW S, S \subseteq Wallfacers, NEW T, T \subseteq Wallfacers, S \cap T = {}
  PROVE  Cardinality(S \cup T) = Cardinality(S) + Cardinality(T)
<1>1. IsFiniteSet(S) /\ IsFiniteSet(T) /\ Cardinality(S) \in Nat /\ Cardinality(T) \in Nat
  BY Finite
<1>2. Cardinality(S \cup T) = Cardinality(S) + Cardinality(T) - Cardinality(S \cap T)
  BY <1>1, FS_Union
<1> QED BY <1>1, <1>2, FS_EmptySet

\* Exchanging members for as many new ones keeps the size.
LEMMA ExchangeSize ==
  ASSUME NEW f, f \subseteq Wallfacers, NEW D, D \subseteq Wallfacers, NEW R, R \subseteq f,
         D \cap f = {}, Cardinality(R) = Cardinality(D)
  PROVE  Cardinality((f \ R) \cup D) = Cardinality(f)
<1>1. Cardinality(f) = Cardinality(f \ R) + Cardinality(R)
  <2>1. (f \ R) \cup R = f /\ (f \ R) \cap R = {} /\ f \ R \subseteq Wallfacers /\ R \subseteq Wallfacers
    OBVIOUS
  <2>2. Cardinality((f \ R) \cup R) = Cardinality(f \ R) + Cardinality(R)
    BY ONLY <2>1, Joined
  <2> QED BY <2>1, <2>2
<1>2. Cardinality((f \ R) \cup D) = Cardinality(f \ R) + Cardinality(D)
  <2>1. (f \ R) \cap D = {} /\ f \ R \subseteq Wallfacers
    OBVIOUS
  <2> QED BY <2>1, Joined
<1> QED BY <1>1, <1>2

\* Taking back an exchange of which some have resigned: the committee is as large as
\* it would be had they stayed, and no smaller than it is.
LEMMA TakeBackSize ==
  ASSUME NEW f, f \subseteq Wallfacers, NEW D, D \subseteq Wallfacers,
         NEW R, R \subseteq Wallfacers,
         R \cap f = {}, Cardinality(R) = Cardinality(D)
  PROVE  /\ Cardinality((f \ D) \cup R) = Cardinality(f \cup D)
         /\ Cardinality(f) <= Cardinality((f \ D) \cup R)
<1>1. Cardinality((f \ D) \cup R) = Cardinality(f \ D) + Cardinality(R)
  <2>1. (f \ D) \cap R = {} /\ f \ D \subseteq Wallfacers
    OBVIOUS
  <2> QED BY <2>1, Joined
<1>2. Cardinality(f \cup D) = Cardinality(f \ D) + Cardinality(D)
  <2>1. (f \ D) \cap D = {} /\ f \ D \subseteq Wallfacers /\ (f \ D) \cup D = f \cup D
    OBVIOUS
  <2>2. Cardinality((f \ D) \cup D) = Cardinality(f \ D) + Cardinality(D)
    BY ONLY <2>1, D \subseteq Wallfacers, Joined
  <2> QED BY <2>1, <2>2
<1>3. Cardinality(f) <= Cardinality(f \cup D)
  <2>1. f \cup D \subseteq Wallfacers /\ f \subseteq f \cup D
    OBVIOUS
  <2> QED BY ONLY <2>1, SmallerPart
<1> QED BY <1>1, <1>2, <1>3

LEMMA NoneAdded ==
  ASSUME NEW ops
  PROVE  Added(ops, 0) = {} /\ Removed(ops, 0) = {}
<1>1. 1 .. 0 = {}
  OBVIOUS
<1> QED BY <1>1 DEF Added, Removed

LEMMA OneMore ==
  ASSUME NEW ops, NEW n \in Nat \ {0}
  PROVE  /\ Added(ops, n) = Added(ops, n - 1) \cup DOMAIN ops[n]
         /\ Removed(ops, n) = Removed(ops, n - 1) \cup Range(ops[n])
<1>1. 1 .. n = (1 .. (n - 1)) \cup {n}
  OBVIOUS
<1> QED BY <1>1 DEF Added, Removed

\* The unions of the queues of an election, and what has been agreed of them.
LEMMA AddedShape ==
  ASSUME NEW ops \in Elections \cup Referenda, NEW n \in 0 .. Len(ops)
  PROVE  /\ Added(ops, n) \subseteq Wallfacers /\ Removed(ops, n) \subseteq Wallfacers
         /\ \A i \in 1 .. n : DOMAIN ops[i] \subseteq Added(ops, n) /\ Range(ops[i]) \subseteq Removed(ops, n)
         /\ Agreed(ops) => \A i \in 1 .. Len(ops) : /\ DOMAIN ops[i] \cap Removed(ops, n) = {}
                                                    /\ Range(ops[i]) \cap Added(ops, n) = {}
         /\ Agreed(ops) => Added(ops, n) \cap Removed(ops, n) = {}
<1>1. Len(ops) \in Nat /\ \A i \in 1 .. n : i \in 1 .. Len(ops)
  BY OpsShape
<1>2. \A i \in 1 .. n : DOMAIN ops[i] \subseteq Wallfacers /\ Range(ops[i]) \subseteq Wallfacers
  BY <1>1, OpsShape
<1>3. \A i \in 1 .. n : DOMAIN ops[i] \subseteq Added(ops, n) /\ Range(ops[i]) \subseteq Removed(ops, n)
  BY DEF Added, Removed
<1>4. Added(ops, n) \subseteq Wallfacers /\ Removed(ops, n) \subseteq Wallfacers
  BY <1>2 DEF Added, Removed
<1>5. ASSUME Agreed(ops), NEW i \in 1 .. Len(ops)
      PROVE  DOMAIN ops[i] \cap Removed(ops, n) = {} /\ Range(ops[i]) \cap Added(ops, n) = {}
  <2>1. \A j \in 1 .. n : DOMAIN ops[i] \cap Range(ops[j]) = {} /\ DOMAIN ops[j] \cap Range(ops[i]) = {}
    BY <1>1, <1>5 DEF Agreed
  <2> QED BY <2>1 DEF Added, Removed
<1>6. ASSUME Agreed(ops) PROVE Added(ops, n) \cap Removed(ops, n) = {}
  BY <1>1, <1>5, <1>6 DEF Added
<1> QED BY <1>3, <1>4, <1>5, <1>6
-----------------------------------------------------------------------------
(* Pushing and taking back the operations of an election.                   *)

\* The equations of the recursive functions in Pushed and RolledBack, up to
\* operation k.
IsPushed(a, k, r) ==
  a = [n \in 0 .. k |-> IF n = 0 THEN Current ELSE apply_operation(r, a[n - 1], r.ops[n])]
IsRolledBack(a, k, r) ==
  a = [n \in 0 .. k |-> IF n = 0 THEN formal ELSE TakenBack(a[n - 1], r.ops[n])]

LEMMA PushedExists ==
  ASSUME NEW m \in Nat, NEW r
  PROVE  \E a : IsPushed(a, m, r)
<1> DEFINE Step(a, n) == IF n = 0 THEN Current ELSE apply_operation(r, a[n - 1], r.ops[n])
           B == {k \in Nat : ~ \E a : IsPushed(a, k, r)}
<1> SUFFICES ASSUME B # {} PROVE FALSE
  OBVIOUS
<1>1. PICK k \in B : \A j \in B : k <= j
  <2>1. B \subseteq Nat
    OBVIOUS
  <2> HIDE DEF B
  <2> QED BY ONLY <2>1, B # {}, SmallestOf
<1>2. CASE k = 0
  <2> DEFINE a == [n \in 0 .. 0 |-> Current]
  <2>1. a = [n \in 0 .. 0 |-> Step(a, n)]
    OBVIOUS
  <2>2. IsPushed(a, 0, r)
    BY <2>1 DEF IsPushed
  <2> QED BY <2>2, <1>2
<1>3. CASE k # 0
  <2>1. k \in Nat /\ k - 1 \in Nat
    BY <1>3
  <2>2. k - 1 \notin B
    BY <1>1, <2>1
  <2>3. PICK a : IsPushed(a, k - 1, r)
    BY <2>1, <2>2
  <2>4. \A n \in 0 .. (k - 1) : a[n] = Step(a, n)
    BY <2>3 DEF IsPushed
  <2> DEFINE e == [n \in 0 .. k |-> IF n < k THEN a[n] ELSE apply_operation(r, a[k - 1], r.ops[k])]
  <2>5. ASSUME NEW n \in 0 .. k PROVE e[n] = Step(e, n)
    <3>1. CASE n = 0
      <4>1. e[0] = a[0] /\ 0 \in 0 .. (k - 1)
        BY <2>1, <1>3
      <4> QED BY <4>1, <3>1, <2>4
    <3>2. CASE n # 0 /\ n < k
      <4>1. e[n] = a[n] /\ e[n - 1] = a[n - 1] /\ n \in 0 .. (k - 1)
        BY <2>1, <3>2
      <4> QED BY <4>1, <3>2, <2>4
    <3>3. CASE n = k
      <4>1. e[k] = apply_operation(r, a[k - 1], r.ops[k]) /\ e[k - 1] = a[k - 1]
        BY <2>1
      <4> QED BY <4>1, <3>3, <1>3
    <3> QED BY <3>1, <3>2, <3>3, <2>1
  <2>6. IsPushed(e, k, r)
    <3>1. e = [n \in 0 .. k |-> e[n]]
      OBVIOUS
    <3> HIDE DEF e
    <3> QED BY <3>1, <2>5 DEF IsPushed
  <2> QED BY <2>6
<1> QED BY <1>2, <1>3

LEMMA RolledBackExists ==
  ASSUME NEW m \in Nat, NEW r
  PROVE  \E a : IsRolledBack(a, m, r)
<1> DEFINE Step(a, n) == IF n = 0 THEN formal ELSE TakenBack(a[n - 1], r.ops[n])
           B == {k \in Nat : ~ \E a : IsRolledBack(a, k, r)}
<1> SUFFICES ASSUME B # {} PROVE FALSE
  OBVIOUS
<1>1. PICK k \in B : \A j \in B : k <= j
  <2>1. B \subseteq Nat
    OBVIOUS
  <2> HIDE DEF B
  <2> QED BY ONLY <2>1, B # {}, SmallestOf
<1>2. CASE k = 0
  <2> DEFINE a == [n \in 0 .. 0 |-> formal]
  <2>1. a = [n \in 0 .. 0 |-> Step(a, n)]
    OBVIOUS
  <2>2. IsRolledBack(a, 0, r)
    BY <2>1 DEF IsRolledBack
  <2> QED BY <2>2, <1>2
<1>3. CASE k # 0
  <2>1. k \in Nat /\ k - 1 \in Nat
    BY <1>3
  <2>2. k - 1 \notin B
    BY <1>1, <2>1
  <2>3. PICK a : IsRolledBack(a, k - 1, r)
    BY <2>1, <2>2
  <2>4. \A n \in 0 .. (k - 1) : a[n] = Step(a, n)
    BY <2>3 DEF IsRolledBack
  <2> DEFINE e == [n \in 0 .. k |-> IF n < k THEN a[n] ELSE TakenBack(a[k - 1], r.ops[k])]
  <2>5. ASSUME NEW n \in 0 .. k PROVE e[n] = Step(e, n)
    <3>1. CASE n = 0
      <4>1. e[0] = a[0] /\ 0 \in 0 .. (k - 1)
        BY <2>1, <1>3
      <4> QED BY <4>1, <3>1, <2>4
    <3>2. CASE n # 0 /\ n < k
      <4>1. e[n] = a[n] /\ e[n - 1] = a[n - 1] /\ n \in 0 .. (k - 1)
        BY <2>1, <3>2
      <4> QED BY <4>1, <3>2, <2>4
    <3>3. CASE n = k
      <4>1. e[k] = TakenBack(a[k - 1], r.ops[k]) /\ e[k - 1] = a[k - 1]
        BY <2>1
      <4> QED BY <4>1, <3>3, <1>3
    <3> QED BY <3>1, <3>2, <3>3, <2>1
  <2>6. IsRolledBack(e, k, r)
    <3>1. e = [n \in 0 .. k |-> e[n]]
      OBVIOUS
    <3> HIDE DEF e
    <3> QED BY <3>1, <2>5 DEF IsRolledBack
  <2> QED BY <2>6
<1> QED BY <1>2, <1>3

LEMMA PushedShape ==
  ASSUME NEW r, Len(r.ops) \in Nat
  PROVE  /\ Pushed(r)[0] = Current
         /\ \A n \in 1 .. Len(r.ops) : Pushed(r)[n] = apply_operation(r, Pushed(r)[n - 1], r.ops[n])
<1> DEFINE a == Pushed(r)
           m == Len(r.ops)
<1>1. IsPushed(a, m, r)
  <2>1. a = CHOOSE b : IsPushed(b, m, r)
    BY DEF Pushed, IsPushed
  <2> HIDE DEF a
  <2> QED BY <2>1, PushedExists
<1> HIDE DEF a
<1>2. \A n \in 0 .. m : a[n] = IF n = 0 THEN Current ELSE apply_operation(r, a[n - 1], r.ops[n])
  BY <1>1 DEF IsPushed
<1>3. a[0] = Current /\ \A n \in 1 .. m : a[n] = apply_operation(r, a[n - 1], r.ops[n])
  BY <1>2
<1> QED BY <1>3 DEF a

LEMMA RolledBackShape ==
  ASSUME NEW r, Len(r.ops) \in Nat
  PROVE  /\ RolledBack(r)[0] = formal
         /\ \A n \in 1 .. Len(r.ops) : RolledBack(r)[n] = TakenBack(RolledBack(r)[n - 1], r.ops[n])
<1> DEFINE a == RolledBack(r)
           m == Len(r.ops)
<1>1. IsRolledBack(a, m, r)
  <2>1. a = CHOOSE b : IsRolledBack(b, m, r)
    BY DEF RolledBack, IsRolledBack
  <2> HIDE DEF a
  <2> QED BY <2>1, RolledBackExists
<1> HIDE DEF a
<1>2. \A n \in 0 .. m : a[n] = IF n = 0 THEN formal ELSE TakenBack(a[n - 1], r.ops[n])
  BY <1>1 DEF IsRolledBack
<1>3. a[0] = formal /\ \A n \in 1 .. m : a[n] = TakenBack(a[n - 1], r.ops[n])
  BY <1>2
<1> QED BY <1>3 DEF a

\* One operation: it replaces whom its queue says, or fails and changes nothing.
LEMMA ApplyShape ==
  ASSUME NEW r, NEW s \in Committee, NEW q \in Queues
  PROVE  LET t == apply_operation(r, s, q) IN
         /\ t \in Committee
         /\ \/ ~t.ok /\ t.formal = s.formal
            \/ /\ t.ok /\ s.ok /\ Replaceable(q, s.formal) /\ UniqueTargets(q)
               /\ t.formal = Replaced(s.formal, q)
<1>1. DOMAIN q \subseteq Wallfacers /\ Range(q) \subseteq Wallfacers
  BY QueueShape
<1>2. Replaced(s.formal, q) \subseteq Wallfacers
  BY <1>1 DEF Replaced, Committee
<1>3. [s EXCEPT !.ok = FALSE] \in Committee
      /\ ~[s EXCEPT !.ok = FALSE].ok /\ [s EXCEPT !.ok = FALSE].formal = s.formal
  BY DEF Committee
<1>4. /\ [w \in Wallfacers |-> IF w \in DOMAIN q \cup Range(q) THEN "PERMANENT" ELSE s.kind[w]]
             \in [Wallfacers -> Kinds]
      /\ [w \in Wallfacers |-> IF w \in DOMAIN q THEN "EXTERNAL" ELSE s.kind[w]]
             \in [Wallfacers -> Kinds]
  BY DEF Committee, Kinds
<1>5. CASE r.by = "miners"
  <2>1. CASE s.ok /\ evaluate_referendum(q, s.formal, s.kind)
    BY <1>2, <1>4, <1>5, <2>1 DEF apply_operation, apply_referendum, evaluate_referendum, Committee
  <2>2. CASE ~(s.ok /\ evaluate_referendum(q, s.formal, s.kind))
    <3>1. apply_operation(r, s, q) = [s EXCEPT !.ok = FALSE]
      BY <1>5, <2>2 DEF apply_operation, apply_referendum
    <3> QED BY <1>3, <3>1
  <2> QED BY <2>1, <2>2
<1>6. CASE r.by # "miners"
  <2>1. CASE s.ok /\ evaluate_update(q, s.formal, s.kind)
    BY <1>2, <1>4, <1>6, <2>1 DEF apply_operation, apply_update, evaluate_update, Committee
  <2>2. CASE ~(s.ok /\ evaluate_update(q, s.formal, s.kind))
    <3>1. apply_operation(r, s, q) = [s EXCEPT !.ok = FALSE]
      BY <1>6, <2>2 DEF apply_operation, apply_update
    <3> QED BY <1>3, <3>1
  <2> QED BY <2>1, <2>2
<1> QED BY <1>5, <1>6

LEMMA ExchangeMore ==
  ASSUME NEW ops \in Elections \cup Referenda, Agreed(ops), NEW n \in 1 .. Len(ops),
         NEW f, NEW g, Exchanged(ops, n - 1, f, g), Replaceable(ops[n], g)
  PROVE  Exchanged(ops, n, f, Replaced(g, ops[n]))
<1> DEFINE A == Added(ops, n - 1)
           T == Removed(ops, n - 1)
           D == DOMAIN ops[n]
           R == Range(ops[n])
<1>1. n - 1 \in 0 .. Len(ops) /\ n \in Nat \ {0} /\ Len(ops) \in Nat
  BY OpsShape
<1>2. D \cap T = {} /\ R \cap A = {} /\ A \cap T = {} /\ A \subseteq Wallfacers /\ T \subseteq Wallfacers
  BY <1>1, AddedShape
<1>3. D \subseteq Wallfacers /\ R \subseteq Wallfacers
  BY OpsShape
<1>4. Added(ops, n) = A \cup D /\ Removed(ops, n) = T \cup R
  BY <1>1, OneMore
<1>5. /\ A \cap f = {} /\ T \subseteq f /\ g = (f \ T) \cup A /\ Cardinality(A) = Cardinality(T)
      /\ D \cap g = {} /\ R \subseteq g
  BY DEF Exchanged, Replaceable
<1>6. D \cap R = {}
  BY DEF Agreed
<1>7. Cardinality(D) = Cardinality(R)
  BY DEF Agreed, UniqueTargets
<1>8. Replaced(g, ops[n]) = (g \ R) \cup D
  BY DEF Replaced
<1> HIDE DEF A, T, D, R
<1>9. /\ D \cap f = {} /\ R \subseteq f /\ D \cap A = {} /\ R \cap T = {}
      /\ (g \ R) \cup D = (f \ (T \cup R)) \cup (A \cup D)
  BY ONLY <1>2, <1>5, <1>6
<1>10. Cardinality(A \cup D) = Cardinality(A) + Cardinality(D)
       /\ Cardinality(T \cup R) = Cardinality(T) + Cardinality(R)
  <2>1. A \cap D = {} /\ T \cap R = {}
    BY <1>9
  <2> QED BY ONLY <2>1, <1>2, <1>3, Joined
<1> QED BY <1>4, <1>5, <1>7, <1>8, <1>9, <1>10 DEF Exchanged

\* The committee after n operations of an election: as large as before, and if all
\* of them succeeded the members are exchanged as the queues say.
LEMMA Pushing ==
  ASSUME NEW r, r.ops \in Elections \cup Referenda, Agreed(r.ops),
         formal \subseteq Wallfacers, kind \in [Wallfacers -> Kinds]
  PROVE  \A n \in 0 .. Len(r.ops) :
           LET s == Pushed(r)[n] IN
           /\ s \in Committee
           /\ Cardinality(s.formal) = Cardinality(formal)
           /\ s.ok => Exchanged(r.ops, n, formal, s.formal)
<1> DEFINE ops == r.ops
           a == Pushed(r)
           Good(n) == /\ a[n] \in Committee
                      /\ Cardinality(a[n].formal) = Cardinality(formal)
                      /\ a[n].ok => Exchanged(ops, n, formal, a[n].formal)
           B == {n \in 0 .. Len(ops) : ~Good(n)}
<1> SUFFICES ASSUME B # {} PROVE FALSE
  OBVIOUS
<1>0. Len(ops) \in Nat /\ ops \in Seq(Queues)
  BY OpsShape
<1>1. PICK n \in B : \A j \in B : n <= j
  <2>1. B \subseteq Nat
    BY <1>0
  <2> HIDE DEF B
  <2> QED BY ONLY <2>1, B # {}, SmallestOf
<1>2. a[0] = Current /\ \A i \in 1 .. Len(ops) : a[i] = apply_operation(r, a[i - 1], ops[i])
  BY <1>0, PushedShape
<1>3. n # 0
  <2>1. Current \in Committee /\ Current.formal = formal
    BY DEF Current, Committee
  <2>2. Exchanged(ops, 0, formal, formal)
    BY NoneAdded DEF Exchanged
  <2> QED BY <1>2, <2>1, <2>2
<1>4. n \in 1 .. Len(ops) /\ n - 1 \in 0 .. Len(ops) /\ n - 1 \notin B
  BY <1>0, <1>1, <1>3
<1>5. Good(n - 1)
  BY <1>4
<1> DEFINE s == a[n - 1]
           t == a[n]
<1>6. ops[n] \in Queues
  BY <1>0, <1>4, ElementOfSeq
<1>7. /\ t \in Committee
      /\ \/ ~t.ok /\ t.formal = s.formal
         \/ /\ t.ok /\ s.ok /\ Replaceable(ops[n], s.formal) /\ UniqueTargets(ops[n])
            /\ t.formal = Replaced(s.formal, ops[n])
  <2>1. t = apply_operation(r, s, ops[n]) /\ s \in Committee
    BY <1>2, <1>4, <1>5
  <2> HIDE DEF t, s, a, ops
  <2> QED BY ONLY <2>1, <1>6, ApplyShape
<1>8. CASE ~t.ok /\ t.formal = s.formal
  BY <1>5, <1>7, <1>8
<1>9. CASE t.ok /\ s.ok /\ Replaceable(ops[n], s.formal) /\ UniqueTargets(ops[n])
           /\ t.formal = Replaced(s.formal, ops[n])
  <2>1. Exchanged(ops, n - 1, formal, s.formal) /\ Cardinality(s.formal) = Cardinality(formal)
        /\ s.formal \subseteq Wallfacers
    BY <1>5, <1>9 DEF Committee
  <2>2. Exchanged(ops, n, formal, t.formal)
    BY <1>4, <1>9, <2>1, ExchangeMore
  <2>3. Cardinality(t.formal) = Cardinality(s.formal)
    <3> DEFINE f == s.formal
               D == DOMAIN ops[n]
               R == Range(ops[n])
    <3>1. f \subseteq Wallfacers /\ D \subseteq Wallfacers /\ R \subseteq f /\ D \cap f = {}
          /\ Cardinality(R) = Cardinality(D) /\ t.formal = (f \ R) \cup D
      BY <1>6, <1>9, <2>1, QueueShape DEF Replaceable, UniqueTargets, Replaced
    <3> HIDE DEF f, D, R
    <3>2. Cardinality((f \ R) \cup D) = Cardinality(f)
      BY ONLY <3>1, ExchangeSize
    <3> QED BY <3>1, <3>2 DEF f
  <2>4. Good(n)
    BY <1>7, <2>1, <2>2, <2>3
  <2> QED BY <2>4
<1> QED BY <1>7, <1>8, <1>9

\* Taking back every operation: those it made formal leave, those they replaced
\* return.
LEMMA RollingBack ==
  ASSUME NEW r, r.ops \in Elections \cup Referenda, Agreed(r.ops)
  PROVE  rollback_referendum(r)
           = (formal \ Added(r.ops, Len(r.ops))) \cup Removed(r.ops, Len(r.ops))
<1> DEFINE ops == r.ops
           a == RolledBack(r)
           Good(n) == a[n] = (formal \ Added(ops, n)) \cup Removed(ops, n)
           B == {n \in 0 .. Len(ops) : ~Good(n)}
<1>0. Len(ops) \in Nat /\ Len(ops) \in 0 .. Len(ops)
  BY OpsShape
<1> SUFFICES ASSUME B # {} PROVE FALSE
  BY <1>0 DEF rollback_referendum
<1>1. PICK n \in B : \A j \in B : n <= j
  <2>1. B \subseteq Nat
    BY <1>0
  <2> HIDE DEF B
  <2> QED BY ONLY <2>1, B # {}, SmallestOf
<1>2. a[0] = formal /\ \A i \in 1 .. Len(ops) : a[i] = TakenBack(a[i - 1], ops[i])
  BY <1>0, RolledBackShape
<1>3. n # 0
  BY <1>2, NoneAdded
<1>4. n \in 1 .. Len(ops) /\ n - 1 \in 0 .. Len(ops) /\ n - 1 \notin B /\ n \in Nat \ {0}
  BY <1>0, <1>1, <1>3
<1>5. Good(n - 1)
  BY <1>4
<1>6. Range(ops[n]) \cap Added(ops, n - 1) = {} /\ DOMAIN ops[n] \cap Removed(ops, n - 1) = {}
  BY <1>4, AddedShape
<1>7. /\ Added(ops, n) = Added(ops, n - 1) \cup DOMAIN ops[n]
      /\ Removed(ops, n) = Removed(ops, n - 1) \cup Range(ops[n])
  BY <1>4, OneMore
<1>8. a[n] = (a[n - 1] \ DOMAIN ops[n]) \cup Range(ops[n])
  BY <1>2, <1>4 DEF TakenBack
<1>9. Good(n)
  <2> HIDE DEF a, ops
  <2> QED BY <1>5, <1>6, <1>7, <1>8
<1> QED BY <1>9

-----------------------------------------------------------------------------
(* The invariant.                                                           *)

Start == Cardinality(Permanent \cup External)
AgreedOf(S) == {ops \in S : Agreed(ops)}

Proposal ==
  [by : {"wallfacers"}, ops : AgreedOf(Elections), left : Int, review : BOOLEAN,
   required : SUBSET Wallfacers, approved : SUBSET Wallfacers, voted : BOOLEAN, finished : BOOLEAN]
Referendum ==
  [by : {"miners"}, ops : AgreedOf(Referenda), left : Int, pledge : Nat, miner_pledge : Nat,
   required : {Miners}, approved : SUBSET Miners, finished : BOOLEAN]

ElectionTypes ==
  /\ formal \subseteq Wallfacers /\ kind \in [Wallfacers -> Kinds]
  /\ proposals \in Seq(Proposal) /\ referenda \in Seq(Referendum)
  /\ flag \in BOOLEAN /\ wait \in Nat /\ weight \in Weights /\ resigns \in Nat
  /\ early \in BOOLEAN /\ torn \in BOOLEAN

\* There are proposals or referenda, not both, and only one proposal, which cannot
\* be deleted once somebody has voted on it.
OneElection ==
  /\ proposals = <<>> \/ referenda = <<>>
  /\ Len(proposals) <= 1
  /\ \A i \in 1 .. Len(proposals) :
       proposals[i].approved # {} \/ proposals[i].finished => proposals[i].voted

\* Nobody votes on a referendum before its packing period is over, and only the
\* leading one is then left.
Counted(r) == r.approved # {} \/ r.finished
Packed ==
  /\ ~flag \/ wait > 0 => \A i \in 1 .. Len(referenda) : ~Counted(referenda[i])
  /\ flag /\ wait = 0 /\ phase = "txs" => Len(referenda) <= 1
  /\ \A i \in 1 .. Len(referenda) : Counted(referenda[i]) => Len(referenda) = 1

\* An election that was executed can be taken back from the committee f: those it
\* replaced are out, there is room for them if those it made formal leave, and
\* the result is the committee s without it.
Seated(ops, f, s, t) ==
  LET A == Added(ops, Len(ops))
      T == Removed(ops, Len(ops))
  IN  /\ T \cap f = {}
      /\ Cardinality(A) = Cardinality(T)
      /\ Cardinality(f \cup A) <= Start
      /\ ~t => s = (f \ A) \cup T
Outcomes ==
  /\ \A i \in 1 .. Len(proposals) :
       proposals[i].finished => Seated(proposals[i].ops, formal, settled, torn)
  /\ \A i \in 1 .. Len(referenda) :
       referenda[i].finished => Seated(referenda[i].ops, formal, settled, torn)

Sized == Cardinality(formal) <= Start /\ Cardinality(formal) + resigns >= Start
AllSettled ==
  /\ \A i \in 1 .. Len(proposals) : ~proposals[i].finished
  /\ \A i \in 1 .. Len(referenda) : ~referenda[i].finished
SettledCommittee == AllSettled /\ ~torn => formal = settled

Orderly == OneElection /\ Packed /\ Outcomes /\ Sized /\ SettledCommittee
ElectionInv ==
  /\ ElectionTypes
  /\ ~early => Orderly

-----------------------------------------------------------------------------
(* Sequences of elections.                                                  *)

LEMMA RemoveAtShape ==
  ASSUME NEW S, NEW s \in Seq(S), NEW i \in 1 .. Len(s)
  PROVE  /\ RemoveAt(s, i) \in Seq(S)
         /\ Len(RemoveAt(s, i)) = Len(s) - 1
         /\ \A j \in 1 .. (Len(s) - 1) : \E k \in 1 .. Len(s) : RemoveAt(s, i)[j] = s[k]
<1> DEFINE u == SubSeq(s, 1, i - 1)
           v == SubSeq(s, i + 1, Len(s))
<1>1. Len(s) \in Nat /\ i \in Nat /\ \A j \in 1 .. Len(s) : s[j] \in S
  BY LenProperties, ElementOfSeq
<1>2. /\ u \in Seq(S) /\ Len(u) = i - 1
      /\ \A j \in 1 .. (i - 1) : u[j] = s[j]
  <2>1. \A j \in 1 .. (i - 1) : s[j] \in S
    BY <1>1
  <2> QED BY <1>1, <2>1, SubSeqProperties
<1>3. /\ v \in Seq(S) /\ Len(v) = Len(s) - i
      /\ \A j \in 1 .. (Len(s) - i) : v[j] = s[i + j]
  <2>1. \A j \in (i + 1) .. Len(s) : s[j] \in S
    BY <1>1
  <2>2. /\ v \in Seq(S)
        /\ Len(v) = IF i + 1 <= Len(s) THEN Len(s) - (i + 1) + 1 ELSE 0
        /\ \A j \in 1 .. (Len(s) - (i + 1) + 1) : v[j] = s[i + 1 + j - 1]
    BY <1>1, <2>1, SubSeqProperties
  <2> HIDE DEF v
  <2>3. Len(s) - (i + 1) + 1 = Len(s) - i /\ \A j \in Int : i + 1 + j - 1 = i + j
    BY <1>1
  <2>4. Len(v) = Len(s) - i
    BY ONLY <1>1, <2>2, i \in 1 .. Len(s)
  <2>5. ASSUME NEW j \in 1 .. (Len(s) - i) PROVE v[j] = s[i + j]
    <3>1. j \in 1 .. (Len(s) - (i + 1) + 1) /\ i + 1 + j - 1 = i + j
      BY <1>1
    <3> QED BY <2>2, <3>1
  <2> QED BY <2>2, <2>4, <2>5
<1>4. RemoveAt(s, i) = u \o v
  BY DEF RemoveAt
<1> HIDE DEF u, v
<1>5. /\ u \o v \in Seq(S) /\ Len(u \o v) = Len(u) + Len(v)
      /\ \A j \in 1 .. (Len(u) + Len(v)) : (u \o v)[j] = IF j <= Len(u) THEN u[j] ELSE v[j - Len(u)]
  BY <1>2, <1>3, ConcatProperties
<1>6. Len(u) + Len(v) = Len(s) - 1
  BY <1>1, <1>2, <1>3
<1>7. ASSUME NEW j \in 1 .. (Len(s) - 1) PROVE \E k \in 1 .. Len(s) : (u \o v)[j] = s[k]
  <2>1. CASE j <= i - 1
    <3>1. (u \o v)[j] = s[j] /\ j \in 1 .. Len(s)
      BY <1>1, <1>2, <1>5, <1>6, <2>1
    <3> QED BY <3>1
  <2>2. CASE j > i - 1
    <3>1. j - (i - 1) \in 1 .. (Len(s) - i) /\ i + (j - (i - 1)) = j + 1 /\ j + 1 \in 1 .. Len(s)
      BY <1>1, <2>2
    <3>2. (u \o v)[j] = v[j - (i - 1)]
      BY <1>1, <1>2, <1>5, <1>6, <2>2
    <3>3. v[j - (i - 1)] = s[i + (j - (i - 1))]
      BY <1>3, <3>1
    <3>4. (u \o v)[j] = s[j + 1]
      BY <3>1, <3>2, <3>3
    <3> QED BY <3>1, <3>4
  <2>3. j <= i - 1 \/ j > i - 1
    BY ONLY <1>1, j \in 1 .. (Len(s) - 1)
  <2> QED BY <2>1, <2>2, <2>3
<1> QED BY <1>4, <1>5, <1>6, <1>7

LEMMA ExceptShape ==
  ASSUME NEW S, NEW s \in Seq(S), NEW i \in 1 .. Len(s), NEW x \in S
  PROVE  /\ [s EXCEPT ![i] = x] \in Seq(S) /\ Len([s EXCEPT ![i] = x]) = Len(s)
         /\ [s EXCEPT ![i] = x][i] = x
         /\ \A j \in 1 .. Len(s) : j # i => [s EXCEPT ![i] = x][j] = s[j]
  BY ExceptSeq, LenProperties

\* An election whose operations fail is removed.
LEMMA ExecutedFails ==
  ASSUME NEW s, NEW i, NEW res, ~res.ok
  PROVE  Executed(s, i, res) = RemoveAt(s, i)
BY DEF Executed

\* An election that is executed keeps its operations and its votes.
LEMMA ExecutedKeeps ==
  ASSUME NEW S \in {Proposal, Referendum}, NEW s \in Seq(S), NEW i \in 1 .. Len(s), NEW res, res.ok
  PROVE  /\ Executed(s, i, res) \in Seq(S)
         /\ Len(Executed(s, i, res)) = Len(s)
         /\ Executed(s, i, res)[i].finished
         /\ Executed(s, i, res)[i].ops = s[i].ops
         /\ S = Proposal => Executed(s, i, res)[i].voted = s[i].voted
<1> DEFINE x == [s[i] EXCEPT !.finished = TRUE, !.left = Voting]
           e == [s EXCEPT ![i] = x]
<1>1. s[i] \in S /\ Voting \in Int
  BY ElementOfSeq, ElectionAssumption
<1>2. x \in S /\ x.finished /\ x.ops = s[i].ops /\ (S = Proposal => x.voted = s[i].voted)
  <2>1. CASE S = Proposal
    BY <1>1, <2>1 DEF Proposal
  <2>2. CASE S = Referendum /\ S # Proposal
    BY <1>1, <2>2 DEF Referendum
  <2> QED BY <2>1, <2>2
<1>3. Executed(s, i, res) = e
  BY DEF Executed
<1> HIDE DEF x
<1>4. e \in Seq(S) /\ Len(e) = Len(s) /\ e[i] = x
  BY <1>2, ExceptShape
<1> HIDE DEF e
<1> QED BY <1>2, <1>3, <1>4

LEMMA ExecutedShape ==
  ASSUME NEW S \in {Proposal, Referendum}, NEW s \in Seq(S), NEW i \in 1 .. Len(s), NEW res
  PROVE  Executed(s, i, res) \in Seq(S)
<1>1. CASE ~res.ok
  BY <1>1, ExecutedFails, RemoveAtShape
<1>2. CASE res.ok
  BY <1>2, ExecutedKeeps
<1> QED BY <1>1, <1>2

LEMMA OlderShape ==
  ASSUME NEW S \in {Proposal, Referendum}, NEW s \in Seq(S)
  PROVE  /\ Older(s) \in Seq(S) /\ Len(Older(s)) = Len(s)
         /\ \A i \in 1 .. Len(s) : /\ Older(s)[i].ops = s[i].ops
                                   /\ Older(s)[i].finished = s[i].finished
                                   /\ Older(s)[i].approved = s[i].approved
                                   /\ S = Proposal => Older(s)[i].voted = s[i].voted
<1>1. DOMAIN s = 1 .. Len(s) /\ Len(s) \in Nat
  BY LenProperties
<1>2. ASSUME NEW i \in 1 .. Len(s)
      PROVE  LET x == [s[i] EXCEPT !.left = @ - 1] IN
             /\ x \in S /\ x.finished = s[i].finished /\ x.ops = s[i].ops /\ x.approved = s[i].approved
             /\ S = Proposal => x.voted = s[i].voted
  <2>1. s[i] \in S
    BY ElementOfSeq
  <2>2. ASSUME NEW x \in Proposal
        PROVE  LET y == [x EXCEPT !.left = @ - 1] IN
               /\ y \in Proposal /\ y.finished = x.finished /\ y.ops = x.ops
               /\ y.approved = x.approved /\ y.voted = x.voted
    BY DEF Proposal
  <2>3. ASSUME NEW x \in Referendum
        PROVE  LET y == [x EXCEPT !.left = @ - 1] IN
               /\ y \in Referendum /\ y.finished = x.finished /\ y.ops = x.ops
               /\ y.approved = x.approved
    BY DEF Referendum
  <2>4. CASE S = Proposal
    BY <2>1, <2>2, <2>4
  <2>5. CASE S = Referendum /\ S # Proposal
    BY <2>1, <2>3, <2>5
  <2> QED BY <2>4, <2>5
<1>3. Older(s) = [i \in 1 .. Len(s) |-> [s[i] EXCEPT !.left = @ - 1]]
  BY <1>1 DEF Older
<1>4. Older(s) \in [1 .. Len(s) -> S]
  BY <1>2, <1>3
<1>5. Older(s) \in Seq(S) /\ Len(Older(s)) = Len(s)
  <2>1. Older(s) \in Seq(S)
    BY <1>1, <1>4, SeqDef
  <2>2. DOMAIN Older(s) = 1 .. Len(s)
    BY <1>3
  <2> QED BY <1>1, <2>1, <2>2, LenProperties
<1> QED BY <1>2, <1>3, <1>5

\* The order by_pledge, of the pledge, the miner's pledge and the place of a
\* referendum: one that is later and not below another is above all below that.
Higher(p, m, i, q, l, j) == (p > q) \/ ((p = q) /\ ((m > l) \/ ((m = l) /\ (i < j))))
LEMMA HigherStill ==
  ASSUME NEW p1 \in Nat, NEW m1 \in Nat, NEW i \in Nat, NEW p2 \in Nat, NEW m2 \in Nat, NEW j \in Nat,
         NEW p3 \in Nat, NEW m3 \in Nat, NEW n \in Nat, i < n,
         ~Higher(p1, m1, i, p3, m3, n),
         (p1 = p2 /\ m1 = m2) \/ Higher(p1, m1, i, p2, m2, j)
  PROVE  Higher(p3, m3, n, p2, m2, j)
  BY DEF Higher

\* by_pledge orders the referenda: one of them is the leading one.
LEMMA LeadingExists ==
  ASSUME NEW s \in Seq(Referendum), s # <<>>
  PROVE  \E i \in 1 .. Len(s) : Leading(s) = s[i]
<1> DEFINE Top(n, i) == \A j \in (1 .. n) \ {i} : Outranks(s, i, j)
           B == {n \in 1 .. Len(s) : ~ \E i \in 1 .. n : Top(n, i)}
<1>1. Len(s) \in Nat /\ Len(s) # 0 /\ DOMAIN s = 1 .. Len(s)
  BY LenProperties, EmptySeq
<1>2. \A i \in 1 .. Len(s) : s[i].pledge \in Nat /\ s[i].miner_pledge \in Nat
  <2>1. \A i \in 1 .. Len(s) : s[i] \in Referendum
    BY ElementOfSeq
  <2> QED BY <2>1 DEF Referendum
<1>3. ASSUME B # {} PROVE FALSE
  <2>1. PICK n \in B : \A m \in B : n <= m
    <3>1. B \subseteq Nat
      BY <1>1
    <3> HIDE DEF B
    <3> QED BY ONLY <3>1, <1>3, SmallestOf
  <2>2. n # 1
    <3>1. (1 .. 1) \ {1} = {}
      OBVIOUS
    <3>2. Top(1, 1)
      BY <3>1
    <3> QED BY <3>2
  <2>3. n - 1 \in 1 .. Len(s) /\ n - 1 \notin B /\ n \in 1 .. Len(s)
    <3>1. n \in 1 .. Len(s)
      OBVIOUS
    <3> HIDE DEF B
    <3> QED BY <1>1, <2>1, <2>2, <3>1
  <2>4. PICK i \in 1 .. (n - 1) : Top(n - 1, i)
    BY <2>3
  <2>5. i \in 1 .. Len(s) /\ i \in 1 .. n /\ i < n
    BY <1>1, <2>3, <2>4
  <2>6. CASE Outranks(s, i, n)
    <3>1. ASSUME NEW j \in (1 .. n) \ {i} PROVE Outranks(s, i, j)
      <4>1. j = n \/ j \in (1 .. (n - 1)) \ {i}
        BY <2>3
      <4> QED BY <2>4, <2>6, <4>1
    <3> QED BY <2>5, <3>1
  <2>7. CASE ~Outranks(s, i, n)
    <3>1. ASSUME NEW j \in 1 .. (n - 1) PROVE Outranks(s, n, j)
      <4>1. j = i \/ Outranks(s, i, j)
        BY <2>4
      <4>2. j \in 1 .. Len(s) /\ j < n
        BY <1>1, <2>3
      <4>3. /\ s[i].pledge \in Nat /\ s[i].miner_pledge \in Nat /\ s[j].pledge \in Nat
            /\ s[j].miner_pledge \in Nat /\ s[n].pledge \in Nat /\ s[n].miner_pledge \in Nat
            /\ i \in Nat /\ j \in Nat /\ n \in Nat
        <5>1. i \in Nat /\ j \in Nat /\ n \in Nat
          BY <1>1, <2>3, <2>5, <4>2
        <5>2. i \in 1 .. Len(s) /\ j \in 1 .. Len(s) /\ n \in 1 .. Len(s)
          BY <2>3, <2>5, <4>2
        <5> QED BY ONLY <1>2, <5>1, <5>2
      <4>4. ~Higher(s[i].pledge, s[i].miner_pledge, i, s[n].pledge, s[n].miner_pledge, n)
        BY <2>7 DEF Outranks, Higher
      <4>5. j = i \/ Higher(s[i].pledge, s[i].miner_pledge, i, s[j].pledge, s[j].miner_pledge, j)
        BY <4>1 DEF Outranks, Higher
      <4>6. Higher(s[n].pledge, s[n].miner_pledge, n, s[j].pledge, s[j].miner_pledge, j)
        BY ONLY <2>5, <4>3, <4>4, <4>5, HigherStill
      <4> QED BY <4>6 DEF Outranks, Higher
    <3>2. \A j \in (1 .. n) \ {n} : j \in 1 .. (n - 1)
      BY <2>3
    <3>3. Top(n, n) /\ n \in 1 .. n
      BY <2>3, <3>1, <3>2
    <3> QED BY <3>3
  <2> QED BY <2>6, <2>7
<1>4. \E i \in 1 .. Len(s) : Top(Len(s), i)
  <2>1. Len(s) \in 1 .. Len(s)
    BY <1>1
  <2>2. Len(s) \notin B
    BY <1>3
  <2> HIDE DEF Top
  <2> QED BY <2>1, <2>2
<1>5. Leading(s) = s[CHOOSE i \in 1 .. Len(s) : Top(Len(s), i)]
  BY <1>1 DEF Leading
<1> HIDE DEF Top
<1> QED BY <1>4, <1>5

\* A vote counts once it is given: an election without votes is not executed.
LEMMA NeedsVotes ==
  ASSUME weight \in Weights, NEW r \in Proposal \cup Referendum, is_authorized_to_execute(r)
  PROVE  ~r.finished /\ r.approved # {}
<1>1. ~r.finished
  BY DEF is_authorized_to_execute
<1>2. ASSUME r \in Proposal, r.approved = {} PROVE FALSE
  <2>1. r.by = "wallfacers" /\ Cardinality(r.required) \in Nat
    BY <1>2, Finite DEF Proposal
  <2>2. Cardinality(r.approved) >= (Cardinality(r.required) * 2) \div 3 + 1
    BY <2>1 DEF is_authorized_to_execute
  <2>3. (Cardinality(r.required) * 2) \div 3 >= 0
    BY <2>1
  <2> QED BY <1>2, <2>1, <2>2, <2>3, FS_EmptySet
<1>3. ASSUME r \in Referendum, r.approved = {} PROVE FALSE
  <2>1. r.by = "miners" /\ r.required = Miners
    BY <1>3 DEF Referendum
  <2>2. TotalWeight({}) >= (TotalWeight(Miners) \div 3) * 2 + 1
    BY <1>3, <2>1 DEF is_authorized_to_execute
  <2>3. TotalWeight({}) = 0
    <3>1. TotalWeight({}) = SumOf(weight, {})
      BY DEF TotalWeight, SumOf
    <3> QED BY <3>1, SumEmpty
  <2>4. TotalWeight(Miners) \in Nat
    <3>1. weight \in [Miners -> Nat] /\ IsFiniteSet(Miners)
      BY ElectionAssumption
    <3>2. TotalWeight(Miners) = SumOf(weight, Miners)
      BY DEF TotalWeight, SumOf
    <3> QED BY <3>1, <3>2, SumNat
  <2>5. TotalWeight(Miners) \div 3 >= 0
    BY <2>4
  <2> QED BY <2>2, <2>3, <2>4, <2>5
<1> QED BY <1>1, <1>2, <1>3

-----------------------------------------------------------------------------
(* Steps.                                                                   *)

LEMMA AgreedShape ==
  ASSUME NEW r \in Proposal \cup Referendum
  PROVE  r.ops \in Elections \cup Referenda /\ Agreed(r.ops)
  BY DEF Proposal, Referendum, AgreedOf

\* What the pushing of an election does to the committee.
LEMMA PushTypes ==
  ASSUME formal \subseteq Wallfacers, kind \in [Wallfacers -> Kinds], torn \in BOOLEAN,
         NEW r \in Proposal \cup Referendum, Push(r)
  PROVE  /\ formal' \subseteq Wallfacers /\ kind' \in [Wallfacers -> Kinds] /\ torn' \in BOOLEAN
         /\ Cardinality(formal') = Cardinality(formal)
         /\ push_operations(r).ok => Exchanged(r.ops, Len(r.ops), formal, formal')
         /\ ~push_operations(r).ok => (torn' \/ formal' = formal)
         /\ torn => torn'
         /\ settled' = settled /\ resigns' = resigns
<1> DEFINE s == Pushed(r)[Len(r.ops)]
<1>1. r.ops \in Elections \cup Referenda /\ Agreed(r.ops) /\ Len(r.ops) \in 0 .. Len(r.ops)
  BY AgreedShape, OpsShape
<1>2. /\ s \in Committee
      /\ Cardinality(s.formal) = Cardinality(formal)
      /\ s.ok => Exchanged(r.ops, Len(r.ops), formal, s.formal)
  BY <1>1, Pushing
<1>3. push_operations(r) = s
  BY DEF push_operations
<1> HIDE DEF s
<1> QED BY <1>2, <1>3 DEF Push, Committee

\* An election that was pushed can be taken back.
LEMMA PushSeats ==
  ASSUME formal \subseteq Wallfacers, kind \in [Wallfacers -> Kinds], torn \in BOOLEAN,
         resigns \in Nat, Sized, torn \/ formal = settled,
         NEW r \in Proposal \cup Referendum, Push(r)
  PROVE  /\ Sized'
         /\ push_operations(r).ok => Seated(r.ops, formal', settled', torn')
         /\ ~push_operations(r).ok => (torn' \/ formal' = settled')
<1> DEFINE A == Added(r.ops, Len(r.ops))
           T == Removed(r.ops, Len(r.ops))
<1>1. /\ Cardinality(formal') = Cardinality(formal)
      /\ push_operations(r).ok => Exchanged(r.ops, Len(r.ops), formal, formal')
      /\ ~push_operations(r).ok => (torn' \/ formal' = formal)
      /\ torn => torn'
      /\ settled' = settled /\ resigns' = resigns
  BY PushTypes
<1>2. Sized'
  BY <1>1 DEF Sized, Start
<1>3. ASSUME push_operations(r).ok PROVE Seated(r.ops, formal', settled', torn')
  <2>1. /\ A \cap formal = {} /\ T \subseteq formal /\ formal' = (formal \ T) \cup A
        /\ Cardinality(A) = Cardinality(T)
    BY <1>1, <1>3 DEF Exchanged
  <2>2. A \cap T = {}
    <3>1. r.ops \in Elections \cup Referenda /\ Agreed(r.ops) /\ Len(r.ops) \in 0 .. Len(r.ops)
      BY AgreedShape, OpsShape
    <3> QED BY <3>1, AddedShape
  <2> HIDE DEF A, T
  <2>3. T \cap formal' = {} /\ formal' \cup A = formal' /\ (formal' \ A) \cup T = formal
    BY <2>1, <2>2
  <2>4. Cardinality(formal' \cup A) <= Start
    BY <1>1, <2>3 DEF Sized
  <2>5. ~torn' => settled' = (formal' \ A) \cup T
    BY <1>1, <2>3
  <2> QED BY <2>1, <2>3, <2>4, <2>5 DEF Seated, A, T
<1> QED BY <1>1, <1>2, <1>3

\* The checks at the creation of an election.
LEMMA CreateAgreed ==
  ASSUME NEW ops \in Elections \cup Referenda, NEW f,
         \A i \in DOMAIN ops : Replaceable(ops[i], f) /\ UniqueTargets(ops[i])
  PROVE  Agreed(ops)
<1>1. DOMAIN ops = 1 .. Len(ops)
  BY OpsShape
<1>2. \A i \in 1 .. Len(ops) : DOMAIN ops[i] \cap f = {} /\ Range(ops[i]) \subseteq f /\ UniqueTargets(ops[i])
  BY <1>1 DEF Replaceable
<1>3. \A i, j \in 1 .. Len(ops) : DOMAIN ops[i] \cap Range(ops[j]) = {}
  BY <1>2
<1> QED BY <1>2, <1>3 DEF Agreed

\* Votes change only the approvals of an election.
LEMMA ProposalVote ==
  ASSUME NEW r \in Proposal, NEW add, NEW remove
  PROVE  LET v == [Voted(r, add, remove) EXCEPT !.voted = @ \/ add \cup remove # {}] IN
         /\ v \in Proposal /\ v.ops = r.ops /\ v.finished = r.finished
         /\ v.approved # {} => r.approved # {} \/ v.voted
         /\ r.voted => v.voted
<1> DEFINE u == Voted(r, add, remove)
           v == [u EXCEPT !.voted = @ \/ add \cup remove # {}]
<1>1. /\ u \in Proposal /\ u.ops = r.ops /\ u.finished = r.finished /\ u.voted = r.voted
      /\ u.approved = (r.approved \cup (add \cap r.required)) \ remove
  BY DEF Voted, Proposal
<1> HIDE DEF u
<1>2. /\ v \in Proposal /\ v.ops = u.ops /\ v.finished = u.finished /\ v.approved = u.approved
      /\ v.voted = (u.voted \/ add \cup remove # {})
  BY <1>1 DEF Proposal
<1> HIDE DEF v
<1>3. v.approved # {} => r.approved # {} \/ add \cup remove # {}
  BY <1>1, <1>2
<1>4. /\ v \in Proposal /\ v.ops = r.ops /\ v.finished = r.finished
      /\ v.approved # {} => r.approved # {} \/ v.voted
      /\ r.voted => v.voted
  BY <1>1, <1>2, <1>3
<1> QED BY <1>4 DEF u, v

LEMMA ReferendumVote ==
  ASSUME NEW r \in Referendum, NEW add, NEW remove
  PROVE  LET v == Voted(r, add, remove) IN
         v \in Referendum /\ v.ops = r.ops /\ v.finished = r.finished
  BY DEF Voted, Referendum

\* Taking back an election leaves only wallfacers in the committee.
LEMMA TakenBackTypes ==
  ASSUME ElectionTypes, NEW r \in Proposal \cup Referendum
  PROVE  _rollback_votes(r) \subseteq Wallfacers /\ rollback_referendum(r) \subseteq Wallfacers
<1>1. r.ops \in Elections \cup Referenda /\ Agreed(r.ops) /\ Len(r.ops) \in Nat /\ Len(r.ops) >= 1
  BY AgreedShape, OpsShape
<1>2. 1 \in 1 .. Len(r.ops) /\ Len(r.ops) \in 0 .. Len(r.ops)
  BY <1>1
<1>3. DOMAIN r.ops[1] \subseteq Wallfacers /\ Range(r.ops[1]) \subseteq Wallfacers
  BY <1>1, <1>2, OpsShape
<1>4. Removed(r.ops, Len(r.ops)) \subseteq Wallfacers
  BY <1>1, <1>2, AddedShape
<1> QED BY <1>1, <1>3, <1>4, RollingBack DEF _rollback_votes, TakenBack, ElectionTypes

-----------------------------------------------------------------------------
(* Types.                                                                   *)

LEMMA TypesInit == Init => ElectionTypes
<1> SUFFICES ASSUME Init PROVE ElectionTypes
  OBVIOUS
<1>1. /\ formal = Permanent \cup External /\ proposals = <<>> /\ referenda = <<>>
      /\ kind = [w \in Wallfacers |-> IF w \in External THEN "EXTERNAL" ELSE "PERMANENT"]
      /\ flag = FALSE /\ wait = 0 /\ weight \in Weights /\ resigns = 0 /\ early = FALSE /\ torn = FALSE
  BY DEF Init
<1>2. kind \in [Wallfacers -> Kinds]
  BY <1>1 DEF Kinds
<1>3. formal \subseteq Wallfacers
  BY <1>1 DEF Wallfacers
<1>4. proposals \in Seq(Proposal) /\ referenda \in Seq(Referendum)
  BY <1>1, EmptySeq
<1> QED BY <1>1, <1>2, <1>3, <1>4 DEF ElectionTypes

LEMMA ProposalTypes ==
  ASSUME ElectionTypes
  PROVE  /\ \A ops \in Elections, left \in 1 .. Lifetime, review \in BOOLEAN :
              proposal_create(ops, left, review) => ElectionTypes'
         /\ \A i \in DOMAIN proposals : \A add, remove : proposal_update(i, add, remove) => ElectionTypes'
         /\ \A i \in DOMAIN proposals : proposal_delete(i) => ElectionTypes'
         /\ \A i \in DOMAIN proposals : expire_proposal(i) => ElectionTypes'
<1>0. /\ proposals \in Seq(Proposal) /\ DOMAIN proposals = 1 .. Len(proposals) /\ Len(proposals) \in Nat
      /\ \A i \in DOMAIN proposals : proposals[i] \in Proposal
  <2>1. proposals \in Seq(Proposal)
    BY DEF ElectionTypes
  <2> QED BY <2>1, LenProperties, ElementOfSeq
<1>1. ASSUME NEW ops \in Elections, NEW left \in 1 .. Lifetime, NEW review \in BOOLEAN,
             proposal_create(ops, left, review)
      PROVE  ElectionTypes'
  <2> DEFINE r == [by |-> "wallfacers", ops |-> ops, left |-> left, review |-> review,
                   required |-> formal, approved |-> {}, voted |-> FALSE, finished |-> FALSE]
  <2>1. Agreed(ops)
    <3>1. \A i \in DOMAIN ops : Replaceable(ops[i], formal) /\ UniqueTargets(ops[i])
      BY <1>1 DEF proposal_create, evaluate_update
    <3> QED BY <3>1, CreateAgreed
  <2>2. r \in Proposal
    BY <2>1 DEF Proposal, AgreedOf, ElectionTypes
  <2> HIDE DEF r
  <2>3. proposals' = Append(proposals, r)
    BY <1>1 DEF proposal_create, r
  <2>4. proposals' \in Seq(Proposal)
    BY <1>0, <2>2, <2>3, AppendProperties
  <2> QED BY <1>1, <2>4 DEF proposal_create, ElectionTypes, committee, history
<1>2. ASSUME NEW i \in DOMAIN proposals, NEW add, NEW remove, proposal_update(i, add, remove)
      PROVE  ElectionTypes'
  <2> DEFINE r == [Voted(proposals[i], add, remove) EXCEPT !.voted = @ \/ add \cup remove # {}]
             voted == [proposals EXCEPT ![i] = r]
  <2>1. r \in Proposal
    BY <1>0, ProposalVote
  <2>2. voted \in Seq(Proposal) /\ Len(voted) = Len(proposals) /\ i \in 1 .. Len(voted)
    BY <1>0, <2>1, ExceptShape
  <2>3. \/ Push(r) /\ proposals' = Executed(voted, i, push_operations(r)) /\ UNCHANGED early
        \/ proposals' = voted /\ UNCHANGED <<formal, kind, resigns, early, torn>>
    BY <1>2 DEF proposal_update, committee, history
  <2>4. UNCHANGED <<referenda, flag, wait, weight>>
    BY <1>2 DEF proposal_update, accounts
  <2> HIDE DEF r, voted
  <2>5. CASE Push(r) /\ proposals' = Executed(voted, i, push_operations(r)) /\ UNCHANGED early
    <3>1. proposals' \in Seq(Proposal)
      BY <2>2, <2>5, ExecutedShape
    <3>2. formal' \subseteq Wallfacers /\ kind' \in [Wallfacers -> Kinds] /\ torn' \in BOOLEAN
          /\ resigns' = resigns
      BY <2>1, <2>5, PushTypes DEF ElectionTypes
    <3> QED BY <2>4, <2>5, <3>1, <3>2 DEF ElectionTypes
  <2>6. CASE proposals' = voted /\ UNCHANGED <<formal, kind, resigns, early, torn>>
    BY <2>2, <2>4, <2>6 DEF ElectionTypes
  <2> QED BY <2>3, <2>5, <2>6
<1>3. ASSUME NEW i \in DOMAIN proposals, proposal_delete(i) PROVE ElectionTypes'
  <2>1. proposals' \in Seq(Proposal)
    BY <1>0, <1>3, RemoveAtShape DEF proposal_delete
  <2> QED BY <1>3, <2>1 DEF proposal_delete, ElectionTypes, committee, accounts, history
<1>4. ASSUME NEW i \in DOMAIN proposals, expire_proposal(i) PROVE ElectionTypes'
  <2> DEFINE r == proposals[i]
  <2>1. r \in Proposal
    BY <1>0
  <2>2. \/ Push(r) /\ proposals' = Executed(proposals, i, push_operations(r)) /\ UNCHANGED early
        \/ /\ proposals' = RemoveAt(proposals, i) /\ UNCHANGED <<kind, resigns, early>>
           /\ formal' = _rollback_votes(r) \/ formal' = formal
           /\ torn' \in BOOLEAN
    BY <1>4 DEF expire_proposal, ElectionTypes
  <2>3. UNCHANGED <<referenda, flag, wait, weight>>
    BY <1>4 DEF expire_proposal, accounts
  <2> HIDE DEF r
  <2>4. CASE Push(r) /\ proposals' = Executed(proposals, i, push_operations(r)) /\ UNCHANGED early
    <3>1. proposals' \in Seq(Proposal)
      BY <1>0, <2>4, ExecutedShape
    <3>2. formal' \subseteq Wallfacers /\ kind' \in [Wallfacers -> Kinds] /\ torn' \in BOOLEAN
          /\ resigns' = resigns
      BY <2>1, <2>4, PushTypes DEF ElectionTypes
    <3> QED BY <2>3, <2>4, <3>1, <3>2 DEF ElectionTypes
  <2>5. CASE /\ proposals' = RemoveAt(proposals, i) /\ UNCHANGED <<kind, resigns, early>>
             /\ formal' = _rollback_votes(r) \/ formal' = formal
             /\ torn' \in BOOLEAN
    <3>1. proposals' \in Seq(Proposal)
      BY <1>0, <2>5, RemoveAtShape
    <3>2. formal' \subseteq Wallfacers
      BY <2>1, <2>5, TakenBackTypes DEF ElectionTypes
    <3> QED BY <2>3, <2>5, <3>1, <3>2 DEF ElectionTypes
  <2> QED BY <2>2, <2>4, <2>5
<1> QED BY <1>1, <1>2, <1>3, <1>4

LEMMA ReferendumTypes ==
  ASSUME ElectionTypes
  PROVE  /\ \A m \in Miners, ops \in Referenda, pledge \in 1 .. MaxPledge :
              referendum_create(m, ops, pledge) => ElectionTypes'
         /\ \A i \in DOMAIN referenda : \A add, remove : referendum_update(i, add, remove) => ElectionTypes'
         /\ \A i \in DOMAIN referenda : referendum_accelerate_pledge(i) => ElectionTypes'
         /\ \A i \in DOMAIN referenda : expire_referendum(i) => ElectionTypes'
         /\ determine_referendum_detailes => ElectionTypes'
<1>0. /\ referenda \in Seq(Referendum) /\ DOMAIN referenda = 1 .. Len(referenda) /\ Len(referenda) \in Nat
      /\ \A i \in DOMAIN referenda : referenda[i] \in Referendum
  <2>1. referenda \in Seq(Referendum)
    BY DEF ElectionTypes
  <2> QED BY <2>1, LenProperties, ElementOfSeq
<1>1. ASSUME NEW m \in Miners, NEW ops \in Referenda, NEW pledge \in 1 .. MaxPledge,
             referendum_create(m, ops, pledge)
      PROVE  ElectionTypes'
  <2> DEFINE r == [by |-> "miners", ops |-> ops, left |-> Packing + Voting,
                   pledge |-> pledge, miner_pledge |-> weight[m], required |-> Miners, approved |-> {},
                   finished |-> FALSE]
  <2>1. Agreed(ops)
    <3>1. \A i \in DOMAIN ops : Replaceable(ops[i], formal) /\ UniqueTargets(ops[i])
      BY <1>1 DEF referendum_create, evaluate_referendum
    <3> QED BY <3>1, CreateAgreed
  <2>2. weight[m] \in Nat /\ Packing + Voting \in Int /\ pledge \in Nat
    BY ElectionAssumption DEF ElectionTypes
  <2>3. r \in Referendum
    BY <2>1, <2>2 DEF Referendum, AgreedOf
  <2> HIDE DEF r
  <2>4. referenda' = Append(referenda, r)
    BY <1>1 DEF referendum_create, r
  <2>5. referenda' \in Seq(Referendum)
    BY <1>0, <2>3, <2>4, AppendProperties
  <2> QED BY <1>1, <2>5 DEF referendum_create, ElectionTypes, committee, history
<1>2. ASSUME NEW i \in DOMAIN referenda, NEW add, NEW remove, referendum_update(i, add, remove)
      PROVE  ElectionTypes'
  <2> DEFINE r == Voted(referenda[i], add, remove)
             voted == [referenda EXCEPT ![i] = r]
  <2>1. r \in Referendum
    BY <1>0, ReferendumVote
  <2>2. voted \in Seq(Referendum) /\ Len(voted) = Len(referenda) /\ i \in 1 .. Len(voted)
    BY <1>0, <2>1, ExceptShape
  <2>3. \/ Push(r) /\ referenda' = Executed(voted, i, push_operations(r))
        \/ referenda' = voted /\ UNCHANGED <<formal, kind, resigns, torn>>
    BY <1>2 DEF referendum_update, committee
  <2>4. UNCHANGED <<proposals, flag, wait, weight>> /\ early' \in BOOLEAN
    BY <1>2 DEF referendum_update, accounts
  <2> HIDE DEF r, voted
  <2>5. CASE Push(r) /\ referenda' = Executed(voted, i, push_operations(r))
    <3>1. referenda' \in Seq(Referendum)
      BY <2>2, <2>5, ExecutedShape
    <3>2. formal' \subseteq Wallfacers /\ kind' \in [Wallfacers -> Kinds] /\ torn' \in BOOLEAN
          /\ resigns' = resigns
      BY <2>1, <2>5, PushTypes DEF ElectionTypes
    <3> QED BY <2>4, <2>5, <3>1, <3>2 DEF ElectionTypes
  <2>6. CASE referenda' = voted /\ UNCHANGED <<formal, kind, resigns, torn>>
    BY <2>2, <2>4, <2>6 DEF ElectionTypes
  <2> QED BY <2>3, <2>5, <2>6
<1>3. ASSUME NEW i \in DOMAIN referenda, referendum_accelerate_pledge(i) PROVE ElectionTypes'
  <2> DEFINE x == [referenda[i] EXCEPT !.pledge = @ + 1]
  <2>1. x \in Referendum
    <3>1. ASSUME NEW y \in Referendum PROVE [y EXCEPT !.pledge = @ + 1] \in Referendum
      BY DEF Referendum
    <3> QED BY <1>0, <3>1
  <2>2. referenda' = [referenda EXCEPT ![i] = x]
    BY <1>3 DEF referendum_accelerate_pledge
  <2> HIDE DEF x
  <2>3. referenda' \in Seq(Referendum)
    BY <1>0, <2>1, <2>2, ExceptShape
  <2> QED BY <1>3, <2>3 DEF referendum_accelerate_pledge, ElectionTypes, committee, accounts, history
<1>4. ASSUME NEW i \in DOMAIN referenda, expire_referendum(i) PROVE ElectionTypes'
  <2> DEFINE r == referenda[i]
  <2>1. r \in Referendum
    BY <1>0
  <2>2. \/ Push(r) /\ referenda' = Executed(referenda, i, push_operations(r)) /\ UNCHANGED early
        \/ /\ referenda' = RemoveAt(referenda, i) /\ UNCHANGED <<kind, resigns, early, torn>>
           /\ formal' = rollback_referendum(r) \/ formal' = formal
    BY <1>4 DEF expire_referendum, history
  <2>3. UNCHANGED <<proposals, flag, wait, weight>>
    BY <1>4 DEF expire_referendum, accounts
  <2> HIDE DEF r
  <2>4. CASE Push(r) /\ referenda' = Executed(referenda, i, push_operations(r)) /\ UNCHANGED early
    <3>1. referenda' \in Seq(Referendum)
      BY <1>0, <2>4, ExecutedShape
    <3>2. formal' \subseteq Wallfacers /\ kind' \in [Wallfacers -> Kinds] /\ torn' \in BOOLEAN
          /\ resigns' = resigns
      BY <2>1, <2>4, PushTypes DEF ElectionTypes
    <3> QED BY <2>3, <2>4, <3>1, <3>2 DEF ElectionTypes
  <2>5. CASE /\ referenda' = RemoveAt(referenda, i) /\ UNCHANGED <<kind, resigns, early, torn>>
             /\ formal' = rollback_referendum(r) \/ formal' = formal
    <3>1. referenda' \in Seq(Referendum)
      BY <1>0, <2>5, RemoveAtShape
    <3>2. formal' \subseteq Wallfacers
      BY <2>1, <2>5, TakenBackTypes DEF ElectionTypes
    <3> QED BY <2>3, <2>5, <3>1, <3>2 DEF ElectionTypes
  <2> QED BY <2>2, <2>4, <2>5
<1>5. ASSUME determine_referendum_detailes PROVE ElectionTypes'
  <2>1. \/ referenda' \in {<<>>, referenda}
        \/ referenda # <<>> /\ referenda' = <<Leading(referenda)>>
    BY <1>5 DEF determine_referendum_detailes
  <2>2. referenda' \in Seq(Referendum)
    <3>1. ASSUME referenda # <<>> PROVE <<Leading(referenda)>> \in Seq(Referendum)
      <4>1. Leading(referenda) \in Referendum
        BY <1>0, <3>1, LeadingExists
      <4> QED BY <4>1
    <3> QED BY <1>0, <2>1, <3>1, EmptySeq
  <2>3. flag' \in BOOLEAN /\ wait' \in Nat
    BY <1>5, ElectionAssumption DEF determine_referendum_detailes, ElectionTypes
  <2>4. UNCHANGED <<formal, kind, proposals, weight, resigns, early, torn>>
    BY <1>5 DEF determine_referendum_detailes, committee, accounts
  <2> QED BY <2>2, <2>3, <2>4 DEF ElectionTypes
<1> QED BY <1>1, <1>2, <1>3, <1>4, <1>5

\* The finished election that is removed is one of the proposals.
LEMMA FinishedPlace ==
  ASSUME ElectionTypes, NEW done, done = {i \in DOMAIN proposals : proposals[i].finished /\ ~_need_rollback},
         done # {}
  PROVE  Min(done) \in 1 .. Len(proposals) /\ proposals[Min(done)].finished
<1>1. proposals \in Seq(Proposal) /\ DOMAIN proposals = 1 .. Len(proposals) /\ Len(proposals) \in Nat
  BY LenProperties DEF ElectionTypes
<1>2. done \subseteq Nat
  BY <1>1
<1>3. \E n \in done : \A m \in done : n <= m
  BY <1>2, SmallestOf
<1>4. Min(done) \in done
  BY <1>3 DEF Min
<1> QED BY <1>1, <1>4

LEMMA TypesNext ==
  ASSUME ElectionTypes, [Next]_vars
  PROVE  ElectionTypes'
<1>1. CASE \E ops \in Elections, left \in 1 .. Lifetime, review \in BOOLEAN :
             proposal_create(ops, left, review)
  BY <1>1, ProposalTypes
<1>2. CASE \E i \in DOMAIN proposals : \E add, remove \in SUBSET proposals[i].required :
             proposal_update(i, add, remove)
  BY <1>2, ProposalTypes
<1>3. CASE \E i \in DOMAIN proposals : proposal_delete(i)
  BY <1>3, ProposalTypes
<1>4. CASE \E m \in Miners, ops \in Referenda, pledge \in 1 .. MaxPledge :
             referendum_create(m, ops, pledge)
  BY <1>4, ReferendumTypes
<1>5. CASE \E i \in DOMAIN referenda : \E add, remove \in SUBSET referenda[i].required :
             referendum_update(i, add, remove)
  BY <1>5, ReferendumTypes
<1>6. CASE \E i \in DOMAIN referenda : referendum_accelerate_pledge(i)
  BY <1>6, ReferendumTypes
<1>7. ASSUME NEW w \in Wallfacers, wallfacer_member_resign(w) PROVE ElectionTypes'
  BY <1>7 DEF wallfacer_member_resign, ElectionTypes, accounts
<1>8. ASSUME NEW a \in Assets, miner_generate_multi_asset(a) PROVE ElectionTypes'
  BY <1>8 DEF miner_generate_multi_asset, ElectionTypes, committee, history
<1>9. ASSUME NEW a \in Assets, NEW pair, wallfacer_update_multi_account(a, pair) PROVE ElectionTypes'
  BY <1>9 DEF wallfacer_update_multi_account, ElectionTypes, committee
<1>10. ASSUME NEW w \in Weights, change_pledge_weight(w) PROVE ElectionTypes'
  BY <1>10 DEF change_pledge_weight, ElectionTypes, committee, history
<1>11. ASSUME apply_block PROVE ElectionTypes'
  <2>1. proposals' \in Seq(Proposal) /\ referenda' \in Seq(Referendum)
    BY <1>11, OlderShape DEF apply_block, ElectionTypes
  <2>2. wait' \in Nat
    BY <1>11 DEF apply_block, ElectionTypes
  <2> QED BY <1>11, <2>1, <2>2 DEF apply_block, ElectionTypes, committee, accounts, history
<1>12. CASE \E i \in DOMAIN proposals : expire_proposal(i)
  BY <1>12, ProposalTypes
<1>13. ASSUME clear_finished_proposal PROVE ElectionTypes'
  <2>1. \/ proposals' = proposals
        \/ \E i \in 1 .. Len(proposals) : proposals' = RemoveAt(proposals, i)
    BY <1>13, FinishedPlace DEF clear_finished_proposal
  <2>2. proposals' \in Seq(Proposal)
    BY <2>1, RemoveAtShape DEF ElectionTypes
  <2> QED BY <1>13, <2>2 DEF clear_finished_proposal, ElectionTypes, committee, accounts
<1>14. CASE \E i \in DOMAIN referenda : expire_referendum(i)
  BY <1>14, ReferendumTypes
<1>15. CASE determine_referendum_detailes
  BY <1>15, ReferendumTypes
<1>16. CASE UNCHANGED vars
  BY <1>16 DEF vars, ElectionTypes
<1> QED BY <1>1, <1>2, <1>3, <1>4, <1>5, <1>6, <1>7, <1>8, <1>9, <1>10, <1>11, <1>12, <1>13,
           <1>14, <1>15, <1>16 DEF Next, Transactions, BlockEnd

-----------------------------------------------------------------------------
(* The committee.                                                           *)

LEMMA Shapes ==
  ASSUME ElectionTypes
  PROVE  /\ proposals \in Seq(Proposal) /\ Len(proposals) \in Nat /\ DOMAIN proposals = 1 .. Len(proposals)
         /\ referenda \in Seq(Referendum) /\ Len(referenda) \in Nat /\ DOMAIN referenda = 1 .. Len(referenda)
         /\ \A i \in 1 .. Len(proposals) : proposals[i] \in Proposal
         /\ \A i \in 1 .. Len(referenda) : referenda[i] \in Referendum
         /\ proposals = <<>> <=> Len(proposals) = 0
         /\ referenda = <<>> <=> Len(referenda) = 0
<1>1. proposals \in Seq(Proposal) /\ referenda \in Seq(Referendum)
  BY DEF ElectionTypes
<1> QED BY <1>1, LenProperties, ElementOfSeq, EmptySeq

\* A wallfacer who resigns was not replaced by the election that is not settled.
LEMMA SeatedResign ==
  ASSUME NEW ops \in AgreedOf(Elections) \cup AgreedOf(Referenda), NEW f, f \subseteq Wallfacers,
         NEW s, NEW t, NEW w, Seated(ops, f, s, t)
  PROVE  Seated(ops, f \ {w}, IF w \in f THEN s \ {w} ELSE s, t)
<1> DEFINE A == Added(ops, Len(ops))
           T == Removed(ops, Len(ops))
           g == f \ {w}
           u == IF w \in f THEN s \ {w} ELSE s
<1>1. ops \in Elections \cup Referenda /\ Agreed(ops) /\ Len(ops) \in 0 .. Len(ops)
  BY OpsShape DEF AgreedOf
<1>2. A \cap T = {} /\ A \subseteq Wallfacers
  BY <1>1, AddedShape
<1>3. T \cap f = {} /\ Cardinality(A) = Cardinality(T) /\ Cardinality(f \cup A) <= Start
      /\ (~t => s = (f \ A) \cup T)
  BY DEF Seated
<1> HIDE DEF A, T
<1>4. T \cap g = {}
  BY <1>3
<1>5. ~t => u = (g \ A) \cup T
  BY <1>2, <1>3
<1>6. Cardinality(g \cup A) <= Start
  <2>1. f \cup A \subseteq Wallfacers /\ g \cup A \subseteq f \cup A /\ g \cup A \subseteq Wallfacers
        /\ Permanent \cup External \subseteq Wallfacers
    BY <1>2 DEF Wallfacers
  <2>2. Cardinality(g \cup A) <= Cardinality(f \cup A) /\ Cardinality(g \cup A) \in Nat
        /\ Cardinality(f \cup A) \in Nat /\ Start \in Nat
    BY ONLY <2>1, SmallerPart, Finite DEF Start
  <2> QED BY ONLY <1>3, <2>2
<1> HIDE DEF g, u
<1>7. Seated(ops, g, u, t)
  BY <1>3, <1>4, <1>5, <1>6 DEF Seated, A, T
<1> QED BY <1>7 DEF g, u

\* Taking back an election, all of it or its first operation, leaves room for those
\* who return.
LEMMA SeatedBack ==
  ASSUME ElectionTypes, Sized, NEW ops \in AgreedOf(Elections) \cup AgreedOf(Referenda),
         NEW s, NEW t, Seated(ops, formal, s, t), NEW n \in {1, Len(ops)}, NEW g,
         g = (formal \ Added(ops, n)) \cup Removed(ops, n)
  PROVE  /\ Cardinality(g) <= Start /\ Cardinality(g) + resigns >= Start
         /\ n = Len(ops) /\ ~t => g = s
<1> DEFINE A == Added(ops, Len(ops))
           T == Removed(ops, Len(ops))
           D == Added(ops, n)
           R == Removed(ops, n)
<1>1. ops \in Elections \cup Referenda /\ Agreed(ops) /\ Len(ops) \in Nat /\ Len(ops) >= 1
  BY OpsShape DEF AgreedOf
<1>2. n \in 0 .. Len(ops) /\ Len(ops) \in 0 .. Len(ops) /\ 1 \in 1 .. Len(ops)
  BY <1>1
<1>3. /\ A \subseteq Wallfacers /\ T \subseteq Wallfacers /\ D \subseteq Wallfacers /\ R \subseteq Wallfacers
      /\ A \cap T = {}
  BY <1>1, <1>2, AddedShape
<1>4. /\ T \cap formal = {} /\ Cardinality(A) = Cardinality(T) /\ Cardinality(formal \cup A) <= Start
      /\ (~t => s = (formal \ A) \cup T)
  BY DEF Seated
<1>5. D \subseteq A /\ R \subseteq T /\ Cardinality(R) = Cardinality(D)
  <2>1. CASE n = Len(ops)
    BY <1>4, <2>1
  <2>2. CASE n = 1
    <3>1. D = DOMAIN ops[1] /\ R = Range(ops[1])
      <4>1. Added(ops, 1) = Added(ops, 1 - 1) \cup DOMAIN ops[1]
            /\ Removed(ops, 1) = Removed(ops, 1 - 1) \cup Range(ops[1])
        BY OneMore
      <4>2. 1 - 1 = 0
        OBVIOUS
      <4> QED BY <2>2, <4>1, <4>2, NoneAdded
    <3>2. DOMAIN ops[1] \subseteq A /\ Range(ops[1]) \subseteq T
      BY <1>1, <1>2, AddedShape
    <3>3. Cardinality(Range(ops[1])) = Cardinality(DOMAIN ops[1])
      BY <1>1, <1>2 DEF Agreed, UniqueTargets
    <3> QED BY <3>1, <3>2, <3>3
  <2> QED BY <2>1, <2>2
<1>6. g = (formal \ D) \cup R /\ (n = Len(ops) /\ ~t => g = s)
  BY <1>4
<1>7. formal \subseteq Wallfacers /\ resigns \in Nat
  BY DEF ElectionTypes
<1> HIDE DEF A, T, D, R
<1>8. R \cap formal = {}
  BY <1>4, <1>5
<1>9. Cardinality(g) = Cardinality(formal \cup D) /\ Cardinality(formal) <= Cardinality(g)
  BY ONLY <1>3, <1>5, <1>6, <1>7, <1>8, TakeBackSize
<1>10. Cardinality(formal \cup D) <= Cardinality(formal \cup A)
  <2>1. formal \cup A \subseteq Wallfacers /\ formal \cup D \subseteq formal \cup A
    BY <1>3, <1>5, <1>7
  <2> QED BY ONLY <2>1, SmallerPart
<1>11. /\ Cardinality(g) \in Nat /\ Cardinality(formal) \in Nat /\ Cardinality(formal \cup A) \in Nat
       /\ Start \in Nat
  <2>1. /\ g \subseteq Wallfacers /\ formal \cup A \subseteq Wallfacers
        /\ Permanent \cup External \subseteq Wallfacers
    BY <1>3, <1>6, <1>7 DEF Wallfacers
  <2> QED BY ONLY <1>7, <2>1, Finite DEF Start
<1>12. Cardinality(formal) + resigns >= Start
  BY DEF Sized
<1>13. Cardinality(g) <= Start /\ Cardinality(g) + resigns >= Start
  BY ONLY <1>4, <1>7, <1>9, <1>10, <1>11, <1>12
<1> QED BY <1>6, <1>13

\* A proposal that is settled, executed, taken back or removed: the end of every
\* step on the only proposal.
LEMMA ProposalStep ==
  ASSUME ElectionTypes, ElectionTypes', Orderly, UNCHANGED <<referenda, flag, wait, phase>>,
         proposals # <<>>, Sized',
         \/ proposals' = <<>> /\ (torn' \/ formal' = settled')
         \/ /\ Len(proposals') = 1
            /\ proposals'[1].approved # {} \/ proposals'[1].finished => proposals'[1].voted
            /\ proposals'[1].finished => Seated(proposals'[1].ops, formal', settled', torn')
            /\ ~proposals'[1].finished => (torn' \/ formal' = settled')
  PROVE  Orderly'
<1>1. referenda = <<>> /\ Len(referenda) = 0 /\ referenda' = <<>>
  BY Shapes DEF Orderly, OneElection
<1>2. 1 .. 0 = {} /\ Len(<<>>) = 0 /\ 1 .. 1 = {1}
  OBVIOUS
<1>3. Packed'
  BY <1>1, <1>2 DEF Packed
<1>4. OneElection'
  <2>1. CASE proposals' = <<>>
    BY <1>1, <1>2, <2>1 DEF OneElection
  <2>2. CASE Len(proposals') = 1
    BY <1>1, <1>2, <2>2 DEF OneElection
  <2> QED BY <2>1, <2>2
<1>5. Outcomes'
  <2>1. CASE proposals' = <<>>
    BY <1>1, <1>2, <2>1 DEF Outcomes
  <2>2. CASE Len(proposals') = 1
    BY <1>1, <1>2, <2>2, Shapes DEF Outcomes
  <2> QED BY <2>1, <2>2
<1>6. SettledCommittee'
  <2>1. CASE proposals' = <<>>
    BY <2>1 DEF SettledCommittee, AllSettled
  <2>2. CASE Len(proposals') = 1 /\ proposals' # <<>>
    <3>1. 1 \in 1 .. Len(proposals')
      BY <2>2
    <3> QED BY <2>2, <3>1 DEF SettledCommittee, AllSettled
  <2> QED BY <2>1, <2>2
<1> QED BY <1>3, <1>4, <1>5, <1>6 DEF Orderly

\* The only proposal.
LEMMA OneProposal ==
  ASSUME ElectionTypes, Orderly, NEW i \in DOMAIN proposals
  PROVE  /\ i = 1 /\ Len(proposals) = 1 /\ proposals # <<>> /\ referenda = <<>>
         /\ proposals[1] \in Proposal
         /\ RemoveAt(proposals, i) = <<>>
         /\ ~proposals[1].finished => (torn \/ formal = settled)
<1>1. i = 1 /\ Len(proposals) = 1 /\ proposals # <<>> /\ referenda = <<>> /\ Len(referenda) = 0
  BY Shapes DEF Orderly, OneElection
<1>2. proposals[1] \in Proposal /\ proposals \in Seq(Proposal) /\ 1 \in 1 .. Len(proposals)
  BY <1>1, Shapes
<1>3. RemoveAt(proposals, 1) = <<>>
  <2>1. RemoveAt(proposals, 1) \in Seq(Proposal) /\ Len(RemoveAt(proposals, 1)) = 0
    BY <1>1, <1>2, RemoveAtShape
  <2> QED BY <2>1, EmptySeq
<1>4. ASSUME ~proposals[1].finished PROVE torn \/ formal = settled
  <2>1. 1 .. Len(proposals) = {1} /\ 1 .. Len(referenda) = {}
    BY <1>1
  <2>2. AllSettled
    BY <1>4, <2>1 DEF AllSettled
  <2> QED BY <2>2 DEF Orderly, SettledCommittee
<1> QED BY <1>1, <1>2, <1>3, <1>4

LEMMA ExecutedProposal ==
  ASSUME NEW s \in Seq(Proposal), Len(s) = 1, NEW res, res.ok
  PROVE  /\ Len(Executed(s, 1, res)) = 1 /\ Executed(s, 1, res)[1].finished
         /\ Executed(s, 1, res)[1].ops = s[1].ops /\ Executed(s, 1, res)[1].voted = s[1].voted
<1>1. 1 \in 1 .. Len(s) /\ Proposal \in {Proposal, Referendum}
  OBVIOUS
<1> QED BY <1>1, ExecutedKeeps

LEMMA ExecutedReferendum ==
  ASSUME NEW s \in Seq(Referendum), Len(s) = 1, NEW res, res.ok
  PROVE  /\ Len(Executed(s, 1, res)) = 1 /\ Executed(s, 1, res)[1].finished
         /\ Executed(s, 1, res)[1].ops = s[1].ops
<1>1. 1 \in 1 .. Len(s) /\ Referendum \in {Proposal, Referendum}
  OBVIOUS
<1> QED BY <1>1, ExecutedKeeps

LEMMA ProposalUpdateStep ==
  ASSUME ElectionTypes, ElectionTypes', Orderly, NEW i \in DOMAIN proposals, NEW add, NEW remove,
         proposal_update(i, add, remove)
  PROVE  Orderly'
<1> DEFINE r == [Voted(proposals[1], add, remove) EXCEPT !.voted = @ \/ add \cup remove # {}]
           voted == [proposals EXCEPT ![1] = r]
           res == push_operations(r)
<1>1. /\ i = 1 /\ Len(proposals) = 1 /\ proposals # <<>> /\ proposals[1] \in Proposal
      /\ ~proposals[1].finished => (torn \/ formal = settled)
  BY OneProposal
<1>2. /\ ~proposals[1].finished
      /\ \/ Push(r) /\ proposals' = Executed(voted, 1, res) /\ is_authorized_to_execute(r)
         \/ proposals' = voted /\ UNCHANGED <<formal, settled, torn, resigns>>
  BY <1>1 DEF proposal_update, committee, history
<1>3. UNCHANGED <<referenda, flag, wait, phase>>
  BY DEF proposal_update
<1>4. /\ r \in Proposal /\ r.ops = proposals[1].ops /\ r.finished = proposals[1].finished
      /\ r.approved # {} => proposals[1].approved # {} \/ r.voted
      /\ proposals[1].voted => r.voted
  BY <1>1, ProposalVote
<1>5. r.approved # {} => r.voted
  <2>1. 1 \in 1 .. Len(proposals)
    BY <1>1
  <2>2. proposals[1].approved # {} => proposals[1].voted
    BY <2>1 DEF Orderly, OneElection
  <2> QED BY <1>4, <2>2
<1> HIDE DEF r
<1>6. voted \in Seq(Proposal) /\ Len(voted) = 1 /\ voted[1] = r /\ 1 \in 1 .. Len(voted)
  <2>1. proposals \in Seq(Proposal) /\ 1 \in 1 .. Len(proposals)
    BY <1>1, Shapes
  <2> QED BY <1>1, <1>4, <2>1, ExceptShape
<1> HIDE DEF voted, res
<1>7. formal \subseteq Wallfacers /\ kind \in [Wallfacers -> Kinds] /\ torn \in BOOLEAN /\ resigns \in Nat
      /\ weight \in Weights
  BY DEF ElectionTypes
<1>8. CASE proposals' = voted /\ UNCHANGED <<formal, settled, torn, resigns>>
  <2>1. Sized'
    BY <1>8 DEF Orderly, Sized, Start
  <2> QED BY <1>1, <1>2, <1>3, <1>4, <1>5, <1>6, <1>8, <2>1, ProposalStep
<1>9. CASE Push(r) /\ proposals' = Executed(voted, 1, res) /\ is_authorized_to_execute(r)
  <2>1. r.approved # {}
    BY <1>4, <1>7, <1>9, NeedsVotes
  <2>2. /\ Sized'
        /\ res.ok => Seated(r.ops, formal', settled', torn')
        /\ ~res.ok => (torn' \/ formal' = settled')
    <3>1. Sized /\ (torn \/ formal = settled)
      BY <1>1, <1>2 DEF Orderly
    <3> QED BY <1>4, <1>7, <1>9, <3>1, PushSeats DEF res
  <2>3. CASE res.ok
    <3>1. /\ Len(proposals') = 1 /\ proposals'[1].finished /\ proposals'[1].ops = r.ops
          /\ proposals'[1].voted = r.voted
      BY <1>6, <1>9, <2>3, ExecutedProposal
    <3> QED BY <1>1, <1>3, <1>5, <2>1, <2>2, <2>3, <3>1, ProposalStep
  <2>4. CASE ~res.ok
    <3>1. proposals' = RemoveAt(voted, 1)
      BY <1>9, <2>4, ExecutedFails
    <3>2. proposals' \in Seq(Proposal) /\ Len(proposals') = 0
      <4>1. RemoveAt(voted, 1) \in Seq(Proposal) /\ Len(RemoveAt(voted, 1)) = Len(voted) - 1
        BY <1>6, RemoveAtShape
      <4> QED BY <1>6, <3>1, <4>1
    <3>3. proposals' = <<>>
      BY <3>2, EmptySeq
    <3> QED BY <1>1, <1>3, <2>2, <2>4, <3>3, ProposalStep
  <2> QED BY <2>3, <2>4
<1> QED BY <1>2, <1>8, <1>9

LEMMA ProposalDeleteStep ==
  ASSUME ElectionTypes, ElectionTypes', Orderly, NEW i \in DOMAIN proposals, proposal_delete(i)
  PROVE  Orderly'
<1>1. /\ i = 1 /\ Len(proposals) = 1 /\ proposals # <<>> /\ RemoveAt(proposals, i) = <<>>
      /\ ~proposals[1].finished => (torn \/ formal = settled)
  BY OneProposal
<1>2. ~proposals[1].finished
  <2>1. 1 \in 1 .. Len(proposals) /\ ~proposals[1].voted
    BY <1>1 DEF proposal_delete
  <2> QED BY <2>1 DEF Orderly, OneElection
<1>3. proposals' = <<>> /\ UNCHANGED <<referenda, flag, wait, phase, formal, settled, torn, resigns>>
  BY <1>1 DEF proposal_delete, committee, history
<1>4. Sized'
  BY <1>3 DEF Orderly, Sized, Start
<1> QED BY <1>1, <1>2, <1>3, <1>4, ProposalStep

LEMMA ExpireProposalStep ==
  ASSUME ElectionTypes, ElectionTypes', Orderly, NEW i \in DOMAIN proposals, expire_proposal(i)
  PROVE  Orderly'
<1> DEFINE r == proposals[1]
           res == push_operations(r)
<1>1. /\ i = 1 /\ Len(proposals) = 1 /\ proposals # <<>> /\ r \in Proposal
      /\ RemoveAt(proposals, i) = <<>>
      /\ ~r.finished => (torn \/ formal = settled)
  BY OneProposal
<1>2. proposals \in Seq(Proposal) /\ 1 \in 1 .. Len(proposals)
  BY <1>1, Shapes
<1>3. UNCHANGED <<referenda, flag, wait, phase>>
  BY DEF expire_proposal
<1>4. formal \subseteq Wallfacers /\ kind \in [Wallfacers -> Kinds] /\ torn \in BOOLEAN /\ resigns \in Nat
      /\ weight \in Weights
  BY DEF ElectionTypes
<1>5. CASE is_authorized_to_execute(r)
  <2>1. Push(r) /\ proposals' = Executed(proposals, 1, res)
    BY <1>1, <1>5 DEF expire_proposal
  <2>2. ~r.finished /\ r.approved # {}
    BY <1>1, <1>4, <1>5, NeedsVotes
  <2>3. r.voted
    BY <1>2, <2>2 DEF Orderly, OneElection
  <2>4. /\ Sized'
        /\ res.ok => Seated(r.ops, formal', settled', torn')
        /\ ~res.ok => (torn' \/ formal' = settled')
    <3>1. Sized /\ (torn \/ formal = settled)
      BY <1>1, <2>2 DEF Orderly
    <3> QED BY <1>1, <1>4, <2>1, <3>1, PushSeats
  <2> HIDE DEF res, r
  <2>5. CASE res.ok
    <3>1. /\ Len(proposals') = 1 /\ proposals'[1].finished /\ proposals'[1].ops = r.ops
          /\ proposals'[1].voted = r.voted
      BY <1>1, <1>2, <2>1, <2>5, ExecutedProposal DEF r
    <3> QED BY <1>1, <1>3, <2>3, <2>4, <2>5, <3>1, ProposalStep
  <2>6. CASE ~res.ok
    <3>1. proposals' = <<>>
      BY <1>1, <1>2, <2>1, <2>6, ExecutedFails
    <3> QED BY <1>1, <1>3, <2>4, <2>6, <3>1, ProposalStep
  <2> QED BY <2>5, <2>6
<1>6. CASE ~is_authorized_to_execute(r)
  <2>1. /\ proposals' = <<>> /\ resigns' = resigns
        /\ formal' = IF r.finished /\ _need_rollback THEN _rollback_votes(r) ELSE formal
        /\ settled' = IF r.finished /\ ~_need_rollback THEN formal ELSE settled
        /\ torn' = (torn \/ (r.finished /\ _need_rollback /\ Len(r.ops) > 1))
    BY <1>1, <1>6 DEF expire_proposal
  <2>2. CASE ~r.finished
    <3>1. UNCHANGED <<formal, settled, torn, resigns>>
      BY <1>4, <2>1, <2>2
    <3>2. Sized'
      BY <3>1 DEF Orderly, Sized, Start
    <3> QED BY <1>1, <1>3, <2>1, <2>2, <3>1, <3>2, ProposalStep
  <2>3. CASE r.finished /\ ~_need_rollback
    <3>1. formal' = formal /\ settled' = formal
      BY <2>1, <2>3
    <3>2. Sized'
      BY <2>1, <3>1 DEF Orderly, Sized, Start
    <3> QED BY <1>1, <1>3, <2>1, <3>1, <3>2, ProposalStep
  <2>4. CASE r.finished /\ _need_rollback
    <3>1. Seated(r.ops, formal, settled, torn) /\ Sized
      BY <1>2, <2>4 DEF Orderly, Outcomes
    <3>2. r.ops \in AgreedOf(Elections) /\ Len(r.ops) \in Nat /\ Len(r.ops) >= 1
      <4>1. r.ops \in AgreedOf(Elections)
        BY <1>1 DEF Proposal
      <4> QED BY <4>1, OpsShape DEF AgreedOf
    <3>3. formal' = (formal \ Added(r.ops, 1)) \cup Removed(r.ops, 1)
      <4>1. Added(r.ops, 1) = Added(r.ops, 1 - 1) \cup DOMAIN r.ops[1]
            /\ Removed(r.ops, 1) = Removed(r.ops, 1 - 1) \cup Range(r.ops[1])
        BY OneMore
      <4>2. 1 - 1 = 0
        OBVIOUS
      <4>3. Added(r.ops, 1) = DOMAIN r.ops[1] /\ Removed(r.ops, 1) = Range(r.ops[1])
        BY <4>1, <4>2, NoneAdded
      <4> QED BY <2>1, <2>4, <4>3 DEF _rollback_votes, TakenBack
    <3> HIDE DEF r
    <3>4. /\ Cardinality(formal') <= Start /\ Cardinality(formal') + resigns >= Start
          /\ 1 = Len(r.ops) /\ ~torn => formal' = settled
      BY <3>1, <3>2, <3>3, SeatedBack
    <3>5. Sized'
      BY <2>1, <3>4 DEF Sized, Start
    <3>6. torn' \/ formal' = settled'
      <4>1. settled' = settled /\ (torn => torn') /\ (Len(r.ops) > 1 => torn')
        BY <2>1, <2>4
      <4>2. Len(r.ops) > 1 \/ 1 = Len(r.ops)
        <5>1. \A n \in Nat : n >= 1 => n > 1 \/ 1 = n
          OBVIOUS
        <5> QED BY ONLY <3>2, <5>1
      <4> QED BY <3>4, <4>1, <4>2
    <3> QED BY <1>1, <1>3, <2>1, <3>5, <3>6, ProposalStep
  <2> QED BY <2>2, <2>3, <2>4
<1> QED BY <1>5, <1>6

\* A step that leaves all elections and the committee alone.
LEMMA IdleStep ==
  ASSUME Orderly,
         UNCHANGED <<proposals, referenda, flag, wait, formal, settled, torn, resigns>>,
         phase' = phase \/ phase' # "txs"
  PROVE  Orderly'
  BY DEF Orderly, OneElection, Packed, Outcomes, Sized, SettledCommittee, AllSettled, Start

LEMMA ClearFinishedStep ==
  ASSUME ElectionTypes, ElectionTypes', Orderly, clear_finished_proposal
  PROVE  Orderly'
<1> DEFINE done == {i \in DOMAIN proposals : proposals[i].finished /\ ~_need_rollback}
<1>1. UNCHANGED <<formal, referenda, flag, wait, torn, resigns>> /\ phase' = "referenda"
  BY DEF clear_finished_proposal, committee
<1>2. CASE done = {}
  <2>1. UNCHANGED <<proposals, settled>>
    BY <1>2 DEF clear_finished_proposal
  <2> QED BY <1>1, <2>1, IdleStep
<1>3. CASE done # {}
  <2>1. Min(done) \in DOMAIN proposals
    BY <1>3, FinishedPlace, Shapes
  <2>2. proposals' = RemoveAt(proposals, Min(done)) /\ settled' = formal
    BY <1>3 DEF clear_finished_proposal
  <2> HIDE DEF done
  <2>3. proposals' = <<>> /\ referenda = <<>>
    BY <2>1, <2>2, OneProposal
  <2>4. 1 .. 0 = {} /\ Len(<<>>) = 0
    OBVIOUS
  <2> QED BY <1>1, <2>2, <2>3, <2>4
          DEF Orderly, OneElection, Packed, Outcomes, Sized, SettledCommittee, AllSettled, Start
<1> QED BY <1>2, <1>3

\* The end of every step on a referendum that was voted on.
LEMMA ReferendumStep ==
  ASSUME ElectionTypes, ElectionTypes', UNCHANGED <<proposals, flag, wait, phase>>,
         proposals = <<>>, flag, wait = 0, Sized',
         \/ referenda' = <<>> /\ (torn' \/ formal' = settled')
         \/ /\ Len(referenda') = 1
            /\ referenda'[1].finished => Seated(referenda'[1].ops, formal', settled', torn')
            /\ ~referenda'[1].finished => (torn' \/ formal' = settled')
  PROVE  Orderly'
<1>1. 1 .. 0 = {} /\ Len(<<>>) = 0 /\ 1 .. 1 = {1} /\ ~(wait > 0) /\ 0 <= 1
  OBVIOUS
<1>2. proposals' = <<>> /\ flag' /\ wait' = 0
  OBVIOUS
<1>3. OneElection'
  BY <1>1, <1>2 DEF OneElection
<1>4. Len(referenda') = 0 \/ Len(referenda') = 1
  BY <1>1
<1>5. Packed'
  <2>1. CASE Len(referenda') = 0
    BY <1>1, <1>2, <2>1 DEF Packed
  <2>2. CASE Len(referenda') = 1
    BY <1>1, <1>2, <2>2 DEF Packed
  <2> QED BY <1>4, <2>1, <2>2
<1>6. Outcomes'
  <2>1. CASE referenda' = <<>>
    BY <1>1, <1>2, <2>1 DEF Outcomes
  <2>2. CASE Len(referenda') = 1
    BY <1>1, <1>2, <2>2 DEF Outcomes
  <2> QED BY <2>1, <2>2
<1>7. SettledCommittee'
  <2>1. CASE referenda' = <<>>
    BY <2>1 DEF SettledCommittee, AllSettled
  <2>2. CASE Len(referenda') = 1 /\ referenda' # <<>>
    <3>1. 1 \in 1 .. Len(referenda')
      BY <2>2
    <3> QED BY <2>2, <3>1 DEF SettledCommittee, AllSettled
  <2> QED BY <2>1, <2>2
<1> QED BY <1>3, <1>5, <1>6, <1>7 DEF Orderly

\* A referendum that is voted on, or that was, is the only election.
LEMMA OneReferendum ==
  ASSUME ElectionTypes, Orderly, Len(referenda) = 1
  PROVE  /\ proposals = <<>>
         /\ referenda[1] \in Referendum /\ referenda \in Seq(Referendum) /\ 1 \in 1 .. Len(referenda)
         /\ RemoveAt(referenda, 1) = <<>>
         /\ ~referenda[1].finished => (torn \/ formal = settled)
<1>1. proposals = <<>> /\ Len(proposals) = 0
  BY Shapes DEF Orderly, OneElection
<1>2. referenda[1] \in Referendum /\ referenda \in Seq(Referendum) /\ 1 \in 1 .. Len(referenda)
  BY Shapes
<1>3. RemoveAt(referenda, 1) = <<>>
  <2>1. RemoveAt(referenda, 1) \in Seq(Referendum) /\ Len(RemoveAt(referenda, 1)) = 0
    BY <1>2, RemoveAtShape
  <2> QED BY <2>1, EmptySeq
<1>4. ASSUME ~referenda[1].finished PROVE torn \/ formal = settled
  <2>1. 1 .. Len(referenda) = {1} /\ 1 .. Len(proposals) = {}
    BY <1>1
  <2>2. AllSettled
    BY <1>4, <2>1 DEF AllSettled
  <2> QED BY <2>2 DEF Orderly, SettledCommittee
<1> QED BY <1>1, <1>2, <1>3, <1>4

\* A referendum that is pushed, whoever's vote or whatever weight made its quorum.
LEMMA ReferendumPushed ==
  ASSUME ElectionTypes, ElectionTypes', Orderly, UNCHANGED <<proposals, flag, wait, phase>>,
         flag, wait = 0, Len(referenda) = 1, ~referenda[1].finished,
         NEW s \in Seq(Referendum), Len(s) = 1, Push(s[1]),
         referenda' = Executed(s, 1, push_operations(s[1]))
  PROVE  Orderly'
<1> DEFINE r == s[1]
           res == push_operations(r)
<1>1. proposals = <<>> /\ (torn \/ formal = settled)
  BY OneReferendum
<1>2. r \in Referendum /\ 1 \in 1 .. Len(s)
  BY ElementOfSeq
<1>3. /\ Sized'
      /\ res.ok => Seated(r.ops, formal', settled', torn')
      /\ ~res.ok => (torn' \/ formal' = settled')
  <2>1. Sized
    BY DEF Orderly
  <2>2. formal \subseteq Wallfacers /\ kind \in [Wallfacers -> Kinds] /\ torn \in BOOLEAN /\ resigns \in Nat
    BY DEF ElectionTypes
  <2> QED BY <1>1, <1>2, <2>1, <2>2, PushSeats
<1> HIDE DEF res
<1>4. CASE res.ok
  <2>1. Len(referenda') = 1 /\ referenda'[1].finished /\ referenda'[1].ops = r.ops
    BY <1>4, ExecutedReferendum DEF res
  <2> QED BY <1>1, <1>3, <1>4, <2>1, ReferendumStep
<1>5. CASE ~res.ok
  <2>1. referenda' = RemoveAt(s, 1)
    BY <1>5 DEF Executed, res
  <2>2. referenda' \in Seq(Referendum) /\ Len(referenda') = 0
    <3>1. RemoveAt(s, 1) \in Seq(Referendum) /\ Len(RemoveAt(s, 1)) = Len(s) - 1
      BY <1>2, RemoveAtShape
    <3> QED BY <2>1, <3>1
  <2>3. referenda' = <<>>
    BY <2>2, EmptySeq
  <2> QED BY <1>1, <1>3, <1>5, <2>3, ReferendumStep
<1> QED BY <1>4, <1>5

LEMMA ReferendumUpdateStep ==
  ASSUME ElectionTypes, ElectionTypes', Orderly, ~early', NEW i \in DOMAIN referenda,
         NEW add, NEW remove, referendum_update(i, add, remove)
  PROVE  Orderly'
<1> DEFINE r == Voted(referenda[1], add, remove)
           voted == [referenda EXCEPT ![1] = r]
<1>1. flag /\ wait = 0 /\ phase = "txs" /\ UNCHANGED <<proposals, flag, wait, phase>>
  BY DEF referendum_update, ElectionTypes
<1>2. i = 1 /\ Len(referenda) = 1
  BY <1>1, Shapes DEF Orderly, Packed
<1>3. /\ proposals = <<>> /\ referenda[1] \in Referendum /\ referenda \in Seq(Referendum)
      /\ 1 \in 1 .. Len(referenda)
      /\ ~referenda[1].finished => (torn \/ formal = settled)
  BY <1>2, OneReferendum
<1>4. /\ ~referenda[1].finished
      /\ \/ Push(r) /\ referenda' = Executed(voted, 1, push_operations(r))
         \/ referenda' = voted /\ UNCHANGED <<formal, settled, torn, resigns>>
  BY <1>2 DEF referendum_update, committee
<1>5. r \in Referendum /\ r.finished = referenda[1].finished
  BY <1>3, ReferendumVote
<1> HIDE DEF r
<1>6. voted \in Seq(Referendum) /\ Len(voted) = 1 /\ voted[1] = r
  BY <1>2, <1>3, <1>5, ExceptShape
<1> HIDE DEF voted
<1>7. CASE referenda' = voted /\ UNCHANGED <<formal, settled, torn, resigns>>
  <2>1. Sized'
    BY <1>7 DEF Orderly, Sized, Start
  <2> QED BY <1>1, <1>3, <1>4, <1>5, <1>6, <1>7, <2>1, ReferendumStep
<1>8. CASE Push(r) /\ referenda' = Executed(voted, 1, push_operations(r))
  BY <1>1, <1>2, <1>4, <1>6, <1>8, ReferendumPushed
<1> QED BY <1>4, <1>7, <1>8

LEMMA ExpireReferendumStep ==
  ASSUME ElectionTypes, ElectionTypes', Orderly, NEW i \in DOMAIN referenda, expire_referendum(i)
  PROVE  Orderly'
<1> DEFINE r == referenda[i]
<1>1. UNCHANGED <<proposals, flag, wait, phase>>
  BY DEF expire_referendum
<1>2. i \in 1 .. Len(referenda) /\ r \in Referendum /\ referenda \in Seq(Referendum) /\ Len(referenda) \in Nat
      /\ weight \in Weights
  BY Shapes DEF ElectionTypes
<1>3. ASSUME Counted(r) PROVE i = 1 /\ Len(referenda) = 1 /\ flag /\ wait = 0
  <2>1. Len(referenda) = 1 /\ ~(~flag \/ wait > 0)
    BY <1>2, <1>3 DEF Orderly, Packed
  <2>2. wait \in Nat
    BY DEF ElectionTypes
  <2> QED BY <1>2, <2>1, <2>2
<1>4. CASE is_authorized_to_execute(r)
  <2>1. ~r.finished /\ r.approved # {}
    BY <1>2, <1>4, NeedsVotes
  <2>2. i = 1 /\ Len(referenda) = 1 /\ flag /\ wait = 0
    BY <1>3, <2>1 DEF Counted
  <2>3. Push(referenda[1]) /\ referenda' = Executed(referenda, 1, push_operations(referenda[1]))
    BY <1>4, <2>2 DEF expire_referendum
  <2> QED BY <1>1, <1>2, <2>1, <2>2, <2>3, ReferendumPushed
<1>5. CASE ~is_authorized_to_execute(r) /\ r.finished
  <2>1. i = 1 /\ Len(referenda) = 1 /\ flag /\ wait = 0
    BY <1>3, <1>5 DEF Counted
  <2>2. proposals = <<>> /\ RemoveAt(referenda, 1) = <<>>
    BY <2>1, OneReferendum
  <2>3. referenda' = <<>> /\ formal' = rollback_referendum(r) /\ UNCHANGED <<settled, torn, resigns>>
    BY <1>5, <2>1, <2>2 DEF expire_referendum, history
  <2>4. Seated(r.ops, formal, settled, torn) /\ Sized
    BY <1>2, <1>5 DEF Orderly, Outcomes
  <2>5. r.ops \in AgreedOf(Referenda) /\ r.ops \in Elections \cup Referenda /\ Agreed(r.ops)
    BY <1>2 DEF Referendum, AgreedOf
  <2>6. formal' = (formal \ Added(r.ops, Len(r.ops))) \cup Removed(r.ops, Len(r.ops))
    BY <2>3, <2>5, RollingBack
  <2> HIDE DEF r
  <2>7. /\ Cardinality(formal') <= Start /\ Cardinality(formal') + resigns >= Start
        /\ ~torn => formal' = settled
    <3> DEFINE n == Len(r.ops)
    <3>1. n \in {1, Len(r.ops)} /\ formal' = (formal \ Added(r.ops, n)) \cup Removed(r.ops, n)
          /\ n = Len(r.ops) /\ r.ops \in AgreedOf(Elections) \cup AgreedOf(Referenda)
      BY <2>5, <2>6
    <3> HIDE DEF n
    <3> QED BY <2>4, <3>1, SeatedBack
  <2>8. Sized' /\ (torn' \/ formal' = settled')
    BY <2>3, <2>7 DEF Sized, Start
  <2> QED BY <1>1, <2>1, <2>2, <2>3, <2>8, ReferendumStep
<1>6. CASE ~is_authorized_to_execute(r) /\ ~r.finished
  <2>1. referenda' = RemoveAt(referenda, i) /\ UNCHANGED <<formal, settled, torn, resigns>>
    BY <1>6 DEF expire_referendum, history
  <2>2. /\ Len(referenda') = Len(referenda) - 1
        /\ \A j \in 1 .. (Len(referenda) - 1) : \E k \in 1 .. Len(referenda) : referenda'[j] = referenda[k]
    BY <1>2, <2>1, RemoveAtShape
  <2>3. proposals = <<>> /\ Len(proposals) = 0 /\ proposals' = <<>>
    BY <1>1, <1>2, Shapes DEF Orderly, OneElection
  <2>4. \A j \in 1 .. Len(referenda') : \E k \in 1 .. Len(referenda) : referenda'[j] = referenda[k]
    BY <2>2
  <2>5. OneElection'
    BY <1>1, <2>3 DEF Orderly, OneElection
  <2>6. Packed'
    <3>1. ~flag' \/ wait' > 0 => \A j \in 1 .. Len(referenda') : ~Counted(referenda'[j])
      BY <1>1, <2>4 DEF Orderly, Packed
    <3>2. flag' /\ wait' = 0 /\ phase' = "txs" => Len(referenda') <= 1
      BY <1>1, <1>2, <2>2 DEF Orderly, Packed
    <3>3. ASSUME NEW j \in 1 .. Len(referenda'), Counted(referenda'[j]) PROVE FALSE
      <4>1. PICK k \in 1 .. Len(referenda) : referenda'[j] = referenda[k]
        BY <2>4
      <4>2. Len(referenda) = 1
        BY <3>3, <4>1 DEF Orderly, Packed
      <4> QED BY <2>2, <4>2
    <3> QED BY <3>1, <3>2, <3>3 DEF Packed
  <2>7. Outcomes'
    BY <2>1, <2>3, <2>4 DEF Orderly, Outcomes
  <2>8. AllSettled
    <3>1. ASSUME NEW k \in 1 .. Len(referenda), referenda[k].finished PROVE FALSE
      <4>1. Len(referenda) = 1
        BY <3>1 DEF Orderly, Packed, Counted
      <4>2. k = i
        BY <1>2, <4>1
      <4> QED BY <1>6, <3>1, <4>2
    <3> QED BY <2>3, <3>1 DEF AllSettled
  <2>9. SettledCommittee' /\ Sized'
    BY <2>1, <2>8 DEF Orderly, SettledCommittee, Sized, Start
  <2> QED BY <2>5, <2>6, <2>7, <2>9 DEF Orderly
<1> QED BY <1>4, <1>5, <1>6

\* A new proposal is the only election.
LEMMA ProposalCreateStep ==
  ASSUME ElectionTypes, ElectionTypes', Orderly, NEW ops \in Elections, NEW left \in 1 .. Lifetime,
         NEW review \in BOOLEAN, proposal_create(ops, left, review)
  PROVE  Orderly'
<1> DEFINE r == [by |-> "wallfacers", ops |-> ops, left |-> left, review |-> review,
                 required |-> formal, approved |-> {}, voted |-> FALSE, finished |-> FALSE]
<1>1. proposals = <<>> /\ proposals' = Append(proposals, r)
      /\ UNCHANGED <<formal, referenda, flag, wait, phase, settled, torn, resigns>>
  BY DEF proposal_create, NoElection, committee, history
<1>2. referenda = <<>>
  <2>1. 1 \in DOMAIN ops
    BY OpsShape
  <2> QED BY <2>1 DEF proposal_create, evaluate_update
<1>3. r.approved = {} /\ ~r.finished
  OBVIOUS
<1> HIDE DEF r
<1>4. proposals' = <<r>>
  BY <1>1
<1>5. Len(proposals') = 1 /\ proposals'[1] = r /\ 1 .. 1 = {1} /\ 1 .. 0 = {} /\ Len(<<>>) = 0
  BY <1>4
<1>6. AllSettled
  BY <1>1, <1>2, <1>5 DEF AllSettled
<1>7. torn \/ formal = settled
  BY <1>6 DEF Orderly, SettledCommittee
<1> QED BY <1>1, <1>2, <1>3, <1>5, <1>7
        DEF Orderly, OneElection, Packed, Outcomes, Sized, SettledCommittee, Start

LEMMA ReferendumCreateStep ==
  ASSUME ElectionTypes, ElectionTypes', Orderly, NEW m \in Miners, NEW ops \in Referenda,
         NEW pledge \in 1 .. MaxPledge, referendum_create(m, ops, pledge)
  PROVE  Orderly'
<1> DEFINE r == [by |-> "miners", ops |-> ops, left |-> Packing + Voting,
                 pledge |-> pledge, miner_pledge |-> weight[m], required |-> Miners, approved |-> {},
                 finished |-> FALSE]
           n == Len(referenda)
<1>1. proposals = <<>> /\ referenda' = Append(referenda, r) /\ (~flag \/ wait > 0)
      /\ UNCHANGED <<formal, proposals, flag, wait, phase, settled, torn, resigns>>
  BY DEF referendum_create, NoElection, committee, history
<1>2. r.approved = {} /\ ~r.finished
  OBVIOUS
<1>3. n \in Nat /\ wait \in Nat /\ referenda \in Seq(Referendum) /\ Len(proposals) = 0
  BY <1>1, Shapes DEF ElectionTypes
<1>4. \A i \in 1 .. n : ~Counted(referenda[i])
  BY <1>1 DEF Orderly, Packed
<1> HIDE DEF r
<1>5. Len(referenda') = n + 1 /\ \A i \in 1 .. (n + 1) : referenda'[i] = IF i = n + 1 THEN r ELSE referenda[i]
  BY <1>1, <1>3
<1>6. \A i \in 1 .. Len(referenda') : ~Counted(referenda'[i])
  BY <1>2, <1>3, <1>4, <1>5 DEF Counted
<1>7. AllSettled
  BY <1>3, <1>4 DEF AllSettled, Counted
<1>8. torn \/ formal = settled
  BY <1>7 DEF Orderly, SettledCommittee
<1>9. ~(flag' /\ wait' = 0)
  BY <1>1, <1>3
<1>10. OneElection' /\ Sized'
  BY <1>1 DEF Orderly, OneElection, Sized, Start
<1>11. Packed'
  BY <1>6, <1>9 DEF Packed
<1>12. Outcomes' /\ SettledCommittee'
  BY <1>1, <1>3, <1>6, <1>8 DEF Outcomes, SettledCommittee, Counted
<1> QED BY <1>10, <1>11, <1>12 DEF Orderly

\* A step that changes neither the operations nor the votes of any election.
LEMMA SameElections ==
  ASSUME Orderly, UNCHANGED <<formal, flag, settled, torn, resigns>>,
         wait' = 0 \/ wait > 0, Len(proposals) = 0 => proposals' = proposals,
         Len(referenda) = 0 => referenda' = referenda,
         Len(proposals') = Len(proposals), Len(referenda') = Len(referenda),
         Len(proposals) \in Nat, Len(referenda) \in Nat,
         proposals = <<>> <=> Len(proposals) = 0, referenda = <<>> <=> Len(referenda) = 0,
         wait \in Nat, wait' \in Nat,
         (phase' = phase /\ wait' = wait) \/ phase' # "txs",
         \A i \in 1 .. Len(proposals) : /\ proposals'[i].ops = proposals[i].ops
                                        /\ proposals'[i].finished = proposals[i].finished
                                        /\ proposals'[i].approved = proposals[i].approved
                                        /\ proposals'[i].voted = proposals[i].voted,
         \A i \in 1 .. Len(referenda) : /\ referenda'[i].ops = referenda[i].ops
                                        /\ referenda'[i].finished = referenda[i].finished
                                        /\ referenda'[i].approved = referenda[i].approved
  PROVE  Orderly'
<1>1. OneElection'
  BY DEF Orderly, OneElection
<1>2. \A i \in 1 .. Len(referenda) : Counted(referenda'[i]) <=> Counted(referenda[i])
  BY DEF Counted
<1>3. Packed'
  <2>1. ~flag' \/ wait' > 0 => \A i \in 1 .. Len(referenda') : ~Counted(referenda'[i])
    BY <1>2 DEF Orderly, Packed
  <2>2. flag' /\ wait' = 0 /\ phase' = "txs" => Len(referenda') <= 1
    BY DEF Orderly, Packed
  <2>3. \A i \in 1 .. Len(referenda') : Counted(referenda'[i]) => Len(referenda') = 1
    BY <1>2 DEF Orderly, Packed
  <2> QED BY <2>1, <2>2, <2>3 DEF Packed
<1>4. Outcomes'
  BY DEF Orderly, Outcomes
<1>5. SettledCommittee' /\ Sized'
  BY DEF Orderly, SettledCommittee, AllSettled, Sized, Start
<1> QED BY <1>1, <1>3, <1>4, <1>5 DEF Orderly

LEMMA AccelerateStep ==
  ASSUME ElectionTypes, ElectionTypes', Orderly, NEW i \in DOMAIN referenda,
         referendum_accelerate_pledge(i)
  PROVE  Orderly'
<1> DEFINE x == [referenda[i] EXCEPT !.pledge = @ + 1]
<1>1. /\ referenda \in Seq(Referendum) /\ i \in 1 .. Len(referenda) /\ referenda[i] \in Referendum
      /\ Len(proposals) \in Nat /\ Len(referenda) \in Nat
      /\ (proposals = <<>> <=> Len(proposals) = 0) /\ (referenda = <<>> <=> Len(referenda) = 0)
      /\ wait \in Nat
  BY Shapes DEF ElectionTypes
<1>2. /\ x \in Referendum /\ x.ops = referenda[i].ops /\ x.finished = referenda[i].finished
      /\ x.approved = referenda[i].approved
  <2>1. ASSUME NEW y \in Referendum
        PROVE  LET z == [y EXCEPT !.pledge = @ + 1] IN
               z \in Referendum /\ z.ops = y.ops /\ z.finished = y.finished /\ z.approved = y.approved
    BY DEF Referendum
  <2> QED BY <1>1, <2>1
<1>3. /\ referenda' = [referenda EXCEPT ![i] = x]
      /\ UNCHANGED <<formal, proposals, flag, wait, phase, settled, torn, resigns>>
  BY DEF referendum_accelerate_pledge, committee, history
<1> HIDE DEF x
<1>4. /\ Len(referenda') = Len(referenda) /\ referenda'[i] = x
      /\ \A j \in 1 .. Len(referenda) : j # i => referenda'[j] = referenda[j]
  BY <1>1, <1>2, <1>3, ExceptShape
<1>5. \A j \in 1 .. Len(referenda) : /\ referenda'[j].ops = referenda[j].ops
                                     /\ referenda'[j].finished = referenda[j].finished
                                     /\ referenda'[j].approved = referenda[j].approved
  BY <1>2, <1>4
<1>6. wait' = 0 \/ wait > 0
  BY <1>1, <1>3
<1>7. Len(referenda) # 0
  BY <1>1
<1> QED BY <1>1, <1>3, <1>4, <1>5, <1>6, <1>7, SameElections

LEMMA ApplyBlockStep ==
  ASSUME ElectionTypes, ElectionTypes', Orderly, apply_block
  PROVE  Orderly'
<1>1. /\ proposals \in Seq(Proposal) /\ referenda \in Seq(Referendum)
      /\ Len(proposals) \in Nat /\ Len(referenda) \in Nat
      /\ (proposals = <<>> <=> Len(proposals) = 0) /\ (referenda = <<>> <=> Len(referenda) = 0)
      /\ wait \in Nat /\ wait' \in Nat
  BY Shapes DEF ElectionTypes
<1>2. /\ proposals' = Older(proposals) /\ referenda' = Older(referenda) /\ phase' # "txs"
      /\ UNCHANGED <<formal, flag, settled, torn, resigns>>
      /\ wait' = 0 \/ wait > 0
  BY <1>1 DEF apply_block, committee, history
<1>3. /\ Len(proposals') = Len(proposals)
      /\ \A i \in 1 .. Len(proposals) : /\ proposals'[i].ops = proposals[i].ops
                                        /\ proposals'[i].finished = proposals[i].finished
                                        /\ proposals'[i].approved = proposals[i].approved
                                        /\ proposals'[i].voted = proposals[i].voted
  BY <1>1, <1>2, OlderShape
<1>4. /\ Len(referenda') = Len(referenda)
      /\ \A i \in 1 .. Len(referenda) : /\ referenda'[i].ops = referenda[i].ops
                                        /\ referenda'[i].finished = referenda[i].finished
                                        /\ referenda'[i].approved = referenda[i].approved
  BY <1>1, <1>2, OlderShape
<1>5. (Len(proposals) = 0 => proposals' = proposals) /\ (Len(referenda) = 0 => referenda' = referenda)
  <2>1. proposals' \in Seq(Proposal) /\ referenda' \in Seq(Referendum)
    BY DEF ElectionTypes
  <2> QED BY <1>1, <1>3, <1>4, <2>1, EmptySeq
<1> QED BY <1>1, <1>2, <1>3, <1>4, <1>5, SameElections

LEMMA ResignStep ==
  ASSUME ElectionTypes, ElectionTypes', Orderly, NEW w \in Wallfacers, wallfacer_member_resign(w)
  PROVE  Orderly'
<1>1. /\ formal' = formal \ {w} /\ settled' = (IF w \in formal THEN settled \ {w} ELSE settled)
      /\ resigns' = resigns + 1 /\ UNCHANGED <<proposals, referenda, flag, wait, phase, torn>>
  BY DEF wallfacer_member_resign
<1>2. formal \subseteq Wallfacers /\ resigns \in Nat
  BY DEF ElectionTypes
<1>3. OneElection' /\ Packed'
  BY <1>1 DEF Orderly, OneElection, Packed
<1>4. Outcomes'
  <2>1. ASSUME NEW i \in 1 .. Len(proposals), proposals[i].finished
        PROVE  Seated(proposals[i].ops, formal', settled', torn)
    <3>1. proposals[i].ops \in AgreedOf(Elections)
      BY Shapes DEF Proposal
    <3>2. Seated(proposals[i].ops, formal, settled, torn)
      BY <2>1 DEF Orderly, Outcomes
    <3> QED BY <1>1, <1>2, <3>1, <3>2, SeatedResign
  <2>2. ASSUME NEW i \in 1 .. Len(referenda), referenda[i].finished
        PROVE  Seated(referenda[i].ops, formal', settled', torn)
    <3>1. referenda[i].ops \in AgreedOf(Referenda)
      BY Shapes DEF Referendum
    <3>2. Seated(referenda[i].ops, formal, settled, torn)
      BY <2>2 DEF Orderly, Outcomes
    <3> QED BY <1>1, <1>2, <3>1, <3>2, SeatedResign
  <2> QED BY <1>1, <2>1, <2>2 DEF Outcomes
<1>5. Sized'
  <2>1. IsFiniteSet(formal) /\ Cardinality(formal) \in Nat /\ Start \in Nat
    <3>1. Permanent \cup External \subseteq Wallfacers
      BY DEF Wallfacers
    <3> QED BY <1>2, <3>1, Finite DEF Start
  <2>2. Cardinality(formal \ {w}) = IF w \in formal THEN Cardinality(formal) - 1 ELSE Cardinality(formal)
    BY <2>1, FS_RemoveElement
  <2>3. Cardinality(formal) <= Start /\ Cardinality(formal) + resigns >= Start
    BY DEF Orderly, Sized
  <2>4. Cardinality(formal') <= Start /\ Cardinality(formal') + (resigns + 1) >= Start
    BY <1>1, <1>2, <2>1, <2>2, <2>3
  <2> QED BY <1>1, <2>4 DEF Sized, Start
<1>6. SettledCommittee'
  BY <1>1 DEF Orderly, SettledCommittee, AllSettled
<1> QED BY <1>3, <1>4, <1>5, <1>6 DEF Orderly

\* The end of a block: the time of referenda starts, goes on with the leading one, or
\* is over.
LEMMA DetermineStep ==
  ASSUME ElectionTypes, ElectionTypes', Orderly, determine_referendum_detailes
  PROVE  Orderly'
<1> DEFINE kept == IF wait = 0 /\ referenda # <<>> THEN <<Leading(referenda)>> ELSE referenda
           open == kept # <<>> /\ ~Leading(kept).finished
           over == flag /\ ~open /\ Followed(Assets \ EthAssets, formal)
<1>1. /\ referenda' = IF over THEN <<>> ELSE IF flag THEN kept ELSE referenda
      /\ settled' = IF over /\ kept # <<>> THEN formal ELSE settled
      /\ flag' = IF flag THEN ~over ELSE referenda # <<>>
      /\ wait' = IF ~flag /\ referenda # <<>> THEN Packing ELSE wait
      /\ UNCHANGED <<formal, proposals, torn, resigns>>
  BY DEF determine_referendum_detailes, committee
<1>2. flag \in BOOLEAN /\ wait \in Nat /\ wait' \in Nat /\ Packing \in Nat \ {0} /\ torn \in BOOLEAN
  BY ElectionAssumption DEF ElectionTypes
<1>3. /\ referenda \in Seq(Referendum) /\ Len(referenda) \in Nat /\ Len(proposals) \in Nat
      /\ (proposals = <<>> <=> Len(proposals) = 0) /\ (referenda = <<>> <=> Len(referenda) = 0)
  BY Shapes
<1>4. 1 .. 0 = {} /\ Len(<<>>) = 0 /\ 1 .. 1 = {1}
  OBVIOUS
<1>5. over => flag
  OBVIOUS
<1>6. wait = 0 /\ referenda # <<>> => kept = <<Leading(referenda)>> /\ kept # <<>>
  OBVIOUS
<1>7. ~(wait = 0 /\ referenda # <<>>) => kept = referenda
  OBVIOUS
<1> HIDE DEF kept, over
<1>8. Sized'
  BY <1>1 DEF Orderly, Sized, Start
<1>9. CASE ~flag
  <2>1. referenda' = referenda /\ settled' = settled /\ (flag' <=> referenda # <<>>)
        /\ wait' = (IF referenda # <<>> THEN Packing ELSE wait)
    BY <1>1, <1>2, <1>5, <1>9
  <2>2. OneElection' /\ Outcomes' /\ SettledCommittee'
    BY <1>1, <2>1 DEF Orderly, OneElection, Outcomes, SettledCommittee, AllSettled
  <2>3. Packed'
    <3>1. \A i \in 1 .. Len(referenda) : ~Counted(referenda[i])
      BY <1>9 DEF Orderly, Packed
    <3>2. flag' /\ wait' = 0 => FALSE
      BY <1>2, <2>1
    <3> QED BY <2>1, <3>1, <3>2 DEF Packed
  <2> QED BY <1>8, <2>2, <2>3 DEF Orderly
<1>10. CASE over /\ kept # <<>>
  <2>1. referenda' = <<>> /\ settled' = formal /\ ~flag' /\ wait' = wait
    BY <1>1, <1>5, <1>10
  <2>2. proposals = <<>> /\ proposals' = <<>>
    <3>1. referenda # <<>>
      BY <1>6, <1>7, <1>10
    <3> QED BY <1>1, <3>1 DEF Orderly, OneElection
  <2> QED BY <1>1, <1>4, <1>8, <2>1, <2>2
          DEF Orderly, OneElection, Packed, Outcomes, SettledCommittee
<1>11. CASE over /\ kept = <<>>
  <2>1. referenda = <<>> /\ referenda' = <<>> /\ settled' = settled /\ ~flag' /\ wait' = wait
    BY <1>1, <1>5, <1>6, <1>7, <1>11
  <2>2. OneElection' /\ Outcomes' /\ SettledCommittee'
    BY <1>1, <2>1 DEF Orderly, OneElection, Outcomes, SettledCommittee, AllSettled
  <2>3. Packed'
    BY <1>4, <2>1 DEF Packed
  <2> QED BY <1>8, <2>2, <2>3 DEF Orderly
<1>12. CASE flag /\ ~over /\ ~(wait = 0 /\ referenda # <<>>)
  <2>1. referenda' = referenda /\ settled' = settled /\ flag' /\ wait' = wait
    BY <1>1, <1>7, <1>12
  <2>2. OneElection' /\ Outcomes' /\ SettledCommittee'
    BY <1>1, <2>1 DEF Orderly, OneElection, Outcomes, SettledCommittee, AllSettled
  <2>3. Packed'
    BY <1>3, <1>12, <2>1 DEF Orderly, Packed
  <2> QED BY <1>8, <2>2, <2>3 DEF Orderly
<1>13. CASE flag /\ ~over /\ wait = 0 /\ referenda # <<>>
  <2>1. referenda' = <<Leading(referenda)>> /\ settled' = settled /\ flag' /\ wait' = 0
    BY <1>1, <1>6, <1>13
  <2>2. PICK k \in 1 .. Len(referenda) : Leading(referenda) = referenda[k]
    BY <1>3, <1>13, LeadingExists
  <2>3. Len(referenda') = 1 /\ referenda'[1] = referenda[k]
    BY <2>1, <2>2
  <2>4. proposals = <<>> /\ proposals' = <<>>
    BY <1>1, <1>13 DEF Orderly, OneElection
  <2>5. OneElection'
    BY <1>4, <2>4 DEF OneElection
  <2>6. Packed'
    BY <1>4, <2>1, <2>3 DEF Packed
  <2>7. Outcomes'
    BY <1>1, <1>4, <2>1, <2>3, <2>4 DEF Orderly, Outcomes
  <2>8. ASSUME AllSettled', ~torn' PROVE formal' = settled'
    <3>1. ~referenda[k].finished
      <4>1. 1 \in 1 .. Len(referenda')
        BY <2>3
      <4> QED BY <2>3, <2>8, <4>1 DEF AllSettled
    <3>2. ASSUME NEW j \in 1 .. Len(referenda), referenda[j].finished PROVE FALSE
      <4>1. Len(referenda) = 1
        BY <3>2 DEF Orderly, Packed, Counted
      <4>2. j = k
        BY <4>1
      <4> QED BY <3>1, <3>2, <4>2
    <3>3. AllSettled
      BY <1>4, <2>4, <3>2 DEF AllSettled
    <3> QED BY <1>1, <2>1, <2>8, <3>3 DEF Orderly, SettledCommittee
  <2>9. SettledCommittee'
    BY <2>8 DEF SettledCommittee
  <2> QED BY <1>8, <2>5, <2>6, <2>7, <2>9 DEF Orderly
<1> QED BY <1>2, <1>9, <1>10, <1>11, <1>12, <1>13

LEMMA ElectionInvInit == Init => ElectionInv
<1> SUFFICES ASSUME Init PROVE ElectionInv
  OBVIOUS
<1>1. /\ formal = Permanent \cup External /\ proposals = <<>> /\ referenda = <<>>
      /\ flag = FALSE /\ wait = 0 /\ resigns = 0 /\ settled = formal
  BY DEF Init
<1>2. 1 .. 0 = {} /\ Len(<<>>) = 0 /\ 0 <= 1
  OBVIOUS
<1>3. OneElection /\ Packed /\ Outcomes /\ SettledCommittee
  BY <1>1, <1>2 DEF OneElection, Packed, Outcomes, SettledCommittee
<1>4. Sized
  <2>1. Start \in Nat
    <3>1. Permanent \cup External \subseteq Wallfacers
      BY DEF Wallfacers
    <3> QED BY <3>1, Finite DEF Start
  <2>2. Cardinality(formal) = Start
    BY <1>1 DEF Start
  <2> QED BY <1>1, <2>1, <2>2 DEF Sized
<1> QED BY <1>3, <1>4, TypesInit DEF ElectionInv, Orderly

\* A vote before the packing period is not forgotten.
LEMMA EarlyStays ==
  ASSUME [Next]_vars, early
  PROVE  early'
<1>1. ASSUME NEW ops, NEW left, NEW review, proposal_create(ops, left, review) PROVE early'
  BY <1>1 DEF proposal_create, history
<1>2. ASSUME NEW i, NEW add, NEW remove, proposal_update(i, add, remove) PROVE early'
  BY <1>2 DEF proposal_update, history
<1>3. ASSUME NEW i, proposal_delete(i) PROVE early'
  BY <1>3 DEF proposal_delete, history
<1>4. ASSUME NEW m, NEW ops, NEW pledge, referendum_create(m, ops, pledge) PROVE early'
  BY <1>4 DEF referendum_create, history
<1>5. ASSUME NEW i, NEW add, NEW remove, referendum_update(i, add, remove) PROVE early'
  BY <1>5 DEF referendum_update
<1>6. ASSUME NEW i, referendum_accelerate_pledge(i) PROVE early'
  BY <1>6 DEF referendum_accelerate_pledge, history
<1>7. ASSUME NEW w, wallfacer_member_resign(w) PROVE early'
  BY <1>7 DEF wallfacer_member_resign
<1>8. ASSUME NEW a, miner_generate_multi_asset(a) PROVE early'
  BY <1>8 DEF miner_generate_multi_asset, history
<1>9. ASSUME NEW a, NEW pair, wallfacer_update_multi_account(a, pair) PROVE early'
  BY <1>9 DEF wallfacer_update_multi_account
<1>10. ASSUME NEW w, change_pledge_weight(w) PROVE early'
  BY <1>10 DEF change_pledge_weight, history
<1>11. CASE apply_block
  BY <1>11 DEF apply_block, history
<1>12. ASSUME NEW i, expire_proposal(i) PROVE early'
  BY <1>12 DEF expire_proposal
<1>13. CASE clear_finished_proposal
  BY <1>13 DEF clear_finished_proposal
<1>14. ASSUME NEW i, expire_referendum(i) PROVE early'
  BY <1>14 DEF expire_referendum, history
<1>15. CASE determine_referendum_detailes
  BY <1>15 DEF determine_referendum_detailes
<1>16. CASE UNCHANGED vars
  BY <1>16 DEF vars
<1> QED BY <1>1, <1>2, <1>3, <1>4, <1>5, <1>6, <1>7, <1>8, <1>9, <1>10, <1>11, <1>12, <1>13,
           <1>14, <1>15, <1>16 DEF Next, Transactions, BlockEnd

LEMMA ElectionInvNext == ElectionInv /\ [Next]_vars => ElectionInv'
<1> SUFFICES ASSUME ElectionInv, [Next]_vars PROVE ElectionInv'
  OBVIOUS
<1>0. ElectionTypes /\ ElectionTypes'
  BY TypesNext DEF ElectionInv
<1> SUFFICES ASSUME ~early' PROVE Orderly'
  BY <1>0 DEF ElectionInv
<1>e. ~early
  BY EarlyStays
<1>o. Orderly
  BY <1>e DEF ElectionInv
<1>1. CASE \E ops \in Elections, left \in 1 .. Lifetime, review \in BOOLEAN :
             proposal_create(ops, left, review)
  BY <1>0, <1>o, <1>1, ProposalCreateStep
<1>2. CASE \E i \in DOMAIN proposals : \E add, remove \in SUBSET proposals[i].required :
             proposal_update(i, add, remove)
  BY <1>0, <1>o, <1>2, ProposalUpdateStep
<1>3. CASE \E i \in DOMAIN proposals : proposal_delete(i)
  BY <1>0, <1>o, <1>3, ProposalDeleteStep
<1>4. CASE \E m \in Miners, ops \in Referenda, pledge \in 1 .. MaxPledge :
             referendum_create(m, ops, pledge)
  BY <1>0, <1>o, <1>4, ReferendumCreateStep
<1>5. CASE \E i \in DOMAIN referenda : \E add, remove \in SUBSET referenda[i].required :
             referendum_update(i, add, remove)
  BY <1>0, <1>o, <1>5, ReferendumUpdateStep
<1>6. CASE \E i \in DOMAIN referenda : referendum_accelerate_pledge(i)
  BY <1>0, <1>o, <1>6, AccelerateStep
<1>7. CASE \E w \in Wallfacers : wallfacer_member_resign(w)
  BY <1>0, <1>o, <1>7, ResignStep
<1>8. ASSUME NEW a \in Assets, miner_generate_multi_asset(a) PROVE Orderly'
  BY <1>o, <1>8, IdleStep DEF miner_generate_multi_asset, committee, history
<1>9. ASSUME NEW a \in Assets, NEW pair, wallfacer_update_multi_account(a, pair) PROVE Orderly'
  BY <1>o, <1>9, IdleStep DEF wallfacer_update_multi_account, committee
<1>10. ASSUME NEW w, change_pledge_weight(w) PROVE Orderly'
  BY <1>o, <1>10, IdleStep DEF change_pledge_weight, committee, history
<1>11. CASE apply_block
  BY <1>0, <1>o, <1>11, ApplyBlockStep
<1>12. CASE \E i \in DOMAIN proposals : expire_proposal(i)
  BY <1>0, <1>o, <1>12, ExpireProposalStep
<1>13. CASE clear_finished_proposal
  BY <1>0, <1>o, <1>13, ClearFinishedStep
<1>14. CASE \E i \in DOMAIN referenda : expire_referendum(i)
  BY <1>0, <1>o, <1>14, ExpireReferendumStep
<1>15. CASE determine_referendum_detailes
  BY <1>0, <1>o, <1>15, DetermineStep
<1>16. CASE UNCHANGED vars
  BY <1>o, <1>16, IdleStep DEF vars
<1> QED BY <1>1, <1>2, <1>3, <1>4, <1>5, <1>6, <1>7, <1>8, <1>9, <1>10, <1>11, <1>12, <1>13,
           <1>14, <1>15, <1>16 DEF Next, Transactions, BlockEnd

\* As long as nobody voted on a referendum before its packing period, the committee
\* has the size it started with less at most the resignations: no order of elections
\* by wallfacers and by miners, of votes, weights, expirations and rollbacks in
\* db_update.cpp makes it grow or shrink.
THEOREM CommitteeKeepsSize == Spec => []CommitteeSize
<1>1. ElectionInv => CommitteeSize
  BY DEF ElectionInv, Orderly, Sized, CommitteeSize, Start
<1> QED BY <1>1, ElectionInvInit, ElectionInvNext, PTL DEF Spec

\* Under the same condition, and unless a transaction was applied or taken back in
\* part, a committee without unsettled elections is that of the last election the
\* multisig accounts followed, less those who resigned: _rollback_votes and the loop
\* over referenda undo all that push_proposal and push_referendum did.
THEOREM FailedElectionsLeaveNothing == Spec => []Restored
<1>1. ElectionInv => Restored
  <2> SUFFICES ASSUME ElectionInv, ~early, ~torn, ~Unsettled PROVE formal = settled
    BY DEF Restored
  <2>1. DOMAIN proposals = 1 .. Len(proposals) /\ DOMAIN referenda = 1 .. Len(referenda)
    BY Shapes DEF ElectionInv
  <2>2. AllSettled
    BY <2>1 DEF Unsettled, AllSettled
  <2> QED BY <2>2 DEF ElectionInv, Orderly, SettledCommittee
<1> QED BY <1>1, ElectionInvInit, ElectionInvNext, PTL DEF Spec
=============================================================================
