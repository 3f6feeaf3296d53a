---------------------------- MODULE SumTheorems ----------------------------
(***************************************************************************)
(* Facts about sums of natural numbers over finite sets, for the proofs    *)
(* about modules that keep amounts in functions.  The induction over a     *)
(* finite set is by a smallest counterexample (MinimalSet), so that no     *)
(* theorem with an operator parameter has to be instantiated.              *)
(***************************************************************************)
EXTENDS Integers, FiniteSets, FiniteSetsExt, FiniteSetTheorems, TLAPS

(* The sum of f over S, as MapThenSumSet of the community modules has it.  *)
SumOf(f, S) == MapThenSumSet(LAMBDA t: f[t], S)

(* The sums over the parts of S that belong to each owner in A.            *)
ByOwner(f, S, own, A) == [a \in A |-> SumOf(f, {x \in S: own[x] = a})]

Pick(s) == CHOOSE x \in s: TRUE

(* The equation of the recursive function inside MapThenFoldSet.           *)
IsSummer(g, f, S) ==
    g = [s \in SUBSET S |-> IF s = {} THEN 0 ELSE f[Pick(s)] + g[s \ {Pick(s)}]]

Summer(f, S) == CHOOSE g: IsSummer(g, f, S)

-----------------------------------------------------------------------------
(* A nonempty collection of subsets of a finite set has a minimal member.  *)
LEMMA MinimalSet ==
    ASSUME NEW S, IsFiniteSet(S), NEW B, B \subseteq SUBSET S, B # {}
    PROVE  \E T \in B: \A U \in B: U \subseteq T => U = T
<1>1. FiniteSubsetsOf(S) = SUBSET S
  BY FS_FiniteSubsetsOfFinite
<1>2. PICK T \in B: \A U \in B: <<U, T>> \notin StrictSubsetOrdering(S)
  BY <1>1, FS_StrictSubsetOrderingWellFounded, WFMin
<1>3. ASSUME NEW U \in B, U \subseteq T PROVE U = T
  BY <1>2, <1>3 DEF StrictSubsetOrdering
<1> QED BY <1>3

LEMMA PickIn ==
    ASSUME NEW s, s # {}
    PROVE  Pick(s) \in s
  BY DEF Pick

(* MapThenSumSet is the value at S of the function the equation defines.   *)
LEMMA SumUnfold ==
    ASSUME NEW f, NEW S
    PROVE  SumOf(f, S) = Summer(f, S)[S]
  BY DEF SumOf, MapThenSumSet, MapThenFoldSet, IsSummer, Summer, Pick

(* What the equation says of one argument.                                 *)
LEMMA SummerAt ==
    ASSUME NEW f, NEW S, NEW g, IsSummer(g, f, S), NEW s \in SUBSET S
    PROVE  /\ s = {} => g[s] = 0
           /\ s # {} => /\ g[s] = f[Pick(s)] + g[s \ {Pick(s)}]
                        /\ Pick(s) \in s
                        /\ s \ {Pick(s)} \in SUBSET S
                        /\ s \ {Pick(s)} # s
<1>1. g[s] = IF s = {} THEN 0 ELSE f[Pick(s)] + g[s \ {Pick(s)}]
  BY DEF IsSummer
<1> QED BY <1>1, PickIn

LEMMA SummerAtEmpty ==
    ASSUME NEW f, NEW S, NEW g, IsSummer(g, f, S)
    PROVE  g[{}] = 0
  BY DEF IsSummer

(* Two solutions agree wherever both are defined.                          *)
LEMMA SummersAgree ==
    ASSUME NEW f, NEW S, NEW T, NEW g, NEW h, IsSummer(g, f, S), IsSummer(h, f, T),
           NEW s \in SUBSET S, s \in SUBSET T, IsFiniteSet(s)
    PROVE  g[s] = h[s]
<1> DEFINE B == {u \in SUBSET s: g[u] # h[u]}
<1> SUFFICES ASSUME B # {} PROVE FALSE
  OBVIOUS
<1>1. PICK u \in B: \A v \in B: v \subseteq u => v = u
  <2>1. B \subseteq SUBSET s
    OBVIOUS
  <2> HIDE DEF B
  <2> QED BY <2>1, MinimalSet
<1>2. u \in SUBSET S /\ u \in SUBSET T /\ u \in SUBSET s
  OBVIOUS
<1>3. u # {}
  <2>1. g[{}] = 0 /\ h[{}] = 0
    BY SummerAtEmpty
  <2> QED BY <2>1
<1>4. /\ g[u] = f[Pick(u)] + g[u \ {Pick(u)}]
      /\ h[u] = f[Pick(u)] + h[u \ {Pick(u)}]
      /\ u \ {Pick(u)} # u
  BY <1>2, <1>3, SummerAt
<1>5. u \ {Pick(u)} \notin B
  BY <1>1, <1>4
<1> QED BY <1>2, <1>4, <1>5

(* The equation has a solution over every finite set.                      *)
LEMMA SummerExists ==
    ASSUME NEW f, NEW S, IsFiniteSet(S)
    PROVE  IsSummer(Summer(f, S), f, S)
<1> DEFINE B == {u \in SUBSET S: ~ \E g: IsSummer(g, f, u)}
<1>1. ASSUME B # {} PROVE FALSE
  <2>1. PICK T \in B: \A U \in B: U \subseteq T => U = T
    <3>1. B \subseteq SUBSET S
      OBVIOUS
    <3> HIDE DEF B
    <3> QED BY <3>1, <1>1, MinimalSet
  <2>2. \A U \in SUBSET T: U # T => \E g: IsSummer(g, f, U)
    BY <2>1
  <2>3. \A U \in SUBSET T: U # T => IsSummer(Summer(f, U), f, U)
    BY <2>2 DEF Summer
  <2> DEFINE rest(s) == s \ {Pick(s)}
             g == [s \in SUBSET T |-> IF s = {} THEN 0
                      ELSE f[Pick(s)] + Summer(f, rest(s))[rest(s)]]
  <2>4. ASSUME NEW s \in SUBSET T, s # {}
        PROVE  g[rest(s)] = Summer(f, rest(s))[rest(s)]
    <3> DEFINE u == rest(s)
    <3>1. Pick(s) \in s /\ u \in SUBSET T /\ u # T
      BY <2>4, PickIn
    <3>2. IsSummer(Summer(f, u), f, u) /\ u \in SUBSET u
      BY <3>1, <2>3
    <3>3. CASE u = {}
      <4>1. Summer(f, u)[u] = 0
        <5> HIDE DEF u
        <5> QED BY <3>2, <3>3, SummerAt
      <4> QED BY <4>1, <3>1, <3>3
    <3>4. CASE u # {}
      <4>1. Pick(u) \in u /\ rest(u) \in SUBSET T /\ rest(u) # T
        BY <3>4, <3>1, PickIn
      <4>2. Summer(f, u)[u] = f[Pick(u)] + Summer(f, u)[rest(u)]
        <5> HIDE DEF u
        <5> QED BY <3>2, <3>4, SummerAt
      <4>3. IsFiniteSet(rest(u))
        BY <4>1, FS_Subset, T \in SUBSET S
      <4>4. Summer(f, u)[rest(u)] = Summer(f, rest(u))[rest(u)]
        <5>1. IsSummer(Summer(f, rest(u)), f, rest(u))
          BY <4>1, <2>3
        <5>2. rest(u) \in SUBSET u /\ rest(u) \in SUBSET rest(u)
          OBVIOUS
        <5> HIDE DEF rest, u
        <5> QED BY <5>1, <5>2, <3>2, <4>3, SummersAgree
      <4>5. g[u] = f[Pick(u)] + Summer(f, rest(u))[rest(u)]
        BY <3>1, <3>4
      <4> QED BY <4>2, <4>4, <4>5
    <3> QED BY <3>3, <3>4
  <2>5. IsSummer(g, f, T)
    <3>1. \A s \in SUBSET T: g[s] = IF s = {} THEN 0 ELSE f[Pick(s)] + g[s \ {Pick(s)}]
      BY <2>4
    <3> QED BY <3>1 DEF IsSummer
  <2> QED BY <2>5, <2>1
<1>2. S \notin B
  BY <1>1
<1>3. \E g: IsSummer(g, f, S)
  BY <1>2
<1> QED BY <1>3 DEF Summer

(* The sum over the empty set is zero.                                     *)
LEMMA SumEmpty ==
    ASSUME NEW f
    PROVE  SumOf(f, {}) = 0
<1>1. IsSummer(Summer(f, {}), f, {})
  BY SummerExists, FS_EmptySet
<1>2. Summer(f, {})[{}] = 0
  BY <1>1, SummerAt
<1> QED BY <1>2, SumUnfold

(* The sum over a nonempty set is that of the picked element and the rest. *)
LEMMA SumPick ==
    ASSUME NEW f, NEW S, IsFiniteSet(S), S # {}
    PROVE  /\ Pick(S) \in S
           /\ SumOf(f, S) = f[Pick(S)] + SumOf(f, S \ {Pick(S)})
<1> DEFINE R == S \ {Pick(S)}
<1>1. IsFiniteSet(R)
  BY FS_RemoveElement
<1>2. IsSummer(Summer(f, S), f, S) /\ IsSummer(Summer(f, R), f, R)
  BY <1>1, SummerExists
<1>3. Summer(f, S)[S] = f[Pick(S)] + Summer(f, S)[R]
  BY <1>2, SummerAt
<1>4. Summer(f, S)[R] = Summer(f, R)[R]
  <2>1. R \in SUBSET S /\ R \in SUBSET R
    OBVIOUS
  <2> HIDE DEF R
  <2> QED BY <2>1, <1>1, <1>2, SummersAgree
<1> QED BY <1>3, <1>4, SumUnfold, PickIn

(* A sum of natural numbers is a natural number.                           *)
LEMMA SumNat ==
    ASSUME NEW f, NEW S, IsFiniteSet(S), \A x \in S: f[x] \in Nat
    PROVE  SumOf(f, S) \in Nat
<1> DEFINE B == {u \in SUBSET S: SumOf(f, u) \notin Nat}
<1> SUFFICES ASSUME B # {} PROVE FALSE
  OBVIOUS
<1>1. PICK T \in B: \A U \in B: U \subseteq T => U = T
  <2>1. B \subseteq SUBSET S
    OBVIOUS
  <2> HIDE DEF B
  <2> QED BY <2>1, MinimalSet
<1>2. IsFiniteSet(T) /\ T # {}
  <2>1. T \in SUBSET S
    OBVIOUS
  <2>2. T # {}
    <3>1. SumOf(f, {}) \in Nat
      BY SumEmpty
    <3> QED BY <3>1
  <2> HIDE DEF B
  <2> QED BY <2>1, <2>2, FS_Subset
<1>3. Pick(T) \in T /\ SumOf(f, T) = f[Pick(T)] + SumOf(f, T \ {Pick(T)})
  BY <1>2, SumPick
<1>4. SumOf(f, T \ {Pick(T)}) \in Nat
  BY <1>1, <1>3
<1> QED BY <1>3, <1>4

(* A sum of zeros is zero.                                                 *)
LEMMA SumZero ==
    ASSUME NEW f, NEW S, IsFiniteSet(S), \A x \in S: f[x] = 0
    PROVE  SumOf(f, S) = 0
<1> DEFINE B == {u \in SUBSET S: SumOf(f, u) # 0}
<1> SUFFICES ASSUME B # {} PROVE FALSE
  OBVIOUS
<1>1. PICK T \in B: \A U \in B: U \subseteq T => U = T
  <2>1. B \subseteq SUBSET S
    OBVIOUS
  <2> HIDE DEF B
  <2> QED BY <2>1, MinimalSet
<1>2. IsFiniteSet(T) /\ T # {}
  <2>1. T \in SUBSET S
    OBVIOUS
  <2>2. T # {}
    BY <1>1, SumEmpty
  <2> HIDE DEF B
  <2> QED BY <2>1, <2>2, FS_Subset
<1>3. Pick(T) \in T /\ SumOf(f, T) = f[Pick(T)] + SumOf(f, T \ {Pick(T)})
  BY <1>2, SumPick
<1>4. SumOf(f, T \ {Pick(T)}) = 0
  BY <1>1, <1>3
<1> QED BY <1>3, <1>4

(* Any element can be taken out first.                                     *)
LEMMA SumRemove ==
    ASSUME NEW f, NEW S, IsFiniteSet(S), \A x \in S: f[x] \in Nat, NEW e \in S
    PROVE  SumOf(f, S) = f[e] + SumOf(f, S \ {e})
<1> DEFINE Good(T) == \A x \in T: SumOf(f, T) = f[x] + SumOf(f, T \ {x})
           B == {u \in SUBSET S: ~ Good(u)}
<1>0. SUFFICES ASSUME B # {} PROVE FALSE
  OBVIOUS
<1>1. PICK T \in B: \A U \in B: U \subseteq T => U = T
  <2>1. B \subseteq SUBSET S
    OBVIOUS
  <2> HIDE DEF B
  <2> QED BY <2>1, <1>0, MinimalSet
<1>2. PICK x \in T: SumOf(f, T) # f[x] + SumOf(f, T \ {x})
  BY <1>1
<1> DEFINE p == Pick(T)
<1>3. IsFiniteSet(T) /\ T # {} /\ T \in SUBSET S
  BY <1>1, <1>2, FS_Subset
<1>4. p \in T /\ SumOf(f, T) = f[p] + SumOf(f, T \ {p})
  BY <1>3, SumPick
<1>5. p # x
  BY <1>2, <1>4
<1>6. Good(T \ {p}) /\ Good(T \ {x})
  <2>1. T \ {p} \in SUBSET S /\ T \ {x} \in SUBSET S
    BY <1>3
  <2>2. T \ {p} # T /\ T \ {x} # T
    BY <1>4, <1>2
  <2> QED BY <2>1, <2>2, <1>1
<1>7. /\ SumOf(f, T \ {p}) = f[x] + SumOf(f, (T \ {p}) \ {x})
      /\ SumOf(f, T \ {x}) = f[p] + SumOf(f, (T \ {x}) \ {p})
  BY <1>2, <1>4, <1>5, <1>6
<1>8. (T \ {p}) \ {x} = (T \ {x}) \ {p}
  OBVIOUS
<1>9. SumOf(f, (T \ {p}) \ {x}) \in Nat /\ f[p] \in Nat /\ f[x] \in Nat
  <2>1. (T \ {p}) \ {x} \in SUBSET S
    BY <1>3
  <2>2. IsFiniteSet((T \ {p}) \ {x})
    BY <2>1, FS_Subset
  <2> HIDE DEF p
  <2> QED BY <2>1, <2>2, <1>2, <1>3, <1>4, SumNat
<1>10. f[p] + (f[x] + SumOf(f, (T \ {p}) \ {x})) = f[x] + (f[p] + SumOf(f, (T \ {p}) \ {x}))
  BY <1>9
<1> HIDE DEF p, B
<1> QED BY <1>2, <1>4, <1>7, <1>8, <1>10

(* Adding an element that was not there.                                   *)
LEMMA SumAdd ==
    ASSUME NEW f, NEW S, IsFiniteSet(S), NEW e, e \notin S,
           \A x \in S \cup {e}: f[x] \in Nat
    PROVE  SumOf(f, S \cup {e}) = f[e] + SumOf(f, S)
<1>1. IsFiniteSet(S \cup {e})
  BY FS_AddElement
<1>2. (S \cup {e}) \ {e} = S
  OBVIOUS
<1> QED BY <1>1, <1>2, SumRemove

(* The sum depends only on the values on S.                                *)
LEMMA SumEqual ==
    ASSUME NEW f, NEW h, NEW S, IsFiniteSet(S), \A x \in S: f[x] = h[x]
    PROVE  SumOf(f, S) = SumOf(h, S)
<1> DEFINE B == {u \in SUBSET S: SumOf(f, u) # SumOf(h, u)}
<1> SUFFICES ASSUME B # {} PROVE FALSE
  OBVIOUS
<1>1. PICK T \in B: \A U \in B: U \subseteq T => U = T
  <2>1. B \subseteq SUBSET S
    OBVIOUS
  <2> HIDE DEF B
  <2> QED BY <2>1, MinimalSet
<1>2. IsFiniteSet(T) /\ T # {}
  <2>1. T \in SUBSET S
    OBVIOUS
  <2>2. T # {}
    BY <1>1, SumEmpty
  <2> HIDE DEF B
  <2> QED BY <2>1, <2>2, FS_Subset
<1>3. /\ Pick(T) \in T
      /\ SumOf(f, T) = f[Pick(T)] + SumOf(f, T \ {Pick(T)})
      /\ SumOf(h, T) = h[Pick(T)] + SumOf(h, T \ {Pick(T)})
  BY <1>2, SumPick
<1>4. SumOf(f, T \ {Pick(T)}) = SumOf(h, T \ {Pick(T)})
  BY <1>1, <1>3
<1> QED BY <1>3, <1>4

(* Changing one value changes the sum by the difference.                   *)
LEMMA SumChange ==
    ASSUME NEW f, NEW h, NEW S, IsFiniteSet(S), NEW e \in S,
           \A x \in S: f[x] \in Nat /\ h[x] \in Nat,
           \A x \in S \ {e}: f[x] = h[x]
    PROVE  /\ SumOf(h, S) = SumOf(f, S) - f[e] + h[e]
           /\ SumOf(f, S) \in Nat /\ SumOf(f, S) >= f[e]
<1>1. SumOf(f, S) = f[e] + SumOf(f, S \ {e}) /\ SumOf(h, S) = h[e] + SumOf(h, S \ {e})
  BY SumRemove
<1>2. IsFiniteSet(S \ {e})
  BY FS_RemoveElement
<1>3. SumOf(f, S \ {e}) = SumOf(h, S \ {e}) /\ SumOf(f, S \ {e}) \in Nat
  BY <1>2, SumEqual, SumNat
<1> QED BY <1>1, <1>3

(* The sum of a sum.                                                       *)
LEMMA SumPlus ==
    ASSUME NEW f, NEW g, NEW h, NEW S, IsFiniteSet(S),
           \A x \in S: f[x] \in Nat /\ g[x] \in Nat /\ h[x] = f[x] + g[x]
    PROVE  SumOf(h, S) = SumOf(f, S) + SumOf(g, S)
<1> DEFINE B == {u \in SUBSET S: SumOf(h, u) # SumOf(f, u) + SumOf(g, u)}
<1> SUFFICES ASSUME B # {} PROVE FALSE
  OBVIOUS
<1>1. PICK T \in B: \A U \in B: U \subseteq T => U = T
  <2>1. B \subseteq SUBSET S
    OBVIOUS
  <2> HIDE DEF B
  <2> QED BY <2>1, MinimalSet
<1>2. IsFiniteSet(T) /\ T # {}
  <2>1. T \in SUBSET S
    OBVIOUS
  <2>2. T # {}
    <3>1. SumOf(h, {}) = SumOf(f, {}) + SumOf(g, {})
      BY SumEmpty
    <3> QED BY <3>1
  <2> HIDE DEF B
  <2> QED BY <2>1, <2>2, FS_Subset
<1> DEFINE R == T \ {Pick(T)}
<1>3. /\ Pick(T) \in T
      /\ SumOf(f, T) = f[Pick(T)] + SumOf(f, R)
      /\ SumOf(g, T) = g[Pick(T)] + SumOf(g, R)
      /\ SumOf(h, T) = h[Pick(T)] + SumOf(h, R)
  BY <1>2, SumPick
<1>4. SumOf(h, R) = SumOf(f, R) + SumOf(g, R)
  BY <1>1, <1>3
<1>5. SumOf(f, R) \in Nat /\ SumOf(g, R) \in Nat
  <2>1. R \in SUBSET S
    OBVIOUS
  <2>2. IsFiniteSet(R)
    BY <2>1, FS_Subset
  <2> HIDE DEF R
  <2> QED BY <2>1, <2>2, SumNat
<1> HIDE DEF R
<1> QED BY <1>3, <1>4, <1>5

(* The sum over two disjoint sets.                                         *)
LEMMA SumDisjoint ==
    ASSUME NEW f, NEW S, NEW T, IsFiniteSet(S), IsFiniteSet(T), S \cap T = {},
           \A x \in S \cup T: f[x] \in Nat
    PROVE  SumOf(f, S \cup T) = SumOf(f, S) + SumOf(f, T)
<1> DEFINE B == {u \in SUBSET T: SumOf(f, S \cup u) # SumOf(f, S) + SumOf(f, u)}
<1> SUFFICES ASSUME B # {} PROVE FALSE
  OBVIOUS
<1>1. PICK U \in B: \A V \in B: V \subseteq U => V = U
  <2>1. B \subseteq SUBSET T
    OBVIOUS
  <2> HIDE DEF B
  <2> QED BY <2>1, MinimalSet
<1>2. IsFiniteSet(U) /\ U # {} /\ IsFiniteSet(S \cup U) /\ SumOf(f, S) \in Nat
  <2>1. IsFiniteSet(U)
    BY FS_Subset
  <2>2. SumOf(f, S) \in Nat
    BY SumNat
  <2>3. U # {}
    <3>1. SumOf(f, S \cup {}) = SumOf(f, S) + SumOf(f, {})
      <4>1. S \cup {} = S
        OBVIOUS
      <4> QED BY <4>1, <2>2, SumEmpty
    <3> QED BY <3>1
  <2> QED BY <2>1, <2>2, <2>3, FS_Union
<1>3. PICK e: e \in U
  BY <1>2
<1>4. /\ SumOf(f, U) = f[e] + SumOf(f, U \ {e})
      /\ SumOf(f, S \cup U) = f[e] + SumOf(f, (S \cup U) \ {e})
  BY <1>2, <1>3, SumRemove
<1>5. (S \cup U) \ {e} = S \cup (U \ {e})
  BY <1>3
<1>6. SumOf(f, S \cup (U \ {e})) = SumOf(f, S) + SumOf(f, U \ {e})
  BY <1>1, <1>3
<1>7. SumOf(f, U \ {e}) \in Nat
  <2>1. IsFiniteSet(U \ {e})
    BY <1>2, FS_RemoveElement
  <2> QED BY <2>1, SumNat
<1>8. f[e] \in Nat
  BY <1>3
<1> QED BY <1>2, <1>4, <1>5, <1>6, <1>7, <1>8, SMTT(30)

(* Summing the parts of S that belong to each owner gives the sum over S.  *)
LEMMA SumByOwner ==
    ASSUME NEW f, NEW S, NEW A, NEW own, IsFiniteSet(S), IsFiniteSet(A),
           \A x \in S: f[x] \in Nat /\ own[x] \in A
    PROVE  SumOf(ByOwner(f, S, own, A), A) = SumOf(f, S)
<1> DEFINE Part(a, u) == {x \in u: own[x] = a}
           H(u) == [a \in A |-> SumOf(f, Part(a, u))]
           B == {u \in SUBSET S: SumOf(H(u), A) # SumOf(f, u)}
<1>1. \A u \in SUBSET S: IsFiniteSet(u) /\ \A a \in A: IsFiniteSet(Part(a, u))
  BY FS_Subset
<1>2. \A u \in SUBSET S: \A a \in A: SumOf(f, Part(a, u)) \in Nat
  BY <1>1, SumNat
<1>3. B = {}
  <2> SUFFICES ASSUME B # {} PROVE FALSE
    OBVIOUS
  <2>1. PICK T \in B: \A U \in B: U \subseteq T => U = T
    <3>1. B \subseteq SUBSET S
      OBVIOUS
    <3> HIDE DEF B
    <3> QED BY <3>1, MinimalSet
  <2>2. T # {}
    <3>1. \A a \in A: H({})[a] = 0
      <4>1. \A a \in A: Part(a, {}) = {}
        OBVIOUS
      <4> QED BY <4>1, SumEmpty
    <3>2. SumOf(H({}), A) = 0
      <4> HIDE DEF H
      <4> QED BY <3>1, SumZero
    <3> QED BY <3>2, SumEmpty
  <2>3. PICK e: e \in T
    BY <2>2
  <2> DEFINE R == T \ {e}
             o == own[e]
  <2>4. e \in S /\ o \in A /\ R \in SUBSET S /\ R \subseteq T /\ R # T /\ T \in SUBSET S
    BY <2>3
  <2>5. SumOf(H(R), A) = SumOf(f, R)
    BY <2>1, <2>4
  <2>6. SumOf(f, T) = f[e] + SumOf(f, R)
    BY <1>1, <2>3, SumRemove
  <2>7. \A a \in A \ {o}: H(T)[a] = H(R)[a]
    <3>1. \A a \in A \ {o}: Part(a, T) = Part(a, R)
      OBVIOUS
    <3> QED BY <3>1
  <2>8. H(T)[o] = f[e] + H(R)[o]
    <3>1. Part(o, R) = Part(o, T) \ {e} /\ e \in Part(o, T)
      BY <2>3
    <3>2. SumOf(f, Part(o, T)) = f[e] + SumOf(f, Part(o, T) \ {e})
      <4>1. IsFiniteSet(Part(o, T)) /\ \A x \in Part(o, T): f[x] \in Nat
        BY <1>1, <2>4
      <4> QED BY <4>1, <3>1, SumRemove
    <3> QED BY <3>1, <3>2, <2>4
  <2>9. \A a \in A: H(T)[a] \in Nat /\ H(R)[a] \in Nat
    BY <1>2, <2>4
  <2>10. SumOf(H(T), A) = SumOf(H(R), A) - H(R)[o] + H(T)[o] /\ SumOf(H(R), A) \in Nat
    <3> DEFINE v == H(T)
               w == H(R)
    <3>1. /\ \A a \in A \ {o}: w[a] = v[a]
          /\ \A a \in A: w[a] \in Nat /\ v[a] \in Nat
          /\ o \in A
      BY <2>4, <2>7, <2>9
    <3> HIDE DEF v, w, o
    <3>2. SumOf(v, A) = SumOf(w, A) - w[o] + v[o] /\ SumOf(w, A) \in Nat
      BY <3>1, SumChange
    <3> QED BY <3>2 DEF v, w
  <2>11. H(R)[o] \in Nat /\ f[e] \in Nat
    BY <2>4, <2>9
  <2>12. SumOf(H(T), A) = SumOf(f, T)
    <3> HIDE DEF H, o, R
    <3> QED BY <2>5, <2>6, <2>8, <2>10, <2>11
  <2> QED BY <2>1, <2>12
<1>4. SumOf(H(S), A) = SumOf(f, S)
  BY <1>3
<1>5. H(S) = ByOwner(f, S, own, A)
  BY DEF ByOwner
<1> QED BY <1>4, <1>5
=============================================================================
