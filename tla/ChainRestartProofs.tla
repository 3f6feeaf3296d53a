-------------------------- MODULE ChainRestartProofs --------------------------
(***************************************************************************)
(* Proofs about ChainRestart: what holds of a node that is killed, stopped *)
(* and started again at any step, any number of times.                     *)
(***************************************************************************)
EXTENDS Integers, ChainRestart, ChainDatabaseProofs

-----------------------------------------------------------------------------
(* What a replay computes.                                                  *)

\* A bounded set of numbers has a largest.
LEMMA LargestOf ==
  ASSUME NEW B, B \subseteq Nat, B # {}, NEW n \in Nat, \A m \in B : m <= n
  PROVE  Largest(B) \in B /\ \A m \in B : Largest(B) >= m
<1> DEFINE C == {n - m : m \in B}
<1>1. C \subseteq Nat /\ C # {}
  <2>1. \A m \in B : n - m \in Nat
    OBVIOUS
  <2> QED BY <2>1
<1>2. PICK c \in C : \A d \in C : c <= d
  <2> HIDE DEF C
  <2> QED BY <1>1, SmallestOf
<1>3. PICK b \in B : c = n - b
  OBVIOUS
<1>4. ASSUME NEW m \in B PROVE b >= m
  <2>1. n - m \in C
    OBVIOUS
  <2>2. n - b <= n - m
    BY <1>2, <1>3, <2>1
  <2> QED BY <2>2
<1> QED BY <1>4 DEF Largest

\* The two limits of the undo history.
LEMMA LimitType ==
  /\ Largest(UndoSizes) \in UndoSizes /\ \A m \in UndoSizes : Largest(UndoSizes) >= m
  /\ \A i, last : ReplayLimit(i, last) \in UndoSizes /\ ReplayLimit(i, last) \in Nat
<1>1. Largest(UndoSizes) \in UndoSizes /\ \A m \in UndoSizes : Largest(UndoSizes) >= m
  BY RestartAssumption DEF Largest
<1>2. UndoSizes \subseteq Nat /\ UndoSizes # {}
  BY ChainAssumption
<1>3. Smallest(UndoSizes) \in UndoSizes
  BY <1>2, SmallestOf DEF Smallest
<1>4. \A i, last : ReplayLimit(i, last) \in UndoSizes
  BY <1>1, <1>3 DEF ReplayLimit
<1> QED BY <1>1, <1>2, <1>4

\* The equations of the recursive functions in ReplayDeltas and ReplayLibs, up to
\* block number k.
IsDeltas(d, k, last) ==
  d = [i \in 0 .. k |-> IF i = 0 THEN 0 ELSE Smaller(d[i - 1] + 1, ReplayLimit(i, last))]
IsLibs(lib, k, last) ==
  lib = [i \in 0 .. k |-> IF i = 0 THEN 0
                          ELSE Larger(lib[i - 1], Minus(i, ReplayDeltas(last)[i]))]

LEMMA DeltasExist ==
  ASSUME NEW n \in Nat, NEW last
  PROVE  \E d : IsDeltas(d, n, last)
<1> DEFINE B == {k \in Nat : ~ \E d : IsDeltas(d, k, last)}
<1> SUFFICES ASSUME B # {} PROVE FALSE
  OBVIOUS
<1>1. PICK k \in B : \A j \in B : k <= j
  <2>1. B \subseteq Nat
    OBVIOUS
  <2> HIDE DEF B
  <2> QED BY ONLY <2>1, B # {}, SmallestOf
<1>2. CASE k = 0
  <2> DEFINE d == [i \in 0 .. 0 |-> 0]
  <2>1. d = [i \in 0 .. 0 |-> IF i = 0 THEN 0 ELSE Smaller(d[i - 1] + 1, ReplayLimit(i, last))]
    OBVIOUS
  <2>2. IsDeltas(d, 0, last)
    BY <2>1 DEF IsDeltas
  <2> QED BY <2>2, <1>2
<1>3. CASE k # 0
  <2>1. k \in Nat /\ k - 1 \in Nat
    BY <1>3
  <2>2. k - 1 \notin B
    BY <1>1, <2>1
  <2>3. PICK d : IsDeltas(d, k - 1, last)
    BY <2>1, <2>2
  <2>4. \A i \in 0 .. (k - 1) :
          d[i] = IF i = 0 THEN 0 ELSE Smaller(d[i - 1] + 1, ReplayLimit(i, last))
    BY <2>3 DEF IsDeltas
  <2> DEFINE e == [i \in 0 .. k |-> IF i < k THEN d[i]
                                    ELSE Smaller(d[k - 1] + 1, ReplayLimit(k, last))]
  <2>5. ASSUME NEW i \in 0 .. k
        PROVE  e[i] = IF i = 0 THEN 0 ELSE Smaller(e[i - 1] + 1, ReplayLimit(i, last))
    <3>1. CASE i = 0
      <4>1. e[0] = d[0] /\ 0 \in 0 .. (k - 1)
        BY <2>1, <1>3
      <4> QED BY <4>1, <3>1, <2>4
    <3>2. CASE i # 0 /\ i < k
      <4>1. e[i] = d[i] /\ e[i - 1] = d[i - 1] /\ i \in 0 .. (k - 1)
        BY <2>1, <3>2
      <4> QED BY <4>1, <3>2, <2>4
    <3>3. CASE i = k
      <4>1. e[k] = Smaller(d[k - 1] + 1, ReplayLimit(k, last)) /\ e[k - 1] = d[k - 1]
        BY <2>1
      <4> QED BY <4>1, <3>3, <1>3
    <3> QED BY <3>1, <3>2, <3>3, <2>1
  <2>6. IsDeltas(e, k, last)
    <3>1. e = [i \in 0 .. k |-> e[i]]
      OBVIOUS
    <3> HIDE DEF e
    <3> QED BY <3>1, <2>5 DEF IsDeltas
  <2> QED BY <2>6
<1> QED BY <1>2, <1>3

\* The undo history grows by at most one delta for each block, and never beyond
\* its limit.
LEMMA DeltasShape ==
  ASSUME NEW last \in Nat
  PROVE  /\ ReplayDeltas(last)[0] = 0
         /\ \A i \in 0 .. last : ReplayDeltas(last)[i] \in Nat /\ ReplayDeltas(last)[i] <= i
         /\ \A i \in 1 .. last : /\ ReplayDeltas(last)[i] <= ReplayDeltas(last)[i - 1] + 1
                                 /\ ReplayDeltas(last)[i] <= ReplayLimit(i, last)
<1> DEFINE d == ReplayDeltas(last)
<1>1. IsDeltas(d, last, last)
  <2>1. d = CHOOSE f : IsDeltas(f, last, last)
    BY DEF ReplayDeltas, IsDeltas
  <2> HIDE DEF d
  <2> QED BY <2>1, DeltasExist
<1> HIDE DEF d
<1>2. \A i \in 0 .. last :
        d[i] = IF i = 0 THEN 0 ELSE Smaller(d[i - 1] + 1, ReplayLimit(i, last))
  BY <1>1 DEF IsDeltas
<1>3. \A i \in 0 .. last : d[i] \in Nat /\ d[i] <= i
  <2> DEFINE B == {i \in 0 .. last : ~(d[i] \in Nat /\ d[i] <= i)}
  <2> SUFFICES ASSUME B # {} PROVE FALSE
    OBVIOUS
  <2>1. PICK i \in B : \A j \in B : i <= j
    <3>1. B \subseteq Nat
      OBVIOUS
    <3> HIDE DEF B
    <3> QED BY ONLY <3>1, B # {}, SmallestOf
  <2>2. i # 0
    BY <1>2
  <2>3. i - 1 \in 0 .. last /\ i \in Nat
    BY <2>2
  <2>4. d[i - 1] \in Nat /\ d[i - 1] <= i - 1
    BY <2>1, <2>3
  <2>5. d[i] = Smaller(d[i - 1] + 1, ReplayLimit(i, last))
    BY <1>2, <2>2
  <2>6. ReplayLimit(i, last) \in Nat
    BY LimitType
  <2>7. d[i] \in Nat /\ d[i] <= i
    BY <2>3, <2>4, <2>5, <2>6 DEF Smaller
  <2> QED BY <2>7
<1>4. ASSUME NEW i \in 1 .. last PROVE d[i] <= d[i - 1] + 1 /\ d[i] <= ReplayLimit(i, last)
  <2>1. i \in 0 .. last /\ i - 1 \in 0 .. last /\ i # 0
    OBVIOUS
  <2>2. d[i] = Smaller(d[i - 1] + 1, ReplayLimit(i, last)) /\ d[i - 1] \in Nat
    BY <2>1, <1>2, <1>3
  <2> QED BY <2>2, LimitType DEF Smaller
<1>5. d[0] = 0
  BY <1>2
<1> QED BY <1>3, <1>4, <1>5 DEF d

\* The number of blocks that have no delta never falls.
LEMMA DeltasGap ==
  ASSUME NEW last \in Nat, NEW n \in 0 .. last, NEW k \in 0 .. n
  PROVE  k - ReplayDeltas(last)[k] <= n - ReplayDeltas(last)[n]
<1> DEFINE d == ReplayDeltas(last)
<1>1. /\ \A i \in 0 .. last : d[i] \in Nat /\ d[i] <= i
      /\ \A i \in 1 .. last : d[i] <= d[i - 1] + 1
  BY DeltasShape
<1> HIDE DEF d
<1> DEFINE B == {m \in k .. n : ~(k - d[k] <= m - d[m])}
<1>2. ASSUME B # {} PROVE FALSE
  <2>1. PICK m \in B : \A j \in B : m <= j
    <3>1. B \subseteq Nat
      OBVIOUS
    <3> HIDE DEF B
    <3> QED BY ONLY <1>2, <3>1, SmallestOf
  <2>0. m \in 0 .. last /\ k \in 0 .. last
    OBVIOUS
  <2>2. m # k
    BY <1>1, <2>0
  <2>3. m - 1 \in k .. n /\ m \in 1 .. last /\ m - 1 \in 0 .. last
    BY <2>2
  <2>4. k - d[k] <= (m - 1) - d[m - 1]
    BY <2>1, <2>3
  <2>5. d[m] <= d[m - 1] + 1 /\ d[m] \in Nat /\ d[m - 1] \in Nat /\ d[k] \in Nat
    BY <1>1, <2>0, <2>3
  <2>6. k - d[k] <= m - d[m]
    BY <2>0, <2>4, <2>5
  <2> QED BY <2>6
<1>3. n \in k .. n
  OBVIOUS
<1>4. k - d[k] <= n - d[n]
  BY <1>2, <1>3
<1> QED BY <1>4 DEF d

\* The irreversible number after each block is that of the last block without a
\* delta.
LEMMA LibsShape ==
  ASSUME NEW last \in Nat, NEW n \in 0 .. last
  PROVE  /\ ReplayLibs(n, last) \in Seq(Nat) /\ Len(ReplayLibs(n, last)) = n
         /\ \A k \in 1 .. n : ReplayLibs(n, last)[k] = k - ReplayDeltas(last)[k]
<1> DEFINE d == ReplayDeltas(last)
           Gap == [i \in 0 .. n |-> i - d[i]]
           lib == CHOOSE f : IsLibs(f, n, last)
<1>0. \A i \in 0 .. n : i \in 0 .. last
  OBVIOUS
<1>1. /\ d[0] = 0
      /\ \A i \in 0 .. n : d[i] \in Nat /\ d[i] <= i /\ i - d[i] \in Nat
      /\ \A i \in 1 .. n : d[i] <= d[i - 1] + 1
  <2>1. /\ d[0] = 0 /\ \A i \in 0 .. last : d[i] \in Nat /\ d[i] <= i
        /\ \A i \in 1 .. last : d[i] <= d[i - 1] + 1
    BY DeltasShape
  <2> HIDE DEF d
  <2>2. \A i \in 1 .. n : i \in 1 .. last
    OBVIOUS
  <2> QED BY <2>1, <2>2, <1>0
<1> HIDE DEF d
<1>2. ASSUME NEW i \in 1 .. n PROVE Larger((i - 1) - d[i - 1], Minus(i, d[i])) = i - d[i]
  <2>1. i \in 0 .. n /\ i - 1 \in 0 .. n
    OBVIOUS
  <2>2. d[i] \in Nat /\ d[i - 1] \in Nat /\ d[i] <= i /\ d[i] <= d[i - 1] + 1
    BY <1>1, <2>1
  <2> QED BY <2>1, <2>2 DEF Larger, Minus
<1>3. IsLibs(Gap, n, last)
  <2>1. ASSUME NEW i \in 0 .. n
        PROVE  Gap[i] = IF i = 0 THEN 0 ELSE Larger(Gap[i - 1], Minus(i, d[i]))
    <3>1. CASE i = 0
      BY <3>1, <1>1
    <3>2. CASE i # 0
      <4>1. i \in 1 .. n /\ i - 1 \in 0 .. n
        BY <3>2
      <4>2. Gap[i] = i - d[i] /\ Gap[i - 1] = (i - 1) - d[i - 1]
        BY <4>1
      <4> HIDE DEF Gap
      <4> QED BY <3>2, <4>1, <4>2, <1>2
    <3> QED BY <3>1, <3>2
  <2>2. Gap = [i \in 0 .. n |-> Gap[i]]
    OBVIOUS
  <2> HIDE DEF Gap
  <2> QED BY <2>1, <2>2 DEF IsLibs, d
<1>4. IsLibs(lib, n, last)
  BY <1>3
<1> HIDE DEF lib, Gap
<1>5. \A i \in 0 .. n : lib[i] = IF i = 0 THEN 0 ELSE Larger(lib[i - 1], Minus(i, d[i]))
  BY <1>4 DEF IsLibs, d
<1>6. \A i \in 0 .. n : lib[i] = i - d[i]
  <2> DEFINE B == {i \in 0 .. n : ~(lib[i] = i - d[i])}
  <2>1. ASSUME B # {} PROVE FALSE
    <3>1. PICK i \in B : \A j \in B : i <= j
      <4>1. B \subseteq Nat
        OBVIOUS
      <4> HIDE DEF B
      <4> QED BY ONLY <2>1, <4>1, SmallestOf
    <3>2. i # 0
      BY <1>1, <1>5
    <3>3. i \in 1 .. n /\ i - 1 \in 0 .. n
      BY <3>2
    <3>4. lib[i - 1] = (i - 1) - d[i - 1]
      BY <3>1, <3>3
    <3>5. lib[i] = i - d[i]
      BY <1>2, <1>5, <3>2, <3>3, <3>4
    <3> QED BY <3>5
  <2> QED BY <2>1
<1>7. ReplayLibs(n, last) = [i \in 1 .. n |-> lib[i]]
  BY DEF ReplayLibs, lib, IsLibs
<1>8. \A k \in 1 .. n : ReplayLibs(n, last)[k] = k - d[k] /\ k - d[k] \in Nat
  <2>1. \A k \in 1 .. n : k \in 0 .. n
    OBVIOUS
  <2> QED BY <1>1, <1>6, <1>7, <2>1
<1>9. ReplayLibs(n, last) \in [1 .. n -> Nat]
  BY <1>7, <1>8
<1>10. n \in Nat
  OBVIOUS
<1>11. ReplayLibs(n, last) \in Seq(Nat) /\ Len(ReplayLibs(n, last)) = n
  <2>1. ReplayLibs(n, last) \in Seq(Nat)
    BY <1>9, <1>10, SeqDef
  <2>2. Len(ReplayLibs(n, last)) \in Nat /\ 1 .. Len(ReplayLibs(n, last)) = 1 .. n
    BY <2>1, <1>9, LenProperties
  <2> QED BY <2>1, <2>2, <1>10
<1> QED BY <1>8, <1>11 DEF d

-----------------------------------------------------------------------------
(* The block store never holds a block of another chain.                    *)

\* It may lack one, where a pop_block ran out of deltas after it had removed the
\* block, but what it has is on the current chain.
StoreChain ==
  /\ store[0] = Root
  /\ \A n \in 0 .. MaxHeight :
       store[n] = None \/ (n <= Len(head) /\ store[n] = Upto(head, n))

LEMMA StoreChainStep ==
  ASSUME TypeInv, Undoing => head # Root, StoreChain, Next
  PROVE  StoreChain'
<1>t. /\ head \in Blocks /\ store \in [0 .. MaxHeight -> Blocks \cup {None}]
      /\ Len(head) \in Nat /\ Len(head) \in 0 .. MaxHeight /\ MaxHeight \in Nat
      /\ 0 \in 0 .. MaxHeight
  BY Basics DEF TypeInv, SizeInv, TypeOK
<1>1. CASE UNCHANGED <<head, store>>
  BY <1>1 DEF StoreChain
<1>2. ASSUME NEW b \in Blocks, NEW m \in UndoSizes, Applies(b), Apply(b, m)
      PROVE  StoreChain'
  <2>1. /\ head' = b /\ Len(b) = Len(head) + 1 /\ Previous(b) = head
        /\ store' = [store EXCEPT ![Len(head) + 1] = b]
    BY <1>2, ApplyShape DEF Apply, Applies, Stored, Height
  <2> DEFINE k == Len(head) + 1
  <2>2. k \in Nat \ {0} /\ Len(b) = k
    BY <2>1, <1>t
  <2>3. store'[0] = Root
    <3>1. store'[0] = store[0]
      BY <2>1, <2>2, <1>t
    <3> QED BY <3>1 DEF StoreChain
  <2>4. ASSUME NEW n \in 0 .. MaxHeight
        PROVE  store'[n] = None \/ (n <= k /\ store'[n] = Upto(b, n))
    <3>1. store[n] = None \/ (n <= Len(head) /\ store[n] = Upto(head, n))
      BY DEF StoreChain
    <3>2. CASE n = k
      <4>1. store'[n] = b
        BY <2>1, <3>2, <1>t
      <4>2. Upto(b, k) = b
        <5>1. k \in 0 .. Len(b) /\ k \in 0 .. k
          BY <2>2
        <5> QED BY <5>1, <2>2, UptoUpto
      <4>3. n <= k
        BY <2>2, <3>2
      <4> QED BY <4>1, <4>2, <4>3, <3>2
    <3>3. CASE n # k
      <4>1. store'[n] = store[n]
        BY <2>1, <3>3, <1>t
      <4>2. n <= Len(head) => n <= k /\ n \in 0 .. Len(head)
        BY <1>t
      <4>3. n \in 0 .. Len(head) => Upto(b, n) = Upto(head, n)
        BY <2>1, <1>t, SameAncestors
      <4> QED BY <4>1, <4>2, <4>3, <3>1
    <3> QED BY <3>2, <3>3
  <2> HIDE DEF k
  <2> QED BY <2>1, <2>2, <2>3, <2>4 DEF StoreChain
<1>3. CASE Undoing /\ pop_block
  <2>0. Len(head) # 0 /\ head # Root
    BY <1>3, <1>t, PreviousShape
  <2>1. store[Len(head)] = None \/ store[Len(head)] = head
    <3>1. store[Len(head)] = None \/ store[Len(head)] = Upto(head, Len(head))
      BY <1>t DEF StoreChain
    <3>2. Len(head) \in 0 .. Len(head)
      BY <1>t
    <3> QED BY <3>1, <3>2, <1>t, UptoUpto
  <2>2. /\ store'[Len(head)] = None
        /\ \A n \in 0 .. MaxHeight : n # Len(head) => store'[n] = store[n]
    <3>1. store' = IF store[Len(head)] = head THEN [store EXCEPT ![Len(head)] = None] ELSE store
      BY <1>3 DEF pop_block, Height
    <3> QED BY <3>1, <2>1, <1>t
  <2>3. store'[0] = Root
    BY <2>0, <2>2, <1>t DEF StoreChain
  <2>4. ASSUME NEW n \in 0 .. MaxHeight, store'[n] # None
        PROVE  n \in 0 .. Len(head) - 1 /\ store'[n] = Upto(head, n)
    <3>1. n # Len(head) /\ store'[n] = store[n]
      BY <2>2, <2>4
    <3>2. n <= Len(head) /\ store[n] = Upto(head, n)
      BY <3>1, <2>4 DEF StoreChain
    <3> QED BY <3>1, <3>2, <1>t
  <2>5. CASE CanPop
    <3>1. /\ head' \in Blocks /\ Previous(head) = head' /\ Len(head') = Len(head) - 1
          /\ Len(head) - 1 \in Nat
      BY <1>3, <2>5, PopShape DEF pop_block
    <3>2. ASSUME NEW n \in 0 .. MaxHeight
          PROVE  store'[n] = None \/ (n <= Len(head') /\ store'[n] = Upto(head', n))
      <4>1. CASE store'[n] # None
        <5>1. n \in 0 .. Len(head') /\ store'[n] = Upto(head, n) /\ n <= Len(head')
          BY <4>1, <2>4, <3>1
        <5>2. Upto(head, n) = Upto(head', n)
          BY <5>1, <3>1, <1>t, SameAncestors
        <5> QED BY <5>1, <5>2
      <4> QED BY <4>1
    <3> QED BY <2>3, <3>2 DEF StoreChain
  <2>6. CASE ~CanPop
    <3>1. head' = head
      BY <1>3, <2>6 DEF pop_block
    <3>2. \A n \in 0 .. Len(head) - 1 : n <= Len(head)
      BY <1>t
    <3> QED BY <2>3, <2>4, <3>1, <3>2 DEF StoreChain
  <2> QED BY <2>5, <2>6
<1> QED BY <1>1, <1>2, <1>3, StoreStep

LEMMA StoreChainNext ==
  TypeInv /\ (Undoing => head # Root) /\ StoreChain /\ [Next]_vars => StoreChain'
<1>1. ASSUME StoreChain, UNCHANGED vars PROVE StoreChain'
  BY <1>1 DEF StoreChain, vars, chainvars
<1> QED BY <1>1, StoreChainStep

LEMMA StoreExactChain ==
  ASSUME StoreExact, head \in Blocks
  PROVE  StoreChain
<1>1. Len(head) \in Nat /\ 0 \in 0 .. MaxHeight /\ 0 \in 0 .. Len(head)
  BY BlockSeq, ChainAssumption
<1>2. Upto(head, 0) = Root
  BY <1>1, UptoShape, PreviousShape
<1>3. store[0] = Root
  <2>1. 0 <= Len(head)
    BY <1>1
  <2> QED BY <1>1, <1>2, <2>1 DEF StoreExact
<1> QED BY <1>3 DEF StoreExact, StoreChain

\* How far the store goes without a gap.
LEMMA ContiguousShape ==
  ASSUME StoreChain, head \in Blocks
  PROVE  /\ Contiguous \in 0 .. Len(head) /\ Contiguous \in 0 .. MaxHeight
         /\ \A k \in 0 .. Contiguous : store[k] # None /\ store[k] = Upto(head, k)
         /\ Largest(StoredHeights) \in Contiguous .. Len(head)
         /\ Largest(StoredHeights) \in 0 .. MaxHeight
         /\ store[Largest(StoredHeights)] = Upto(head, Largest(StoredHeights))
<1>1. Len(head) \in Nat /\ MaxHeight \in Nat /\ 0 \in 0 .. MaxHeight
  BY BlockSeq, ChainAssumption
<1> DEFINE S == {n \in 0 .. MaxHeight : 0 .. n \subseteq StoredHeights}
<1>2. \A n \in StoredHeights : /\ n \in 0 .. MaxHeight /\ n \in 0 .. Len(head)
                               /\ store[n] # None /\ store[n] = Upto(head, n)
  BY <1>1 DEF StoredHeights, StoreChain
<1>3. 0 \in StoredHeights
  BY <1>1, NoneAssumption, PreviousShape DEF StoredHeights, StoreChain
<1>4. 0 \in S
  <2>1. 0 .. 0 \subseteq StoredHeights
    BY <1>3
  <2> QED BY <2>1, <1>1
<1>5. Contiguous \in S
  <2>1. S \subseteq Nat /\ \A m \in S : m <= MaxHeight
    BY <1>1
  <2> HIDE DEF S
  <2>2. Largest(S) \in S
    BY <2>1, <1>1, <1>4, LargestOf
  <2> QED BY <2>2 DEF Contiguous, S
<1>6. /\ Contiguous \in 0 .. MaxHeight
      /\ \A k \in 0 .. Contiguous : k \in StoredHeights
  BY <1>5
<1>7. Contiguous \in StoredHeights
  BY <1>6
<1>8. Largest(StoredHeights) \in StoredHeights /\ Largest(StoredHeights) >= Contiguous
  <2>1. StoredHeights \subseteq Nat /\ \A m \in StoredHeights : m <= MaxHeight
    BY <1>1, <1>2
  <2> QED BY <2>1, <1>1, <1>7, LargestOf
<1>9. \A k \in 0 .. Contiguous : store[k] # None /\ store[k] = Upto(head, k)
  BY <1>2, <1>6
<1> DEFINE l == Largest(StoredHeights)
           c == Contiguous
<1>10. l \in 0 .. Len(head) /\ l >= c /\ l \in 0 .. MaxHeight /\ store[l] = Upto(head, l)
  BY <1>2, <1>8
<1>11. c \in 0 .. Len(head) /\ c \in 0 .. MaxHeight
  BY <1>2, <1>7
<1> HIDE DEF l, c
<1>12. l \in c .. Len(head)
  BY <1>1, <1>10, <1>11
<1> QED BY <1>9, <1>10, <1>11, <1>12 DEF l, c

-----------------------------------------------------------------------------
(* Starting again.                                                          *)

RestartInv ==
  PoolInv /\ OrderInv /\ BranchInv /\ RootInv /\ LibInv /\ StoreChain

\* A new process has no call in progress, so that only the chain, the fork
\* database and the store it starts with matter.
LEMMA FreshInv ==
  ASSUME FreshProcess, ChainType', ForkType', StoreChain',
         trxs' = ChainTxs(head'), Disjoint(head'), Sound(head'),
         head' = Root => index' \subseteq {Root} /\ Len(fhead') <= 1,
         \A k \in 1 .. Len(libs') : libs'[k] + deltas' <= Len(head') + 1
  PROVE  RestartInv'
<1>0. /\ pending' = << >> /\ open' = FALSE /\ session' = {}
      /\ popped' = << >> /\ ids' = {} /\ queue' = << >>
      /\ phase' = "idle" /\ err' = FALSE /\ new' = Root /\ old' = NoCall
      /\ first' = << >> /\ second' = << >> /\ left' = << >>
  BY DEF FreshProcess
<1>1. /\ head' \in Blocks /\ Len(head') \in Nat /\ libs' \in Seq(Nat) /\ deltas' \in Nat
      /\ Len(libs') = Len(head') + 1 /\ deltas' <= Len(head') + 1
  <2>1. head' \in Blocks /\ libs' \in Seq(Nat) /\ deltas' \in 0 .. max_size'
        /\ max_size' \in UndoSizes /\ deltas' <= Len(head') + 1 /\ Len(libs') = Len(head') + 1
    BY DEF ChainType
  <2>2. max_size' \in Nat
    BY <2>1, ChainAssumption
  <2>3. Len(head') \in Nat
    BY <2>1, BlockSeq
  <2> QED BY <2>1, <2>2, <2>3
<1>2. /\ Root \in Blocks /\ Len(Root) = 0 /\ << >> \in Seq(Blocks) /\ << >> \in Seq(Txs)
      /\ Elements(<< >>) = {} /\ Len(<< >>) = 0
  <2>1. << >> \in Seq(Blocks) /\ << >> \in Seq(Txs) /\ Len(<< >>) = 0
    BY EmptySeq
  <2>2. Elements(<< >>) = {}
    BY DEF Elements
  <2> QED BY <2>1, <2>2, PreviousShape
<1>3. old'.head = Root /\ old'.lib = 0 /\ old'.txs = {}
  BY <1>0 DEF NoCall
<1>4. SizeInv'
  <2>1. TxType'
    BY <1>0, <1>2 DEF TxType
  <2>2. old' \in [head : Blocks, lib : Nat, txs : SUBSET Txs]
    BY <1>0, <1>2 DEF NoCall
  <2>3. CallType'
    BY <1>0, <1>2, <2>2 DEF CallType, Phases
  <2> QED BY <2>1, <2>3 DEF ChainType, ForkType, TxType, CallType, SizeInv, TypeOK
<1>5. BranchInv'
  <2>1. Sound(Root)
    BY <1>2 DEF Sound
  <2> QED BY <2>1, <1>0, <1>3 DEF BranchInv
<1>6. RootInv'
  BY <1>0 DEF RootInv, Switching
<1>7. TypeInv'
  BY <1>4, <1>5, <1>6, RootInvType
<1>8. AppliedOnce'
  BY DEF AppliedOnce, Disjoint
<1>9. PendingInv'
  BY <1>0, <1>2 DEF PendingInv, Elsewhere
<1>10. KeptInv'
  BY <1>0, <1>2, <1>3 DEF KeptInv
<1>11. OrderInv'
  <2>1. Disjoint(Root)
    BY <1>2 DEF Disjoint
  <2> QED BY <2>1, <1>0, <1>2, <1>3 DEF OrderInv, Clean
<1>12. LibInv'
  <2>1. Minus(0, 1) = 0 /\ 0 \in 0 .. Len(head') /\ 0 \in 0 .. Len(Root)
    BY <1>1, <1>2 DEF Minus
  <2>2. Upto(head', 0) = Root /\ Upto(Root, 0) = Root
    <3>1. Upto(head', 0) \in Blocks /\ Len(Upto(head', 0)) = 0
      BY <2>1, <1>1, UptoShape
    <3>2. Upto(Root, 0) \in Blocks /\ Len(Upto(Root, 0)) = 0
      BY <2>1, <1>2, UptoShape
    <3> QED BY <3>1, <3>2, PreviousShape
  <2>3. 0 + deltas' <= Len(head') + 1 /\ 0 <= 0 + 1
    BY <1>1
  <2>4. \A k \in 1 .. Len(libs') : libs'[k] \in Nat /\ libs'[k] >= 0
    BY <1>1, ElementOfSeq
  <2> QED BY <2>1, <2>2, <2>3, <2>4, <1>2, <1>3 DEF LibInv
<1> QED BY <1>5, <1>6, <1>7, <1>8, <1>9, <1>10, <1>11, <1>12 DEF RestartInv, PoolInv

\* A replay starts from the longest chain the store has without a gap.
LEMMA ReplayedShape ==
  ASSUME RestartInv, Replayed
  PROVE  /\ ChainType' /\ ForkType' /\ StoreChain' /\ StoreExact'
         /\ trxs' = ChainTxs(head') /\ Disjoint(head') /\ Sound(head')
         /\ head' = Root => index' \subseteq {Root} /\ Len(fhead') <= 1
         /\ \A k \in 1 .. Len(libs') : libs'[k] + deltas' <= Len(head') + 1
<1> DEFINE n == Contiguous
           last == Num(store[Largest(StoredHeights)])
<1>1. /\ head' = store[n]
      /\ libs' = ReplayLibs(n + 1, last)
      /\ deltas' = ReplayDeltas(last)[n + 1]
      /\ max_size' = ReplayLimit(n + 1, last)
      /\ store' = [k \in 0 .. MaxHeight |-> IF k <= n THEN store[k] ELSE None]
      /\ trxs' = ChainTxs(head')
      /\ index' = {Upto(head', k) : k \in Minus(Minus(n + 1, ForkSize), 1) .. n}
      /\ orphan' = {b \in index' : b # Root /\ Previous(b) \notin index'}
      /\ fhead' = head' /\ loose' = FALSE /\ kept' = {}
  BY DEF Replayed
<1>2. head \in Blocks /\ Sound(head) /\ Disjoint(head) /\ StoreChain
  BY DEF RestartInv, PoolInv, TypeInv, SizeInv, TypeOK, BranchInv, AppliedOnce, Disjoint
<1>3. /\ n \in 0 .. Len(head) /\ n \in 0 .. MaxHeight /\ Len(head) \in Nat /\ MaxHeight \in Nat
      /\ \A k \in 0 .. n : store[k] # None /\ store[k] = Upto(head, k)
  BY <1>2, ContiguousShape, BlockSeq, ChainAssumption
<1>4. last \in Nat /\ n + 1 \in 1 .. last /\ n + 1 \in 0 .. last
  <2> DEFINE l == Largest(StoredHeights)
  <2>1. l \in n .. Len(head) /\ store[l] = Upto(head, l) /\ l \in 0 .. Len(head)
    BY <1>2, <1>3, ContiguousShape
  <2> HIDE DEF l
  <2>2. Len(store[l]) = l
    BY <2>1, <1>2, UptoShape
  <2>3. last = l + 1
    BY <2>2 DEF Num, l
  <2> HIDE DEF last, n
  <2> QED BY <2>1, <2>3, <1>3
<1> HIDE DEF n, last
<1>5. /\ head' = Upto(head, n) /\ head' \in Blocks /\ Len(head') = n
      /\ Sound(head') /\ Disjoint(head') /\ n \in Nat
  <2>1. head' = Upto(head, n) /\ n \in Nat
    BY <1>1, <1>3
  <2> QED BY <2>1, <1>2, <1>3, UptoShape, SoundPrefix
<1>6. \A k \in 0 .. n : Upto(head', k) = Upto(head, k)
  BY <1>2, <1>3, <1>5, UptoUpto
<1>7. /\ \A k \in 0 .. MaxHeight :
           store'[k] = IF k <= n THEN Upto(head', k) ELSE None
      /\ store' \in [0 .. MaxHeight -> Blocks \cup {None}]
  <2>1. ASSUME NEW k \in 0 .. MaxHeight
        PROVE  /\ store'[k] = IF k <= n THEN Upto(head', k) ELSE None
               /\ store'[k] \in Blocks \cup {None}
    <3>1. CASE k <= n
      <4>1. k \in 0 .. n /\ k \in 0 .. Len(head')
        BY <3>1, <1>3, <1>5
      <4>2. store'[k] = Upto(head', k)
        BY <3>1, <4>1, <1>1, <1>3, <1>6
      <4>3. Upto(head', k) \in Blocks
        BY <4>1, <1>5, UptoShape
      <4> QED BY <4>2, <4>3, <3>1
    <3>2. CASE ~(k <= n)
      BY <3>2, <1>1
    <3> QED BY <3>1, <3>2
  <2>2. store' = [k \in 0 .. MaxHeight |-> store'[k]]
    BY <1>1
  <2> QED BY <2>1, <2>2
<1>8. StoreExact'
  BY <1>5, <1>7 DEF StoreExact
<1>9. StoreChain'
  <2>1. store'[0] = Root
    <3>1. 0 \in 0 .. n /\ 0 <= n /\ 0 \in 0 .. MaxHeight
      BY <1>3, <1>5
    <3>2. store'[0] = store[0]
      BY <3>1, <1>1
    <3> QED BY <3>2, <1>2 DEF StoreChain
  <2> QED BY <2>1, <1>5, <1>7 DEF StoreChain
<1>10. /\ deltas' \in Nat /\ deltas' <= n + 1 /\ deltas' <= max_size'
       /\ max_size' \in UndoSizes /\ max_size' \in Nat
  BY <1>1, <1>4, DeltasShape, LimitType
<1>11. libs' \in Seq(Nat) /\ Len(libs') = n + 1
       /\ \A k \in 1 .. n + 1 : libs'[k] = k - ReplayDeltas(last)[k]
  BY <1>1, <1>4, LibsShape
<1>12. \A k \in 1 .. n + 1 : libs'[k] + deltas' <= n + 1
  <2> SUFFICES ASSUME NEW k \in 1 .. n + 1 PROVE libs'[k] + deltas' <= n + 1
    OBVIOUS
  <2>1. k \in 0 .. n + 1 /\ k \in 0 .. last /\ k \in Nat
    BY <1>4, <1>5
  <2>2. k - ReplayDeltas(last)[k] <= (n + 1) - ReplayDeltas(last)[n + 1]
    BY <2>1, <1>4, DeltasGap
  <2>3. ReplayDeltas(last)[k] \in Nat
    BY <2>1, <1>4, DeltasShape
  <2> QED BY <2>1, <2>2, <2>3, <1>1, <1>5, <1>10, <1>11
<1>13. ChainType'
  <2>1. trxs' \subseteq Txs
    BY <1>1, <1>5, ChainTxsType
  <2>2. deltas' \in 0 .. max_size' /\ Len(libs') = Len(head') + 1 /\ deltas' <= Len(head') + 1
    BY <1>5, <1>10, <1>11
  <2> QED BY <2>1, <2>2, <1>5, <1>7, <1>10, <1>11 DEF ChainType
<1>14. \A b \in index' : \E k \in 0 .. n : b = Upto(head', k)
  <2>1. ForkSize \in Nat
    BY ChainAssumption
  <2>2. Minus(Minus(n + 1, ForkSize), 1) \in Nat
    BY <2>1, <1>5 DEF Minus
  <2>3. \A k \in Minus(Minus(n + 1, ForkSize), 1) .. n : k \in 0 .. n
    BY <2>2
  <2> QED BY <2>3, <1>1
<1>15. ForkType'
  <2>1. index' \subseteq Blocks
    BY <1>5, <1>14, UptoShape
  <2> QED BY <2>1, <1>1, <1>5 DEF ForkType
<1>16. ASSUME head' = Root PROVE index' \subseteq {Root} /\ Len(fhead') <= 1
  <2>1. n = 0
    BY <1>5, <1>16, PreviousShape
  <2>2. ASSUME NEW b \in index' PROVE b = Root
    <3>1. PICK k \in 0 .. n : b = Upto(head', k)
      BY <1>14
    <3>2. k = n /\ n \in 0 .. n
      BY <2>1
    <3>3. Upto(head', n) = head'
      BY <3>2, <1>5, UptoUpto
    <3> QED BY <3>1, <3>2, <3>3, <1>16
  <2> QED BY <2>1, <2>2, <1>1, <1>5
<1> QED BY <1>1, <1>5, <1>8, <1>9, <1>11, <1>12, <1>13, <1>15, <1>16

\* open reads back what close wrote, but for some items of the fork database.
LEMMA ReopenedShape ==
  ASSUME RestartInv, phase = "idle", NEW read \in SUBSET index, Reopened(read)
  PROVE  /\ ChainType' /\ ForkType' /\ StoreChain' /\ (StoreExact => StoreExact')
         /\ trxs' = ChainTxs(head') /\ Disjoint(head') /\ Sound(head')
         /\ head' = Root => index' \subseteq {Root} /\ Len(fhead') <= 1
         /\ \A k \in 1 .. Len(libs') : libs'[k] + deltas' <= Len(head') + 1
<1>1. /\ index' = read \cup {head}
      /\ orphan' = {b \in index' : b # Root /\ ~ (b \in read /\ Previous(b) \in read)}
      /\ fhead' = IF fhead \in index THEN fhead ELSE head
      /\ loose' = (fhead' \notin index')
      /\ kept' = read \ {head}
      /\ max_size' = Largest(UndoSizes)
      /\ UNCHANGED <<head, libs, deltas, store, trxs>>
  BY DEF Reopened
<1>2. ChainType /\ ForkType
  BY TypeParts DEF RestartInv, PoolInv, TypeInv
<1>3. ChainType'
  <2>1. /\ max_size \in Nat /\ max_size' \in Nat /\ max_size' \in UndoSizes
        /\ max_size' >= max_size /\ deltas \in 0 .. max_size
    <3>1. max_size \in UndoSizes /\ deltas \in 0 .. max_size
      BY <1>2 DEF ChainType
    <3>2. UndoSizes \subseteq Nat
      BY ChainAssumption
    <3> QED BY <3>1, <3>2, <1>1, LimitType
  <2>2. deltas' \in 0 .. max_size'
    BY <2>1, <1>1
  <2> QED BY <2>1, <2>2, <1>1, <1>2 DEF ChainType
<1>4. ForkType'
  <2>1. index \subseteq Blocks /\ head \in Blocks /\ fhead \in Blocks
    BY <1>2 DEF ChainType, ForkType
  <2> QED BY <2>1, <1>1 DEF ForkType
<1>5. trxs' = ChainTxs(head') /\ Disjoint(head') /\ Sound(head')
  BY <1>1 DEF RestartInv, PoolInv, AppliedOnce, Disjoint, BranchInv
<1>6. ASSUME head' = Root PROVE index' \subseteq {Root} /\ Len(fhead') <= 1
  <2>1. index \subseteq {Root} /\ Len(fhead) <= 1 /\ head = Root /\ Len(Root) <= 1
    BY <1>1, <1>6, PreviousShape DEF RestartInv, RootInv, Switching
  <2> QED BY <2>1, <1>1
<1>7. \A k \in 1 .. Len(libs') : libs'[k] + deltas' <= Len(head') + 1
  BY <1>1 DEF RestartInv, LibInv
<1>8. StoreChain' /\ (StoreExact => StoreExact')
  BY <1>1 DEF RestartInv, StoreChain, StoreExact
<1> QED BY <1>3, <1>4, <1>5, <1>6, <1>7, <1>8

\* close with rewind_on_close pops blocks, each with its irreversible number and
\* with its entry in the store.
LEMMA RewoundShape ==
  ASSUME RestartInv, restart_rewound
  PROVE  /\ ChainType' /\ ForkType' /\ StoreChain' /\ (StoreExact => StoreExact')
         /\ trxs' = ChainTxs(head') /\ Disjoint(head') /\ Sound(head')
         /\ head' = Root => index' \subseteq {Root} /\ Len(fhead') <= 1
         /\ \A k \in 1 .. Len(libs') : libs'[k] + deltas' <= Len(head') + 1
         /\ \E n \in 0 .. Len(head) : head' = Upto(head, n) /\ n + deltas >= Len(head)
<1> DEFINE p == Smaller(Smaller(deltas, ForkPops), Len(head))
           n == Len(head) - p
<1>1. /\ head' = Upto(head, n)
      /\ libs' = Upto(libs, Len(libs) - p)
      /\ store' = [k \in 0 .. MaxHeight |-> IF k <= Len(head') THEN store[k] ELSE None]
      /\ trxs' = ChainTxs(head')
      /\ deltas' = 0 /\ max_size' = Largest(UndoSizes)
      /\ index' = {head'} /\ orphan' = index' \ {Root}
      /\ fhead' = head' /\ loose' = FALSE /\ kept' = {}
  BY DEF restart_rewound
<1>2. /\ head \in Blocks /\ Len(head) \in Nat /\ deltas \in Nat /\ libs \in Seq(Nat)
      /\ Len(libs) = Len(head) + 1 /\ Sound(head) /\ Disjoint(head) /\ fhead \in Blocks
      /\ store \in [0 .. MaxHeight -> Blocks \cup {None}] /\ MaxHeight \in Nat
      /\ 0 \in 0 .. MaxHeight
  <2>1. TypeInv
    BY DEF RestartInv, PoolInv
  <2>2. head \in Blocks /\ fhead \in Blocks /\ store \in [0 .. MaxHeight -> Blocks \cup {None}]
    BY <2>1 DEF TypeInv, SizeInv, TypeOK
  <2>3. Sound(head) /\ Disjoint(head)
    BY DEF RestartInv, BranchInv, PoolInv, AppliedOnce, Disjoint
  <2>4. MaxHeight \in Nat
    BY ChainAssumption
  <2> QED BY <2>1, <2>2, <2>3, <2>4, Basics
<1>3. ForkPops \in Nat
  <2> DEFINE S == {k \in 1 .. Len(fhead) : \A l \in k .. Len(fhead) :
                     Upto(fhead, l) \in (index \cup kept \cup {fhead}) \ orphan}
  <2>1. Len(fhead) \in Nat
    BY <1>2, BlockSeq
  <2>2. IsFiniteSet(1 .. Len(fhead))
    BY <2>1, FS_Interval
  <2>3. IsFiniteSet(S)
    BY <2>2, FS_Subset
  <2>4. Cardinality(S) \in Nat
    BY <2>3, FS_CardinalityType
  <2> QED BY <2>4 DEF ForkPops
<1>4. p \in Nat /\ p <= deltas /\ p <= Len(head)
  BY ONLY <1>2, <1>3 DEF Smaller
<1> HIDE DEF p
<1>5. n \in Nat /\ n \in 0 .. Len(head) /\ Len(libs) - p = n + 1 /\ n = Len(head) - p
  BY <1>2, <1>4
<1> HIDE DEF n
<1>6. head' \in Blocks /\ Len(head') = n /\ Sound(head') /\ Disjoint(head')
  BY <1>1, <1>2, <1>5, UptoShape, SoundPrefix
<1>7. \A k \in 0 .. n : Upto(head', k) = Upto(head, k)
  BY <1>1, <1>2, <1>5, UptoUpto
<1>8. /\ libs' \in Seq(Nat) /\ Len(libs') = n + 1
      /\ \A i \in 1 .. n + 1 : libs'[i] = libs[i] /\ libs[i] \in Nat /\ i \in 1 .. Len(libs)
  <2>1. libs' = SubSeq(libs, 1, n + 1) /\ n + 1 <= Len(libs)
    BY <1>1, <1>2, <1>4, <1>5 DEF Upto
  <2>2. \A i \in 1 .. n + 1 : i \in 1 .. Len(libs)
    BY <2>1, <1>5, <1>2
  <2>3. \A i \in 1 .. n + 1 : libs[i] \in Nat
    BY <2>2, <1>2, ElementOfSeq
  <2>4. /\ SubSeq(libs, 1, n + 1) \in Seq(Nat)
        /\ Len(SubSeq(libs, 1, n + 1)) = IF 1 <= n + 1 THEN (n + 1) - 1 + 1 ELSE 0
        /\ \A i \in 1 .. (n + 1) - 1 + 1 : SubSeq(libs, 1, n + 1)[i] = libs[1 + i - 1]
    <3>1. 1 \in Int /\ n + 1 \in Int
      BY <1>5
    <3> QED BY <3>1, <2>3, SubSeqProperties
  <2>5. \A i \in 1 .. n + 1 : i \in 1 .. (n + 1) - 1 + 1 /\ 1 + i - 1 = i
    BY <1>5
  <2>6. \A i \in 1 .. n + 1 : libs'[i] = libs[i]
    BY <2>1, <2>4, <2>5
  <2>7. Len(libs') = n + 1
    BY <2>1, <2>4, <1>5
  <2> QED BY <2>1, <2>2, <2>3, <2>4, <2>6, <2>7
<1>9. \A k \in 1 .. Len(libs') : libs'[k] + deltas' <= Len(head') + 1
  <2> SUFFICES ASSUME NEW k \in 1 .. n + 1 PROVE libs'[k] + 0 <= n + 1
    BY <1>1, <1>6, <1>8
  <2>1. libs'[k] = libs[k] /\ libs[k] \in Nat /\ libs[k] + deltas <= Len(head) + 1
    BY <1>8 DEF RestartInv, LibInv
  <2> QED BY <2>1, <1>2, <1>4, <1>5
<1>10. ChainType'
  <2>1. trxs' \subseteq Txs
    BY <1>1, <1>6, ChainTxsType
  <2>2. max_size' \in UndoSizes /\ deltas' \in 0 .. max_size'
    <3>1. max_size' \in UndoSizes
      BY <1>1, LimitType
    <3>2. max_size' \in Nat
      BY <3>1, ChainAssumption
    <3> QED BY <3>1, <3>2, <1>1
  <2>3. deltas' <= Len(head') + 1 /\ Len(libs') = Len(head') + 1
    BY <1>1, <1>5, <1>6, <1>8
  <2>4. store' \in [0 .. MaxHeight -> Blocks \cup {None}]
    BY <1>1, <1>2
  <2> QED BY <2>1, <2>2, <2>3, <2>4, <1>6, <1>8 DEF ChainType
<1>11. ForkType'
  BY <1>1, <1>6 DEF ForkType
<1>12. \A k \in 0 .. MaxHeight : store'[k] = IF k <= n THEN store[k] ELSE None
  BY <1>1, <1>6
<1>13. StoreChain'
  <2>1. store'[0] = Root
    <3>1. store'[0] = store[0]
      BY <1>2, <1>5, <1>12
    <3> QED BY <3>1 DEF RestartInv, StoreChain
  <2>2. ASSUME NEW k \in 0 .. MaxHeight
        PROVE  store'[k] = None \/ (k <= n /\ store'[k] = Upto(head', k))
    <3>1. CASE k <= n
      <4>1. k \in 0 .. n
        BY <3>1, <1>5
      <4>2. store[k] = None \/ store[k] = Upto(head, k)
        BY DEF RestartInv, StoreChain
      <4> QED BY <4>1, <4>2, <3>1, <1>7, <1>12
    <3>2. CASE ~(k <= n)
      BY <3>2, <1>12
    <3> QED BY <3>1, <3>2
  <2> QED BY <2>1, <2>2, <1>6 DEF StoreChain
<1>14. ASSUME StoreExact PROVE StoreExact'
  <2>1. ASSUME NEW k \in 0 .. MaxHeight
        PROVE  store'[k] = IF k <= n THEN Upto(head', k) ELSE None
    <3>1. CASE k <= n
      <4>1. k \in 0 .. n /\ k <= Len(head)
        BY <3>1, <1>2, <1>5
      <4>2. store[k] = Upto(head, k)
        BY <4>1, <1>14 DEF StoreExact
      <4> QED BY <4>1, <4>2, <3>1, <1>7, <1>12
    <3>2. CASE ~(k <= n)
      BY <3>2, <1>12
    <3> QED BY <3>1, <3>2
  <2> QED BY <2>1, <1>6 DEF StoreExact
<1>15. ASSUME head' = Root PROVE index' \subseteq {Root} /\ Len(fhead') <= 1
  BY <1>1, <1>15, PreviousShape
<1>16. \E k \in 0 .. Len(head) : head' = Upto(head, k) /\ k + deltas >= Len(head)
  <2>1. n + deltas >= Len(head)
    BY <1>2, <1>4, <1>5
  <2> QED BY <2>1, <1>1, <1>5
<1> QED BY <1>1, <1>6, <1>9, <1>10, <1>11, <1>13, <1>14, <1>15, <1>16

\* Every way to start again.
LEMMA Restarts ==
  ASSUME RestartInv, crash \/ restart \/ restart_rewound
  PROVE  RestartInv' /\ phase' = "idle" /\ (StoreExact => StoreExact')
<1>0. FreshProcess
  BY DEF crash, restart, restart_rewound
<1> DEFINE Starts ==
             /\ ChainType' /\ ForkType' /\ StoreChain' /\ (StoreExact => StoreExact')
             /\ trxs' = ChainTxs(head') /\ Disjoint(head') /\ Sound(head')
             /\ head' = Root => index' \subseteq {Root} /\ Len(fhead') <= 1
             /\ \A k \in 1 .. Len(libs') : libs'[k] + deltas' <= Len(head') + 1
<1>1. Starts
  <2>1. CASE Replayed
    BY <2>1, ReplayedShape
  <2>2. ASSUME phase = "idle", NEW read \in SUBSET index, Reopened(read)
        PROVE  Starts
    BY <2>2, ReopenedShape
  <2>3. CASE restart_rewound
    BY <2>3, RewoundShape
  <2>4. \/ Replayed \/ restart_rewound
        \/ phase = "idle" /\ \E read \in SUBSET index : Reopened(read)
    BY DEF crash, restart, OnePerParent
  <2> HIDE DEF Starts
  <2> QED BY <2>1, <2>2, <2>3, <2>4
<1>2. RestartInv'
  BY <1>0, <1>1, FreshInv
<1>3. phase' = "idle"
  BY <1>0 DEF FreshProcess
<1> QED BY <1>1, <1>2, <1>3

-----------------------------------------------------------------------------
(* What holds across restarts.                                              *)

LEMMA RestartInvInit == Init => RestartInv /\ StoreExact /\ Outcome
<1> SUFFICES ASSUME Init PROVE RestartInv /\ StoreExact /\ Outcome
  OBVIOUS
<1>1. head \in Blocks
  BY PreviousShape DEF Init
<1>2. StoreExact /\ StoreChain
  BY <1>1, StoreExactInit, StoreExactChain
<1> QED BY <1>2, PoolInvInit, OrderInvInit, SwitchInvInit, RootInvInit, LibInvInit
        DEF RestartInv, SwitchInv

LEMMA RestartInvStill ==
  /\ RestartInv /\ [Next]_vars => RestartInv'
  /\ RestartInv /\ StoreExact /\ DeltaLeft /\ [Next]_vars => StoreExact'
  /\ RestartInv /\ Outcome /\ PopsBack /\ [Next]_vars => Outcome'
<1>1. ASSUME RestartInv, [Next]_vars PROVE RestartInv'
  <2>0. /\ PoolInv /\ OrderInv /\ BranchInv /\ RootInv /\ LibInv /\ StoreChain
        /\ TypeInv /\ SizeInv
    BY <1>1 DEF RestartInv, PoolInv, TypeInv
  <2>1. AppliedOnce' /\ PendingInv' /\ KeptInv'
    BY <1>1, <2>0, PoolInvNext
  <2>2. OrderInv' /\ BranchInv' /\ RootInv' /\ LibInv'
    BY <1>1, <2>0, OrderInvNext, BranchInvNext, RootInvNext, LibInvNext
  <2>3. SizeInv'
    BY <1>1, <2>0, SizeInvNext
  <2>4. TypeInv'
    BY <2>2, <2>3, RootInvType
  <2>5. Undoing => head # Root
    BY <2>0, RootHeld
  <2>6. StoreChain'
    BY <1>1, <2>0, <2>5, StoreChainNext
  <2> QED BY <2>1, <2>2, <2>4, <2>6 DEF RestartInv, PoolInv
<1>2. RestartInv => TypeInv /\ PoolInv /\ OrderInv /\ BranchInv
  BY DEF RestartInv, PoolInv
<1> QED BY <1>1, <1>2, StoreExactNext, OutcomeNext DEF SwitchInv

LEMMA RestartInvNext ==
  /\ RestartInv /\ [RestartNext]_restartvars => RestartInv'
  /\ RestartInv /\ StoreExact /\ DeltaLeft /\ [RestartNext]_restartvars => StoreExact'
  /\ RestartInv /\ Outcome /\ PopsBack /\ [RestartNext]_restartvars => Outcome'
<1>1. [RestartNext]_restartvars => [Next]_vars \/ crash \/ restart \/ restart_rewound
  BY DEF RestartNext, restartvars
<1>2. ASSUME RestartInv, crash \/ restart \/ restart_rewound
      PROVE  RestartInv' /\ (StoreExact => StoreExact') /\ Outcome'
  BY <1>2, Restarts DEF Outcome
<1> QED BY <1>1, <1>2, RestartInvStill

\* Every variable keeps its type, whatever is stopped and started.
THEOREM RestartTypeCorrect == RestartSpec => []TypeOK
<1>1. RestartInv => TypeOK
  BY DEF RestartInv, PoolInv, TypeInv, SizeInv
<1> QED BY <1>1, RestartInvInit, RestartInvNext, PTL DEF RestartSpec

\* A node that is killed at any step, in the middle of a fork switch too, or stopped
\* and started in any way, never has a transaction on its chain twice, and the
\* index the duplicate check reads agrees with the chain again.
THEOREM RestartAppliedOnce == RestartSpec => []AppliedOnce
<1>1. RestartInv => AppliedOnce
  BY DEF RestartInv, PoolInv
<1> QED BY <1>1, RestartInvInit, RestartInvNext, PTL DEF RestartSpec

\* What push_block promises about transactions and the irreversible block holds
\* for a node with restarts as well: a restart leaves no state from which a later
\* call breaks it.
THEOREM RestartKeepsPromises ==
  RestartSpec => [](/\ PendingFresh /\ IrreversibleKept
                    /\ Unwound => NoTxLost /\ ChainOrderKept /\ IrreversibleStays)
<1>1. ASSUME RestartInv
      PROVE  /\ PendingFresh /\ IrreversibleKept
             /\ Unwound => NoTxLost /\ ChainOrderKept /\ IrreversibleStays
  <2>1. PoolInv /\ OrderInv /\ LibInv /\ TypeInv /\ PendingInv
    BY <1>1 DEF RestartInv, PoolInv
  <2>2. PendingFresh /\ IrreversibleKept
    BY <2>1 DEF PendingInv, PendingFresh, LibInv, IrreversibleKept
  <2> QED BY <2>1, <2>2, NoneLost, OrderStays, NumberStays
<1>2. RestartInv => /\ PendingFresh /\ IrreversibleKept
                    /\ Unwound => NoTxLost /\ ChainOrderKept /\ IrreversibleStays
  BY <1>1
<1> QED BY <1>2, RestartInvInit, RestartInvNext, PTL DEF RestartSpec

\* Nor one from which a failed switch is not unwound, unless a pop_block throws in
\* the middle of it.
THEOREM RestartUnwound == RestartSpec /\ []PopsBack => []Unwound
<1>1. Outcome => Unwound
  BY DEF Outcome, Unwound, Done, Height
<1> QED BY <1>1, RestartInvInit, RestartInvNext, PTL DEF RestartSpec

-----------------------------------------------------------------------------
(* What a replay finds.                                                     *)

\* The stored blocks below the first gap are one chain, all of whose blocks apply.
OneChainStored ==
  LET b == store[Contiguous]
  IN  (\A n \in 0 .. Contiguous : store[n] = Upto(b, n)) /\ Valid(b)

LEMMA ContiguousChain ==
  ASSUME RestartInv
  PROVE  OneChainStored
<1> DEFINE c == Contiguous
           b == store[c]
<1>1. head \in Blocks /\ Sound(head) /\ Disjoint(head) /\ StoreChain
  BY DEF RestartInv, PoolInv, TypeInv, SizeInv, TypeOK, BranchInv, AppliedOnce, Disjoint
<1>2. c \in 0 .. Len(head) /\ c \in 0 .. c /\ \A k \in 0 .. c : store[k] = Upto(head, k)
  <2>1. c \in 0 .. Len(head) /\ \A k \in 0 .. c : store[k] = Upto(head, k)
    BY <1>1, ContiguousShape
  <2>2. Len(head) \in Nat
    BY <1>1, BlockSeq
  <2> HIDE DEF c
  <2> QED BY <2>1, <2>2
<1> HIDE DEF c
<1>3. b = Upto(head, c)
  BY <1>2
<1> HIDE DEF b
<1>4. \A n \in 0 .. c : store[n] = Upto(b, n)
  BY <1>1, <1>2, <1>3, UptoUpto
<1>5. Sound(b) /\ Disjoint(b)
  BY <1>1, <1>2, <1>3, SoundPrefix
<1>6. Valid(b)
  BY <1>5 DEF Valid, Sound, Disjoint
<1> QED BY <1>4, <1>6 DEF OneChainStored, b, c

\* Whenever the process is killed, what it has stored is one valid chain up to the
\* first gap, so that a replay never fails and never mixes two branches, even
\* after a pop_block that ran out of deltas.
THEOREM StoredIsOneChain == RestartSpec => []OneChainStored
<1>1. RestartInv => OneChainStored
  BY ContiguousChain
<1> QED BY <1>1, RestartInvInit, RestartInvNext, PTL DEF RestartSpec

LEMMA ExactContiguous ==
  ASSUME StoreExact, head \in Blocks
  PROVE  Contiguous = Len(head) /\ store[Contiguous] = head
<1>1. Len(head) \in Nat /\ Len(head) \in 0 .. MaxHeight /\ MaxHeight \in Nat
  BY BlockSeq, ChainAssumption
<1> DEFINE S == {n \in 0 .. MaxHeight : 0 .. n \subseteq StoredHeights}
<1>2. \A n \in 0 .. Len(head) : n \in StoredHeights
  <2> SUFFICES ASSUME NEW n \in 0 .. Len(head) PROVE n \in 0 .. MaxHeight /\ store[n] # None
    BY DEF StoredHeights
  <2>1. n \in 0 .. MaxHeight /\ n <= Len(head)
    BY <1>1
  <2>2. store[n] = Upto(head, n) /\ Upto(head, n) \in Blocks
    BY <2>1, UptoShape DEF StoreExact
  <2> QED BY <2>1, <2>2, NoneAssumption
<1>3. Len(head) \in S
  BY <1>1, <1>2
<1>4. \A n \in S : n <= Len(head)
  <2> SUFFICES ASSUME NEW n \in S PROVE n <= Len(head)
    OBVIOUS
  <2>1. n \in 0 .. n /\ n \in 0 .. MaxHeight
    BY <1>1
  <2>2. store[n] # None
    BY <2>1 DEF StoredHeights
  <2> QED BY <2>1, <2>2 DEF StoreExact
<1>5. Largest(S) \in S /\ \A m \in S : Largest(S) >= m
  <2>1. S \subseteq Nat /\ \A m \in S : m <= MaxHeight
    BY <1>1
  <2> HIDE DEF S
  <2> QED BY <2>1, <1>1, <1>3, LargestOf
<1>6. Contiguous = Len(head)
  <2>1. Contiguous = Largest(S)
    BY DEF Contiguous
  <2>2. S \subseteq Nat
    BY <1>1
  <2> HIDE DEF S
  <2>3. Largest(S) <= Len(head) /\ Largest(S) >= Len(head) /\ Largest(S) \in Nat
    BY <1>3, <1>4, <1>5, <2>2
  <2> QED BY <2>1, <2>3, <1>1
<1>7. store[Len(head)] = head
  <2>1. store[Len(head)] = Upto(head, Len(head)) /\ Len(head) \in 0 .. Len(head)
    BY <1>1 DEF StoreExact
  <2> QED BY <2>1, UptoUpto
<1> QED BY <1>6, <1>7

\* As long as no pop_block of a fork switch runs out of deltas, a node killed at any
\* step rebuilds, from the stored blocks alone, a chain that has every block which
\* was irreversible when the last push began.
THEOREM ReplayKeepsIrreversible == RestartSpec /\ []DeltaLeft => []Replayable
<1>1. ASSUME RestartInv, StoreExact PROVE Replayable
  <2>1. head \in Blocks /\ Len(head) \in Nat /\ TypeInv /\ LibInv
    BY <1>1, Basics DEF RestartInv, PoolInv, TypeInv, SizeInv, TypeOK
  <2>2. Contiguous = Len(head) /\ store[Contiguous] = head
    BY <1>1, <2>1, ExactContiguous
  <2>3. (\A n \in 0 .. Contiguous : store[n] = Upto(head, n)) /\ Valid(head)
    BY <1>1, <2>2, ContiguousChain DEF OneChainStored
  <2>4. /\ Lib \in Nat /\ Lib + deltas <= Len(head) + 1 /\ deltas \in Nat
        /\ old.lib \in Nat /\ old.lib + deltas <= Len(head) + 1
    <3>1. Len(libs) \in 1 .. Len(libs) /\ Lib \in Nat /\ deltas \in Nat
      BY <2>1, Basics
    <3> QED BY <3>1, <2>1 DEF LibInv, Lib, TypeInv, SizeInv, TypeOK
  <2>5. Len(head) >= Minus(Lib, 1) /\ Len(head) >= Minus(old.lib, 1)
    BY <2>1, <2>4 DEF Minus
  <2>6. Upto(head, Minus(old.lib, 1)) = Upto(old.head, Minus(old.lib, 1))
    BY <2>1 DEF LibInv
  <2> DEFINE was == IF phase = "idle" THEN [head |-> head, lib |-> Lib] ELSE old
  <2>7. /\ Len(head) >= Minus(was.lib, 1)
        /\ Upto(head, Minus(was.lib, 1)) = Upto(was.head, Minus(was.lib, 1))
    BY <2>5, <2>6
  <2> HIDE DEF was
  <2> QED BY <2>2, <2>3, <2>7 DEF Replayable, was
<1>2. RestartInv /\ StoreExact => Replayable
  BY <1>1
<1> QED BY <1>2, RestartInvInit, RestartInvNext, PTL DEF RestartSpec

\* A step leaves every irreversible block on the chain.
KeepsIrreversible ==
  /\ Minus(Lib, 1) <= Len(head')
  /\ Upto(head', Minus(Lib, 1)) = Upto(head, Minus(Lib, 1))

LEMMA KeepsPrefix ==
  ASSUME NEW h \in Blocks, NEW n \in 0 .. Len(h), NEW k \in 0 .. n
  PROVE  k <= Len(Upto(h, n)) /\ Upto(Upto(h, n), k) = Upto(h, k)
<1>1. Len(Upto(h, n)) = n
  BY UptoShape
<1>2. k <= n
  OBVIOUS
<1> QED BY <1>1, <1>2, UptoUpto

LEMMA IrreversibleStep ==
  ASSUME RestartInv, StoreExact, [RestartNext]_restartvars
  PROVE  KeepsIrreversible
<1> DEFINE k == Minus(Lib, 1)
<1>i. TypeInv /\ LibInv /\ StoreChain
  BY DEF RestartInv, PoolInv
<1>t. head \in Blocks /\ Len(head) \in Nat /\ deltas \in Nat /\ Lib \in Nat
  BY <1>i, Basics DEF TypeInv, SizeInv, TypeOK
<1>l. Lib + deltas <= Len(head) + 1
  <2>1. Len(libs) \in 1 .. Len(libs)
    BY <1>i, Basics
  <2> QED BY <2>1, <1>i DEF LibInv, Lib
<1>k. k \in Nat /\ k \in 0 .. Len(head) /\ k <= Len(head)
      /\ \A n \in 0 .. Len(head) : (n + deltas >= Len(head) \/ n = Len(head)) => k \in 0 .. n
  BY <1>t, <1>l DEF Minus
<1> HIDE DEF k
<1>0. ASSUME head' = head PROVE k <= Len(head') /\ Upto(head', k) = Upto(head, k)
  BY <1>0, <1>k
<1>1. ASSUME NEW n \in 0 .. Len(head), n + deltas >= Len(head), head' = Upto(head, n)
      PROVE  k <= Len(head') /\ Upto(head', k) = Upto(head, k)
  BY <1>1, <1>k, <1>t, KeepsPrefix
<1>2. ASSUME NEW b \in Blocks, Previous(b) = head, head' = b
      PROVE  k <= Len(head') /\ Upto(head', k) = Upto(head, k)
  <2>1. Len(b) = Len(head) + 1
    BY <1>2, <1>t, ChildShape
  <2>2. Upto(b, k) = Upto(head, k)
    BY <1>2, <1>k, <1>t, SameAncestors
  <2> QED BY <2>1, <2>2, <1>2, <1>k, <1>t
<1>3. \/ head' = head
      \/ \E n \in 0 .. Len(head) : n + deltas >= Len(head) /\ head' = Upto(head, n)
      \/ \E b \in Blocks : Previous(b) = head /\ head' = b
  <2>1. CASE Next
    <3>1. CASE Undoing /\ PopUndone /\ CanPop
      <4>1. head' = Upto(head, Len(head) - 1) /\ Len(head) - 1 \in Nat
        BY <3>1, <1>i, PopShape
      <4>2. Len(head) - 1 \in 0 .. Len(head) /\ (Len(head) - 1) + deltas >= Len(head)
        BY <3>1, <4>1, <1>t DEF CanPop
      <4> QED BY <4>1, <4>2
    <3>2. ASSUME NEW b \in Blocks, NEW m \in UndoSizes, Applies(b), Apply(b, m)
          PROVE  Previous(b) = head /\ head' = b
      BY <3>2 DEF Applies, Apply
    <3> QED BY <2>1, <3>1, <3>2, <1>i, ChainStep
  <2>2. CASE UNCHANGED restartvars
    BY <2>2 DEF restartvars, vars, chainvars
  <2>3. CASE Replayed
    <3>1. head' = store[Contiguous]
      BY <2>3 DEF Replayed
    <3> QED BY <3>1, <1>t, ExactContiguous
  <2>4. ASSUME NEW read, Reopened(read) PROVE head' = head
    BY <2>4 DEF Reopened
  <2>5. CASE restart_rewound
    BY <2>5, RewoundShape
  <2> QED BY <2>1, <2>2, <2>3, <2>4, <2>5 DEF RestartNext, crash, restart
<1>4. k <= Len(head') /\ Upto(head', k) = Upto(head, k)
  BY <1>0, <1>1, <1>2, <1>3
<1> QED BY <1>4 DEF KeepsIrreversible, k

\* No step of a node, neither a pop of a fork switch nor a crash, a restart or the
\* rewinding of close, takes an irreversible block off the chain.  (The number
\* itself may go back: a replay may keep more deltas than there were.)
THEOREM IrreversibleNeverLeft ==
  RestartSpec /\ []DeltaLeft => [][KeepsIrreversible]_restartvars
<1>1. RestartInv /\ StoreExact /\ [RestartNext]_restartvars => [KeepsIrreversible]_restartvars
  BY IrreversibleStep
<1> QED BY <1>1, RestartInvInit, RestartInvNext, PTL DEF RestartSpec
=============================================================================
