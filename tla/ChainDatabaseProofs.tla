------------------------- MODULE ChainDatabaseProofs -------------------------
(***************************************************************************)
(* Proofs about ChainDatabase: what holds of push_block for any number of  *)
(* blocks, transactions and forks.  The theorems on its promises (nothing  *)
(* lost, order kept, irreversible blocks kept, a failed switch unwound,    *)
(* the store exact) state the condition their argument needs.              *)
(***************************************************************************)
EXTENDS ChainDatabase, SequenceTheorems, FiniteSetTheorems, NaturalsInduction, TLAPS

\* A non-empty set of naturals has a smallest member.
LEMMA SmallestOf ==
  ASSUME NEW B, B \subseteq Nat, B # {}
  PROVE  \E n \in B : \A m \in B : n <= m
<1>1. PICK n \in B : \A m \in B : ~ (<<m, n>> \in OpToRel(<, Nat))
  BY NatLessThanWellFounded, WFMin
<1>2. \A m \in B : ~ (m < n)
  BY <1>1 DEF OpToRel
<1> QED BY <1>2

-----------------------------------------------------------------------------
(* Blocks.                                                                  *)

\* A block is a sequence of at most MaxHeight bodies.
LEMMA BlockSeq ==
  \A b : b \in Blocks <=> b \in Seq(Bodies) /\ Len(b) \in 0 .. MaxHeight
<1>0. MaxHeight \in Nat
  BY ChainAssumption
<1>1. ASSUME NEW b \in Blocks PROVE b \in Seq(Bodies) /\ Len(b) \in 0 .. MaxHeight
  <2>1. PICK n \in 0 .. MaxHeight : b \in [1 .. n -> Bodies]
    BY DEF Blocks
  <2>2. n \in Nat
    BY <1>0
  <2>3. b \in Seq(Bodies)
    BY <2>1, <2>2, SeqDef
  <2>4. Len(b) \in Nat /\ 1 .. Len(b) = 1 .. n
    BY <2>1, <2>3, LenProperties
  <2>5. Len(b) = n
    BY <2>2, <2>4
  <2> QED BY <2>3, <2>5
<1>2. ASSUME NEW b \in Seq(Bodies), Len(b) \in 0 .. MaxHeight PROVE b \in Blocks
  <2>1. b \in [1 .. Len(b) -> Bodies]
    BY LenProperties
  <2> QED BY <2>1, <1>2 DEF Blocks
<1> QED BY <1>1, <1>2

\* The ancestors of a block.
LEMMA UptoShape ==
  ASSUME NEW b \in Blocks, NEW n \in 0 .. Len(b)
  PROVE  /\ Upto(b, n) \in Blocks /\ Len(Upto(b, n)) = n
         /\ \A i \in 1 .. n : Upto(b, n)[i] = b[i]
<1>1. b \in Seq(Bodies) /\ Len(b) \in 0 .. MaxHeight /\ MaxHeight \in Nat
  BY BlockSeq, ChainAssumption
<1>2. \A i \in 1 .. n : b[i] \in Bodies
  BY <1>1, ElementOfSeq
<1>3. /\ SubSeq(b, 1, n) \in Seq(Bodies)
      /\ Len(SubSeq(b, 1, n)) = IF 1 <= n THEN n - 1 + 1 ELSE 0
      /\ \A i \in 1 .. n - 1 + 1 : SubSeq(b, 1, n)[i] = b[1 + i - 1]
  <2>1. 1 \in Int /\ n \in Int
    BY <1>1
  <2> QED BY <2>1, <1>2, SubSeqProperties
<1>4. Len(SubSeq(b, 1, n)) = n /\ n \in 0 .. MaxHeight
  BY <1>1, <1>3
<1>5. \A i \in 1 .. n : i \in 1 .. n - 1 + 1 /\ 1 + i - 1 = i
  BY <1>1
<1>6. \A i \in 1 .. n : SubSeq(b, 1, n)[i] = b[i]
  BY <1>3, <1>5
<1> QED BY <1>3, <1>4, <1>6, BlockSeq DEF Upto

\* Blocks are equal when their bodies are.
LEMMA BlockEqual ==
  ASSUME NEW a \in Blocks, NEW b \in Blocks, Len(a) = Len(b),
         \A i \in 1 .. Len(a) : a[i] = b[i]
  PROVE  a = b
BY BlockSeq, SeqEqual

\* An ancestor of an ancestor, and a block as its own.
LEMMA UptoUpto ==
  ASSUME NEW b \in Blocks, NEW n \in 0 .. Len(b), NEW k \in 0 .. n
  PROVE  Upto(Upto(b, n), k) = Upto(b, k) /\ Upto(b, Len(b)) = b
<1>1. Len(b) \in Nat
  BY BlockSeq, ChainAssumption
<1>2. k \in 0 .. Len(b) /\ Len(b) \in 0 .. Len(b) /\ n \in Nat
  BY <1>1
<1>3. /\ Upto(b, n) \in Blocks /\ Len(Upto(b, n)) = n
      /\ \A i \in 1 .. n : Upto(b, n)[i] = b[i]
  BY UptoShape
<1>4. /\ Upto(b, k) \in Blocks /\ Len(Upto(b, k)) = k
      /\ \A i \in 1 .. k : Upto(b, k)[i] = b[i]
  BY <1>2, UptoShape
<1>5. /\ Upto(b, Len(b)) \in Blocks /\ Len(Upto(b, Len(b))) = Len(b)
      /\ \A i \in 1 .. Len(b) : Upto(b, Len(b))[i] = b[i]
  BY <1>2, UptoShape
<1> DEFINE a == Upto(b, n)
<1>6. /\ Upto(a, k) \in Blocks /\ Len(Upto(a, k)) = k
      /\ \A i \in 1 .. k : Upto(a, k)[i] = a[i]
  <2> HIDE DEF a
  <2>1. a \in Blocks /\ k \in 0 .. Len(a)
    BY <1>3 DEF a
  <2> QED BY <2>1, UptoShape
<1>7. \A i \in 1 .. k : i \in 1 .. n
  BY <1>2
<1>8. Upto(a, k) = Upto(b, k)
  BY <1>3, <1>4, <1>6, <1>7, BlockEqual
<1> QED BY <1>5, <1>8, BlockEqual

\* The root, and the parent of any other block.
LEMMA PreviousShape ==
  /\ Root \in Blocks /\ Len(Root) = 0 /\ Previous(Root) = None
  /\ \A b \in Blocks : Len(b) = 0 => b = Root
  /\ \A b \in Blocks : b # Root =>
       /\ Len(b) \in Nat \ {0} /\ Previous(b) = Upto(b, Len(b) - 1)
       /\ Previous(b) \in Blocks /\ Len(Previous(b)) = Len(b) - 1
<1>1. Root \in Blocks /\ Len(Root) = 0
  <2>1. Root \in Seq(Bodies) /\ Len(Root) = 0
    BY EmptySeq DEF Root
  <2>2. 0 \in 0 .. MaxHeight
    BY ChainAssumption
  <2> QED BY <2>1, <2>2, BlockSeq
<1>2. ASSUME NEW b \in Blocks, b # Root
      PROVE  /\ Len(b) \in Nat \ {0} /\ Previous(b) = Upto(b, Len(b) - 1)
             /\ Previous(b) \in Blocks /\ Len(Previous(b)) = Len(b) - 1
  <2>1. Len(b) \in Nat \ {0}
    BY <1>2, BlockSeq, EmptySeq DEF Root
  <2>2. Len(b) - 1 \in 0 .. Len(b)
    BY <2>1
  <2> QED BY <1>2, <2>1, <2>2, UptoShape DEF Previous
<1>3. \A b \in Blocks : Len(b) = 0 => b = Root
  BY <1>2
<1> QED BY <1>1, <1>2, <1>3 DEF Previous

\* A block whose parent is h.
LEMMA ChildShape ==
  ASSUME NEW h \in Blocks, NEW b \in Blocks, Previous(b) = h
  PROVE  /\ b # Root /\ Len(h) \in Nat /\ Len(b) = Len(h) + 1 /\ h = Upto(b, Len(h))
         /\ \A i \in 1 .. Len(h) : b[i] = h[i]
         /\ Len(b) \in 1 .. Len(b)
<1>1. b # Root
  BY PreviousShape, NoneAssumption
<1>2. Len(b) \in Nat \ {0} /\ h = Upto(b, Len(b) - 1) /\ Len(h) = Len(b) - 1
  BY <1>1, PreviousShape
<1>3. Len(h) \in Nat /\ Len(b) = Len(h) + 1 /\ Len(h) \in 0 .. Len(b)
  BY <1>2
<1>4. h = Upto(b, Len(h))
  BY <1>2
<1>5. \A i \in 1 .. Len(h) : b[i] = h[i]
  BY <1>3, <1>4, UptoShape
<1> QED BY <1>1, <1>2, <1>3, <1>4, <1>5

\* The transactions of a block.
LEMMA TxsType ==
  ASSUME NEW b \in Blocks
  PROVE  /\ TxsOf(b) \in Seq(Txs) /\ Elements(TxsOf(b)) \subseteq Txs
         /\ b # Root => TxsOf(b) = b[Len(b)].txs /\ Body(b) \in Bodies
<1>1. CASE b = Root
  BY <1>1, EmptySeq DEF TxsOf, Elements
<1>2. CASE b # Root
  <2>1. b \in Seq(Bodies) /\ Len(b) \in 1 .. Len(b)
    BY <1>2, BlockSeq, PreviousShape
  <2>2. Body(b) \in Bodies
    BY <2>1, ElementOfSeq DEF Body
  <2>3. TxsOf(b) = Body(b).txs /\ TxsOf(b) \in Seq(Txs)
    BY <2>2, <1>2, ChainAssumption DEF TxsOf
  <2>4. Elements(TxsOf(b)) \subseteq Txs
    BY <2>3, ElementOfSeq, LenProperties DEF Elements
  <2> QED BY <1>2, <2>2, <2>3, <2>4 DEF Body
<1> QED BY <1>1, <1>2

\* The length of what two blocks have in common.
LEMMA ForkHeightType ==
  ASSUME NEW a \in Blocks, NEW c \in Blocks
  PROVE  ForkHeight(a, c) \in 0 .. Len(a) /\ ForkHeight(a, c) \in 0 .. Len(c)
<1> DEFINE k == Smaller(Len(a), Len(c))
           S == {n \in 1 .. k : Upto(a, n) = Upto(c, n)}
<1>1. Len(a) \in Nat /\ Len(c) \in Nat
  BY BlockSeq, ChainAssumption
<1>2. k \in Nat /\ k <= Len(a) /\ k <= Len(c)
  BY <1>1 DEF Smaller
<1> HIDE DEF k
<1>3. IsFiniteSet(1 .. k)
  BY <1>2, FS_Interval
<1>4. IsFiniteSet(S)
  BY <1>3, FS_Subset
<1>5. Cardinality(S) \in Nat
  BY <1>4, FS_CardinalityType
<1>6. ForkHeight(a, c) = Smaller(k, Cardinality(S) + 1)
  BY DEF ForkHeight, Common, k
<1> HIDE DEF S
<1>7. ForkHeight(a, c) \in Nat /\ ForkHeight(a, c) <= k
  BY <1>2, <1>5, <1>6 DEF Smaller
<1> QED BY <1>1, <1>2, <1>7

\* A branch, newest block first.
LEMMA BranchShape ==
  ASSUME NEW a \in Blocks, NEW n \in 0 .. Len(a)
  PROVE  /\ Branch(a, n) \in Seq(Blocks) /\ Len(Branch(a, n)) = Len(a) - n + 1
         /\ Len(a) - n + 1 \in Nat \ {0} /\ Branch(a, n) # << >>
         /\ \A i \in 1 .. Len(a) - n + 1 : Branch(a, n)[i] = Upto(a, Len(a) - i + 1)
<1> DEFINE k == Len(a) - n + 1
<1>1. Len(a) \in Nat /\ n \in Nat /\ k \in Nat \ {0}
  BY BlockSeq, ChainAssumption
<1>2. \A i \in 1 .. k : Len(a) - i + 1 \in 0 .. Len(a)
  BY <1>1
<1>3. \A i \in 1 .. k : Upto(a, Len(a) - i + 1) \in Blocks
  BY <1>2, UptoShape
<1>4. Branch(a, n) = [i \in 1 .. k |-> Upto(a, Len(a) - i + 1)]
  BY DEF Branch
<1> HIDE DEF k
<1>5. Branch(a, n) \in [1 .. k -> Blocks]
  BY <1>3, <1>4
<1>6. Branch(a, n) \in Seq(Blocks)
  BY <1>1, <1>5, SeqDef
<1>7. Len(Branch(a, n)) \in Nat /\ 1 .. Len(Branch(a, n)) = 1 .. k
  BY <1>5, <1>6, LenProperties
<1>8. Len(Branch(a, n)) = k
  BY <1>1, <1>7
<1>9. Branch(a, n) # << >>
  BY <1>1, <1>8, EmptySeq
<1> QED BY <1>1, <1>4, <1>6, <1>8, <1>9 DEF k

\* It begins with the block itself.
LEMMA BranchTop ==
  ASSUME NEW a \in Blocks, NEW n \in 0 .. Len(a)
  PROVE  Branch(a, n)[1] = a
<1>1. Len(a) \in Nat /\ n \in Nat
  BY BlockSeq, ChainAssumption
<1>2. 1 \in 1 .. Len(a) - n + 1 /\ Len(a) - 1 + 1 = Len(a)
  BY <1>1
<1>3. Branch(a, n)[1] = Upto(a, Len(a) - 1 + 1)
  BY <1>2 DEF Branch
<1>4. 0 \in 0 .. n
  BY <1>1
<1> QED BY <1>2, <1>3, <1>4, UptoUpto

-----------------------------------------------------------------------------
(* Type correctness.                                                        *)

\* A fork switch is about to pop a block.
Undoing == phase \in {"popping", "unwinding"} /\ ~AtFork

\* The types, with the facts they rest on: there is a delta for each block at
\* most, Root included, and a fork switch has the branch it leaves.
SizeInv ==
  /\ TypeOK
  /\ deltas <= Len(head) + 1
  /\ phase \in {"popping", "pushing", "unwinding"} => second # << >>

\* And no fork switch pops Root.  Without restarts the reason is that Root has no
\* delta (DeltaInv); with them it is in ChainRestartProofs.
TypeInv == SizeInv /\ (Undoing /\ CanPop => head # Root)
DeltaInv == deltas <= Len(head)

\* What is known of the sizes and of the head in every state.
LEMMA Basics ==
  ASSUME TypeInv
  PROVE  /\ Len(head) \in Nat /\ Len(head) \in 0 .. MaxHeight /\ deltas \in Nat
         /\ MaxHeight \in Nat /\ max_size \in Nat /\ max_size >= 2
         /\ Len(libs) \in Nat /\ Len(libs) = Len(head) + 1
         /\ libs \in Seq(Nat) /\ Lib \in Nat
         /\ \A m \in UndoSizes : m \in Nat /\ m >= 2
         /\ head \in Seq(Bodies)
<1>1. /\ Len(head) \in 0 .. MaxHeight /\ MaxHeight \in Nat /\ libs \in Seq(Nat)
      /\ Len(libs) = Len(head) + 1 /\ max_size \in UndoSizes /\ deltas \in 0 .. max_size
      /\ \A m \in UndoSizes : m \in Nat /\ m >= 2
      /\ head \in Seq(Bodies)
  BY BlockSeq, ChainAssumption DEF TypeInv, SizeInv, TypeOK
<1>2. Len(libs) \in 1 .. Len(libs) /\ Len(head) \in Nat
  BY <1>1
<1>3. Lib \in Nat
  BY <1>1, <1>2, ElementOfSeq DEF Lib
<1> QED BY <1>1, <1>2, <1>3

\* A change of one place of the store keeps its type.
LEMMA StoreType ==
  ASSUME TypeInv, NEW x, NEW v \in Blocks \cup {None}
  PROVE  [store EXCEPT ![x] = v] \in [0 .. MaxHeight -> Blocks \cup {None}]
<1>1. store \in [0 .. MaxHeight -> Blocks \cup {None}]
  BY DEF TypeInv, SizeInv, TypeOK
<1> QED BY <1>1

\* Applying a block.
LEMMA ApplyShape ==
  ASSUME TypeInv, NEW b \in Blocks, NEW m \in UndoSizes, Applies(b), Apply(b, m)
  PROVE  /\ b # Root /\ Len(b) = Len(head) + 1 /\ head = Upto(b, Len(head))
         /\ head' \in Blocks /\ libs' \in Seq(Nat) /\ Len(libs') = Len(head') + 1
         /\ max_size' \in UndoSizes /\ deltas' \in 0 .. max_size' /\ deltas' <= Len(head') + 1
         /\ store' \in [0 .. MaxHeight -> Blocks \cup {None}]
         /\ trxs' \subseteq Txs /\ ids' \subseteq Txs
<1>1. Previous(b) = head /\ head \in Blocks
  BY DEF Applies, TypeInv, SizeInv, TypeOK
<1>2. b # Root /\ Len(b) = Len(head) + 1 /\ head = Upto(b, Len(head))
  BY <1>1, ChildShape
<1>3. m \in Nat /\ m >= 2 /\ deltas \in Nat /\ Len(head) \in Nat /\ deltas <= Len(head) + 1
      /\ Lib \in Nat
  BY Basics DEF TypeInv, SizeInv
<1>4. head' = b /\ max_size' = m /\ deltas' = Smaller(deltas + 1, m)
  BY DEF Apply
<1>5. deltas' \in 0 .. m /\ deltas' <= Len(b) + 1 /\ deltas' \in Nat
  BY <1>2, <1>3, <1>4 DEF Smaller
<1>6. NewLib(b, deltas') \in Nat
  <2>1. Num(b) - deltas' \in Nat
    BY <1>2, <1>3, <1>5 DEF Num
  <2> QED BY <2>1, <1>3 DEF NewLib, Larger
<1>7. libs' = Append(libs, NewLib(b, deltas'))
  BY DEF Apply
<1>8. libs' \in Seq(Nat) /\ Len(libs') = Len(head') + 1
  <2>1. libs \in Seq(Nat) /\ Len(libs) = Len(head) + 1
    BY DEF TypeInv, SizeInv, TypeOK
  <2>2. libs' \in Seq(Nat) /\ Len(libs') = Len(libs) + 1
    BY <2>1, <1>6, <1>7, AppendProperties
  <2> QED BY <2>1, <2>2, <1>2, <1>4
<1>9. store' \in [0 .. MaxHeight -> Blocks \cup {None}]
  BY StoreType DEF Apply, Stored
<1>10. trxs' \subseteq Txs /\ ids' \subseteq Txs
  BY TxsType DEF Apply, TypeInv, SizeInv, TypeOK
<1> QED BY <1>2, <1>4, <1>5, <1>8, <1>9, <1>10

\* Failing to apply one.
LEMMA FailShape ==
  ASSUME TypeInv, NEW b \in Blocks, NEW m \in UndoSizes, FailToApply(b, m)
  PROVE  /\ UNCHANGED <<head, libs, store, trxs>>
         /\ max_size' \in UndoSizes /\ deltas' \in 0 .. max_size' /\ deltas' <= deltas
         /\ deltas' <= Len(head) + 1 /\ ids' \subseteq Txs
<1>1. m \in Nat /\ m >= 2 /\ deltas \in Nat /\ Len(head) \in Nat /\ deltas <= Len(head) + 1
  BY Basics DEF TypeInv, SizeInv
<1>2. max_size' = m /\ deltas' = Smaller(deltas, m - 1)
  BY DEF FailToApply
<1>3. deltas' \in 0 .. m /\ deltas' <= deltas /\ deltas' <= Len(head) + 1
  BY <1>1, <1>2 DEF Smaller
<1>4. ids' \subseteq Txs
  <2>1. PassedTxs(b) \subseteq Elements(TxsOf(b))
    BY DEF PassedTxs, Elements
  <2> QED BY <2>1, TxsType DEF FailToApply, TypeInv, SizeInv, TypeOK
<1> QED BY <1>2, <1>3, <1>4 DEF FailToApply

\* Popping one.
LEMMA PopShape ==
  ASSUME TypeInv, Undoing, PopUndone, CanPop
  PROVE  /\ head # Root /\ head' = Previous(head) /\ head' = Upto(head, Len(head) - 1)
         /\ head' \in Blocks /\ Len(head') = Len(head) - 1 /\ Len(head) - 1 \in Nat
         /\ libs' \in Seq(Nat) /\ Len(libs') = Len(head') + 1
         /\ \A i \in 1 .. Len(libs') : libs'[i] = libs[i]
         /\ deltas' = deltas - 1 /\ deltas' \in 0 .. max_size /\ deltas' <= Len(head') + 1
         /\ trxs' \subseteq Txs /\ popped' \in Seq(Txs)
<1>1. /\ deltas \in Nat /\ deltas > 0 /\ deltas <= Len(head) + 1 /\ Len(head) \in Nat
      /\ deltas <= max_size /\ max_size \in Nat
      /\ Len(libs) = Len(head) + 1 /\ libs \in Seq(Nat)
  BY Basics DEF TypeInv, SizeInv, TypeOK, CanPop
<1>2. head \in Blocks /\ head # Root
  BY PreviousShape DEF TypeInv, SizeInv, TypeOK
<1>3. /\ head' = Previous(head) /\ head' = Upto(head, Len(head) - 1)
      /\ head' \in Blocks /\ Len(head') = Len(head) - 1
  BY <1>2, PreviousShape DEF PopUndone
<1>4. deltas' = deltas - 1 /\ deltas' \in 0 .. max_size /\ deltas' <= Len(head') + 1
      /\ Len(head) - 1 \in Nat
  BY <1>1, <1>3 DEF PopUndone
<1>5. /\ libs' \in Seq(Nat) /\ Len(libs') = Len(head') + 1
      /\ \A i \in 1 .. Len(libs') : libs'[i] = libs[i]
  <2> DEFINE n == Len(libs) - 1
  <2>1. n \in Nat /\ n = Len(head') + 1 /\ 1 \in Int /\ n \in Int /\ 1 <= n
        /\ n - 1 + 1 = n
    BY <1>1, <1>3
  <2>2. \A i \in 1 .. n : libs[i] \in Nat
    BY <1>1, <2>1, ElementOfSeq
  <2>3. libs' = SubSeq(libs, 1, n)
    BY DEF PopUndone, Upto
  <2> HIDE DEF n
  <2>4. /\ SubSeq(libs, 1, n) \in Seq(Nat)
        /\ Len(SubSeq(libs, 1, n)) = IF 1 <= n THEN n - 1 + 1 ELSE 0
        /\ \A i \in 1 .. n - 1 + 1 : SubSeq(libs, 1, n)[i] = libs[1 + i - 1]
    BY <2>1, <2>2, SubSeqProperties
  <2>5. \A i \in 1 .. n : i \in 1 .. n - 1 + 1 /\ 1 + i - 1 = i
    BY <2>1
  <2> QED BY <2>1, <2>3, <2>4, <2>5
<1>6. trxs' \subseteq Txs /\ popped' \in Seq(Txs)
  <2>1. TxsOf(head) \in Seq(Txs)
    BY <1>2, TxsType
  <2> QED BY <2>1, ConcatProperties DEF PopUndone, TypeInv, SizeInv, TypeOK
<1> QED BY <1>2, <1>3, <1>4, <1>5, <1>6

\* Pushing a transaction.
LEMMA PushTxShape ==
  ASSUME TypeInv, NEW t \in Txs, PushTx(t)
  PROVE  /\ UNCHANGED <<head, libs, max_size, store, trxs>>
         /\ deltas' \in 0 .. max_size /\ deltas' <= deltas /\ deltas' <= Len(head) + 1
         /\ pending' \in Seq(Txs) /\ session' \subseteq Txs /\ open' \in BOOLEAN
<1>1. /\ deltas \in Nat /\ deltas <= Len(head) + 1 /\ Len(head) \in Nat
      /\ max_size \in Nat /\ max_size >= 2
  BY Basics DEF TypeInv, SizeInv
<1>2. deltas' \in 0 .. max_size /\ deltas' <= deltas /\ deltas' <= Len(head) + 1
  BY <1>1 DEF PushTx, Smaller
<1>3. pending' \in Seq(Txs) /\ session' \subseteq Txs
  <2>1. pending \in Seq(Txs) /\ session \subseteq Txs
    BY DEF TypeInv, SizeInv, TypeOK
  <2>2. Append(pending, t) \in Seq(Txs)
    BY <2>1, AppendProperties
  <2> QED BY <2>1, <2>2 DEF PushTx
<1> QED BY <1>2, <1>3 DEF PushTx

\* The fork database keeps its type.
LEMMA EraseType ==
  ASSUME TypeInv, NEW idx \in SUBSET Blocks, index \subseteq idx, NEW gone, Erase(idx, gone)
  PROVE  index' \subseteq Blocks /\ orphan' \subseteq index' /\ kept' = kept
BY DEF Erase, TypeInv, SizeInv, TypeOK

LEMMA InsertedType ==
  ASSUME TypeInv, NEW b \in Blocks, Inserted(b)
  PROVE  /\ index' \subseteq Blocks /\ orphan' \subseteq index' /\ kept' = kept
         /\ fhead' \in Blocks /\ loose' \in BOOLEAN
<1>1. index \cup {b} \in SUBSET Blocks
  BY DEF TypeInv, SizeInv, TypeOK
<1>2. CASE Num(b) > Num(fhead)
  BY <1>1, <1>2, EraseType DEF Inserted
<1>3. CASE ~(Num(b) > Num(fhead))
  BY <1>1, <1>3 DEF Inserted, TypeInv, SizeInv, TypeOK
<1> QED BY <1>2, <1>3

\* A pop_block, whether it throws or not.
LEMMA PopType ==
  ASSUME TypeInv, Undoing, pop_block
  PROVE  /\ head' \in Blocks /\ libs' \in Seq(Nat) /\ Len(libs') = Len(head') + 1
         /\ max_size' = max_size /\ deltas' \in 0 .. max_size /\ deltas' <= Len(head') + 1
         /\ fhead' \in Blocks /\ loose' = FALSE /\ UNCHANGED <<index, orphan, kept>>
         /\ store' \in [0 .. MaxHeight -> Blocks \cup {None}]
         /\ trxs' \subseteq Txs /\ popped' \in Seq(Txs)
         /\ UNCHANGED <<pending, open, session, ids, queue>>
<1>1. fhead' \in Blocks
  BY PreviousShape DEF pop_block, CanPopFork, TypeInv, SizeInv, TypeOK
<1>2. store' \in [0 .. MaxHeight -> Blocks \cup {None}]
  <2>1. store \in [0 .. MaxHeight -> Blocks \cup {None}]
    BY DEF TypeInv, SizeInv, TypeOK
  <2> QED BY <2>1, StoreType DEF pop_block
<1>3. CASE CanPop
  BY <1>1, <1>2, <1>3, PopShape DEF pop_block
<1>4. CASE ~CanPop
  BY <1>1, <1>2, <1>4 DEF pop_block, TypeInv, SizeInv, TypeOK
<1> QED BY <1>3, <1>4

\* The entry of push_block: what it sets aside, and what it decides.
LEMMA EnterShape ==
  ASSUME TypeInv, NEW b \in Blocks, Enter(b)
  PROVE  /\ new' = b /\ old'.head = head /\ old'.lib = Lib
         /\ old'.txs = ChainTxs(head) \cup Elements(pending)
         /\ queue' = pending /\ pending' = << >> /\ open' = FALSE /\ session' = {}
         /\ ids' = {} /\ left' = << >>
         /\ index' \subseteq Blocks /\ orphan' \subseteq index' /\ kept' = kept
         /\ fhead' \in Blocks /\ loose' \in BOOLEAN
         /\ phase' \in {"direct", "popping", "restoring"}
         /\ first' \in Seq(Blocks) /\ second' \in Seq(Blocks) /\ err' \in BOOLEAN
         /\ phase' = "direct" => ~err'
         /\ phase' = "popping" =>
              /\ ~err' /\ first' # << >> /\ Len(first'[1]) > Len(head)
              /\ \E n \in 0 .. Len(head) : second' = Branch(head, n)
<1>t. /\ head \in Blocks /\ fhead \in Blocks /\ index \subseteq Blocks /\ kept \subseteq Blocks
      /\ orphan \subseteq index /\ loose \in BOOLEAN /\ Len(head) \in Nat
  BY BlockSeq, SMTT(30) DEF TypeInv, SizeInv, TypeOK
<1>1. /\ new' = b /\ old'.head = head /\ old'.lib = Lib
      /\ old'.txs = ChainTxs(head) \cup Elements(pending)
      /\ queue' = pending /\ pending' = << >> /\ open' = FALSE /\ session' = {}
      /\ ids' = {} /\ left' = << >>
  BY DEF Enter
<1>2. CASE CannotLink(b)
  <2>1. /\ phase' = "restoring" /\ err' = TRUE /\ first' = << >> /\ second' = << >>
        /\ UNCHANGED <<index, orphan, fhead, loose, kept>>
    BY <1>2 DEF Enter, forkvars
  <2>2. << >> \in Seq(Blocks)
    BY EmptySeq
  <2> QED BY <1>1, <1>t, <2>1, <2>2
<1>3. CASE ~CannotLink(b)
  <2> DEFINE n == ForkHeight(fhead', head)
             switch == Previous(fhead') # head /\ Num(fhead') > Num(head)
             linked == Climbs(index', orphan', fhead', n) /\ Climbs(index', orphan', head, n)
  <2>1. /\ Inserted(b)
        /\ phase' = CASE Previous(fhead') = head -> "direct"
                      [] switch /\ linked -> "popping"
                      [] OTHER -> "restoring"
        /\ err' = (switch /\ ~linked)
        /\ first' = IF switch /\ linked THEN Branch(fhead', n) ELSE << >>
        /\ second' = IF switch /\ linked THEN Branch(head, n) ELSE << >>
    BY <1>3 DEF Enter
  <2>2. /\ index' \subseteq Blocks /\ orphan' \subseteq index' /\ kept' = kept
        /\ fhead' \in Blocks /\ loose' \in BOOLEAN
    BY <2>1, InsertedType
  <2>3. n \in 0 .. Len(fhead') /\ n \in 0 .. Len(head)
    BY <2>2, <1>t, ForkHeightType
  <2> HIDE DEF n
  <2>4. /\ Branch(fhead', n) \in Seq(Blocks) /\ Branch(head, n) \in Seq(Blocks)
        /\ << >> \in Seq(Blocks) /\ Branch(fhead', n) # << >>
    BY <2>2, <2>3, <1>t, BranchShape, EmptySeq
  <2>5. Branch(fhead', n)[1] = fhead'
    BY <2>2, <2>3, BranchTop
  <2>6. switch => Len(fhead') > Len(head)
    <3>1. Len(fhead') \in Nat
      BY <2>2, BlockSeq
    <3> QED BY <3>1, <1>t DEF Num
  <2> HIDE DEF linked, switch
  <2>7. phase' \in {"direct", "popping", "restoring"}
    BY <2>1
  <2>8. first' \in Seq(Blocks) /\ second' \in Seq(Blocks)
    BY <2>1, <2>4
  <2>9. phase' = "popping" => switch /\ linked
    BY <2>1
  <2>10. err' \in BOOLEAN /\ (phase' = "direct" => ~err')
    <3>1. Previous(fhead') = head => ~switch
      BY DEF switch
    <3>2. Previous(fhead') # head => phase' # "direct"
      BY <2>1
    <3> QED BY <3>1, <3>2, <2>1
  <2>11. phase' = "popping" =>
           /\ ~err' /\ first' # << >> /\ Len(first'[1]) > Len(head)
           /\ \E k \in 0 .. Len(head) : second' = Branch(head, k)
    BY <2>1, <2>3, <2>4, <2>5, <2>6, <2>9
  <2> QED BY <1>1, <2>2, <2>7, <2>8, <2>10, <2>11
<1> QED BY <1>2, <1>3

\* The elements of a sequence, and those left after its last or its first.
LEMMA DropLast ==
  ASSUME NEW S, NEW s \in Seq(S), s # << >>
  PROVE  /\ Len(s) \in Nat \ {0} /\ s[Len(s)] \in S
         /\ Upto(s, Len(s) - 1) \in Seq(S) /\ Len(Upto(s, Len(s) - 1)) = Len(s) - 1
         /\ \A i \in 1 .. Len(s) - 1 : Upto(s, Len(s) - 1)[i] = s[i]
<1> DEFINE n == Len(s) - 1
<1>1. Len(s) \in Nat \ {0}
  BY EmptySeq
<1>2. n \in Int /\ 1 \in Int /\ n \in Nat /\ Len(s) \in 1 .. Len(s)
  BY <1>1
<1>3. \A i \in 1 .. n : s[i] \in S
  BY <1>1, ElementOfSeq
<1> HIDE DEF n
<1>4. /\ SubSeq(s, 1, n) \in Seq(S)
      /\ Len(SubSeq(s, 1, n)) = IF 1 <= n THEN n - 1 + 1 ELSE 0
      /\ \A i \in 1 .. n - 1 + 1 : SubSeq(s, 1, n)[i] = s[1 + i - 1]
  BY <1>2, <1>3, SubSeqProperties
<1>5. \A i \in 1 .. n : i \in 1 .. n - 1 + 1 /\ 1 + i - 1 = i
  BY <1>2
<1>6. Len(SubSeq(s, 1, n)) = n
  BY <1>2, <1>4
<1>7. \A i \in 1 .. n : SubSeq(s, 1, n)[i] = s[i]
  BY <1>4, <1>5
<1>8. s[Len(s)] \in S
  BY <1>2, ElementOfSeq
<1> QED BY <1>1, <1>4, <1>6, <1>7, <1>8 DEF n, Upto

\* The parts of the type invariant.
ChainType ==
  /\ head \in Blocks /\ libs \in Seq(Nat) /\ Len(libs) = Len(head) + 1
  /\ max_size \in UndoSizes /\ deltas \in 0 .. max_size /\ deltas <= Len(head) + 1
  /\ store \in [0 .. MaxHeight -> Blocks \cup {None}] /\ trxs \subseteq Txs
ForkType ==
  /\ index \subseteq Blocks /\ kept \subseteq Blocks /\ orphan \subseteq index
  /\ loose \in BOOLEAN /\ fhead \in Blocks
TxType ==
  /\ pending \in Seq(Txs) /\ popped \in Seq(Txs) /\ queue \in Seq(Txs)
  /\ open \in BOOLEAN /\ session \subseteq Txs /\ ids \subseteq Txs
CallType ==
  /\ phase \in Phases /\ new \in Blocks /\ err \in BOOLEAN
  /\ first \in Seq(Blocks) /\ second \in Seq(Blocks) /\ left \in Seq(Blocks)
  /\ old \in [head : Blocks, lib : Nat, txs : SUBSET Txs]
  /\ phase \in {"popping", "pushing", "unwinding"} => second # << >>

LEMMA TypeParts == SizeInv <=> ChainType /\ ForkType /\ TxType /\ CallType
BY DEF SizeInv, TypeOK, ChainType, ForkType, TxType, CallType

\* A part that a step leaves alone keeps its type.
LEMMA TypeUnchanged ==
  /\ ChainType /\ UNCHANGED chainvars => ChainType'
  /\ ForkType /\ UNCHANGED forkvars => ForkType'
  /\ TxType /\ UNCHANGED txvars => TxType'
  /\ CallType /\ UNCHANGED callvars => CallType'
<1>1. ChainType /\ UNCHANGED chainvars => ChainType'
  BY DEF ChainType, chainvars
<1>2. ForkType /\ UNCHANGED forkvars => ForkType'
  BY DEF ForkType, forkvars
<1>3. TxType /\ UNCHANGED txvars => TxType'
  BY DEF TxType, txvars
<1>4. CallType /\ UNCHANGED callvars => CallType'
  BY DEF CallType, callvars
<1> QED BY <1>1, <1>2, <1>3, <1>4

\* So do the variables of the call when it goes on elsewhere.
LEMMA CallMoves ==
  ASSUME CallType
  PROVE  /\ \A e \in BOOLEAN : Return(e) => CallType'
         /\ \A p \in {"pushing", "unwinding"} : Goto(p) /\ second # << >> => CallType'
<1>1. ASSUME NEW e \in BOOLEAN, Return(e) PROVE CallType'
  BY <1>1 DEF Return, CallType, Phases
<1>2. ASSUME NEW p \in {"pushing", "unwinding"}, Goto(p), second # << >> PROVE CallType'
  BY <1>2 DEF Goto, CallType, Phases
<1> QED BY <1>1, <1>2

\* The transactions of a chain.
LEMMA ChainTxsType ==
  ASSUME NEW b \in Blocks
  PROVE  ChainTxs(b) \subseteq Txs
<1>1. \A i \in 1 .. Len(b) : b[i].txs \in Seq(Txs)
  BY BlockSeq, ElementOfSeq, ChainAssumption
<1>2. ASSUME NEW s \in Seq(Txs) PROVE Elements(s) \subseteq Txs
  BY ElementOfSeq, LenProperties DEF Elements
<1> QED BY <1>1, <1>2 DEF ChainTxs

\* The entry of push_block keeps the types.
LEMMA EnterType ==
  ASSUME TypeInv, NEW b \in Blocks, Enter(b)
  PROVE  ForkType' /\ CallType' /\ (popped' = popped => TxType')
<1>t. head \in Blocks /\ Lib \in Nat /\ pending \in Seq(Txs) /\ kept \subseteq Blocks
  BY Basics DEF TypeInv, SizeInv, TypeOK
<1>1. ForkType'
  BY <1>t, EnterShape DEF ForkType
<1>2. old' \in [head : Blocks, lib : Nat, txs : SUBSET Txs]
  <2>1. Elements(pending) \subseteq Txs
    BY <1>t, ElementOfSeq, LenProperties DEF Elements
  <2>2. ChainTxs(head) \cup Elements(pending) \in SUBSET Txs
    BY <2>1, <1>t, ChainTxsType
  <2>3. old' = [head |-> head, lib |-> Lib, txs |-> ChainTxs(head) \cup Elements(pending)]
    BY DEF Enter
  <2> QED BY <2>2, <2>3, <1>t
<1>3. phase' \in {"popping", "pushing", "unwinding"} => second' # << >>
  <2>1. ASSUME phase' = "popping" PROVE second' # << >>
    <3>1. PICK n \in 0 .. Len(head) : second' = Branch(head, n)
      BY <2>1, EnterShape
    <3> QED BY <3>1, <1>t, BranchShape
  <2> QED BY <2>1, EnterShape
<1>4. /\ phase' \in Phases /\ new' \in Blocks /\ err' \in BOOLEAN
      /\ first' \in Seq(Blocks) /\ second' \in Seq(Blocks) /\ left' \in Seq(Blocks)
  BY EnterShape, EmptySeq DEF Phases
<1>5. popped' = popped => TxType'
  <2>1. /\ queue' = pending /\ pending' = << >> /\ open' = FALSE /\ session' = {}
        /\ ids' = {}
    BY EnterShape
  <2>2. << >> \in Seq(Txs) /\ popped \in Seq(Txs)
    BY EmptySeq DEF TypeInv, SizeInv, TypeOK
  <2> QED BY <2>1, <2>2, <1>t DEF TxType
<1> QED BY <1>1, <1>2, <1>3, <1>4, <1>5 DEF CallType

\* The block a node produces.
LEMMA GeneratedBlock ==
  ASSUME TypeInv, NEW y \in Bodies, generate_block(y)
  PROVE  Append(head, y) \in Blocks
<1>1. Append(head, y) \in Seq(Bodies) /\ Len(Append(head, y)) = Len(head) + 1
  BY Basics, AppendProperties
<1>2. Len(Append(head, y)) \in 0 .. MaxHeight
  BY <1>1, Basics DEF generate_block, Height
<1> QED BY <1>1, <1>2, BlockSeq

\* Every step keeps the types.
LEMMA SizeInvStep ==
  ASSUME TypeInv, Next
  PROVE  SizeInv'
<1>p. ChainType /\ ForkType /\ TxType /\ CallType
  BY TypeParts DEF TypeInv
<1>t. /\ new \in Blocks /\ first \in Seq(Blocks) /\ second \in Seq(Blocks)
      /\ left \in Seq(Blocks) /\ popped \in Seq(Txs) /\ queue \in Seq(Txs)
      /\ index \in SUBSET Blocks /\ index \subseteq index /\ pending \in Seq(Txs)
      /\ head \in Blocks /\ session \subseteq Txs /\ ids \subseteq Txs
  BY DEF TypeInv, SizeInv, TypeOK
<1> SUFFICES ChainType' /\ ForkType' /\ TxType' /\ CallType'
  BY DEF SizeInv, TypeOK, ChainType, ForkType, TxType, CallType
<1>1. ASSUME NEW m \in UndoSizes, push_direct(m)
      PROVE  ChainType' /\ ForkType' /\ TxType' /\ CallType'
  <2>0. UNCHANGED <<pending, open, session, popped, queue>>
    BY <1>1 DEF push_direct
  <2>1. CASE Applies(new)
    <3>1. Apply(new, m) /\ UNCHANGED forkvars /\ Return(FALSE)
      BY <1>1, <2>1 DEF push_direct
    <3>2. ChainType' /\ ids' \subseteq Txs
      BY <3>1, <2>1, <1>t, ApplyShape DEF ChainType
    <3> QED BY <2>0, <3>1, <3>2, <1>p, TypeUnchanged, CallMoves DEF TxType
  <2>2. CASE ~Applies(new)
    <3>1. /\ FailToApply(new, m) /\ Erase(index, {new}) /\ UNCHANGED <<fhead, loose>>
          /\ Return(TRUE)
      BY <1>1, <2>2 DEF push_direct
    <3>2. ChainType' /\ ids' \subseteq Txs
      BY <3>1, <1>p, <1>t, FailShape DEF ChainType
    <3>3. ForkType'
      BY <3>1, <1>p, <1>t, EraseType DEF ForkType
    <3> QED BY <2>0, <3>1, <3>2, <3>3, <1>p, CallMoves DEF TxType
  <2> QED BY <2>1, <2>2
<1>2. ASSUME NEW m \in UndoSizes, switch_push(m)
      PROVE  ChainType' /\ ForkType' /\ TxType' /\ CallType'
  <2>0. second # << >> /\ phase = "pushing"
    BY <1>2 DEF switch_push, TypeInv, SizeInv
  <2>1. CASE first = << >>
    BY <1>2, <2>1, <1>p, TypeUnchanged, CallMoves DEF switch_push
  <2>2. CASE first # << >>
    <3> DEFINE b == first[Len(first)]
    <3>1. b \in Blocks /\ Upto(first, Len(first) - 1) \in Seq(Blocks)
      BY <2>2, <1>t, DropLast
    <3>2. CASE Applies(b)
      <4>1. /\ Apply(b, m) /\ first' = Upto(first, Len(first) - 1)
            /\ UNCHANGED <<forkvars, phase, new, second, left, err, old>>
            /\ UNCHANGED <<pending, open, session, popped, queue>>
        BY <1>2, <2>2, <3>2 DEF switch_push
      <4>2. ChainType' /\ ids' \subseteq Txs
        BY <4>1, <3>1, <3>2, ApplyShape DEF ChainType
      <4>3. TxType' /\ CallType'
        BY <4>1, <4>2, <3>1, <1>p DEF TxType, CallType
      <4> QED BY <4>1, <4>2, <4>3, <1>p, TypeUnchanged
    <3>3. CASE ~Applies(b)
      <4>1. /\ FailToApply(b, m) /\ Erase(index, Elements(first))
            /\ fhead' = second[1] /\ loose' = FALSE /\ Goto("unwinding")
            /\ UNCHANGED <<pending, open, session, popped, queue>>
        BY <1>2, <2>2, <3>3 DEF switch_push
      <4>2. ChainType' /\ ids' \subseteq Txs
        BY <4>1, <3>1, <1>p, FailShape DEF ChainType
      <4>3. second[1] \in Blocks
        <5>1. 1 \in 1 .. Len(second)
          BY <2>0, <1>t, EmptySeq
        <5> QED BY <5>1, <1>t, ElementOfSeq
      <4>4. ForkType'
        BY <4>1, <4>3, <1>p, <1>t, EraseType DEF ForkType
      <4> QED BY <4>1, <4>2, <4>4, <2>0, <1>p, CallMoves DEF TxType
    <3> QED BY <3>2, <3>3
  <2> QED BY <2>1, <2>2
<1>3. ASSUME NEW m \in UndoSizes, switch_reapply(m)
      PROVE  ChainType' /\ ForkType' /\ TxType' /\ CallType'
  <2>0. UNCHANGED <<pending, open, session, popped, queue, forkvars>> /\ phase = "reapplying"
    BY <1>3 DEF switch_reapply
  <2>1. CASE left = << >>
    <3>1. Return(TRUE) /\ UNCHANGED <<chainvars, ids>>
      BY <1>3, <2>1 DEF switch_reapply
    <3> QED BY <2>0, <3>1, <1>p, TypeUnchanged, CallMoves DEF TxType
  <2>2. CASE left # << >>
    <3> DEFINE b == left[Len(left)]
    <3>1. b \in Blocks /\ Upto(left, Len(left) - 1) \in Seq(Blocks)
      BY <2>2, <1>t, DropLast
    <3>2. CASE Applies(b)
      <4>1. /\ Apply(b, m) /\ left' = Upto(left, Len(left) - 1)
            /\ UNCHANGED <<phase, new, first, second, err, old>>
        BY <1>3, <2>2, <3>2 DEF switch_reapply
      <4>2. ChainType' /\ ids' \subseteq Txs
        BY <4>1, <3>1, <3>2, ApplyShape DEF ChainType
      <4>3. TxType' /\ CallType'
        BY <2>0, <4>1, <4>2, <3>1, <1>p DEF TxType, CallType
      <4> QED BY <2>0, <4>2, <4>3, <1>p, TypeUnchanged
    <3>3. CASE ~Applies(b)
      <4>1. FailToApply(b, m) /\ Return(TRUE)
        BY <1>3, <2>2, <3>3 DEF switch_reapply
      <4>2. ChainType' /\ ids' \subseteq Txs
        BY <4>1, <3>1, <1>p, FailShape DEF ChainType
      <4> QED BY <2>0, <4>1, <4>2, <1>p, TypeUnchanged, CallMoves DEF TxType
    <3> QED BY <3>2, <3>3
  <2> QED BY <2>1, <2>2
<1>a. ASSUME Undoing, pop_block PROVE ChainType' /\ ForkType' /\ TxType'
  BY <1>a, <1>p, PopType DEF ChainType, ForkType, TxType
<1>4. CASE switch_pop
  <2>0. second # << >>
    BY <1>4 DEF switch_pop, TypeInv, SizeInv
  <2>1. CASE AtFork
    BY <1>4, <2>0, <2>1, <1>p, TypeUnchanged, CallMoves DEF switch_pop
  <2>2. CASE ~AtFork /\ pop_block /\ IF CanPop THEN UNCHANGED callvars ELSE Return(TRUE)
    <3>1. Undoing
      BY <1>4, <2>2 DEF switch_pop, Undoing
    <3> QED BY <3>1, <2>2, <1>a, <1>p, TypeUnchanged, CallMoves
  <2>3. CASE ~CanPopFork /\ Return(TRUE) /\ UNCHANGED <<chainvars, forkvars, txvars>>
    BY <2>3, <1>p, TypeUnchanged, CallMoves
  <2> QED BY <1>4, <2>1, <2>2, <2>3 DEF switch_pop
<1>5. CASE switch_unwind
  <2>1. CASE AtFork
    <3>1. /\ phase' = "reapplying" /\ left' = second
          /\ UNCHANGED <<new, first, second, err, old, chainvars, forkvars, txvars>>
      BY <1>5, <2>1 DEF switch_unwind
    <3>2. CallType'
      BY <3>1, <1>p DEF CallType, Phases
    <3> QED BY <3>1, <3>2, <1>p, TypeUnchanged
  <2>2. CASE ~AtFork /\ pop_block /\ IF CanPop THEN UNCHANGED callvars ELSE Return(TRUE)
    <3>1. Undoing
      BY <1>5, <2>2 DEF switch_unwind, Undoing
    <3> QED BY <3>1, <2>2, <1>a, <1>p, TypeUnchanged, CallMoves
  <2>3. CASE ~CanPopFork /\ Return(TRUE) /\ UNCHANGED <<chainvars, forkvars, txvars>>
    BY <2>3, <1>p, TypeUnchanged, CallMoves
  <2> QED BY <1>5, <2>1, <2>2, <2>3 DEF switch_unwind
<1>b. ASSUME NEW t \in Txs, PushTx(t)
      PROVE  /\ ChainType' /\ pending' \in Seq(Txs)
             /\ session' \subseteq Txs /\ open' \in BOOLEAN
  BY <1>b, <1>p, PushTxShape DEF ChainType
<1>6. CASE restore_popped
  <2>1. /\ popped # << >> /\ popped' = Tail(popped) /\ UNCHANGED <<forkvars, callvars, ids, queue>>
    BY <1>6 DEF restore_popped
  <2>2. Head(popped) \in Txs /\ popped' \in Seq(Txs)
    BY <2>1, <1>t, HeadTailProperties
  <2>3. CASE UNCHANGED <<chainvars, pending, open, session>>
    BY <2>1, <2>2, <2>3, <1>p, TypeUnchanged DEF TxType
  <2>4. CASE PushTx(Head(popped))
    BY <2>1, <2>2, <2>4, <1>b, <1>p, TypeUnchanged DEF TxType
  <2> QED BY <1>6, <2>3, <2>4 DEF restore_popped
<1>7. CASE restore_next
  <2>1. CASE queue = << >>
    <3>1. /\ phase' = "idle" /\ err' = FALSE /\ new' = Root /\ old' = NoCall
          /\ first' = << >> /\ second' = << >> /\ left' = << >> /\ ids' = {}
          /\ UNCHANGED <<chainvars, forkvars, pending, open, session, popped, queue>>
      BY <1>7, <2>1 DEF restore_next
    <3>2. CallType'
      BY <3>1, EmptySeq, PreviousShape DEF CallType, Phases, NoCall
    <3>3. TxType'
      BY <3>1, <1>p DEF TxType
    <3> QED BY <3>1, <3>2, <3>3, <1>p, TypeUnchanged
  <2>2. CASE queue # << >>
    <3>1. queue' = Tail(queue) /\ UNCHANGED <<forkvars, popped, ids, callvars>>
      BY <1>7, <2>2 DEF restore_next
    <3>2. Head(queue) \in Txs /\ queue' \in Seq(Txs)
      BY <2>2, <3>1, <1>t, HeadTailProperties
    <3>3. CASE UNCHANGED <<chainvars, pending, open, session>>
      BY <3>1, <3>2, <3>3, <1>p, TypeUnchanged DEF TxType
    <3>4. CASE PushTx(Head(queue))
      BY <3>1, <3>2, <3>4, <1>b, <1>p, TypeUnchanged DEF TxType
    <3> QED BY <1>7, <2>2, <3>3, <3>4 DEF restore_next
  <2> QED BY <2>1, <2>2
<1>8. ASSUME NEW b \in Blocks, push_block(b)
      PROVE  ChainType' /\ ForkType' /\ TxType' /\ CallType'
  <2>1. Enter(b) /\ UNCHANGED <<chainvars, popped>>
    BY <1>8 DEF push_block
  <2> QED BY <2>1, <1>p, EnterType, TypeUnchanged
<1>9. ASSUME NEW t \in Txs, push_transaction(t)
      PROVE  ChainType' /\ ForkType' /\ TxType' /\ CallType'
  <2>1. PushTx(t) /\ UNCHANGED <<forkvars, popped, ids, queue, callvars>>
    BY <1>9 DEF push_transaction
  <2> QED BY <2>1, <1>b, <1>p, TypeUnchanged DEF TxType
<1>c. ASSUME NEW k \in {1, 2}, deltas' = Smaller(deltas, max_size - k),
             UNCHANGED <<head, libs, max_size, store, trxs>>
      PROVE  ChainType'
  <2>1. deltas \in Nat /\ max_size \in Nat /\ max_size >= 2 /\ Len(head) \in Nat
        /\ deltas <= Len(head) + 1
    BY Basics DEF TypeInv, SizeInv
  <2>2. deltas' \in 0 .. max_size /\ deltas' <= Len(head) + 1
    BY <1>c, <2>1 DEF Smaller
  <2> QED BY <1>c, <2>2, <1>p DEF ChainType
<1>10. CASE validate_transaction
  <2> DEFINE k == IF open THEN 2 ELSE 1
  <2>1. /\ deltas' = Smaller(deltas, max_size - k) /\ k \in {1, 2}
        /\ UNCHANGED <<head, libs, max_size, store, trxs, forkvars, txvars, callvars>>
    BY <1>10 DEF validate_transaction
  <2> HIDE DEF k
  <2>2. ChainType'
    BY <2>1, <1>c
  <2> QED BY <2>1, <2>2, <1>p, TypeUnchanged
<1>11. ASSUME NEW y \in Bodies, generate_block(y)
       PROVE  ChainType' /\ ForkType' /\ TxType' /\ CallType'
  <2> DEFINE k == IF pending = << >> THEN 1 ELSE 2
  <2>1. /\ deltas' = Smaller(deltas, max_size - k) /\ k \in {1, 2}
        /\ UNCHANGED <<head, libs, max_size, store, trxs, popped>>
        /\ Enter(Append(head, y)) /\ Len(head) < MaxHeight
    BY <1>11 DEF generate_block, Height
  <2> HIDE DEF k
  <2>2. ChainType'
    BY <2>1, <1>c
  <2>3. Append(head, y) \in Blocks
    BY <1>11, GeneratedBlock
  <2> QED BY <2>1, <2>2, <2>3, EnterType
<1>12. CASE generate_block_too_large
  <2>1. /\ deltas' = Smaller(deltas, max_size - 2) /\ 2 \in {1, 2}
        /\ UNCHANGED <<head, libs, max_size, store, trxs, forkvars, callvars>>
        /\ open' = FALSE /\ session' = {} /\ UNCHANGED <<pending, popped, ids, queue>>
    BY <1>12 DEF generate_block_too_large
  <2>2. ChainType'
    BY <2>1, <1>c
  <2>3. TxType'
    BY <2>1, <1>p DEF TxType
  <2> QED BY <2>1, <2>2, <2>3, <1>p, TypeUnchanged
<1> QED BY <1>1, <1>2, <1>3, <1>4, <1>5, <1>6, <1>7, <1>8, <1>9, <1>10, <1>11, <1>12
        DEF Next, CallStep

LEMMA SizeInvInit == Init => SizeInv
<1> SUFFICES ASSUME Init PROVE ChainType /\ ForkType /\ TxType /\ CallType
  BY TypeParts
<1>0. Root \in Blocks /\ Len(Root) = 0 /\ << >> \in Seq(Txs) /\ << >> \in Seq(Blocks)
  BY PreviousShape, EmptySeq
<1>1. ChainType
  <2>1. libs \in Seq(Nat) /\ Len(libs) = 1
    BY DEF Init
  <2>2. max_size \in UndoSizes /\ max_size \in Nat /\ deltas = 0 /\ head = Root
    BY ChainAssumption DEF Init
  <2>3. store \in [0 .. MaxHeight -> Blocks \cup {None}] /\ trxs \subseteq Txs
    BY <1>0 DEF Init
  <2> QED BY <2>1, <2>2, <2>3, <1>0 DEF ChainType
<1>2. ForkType
  BY <1>0 DEF Init, ForkType
<1>3. TxType
  BY <1>0 DEF Init, TxType
<1>4. CallType
  BY <1>0 DEF Init, CallType, Phases, NoCall
<1> QED BY <1>1, <1>2, <1>3, <1>4

LEMMA SizeInvNext == TypeInv /\ [Next]_vars => SizeInv'
<1>1. ASSUME TypeInv, UNCHANGED vars PROVE SizeInv'
  <2>1. UNCHANGED <<chainvars, forkvars, txvars, callvars>>
    BY <1>1 DEF vars
  <2>2. ChainType' /\ ForkType' /\ TxType' /\ CallType'
    BY <1>1, <2>1, TypeParts, TypeUnchanged DEF TypeInv
  <2> QED BY <2>2 DEF SizeInv, TypeOK, ChainType, ForkType, TxType, CallType
<1> QED BY <1>1, SizeInvStep

-----------------------------------------------------------------------------
(* What a step may do to the chain.                                         *)

\* A step leaves the chain alone, applies a block on the head, or pops it.
LEMMA ChainStep ==
  ASSUME TypeInv, Next
  PROVE  \/ UNCHANGED <<head, libs, trxs>> /\ deltas' <= deltas
         \/ \E b \in Blocks, m \in UndoSizes : Applies(b) /\ Apply(b, m)
         \/ Undoing /\ PopUndone /\ CanPop
<1> DEFINE Still == UNCHANGED <<head, libs, trxs>> /\ deltas' <= deltas
           Applied == \E b \in Blocks, m \in UndoSizes : Applies(b) /\ Apply(b, m)
           Undone == Undoing /\ PopUndone /\ CanPop
<1>t. /\ new \in Blocks /\ first \in Seq(Blocks) /\ left \in Seq(Blocks)
      /\ popped \in Seq(Txs) /\ queue \in Seq(Txs) /\ deltas \in Nat
      /\ max_size \in Nat
  BY Basics DEF TypeInv, SizeInv, TypeOK
<1>a. UNCHANGED chainvars => Still
  BY <1>t DEF chainvars
<1>b. ASSUME NEW b \in Blocks, NEW m \in UndoSizes, FailToApply(b, m) PROVE Still
  BY <1>b, FailShape
<1>c. ASSUME Undoing, pop_block PROVE Still \/ Undone
  BY <1>c, <1>t DEF pop_block
<1>d. ASSUME NEW t \in Txs, PushTx(t) PROVE Still
  BY <1>d, PushTxShape
<1>e. ASSUME NEW k \in {1, 2}, deltas' = Smaller(deltas, max_size - k),
             UNCHANGED <<head, libs, trxs>>
      PROVE  Still
  BY <1>e, <1>t DEF Smaller
<1> SUFFICES Still \/ Applied \/ Undone
  OBVIOUS
<1>1. ASSUME NEW m \in UndoSizes, push_direct(m) PROVE Still \/ Applied
  <2> HIDE DEF Still
  <2> QED BY <1>1, <1>b, <1>t DEF push_direct
<1>2. ASSUME NEW m \in UndoSizes, switch_push(m) PROVE Still \/ Applied
  <2>1. CASE first = << >>
    BY <1>2, <2>1, <1>a DEF switch_push
  <2>2. CASE first # << >>
    <3>1. first[Len(first)] \in Blocks
      BY <2>2, <1>t, DropLast
    <3> HIDE DEF Still
    <3> QED BY <1>2, <2>2, <3>1, <1>b DEF switch_push
  <2> QED BY <2>1, <2>2
<1>3. ASSUME NEW m \in UndoSizes, switch_reapply(m) PROVE Still \/ Applied
  <2>1. CASE left = << >>
    BY <1>3, <2>1, <1>a DEF switch_reapply
  <2>2. CASE left # << >>
    <3>1. left[Len(left)] \in Blocks
      BY <2>2, <1>t, DropLast
    <3> HIDE DEF Still
    <3> QED BY <1>3, <2>2, <3>1, <1>b DEF switch_reapply
  <2> QED BY <2>1, <2>2
<1> HIDE DEF Still, Undone
<1>4. switch_pop => Still \/ Undone
  BY <1>a, <1>c DEF switch_pop, Undoing
<1>5. switch_unwind => Still \/ Undone
  BY <1>a, <1>c DEF switch_unwind, Undoing
<1>6. restore_popped => Still
  <2>1. popped # << >> => Head(popped) \in Txs
    BY <1>t, HeadTailProperties
  <2> QED BY <2>1, <1>a, <1>d DEF restore_popped
<1>7. restore_next => Still
  <2>1. queue # << >> => Head(queue) \in Txs
    BY <1>t, HeadTailProperties
  <2> QED BY <2>1, <1>a, <1>d DEF restore_next
<1>8. ASSUME NEW b \in Blocks, push_block(b) PROVE Still
  BY <1>8, <1>a DEF push_block
<1>9. ASSUME NEW t \in Txs, push_transaction(t) PROVE Still
  BY <1>9, <1>d DEF push_transaction
<1>10. validate_transaction => Still
  <2> DEFINE k == IF open THEN 2 ELSE 1
  <2>1. k \in {1, 2}
    OBVIOUS
  <2> SUFFICES ASSUME validate_transaction PROVE Still
    OBVIOUS
  <2>2. deltas' = Smaller(deltas, max_size - k) /\ UNCHANGED <<head, libs, trxs>>
    BY DEF validate_transaction
  <2> HIDE DEF k
  <2> QED BY <2>1, <2>2, <1>e
<1>11. ASSUME NEW y \in Bodies, generate_block(y) PROVE Still
  <2> DEFINE k == IF pending = << >> THEN 1 ELSE 2
  <2>1. k \in {1, 2}
    OBVIOUS
  <2>2. deltas' = Smaller(deltas, max_size - k) /\ UNCHANGED <<head, libs, trxs>>
    BY <1>11 DEF generate_block
  <2> HIDE DEF k
  <2> QED BY <2>1, <2>2, <1>e
<1>12. generate_block_too_large => Still
  BY <1>e DEF generate_block_too_large
<1> QED BY <1>1, <1>2, <1>3, <1>4, <1>5, <1>6, <1>7, <1>8, <1>9, <1>10, <1>11, <1>12
        DEF Next, CallStep

\* Without restarts there is no delta for Root, which is what keeps it.
SpecInv == TypeInv /\ DeltaInv

LEMMA SpecInvFrom ==
  /\ SizeInv /\ DeltaInv => SpecInv
  /\ SizeInv' /\ DeltaInv' => SpecInv'
<1>1. ASSUME SizeInv, DeltaInv PROVE SpecInv
  <2>1. CanPop => head # Root
    BY <1>1, PreviousShape, BlockSeq, ChainAssumption DEF DeltaInv, CanPop, SizeInv, TypeOK
  <2> QED BY <1>1, <2>1 DEF SpecInv, TypeInv
<1>2. ASSUME SizeInv', DeltaInv' PROVE SpecInv'
  <2>1. CanPop' => head' # Root
    BY <1>2, PreviousShape, BlockSeq, ChainAssumption DEF DeltaInv, CanPop, SizeInv, TypeOK
  <2> QED BY <1>2, <2>1 DEF SpecInv, TypeInv
<1> QED BY <1>1, <1>2

LEMMA SpecInvInit == Init => SpecInv
<1>1. Init => DeltaInv
  BY PreviousShape DEF Init, DeltaInv
<1> QED BY <1>1, SizeInvInit, SpecInvFrom

LEMMA SpecInvNext == SpecInv /\ [Next]_vars => SpecInv'
<1> SUFFICES ASSUME SpecInv, [Next]_vars PROVE SpecInv'
  OBVIOUS
<1>1. TypeInv /\ deltas <= Len(head) /\ deltas \in Nat /\ Len(head) \in Nat
  BY Basics DEF SpecInv, DeltaInv
<1>2. SizeInv'
  BY <1>1, SizeInvNext
<1>3. deltas' \in Nat
  BY <1>2, ChainAssumption DEF SizeInv, TypeOK
<1> SUFFICES deltas' <= Len(head')
  BY <1>2, SpecInvFrom DEF DeltaInv
<1>4. CASE UNCHANGED vars
  BY <1>1, <1>4 DEF vars, chainvars
<1>5. CASE Next
  <2>1. CASE UNCHANGED <<head, libs, trxs>> /\ deltas' <= deltas
    BY <1>1, <1>3, <2>1
  <2>2. ASSUME NEW b \in Blocks, NEW m \in UndoSizes, Applies(b), Apply(b, m)
        PROVE  deltas' <= Len(head')
    <3>1. head' = b /\ Len(b) = Len(head) + 1
      BY <1>1, <2>2, ApplyShape DEF Apply
    <3>2. deltas' <= deltas + 1
      BY <1>1, <2>2, ChainAssumption DEF Apply, Smaller
    <3> QED BY <1>1, <1>3, <3>1, <3>2
  <2>3. CASE Undoing /\ PopUndone /\ CanPop
    <3>1. Len(head') = Len(head) - 1 /\ deltas' = deltas - 1
      BY <1>1, <2>3, PopShape
    <3> QED BY <1>1, <3>1
  <2> QED BY <1>1, <1>5, <2>1, <2>2, <2>3, ChainStep
<1> QED BY <1>4, <1>5

\* Every variable keeps its type through pushes, fork switches that fail
\* half-way, pops that throw and transactions that take the place of deltas:
\* in particular pop_undo never finds a delta without its block.
THEOREM TypeCorrect == Spec => []TypeOK
<1>1. SpecInv => TypeOK
  BY DEF SpecInv, TypeInv, SizeInv
<1> QED BY <1>1, SpecInvInit, SpecInvNext, PTL DEF Spec

-----------------------------------------------------------------------------
(* Every transaction is applied once.                                       *)

\* No two blocks of a chain share a transaction.
Disjoint(b) ==
  \A i, j \in 1 .. Len(b) :
    \A t \in Elements(b[i].txs) \cap Elements(b[j].txs) : i = j

\* A block adds its transactions to those of its chain.
LEMMA ChainTxsChild ==
  ASSUME NEW h \in Blocks, NEW b \in Blocks, Previous(b) = h
  PROVE  /\ ChainTxs(b) = ChainTxs(h) \cup Elements(TxsOf(b))
         /\ Disjoint(b) <=> Disjoint(h) /\ ChainTxs(h) \cap Elements(TxsOf(b)) = {}
<1>1. /\ b # Root /\ Len(h) \in Nat /\ Len(b) = Len(h) + 1
      /\ \A i \in 1 .. Len(h) : b[i] = h[i]
  BY ChildShape
<1>2. TxsOf(b) = b[Len(b)].txs
  BY <1>1, TxsType
<1>3. 1 .. Len(b) = (1 .. Len(h)) \cup {Len(b)} /\ Len(b) \notin 1 .. Len(h)
  BY <1>1
<1>4. ChainTxs(b) = ChainTxs(h) \cup Elements(TxsOf(b))
  BY <1>1, <1>2, <1>3 DEF ChainTxs
<1>5. ASSUME Disjoint(b)
      PROVE  Disjoint(h) /\ ChainTxs(h) \cap Elements(TxsOf(b)) = {}
  <2>1. Disjoint(h)
    BY <1>5, <1>1, <1>3 DEF Disjoint
  <2>2. ASSUME NEW t \in ChainTxs(h), t \in Elements(TxsOf(b)) PROVE FALSE
    <3>1. PICK i \in 1 .. Len(h) : t \in Elements(h[i].txs)
      BY <2>2 DEF ChainTxs
    <3>2. /\ i \in 1 .. Len(b) /\ Len(b) \in 1 .. Len(b)
          /\ t \in Elements(b[i].txs) \cap Elements(b[Len(b)].txs)
      BY <3>1, <2>2, <1>1, <1>2, <1>3
    <3>3. i = Len(b)
      BY <3>2, <1>5 DEF Disjoint
    <3> QED BY <3>3, <1>3
  <2> QED BY <2>1, <2>2
<1>6. ASSUME Disjoint(h), ChainTxs(h) \cap Elements(TxsOf(b)) = {}
      PROVE  Disjoint(b)
  <2>1. ASSUME NEW i \in 1 .. Len(h), NEW t \in Elements(b[i].txs)
        PROVE  t \notin Elements(TxsOf(b))
    BY <2>1, <1>1, <1>6 DEF ChainTxs
  <2>2. ASSUME NEW i \in 1 .. Len(b), NEW j \in 1 .. Len(b),
               NEW t \in Elements(b[i].txs) \cap Elements(b[j].txs)
        PROVE  i = j
    <3>1. CASE i \in 1 .. Len(h) /\ j \in 1 .. Len(h)
      BY <3>1, <2>2, <1>1, <1>6 DEF Disjoint
    <3>2. CASE i \in 1 .. Len(h) /\ j = Len(b)
      BY <3>2, <2>1, <2>2, <1>2
    <3>3. CASE j \in 1 .. Len(h) /\ i = Len(b)
      BY <3>3, <2>1, <2>2, <1>2
    <3>4. CASE i = Len(b) /\ j = Len(b)
      BY <3>4
    <3> QED BY <3>1, <3>2, <3>3, <3>4, <1>3
  <2> QED BY <2>2 DEF Disjoint
<1> QED BY <1>4, <1>5, <1>6

LEMMA AppliedOnceStep ==
  ASSUME TypeInv, AppliedOnce, Next
  PROVE  AppliedOnce'
<1>t. head \in Blocks
  BY DEF TypeInv, SizeInv, TypeOK
<1>0. AppliedOnce <=> trxs = ChainTxs(head) /\ Disjoint(head)
  BY DEF AppliedOnce, Disjoint
<1>1. CASE UNCHANGED <<head, libs, trxs>> /\ deltas' <= deltas
  BY <1>1 DEF AppliedOnce
<1> SUFFICES ASSUME ~ UNCHANGED <<head, libs, trxs>>
             PROVE  trxs' = ChainTxs(head') /\ Disjoint(head')
  BY <1>1 DEF AppliedOnce, Disjoint
<1>2. ASSUME NEW b \in Blocks, NEW m \in UndoSizes, Applies(b), Apply(b, m)
      PROVE  trxs' = ChainTxs(head') /\ Disjoint(head')
  <2>1. Previous(b) = head /\ head' = b /\ trxs' = trxs \cup Elements(TxsOf(b))
        /\ Elements(TxsOf(b)) \cap trxs = {}
    BY <1>2 DEF Applies, Apply
  <2> QED BY <2>1, <1>0, <1>t, ChainTxsChild
<1>3. CASE Undoing /\ PopUndone /\ CanPop
  <2>1. head' \in Blocks /\ Previous(head) = head' /\ trxs' = trxs \ Elements(TxsOf(head))
    BY <1>3, PopShape DEF PopUndone
  <2> QED BY <2>1, <1>0, <1>t, ChainTxsChild
<1> QED BY <1>2, <1>3, ChainStep

LEMMA AppliedOnceNext == TypeInv /\ AppliedOnce /\ [Next]_vars => AppliedOnce'
<1>1. ASSUME AppliedOnce, UNCHANGED vars PROVE AppliedOnce'
  BY <1>1 DEF AppliedOnce, vars, chainvars
<1> QED BY <1>1, AppliedOnceStep

LEMMA AppliedOnceInit == Init => AppliedOnce
<1> SUFFICES ASSUME Init PROVE AppliedOnce
  OBVIOUS
<1>1. head = Root /\ trxs = {} /\ Len(Root) = 0
  BY PreviousShape DEF Init
<1>2. 1 .. Len(head) = {}
  BY <1>1
<1> QED BY <1>1, <1>2 DEF AppliedOnce, ChainTxs

\* No transaction gets on a chain twice, and the LevelDB index that the
\* duplicate check of _apply_transaction reads agrees with the chain in every
\* state, in the middle of a fork switch and of its unwinding too.
THEOREM EachAppliedOnce == Spec => []AppliedOnce
<1>1. SpecInv => TypeInv
  BY DEF SpecInv
<1> QED BY <1>1, SpecInvInit, SpecInvNext, AppliedOnceInit, AppliedOnceNext, PTL DEF Spec

-----------------------------------------------------------------------------
(* Pending transactions.                                                    *)

Elsewhere == {"direct", "popping", "pushing", "unwinding", "reapplying"}

\* While push_block works nothing is pending; at any time no pending transaction
\* is on the chain, and the session holds only pending ones.
PendingInv ==
  /\ phase \in Elsewhere => pending = << >> /\ session = {}
  /\ Elements(pending) \cap trxs = {}
  /\ session \subseteq Elements(pending)

\* What a step does to the pending transactions: nothing while push_block works,
\* drop them when it is entered, and else push one or drop the session.
LEMMA PendingStep ==
  ASSUME TypeInv, Next
  PROVE  \/ phase \in Elsewhere /\ UNCHANGED <<pending, session>>
         \/ pending' = << >> /\ session' = {}
         \/ /\ phase \notin Elsewhere /\ phase' \notin Elsewhere /\ trxs' = trxs
            /\ \/ \E t \in Txs : PushTx(t)
               \/ pending' = pending /\ session' \in {session, {}}
<1> DEFINE Works == phase \in Elsewhere /\ UNCHANGED <<pending, session>>
           Dropped == pending' = << >> /\ session' = {}
           Pushed == /\ phase \notin Elsewhere /\ phase' \notin Elsewhere /\ trxs' = trxs
                     /\ \/ \E t \in Txs : PushTx(t)
                        \/ pending' = pending /\ session' \in {session, {}}
<1>t. popped \in Seq(Txs) /\ queue \in Seq(Txs) /\ head \in Seq(Bodies)
  BY Basics DEF TypeInv, SizeInv, TypeOK
<1>1. ASSUME NEW m \in UndoSizes, push_direct(m) PROVE Works
  BY <1>1 DEF push_direct, Elsewhere
<1>2. ASSUME NEW m \in UndoSizes, switch_push(m) PROVE Works
  BY <1>2 DEF switch_push, txvars, Elsewhere
<1>3. ASSUME NEW m \in UndoSizes, switch_reapply(m) PROVE Works
  BY <1>3 DEF switch_reapply, Elsewhere
<1>4. switch_pop => Works
  BY DEF switch_pop, pop_block, txvars, Elsewhere
<1>5. switch_unwind => Works
  BY DEF switch_unwind, pop_block, txvars, Elsewhere
<1>6. restore_popped => Pushed
  <2>1. popped # << >> => Head(popped) \in Txs
    BY <1>t, HeadTailProperties
  <2>2. restore_popped => phase = "restoring" /\ phase' = "restoring" /\ trxs' = trxs
    BY DEF restore_popped, PushTx, chainvars, callvars
  <2> QED BY <2>1, <2>2 DEF restore_popped, Elsewhere
<1>7. restore_next => Pushed
  <2>1. queue # << >> => Head(queue) \in Txs
    BY <1>t, HeadTailProperties
  <2>2. restore_next => phase = "restoring" /\ phase' \in {"idle", "restoring"} /\ trxs' = trxs
    BY DEF restore_next, PushTx, chainvars, callvars
  <2> QED BY <2>1, <2>2 DEF restore_next, Elsewhere
<1>8. ASSUME NEW b \in Blocks, push_block(b) PROVE Dropped
  BY <1>8 DEF push_block, Enter
<1>9. ASSUME NEW t \in Txs, push_transaction(t) PROVE Pushed
  <2>1. PushTx(t) /\ phase = "idle" /\ phase' = "idle" /\ trxs' = trxs
    BY <1>9 DEF push_transaction, PushTx, callvars
  <2> QED BY <2>1 DEF Elsewhere
<1>10. validate_transaction => Pushed
  BY DEF validate_transaction, txvars, callvars, Elsewhere
<1>11. ASSUME NEW y \in Bodies, generate_block(y) PROVE Dropped
  BY <1>11 DEF generate_block, Enter
<1>12. generate_block_too_large => Pushed
  BY DEF generate_block_too_large, callvars, Elsewhere
<1> HIDE DEF Works, Dropped, Pushed
<1>13. Works \/ Dropped \/ Pushed
  BY <1>1, <1>2, <1>3, <1>4, <1>5, <1>6, <1>7, <1>8, <1>9, <1>10, <1>11, <1>12
     DEF Next, CallStep
<1> QED BY <1>13 DEF Works, Dropped, Pushed

\* The elements of a sequence when one is put at its end.
LEMMA AppendElements ==
  ASSUME NEW S, NEW s \in Seq(S), NEW t \in S
  PROVE  Elements(Append(s, t)) = Elements(s) \cup {t}
<1>1. /\ Len(s) \in Nat /\ DOMAIN s = 1 .. Len(s)
      /\ Append(s, t) \in Seq(S) /\ Len(Append(s, t)) = Len(s) + 1
      /\ \A i \in 1 .. Len(s) : Append(s, t)[i] = s[i]
      /\ Append(s, t)[Len(s) + 1] = t
  BY AppendProperties, LenProperties
<1>2. DOMAIN Append(s, t) = (1 .. Len(s)) \cup {Len(s) + 1}
  <2>1. DOMAIN Append(s, t) = 1 .. Len(s) + 1
    BY <1>1, LenProperties
  <2> QED BY <2>1, <1>1
<1> QED BY <1>1, <1>2 DEF Elements

LEMMA PendingInvStep ==
  ASSUME TypeInv, PendingInv, Next
  PROVE  PendingInv'
<1>t. pending \in Seq(Txs) /\ Elements(<< >>) = {}
  BY EmptySeq DEF TypeInv, SizeInv, TypeOK, Elements
<1>1. CASE phase \in Elsewhere /\ UNCHANGED <<pending, session>>
  BY <1>1, <1>t DEF PendingInv
<1>2. CASE pending' = << >> /\ session' = {}
  BY <1>2, <1>t DEF PendingInv
<1>3. ASSUME phase \notin Elsewhere, phase' \notin Elsewhere, trxs' = trxs,
             NEW t \in Txs, PushTx(t)
      PROVE  PendingInv'
  <2>1. CASE t \in trxs \/ t \in session
    BY <2>1, <1>3 DEF PendingInv, PushTx
  <2>2. CASE ~(t \in trxs \/ t \in session)
    <3>1. pending' = Append(pending, t) /\ session' = session \cup {t}
      BY <2>2, <1>3 DEF PushTx
    <3>2. Elements(pending') = Elements(pending) \cup {t}
      BY <3>1, <1>t, AppendElements
    <3>3. Elements(pending)' = Elements(pending')
      OBVIOUS
    <3> QED BY <3>1, <3>2, <2>2, <1>3 DEF PendingInv
  <2> QED BY <2>1, <2>2
<1>4. CASE /\ phase \notin Elsewhere /\ phase' \notin Elsewhere /\ trxs' = trxs
           /\ pending' = pending /\ session' \in {session, {}}
  BY <1>4 DEF PendingInv
<1> QED BY <1>1, <1>2, <1>3, <1>4, PendingStep

LEMMA PendingInvInit == Init => PendingInv
<1> SUFFICES ASSUME Init PROVE PendingInv
  OBVIOUS
<1>1. Elements(<< >>) = {}
  BY EmptySeq DEF Elements
<1>2. pending = << >> /\ session = {} /\ trxs = {}
  BY DEF Init
<1> QED BY <1>1, <1>2 DEF PendingInv

\* No pending transaction is on the chain, and the session the node keeps open
\* between blocks has no effect of a transaction that is not pending, although
\* a push_block takes all of them off and puts them back one by one.
THEOREM PendingIsFresh == Spec => []PendingFresh
<1>1. SpecInv /\ PendingInv /\ [Next]_vars => PendingInv'
  <2>1. ASSUME PendingInv, UNCHANGED vars PROVE PendingInv'
    BY <2>1 DEF PendingInv, vars, chainvars, txvars, callvars
  <2> QED BY <2>1, PendingInvStep DEF SpecInv
<1>2. PendingInv => PendingFresh
  BY DEF PendingInv, PendingFresh
<1> QED BY <1>1, <1>2, SpecInvInit, SpecInvNext, PendingInvInit, PTL DEF Spec

-----------------------------------------------------------------------------
(* The irreversible block.                                                  *)

\* The record of the call changes when push_block is entered and when it ends,
\* and neither changes the chain.
LEMMA OldStep ==
  ASSUME TypeInv, Next
  PROVE  \/ old' = old /\ phase \in Phases \ {"idle"}
         \/ old' = old /\ phase = "idle" /\ phase' = "idle"
         \/ /\ phase = "idle" /\ UNCHANGED <<head, libs, trxs, store, popped>>
            /\ \E b \in Blocks : Enter(b)
         \/ old' = NoCall /\ UNCHANGED <<chainvars, pending, popped, queue>> /\ phase' = "idle"
            /\ popped = << >> /\ queue = << >> /\ ids' = {} /\ err' = FALSE
<1> DEFINE Works == old' = old /\ phase \in Phases \ {"idle"}
           Idles == old' = old /\ phase = "idle" /\ phase' = "idle"
           Enters == /\ phase = "idle" /\ UNCHANGED <<head, libs, trxs, store, popped>>
                     /\ \E b \in Blocks : Enter(b)
           Leaves == /\ old' = NoCall /\ UNCHANGED <<chainvars, pending, popped, queue>>
                     /\ phase' = "idle"
                     /\ popped = << >> /\ queue = << >> /\ ids' = {} /\ err' = FALSE
<1>1. ASSUME NEW m \in UndoSizes, push_direct(m) PROVE Works
  BY <1>1 DEF push_direct, Return, Phases
<1>2. ASSUME NEW m \in UndoSizes, switch_push(m) PROVE Works
  BY <1>2 DEF switch_push, Return, Goto, Phases
<1>3. ASSUME NEW m \in UndoSizes, switch_reapply(m) PROVE Works
  BY <1>3 DEF switch_reapply, Return, Phases
<1>4. switch_pop => Works
  BY DEF switch_pop, Return, Goto, Phases, callvars
<1>5. switch_unwind => Works
  BY DEF switch_unwind, Return, Phases, callvars
<1>6. restore_popped => Works
  BY DEF restore_popped, callvars, Phases
<1>7. restore_next => Works \/ Leaves
  BY DEF restore_next, callvars, Phases
<1>8. ASSUME NEW b \in Blocks, push_block(b) PROVE Enters
  BY <1>8 DEF push_block, chainvars
<1>9. ASSUME NEW t \in Txs, push_transaction(t) PROVE Idles
  BY <1>9 DEF push_transaction, callvars
<1>10. validate_transaction => Idles
  BY DEF validate_transaction, callvars
<1>11. ASSUME NEW y \in Bodies, generate_block(y) PROVE Enters
  BY <1>11, GeneratedBlock DEF generate_block
<1>12. generate_block_too_large => Idles
  BY DEF generate_block_too_large, callvars
<1> HIDE DEF Works, Idles, Enters, Leaves
<1>13. Works \/ Idles \/ Enters \/ Leaves
  BY <1>1, <1>2, <1>3, <1>4, <1>5, <1>6, <1>7, <1>8, <1>9, <1>10, <1>11, <1>12
     DEF Next, CallStep
<1> QED BY <1>13 DEF Works, Idles, Enters, Leaves

\* The blocks below the oldest retained delta cannot be popped, and Len(head) -
\* deltas, their number, never goes down.  No irreversible number exceeds it by
\* more than one, now or when the call began; a block that is applied gets at
\* least that number, so an entry of libs below it is one of the old chain.
LibInv ==
  /\ \A k \in 1 .. Len(libs) : libs[k] + deltas <= Len(head) + 1
  /\ old.lib + deltas <= Len(head) + 1
  /\ old.lib <= Len(old.head) + 1
  /\ Upto(head, Minus(old.lib, 1)) = Upto(old.head, Minus(old.lib, 1))
  /\ \A k \in 1 .. Len(libs) : k <= Len(old.head) \/ libs[k] >= old.lib

\* A block and its parent have the same ancestors.
LEMMA SameAncestors ==
  ASSUME NEW h \in Blocks, NEW b \in Blocks, Previous(b) = h, NEW n \in 0 .. Len(h)
  PROVE  Upto(b, n) = Upto(h, n)
<1>1. Len(h) \in Nat /\ Len(b) = Len(h) + 1 /\ h = Upto(b, Len(h))
  BY ChildShape
<1>2. Len(h) \in 0 .. Len(b)
  BY <1>1
<1>3. Upto(Upto(b, Len(h)), n) = Upto(b, n)
  BY <1>2, UptoUpto
<1> QED BY <1>1, <1>3

LEMMA LibArithmetic ==
  ASSUME NEW h \in Nat, NEW d \in Nat, NEW e \in Nat, NEW lib \in Nat, NEW o \in Nat,
         e <= d + 1, lib + d <= h + 1, o + d <= h + 1, h + 2 - e \in Nat
  PROVE  /\ Larger(lib, h + 2 - e) \in Nat /\ Larger(lib, h + 2 - e) >= o
         /\ Larger(lib, h + 2 - e) + e <= h + 2
BY DEF Larger

LEMMA LibInvApply ==
  ASSUME TypeInv, LibInv, old' = old,
         NEW b \in Blocks, NEW m \in UndoSizes, Applies(b), Apply(b, m)
  PROVE  LibInv'
<1> DEFINE o == old.lib
           h == Len(head)
           l == NewLib(b, deltas')
<1>1. /\ h \in Nat /\ deltas \in Nat /\ m \in Nat /\ Lib \in Nat /\ libs \in Seq(Nat)
      /\ Len(libs) = h + 1 /\ head \in Blocks /\ old.head \in Blocks /\ o \in Nat
  BY Basics DEF TypeInv, SizeInv, TypeOK
<1>2. /\ Len(b) = h + 1 /\ Previous(b) = head /\ head' = b
      /\ libs' = Append(libs, l) /\ deltas' = Smaller(deltas + 1, m)
  BY ApplyShape DEF Apply, Applies
<1>3. deltas' \in Nat /\ deltas' <= deltas + 1
  BY <1>1, <1>2 DEF Smaller
<1>4. l = Larger(Lib, h + 2 - deltas') /\ h + 2 - deltas' \in Nat
  <2>1. deltas <= h + 1
    BY DEF TypeInv, SizeInv
  <2>2. Num(b) = h + 2
    BY <1>1, <1>2 DEF Num
  <2> QED BY <2>1, <2>2, <1>1, <1>3 DEF NewLib
<1>5. /\ \A k \in 1 .. h + 1 : libs[k] + deltas <= h + 1
      /\ \A k \in 1 .. h + 1 : k <= Len(old.head) \/ libs[k] >= o
      /\ o + deltas <= h + 1 /\ o <= Len(old.head) + 1
      /\ Upto(head, Minus(o, 1)) = Upto(old.head, Minus(o, 1))
  BY <1>1 DEF LibInv
<1>6. Lib + deltas <= h + 1
  BY <1>1, <1>5 DEF Lib
<1> HIDE DEF l, o, h
<1>7. l \in Nat /\ l + deltas' <= h + 2 /\ l >= o
  <2>1. o + deltas <= h + 1
    BY <1>5
  <2>2. h \in Nat /\ deltas \in Nat /\ Lib \in Nat /\ o \in Nat
    BY <1>1
  <2>3. Lib + deltas <= h + 1 /\ h + 2 - deltas' \in Nat
    BY <1>4, <1>6
  <2> QED BY <2>1, <2>2, <2>3, <1>3, <1>4, LibArithmetic
<1>8. /\ Len(libs') = h + 2 /\ libs'[h + 2] = l
      /\ \A k \in 1 .. h + 1 : libs'[k] = libs[k] /\ libs[k] \in Nat
  BY <1>1, <1>2, <1>7, AppendProperties, ElementOfSeq
<1>9. \A k \in 1 .. Len(libs') : k \in 1 .. h + 1 \/ k = h + 2
  BY <1>1, <1>8
<1>10. \A k \in 1 .. Len(libs') : libs'[k] + deltas' <= Len(head') + 1
  <2>1. ASSUME NEW k \in 1 .. h + 1 PROVE libs'[k] + deltas' <= h + 2
    <3>1. libs'[k] = libs[k] /\ libs[k] \in Nat /\ libs[k] + deltas <= h + 1
      BY <1>5, <1>8
    <3> QED BY <3>1, <1>1, <1>3
  <2>2. Len(head') + 1 = h + 2
    BY <1>1, <1>2
  <2> QED BY <2>1, <2>2, <1>7, <1>8, <1>9
<1>11. \A k \in 1 .. Len(libs') : k <= Len(old.head) \/ libs'[k] >= o
  BY <1>5, <1>7, <1>8, <1>9
<1>12. o + deltas' <= Len(head') + 1
  <2>1. o + deltas <= h + 1
    BY <1>5
  <2> QED BY <2>1, <1>1, <1>2, <1>3
<1>13. Upto(head', Minus(o, 1)) = Upto(old.head, Minus(o, 1))
  <2>1. Minus(o, 1) \in 0 .. Len(head)
    <3>1. o + deltas <= h + 1
      BY <1>5
    <3> QED BY <3>1, <1>1 DEF Minus, h
  <2> QED BY <2>1, <1>1, <1>2, <1>5, SameAncestors
<1>14. o <= Len(old.head) + 1
  BY <1>5
<1> QED BY <1>10, <1>11, <1>12, <1>13, <1>14 DEF LibInv, o

LEMMA LibInvPop ==
  ASSUME TypeInv, LibInv, old' = old, Undoing, PopUndone, CanPop
  PROVE  LibInv'
<1> DEFINE o == old.lib
           h == Len(head)
<1>1. /\ h \in Nat /\ deltas \in Nat /\ deltas > 0 /\ libs \in Seq(Nat)
      /\ Len(libs) = h + 1 /\ head \in Blocks /\ o \in Nat
  BY Basics DEF TypeInv, SizeInv, TypeOK, CanPop
<1>2. /\ Previous(head) = head' /\ head' \in Blocks /\ Len(head') = h - 1
      /\ Len(libs') = Len(head') + 1 /\ deltas' = deltas - 1
      /\ \A k \in 1 .. Len(libs') : libs'[k] = libs[k]
  BY PopShape
<1>3. \A k \in 1 .. Len(libs') : k \in 1 .. Len(libs) /\ libs[k] \in Nat
  BY <1>1, <1>2, ElementOfSeq
<1>4. /\ \A k \in 1 .. Len(libs) : libs[k] + deltas <= h + 1
      /\ \A k \in 1 .. Len(libs) : k <= Len(old.head) \/ libs[k] >= o
      /\ o + deltas <= h + 1 /\ o <= Len(old.head) + 1
      /\ Upto(head, Minus(o, 1)) = Upto(old.head, Minus(o, 1))
  BY DEF LibInv
<1> HIDE DEF o
<1>5. \A k \in 1 .. Len(libs') : libs'[k] + deltas' <= Len(head') + 1
  BY <1>1, <1>2, <1>3, <1>4
<1>6. o + deltas' <= Len(head') + 1
  BY <1>1, <1>2, <1>4
<1>7. Upto(head', Minus(o, 1)) = Upto(old.head, Minus(o, 1))
  <2>1. Minus(o, 1) \in 0 .. Len(head')
    BY <1>1, <1>2, <1>4 DEF Minus
  <2> QED BY <2>1, <1>1, <1>2, <1>4, SameAncestors
<1>8. \A k \in 1 .. Len(libs') : k <= Len(old.head) \/ libs'[k] >= o
  BY <1>2, <1>3, <1>4
<1> QED BY <1>4, <1>5, <1>6, <1>7, <1>8 DEF LibInv, o

\* When the chain stays, deltas may be dropped, and the record of the call may
\* be made or forgotten.
LEMMA LibInvStill ==
  ASSUME TypeInv, SizeInv', LibInv, UNCHANGED <<head, libs>>, deltas' <= deltas,
         \/ old' = old
         \/ old'.head = head /\ old'.lib = Lib
         \/ old' = NoCall
  PROVE  LibInv'
<1>0. deltas' \in Nat
  <2>1. max_size' \in UndoSizes /\ deltas' \in 0 .. max_size'
    BY DEF TypeInv, SizeInv, TypeOK
  <2> QED BY <2>1, ChainAssumption
<1>1. /\ Len(head) \in Nat /\ deltas \in Nat /\ deltas' \in Nat /\ libs \in Seq(Nat)
      /\ Len(libs) = Len(head) + 1 /\ head \in Blocks /\ Lib \in Nat /\ old.lib \in Nat
  BY <1>0, Basics DEF TypeInv, SizeInv, TypeOK
<1>2. \A k \in 1 .. Len(libs) : libs[k] \in Nat /\ libs[k] + deltas <= Len(head) + 1
  BY <1>1, ElementOfSeq DEF LibInv
<1>3. \A k \in 1 .. Len(libs) : libs[k] + deltas' <= Len(head) + 1
  BY <1>1, <1>2
<1>4. CASE old' = old
  <2>1. old.lib + deltas' <= Len(head) + 1
    BY <1>1 DEF LibInv
  <2> QED BY <1>3, <1>4, <2>1 DEF LibInv
<1>5. CASE old'.head = head /\ old'.lib = Lib
  <2>1. Lib + deltas' <= Len(head) + 1 /\ Lib <= Len(head) + 1
    <3>1. Len(libs) \in 1 .. Len(libs)
      BY <1>1
    <3>2. Lib + deltas <= Len(head) + 1
      BY <3>1, <1>2 DEF Lib
    <3> QED BY <3>2, <1>1
  <2>2. \A k \in 1 .. Len(libs) : k <= Len(head) \/ libs[k] >= Lib
    <3>1. \A k \in 1 .. Len(libs) : k <= Len(head) \/ k = Len(libs)
      BY <1>1
    <3> QED BY <3>1, <1>1 DEF Lib
  <2> QED BY <1>3, <1>5, <2>1, <2>2 DEF LibInv
<1>6. CASE old' = NoCall
  <2>1. old'.head = Root /\ old'.lib = 0 /\ Len(Root) = 0 /\ Root \in Blocks
    BY <1>6, PreviousShape DEF NoCall
  <2>2. Minus(0, 1) = 0
    BY DEF Minus
  <2>3. Upto(head, 0) = Root /\ Upto(Root, 0) = Root
    <3>1. 0 \in 0 .. Len(head) /\ 0 \in 0 .. Len(Root)
      BY <1>1, <2>1
    <3> QED BY <3>1, <2>1, <1>1, UptoShape, PreviousShape
  <2>4. 0 + deltas' <= Len(head) + 1 /\ 0 <= Len(Root) + 1
    <3>1. deltas <= Len(head) + 1
      BY DEF TypeInv, SizeInv
    <3> QED BY <3>1, <1>1, <2>1
  <2>5. \A k \in 1 .. Len(libs) : libs[k] >= 0
    BY <1>2
  <2> QED BY <1>3, <2>1, <2>2, <2>3, <2>4, <2>5 DEF LibInv
<1> QED BY <1>4, <1>5, <1>6

LEMMA LibInvStep ==
  ASSUME TypeInv, LibInv, Next
  PROVE  LibInv'
<1>0. SizeInv'
  BY SizeInvStep
<1>1. \/ old' = old
      \/ old'.head = head /\ old'.lib = Lib /\ UNCHANGED <<head, libs, trxs>>
      \/ old' = NoCall /\ UNCHANGED <<head, libs, trxs>>
  <2>1. ASSUME NEW b \in Blocks, Enter(b) PROVE old'.head = head /\ old'.lib = Lib
    BY <2>1, EnterShape
  <2> QED BY <2>1, OldStep DEF chainvars
<1>2. ASSUME NEW b \in Blocks, NEW m \in UndoSizes, Applies(b), Apply(b, m)
      PROVE  LibInv'
  <2>1. head' # head
    <3>1. Len(b) = Len(head) + 1 /\ head' = b /\ Len(head) \in Nat
      BY <1>2, ApplyShape, Basics DEF Apply
    <3> QED BY <3>1
  <2> QED BY <2>1, <1>1, <1>2, LibInvApply
<1>3. CASE Undoing /\ PopUndone /\ CanPop
  <2>1. head' # head
    <3>1. Len(head') = Len(head) - 1 /\ Len(head) \in Nat
      BY <1>3, PopShape, Basics
    <3> QED BY <3>1
  <2> QED BY <2>1, <1>1, <1>3, LibInvPop
<1>4. CASE UNCHANGED <<head, libs, trxs>> /\ deltas' <= deltas
  BY <1>0, <1>1, <1>4, LibInvStill
<1> QED BY <1>2, <1>3, <1>4, ChainStep

LEMMA LibInvInit == Init => LibInv
<1> SUFFICES ASSUME Init PROVE LibInv
  OBVIOUS
<1>1. /\ head = Root /\ old.head = Root /\ old.lib = 0 /\ deltas = 0 /\ Len(Root) = 0
      /\ Len(libs) = 1 /\ libs[1] = 0
  BY PreviousShape DEF Init, NoCall
<1>2. \A k \in 1 .. Len(libs) : libs[k] = 0
  BY <1>1
<1> QED BY <1>1, <1>2 DEF LibInv

LEMMA LibInvNext == TypeInv /\ LibInv /\ [Next]_vars => LibInv'
<1>1. ASSUME LibInv, UNCHANGED vars PROVE LibInv'
  BY <1>1 DEF LibInv, vars, chainvars, callvars
<1> QED BY <1>1, LibInvStep

\* The blocks up to the irreversible one that push_block found.
IrreversibleKept ==
  Upto(head, Minus(old.lib, 1)) = Upto(old.head, Minus(old.lib, 1))

\* Whatever a fork switch pops, at every moment of it and of its unwinding, even
\* when it breaks off, the irreversible blocks stay: the deltas that would undo
\* them are gone.
THEOREM IrreversibleBlocksStay == Spec => []IrreversibleKept
<1>1. LibInv => IrreversibleKept
  BY DEF LibInv, IrreversibleKept
<1>2. SpecInv => TypeInv
  BY DEF SpecInv
<1> QED BY <1>1, <1>2, SpecInvInit, SpecInvNext, LibInvInit, LibInvNext, PTL DEF Spec

LEMMA NumberStays == TypeInv /\ LibInv => (Unwound => IrreversibleStays)
<1>1. ASSUME TypeInv, LibInv, Unwound PROVE IrreversibleStays
  <2> SUFFICES ASSUME Done PROVE Lib >= old.lib /\ IrreversibleKept
    BY DEF IrreversibleStays, IrreversibleKept
  <2>1. Len(head) >= Len(old.head) /\ Len(old.head) \in Nat /\ Len(head) \in Nat
    <3>1. Len(head) \in Nat /\ Len(old.head) \in Nat
      BY Basics, BlockSeq DEF TypeInv, SizeInv, TypeOK
    <3> QED BY <3>1, <1>1 DEF Unwound, Height
  <2>2. Len(libs) \in 1 .. Len(libs) /\ ~(Len(libs) <= Len(old.head))
    BY <2>1, <1>1, Basics
  <2> QED BY <2>2, <1>1 DEF LibInv, Lib, IrreversibleKept
<1> QED BY <1>1

\* And the irreversible number does not go back, unless a broken unwinding left
\* a shorter chain: it is undone with every popped block, but any block that is
\* applied raises it at least to where it was.
THEOREM IrreversibleNumberStays == Spec => [](Unwound => IrreversibleStays)
<1>1. SpecInv => TypeInv
  BY DEF SpecInv
<1> QED BY NumberStays, <1>1, SpecInvInit, SpecInvNext, LibInvInit, LibInvNext, PTL DEF Spec

-----------------------------------------------------------------------------
(* No transaction is lost.                                                  *)

\* Between calls nothing waits.  ids, on which the restorer drops a popped
\* transaction, holds only transactions of the chain as long as no block has
\* failed; the transactions of the old chain and those that were pending are
\* never all at risk: before the restorer runs the latter are in its queue.
KeptInv ==
  /\ phase = "idle" => old = NoCall /\ popped = << >> /\ queue = << >>
  /\ phase = "popping" => ids = {}
  /\ phase # "restoring" => ~err
  /\ phase \in {"direct", "pushing"} \/ (phase = "restoring" /\ ~err) => ids \subseteq trxs
  /\ phase # "restoring" => old.txs \subseteq ChainTxs(old.head) \cup Elements(queue)
  /\ old.txs \subseteq
       ChainTxs(old.head) \cup trxs \cup Elements(pending) \cup Elements(queue)
  /\ ~err => old.txs \ NotRepushed \subseteq
       trxs \cup Elements(pending) \cup Elements(popped) \cup Elements(queue)

LEMMA ConcatElements ==
  ASSUME NEW S, NEW r \in Seq(S), NEW s \in Seq(S)
  PROVE  Elements(r \o s) = Elements(r) \cup Elements(s)
<1>1. /\ r \o s \in Seq(S) /\ Len(r \o s) = Len(r) + Len(s)
      /\ Len(r) \in Nat /\ Len(s) \in Nat
      /\ DOMAIN r = 1 .. Len(r) /\ DOMAIN s = 1 .. Len(s)
      /\ \A i \in 1 .. Len(r) + Len(s) :
           (r \o s)[i] = IF i <= Len(r) THEN r[i] ELSE s[i - Len(r)]
  BY ConcatProperties, LenProperties
<1>2. DOMAIN (r \o s) = 1 .. Len(r) + Len(s)
  BY <1>1, LenProperties
<1>3. ASSUME NEW x \in Elements(r \o s) PROVE x \in Elements(r) \cup Elements(s)
  <2>1. PICK i \in 1 .. Len(r) + Len(s) : x = (r \o s)[i]
    BY <1>2 DEF Elements
  <2>2. CASE i <= Len(r)
    BY <2>1, <2>2, <1>1 DEF Elements
  <2>3. CASE ~(i <= Len(r))
    <3>1. i - Len(r) \in 1 .. Len(s) /\ x = s[i - Len(r)]
      BY <2>1, <2>3, <1>1
    <3> QED BY <3>1, <1>1 DEF Elements
  <2> QED BY <2>2, <2>3
<1>4. ASSUME NEW x \in Elements(r) PROVE x \in Elements(r \o s)
  <2>1. PICK i \in 1 .. Len(r) : x = r[i]
    BY <1>1 DEF Elements
  <2>2. i \in 1 .. Len(r) + Len(s) /\ (r \o s)[i] = x
    BY <2>1, <1>1
  <2> QED BY <2>2, <1>2 DEF Elements
<1>5. ASSUME NEW x \in Elements(s) PROVE x \in Elements(r \o s)
  <2>1. PICK j \in 1 .. Len(s) : x = s[j]
    BY <1>1 DEF Elements
  <2>2. /\ Len(r) + j \in 1 .. Len(r) + Len(s) /\ ~(Len(r) + j <= Len(r))
        /\ Len(r) + j - Len(r) = j
    BY <2>1, <1>1
  <2>3. (r \o s)[Len(r) + j] = x
    BY <2>1, <2>2, <1>1
  <2> QED BY <2>2, <2>3, <1>2 DEF Elements
<1> QED BY <1>3, <1>4, <1>5

LEMMA TailElements ==
  ASSUME NEW S, NEW s \in Seq(S), s # << >>
  PROVE  /\ Elements(s) = {Head(s)} \cup Elements(Tail(s))
         /\ \A i \in 1 .. Len(Tail(s)) : i + 1 \in 1 .. Len(s) /\ Tail(s)[i] = s[i + 1]
<1>1. /\ Len(s) \in Nat \ {0} /\ DOMAIN s = 1 .. Len(s) /\ Head(s) = s[1]
      /\ Tail(s) \in Seq(S) /\ Len(Tail(s)) = Len(s) - 1
      /\ \A i \in 1 .. Len(Tail(s)) : Tail(s)[i] = s[i + 1]
  BY EmptySeq, LenProperties, HeadTailProperties
<1>2. DOMAIN Tail(s) = 1 .. Len(s) - 1
  BY <1>1, LenProperties
<1>3. \A i \in 1 .. Len(Tail(s)) : i + 1 \in 1 .. Len(s)
  BY <1>1
<1>4. ASSUME NEW x \in Elements(s) PROVE x \in {Head(s)} \cup Elements(Tail(s))
  <2>1. PICK i \in 1 .. Len(s) : x = s[i]
    BY <1>1 DEF Elements
  <2>2. CASE i = 1
    BY <2>1, <2>2, <1>1
  <2>3. CASE i # 1
    <3>1. i - 1 \in 1 .. Len(s) - 1 /\ i - 1 + 1 = i
      BY <2>3, <1>1
    <3>2. Tail(s)[i - 1] = s[i - 1 + 1]
      BY <3>1, <1>1
    <3> QED BY <3>1, <3>2, <2>1, <1>2 DEF Elements
  <2> QED BY <2>2, <2>3
<1>5. ASSUME NEW x \in Elements(Tail(s)) PROVE x \in Elements(s)
  BY <1>1, <1>2, <1>3, <1>5 DEF Elements
<1>6. Head(s) \in Elements(s)
  <2>1. 1 \in 1 .. Len(s)
    BY <1>1
  <2> QED BY <2>1, <1>1 DEF Elements
<1> QED BY <1>1, <1>3, <1>4, <1>5, <1>6

\* The actions of a push_block at work.
LEMMA WorkNext ==
  ASSUME Next, phase \in Elsewhere
  PROVE  \/ \E m \in UndoSizes : push_direct(m) \/ switch_push(m) \/ switch_reapply(m)
         \/ switch_pop \/ switch_unwind
BY DEF Next, CallStep, Elsewhere, restore_popped, restore_next, validate_transaction,
       generate_block_too_large, push_block, push_transaction, generate_block

\* While push_block works, transactions go from the chain to popped and onto
\* the chain; none of these is forgotten.
LEMMA WorkStep ==
  ASSUME TypeInv, Next, phase \in Elsewhere
  PROVE  /\ UNCHANGED <<old, queue, pending, session>>
         /\ phase' \in Elsewhere \cup {"restoring"}
         /\ trxs \cup Elements(popped) \subseteq trxs' \cup Elements(popped')
<1> DEFINE Kept == /\ UNCHANGED <<old, queue, pending, session>>
                   /\ phase' \in Elsewhere \cup {"restoring"}
                   /\ trxs \cup Elements(popped) \subseteq trxs' \cup Elements(popped')
<1>t. head \in Blocks /\ popped \in Seq(Txs)
  BY DEF TypeInv, SizeInv, TypeOK
<1>a. ASSUME pop_block PROVE trxs \cup Elements(popped) \subseteq trxs' \cup Elements(popped')
  <2>1. CASE CanPop
    <3>1. trxs' = trxs \ Elements(TxsOf(head)) /\ popped' = TxsOf(head) \o popped
      BY <1>a, <2>1 DEF pop_block, PopUndone
    <3>2. Elements(popped') = Elements(TxsOf(head)) \cup Elements(popped)
      BY <3>1, <1>t, TxsType, ConcatElements
    <3> QED BY <3>1, <3>2
  <2>2. CASE ~CanPop
    BY <1>a, <2>2 DEF pop_block
  <2> QED BY <2>1, <2>2
<1>b. ASSUME NEW b, NEW m, Apply(b, m) \/ FailToApply(b, m) PROVE trxs \subseteq trxs'
  BY <1>b DEF Apply, FailToApply
<1>1. ASSUME NEW m \in UndoSizes, push_direct(m) PROVE Kept
  BY <1>1, <1>b DEF push_direct, Return
<1>2. ASSUME NEW m \in UndoSizes, switch_push(m) PROVE Kept
  <2>1. CASE first = << >>
    BY <1>2, <2>1 DEF switch_push, Return, chainvars, txvars
  <2>2. CASE first # << >>
    BY <1>2, <2>2, <1>b DEF switch_push, Goto, Elsewhere
  <2> QED BY <2>1, <2>2
<1>3. ASSUME NEW m \in UndoSizes, switch_reapply(m) PROVE Kept
  <2>1. CASE left = << >>
    BY <1>3, <2>1 DEF switch_reapply, Return, chainvars
  <2>2. CASE left # << >>
    BY <1>3, <2>2, <1>b DEF switch_reapply, Return
  <2> QED BY <2>1, <2>2
<1>c. ASSUME pop_block, IF CanPop THEN UNCHANGED callvars ELSE Return(TRUE) PROVE Kept
  <2>1. UNCHANGED <<old, queue, pending, session>> /\ phase' \in Elsewhere \cup {"restoring"}
    BY <1>c DEF pop_block, callvars, Return
  <2> QED BY <2>1, <1>a, <1>c
<1>d. ASSUME Return(TRUE), UNCHANGED <<chainvars, forkvars, txvars>> PROVE Kept
  BY <1>d DEF Return, chainvars, txvars
<1>4. switch_pop => Kept
  <2>1. CASE AtFork
    BY <2>1 DEF switch_pop, Goto, chainvars, txvars, Elsewhere
  <2> HIDE DEF Kept
  <2> QED BY <2>1, <1>c, <1>d DEF switch_pop
<1>5. switch_unwind => Kept
  <2>1. CASE AtFork
    BY <2>1 DEF switch_unwind, chainvars, txvars, Elsewhere
  <2> HIDE DEF Kept
  <2> QED BY <2>1, <1>c, <1>d DEF switch_unwind
<1> HIDE DEF Kept
<1>7. Kept
  BY <1>1, <1>2, <1>3, <1>4, <1>5, WorkNext
<1> QED BY <1>7 DEF Kept

\* The restorer takes one transaction and pushes it, or leaves it out; at the
\* end push_block returns.
Restores(t) ==
  /\ phase' = "restoring" /\ UNCHANGED <<head, trxs, ids, err, old>>
  /\ (t \in trxs \cup session /\ pending' = pending) \/ pending' = Append(pending, t)

LEMMA RestoreStep ==
  ASSUME TypeInv, Next, phase = "restoring"
  PROVE  \/ /\ popped # << >> /\ popped' = Tail(popped) /\ queue' = queue
            /\ \/ Restores(Head(popped))
               \/ /\ Head(popped) \in ids \cup NotRepushed
                  /\ phase' = "restoring" /\ UNCHANGED <<head, trxs, pending, ids, err, old>>
         \/ /\ popped = << >> /\ popped' = << >> /\ queue # << >> /\ queue' = Tail(queue)
            /\ Restores(Head(queue))
         \/ /\ phase' = "idle" /\ popped' = << >> /\ queue' = << >>
            /\ old' = NoCall /\ err' = FALSE
<1> DEFINE FromPopped ==
             /\ popped # << >> /\ popped' = Tail(popped) /\ queue' = queue
             /\ \/ Restores(Head(popped))
                \/ /\ Head(popped) \in ids \cup NotRepushed
                   /\ phase' = "restoring" /\ UNCHANGED <<head, trxs, pending, ids, err, old>>
           FromQueue ==
             /\ popped = << >> /\ popped' = << >> /\ queue # << >> /\ queue' = Tail(queue)
             /\ Restores(Head(queue))
           Leaves ==
             /\ phase' = "idle" /\ popped' = << >> /\ queue' = << >>
             /\ old' = NoCall /\ err' = FALSE
<1>a. ASSUME NEW t, PushTx(t), UNCHANGED <<callvars, ids>> PROVE Restores(t)
  BY <1>a DEF PushTx, Restores, callvars
<1>1. restore_popped => FromPopped
  <2>1. ASSUME restore_popped, Head(popped) \in ids \cup NotRepushed PROVE FromPopped
    BY <2>1 DEF restore_popped, chainvars, callvars
  <2>2. ASSUME restore_popped, Head(popped) \notin ids \cup NotRepushed PROVE FromPopped
    BY <2>2, <1>a DEF restore_popped
  <2> QED BY <2>1, <2>2
<1>2. restore_next => FromQueue \/ Leaves
  <2>1. ASSUME restore_next, queue = << >> PROVE Leaves
    BY <2>1 DEF restore_next
  <2>2. ASSUME restore_next, queue # << >>, Head(queue) \in trxs PROVE FromQueue
    BY <2>2 DEF restore_next, Restores, chainvars, callvars
  <2>3. ASSUME restore_next, queue # << >>, Head(queue) \notin trxs PROVE FromQueue
    BY <2>3, <1>a DEF restore_next
  <2> QED BY <2>1, <2>2, <2>3
<1>3. /\ ~switch_pop /\ ~switch_unwind /\ ~validate_transaction /\ ~generate_block_too_large
      /\ \A b \in Blocks : ~push_block(b)
      /\ \A t \in Txs : ~push_transaction(t)
      /\ \A y \in Bodies : ~generate_block(y)
      /\ \A m \in UndoSizes : ~push_direct(m) /\ ~switch_push(m) /\ ~switch_reapply(m)
  BY DEF switch_pop, switch_unwind, validate_transaction,
         generate_block_too_large, push_block, push_transaction, generate_block,
         push_direct, switch_push, switch_reapply
<1> HIDE DEF FromPopped, FromQueue, Leaves
<1>4. FromPopped \/ FromQueue \/ Leaves
  BY <1>1, <1>2, <1>3 DEF Next, CallStep
<1> QED BY <1>4 DEF FromPopped, FromQueue, Leaves

\* Between calls a step leaves things so, or enters push_block.
LEMMA IdleStep ==
  ASSUME TypeInv, Next, phase = "idle"
  PROVE  \/ phase' = "idle" /\ UNCHANGED <<old, popped, queue, err, ids>>
         \/ /\ UNCHANGED <<head, libs, trxs, store, popped>>
            /\ \E b \in Blocks : Enter(b)
<1> DEFINE Idles == phase' = "idle" /\ UNCHANGED <<old, popped, queue, err, ids>>
           Enters == /\ UNCHANGED <<head, libs, trxs, store, popped>>
                     /\ \E b \in Blocks : Enter(b)
<1>1. ASSUME NEW b \in Blocks, push_block(b) PROVE Enters
  BY <1>1 DEF push_block, chainvars
<1>2. ASSUME NEW t \in Txs, push_transaction(t) PROVE Idles
  BY <1>2 DEF push_transaction, callvars
<1>3. validate_transaction => Idles
  BY DEF validate_transaction, callvars, txvars
<1>4. generate_block_too_large => Idles
  BY DEF generate_block_too_large, callvars
<1>5. ASSUME NEW y \in Bodies, generate_block(y) PROVE Enters
  BY <1>5, GeneratedBlock DEF generate_block
<1>6. /\ ~switch_pop /\ ~switch_unwind /\ ~restore_popped /\ ~restore_next
      /\ \A m \in UndoSizes : ~push_direct(m) /\ ~switch_push(m) /\ ~switch_reapply(m)
  BY DEF switch_pop, switch_unwind, restore_popped, restore_next,
         push_direct, switch_push, switch_reapply
<1> HIDE DEF Idles, Enters
<1>7. Idles \/ Enters
  BY <1>1, <1>2, <1>3, <1>4, <1>5, <1>6 DEF Next, CallStep
<1> QED BY <1>7 DEF Idles, Enters

\* As long as no block fails, ids is what the call has put on the chain.
LEMMA IdsStep ==
  ASSUME TypeInv, Next, phase \in Elsewhere, KeptInv
  PROVE  /\ phase' = "popping" => ids' = {}
         /\ phase' # "restoring" => ~err'
         /\ phase' \in {"direct", "pushing"} \/ (phase' = "restoring" /\ ~err')
              => ids' \subseteq trxs'
<1> DEFINE Good == /\ phase' = "popping" => ids' = {}
                   /\ phase' # "restoring" => ~err'
                   /\ phase' \in {"direct", "pushing"} \/ (phase' = "restoring" /\ ~err')
                        => ids' \subseteq trxs'
<1>0. /\ phase = "popping" => ids = {}
      /\ ~err /\ (phase \in {"direct", "pushing"} => ids \subseteq trxs)
  BY DEF KeptInv, Elsewhere
<1>a. ASSUME NEW b, NEW m, Apply(b, m), ids \subseteq trxs PROVE ids' \subseteq trxs'
  BY <1>a DEF Apply
<1>1. ASSUME NEW m \in UndoSizes, push_direct(m) PROVE Good
  BY <1>0, <1>1, <1>a DEF push_direct, Return
<1>2. ASSUME NEW m \in UndoSizes, switch_push(m) PROVE Good
  <2>1. CASE first = << >>
    BY <1>0, <1>2, <2>1 DEF switch_push, Return, chainvars, txvars
  <2>2. CASE first # << >>
    BY <1>0, <1>2, <2>2, <1>a DEF switch_push, Goto
  <2> QED BY <2>1, <2>2
<1>3. ASSUME NEW m \in UndoSizes, switch_reapply(m) PROVE Good
  BY <1>0, <1>3 DEF switch_reapply, Return
<1>b. ASSUME pop_block, IF CanPop THEN UNCHANGED callvars ELSE Return(TRUE),
             phase \in {"popping", "unwinding"}
      PROVE  Good
  BY <1>0, <1>b DEF pop_block, callvars, Return
<1>c. ASSUME Return(TRUE) PROVE Good
  BY <1>c DEF Return
<1>4. switch_pop => Good
  <2>1. ASSUME switch_pop, AtFork PROVE Good
    BY <1>0, <2>1 DEF switch_pop, Goto, txvars
  <2> HIDE DEF Good
  <2> QED BY <2>1, <1>b, <1>c DEF switch_pop
<1>5. switch_unwind => Good
  <2>1. ASSUME switch_unwind, AtFork PROVE Good
    BY <1>0, <2>1 DEF switch_unwind
  <2> HIDE DEF Good
  <2> QED BY <2>1, <1>b, <1>c DEF switch_unwind
<1> HIDE DEF Good
<1>7. Good
  BY <1>1, <1>2, <1>3, <1>4, <1>5, WorkNext
<1> QED BY <1>7 DEF Good

\* A transaction the restorer has taken is on the chain or pending.
LEMMA RestoresKeeps ==
  ASSUME TypeInv, PendingInv, NEW t \in Txs, Restores(t)
  PROVE  /\ t \in trxs \cup Elements(pending')
         /\ Elements(pending) \subseteq Elements(pending')
<1>1. pending \in Seq(Txs)
  BY DEF TypeInv, SizeInv, TypeOK
<1>2. Elements(Append(pending, t)) = Elements(pending) \cup {t}
  BY <1>1, AppendElements
<1>3. session \subseteq Elements(pending)
  BY DEF PendingInv
<1> QED BY <1>2, <1>3 DEF Restores

LEMMA KeptInvStep ==
  ASSUME TypeInv, AppliedOnce, PendingInv, KeptInv, Next
  PROVE  KeptInv'
<1>t. /\ popped \in Seq(Txs) /\ queue \in Seq(Txs) /\ phase \in Phases
      /\ Elements(<< >>) = {}
  BY EmptySeq DEF TypeInv, SizeInv, TypeOK, Elements
<1>n. NoCall.txs = {}
  BY DEF NoCall
<1>1. CASE phase = "idle"
  <2>0. old = NoCall /\ popped = << >> /\ queue = << >> /\ ~err /\ trxs = ChainTxs(head)
    BY <1>1 DEF KeptInv, AppliedOnce
  <2>1. CASE phase' = "idle" /\ UNCHANGED <<old, popped, queue, err, ids>>
    BY <2>0, <2>1, <1>n DEF KeptInv
  <2>2. ASSUME UNCHANGED <<head, libs, trxs, store, popped>>, NEW b \in Blocks, Enter(b)
        PROVE  KeptInv'
    <3>1. /\ old'.head = head /\ old'.txs = ChainTxs(head) \cup Elements(pending)
          /\ queue' = pending /\ ids' = {} /\ phase' \in {"direct", "popping", "restoring"}
          /\ phase' \in {"direct", "popping"} => ~err'
      BY <2>2, EnterShape
    <3>2. old'.txs \subseteq ChainTxs(old'.head) \cup Elements(queue')
      BY <3>1
    <3>3. old'.txs \subseteq trxs' \cup Elements(queue')
      BY <3>1, <2>0, <2>2
    <3> QED BY <3>1, <3>2, <3>3 DEF KeptInv
  <2> QED BY <2>1, <2>2, <1>1, IdleStep
<1>2. CASE phase \in Elsewhere
  <2>0. /\ ~err /\ old.txs \subseteq ChainTxs(old.head) \cup Elements(queue)
        /\ old.txs \ NotRepushed \subseteq
             trxs \cup Elements(pending) \cup Elements(popped) \cup Elements(queue)
    BY <1>2 DEF KeptInv, Elsewhere
  <2>1. /\ UNCHANGED <<old, queue, pending, session>>
        /\ phase' \in Elsewhere \cup {"restoring"}
        /\ trxs \cup Elements(popped) \subseteq trxs' \cup Elements(popped')
    BY <1>2, WorkStep
  <2>2. /\ phase' = "popping" => ids' = {}
        /\ phase' # "restoring" => ~err'
        /\ phase' \in {"direct", "pushing"} \/ (phase' = "restoring" /\ ~err')
             => ids' \subseteq trxs'
    BY <1>2, IdsStep
  <2>3. old'.txs \ NotRepushed \subseteq
          trxs' \cup Elements(pending') \cup Elements(popped') \cup Elements(queue')
    BY <2>0, <2>1
  <2>4. old'.txs \subseteq ChainTxs(old'.head) \cup Elements(queue')
    BY <2>0, <2>1
  <2>5. phase' # "idle"
    BY <2>1 DEF Elsewhere
  <2> QED BY <2>2, <2>3, <2>4, <2>5 DEF KeptInv
<1>3. CASE phase = "restoring"
  <2>0. /\ ~err => ids \subseteq trxs
        /\ old.txs \subseteq
             ChainTxs(old.head) \cup trxs \cup Elements(pending) \cup Elements(queue)
        /\ ~err => old.txs \ NotRepushed \subseteq
             trxs \cup Elements(pending) \cup Elements(popped) \cup Elements(queue)
    BY <1>3 DEF KeptInv
  <2> DEFINE A == old'.txs \subseteq
             ChainTxs(old'.head) \cup trxs' \cup Elements(pending') \cup Elements(queue')
             B == ~err' => old'.txs \ NotRepushed \subseteq
             trxs' \cup Elements(pending') \cup Elements(popped') \cup Elements(queue')
  <2>a. ASSUME phase' = "restoring", UNCHANGED <<trxs, ids, err, old>>, A, B PROVE KeptInv'
    BY <2>a, <2>0 DEF KeptInv
  <2>1. ASSUME popped # << >>, popped' = Tail(popped), queue' = queue, Restores(Head(popped))
        PROVE  KeptInv'
    <3>1. Head(popped) \in Txs
      BY <2>1, <1>t, HeadTailProperties
    <3>2. Elements(popped) = {Head(popped)} \cup Elements(popped')
      BY <2>1, <1>t, TailElements
    <3>3. /\ Head(popped) \in trxs \cup Elements(pending')
          /\ Elements(pending) \subseteq Elements(pending')
      BY <2>1, <3>1, RestoresKeeps
    <3>4. phase' = "restoring" /\ UNCHANGED <<trxs, ids, err, old>>
      BY <2>1 DEF Restores
    <3>5. A /\ B
      BY <2>0, <2>1, <3>2, <3>3, <3>4
    <3> QED BY <3>4, <3>5, <2>a
  <2>2. ASSUME popped # << >>, popped' = Tail(popped), queue' = queue,
               Head(popped) \in ids \cup NotRepushed,
               phase' = "restoring", UNCHANGED <<head, trxs, pending, ids, err, old>>
        PROVE  KeptInv'
    <3>1. Elements(popped) = {Head(popped)} \cup Elements(popped')
      BY <2>2, <1>t, TailElements
    <3>2. A /\ B
      BY <2>0, <2>2, <3>1
    <3> QED BY <2>2, <3>2, <2>a
  <2>3. ASSUME popped = << >>, popped' = << >>, queue # << >>, queue' = Tail(queue),
               Restores(Head(queue))
        PROVE  KeptInv'
    <3>1. Head(queue) \in Txs
      BY <2>3, <1>t, HeadTailProperties
    <3>2. Elements(queue) = {Head(queue)} \cup Elements(queue')
      BY <2>3, <1>t, TailElements
    <3>3. /\ Head(queue) \in trxs \cup Elements(pending')
          /\ Elements(pending) \subseteq Elements(pending')
      BY <2>3, <3>1, RestoresKeeps
    <3>4. phase' = "restoring" /\ UNCHANGED <<trxs, ids, err, old>>
      BY <2>3 DEF Restores
    <3>5. A /\ B
      BY <2>0, <2>3, <3>2, <3>3, <3>4
    <3> QED BY <3>4, <3>5, <2>a
  <2>4. ASSUME phase' = "idle", popped' = << >>, queue' = << >>, old' = NoCall, err' = FALSE
        PROVE  KeptInv'
    BY <2>4, <1>n DEF KeptInv
  <2> QED BY <2>1, <2>2, <2>3, <2>4, <1>3, RestoreStep
<1> QED BY <1>1, <1>2, <1>3, <1>t DEF Phases, Elsewhere

LEMMA KeptInvInit == Init => KeptInv
<1> SUFFICES ASSUME Init PROVE KeptInv
  OBVIOUS
<1>1. /\ phase = "idle" /\ old = NoCall /\ popped = << >> /\ queue = << >> /\ err = FALSE
  BY DEF Init
<1>2. old.txs = {}
  BY <1>1 DEF NoCall
<1> QED BY <1>1, <1>2 DEF KeptInv

\* What the other invariants rest on.
PoolInv == TypeInv /\ AppliedOnce /\ PendingInv /\ KeptInv

LEMMA PoolInvInit == Init => PoolInv /\ DeltaInv
BY SpecInvInit, AppliedOnceInit, PendingInvInit, KeptInvInit DEF PoolInv, SpecInv

LEMMA PoolInvNext ==
  /\ PoolInv /\ [Next]_vars => AppliedOnce' /\ PendingInv' /\ KeptInv'
  /\ PoolInv /\ DeltaInv /\ [Next]_vars => PoolInv' /\ DeltaInv'
<1>1. ASSUME AppliedOnce, PendingInv, KeptInv, UNCHANGED vars
      PROVE  AppliedOnce' /\ PendingInv' /\ KeptInv'
  <2>1. UNCHANGED <<head, trxs>> /\ UNCHANGED txvars /\ UNCHANGED callvars
    BY <1>1 DEF vars, chainvars
  <2>2. AppliedOnce'
    BY <1>1, <2>1 DEF AppliedOnce
  <2>3. PendingInv'
    BY <1>1, <2>1 DEF PendingInv, txvars, callvars
  <2>4. KeptInv'
    BY <1>1, <2>1 DEF KeptInv, txvars, callvars
  <2> QED BY <2>2, <2>3, <2>4
<1>2. ASSUME PoolInv, Next PROVE AppliedOnce' /\ PendingInv' /\ KeptInv'
  BY <1>2, AppliedOnceStep, PendingInvStep, KeptInvStep DEF PoolInv
<1> QED BY <1>1, <1>2, SpecInvNext DEF PoolInv, SpecInv

LEMMA NoneLost == PoolInv => (Unwound => NoTxLost)
<1>1. ASSUME PoolInv, Unwound PROVE NoTxLost
  <2> SUFFICES ASSUME Done PROVE old.txs \ NotRepushed \subseteq ChainTxs(head) \cup Elements(pending)
    BY DEF NoTxLost
  <2>1. popped = << >> /\ queue = << >> /\ Elements(<< >>) = {} /\ trxs = ChainTxs(head)
    BY <1>1, EmptySeq DEF Done, Elements, PoolInv, AppliedOnce
  <2>2. CASE err
    <3>1. head = old.head
      BY <2>2, <1>1 DEF Unwound
    <3> QED BY <2>1, <3>1, <1>1 DEF PoolInv, KeptInv
  <2>3. CASE ~err
    BY <2>1, <2>3, <1>1 DEF PoolInv, KeptInv
  <2> QED BY <2>2, <2>3
<1> QED BY <1>1

\* Unless a failed switch could not be unwound, every transaction that was on
\* the chain or pending when a block was pushed is on the chain or pending when
\* push_block is left, but for those the restorer leaves out on purpose.  The
\* condition is needed: _apply_block records the ids of transactions whose block
\* then fails, and the restorer takes those for applied.
THEOREM TransactionsKept == Spec => [](Unwound => NoTxLost)
BY NoneLost, PoolInvInit, PoolInvNext, PTL DEF Spec

-----------------------------------------------------------------------------
(* Popped transactions keep their order.                                    *)

\* x is in an earlier block of chain h than y.
Before(h, x, y) ==
  \E m, n \in 1 .. Len(h) : m < n /\ x \in Elements(h[m].txs) /\ y \in Elements(h[n].txs)

Ordered(h, s) == \A i, j \in 1 .. Len(s) : Before(h, s[i], s[j]) => i < j

\* No element of s is before one of r.
NoneBefore(h, s, r) == \A i \in 1 .. Len(s), j \in 1 .. Len(r) : ~Before(h, s[i], r[j])

\* No block has failed in this call.
Clean == phase \in {"direct", "popping", "pushing"} \/ (phase = "restoring" /\ ~err)

\* While the old branch is popped, popped has transactions of the popped blocks
\* only; it is in the order of the old chain, and so is what the restorer has
\* made pending of it, which precedes the rest.  Those that were pending before
\* were not on the old chain.
OrderInv ==
  /\ Disjoint(old.head)
  /\ Elements(queue) \cap ChainTxs(old.head) = {}
  /\ phase = "direct" => popped = << >>
  /\ phase = "popping" =>
       /\ Len(head) <= Len(old.head) /\ head = Upto(old.head, Len(head))
       /\ \A i \in 1 .. Len(popped), m \in 1 .. Len(old.head) :
            popped[i] \in Elements(old.head[m].txs) => m > Len(head)
  /\ Clean => /\ Ordered(old.head, pending) /\ Ordered(old.head, popped)
              /\ NoneBefore(old.head, popped, pending)

LEMMA EmptyOrdered ==
  \A h, s : Len(s) = 0 =>
    Ordered(h, s) /\ \A r : NoneBefore(h, s, r) /\ NoneBefore(h, r, s)
BY DEF Ordered, NoneBefore

\* With disjoint blocks nothing is before itself.
LEMMA NotBeforeItself ==
  ASSUME NEW h \in Blocks, Disjoint(h), NEW x
  PROVE  ~Before(h, x, x)
<1>1. Len(h) \in Nat
  BY BlockSeq
<1> QED BY <1>1 DEF Before, Disjoint

LEMMA OrderedConcat ==
  ASSUME NEW h, NEW S, NEW r \in Seq(S), NEW s \in Seq(S), Ordered(h, r), Ordered(h, s),
         NoneBefore(h, s, r)
  PROVE  Ordered(h, r \o s)
<1>1. /\ r \o s \in Seq(S) /\ Len(r \o s) = Len(r) + Len(s)
      /\ Len(r) \in Nat /\ Len(s) \in Nat
      /\ \A i \in 1 .. Len(r) + Len(s) :
           (r \o s)[i] = IF i <= Len(r) THEN r[i] ELSE s[i - Len(r)]
  BY ConcatProperties, LenProperties
<1> SUFFICES ASSUME NEW i \in 1 .. Len(r) + Len(s), NEW j \in 1 .. Len(r) + Len(s),
                    Before(h, (r \o s)[i], (r \o s)[j])
             PROVE  i < j
  BY <1>1 DEF Ordered
<1> DEFINE a == i - Len(r)
           c == j - Len(r)
<1>2. /\ i <= Len(r) => i \in 1 .. Len(r) /\ (r \o s)[i] = r[i]
      /\ ~(i <= Len(r)) => a \in 1 .. Len(s) /\ (r \o s)[i] = s[a]
      /\ j <= Len(r) => j \in 1 .. Len(r) /\ (r \o s)[j] = r[j]
      /\ ~(j <= Len(r)) => c \in 1 .. Len(s) /\ (r \o s)[j] = s[c]
  BY <1>1
<1>3. CASE i <= Len(r) /\ j <= Len(r)
  BY <1>2, <1>3 DEF Ordered
<1>4. CASE i <= Len(r) /\ ~(j <= Len(r))
  BY <1>1, <1>4
<1>5. CASE ~(i <= Len(r)) /\ j <= Len(r)
  BY <1>2, <1>5 DEF NoneBefore
<1>6. CASE ~(i <= Len(r)) /\ ~(j <= Len(r))
  <2> HIDE DEF a, c
  <2>1. a < c
    BY <1>2, <1>6 DEF Ordered
  <2> QED BY <2>1, <1>1 DEF a, c
<1> QED BY <1>3, <1>4, <1>5, <1>6

\* One more at the end, which is before none.
LEMMA OrderedAppend ==
  ASSUME NEW h \in Blocks, Disjoint(h), NEW S, NEW s \in Seq(S), NEW t \in S,
         Ordered(h, s), \A i \in 1 .. Len(s) : ~Before(h, t, s[i])
  PROVE  Ordered(h, Append(s, t))
<1>1. /\ Len(s) \in Nat /\ Len(Append(s, t)) = Len(s) + 1
      /\ \A i \in 1 .. Len(s) : Append(s, t)[i] = s[i]
      /\ Append(s, t)[Len(s) + 1] = t
  BY AppendProperties, LenProperties
<1>2. ~Before(h, t, t)
  BY NotBeforeItself
<1> SUFFICES ASSUME NEW i \in 1 .. Len(s) + 1, NEW j \in 1 .. Len(s) + 1,
                    Before(h, Append(s, t)[i], Append(s, t)[j])
             PROVE  i < j
  BY <1>1 DEF Ordered
<1>3. CASE i = Len(s) + 1 /\ j = Len(s) + 1
  BY <1>1, <1>2, <1>3
<1>4. CASE i = Len(s) + 1 /\ j \in 1 .. Len(s)
  BY <1>1, <1>4
<1>5. CASE i \in 1 .. Len(s) /\ j = Len(s) + 1
  BY <1>1, <1>5
<1>6. CASE i \in 1 .. Len(s) /\ j \in 1 .. Len(s)
  BY <1>1, <1>6 DEF Ordered
<1> QED BY <1>1, <1>3, <1>4, <1>5, <1>6

\* A push_block at work: popped changes only when a block is popped, and it
\* matters only while no block has failed.
LEMMA CleanStep ==
  ASSUME TypeInv, Next, phase \in Elsewhere
  PROVE  \/ Clean /\ popped' = popped /\ phase' \in {"pushing", "restoring"}
         \/ phase = "popping" /\ phase' = "popping" /\ Undoing /\ PopUndone /\ CanPop
         \/ ~Clean' /\ phase' \notin {"direct", "popping"}
<1> DEFINE On == Clean /\ popped' = popped /\ phase' \in {"pushing", "restoring"}
           Pops == phase = "popping" /\ phase' = "popping" /\ Undoing /\ PopUndone /\ CanPop
           Fails == ~Clean' /\ phase' \notin {"direct", "popping"}
<1>1. ASSUME NEW m \in UndoSizes, push_direct(m) PROVE On
  BY <1>1 DEF push_direct, Return, Clean
<1>2. ASSUME NEW m \in UndoSizes, switch_push(m) PROVE On \/ Fails
  <2>1. CASE first = << >>
    BY <1>2, <2>1 DEF switch_push, Return, Clean, txvars
  <2>2. CASE first # << >>
    BY <1>2, <2>2 DEF switch_push, Goto, Clean
  <2> QED BY <2>1, <2>2
<1>3. ASSUME NEW m \in UndoSizes, switch_reapply(m) PROVE Fails
  BY <1>3 DEF switch_reapply, Return, Clean
<1>a. ASSUME Return(TRUE) PROVE Fails
  BY <1>a DEF Return, Clean
<1>4. switch_pop => On \/ Pops \/ Fails
  <2>1. ASSUME switch_pop, AtFork PROVE On
    BY <2>1 DEF switch_pop, Goto, Clean, txvars
  <2>2. ASSUME switch_pop, ~AtFork, pop_block, CanPop, UNCHANGED callvars PROVE Pops
    BY <2>2 DEF switch_pop, pop_block, callvars, Undoing
  <2> HIDE DEF On, Pops, Fails
  <2> QED BY <2>1, <2>2, <1>a DEF switch_pop
<1>5. switch_unwind => Fails
  <2>1. ASSUME switch_unwind, AtFork PROVE Fails
    BY <2>1 DEF switch_unwind, Clean
  <2>2. ASSUME switch_unwind, UNCHANGED callvars PROVE Fails
    BY <2>2 DEF switch_unwind, callvars, Clean
  <2> HIDE DEF Fails
  <2> QED BY <2>1, <2>2, <1>a DEF switch_unwind
<1> HIDE DEF On, Pops, Fails
<1>7. On \/ Pops \/ Fails
  BY <1>1, <1>2, <1>3, <1>4, <1>5, WorkNext
<1> QED BY <1>7 DEF On, Pops, Fails

\* The transactions of the popped head go before those popped earlier, which are
\* of later blocks.
LEMMA OrderPop ==
  ASSUME TypeInv, Undoing, PopUndone, CanPop, Disjoint(old.head), Ordered(old.head, popped),
         Len(head) <= Len(old.head), head = Upto(old.head, Len(head)),
         \A i \in 1 .. Len(popped), m \in 1 .. Len(old.head) :
           popped[i] \in Elements(old.head[m].txs) => m > Len(head)
  PROVE  /\ Len(head') <= Len(old.head) /\ head' = Upto(old.head, Len(head'))
         /\ Ordered(old.head, popped')
         /\ \A i \in 1 .. Len(popped'), m \in 1 .. Len(old.head) :
              popped'[i] \in Elements(old.head[m].txs) => m > Len(head')
<1> DEFINE o == old.head
           h == Len(head)
           r == TxsOf(head)
<1>1. /\ head \in Blocks /\ head # Root /\ o \in Blocks /\ popped \in Seq(Txs)
      /\ h \in Nat /\ h - 1 \in Nat /\ Len(o) \in Nat
      /\ head' = Upto(head, h - 1) /\ Len(head') = h - 1
      /\ popped' = r \o popped
  <2>1. head \in Blocks /\ o \in Blocks /\ popped \in Seq(Txs)
    BY DEF TypeInv, SizeInv, TypeOK
  <2>2. /\ head # Root /\ h \in Nat /\ h - 1 \in Nat
        /\ head' = Upto(head, h - 1) /\ Len(head') = h - 1
    BY PopShape, Basics
  <2>3. popped' = r \o popped
    BY DEF PopUndone
  <2> HIDE DEF o
  <2>4. Len(o) \in Nat
    BY <2>1, BlockSeq
  <2> QED BY <2>1, <2>2, <2>3, <2>4
<1>2. h \in 1 .. Len(o) /\ h \in 0 .. Len(o) /\ h - 1 \in 0 .. h /\ h \in 1 .. h
  BY <1>1
<1>3. head' = Upto(o, h - 1)
  <2>1. Upto(Upto(o, h), h - 1) = Upto(o, h - 1)
    BY <1>1, <1>2, UptoUpto
  <2> QED BY <2>1, <1>1
<1>4. r \in Seq(Txs) /\ r = o[h].txs
  <2>1. Upto(o, h)[h] = o[h]
    BY <1>1, <1>2, UptoShape
  <2> QED BY <2>1, <1>1, TxsType
<1> HIDE DEF r
<1>5. \A i \in 1 .. Len(r) : r[i] \in Elements(o[h].txs)
  BY <1>4, LenProperties DEF Elements
<1>6. \A i \in 1 .. Len(r), m \in 1 .. Len(o) : r[i] \in Elements(o[m].txs) => m = h
  BY <1>2, <1>5 DEF Disjoint
<1>7. Ordered(o, r)
  <2> SUFFICES ASSUME NEW i \in 1 .. Len(r), NEW j \in 1 .. Len(r), Before(o, r[i], r[j])
               PROVE  FALSE
    BY DEF Ordered
  <2>1. PICK m \in 1 .. Len(o), n \in 1 .. Len(o) :
          m < n /\ r[i] \in Elements(o[m].txs) /\ r[j] \in Elements(o[n].txs)
    BY DEF Before
  <2>2. m = h /\ n = h
    BY <2>1, <1>6
  <2> QED BY <2>1, <2>2, <1>1
<1>8. NoneBefore(o, popped, r)
  <2> SUFFICES ASSUME NEW i \in 1 .. Len(popped), NEW j \in 1 .. Len(r),
                      Before(o, popped[i], r[j])
               PROVE  FALSE
    BY DEF NoneBefore
  <2>1. PICK m \in 1 .. Len(o), n \in 1 .. Len(o) :
          m < n /\ popped[i] \in Elements(o[m].txs) /\ r[j] \in Elements(o[n].txs)
    BY DEF Before
  <2>2. n = h /\ m > h
    BY <2>1, <1>6
  <2> QED BY <2>1, <2>2, <1>1
<1>9. Ordered(o, popped')
  BY <1>1, <1>4, <1>7, <1>8, OrderedConcat
<1>10. ASSUME NEW i \in 1 .. Len(popped'), NEW m \in 1 .. Len(o),
              popped'[i] \in Elements(o[m].txs)
       PROVE  m > Len(head')
  <2>1. /\ Len(popped') = Len(r) + Len(popped) /\ Len(r) \in Nat /\ Len(popped) \in Nat
        /\ popped'[i] = IF i <= Len(r) THEN r[i] ELSE popped[i - Len(r)]
    BY <1>1, <1>4, ConcatProperties, LenProperties
  <2>2. CASE i <= Len(r)
    <3>1. i \in 1 .. Len(r) /\ popped'[i] = r[i]
      BY <2>1, <2>2
    <3>2. m = h
      BY <3>1, <1>6, <1>10
    <3> QED BY <3>2, <1>1
  <2>3. CASE ~(i <= Len(r))
    <3>1. i - Len(r) \in 1 .. Len(popped) /\ popped'[i] = popped[i - Len(r)]
      BY <2>1, <2>3
    <3>2. m > h
      BY <3>1, <1>10
    <3> QED BY <3>2, <1>1
  <2> QED BY <2>2, <2>3
<1>11. Len(head') <= Len(o) /\ head' = Upto(o, Len(head'))
  BY <1>1, <1>2, <1>3
<1> QED BY <1>9, <1>10, <1>11

\* What the restorer pushes goes to the end.
LEMMA OrderRestore ==
  ASSUME TypeInv, Disjoint(old.head), Ordered(old.head, pending), NEW t \in Txs, Restores(t),
         \A i \in 1 .. Len(pending) : ~Before(old.head, t, pending[i])
  PROVE  /\ Ordered(old.head, pending')
         /\ \A i \in 1 .. Len(pending') : pending'[i] = t \/
              \E j \in 1 .. Len(pending) : pending'[i] = pending[j]
<1>1. pending \in Seq(Txs) /\ old.head \in Blocks
  BY DEF TypeInv, SizeInv, TypeOK
<1>2. CASE pending' = pending
  BY <1>2
<1>3. CASE pending' = Append(pending, t)
  <2>1. Ordered(old.head, pending')
    BY <1>1, <1>3, OrderedAppend
  <2>2. /\ Len(pending) \in Nat /\ Len(pending') = Len(pending) + 1
        /\ \A i \in 1 .. Len(pending) : pending'[i] = pending[i]
        /\ pending'[Len(pending) + 1] = t
    BY <1>1, <1>3, AppendProperties, LenProperties
  <2>3. \A i \in 1 .. Len(pending') : i \in 1 .. Len(pending) \/ i = Len(pending) + 1
    BY <2>2
  <2> QED BY <2>1, <2>2, <2>3
<1> QED BY <1>2, <1>3 DEF Restores

LEMMA OrderInvStep ==
  ASSUME PoolInv, OrderInv, Next
  PROVE  OrderInv'
<1>i. TypeInv /\ AppliedOnce /\ PendingInv /\ KeptInv
  BY DEF PoolInv
<1>t. /\ head \in Blocks /\ old.head \in Blocks /\ popped \in Seq(Txs) /\ queue \in Seq(Txs)
      /\ phase \in Phases /\ Elements(<< >>) = {} /\ Len(<< >>) = 0
  BY <1>i, EmptySeq DEF TypeInv, SizeInv, TypeOK, Elements
<1>o. Disjoint(old.head) /\ Elements(queue) \cap ChainTxs(old.head) = {}
  BY DEF OrderInv
<1>1. CASE phase = "idle"
  <2>0. popped = << >> /\ queue = << >> /\ trxs = ChainTxs(head) /\ Disjoint(head)
    BY <1>i, <1>1 DEF KeptInv, AppliedOnce, Disjoint
  <2>1. CASE phase' = "idle" /\ UNCHANGED <<old, popped, queue, err, ids>>
    BY <2>0, <2>1, <1>o DEF OrderInv, Clean
  <2>2. ASSUME UNCHANGED <<head, libs, trxs, store, popped>>, NEW b \in Blocks, Enter(b)
        PROVE  OrderInv'
    <3>1. old'.head = head /\ queue' = pending /\ pending' = << >> /\ popped' = << >>
          /\ head' = head
      BY <2>0, <2>2, <1>i, EnterShape
    <3>2. Elements(queue') \cap ChainTxs(old'.head) = {}
      BY <3>1, <2>0, <1>i DEF PendingInv
    <3>3. Len(head') <= Len(old'.head) /\ head' = Upto(old'.head, Len(head'))
      <4>1. Len(head) \in Nat
        BY <1>i, Basics
      <4>2. Len(head) \in 0 .. Len(head)
        BY <4>1
      <4> QED BY <4>1, <4>2, <3>1, <1>t, UptoUpto
    <3>4. \A i \in 1 .. Len(popped'), m \in 1 .. Len(old'.head) :
            popped'[i] \in Elements(old'.head[m].txs) => m > Len(head')
      BY <3>1, <1>t
    <3>5. /\ Ordered(old'.head, pending') /\ Ordered(old'.head, popped')
          /\ NoneBefore(old'.head, popped', pending')
      BY <3>1, <1>t, EmptyOrdered
    <3>6. Disjoint(old'.head)
      BY <3>1, <2>0
    <3> QED BY <3>1, <3>2, <3>3, <3>4, <3>5, <3>6 DEF OrderInv
  <2> QED BY <2>1, <2>2, <1>1, <1>i, IdleStep
<1>2. CASE phase \in Elsewhere
  <2>1. UNCHANGED <<old, queue, pending, session>> /\ pending = << >>
    BY <1>2, <1>i, WorkStep DEF PendingInv
  <2>2. /\ Ordered(old'.head, pending')
        /\ \A s : NoneBefore(old'.head, s, pending')
    BY <2>1, <1>t, EmptyOrdered
  <2>3. ASSUME Clean, popped' = popped, phase' \in {"pushing", "restoring"}
        PROVE  OrderInv'
    <3>1. Ordered(old'.head, popped')
      BY <2>1, <2>3 DEF OrderInv
    <3> QED BY <2>1, <2>2, <2>3, <3>1, <1>o DEF OrderInv
  <2>4. ASSUME phase = "popping", phase' = "popping", Undoing, PopUndone, CanPop
        PROVE  OrderInv'
    <3>0. /\ Len(head) <= Len(old.head) /\ head = Upto(old.head, Len(head))
          /\ Ordered(old.head, popped)
          /\ \A i \in 1 .. Len(popped), m \in 1 .. Len(old.head) :
               popped[i] \in Elements(old.head[m].txs) => m > Len(head)
      BY <2>4 DEF OrderInv, Clean
    <3>1. /\ Len(head') <= Len(old.head) /\ head' = Upto(old.head, Len(head'))
          /\ Ordered(old.head, popped')
          /\ \A i \in 1 .. Len(popped'), m \in 1 .. Len(old.head) :
               popped'[i] \in Elements(old.head[m].txs) => m > Len(head')
      BY <3>0, <2>4, <1>i, <1>o, OrderPop
    <3> QED BY <2>1, <2>2, <2>4, <3>1, <1>o DEF OrderInv
  <2>5. ASSUME ~Clean', phase' \notin {"direct", "popping"}
        PROVE  OrderInv'
    BY <2>1, <2>5, <1>o DEF OrderInv
  <2> QED BY <2>3, <2>4, <2>5, <1>2, <1>i, CleanStep
<1>3. CASE phase = "restoring"
  <2>a. ASSUME phase' = "restoring", old' = old, err' = err,
               Elements(queue') \cap ChainTxs(old.head) = {},
               ~err => /\ Ordered(old.head, pending') /\ Ordered(old.head, popped')
                       /\ NoneBefore(old.head, popped', pending')
        PROVE  OrderInv'
    BY <2>a, <1>o DEF OrderInv, Clean
  <2>0. ~err => /\ Ordered(old.head, pending) /\ Ordered(old.head, popped)
                /\ NoneBefore(old.head, popped, pending)
    BY <1>3 DEF OrderInv, Clean
  <2>b. ASSUME popped # << >>, popped' = Tail(popped), ~err
        PROVE  /\ Head(popped) = popped[1] /\ 1 \in 1 .. Len(popped)
               /\ \A i \in 1 .. Len(popped') : /\ i + 1 \in 1 .. Len(popped)
                                               /\ popped'[i] = popped[i + 1]
               /\ Ordered(old.head, popped')
    <3>1. /\ Head(popped) = popped[1] /\ 1 \in 1 .. Len(popped)
          /\ \A i \in 1 .. Len(popped') : /\ i + 1 \in 1 .. Len(popped)
                                          /\ popped'[i] = popped[i + 1]
      <4>1. Head(popped) = popped[1] /\ Len(popped) \in Nat \ {0}
        BY <2>b, <1>t, EmptySeq, HeadTailProperties
      <4> QED BY <4>1, <2>b, <1>t, TailElements
    <3>2. Ordered(old.head, popped')
      <4> SUFFICES ASSUME NEW i \in 1 .. Len(popped'), NEW j \in 1 .. Len(popped'),
                          Before(old.head, popped'[i], popped'[j])
                   PROVE  i < j
        BY DEF Ordered
      <4>1. i + 1 < j + 1
        BY <3>1, <2>0, <2>b DEF Ordered
      <4> QED BY <4>1
    <3> QED BY <3>1, <3>2
  <2>1. ASSUME popped # << >>, popped' = Tail(popped), queue' = queue, Restores(Head(popped))
        PROVE  OrderInv'
    <3>0. phase' = "restoring" /\ old' = old /\ err' = err
      BY <2>1 DEF Restores
    <3>1. ASSUME ~err
          PROVE  /\ Ordered(old.head, pending') /\ Ordered(old.head, popped')
                 /\ NoneBefore(old.head, popped', pending')
      <4> DEFINE t == Head(popped)
      <4>1. /\ t = popped[1] /\ 1 \in 1 .. Len(popped)
            /\ \A i \in 1 .. Len(popped') : /\ i + 1 \in 1 .. Len(popped)
                                            /\ popped'[i] = popped[i + 1]
            /\ Ordered(old.head, popped')
        BY <2>1, <2>b, <3>1
      <4>2. t \in Txs
        BY <2>1, <1>t, HeadTailProperties
      <4> HIDE DEF t
      <4>3. \A i \in 1 .. Len(pending) : ~Before(old.head, t, pending[i])
        BY <4>1, <2>0, <3>1 DEF NoneBefore
      <4>4. /\ Ordered(old.head, pending')
            /\ \A i \in 1 .. Len(pending') : pending'[i] = t \/
                 \E j \in 1 .. Len(pending) : pending'[i] = pending[j]
        <5>1. Restores(t) /\ Ordered(old.head, pending)
          BY <2>0, <2>1, <3>1 DEF t
        <5> QED BY <5>1, <4>2, <4>3, <1>i, <1>o, OrderRestore
      <4>5. ASSUME NEW i \in 1 .. Len(popped'), NEW j \in 1 .. Len(pending'),
                   Before(old.head, popped'[i], pending'[j])
            PROVE  FALSE
        <5>1. i + 1 \in 1 .. Len(popped) /\ popped'[i] = popped[i + 1]
          BY <4>1
        <5>2. CASE pending'[j] = t
          <6>1. i + 1 < 1
            BY <5>1, <5>2, <4>1, <4>5, <2>0, <3>1 DEF Ordered
          <6> QED BY <6>1
        <5>3. CASE \E k \in 1 .. Len(pending) : pending'[j] = pending[k]
          BY <5>1, <5>3, <4>5, <2>0, <3>1 DEF NoneBefore
        <5> QED BY <5>2, <5>3, <4>4
      <4> QED BY <4>1, <4>4, <4>5 DEF NoneBefore
    <3>2. Elements(queue') \cap ChainTxs(old.head) = {}
      BY <2>1, <1>o
    <3> QED BY <3>0, <3>1, <3>2, <2>a
  <2>2. ASSUME popped # << >>, popped' = Tail(popped), queue' = queue,
               phase' = "restoring", UNCHANGED <<head, trxs, pending, ids, err, old>>
        PROVE  OrderInv'
    <3>1. ASSUME ~err
          PROVE  /\ Ordered(old.head, pending') /\ Ordered(old.head, popped')
                 /\ NoneBefore(old.head, popped', pending')
      <4>1. /\ Ordered(old.head, popped')
            /\ \A i \in 1 .. Len(popped') : /\ i + 1 \in 1 .. Len(popped)
                                            /\ popped'[i] = popped[i + 1]
        BY <2>2, <2>b, <3>1
      <4>2. NoneBefore(old.head, popped', pending)
        BY <4>1, <2>0, <3>1 DEF NoneBefore
      <4> QED BY <4>1, <4>2, <2>0, <2>2, <3>1
    <3>2. Elements(queue') \cap ChainTxs(old.head) = {}
      BY <2>2, <1>o
    <3> QED BY <2>2, <3>1, <3>2, <2>a
  <2>3. ASSUME popped = << >>, popped' = << >>, queue # << >>, queue' = Tail(queue),
               Restores(Head(queue))
        PROVE  OrderInv'
    <3>0. phase' = "restoring" /\ old' = old /\ err' = err
      BY <2>3 DEF Restores
    <3>1. Elements(queue) = {Head(queue)} \cup Elements(queue') /\ Head(queue) \in Txs
      BY <2>3, <1>t, TailElements, HeadTailProperties
    <3>2. Elements(queue') \cap ChainTxs(old.head) = {}
      BY <3>1, <1>o
    <3>3. \A i \in 1 .. Len(pending) : ~Before(old.head, Head(queue), pending[i])
      <4>1. Head(queue) \notin ChainTxs(old.head)
        BY <3>1, <1>o
      <4> QED BY <4>1 DEF Before, ChainTxs
    <3>4. ~err => Ordered(old.head, pending')
      BY <3>1, <3>3, <2>0, <2>3, <1>i, <1>o, OrderRestore
    <3>5. Ordered(old.head, popped') /\ NoneBefore(old.head, popped', pending')
      BY <2>3, <1>t, EmptyOrdered
    <3> QED BY <3>0, <3>2, <3>4, <3>5, <2>a
  <2>4. ASSUME phase' = "idle", popped' = << >>, queue' = << >>, old' = NoCall, err' = FALSE
        PROVE  OrderInv'
    <3>1. old'.head = Root /\ Len(Root) = 0
      BY <2>4, PreviousShape DEF NoCall
    <3>2. Disjoint(old'.head)
      BY <3>1 DEF Disjoint
    <3> QED BY <2>4, <3>2, <1>t DEF OrderInv, Clean
  <2> QED BY <2>1, <2>2, <2>3, <2>4, <1>3, <1>i, RestoreStep
<1> QED BY <1>1, <1>2, <1>3, <1>t DEF Phases, Elsewhere

LEMMA OrderInvNext == PoolInv /\ OrderInv /\ [Next]_vars => OrderInv'
<1>1. ASSUME OrderInv, UNCHANGED vars PROVE OrderInv'
  <2>1. head' = head /\ UNCHANGED txvars /\ UNCHANGED callvars
    BY <1>1 DEF vars, chainvars
  <2> QED BY <1>1, <2>1 DEF OrderInv, Clean, txvars, callvars
<1> QED BY <1>1, OrderInvStep

LEMMA OrderInvInit == Init => OrderInv
<1> SUFFICES ASSUME Init PROVE OrderInv
  OBVIOUS
<1>1. /\ phase = "idle" /\ old.head = Root /\ queue = << >> /\ Len(Root) = 0
      /\ Elements(<< >>) = {}
  BY PreviousShape, EmptySeq DEF Init, NoCall, Elements
<1>2. Disjoint(old.head)
  BY <1>1 DEF Disjoint
<1> QED BY <1>1, <1>2 DEF OrderInv, Clean

LEMMA OrderStays == PoolInv /\ OrderInv => (Unwound => ChainOrderKept)
<1>1. ASSUME PoolInv, OrderInv, Unwound PROVE ChainOrderKept
  <2> SUFFICES ASSUME Done, NEW m \in 1 .. Len(old.head), NEW n \in 1 .. Len(old.head),
                      NEW i \in 1 .. Len(pending), NEW j \in 1 .. Len(pending),
                      m < n, pending[i] \in Elements(old.head[m].txs),
                      pending[j] \in Elements(old.head[n].txs)
               PROVE  i < j
    BY DEF ChainOrderKept
  <2>1. CASE err
    <3>1. head = old.head /\ trxs = ChainTxs(head) /\ Elements(pending) \cap trxs = {}
      BY <2>1, <1>1 DEF Unwound, PoolInv, AppliedOnce, PendingInv
    <3>2. pending[i] \in Elements(pending)
      BY <1>1, LenProperties DEF Elements, PoolInv, TypeInv, SizeInv, TypeOK
    <3>3. pending[i] \in ChainTxs(old.head)
      BY DEF ChainTxs
    <3> QED BY <3>1, <3>2, <3>3
  <2>2. CASE ~err
    <3>1. Ordered(old.head, pending)
      BY <2>2, <1>1 DEF Done, OrderInv, Clean
    <3>2. Before(old.head, pending[i], pending[j])
      BY DEF Before
    <3> QED BY <3>1, <3>2 DEF Ordered
  <2> QED BY <2>1, <2>2
<1> QED BY <1>1

\* Unless a failed switch could not be unwound, the transactions of the blocks a
\* fork switch leaves are pending again in the order they had on the chain,
\* ahead of nothing that depends on them: pop_block puts them first in
\* _popped_tx, block by block from the top, and the restorer begins with them.
THEOREM OrderIsKept == Spec => [](Unwound => ChainOrderKept)
BY OrderStays, PoolInvInit, PoolInvNext, OrderInvInit, OrderInvNext, PTL DEF Spec

-----------------------------------------------------------------------------
(* The block store.                                                         *)

\* pop_block, called in a fork switch, never finds the undo history empty when it
\* has taken the block from the fork database and the block store.
DeltaLeft == Undoing /\ CanPopFork => CanPop

\* The store holds the chain and nothing else, in the middle of a switch too.
StoreExact ==
  \A n \in 0 .. MaxHeight :
    store[n] = IF n <= Len(head) THEN Upto(head, n) ELSE None

LEMMA StoreStep ==
  ASSUME TypeInv, Next
  PROVE  \/ UNCHANGED <<head, store>>
         \/ \E b \in Blocks, m \in UndoSizes : Applies(b) /\ Apply(b, m)
         \/ Undoing /\ pop_block
<1> DEFINE Still == UNCHANGED <<head, store>>
           Applied == \E b \in Blocks, m \in UndoSizes : Applies(b) /\ Apply(b, m)
           Popping == Undoing /\ pop_block
<1>t. new \in Blocks /\ first \in Seq(Blocks) /\ left \in Seq(Blocks)
  BY DEF TypeInv, SizeInv, TypeOK
<1>a. UNCHANGED chainvars => Still
  BY DEF chainvars
<1>1. ASSUME NEW m \in UndoSizes, push_direct(m) PROVE Still \/ Applied
  BY <1>1, <1>t DEF push_direct, FailToApply
<1>2. ASSUME NEW m \in UndoSizes, switch_push(m) PROVE Still \/ Applied
  <2>1. CASE first = << >>
    BY <1>2, <2>1, <1>a DEF switch_push
  <2>2. CASE first # << >>
    <3>1. first[Len(first)] \in Blocks
      BY <2>2, <1>t, DropLast
    <3> QED BY <1>2, <2>2, <3>1 DEF switch_push, FailToApply
  <2> QED BY <2>1, <2>2
<1>3. ASSUME NEW m \in UndoSizes, switch_reapply(m) PROVE Still \/ Applied
  <2>1. CASE left = << >>
    BY <1>3, <2>1, <1>a DEF switch_reapply
  <2>2. CASE left # << >>
    <3>1. left[Len(left)] \in Blocks
      BY <2>2, <1>t, DropLast
    <3> QED BY <1>3, <2>2, <3>1 DEF switch_reapply, FailToApply
  <2> QED BY <2>1, <2>2
<1>4. switch_pop => Still \/ Popping
  BY <1>a DEF switch_pop, Undoing
<1>5. switch_unwind => Still \/ Popping
  BY <1>a DEF switch_unwind, Undoing
<1>6. restore_popped => Still
  BY <1>a DEF restore_popped, PushTx
<1>7. restore_next => Still
  BY <1>a DEF restore_next, PushTx
<1>8. ASSUME NEW b \in Blocks, push_block(b) PROVE Still
  BY <1>8, <1>a DEF push_block
<1>9. ASSUME NEW t \in Txs, push_transaction(t) PROVE Still
  BY <1>9 DEF push_transaction, PushTx
<1>10. validate_transaction => Still
  BY DEF validate_transaction
<1>11. ASSUME NEW y \in Bodies, generate_block(y) PROVE Still
  BY <1>11 DEF generate_block
<1>12. generate_block_too_large => Still
  BY DEF generate_block_too_large
<1> HIDE DEF Still, Applied, Popping
<1>13. Still \/ Applied \/ Popping
  BY <1>1, <1>2, <1>3, <1>4, <1>5, <1>6, <1>7, <1>8, <1>9, <1>10, <1>11, <1>12
     DEF Next, CallStep
<1> QED BY <1>13 DEF Still, Applied, Popping

LEMMA StoreExactStep ==
  ASSUME TypeInv, DeltaLeft, StoreExact, Next
  PROVE  StoreExact'
<1>t. /\ head \in Blocks /\ store \in [0 .. MaxHeight -> Blocks \cup {None}]
      /\ Len(head) \in Nat /\ Len(head) \in 0 .. MaxHeight /\ MaxHeight \in Nat
  BY Basics DEF TypeInv, SizeInv, TypeOK
<1>1. CASE UNCHANGED <<head, store>>
  BY <1>1 DEF StoreExact
<1>2. ASSUME NEW b \in Blocks, NEW m \in UndoSizes, Applies(b), Apply(b, m)
      PROVE  StoreExact'
  <2>1. /\ head' = b /\ Len(b) = Len(head) + 1 /\ Previous(b) = head
        /\ store' = [store EXCEPT ![Len(head) + 1] = b]
    BY <1>2, ApplyShape DEF Apply, Applies, Stored, Height
  <2> DEFINE k == Len(head) + 1
  <2>2. k \in Nat /\ Len(b) = k
    BY <2>1, <1>t
  <2> SUFFICES ASSUME NEW n \in 0 .. MaxHeight
               PROVE  store'[n] = IF n <= k THEN Upto(b, n) ELSE None
    BY <2>1, <2>2 DEF StoreExact
  <2>3. store[n] = IF n <= Len(head) THEN Upto(head, n) ELSE None
    BY DEF StoreExact
  <2>4. CASE n = k
    <3>1. store'[n] = b
      BY <2>1, <2>4, <1>t
    <3>2. Upto(b, k) = b
      <4>1. k \in 0 .. Len(b) /\ k \in 0 .. k
        BY <2>2
      <4> QED BY <4>1, <2>2, UptoUpto
    <3>3. n <= k
      BY <2>2, <2>4
    <3> QED BY <3>1, <3>2, <3>3, <2>4
  <2>5. CASE n # k
    <3>1. store'[n] = store[n]
      BY <2>1, <2>5, <1>t
    <3>2. n <= k <=> n \in 0 .. Len(head)
      BY <2>5, <1>t
    <3>3. n <= Len(head) <=> n \in 0 .. Len(head)
      BY <1>t
    <3>4. n \in 0 .. Len(head) => Upto(b, n) = Upto(head, n)
      BY <2>1, <1>t, SameAncestors
    <3> QED BY <3>1, <3>2, <3>3, <3>4, <2>3
  <2> QED BY <2>4, <2>5
<1>3. CASE Undoing /\ pop_block
  <2>1. CanPop /\ PopUndone
    BY <1>3 DEF DeltaLeft, pop_block
  <2>2. /\ head' \in Blocks /\ Previous(head) = head' /\ Len(head') = Len(head) - 1
        /\ Len(head) - 1 \in Nat
    BY <1>3, <2>1, PopShape
  <2>3. store[Len(head)] = head
    <3>1. store[Len(head)] = Upto(head, Len(head))
      BY <1>t DEF StoreExact
    <3>2. Len(head) \in 0 .. Len(head)
      BY <1>t
    <3> QED BY <3>1, <3>2, <1>t, UptoUpto
  <2>4. store' = [store EXCEPT ![Len(head)] = None]
    BY <2>3, <1>3 DEF pop_block, Height
  <2> SUFFICES ASSUME NEW n \in 0 .. MaxHeight
               PROVE  store'[n] = IF n <= Len(head) - 1 THEN Upto(head', n) ELSE None
    BY <2>2 DEF StoreExact
  <2>5. store[n] = IF n <= Len(head) THEN Upto(head, n) ELSE None
    BY DEF StoreExact
  <2>6. CASE n = Len(head)
    <3>1. store'[n] = None /\ ~(n <= Len(head) - 1)
      BY <2>4, <2>6, <1>t
    <3> QED BY <3>1
  <2>7. CASE n # Len(head)
    <3>1. store'[n] = store[n]
      BY <2>4, <2>7, <1>t
    <3>2. n <= Len(head) <=> n \in 0 .. Len(head) - 1
      BY <2>7, <1>t
    <3>3. n <= Len(head) - 1 <=> n \in 0 .. Len(head) - 1
      BY <2>2
    <3>4. n \in 0 .. Len(head) - 1 => Upto(head, n) = Upto(head', n)
      BY <2>2, <1>t, SameAncestors
    <3> QED BY <3>1, <3>2, <3>3, <3>4, <2>5
  <2> QED BY <2>6, <2>7
<1> QED BY <1>1, <1>2, <1>3, StoreStep

LEMMA StoreExactNext ==
  TypeInv /\ DeltaLeft /\ StoreExact /\ [Next]_vars => StoreExact'
<1>1. ASSUME StoreExact, UNCHANGED vars PROVE StoreExact'
  BY <1>1 DEF StoreExact, vars, chainvars
<1> QED BY <1>1, StoreExactStep

LEMMA StoreExactInit == Init => StoreExact
<1> SUFFICES ASSUME Init, NEW n \in 0 .. MaxHeight
             PROVE  store[n] = IF n <= 0 THEN Root ELSE None
  <2>1. ASSUME Init PROVE head = Root /\ Len(Root) = 0 /\ Root \in Blocks
    BY <2>1, PreviousShape DEF Init
  <2>2. Upto(Root, 0) = Root
    <3>1. Root \in Blocks /\ Len(Root) = 0 /\ 0 \in 0 .. Len(Root)
      BY PreviousShape
    <3> QED BY <3>1, UptoShape, PreviousShape
  <2>3. \A n \in 0 .. MaxHeight : n <= 0 => n = 0
    OBVIOUS
  <2> QED BY <2>1, <2>2, <2>3 DEF StoreExact
<1>1. n <= 0 <=> n = 0
  OBVIOUS
<1> QED BY <1>1 DEF Init

\* As long as no pop_block of a fork switch runs out of deltas, the block store
\* holds the current chain and nothing above it whenever push_block is left: the
\* store follows each block that is applied, popped and applied again.  (That it
\* may run out is shown by the run of deep forks.)
THEOREM StoreFollowsChain == Spec /\ []DeltaLeft => []StoreHoldsChain
<1>1. SpecInv => TypeInv
  BY DEF SpecInv
<1>2. StoreExact => StoreHoldsChain
  BY DEF StoreExact, StoreHoldsChain, Height
<1> QED BY <1>1, <1>2, SpecInvInit, SpecInvNext, StoreExactInit, StoreExactNext, PTL DEF Spec

-----------------------------------------------------------------------------
(* A failed switch is unwound.                                              *)

\* pop_block, called in a fork switch when the head is not the one push_block
\* found, does not throw.
PopsBack == Undoing /\ head # old.head => CanPopFork /\ CanPop

\* What _apply_block checks of a block by itself.
Sound(b) ==
  \A i \in 1 .. Len(b) : b[i].good /\ Cardinality(Elements(b[i].txs)) = Len(b[i].txs)

\* The blocks left to apply again are those between the head and the old head.
Reapplies ==
  /\ Len(left) <= Len(old.head)
  /\ head = Upto(old.head, Len(old.head) - Len(left))
  /\ \A i \in 1 .. Len(left) : left[i] = Upto(old.head, Len(old.head) - i + 1)

\* The old chain has been applied before, so it can be applied again; second is
\* its branch and first ends in a higher block.
BranchInv ==
  /\ Sound(head) /\ Sound(old.head)
  /\ phase = "direct" => head = old.head
  /\ phase \in {"popping", "pushing", "unwinding"} =>
       \E n \in 0 .. Len(old.head) : second = Branch(old.head, n)
  /\ phase = "popping" => first # << >>
  /\ phase \in {"popping", "pushing"} /\ first # << >> => Len(first[1]) > Len(old.head)
  /\ phase = "pushing" /\ first = << >> => Len(head) > Len(old.head)
  /\ phase = "reapplying" => Reapplies

\* What the call has come to.
Outcome ==
  phase = "restoring" => IF err THEN head = old.head ELSE Len(head) >= Len(old.head)

SwitchInv == BranchInv /\ Outcome

\* A pop_block of a fork switch throws, and the call ends there.
BreaksOff ==
  /\ Undoing /\ ~(CanPopFork /\ CanPop)
  /\ phase' = "restoring" /\ err' /\ head' = head

LEMMA SoundChild ==
  ASSUME NEW h \in Blocks, NEW b \in Blocks, Previous(b) = h
  PROVE  Sound(b) <=> /\ Sound(h) /\ Body(b).good
                      /\ Cardinality(Elements(TxsOf(b))) = Len(TxsOf(b))
<1>1. /\ b # Root /\ Len(h) \in Nat /\ Len(b) = Len(h) + 1
      /\ \A i \in 1 .. Len(h) : b[i] = h[i]
  BY ChildShape
<1>2. TxsOf(b) = b[Len(b)].txs /\ Body(b) = b[Len(b)]
  BY <1>1, TxsType DEF Body
<1>3. 1 .. Len(b) = (1 .. Len(h)) \cup {Len(b)}
  BY <1>1
<1> QED BY <1>1, <1>2, <1>3 DEF Sound

\* A prefix of a sound and disjoint chain.
LEMMA SoundPrefix ==
  ASSUME NEW b \in Blocks, Sound(b), Disjoint(b), NEW n \in 0 .. Len(b)
  PROVE  Sound(Upto(b, n)) /\ Disjoint(Upto(b, n))
<1>1. /\ Len(Upto(b, n)) = n
      /\ \A i \in 1 .. n : Upto(b, n)[i] = b[i]
  BY UptoShape
<1>2. Len(b) \in Nat
  BY BlockSeq
<1>3. \A i \in 1 .. n : i \in 1 .. Len(b)
  BY <1>2
<1>4. Sound(Upto(b, n))
  BY <1>1, <1>3 DEF Sound
<1>5. Disjoint(Upto(b, n))
  BY <1>1, <1>3 DEF Disjoint
<1> QED BY <1>4, <1>5

\* The head stays sound.
LEMMA SoundStep ==
  ASSUME TypeInv, Sound(head), Next
  PROVE  Sound(head')
<1>t. head \in Blocks
  BY DEF TypeInv, SizeInv, TypeOK
<1>1. ASSUME NEW b \in Blocks, NEW m \in UndoSizes, Applies(b), Apply(b, m)
      PROVE  Sound(head')
  BY <1>1, <1>t, SoundChild DEF Applies, Apply
<1>2. CASE Undoing /\ PopUndone /\ CanPop
  <2>1. head' \in Blocks /\ Previous(head) = head'
    BY <1>2, PopShape
  <2> QED BY <2>1, <1>t, SoundChild
<1> QED BY <1>1, <1>2, ChainStep

\* At the fork the old branch is what is missing.
LEMMA ForkReached ==
  ASSUME TypeInv, AtFork, NEW n \in 0 .. Len(old.head), second = Branch(old.head, n)
  PROVE  /\ Len(second) <= Len(old.head)
         /\ head = Upto(old.head, Len(old.head) - Len(second))
         /\ \A i \in 1 .. Len(second) : second[i] = Upto(old.head, Len(old.head) - i + 1)
<1> DEFINE o == old.head
           k == Len(second)
<1>1. o \in Blocks /\ head \in Blocks
  BY DEF TypeInv, SizeInv, TypeOK
<1>2. Len(o) \in Nat /\ n \in Nat
  BY <1>1, BlockSeq
<1>3. /\ k = Len(o) - n + 1
      /\ \A i \in 1 .. Len(o) - n + 1 : second[i] = Upto(o, Len(o) - i + 1)
  <2>1. /\ Len(Branch(o, n)) = Len(o) - n + 1
        /\ \A i \in 1 .. Len(o) - n + 1 : Branch(o, n)[i] = Upto(o, Len(o) - i + 1)
    <3> HIDE DEF o
    <3>1. n \in 0 .. Len(o)
      BY DEF o
    <3> QED BY ONLY <1>1, <3>1, BranchShape
  <2>2. second = Branch(o, n)
    OBVIOUS
  <2> HIDE DEF o
  <2> QED BY ONLY <2>1, <2>2 DEF k
<1> HIDE DEF o, k
<1>4. k \in 1 .. Len(o) - n + 1 /\ Len(o) - k + 1 = n
  BY <1>2, <1>3 DEF o
<1>5. head = Previous(Upto(o, n))
  BY <1>3, <1>4 DEF AtFork, k
<1>6. Upto(o, n) \in Blocks /\ Len(Upto(o, n)) = n
  BY <1>1, UptoShape DEF o
<1>7. Len(head) \in Nat /\ n = Len(head) + 1 /\ head = Upto(Upto(o, n), Len(head))
  BY <1>1, <1>5, <1>6, ChildShape
<1>8. head = Upto(o, Len(head))
  <2>1. Len(head) \in 0 .. n /\ n \in 0 .. Len(o)
    BY <1>7 DEF o
  <2> QED BY <2>1, <1>1, <1>7, UptoUpto
<1>9. k <= Len(o) /\ Len(o) - k = Len(head)
  BY <1>2, <1>4, <1>7
<1> QED BY <1>3, <1>8, <1>9 DEF o, k

\* A block of the old chain applies again on its parent.
LEMMA AppliesAgain ==
  ASSUME TypeInv, AppliedOnce, NEW o \in Blocks, Sound(o), Disjoint(o),
         NEW n \in 1 .. Len(o), head = Upto(o, n - 1)
  PROVE  Applies(Upto(o, n))
<1> DEFINE b == Upto(o, n)
<1>1. Len(o) \in Nat /\ head \in Blocks
  BY BlockSeq DEF TypeInv, SizeInv, TypeOK
<1>2. n \in 0 .. Len(o) /\ n - 1 \in 0 .. n /\ n \in Nat \ {0}
  BY <1>1
<1>3. b \in Blocks /\ Len(b) = n /\ Sound(b) /\ Disjoint(b)
  BY <1>2, UptoShape, SoundPrefix
<1>4. Upto(b, n - 1) = head
  BY <1>2, UptoUpto
<1> HIDE DEF b
<1>5. Previous(b) = head
  <2>1. b # Root
    BY <1>2, <1>3, PreviousShape
  <2> QED BY <2>1, <1>3, <1>4, PreviousShape
<1>6. Body(b).good /\ Cardinality(Elements(TxsOf(b))) = Len(TxsOf(b))
  BY <1>1, <1>3, <1>5, SoundChild
<1>7. Elements(TxsOf(b)) \cap trxs = {}
  <2>1. ChainTxs(head) \cap Elements(TxsOf(b)) = {}
    BY <1>1, <1>3, <1>5, ChainTxsChild
  <2> QED BY <2>1 DEF AppliedOnce
<1> QED BY <1>5, <1>6, <1>7 DEF Applies, b

\* The steps of a push_block at work, but for the soundness of the chains.
LEMMA SwitchStep ==
  ASSUME PoolInv, OrderInv, BranchInv, Next, phase \in Elsewhere
  PROVE  /\ old' = old /\ phase' # "direct"
         /\ phase' \in {"popping", "pushing", "unwinding"} =>
              \E n \in 0 .. Len(old.head) : second' = Branch(old.head, n)
         /\ phase' = "popping" => first' # << >>
         /\ phase' \in {"popping", "pushing"} /\ first' # << >>
              => Len(first'[1]) > Len(old.head)
         /\ phase' = "pushing" /\ first' = << >> => Len(head') > Len(old.head)
         /\ phase' = "reapplying" => Reapplies'
         /\ phase' = "restoring" =>
              \/ IF err' THEN head' = old.head ELSE Len(head') >= Len(old.head)
              \/ BreaksOff
<1> DEFINE Goes ==
             /\ old' = old /\ phase' # "direct"
             /\ phase' \in {"popping", "pushing", "unwinding"} =>
                  \E n \in 0 .. Len(old.head) : second' = Branch(old.head, n)
             /\ phase' = "popping" => first' # << >>
             /\ phase' \in {"popping", "pushing"} /\ first' # << >>
                  => Len(first'[1]) > Len(old.head)
             /\ phase' = "pushing" /\ first' = << >> => Len(head') > Len(old.head)
             /\ phase' = "reapplying" => Reapplies'
             /\ phase' = "restoring" =>
                  \/ IF err' THEN head' = old.head ELSE Len(head') >= Len(old.head)
                  \/ BreaksOff
<1>i. TypeInv /\ AppliedOnce
  BY DEF PoolInv
<1>t. /\ new \in Blocks /\ first \in Seq(Blocks) /\ left \in Seq(Blocks)
      /\ old.head \in Blocks /\ head \in Blocks /\ Len(head) \in Nat
  BY <1>i, Basics DEF TypeInv, SizeInv, TypeOK
<1>l. Len(old.head) \in Nat
  BY <1>t, BlockSeq
<1>s. /\ phase \in {"popping", "pushing", "unwinding"} =>
           \E n \in 0 .. Len(old.head) : second = Branch(old.head, n)
      /\ phase = "popping" => first # << >>
      /\ phase \in {"popping", "pushing"} /\ first # << >> => Len(first[1]) > Len(old.head)
      /\ phase = "pushing" /\ first = << >> => Len(head) > Len(old.head)
      /\ phase = "reapplying" => Reapplies
      /\ phase = "direct" => head = old.head
      /\ Sound(old.head) /\ Disjoint(old.head)
  BY DEF BranchInv, OrderInv
<1>a. ASSUME Return(TRUE), head' = old.head PROVE Goes
  BY <1>a DEF Return
<1>b. ASSUME Return(FALSE), Len(head') >= Len(old.head) PROVE Goes
  BY <1>b DEF Return
<1>1. ASSUME NEW m \in UndoSizes, push_direct(m) PROVE Goes
  <2>0. head = old.head
    BY <1>1, <1>s DEF push_direct
  <2>1. CASE Applies(new)
    <3>1. Apply(new, m) /\ Return(FALSE)
      BY <1>1, <2>1 DEF push_direct
    <3>2. Len(head') = Len(head) + 1
      <4>1. head' = new /\ Len(new) = Len(head) + 1
        BY <3>1, <2>1, <1>i, <1>t, ApplyShape DEF Apply
      <4> QED BY <4>1
    <3>3. Len(head') >= Len(old.head)
      BY <3>2, <2>0, <1>t
    <3> HIDE DEF Goes
    <3> QED BY <3>1, <3>3, <1>b
  <2>2. CASE ~Applies(new)
    <3>1. FailToApply(new, m) /\ Return(TRUE)
      BY <1>1, <2>2 DEF push_direct
    <3>2. head' = old.head
      BY <3>1, <2>0 DEF FailToApply
    <3> HIDE DEF Goes
    <3> QED BY <3>1, <3>2, <1>a
  <2> QED BY <2>1, <2>2
<1>2. ASSUME NEW m \in UndoSizes, switch_push(m) PROVE Goes
  <2>0. phase = "pushing"
    BY <1>2 DEF switch_push
  <2>1. CASE first = << >>
    <3>1. Return(FALSE) /\ head' = head
      BY <1>2, <2>1 DEF switch_push, chainvars
    <3>2. Len(head') >= Len(old.head)
      BY <3>1, <2>0, <2>1, <1>s, <1>t, <1>l
    <3> HIDE DEF Goes
    <3> QED BY <3>1, <3>2, <1>b
  <2>2. CASE first # << >>
    <3> DEFINE b == first[Len(first)]
               k == Len(first)
    <3>1. /\ k \in Nat \ {0} /\ b \in Blocks
          /\ Len(Upto(first, k - 1)) = k - 1 /\ Upto(first, k - 1) \in Seq(Blocks)
          /\ \A i \in 1 .. k - 1 : Upto(first, k - 1)[i] = first[i]
      BY <2>2, <1>t, DropLast
    <3>2. Len(first[1]) > Len(old.head)
      BY <2>0, <2>2, <1>s
    <3>3. CASE Applies(b)
      <4>1. /\ head' = b /\ first' = Upto(first, k - 1)
            /\ UNCHANGED <<phase, second, left, err, old>>
        BY <1>2, <2>2, <3>3 DEF switch_push, Apply
      <4> HIDE DEF k
      <4>2. CASE k = 1
        <5>1. b = first[1]
          BY <4>2 DEF k
        <5>2. first' = << >>
          BY <4>1, <4>2, <3>1, EmptySeq
        <5> QED BY <5>1, <5>2, <4>1, <3>2, <2>0, <1>s
      <4>3. CASE k # 1
        <5>1. 1 \in 1 .. k - 1 /\ k - 1 # 0
          BY <4>3, <3>1
        <5>2. first'[1] = first[1]
          BY <5>1, <4>1, <3>1
        <5>3. first' # << >>
          BY <5>1, <4>1, <3>1, EmptySeq
        <5> QED BY <5>2, <5>3, <4>1, <3>2, <2>0, <1>s
      <4> QED BY <4>2, <4>3
    <3>4. CASE ~Applies(b)
      <4>1. Goto("unwinding")
        BY <1>2, <2>2, <3>4 DEF switch_push
      <4> QED BY <4>1, <2>0, <1>s DEF Goto
    <3> QED BY <3>3, <3>4
  <2> QED BY <2>1, <2>2
<1>3. ASSUME NEW m \in UndoSizes, switch_reapply(m) PROVE Goes
  <2>0. /\ phase = "reapplying" /\ Len(left) <= Len(old.head)
        /\ head = Upto(old.head, Len(old.head) - Len(left))
        /\ \A i \in 1 .. Len(left) : left[i] = Upto(old.head, Len(old.head) - i + 1)
    BY <1>3, <1>s DEF switch_reapply, Reapplies
  <2>1. CASE left = << >>
    <3>1. Return(TRUE) /\ head' = head
      BY <1>3, <2>1 DEF switch_reapply, chainvars
    <3>2. Len(left) = 0
      BY <2>1, EmptySeq
    <3>3. head = old.head
      <4>1. Len(old.head) - Len(left) = Len(old.head) /\ 0 \in 0 .. Len(old.head)
            /\ Len(old.head) \in 0 .. Len(old.head)
        BY <3>2, <1>l
      <4> QED BY <4>1, <2>0, <1>t, UptoUpto
    <3> HIDE DEF Goes
    <3> QED BY <3>1, <3>3, <1>a
  <2>2. CASE left # << >>
    <3> DEFINE b == left[Len(left)]
               k == Len(left)
               n == Len(old.head) - Len(left) + 1
    <3>1. /\ k \in Nat \ {0} /\ b \in Blocks
          /\ Len(Upto(left, k - 1)) = k - 1
          /\ \A i \in 1 .. k - 1 : Upto(left, k - 1)[i] = left[i]
      BY <2>2, <1>t, DropLast
    <3>2. n \in 1 .. Len(old.head) /\ n - 1 = Len(old.head) - k /\ k \in 1 .. k
          /\ n = Len(old.head) - (k - 1)
      BY <3>1, <2>0, <1>l
    <3>3. b = Upto(old.head, n) /\ head = Upto(old.head, n - 1)
      BY <3>2, <2>0
    <3>4. Applies(b)
      <4> HIDE DEF n, b
      <4> QED BY <3>2, <3>3, <1>i, <1>s, <1>t, AppliesAgain
    <3>5. /\ head' = b /\ left' = Upto(left, k - 1)
          /\ UNCHANGED <<phase, new, first, second, err, old>>
      BY <3>4, <1>3, <2>2 DEF switch_reapply, Apply
    <3>6. Reapplies'
      <4> HIDE DEF n, b, k
      <4>1. Len(left') = k - 1 /\ k - 1 <= Len(old.head)
        BY <3>1, <3>2, <3>5, <2>0, <1>l DEF k
      <4>2. head' = Upto(old.head, Len(old.head) - Len(left'))
        BY <4>1, <3>2, <3>3, <3>5
      <4>3. \A i \in 1 .. k - 1 : i \in 1 .. k
        BY <3>1
      <4>4. \A i \in 1 .. Len(left') : left'[i] = Upto(old.head, Len(old.head) - i + 1)
        BY <4>1, <4>3, <3>1, <3>5, <2>0 DEF k
      <4> QED BY <4>1, <4>2, <4>4, <3>5 DEF Reapplies
    <3> QED BY <3>5, <3>6, <2>0
  <2> QED BY <2>1, <2>2
<1>c. ASSUME UNCHANGED callvars, phase \in {"popping", "unwinding"} PROVE Goes
  BY <1>c, <1>s DEF callvars
<1>d. ASSUME phase \in {"popping", "unwinding"}, ~AtFork,
             \/ pop_block /\ IF CanPop THEN UNCHANGED callvars ELSE Return(TRUE)
             \/ ~CanPopFork /\ Return(TRUE) /\ UNCHANGED <<chainvars, forkvars, txvars>>
      PROVE  Goes
  <2>1. CASE pop_block /\ CanPop /\ UNCHANGED callvars
    <3> HIDE DEF Goes
    <3> QED BY <2>1, <1>c, <1>d
  <2>2. CASE pop_block /\ ~CanPop /\ Return(TRUE)
    <3>1. BreaksOff
      BY <2>2, <1>d DEF pop_block, Undoing, BreaksOff, Return
    <3> QED BY <2>2, <3>1 DEF Return
  <2>3. CASE ~CanPopFork /\ Return(TRUE) /\ UNCHANGED <<chainvars, forkvars, txvars>>
    <3>1. BreaksOff
      BY <2>3, <1>d DEF Undoing, BreaksOff, Return, chainvars
    <3> QED BY <2>3, <3>1 DEF Return
  <2> HIDE DEF Goes
  <2> QED BY <2>1, <2>2, <2>3, <1>d
<1>4. switch_pop => Goes
  <2>1. ASSUME switch_pop, AtFork PROVE Goes
    BY <2>1, <1>s DEF switch_pop, Goto
  <2> HIDE DEF Goes
  <2> QED BY <2>1, <1>d DEF switch_pop
<1>5. switch_unwind => Goes
  <2>1. ASSUME switch_unwind, AtFork PROVE Goes
    <3>1. /\ phase' = "reapplying" /\ left' = second /\ head' = head /\ old' = old
          /\ phase = "unwinding"
      BY <2>1 DEF switch_unwind, chainvars
    <3>2. PICK n \in 0 .. Len(old.head) : second = Branch(old.head, n)
      BY <3>1, <1>s
    <3>3. /\ Len(second) <= Len(old.head)
          /\ head = Upto(old.head, Len(old.head) - Len(second))
          /\ \A i \in 1 .. Len(second) : second[i] = Upto(old.head, Len(old.head) - i + 1)
      BY <2>1, <3>2, <1>i, ForkReached
    <3>4. Reapplies'
      BY <3>1, <3>3 DEF Reapplies
    <3> QED BY <3>1, <3>4
  <2> HIDE DEF Goes
  <2> QED BY <2>1, <1>d DEF switch_unwind
<1> HIDE DEF Goes
<1>7. Goes
  BY <1>1, <1>2, <1>3, <1>4, <1>5, WorkNext
<1> QED BY <1>7 DEF Goes

LEMMA BranchInvStep ==
  ASSUME PoolInv, OrderInv, BranchInv, Next
  PROVE  BranchInv' /\ (Outcome => Outcome' \/ BreaksOff)
<1>i. TypeInv
  BY DEF PoolInv
<1>t. phase \in Phases /\ Len(head) \in Nat
  BY <1>i, Basics DEF TypeInv, SizeInv, TypeOK
<1>s. Sound(head') /\ Sound(old.head) /\ Sound(head)
  BY <1>i, SoundStep DEF BranchInv
<1>1. CASE phase = "idle"
  <2>1. CASE phase' = "idle" /\ UNCHANGED <<old, popped, queue, err, ids>>
    BY <2>1, <1>s DEF BranchInv, Outcome
  <2>2. ASSUME UNCHANGED <<head, libs, trxs, store, popped>>, NEW b \in Blocks, Enter(b)
        PROVE  BranchInv' /\ Outcome'
    <3>1. /\ old'.head = head /\ head' = head
          /\ phase' \in {"direct", "popping", "restoring"}
          /\ phase' = "popping" =>
               /\ first' # << >> /\ Len(first'[1]) > Len(head)
               /\ \E n \in 0 .. Len(head) : second' = Branch(head, n)
      BY <2>2, <1>i, EnterShape
    <3>2. Len(head) >= Len(head)
      BY <1>t
    <3> QED BY <3>1, <3>2, <1>s DEF BranchInv, Outcome
  <2> QED BY <2>1, <2>2, <1>1, <1>i, IdleStep
<1>2. CASE phase \in Elsewhere
  BY <1>2, <1>s, SwitchStep DEF BranchInv, Outcome
<1>3. CASE phase = "restoring"
  <2>1. ASSUME phase' = "restoring", UNCHANGED <<head, err, old>> PROVE BranchInv' /\ (Outcome => Outcome')
    BY <2>1, <1>3, <1>s DEF BranchInv, Outcome
  <2>2. ASSUME phase' = "idle", old' = NoCall PROVE BranchInv' /\ (Outcome => Outcome')
    <3>1. old'.head = Root /\ Len(Root) = 0
      BY <2>2, PreviousShape DEF NoCall
    <3>2. Sound(old'.head)
      BY <3>1 DEF Sound
    <3> QED BY <2>2, <3>2, <1>s DEF BranchInv, Outcome
  <2>3. \/ phase' = "restoring" /\ UNCHANGED <<head, err, old>>
        \/ phase' = "idle" /\ old' = NoCall
    BY <1>3, <1>i, RestoreStep DEF Restores
  <2> QED BY <2>1, <2>2, <2>3
<1> QED BY <1>1, <1>2, <1>3, <1>t DEF Phases, Elsewhere

LEMMA BranchInvNext == PoolInv /\ OrderInv /\ BranchInv /\ [Next]_vars => BranchInv'
<1>1. ASSUME BranchInv, UNCHANGED vars PROVE BranchInv'
  <2>1. head' = head /\ UNCHANGED callvars
    BY <1>1 DEF vars, chainvars
  <2> QED BY <1>1, <2>1 DEF BranchInv, Reapplies, callvars
<1> QED BY <1>1, BranchInvStep

LEMMA OutcomeNext ==
  PoolInv /\ OrderInv /\ SwitchInv /\ PopsBack /\ [Next]_vars => SwitchInv'
<1>1. ASSUME Outcome, UNCHANGED vars PROVE Outcome'
  BY <1>1 DEF Outcome, vars, chainvars, callvars
<1>2. ASSUME PoolInv, OrderInv, SwitchInv, PopsBack, Next PROVE Outcome'
  <2>1. BreaksOff => head' = old.head /\ old' = old
    <3>1. ASSUME BreaksOff PROVE head' = old.head /\ old' = old
      <4>1. head' = old.head /\ phase \in Elsewhere
        BY <1>2, <3>1 DEF BreaksOff, PopsBack, Undoing, Elsewhere
      <4> QED BY <4>1, <1>2, SwitchStep DEF SwitchInv
    <3> QED BY <3>1
  <2>2. BreaksOff => Outcome'
    BY <2>1 DEF BreaksOff, Outcome
  <2> QED BY <2>2, <1>2, BranchInvStep DEF SwitchInv
<1> QED BY <1>1, <1>2, BranchInvNext DEF SwitchInv

LEMMA SwitchInvInit == Init => SwitchInv
<1> SUFFICES ASSUME Init PROVE SwitchInv
  OBVIOUS
<1>1. phase = "idle" /\ head = Root /\ old.head = Root /\ Len(Root) = 0
  BY PreviousShape DEF Init, NoCall
<1>2. Sound(Root)
  BY <1>1 DEF Sound
<1> QED BY <1>1, <1>2 DEF SwitchInv, BranchInv, Outcome

\* When push_block throws, the head is the one it found, unless a pop_block threw
\* in the middle: nothing else can keep a failed switch from being unwound.  The
\* blocks of the old branch always apply again, because each was applied on the
\* same parent before and the transaction index agrees with the chain.  And when
\* it returns, the chain is not shorter.
THEOREM FailedSwitchUnwound == Spec /\ []PopsBack => []Unwound
<1>1. SwitchInv => Unwound
  BY DEF SwitchInv, Outcome, Unwound, Done, Height
<1> QED BY <1>1, PoolInvInit, PoolInvNext, OrderInvInit, OrderInvNext, SwitchInvInit,
           OutcomeNext, PTL DEF Spec

\* Under the same condition the other promises of push_block hold without
\* further ado: no transaction is lost, their order is kept, and the
\* irreversible block stays.
THEOREM SwitchKeepsPromises ==
  Spec /\ []PopsBack => [](NoTxLost /\ ChainOrderKept /\ IrreversibleStays)
BY FailedSwitchUnwound, TransactionsKept, OrderIsKept, IrreversibleNumberStays, PTL

-----------------------------------------------------------------------------
(* A fork switch never undoes Root.                                         *)

\* Without restarts this follows from deltas <= Len(head).  After a replay there
\* is a delta for Root as well, and another argument is needed.

Switching == {"popping", "pushing", "unwinding"}

\* The height of the block that both branches of a switch grew from.
ForkPoint == Len(old.head) - Len(second)

\* The chain keeps the fork point as long as a switch is under way, and while the
\* chain is Root alone the fork database has only Root and the block that is
\* being pushed, so that no switch begins there.
RootInv ==
  /\ phase \in Switching =>
       /\ Len(second) \in 1 .. Len(old.head)
       /\ Len(head) >= ForkPoint /\ Upto(head, ForkPoint) = Upto(old.head, ForkPoint)
  /\ phase = "reapplying" => old.head # Root
  /\ phase \notin Switching \cup {"reapplying"} /\ head = Root =>
       /\ index \subseteq {Root} \cup IF phase = "direct" THEN {new} ELSE {}
       /\ Len(fhead) <= 1

\* What AtFork compares the head with.
LEMMA ForkPointBlock ==
  ASSUME NEW o \in Blocks, NEW n \in 0 .. Len(o), NEW s, s = Branch(o, n),
         Len(s) \in 1 .. Len(o)
  PROVE  /\ Len(o) - Len(s) \in 0 .. Len(o) - 1
         /\ Previous(s[Len(s)]) = Upto(o, Len(o) - Len(s))
<1>1. Len(o) \in Nat /\ n \in Nat
  BY BlockSeq
<1>2. /\ Len(s) = Len(o) - n + 1
      /\ \A i \in 1 .. Len(o) - n + 1 : s[i] = Upto(o, Len(o) - i + 1)
  BY BranchShape
<1>3. /\ Len(s) \in 1 .. Len(o) - n + 1 /\ Len(o) - Len(s) + 1 = n
      /\ n - 1 = Len(o) - Len(s) /\ n \in Nat \ {0} /\ n - 1 \in 0 .. n
      /\ Len(o) - Len(s) \in 0 .. Len(o) - 1
  BY <1>1, <1>2
<1>4. s[Len(s)] = Upto(o, n)
  BY <1>2, <1>3
<1>5. Upto(o, n) \in Blocks /\ Len(Upto(o, n)) = n
  BY UptoShape
<1>6. Previous(Upto(o, n)) = Upto(Upto(o, n), n - 1)
  BY <1>3, <1>5, PreviousShape
<1>7. Upto(Upto(o, n), n - 1) = Upto(o, n - 1)
  BY <1>3, UptoUpto
<1> QED BY <1>3, <1>4, <1>6, <1>7

\* A chain that has the fork point is at the fork iff it is as long.
LEMMA AtForkLength ==
  ASSUME NEW o \in Blocks, NEW h \in Blocks, NEW k \in 0 .. Len(o), Len(h) >= k,
         Upto(h, k) = Upto(o, k)
  PROVE  h = Upto(o, k) <=> Len(h) = k
<1>1. Len(Upto(o, k)) = k
  BY UptoShape
<1>2. Len(h) \in Nat
  BY BlockSeq
<1>3. ASSUME Len(h) = k PROVE h = Upto(o, k)
  <2>1. k \in 0 .. Len(h) /\ 0 \in 0 .. k
    BY <1>2, <1>3
  <2>2. Upto(h, k) = h
    BY <1>3, <2>1, UptoUpto
  <2> QED BY <2>2
<1> QED BY <1>1, <1>3

LEMMA NotAtRoot ==
  ASSUME NEW o \in Blocks, NEW h \in Blocks, NEW n \in 0 .. Len(o), NEW s, s = Branch(o, n),
         Len(s) \in 1 .. Len(o), Len(h) >= Len(o) - Len(s),
         Upto(h, Len(o) - Len(s)) = Upto(o, Len(o) - Len(s)),
         h # Previous(s[Len(s)])
  PROVE  Len(h) > Len(o) - Len(s) /\ h # Root
<1> DEFINE k == Len(o) - Len(s)
<1>1. k \in 0 .. Len(o) - 1 /\ Previous(s[Len(s)]) = Upto(o, k)
  BY ForkPointBlock
<1>2. Len(o) \in Nat /\ Len(h) \in Nat
  BY BlockSeq
<1>3. Len(h) >= k /\ Upto(h, k) = Upto(o, k) /\ h # Upto(o, k)
  BY <1>1
<1> HIDE DEF k
<1>4. k \in 0 .. Len(o)
  BY <1>1, <1>2
<1>5. Len(h) # k
  BY <1>3, <1>4, AtForkLength
<1>6. Len(h) > k
  BY <1>1, <1>2, <1>3, <1>5
<1>7. h # Root
  BY <1>1, <1>2, <1>6, PreviousShape
<1> QED BY <1>6, <1>7 DEF k

\* The blocks a switch undoes are above the fork point: never Root.
LEMMA RootHeld ==
  /\ SizeInv /\ BranchInv /\ RootInv /\ Undoing => head # Root /\ Len(head) > ForkPoint
  /\ SizeInv' /\ BranchInv' /\ RootInv' /\ Undoing' => head' # Root
<1>1. ASSUME SizeInv, BranchInv, RootInv, Undoing PROVE head # Root /\ Len(head) > ForkPoint
  <2>1. old.head \in Blocks /\ head \in Blocks
    BY <1>1 DEF SizeInv, TypeOK
  <2>2. PICK n \in 0 .. Len(old.head) : second = Branch(old.head, n)
    BY <1>1 DEF BranchInv, Undoing
  <2>3. /\ Len(second) \in 1 .. Len(old.head) /\ Len(head) >= Len(old.head) - Len(second)
        /\ Upto(head, Len(old.head) - Len(second)) = Upto(old.head, Len(old.head) - Len(second))
        /\ head # Previous(second[Len(second)])
    BY <1>1 DEF RootInv, Undoing, Switching, ForkPoint, AtFork
  <2> QED BY <2>1, <2>2, <2>3, NotAtRoot DEF ForkPoint
<1>2. ASSUME SizeInv', BranchInv', RootInv', Undoing' PROVE head' # Root
  <2>1. old'.head \in Blocks /\ head' \in Blocks
    BY <1>2 DEF SizeInv, TypeOK
  <2>2. PICK n \in 0 .. Len(old'.head) : second' = Branch(old'.head, n)
    BY <1>2 DEF BranchInv, Undoing
  <2>3. /\ Len(second') \in 1 .. Len(old'.head) /\ Len(head') >= Len(old'.head) - Len(second')
        /\ Upto(head', Len(old'.head) - Len(second')) = Upto(old'.head, Len(old'.head) - Len(second'))
        /\ head' # Previous(second'[Len(second')])
    BY <1>2 DEF RootInv, Undoing, Switching, ForkPoint, AtFork
  <2> QED BY <2>1, <2>2, <2>3, NotAtRoot
<1> QED BY <1>1, <1>2

LEMMA RootInvType ==
  /\ SizeInv /\ BranchInv /\ RootInv => TypeInv
  /\ SizeInv' /\ BranchInv' /\ RootInv' => TypeInv'
<1>1. ASSUME SizeInv', BranchInv', RootInv' PROVE TypeInv'
  BY <1>1, RootHeld DEF TypeInv
<1> QED BY <1>1, RootHeld DEF TypeInv

\* fetch_branch_from stops above Root, when neither block is Root.
LEMMA ForkHeightPositive ==
  ASSUME NEW a \in Blocks, NEW c \in Blocks, a # Root, c # Root
  PROVE  ForkHeight(a, c) \in 1 .. Len(c)
<1>1. Len(a) \in Nat \ {0} /\ Len(c) \in Nat \ {0}
  BY PreviousShape
<1> DEFINE S == {n \in 1 .. Smaller(Len(a), Len(c)) : Upto(a, n) = Upto(c, n)}
<1>2. Smaller(Len(a), Len(c)) \in Nat \ {0} /\ Smaller(Len(a), Len(c)) <= Len(c)
  BY <1>1 DEF Smaller
<1>3. Cardinality(S) \in Nat
  <2>1. IsFiniteSet(1 .. Smaller(Len(a), Len(c)))
    BY <1>2, FS_Interval
  <2>2. IsFiniteSet(S)
    BY <2>1, FS_Subset
  <2> QED BY <2>2, FS_CardinalityType
<1>4. Common(a, c) \in Nat
  BY <1>3 DEF Common
<1> QED BY ONLY <1>1, <1>2, <1>4 DEF ForkHeight, Smaller

\* A push_block that is entered while the chain is Root alone finds nothing to
\* switch to; one that begins a switch has both branches start above Root.
LEMMA EnterRoot ==
  ASSUME TypeInv, RootInv, phase = "idle", NEW b \in Blocks, Enter(b), head' = head
  PROVE  RootInv'
<1>t. /\ head \in Blocks /\ fhead \in Blocks /\ index \subseteq Blocks
      /\ Len(head) \in Nat /\ Len(fhead) \in Nat
  BY BlockSeq DEF TypeInv, SizeInv, TypeOK
<1>0. new' = b /\ old'.head = head
  BY DEF Enter
<1>r. head = Root => index \subseteq {Root} /\ Len(fhead) <= 1
  BY DEF RootInv, Switching
<1>1. CASE CannotLink(b)
  <2>1. phase' = "restoring" /\ index' = index /\ fhead' = fhead
    BY <1>1 DEF Enter, forkvars
  <2> QED BY <2>1, <1>r DEF RootInv, Switching
<1>2. CASE ~CannotLink(b)
  <2> DEFINE n == ForkHeight(fhead', head)
             switch == Previous(fhead') # head /\ Num(fhead') > Num(head)
             linked == Climbs(index', orphan', fhead', n) /\ Climbs(index', orphan', head, n)
  <2>1. /\ Inserted(b)
        /\ phase' = CASE Previous(fhead') = head -> "direct"
                      [] switch /\ linked -> "popping"
                      [] OTHER -> "restoring"
        /\ second' = IF switch /\ linked THEN Branch(head, n) ELSE << >>
    BY <1>2 DEF Enter
  <2>2. fhead' \in Blocks /\ Len(fhead') \in Nat
    BY <2>1, InsertedType, BlockSeq
  <2>3. index' \subseteq index \cup {b}
    BY <2>1 DEF Inserted, Erase
  <2>4. phase' \in {"direct", "popping", "restoring"}
    BY EnterShape
  <2> HIDE DEF n
  <2>5. CASE head = Root
    <3>1. Previous(b) = Root
      BY <2>5, <1>2, <1>r DEF CannotLink
    <3>2. Len(b) = 1
      <4>1. Root \in Blocks /\ Len(Root) = 0
        BY PreviousShape
      <4>2. Len(b) = Len(Root) + 1
        BY <3>1, <4>1, ChildShape
      <4> QED BY <4>1, <4>2
    <3>3. Len(fhead') = 1
      BY <3>2, <2>1, <2>5, <1>r, <1>t DEF Inserted, Num
    <3>4. Previous(fhead') = Root
      <4>1. fhead' # Root
        BY <3>3, PreviousShape
      <4>2. Previous(fhead') \in Blocks /\ Len(Previous(fhead')) = Len(fhead') - 1
        BY <4>1, <2>2, PreviousShape
      <4>3. Len(Previous(fhead')) = 0
        BY <4>2, <3>3
      <4> QED BY <4>2, <4>3, PreviousShape
    <3>5. phase' = "direct"
      BY <3>4, <2>1, <2>5
    <3>6. index' \subseteq {Root} \cup {new'}
      BY <2>3, <2>5, <1>r, <1>0
    <3> QED BY <3>3, <3>5, <3>6 DEF RootInv, Switching
  <2>6. CASE head # Root
    <3>1. ASSUME phase' = "popping" PROVE /\ Len(second') \in 1 .. Len(head)
                                          /\ Len(head) >= Len(head) - Len(second')
      <4>1. switch /\ linked
        BY <3>1, <2>1
      <4>2. fhead' # Root
        BY <4>1, <2>2, <1>t, PreviousShape DEF Num
      <4>3. n \in 1 .. Len(head)
        BY <4>2, <2>2, <2>6, <1>t, ForkHeightPositive DEF n
      <4>4. second' = Branch(head, n)
        BY <4>1, <2>1
      <4>5. Len(second') = Len(head) - n + 1
        <5>1. n \in 0 .. Len(head)
          BY <4>3, <1>t
        <5> QED BY <5>1, <4>4, <1>t, BranchShape
      <4> QED BY ONLY <4>3, <4>5, <1>t
    <3> QED BY <3>1, <2>4, <2>6, <1>0 DEF RootInv, Switching, ForkPoint
  <2> QED BY <2>5, <2>6
<1> QED BY <1>1, <1>2

\* Outside push_block at work, only Enter concerns the fork database.
LEMMA ForkIdle ==
  ASSUME TypeInv, Next, phase \in {"idle", "restoring"}
  PROVE  \/ /\ phase' \in {"idle", "restoring"} /\ UNCHANGED <<head, store, forkvars>>
            /\ phase' = "restoring" => UNCHANGED callvars
         \/ /\ phase = "idle" /\ UNCHANGED <<head, store>>
            /\ \E b \in Blocks : ~is_known_block(b) /\ Enter(b)
<1> DEFINE Idles == /\ phase' \in {"idle", "restoring"} /\ UNCHANGED <<head, store, forkvars>>
                    /\ phase' = "restoring" => UNCHANGED callvars
           Enters == /\ phase = "idle" /\ UNCHANGED <<head, store>>
                     /\ \E b \in Blocks : ~is_known_block(b) /\ Enter(b)
<1>1. ASSUME NEW b \in Blocks, push_block(b) PROVE Enters
  BY <1>1 DEF push_block, chainvars
<1>2. ASSUME NEW t \in Txs, push_transaction(t) PROVE Idles
  BY <1>2 DEF push_transaction, PushTx, callvars
<1>3. validate_transaction => Idles
  BY DEF validate_transaction, callvars
<1>4. generate_block_too_large => Idles
  BY DEF generate_block_too_large, callvars
<1>5. ASSUME NEW y \in Bodies, generate_block(y) PROVE Enters
  BY <1>5, GeneratedBlock DEF generate_block
<1>6. /\ ~switch_pop /\ ~switch_unwind
      /\ \A m \in UndoSizes : ~push_direct(m) /\ ~switch_push(m) /\ ~switch_reapply(m)
  BY DEF switch_pop, switch_unwind, push_direct, switch_push, switch_reapply
<1>7. restore_popped => Idles
  BY DEF restore_popped, PushTx, callvars, chainvars
<1>8. restore_next => Idles
  BY DEF restore_next, PushTx, callvars, chainvars
<1> HIDE DEF Idles, Enters
<1>9. Idles \/ Enters
  BY <1>1, <1>2, <1>3, <1>4, <1>5, <1>6, <1>7, <1>8 DEF Next, CallStep
<1> QED BY <1>9 DEF Idles, Enters

LEMMA RootInvStep ==
  ASSUME PoolInv, OrderInv, BranchInv, RootInv, Next
  PROVE  RootInv'
<1>i. TypeInv /\ SizeInv
  BY DEF PoolInv, TypeInv
<1>t. /\ new \in Blocks /\ first \in Seq(Blocks) /\ phase \in Phases
      /\ old.head \in Blocks /\ head \in Blocks /\ Len(head) \in Nat
  BY <1>i, Basics DEF SizeInv, TypeOK
<1>l. Len(old.head) \in Nat
  BY <1>t, BlockSeq
<1>s. phase \in Switching =>
        /\ Len(second) \in 1 .. Len(old.head) /\ old.head # Root
        /\ ForkPoint \in Nat /\ ForkPoint \in 0 .. Len(head)
        /\ Upto(head, ForkPoint) = Upto(old.head, ForkPoint)
  <2>1. ASSUME phase \in Switching PROVE /\ Len(second) \in 1 .. Len(old.head) /\ Len(head) >= ForkPoint
                                         /\ Upto(head, ForkPoint) = Upto(old.head, ForkPoint)
    BY <2>1 DEF RootInv
  <2>2. ASSUME Len(second) \in 1 .. Len(old.head), Len(head) >= ForkPoint
        PROVE  ForkPoint \in Nat /\ ForkPoint \in 0 .. Len(head) /\ Len(old.head) # 0
    BY <2>2, <1>l, <1>t DEF ForkPoint
  <2> QED BY <2>1, <2>2, PreviousShape
<1>a. ASSUME phase' = "restoring", head' # Root PROVE RootInv'
  BY <1>a DEF RootInv, Switching
<1>b. ASSUME phase \in Switching, phase' \in Switching, UNCHANGED <<second, old>>,
             Len(head') >= ForkPoint, Upto(head', ForkPoint) = Upto(head, ForkPoint)
      PROVE  RootInv'
  BY <1>b, <1>s DEF RootInv, Switching, ForkPoint
<1>c. ASSUME phase \in {"popping", "unwinding"}, ~AtFork,
             \/ pop_block /\ IF CanPop THEN UNCHANGED callvars ELSE Return(TRUE)
             \/ ~CanPopFork /\ Return(TRUE) /\ UNCHANGED <<chainvars, forkvars, txvars>>
      PROVE  RootInv'
  <2>0. Undoing /\ phase \in Switching
    BY <1>c DEF Undoing, Switching
  <2>1. head # Root /\ Len(head) > ForkPoint
    BY <2>0, <1>i, RootHeld
  <2>2. CASE pop_block /\ CanPop /\ UNCHANGED callvars
    <3>1. head' = Upto(head, Len(head) - 1) /\ Len(head') = Len(head) - 1
      BY <2>0, <2>2, <1>i, PopShape DEF pop_block
    <3>2. /\ Len(head) - 1 \in 0 .. Len(head) /\ ForkPoint \in 0 .. Len(head) - 1
          /\ Len(head) - 1 >= ForkPoint
      BY <2>0, <2>1, <1>s, <1>t
    <3>3. Upto(head', ForkPoint) = Upto(head, ForkPoint)
      BY <3>1, <3>2, <1>t, UptoUpto
    <3>4. phase' = phase /\ UNCHANGED <<second, old>>
      BY <2>2 DEF callvars
    <3> QED BY <2>0, <3>1, <3>2, <3>3, <3>4, <1>b
  <2>3. CASE pop_block /\ ~CanPop /\ Return(TRUE)
    <3>1. head' = head /\ phase' = "restoring"
      BY <2>3 DEF pop_block, Return
    <3> QED BY <3>1, <2>1, <1>a
  <2>4. CASE Return(TRUE) /\ UNCHANGED <<chainvars, forkvars, txvars>>
    <3>1. head' = head /\ phase' = "restoring"
      BY <2>4 DEF chainvars, Return
    <3> QED BY <3>1, <2>1, <1>a
  <2> QED BY <2>2, <2>3, <2>4, <1>c
<1>1. CASE phase \in {"idle", "restoring"}
  <2>1. CASE phase' \in {"idle", "restoring"} /\ UNCHANGED <<head, store, forkvars>>
    BY <1>1, <2>1 DEF RootInv, Switching, forkvars
  <2>2. ASSUME phase = "idle", head' = head, NEW b \in Blocks, Enter(b) PROVE RootInv'
    BY <2>2, <1>i, EnterRoot
  <2> QED BY <1>1, <2>1, <2>2, <1>i, ForkIdle
<1>2. ASSUME NEW m \in UndoSizes, push_direct(m) PROVE RootInv'
  <2>1. CASE Applies(new)
    <3>1. head' = new /\ phase' = "restoring"
      BY <1>2, <2>1 DEF push_direct, Apply, Return
    <3>2. new # Root
      BY <2>1, <1>t, PreviousShape, NoneAssumption DEF Applies
    <3> QED BY <3>1, <3>2, <1>a
  <2>2. CASE ~Applies(new)
    <3>1. /\ head' = head /\ phase' = "restoring" /\ phase = "direct" /\ fhead' = fhead
          /\ index' = index \ {new}
      BY <1>2, <2>2 DEF push_direct, FailToApply, Return, Erase
    <3> QED BY <3>1 DEF RootInv, Switching
  <2> QED BY <2>1, <2>2
<1>3. ASSUME NEW m \in UndoSizes, switch_push(m) PROVE RootInv'
  <2>0. phase = "pushing" /\ phase \in Switching
    BY <1>3 DEF switch_push, Switching
  <2>1. CASE first = << >>
    <3>1. head' = head /\ phase' = "restoring" /\ Len(head) > Len(old.head)
      BY <1>3, <2>0, <2>1 DEF switch_push, chainvars, Return, BranchInv
    <3>2. head # Root
      BY <3>1, <1>l, <1>t, PreviousShape
    <3> QED BY <3>1, <3>2, <1>a
  <2>2. CASE first # << >>
    <3> DEFINE b == first[Len(first)]
    <3>1. b \in Blocks
      BY <2>2, <1>t, DropLast
    <3>2. CASE Applies(b)
      <4>1. head' = b /\ Previous(b) = head /\ phase' = phase /\ UNCHANGED <<second, old>>
        BY <1>3, <2>2, <3>2 DEF switch_push, Apply, Applies
      <4> HIDE DEF b
      <4>2. Upto(b, ForkPoint) = Upto(head, ForkPoint)
        BY <4>1, <3>1, <1>t, <1>s, <2>0, SameAncestors
      <4>3. Len(b) = Len(head) + 1
        BY <4>1, <3>1, <1>t, ChildShape
      <4>4. Len(b) >= ForkPoint
        BY <4>3, <2>0, <1>s, <1>t
      <4> QED BY <4>1, <4>2, <4>4, <2>0, <1>b
    <3>3. CASE ~Applies(b)
      <4>1. head' = head /\ phase' = "unwinding" /\ UNCHANGED <<second, old>>
        BY <1>3, <2>2, <3>3 DEF switch_push, FailToApply, Goto
      <4>2. phase' \in Switching /\ Len(head) >= ForkPoint
        BY <4>1, <2>0, <1>s, <1>t DEF Switching
      <4> QED BY <4>1, <4>2, <2>0, <1>b
    <3> QED BY <3>2, <3>3
  <2> QED BY <2>1, <2>2
<1>4. ASSUME NEW m \in UndoSizes, switch_reapply(m) PROVE RootInv'
  <2>0. phase = "reapplying" /\ phase' \in {"reapplying", "restoring"} /\ old' = old
        /\ (phase' = "restoring" => err' = TRUE)
    BY <1>4 DEF switch_reapply, Return
  <2>1. old.head # Root
    BY <2>0 DEF RootInv
  <2>2. CASE phase' = "reapplying"
    BY <2>0, <2>1, <2>2 DEF RootInv, Switching
  <2>3. CASE phase' = "restoring"
    <3>1. ~BreaksOff
      BY <2>0 DEF BreaksOff, Undoing
    <3>2. phase \in Elsewhere
      BY <2>0 DEF Elsewhere
    <3>3. head' = old.head
      BY <3>1, <3>2, <2>0, <2>3, SwitchStep
    <3> QED BY <3>3, <2>1, <2>3, <1>a
  <2> QED BY <2>0, <2>2, <2>3
<1>5. ASSUME switch_pop PROVE RootInv'
  <2>1. CASE AtFork
    <3>1. phase = "popping" /\ phase' = "pushing" /\ head' = head /\ UNCHANGED <<second, old>>
      BY <1>5, <2>1 DEF switch_pop, Goto, chainvars
    <3>2. phase \in Switching /\ phase' \in Switching
      BY <3>1 DEF Switching
    <3>3. Len(head) >= ForkPoint
      BY <3>2, <1>s, <1>t
    <3> QED BY <3>1, <3>2, <3>3, <1>b
  <2>2. CASE ~AtFork
    BY <1>5, <2>2, <1>c DEF switch_pop
  <2> QED BY <2>1, <2>2
<1>6. ASSUME switch_unwind PROVE RootInv'
  <2>1. CASE AtFork
    <3>1. phase = "unwinding" /\ phase' = "reapplying" /\ old' = old
      BY <1>6, <2>1 DEF switch_unwind
    <3>2. old.head # Root
      BY <3>1, <1>s DEF Switching
    <3> QED BY <3>1, <3>2 DEF RootInv, Switching
  <2>2. CASE ~AtFork
    BY <1>6, <2>2, <1>c DEF switch_unwind
  <2> QED BY <2>1, <2>2
<1>7. CASE phase \in Elsewhere
  BY <1>2, <1>3, <1>4, <1>5, <1>6, <1>7, WorkNext
<1> QED BY <1>1, <1>7, <1>t DEF Phases, Elsewhere

LEMMA RootInvNext ==
  PoolInv /\ OrderInv /\ BranchInv /\ RootInv /\ [Next]_vars => RootInv'
<1>1. ASSUME RootInv, UNCHANGED vars PROVE RootInv'
  BY <1>1 DEF RootInv, ForkPoint, vars, chainvars, forkvars, callvars
<1> QED BY <1>1, RootInvStep

LEMMA RootInvInit == Init => RootInv
<1>1. ASSUME Init PROVE RootInv
  <2>1. phase = "idle" /\ index = {Root} /\ fhead = Root /\ Len(Root) = 0
    BY <1>1, PreviousShape DEF Init
  <2> QED BY <2>1 DEF RootInv, Switching
<1> QED BY <1>1

-----------------------------------------------------------------------------
(* The fork database has the current chain.                                 *)

\* The branches fetch_branch_from returns grew from the same block.
LEMMA CommonAncestor ==
  ASSUME NEW a \in Blocks, NEW c \in Blocks, NEW n \in 1 .. ForkHeight(a, c)
  PROVE  /\ n - 1 \in 0 .. Len(a) /\ n - 1 \in 0 .. Len(c)
         /\ Upto(a, n - 1) = Upto(c, n - 1)
<1> DEFINE m == Smaller(Len(a), Len(c))
           S == {i \in 1 .. m : Upto(a, i) = Upto(c, i)}
           k == n - 1
<1>1. Len(a) \in Nat /\ Len(c) \in Nat
  BY BlockSeq
<1>2. m \in Nat /\ m <= Len(a) /\ m <= Len(c)
  BY <1>1 DEF Smaller
<1> HIDE DEF m
<1>3. IsFiniteSet(1 .. m)
  BY <1>2, FS_Interval
<1>4. IsFiniteSet(S) /\ Cardinality(S) \in Nat
  BY <1>3, FS_Subset, FS_CardinalityType
<1>5. k \in Nat /\ k <= m /\ k <= Cardinality(S)
  <2>1. ForkHeight(a, c) = Smaller(m, Cardinality(S) + 1)
    BY DEF ForkHeight, Common, m
  <2> HIDE DEF S
  <2> QED BY <2>1, <1>2, <1>4 DEF Smaller
<1>6. k \in 0 .. Len(a) /\ k \in 0 .. Len(c)
  BY <1>1, <1>2, <1>5
<1>7. CASE k = 0
  <2>1. 0 \in 0 .. Len(a) /\ 0 \in 0 .. Len(c)
    BY <1>1
  <2>2. Upto(a, 0) \in Blocks /\ Len(Upto(a, 0)) = 0
    BY <2>1, UptoShape
  <2>3. Upto(c, 0) \in Blocks /\ Len(Upto(c, 0)) = 0
    BY <2>1, UptoShape
  <2>4. Upto(a, 0) = Upto(c, 0)
    BY <2>2, <2>3, PreviousShape
  <2> QED BY <2>4, <1>6, <1>7
<1>8. CASE k # 0
  <2>1. k \in 1 .. m
    BY <1>2, <1>5, <1>8
  <2> HIDE DEF k
  <2>2. ASSUME k \notin S PROVE FALSE
    <3>1. ASSUME NEW i \in S PROVE i \in 1 .. k - 1
      <4>1. i \in 1 .. m /\ Upto(a, i) = Upto(c, i)
        OBVIOUS
      <4>2. CASE k <= i
        <5>1. i \in 0 .. Len(a) /\ i \in 0 .. Len(c) /\ k \in 0 .. i
          BY <4>1, <4>2, <1>1, <1>2, <1>5
        <5>2. Upto(Upto(a, i), k) = Upto(a, k) /\ Upto(Upto(c, i), k) = Upto(c, k)
          BY <5>1, UptoUpto
        <5>3. Upto(a, k) = Upto(c, k)
          BY <5>2, <4>1
        <5> QED BY <5>3, <2>1, <2>2
      <4> QED BY <4>1, <4>2, <1>5
    <3> HIDE DEF S
    <3>2. S \subseteq 1 .. k - 1
      BY <3>1
    <3>3. IsFiniteSet(1 .. k - 1) /\ Cardinality(1 .. k - 1) = k - 1
      <4>1. k - 1 \in Nat /\ 1 \in Int /\ k - 1 \in Int
        BY <2>1, <1>2
      <4>2. Cardinality(1 .. k - 1) = IF 1 > k - 1 THEN 0 ELSE (k - 1) - 1 + 1
        BY <4>1, FS_Interval
      <4> QED BY <4>1, <4>2, FS_Interval
    <3>4. Cardinality(S) <= k - 1
      BY <3>2, <3>3, FS_Subset
    <3> QED BY <3>4, <1>4, <1>5
  <2>3. Upto(a, k) = Upto(c, k)
    BY <2>2
  <2> QED BY <2>3, <1>6 DEF k
<1> QED BY <1>7, <1>8

\* From the lowest height that idx has a block of, all blocks of the chain that
\* ends in h are in it.
LinkedIn(idx, h) == \A c \in idx : \A k \in Len(c) .. Len(h) : Upto(h, k) \in idx

LEMMA LinkedPrefix ==
  ASSUME NEW idx \in SUBSET Blocks, NEW h \in Blocks, NEW n \in 0 .. Len(h), LinkedIn(idx, h)
  PROVE  LinkedIn(idx, Upto(h, n))
<1> SUFFICES ASSUME NEW c \in idx, NEW k \in Len(c) .. Len(Upto(h, n))
             PROVE  Upto(Upto(h, n), k) \in idx
  BY DEF LinkedIn
<1>1. Len(Upto(h, n)) = n /\ Len(c) \in Nat /\ Len(h) \in Nat
  BY UptoShape, BlockSeq
<1>2. k \in 0 .. n /\ k \in Len(c) .. Len(h)
  BY <1>1
<1>3. Upto(Upto(h, n), k) = Upto(h, k)
  BY <1>2, UptoUpto
<1> QED BY <1>2, <1>3 DEF LinkedIn

LEMMA LinkedChild ==
  ASSUME NEW idx \in SUBSET Blocks, NEW h \in Blocks, NEW b \in idx, Previous(b) = h,
         LinkedIn(idx, h)
  PROVE  LinkedIn(idx, b)
<1> SUFFICES ASSUME NEW c \in idx, NEW k \in Len(c) .. Len(b)
             PROVE  Upto(b, k) \in idx
  BY DEF LinkedIn
<1>1. b \in Blocks /\ Len(b) = Len(h) + 1 /\ Len(h) \in Nat /\ Len(c) \in Nat
  BY ChildShape, BlockSeq
<1>2. CASE k = Len(b)
  <2>1. Len(b) \in 0 .. Len(b) /\ 0 \in 0 .. Len(b)
    BY <1>1
  <2>2. Upto(b, k) = b
    BY <1>1, <1>2, <2>1, UptoUpto
  <2> QED BY <2>2
<1>3. CASE k # Len(b)
  <2>1. k \in 0 .. Len(h) /\ k \in Len(c) .. Len(h)
    BY <1>1, <1>3
  <2>2. Upto(b, k) = Upto(h, k)
    BY <1>1, <2>1, SameAncestors
  <2> QED BY <2>1, <2>2 DEF LinkedIn
<1> QED BY <1>2, <1>3

LEMMA LinkedInsert ==
  ASSUME NEW idx \in SUBSET Blocks, NEW h \in Blocks, NEW b \in Blocks, Previous(b) \in idx,
         LinkedIn(idx, h)
  PROVE  LinkedIn(idx \cup {b}, h)
<1> SUFFICES ASSUME NEW c \in idx \cup {b}, NEW k \in Len(c) .. Len(h)
             PROVE  Upto(h, k) \in idx
  BY DEF LinkedIn
<1>1. CASE c \in idx
  BY <1>1 DEF LinkedIn
<1>2. CASE c = b
  <2>1. Previous(b) \in Blocks
    OBVIOUS
  <2>2. Len(b) = Len(Previous(b)) + 1 /\ Len(Previous(b)) \in Nat
    BY <2>1, ChildShape
  <2>3. Len(h) \in Nat
    BY BlockSeq
  <2>4. k \in Len(Previous(b)) .. Len(h)
    BY <1>2, <2>2, <2>3
  <2> QED BY <2>4 DEF LinkedIn
<1> QED BY <1>1, <1>2

\* Removing whole heights from below, or blocks that are not of the chain.
LEMMA LinkedErase ==
  ASSUME NEW idx \in SUBSET Blocks, NEW h \in Blocks, NEW gone, LinkedIn(idx, h),
         \/ \A c \in idx \ gone, d \in idx : Len(d) >= Len(c) => d \notin gone
         \/ \A k \in 0 .. Len(h) : Upto(h, k) \notin gone
  PROVE  LinkedIn(idx \ gone, h)
<1> SUFFICES ASSUME NEW c \in idx \ gone, NEW k \in Len(c) .. Len(h)
             PROVE  Upto(h, k) \notin gone
  BY DEF LinkedIn
<1>1. Len(c) \in Nat /\ Len(h) \in Nat
  BY BlockSeq
<1>2. k \in 0 .. Len(h) /\ k >= Len(c)
  BY <1>1
<1>3. Upto(h, k) \in idx
  BY DEF LinkedIn
<1>4. Len(Upto(h, k)) = k
  BY <1>2, UptoShape
<1> QED BY <1>2, <1>3, <1>4

\* An item whose prev pointer is alive has its parent in the index, when nothing
\* was read from a file.
PrevAlive == \A b \in index \ orphan : b = Root \/ Previous(b) \in index

LEMMA EraseKeepsAlive ==
  ASSUME kept = {}, NEW idx, NEW gone, Erase(idx, gone),
         \A b \in idx \ orphan : b = Root \/ Previous(b) \in idx
  PROVE  kept' = {} /\ index' = idx \ gone /\ PrevAlive'
BY DEF Erase, PrevAlive

\* What _push_block does to the index.
LEMMA InsertedFork ==
  ASSUME TypeInv, kept = {}, IsFiniteSet(index), PrevAlive,
         NEW b \in Blocks, Previous(b) \in index, Inserted(b)
  PROVE  /\ kept' = {} /\ IsFiniteSet(index') /\ PrevAlive'
         /\ b \in index' /\ index' \subseteq index \cup {b}
         /\ \A h \in Blocks : LinkedIn(index, h) => LinkedIn(index', h)
<1>t. index \subseteq Blocks /\ ForkSize \in Nat /\ fhead \in Blocks
  BY ChainAssumption DEF TypeInv, SizeInv, TypeOK
<1> DEFINE idx == index \cup {b}
<1>1. IsFiniteSet(idx)
  BY FS_AddElement
<1>2. \A c \in idx \ orphan : c = Root \/ Previous(c) \in idx
  BY DEF PrevAlive
<1>3. idx \in SUBSET Blocks
  BY <1>t
<1>4. \A h \in Blocks : LinkedIn(index, h) => LinkedIn(idx, h)
  BY <1>t, LinkedInsert
<1>5. CASE Num(b) > Num(fhead)
  <2> DEFINE gone == Outdated(b)
  <2>1. Erase(idx, gone)
    BY <1>5 DEF Inserted
  <2> HIDE DEF idx, gone
  <2>2. kept' = {} /\ index' = idx \ gone /\ PrevAlive'
    BY <2>1, <1>2, EraseKeepsAlive
  <2>3. IsFiniteSet(index')
    BY <2>2, <1>1, FS_Subset
  <2>4. \A c \in Blocks : Len(c) \in Nat /\ Num(c) = Len(c) + 1
    BY BlockSeq DEF Num
  <2>5. b \notin gone
    <3>1. ~(Num(b) < Minus(Num(b), ForkSize))
      BY <2>4, <1>t DEF Minus
    <3> QED BY <3>1 DEF gone, Outdated
  <2>6. ASSUME NEW c \in idx \ gone, NEW d \in idx, Len(d) >= Len(c) PROVE d \notin gone
    <3>1. CASE c = b
      <4>1. ~(Num(d) < Minus(Num(b), ForkSize))
        BY <3>1, <2>4, <2>6, <1>t, <1>3 DEF Minus
      <4> QED BY <4>1 DEF gone, Outdated
    <3>2. CASE c # b
      <4>1. c \in index /\ ~(Num(c) < Minus(Num(b), ForkSize))
        BY <3>2 DEF gone, Outdated, idx
      <4>2. Minus(Num(b), ForkSize) \in Nat
        BY <2>4, <1>t DEF Minus
      <4>3. ~(Num(d) < Minus(Num(b), ForkSize))
        BY <4>1, <4>2, <2>4, <2>6, <1>3
      <4> QED BY <4>3 DEF gone, Outdated
    <3> QED BY <3>1, <3>2
  <2>7. \A h \in Blocks : LinkedIn(index, h) => LinkedIn(index', h)
    BY <2>2, <2>6, <1>3, <1>4, LinkedErase
  <2>8. b \in index' /\ index' \subseteq index \cup {b}
    BY <2>2, <2>5 DEF idx
  <2> QED BY <2>2, <2>3, <2>7, <2>8
<1>6. CASE ~(Num(b) > Num(fhead))
  <2>1. index' = idx /\ orphan' = orphan /\ kept' = kept
    BY <1>6 DEF Inserted
  <2>2. PrevAlive'
    BY <2>1, <1>2 DEF PrevAlive
  <2> QED BY <2>1, <2>2, <1>1, <1>4
<1> QED BY <1>5, <1>6

\* The blocks of branches.first that are still to be applied, newest first, up to
\* the block f that the switch leads to.
Ahead(f) ==
  /\ Len(first) <= Len(f)
  /\ \A i \in 1 .. Len(first) : /\ first[i] = Upto(f, Len(f) - i + 1)
                                /\ first[i] \in index

\* What a lookup by number relies on, and what keeps it during a call: both the
\* chain of the moment and the one to go back to are in the index, from the
\* lowest height it has; the block that is removed when it fails is on neither.
FetchInv ==
  /\ kept = {} /\ IsFiniteSet(index) /\ PrevAlive
  /\ LinkedIn(index, head)
  /\ phase \in Switching \cup {"reapplying"} => LinkedIn(index, old.head)
  /\ phase = "direct" => new \in index /\ \A k \in 0 .. Len(head) : new # Upto(head, k)
  /\ phase \in {"popping", "pushing"} /\ first # << >> =>
       /\ Ahead(first[1])
       /\ phase = "pushing" => head = Upto(first[1], Len(first[1]) - Len(first))
       /\ phase = "popping" =>
            /\ Len(first[1]) - Len(first) = ForkPoint
            /\ Upto(first[1], ForkPoint) = Upto(old.head, ForkPoint)

\* A lookup by number finds the block of the chain: in the index when there is
\* just one of that height, in the store otherwise.
LEMMA FetchFinds ==
  ASSUME TypeInv, FetchInv, StoreExact
  PROVE  FetchOnChain
<1> SUFFICES ASSUME NEW n \in 0 .. Len(head)
             PROVE  fetch_block_by_number(n) = Upto(head, n)
  BY DEF FetchOnChain, Height
<1>1. head \in Blocks /\ Len(head) \in Nat /\ Len(head) \in 0 .. MaxHeight /\ MaxHeight \in Nat
  BY Basics DEF TypeInv, SizeInv, TypeOK
<1>2. store[n] = Upto(head, n)
  <2>1. n \in 0 .. MaxHeight /\ n <= Len(head)
    BY <1>1
  <2> QED BY <2>1 DEF StoreExact
<1> DEFINE found == {b \in index : Height(b) = n}
<1>3. ASSUME Cardinality(found) = 1 PROVE (CHOOSE b \in found : TRUE) = Upto(head, n)
  <2>1. IsFiniteSet(found)
    BY FS_Subset DEF FetchInv
  <2>2. PICK x : found = {x}
    <3> HIDE DEF found
    <3> QED BY <1>3, <2>1, FS_Singleton
  <2>3. x \in index /\ Len(x) = n
    BY <2>2 DEF Height
  <2>4. n \in Len(x) .. Len(head)
    BY <2>3, <1>1
  <2>5. Upto(head, n) \in index
    BY <2>3, <2>4 DEF FetchInv, LinkedIn
  <2>6. Len(Upto(head, n)) = n
    BY <1>1, UptoShape
  <2>7. Upto(head, n) \in found
    BY <2>5, <2>6 DEF Height
  <2> HIDE DEF found
  <2> QED BY <2>2, <2>7
<1> HIDE DEF found
<1>4. fetch_block_by_number(n)
        = IF Cardinality(found) = 1 THEN CHOOSE b \in found : TRUE ELSE store[n]
  BY DEF fetch_block_by_number, found
<1> QED BY <1>2, <1>3, <1>4

\* push_block is entered with a block that is not on the chain.
LEMMA EnterFetch ==
  ASSUME TypeInv, RootInv, RootInv', StoreExact, FetchInv, phase = "idle", UNCHANGED <<head, store>>,
         NEW b \in Blocks, ~is_known_block(b), Enter(b)
  PROVE  FetchInv'
<1>t. /\ head \in Blocks /\ fhead \in Blocks /\ index \subseteq Blocks
      /\ Len(head) \in Nat /\ Len(head) \in 0 .. MaxHeight /\ MaxHeight \in Nat
  BY Basics DEF TypeInv, SizeInv, TypeOK
<1>f. kept = {} /\ IsFiniteSet(index) /\ PrevAlive /\ LinkedIn(index, head)
  BY DEF FetchInv
<1>0. new' = b /\ old'.head = head /\ head' = head
  BY DEF Enter
<1>1. CASE CannotLink(b)
  <2>1. phase' = "restoring" /\ UNCHANGED <<index, orphan, kept>>
    BY <1>1 DEF Enter, forkvars
  <2> QED BY <2>1, <1>0, <1>f DEF FetchInv, PrevAlive, Switching
<1>2. CASE ~CannotLink(b)
  <2> DEFINE f == fhead'
             n == ForkHeight(f, head)
             switch == Previous(f) # head /\ Num(f) > Num(head)
             linked == Climbs(index', orphan', f, n) /\ Climbs(index', orphan', head, n)
  <2>1. /\ Inserted(b)
        /\ phase' = CASE Previous(f) = head -> "direct"
                      [] switch /\ linked -> "popping"
                      [] OTHER -> "restoring"
        /\ first' = IF switch /\ linked THEN Branch(f, n) ELSE << >>
        /\ second' = IF switch /\ linked THEN Branch(head, n) ELSE << >>
    BY <1>2 DEF Enter
  <2>2. /\ kept' = {} /\ IsFiniteSet(index') /\ PrevAlive'
        /\ b \in index' /\ LinkedIn(index', head)
    BY <2>1, <1>2, <1>t, <1>f, InsertedFork DEF CannotLink
  <2>3. f \in Blocks /\ Len(f) \in Nat /\ phase' \in {"direct", "popping", "restoring"}
    <3>1. fhead' \in Blocks /\ phase' \in {"direct", "popping", "restoring"}
      BY EnterShape
    <3> QED BY <3>1, BlockSeq
  <2>4. ASSUME NEW k \in 0 .. Len(head) PROVE b # Upto(head, k)
    <3>1. k \in 0 .. MaxHeight /\ k <= Len(head)
      BY <1>t
    <3>2. store[k] = Upto(head, k) /\ Len(Upto(head, k)) = k
      BY <3>1, <1>t, UptoShape DEF StoreExact
    <3> QED BY <3>2 DEF is_known_block, Height
  <2>5. ASSUME phase' = "popping"
        PROVE  /\ Ahead(first[1])' /\ Len(first'[1]) - Len(first') = ForkPoint'
               /\ Upto(first'[1], ForkPoint') = Upto(head, ForkPoint')
    <3>1. switch /\ linked /\ first' = Branch(f, n) /\ second' = Branch(head, n)
      BY <2>1, <2>5
    <3>2. n \in 0 .. Len(f) /\ n \in 0 .. Len(head)
      BY <2>3, <1>t, ForkHeightType
    <3>3. Len(second') \in 1 .. Len(head)
      BY <2>5, <1>0 DEF RootInv, Switching
    <3>4. /\ Len(second') = Len(head) - n + 1
          /\ Len(first') = Len(f) - n + 1 /\ first'[1] = f
          /\ \A i \in 1 .. Len(f) - n + 1 : first'[i] = Upto(f, Len(f) - i + 1)
      BY <3>1, <3>2, <2>3, <1>t, BranchShape, BranchTop
    <3>5. n \in 1 .. n /\ n \in Nat \ {0}
      BY <3>2, <3>3, <3>4, <1>t
    <3>6. Upto(f, n - 1) = Upto(head, n - 1)
      BY <3>5, <2>3, <1>t, CommonAncestor
    <3>7. /\ f \in index'
          /\ \A k \in n + 1 .. Len(f) : Upto(f, k) \in index' \ orphan'
      BY <3>1, <1>f DEF Climbs
    <3> HIDE DEF f, n
    <3>8. ASSUME NEW k \in n .. Len(f) PROVE Upto(f, k) \in index'
      <4>1. CASE k = Len(f)
        <5>1. Len(f) \in 0 .. Len(f)
          BY <2>3
        <5>2. Upto(f, k) = f
          BY <5>1, <4>1, <2>3, UptoUpto
        <5> QED BY <5>2, <3>7
      <4>2. CASE k # Len(f)
        <5>1. k + 1 \in n + 1 .. Len(f) /\ k + 1 \in 0 .. Len(f) /\ k \in 0 .. k + 1
              /\ k + 1 \in Nat \ {0} /\ (k + 1) - 1 = k
          BY <4>2, <3>5, <2>3
        <5> DEFINE x == Upto(f, k + 1)
        <5>2. x \in index' \ orphan' /\ x \in Blocks /\ Len(x) = k + 1
          BY <5>1, <3>7, <2>3, UptoShape
        <5>3. Upto(x, k) = Upto(f, k)
          BY <5>1, <2>3, UptoUpto
        <5> HIDE DEF x
        <5>4. x # Root
          BY <5>1, <5>2, PreviousShape
        <5>5. Previous(x) = Upto(f, k)
          BY <5>1, <5>2, <5>3, <5>4, PreviousShape
        <5>6. Previous(x) \in index'
          BY <5>2, <5>4, <2>2 DEF PrevAlive
        <5> QED BY <5>5, <5>6
      <4> QED BY <4>1, <4>2
    <3>9. \A i \in 1 .. Len(first') : first'[i] = Upto(f, Len(f) - i + 1) /\ first'[i] \in index'
      <4>1. \A i \in 1 .. Len(f) - n + 1 : Len(f) - i + 1 \in n .. Len(f)
        BY <3>5, <2>3
      <4> QED BY <4>1, <3>4, <3>8
    <3>10. Len(first') <= Len(f)
      BY <3>4, <3>5, <2>3
    <3>11. ForkPoint' = n - 1 /\ Len(f) - Len(first') = n - 1
      BY <3>4, <3>5, <2>3, <1>0, <1>t DEF ForkPoint
    <3> QED BY <3>4, <3>6, <3>9, <3>10, <3>11 DEF Ahead
  <2> HIDE DEF f
  <2> QED BY <2>2, <2>3, <2>4, <2>5, <1>0 DEF FetchInv, Switching
<1> QED BY <1>1, <1>2

\* The first block of the new branch that fails, and any that follows it, is on no
\* chain that can be applied, and so not one of the old chain.
LEMMA FailedBranch ==
  ASSUME PoolInv, OrderInv, BranchInv, FetchInv, phase = "pushing", first # << >>,
         ~Applies(first[Len(first)])
  PROVE  /\ \A x \in Elements(first) : x \in Blocks /\ ~(Sound(x) /\ Disjoint(x))
         /\ \A k \in 0 .. Len(head) : Upto(head, k) \notin Elements(first)
         /\ \A k \in 0 .. Len(old.head) : Upto(old.head, k) \notin Elements(first)
<1> DEFINE f == first[1]
           b == first[Len(first)]
           l == Len(first)
           o == old.head
<1>i. TypeInv /\ AppliedOnce /\ Sound(o) /\ Disjoint(o)
  BY DEF PoolInv, BranchInv, OrderInv
<1>t. first \in Seq(Blocks) /\ o \in Blocks /\ head \in Blocks /\ Len(head) \in Nat
  BY <1>i, Basics DEF TypeInv, SizeInv, TypeOK
<1>1. l \in Nat \ {0} /\ f \in Blocks /\ b \in Blocks /\ 1 \in 1 .. l /\ l \in 1 .. l
  <2>1. l \in Nat \ {0} /\ b \in Blocks
    BY <1>t, DropLast
  <2>2. 1 \in 1 .. l /\ l \in 1 .. l
    BY <2>1
  <2> QED BY <2>1, <2>2, <1>t, ElementOfSeq
<1>2. Len(f) \in Nat /\ Len(o) \in Nat
  BY <1>1, <1>t, BlockSeq
<1>3. /\ l <= Len(f) /\ head = Upto(f, Len(f) - l)
      /\ \A i \in 1 .. l : first[i] = Upto(f, Len(f) - i + 1)
  BY DEF FetchInv, Ahead
<1>e. \A x \in Elements(first) : \E i \in 1 .. l : x = first[i]
  BY <1>t, LenProperties DEF Elements
<1> HIDE DEF f, b, l, o
<1>4. Len(head) = Len(f) - l /\ Len(f) - l \in 0 .. Len(f)
  <2>1. Len(f) - l \in 0 .. Len(f)
    BY <1>1, <1>2, <1>3
  <2> QED BY <2>1, <1>1, <1>3, UptoShape
<1> DEFINE m == Len(head) + 1
<1>5. m \in 1 .. Len(f) /\ m = Len(f) - l + 1 /\ m - 1 = Len(head) /\ m - 1 = Len(f) - l
  <2>1. l \in Nat \ {0} /\ l <= Len(f) /\ Len(f) \in Nat /\ Len(head) \in Nat /\ Len(head) = Len(f) - l
    BY <1>1, <1>2, <1>3, <1>4, <1>t
  <2> QED BY ONLY <2>1
<1>6. b = Upto(f, m) /\ head = Upto(f, m - 1)
  BY <1>1, <1>3, <1>5 DEF b, l
<1>7. ASSUME NEW x \in Elements(first)
      PROVE  \E j \in m .. Len(f) : x = Upto(f, j) /\ Len(x) = j
  <2>1. PICK i \in 1 .. l : x = first[i]
    BY <1>e
  <2>2. Len(f) - i + 1 \in m .. Len(f) /\ Len(f) - i + 1 \in 0 .. Len(f)
    BY <1>1, <1>2, <1>5, <1>3
  <2>3. x = Upto(f, Len(f) - i + 1)
    BY <2>1, <1>3
  <2>4. Len(x) = Len(f) - i + 1
    BY <2>2, <2>3, <1>1, UptoShape
  <2> QED BY <2>2, <2>3, <2>4
<1>8. ASSUME NEW k \in 0 .. Len(head), Upto(head, k) \in Elements(first) PROVE FALSE
  <2>1. Len(Upto(head, k)) = k
    BY <1>t, UptoShape
  <2>2. PICK j \in m .. Len(f) : Len(Upto(head, k)) = j
    BY <1>7, <1>8
  <2> QED BY <2>1, <2>2, <1>t, <1>2, <1>5
<1>9. ASSUME NEW x \in Elements(first) PROVE x \in Blocks /\ ~(Sound(x) /\ Disjoint(x))
  <2>1. PICK j \in m .. Len(f) : x = Upto(f, j) /\ Len(x) = j
    BY <1>7
  <2>2. /\ m \in 0 .. j /\ m - 1 \in 0 .. j /\ j \in 0 .. Len(f) /\ m \in 1 .. Len(x)
    BY <2>1, <1>2, <1>5
  <2>3. x \in Blocks
    BY <2>1, <2>2, <1>1, UptoShape
  <2>4. Upto(x, m) = b /\ Upto(x, m - 1) = head
    BY <2>1, <2>2, <1>1, <1>6, UptoUpto
  <2> HIDE DEF m
  <2>5. ASSUME Sound(x), Disjoint(x) PROVE Applies(Upto(x, m))
    BY <2>2, <2>3, <2>4, <2>5, <1>i, AppliesAgain
  <2> QED BY <2>3, <2>4, <2>5 DEF b
<1>10. ASSUME NEW k \in 0 .. Len(o) PROVE Upto(o, k) \notin Elements(first)
  BY <1>9, <1>i, <1>t, SoundPrefix
<1> QED BY <1>8, <1>9, <1>10 DEF o

LEMMA FetchInvStep ==
  ASSUME PoolInv, OrderInv, BranchInv, RootInv, StoreExact, FetchInv, Next,
         BranchInv', RootInv'
  PROVE  FetchInv'
<1>i. TypeInv /\ SizeInv
  BY DEF PoolInv, TypeInv
<1>t. /\ new \in Blocks /\ first \in Seq(Blocks) /\ phase \in Phases /\ index \subseteq Blocks
      /\ old.head \in Blocks /\ head \in Blocks /\ Len(head) \in Nat
  BY <1>i, Basics DEF SizeInv, TypeOK
<1>l. Len(old.head) \in Nat
  BY <1>t, BlockSeq
<1>f. /\ kept = {} /\ IsFiniteSet(index) /\ PrevAlive /\ LinkedIn(index, head)
      /\ phase \in Switching \cup {"reapplying"} => LinkedIn(index, old.head)
      /\ phase = "direct" => new \in index /\ \A k \in 0 .. Len(head) : new # Upto(head, k)
  BY DEF FetchInv
<1>a. ASSUME phase' \notin Elsewhere, UNCHANGED <<index, orphan, kept>>, LinkedIn(index, head')
      PROVE  FetchInv'
  BY <1>a, <1>f DEF FetchInv, Elsewhere, Switching, PrevAlive
<1>e. ASSUME NEW gone, Erase(index, gone)
      PROVE  kept' = {} /\ IsFiniteSet(index') /\ PrevAlive' /\ index' = index \ gone
  <2>1. kept' = {} /\ index' = index \ gone /\ PrevAlive'
    BY <1>e, <1>f, EraseKeepsAlive DEF PrevAlive
  <2>2. IsFiniteSet(index')
    BY <2>1, <1>f, FS_Subset
  <2> QED BY <2>1, <2>2
<1>c. ASSUME phase \in {"popping", "unwinding"}, ~AtFork,
             \/ pop_block /\ IF CanPop THEN UNCHANGED callvars ELSE Return(TRUE)
             \/ ~CanPopFork /\ Return(TRUE) /\ UNCHANGED <<chainvars, forkvars, txvars>>
      PROVE  FetchInv'
  <2>0. Undoing
    BY <1>c DEF Undoing
  <2>1. CASE pop_block /\ CanPop /\ UNCHANGED callvars
    <3>1. head' = Upto(head, Len(head) - 1) /\ Len(head) - 1 \in Nat
      BY <2>0, <2>1, <1>i, PopShape DEF pop_block
    <3>2. Len(head) - 1 \in 0 .. Len(head)
      BY <3>1, <1>t
    <3>3. LinkedIn(index, head')
      BY <3>1, <3>2, <1>f, <1>t, LinkedPrefix
    <3>4. UNCHANGED <<index, orphan, kept, phase, new, first, second, old>>
      BY <2>1 DEF pop_block, callvars
    <3> QED BY <3>3, <3>4, <1>c, <1>f DEF FetchInv, PrevAlive, Ahead, ForkPoint
  <2>2. CASE pop_block /\ ~CanPop /\ Return(TRUE)
    <3>1. head' = head /\ phase' = "restoring" /\ UNCHANGED <<index, orphan, kept>>
      BY <2>2 DEF pop_block, Return
    <3> QED BY <3>1, <1>a, <1>f DEF Elsewhere
  <2>3. CASE Return(TRUE) /\ UNCHANGED <<chainvars, forkvars, txvars>>
    <3>1. head' = head /\ phase' = "restoring" /\ UNCHANGED <<index, orphan, kept>>
      BY <2>3 DEF chainvars, forkvars, Return
    <3> QED BY <3>1, <1>a, <1>f DEF Elsewhere
  <2> QED BY <2>1, <2>2, <2>3, <1>c
<1>1. CASE phase \in {"idle", "restoring"}
  <2>1. CASE phase' \in {"idle", "restoring"} /\ UNCHANGED <<head, store, forkvars>>
    <3>1. phase' \notin Elsewhere /\ UNCHANGED <<index, orphan, kept>> /\ head' = head
      BY <2>1 DEF Elsewhere, forkvars
    <3> QED BY <3>1, <1>a, <1>f
  <2>2. ASSUME phase = "idle", UNCHANGED <<head, store>>,
               NEW b \in Blocks, ~is_known_block(b), Enter(b)
        PROVE  FetchInv'
    BY <2>2, <1>i, EnterFetch
  <2> QED BY <1>1, <2>1, <2>2, <1>i, ForkIdle
<1>2. ASSUME NEW m \in UndoSizes, push_direct(m) PROVE FetchInv'
  <2>0. phase = "direct" /\ new \in index
    BY <1>2, <1>f DEF push_direct
  <2>1. CASE Applies(new)
    <3>1. /\ head' = new /\ Previous(new) = head /\ phase' = "restoring"
          /\ UNCHANGED <<index, orphan, kept>>
      BY <1>2, <2>1 DEF push_direct, Apply, Applies, Return, forkvars
    <3>2. LinkedIn(index, head')
      BY <3>1, <2>0, <1>f, <1>t, LinkedChild
    <3> QED BY <3>1, <3>2, <1>a DEF Elsewhere
  <2>2. CASE ~Applies(new)
    <3>1. head' = head /\ phase' = "restoring" /\ Erase(index, {new})
      BY <1>2, <2>2 DEF push_direct, FailToApply, Return
    <3>2. LinkedIn(index \ {new}, head)
      <4>1. \A k \in 0 .. Len(head) : Upto(head, k) \notin {new}
        BY <2>0, <1>f
      <4> QED BY <4>1, <1>f, <1>t, LinkedErase
    <3> QED BY <3>1, <3>2, <1>e DEF FetchInv, Switching
  <2> QED BY <2>1, <2>2
<1>3. ASSUME NEW m \in UndoSizes, switch_push(m) PROVE FetchInv'
  <2>0. phase = "pushing" /\ phase \in Switching
    BY <1>3 DEF switch_push, Switching
  <2>1. CASE first = << >>
    <3>1. head' = head /\ phase' = "restoring" /\ UNCHANGED <<index, orphan, kept>>
      BY <1>3, <2>1 DEF switch_push, chainvars, forkvars, Return
    <3> QED BY <3>1, <1>a, <1>f DEF Elsewhere
  <2>2. CASE first # << >>
    <3> DEFINE b == first[Len(first)]
               l == Len(first)
               g == Upto(first, l - 1)
               f == first[1]
    <3>1. /\ l \in Nat \ {0} /\ b \in Blocks /\ g \in Seq(Blocks) /\ Len(g) = l - 1
          /\ \A i \in 1 .. l - 1 : g[i] = first[i]
      BY <2>2, <1>t, DropLast
    <3>2. /\ l <= Len(f) /\ head = Upto(f, Len(f) - l)
          /\ \A i \in 1 .. l : first[i] = Upto(f, Len(f) - i + 1) /\ first[i] \in index
      BY <2>0, <2>2 DEF FetchInv, Ahead
    <3>3. f \in Blocks /\ Len(f) \in Nat /\ l \in 1 .. l
      <4>1. 1 \in 1 .. l /\ l \in 1 .. l
        BY <3>1
      <4>2. f \in Blocks
        BY <4>1, <1>t, ElementOfSeq
      <4> QED BY <4>1, <4>2, BlockSeq
    <3>4. CASE Applies(b)
      <4>1. /\ head' = b /\ Previous(b) = head /\ first' = g
            /\ UNCHANGED <<index, orphan, kept, phase, second, old>>
        BY <1>3, <2>2, <3>4 DEF switch_push, Apply, Applies, forkvars
      <4>2. b \in index /\ b = Upto(f, Len(f) - l + 1)
        BY <3>2, <3>3
      <4>3. LinkedIn(index, head')
        BY <4>1, <4>2, <1>f, <1>t, LinkedChild
      <4>4. ASSUME first' # << >> PROVE Ahead(first[1])' /\ head' = Upto(first'[1], Len(first'[1]) - Len(first'))
        <5>1. Len(g) # 0
          BY <4>1, <4>4, <3>1, EmptySeq
        <5>2. 1 \in 1 .. l - 1 /\ Len(f) - (l - 1) = Len(f) - l + 1 /\ l - 1 <= Len(f)
          BY <5>1, <3>1, <3>2, <3>3
        <5>3. first'[1] = f /\ Len(first') = l - 1
          BY <5>2, <4>1, <3>1
        <5>4. \A i \in 1 .. l - 1 : i \in 1 .. l
          BY <3>1
        <5> HIDE DEF f, l, b, g
        <5>5. \A i \in 1 .. l - 1 : first'[i] = Upto(f, Len(f) - i + 1) /\ first'[i] \in index
          BY <5>4, <4>1, <3>1, <3>2
        <5> QED BY <5>2, <5>3, <5>5, <4>1, <4>2 DEF Ahead
      <4> QED BY <4>1, <4>3, <4>4, <2>0, <1>f DEF FetchInv, PrevAlive, Switching
    <3>5. CASE ~Applies(b)
      <4>1. /\ head' = head /\ phase' = "unwinding" /\ old' = old
            /\ Erase(index, Elements(first))
        BY <1>3, <2>2, <3>5 DEF switch_push, FailToApply, Goto
      <4>2. /\ \A k \in 0 .. Len(head) : Upto(head, k) \notin Elements(first)
            /\ \A k \in 0 .. Len(old.head) : Upto(old.head, k) \notin Elements(first)
        BY <2>0, <2>2, <3>5, FailedBranch
      <4>3. LinkedIn(index \ Elements(first), head)
        BY <4>2, <1>f, <1>t, LinkedErase
      <4>4. LinkedIn(index \ Elements(first), old.head)
        BY <4>2, <2>0, <1>f, <1>t, LinkedErase
      <4> QED BY <4>1, <4>3, <4>4, <1>e DEF FetchInv
    <3> QED BY <3>4, <3>5
  <2> QED BY <2>1, <2>2
<1>4. ASSUME NEW m \in UndoSizes, switch_reapply(m) PROVE FetchInv'
  <2>0. /\ phase = "reapplying" /\ phase' \in {"reapplying", "restoring"} /\ old' = old
        /\ (phase' = "restoring" => err' = TRUE) /\ UNCHANGED <<index, orphan, kept>>
    BY <1>4 DEF switch_reapply, Return, forkvars
  <2>1. LinkedIn(index, old.head)
    BY <2>0, <1>f
  <2>2. CASE phase' = "reapplying"
    <3>1. Len(left') <= Len(old.head) /\ head' = Upto(old.head, Len(old.head) - Len(left'))
      BY <2>0, <2>2 DEF BranchInv, Reapplies
    <3>2. Len(left') \in Nat
      <4>1. SizeInv'
        BY <1>i, SizeInvNext
      <4>2. left' \in Seq(Blocks)
        BY <4>1 DEF SizeInv, TypeOK
      <4> QED BY <4>2, LenProperties
    <3>3. Len(old.head) - Len(left') \in 0 .. Len(old.head)
      BY <3>1, <3>2, <1>l
    <3>4. LinkedIn(index, head')
      BY <3>1, <3>3, <2>1, <1>t, LinkedPrefix
    <3> QED BY <3>4, <2>0, <2>1, <2>2, <1>f DEF FetchInv, PrevAlive
  <2>3. CASE phase' = "restoring"
    <3>1. ~BreaksOff
      BY <2>0 DEF BreaksOff, Undoing
    <3>2. phase \in Elsewhere
      BY <2>0 DEF Elsewhere
    <3>3. head' = old.head
      BY <3>1, <3>2, <2>0, <2>3, SwitchStep
    <3> QED BY <3>3, <2>0, <2>1, <2>3, <1>a DEF Elsewhere
  <2> QED BY <2>0, <2>2, <2>3
<1>5. ASSUME switch_pop PROVE FetchInv'
  <2>1. CASE AtFork
    <3>1. /\ phase = "popping" /\ phase' = "pushing" /\ head' = head
          /\ UNCHANGED <<first, second, old, index, orphan, kept>>
      BY <1>5, <2>1 DEF switch_pop, Goto, chainvars, forkvars
    <3>2. first # << >> /\ \E n \in 0 .. Len(old.head) : second = Branch(old.head, n)
      BY <3>1 DEF BranchInv
    <3>3. Len(second) \in 1 .. Len(old.head)
      BY <3>1 DEF RootInv, Switching
    <3>4. head = Upto(old.head, ForkPoint)
      BY <2>1, <3>2, <3>3, <1>t, ForkPointBlock DEF ForkPoint, AtFork
    <3>5. head = Upto(first[1], Len(first[1]) - Len(first)) /\ Ahead(first[1])
      BY <3>1, <3>2, <3>4 DEF FetchInv
    <3>6. Ahead(first[1])'
      BY <3>1, <3>5 DEF Ahead
    <3> QED BY <3>1, <3>5, <3>6, <1>f DEF FetchInv, PrevAlive, Switching
  <2>2. CASE ~AtFork
    BY <1>5, <2>2, <1>c DEF switch_pop
  <2> QED BY <2>1, <2>2
<1>6. ASSUME switch_unwind PROVE FetchInv'
  <2>1. CASE AtFork
    <3>1. /\ phase = "unwinding" /\ phase' = "reapplying" /\ old' = old /\ head' = head
          /\ UNCHANGED <<index, orphan, kept>>
      BY <1>6, <2>1 DEF switch_unwind, chainvars, forkvars
    <3> QED BY <3>1, <1>f DEF FetchInv, PrevAlive, Switching
  <2>2. CASE ~AtFork
    BY <1>6, <2>2, <1>c DEF switch_unwind
  <2> QED BY <2>1, <2>2
<1>7. CASE phase \in Elsewhere
  BY <1>2, <1>3, <1>4, <1>5, <1>6, <1>7, WorkNext
<1> QED BY <1>1, <1>7, <1>t DEF Phases, Elsewhere

LEMMA FetchInvInit == Init => FetchInv
<1> SUFFICES ASSUME Init PROVE FetchInv
  OBVIOUS
<1>1. /\ phase = "idle" /\ index = {Root} /\ orphan = {} /\ kept = {} /\ head = Root
      /\ Len(Root) = 0 /\ Root \in Blocks
  BY PreviousShape DEF Init
<1>2. IsFiniteSet(index)
  BY <1>1, FS_Singleton
<1>3. LinkedIn(index, head)
  <2>1. 0 \in 0 .. Len(Root) /\ 0 \in 0 .. 0
    BY <1>1
  <2>2. Upto(Root, Len(Root)) = Root
    BY <2>1, <1>1, UptoUpto
  <2>3. \A k \in 0 .. 0 : k = 0
    OBVIOUS
  <2> QED BY <2>2, <2>3, <1>1 DEF LinkedIn
<1> QED BY <1>1, <1>2, <1>3 DEF FetchInv, PrevAlive, Switching

\* The invariants of a fork switch together.
ForkInv == PoolInv /\ DeltaInv /\ OrderInv /\ BranchInv /\ RootInv

LEMMA ForkInvInit == Init => ForkInv /\ StoreExact /\ FetchInv
BY PoolInvInit, OrderInvInit, SwitchInvInit, RootInvInit, StoreExactInit, FetchInvInit
   DEF ForkInv, SwitchInv

LEMMA ForkInvNext ==
  /\ ForkInv /\ [Next]_vars => ForkInv'
  /\ ForkInv /\ StoreExact /\ DeltaLeft /\ [Next]_vars => StoreExact'
  /\ ForkInv /\ StoreExact /\ FetchInv /\ [Next]_vars => FetchInv'
<1>1. ASSUME ForkInv, [Next]_vars PROVE ForkInv'
  BY <1>1, PoolInvNext, OrderInvNext, BranchInvNext, RootInvNext DEF ForkInv
<1>2. ForkInv => TypeInv /\ PoolInv /\ OrderInv /\ BranchInv /\ RootInv
  BY DEF ForkInv, PoolInv
<1>3. ASSUME ForkInv, StoreExact, FetchInv, Next PROVE FetchInv'
  BY <1>1, <1>2, <1>3, FetchInvStep DEF ForkInv
<1>4. ASSUME FetchInv, UNCHANGED vars PROVE FetchInv'
  BY <1>4 DEF FetchInv, PrevAlive, Ahead, ForkPoint, vars, chainvars, forkvars, callvars
<1> QED BY <1>1, <1>2, <1>3, <1>4, StoreExactNext

\* As long as no pop_block of a fork switch runs out of deltas, a block looked up
\* by number is the one on the current chain, whatever branches the fork database
\* holds: it never has just a stale block of a height the chain has reached.
THEOREM LookupIsOnChain == Spec /\ []DeltaLeft => []FetchOnChain
<1>1. ForkInv /\ FetchInv /\ StoreExact => FetchOnChain
  BY FetchFinds DEF ForkInv, PoolInv
<1> QED BY <1>1, ForkInvInit, ForkInvNext, PTL DEF Spec

-----------------------------------------------------------------------------
(* An extension of the head is applied.                                     *)

\* A block that _apply_block takes on its own chain.
Sane(b) == Sound(b) /\ Disjoint(b)

\* The branch of c in the index idx, with the expired pointers of orp, ends above
\* the chain of h: at an item whose parent is not below h.
Severed(idx, orp, c, h) ==
  \E k \in 1 .. Len(c) :
    /\ Upto(c, k) \in orp
    /\ ~(k <= Len(h) /\ Upto(c, k - 1) = Upto(h, k - 1))
    /\ \A j \in k .. Len(c) : Upto(c, j) \in idx

\* Above the fork height two blocks have different ancestors.
LEMMA BeyondFork ==
  ASSUME NEW a \in Blocks, NEW c \in Blocks, NEW j \in ForkHeight(a, c) + 1 .. Len(a),
         j <= Len(c)
  PROVE  Upto(a, j - 1) # Upto(c, j - 1)
<1> DEFINE m == Smaller(Len(a), Len(c))
           S == {i \in 1 .. m : Upto(a, i) = Upto(c, i)}
           p == j - 1
<1> SUFFICES ASSUME Upto(a, p) = Upto(c, p) PROVE FALSE
  OBVIOUS
<1>1. Len(a) \in Nat /\ Len(c) \in Nat /\ ForkHeight(a, c) \in Nat
  BY BlockSeq, ForkHeightType
<1>2. m \in Nat /\ j <= m
  BY <1>1 DEF Smaller
<1>3. p \in Nat /\ p <= Len(a) /\ p <= Len(c) /\ p <= m /\ p >= ForkHeight(a, c)
  BY <1>1, <1>2
<1>4. ForkHeight(a, c) = Smaller(m, Cardinality(S) + 1)
  BY DEF ForkHeight, Common
<1>5. IsFiniteSet(S) /\ Cardinality(S) \in Nat
  <2> HIDE DEF m
  <2>1. IsFiniteSet(1 .. m)
    BY <1>2, FS_Interval
  <2> QED BY <2>1, FS_Subset, FS_CardinalityType
<1>6. 1 .. p \subseteq S
  <2> SUFFICES ASSUME NEW i \in 1 .. p PROVE i \in S
    OBVIOUS
  <2>1. i \in 0 .. p /\ p \in 0 .. Len(a) /\ p \in 0 .. Len(c) /\ i \in 1 .. m
    BY <1>1, <1>2, <1>3
  <2> HIDE DEF p, m
  <2>2. Upto(Upto(a, p), i) = Upto(a, i) /\ Upto(Upto(c, p), i) = Upto(c, i)
    BY <2>1, UptoUpto
  <2> QED BY <2>1, <2>2
<1>7. IsFiniteSet(1 .. p) /\ Cardinality(1 .. p) = p
  <2>1. 1 \in Int /\ p \in Int
    BY <1>3
  <2> HIDE DEF p
  <2>2. Cardinality(1 .. p) = IF 1 > p THEN 0 ELSE p - 1 + 1
    BY <2>1, FS_Interval
  <2> QED BY <2>1, <2>2, <1>3, FS_Interval
<1>8. p <= Cardinality(S)
  <2> DEFINE T == 1 .. p
  <2>1. T \in SUBSET S /\ Cardinality(T) = p
    BY <1>6, <1>7
  <2> HIDE DEF p, S, T
  <2>2. Cardinality(T) <= Cardinality(S)
    BY <1>5, <2>1, FS_Subset
  <2> QED BY <2>1, <2>2
<1> HIDE DEF S, m
<1> QED BY <1>1, <1>2, <1>3, <1>4, <1>5, <1>8 DEF Smaller, p

\* An item whose prev pointer is alive has its parent in the index.
LEMMA ParentAlive ==
  ASSUME NEW idx, NEW orp, NEW a \in Blocks, NEW k \in 0 .. Len(a) - 1,
         \A b \in idx \ orp : b = Root \/ Previous(b) \in idx,
         Upto(a, k + 1) \in idx \ orp
  PROVE  Upto(a, k) \in idx
<1>1. k + 1 \in 0 .. Len(a) /\ k \in 0 .. k + 1 /\ k + 1 \in Nat \ {0} /\ (k + 1) - 1 = k
  BY BlockSeq
<1> DEFINE x == Upto(a, k + 1)
<1>2. x \in Blocks /\ Len(x) = k + 1
  BY <1>1, UptoShape
<1>3. Upto(x, k) = Upto(a, k)
  BY <1>1, UptoUpto
<1> HIDE DEF x
<1>4. x # Root
  BY <1>1, <1>2, PreviousShape
<1>5. Previous(x) = Upto(a, k)
  BY <1>1, <1>2, <1>3, <1>4, PreviousShape
<1> QED BY <1>4, <1>5 DEF x

\* Going down from an item of the index, either all prev pointers are alive, or
\* an expired one is met with all items above it in the index.
LEMMA ClimbDown ==
  ASSUME NEW idx \in SUBSET Blocks, NEW orp, NEW a \in idx, NEW n \in 0 .. Len(a),
         \A b \in idx \ orp : b = Root \/ Previous(b) \in idx
  PROVE  \/ \A k \in n + 1 .. Len(a) : Upto(a, k) \in idx \ orp
         \/ \E j \in n + 1 .. Len(a) : /\ Upto(a, j) \in orp
                                       /\ \A i \in j .. Len(a) : Upto(a, i) \in idx
<1>1. a \in Blocks /\ Len(a) \in Nat /\ n \in Nat
  BY BlockSeq
<1>a. Upto(a, Len(a)) = a
  <2>1. 0 \in 0 .. Len(a) /\ Len(a) \in 0 .. Len(a)
    BY <1>1
  <2> QED BY <2>1, <1>1, UptoUpto
<1> DEFINE B == {d \in 0 .. Len(a) : /\ Len(a) - d >= n + 1
                                     /\ Upto(a, Len(a) - d) \notin idx \ orp}
<1> SUFFICES ASSUME NEW k \in n + 1 .. Len(a), Upto(a, k) \notin idx \ orp
             PROVE  \E j \in n + 1 .. Len(a) : /\ Upto(a, j) \in orp
                                               /\ \A i \in j .. Len(a) : Upto(a, i) \in idx
  OBVIOUS
<1>2. B \subseteq Nat
  OBVIOUS
<1>3. B # {}
  <2>1. Len(a) - k \in 0 .. Len(a) /\ Len(a) - (Len(a) - k) = k /\ k >= n + 1
    BY <1>1
  <2>2. Len(a) - k \in B
    BY <2>1
  <2> QED BY <2>2
<1>4. PICK d \in B : \A e \in B : d <= e
  <2> HIDE DEF B
  <2> QED BY <1>2, <1>3, SmallestOf
<1> DEFINE j == Len(a) - d
<1>5. d \in 0 .. Len(a) /\ j \in n + 1 .. Len(a) /\ Upto(a, j) \notin idx \ orp
  BY <1>1
<1>6. ASSUME NEW i \in j + 1 .. Len(a) PROVE Upto(a, i) \in idx \ orp
  <2>1. Len(a) - i \in 0 .. Len(a) /\ Len(a) - (Len(a) - i) = i /\ i >= n + 1 /\ ~(d <= Len(a) - i)
    BY <1>1, <1>5
  <2>2. Len(a) - i \notin B
    BY <2>1, <1>4
  <2> QED BY <2>1, <2>2
<1> HIDE DEF B, j
<1>7. Upto(a, j) \in idx
  <2>1. CASE j = Len(a)
    BY <2>1, <1>a
  <2>2. CASE j # Len(a)
    <3>1. j + 1 \in j + 1 .. Len(a) /\ j \in 0 .. Len(a) - 1
      BY <2>2, <1>1, <1>5
    <3>2. Upto(a, j + 1) \in idx \ orp
      BY <3>1, <1>6
    <3> QED BY <3>1, <3>2, <1>1, ParentAlive
  <2> QED BY <2>1, <2>2
<1>8. Upto(a, j) \in orp
  BY <1>5, <1>7
<1>9. ASSUME NEW i \in j .. Len(a) PROVE Upto(a, i) \in idx
  <2>1. i = j \/ i \in j + 1 .. Len(a)
    BY <1>1, <1>5
  <2> QED BY <2>1, <1>6, <1>7
<1> QED BY <1>5, <1>8, <1>9

\* Why a prev pointer has expired: the parent is on no chain that can be applied,
\* or everything below was pruned.
Explained(idx, orp) ==
  \A x \in orp : x # Root /\ (~Sane(Previous(x)) \/ \A c \in idx : Len(c) >= Len(x))

\* The chain of h has no expired pointer above the lowest height of the index.
LEMMA ChainAlive ==
  ASSUME NEW idx \in SUBSET Blocks, NEW orp, NEW h \in Blocks, NEW c \in idx,
         LinkedIn(idx, h), Explained(idx, orp), Sane(h),
         NEW k \in Len(c) + 1 .. Len(h)
  PROVE  Upto(h, k) \in idx \ orp
<1> DEFINE x == Upto(h, k)
<1>1. Len(h) \in Nat /\ Len(c) \in Nat
  BY BlockSeq
<1>2. k \in Len(c) .. Len(h) /\ k \in 0 .. Len(h) /\ k - 1 \in 0 .. k /\ k - 1 \in 0 .. Len(h)
      /\ k \in Nat \ {0} /\ ~(Len(c) >= k)
  BY <1>1
<1>3. x \in idx /\ x \in Blocks /\ Len(x) = k /\ Upto(x, k - 1) = Upto(h, k - 1)
  BY <1>2, UptoShape, UptoUpto DEF LinkedIn
<1>4. Sane(Upto(h, k - 1))
  BY <1>2, SoundPrefix DEF Sane
<1> HIDE DEF x
<1>5. x # Root
  BY <1>2, <1>3, PreviousShape
<1>6. Previous(x) = Upto(h, k - 1)
  BY <1>3, <1>5, PreviousShape
<1>7. x \notin orp
  BY <1>2, <1>3, <1>4, <1>6 DEF Explained
<1> QED BY <1>3, <1>7 DEF x

\* fetch_branch_from fails just for a severed branch.
LEMMA SeveredUnlinked ==
  ASSUME kept = {}, NEW idx, NEW orp, NEW a \in Blocks, NEW h \in Blocks,
         Severed(idx, orp, a, h)
  PROVE  ~Climbs(idx, orp, a, ForkHeight(a, h))
<1> DEFINE n == ForkHeight(a, h)
<1>1. Len(a) \in Nat /\ Len(h) \in Nat /\ n \in 0 .. Len(h)
  BY BlockSeq, ForkHeightType
<1>2. PICK k \in 1 .. Len(a) : /\ Upto(a, k) \in orp
                               /\ ~(k <= Len(h) /\ Upto(a, k - 1) = Upto(h, k - 1))
  BY DEF Severed
<1>3. k \in n + 1 .. Len(a)
  <2>1. CASE k <= n
    <3>1. k \in 1 .. n /\ k <= Len(h)
      BY <2>1, <1>1
    <3>2. Upto(a, k - 1) = Upto(h, k - 1)
      BY <3>1, CommonAncestor
    <3> QED BY <3>1, <3>2, <1>2
  <2> HIDE DEF n
  <2> QED BY <2>1, <1>1
<1> HIDE DEF n
<1>4. ~Climbs(idx, orp, a, n)
  BY <1>2, <1>3 DEF Climbs
<1> QED BY <1>4 DEF n

LEMMA UnlinkedSevered ==
  ASSUME kept = {}, NEW idx \in SUBSET Blocks, NEW orp, NEW a \in idx, NEW h \in Blocks,
         \A b \in idx \ orp : b = Root \/ Previous(b) \in idx,
         LinkedIn(idx, h), Explained(idx, orp), Sane(h),
         ~(/\ Climbs(idx, orp, a, ForkHeight(a, h))
           /\ Climbs(idx, orp, h, ForkHeight(a, h)))
  PROVE  Severed(idx, orp, a, h)
<1> DEFINE n == ForkHeight(a, h)
<1>1. /\ a \in Blocks /\ Len(a) \in Nat /\ Len(h) \in Nat
      /\ n \in 0 .. Len(h) /\ n \in 0 .. Len(a) /\ n \in Nat
  BY BlockSeq, ForkHeightType
<1>2. CASE \E j \in n + 1 .. Len(a) : /\ Upto(a, j) \in orp
                                      /\ \A i \in j .. Len(a) : Upto(a, i) \in idx
  <2>1. PICK j \in n + 1 .. Len(a) : /\ Upto(a, j) \in orp
                                     /\ \A i \in j .. Len(a) : Upto(a, i) \in idx
    BY <1>2
  <2>2. j <= Len(h) => Upto(a, j - 1) # Upto(h, j - 1)
    BY <1>1, BeyondFork
  <2>3. j \in 1 .. Len(a)
    BY <1>1
  <2> QED BY <2>1, <2>2, <2>3 DEF Severed
<1>3. CASE \A k \in n + 1 .. Len(a) : Upto(a, k) \in idx \ orp
  <2>1. Climbs(idx, orp, a, n)
    BY <1>3 DEF Climbs
  <2>2. Upto(a, n) \in idx /\ Len(Upto(a, n)) = n
    <3> HIDE DEF n
    <3>1. CASE n = Len(a)
      <4>1. Upto(a, n) = a
        BY <3>1, <1>1, UptoUpto
      <4> QED BY <4>1, <3>1
    <3>2. CASE n # Len(a)
      <4>1. n \in 0 .. Len(a) - 1 /\ n + 1 \in n + 1 .. Len(a)
        BY <3>2, <1>1
      <4>2. Upto(a, n) \in idx
        BY <4>1, <1>1, <1>3, ParentAlive
      <4> QED BY <4>2, <1>1, UptoShape
    <3> QED BY <3>1, <3>2
  <2>3. h \in idx
    <3>1. Len(h) \in n .. Len(h) /\ 0 \in 0 .. Len(h) /\ Len(h) \in 0 .. Len(h)
      BY <1>1
    <3>2. Upto(h, Len(h)) \in idx
      BY <2>2, <3>1 DEF LinkedIn
    <3>3. Upto(h, Len(h)) = h
      BY <3>1, UptoUpto
    <3> QED BY <3>2, <3>3
  <2>4. \A k \in n + 1 .. Len(h) : Upto(h, k) \in idx \ orp
    <3> HIDE DEF n
    <3> QED BY <2>2, ChainAlive
  <2>5. Climbs(idx, orp, h, n)
    BY <2>3, <2>4 DEF Climbs
  <2> QED BY <2>1, <2>5
<1> HIDE DEF n
<1> QED BY <1>1, <1>2, <1>3, ClimbDown

\* What keeps a later push_block from being misled by the fork database's head:
\* it is no higher than the chain, or a child of it, or the top of a severed
\* branch.  In a switch it goes down with the chain: along the new branch while
\* the old one is popped, along the old one while the new one is.
LinkInv ==
  /\ loose = FALSE /\ index # {} /\ Explained(index, orphan)
  /\ phase \in {"idle", "restoring"} =>
       \/ Len(fhead) <= Len(head) \/ Previous(fhead) = head
       \/ Severed(index, orphan, fhead, head)
  /\ phase = "direct" =>
       /\ Previous(fhead) = head /\ Previous(new) \in index
       /\ \A b \in index \ orphan : Previous(b) # new
  /\ phase = "popping" =>
       /\ Len(fhead) + Len(old.head) = Len(head) + Len(first[1])
       /\ Len(fhead) <= Len(first[1]) /\ fhead = Upto(first[1], Len(fhead))
       /\ \A k \in ForkPoint + 2 .. Len(first[1]) : Upto(first[1], k) \notin orphan
  /\ phase = "pushing" => Len(fhead) <= Len(IF first = << >> THEN head ELSE first[1])
  /\ phase \in Switching => Upto(old.head, ForkPoint + 1) \in index
  /\ phase \in {"unwinding", "reapplying"} =>
       Len(fhead) <= Len(old.head) /\ fhead = Upto(old.head, Len(fhead))

\* What becomes of a block that extends the head.
ExtendInv ==
  /\ phase \in Switching \cup {"reapplying"} => Previous(new) # old.head
  /\ phase = "restoring" /\ Previous(new) = old.head /\ Valid(new) =>
       head = new \/ ~LinkedTo(old.head)

\* The lowest item is on the chain that all branches are linked to.
LEMMA HeadPresent ==
  ASSUME NEW idx \in SUBSET Blocks, NEW orp, NEW h \in Blocks, idx # {}, LinkedIn(idx, h),
         \A b \in idx \ orp : b = Root \/ Previous(b) \in idx,
         \A b \in orp : Len(b) <= Len(h)
  PROVE  h \in idx
<1>1. Len(h) \in Nat /\ \A c \in idx : Len(c) \in Nat
  BY BlockSeq
<1> DEFINE B == {Len(c) : c \in idx}
<1>2. B \subseteq Nat /\ B # {}
  BY <1>1
<1>3. PICK m \in B : \A e \in B : m <= e
  <2> HIDE DEF B
  <2> QED BY <1>2, SmallestOf
<1>4. PICK c \in idx : m = Len(c)
  OBVIOUS
<1>5. \A d \in idx : Len(c) <= Len(d)
  BY <1>3, <1>4
<1>6. Len(c) <= Len(h)
  <2>1. CASE c = Root
    BY <2>1, <1>1, PreviousShape
  <2>2. CASE c # Root
    <3>1. Len(Previous(c)) = Len(c) - 1
      BY <2>2, PreviousShape
    <3>2. Previous(c) \notin idx
      BY <3>1, <1>1, <1>5
    <3> QED BY <2>2, <3>2
  <2> QED BY <2>1, <2>2
<1>7. Len(h) \in Len(c) .. Len(h) /\ 0 \in 0 .. Len(h) /\ Len(h) \in 0 .. Len(h)
  BY <1>1, <1>6
<1>8. Upto(h, Len(h)) \in idx /\ Upto(h, Len(h)) = h
  BY <1>7, UptoUpto DEF LinkedIn
<1> QED BY <1>8

\* A severed branch is not linked to the chain.
LEMMA SeveredOrphan ==
  ASSUME NEW idx, NEW orp, NEW a \in Blocks, NEW h \in Blocks, Severed(idx, orp, a, h)
  PROVE  \E b \in orp : ~(Len(b) <= Len(h) /\ Previous(b) = Upto(h, Len(b) - 1))
<1>1. PICK k \in 1 .. Len(a) : /\ Upto(a, k) \in orp
                              /\ ~(k <= Len(h) /\ Upto(a, k - 1) = Upto(h, k - 1))
  BY DEF Severed
<1> DEFINE b == Upto(a, k)
<1>2. k \in 0 .. Len(a) /\ k - 1 \in 0 .. k /\ k \in Nat \ {0}
  BY BlockSeq
<1>3. b \in Blocks /\ Len(b) = k /\ Upto(b, k - 1) = Upto(a, k - 1)
  BY <1>2, UptoShape, UptoUpto
<1>4. b \in orp /\ ~(k <= Len(h) /\ Upto(a, k - 1) = Upto(h, k - 1))
  BY <1>1
<1> HIDE DEF b
<1>5. b # Root
  BY <1>2, <1>3, PreviousShape
<1>6. Previous(b) = Upto(a, k - 1)
  BY <1>3, <1>5, PreviousShape
<1> QED BY <1>3, <1>4, <1>6

\* Erasing blocks of which those with linked children can never be applied.
LEMMA EraseExplained ==
  ASSUME kept = {}, Explained(index, orphan), NEW gone \in SUBSET Blocks, Erase(index, gone),
         \A b \in index \ orphan : Previous(b) \in gone => ~Sane(Previous(b))
  PROVE  Explained(index', orphan')
<1>1. /\ index' = index \ gone
      /\ orphan' = (orphan \ gone) \cup {b \in index \ gone : Previous(b) \in gone}
  BY DEF Erase
<1>2. ASSUME NEW x \in orphan'
      PROVE  x # Root /\ (~Sane(Previous(x)) \/ \A c \in index' : Len(c) >= Len(x))
  <2>1. CASE x \in orphan
    BY <2>1, <1>1 DEF Explained
  <2>2. CASE x \notin orphan
    <3>1. x \in index \ orphan /\ Previous(x) \in gone
      BY <2>2, <1>1
    <3>2. Previous(x) # None
      BY <3>1, NoneAssumption
    <3> QED BY <3>1, <3>2, PreviousShape
  <2> QED BY <2>1, <2>2
<1> QED BY <1>2 DEF Explained

\* What _push_block does to the index and its pointers.
LEMMA InsertedExplained ==
  ASSUME TypeInv, kept = {}, PrevAlive, Explained(index, orphan),
         NEW b \in Blocks, b \notin index, Previous(b) \in index, Inserted(b)
  PROVE  /\ Explained(index', orphan') /\ Previous(b) \in index'
         /\ \A c \in index' \ orphan' : Previous(c) # b
         /\ \/ Len(b) > Len(fhead) /\ fhead' = b /\ loose' = FALSE
            \/ /\ Len(b) <= Len(fhead) /\ fhead' = fhead /\ loose' = loose
               /\ index' = index \cup {b} /\ orphan' = orphan
<1>t. index \subseteq Blocks /\ ForkSize \in Nat \ {0} /\ fhead \in Blocks /\ orphan \subseteq index
  BY ChainAssumption DEF TypeInv, SizeInv, TypeOK
<1>l. \A c \in Blocks : Len(c) \in Nat /\ Num(c) = Len(c) + 1
  BY BlockSeq DEF Num
<1>p. Previous(b) \in Blocks /\ Len(b) = Len(Previous(b)) + 1
  <2>1. Previous(b) \in Blocks
    BY <1>t
  <2> QED BY <2>1, ChildShape
<1>b. Previous(b) # b
  BY <1>p, <1>l
<1>a. ASSUME NEW c \in (index \cup {b}) \ orphan PROVE Previous(c) # b
  <2>1. CASE c = b
    BY <2>1, <1>b
  <2>2. CASE c = Root
    BY <2>2, PreviousShape, NoneAssumption
  <2>3. CASE c # b /\ c # Root
    BY <2>3 DEF PrevAlive
  <2> QED BY <2>1, <2>2, <2>3
<1>e. ASSUME NEW x \in orphan
      PROVE  x # Root /\ (~Sane(Previous(x)) \/ \A c \in index \cup {b} : Len(c) >= Len(x))
  <2>1. CASE \A c \in index : Len(c) >= Len(x)
    <3>1. Len(Previous(b)) >= Len(x) /\ Len(x) \in Nat
      BY <2>1, <1>t, <1>l
    <3>2. Len(b) >= Len(x)
      BY <3>1, <1>p, <1>l
    <3> QED BY <2>1, <3>2 DEF Explained
  <2>2. CASE ~\A c \in index : Len(c) >= Len(x)
    BY <2>2 DEF Explained
  <2> QED BY <2>1, <2>2
<1>1. CASE Num(b) > Num(fhead)
  <2> DEFINE gone == Outdated(b)
             low == Minus(Num(b), ForkSize)
  <2>1. fhead' = b /\ loose' = FALSE /\ Erase(index \cup {b}, gone)
    BY <1>1 DEF Inserted
  <2>2. /\ index' = (index \cup {b}) \ gone
        /\ orphan' = (orphan \ gone)
                       \cup {c \in (index \cup {b}) \ gone : Previous(c) \in gone}
    BY <2>1 DEF Erase
  <2>3. \A c \in index : c \in gone <=> Num(c) < low
    BY DEF Outdated
  <2>5. low \in Nat /\ low <= Num(Previous(b)) /\ low <= Num(b) /\ gone \subseteq index
    BY <1>t, <1>l, <1>p DEF Minus, Outdated
  <2> HIDE DEF gone, low
  <2>6. Previous(b) \in index'
    <3>1. Previous(b) \notin gone
      BY <2>3, <2>5, <1>l, <1>p
    <3> QED BY <3>1, <2>2
  <2>7. ASSUME NEW x \in orphan'
        PROVE  x # Root /\ (~Sane(Previous(x)) \/ \A c \in index' : Len(c) >= Len(x))
    <3>1. CASE x \in orphan
      BY <3>1, <1>e, <2>2
    <3>2. CASE x \notin orphan
      <4>1. x \in index \cup {b} /\ Previous(x) \in gone /\ x \in Blocks
        BY <3>2, <2>2, <1>t
      <4>2. Previous(x) \in Blocks /\ Num(Previous(x)) < low
        BY <4>1, <2>3, <2>5, <1>t
      <4>3. x # Root /\ Len(x) = Len(Previous(x)) + 1
        BY <4>1, <4>2, ChildShape
      <4>4. ASSUME NEW c \in index' PROVE Len(c) >= Len(x)
        <5>1. c \in Blocks /\ ~(Num(c) < low)
          <6>1. CASE c = b
            BY <6>1, <2>5, <1>l
          <6>2. CASE c # b
            BY <6>2, <2>2, <2>3, <1>t
          <6> QED BY <6>1, <6>2
        <5> QED BY <5>1, <4>1, <4>2, <4>3, <2>5, <1>l
      <4> QED BY <4>3, <4>4
    <3> QED BY <3>1, <3>2
  <2>8. \A c \in index' \ orphan' : c \in (index \cup {b}) \ orphan
    BY <2>2
  <2>9. Len(b) > Len(fhead)
    BY <1>1, <1>l, <1>t
  <2> QED BY <2>1, <2>6, <2>7, <2>8, <2>9, <1>a DEF Explained
<1>2. CASE ~(Num(b) > Num(fhead))
  <2>1. /\ index' = index \cup {b} /\ orphan' = orphan /\ fhead' = fhead /\ loose' = loose
    BY <1>2 DEF Inserted
  <2>2. Len(b) <= Len(fhead)
    BY <1>2, <1>l, <1>t
  <2>3. Explained(index', orphan')
    BY <2>1, <1>e DEF Explained
  <2> QED BY <2>1, <2>2, <2>3, <1>a
<1> QED BY <1>1, <1>2

\* push_block is entered: a block that extends the head is not taken for part of
\* another branch, unless a severed branch is in the way.
LEMMA EnterLink ==
  ASSUME TypeInv, AppliedOnce, Sound(head), RootInv', FetchInv, FetchInv', LinkInv,
         phase = "idle", head' = head, NEW b \in Blocks, ~is_known_block(b), Enter(b)
  PROVE  LinkInv' /\ ExtendInv'
<1>t. /\ head \in Blocks /\ fhead \in Blocks /\ index \subseteq Blocks
      /\ Len(head) \in Nat /\ Len(fhead) \in Nat /\ Len(b) \in Nat
      /\ ForkSize \in Nat \ {0} /\ orphan \subseteq index
  <2>1. /\ head \in Blocks /\ fhead \in Blocks /\ index \subseteq Blocks
        /\ ForkSize \in Nat \ {0} /\ orphan \subseteq index
    BY ChainAssumption DEF TypeInv, SizeInv, TypeOK
  <2> QED BY <2>1, BlockSeq
<1>f. kept = {} /\ PrevAlive /\ LinkedIn(index, head)
  BY DEF FetchInv
<1>k. /\ loose = FALSE /\ index # {} /\ Explained(index, orphan)
      /\ \/ Len(fhead) <= Len(head) \/ Previous(fhead) = head
         \/ Severed(index, orphan, fhead, head)
  BY DEF LinkInv
<1>s. Sane(head)
  BY DEF Sane, AppliedOnce, Disjoint
<1>0. new' = b /\ old'.head = head /\ b \notin index
  BY DEF Enter, is_known_block
<1>n. Len(fhead) > Len(head) + 1 => Previous(fhead) # head
  <2>1. ASSUME Previous(fhead) = head PROVE Len(fhead) = Len(head) + 1
    BY <2>1, <1>t, ChildShape
  <2> QED BY <2>1, <1>t
<1>v. ASSUME Severed(index, orphan, fhead, head), orphan' = orphan PROVE ~LinkedTo(old.head)'
  <2>1. \E x \in orphan : ~(Len(x) <= Len(head) /\ Previous(x) = Upto(head, Len(x) - 1))
    BY <1>v, <1>t, SeveredOrphan
  <2> QED BY <2>1, <1>v, <1>0 DEF LinkedTo, Height
<1>1. CASE CannotLink(b)
  <2>1. phase' = "restoring" /\ UNCHANGED <<index, orphan, fhead, loose>>
    BY <1>1 DEF Enter, forkvars
  <2>2. LinkInv'
    BY <2>1, <1>k DEF LinkInv, Switching
  <2>3. ASSUME Previous(b) = head PROVE ~LinkedTo(old.head)'
    <3>1. CASE Previous(b) \in index
      <4>1. Num(b) <= Minus(Num(fhead), ForkSize)
        BY <3>1, <1>1 DEF CannotLink
      <4>2. Len(b) = Len(head) + 1
        BY <2>3, <1>t, ChildShape
      <4>3. Len(fhead) > Len(head) + 1
        BY <4>1, <4>2, <1>t DEF Num, Minus
      <4>4. Severed(index, orphan, fhead, head)
        BY <4>3, <1>k, <1>n, <1>t
      <4> QED BY <4>4, <2>1, <1>v
    <3>2. CASE Previous(b) \notin index
      <4>1. ASSUME \A x \in orphan : Len(x) <= Len(head) PROVE FALSE
        <5>1. \A x \in index \ orphan : x = Root \/ Previous(x) \in index
          BY <1>f DEF PrevAlive
        <5>2. head \in index
          BY <4>1, <5>1, <1>t, <1>f, <1>k, HeadPresent
        <5> QED BY <5>2, <2>3, <3>2
      <4> QED BY <4>1, <2>1, <1>0 DEF LinkedTo, Height
    <3> QED BY <3>1, <3>2
  <2>4. ExtendInv'
    BY <2>1, <2>3, <1>0 DEF ExtendInv, Switching
  <2> QED BY <2>2, <2>4
<1>2. CASE ~CannotLink(b)
  <2> DEFINE f == fhead'
             n == ForkHeight(f, head)
             switch == Previous(f) # head /\ Num(f) > Num(head)
             linked == Climbs(index', orphan', f, n) /\ Climbs(index', orphan', head, n)
  <2>1. /\ Inserted(b)
        /\ phase' = CASE Previous(f) = head -> "direct"
                      [] switch /\ linked -> "popping"
                      [] OTHER -> "restoring"
        /\ first' = IF switch /\ linked THEN Branch(f, n) ELSE << >>
        /\ second' = IF switch /\ linked THEN Branch(head, n) ELSE << >>
    BY <1>2 DEF Enter
  <2>2. Previous(b) \in index
    BY <1>2 DEF CannotLink
  <2>3. /\ Explained(index', orphan') /\ Previous(b) \in index'
        /\ \A c \in index' \ orphan' : Previous(c) # b
        /\ \/ Len(b) > Len(fhead) /\ f = b /\ loose' = FALSE
           \/ /\ Len(b) <= Len(fhead) /\ f = fhead /\ loose' = loose
              /\ index' = index \cup {b} /\ orphan' = orphan
    BY <2>1, <2>2, <1>0, <1>f, <1>k, InsertedExplained
  <2>4. loose' = FALSE /\ index' # {} /\ b \in index'
    <3>1. b \in index'
      BY <2>1, <2>2, <1>f, InsertedFork DEF FetchInv
    <3> QED BY <3>1, <2>3, <1>k
  <2>5. /\ f \in Blocks /\ Len(f) \in Nat /\ index' \subseteq Blocks
        /\ Num(f) > Num(head) <=> Len(f) > Len(head)
    <3>1. f \in Blocks /\ index' \subseteq Blocks
      BY EnterShape
    <3>2. Len(f) \in Nat
      BY <3>1, BlockSeq
    <3> QED BY <3>1, <3>2, <1>t DEF Num
  <2>6. /\ \A c \in index' \ orphan' : c = Root \/ Previous(c) \in index'
        /\ LinkedIn(index', head)
    BY DEF FetchInv, PrevAlive
  <2>7. n \in 0 .. Len(f) /\ n \in 0 .. Len(head) /\ n \in Nat
    BY <2>5, <1>t, ForkHeightType
  <2>8. ASSUME f = fhead, Severed(index, orphan, fhead, head), index' = index \cup {b},
               orphan' = orphan
        PROVE  Severed(index', orphan', f, head)
    BY <2>8 DEF Severed
  <2>9. ASSUME Previous(f) # head, Len(f) > Len(head), f # b
        PROVE  Severed(index', orphan', f, head) /\ ~linked /\ ~LinkedTo(old.head)'
    <3>1. Severed(index, orphan, fhead, head) /\ f = fhead /\ index' = index \cup {b} /\ orphan' = orphan
      BY <2>3, <2>9, <1>k, <1>t
    <3>2. Severed(index', orphan', f, head) /\ ~LinkedTo(old.head)'
      BY <3>1, <2>8, <1>v
    <3> HIDE DEF f
    <3>3. ~Climbs(index', orphan', f, n)
      BY <3>2, <2>5, <1>t, <1>f, SeveredUnlinked
    <3> QED BY <3>2, <3>3
  <2>10. ASSUME Previous(b) = head
         PROVE  Previous(f) = head \/ (Len(f) > Len(head) /\ f # b)
    <3>1. Len(b) = Len(head) + 1
      BY <2>10, <1>t, ChildShape
    <3> QED BY <3>1, <2>3, <2>10, <1>t
  <2>11. CASE phase' = "direct"
    <3>1. Previous(f) = head
      BY <2>1, <2>11
    <3>2. LinkInv'
      BY <3>1, <2>3, <2>4, <2>11, <1>0 DEF LinkInv, Switching
    <3>3. ExtendInv'
      BY <2>11 DEF ExtendInv, Switching
    <3> QED BY <3>2, <3>3
  <2>12. CASE phase' = "popping"
    <3>1. /\ Previous(f) # head /\ Len(f) > Len(head) /\ linked
          /\ first' = Branch(f, n) /\ second' = Branch(head, n)
      BY <2>1, <2>5, <2>12
    <3>2. Len(second') \in 1 .. Len(head)
      BY <2>12, <1>0 DEF RootInv, Switching
    <3>3. Len(second') = Len(head) - n + 1 /\ first'[1] = f
      BY <3>1, <2>5, <2>7, <1>t, BranchShape, BranchTop
    <3>4. n \in Nat \ {0} /\ ForkPoint' + 1 = n /\ ForkPoint' + 2 = n + 1
      BY <3>2, <3>3, <2>7, <1>0, <1>t DEF ForkPoint
    <3>5. /\ head \in index'
          /\ \A k \in n + 1 .. Len(f) : Upto(f, k) \in index' \ orphan'
          /\ \A k \in n + 1 .. Len(head) : Upto(head, k) \in index' \ orphan'
      BY <3>1, <1>f DEF Climbs
    <3>6. Upto(f, Len(f)) = f /\ Upto(head, Len(head)) = head
      <4>1. /\ Len(f) \in 0 .. Len(f) /\ 0 \in 0 .. Len(f)
            /\ Len(head) \in 0 .. Len(head) /\ 0 \in 0 .. Len(head)
        BY <2>5, <1>t
      <4> HIDE DEF f
      <4> QED BY <4>1, <2>5, <1>t, UptoUpto
    <3>7. Upto(head, n) \in index'
      <4> HIDE DEF f, n
      <4>1. CASE n = Len(head)
        BY <4>1, <3>5, <3>6
      <4>2. CASE n # Len(head)
        <5>1. n \in 0 .. Len(head) - 1 /\ n + 1 \in n + 1 .. Len(head)
          BY <4>2, <2>7, <1>t
        <5>2. Upto(head, n + 1) \in index' \ orphan'
          BY <5>1, <3>5
        <5> QED BY <5>1, <5>2, <2>6, <1>t, ParentAlive
      <4> QED BY <4>1, <4>2
    <3>8. LinkInv'
      <4>1. /\ Len(fhead') + Len(old'.head) = Len(head') + Len(first'[1])
            /\ Len(fhead') <= Len(first'[1]) /\ fhead' = Upto(first'[1], Len(fhead'))
        BY <3>3, <3>6, <2>5, <1>0, <1>t
      <4>2. \A k \in ForkPoint' + 2 .. Len(first'[1]) : Upto(first'[1], k) \notin orphan'
        BY <3>3, <3>4, <3>5
      <4>3. Upto(old'.head, ForkPoint' + 1) \in index'
        BY <3>4, <3>7, <1>0
      <4> HIDE DEF f, n
      <4> QED BY <4>1, <4>2, <4>3, <2>3, <2>4, <2>12 DEF LinkInv, Switching
    <3>9. Previous(b) # head
      BY <2>9, <2>10, <3>1
    <3> QED BY <3>8, <3>9, <2>12, <1>0 DEF ExtendInv
  <2>13. CASE phase' = "restoring"
    <3>1. Previous(f) # head /\ (Len(f) > Len(head) => ~linked)
      BY <2>1, <2>5, <2>13
    <3>2. ASSUME Len(f) > Len(head) PROVE Severed(index', orphan', f, head)
      <4>1. CASE f # b
        BY <4>1, <3>1, <3>2, <2>9
      <4>2. CASE f = b
        <5>1. f \in index' /\ ~linked
          BY <4>2, <3>1, <3>2, <2>4
        <5> HIDE DEF f
        <5> QED BY <5>1, <2>3, <2>5, <2>6, <1>s, <1>t, <1>f, UnlinkedSevered
      <4> QED BY <4>1, <4>2
    <3>3. LinkInv'
      <4>1. Len(f) <= Len(head) \/ Severed(index', orphan', f, head)
        BY <3>2, <2>5, <1>t
      <4> QED BY <4>1, <2>3, <2>4, <2>13 DEF LinkInv, Switching
    <3>4. ASSUME Previous(b) = head PROVE ~LinkedTo(old.head)'
      BY <3>1, <3>4, <2>9, <2>10
    <3> QED BY <3>3, <3>4, <2>13, <1>0 DEF ExtendInv, Switching
  <2>14. phase' \in {"direct", "popping", "restoring"}
    BY EnterShape
  <2> QED BY <2>11, <2>12, <2>13, <2>14
<1> QED BY <1>1, <1>2

LEMMA LinkInvStep ==
  ASSUME PoolInv, OrderInv, BranchInv, RootInv, StoreExact, DeltaLeft, FetchInv, LinkInv,
         Next, RootInv', FetchInv'
  PROVE  LinkInv'
<1>i. TypeInv /\ SizeInv /\ AppliedOnce /\ Sound(head) /\ Sound(old.head) /\ Sane(old.head)
  BY DEF PoolInv, TypeInv, BranchInv, OrderInv, Sane
<1>t. /\ new \in Blocks /\ first \in Seq(Blocks) /\ phase \in Phases /\ index \subseteq Blocks
      /\ old.head \in Blocks /\ head \in Blocks /\ fhead \in Blocks /\ orphan \subseteq index
  BY <1>i DEF SizeInv, TypeOK
<1>l. Len(old.head) \in Nat /\ Len(head) \in Nat /\ Len(fhead) \in Nat /\ Len(new) \in Nat
  BY <1>t, BlockSeq
<1>f. kept = {} /\ PrevAlive
  BY DEF FetchInv
<1>k. loose = FALSE /\ index # {} /\ Explained(index, orphan)
  BY DEF LinkInv
<1>a. ASSUME phase' = "restoring", UNCHANGED <<index, orphan, fhead, loose>>,
             Len(fhead) <= Len(head')
      PROVE  LinkInv'
  BY <1>a, <1>k DEF LinkInv, Switching
<1>h. is_known_block(head)
  <2>1. Len(head) \in 0 .. MaxHeight /\ 0 \in 0 .. Len(head) /\ Len(head) \in 0 .. Len(head)
    BY <1>i, <1>l, Basics
  <2>2. store[Len(head)] = Upto(head, Len(head)) /\ Upto(head, Len(head)) = head
    BY <2>1, <1>t, UptoUpto DEF StoreExact
  <2> QED BY <2>2 DEF is_known_block, Height
<1>p. ASSUME fhead # Root
      PROVE  Previous(fhead) = Upto(fhead, Len(fhead) - 1) /\ Len(fhead) - 1 \in Nat
             /\ Len(Previous(fhead)) = Len(fhead) - 1
  <2>1. Len(fhead) \in Nat \ {0} /\ Previous(fhead) = Upto(fhead, Len(fhead) - 1)
        /\ Len(Previous(fhead)) = Len(fhead) - 1
    BY <1>p, <1>t, PreviousShape
  <2> QED BY <2>1
<1>u. ASSUME Undoing PROVE Len(head) > ForkPoint /\ ForkPoint \in Nat
  <2>1. Len(head) > ForkPoint
    BY <1>u, <1>i, RootHeld
  <2>2. Len(second) \in 1 .. Len(old.head)
    BY <1>u DEF RootInv, Undoing, Switching
  <2> QED BY <2>1, <2>2, <1>l DEF ForkPoint
<1>1. CASE phase \in {"idle", "restoring"}
  <2>1. CASE phase' \in {"idle", "restoring"} /\ UNCHANGED <<head, store, forkvars>>
    BY <1>1, <2>1 DEF LinkInv, forkvars, Switching
  <2>2. ASSUME phase = "idle", UNCHANGED <<head, store>>,
               NEW b \in Blocks, ~is_known_block(b), Enter(b)
        PROVE  LinkInv'
    BY <2>2, <1>i, EnterLink
  <2> QED BY <1>1, <2>1, <2>2, <1>i, ForkIdle
<1>2. ASSUME NEW m \in UndoSizes, push_direct(m) PROVE LinkInv'
  <2>0. /\ phase = "direct" /\ Previous(fhead) = head /\ Previous(new) \in index
        /\ \A b \in index \ orphan : Previous(b) # new
    BY <1>2 DEF push_direct, LinkInv
  <2>1. CASE Applies(new)
    <3>1. /\ head' = new /\ Previous(new) = head /\ phase' = "restoring"
          /\ UNCHANGED <<index, orphan, fhead, loose>>
      BY <1>2, <2>1 DEF push_direct, Apply, Applies, Return, forkvars
    <3>2. Len(fhead) = Len(head) + 1 /\ Len(new) = Len(head) + 1
      BY <2>0, <3>1, <1>t, ChildShape
    <3> QED BY <3>1, <3>2, <1>a, <1>l
  <2>2. CASE ~Applies(new)
    <3>1. /\ head' = head /\ phase' = "restoring" /\ Erase(index, {new})
          /\ fhead' = fhead /\ loose' = loose
      BY <1>2, <2>2 DEF push_direct, FailToApply, Return
    <3>2. Explained(index', orphan')
      <4>1. {new} \in SUBSET Blocks
        BY <1>t
      <4> QED BY <4>1, <3>1, <2>0, <1>f, <1>k, EraseExplained
    <3>3. index' # {}
      <4>1. Previous(new) \in Blocks
        BY <2>0, <1>t
      <4>2. Len(new) = Len(Previous(new)) + 1 /\ Len(Previous(new)) \in Nat
        BY <4>1, <1>t, ChildShape
      <4>3. Previous(new) # new
        BY <4>2
      <4> QED BY <4>3, <2>0, <3>1 DEF Erase
    <3> QED BY <3>1, <3>2, <3>3, <2>0, <1>k DEF LinkInv, Switching
  <2> QED BY <2>1, <2>2
<1>3. ASSUME NEW m \in UndoSizes, switch_push(m) PROVE LinkInv'
  <2>0. /\ phase = "pushing" /\ Len(fhead) <= Len(IF first = << >> THEN head ELSE first[1])
        /\ Upto(old.head, ForkPoint + 1) \in index
    BY <1>3 DEF switch_push, Switching, LinkInv
  <2>1. CASE first = << >>
    <3>1. head' = head /\ phase' = "restoring" /\ UNCHANGED <<index, orphan, fhead, loose>>
      BY <1>3, <2>1 DEF switch_push, chainvars, forkvars, Return
    <3> QED BY <3>1, <2>0, <2>1, <1>a
  <2>2. CASE first # << >>
    <3> DEFINE b == first[Len(first)]
               l == Len(first)
               g == Upto(first, l - 1)
    <3>1. /\ l \in Nat \ {0} /\ Len(g) = l - 1 /\ g \in Seq(Blocks)
          /\ \A i \in 1 .. l - 1 : g[i] = first[i]
      BY <2>2, <1>t, DropLast
    <3>2. CASE Applies(b)
      <4>1. /\ head' = b /\ first' = g /\ phase' = "pushing"
            /\ UNCHANGED <<index, orphan, fhead, loose, second, old>>
        BY <1>3, <2>0, <2>2, <3>2 DEF switch_push, Apply, forkvars
      <4>2. Len(fhead) <= Len(IF g = << >> THEN b ELSE g[1])
        <5>1. CASE l = 1
          <6>1. g = << >>
            BY <5>1, <3>1, EmptySeq
          <6> QED BY <5>1, <6>1, <2>0, <2>2
        <5>2. CASE l # 1
          <6>1. g # << >> /\ 1 \in 1 .. l - 1
            BY <5>2, <3>1
          <6> QED BY <6>1, <3>1, <2>0, <2>2
        <5> QED BY <5>1, <5>2
      <4> QED BY <4>1, <4>2, <2>0, <1>k DEF LinkInv, Switching, ForkPoint
    <3>3. CASE ~Applies(b)
      <4>1. /\ phase' = "unwinding" /\ old' = old /\ second' = second
            /\ Erase(index, Elements(first)) /\ fhead' = second[1] /\ loose' = FALSE
        BY <1>3, <2>2, <3>3 DEF switch_push, Goto
      <4>2. /\ \A x \in Elements(first) : x \in Blocks /\ ~Sane(x)
            /\ \A k \in 0 .. Len(old.head) : Upto(old.head, k) \notin Elements(first)
        BY <2>0, <2>2, <3>3, FailedBranch DEF Sane
      <4>3. Explained(index', orphan')
        <5>1. Elements(first) \in SUBSET Blocks
          BY <4>2
        <5> QED BY <5>1, <4>1, <4>2, <1>f, <1>k, EraseExplained
      <4>4. fhead' = old.head
        <5>1. PICK n \in 0 .. Len(old.head) : second = Branch(old.head, n)
          BY <2>0 DEF BranchInv
        <5> QED BY <5>1, <4>1, <1>t, BranchTop
      <4>5. Upto(old.head, ForkPoint + 1) \in index' /\ ForkPoint' = ForkPoint
        <5>1. Len(second) \in 1 .. Len(old.head)
          BY <2>0 DEF RootInv, Switching
        <5>2. ForkPoint + 1 \in 0 .. Len(old.head)
          BY <5>1, <1>l DEF ForkPoint
        <5>3. Upto(old.head, ForkPoint + 1) \notin Elements(first)
          BY <5>2, <4>2
        <5> QED BY <5>3, <4>1, <2>0 DEF Erase, ForkPoint
      <4>6. Upto(old.head, Len(old.head)) = old.head
        <5>1. Len(old.head) \in 0 .. Len(old.head) /\ 0 \in 0 .. Len(old.head)
          BY <1>l
        <5> QED BY <5>1, <1>t, UptoUpto
      <4>7. Len(fhead') <= Len(old'.head) /\ fhead' = Upto(old'.head, Len(fhead'))
        BY <4>1, <4>4, <4>6, <1>l
      <4> QED BY <4>1, <4>3, <4>5, <4>7 DEF LinkInv, Switching
    <3> QED BY <3>2, <3>3
  <2> QED BY <2>1, <2>2
<1>4. ASSUME NEW m \in UndoSizes, switch_reapply(m) PROVE LinkInv'
  <2>0. /\ phase = "reapplying" /\ phase' \in {"reapplying", "restoring"} /\ old' = old
        /\ (phase' = "restoring" => err' = TRUE) /\ UNCHANGED <<index, orphan, fhead, loose>>
    BY <1>4 DEF switch_reapply, Return, forkvars
  <2>1. Len(fhead) <= Len(old.head) /\ fhead = Upto(old.head, Len(fhead))
    BY <2>0 DEF LinkInv
  <2>2. CASE phase' = "reapplying"
    BY <2>0, <2>1, <2>2, <1>k DEF LinkInv, Switching
  <2>3. CASE phase' = "restoring"
    <3>1. ~BreaksOff /\ phase \in Elsewhere
      BY <2>0 DEF BreaksOff, Undoing, Elsewhere
    <3>2. head' = old.head
      BY <3>1, <2>0, <2>3, SwitchStep
    <3> QED BY <3>2, <2>0, <2>1, <2>3, <1>a
  <2> QED BY <2>0, <2>2, <2>3
<1>5. ASSUME switch_pop PROVE LinkInv'
  <2>0. /\ phase = "popping" /\ first # << >> /\ Upto(old.head, ForkPoint + 1) \in index
        /\ Len(fhead) + Len(old.head) = Len(head) + Len(first[1])
        /\ Len(fhead) <= Len(first[1]) /\ fhead = Upto(first[1], Len(fhead))
        /\ \A k \in ForkPoint + 2 .. Len(first[1]) : Upto(first[1], k) \notin orphan
    BY <1>5 DEF switch_pop, LinkInv, BranchInv, Switching
  <2>1. CASE AtFork
    <3>1. /\ phase' = "pushing" /\ head' = head
          /\ UNCHANGED <<first, second, old, index, orphan, fhead, loose>>
      BY <1>5, <2>1 DEF switch_pop, Goto, chainvars, forkvars
    <3> QED BY <3>1, <2>0, <1>k DEF LinkInv, Switching, ForkPoint
  <2>2. CASE ~AtFork
    <3> DEFINE z == first[1]
    <3>1. z \in Blocks /\ Len(z) \in Nat /\ Len(z) > Len(old.head) /\ Len(first) \in Nat \ {0}
      <4>1. Len(first) \in Nat \ {0}
        BY <2>0, <1>t, DropLast
      <4>2. 1 \in 1 .. Len(first)
        BY <4>1
      <4>3. z \in Blocks
        BY <4>2, <1>t, ElementOfSeq
      <4> QED BY <4>1, <4>3, <2>0, BlockSeq DEF BranchInv
    <3>2. /\ Len(z) - Len(first) = ForkPoint
          /\ \A i \in 1 .. Len(first) : first[i] = Upto(z, Len(z) - i + 1) /\ first[i] \in index
      BY <2>0 DEF FetchInv, Ahead
    <3> HIDE DEF z
    <3>3. Undoing /\ Len(head) > ForkPoint /\ ForkPoint \in Nat
      BY <2>0, <2>2, <1>u DEF Undoing
    <3>4. Len(fhead) + Len(old.head) = Len(head) + Len(z) /\ Len(fhead) <= Len(z)
      BY <2>0 DEF z
    <3>5. Len(fhead) \in ForkPoint + 2 .. Len(z) /\ Len(fhead) # 0
      BY <3>1, <3>3, <3>4, <1>l
    <3>6. fhead \notin orphan /\ fhead # Root
      BY <3>5, <2>0, PreviousShape DEF z
    <3> DEFINE p == Len(fhead) - 1
    <3>7. p \in 0 .. Len(fhead) /\ Len(fhead) \in 0 .. Len(z)
          /\ Len(z) - p + 1 \in 1 .. Len(first) /\ Len(z) - (Len(z) - p + 1) + 1 = p
      BY <3>1, <3>2, <3>3, <3>5, <1>l
    <3>8. Previous(fhead) = Upto(z, p)
      <4>1. Upto(Upto(z, Len(fhead)), p) = Upto(z, p)
        BY <3>1, <3>7, UptoUpto
      <4>2. Upto(z, Len(fhead)) = fhead
        BY <2>0 DEF z
      <4> QED BY <4>1, <4>2, <3>6, <1>p
    <3>9. Upto(z, p) \in index
      <4>1. first[Len(z) - p + 1] = Upto(z, Len(z) - (Len(z) - p + 1) + 1)
            /\ first[Len(z) - p + 1] \in index
        BY <3>2, <3>7
      <4> QED BY <4>1, <3>7
    <3>10. CanPopFork /\ CanPop
      <4>1. CanPopFork
        BY <3>6, <3>8, <3>9, <1>h, <1>k DEF CanPopFork
      <4> QED BY <4>1, <3>3 DEF DeltaLeft
    <3>11. /\ pop_block /\ UNCHANGED callvars
      BY <1>5, <2>2, <3>10 DEF switch_pop
    <3>12. /\ fhead' = Previous(fhead) /\ loose' = FALSE /\ UNCHANGED <<index, orphan>>
           /\ PopUndone
           /\ UNCHANGED <<phase, first, second, old>>
      BY <3>10, <3>11 DEF pop_block, callvars
    <3>13. Len(head') = Len(head) - 1
      BY <3>3, <3>10, <3>12, <1>i, PopShape
    <3>14. Len(fhead') = p /\ fhead' = Upto(z, p)
      BY <3>6, <3>8, <3>12, <1>p
    <3>15. Len(fhead') + Len(old.head) = Len(head') + Len(z) /\ Len(fhead') <= Len(z)
      BY <3>1, <3>4, <3>13, <3>14, <1>l
    <3> HIDE DEF p
    <3> QED BY <3>12, <3>14, <3>15, <2>0, <1>k DEF LinkInv, Switching, ForkPoint, z
  <2> QED BY <2>1, <2>2
<1>6. ASSUME switch_unwind PROVE LinkInv'
  <2>0. /\ phase = "unwinding" /\ Upto(old.head, ForkPoint + 1) \in index
        /\ Len(fhead) <= Len(old.head) /\ fhead = Upto(old.head, Len(fhead))
    BY <1>6 DEF switch_unwind, LinkInv, Switching
  <2>1. CASE AtFork
    <3>1. /\ phase' = "reapplying" /\ old' = old /\ UNCHANGED <<index, orphan, fhead, loose>>
      BY <1>6, <2>1 DEF switch_unwind, chainvars, forkvars
    <3> QED BY <3>1, <2>0, <1>k DEF LinkInv, Switching
  <2>2. CASE ~AtFork
    <3>1. Undoing /\ Len(head) > ForkPoint /\ ForkPoint \in Nat
      BY <2>0, <2>2, <1>u DEF Undoing
    <3>2. CASE pop_block
      <4>1. CanPopFork /\ CanPop
        BY <3>1, <3>2 DEF DeltaLeft, pop_block
      <4>2. /\ fhead' = Previous(fhead) /\ loose' = FALSE /\ UNCHANGED <<index, orphan>>
            /\ fhead # Root /\ UNCHANGED <<phase, second, old>>
        <5>1. CASE UNCHANGED callvars
          BY <3>2, <4>1, <5>1 DEF pop_block, callvars, CanPopFork
        <5> QED BY <5>1, <1>6, <2>2, <3>2, <4>1 DEF switch_unwind
      <4> DEFINE p == Len(fhead) - 1
      <4>3. p \in 0 .. Len(fhead) /\ Len(fhead) \in 0 .. Len(old.head) /\ p <= Len(old.head)
        BY <4>2, <2>0, <1>p, <1>l
      <4>4. Upto(Upto(old.head, Len(fhead)), p) = Upto(old.head, p)
        BY <4>3, <1>t, UptoUpto
      <4>5. Len(fhead') = p /\ fhead' = Upto(old.head, p)
        BY <4>2, <4>4, <2>0, <1>p
      <4> HIDE DEF p
      <4> QED BY <4>2, <4>3, <4>5, <2>0, <1>k DEF LinkInv, Switching, ForkPoint
    <3>3. CASE ~CanPopFork /\ Return(TRUE) /\ UNCHANGED <<chainvars, forkvars, txvars>>
      <4>1. head' = head /\ phase' = "restoring" /\ UNCHANGED <<index, orphan, fhead, loose>>
        BY <3>3 DEF chainvars, forkvars, Return
      <4>2. ASSUME Len(fhead) > Len(head) PROVE FALSE
        <5> DEFINE c == Upto(old.head, ForkPoint + 1)
        <5>1. ForkPoint + 1 \in 0 .. Len(old.head) /\ Len(fhead) \in ForkPoint + 2 .. Len(old.head)
          BY <4>2, <3>1, <2>0, <1>l
        <5>2. c \in index /\ Len(c) = ForkPoint + 1
          BY <5>1, <2>0, <1>t, UptoShape
        <5>3. Len(fhead) \in Len(c) + 1 .. Len(old.head) /\ Len(fhead) # 0
          BY <5>1, <5>2, <3>1, <1>l
        <5> HIDE DEF c
        <5>4. Upto(old.head, Len(fhead)) \in index \ orphan
          <6>1. LinkedIn(index, old.head)
            BY <2>0 DEF FetchInv, Switching
          <6> QED BY <6>1, <5>2, <5>3, <1>i, <1>k, <1>t, ChainAlive
        <5>5. fhead \in index \ orphan /\ fhead # Root
          BY <5>3, <5>4, <2>0, PreviousShape
        <5>6. CanPopFork
          BY <5>5, <1>f, <1>h, <1>k DEF CanPopFork, PrevAlive
        <5> QED BY <5>6, <3>3
      <4> QED BY <4>1, <4>2, <1>a, <1>l
    <3> QED BY <3>2, <3>3, <1>6, <2>2 DEF switch_unwind
  <2> QED BY <2>1, <2>2
<1>7. CASE phase \in Elsewhere
  BY <1>2, <1>3, <1>4, <1>5, <1>6, <1>7, WorkNext
<1> QED BY <1>1, <1>7, <1>t DEF Phases, Elsewhere

LEMMA ExtendInvStep ==
  ASSUME PoolInv, OrderInv, BranchInv, FetchInv, LinkInv, ExtendInv, Next,
         RootInv', FetchInv'
  PROVE  ExtendInv'
<1>i. TypeInv /\ AppliedOnce /\ Sound(head)
  BY DEF PoolInv, BranchInv
<1>t. new \in Blocks /\ head \in Blocks /\ phase \in Phases
  BY <1>i DEF TypeInv, SizeInv, TypeOK
<1>1. CASE phase \in {"idle", "restoring"}
  <2>1. CASE /\ phase' \in {"idle", "restoring"} /\ UNCHANGED <<head, store, forkvars>>
             /\ phase' = "restoring" => UNCHANGED callvars
    BY <2>1 DEF ExtendInv, LinkedTo, forkvars, callvars, Switching
  <2>2. ASSUME phase = "idle", UNCHANGED <<head, store>>,
               NEW b \in Blocks, ~is_known_block(b), Enter(b)
        PROVE  ExtendInv'
    BY <2>2, <1>i, EnterLink
  <2> QED BY <1>1, <2>1, <2>2, <1>i, ForkIdle
<1>2. ASSUME NEW m \in UndoSizes, push_direct(m) PROVE ExtendInv'
  <2>1. /\ phase = "direct" /\ phase' = "restoring" /\ new' = new /\ old' = old
        /\ Applies(new) => head' = new
    BY <1>2 DEF push_direct, Return, Apply
  <2>2. head = old.head
    BY <2>1 DEF BranchInv
  <2>3. ASSUME Previous(new) = old.head, Valid(new) PROVE Applies(new)
    <3>1. Sound(new) /\ Disjoint(new)
      BY <2>3 DEF Valid, Sound, Disjoint
    <3>2. /\ Len(new) = Len(head) + 1 /\ Len(new) \in 1 .. Len(new) /\ Len(head) \in Nat
          /\ head = Upto(new, Len(head))
      BY <2>2, <2>3, <1>t, ChildShape
    <3>3. Len(new) - 1 = Len(head) /\ Len(new) \in 0 .. Len(new) /\ 0 \in 0 .. Len(new)
      BY <3>2
    <3>4. Applies(Upto(new, Len(new)))
      BY <3>1, <3>2, <3>3, <1>i, <1>t, AppliesAgain
    <3>5. Upto(new, Len(new)) = new
      BY <3>3, <1>t, UptoUpto
    <3> QED BY <3>4, <3>5
  <2> QED BY <2>1, <2>3 DEF ExtendInv, Switching
<1>3. CASE phase \in Elsewhere \ {"direct"}
  <2>1. Previous(new) # old.head
    BY <1>3 DEF ExtendInv, Switching, Elsewhere
  <2>2. new' = new /\ old' = old
    <3>1. \A m \in UndoSizes : ~push_direct(m)
      BY <1>3 DEF push_direct
    <3>2. ASSUME NEW m \in UndoSizes, switch_push(m) PROVE new' = new /\ old' = old
      BY <3>2 DEF switch_push, Return, Goto
    <3>3. ASSUME NEW m \in UndoSizes, switch_reapply(m) PROVE new' = new /\ old' = old
      BY <3>3 DEF switch_reapply, Return
    <3>4. switch_pop => new' = new /\ old' = old
      BY DEF switch_pop, Return, Goto, callvars
    <3>5. switch_unwind => new' = new /\ old' = old
      BY DEF switch_unwind, Return, callvars
    <3> QED BY <1>3, <3>1, <3>2, <3>3, <3>4, <3>5, WorkNext
  <2> QED BY <2>1, <2>2 DEF ExtendInv
<1>4. CASE phase = "direct"
  <2>1. \E m \in UndoSizes : push_direct(m)
    BY <1>4, WorkNext DEF Elsewhere, switch_push, switch_reapply, switch_pop, switch_unwind
  <2> QED BY <2>1, <1>2
<1> QED BY <1>1, <1>3, <1>4, <1>t DEF Phases, Elsewhere

LEMMA LinkInvInit == Init => LinkInv /\ ExtendInv
<1> SUFFICES ASSUME Init PROVE LinkInv /\ ExtendInv
  OBVIOUS
<1>1. /\ phase = "idle" /\ index = {Root} /\ orphan = {} /\ loose = FALSE
      /\ head = Root /\ fhead = Root /\ Len(Root) = 0
  BY PreviousShape DEF Init
<1> QED BY <1>1 DEF LinkInv, ExtendInv, Explained, Switching

LEMMA LinkInvNext ==
  /\ ForkInv /\ StoreExact /\ DeltaLeft /\ FetchInv /\ LinkInv /\ [Next]_vars => LinkInv'
  /\ ForkInv /\ StoreExact /\ FetchInv /\ LinkInv /\ ExtendInv /\ [Next]_vars => ExtendInv'
<1>1. ASSUME ForkInv, StoreExact, FetchInv, Next
      PROVE  RootInv' /\ FetchInv' /\ PoolInv /\ OrderInv /\ BranchInv /\ RootInv
  BY <1>1, ForkInvNext DEF ForkInv
<1>2. ASSUME ForkInv, StoreExact, DeltaLeft, FetchInv, LinkInv, Next PROVE LinkInv'
  BY <1>1, <1>2, LinkInvStep
<1>3. ASSUME ForkInv, StoreExact, FetchInv, LinkInv, ExtendInv, Next PROVE ExtendInv'
  BY <1>1, <1>3, ExtendInvStep
<1>4. ASSUME UNCHANGED vars PROVE (LinkInv => LinkInv') /\ (ExtendInv => ExtendInv')
  BY <1>4 DEF LinkInv, ExtendInv, LinkedTo, ForkPoint, vars, chainvars, forkvars, callvars
<1> QED BY <1>2, <1>3, <1>4

\* As long as no pop_block of a fork switch runs out of deltas, a valid block that
\* extends the head is applied whenever every branch in the fork database is
\* linked to the chain: neither the head that a failed push or a switch leaves in
\* the fork database nor its pruning can keep the chain from growing.
THEOREM ExtensionIsApplied == Spec /\ []DeltaLeft => []ExtensionApplied
<1>1. ExtendInv => ExtensionApplied
  BY DEF ExtendInv, ExtensionApplied, Done
<1> QED BY <1>1, ForkInvInit, ForkInvNext, LinkInvInit, LinkInvNext, PTL DEF Spec

=============================================================================
