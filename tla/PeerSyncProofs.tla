---------------------------- MODULE PeerSyncProofs ----------------------------
(***************************************************************************)
(* Proofs about PeerSync: for any number of peers and blocks and any       *)
(* limits, blocks are handed to the chain in order, none is requested from *)
(* two peers at once, and synchronisation ends only when it is complete.   *)
(***************************************************************************)
EXTENDS Integers, PeerSync, SequenceTheorems, FiniteSetTheorems,
        NaturalsInduction, TLAPS

-----------------------------------------------------------------------------
(* Numbers.                                                                *)

(* Induction over the naturals is by a smallest counterexample.            *)
LEMMA SmallestOf ==
    ASSUME NEW B, B \subseteq Nat, B # {}
    PROVE  \E n \in B: \A m \in B: n <= m
<1>1. PICK n \in B: \A m \in B: ~ (<<m, n>> \in OpToRel(<, Nat))
  BY NatLessThanWellFounded, WFMin
<1>2. \A m \in B: ~ (m < n)
  BY <1>1 DEF OpToRel
<1> QED BY <1>2

LEMMA MinIn ==
    ASSUME NEW B, B \subseteq Nat, B # {}
    PROVE  Min(B) \in B /\ \A m \in B: Min(B) <= m
<1>1. \E n \in B: \A m \in B: n <= m
  BY SmallestOf
<1> QED BY <1>1 DEF Min

(* A set of naturals with a bound has a greatest element.                  *)
LEMMA MaxIn ==
    ASSUME NEW B, B \subseteq Nat, B # {}, NEW n \in Nat, \A m \in B: m <= n
    PROVE  Max(B) \in B /\ \A m \in B: Max(B) >= m
<1> DEFINE C == {n - m: m \in B}
<1>1. C \subseteq Nat /\ C # {}
  <2>1. \A m \in B: n - m \in Nat
    OBVIOUS
  <2> QED BY <2>1
<1>2. PICK c \in C: \A d \in C: c <= d
  <2> HIDE DEF C
  <2> QED BY <1>1, SmallestOf
<1>3. PICK b \in B: c = n - b
  OBVIOUS
<1>4. ASSUME NEW m \in B PROVE b >= m
  <2>1. n - m \in C
    OBVIOUS
  <2>2. n - b <= n - m
    BY <1>2, <1>3, <2>1
  <2> QED BY <2>2
<1> QED BY <1>4 DEF Max

LEMMA MinOfTwo ==
    ASSUME NEW a \in Nat, NEW b \in Nat
    PROVE  Min({a, b}) = IF a <= b THEN a ELSE b
<1>1. Min({a, b}) \in {a, b} /\ \A m \in {a, b}: Min({a, b}) <= m
  BY MinIn
<1> QED BY <1>1

LEMMA MaxOfTwo ==
    ASSUME NEW a \in Nat, NEW b \in Nat
    PROVE  Max({a, b}) = IF a >= b THEN a ELSE b
<1>1. \A m \in {a, b}: m <= a + b
  OBVIOUS
<1>2. Max({a, b}) \in {a, b} /\ \A m \in {a, b}: Max({a, b}) >= m
  BY <1>1, MaxIn
<1> QED BY <1>2

-----------------------------------------------------------------------------
(* Lists of consecutive numbers.                                           *)

Consecutive(s) == \A i \in 1..(Len(s) - 1): s[i + 1] = s[i] + 1

LEMMA ConsecutiveFrom ==
    ASSUME NEW S, S \subseteq Int, NEW s \in Seq(S), Consecutive(s), s # <<>>
    PROVE  /\ \A i \in 1..Len(s): s[i] = s[1] + i - 1
           /\ Len(s) \in Nat \ {0} /\ s[1] \in S /\ Head(s) = s[1]
           /\ Last(s) = s[Len(s)] /\ Last(s) \in S
<1>1. Len(s) \in Nat \ {0} /\ DOMAIN s = 1..Len(s) /\ Head(s) = s[1]
  BY EmptySeq, LenProperties
<1>2. \A i \in 1..Len(s): s[i] \in S
  BY ElementOfSeq
<1>3. s[1] \in S /\ s[Len(s)] \in S
  BY <1>1, <1>2
<1>5. s[1] \in Int
  BY <1>3
<1> DEFINE B == {i \in 1..Len(s): s[i] # s[1] + i - 1}
<1>4. ASSUME B # {} PROVE FALSE
  <2>1. B \subseteq Nat
    BY <1>1
  <2>2. PICK i \in B: \A j \in B: i <= j
    <3> HIDE DEF B
    <3> QED BY <1>4, <2>1, SmallestOf
  <2>3. i \in 1..Len(s) /\ s[i] # s[1] + i - 1 /\ i # 1 /\ i \in Int
    <3>1. i \in 1..Len(s) /\ s[i] # s[1] + i - 1
      OBVIOUS
    <3> HIDE DEF B
    <3> QED BY ONLY <3>1, <1>5
  <2>4. i - 1 \in 1..(Len(s) - 1) /\ i - 1 \in 1..Len(s) /\ (i - 1) + 1 = i
    BY <2>3, <1>1
  <2>5. s[i] = s[i - 1] + 1
    BY <2>4 DEF Consecutive
  <2>6. i - 1 \notin B
    BY <2>2, <2>3
  <2>7. s[i - 1] = s[1] + (i - 1) - 1
    BY <2>4, <2>6
  <2> QED BY ONLY <2>3, <2>5, <2>7, <1>5
<1> QED BY <1>1, <1>3, <1>4 DEF Last

(* The elements of such a list are the numbers between its ends.           *)
LEMMA ConsecutiveRange ==
    ASSUME NEW S, S \subseteq Int, NEW s \in Seq(S), Consecutive(s), s # <<>>
    PROVE  Range(s) = Head(s)..Last(s) /\ Head(s) <= Last(s)
<1>1. /\ \A i \in 1..Len(s): s[i] = s[1] + i - 1
      /\ Len(s) \in Nat \ {0} /\ s[1] \in Int /\ Head(s) = s[1]
      /\ Last(s) = s[Len(s)] /\ Last(s) \in Int
  BY ConsecutiveFrom
<1>2. DOMAIN s = 1..Len(s)
  BY LenProperties
<1>3. Last(s) = s[1] + Len(s) - 1
  BY <1>1
<1>4. ASSUME NEW i \in 1..Len(s) PROVE s[i] \in Head(s)..Last(s)
  <2>1. s[i] = s[1] + i - 1 /\ i \in Int /\ i <= Len(s) /\ 1 <= i
    BY <1>1
  <2> QED BY <2>1, <1>1, <1>3
<1>5. ASSUME NEW k \in Head(s)..Last(s) PROVE \E i \in 1..Len(s): s[i] = k
  <2>1. k - s[1] + 1 \in 1..Len(s)
    BY <1>1, <1>3
  <2>2. s[k - s[1] + 1] = s[1] + (k - s[1] + 1) - 1
    BY <1>1, <2>1
  <2>3. s[k - s[1] + 1] = k
    BY <1>1, <2>2
  <2> QED BY <2>1, <2>3
<1>6. Head(s) <= Last(s)
  BY <1>1, <1>3
<1> QED BY <1>2, <1>4, <1>5, <1>6 DEF Range

(* A list without its first element.                                       *)
LEMMA ConsecutiveTail ==
    ASSUME NEW S, S \subseteq Int, NEW s \in Seq(S), Consecutive(s), s # <<>>
    PROVE  /\ Tail(s) \in Seq(S) /\ Consecutive(Tail(s))
           /\ Range(s) = {Head(s)} \cup Range(Tail(s))
           /\ Tail(s) # <<>> => Head(Tail(s)) = Head(s) + 1 /\ Last(Tail(s)) = Last(s)
<1>1. /\ Tail(s) \in Seq(S) /\ Len(Tail(s)) = Len(s) - 1
      /\ \A i \in 1..Len(Tail(s)): Tail(s)[i] = s[i + 1]
  BY HeadTailProperties
<1>2. Len(s) \in Nat \ {0} /\ DOMAIN s = 1..Len(s) /\ Head(s) = s[1] /\ Len(Tail(s)) \in Nat
      /\ DOMAIN Tail(s) = 1..Len(Tail(s))
  BY <1>1, EmptySeq, LenProperties
<1>3. Consecutive(Tail(s))
  <2> SUFFICES ASSUME NEW i \in 1..(Len(Tail(s)) - 1)
               PROVE  Tail(s)[i + 1] = Tail(s)[i] + 1
    BY DEF Consecutive
  <2>1. i \in 1..Len(Tail(s)) /\ i + 1 \in 1..Len(Tail(s)) /\ i + 1 \in 1..(Len(s) - 1)
    BY <1>1, <1>2
  <2>2. s[(i + 1) + 1] = s[i + 1] + 1
    BY <2>1 DEF Consecutive
  <2> QED BY <2>1, <2>2, <1>1
<1>4. Range(s) = {Head(s)} \cup Range(Tail(s))
  <2>1. ASSUME NEW i \in 1..Len(s) PROVE s[i] \in {Head(s)} \cup Range(Tail(s))
    <3>1. CASE i = 1
      BY <3>1, <1>2
    <3>2. CASE i # 1
      <4>1. i - 1 \in 1..Len(Tail(s)) /\ (i - 1) + 1 = i
        BY <3>2, <1>1, <1>2
      <4>2. Tail(s)[i - 1] = s[i]
        BY <4>1, <1>1
      <4> QED BY <4>1, <4>2, <1>2 DEF Range
    <3> QED BY <3>1, <3>2
  <2>2. ASSUME NEW i \in 1..Len(Tail(s)) PROVE Tail(s)[i] \in Range(s)
    <3>1. i + 1 \in 1..Len(s)
      BY <1>1, <1>2
    <3> QED BY <3>1, <1>1, <1>2 DEF Range
  <2>3. Head(s) \in Range(s)
    <3>1. 1 \in 1..Len(s)
      BY <1>2
    <3> QED BY <3>1, <1>2 DEF Range
  <2> QED BY <2>1, <2>2, <2>3, <1>2 DEF Range
<1>5. ASSUME Tail(s) # <<>>
      PROVE  Head(Tail(s)) = Head(s) + 1 /\ Last(Tail(s)) = Last(s)
  <2>1. Len(Tail(s)) \in Nat \ {0} /\ Head(Tail(s)) = Tail(s)[1]
    BY <1>1, <1>5, EmptySeq
  <2>2. 1 \in 1..Len(Tail(s)) /\ Len(Tail(s)) \in 1..Len(Tail(s)) /\ 1 \in 1..(Len(s) - 1)
        /\ Len(Tail(s)) + 1 = Len(s)
    BY <2>1, <1>1, <1>2
  <2>3. Tail(s)[1] = s[1 + 1] /\ Tail(s)[Len(Tail(s))] = s[Len(s)]
    BY <2>2, <1>1
  <2>4. s[1 + 1] = s[1] + 1
    BY <2>2 DEF Consecutive
  <2> QED BY <2>1, <2>3, <2>4, <1>2 DEF Last
<1> QED BY <1>1, <1>3, <1>4, <1>5

-----------------------------------------------------------------------------
(* The synopsis.                                                           *)

(* The equation of the recursive function inside Halving, from a on.       *)
Halfway(n, high) == n + (high - n + 2) \div 2

IsHalving(f, a, high) ==
    f = [n \in a..high |->
           {n} \cup IF Halfway(n, high) <= high THEN f[Halfway(n, high)] ELSE {}]

LEMMA HalvingSteps ==
    ASSUME NEW n \in Nat, NEW high \in Nat, n <= high
    PROVE  /\ Halfway(n, high) \in Nat /\ n < Halfway(n, high)
           /\ n < high => Halfway(n, high) <= high
           /\ n = high => Halfway(n, high) = high + 1
  BY DEF Halfway

LEMMA HalvingExists ==
    ASSUME NEW low \in Nat, NEW high \in Nat, low <= high
    PROVE  \E f: IsHalving(f, low, high)
<1> DEFINE B == {m \in 0..high: ~ \E f: IsHalving(f, high - m, high)}
<1>1. ASSUME B # {} PROVE FALSE
  <2>1. B \subseteq Nat
    OBVIOUS
  <2>2. PICK m \in B: \A k \in B: m <= k
    <3> HIDE DEF B
    <3> QED BY <1>1, <2>1, SmallestOf
  <2>3. m \in 0..high /\ m \in Nat
    OBVIOUS
  <2>4. CASE m = 0
    <3> DEFINE f == [n \in high..high |-> {n}]
    <3>1. ASSUME NEW n \in high..high PROVE n = high /\ ~ (Halfway(n, high) <= high)
      BY HalvingSteps
    <3>2. IsHalving(f, high, high)
      BY <3>1 DEF IsHalving
    <3>3. high - m = high
      BY <2>4
    <3> QED BY <3>2, <3>3
  <2>5. CASE m # 0
    <3> DEFINE a == high - m
    <3>1. m - 1 \in 0..high /\ m - 1 \notin B /\ a \in Nat /\ a < high /\ high - (m - 1) = a + 1
      BY <2>2, <2>3, <2>5
    <3>2. PICK f: IsHalving(f, a + 1, high)
      BY <3>1
    <3> HIDE DEF a
    <3> DEFINE e == [n \in a..high |-> IF n = a THEN {a} \cup f[Halfway(a, high)] ELSE f[n]]
    <3>3. ASSUME NEW n \in a..high
          PROVE  e[n] = {n} \cup IF Halfway(n, high) <= high THEN e[Halfway(n, high)] ELSE {}
      <4>1. n \in Nat /\ n <= high
        BY <3>1
      <4>2. /\ Halfway(n, high) \in Nat /\ n < Halfway(n, high)
            /\ n < high => Halfway(n, high) <= high
        BY <4>1, HalvingSteps
      <4>3. Halfway(n, high) <= high => e[Halfway(n, high)] = f[Halfway(n, high)]
        BY <4>1, <4>2, <3>1
      <4>4. CASE n = a
        BY <4>2, <4>3, <4>4, <3>1
      <4>5. CASE n # a
        <5>1. n \in (a + 1)..high
          BY <4>5, <3>1
        <5>2. f[n] = {n} \cup IF Halfway(n, high) <= high THEN f[Halfway(n, high)] ELSE {}
          BY <5>1, <3>2 DEF IsHalving
        <5>3. e[n] = f[n]
          BY <4>5
        <5> HIDE DEF e
        <5> QED BY <4>3, <5>2, <5>3
      <4> QED BY <4>4, <4>5
    <3>4. e = [n \in a..high |-> e[n]]
      OBVIOUS
    <3>5. IsHalving(e, a, high)
      <4> HIDE DEF e
      <4> QED BY <3>3, <3>4 DEF IsHalving
    <3> QED BY <3>5 DEF a
  <2> QED BY <2>4, <2>5
<1>2. high - low \in 0..high /\ high - (high - low) = low
  OBVIOUS
<1>3. high - low \notin B
  BY <1>1
<1> QED BY <1>2, <1>3

(* The synopsis of a chain has numbers of it, its highest among them.      *)
LEMMA HalvingShape ==
    ASSUME NEW low \in Nat, NEW high \in Nat, low <= high
    PROVE  Halving(low, high) \subseteq low..high /\ high \in Halving(low, high)
<1> DEFINE f == CHOOSE f: IsHalving(f, low, high)
<1>1. IsHalving(f, low, high)
  BY HalvingExists
<1>2. Halving(low, high) = f[low]
  BY DEF Halving, IsHalving, Halfway
<1> HIDE DEF f
<1>3. \A n \in low..high:
        f[n] = {n} \cup IF Halfway(n, high) <= high THEN f[Halfway(n, high)] ELSE {}
  BY <1>1 DEF IsHalving
<1> DEFINE Good(n) == f[n] \subseteq n..high /\ high \in f[n]
           B == {m \in 0..(high - low): ~Good(high - m)}
<1>4. ASSUME B # {} PROVE FALSE
  <2>1. B \subseteq Nat
    OBVIOUS
  <2>2. PICK m \in B: \A k \in B: m <= k
    <3> HIDE DEF B
    <3> QED BY <1>4, <2>1, SmallestOf
  <2> DEFINE n == high - m
  <2>3. m \in 0..(high - low) /\ n \in low..high /\ n \in Nat /\ n <= high /\ high - m = n
    OBVIOUS
  <2>4. ~Good(n)
    BY <2>2
  <2> HIDE DEF n
  <2>5. /\ Halfway(n, high) \in Nat /\ n < Halfway(n, high)
        /\ n < high => Halfway(n, high) <= high
        /\ n = high => Halfway(n, high) = high + 1
    BY <2>3, HalvingSteps
  <2>6. f[n] = {n} \cup IF Halfway(n, high) <= high THEN f[Halfway(n, high)] ELSE {}
    BY <1>3, <2>3
  <2>7. CASE n = high
    <3>1. f[n] = {n}
      BY <2>5, <2>6, <2>7
    <3> QED BY <3>1, <2>4, <2>7
  <2>8. CASE n # high
    <3> DEFINE k == Halfway(n, high)
    <3>1. k \in Nat /\ n < k /\ k <= high
      BY <2>3, <2>5, <2>8
    <3> HIDE DEF k
    <3>2. high - k \in 0..(high - low) /\ high - k < m /\ high - (high - k) = k
      BY <2>3, <3>1
    <3>3. high - k \notin B
      BY <2>2, <3>2
    <3>4. Good(k)
      BY <3>2, <3>3
    <3>5. f[n] = {n} \cup f[k]
      BY <2>6, <3>1 DEF k
    <3>6. n \in n..high /\ \A j \in k..high: j \in n..high
      BY <2>3, <3>1
    <3> QED BY <2>4, <3>4, <3>5, <3>6
  <2> QED BY <2>7, <2>8
<1>5. high - low \in 0..(high - low) /\ high - (high - low) = low
  OBVIOUS
<1>6. Good(low)
  BY <1>4, <1>5
<1> QED BY <1>2, <1>6

-----------------------------------------------------------------------------
(* One connection.                                                         *)

(* The ids that a peer told are consecutive and on its chain, of which c   *)
(* is the head; the last of them is in the synopsis it was sent.           *)
Listed(r, c) == Consecutive(r.toget) /\ (r.toget # <<>> => Last(r.toget) <= c)
Covered(r) == r.toget # <<>> => \A s \in r.asked: Last(r.toget) \in s

(* G are the blocks that the chain has been given.  The peer's list begins *)
(* behind one of them, and what it was sent it can only continue from      *)
(* there or from its own list.                                             *)
Closed(G) == G \subseteq Nat /\ 0 \in G /\ \A k \in G: k # 0 => k - 1 \in G
Started(r, G) == (r.toget # <<>> => Head(r.toget) - 1 \in G) /\ r.last \in G
Asked(r, G) == \A s \in r.asked: s \subseteq G \cup Range(r.toget)

LEMMA ClosedBelow ==
    ASSUME NEW G, Closed(G), NEW k \in G, NEW j \in 0..k
    PROVE  j \in G
<1>1. k \in Nat
  BY DEF Closed
<1> DEFINE B == {m \in 0..k: k - m \notin G}
<1>2. ASSUME B # {} PROVE FALSE
  <2>1. B \subseteq Nat
    BY <1>1
  <2>2. PICK m \in B: \A i \in B: m <= i
    <3> HIDE DEF B
    <3> QED BY <1>2, <2>1, SmallestOf
  <2>3. m \in 0..k /\ k - m \notin G /\ m \in Nat
    BY <1>1
  <2>4. m # 0
    BY <2>3, <1>1
  <2>5. m - 1 \in 0..k /\ ~ (m <= m - 1)
    BY <2>3, <2>4, <1>1
  <2>6. k - (m - 1) \in G
    BY <2>2, <2>5
  <2>7. k - (m - 1) # 0 /\ (k - (m - 1)) - 1 = k - m
    BY <2>3, <2>4, <1>1
  <2> QED BY <2>3, <2>6, <2>7 DEF Closed
<1>3. k - j \in 0..k /\ k - (k - j) = j
  BY <1>1
<1>4. k - j \notin B
  BY <1>2
<1> QED BY <1>3, <1>4

LEMMA ConnectionFields ==
    ASSUME NEW r \in Connection
    PROVE  /\ r.state \in {"none", "active", "closing"} /\ r.toget \in Seq(Blocks)
           /\ r.being \subseteq Blocks /\ r.unfetched \in Nat /\ r.need \in BOOLEAN
           /\ r.needed \in BOOLEAN /\ r.asked \subseteq SUBSET Blocks
           /\ r.req \subseteq Blocks /\ r.last \in 0..MaxBlock
  BY DEF Connection

LEMMA BlocksAreNumbers ==
    MaxBlock \in Nat /\ Blocks \subseteq Int /\ Blocks \subseteq Nat /\ 1 \in Blocks
    /\ \A k \in Blocks: k >= 1 /\ k <= MaxBlock
  BY SyncAssumption DEF Blocks

LEMMA BlockIsNumber ==
    ASSUME NEW k \in Blocks
    PROVE  k \in Nat /\ k \in 0..MaxBlock /\ k >= 1 /\ k # 0 /\ k - 1 \in Nat
  BY SyncAssumption DEF Blocks

(* The synopsis names blocks, the last that the peer told among them, and  *)
(* none that is neither given to the chain nor on the peer's list.         *)
LEMMA SynopsisShape ==
    ASSUME NEW r \in Connection, NEW h \in 0..MaxBlock, Consecutive(r.toget)
    PROVE  /\ Synopsis(r, h) \subseteq Blocks
           /\ r.toget # <<>> => Last(r.toget) \in Synopsis(r, h)
           /\ \A G: Closed(G) /\ 0..h \subseteq G /\ r.last \in G =>
                      Synopsis(r, h) \subseteq G \cup Range(r.toget)
<1> DEFINE top == IF r.last = 0 THEN h ELSE r.last
           known == IF top = 0 THEN {}
                    ELSE {k \in Halving(1, top + Len(r.toget)): k <= top}
           told == IF r.toget = <<>> THEN {}
                   ELSE {k \in Halving(1, Last(r.toget)): k >= Head(r.toget)}
<1>1. Synopsis(r, h) = known \cup told
  BY DEF Synopsis
<1>2. /\ r.toget \in Seq(Blocks) /\ r.last \in 0..MaxBlock /\ Len(r.toget) \in Nat
      /\ MaxBlock \in Nat /\ top \in Nat /\ top <= MaxBlock
  <2>1. r.toget \in Seq(Blocks) /\ r.last \in 0..MaxBlock
    BY ConnectionFields
  <2>2. Len(r.toget) \in Nat
    BY <2>1, LenProperties
  <2> QED BY <2>1, <2>2, BlocksAreNumbers
<1>3. known \subseteq Blocks /\ \A k \in known: k \in 0..top
  <2>1. CASE top = 0
    BY <2>1
  <2>2. CASE top # 0
    <3>1. top + Len(r.toget) \in Nat /\ 1 <= top + Len(r.toget)
      BY <1>2, <2>2
    <3> HIDE DEF top
    <3>2. Halving(1, top + Len(r.toget)) \subseteq 1..(top + Len(r.toget))
      BY <3>1, HalvingShape
    <3>3. ASSUME NEW k \in known PROVE k \in 1..MaxBlock /\ k \in 0..top
      <4>1. k \in 1..(top + Len(r.toget)) /\ k <= top
        BY <2>2, <3>2
      <4> HIDE DEF known
      <4> QED BY <4>1, <1>2
    <3> QED BY <3>3 DEF Blocks
  <2> QED BY <2>1, <2>2
<1>4. ASSUME r.toget # <<>>
      PROVE  told \subseteq Range(r.toget) /\ told \subseteq Blocks /\ Last(r.toget) \in told
  <2>1. Range(r.toget) = Head(r.toget)..Last(r.toget) /\ Head(r.toget) <= Last(r.toget)
    BY <1>2, <1>4, ConsecutiveRange, BlocksAreNumbers
  <2>2. Last(r.toget) \in Blocks /\ Head(r.toget) \in Blocks
    BY <1>2, <1>4, ConsecutiveFrom, BlocksAreNumbers
  <2>3. Last(r.toget) \in Nat /\ 1 <= Last(r.toget) /\ Head(r.toget) \in Nat
        /\ 1 <= Head(r.toget) /\ Last(r.toget) <= MaxBlock
    BY <2>2, BlocksAreNumbers
  <2>4. Halving(1, Last(r.toget)) \subseteq 1..Last(r.toget)
        /\ Last(r.toget) \in Halving(1, Last(r.toget))
    BY <2>3, HalvingShape
  <2>5. told = {k \in Halving(1, Last(r.toget)): k >= Head(r.toget)}
    BY <1>4
  <2>6. ASSUME NEW k \in told
        PROVE  k \in Head(r.toget)..Last(r.toget) /\ k \in 1..MaxBlock
    <3>1. k \in 1..Last(r.toget) /\ k >= Head(r.toget)
      BY <2>4, <2>5
    <3> HIDE DEF told
    <3> QED BY ONLY <3>1, <2>3, BlocksAreNumbers
  <2>7. Last(r.toget) \in told
    BY <2>1, <2>3, <2>4, <2>5
  <2> HIDE DEF told
  <2> QED BY <2>1, <2>6, <2>7 DEF Blocks
<1>5. r.toget = <<>> => told = {}
  OBVIOUS
<1>6. ASSUME NEW G, Closed(G), 0..h \subseteq G, r.last \in G PROVE known \subseteq G
  <2>1. top \in G
    <3>1. h \in 0..h
      BY <1>2
    <3> QED BY <1>6, <3>1
  <2> HIDE DEF top, known
  <2> QED BY <2>1, <1>3, <1>6, ClosedBelow
<1> HIDE DEF known, told
<1> QED BY <1>1, <1>3, <1>4, <1>5, <1>6

LEMMA AskShape ==
    ASSUME NEW r \in Connection, NEW h \in 0..MaxBlock, Consecutive(r.toget),
           NEW q, q = fetch_next_batch(r, h)
    PROVE  /\ q \in Connection /\ q.toget = r.toget /\ q.last = r.last /\ q.req = r.req
           /\ q.state = r.state /\ q.need = r.need /\ q.being = r.being
           /\ Covered(q)
           /\ \A G: Closed(G) /\ 0..h \subseteq G /\ r.last \in G => Asked(q, G)
<1> DEFINE s == Synopsis(r, h)
<1>1. /\ s \subseteq Blocks
      /\ r.toget # <<>> => Last(r.toget) \in s
      /\ \A G: Closed(G) /\ 0..h \subseteq G /\ r.last \in G =>
                      s \subseteq G \cup Range(r.toget)
  BY SynopsisShape
<1>2. q = [r EXCEPT !.asked = {s}]
  BY DEF fetch_next_batch
<1> HIDE DEF s
<1>3. /\ q \in Connection /\ q.toget = r.toget /\ q.last = r.last /\ q.req = r.req
      /\ q.state = r.state /\ q.need = r.need /\ q.being = r.being /\ q.asked = {s}
  BY <1>1, <1>2 DEF Connection
<1> QED BY <1>1, <1>3 DEF Covered, Asked

(* After start_synchronizing the peer's list is empty.                     *)
LEMMA StartShape ==
    ASSUME NEW r \in Connection, NEW h \in 0..MaxBlock, NEW q, q = start_synchronizing(r, h)
    PROVE  /\ q \in Connection /\ q.toget = <<>> /\ q.last = 0 /\ q.req = r.req
           /\ q.state = r.state /\ q.need = TRUE /\ q.being = r.being
           /\ \A G: Closed(G) /\ 0..h \subseteq G => Asked(q, G)
<1> DEFINE e == [r EXCEPT !.toget = <<>>, !.unfetched = 0, !.need = TRUE, !.last = 0]
<1>0. <<>> \in Seq(Blocks) /\ Len(<<>>) = 0 /\ 0 \in 0..MaxBlock
  BY EmptySeq, BlocksAreNumbers
<1>1. /\ e \in Connection /\ e.toget = <<>> /\ e.last = 0 /\ e.req = r.req
      /\ e.state = r.state /\ e.need = TRUE /\ e.being = r.being
  BY <1>0 DEF Connection
<1>2. q = fetch_next_batch(e, h)
  BY DEF start_synchronizing
<1> HIDE DEF e
<1>3. Consecutive(e.toget)
  BY <1>0, <1>1 DEF Consecutive
<1>4. /\ q \in Connection /\ q.toget = e.toget /\ q.last = e.last /\ q.req = e.req
      /\ q.state = e.state /\ q.need = e.need /\ q.being = e.being
      /\ \A G: Closed(G) /\ 0..h \subseteq G /\ e.last \in G => Asked(q, G)
  BY <1>1, <1>2, <1>3, AskShape
<1>5. \A G: Closed(G) => 0 \in G
  BY DEF Closed
<1> QED BY <1>1, <1>4, <1>5

(* What a peer answers: consecutive blocks of its chain, up to its head or *)
(* as many as fit, from a block of the synopsis on, or from the first.     *)
IsAnswer(ids, c, s) ==
    /\ ids \in Seq(Blocks) /\ Consecutive(ids)
    /\ ids = <<>> => c = 0
    /\ ids # <<>> => /\ Last(ids) <= c
                     /\ Head(ids) \in s \/ Head(ids) = 1
                     /\ \A k \in s: k <= c => Head(ids) \in s /\ k <= Head(ids)

LEMMA BlockIdsShape ==
    ASSUME NEW p \in Peers, chain[p] \in 0..MaxBlock, NEW s, s \subseteq Blocks
    PROVE  IsAnswer(BlockIds(p, s), chain[p], s)
<1> DEFINE c == chain[p]
           C == {1} \cup {k \in s: k <= c}
           first == Max(C)
           last == Min({c, first + Limit - 1})
           n == last + 1 - first
           ids == BlockIds(p, s)
<1>1. c \in Nat /\ c <= MaxBlock /\ MaxBlock \in Nat \ {0} /\ Limit \in Nat \ {0, 1}
  BY SyncAssumption
<1> HIDE DEF c
<1>2. first \in C /\ \A m \in C: first >= m
  <2>1. C \subseteq Nat /\ C # {}
    BY BlocksAreNumbers
  <2>2. \A m \in C: m <= MaxBlock
    BY <1>1, BlocksAreNumbers
  <2> HIDE DEF C
  <2> QED BY <2>1, <2>2, <1>1, MaxIn
<1>3. /\ first \in Nat /\ 1 <= first /\ first <= MaxBlock
      /\ first = 1 \/ (first \in s /\ first <= c)
      /\ \A k \in s: k <= c => k <= first
  <2>1. 1 \in C /\ first \in Nat /\ first <= MaxBlock
    BY <1>1, <1>2, BlocksAreNumbers
  <2>2. \A k \in s: k <= c => k \in C /\ k \in Nat
    BY BlocksAreNumbers
  <2>3. first = 1 \/ (first \in s /\ first <= c)
    BY <1>2
  <2>4. \A k \in s: k <= c => k <= first
    <3> HIDE DEF first
    <3> QED BY <2>1, <2>2, <1>2
  <2> HIDE DEF first
  <2> QED BY <2>1, <2>3, <2>4, <1>2
<1> HIDE DEF C, first
<1>4. last = IF c <= first + Limit - 1 THEN c ELSE first + Limit - 1
  <2>1. first + Limit - 1 \in Nat
    BY <1>1, <1>3
  <2> QED BY <2>1, <1>1, MinOfTwo
<1>5. ids = [i \in 1..n |-> first + i - 1]
  BY DEF BlockIds, first, C, c
<1> HIDE DEF last, ids
<1>6. c = 0 => n = 0
  BY <1>1, <1>3, <1>4
<1>7. c # 0 => n \in Nat \ {0} /\ first + n - 1 = last /\ last <= c
  BY <1>1, <1>3, <1>4
<1>8. n \in Nat /\ \A i \in 1..n: first + i - 1 \in Blocks
  <2>1. n \in Nat
    BY <1>1, <1>6, <1>7
  <2>2. ASSUME NEW i \in 1..n PROVE first + i - 1 \in 1..MaxBlock
    BY <2>1, <1>1, <1>3, <1>6, <1>7
  <2> QED BY <2>1, <2>2 DEF Blocks
<1> HIDE DEF n
<1>9. ids \in [1..n -> Blocks] /\ ids \in Seq(Blocks) /\ Len(ids) = n
  BY <1>5, <1>8
<1>10. Consecutive(ids)
  <2> SUFFICES ASSUME NEW i \in 1..(n - 1) PROVE ids[i + 1] = ids[i] + 1
    BY <1>9 DEF Consecutive
  <2>1. i \in 1..n /\ i + 1 \in 1..n
    BY <1>8
  <2>2. ids[i] = first + i - 1 /\ ids[i + 1] = first + (i + 1) - 1
    BY <2>1, <1>5
  <2> QED BY <2>2, <1>3
<1>11. ids = <<>> => c = 0
  BY <1>7, <1>9, EmptySeq
<1>12. ASSUME ids # <<>> PROVE Head(ids) = first /\ Last(ids) <= c /\ c # 0
  <2>1. n \in Nat \ {0}
    BY <1>9, <1>12, EmptySeq
  <2>2. c # 0
    BY <2>1, <1>6
  <2>3. 1 \in 1..n /\ n \in 1..n
    BY <2>1
  <2>4. ids[1] = first + 1 - 1 /\ ids[n] = first + n - 1
    BY <2>3, <1>5
  <2>5. Head(ids) = ids[1] /\ Last(ids) = ids[n]
    BY <1>9 DEF Last
  <2> QED BY <2>2, <2>4, <2>5, <1>3, <1>7
<1>13. ASSUME NEW k \in s, k <= c PROVE first \in s /\ k <= first
  <2>1. k <= first /\ k >= 1 /\ k \in Nat
    BY <1>3, <1>13, BlocksAreNumbers
  <2> QED BY <2>1, <1>3, <1>13
<1> QED BY <1>3, <1>9, <1>10, <1>11, <1>12, <1>13 DEF IsAnswer, ids, c

LEMMA DropShape ==
    ASSUME NEW s \in Seq(Blocks), Consecutive(s), NEW n \in 0..Len(s),
           NEW q, q = SubSeq(s, n + 1, Len(s))
    PROVE  /\ q \in Seq(Blocks) /\ Consecutive(q)
           /\ q # <<>> => n + 1 \in 1..Len(s) /\ Head(q) = s[n + 1] /\ Last(q) = Last(s)
<1>1. Len(s) \in Nat /\ n \in Nat /\ \A i \in 1..Len(s): s[i] \in Blocks
  BY LenProperties, ElementOfSeq
<1>2. \A i \in (n + 1)..Len(s): s[i] \in Blocks
  BY <1>1
<1>3. /\ q \in Seq(Blocks)
      /\ Len(q) = IF n + 1 <= Len(s) THEN Len(s) - (n + 1) + 1 ELSE 0
      /\ \A i \in 1..(Len(s) - (n + 1) + 1): q[i] = s[(n + 1) + i - 1]
  BY <1>1, <1>2, SubSeqProperties
<1>4. Len(q) = Len(s) - n
  BY <1>1, <1>3
<1>5. ASSUME NEW i \in 1..Len(q) PROVE q[i] = s[n + i] /\ n + i \in 1..Len(s)
  <2>1. i \in 1..(Len(s) - (n + 1) + 1) /\ (n + 1) + i - 1 = n + i /\ n + i \in 1..Len(s)
    BY <1>1, <1>4
  <2> QED BY <2>1, <1>3
<1>6. Consecutive(q)
  <2> SUFFICES ASSUME NEW i \in 1..(Len(q) - 1) PROVE q[i + 1] = q[i] + 1
    BY DEF Consecutive
  <2>1. i \in 1..Len(q) /\ i + 1 \in 1..Len(q) /\ n + i \in 1..(Len(s) - 1)
        /\ n + (i + 1) = (n + i) + 1
    BY <1>1, <1>4
  <2>2. s[(n + i) + 1] = s[n + i] + 1
    BY <2>1 DEF Consecutive
  <2> QED BY <2>1, <2>2, <1>5
<1>7. ASSUME q # <<>>
      PROVE  n + 1 \in 1..Len(s) /\ Head(q) = s[n + 1] /\ Last(q) = Last(s)
  <2>1. Len(q) \in Nat \ {0} /\ Head(q) = q[1]
    BY <1>3, <1>7, EmptySeq
  <2>2. 1 \in 1..Len(q) /\ Len(q) \in 1..Len(q) /\ n + Len(q) = Len(s)
    BY <2>1, <1>1, <1>4
  <2> QED BY <2>1, <2>2, <1>5 DEF Last
<1> QED BY <1>3, <1>6, <1>7

(* The front of a list, continued by another.                              *)
Joined(s, k, t) == SubSeq(s, 1, k - 1) \o t

LEMMA JoinShape ==
    ASSUME NEW s \in Seq(Blocks), Consecutive(s), NEW t \in Seq(Blocks), Consecutive(t),
           t # <<>>, NEW k \in 1..Len(s), s[k] = Head(t),
           NEW q, q = Joined(s, k, t)
    PROVE  /\ q \in Seq(Blocks) /\ Consecutive(q)
           /\ q # <<>> /\ Head(q) = Head(s) /\ Last(q) = Last(t)
<1> DEFINE u == SubSeq(s, 1, k - 1)
<1>1. Len(s) \in Nat /\ k \in Nat \ {0} /\ \A i \in 1..Len(s): s[i] \in Blocks
  BY LenProperties, ElementOfSeq
<1>2. \A i \in 1..(k - 1): s[i] \in Blocks
  BY <1>1
<1>3. /\ u \in Seq(Blocks)
      /\ Len(u) = IF 1 <= k - 1 THEN (k - 1) - 1 + 1 ELSE 0
      /\ \A i \in 1..((k - 1) - 1 + 1): u[i] = s[1 + i - 1]
  BY <1>1, <1>2, SubSeqProperties
<1>4. Len(u) = k - 1 /\ \A i \in 1..(k - 1): u[i] = s[i]
  <2>1. \A i \in 1..(k - 1): i \in 1..((k - 1) - 1 + 1) /\ 1 + i - 1 = i
    BY <1>1
  <2> QED BY <2>1, <1>1, <1>3
<1>5. Len(t) \in Nat \ {0} /\ Head(t) = t[1]
  BY EmptySeq
<1> HIDE DEF u
<1>6. /\ q \in Seq(Blocks) /\ Len(q) = Len(u) + Len(t)
      /\ \A i \in 1..(Len(u) + Len(t)): q[i] = IF i <= Len(u) THEN u[i] ELSE t[i - Len(u)]
  BY <1>3, ConcatProperties DEF u, Joined
<1>7. Len(q) = k - 1 + Len(t) /\ Len(q) \in Nat \ {0}
  BY <1>1, <1>4, <1>5, <1>6
<1>8. ASSUME NEW i \in 1..Len(q), i < k PROVE q[i] = s[i] /\ i \in 1..Len(s)
  <2>1. i \in 1..(Len(u) + Len(t)) /\ i <= Len(u) /\ i \in 1..(k - 1) /\ i \in 1..Len(s)
    BY <1>1, <1>4, <1>6, <1>8
  <2> QED BY <2>1, <1>4, <1>6
<1>9. ASSUME NEW i \in 1..Len(q), k <= i PROVE q[i] = t[i - k + 1] /\ i - k + 1 \in 1..Len(t)
  <2>1. i \in 1..(Len(u) + Len(t)) /\ ~ (i <= Len(u)) /\ i - Len(u) = i - k + 1
        /\ i - k + 1 \in 1..Len(t)
    BY <1>1, <1>4, <1>5, <1>6, <1>7, <1>9
  <2> QED BY <2>1, <1>6
<1>10. q[k] = s[k] /\ k \in 1..Len(q)
  <2>1. k \in 1..Len(q) /\ k <= k /\ k - k + 1 = 1
    BY <1>1, <1>5, <1>7
  <2> QED BY <2>1, <1>5, <1>9
<1>11. Consecutive(q)
  <2> SUFFICES ASSUME NEW i \in 1..(Len(q) - 1) PROVE q[i + 1] = q[i] + 1
    BY DEF Consecutive
  <2>1. i \in 1..Len(q) /\ i + 1 \in 1..Len(q) /\ i \in Nat
    BY <1>7
  <2>2. CASE i < k
    <3>1. i \in 1..(Len(s) - 1)
      BY <2>1, <2>2, <1>1
    <3>2. s[i + 1] = s[i] + 1
      BY <3>1 DEF Consecutive
    <3>3. q[i] = s[i]
      BY <2>1, <2>2, <1>8
    <3>4. q[i + 1] = s[i + 1]
      <4>1. CASE i + 1 = k
        BY <4>1, <1>10
      <4>2. CASE i + 1 # k
        <5>1. i + 1 < k
          BY <4>2, <2>1, <2>2, <1>1
        <5> QED BY <5>1, <2>1, <1>8
      <4> QED BY <4>1, <4>2
    <3> QED BY <3>2, <3>3, <3>4
  <2>3. CASE ~ (i < k)
    <3>1. k <= i /\ k <= i + 1 /\ (i + 1) - k + 1 = (i - k + 1) + 1
      BY <2>1, <2>3, <1>1
    <3>2. q[i] = t[i - k + 1] /\ q[i + 1] = t[(i - k + 1) + 1]
          /\ (i - k + 1) + 1 \in 1..Len(t) /\ i - k + 1 \in 1..Len(t)
      BY <2>1, <3>1, <1>9
    <3>3. i - k + 1 \in 1..(Len(t) - 1)
      BY <3>2, <1>5
    <3>4. t[(i - k + 1) + 1] = t[i - k + 1] + 1
      BY <3>3 DEF Consecutive
    <3> QED BY <3>2, <3>4
  <2> QED BY <2>2, <2>3
<1>12. q # <<>> /\ Head(q) = q[1]
  BY <1>6, <1>7, EmptySeq
<1>13. Head(q) = Head(s)
  <2>1. s # <<>> /\ Head(s) = s[1]
    <3>1. Len(s) # 0
      BY <1>1
    <3> QED BY <3>1, EmptySeq
  <2>2. CASE k = 1
    BY <2>1, <2>2, <1>10, <1>12
  <2>3. CASE k # 1
    <3>1. 1 \in 1..Len(q) /\ 1 < k
      BY <2>3, <1>1, <1>7
    <3>2. q[1] = s[1]
      BY <3>1, <1>8
    <3> QED BY <3>2, <2>1, <1>12
  <2> QED BY <2>2, <2>3
<1>14. Last(q) = Last(t)
  <2>1. Len(q) \in 1..Len(q) /\ k <= Len(q) /\ Len(q) - k + 1 = Len(t)
    BY <1>1, <1>5, <1>7
  <2>2. q[Len(q)] = t[Len(t)]
    BY <2>1, <1>9
  <2> QED BY <2>2 DEF Last
<1> QED BY <1>6, <1>11, <1>12, <1>13, <1>14

(* A connection with another list.                                         *)
Relisted(r, t, l) == [r EXCEPT !.toget = t, !.last = l]

LEMMA RelistedShape ==
    ASSUME NEW r \in Connection, NEW t \in Seq(Blocks), NEW l \in 0..MaxBlock
    PROVE  /\ Relisted(r, t, l) \in Connection
           /\ Relisted(r, t, l).toget = t /\ Relisted(r, t, l).last = l
           /\ Relisted(r, t, l).req = r.req /\ Relisted(r, t, l).state = r.state
           /\ Relisted(r, t, l).need = r.need
  BY DEF Connection, Relisted

LEMMA RelistedOnly ==
    ASSUME NEW r \in Connection, NEW t
    PROVE  [r EXCEPT !.toget = t] = Relisted(r, t, r.last)
  BY DEF Connection, Relisted

(* The peer's list after its answer: it is still consecutive and on the    *)
(* peer's chain, and still begins behind a block given to the chain.       *)
LEMMA ExtendedShape ==
    ASSUME NEW p \in Peers, peer \in [Peers -> Connection], height \in 0..MaxBlock,
           NEW c \in 0..MaxBlock, Listed(peer[p], c), Covered(peer[p]),
           NEW s \in peer[p].asked, NEW ids, IsAnswer(ids, c, s),
           NEW e, e = Extended(p, ids), NEW G
    PROVE  /\ e \in Connection /\ Listed(e, c)
           /\ e.req = peer[p].req /\ e.state = peer[p].state /\ e.need = peer[p].need
           /\ Closed(G) /\ 0..height \subseteq G /\ Asked(peer[p], G)
                /\ (\A q \in Peers: Started(peer[q], G)) => Started(e, G)
<1> DEFINE r == peer[p]
           other == \E q \in Peers \ {p}: /\ Active(q) /\ peer[q].toget # <<>>
                                          /\ Head(peer[q].toget) = Head(ids)
           seen == Max({0} \cup {n \in DOMAIN ids: \A i \in 1..n: has_item(ids[i])})
           at == Max({0} \cup {n \in DOMAIN r.toget: r.toget[n] = Head(ids)})
           Keeps(x) == /\ x \in Connection /\ Listed(x, c)
                       /\ x.req = r.req /\ x.state = r.state /\ x.need = r.need
           Given == /\ Closed(G) /\ 0..height \subseteq G /\ Asked(r, G)
                    /\ \A q \in Peers: Started(peer[q], G)
<1>0. /\ r \in Connection /\ r.toget \in Seq(Blocks) /\ r.last \in 0..MaxBlock
      /\ ids \in Seq(Blocks) /\ Consecutive(ids) /\ Consecutive(r.toget)
      /\ MaxBlock \in Nat /\ height \in Nat
  <2>1. r \in Connection
    OBVIOUS
  <2> QED BY <2>1, ConnectionFields, BlocksAreNumbers DEF IsAnswer, Listed
<1>1. Len(ids) \in Nat /\ DOMAIN ids = 1..Len(ids) /\ \A i \in 1..Len(ids): ids[i] \in Blocks
  BY <1>0, LenProperties, ElementOfSeq
<1>2. Len(r.toget) \in Nat /\ DOMAIN r.toget = 1..Len(r.toget)
  BY <1>0, LenProperties
<1>3. ASSUME ids # <<>> PROVE Head(ids) = ids[1] /\ Head(ids) \in Blocks
                              /\ Len(ids) \in Nat \ {0} /\ Last(ids) <= c
  BY <1>0, <1>3, EmptySeq, HeadTailProperties DEF IsAnswer
<1>x. e = CASE ids = <<>> -> r
         [] ids # <<>> /\ r.toget = <<>> /\ other -> [r EXCEPT !.toget = ids]
         [] ids # <<>> /\ r.toget = <<>> /\ ~other ->
              [r EXCEPT !.toget = SubSeq(ids, seen + 1, Len(ids)),
                        !.last = IF seen = 0 THEN @ ELSE ids[seen]]
         [] ids # <<>> /\ r.toget # <<>> /\ at = 0 ->
              [r EXCEPT !.toget = Tail(ids), !.last = Head(ids)]
         [] ids # <<>> /\ r.toget # <<>> /\ at # 0 ->
              [r EXCEPT !.toget = SubSeq(@, 1, at - 1) \o ids]
  BY DEF Extended
<1>y. ASSUME NEW t \in Seq(Blocks), NEW l \in 0..MaxBlock,
             Consecutive(t), t # <<>> => Last(t) <= c, e = Relisted(r, t, l)
      PROVE  Keeps(e) /\ e.toget = t /\ e.last = l
  <2>1. /\ e \in Connection /\ e.toget = t /\ e.last = l
        /\ e.req = r.req /\ e.state = r.state /\ e.need = r.need
    <3>1. r \in Connection /\ t \in Seq(Blocks) /\ l \in 0..MaxBlock
      BY <1>0
    <3>2. e = Relisted(r, t, l)
      BY <1>y
    <3> HIDE DEF r
    <3> QED BY ONLY <3>1, <3>2, RelistedShape
  <2> QED BY <2>1, <1>y DEF Listed
<1>w. ASSUME Given
      PROVE  0 \in G /\ Closed(G) /\ 0..height \subseteq G /\ Started(r, G)
             /\ (\A q \in Peers: Started(peer[q], G)) /\ \A k \in s: k \in G \/ k \in Range(r.toget)
  BY <1>w DEF Asked, Closed
<1>v. SUFFICES Keeps(e) /\ (Given => Started(e, G))
  OBVIOUS
<1> HIDE DEF other, seen, at, Given, Keeps
<1>4. CASE ids = <<>>
  <2>1. e = r
    BY <1>x, <1>4
  <2>2. Keeps(r)
    BY <1>0 DEF Keeps
  <2> QED BY <2>1, <2>2, <1>w
<1>5. CASE ids # <<>> /\ r.toget = <<>> /\ other
  <2>1. e = Relisted(r, ids, r.last)
    BY <1>x, <1>0, <1>5, RelistedOnly
  <2>2. Keeps(e) /\ e.toget = ids /\ e.last = r.last
    BY <2>1, <1>0, <1>3, <1>5, <1>y
  <2>3. ASSUME Given PROVE Started(e, G)
    <3>1. PICK q \in Peers: peer[q].toget # <<>> /\ Head(peer[q].toget) = Head(ids)
      BY <1>5 DEF other
    <3>2. Started(peer[q], G) /\ Started(r, G)
      BY <2>3, <1>w
    <3>3. Head(ids) - 1 \in G /\ r.last \in G
      BY <3>1, <3>2 DEF Started
    <3> QED BY <3>3, <2>2 DEF Started
  <2> QED BY <2>2, <2>3
<1>6. CASE ids # <<>> /\ r.toget = <<>> /\ ~other
  <2>1. /\ seen \in 0..Len(ids)
        /\ seen # 0 => ids[seen] \in Blocks /\ ids[seen] <= height
    <3> DEFINE S == {0} \cup {n \in DOMAIN ids: \A i \in 1..n: has_item(ids[i])}
    <3>1. S \subseteq Nat /\ S # {} /\ \A m \in S: m <= Len(ids)
      BY <1>1
    <3>2. Max(S) \in S
      <4> HIDE DEF S
      <4> QED BY <3>1, <1>1, MaxIn
    <3>3. seen \in S
      BY <3>2 DEF seen
    <3>4. seen # 0 => seen \in 1..Len(ids) /\ seen \in 1..seen /\ has_item(ids[seen])
      BY <3>3, <1>1
    <3>5. seen \in 0..Len(ids)
      BY <3>3, <1>1
    <3> QED BY <3>4, <3>5, <1>1 DEF has_item
  <2> DEFINE t == SubSeq(ids, seen + 1, Len(ids))
             l == IF seen = 0 THEN r.last ELSE ids[seen]
  <2>2. e = Relisted(r, t, l)
    BY <1>x, <1>6 DEF Relisted
  <2>3. /\ t \in Seq(Blocks) /\ Consecutive(t)
        /\ t # <<>> => seen + 1 \in 1..Len(ids) /\ Head(t) = ids[seen + 1] /\ Last(t) = Last(ids)
    BY <2>1, <1>0, DropShape
  <2>4. l \in 0..MaxBlock
    BY <2>1, <1>0, BlockIsNumber
  <2> HIDE DEF t, l
  <2>5. Keeps(e) /\ e.toget = t /\ e.last = l
    BY <2>2, <2>3, <2>4, <1>3, <1>6, <1>y
  <2>6. ASSUME Given PROVE Started(e, G)
    <3>1. 0 \in G /\ Started(r, G) /\ Range(r.toget) = {} /\ Closed(G)
      BY <2>6, <1>w, <1>6 DEF Range
    <3>2. l \in G
      <4>1. CASE seen = 0
        BY <4>1, <3>1 DEF l, Started
      <4>2. CASE seen # 0
        <5>1. ids[seen] \in 0..height
          BY <4>2, <2>1, <1>0, BlockIsNumber
        <5> QED BY <5>1, <4>2, <2>6, <1>w DEF l
      <4> QED BY <4>1, <4>2
    <3>3. ASSUME t # <<>> PROVE Head(t) - 1 \in G
      <4>1. CASE seen = 0
        <5>1. Head(t) = Head(ids)
          BY <4>1, <3>3, <2>3, <1>3, <1>6
        <5>2. Head(ids) \in s \/ Head(ids) = 1
          BY <1>6 DEF IsAnswer
        <5>3. CASE Head(ids) = 1
          BY <5>1, <5>3, <3>1
        <5>4. CASE Head(ids) \in s
          <6>1. Head(ids) \in G
            BY <5>4, <3>1, <2>6, <1>w
          <6>2. Head(ids) # 0
            BY <1>3, <1>6, BlocksAreNumbers
          <6> QED BY <5>1, <6>1, <6>2, <3>1 DEF Closed
        <5> QED BY <5>2, <5>3, <5>4
      <4>2. CASE seen # 0
        <5>1. seen \in 1..(Len(ids) - 1)
          BY <4>2, <3>3, <2>1, <2>3, <1>1
        <5>2. ids[seen + 1] = ids[seen] + 1 /\ ids[seen] \in Nat
          BY <5>1, <2>1, <4>2, <1>0, BlocksAreNumbers DEF Consecutive
        <5>3. Head(t) - 1 = ids[seen]
          BY <5>2, <2>3, <3>3
        <5> QED BY <5>3, <3>2, <4>2 DEF l
      <4> QED BY <4>1, <4>2
    <3> QED BY <3>2, <3>3, <2>5 DEF Started
  <2> QED BY <2>5, <2>6
<1>7. ASSUME r.toget # <<>>
      PROVE  IF at = 0 THEN Head(ids) \notin Range(r.toget)
                       ELSE at \in 1..Len(r.toget) /\ r.toget[at] = Head(ids)
  <2> DEFINE S == {0} \cup {n \in DOMAIN r.toget: r.toget[n] = Head(ids)}
  <2>1. S \subseteq Nat /\ S # {} /\ \A m \in S: m <= Len(r.toget)
    BY <1>2
  <2>2. Max(S) \in S /\ \A m \in S: Max(S) >= m
    <3> HIDE DEF S
    <3> QED BY <2>1, <1>2, MaxIn
  <2>3. at \in S /\ \A m \in S: at >= m
    BY <2>2 DEF at
  <2>4. CASE at = 0
    <3>1. \A n \in DOMAIN r.toget: n \in Nat /\ n >= 1
      BY <1>2
    <3>2. \A n \in DOMAIN r.toget: r.toget[n] # Head(ids)
      BY <3>1, <2>3, <2>4
    <3> QED BY <3>2, <2>4 DEF Range
  <2>5. CASE at # 0
    BY <2>3, <2>5, <1>2
  <2> QED BY <2>4, <2>5
<1>8. CASE ids # <<>> /\ r.toget # <<>> /\ at = 0
  <2>1. e = Relisted(r, Tail(ids), Head(ids))
    BY <1>x, <1>8 DEF Relisted
  <2>2. /\ Tail(ids) \in Seq(Blocks) /\ Consecutive(Tail(ids))
        /\ Tail(ids) # <<>> => Head(Tail(ids)) = Head(ids) + 1 /\ Last(Tail(ids)) = Last(ids)
    BY <1>0, <1>8, ConsecutiveTail, BlocksAreNumbers
  <2>3. Head(ids) \in 0..MaxBlock /\ Head(ids) \in Nat
    BY <1>3, <1>8, BlockIsNumber
  <2>4. Keeps(e) /\ e.toget = Tail(ids) /\ e.last = Head(ids)
    BY <2>1, <2>2, <2>3, <1>3, <1>8, <1>y
  <2>5. Head(ids) \in s
    <3>1. Last(r.toget) \in s /\ Last(r.toget) <= c
      BY <1>8 DEF Covered, Listed
    <3> QED BY <3>1, <1>8 DEF IsAnswer
  <2>6. ASSUME Given PROVE Started(e, G)
    <3>1. Head(ids) \in G
      BY <2>5, <2>6, <1>7, <1>8, <1>w
    <3>2. Tail(ids) # <<>> => Head(Tail(ids)) - 1 = Head(ids)
      BY <2>2, <2>3
    <3> QED BY <3>1, <3>2, <2>4 DEF Started
  <2> QED BY <2>4, <2>6
<1>9. CASE ids # <<>> /\ r.toget # <<>> /\ at # 0
  <2> DEFINE t == SubSeq(r.toget, 1, at - 1) \o ids
  <2>1. at \in 1..Len(r.toget) /\ r.toget[at] = Head(ids)
    BY <1>7, <1>9
  <2>2. /\ t \in Seq(Blocks) /\ Consecutive(t)
        /\ t # <<>> /\ Head(t) = Head(r.toget) /\ Last(t) = Last(ids)
    <3>1. r.toget \in Seq(Blocks) /\ Consecutive(r.toget) /\ ids \in Seq(Blocks)
          /\ Consecutive(ids) /\ ids # <<>>
      BY <1>0, <1>9
    <3>2. t = Joined(r.toget, at, ids)
      BY DEF Joined
    <3> HIDE DEF r, t
    <3> QED BY ONLY <3>1, <3>2, <2>1, JoinShape
  <2>5. e = Relisted(r, t, r.last)
    BY <2>2, <1>x, <1>0, <1>9, RelistedOnly
  <2> HIDE DEF t
  <2>3. Keeps(e) /\ e.toget = t /\ e.last = r.last
    BY <2>5, <2>2, <1>0, <1>3, <1>9, <1>y
  <2>4. ASSUME Given PROVE Started(e, G)
    <3>1. Started(r, G)
      BY <2>4, <1>w
    <3> QED BY <3>1, <2>2, <2>3, <1>9 DEF Started
  <2> QED BY <2>3, <2>4
<1> QED BY <1>4, <1>5, <1>6, <1>8, <1>9

-----------------------------------------------------------------------------
(* The inductive invariant.                                                *)

(* What holds of the connection to a peer whose head is c, when A is being *)
(* requested and R has arrived: nothing is requested that the peer's list  *)
(* does not have or that has arrived, and nothing at all while the peer is *)
(* asked for ids or once it is in sync.                                    *)
Sound(r, c, A, R) ==
    /\ r \in Connection
    /\ Listed(r, c) /\ Covered(r)
    /\ r.req \subseteq A /\ r.req \subseteq Range(r.toget) /\ r.req \cap R = {}
    /\ r.asked # {} \/ ~r.need => r.req = {}

(* The blocks the chain has been given, and those that wait to be.         *)
Given == (0..height) \cup Range(calls)
Early == Range(received) \cup Range(new)

Behind(r, G) == Started(r, G) /\ Asked(r, G)

SoundInv == \A p \in Peers: Sound(peer[p], chain[p], active, Early)

OrderInv == refusals = 0 => InOrder /\ \A p \in Peers: Behind(peer[p], Given)

Inv == TypeOK /\ SoundInv /\ OneRequest /\ OrderInv

LEMMA FreshShape ==
    /\ Fresh \in Connection /\ Fresh.toget = <<>> /\ Fresh.last = 0 /\ Fresh.req = {}
    /\ Fresh.asked = {} /\ Fresh.state = "none" /\ Fresh.need = TRUE
    /\ \A c, A, R: Sound(Fresh, c, A, R)
    /\ \A G: 0 \in G => Behind(Fresh, G)
<1>1. <<>> \in Seq(Blocks) /\ Len(<<>>) = 0 /\ 0 \in 0..MaxBlock
  BY EmptySeq, BlocksAreNumbers
<1>2. /\ Fresh \in Connection /\ Fresh.toget = <<>> /\ Fresh.last = 0 /\ Fresh.req = {}
      /\ Fresh.asked = {} /\ Fresh.state = "none" /\ Fresh.need = TRUE
  BY <1>1 DEF Fresh, Connection
<1>3. Consecutive(<<>>)
  BY <1>1 DEF Consecutive
<1>4. \A c, A, R: Sound(Fresh, c, A, R)
  BY <1>2, <1>3 DEF Sound, Listed, Covered
<1>5. \A G: 0 \in G => Behind(Fresh, G)
  BY <1>2 DEF Behind, Started, Asked
<1> QED BY <1>2, <1>4, <1>5

LEMMA RangeEmpty == Range(<<>>) = {}
  BY EmptySeq DEF Range

LEMMA InitInv == Init => Inv
<1> SUFFICES ASSUME Init PROVE Inv
  OBVIOUS
<1> USE DEF Init
<1>1. Start \in Nat /\ MaxBlock \in Nat /\ Start <= MaxBlock /\ MaxHandle \in Nat
      /\ MaxConnects \in Nat /\ MaxRefusals \in Nat
  BY SyncAssumption
<1>2. <<>> \in Seq(Blocks) /\ Len(<<>>) = 0 /\ DOMAIN <<>> = {}
  BY EmptySeq
<1>3. \A p \in Peers: peer[p] = Fresh
  OBVIOUS
<1>4. TypeOK
  <2>1. chain \in [Peers -> 0..MaxBlock]
    BY <1>1
  <2>2. peer \in [Peers -> Connection]
    BY FreshShape
  <2>3. height \in 0..MaxBlock /\ connects \in 0..MaxConnects /\ refusals \in 0..MaxRefusals
    BY <1>1
  <2>4. new \in Seq(Blocks) /\ received \in Seq(Blocks) /\ calls \in Seq(Blocks)
        /\ Len(calls) <= MaxHandle
    BY <1>1, <1>2
  <2> QED BY <2>1, <2>2, <2>3, <2>4 DEF TypeOK
<1>5. SoundInv
  BY <1>3, FreshShape DEF SoundInv
<1>6. OneRequest
  BY <1>3, FreshShape DEF OneRequest
<1>7. OrderInv
  <2>1. InOrder
    BY <1>2 DEF InOrder
  <2>2. 0 \in Given
    BY <1>1 DEF Given
  <2> QED BY <2>1, <2>2, <1>3, FreshShape DEF OrderInv
<1> QED BY <1>4, <1>5, <1>6, <1>7 DEF Inv

(* The blocks given to the chain leave no gap.                             *)
LEMMA GivenClosed ==
    ASSUME TypeOK, InOrder, refusals = 0
    PROVE  Closed(Given) /\ 0..height \subseteq Given
<1>1. height \in Nat /\ calls \in Seq(Blocks) /\ DOMAIN calls = 1..Len(calls) /\ Len(calls) \in Nat
  <2>1. height \in 0..MaxBlock /\ calls \in Seq(Blocks)
    BY DEF TypeOK
  <2> QED BY <2>1, BlocksAreNumbers, LenProperties
<1>2. \A i \in 1..Len(calls): calls[i] \in Blocks
  BY <1>1, ElementOfSeq
<1>3. ASSUME NEW k \in Range(calls) PROVE k \in Nat /\ k # 0 /\ k - 1 \in Given
  <2>1. PICK i \in 1..Len(calls): k = calls[i]
    BY <1>1 DEF Range
  <2>2. k \in Nat /\ k >= 1
    BY <1>2, <2>1, BlockIsNumber
  <2>3. k <= height + 1 \/ \E j \in 1..(i - 1): calls[j] = k - 1
    BY <2>1, <1>1 DEF InOrder
  <2>4. CASE k <= height + 1
    <3>1. k - 1 \in 0..height
      BY <2>2, <2>4, <1>1
    <3> QED BY <3>1, <2>2 DEF Given
  <2>5. ASSUME NEW j \in 1..(i - 1), calls[j] = k - 1 PROVE k - 1 \in Given
    <3>1. j \in DOMAIN calls
      BY <1>1
    <3> QED BY <3>1, <2>5 DEF Given, Range
  <2> QED BY <2>2, <2>3, <2>4, <2>5
<1>4. ASSUME NEW k \in 0..height PROVE k \in Nat /\ (k # 0 => k - 1 \in 0..height)
  BY <1>1
<1>5. 0 \in 0..height
  BY <1>1
<1> QED BY <1>3, <1>4, <1>5 DEF Given, Closed

(* A connection stays sound when the peer's chain grows, or when the       *)
(* requests of others end or begin.                                        *)
LEMMA SoundStays ==
    ASSUME NEW r, NEW c \in 0..MaxBlock, NEW d \in 0..MaxBlock, c <= d, NEW A, NEW B, NEW R, NEW Q,
           Sound(r, c, A, R), r.req \subseteq B, r.req \cap Q = {}
    PROVE  Sound(r, d, B, Q)
<1>1. r \in Connection /\ Listed(r, c)
  BY DEF Sound
<1>2. r.toget # <<>> => Last(r.toget) \in Nat
  <2>1. r.toget \in Seq(Blocks) /\ Consecutive(r.toget)
    BY <1>1, ConnectionFields DEF Listed
  <2>2. r.toget # <<>> => Last(r.toget) \in Blocks
    BY <2>1, ConsecutiveFrom, BlocksAreNumbers
  <2> QED BY <2>2, BlockIsNumber
<1>3. Listed(r, d)
  <2>1. c \in Nat /\ d \in Nat
    BY BlocksAreNumbers
  <2> QED BY <2>1, <1>1, <1>2 DEF Listed
<1> QED BY <1>3 DEF Sound

LEMMA BehindMore ==
    ASSUME NEW r, NEW G, NEW H, G \subseteq H, Behind(r, G)
    PROVE  Behind(r, H)
  BY DEF Behind, Started, Asked

(* A step that changes the connection to one peer, and no more of what     *)
(* goes to the chain.                                                      *)
LEMMA OneConnection ==
    ASSUME Inv, NEW p \in Peers, NEW x, peer' = [peer EXCEPT ![p] = x],
           UNCHANGED <<chain, height, calls, refusals>>,
           Sound(x, chain[p], active', Early'), x.req \subseteq peer[p].req,
           \A q \in Peers \ {p}: peer[q].req \subseteq active' /\ peer[q].req \cap Early' = {},
           refusals = 0 => Behind(x, Given)
    PROVE  peer' \in [Peers -> Connection] /\ SoundInv' /\ OneRequest' /\ OrderInv'
<1>1. /\ peer \in [Peers -> Connection] /\ chain \in [Peers -> 0..MaxBlock]
      /\ peer'[p] = x /\ \A q \in Peers \ {p}: peer'[q] = peer[q]
  BY DEF Inv, TypeOK
<1>2. ASSUME NEW q \in Peers PROVE Sound(peer'[q], chain'[q], active', Early')
  <2>1. CASE q = p
    BY <2>1, <1>1
  <2>2. CASE q # p
    <3>1. Sound(peer[q], chain[q], active, Early) /\ chain[q] \in 0..MaxBlock
      BY <1>1 DEF Inv, SoundInv
    <3>2. peer[q].req \subseteq active' /\ peer[q].req \cap Early' = {}
      BY <2>2
    <3>3. chain[q] <= chain[q]
      BY <3>1, BlocksAreNumbers
    <3>4. Sound(peer[q], chain[q], active', Early')
      <4> HIDE DEF Early
      <4> QED BY ONLY <3>1, <3>2, <3>3, SoundStays
    <3> QED BY <3>4, <2>2, <1>1
  <2> QED BY <2>1, <2>2
<1>3. peer' \in [Peers -> Connection]
  BY <1>1 DEF Sound
<1>4. OneRequest'
  BY <1>1 DEF Inv, OneRequest
<1>5. Given' = Given /\ (InOrder => InOrder')
  BY DEF Given, InOrder
<1>6. ASSUME refusals' = 0 PROVE InOrder' /\ \A q \in Peers: Behind(peer'[q], Given')
  BY <1>1, <1>5, <1>6 DEF Inv, OrderInv
<1>7. OrderInv'
  BY <1>6 DEF OrderInv
<1> QED BY <1>2, <1>3, <1>4, <1>7 DEF SoundInv

(* What OneConnection asks of the other peers holds when neither the       *)
(* requests nor the blocks that arrived change.                            *)
LEMMA OthersSame ==
    ASSUME Inv, UNCHANGED <<active, new, received>>
    PROVE  /\ Early' = Early
           /\ \A q \in Peers: peer[q].req \subseteq active' /\ peer[q].req \cap Early' = {}
  BY DEF Inv, SoundInv, Sound, Early

LEMMA ConnectInv ==
    ASSUME Inv, NEW p \in Peers, Connect(p)
    PROVE  Inv'
<1> DEFINE f == [Fresh EXCEPT !.state = "active"]
           x == start_synchronizing(f, height)
<1>1. /\ f \in Connection /\ f.req = {}
  BY FreshShape DEF Connection
<1>2. height \in 0..MaxBlock /\ connects \in 0..MaxConnects /\ MaxConnects \in Nat
  BY SyncAssumption DEF Inv, TypeOK
<1>3. peer' = [peer EXCEPT ![p] = x]
  BY DEF Connect
<1>x. x = start_synchronizing(f, height)
  OBVIOUS
<1> HIDE DEF f, x
<1>4. /\ x \in Connection /\ x.toget = <<>> /\ x.last = 0 /\ x.req = {}
      /\ \A G: Closed(G) /\ 0..height \subseteq G => Asked(x, G)
  BY <1>1, <1>2, <1>x, StartShape
<1>5. /\ Early' = Early
      /\ \A q \in Peers: peer[q].req \subseteq active' /\ peer[q].req \cap Early' = {}
  BY OthersSame DEF Connect
<1>6. Sound(x, chain[p], active', Early')
  <2>1. Consecutive(<<>>)
    BY EmptySeq DEF Consecutive
  <2> QED BY <1>4, <2>1 DEF Sound, Listed, Covered
<1>7. ASSUME refusals = 0 PROVE Behind(x, Given)
  <2>1. Closed(Given) /\ 0..height \subseteq Given
    BY <1>7, GivenClosed DEF Inv, OrderInv
  <2>2. 0 \in Given
    BY <2>1 DEF Closed
  <2> QED BY <2>1, <2>2, <1>4 DEF Behind, Started
<1>8. UNCHANGED <<chain, height, calls, refusals>>
  BY DEF Connect
<1>9. peer' \in [Peers -> Connection] /\ SoundInv' /\ OneRequest' /\ OrderInv'
  BY <1>3, <1>4, <1>5, <1>6, <1>7, <1>8, OneConnection
<1>10. TypeOK'
  <2>1. connects' \in 0..MaxConnects
    BY <1>2 DEF Connect
  <2> QED BY <2>1, <1>9 DEF Connect, Inv, TypeOK
<1> QED BY <1>9, <1>10 DEF Inv

LEMMA PeerGrowsInv ==
    ASSUME Inv, NEW p \in Peers, PeerGrows(p)
    PROVE  Inv'
<1> USE DEF PeerGrows
<1>1. chain \in [Peers -> 0..MaxBlock] /\ MaxBlock \in Nat
  BY BlocksAreNumbers DEF Inv, TypeOK
<1>2. ASSUME NEW q \in Peers
      PROVE  chain[q] \in 0..MaxBlock /\ chain'[q] \in 0..MaxBlock /\ chain[q] <= chain'[q]
  BY <1>1
<1>3. chain' \in [Peers -> 0..MaxBlock]
  BY <1>1, <1>2
<1>4. ASSUME NEW q \in Peers PROVE Sound(peer[q], chain'[q], active, Early)
  <2>1. Sound(peer[q], chain[q], active, Early)
    BY DEF Inv, SoundInv
  <2>2. peer[q].req \subseteq active /\ peer[q].req \cap Early = {}
    BY <2>1 DEF Sound
  <2> HIDE DEF Early
  <2> QED BY ONLY <2>1, <2>2, <1>2, SoundStays
<1>5. SoundInv'
  BY <1>4 DEF SoundInv, Early
<1>6. OneRequest' /\ OrderInv'
  BY DEF Inv, OneRequest, OrderInv, InOrder, Given
<1>7. TypeOK'
  BY <1>3 DEF Inv, TypeOK
<1> QED BY <1>5, <1>6, <1>7 DEF Inv

LEMMA TimeoutInv ==
    ASSUME Inv, NEW p \in Peers, Timeout(p)
    PROVE  Inv'
<1> DEFINE x == [peer[p] EXCEPT !.state = "closing"]
<1>1. Sound(peer[p], chain[p], active, Early) /\ peer[p] \in Connection
  BY DEF Inv, SoundInv, Sound
<1>2. peer' = [peer EXCEPT ![p] = x]
  BY DEF Timeout
<1>3. /\ x \in Connection /\ x.toget = peer[p].toget /\ x.last = peer[p].last
      /\ x.req = peer[p].req /\ x.asked = peer[p].asked /\ x.need = peer[p].need
  BY <1>1 DEF Connection
<1> HIDE DEF x
<1>4. /\ Early' = Early
      /\ \A q \in Peers: peer[q].req \subseteq active' /\ peer[q].req \cap Early' = {}
  BY OthersSame DEF Timeout
<1>5. Sound(x, chain[p], active', Early')
  BY <1>1, <1>3, <1>4 DEF Sound, Listed, Covered, Timeout
<1>6. refusals = 0 => Behind(x, Given)
  BY <1>3 DEF Inv, OrderInv, Behind, Started, Asked
<1>7. UNCHANGED <<chain, height, calls, refusals>>
  BY DEF Timeout
<1>8. peer' \in [Peers -> Connection] /\ SoundInv' /\ OneRequest' /\ OrderInv'
  BY <1>2, <1>3, <1>4, <1>5, <1>6, <1>7, OneConnection
<1>9. TypeOK'
  BY <1>8 DEF Timeout, Inv, TypeOK
<1> QED BY <1>8, <1>9 DEF Inv

LEMMA ClosedInv ==
    ASSUME Inv, NEW p \in Peers, on_connection_closed(p)
    PROVE  Inv'
<1>1. peer' = [peer EXCEPT ![p] = Fresh] /\ active' = active \ peer[p].req
  BY DEF on_connection_closed, Released
<1>2. Early' = Early
  BY DEF on_connection_closed, Early
<1>3. ASSUME NEW q \in Peers \ {p}
      PROVE  peer[q].req \subseteq active' /\ peer[q].req \cap Early' = {}
  <2>1. peer[q].req \cap peer[p].req = {}
    BY DEF Inv, OneRequest
  <2>2. peer[q].req \subseteq active /\ peer[q].req \cap Early = {}
    BY DEF Inv, SoundInv, Sound
  <2> QED BY <2>1, <2>2, <1>1, <1>2
<1>4. Sound(Fresh, chain[p], active', Early') /\ Fresh.req \subseteq peer[p].req
  BY FreshShape
<1>5. ASSUME refusals = 0 PROVE Behind(Fresh, Given)
  <2>1. Closed(Given)
    BY <1>5, GivenClosed DEF Inv, OrderInv
  <2> QED BY <2>1, FreshShape DEF Closed
<1>6. UNCHANGED <<chain, height, calls, refusals>>
  BY DEF on_connection_closed
<1>7. peer' \in [Peers -> Connection] /\ SoundInv' /\ OneRequest' /\ OrderInv'
  BY <1>1, <1>3, <1>4, <1>5, <1>6, OneConnection
<1>8. TypeOK'
  <2>1. active' \subseteq Blocks /\ fetch' \in BOOLEAN
    BY <1>1 DEF on_connection_closed, Inv, TypeOK
  <2> QED BY <2>1, <1>7 DEF on_connection_closed, Inv, TypeOK
<1> QED BY <1>7, <1>8 DEF Inv

(* start_synchronizing keeps a connection from which nothing is requested. *)
LEMMA RestartSound ==
    ASSUME NEW r \in Connection, r.req = {}, NEW h \in 0..MaxBlock,
           NEW x, x = start_synchronizing(r, h), NEW c, NEW A, NEW R
    PROVE  /\ Sound(x, c, A, R) /\ x.req = {}
           /\ \A G: Closed(G) /\ 0..h \subseteq G => Behind(x, G)
<1>1. /\ x \in Connection /\ x.toget = <<>> /\ x.last = 0 /\ x.req = {}
      /\ \A G: Closed(G) /\ 0..h \subseteq G => Asked(x, G)
  BY StartShape
<1>2. Consecutive(<<>>)
  BY EmptySeq DEF Consecutive
<1>3. Sound(x, c, A, R)
  BY <1>1, <1>2 DEF Sound, Listed, Covered
<1>4. \A G: Closed(G) => 0 \in G
  BY DEF Closed
<1>5. \A G: Closed(G) /\ 0..h \subseteq G => Behind(x, G)
  BY <1>1, <1>4 DEF Behind, Started
<1> QED BY <1>1, <1>3, <1>5

LEMMA FetchIdsInv ==
    ASSUME Inv, NEW p \in Peers, on_fetch_blockchain_item_ids(p)
    PROVE  Inv'
<1> DEFINE n == height # 0 /\ ~ (chain[p] # 0 /\ height \in Halving(1, chain[p]))
           r == [peer[p] EXCEPT !.needed = n]
           x == IF ~r.need /\ ~has_item(chain[p]) THEN start_synchronizing(r, height) ELSE r
<1>1. Sound(peer[p], chain[p], active, Early) /\ peer[p] \in Connection
  BY DEF Inv, SoundInv, Sound
<1>2. peer' = [peer EXCEPT ![p] = x]
  BY DEF on_fetch_blockchain_item_ids
<1>3. n \in BOOLEAN
  OBVIOUS
<1> HIDE DEF n
<1>4. /\ r \in Connection /\ r.toget = peer[p].toget /\ r.last = peer[p].last
      /\ r.req = peer[p].req /\ r.asked = peer[p].asked /\ r.need = peer[p].need
  BY <1>1, <1>3 DEF Connection
<1>x. x = IF ~r.need /\ ~has_item(chain[p]) THEN start_synchronizing(r, height) ELSE r
  OBVIOUS
<1> HIDE DEF r, x
<1>5. /\ Early' = Early
      /\ \A q \in Peers: peer[q].req \subseteq active' /\ peer[q].req \cap Early' = {}
  BY OthersSame DEF on_fetch_blockchain_item_ids
<1>6. UNCHANGED <<chain, height, calls, refusals>> /\ active' = active
  BY DEF on_fetch_blockchain_item_ids
<1>7. Sound(r, chain[p], active', Early')
  BY <1>1, <1>4, <1>5, <1>6 DEF Sound, Listed, Covered
<1>8. refusals = 0 => Behind(r, Given)
  BY <1>4 DEF Inv, OrderInv, Behind, Started, Asked
<1>9. /\ Sound(x, chain[p], active', Early') /\ x.req \subseteq peer[p].req
      /\ refusals = 0 => Behind(x, Given)
  <2>1. CASE ~r.need /\ ~has_item(chain[p])
    <3>1. x = start_synchronizing(r, height)
      BY <2>1, <1>x
    <3>2. r.req = {} /\ height \in 0..MaxBlock
      BY <2>1, <1>7 DEF Sound, Inv, TypeOK
    <3>3. /\ Sound(x, chain[p], active', Early') /\ x.req = {}
          /\ \A G: Closed(G) /\ 0..height \subseteq G => Behind(x, G)
      <4> HIDE DEF Early
      <4> QED BY ONLY <3>1, <3>2, <1>4, RestartSound
    <3>4. refusals = 0 => Closed(Given) /\ 0..height \subseteq Given
      BY GivenClosed DEF Inv, OrderInv
    <3> QED BY <3>3, <3>4
  <2>2. CASE ~ (~r.need /\ ~has_item(chain[p]))
    <3>1. x = r
      BY <2>2, <1>x
    <3> QED BY <3>1, <1>4, <1>7, <1>8
  <2> QED BY <2>1, <2>2
<1>10. peer' \in [Peers -> Connection] /\ SoundInv' /\ OneRequest' /\ OrderInv'
  BY <1>2, <1>5, <1>6, <1>9, OneConnection
<1>11. TypeOK'
  BY <1>10 DEF on_fetch_blockchain_item_ids, Inv, TypeOK
<1> QED BY <1>10, <1>11 DEF Inv

(* The three ways an answer is taken.                                      *)
LEMMA AnswerInv ==
    ASSUME Inv, NEW p \in Peers, on_blockchain_item_ids_inventory(p)
    PROVE  Inv' /\ (~peer'[p].need => peer[p].req = {})
                /\ (peer[p].need /\ ~peer'[p].need => height >= chain[p])
<1>1. /\ Sound(peer[p], chain[p], active, Early) /\ peer[p] \in Connection
      /\ peer \in [Peers -> Connection] /\ height \in 0..MaxBlock
      /\ chain[p] \in 0..MaxBlock
  BY DEF Inv, SoundInv, Sound, TypeOK
<1>2. PICK s \in peer[p].asked:
         LET ids       == BlockIds(p, s)
             remaining == IF ids = <<>> THEN 0 ELSE chain[p] - Last(ids)
             r == [Extended(p, ids) EXCEPT !.unfetched = remaining, !.asked = {}]
             fetchable == IF remaining # 0 THEN Len(r.toget) > MinPrefetch
                                           ELSE r.toget # <<>>
         IN \/ /\ InSync(peer[p], ids, remaining)
               /\ peer' = [peer EXCEPT ![p].need = FALSE, ![p].asked = {}]
               /\ UNCHANGED fetch
            \/ /\ ~InSync(peer[p], ids, remaining) /\ fetchable
               /\ peer' = [peer EXCEPT ![p] = r]
               /\ fetch' = TRUE
            \/ /\ ~InSync(peer[p], ids, remaining) /\ ~fetchable
               /\ peer' = [peer EXCEPT ![p] = fetch_next_batch(r, height)]
               /\ UNCHANGED fetch
  BY DEF on_blockchain_item_ids_inventory
<1> DEFINE ids == BlockIds(p, s)
           remaining == IF ids = <<>> THEN 0 ELSE chain[p] - Last(ids)
           e == Extended(p, ids)
           r == [e EXCEPT !.unfetched = remaining, !.asked = {}]
           y == [peer[p] EXCEPT !.need = FALSE, !.asked = {}]
           z == fetch_next_batch(r, height)
<1>3. \/ /\ InSync(peer[p], ids, remaining) /\ UNCHANGED fetch
         /\ peer' = [peer EXCEPT ![p] = y]
      \/ peer' = [peer EXCEPT ![p] = r] /\ fetch' = TRUE
      \/ peer' = [peer EXCEPT ![p] = z] /\ UNCHANGED fetch
  <2> HIDE DEF ids, remaining, e
  <2> QED BY <1>2 DEF ids, remaining, e
<1>4. /\ UNCHANGED <<chain, height, recent, active, new, received, calls, suspended,
                   backlog, connects, refusals>>
      /\ Early' = Early
      /\ \A q \in Peers: peer[q].req \subseteq active' /\ peer[q].req \cap Early' = {}
  BY OthersSame DEF on_blockchain_item_ids_inventory
<1>5. s \subseteq Blocks /\ peer[p].req = {} /\ Listed(peer[p], chain[p]) /\ Covered(peer[p])
      /\ peer[p].asked # {}
  BY <1>1, ConnectionFields DEF Sound
<1>6. IsAnswer(ids, chain[p], s)
  BY <1>1, <1>5, BlockIdsShape
<1>e. e = Extended(p, ids)
  OBVIOUS
<1> HIDE DEF ids, e
<1>7. ids # <<>> => Last(ids) \in Nat /\ Last(ids) <= chain[p] /\ Last(ids) = ids[Len(ids)]
                    /\ Head(ids) = ids[1]
  <2>1. ids \in Seq(Blocks) /\ Consecutive(ids) /\ (ids # <<>> => Last(ids) <= chain[p])
    BY <1>6 DEF IsAnswer
  <2>2. ids # <<>> => Last(ids) \in Blocks /\ Last(ids) = ids[Len(ids)] /\ Head(ids) = ids[1]
    BY <2>1, ConsecutiveFrom, BlocksAreNumbers
  <2> QED BY <2>1, <2>2, BlockIsNumber
<1>8. remaining \in Nat /\ chain[p] \in Nat /\ height \in Nat
  BY <1>1, <1>7, BlocksAreNumbers
<1>r. r = [e EXCEPT !.unfetched = remaining, !.asked = {}]
  OBVIOUS
<1>z. z = fetch_next_batch(r, height)
  OBVIOUS
<1> HIDE DEF r, z
<1>9. \A G: /\ e \in Connection /\ Listed(e, chain[p])
            /\ e.req = {} /\ e.need = peer[p].need
            /\ Closed(G) /\ 0..height \subseteq G /\ Asked(peer[p], G)
                /\ (\A q \in Peers: Started(peer[q], G)) => Started(e, G)
  <2> TAKE G
  <2> QED BY <1>e, <1>1, <1>5, <1>6, ExtendedShape
<1>10. /\ r \in Connection /\ r.toget = e.toget /\ r.last = e.last /\ r.req = e.req
       /\ r.need = e.need /\ r.asked = {}
  <2> HIDE DEF remaining
  <2> QED BY <1>8, <1>9, <1>r DEF Connection
<1>11. Listed(r, chain[p]) /\ Consecutive(r.toget)
  BY <1>9, <1>10 DEF Listed
<1>12. /\ z \in Connection /\ z.toget = r.toget /\ z.last = r.last /\ z.req = r.req
       /\ z.need = r.need /\ Covered(z)
       /\ \A G: Closed(G) /\ 0..height \subseteq G /\ r.last \in G => Asked(z, G)
  BY <1>1, <1>10, <1>11, <1>z, AskShape
<1>13. /\ y \in Connection /\ y.toget = peer[p].toget /\ y.last = peer[p].last
       /\ y.req = {} /\ y.need = FALSE /\ y.asked = {}
  BY <1>1, <1>5 DEF Connection
<1> HIDE DEF y
<1>14. /\ Sound(y, chain[p], active', Early')
       /\ Sound(r, chain[p], active', Early')
       /\ Sound(z, chain[p], active', Early')
  <2>1. Sound(y, chain[p], active', Early')
    BY <1>5, <1>13 DEF Sound, Listed, Covered
  <2>2. Sound(r, chain[p], active', Early')
    BY <1>9, <1>10, <1>11 DEF Sound, Covered
  <2>3. Sound(z, chain[p], active', Early')
    BY <1>9, <1>10, <1>11, <1>12 DEF Sound, Listed
  <2> QED BY <2>1, <2>2, <2>3
<1>15. ASSUME refusals = 0
       PROVE  Behind(y, Given) /\ Behind(r, Given) /\ Behind(z, Given)
  <2>1. Closed(Given) /\ 0..height \subseteq Given
    BY <1>15, GivenClosed DEF Inv, OrderInv
  <2>2. \A q \in Peers: Behind(peer[q], Given)
    BY <1>15 DEF Inv, OrderInv
  <2>3. Started(peer[p], Given) /\ Asked(peer[p], Given) /\ \A q \in Peers: Started(peer[q], Given)
    BY <2>2 DEF Behind
  <2>4. Started(e, Given)
    BY <2>1, <2>3, <1>9
  <2>5. Behind(y, Given)
    BY <2>3, <1>13 DEF Behind, Started, Asked
  <2>6. Started(r, Given) /\ Asked(r, Given) /\ Started(z, Given)
    BY <2>4, <1>10, <1>12 DEF Started, Asked
  <2>7. Asked(z, Given)
    BY <2>1, <2>6, <1>12 DEF Started
  <2> QED BY <2>5, <2>6, <2>7 DEF Behind
<1>16. ASSUME NEW x \in {y, r, z}, peer' = [peer EXCEPT ![p] = x],
              fetch' \in BOOLEAN
       PROVE  Inv'
  <2>1. Sound(x, chain[p], active', Early') /\ x.req \subseteq peer[p].req
        /\ (refusals = 0 => Behind(x, Given))
    BY <1>9, <1>10, <1>12, <1>13, <1>14, <1>15
  <2>2. peer' \in [Peers -> Connection] /\ SoundInv' /\ OneRequest' /\ OrderInv'
    BY <2>1, <1>4, <1>16, OneConnection
  <2>3. TypeOK'
    BY <2>2, <1>4, <1>16 DEF Inv, TypeOK
  <2> QED BY <2>2, <2>3 DEF Inv
<1>17. fetch' \in BOOLEAN
  BY <1>3 DEF Inv, TypeOK
<1>18. Inv'
  BY <1>3, <1>16, <1>17
<1>19. ASSUME InSync(peer[p], ids, remaining) PROVE height >= chain[p]
  <2>1. CASE ids = <<>>
    BY <2>1, <1>6, <1>8 DEF IsAnswer
  <2>2. CASE ids # <<>>
    <3>1. remaining = 0 /\ Len(ids) = 1 /\ Head(ids) <= height
      BY <2>2, <1>19 DEF InSync, has_item
    <3>2. Head(ids) = Last(ids) /\ chain[p] - Last(ids) = 0
      BY <2>2, <3>1, <1>7
    <3> QED BY <3>1, <3>2, <2>2, <1>7, <1>8
  <2> QED BY <2>1, <2>2
<1>20. peer[p].need /\ ~peer'[p].need => height >= chain[p]
  BY <1>1, <1>3, <1>9, <1>10, <1>12, <1>19
<1> QED BY <1>5, <1>18, <1>20

LEMMA BlockMessageInv ==
    ASSUME Inv, NEW p \in Peers, process_block_message(p)
    PROVE  Inv' /\ peer'[p].need = peer[p].need
<1> DEFINE b == Min(peer[p].req)
           r == [peer[p] EXCEPT !.req = @ \ {b}]
           more == r.unfetched > 0 /\ Len(r.toget) < MinPrefetch
           x == IF idle(r) /\ more THEN fetch_next_batch(r, height) ELSE r
<1>1. /\ Sound(peer[p], chain[p], active, Early) /\ peer[p] \in Connection
      /\ peer[p].req \subseteq Blocks /\ peer[p].req # {}
      /\ height \in 0..MaxBlock /\ new \in Seq(Blocks) /\ peer \in [Peers -> Connection]
  <2>1. Sound(peer[p], chain[p], active, Early) /\ peer[p] \in Connection
    BY DEF Inv, SoundInv, Sound
  <2> QED BY <2>1, ConnectionFields DEF Inv, TypeOK, process_block_message
<1>2. b \in peer[p].req /\ b \in Blocks
  <2>1. peer[p].req \subseteq Nat
    BY <1>1, BlocksAreNumbers
  <2> QED BY <2>1, <1>1, MinIn
<1>3. /\ active' = active \ {b} /\ new' = <<b>> \o new /\ backlog' = TRUE
      /\ peer' = [peer EXCEPT ![p] = x]
      /\ fetch' = (fetch \/ (idle(r) /\ ~more))
      /\ UNCHANGED <<chain, height, recent, received, calls, suspended, connects, refusals>>
  BY DEF process_block_message
<1> HIDE DEF b, more
<1>4. /\ r \in Connection /\ r.toget = peer[p].toget /\ r.last = peer[p].last
      /\ r.req = peer[p].req \ {b} /\ r.asked = peer[p].asked /\ r.need = peer[p].need
  BY <1>1 DEF Connection
<1>x. x = IF idle(r) /\ more THEN fetch_next_batch(r, height) ELSE r
  OBVIOUS
<1> HIDE DEF r, x
<1>5. new' \in Seq(Blocks) /\ Range(new') = {b} \cup Range(new)
  <2> DEFINE one == <<b>>
  <2>1. one \in Seq(Blocks) /\ Range(one) = {b}
    BY <1>2 DEF Range
  <2>2. new' = one \o new
    BY <1>3
  <2> HIDE DEF one
  <2>3. one \o new \in Seq(Blocks)
    BY <2>1, <1>1, ConcatProperties
  <2>4. Range(one \o new) = Range(one) \cup Range(new)
    BY ONLY <2>1, <1>1, RangeConcatenation
  <2> QED BY <2>1, <2>2, <2>3, <2>4
<1>6. Early' = Early \cup {b}
  BY <1>3, <1>5 DEF Early
<1>7. ASSUME NEW q \in Peers \ {p}
      PROVE  peer[q].req \subseteq active' /\ peer[q].req \cap Early' = {}
  <2>1. b \notin peer[q].req
    BY <1>2 DEF Inv, OneRequest
  <2>2. peer[q].req \subseteq active /\ peer[q].req \cap Early = {}
    BY DEF Inv, SoundInv, Sound
  <2> QED BY <2>1, <2>2, <1>3, <1>6
<1>8. Sound(r, chain[p], active', Early') /\ Consecutive(r.toget) /\ Listed(r, chain[p])
  <2>1. Listed(peer[p], chain[p]) /\ Covered(peer[p])
    BY <1>1 DEF Sound
  <2>2. Listed(r, chain[p]) /\ Covered(r) /\ Consecutive(r.toget)
    BY <2>1, <1>4 DEF Listed, Covered
  <2>3. peer[p].req \subseteq active /\ peer[p].req \cap Early = {}
        /\ peer[p].req \subseteq Range(peer[p].toget)
        /\ (peer[p].asked # {} \/ ~peer[p].need => peer[p].req = {})
    BY <1>1 DEF Sound
  <2>4. r.req \subseteq active' /\ r.req \cap Early' = {} /\ r.req \subseteq Range(r.toget)
        /\ (r.asked # {} \/ ~r.need => r.req = {})
    BY <2>3, <1>3, <1>4, <1>6
  <2> HIDE DEF Early
  <2> QED BY <2>2, <2>4, <1>4 DEF Sound
<1>9. refusals = 0 => Behind(r, Given)
  BY <1>4 DEF Inv, OrderInv, Behind, Started, Asked
<1>10. /\ Sound(x, chain[p], active', Early') /\ x.req \subseteq peer[p].req
       /\ refusals = 0 => Behind(x, Given)
       /\ x.need = peer[p].need
  <2>1. CASE idle(r) /\ more
    <3>1. x = fetch_next_batch(r, height) /\ r.req = {}
      BY <2>1, <1>x DEF idle
    <3>2. /\ x \in Connection /\ x.toget = r.toget /\ x.last = r.last /\ x.req = r.req
          /\ x.need = r.need /\ Covered(x)
          /\ \A G: Closed(G) /\ 0..height \subseteq G /\ r.last \in G => Asked(x, G)
      BY <3>1, <1>1, <1>4, <1>8, AskShape
    <3>3. Sound(x, chain[p], active', Early')
      BY <3>1, <3>2, <1>8 DEF Sound, Listed
    <3>4. ASSUME refusals = 0 PROVE Behind(x, Given)
      <4>1. Closed(Given) /\ 0..height \subseteq Given
        BY <3>4, GivenClosed DEF Inv, OrderInv
      <4>2. Started(r, Given)
        BY <3>4, <1>9 DEF Behind
      <4> QED BY <4>1, <4>2, <3>2 DEF Behind, Started
    <3> QED BY <3>1, <3>2, <3>3, <3>4, <1>4
  <2>2. CASE ~ (idle(r) /\ more)
    <3>1. x = r
      BY <2>2, <1>x
    <3> QED BY <3>1, <1>4, <1>8, <1>9
  <2> QED BY <2>1, <2>2
<1>11. peer' \in [Peers -> Connection] /\ SoundInv' /\ OneRequest' /\ OrderInv'
  BY <1>3, <1>7, <1>10, OneConnection
<1>12. TypeOK'
  <2>1. active' \subseteq Blocks /\ fetch' \in BOOLEAN /\ backlog' \in BOOLEAN
    BY <1>3 DEF Inv, TypeOK, idle
  <2> QED BY <2>1, <1>3, <1>5, <1>11 DEF Inv, TypeOK
<1>13. peer'[p].need = peer[p].need
  BY <1>1, <1>3, <1>10
<1> QED BY <1>11, <1>12, <1>13 DEF Inv

-----------------------------------------------------------------------------
(* The fetch loop.                                                         *)

(* The peer's turn in the pass over the peers, when m was given out.       *)
Turn(m, p) ==
    IF Active(p) /\ peer[p].need /\ idle(peer[p])
      THEN [m EXCEPT ![p] = FirstWanted(peer[p], UNION {m[q]: q \in Peers})]
      ELSE m

(* The equation of the recursive function inside Requests, up to k turns.  *)
IsPass(f, order, k) ==
    f = [n \in 0..k |-> IF n = 0 THEN [p \in Peers |-> {}] ELSE Turn(f[n - 1], order[n])]

LEMMA PassExists ==
    ASSUME NEW order, NEW n \in Nat
    PROVE  \E f: IsPass(f, order, n)
<1> DEFINE B == {k \in Nat: ~ \E f: IsPass(f, order, k)}
           none == [p \in Peers |-> {}]
<1> SUFFICES ASSUME B # {} PROVE FALSE
  OBVIOUS
<1>1. PICK k \in B: \A j \in B: k <= j
  <2>1. B \subseteq Nat
    OBVIOUS
  <2> HIDE DEF B
  <2> QED BY ONLY <2>1, B # {}, SmallestOf
<1>2. CASE k = 0
  <2> DEFINE f == [i \in 0..0 |-> none]
  <2>1. f = [i \in 0..0 |-> IF i = 0 THEN none ELSE Turn(f[i - 1], order[i])]
    <3> HIDE DEF none
    <3> QED OBVIOUS
  <2>2. IsPass(f, order, 0)
    BY <2>1 DEF IsPass
  <2> QED BY <2>2, <1>2
<1>3. CASE k # 0
  <2>1. k \in Nat /\ k - 1 \in Nat
    BY <1>3
  <2>2. k - 1 \notin B
    BY <1>1, <2>1
  <2>3. PICK f: IsPass(f, order, k - 1)
    BY <2>1, <2>2
  <2>4. \A i \in 0..(k - 1): f[i] = IF i = 0 THEN none ELSE Turn(f[i - 1], order[i])
    BY <2>3 DEF IsPass
  <2> HIDE DEF none
  <2> DEFINE e == [i \in 0..k |-> IF i < k THEN f[i] ELSE Turn(f[k - 1], order[k])]
  <2>5. ASSUME NEW i \in 0..k
        PROVE  e[i] = IF i = 0 THEN none ELSE Turn(e[i - 1], order[i])
    <3>1. CASE i = 0
      <4>1. e[0] = f[0] /\ 0 \in 0..(k - 1)
        BY <2>1, <1>3
      <4> QED BY <4>1, <3>1, <2>4
    <3>2. CASE i # 0 /\ i < k
      <4>1. e[i] = f[i] /\ e[i - 1] = f[i - 1] /\ i \in 0..(k - 1)
        BY <2>1, <3>2
      <4> QED BY <4>1, <3>2, <2>4
    <3>3. CASE i = k
      <4>1. e[k] = Turn(f[k - 1], order[k]) /\ e[k - 1] = f[k - 1]
        BY <2>1
      <4> QED BY <4>1, <3>3, <1>3
    <3> QED BY <3>1, <3>2, <3>3, <2>1
  <2>6. IsPass(e, order, k)
    <3>1. e = [i \in 0..k |-> e[i]]
      OBVIOUS
    <3> HIDE DEF e
    <3> QED BY <3>1, <2>5 DEF IsPass, none
  <2> QED BY <2>6
<1> QED BY <1>2, <1>3

(* What may be given out: to each idle peer blocks of its list that are    *)
(* neither requested nor here, and none to two peers.                      *)
Shared(m) ==
    /\ m \in [Peers -> SUBSET Blocks]
    /\ \A p, q \in Peers: p # q => m[p] \cap m[q] = {}
    /\ \A p \in Peers: /\ m[p] \subseteq Range(peer[p].toget)
                       /\ m[p] \cap active = {} /\ m[p] \cap Early = {}
                       /\ m[p] # {} => peer[p].need /\ idle(peer[p])

LEMMA TurnShared ==
    ASSUME TypeOK, NEW m, Shared(m), NEW p \in Peers
    PROVE  Shared(Turn(m, p))
<1> DEFINE taken == UNION {m[q]: q \in Peers}
           w == FirstWanted(peer[p], taken)
           e == [m EXCEPT ![p] = w]
<1>1. CASE ~ (Active(p) /\ peer[p].need /\ idle(peer[p]))
  BY <1>1 DEF Turn
<1>2. CASE Active(p) /\ peer[p].need /\ idle(peer[p])
  <2>1. Turn(m, p) = e
    BY <1>2 DEF Turn
  <2>2. /\ w \subseteq Range(peer[p].toget) /\ w \cap taken = {} /\ w \cap active = {}
        /\ w \cap Early = {}
    <3>1. w \subseteq Wanted(peer[p], taken)
      BY DEF FirstWanted
    <3> HIDE DEF w, taken
    <3> QED BY <3>1 DEF Wanted, have_already_received, Early
  <2>3. w \subseteq Blocks
    <3>1. peer[p] \in Connection
      BY DEF TypeOK
    <3>2. peer[p].toget \in Seq(Blocks)
      BY <3>1, ConnectionFields
    <3>3. Range(peer[p].toget) \in SUBSET Blocks
      BY ONLY <3>2, RangeOfSeq
    <3> QED BY <3>3, <2>2
  <2>4. \A q \in Peers: m[q] \subseteq taken
    OBVIOUS
  <2> HIDE DEF w, taken
  <2>5. m \in [Peers -> SUBSET Blocks]
    BY DEF Shared
  <2>6. /\ e \in [Peers -> SUBSET Blocks] /\ e[p] = w
        /\ \A q \in Peers: q # p => e[q] = m[q]
    BY <2>3, <2>5
  <2> HIDE DEF e
  <2>7. ASSUME NEW q \in Peers, NEW s \in Peers, q # s PROVE e[q] \cap e[s] = {}
    <3>1. m[q] \cap m[s] = {}
      BY <2>7 DEF Shared
    <3>2. m[q] \subseteq taken /\ m[s] \subseteq taken
      BY <2>4
    <3> QED BY <3>1, <3>2, <2>2, <2>6, <2>7
  <2>8. ASSUME NEW q \in Peers
        PROVE  /\ e[q] \subseteq Range(peer[q].toget)
               /\ e[q] \cap active = {} /\ e[q] \cap Early = {}
               /\ e[q] # {} => peer[q].need /\ idle(peer[q])
    <3>1. CASE q = p
      BY <3>1, <2>2, <2>6, <1>2
    <3>2. CASE q # p
      <4>1. e[q] = m[q]
        BY <3>2, <2>6
      <4> QED BY <4>1 DEF Shared
    <3> QED BY <3>1, <3>2
  <2> QED BY <2>1, <2>6, <2>7, <2>8 DEF Shared
<1> QED BY <1>1, <1>2

LEMMA RequestsShared ==
    ASSUME TypeOK, NEW order \in SetToSeqs(Peers)
    PROVE  Shared(Requests(order))
<1> DEFINE k == Len(order)
           f == CHOOSE f: IsPass(f, order, k)
<1>1. k \in Nat /\ \A i \in 1..k: order[i] \in Peers
  <2>1. Cardinality(Peers) \in Nat
    BY SyncAssumption, FS_CardinalityType
  <2>2. order \in [1..Cardinality(Peers) -> Peers]
    BY DEF SetToSeqs
  <2>3. order \in Seq(Peers) /\ Len(order) = Cardinality(Peers)
    BY <2>1, <2>2
  <2> QED BY <2>1, <2>2, <2>3
<1>2. Requests(order) = f[k]
  BY DEF Requests, IsPass, Turn
<1> HIDE DEF k
<1>3. IsPass(f, order, k)
  BY <1>1, PassExists
<1> HIDE DEF f
<1>4. \A n \in 0..k:
        f[n] = IF n = 0 THEN [p \in Peers |-> {}] ELSE Turn(f[n - 1], order[n])
  BY <1>3 DEF IsPass
<1> DEFINE B == {n \in 0..k: ~Shared(f[n])}
<1>5. ASSUME B # {} PROVE FALSE
  <2>1. B \subseteq Nat
    BY <1>1
  <2>2. PICK n \in B: \A j \in B: n <= j
    <3> HIDE DEF B
    <3> QED BY <1>5, <2>1, SmallestOf
  <2>3. n \in 0..k /\ n \in Nat
    BY <2>1
  <2>4. CASE n = 0
    <3>1. f[n] = [p \in Peers |-> {}]
      BY <1>4, <2>3, <2>4
    <3>2. Shared(f[n])
      BY <3>1 DEF Shared
    <3> QED BY <3>2
  <2>5. CASE n # 0
    <3>1. n - 1 \in 0..k /\ n - 1 \notin B /\ n \in 1..k
      BY <2>2, <2>3, <2>5, <1>1
    <3>2. Shared(f[n - 1]) /\ order[n] \in Peers
      BY <3>1, <1>1
    <3>3. f[n] = Turn(f[n - 1], order[n])
      BY <1>4, <2>3, <2>5
    <3>4. Shared(f[n])
      BY <3>2, <3>3, TurnShared
    <3> QED BY <3>4
  <2> QED BY <2>4, <2>5
<1>6. k \in 0..k /\ k \notin B
  BY <1>1, <1>5
<1> QED BY <1>2, <1>6

LEMMA FetchLoopInv ==
    ASSUME Inv, fetch_sync_items_loop
    PROVE  Inv' /\ \A p \in Peers: peer'[p].need = peer[p].need
<1>0. /\ UNCHANGED <<chain, height, recent, new, received, calls, suspended,
                     backlog, connects, refusals>>
      /\ fetch' = FALSE
  BY DEF fetch_sync_items_loop
<1>1. Early' = Early /\ Given' = Given /\ (InOrder => InOrder')
  BY <1>0 DEF Early, Given, InOrder
<1>2. CASE suspended
  <2>1. UNCHANGED <<peer, active>>
    BY <1>2 DEF fetch_sync_items_loop
  <2>2. SoundInv' /\ OneRequest'
    BY <2>1, <1>0, <1>1 DEF Inv, SoundInv, OneRequest
  <2>3. OrderInv'
    BY <2>1, <1>0, <1>1 DEF Inv, OrderInv
  <2>4. TypeOK'
    BY <2>1, <1>0 DEF Inv, TypeOK
  <2> QED BY <2>1, <2>2, <2>3, <2>4 DEF Inv
<1>3. CASE ~suspended
  <2>1. PICK order \in SetToSeqs(Peers):
          /\ peer' = [p \in Peers |-> [peer[p] EXCEPT !.req = @ \cup Requests(order)[p]]]
          /\ active' = active \cup UNION {Requests(order)[p]: p \in Peers}
    BY <1>3 DEF fetch_sync_items_loop
  <2> DEFINE m == Requests(order)
  <2>2. Shared(m)
    BY RequestsShared DEF Inv
  <2>3. /\ peer' = [p \in Peers |-> [peer[p] EXCEPT !.req = @ \cup m[p]]]
        /\ active' = active \cup UNION {m[p]: p \in Peers}
    BY <2>1
  <2> HIDE DEF m
  <2>4. /\ m \in [Peers -> SUBSET Blocks]
        /\ \A p, q \in Peers: p # q => m[p] \cap m[q] = {}
        /\ \A p \in Peers: /\ m[p] \subseteq Range(peer[p].toget)
                           /\ m[p] \cap active = {} /\ m[p] \cap Early = {}
                           /\ m[p] # {} => peer[p].need /\ idle(peer[p])
    BY <2>2 DEF Shared
  <2>5. ASSUME NEW p \in Peers
        PROVE  /\ Sound(peer[p], chain[p], active, Early)
               /\ peer[p] \in Connection
               /\ peer'[p] \in Connection
               /\ peer'[p].req = peer[p].req \cup m[p]
               /\ peer'[p].toget = peer[p].toget /\ peer'[p].last = peer[p].last
               /\ peer'[p].asked = peer[p].asked /\ peer'[p].need = peer[p].need
    <3>1. Sound(peer[p], chain[p], active, Early) /\ peer[p] \in Connection
      BY DEF Inv, SoundInv, Sound
    <3>2. peer'[p] = [peer[p] EXCEPT !.req = @ \cup m[p]] /\ m[p] \subseteq Blocks
      BY <2>3, <2>4
    <3> QED BY <3>1, <3>2 DEF Connection
  <2>6. peer' \in [Peers -> Connection]
    BY <2>3, <2>5
  <2>7. ASSUME NEW p \in Peers PROVE Sound(peer'[p], chain'[p], active', Early')
    <3>1. /\ Listed(peer[p], chain[p]) /\ Covered(peer[p])
          /\ peer[p].req \subseteq active /\ peer[p].req \subseteq Range(peer[p].toget)
          /\ peer[p].req \cap Early = {}
          /\ (peer[p].asked # {} \/ ~peer[p].need => peer[p].req = {})
      BY <2>5 DEF Sound
    <3>2. Listed(peer'[p], chain[p]) /\ Covered(peer'[p])
      BY <3>1, <2>5 DEF Listed, Covered
    <3>3. peer'[p].req \subseteq active'
      BY <3>1, <2>3, <2>5
    <3>4. peer'[p].req \subseteq Range(peer'[p].toget)
      BY <3>1, <2>4, <2>5
    <3>5. peer'[p].req \cap Early = {}
      BY <3>1, <2>4, <2>5
    <3>6. peer'[p].asked # {} \/ ~peer'[p].need => peer'[p].req = {}
      BY <3>1, <2>4, <2>5 DEF idle
    <3> QED BY <3>2, <3>3, <3>4, <3>5, <3>6, <2>5, <1>0, <1>1 DEF Sound
  <2>8. ASSUME NEW p \in Peers, NEW q \in Peers, p # q PROVE peer'[p].req \cap peer'[q].req = {}
    <3>1. peer[p].req \cap peer[q].req = {}
      BY <2>8 DEF Inv, OneRequest
    <3>2. peer[p].req \subseteq active /\ peer[q].req \subseteq active
      BY <2>5 DEF Sound
    <3>3. m[p] \cap active = {} /\ m[q] \cap active = {} /\ m[p] \cap m[q] = {}
      BY <2>4, <2>8
    <3> QED BY <3>1, <3>2, <3>3, <2>5
  <2>9. ASSUME refusals' = 0 PROVE InOrder' /\ \A p \in Peers: Behind(peer'[p], Given')
    <3>1. InOrder /\ \A p \in Peers: Behind(peer[p], Given)
      BY <2>9, <1>0 DEF Inv, OrderInv
    <3>2. ASSUME NEW p \in Peers PROVE Behind(peer'[p], Given')
      BY <3>1, <2>5, <1>1 DEF Behind, Started, Asked
    <3> QED BY <3>1, <3>2, <1>1
  <2>10. active' \subseteq Blocks
    BY <2>3, <2>4 DEF Inv, TypeOK
  <2>11. TypeOK'
    BY <2>6, <2>10, <1>0 DEF Inv, TypeOK
  <2> QED BY <2>5, <2>7, <2>8, <2>9, <2>11 DEF Inv, SoundInv, OneRequest, OrderInv
<1> QED BY <1>2, <1>3 DEF Inv, TypeOK

-----------------------------------------------------------------------------
(* The backlog.                                                            *)

(* The first block of a peer's list has arrived and leaves the list.       *)
Taken(r, b) == [r EXCEPT !.toget = Tail(@), !.being = @ \cup {b}]

LEMMA TakenSound ==
    ASSUME NEW r, NEW c, NEW A, NEW R, Sound(r, c, A, R), r.toget # <<>>,
           NEW b, b = Head(r.toget), b \in R, NEW x, x = Taken(r, b)
    PROVE  /\ Sound(x, c, A, R) /\ x.req = r.req /\ x.need = r.need
           /\ \A G, H: Behind(r, G) /\ G \subseteq H /\ b \in H => Behind(x, H)
<1>1. r \in Connection /\ r.toget \in Seq(Blocks) /\ r.being \subseteq Blocks
      /\ Consecutive(r.toget) /\ Last(r.toget) <= c
  <2>1. r \in Connection /\ Listed(r, c)
    BY DEF Sound
  <2> QED BY <2>1, ConnectionFields DEF Listed
<1>2. /\ Tail(r.toget) \in Seq(Blocks) /\ Consecutive(Tail(r.toget))
      /\ Range(r.toget) = {b} \cup Range(Tail(r.toget))
      /\ Tail(r.toget) # <<>> => Head(Tail(r.toget)) = b + 1 /\ Last(Tail(r.toget)) = Last(r.toget)
  BY <1>1, ConsecutiveTail, BlocksAreNumbers
<1>3. b \in Blocks
  BY <1>1, HeadTailProperties
<1>4. /\ x \in Connection /\ x.toget = Tail(r.toget) /\ x.req = r.req /\ x.need = r.need
      /\ x.asked = r.asked /\ x.last = r.last
  BY <1>1, <1>2, <1>3 DEF Connection, Taken
<1>5. Listed(x, c) /\ Covered(x)
  BY <1>1, <1>2, <1>4 DEF Listed, Covered, Sound
<1>6. Sound(x, c, A, R)
  <2>1. r.req \subseteq A /\ r.req \subseteq Range(r.toget) /\ r.req \cap R = {}
        /\ (r.asked # {} \/ ~r.need => r.req = {})
    BY DEF Sound
  <2>2. x.req \subseteq Range(x.toget)
    BY <2>1, <1>2, <1>4
  <2> QED BY <2>1, <2>2, <1>4, <1>5 DEF Sound
<1>7. ASSUME NEW G, NEW H, Behind(r, G), G \subseteq H, b \in H PROVE Behind(x, H)
  <2>1. x.toget # <<>> => Head(x.toget) - 1 = b
    <3>1. b \in Nat
      BY <1>3, BlockIsNumber
    <3>2. x.toget # <<>> => Head(x.toget) = b + 1
      BY <1>2, <1>4
    <3> QED BY ONLY <3>1, <3>2
  <2>2. Started(x, H)
    BY <2>1, <1>4, <1>7 DEF Behind, Started
  <2>3. Asked(x, H)
    BY <1>2, <1>4, <1>7 DEF Behind, Asked
  <2> QED BY <2>2, <2>3 DEF Behind
<1> QED BY <1>4, <1>6, <1>7

LEMMA RemoveAtShape ==
    ASSUME NEW s \in Seq(Blocks), NEW i \in 1..Len(s)
    PROVE  RemoveAt(s, i) \in Seq(Blocks) /\ Range(RemoveAt(s, i)) \subseteq Range(s)
<1> DEFINE R == Range(s)
           u == SubSeq(s, 1, i - 1)
           v == SubSeq(s, i + 1, Len(s))
<1>1. Len(s) \in Nat /\ DOMAIN s = 1..Len(s) /\ i \in Nat
  BY LenProperties
<1>2. \A j \in 1..Len(s): s[j] \in R
  BY <1>1 DEF Range
<1>3. R \subseteq Blocks
  <2>1. Range(s) \in SUBSET Blocks
    BY RangeOfSeq
  <2> QED BY <2>1
<1> HIDE DEF R
<1>4. \A j \in 1..(i - 1): s[j] \in R
  BY <1>1, <1>2
<1>5. \A j \in (i + 1)..Len(s): s[j] \in R
  BY <1>1, <1>2
<1>6. u \in Seq(R) /\ v \in Seq(R)
  BY <1>1, <1>4, <1>5, SubSeqProperties
<1>7. RemoveAt(s, i) = u \o v
  BY DEF RemoveAt
<1> HIDE DEF u, v
<1>8. u \o v \in Seq(R)
  BY <1>6, ConcatProperties
<1>9. Range(u \o v) \in SUBSET R
  BY ONLY <1>8, RangeOfSeq
<1>10. u \o v \in Seq(Blocks)
  BY ONLY <1>3, <1>8, SeqMonotonic
<1> QED BY <1>7, <1>9, <1>10 DEF R

(* InOrder, of any list of calls.                                          *)
Ordered(c) ==
    \A i \in DOMAIN c: c[i] <= height + 1 \/ \E j \in 1..(i - 1): c[j] = c[i] - 1

LEMMA AppendShape ==
    ASSUME NEW c \in Seq(Blocks), NEW b \in Blocks, NEW d, d = Append(c, b)
    PROVE  /\ d \in Seq(Blocks) /\ Len(d) = Len(c) + 1 /\ Range(d) = Range(c) \cup {b}
           /\ d[Len(c) + 1] = b /\ \A i \in 1..Len(c): d[i] = c[i]
<1>1. Len(c) \in Nat /\ DOMAIN c = 1..Len(c)
  BY LenProperties
<1>2. /\ d \in Seq(Blocks) /\ Len(d) = Len(c) + 1 /\ d[Len(c) + 1] = b
      /\ \A i \in 1..Len(c): d[i] = c[i]
  BY AppendProperties
<1>3. DOMAIN d = 1..(Len(c) + 1)
  BY <1>2, LenProperties
<1>4. \A i \in 1..(Len(c) + 1): i \in 1..Len(c) \/ i = Len(c) + 1
  BY <1>1
<1>5. Len(c) + 1 \in 1..(Len(c) + 1) /\ \A i \in 1..Len(c): i \in 1..(Len(c) + 1)
  BY <1>1
<1>6. Range(d) = Range(c) \cup {b}
  BY <1>1, <1>2, <1>3, <1>4, <1>5 DEF Range
<1> QED BY <1>2, <1>6

(* A call may be added for a block whose parent was given.                 *)
LEMMA OrderedAppend ==
    ASSUME height \in Nat, NEW c \in Seq(Blocks), Ordered(c), NEW b \in Blocks,
           b - 1 \in (0..height) \cup Range(c), NEW d, d = Append(c, b)
    PROVE  Ordered(d)
<1>1. Len(c) \in Nat /\ DOMAIN c = 1..Len(c) /\ b \in Nat
  BY LenProperties, BlockIsNumber
<1>2. /\ d \in Seq(Blocks) /\ Len(d) = Len(c) + 1 /\ d[Len(c) + 1] = b
      /\ \A i \in 1..Len(c): d[i] = c[i]
  BY AppendShape
<1>3. DOMAIN d = 1..(Len(c) + 1)
  BY <1>2, LenProperties
<1>4. ASSUME NEW i \in DOMAIN d
      PROVE  d[i] <= height + 1 \/ \E j \in 1..(i - 1): d[j] = d[i] - 1
  <2>1. CASE i \in 1..Len(c)
    <3>1. d[i] = c[i] /\ (c[i] <= height + 1 \/ \E j \in 1..(i - 1): c[j] = c[i] - 1)
      BY <2>1, <1>1, <1>2 DEF Ordered
    <3>2. \A j \in 1..(i - 1): d[j] = c[j]
      BY <2>1, <1>1, <1>2
    <3> QED BY <3>1, <3>2
  <2>2. CASE i = Len(c) + 1
    <3>1. d[i] = b
      BY <2>2, <1>2
    <3>2. CASE b - 1 \in 0..height
      BY <3>1, <3>2, <1>1
    <3>3. CASE b - 1 \in Range(c)
      <4>1. PICK j \in 1..Len(c): c[j] = b - 1
        BY <3>3, <1>1 DEF Range
      <4>2. j \in 1..(i - 1) /\ d[j] = d[i] - 1
        BY <4>1, <3>1, <2>2, <1>1, <1>2
      <4> QED BY <4>2
    <3> QED BY <3>2, <3>3
  <2> QED BY <2>1, <2>2, <1>1, <1>3
<1> QED BY <1>4 DEF Ordered

(* What holds between two iterations of the loop.                          *)
Draining(st) ==
    /\ st.peer \in [Peers -> Connection]
    /\ \A p \in Peers: /\ Sound(st.peer[p], chain[p], active, Early)
                       /\ st.peer[p].req = peer[p].req /\ st.peer[p].need = peer[p].need
    /\ st.received \in Seq(Blocks) /\ Range(st.received) \subseteq Early
    /\ st.calls \in Seq(Blocks) /\ Len(st.calls) <= MaxHandle
    /\ st.again => Len(st.calls) < MaxHandle
    /\ st.suspended \in BOOLEAN
    /\ refusals = 0 =>
         /\ Ordered(st.calls)
         /\ \A p \in Peers: Behind(st.peer[p], (0..height) \cup Range(st.calls))

LEMMA BacklogStepDraining ==
    ASSUME TypeOK, NEW st, Draining(st), st.again
    PROVE  Draining(BacklogStep(st))
<1> DEFINE offering(k) == {p \in Peers: Active(p) /\ IsNext(st.peer[p], k)}
           found == {n \in DOMAIN st.received: offering(st.received[n]) # {}}
           i == IF found = {} THEN 0 ELSE Min(found)
           b == st.received[i]
           known == b \in recent
           calls2 == IF i = 0 \/ known THEN st.calls ELSE Append(st.calls, b)
           rest == IF i = 0 \/ known THEN st.received ELSE RemoveAt(st.received, i)
           e == BacklogStep(st)
<1>1. /\ e.peer = [p \in Peers |-> IF i # 0 /\ p \in offering(b) THEN Taken(st.peer[p], b)
                                                                ELSE st.peer[p]]
      /\ e.calls = calls2 /\ e.received = rest
      /\ e.suspended = (Full(Len(calls2)) /\ Len(rest) >= MaxPrefetch)
      /\ e.again = (i # 0 /\ ~known /\ ~Full(Len(calls2)))
  BY DEF BacklogStep, Taken
<1>2. /\ st.peer \in [Peers -> Connection]
      /\ st.received \in Seq(Blocks) /\ Range(st.received) \subseteq Early
      /\ st.calls \in Seq(Blocks) /\ Len(st.calls) < MaxHandle
      /\ MaxHandle \in Nat /\ Len(st.calls) \in Nat /\ height \in Nat
  <2>1. Len(st.calls) \in Nat /\ height \in Nat
    <3>1. st.calls \in Seq(Blocks) /\ height \in 0..MaxBlock
      BY DEF Draining, TypeOK
    <3> QED BY <3>1, LenProperties, BlocksAreNumbers
  <2> QED BY <2>1, SyncAssumption DEF Draining
<1>3. DOMAIN st.received = 1..Len(st.received) /\ Len(st.received) \in Nat
  BY <1>2, LenProperties
<1> SUFFICES Draining(e)
  OBVIOUS
<1> HIDE DEF e
<1>4. e.suspended \in BOOLEAN
  BY <1>1 DEF Full
<1>5. CASE found = {}
  <2>1. i = 0
    BY <1>5
  <2> HIDE DEF offering, i, found, b
  <2>2. e.calls = st.calls /\ e.received = st.received /\ ~e.again
    BY <1>1, <2>1
  <2>3. e.peer = st.peer
    BY <1>1, <1>2, <2>1
  <2> QED BY <2>2, <2>3, <1>4 DEF Draining
<1>6. CASE found # {}
  <2>1. i \in found
    <3>1. found \subseteq Nat
      BY <1>3
    <3> HIDE DEF found
    <3> QED BY <3>1, <1>6, MinIn
  <2>2. i \in 1..Len(st.received) /\ i # 0 /\ offering(b) # {}
    <3>1. i \in DOMAIN st.received /\ offering(st.received[i]) # {}
      <4> HIDE DEF i, offering
      <4> QED BY <2>1
    <3> HIDE DEF i, offering
    <3> QED BY <3>1, <1>3
  <2> HIDE DEF i, found
  <2>3. b \in Blocks /\ b \in Early
    <3>1. b \in Blocks
      BY <2>2, <1>2, ElementOfSeq
    <3>2. b \in Range(st.received)
      BY <2>2, <1>3 DEF Range
    <3> QED BY <3>1, <3>2, <1>2
  <2> HIDE DEF b
  <2>4. \A p \in offering(b): p \in Peers /\ st.peer[p].toget # <<>> /\ b = Head(st.peer[p].toget)
    BY DEF IsNext
  <2> HIDE DEF offering
  <2>5. ASSUME NEW p \in Peers
        PROVE  /\ p \in offering(b) => e.peer[p] = Taken(st.peer[p], b)
               /\ p \notin offering(b) => e.peer[p] = st.peer[p]
    BY <1>1, <2>2
  <2>6. ASSUME NEW p \in Peers
        PROVE  /\ Sound(e.peer[p], chain[p], active, Early)
               /\ e.peer[p].req = peer[p].req /\ e.peer[p].need = peer[p].need
               /\ \A G, H: Behind(st.peer[p], G) /\ G \subseteq H /\ b \in H => Behind(e.peer[p], H)
    <3>1. /\ Sound(st.peer[p], chain[p], active, Early)
          /\ st.peer[p].req = peer[p].req /\ st.peer[p].need = peer[p].need
      BY DEF Draining
    <3>2. CASE p \in offering(b)
      <4>1. /\ e.peer[p] = Taken(st.peer[p], b) /\ st.peer[p].toget # <<>>
            /\ b = Head(st.peer[p].toget)
        BY <3>2, <2>4, <2>5
      <4>2. /\ Sound(e.peer[p], chain[p], active, Early)
            /\ e.peer[p].req = st.peer[p].req /\ e.peer[p].need = st.peer[p].need
            /\ \A G, H: Behind(st.peer[p], G) /\ G \subseteq H /\ b \in H => Behind(e.peer[p], H)
        <5> HIDE DEF Early
        <5> QED BY ONLY <4>1, <3>1, <2>3, TakenSound
      <4> QED BY <4>2, <3>1
    <3>3. CASE p \notin offering(b)
      <4>1. e.peer[p] = st.peer[p]
        BY <3>3, <2>5
      <4>2. \A G, H: Behind(st.peer[p], G) /\ G \subseteq H => Behind(st.peer[p], H)
        BY BehindMore
      <4> QED BY <4>1, <4>2, <3>1
    <3> QED BY <3>2, <3>3
  <2>7. e.peer \in [Peers -> Connection]
    <3>1. \A p \in Peers: e.peer[p] \in Connection
      BY <2>6 DEF Sound
    <3>2. DOMAIN e.peer = Peers /\ e.peer = [p \in Peers |-> e.peer[p]]
      BY <1>1
    <3> QED BY <3>1, <3>2
  <2>8. ASSUME refusals = 0
        PROVE  /\ b - 1 \in (0..height) \cup Range(st.calls) /\ Ordered(st.calls)
               /\ \A p \in Peers: Behind(st.peer[p], (0..height) \cup Range(st.calls))
    <3>1. Ordered(st.calls) /\ \A p \in Peers: Behind(st.peer[p], (0..height) \cup Range(st.calls))
      BY <2>8 DEF Draining
    <3>2. PICK p \in Peers: st.peer[p].toget # <<>> /\ b = Head(st.peer[p].toget)
      BY <2>2, <2>4
    <3>3. Started(st.peer[p], (0..height) \cup Range(st.calls))
      BY <3>1 DEF Behind
    <3> QED BY <3>1, <3>2, <3>3 DEF Started
  <2>9. CASE known
    <3>1. e.calls = st.calls /\ e.received = st.received /\ ~e.again
      BY <1>1, <2>9
    <3>2. b \in 0..height
      <4>1. b \in 1..height
        BY <2>9 DEF TypeOK
      <4> QED BY <4>1, <1>2
    <3>3. ASSUME refusals = 0, NEW p \in Peers
          PROVE  Behind(e.peer[p], (0..height) \cup Range(e.calls))
      <4>1. Behind(st.peer[p], (0..height) \cup Range(st.calls))
        BY <3>3, <2>8
      <4>2. b \in (0..height) \cup Range(st.calls)
        BY <3>2
      <4> QED BY <4>1, <4>2, <3>1, <2>6
    <3>4. Len(e.calls) <= MaxHandle
      BY <3>1, <1>2
    <3> QED BY <3>1, <3>3, <3>4, <2>6, <2>7, <2>8, <1>2, <1>4 DEF Draining
  <2>10. CASE ~known
    <3>1. e.calls = Append(st.calls, b) /\ e.received = RemoveAt(st.received, i)
          /\ e.again = ~Full(Len(e.calls))
      BY <1>1, <2>2, <2>10
    <3>2. /\ e.calls \in Seq(Blocks) /\ Len(e.calls) = Len(st.calls) + 1
          /\ Range(e.calls) = Range(st.calls) \cup {b}
      <4>1. st.calls \in Seq(Blocks) /\ b \in Blocks /\ e.calls = Append(st.calls, b)
        BY <3>1, <2>3, <1>2
      <4> DEFINE c == st.calls
                 d == e.calls
      <4>2. c \in Seq(Blocks) /\ d = Append(c, b)
        BY <4>1
      <4> HIDE DEF c, d
      <4>3. d \in Seq(Blocks) /\ Len(d) = Len(c) + 1 /\ Range(d) = Range(c) \cup {b}
        BY ONLY <4>1, <4>2, AppendShape
      <4> QED BY <4>3 DEF c, d
    <3>3. Len(e.calls) <= MaxHandle /\ (e.again => Len(e.calls) < MaxHandle)
      <4>1. Len(e.calls) <= MaxHandle
        BY <3>2, <1>2
      <4>2. ASSUME e.again PROVE Len(e.calls) < MaxHandle
        <5>1. ~ (Len(e.calls) >= MaxHandle)
          BY <3>1, <4>2 DEF Full
        <5> QED BY <5>1, <3>2, <1>2
      <4> QED BY <4>1, <4>2
    <3>4. e.received \in Seq(Blocks) /\ Range(e.received) \subseteq Early
      <4>1. RemoveAt(st.received, i) \in Seq(Blocks)
            /\ Range(RemoveAt(st.received, i)) \subseteq Range(st.received)
        BY ONLY <2>2, <1>2, RemoveAtShape
      <4> QED BY <4>1, <3>1, <1>2
    <3>5. ASSUME refusals = 0 PROVE Ordered(e.calls)
      BY <3>1, <3>5, <2>3, <2>8, <1>2, OrderedAppend
    <3>6. ASSUME refusals = 0, NEW p \in Peers
          PROVE  Behind(e.peer[p], (0..height) \cup Range(e.calls))
      <4>1. Behind(st.peer[p], (0..height) \cup Range(st.calls))
        BY <3>6, <2>8
      <4>2. (0..height) \cup Range(st.calls) \subseteq (0..height) \cup Range(e.calls)
            /\ b \in (0..height) \cup Range(e.calls)
        BY <3>2
      <4> QED BY <4>1, <4>2, <2>6
    <3> QED BY <3>2, <3>3, <3>4, <3>5, <3>6, <2>6, <2>7, <1>4 DEF Draining
  <2> QED BY <2>9, <2>10
<1> QED BY <1>5, <1>6

Iterated(st) == IF st.again THEN BacklogStep(st) ELSE st

(* The equation of the recursive function inside                           *)
(* process_backlog_of_sync_blocks, up to k iterations.                     *)
IsDrain(f, start, k) ==
    f = [n \in 0..k |-> IF n = 0 THEN start ELSE Iterated(f[n - 1])]

LEMMA DrainExists ==
    ASSUME NEW start, NEW n \in Nat
    PROVE  \E f: IsDrain(f, start, n)
<1> DEFINE B == {k \in Nat: ~ \E f: IsDrain(f, start, k)}
<1> SUFFICES ASSUME B # {} PROVE FALSE
  OBVIOUS
<1>1. PICK k \in B: \A j \in B: k <= j
  <2>1. B \subseteq Nat
    OBVIOUS
  <2> HIDE DEF B
  <2> QED BY ONLY <2>1, B # {}, SmallestOf
<1>2. CASE k = 0
  <2> DEFINE f == [i \in 0..0 |-> start]
  <2>1. f = [i \in 0..0 |-> IF i = 0 THEN start ELSE Iterated(f[i - 1])]
    OBVIOUS
  <2>2. IsDrain(f, start, 0)
    BY <2>1 DEF IsDrain
  <2> QED BY <2>2, <1>2
<1>3. CASE k # 0
  <2>1. k \in Nat /\ k - 1 \in Nat
    BY <1>3
  <2>2. k - 1 \notin B
    BY <1>1, <2>1
  <2>3. PICK f: IsDrain(f, start, k - 1)
    BY <2>1, <2>2
  <2>4. \A i \in 0..(k - 1): f[i] = IF i = 0 THEN start ELSE Iterated(f[i - 1])
    BY <2>3 DEF IsDrain
  <2> DEFINE e == [i \in 0..k |-> IF i < k THEN f[i] ELSE Iterated(f[k - 1])]
  <2>5. ASSUME NEW i \in 0..k
        PROVE  e[i] = IF i = 0 THEN start ELSE Iterated(e[i - 1])
    <3>1. CASE i = 0
      <4>1. e[0] = f[0] /\ 0 \in 0..(k - 1)
        BY <2>1, <1>3
      <4> QED BY <4>1, <3>1, <2>4
    <3>2. CASE i # 0 /\ i < k
      <4>1. e[i] = f[i] /\ e[i - 1] = f[i - 1] /\ i \in 0..(k - 1)
        BY <2>1, <3>2
      <4> QED BY <4>1, <3>2, <2>4
    <3>3. CASE i = k
      <4>1. e[k] = Iterated(f[k - 1]) /\ e[k - 1] = f[k - 1]
        BY <2>1
      <4> QED BY <4>1, <3>3, <1>3
    <3> QED BY <3>1, <3>2, <3>3, <2>1
  <2>6. IsDrain(e, start, k)
    <3>1. e = [i \in 0..k |-> e[i]]
      OBVIOUS
    <3> HIDE DEF e
    <3> QED BY <3>1, <2>5 DEF IsDrain
  <2> QED BY <2>6
<1> QED BY <1>2, <1>3

LEMMA DrainDraining ==
    ASSUME TypeOK, NEW start, Draining(start), NEW k \in Nat, NEW f, IsDrain(f, start, k)
    PROVE  Draining(f[k])
<1>1. \A n \in 0..k: f[n] = IF n = 0 THEN start ELSE Iterated(f[n - 1])
  BY DEF IsDrain
<1> DEFINE B == {n \in 0..k: ~Draining(f[n])}
<1>2. ASSUME B # {} PROVE FALSE
  <2>1. B \subseteq Nat
    OBVIOUS
  <2>2. PICK n \in B: \A j \in B: n <= j
    <3> HIDE DEF B
    <3> QED BY <1>2, <2>1, SmallestOf
  <2>3. n \in 0..k /\ n \in Nat /\ ~Draining(f[n])
    OBVIOUS
  <2>4. CASE n = 0
    <3>1. f[n] = start
      BY <1>1, <2>3, <2>4
    <3> QED BY <3>1, <2>3
  <2>5. CASE n # 0
    <3>1. n - 1 \in 0..k /\ n - 1 \notin B
      BY <2>2, <2>3, <2>5
    <3>2. Draining(f[n - 1])
      BY <3>1
    <3>3. f[n] = Iterated(f[n - 1])
      BY <1>1, <2>3, <2>5
    <3>4. CASE f[n - 1].again
      <4>1. f[n] = BacklogStep(f[n - 1])
        BY <3>3, <3>4 DEF Iterated
      <4> HIDE DEF B
      <4>2. Draining(BacklogStep(f[n - 1]))
        BY <3>2, <3>4, BacklogStepDraining
      <4> QED BY <4>1, <4>2, <2>3
    <3>5. CASE ~f[n - 1].again
      <4>1. f[n] = f[n - 1]
        BY <3>3, <3>5 DEF Iterated
      <4> QED BY <4>1, <3>2, <2>3
    <3> QED BY <3>4, <3>5
  <2> QED BY <2>4, <2>5
<1>3. k \in 0..k /\ k \notin B
  BY <1>2
<1> QED BY <1>3

LEMMA ReverseShape ==
    ASSUME NEW s \in Seq(Blocks)
    PROVE  Reverse(s) \in Seq(Blocks) /\ Range(Reverse(s)) = Range(s)
<1> DEFINE n == Len(s)
           t == [i \in 1..n |-> s[(n - i) + 1]]
<1>1. n \in Nat /\ DOMAIN s = 1..n /\ \A i \in 1..n: s[i] \in Blocks
  BY LenProperties, ElementOfSeq
<1>2. Reverse(s) = t
  BY DEF Reverse
<1> HIDE DEF n
<1>3. \A i \in 1..n: (n - i) + 1 \in 1..n /\ (n - ((n - i) + 1)) + 1 = i
  BY <1>1
<1>4. t \in [1..n -> Blocks]
  BY <1>1, <1>3
<1>5. t \in Seq(Blocks) /\ DOMAIN t = 1..n
  BY <1>1, <1>4
<1>6. \A i \in 1..n: t[i] = s[(n - i) + 1]
  OBVIOUS
<1> HIDE DEF t
<1>7. \A i \in 1..n: s[i] = t[(n - i) + 1]
  BY <1>3, <1>6
<1>8. Range(t) = Range(s)
  BY <1>1, <1>3, <1>5, <1>6, <1>7 DEF Range
<1> QED BY <1>2, <1>5, <1>8

LEMMA BacklogInv ==
    ASSUME Inv, process_backlog_of_sync_blocks
    PROVE  Inv' /\ \A p \in Peers: peer'[p].need = peer[p].need
<1>0. UNCHANGED <<chain, height, recent, active, connects, refusals>> /\ backlog' = FALSE
  BY DEF process_backlog_of_sync_blocks
<1>1. CASE Full(Len(calls))
  <2>1. UNCHANGED <<peer, calls, new, received, suspended, fetch>>
    BY <1>1 DEF process_backlog_of_sync_blocks
  <2>2. Early' = Early /\ Given' = Given /\ (InOrder => InOrder')
    BY <2>1, <1>0 DEF Early, Given, InOrder
  <2>3. SoundInv' /\ OneRequest'
    BY <2>1, <2>2, <1>0 DEF Inv, SoundInv, OneRequest
  <2>4. OrderInv'
    BY <2>1, <2>2, <1>0 DEF Inv, OrderInv
  <2>5. TypeOK'
    BY <2>1, <1>0 DEF Inv, TypeOK
  <2> QED BY <2>1, <2>3, <2>4, <2>5 DEF Inv
<1>2. CASE ~Full(Len(calls))
  <2> DEFINE all == Reverse(new) \o received
             start == [peer |-> peer, calls |-> calls, received |-> all,
                       suspended |-> FALSE, again |-> TRUE]
             k == Len(all) + 1
             f == CHOOSE f: IsDrain(f, start, k)
             e == f[k]
  <2>1. /\ peer' = e.peer /\ calls' = e.calls /\ received' = e.received /\ new' = <<>>
        /\ suspended' = e.suspended /\ fetch' = (fetch \/ ~e.suspended)
    BY <1>2 DEF process_backlog_of_sync_blocks, IsDrain, Iterated
  <2>2. all \in Seq(Blocks) /\ Range(all) = Early
    <3>1. new \in Seq(Blocks) /\ received \in Seq(Blocks)
      BY DEF Inv, TypeOK
    <3> DEFINE t == Reverse(new)
    <3>2. t \in Seq(Blocks) /\ Range(t) = Range(new)
      BY <3>1, ReverseShape
    <3> HIDE DEF t
    <3>3. t \o received \in Seq(Blocks)
      BY <3>1, <3>2, ConcatProperties
    <3>4. Range(t \o received) = Range(t) \cup Range(received)
      BY ONLY <3>1, <3>2, RangeConcatenation
    <3> QED BY <3>2, <3>3, <3>4 DEF Early, t
  <2>3. k \in Nat
    <3> HIDE DEF all
    <3> QED BY <2>2, LenProperties
  <2> HIDE DEF all, k
  <2>4. Draining(start)
    <3>1. start.peer = peer /\ start.calls = calls /\ start.received = all
          /\ start.suspended = FALSE
      OBVIOUS
    <3> HIDE DEF start
    <3>2. /\ peer \in [Peers -> Connection] /\ calls \in Seq(Blocks) /\ Len(calls) <= MaxHandle
      BY DEF Inv, TypeOK
    <3>3. Len(calls) < MaxHandle
      <4>1. Len(calls) \in Nat /\ MaxHandle \in Nat
        BY <3>2, LenProperties, SyncAssumption
      <4> QED BY <4>1, <1>2 DEF Full
    <3>4. \A p \in Peers: Sound(peer[p], chain[p], active, Early)
      BY DEF Inv, SoundInv
    <3>5. ASSUME refusals = 0
          PROVE  Ordered(calls) /\ \A p \in Peers: Behind(peer[p], (0..height) \cup Range(calls))
      BY <3>5 DEF Inv, OrderInv, InOrder, Ordered, Given
    <3> QED BY <3>1, <3>2, <3>3, <3>4, <3>5, <2>2 DEF Draining
  <2> HIDE DEF start
  <2>5. IsDrain(f, start, k)
    BY <2>3, DrainExists
  <2> HIDE DEF f
  <2>6. Draining(e)
    BY <2>3, <2>4, <2>5, DrainDraining DEF Inv
  <2> HIDE DEF e
  <2>7. /\ e.peer \in [Peers -> Connection]
        /\ \A p \in Peers: /\ Sound(e.peer[p], chain[p], active, Early)
                           /\ e.peer[p].req = peer[p].req /\ e.peer[p].need = peer[p].need
        /\ e.received \in Seq(Blocks) /\ Range(e.received) \subseteq Early
        /\ e.calls \in Seq(Blocks) /\ Len(e.calls) <= MaxHandle
        /\ e.suspended \in BOOLEAN
        /\ refusals = 0 =>
             /\ Ordered(e.calls)
             /\ \A p \in Peers: Behind(e.peer[p], (0..height) \cup Range(e.calls))
    BY <2>6 DEF Draining
  <2>8. Early' \subseteq Early
    <3>1. Early' = Range(e.received) \cup Range(<<>>)
      BY <2>1 DEF Early
    <3> QED BY <3>1, <2>7, RangeEmpty
  <2>9. ASSUME NEW p \in Peers PROVE Sound(peer'[p], chain'[p], active', Early')
    <3>1. Sound(e.peer[p], chain[p], active, Early)
      BY <2>7
    <3>2. e.peer[p].req \cap Early' = {}
      BY <3>1, <2>8 DEF Sound
    <3>3. Sound(e.peer[p], chain[p], active, Early')
      BY <3>1, <3>2 DEF Sound
    <3> QED BY <3>3, <2>1, <1>0
  <2>10. OneRequest'
    BY <2>1, <2>7 DEF Inv, OneRequest
  <2>11. ASSUME refusals' = 0 PROVE InOrder' /\ \A p \in Peers: Behind(peer'[p], Given')
    <3>1. Ordered(e.calls) /\ \A p \in Peers: Behind(e.peer[p], (0..height) \cup Range(e.calls))
      BY <2>7, <2>11, <1>0
    <3>2. InOrder'
      BY <3>1, <2>1, <1>0 DEF InOrder, Ordered
    <3>3. Given' = (0..height) \cup Range(e.calls)
      BY <2>1, <1>0 DEF Given
    <3> QED BY <3>1, <3>2, <3>3, <2>1
  <2>12. TypeOK'
    <3>1. new' \in Seq(Blocks) /\ fetch' \in BOOLEAN
      BY <2>1, <2>7, EmptySeq DEF Inv, TypeOK
    <3> QED BY <3>1, <2>1, <2>7, <1>0 DEF Inv, TypeOK
  <2> QED BY <2>1, <2>7, <2>9, <2>10, <2>11, <2>12 DEF Inv, SoundInv, OrderInv
<1> QED BY <1>1, <1>2

-----------------------------------------------------------------------------
(* Blocks that the chain takes or refuses.                                 *)

LEMMA AcceptedSound ==
    ASSUME NEW r, NEW c, NEW A, NEW R, Sound(r, c, A, R), NEW b \in Blocks,
           NEW h \in 0..MaxBlock, NEW x, x = AfterAccepted(r, b, h)
    PROVE  /\ Sound(x, c, A, R) /\ x.req = r.req /\ (r.need => x.need)
           /\ \A G: Closed(G) /\ 0..h \subseteq G /\ b \in G /\ Behind(r, G) => Behind(x, G)
<1> DEFINE q == [r EXCEPT !.being = @ \ {b}, !.last = b]
           ask == q.toget = <<>> /\ q.unfetched = 0 /\ q.being = {}
<1>1. r \in Connection /\ Listed(r, c) /\ Covered(r) /\ Consecutive(r.toget)
      /\ r.req \subseteq Range(r.toget) /\ (~r.need => r.req = {})
  BY DEF Sound, Listed
<1>2. /\ q \in Connection /\ q.toget = r.toget /\ q.last = b /\ q.req = r.req
      /\ q.need = r.need /\ q.asked = r.asked
  <2>1. b \in 0..MaxBlock
    BY BlockIsNumber
  <2> QED BY <2>1, <1>1 DEF Connection
<1>3. x = CASE r.toget = <<>> /\ r.being = {} ->
                 IF ~r.needed /\ ~r.need THEN start_synchronizing(r, h) ELSE r
            [] b \in r.being -> IF ask THEN fetch_next_batch(q, h) ELSE q
            [] OTHER -> r
  BY DEF AfterAccepted
<1>4. \/ x = start_synchronizing(r, h) /\ ~r.need
      \/ x = r
      \/ x = fetch_next_batch(q, h) /\ q.toget = <<>>
      \/ x = q
  <2> HIDE DEF q
  <2>1. CASE r.toget = <<>> /\ r.being = {}
    <3>1. ~ (b \in r.being)
      BY <2>1
    <3> QED BY <2>1, <3>1, <1>3
  <2>2. CASE ~ (r.toget = <<>> /\ r.being = {}) /\ b \in r.being
    <3>1. x = IF ask THEN fetch_next_batch(q, h) ELSE q
      BY <2>2, <1>3
    <3> QED BY <3>1
  <2>3. CASE ~ (r.toget = <<>> /\ r.being = {}) /\ ~ (b \in r.being)
    BY <2>3, <1>3
  <2> QED BY <2>1, <2>2, <2>3
<1> HIDE DEF q, ask
<1>5. Sound(q, c, A, R)
  BY <1>1, <1>2 DEF Sound, Listed, Covered
<1>6. \A G: b \in G /\ Behind(r, G) => Behind(q, G)
  BY <1>2 DEF Behind, Started, Asked
<1>7. CASE x = start_synchronizing(r, h) /\ ~r.need
  <2>1. r.req = {}
    BY <1>1, <1>7
  <2>2. /\ Sound(x, c, A, R) /\ x.req = {}
        /\ \A G: Closed(G) /\ 0..h \subseteq G => Behind(x, G)
    BY <2>1, <1>1, <1>7, RestartSound
  <2> QED BY <2>1, <2>2, <1>7
<1>8. CASE x = r
  BY <1>8
<1>9. CASE x = fetch_next_batch(q, h) /\ q.toget = <<>>
  <2>1. Consecutive(q.toget) /\ r.req = {}
    BY <1>1, <1>2, <1>9, RangeEmpty
  <2>2. /\ x \in Connection /\ x.toget = q.toget /\ x.last = q.last /\ x.req = q.req
        /\ x.need = q.need /\ Covered(x)
        /\ \A G: Closed(G) /\ 0..h \subseteq G /\ q.last \in G => Asked(x, G)
    BY <2>1, <1>2, <1>9, AskShape
  <2>3. Sound(x, c, A, R)
    BY <2>1, <2>2, <1>2, <1>5 DEF Sound, Listed
  <2>4. ASSUME NEW G, Closed(G), 0..h \subseteq G, b \in G, Behind(r, G) PROVE Behind(x, G)
    <3>1. Asked(x, G)
      BY <2>2, <2>4, <1>2
    <3>2. Started(x, G)
      BY <2>2, <2>4, <1>2, <1>9 DEF Started
    <3> QED BY <3>1, <3>2 DEF Behind
  <2> QED BY <2>2, <2>3, <2>4, <1>2
<1>10. CASE x = q
  BY <1>2, <1>5, <1>6, <1>10
<1> QED BY <1>4, <1>7, <1>8, <1>9, <1>10

(* The calls without the first one.                                        *)
LEMMA CallsTail ==
    ASSUME NEW s \in Seq(Blocks), s # <<>>
    PROVE  /\ Head(s) = s[1] /\ Head(s) \in Blocks
           /\ Tail(s) \in Seq(Blocks) /\ Len(Tail(s)) = Len(s) - 1
           /\ Len(s) \in Nat \ {0} /\ DOMAIN s = 1..Len(s) /\ DOMAIN Tail(s) = 1..(Len(s) - 1)
           /\ \A i \in 1..(Len(s) - 1): Tail(s)[i] = s[i + 1]
           /\ Range(s) = {Head(s)} \cup Range(Tail(s))
<1>1. Len(s) \in Nat \ {0} /\ DOMAIN s = 1..Len(s) /\ Head(s) = s[1]
  BY EmptySeq, LenProperties
<1>2. /\ Head(s) \in Blocks /\ Tail(s) \in Seq(Blocks) /\ Len(Tail(s)) = Len(s) - 1
      /\ \A i \in 1..Len(Tail(s)): Tail(s)[i] = s[i + 1]
  BY HeadTailProperties
<1>3. DOMAIN Tail(s) = 1..(Len(s) - 1)
  BY <1>2, LenProperties
<1>4. ASSUME NEW i \in 1..Len(s) PROVE s[i] \in {Head(s)} \cup Range(Tail(s))
  <2>1. CASE i = 1
    BY <2>1, <1>1
  <2>2. CASE i # 1
    <3>1. i - 1 \in 1..(Len(s) - 1) /\ (i - 1) + 1 = i
      BY <2>2, <1>1
    <3>2. Tail(s)[i - 1] = s[i]
      BY <3>1, <1>2
    <3> QED BY <3>1, <3>2, <1>3 DEF Range
  <2> QED BY <2>1, <2>2
<1>5. ASSUME NEW i \in 1..(Len(s) - 1) PROVE Tail(s)[i] \in Range(s)
  <2>1. i + 1 \in 1..Len(s)
    BY <1>1
  <2> QED BY <2>1, <1>1, <1>2 DEF Range
<1>6. Head(s) \in Range(s)
  <2>1. 1 \in 1..Len(s)
    BY <1>1
  <2> QED BY <2>1, <1>1 DEF Range
<1>7. Range(s) = {Head(s)} \cup Range(Tail(s))
  BY <1>1, <1>3, <1>4, <1>5, <1>6 DEF Range
<1> QED BY <1>1, <1>2, <1>3, <1>7

LEMMA DelegateInv ==
    ASSUME Inv, NEW accepted \in BOOLEAN, send_sync_block_to_node_delegate(accepted)
    PROVE  Inv' /\ \A p \in Peers: peer[p].need => peer'[p].need
<1> DEFINE b == Head(calls)
<1>0. /\ calls # <<>> /\ calls' = Tail(calls) /\ backlog' = TRUE
      /\ UNCHANGED <<chain, active, new, received, suspended, fetch, connects>>
  BY DEF send_sync_block_to_node_delegate
<1>1. /\ calls \in Seq(Blocks) /\ height \in 0..MaxBlock /\ recent \subseteq 1..height
      /\ peer \in [Peers -> Connection] /\ refusals \in 0..MaxRefusals
      /\ Len(calls) <= MaxHandle
  BY DEF Inv, TypeOK
<1>2. /\ b = calls[1] /\ b \in Blocks
      /\ Tail(calls) \in Seq(Blocks) /\ Len(Tail(calls)) = Len(calls) - 1
      /\ Len(calls) \in Nat \ {0} /\ DOMAIN calls = 1..Len(calls)
      /\ DOMAIN Tail(calls) = 1..(Len(calls) - 1)
      /\ \A i \in 1..(Len(calls) - 1): Tail(calls)[i] = calls[i + 1]
      /\ Range(calls) = {b} \cup Range(Tail(calls))
  BY <1>0, <1>1, CallsTail
<1>3. MaxBlock \in Nat /\ height \in Nat /\ b \in Nat /\ b >= 1 /\ b <= MaxBlock
      /\ MaxHandle \in Nat /\ MaxRefusals \in Nat /\ refusals \in Nat
  <2>1. b \in Nat /\ b >= 1 /\ b \in 0..MaxBlock
    BY <1>2, BlockIsNumber
  <2> QED BY <2>1, <1>1, SyncAssumption
<1>4. Early' = Early /\ calls' \in Seq(Blocks) /\ Len(calls') <= MaxHandle
  BY <1>0, <1>1, <1>2, <1>3 DEF Early
<1>5. ASSUME refusals = 0 PROVE b <= height + 1
  <2>1. InOrder
    BY <1>5 DEF Inv, OrderInv
  <2>2. 1 \in DOMAIN calls /\ ~ \E j \in 1..(1 - 1): TRUE
    BY <1>2
  <2> QED BY <2>1, <2>2, <1>2, <1>5 DEF InOrder
<1>6. CASE accepted
  <2>1. /\ b <= height + 1 /\ height' = Max({height, b}) /\ recent' = recent \cup {b}
        /\ peer' = [p \in Peers |-> IF Active(p) THEN AfterAccepted(peer[p], b, height')
                                                 ELSE peer[p]]
        /\ refusals' = refusals
    BY <1>6 DEF send_sync_block_to_node_delegate
  <2> HIDE DEF b
  <2>2. height' = IF height >= b THEN height ELSE b
    BY <2>1, <1>3, MaxOfTwo
  <2>3. height' \in 0..MaxBlock /\ b \in 1..height' /\ height' \in Nat /\ height <= height'
        /\ (height' = height \/ height' = height + 1) /\ (height' = height + 1 => b = height')
    BY <2>1, <2>2, <1>1, <1>3
  <2>4. recent' \subseteq 1..height'
    <3>1. \A k \in 1..height: k \in 1..height'
      BY <2>3, <1>3
    <3> QED BY <3>1, <2>1, <2>3, <1>1
  <2>5. ASSUME NEW p \in Peers
        PROVE  /\ Sound(peer'[p], chain'[p], active', Early')
               /\ peer'[p].req = peer[p].req /\ (peer[p].need => peer'[p].need)
               /\ \A G: Closed(G) /\ 0..height' \subseteq G /\ b \in G /\ Behind(peer[p], G)
                          => Behind(peer'[p], G)
    <3>1. Sound(peer[p], chain[p], active, Early)
      BY DEF Inv, SoundInv
    <3>2. CASE Active(p)
      <4>1. peer'[p] = AfterAccepted(peer[p], b, height')
        BY <3>2, <2>1
      <4>2. /\ Sound(peer'[p], chain[p], active, Early)
            /\ peer'[p].req = peer[p].req /\ (peer[p].need => peer'[p].need)
            /\ \A G: Closed(G) /\ 0..height' \subseteq G /\ b \in G /\ Behind(peer[p], G)
                       => Behind(peer'[p], G)
        <5> HIDE DEF Early
        <5>1. height' \in 0..MaxBlock /\ b \in Blocks
          BY <2>3, <1>2
        <5> QED BY ONLY <4>1, <5>1, <3>1, AcceptedSound
      <4> QED BY <4>2, <1>0, <1>4
    <3>3. CASE ~Active(p)
      <4>1. peer'[p] = peer[p]
        BY <3>3, <2>1
      <4> QED BY <4>1, <3>1, <1>0, <1>4
    <3> QED BY <3>2, <3>3
  <2>6. peer' \in [Peers -> Connection]
    <3>1. \A p \in Peers: peer'[p] \in Connection
      BY <2>5 DEF Sound
    <3>2. DOMAIN peer' = Peers /\ peer' = [p \in Peers |-> peer'[p]]
      BY <2>1
    <3> QED BY <3>1, <3>2
  <2>7. Given' = Given
    <3>1. Given' = (0..height') \cup Range(Tail(calls))
      BY <1>0 DEF Given
    <3>2. (0..height) \cup {b} = (0..height') \cup {b}
      <4>1. \A k \in 0..height: k \in 0..height'
        BY <2>3, <1>3
      <4>2. \A k \in 0..height': k \in 0..height \/ k = b
        BY <2>3, <1>3
      <4> QED BY <4>1, <4>2
    <3>3. b \in 0..height'
      BY <2>3
    <3> QED BY <3>1, <3>2, <3>3, <1>2 DEF Given
  <2>8. ASSUME refusals' = 0 PROVE InOrder' /\ \A p \in Peers: Behind(peer'[p], Given')
    <3>1. InOrder /\ refusals = 0 /\ \A p \in Peers: Behind(peer[p], Given)
      BY <2>1, <2>8 DEF Inv, OrderInv
    <3>2. Closed(Given) /\ 0..height \subseteq Given
      BY <3>1, GivenClosed DEF Inv
    <3>3. b \in Given /\ 0..height' \subseteq Given
      <4>1. 0..height' \subseteq Given'
        BY DEF Given
      <4> QED BY <4>1, <2>3, <2>7, <1>2 DEF Given
    <3>4. \A p \in Peers: Behind(peer'[p], Given')
      BY <3>1, <3>2, <3>3, <2>5, <2>7
    <3>5. ASSUME NEW i \in 1..(Len(calls) - 1)
          PROVE  \/ Tail(calls)[i] <= height' + 1
                 \/ \E j \in 1..(i - 1): Tail(calls)[j] = Tail(calls)[i] - 1
      <4>1. i + 1 \in DOMAIN calls /\ Tail(calls)[i] = calls[i + 1] /\ i \in Nat
        BY <1>2
      <4>2. calls[i + 1] \in Nat
        <5>1. calls[i + 1] \in Blocks
          BY <4>1, <1>1, <1>2, ElementOfSeq
        <5> QED BY <5>1, BlockIsNumber
      <4>3. \/ calls[i + 1] <= height + 1
            \/ \E j \in 1..((i + 1) - 1): calls[j] = calls[i + 1] - 1
        BY <4>1, <3>1 DEF InOrder
      <4>4. CASE calls[i + 1] <= height + 1
        BY <4>1, <4>2, <4>4, <2>3, <1>3
      <4>5. ASSUME NEW j \in 1..((i + 1) - 1), calls[j] = calls[i + 1] - 1
            PROVE  \/ Tail(calls)[i] <= height' + 1
                   \/ \E l \in 1..(i - 1): Tail(calls)[l] = Tail(calls)[i] - 1
        <5>1. CASE j = 1
          <6>1. b = calls[i + 1] - 1 /\ b <= height'
            BY <5>1, <4>5, <2>3, <1>2
          <6> QED BY <6>1, <4>1, <4>2, <2>3, <1>3
        <5>2. CASE j # 1
          <6>1. j - 1 \in 1..(i - 1) /\ j - 1 \in 1..(Len(calls) - 1) /\ (j - 1) + 1 = j
            BY <5>2, <4>1, <1>2
          <6>2. Tail(calls)[j - 1] = calls[j]
            BY <6>1, <1>2
          <6> QED BY <6>1, <6>2, <4>1, <4>5
        <5> QED BY <5>1, <5>2
      <4> QED BY <4>3, <4>4, <4>5
    <3>6. InOrder'
      BY <3>5, <1>0, <1>2 DEF InOrder
    <3> QED BY <3>4, <3>6
  <2>9. OneRequest'
    BY <2>5 DEF Inv, OneRequest
  <2>10. TypeOK'
    BY <2>1, <2>3, <2>4, <2>6, <1>0, <1>4 DEF Inv, TypeOK
  <2> QED BY <2>5, <2>8, <2>9, <2>10 DEF Inv, SoundInv, OrderInv
<1>7. CASE ~accepted
  <2>1. /\ b <= height + 1 => refusals < MaxRefusals
        /\ refusals' = IF b <= height + 1 THEN refusals + 1 ELSE refusals
        /\ peer' = [p \in Peers |-> IF Active(p) /\ b \in peer[p].being
                        THEN [peer[p] EXCEPT !.state = "closing"] ELSE peer[p]]
        /\ UNCHANGED <<height, recent>>
    BY <1>7 DEF send_sync_block_to_node_delegate
  <2> HIDE DEF b
  <2>2. refusals' \in 0..MaxRefusals /\ refusals' # 0
    BY <2>1, <1>1, <1>3, <1>5
  <2>3. ASSUME NEW p \in Peers
        PROVE  /\ Sound(peer'[p], chain'[p], active', Early')
               /\ peer'[p].req = peer[p].req /\ peer'[p].need = peer[p].need
    <3>1. Sound(peer[p], chain[p], active, Early) /\ peer[p] \in Connection
      BY DEF Inv, SoundInv, Sound
    <3>2. /\ peer'[p] \in Connection /\ peer'[p].toget = peer[p].toget
          /\ peer'[p].req = peer[p].req /\ peer'[p].need = peer[p].need
          /\ peer'[p].asked = peer[p].asked
      BY <3>1, <2>1 DEF Connection
    <3> QED BY <3>1, <3>2, <1>0, <1>4 DEF Sound, Listed, Covered
  <2>4. peer' \in [Peers -> Connection]
    <3>1. \A p \in Peers: peer'[p] \in Connection
      BY <2>3 DEF Sound
    <3>2. DOMAIN peer' = Peers /\ peer' = [p \in Peers |-> peer'[p]]
      BY <2>1
    <3> QED BY <3>1, <3>2
  <2>5. OneRequest'
    BY <2>3 DEF Inv, OneRequest
  <2>6. TypeOK'
    BY <2>1, <2>2, <2>4, <1>0, <1>4 DEF Inv, TypeOK
  <2> QED BY <2>2, <2>3, <2>5, <2>6 DEF Inv, SoundInv, OrderInv
<1> QED BY <1>6, <1>7

-----------------------------------------------------------------------------
(* The theorems.                                                           *)

(* Every step keeps the invariant, and none but a peer's answer ends the   *)
(* synchronisation with it.                                                *)
LEMMA NextInv ==
    ASSUME Inv, [Next]_vars
    PROVE  /\ Inv'
           /\ \A p \in Peers: Active(p) /\ peer[p].need /\ ~peer'[p].need =>
                                height >= chain[p] /\ peer[p].req = {}
<1> DEFINE Ends(p) == Active(p) /\ peer[p].need /\ ~peer'[p].need
           Goal == /\ Inv'
                   /\ \A p \in Peers: Ends(p) => height >= chain[p] /\ peer[p].req = {}
<1> SUFFICES Goal
  OBVIOUS
<1>0. peer \in [Peers -> Connection]
  BY DEF Inv, TypeOK
<1>1. ASSUME NEW p \in Peers, Connect(p) PROVE Goal
  <2>1. Inv'
    BY <1>1, ConnectInv
  <2>2. \A q \in Peers: ~Ends(q)
    BY <1>0, <1>1 DEF Connect, Active
  <2> QED BY <2>1, <2>2
<1>2. ASSUME NEW p \in Peers, PeerGrows(p) PROVE Goal
  BY <1>2, PeerGrowsInv DEF PeerGrows
<1>3. ASSUME NEW p \in Peers, on_blockchain_item_ids_inventory(p) PROVE Goal
  <2>1. Inv' /\ (~peer'[p].need => peer[p].req = {})
             /\ (peer[p].need /\ ~peer'[p].need => height >= chain[p])
    BY <1>3, AnswerInv
  <2>2. ASSUME NEW q \in Peers, q # p PROVE peer'[q] = peer[q]
    BY <1>0, <1>3, <2>2 DEF on_blockchain_item_ids_inventory
  <2> QED BY <2>1, <2>2
<1>4. ASSUME NEW p \in Peers, process_block_message(p) PROVE Goal
  <2>1. Inv' /\ peer'[p].need = peer[p].need
    BY <1>4, BlockMessageInv
  <2>2. ASSUME NEW q \in Peers, q # p PROVE peer'[q] = peer[q]
    BY <1>0, <1>4, <2>2 DEF process_block_message
  <2>3. \A q \in Peers: ~Ends(q)
    BY <2>1, <2>2
  <2> QED BY <2>1, <2>3
<1>5. ASSUME NEW p \in Peers, on_fetch_blockchain_item_ids(p) PROVE Goal
  <2>1. Inv'
    BY <1>5, FetchIdsInv
  <2> DEFINE n == height # 0 /\ ~ (chain[p] # 0 /\ height \in Halving(1, chain[p]))
             r == [peer[p] EXCEPT !.needed = n]
             x == IF ~r.need /\ ~has_item(chain[p]) THEN start_synchronizing(r, height) ELSE r
  <2>2. peer' = [peer EXCEPT ![p] = x]
    BY <1>5 DEF on_fetch_blockchain_item_ids
  <2>3. peer[p] \in Connection
    BY <1>0
  <2> HIDE DEF n
  <2>4. r.need = peer[p].need
    BY <2>3 DEF Connection
  <2>5. peer[p].need => x.need
    BY <2>4
  <2> HIDE DEF x
  <2>6. \A q \in Peers: ~Ends(q)
    BY <1>0, <2>2, <2>5
  <2> QED BY <2>1, <2>6
<1>6. ASSUME NEW p \in Peers, Timeout(p) PROVE Goal
  <2>1. Inv'
    BY <1>6, TimeoutInv
  <2>2. \A q \in Peers: peer'[q].need = peer[q].need
    <3>1. peer' = [peer EXCEPT ![p] = [peer[p] EXCEPT !.state = "closing"]]
      BY <1>6 DEF Timeout
    <3>2. peer[p] \in Connection
      BY <1>0
    <3>3. [peer[p] EXCEPT !.state = "closing"].need = peer[p].need
      BY <3>2 DEF Connection
    <3> QED BY <3>1, <3>3, <1>0
  <2> QED BY <2>1, <2>2
<1>7. ASSUME NEW p \in Peers, on_connection_closed(p) PROVE Goal
  <2>1. Inv'
    BY <1>7, ClosedInv
  <2>2. \A q \in Peers: peer'[q] = peer[q] \/ peer'[q].need = TRUE
    BY <1>0, <1>7, FreshShape DEF on_connection_closed
  <2> QED BY <2>1, <2>2
<1>8. CASE fetch_sync_items_loop
  BY <1>8, FetchLoopInv
<1>9. CASE process_backlog_of_sync_blocks
  BY <1>9, BacklogInv
<1>10. ASSUME NEW accepted \in BOOLEAN, send_sync_block_to_node_delegate(accepted) PROVE Goal
  BY <1>10, DelegateInv
<1>11. CASE UNCHANGED vars
  <2>1. Early' = Early /\ Given' = Given /\ (InOrder => InOrder')
    BY <1>11 DEF vars, Early, Given, InOrder
  <2>2. SoundInv' /\ OneRequest' /\ OrderInv'
    BY <2>1, <1>11 DEF vars, Inv, SoundInv, OneRequest, OrderInv
  <2>3. TypeOK'
    BY <1>11 DEF vars, Inv, TypeOK
  <2> QED BY <2>2, <2>3, <1>11 DEF vars, Inv
<1> HIDE DEF Goal
<1> QED BY <1>1, <1>2, <1>3, <1>4, <1>5, <1>6, <1>7, <1>8, <1>9, <1>10, <1>11 DEF Next, Answer

(* The lists, requests and queues fit together in every reachable state,   *)
(* whatever the peers and the order of the fibers.                         *)
THEOREM InvHolds == Spec => []Inv
<1>1. Inv /\ [Next]_vars => Inv'
  BY NextInv
<1> QED BY InitInv, <1>1, PTL DEF Spec

(* The fields of a connection and the node's queues keep their types, and  *)
(* no more calls are in progress than _maximum_number_of_blocks_to_handle_ *)
(* at_one_time: process_backlog_of_sync_blocks stops in time.              *)
THEOREM TypeCorrect == Spec => []TypeOK
<1>1. Inv => TypeOK
  BY DEF Inv
<1> QED BY InvHolds, <1>1, PTL

(* process_backlog_of_sync_blocks gives the chain a block only when it was *)
(* given the parent, in whatever order the blocks arrive and however the   *)
(* lists of the peers overlap, as long as the chain refused none.          *)
THEOREM HandedOverInOrder == Spec => []InOrder
<1>1. Inv => InOrder
  BY DEF Inv, OrderInv, InOrder
<1> QED BY InvHolds, <1>1, PTL

(* fetch_sync_items_loop never asks two peers for the same block, though   *)
(* on_connection_closed frees requests that others may then take over.     *)
THEOREM RequestedOnce == Spec => []OneRequest
<1>1. Inv => OneRequest
  BY DEF Inv
<1> QED BY InvHolds, <1>1, PTL

(* on_blockchain_item_ids_inventory_message ends the synchronisation with  *)
(* a peer only when the node's head is no lower than the peer's, and no    *)
(* block is still requested from the peer.                                 *)
THEOREM EndsWhenInSync == Spec => EndsInSync
<1>1. Inv /\ [Next]_vars =>
        [\A p \in Peers: Active(p) /\ peer[p].need /\ ~peer'[p].need =>
           height >= chain[p] /\ peer[p].req = {}]_vars
  BY NextInv
<1> QED BY InvHolds, <1>1, PTL DEF Spec, EndsInSync
=============================================================================
