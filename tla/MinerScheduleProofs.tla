------------------------- MODULE MinerScheduleProofs -------------------------
(***************************************************************************)
(* Proofs about MinerSchedule, for every number of miners, length of a     *)
(* round, interval, gap and window: the types, the match of slots and      *)
(* clock, equal turns, distinct miners in a round, the participation and   *)
(* the bound on the time without a block.                                  *)
(***************************************************************************)
EXTENDS Integers, MinerSchedule, SumTheorems, FiniteSetTheorems,
        NaturalsInduction, TLAPS

-----------------------------------------------------------------------------
(* Division.                                                               *)

LEMMA DivDef ==
    ASSUME NEW x \in Int, NEW n \in Nat \ {0}
    PROVE  /\ x \div n \in Int /\ x % n \in 0..(n - 1)
           /\ x = n * (x \div n) + (x % n)
  OBVIOUS

LEMMA DivUnique ==
    ASSUME NEW x \in Int, NEW n \in Nat \ {0}, NEW q \in Int,
           n * q <= x, x < n * q + n
    PROVE  x \div n = q
<1>1. PICK d \in Int, r \in 0..(n - 1): d = x \div n /\ x = n * d + r
  BY DivDef
<1>2. ASSUME d < q PROVE FALSE
  <2>1. d + 1 <= q
    BY <1>2
  <2>2. n * (d + 1) <= n * q
    BY <2>1
  <2>3. n * (d + 1) = n * d + n
    OBVIOUS
  <2> QED BY <2>2, <2>3, <1>1
<1>3. ASSUME d > q PROVE FALSE
  <2>1. q + 1 <= d
    BY <1>3
  <2>2. n * (q + 1) <= n * d
    BY <2>1
  <2>3. n * (q + 1) = n * q + n
    OBVIOUS
  <2> QED BY <2>2, <2>3, <1>1
<1> QED BY <1>1, <1>2, <1>3

(* The quotient grows with the number, and by one when a multiple is met.  *)
LEMMA DivSucc ==
    ASSUME NEW x \in Int, NEW n \in Nat \ {0}
    PROVE  /\ (x + 1) % n = 0 => (x + 1) \div n = (x \div n) + 1
           /\ (x + 1) % n # 0 => (x + 1) \div n = x \div n
<1> DEFINE d == x \div n
           r == x % n
<1>1. d \in Int /\ r \in 0..(n - 1) /\ x = n * d + r
  BY DivDef
<1> HIDE DEF d, r
<1>2. CASE r = n - 1
  <2>1. n * (d + 1) = x + 1
    BY <1>1, <1>2
  <2>2. (x + 1) \div n = d + 1
    BY <1>1, <2>1, DivUnique
  <2>3. x + 1 = n * ((x + 1) \div n) + ((x + 1) % n) /\ (x + 1) % n \in Int
    BY DivDef
  <2>4. (x + 1) % n = 0
    BY <2>1, <2>2, <2>3, <1>1
  <2> QED BY <2>2, <2>4 DEF d
<1>3. CASE r # n - 1
  <2>1. n * d <= x + 1 /\ x + 1 < n * d + n
    BY <1>1, <1>3
  <2>2. (x + 1) \div n = d
    BY <1>1, <2>1, DivUnique
  <2>3. x + 1 = n * ((x + 1) \div n) + ((x + 1) % n) /\ (x + 1) % n \in Int
    BY DivDef
  <2>4. (x + 1) % n = r + 1
    BY <2>2, <2>3, <1>1
  <2> QED BY <2>2, <2>4, <1>1 DEF d
<1> QED BY <1>2, <1>3

(* A multiple can be taken out of a quotient and of a remainder.           *)
LEMMA DivShift ==
    ASSUME NEW x \in Int, NEW n \in Nat \ {0}, NEW k \in Int
    PROVE  /\ (x + n * k) \div n = (x \div n) + k
           /\ (x + n * k) % n = x % n
<1> DEFINE d == x \div n
           r == x % n
           y == x + n * k
<1>1. d \in Int /\ r \in 0..(n - 1) /\ x = n * d + r
  BY DivDef
<1>2. y \in Int /\ y = n * (d + k) + r
  <2>1. n * (d + k) = n * d + n * k
    BY <1>1
  <2> QED BY <2>1, <1>1
<1> HIDE DEF d, r, y
<1>3. n * (d + k) <= y /\ y < n * (d + k) + n
  <2>1. n * (d + k) \in Int
    BY <1>1
  <2> QED BY <2>1, <1>1, <1>2
<1>4. y \div n = d + k
  BY <1>1, <1>2, <1>3, DivUnique
<1>5. y = n * (y \div n) + (y % n) /\ y % n \in Int
  <2>1. y \in Int
    BY <1>2
  <2> QED BY <2>1, DivDef
<1>6. y % n = r
  <2>1. n * (d + k) \in Int
    BY <1>1
  <2> QED BY <1>2, <1>4, <1>5, <2>1, <1>1
<1> QED BY <1>4, <1>6 DEF d, r, y

-----------------------------------------------------------------------------
(* Slots and the clock.                                                    *)

(* Slot numbers of the head count from here.                               *)
Base == (time \div Interval) + SkippedSlots

(* What the slots of the head need to know of its time.                    *)
HeadInv == head = 0 => time = Genesis /\ flag = FALSE

LEMMA SkippedSlotsNat ==
    ASSUME TypeOK
    PROVE  SkippedSlots \in Nat
<1>1. Skip \in Nat
  BY ScheduleAssumption
<1> QED BY <1>1 DEF SkippedSlots

LEMMA BaseNat ==
    ASSUME TypeOK
    PROVE  Base \in Nat
<1>1. time \in Nat /\ Interval \in Nat \ {0}
  BY ScheduleAssumption DEF TypeOK
<1>2. time \div Interval \in Nat
  BY <1>1
<1> QED BY <1>2, SkippedSlotsNat DEF Base

(* Slots are whole intervals after the base.                               *)
LEMMA SlotTime ==
    ASSUME TypeOK, HeadInv, NEW k \in Nat
    PROVE  get_slot_time(k) = Interval * (Base + k)
<1> DEFINE q == time \div Interval
           s == SkippedSlots
<1>1. /\ Interval \in Nat \ {0} /\ q \in Nat /\ s \in Nat /\ time \in Nat
      /\ Genesis \in Nat /\ Genesis % Interval = 0
  <2>1. Interval \in Nat \ {0} /\ Genesis \in Nat /\ Genesis % Interval = 0
    BY ScheduleAssumption
  <2>2. time \in Nat /\ s \in Nat
    BY SkippedSlotsNat DEF TypeOK
  <2>3. q \in Nat
    BY <2>1, <2>2
  <2> QED BY <2>1, <2>2, <2>3
<1>2. Interval * (q + s + k) = Interval * q + Interval * (s + k)
  BY <1>1
<1>3. CASE head = 0
  <2>1. s = 0
    BY <1>3 DEF HeadInv, SkippedSlots
  <2>2. time = Interval * q
    <3>1. time % Interval = 0
      BY <1>1, <1>3 DEF HeadInv
    <3> QED BY <3>1, <1>1, DivDef
  <2>3. get_slot_time(k) = time + k * Interval
    BY <1>3 DEF get_slot_time
  <2>4. k * Interval = Interval * k
    BY <1>1
  <2>5. Base + k = q + s + k
    BY <1>1 DEF Base
  <2> HIDE DEF q, s
  <2>6. s + k = k
    BY <2>1
  <2> QED BY <2>2, <2>3, <2>4, <2>5, <2>6, <1>2
<1>4. CASE head # 0
  <2>1. get_slot_time(k) = q * Interval + (k + s) * Interval
    BY <1>4 DEF get_slot_time
  <2>2. Base + k = q + s + k
    BY <1>1 DEF Base
  <2> HIDE DEF q, s
  <2>3. q * Interval = Interval * q /\ (k + s) * Interval = Interval * (s + k)
    BY <1>1
  <2> QED BY <2>1, <2>2, <2>3, <1>2
<1> QED BY <1>3, <1>4

LEMMA SlotAtTime ==
    ASSUME TypeOK, HeadInv, NEW w \in Nat
    PROVE  get_slot_at_time(w) = IF w \div Interval <= Base THEN 0
                                 ELSE (w \div Interval) - Base
<1> DEFINE d == w \div Interval
           r == w % Interval
           I == Interval
           b == Base
<1>1. I \in Nat \ {0} /\ d \in Nat /\ r \in 0..(I - 1) /\ w = I * d + r
  <2>1. I \in Nat \ {0}
    BY ScheduleAssumption
  <2>2. d \in Nat
    BY <2>1
  <2> QED BY <2>1, <2>2, DivDef
<1>2. b \in Nat
  BY BaseNat
<1>3. get_slot_time(1) = I * (b + 1)
  BY SlotTime
<1>4. get_slot_at_time(w) = IF w < I * (b + 1) THEN 0
                            ELSE ((w - I * (b + 1)) \div I) + 1
  BY <1>3 DEF get_slot_at_time
<1> HIDE DEF d, r, I, b
<1>5. CASE d <= b
  <2>1. I * (d + 1) <= I * (b + 1)
    BY <1>5, <1>1, <1>2
  <2>2. I * (d + 1) = I * d + I
    BY <1>1
  <2>3. w < I * (b + 1)
    <3>1. I * (b + 1) \in Int /\ I * d \in Int
      BY <1>1, <1>2
    <3> QED BY <3>1, <2>1, <2>2, <1>1
  <2> QED BY <2>3, <1>4, <1>5 DEF d, b, I
<1>6. CASE d > b
  <2>1. I * (b + 1) <= I * d
    BY <1>6, <1>1, <1>2
  <2>2. ~(w < I * (b + 1))
    <3>1. I * (b + 1) \in Int /\ I * d \in Int
      BY <1>1, <1>2
    <3> QED BY <3>1, <2>1, <1>1
  <2>3. w - I * (b + 1) = w + I * (- (b + 1))
    <3>1. I * (- (b + 1)) = - (I * (b + 1))
      BY <1>1, <1>2
    <3> QED BY <3>1, <1>1, <1>2
  <2>4. (w + I * (- (b + 1))) \div I = d + (- (b + 1))
    <3>1. - (b + 1) \in Int
      BY <1>2
    <3>2. w \in Int
      OBVIOUS
    <3>3. (w + I * (- (b + 1))) \div I = (w \div I) + (- (b + 1))
      BY <3>1, <3>2, <1>1, DivShift
    <3> QED BY <3>3 DEF d, I
  <2>5. get_slot_at_time(w) = d - b
    BY <2>2, <2>3, <2>4, <1>4, <1>1, <1>2
  <2> QED BY <2>5, <1>6, <1>1, <1>2 DEF d, b, I
<1> QED BY <1>5, <1>6, <1>1, <1>2

-----------------------------------------------------------------------------
(* Counting the slots of one place of the schedule.                        *)

(* Induction over the naturals is by a smallest counterexample.            *)
LEMMA SmallestOf ==
    ASSUME NEW B, B \subseteq Nat, B # {}
    PROVE  \E n \in B: \A m \in B: n <= m
<1>1. PICK n \in B: \A m \in B: ~ (<<m, n>> \in OpToRel(<, Nat))
  BY NatLessThanWellFounded, WFMin
<1>2. \A m \in B: ~ (m < n)
  BY <1>1 DEF OpToRel
<1> QED BY <1>2

LEMMA MinIn ==
    ASSUME NEW B, B \subseteq Nat, B # {}
    PROVE  Min(B) \in B /\ \A m \in B: Min(B) <= m
<1>1. \E n \in B: \A m \in B: n <= m
  BY SmallestOf
<1> QED BY <1>1 DEF Min

(* How often place i was met up to slot a, up to a constant.               *)
Met(i, a) == (a + (Round + 1 - i)) \div Round

LEMMA MetInt ==
    ASSUME NEW i \in 1..Round, NEW a \in Nat
    PROVE  Met(i, a) \in Int
  BY ScheduleAssumption, DivDef DEF Met

(* A slot is one of place i, or it is not.                                 *)
LEMMA MetNext ==
    ASSUME NEW i \in 1..Round, NEW a \in Nat
    PROVE  Met(i, a + 1) = Met(i, a) + (IF (a + 1) % Round = i - 1 THEN 1 ELSE 0)
<1> DEFINE R == Round
           x == a + (R + 1 - i)
           y == a + 1
           q == y \div R
           r == y % R
<1>1. R \in Nat \ {0} /\ x \in Int /\ y \in Int /\ i \in Int
  BY ScheduleAssumption
<1>2. /\ (x + 1) % R = 0 => (x + 1) \div R = (x \div R) + 1
      /\ (x + 1) % R # 0 => (x + 1) \div R = x \div R
  <2> HIDE DEF x, R
  <2> QED BY <1>1, DivSucc
<1>3. q \in Int /\ r \in 0..(R - 1) /\ y = R * q + r
  <2> HIDE DEF y, R
  <2> QED BY <1>1, DivDef
<1>4. (x + 1) % R = (r - (i - 1)) % R
  <2>1. R * (q + 1) = R * q + R
    <3> HIDE DEF q, R
    <3> QED BY <1>1, <1>3
  <2>2. x + 1 = (r - (i - 1)) + R * (q + 1)
    <3>1. x + 1 = y + (R + 1 - i)
      BY <1>1
    <3>2. R * q \in Int
      <4> HIDE DEF q, R
      <4> QED BY <1>1, <1>3
    <3> HIDE DEF x, y, q, r, R
    <3> QED BY <2>1, <3>1, <3>2, <1>1, <1>3
  <2>3. r - (i - 1) \in Int /\ q + 1 \in Int
    BY <1>1, <1>3
  <2> DEFINE z == r - (i - 1)
             k == q + 1
  <2>4. (z + R * k) % R = z % R
    <3> HIDE DEF z, k, R
    <3> QED BY <2>3, <1>1, DivShift DEF z, k
  <2> QED BY <2>2, <2>4
<1>5. (r - (i - 1)) % R = 0 <=> r = i - 1
  <2> DEFINE z == r - (i - 1)
             u == z \div R
             v == z % R
  <2>1. z \in Int /\ z > -R /\ z < R
    BY <1>1, <1>3
  <2>2. u \in Int /\ v \in 0..(R - 1) /\ z = R * u + v
    <3> HIDE DEF z, R
    <3> QED BY <1>1, <2>1, DivDef
  <2>3. CASE z >= 0
    <3>1. R * 0 <= z /\ z < R * 0 + R
      BY <2>1, <2>3, <1>1
    <3>2. u = 0
      <4> HIDE DEF z, R
      <4> QED BY <3>1, <2>1, <1>1, DivUnique
    <3>3. R * u = 0
      <4> HIDE DEF u, R
      <4> QED BY <3>2, <1>1
    <3>4. z = v
      <4> HIDE DEF z, u, v, R
      <4> QED BY <3>3, <2>2
    <3> QED BY <3>4, <1>1, <1>3
  <2>4. CASE z < 0
    <3>1. R * (-1) <= z /\ z < R * (-1) + R
      BY <2>1, <2>4, <1>1
    <3>2. u = -1
      <4> HIDE DEF z, R
      <4> QED BY <3>1, <2>1, <1>1, DivUnique
    <3>3. R * u = -R
      <4> HIDE DEF u, R
      <4> QED BY <3>2, <1>1
    <3>4. v = z + R
      <4> HIDE DEF z, u, v, R
      <4> QED BY <3>3, <2>1, <2>2, <1>1
    <3> QED BY <3>4, <2>1, <2>4, <1>1, <1>3
  <2> QED BY <2>3, <2>4, <2>1
<1>6. Met(i, a) = x \div R /\ Met(i, a + 1) = (x + 1) \div R
  <2>1. (a + 1) + (R + 1 - i) = x + 1
    BY <1>1
  <2> QED BY <2>1 DEF Met
<1>7. x \div R \in Int
  <2> HIDE DEF x, R
  <2> QED BY <1>1, DivDef
<1> QED BY <1>2, <1>4, <1>5, <1>6, <1>7

(* The slots of place i among n slots after slot a.                        *)
LEMMA SlotsOfPlace ==
    ASSUME NEW i \in 1..Round, NEW a \in Nat, NEW n \in Nat
    PROVE  /\ IsFiniteSet({k \in 1..n: (a + k) % Round = i - 1})
           /\ Cardinality({k \in 1..n: (a + k) % Round = i - 1})
                = Met(i, a + n) - Met(i, a)
<1> DEFINE S(u) == {k \in 1..u: (a + k) % Round = i - 1}
           Good(u) == IsFiniteSet(S(u)) /\ Cardinality(S(u)) = Met(i, a + u) - Met(i, a)
           B == {u \in Nat: ~ Good(u)}
<1> SUFFICES ASSUME B # {} PROVE FALSE
  OBVIOUS
<1>1. PICK u \in B: \A v \in B: u <= v
  <2>1. B \subseteq Nat
    OBVIOUS
  <2> HIDE DEF B
  <2> QED BY <2>1, SmallestOf
<1>2. Good(0)
  <2>1. S(0) = {}
    OBVIOUS
  <2>2. Met(i, a + 0) = Met(i, a) /\ Met(i, a) \in Int
    BY MetInt
  <2>3. IsFiniteSet(S(0)) /\ Cardinality(S(0)) = 0
    BY <2>1, FS_EmptySet
  <2>4. Met(i, a + 0) - Met(i, a) = 0
    BY <2>2
  <2> QED BY <2>3, <2>4
<1>3. u # 0 /\ u \in Nat /\ u - 1 \in Nat /\ Good(u - 1)
  <2>1. u # 0 /\ u \in Nat
    BY <1>2
  <2>2. u - 1 \in Nat /\ u - 1 < u
    BY <2>1
  <2>3. u - 1 \notin B
    BY <1>1, <2>1, <2>2
  <2> QED BY <2>1, <2>2, <2>3
<1>4. Met(i, a + u) = Met(i, a + (u - 1)) + (IF (a + u) % Round = i - 1 THEN 1 ELSE 0)
  <2>1. a + (u - 1) \in Nat /\ (a + (u - 1)) + 1 = a + u
    BY <1>3
  <2> QED BY <2>1, MetNext
<1>5. Met(i, a) \in Int /\ Met(i, a + (u - 1)) \in Int
  BY <1>3, MetInt
<1>6. CASE (a + u) % Round = i - 1
  <2>1. S(u) = S(u - 1) \cup {u} /\ u \notin S(u - 1)
    BY <1>3, <1>6
  <2>2. IsFiniteSet(S(u)) /\ Cardinality(S(u)) = Cardinality(S(u - 1)) + 1
    <3>1. IsFiniteSet(S(u - 1))
      BY <1>3
    <3> HIDE DEF S
    <3>2. /\ IsFiniteSet(S(u - 1) \cup {u})
          /\ Cardinality(S(u - 1) \cup {u}) = Cardinality(S(u - 1)) + 1
      BY ONLY <2>1, <3>1, FS_AddElement
    <3> QED BY ONLY <2>1, <3>2
  <2>3. Good(u)
    <3> HIDE DEF S
    <3> QED BY <2>2, <1>3, <1>4, <1>5, <1>6
  <2> QED BY <2>3
<1>7. CASE (a + u) % Round # i - 1
  <2>1. S(u) = S(u - 1)
    BY <1>3, <1>7
  <2>2. Good(u)
    <3> HIDE DEF S
    <3> QED BY <2>1, <1>3, <1>4, <1>5, <1>7
  <2> QED BY <2>2
<1> QED BY <1>6, <1>7

(* A stretch of slots meets any two places equally often, up to one.       *)
LEMMA DivSpan ==
    ASSUME NEW x \in Int, NEW c \in Nat, NEW n \in Nat \ {0}
    PROVE  LET d == ((x + c) \div n) - (x \div n)
           IN d \in {c \div n, (c \div n) + 1}
<1> DEFINE q == x \div n
           r == x % n
           e == c \div n
           f == c % n
<1>1. q \in Int /\ r \in 0..(n - 1) /\ x = n * q + r
  BY DivDef
<1>2. e \in Int /\ f \in 0..(n - 1) /\ c = n * e + f
  BY DivDef
<1> HIDE DEF q, r, e, f
<1>3. n * (q + e) = n * q + n * e /\ n * (q + e + 1) = n * q + n * e + n
      /\ n * q \in Int /\ n * e \in Int
  BY <1>1, <1>2
<1>4. CASE r + f < n
  <2>1. n * (q + e) <= x + c /\ x + c < n * (q + e) + n
    BY <1>1, <1>2, <1>3, <1>4
  <2>2. (x + c) \div n = q + e
    BY <2>1, <1>1, <1>2, DivUnique
  <2> QED BY <2>2, <1>1, <1>2 DEF q, e
<1>5. CASE r + f >= n
  <2>1. n * (q + e + 1) <= x + c /\ x + c < n * (q + e + 1) + n
    BY <1>1, <1>2, <1>3, <1>5
  <2>2. (x + c) \div n = q + e + 1
    BY <2>1, <1>1, <1>2, DivUnique
  <2> QED BY <2>2, <1>1, <1>2 DEF q, e
<1> QED BY <1>4, <1>5, <1>1, <1>2

LEMMA PlacesEqual ==
    ASSUME NEW i \in 1..Round, NEW j \in 1..Round, NEW a \in Nat, NEW b \in 0..a
    PROVE  Met(i, a) - Met(i, b) <= Met(j, a) - Met(j, b) + 1
<1> DEFINE c == a - b
           e == c \div Round
<1>1. Round \in Nat \ {0} /\ c \in Nat /\ e \in Int
  BY ScheduleAssumption, DivDef
<1>2. ASSUME NEW k \in 1..Round
      PROVE  Met(k, a) - Met(k, b) \in {e, e + 1}
  <2> DEFINE x == b + (Round + 1 - k)
  <2>1. x \in Int /\ x + c = a + (Round + 1 - k)
    BY <1>1
  <2>2. ((x + c) \div Round) - (x \div Round) \in {e, e + 1}
    <3> HIDE DEF x, c
    <3> QED BY <1>1, <2>1, DivSpan DEF e
  <2> QED BY <2>1, <2>2 DEF Met
<1> HIDE DEF e
<1>3. /\ Met(i, a) - Met(i, b) \in {e, e + 1}
      /\ Met(j, a) - Met(j, b) \in {e, e + 1}
  BY <1>2
<1> QED BY <1>1, <1>3

-----------------------------------------------------------------------------
(* The weighted shuffle.                                                   *)

LEMMA MaxOf ==
    ASSUME NEW S, IsFiniteSet(S), S \subseteq Nat, S # {}
    PROVE  \E m \in S: \A x \in S: x <= m
<1> DEFINE HasMax(T) == \E m \in T: \A x \in T: x <= m
           B == {T \in SUBSET S: T # {} /\ ~ HasMax(T)}
<1> SUFFICES ASSUME B # {} PROVE FALSE
  OBVIOUS
<1>1. PICK T \in B: \A U \in B: U \subseteq T => U = T
  <2>1. B \subseteq SUBSET S
    OBVIOUS
  <2> HIDE DEF B
  <2> QED BY ONLY IsFiniteSet(S), B # {}, <2>1, MinimalSet
<1>2. PICK x \in T: TRUE
  OBVIOUS
<1>3. T \ {x} \notin B
  BY <1>1, <1>2
<1>4. CASE T \ {x} = {}
  <2>1. HasMax(T)
    BY <1>4, <1>2
  <2> QED BY <2>1
<1>5. CASE T \ {x} # {}
  <2>1. PICK m \in T \ {x}: \A y \in T \ {x}: y <= m
    BY <1>3, <1>5
  <2>2. x \in Nat /\ m \in Nat /\ T \subseteq Nat
    OBVIOUS
  <2>3. CASE x <= m
    <3>1. HasMax(T)
      BY <2>1, <2>3
    <3> QED BY <3>1
  <2>4. CASE m < x
    <3>1. \A y \in T: y <= x
      BY <2>1, <2>2, <2>4
    <3>2. HasMax(T)
      BY <3>1
    <3> QED BY <3>2
  <2> QED BY <2>2, <2>3, <2>4
<1> QED BY <1>4, <1>5

Increasing(s, n) == \A i, j \in 1..n: i < j => s[i] < s[j]

(* Every finite set of ids can be listed in increasing order.              *)
LEMMA Sortable ==
    ASSUME NEW S, IsFiniteSet(S), S \subseteq Nat
    PROVE  \E s \in [1..Cardinality(S) -> S]: Increasing(s, Cardinality(S))
<1> DEFINE Can(T) == \E s \in [1..Cardinality(T) -> T]: Increasing(s, Cardinality(T))
           B == {T \in SUBSET S: ~ Can(T)}
<1> SUFFICES ASSUME B # {} PROVE FALSE
  OBVIOUS
<1>1. PICK T \in B: \A U \in B: U \subseteq T => U = T
  <2>1. B \subseteq SUBSET S
    OBVIOUS
  <2> HIDE DEF B
  <2> QED BY ONLY IsFiniteSet(S), B # {}, <2>1, MinimalSet
<1>2. T \subseteq Nat /\ IsFiniteSet(T)
  BY FS_Subset
<1>3. CASE T = {}
  <2>1. Cardinality({}) = 0
    BY FS_EmptySet
  <2> DEFINE s == [i \in 1..0 |-> 0]
  <2>2. s \in [1..0 -> {}] /\ Increasing(s, 0)
    BY DEF Increasing
  <2>3. Can({})
    BY <2>1, <2>2
  <2> QED BY <2>3, <1>3
<1>4. CASE T # {}
  <2>1. PICK m \in T: \A x \in T: x <= m
    BY <1>2, <1>4, MaxOf
  <2> DEFINE U == T \ {m}
             k == Cardinality(U)
  <2>2. IsFiniteSet(U) /\ Cardinality(T) = k + 1 /\ k \in Nat
    <3>1. IsFiniteSet(U) /\ k = Cardinality(T) - 1
      BY <1>2, FS_RemoveElement
    <3> QED BY <3>1, <1>2, FS_CardinalityType
  <2>3. Can(U)
    <3>1. U \notin B
      BY <1>1, <2>1
    <3> QED BY <3>1
  <2>4. PICK s \in [1..k -> U]: Increasing(s, k)
    BY <2>3
  <2> DEFINE t == [i \in 1..(k + 1) |-> IF i = k + 1 THEN m ELSE s[i]]
  <2>5. \A i \in 1..(k + 1): i = k + 1 \/ (i \in 1..k /\ s[i] \in U)
    <3> HIDE DEF U, k
    <3> QED BY <2>2, <2>4
  <2>6. t \in [1..(k + 1) -> T]
    BY <2>5, <2>1
  <2>7. \A x \in U: x < m
    BY <2>1, <1>2
  <2> HIDE DEF U, k
  <2>8. Increasing(t, k + 1)
    <3> SUFFICES ASSUME NEW i \in 1..(k + 1), NEW j \in 1..(k + 1), i < j
                 PROVE  t[i] < t[j]
      BY DEF Increasing
    <3>1. i \in 1..k /\ t[i] = s[i] /\ s[i] \in U
      BY <2>2, <2>5
    <3>2. CASE j = k + 1
      BY <3>1, <3>2, <2>7
    <3>3. CASE j # k + 1
      BY <3>1, <3>3, <2>2, <2>4, <2>5 DEF Increasing
    <3> QED BY <3>2, <3>3
  <2>9. Can(T)
    <3> HIDE DEF t
    <3> QED BY <2>2, <2>6, <2>8
  <2> QED BY <2>9
<1> QED BY <1>3, <1>4

LEMMA ByIdListing ==
    ASSUME NEW S, IsFiniteSet(S), S \subseteq Nat
    PROVE  /\ ById(S) \in [1..Cardinality(S) -> S]
           /\ \A i, j \in 1..Cardinality(S): ById(S)[i] = ById(S)[j] => i = j
<1> DEFINE n == Cardinality(S)
<1>1. n \in Nat
  BY FS_CardinalityType
<1>2. \E s \in [1..n -> S]: \A i, j \in 1..n: i < j => s[i] < s[j]
  BY Sortable DEF Increasing
<1>3. ById(S) \in [1..n -> S] /\ \A i, j \in 1..n: i < j => ById(S)[i] < ById(S)[j]
  BY <1>2 DEF ById
<1> HIDE DEF n
<1>4. \A i \in 1..n: ById(S)[i] \in Nat
  BY <1>3
<1>5. ASSUME NEW i \in 1..n, NEW j \in 1..n, ById(S)[i] = ById(S)[j] PROVE i = j
  BY <1>1, <1>3, <1>4, <1>5
<1> QED BY <1>3, <1>5 DEF n

LEMMA SlotIn ==
    ASSUME NEW w, NEW count \in Nat \ {0}, NEW value
    PROVE  caluate_slot(w, count, value) \in 1..count
<1> DEFINE hits == {i \in 1..count: WeightAt(w, 1..i) > value}
<1>1. hits \subseteq Nat
  OBVIOUS
<1>2. ASSUME hits # {} PROVE Min(hits) \in hits
  <2> HIDE DEF hits
  <2> QED BY <1>1, <1>2, MinIn
<1>3. caluate_slot(w, count, value) = IF hits = {} THEN count ELSE Min(hits)
  BY DEF caluate_slot
<1> QED BY <1>2, <1>3

(* A state of the shuffle of n candidates after i draws: the drawn miners  *)
(* are at the end of the list, in reverse, and the total is the weight of  *)
(* those in front.                                                         *)
Drawing(st, n, i) ==
    /\ st = [miners |-> st.miners, weights |-> st.weights, out |-> st.out,
             total |-> st.total]
    /\ st.miners \in Seq(Miners) /\ Len(st.miners) = n
    /\ st.weights \in Seq(Nat) /\ Len(st.weights) = n
    /\ st.out \in Seq(Miners) /\ Len(st.out) = i /\ i <= n
    /\ \A j, k \in 1..n: st.miners[j] = st.miners[k] => j = k
    /\ \A j \in 1..i: st.out[j] = st.miners[n + 1 - j]
    /\ st.total = SumOf(st.weights, 1..(n - i))

LEMMA SwappedSeq ==
    ASSUME NEW S, NEW s \in Seq(S), NEW i \in 1..Len(s), NEW j \in 1..Len(s)
    PROVE  /\ Swapped(s, i, j) \in Seq(S) /\ Len(Swapped(s, i, j)) = Len(s)
           /\ Swapped(s, i, j)[i] = s[j] /\ Swapped(s, i, j)[j] = s[i]
           /\ \A k \in 1..Len(s): k # i /\ k # j => Swapped(s, i, j)[k] = s[k]
  BY DEF Swapped

LEMMA SwappedInjective ==
    ASSUME NEW S, NEW s \in Seq(S), NEW i \in 1..Len(s), NEW j \in 1..Len(s),
           \A k, m \in 1..Len(s): s[k] = s[m] => k = m
    PROVE  \A k, m \in 1..Len(s): Swapped(s, i, j)[k] = Swapped(s, i, j)[m] => k = m
<1> DEFINE t == Swapped(s, i, j)
<1>1. /\ t[i] = s[j] /\ t[j] = s[i]
      /\ \A k \in 1..Len(s): k # i /\ k # j => t[k] = s[k]
  BY SwappedSeq
<1> HIDE DEF t
<1>2. ASSUME NEW k \in 1..Len(s), NEW m \in 1..Len(s), t[k] = t[m] PROVE k = m
  BY <1>1, <1>2
<1> QED BY <1>2 DEF t

(* The sum over the front when its element at slot is replaced by the last.*)
LEMMA SumReplaced ==
    ASSUME NEW w, NEW t, NEW F, NEW last, NEW slot \in F \cup {last},
           IsFiniteSet(F), last \notin F, \A x \in F \cup {last}: w[x] \in Nat,
           \A x \in F \ {slot}: w[x] = t[x], slot \in F => t[slot] = w[last]
    PROVE  /\ SumOf(t, F) = SumOf(w, F \cup {last}) - w[slot]
           /\ SumOf(w, F \cup {last}) \in Nat
<1>1. SumOf(w, F \cup {last}) = w[last] + SumOf(w, F) /\ SumOf(w, F) \in Nat
  BY SumAdd, SumNat
<1>2. w[slot] \in Nat /\ w[last] \in Nat
  OBVIOUS
<1>3. CASE slot = last
  <2>1. \A x \in F: w[x] = t[x]
    BY <1>3
  <2>2. SumOf(w, F) = SumOf(t, F)
    BY <2>1, SumEqual
  <2> QED BY <2>2, <1>1, <1>2, <1>3
<1>4. CASE slot \in F
  <2>1. \A x \in F: w[x] \in Nat /\ t[x] \in Nat
    BY <1>4
  <2>2. SumOf(t, F) = SumOf(w, F) - w[slot] + t[slot]
    BY <2>1, <1>4, SumChange
  <2> QED BY <2>2, <1>1, <1>2, <1>4
<1> QED BY <1>3, <1>4

(* The weight left in front once the drawn one has been swapped away.      *)
LEMMA FrontWeight ==
    ASSUME NEW w, NEW t, NEW last, NEW slot, last \in Nat \ {0}, slot \in 1..last,
           \A x \in 1..last: w[x] \in Nat,
           \A x \in 1..(last - 1): x # slot => w[x] = t[x],
           slot # last => t[slot] = w[last]
    PROVE  /\ SumOf(t, 1..(last - 1)) = SumOf(w, 1..last) - w[slot]
           /\ SumOf(w, 1..last) \in Nat
<1> DEFINE F == 1..(last - 1)
           l == last
           y == slot
<1>1. IsFiniteSet(F)
  <2>1. 1 \in Int /\ last - 1 \in Int
    OBVIOUS
  <2> QED BY <2>1, FS_Interval
<1>2. 1..last = F \cup {l} /\ l \notin F
  OBVIOUS
<1>3. \A x \in F \cup {l}: w[x] \in Nat
  OBVIOUS
<1>4. \A x \in F \ {y}: w[x] = t[x]
  OBVIOUS
<1>5. y \in F \cup {l} /\ (y \in F => t[y] = w[l])
  OBVIOUS
<1> HIDE DEF F, l, y
<1>6. SumOf(t, F) = SumOf(w, F \cup {l}) - w[y] /\ SumOf(w, F \cup {l}) \in Nat
  <2>1. l \notin F
    BY <1>2
  <2>2. y \in F \cup {l}
    BY <1>5
  <2>3. y \in F => t[y] = w[l]
    BY <1>5
  <2>4. SumOf(t, F) = SumOf(w, F \cup {l}) - w[y]
    BY ONLY <2>1, <2>2, <2>3, <1>1, <1>3, <1>4, SumReplaced
  <2>5. SumOf(w, F \cup {l}) \in Nat
    BY ONLY <2>1, <2>2, <2>3, <1>1, <1>3, <1>4, SumReplaced
  <2> QED BY <2>4, <2>5
<1> QED BY <1>6, <1>2 DEF F, y

LEMMA SwappedWeight ==
    ASSUME NEW w \in Seq(Nat), NEW last \in 1..Len(w), NEW slot \in 1..last
    PROVE  /\ SumOf(Swapped(w, slot, last), 1..(last - 1))
                = SumOf(w, 1..last) - w[slot]
           /\ SumOf(w, 1..last) \in Nat
<1> DEFINE t == Swapped(w, slot, last)
<1>1. /\ t[slot] = w[last]
      /\ \A k \in 1..Len(w): k # slot /\ k # last => t[k] = w[k]
  <2>1. slot \in 1..Len(w)
    OBVIOUS
  <2> QED BY <2>1, SwappedSeq, ZenonT(60)
<1> HIDE DEF t
<1>2. last \in Nat \ {0} /\ slot \in 1..last
  OBVIOUS
<1>3. \A x \in 1..last: w[x] \in Nat
  OBVIOUS
<1>4. \A x \in 1..(last - 1): x # slot => w[x] = t[x]
  BY <1>1
<1>5. slot # last => t[slot] = w[last]
  BY <1>1
<1> QED BY <1>2, <1>3, <1>4, <1>5, FrontWeight DEF t

(* One draw.                                                               *)
LEMMA DrawKeeps ==
    ASSUME NEW n \in Nat, NEW i \in Nat, NEW st, Drawing(st, n, i),
           NEW r \in 0..(st.total - 1)
    PROVE  Drawing(Draw(st, r), n, i + 1)
<1> DEFINE ms == st.miners
           w == st.weights
           last == n - i
           slot == caluate_slot(w, last, r)
           e == Draw(st, r)
<1>1. /\ ms \in Seq(Miners) /\ Len(ms) = n /\ w \in Seq(Nat) /\ Len(w) = n
      /\ st.out \in Seq(Miners) /\ Len(st.out) = i /\ i <= n
      /\ \A j, k \in 1..n: ms[j] = ms[k] => j = k
      /\ \A j \in 1..i: st.out[j] = ms[n + 1 - j]
      /\ st.total = SumOf(w, 1..last)
  BY DEF Drawing
<1>2. last \in Nat
  BY <1>1
<1>3. last # 0
  <2> SUFFICES ASSUME last = 0 PROVE FALSE
    OBVIOUS
  <2>1. 1..last = {}
    OBVIOUS
  <2>2. st.total = 0
    BY <1>1, <2>1, SumEmpty
  <2> QED BY <2>2
<1>4. slot \in 1..last
  <2> HIDE DEF w, last
  <2> QED BY <1>2, <1>3, SlotIn DEF last
<1>5. e = [miners |-> Swapped(ms, slot, last), weights |-> Swapped(w, slot, last),
           out |-> Append(st.out, ms[slot]), total |-> st.total - w[slot]]
  <2>1. Len(st.miners) - Len(st.out) = last
    BY <1>1
  <2>2. e = [st EXCEPT !.out = Append(@, ms[slot]), !.total = @ - w[slot],
                       !.miners = Swapped(@, slot, last),
                       !.weights = Swapped(@, slot, last)]
    BY <2>1 DEF Draw
  <2>3. st = [miners |-> ms, weights |-> w, out |-> st.out, total |-> st.total]
    BY DEF Drawing
  <2> HIDE DEF e, slot, last
  <2> QED BY <2>2, <2>3
<1>6. slot \in 1..n /\ last \in 1..n
  BY <1>1, <1>2, <1>3, <1>4
<1> HIDE DEF ms, w, slot, e, last
<1> DEFINE Good(s, S) ==
             /\ s \in Seq(S) /\ slot \in 1..Len(s) /\ last \in 1..Len(s)
<1>16. Good(ms, Miners) /\ Good(w, Nat)
  <2>1. ms \in Seq(Miners) /\ Len(ms) = n /\ w \in Seq(Nat) /\ Len(w) = n
    BY <1>1
  <2> QED BY <2>1, <1>6
<1>17. Len(ms) = n /\ Len(w) = n
  BY <1>1
<1>7. /\ Swapped(ms, slot, last) \in Seq(Miners) /\ Len(Swapped(ms, slot, last)) = n
      /\ Swapped(ms, slot, last)[last] = ms[slot]
      /\ \A k \in 1..n: k # slot /\ k # last => Swapped(ms, slot, last)[k] = ms[k]
  <2>1. /\ Swapped(ms, slot, last) \in Seq(Miners)
        /\ Len(Swapped(ms, slot, last)) = Len(ms)
        /\ Swapped(ms, slot, last)[last] = ms[slot]
        /\ \A k \in 1..Len(ms): k # slot /\ k # last => Swapped(ms, slot, last)[k] = ms[k]
    <3>1. ms \in Seq(Miners) /\ slot \in 1..Len(ms) /\ last \in 1..Len(ms)
      BY <1>16
    <3> HIDE DEF Good
    <3> QED BY ONLY <3>1, SwappedSeq, ZenonT(60)
  <2> QED BY <2>1, <1>17
<1>8. Swapped(w, slot, last) \in Seq(Nat) /\ Len(Swapped(w, slot, last)) = n
  BY <1>16, <1>17, SwappedSeq
<1>9. \A j, k \in 1..n: Swapped(ms, slot, last)[j] = Swapped(ms, slot, last)[k] => j = k
  <2>1. \A k, m \in 1..Len(ms): ms[k] = ms[m] => k = m
    BY <1>1
  <2>2. \A k, m \in 1..Len(ms): Swapped(ms, slot, last)[k] = Swapped(ms, slot, last)[m]
                                => k = m
    BY ONLY <1>16, <2>1, SwappedInjective
  <2> QED BY <2>2, <1>17
<1>10. st.total - w[slot] = SumOf(Swapped(w, slot, last), 1..(last - 1))
  <2>1. st.total = SumOf(w, 1..last)
    BY <1>1
  <2>2. SumOf(Swapped(w, slot, last), 1..(last - 1)) = SumOf(w, 1..last) - w[slot]
    BY <1>16, <1>4, SwappedWeight, Zenon
  <2> QED BY <2>1, <2>2
<1>11. ms[slot] \in Miners
  BY <1>1, <1>6
<1> DEFINE o == Append(st.out, ms[slot])
<1>12. o \in Seq(Miners) /\ Len(o) = i + 1 /\ o[i + 1] = ms[slot]
       /\ \A j \in 1..i: o[j] = st.out[j]
  BY <1>1, <1>11
<1>13. ASSUME NEW j \in 1..(i + 1) PROVE o[j] = Swapped(ms, slot, last)[n + 1 - j]
  <2> HIDE DEF o
  <2>1. CASE j = i + 1
    <3>1. n + 1 - j = last
      BY <2>1, <1>1 DEF last
    <3> QED BY <3>1, <2>1, <1>7, <1>12
  <2>2. CASE j # i + 1
    <3>1. j \in 1..i /\ n + 1 - j \in 1..n /\ n + 1 - j > last
      BY <2>2, <1>1, SMTT(30) DEF last
    <3>2. n + 1 - j # slot /\ n + 1 - j # last
      BY <3>1, <1>2, <1>4
    <3> QED BY <3>1, <3>2, <1>1, <1>7, <1>12
  <2> QED BY <2>1, <2>2
<1>14. last - 1 = n - (i + 1) /\ i + 1 <= n
  BY <1>1, <1>2, <1>3 DEF last
<1>15. /\ e.miners = Swapped(ms, slot, last) /\ e.weights = Swapped(w, slot, last)
       /\ e.out = o /\ e.total = st.total - w[slot]
       /\ e = [miners |-> e.miners, weights |-> e.weights, out |-> e.out,
               total |-> e.total]
  BY <1>5
<1> HIDE DEF o
<1> QED BY <1>7, <1>8, <1>9, <1>10, <1>12, <1>13, <1>14, <1>15 DEF Drawing, e

(* The states that can follow one of T.                                    *)
AfterDraw(T) == UNION {{Draw(st, r): r \in 0..(st.total - 1)}: st \in T}

(* The equation of the recursive function inside Shuffles, up to k draws.  *)
IsDrawn(d, start, k) ==
    d = [i \in 0..k |-> IF i = 0 THEN {start} ELSE AfterDraw(d[i - 1])]

Drawn(start) == CHOOSE d: IsDrawn(d, start, Round)

LEMMA DrawnExists ==
    ASSUME NEW start, NEW n \in Nat
    PROVE  \E d: IsDrawn(d, start, n)
<1> DEFINE B == {k \in Nat: ~ \E d: IsDrawn(d, start, k)}
<1> SUFFICES ASSUME B # {} PROVE FALSE
  OBVIOUS
<1>1. PICK k \in B: \A j \in B: k <= j
  <2>1. B \subseteq Nat
    OBVIOUS
  <2> HIDE DEF B
  <2> QED BY ONLY <2>1, B # {}, SmallestOf
<1>2. CASE k = 0
  <2> DEFINE d == [i \in 0..0 |-> {start}]
  <2>1. d = [i \in 0..0 |-> IF i = 0 THEN {start} ELSE AfterDraw(d[i - 1])]
    OBVIOUS
  <2>2. IsDrawn(d, start, 0)
    BY <2>1 DEF IsDrawn
  <2> QED BY <2>2, <1>2
<1>3. CASE k # 0
  <2>1. k \in Nat /\ k - 1 \in Nat
    BY <1>3
  <2>2. k - 1 \notin B
    BY <1>1, <2>1
  <2>3. PICK d: IsDrawn(d, start, k - 1)
    BY <2>1, <2>2
  <2>4. \A i \in 0..(k - 1): d[i] = IF i = 0 THEN {start} ELSE AfterDraw(d[i - 1])
    BY <2>3 DEF IsDrawn
  <2> DEFINE e == [i \in 0..k |-> IF i < k THEN d[i] ELSE AfterDraw(d[k - 1])]
  <2>5. ASSUME NEW i \in 0..k
        PROVE  e[i] = IF i = 0 THEN {start} ELSE AfterDraw(e[i - 1])
    <3>1. CASE i = 0
      <4>1. e[0] = d[0] /\ 0 \in 0..(k - 1)
        BY <2>1, <1>3
      <4> QED BY <4>1, <3>1, <2>4
    <3>2. CASE i # 0 /\ i < k
      <4>1. e[i] = d[i] /\ e[i - 1] = d[i - 1] /\ i \in 0..(k - 1)
        BY <2>1, <3>2
      <4> QED BY <4>1, <3>2, <2>4
    <3>3. CASE i = k
      <4>1. e[k] = AfterDraw(d[k - 1]) /\ e[k - 1] = d[k - 1]
        BY <2>1
      <4> QED BY <4>1, <3>3, <1>3
    <3> QED BY <3>1, <3>2, <3>3, <2>1
  <2>6. IsDrawn(e, start, k)
    <3>1. e = [i \in 0..k |-> e[i]]
      OBVIOUS
    <3> HIDE DEF e
    <3> QED BY <3>1, <2>5 DEF IsDrawn
  <2> QED BY <2>6
<1> QED BY <1>2, <1>3

(* The start of the shuffle.                                               *)
Start(candidates, w) ==
    LET order == ById(candidates)
        ws    == [i \in DOMAIN order |-> w[order[i]]]
    IN [miners |-> order, weights |-> ws, out |-> <<>>, total |-> WeightAt(ws, DOMAIN ws)]

LEMMA ShufflesDrawn ==
    ASSUME NEW candidates, NEW w
    PROVE  Shuffles(candidates, w) = {st.out: st \in Drawn(Start(candidates, w))[Round]}
  BY DEF Shuffles, Drawn, IsDrawn, AfterDraw, Start

LEMMA ListIsSeq ==
    ASSUME NEW T, NEW n \in Nat, NEW f \in [1..n -> T]
    PROVE  f \in Seq(T) /\ Len(f) = n /\ DOMAIN f = 1..n
  OBVIOUS

LEMMA StartDrawing ==
    ASSUME NEW S, S \subseteq Miners, NEW w \in [Miners -> Nat]
    PROVE  Cardinality(S) \in Nat /\ Drawing(Start(S, w), Cardinality(S), 0)
<1> DEFINE n == Cardinality(S)
           order == ById(S)
           ws == [i \in 1..n |-> w[order[i]]]
           st == Start(S, w)
<1>1. Miners \subseteq Nat /\ IsFiniteSet(Miners)
  BY ScheduleAssumption
<1>2. IsFiniteSet(S) /\ n \in Nat /\ S \subseteq Nat
  BY <1>1, FS_Subset, FS_CardinalityType
<1>3. order \in [1..n -> S] /\ \A i, j \in 1..n: order[i] = order[j] => i = j
  BY <1>2, ByIdListing
<1> HIDE DEF n, order
<1>4. order \in Seq(Miners) /\ Len(order) = n /\ DOMAIN order = 1..n
  <2>1. order \in [1..n -> Miners]
    BY <1>3
  <2> QED BY <2>1, <1>2, ListIsSeq
<1>5. ws \in Seq(Nat) /\ Len(ws) = n /\ DOMAIN ws = 1..n
  <2>1. ws \in [1..n -> Nat]
    BY <1>3
  <2> HIDE DEF ws
  <2> QED BY <2>1, <1>2, ListIsSeq
<1>6. st = [miners |-> order, weights |-> ws, out |-> <<>>, total |-> WeightAt(ws, 1..n)]
  BY <1>4, <1>5 DEF Start, order
<1>7. WeightAt(ws, 1..n) = SumOf(ws, 1..n)
  BY DEF WeightAt, SumOf
<1>8. n - 0 = n
  BY <1>2
<1>9. <<>> \in Seq(Miners) /\ Len(<<>>) = 0
  OBVIOUS
<1> HIDE DEF ws, st
<1>10. /\ st.miners = order /\ st.weights = ws /\ st.out = <<>>
       /\ st.total = SumOf(ws, 1..n)
       /\ st = [miners |-> st.miners, weights |-> st.weights, out |-> st.out,
                total |-> st.total]
  BY <1>6, <1>7
<1>11. Drawing(st, n, 0)
  BY <1>2, <1>3, <1>4, <1>5, <1>8, <1>9, <1>10 DEF Drawing
<1> QED BY <1>2, <1>11 DEF n, st

LEMMA DrawnKeeps ==
    ASSUME NEW start, NEW n \in Nat, Drawing(start, n, 0)
    PROVE  \A st \in Drawn(start)[Round]: Drawing(st, n, Round)
<1> DEFINE d == Drawn(start)
           B == {k \in 0..Round: ~ \A st \in d[k]: Drawing(st, n, k)}
<1>1. Round \in Nat
  BY ScheduleAssumption
<1>2. IsDrawn(d, start, Round)
  <2>1. \E e: IsDrawn(e, start, Round)
    BY <1>1, DrawnExists
  <2> QED BY <2>1 DEF Drawn
<1>3. \A i \in 0..Round: d[i] = IF i = 0 THEN {start} ELSE AfterDraw(d[i - 1])
  <2> HIDE DEF d
  <2> QED BY <1>2 DEF IsDrawn
<1> HIDE DEF d
<1>4. ASSUME B # {} PROVE FALSE
  <2>1. PICK k \in B: \A j \in B: k <= j
    <3>1. B \subseteq Nat
      OBVIOUS
    <3> HIDE DEF B
    <3> QED BY ONLY <3>1, <1>4, SmallestOf
  <2>2. k \in 0..Round
    OBVIOUS
  <2>3. CASE k = 0
    <3>1. d[0] = {start}
      BY <1>1, <1>3
    <3> QED BY <3>1, <2>3
  <2>4. CASE k # 0
    <3>1. k - 1 \in 0..Round /\ k - 1 \in Nat /\ (k - 1) + 1 = k
      BY <2>2, <2>4, <1>1
    <3>2. k - 1 \notin B
      BY <2>1, <2>2, <3>1
    <3>3. \A st \in d[k - 1]: Drawing(st, n, k - 1)
      BY <3>1, <3>2
    <3>4. d[k] = AfterDraw(d[k - 1])
      BY <2>2, <2>4, <1>3
    <3>5. ASSUME NEW e \in d[k] PROVE Drawing(e, n, k)
      <4>1. PICK st \in d[k - 1]: \E r \in 0..(st.total - 1): e = Draw(st, r)
        BY <3>4 DEF AfterDraw
      <4>2. PICK r \in 0..(st.total - 1): e = Draw(st, r)
        BY <4>1
      <4>3. Drawing(st, n, k - 1)
        BY <3>3
      <4>4. Drawing(e, n, (k - 1) + 1)
        BY ONLY <4>2, <4>3, <3>1, n \in Nat, DrawKeeps
      <4> QED BY <4>4, <3>1
    <3> QED BY <3>5
  <2> QED BY <2>3, <2>4
<1>5. Round \notin B
  BY <1>4
<1> QED BY <1>5, <1>1 DEF d

(* Whatever is drawn, a new schedule has one place for each of its miners, *)
(* and all places of a round are taken.                                    *)
LEMMA ShuffledDistinct ==
    ASSUME NEW S, S \subseteq Miners, NEW w \in [Miners -> Nat], NEW s \in Shuffles(S, w)
    PROVE  /\ s \in Seq(Miners) /\ Len(s) = Round
           /\ \A i, j \in 1..Round: s[i] = s[j] => i = j
<1> DEFINE n == Cardinality(S)
<1>1. n \in Nat /\ Drawing(Start(S, w), n, 0)
  BY StartDrawing
<1>2. PICK st \in Drawn(Start(S, w))[Round]: s = st.out
  BY ShufflesDrawn
<1>3. Drawing(st, n, Round)
  <2> HIDE DEF n
  <2> QED BY <1>1, <1>2, DrawnKeeps
<1>4. /\ Round \in Nat /\ s \in Seq(Miners) /\ Len(s) = Round /\ Round <= n
      /\ \A j, k \in 1..n: st.miners[j] = st.miners[k] => j = k
      /\ \A j \in 1..Round: s[j] = st.miners[n + 1 - j]
  BY <1>2, <1>3, ScheduleAssumption DEF Drawing
<1>5. ASSUME NEW i \in 1..Round, NEW j \in 1..Round, s[i] = s[j] PROVE i = j
  <2> HIDE DEF n
  <2>1. n + 1 - i \in 1..n /\ n + 1 - j \in 1..n
    BY <1>1, <1>4
  <2>2. st.miners[n + 1 - i] = st.miners[n + 1 - j]
    BY <1>4, <1>5
  <2>3. n + 1 - i = n + 1 - j
    BY <2>1, <2>2, <1>4
  <2> QED BY <2>3, <1>1
<1> QED BY <1>4, <1>5

-----------------------------------------------------------------------------
(* The inductive invariant.                                                *)

(* A slot that counts as filled: one of a block, or one before the chain.  *)
Occupied(u) == u <= 0 \/ u \in history

(* A bit of recent_slots_filled tells of the slot before the one that its  *)
(* place stands for, and the head block fills the last slot.               *)
BitsShifted ==
    /\ \A i \in 1..Window:
         filled[i] = IF Occupied(aslot - Window + i - 1) THEN 1 ELSE 0
    /\ Occupied(aslot)

(* The turns of a place are the slots that met it since some slot b, that  *)
(* of the last shuffle.                                                    *)
TurnsCounted ==
    \E b \in 0..aslot: \A i \in 1..Round:
        turns[shuffled[i]] = Met(i, aslot) - Met(i, b)

ChainInv == /\ TypeOK /\ HeadInv /\ SlotsMatchClock /\ ShuffleDistinct
            /\ BitsShifted /\ TurnsCounted /\ Cardinality(active) >= Round

(* Turn and Makeable at an earlier time of the clock.                      *)
TurnAt(m, c) ==
    /\ get_slot_at_time(c) # 0
    /\ m = get_scheduled_miner(get_slot_at_time(c))
    /\ Participation >= Required
    /\ get_slot_time(get_slot_at_time(c)) = c

MakeableAt(c) ==
    (head + 1) % Round = 0 =>
        \A S \in IF maint <= c THEN ActiveMiners ELSE {active}:
            Cardinality(S \ blocked) >= Round

(* Since the head block arrived no node that is up had a block to make.    *)
Waited ==
    /\ arrived <= now
    /\ \A c \in arrived..(now - 1): \A m \in AlwaysOn: ~ (TurnAt(m, c) /\ MakeableAt(c))

LEMMA BlockClock ==
    ASSUME ChainInv, NEW m \in Miners, NEW t \in Nat, apply_block(m, t),
           NEW slot, slot = get_slot_at_time(t)
    PROVE  /\ slot \in Nat \ {0} /\ t \div Interval = Base + slot
           /\ head' = head + 1 /\ time' = t /\ aslot' = aslot + slot
           /\ skipped' = skipped + SkippedSlots
           /\ history' = history \cup {aslot + slot}
           /\ filled' = RecentSlots(slot - 1)
<1>1. slot > 0
  BY DEF apply_block, validate_block_header
<1>2. TypeOK /\ HeadInv /\ Base \in Nat
  BY BaseNat DEF ChainInv
<1>3. slot = IF t \div Interval <= Base THEN 0 ELSE (t \div Interval) - Base
  BY <1>2, SlotAtTime
<1>4. t \div Interval \in Nat
  <2>1. Interval \in Nat \ {0}
    BY ScheduleAssumption
  <2> QED BY <2>1
<1>5. slot \in Nat \ {0} /\ t \div Interval = Base + slot
  BY <1>1, <1>2, <1>3, <1>4
<1> QED BY <1>5 DEF apply_block, update_global_dynamic_data, NextAslot

LEMMA MissedTurnsNat ==
    ASSUME NEW m, NEW n \in Nat
    PROVE  MissedTurns(m, n) \in Nat
<1> DEFINE S == {i \in 1..n: get_scheduled_miner(i) = m}
<1>1. IsFiniteSet(1..n)
  <2>1. 1 \in Int /\ n \in Int
    OBVIOUS
  <2> QED BY <2>1, FS_Interval
<1>2. S \subseteq 1..n
  OBVIOUS
<1>3. Cardinality(S) \in Nat
  <2> HIDE DEF S
  <2> QED BY <1>1, <1>2, FS_Subset, FS_CardinalityType
<1> QED BY <1>3 DEF MissedTurns

LEMMA BlockCounters ==
    ASSUME ChainInv, NEW m \in Miners, NEW t \in Nat, apply_block(m, t)
    PROVE  /\ produced' \in [Miners -> Nat] /\ missed' \in [Miners -> Nat]
           /\ turns' \in [Miners -> Nat] /\ skipped' \in Nat
           /\ history' \subseteq 1..aslot'
           /\ head' \in Nat \ {0} /\ time' \in Nat /\ aslot' \in Nat
<1> DEFINE slot == get_slot_at_time(t)
<1>1. TypeOK
  BY DEF ChainInv
<1>2. /\ slot \in Nat \ {0} /\ head' = head + 1 /\ time' = t /\ aslot' = aslot + slot
      /\ skipped' = skipped + SkippedSlots /\ history' = history \cup {aslot + slot}
  BY BlockClock
<1>3. produced' \in [Miners -> Nat]
  BY <1>1 DEF TypeOK, apply_block
<1>4. missed' \in [Miners -> Nat]
  <2>1. missed' = [n \in Miners |->
                    IF n = m THEN missed[n] ELSE missed[n] + MissedTurns(n, slot - 1)]
    BY DEF apply_block, update_global_dynamic_data
  <2>2. slot - 1 \in Nat
    BY <1>2
  <2> HIDE DEF slot
  <2>3. \A n \in Miners: MissedTurns(n, slot - 1) \in Nat
    BY <2>2, MissedTurnsNat
  <2> QED BY <2>1, <2>3, <1>1 DEF TypeOK
<1>5. turns' \in [Miners -> Nat]
  <2>1. CASE head' % Round = 0
    <3>1. turns' = [n \in Miners |-> 0]
      BY <2>1 DEF apply_block, update_miner_schedule
    <3> QED BY <3>1
  <2>2. CASE head' % Round # 0
    <3>1. turns' = [n \in Miners |-> turns[n] + MissedTurns(n, slot)]
      BY <2>2 DEF apply_block, update_global_dynamic_data
    <3> HIDE DEF slot
    <3>2. \A n \in Miners: MissedTurns(n, slot) \in Nat
      BY <1>2, MissedTurnsNat
    <3> QED BY <3>1, <3>2, <1>1 DEF TypeOK
  <2> QED BY <2>1, <2>2
<1> HIDE DEF slot
<1>6. skipped' \in Nat
  BY <1>1, <1>2, SkippedSlotsNat, SMTT(30) DEF TypeOK
<1> QED BY <1>1, <1>2, <1>3, <1>4, <1>5, <1>6, SMTT(30) DEF TypeOK

LEMMA SubSeqOf ==
    ASSUME NEW S, NEW s \in Seq(S), NEW a \in 1..Len(s), NEW b \in a..Len(s)
    PROVE  /\ SubSeq(s, a, b) \in Seq(S) /\ Len(SubSeq(s, a, b)) = b - a + 1
           /\ \A i \in 1..(b - a + 1): SubSeq(s, a, b)[i] = s[a + i - 1]
<1>1. Len(SubSeq(s, a, b)) = b - a + 1
  OBVIOUS
<1>2. SubSeq(s, a, b) = [i \in 1..(b - a + 1) |-> s[a + i - 1]]
  OBVIOUS
<1> QED BY <1>1, <1>2

(* The bitmap after a block.                                               *)
LEMMA BlockBits ==
    ASSUME ChainInv, NEW m \in Miners, NEW t \in Nat, apply_block(m, t)
    PROVE  filled' \in Seq({0, 1}) /\ Len(filled') = Window /\ BitsShifted'
<1> DEFINE slot == get_slot_at_time(t)
           W == Window
           zeros == [i \in 1..(slot - 1) |-> 0]
           bits == filled \o <<1>> \o zeros
<1>1. /\ slot \in Nat \ {0} /\ aslot' = aslot + slot
      /\ history' = history \cup {aslot + slot} /\ filled' = RecentSlots(slot - 1)
  BY BlockClock
<1> HIDE DEF slot
<1>2. W \in Nat \ {0} /\ filled \in Seq({0, 1}) /\ Len(filled) = W
      /\ aslot \in Nat /\ history \subseteq 1..aslot
  BY ScheduleAssumption DEF ChainInv, TypeOK
<1>3. zeros \in Seq({0, 1}) /\ Len(zeros) = slot - 1
      /\ \A i \in 1..(slot - 1): zeros[i] = 0
  <2>1. slot - 1 \in Nat /\ zeros \in [1..(slot - 1) -> {0, 1}]
    BY <1>1
  <2>2. \A i \in 1..(slot - 1): zeros[i] = 0
    OBVIOUS
  <2> HIDE DEF zeros
  <2> QED BY <2>1, <2>2, ListIsSeq
<1> HIDE DEF zeros
<1>4. /\ bits \in Seq({0, 1}) /\ Len(bits) = W + slot
      /\ \A p \in 1..W: bits[p] = filled[p]
      /\ bits[W + 1] = 1
      /\ \A p \in (W + 2)..(W + slot): bits[p] = 0
  <2> DEFINE front == filled \o <<1>>
  <2>1. front \in Seq({0, 1}) /\ Len(front) = W + 1 /\ front[W + 1] = 1
        /\ \A p \in 1..W: front[p] = filled[p]
    BY <1>2
  <2> HIDE DEF front
  <2>2. /\ front \o zeros \in Seq({0, 1}) /\ Len(front \o zeros) = W + slot
        /\ \A p \in 1..(W + 1): (front \o zeros)[p] = front[p]
        /\ \A p \in (W + 2)..(W + slot): (front \o zeros)[p] = zeros[p - (W + 1)]
    BY <2>1, <1>1, <1>2, <1>3, SMTT(30)
  <2>3. \A p \in (W + 2)..(W + slot): p - (W + 1) \in 1..(slot - 1)
    BY <1>1, <1>2
  <2>4. \A p \in 1..W: p \in 1..(W + 1)
    BY <1>2
  <2>5. W + 1 \in 1..(W + 1)
    BY <1>2
  <2>6. bits = front \o zeros
    BY DEF front
  <2> QED BY <2>1, <2>2, <2>3, <2>4, <2>5, <2>6, <1>3
<1>5. filled' = SubSeq(bits, slot + 1, W + slot)
  <2>1. Len(bits) - W + 1 = slot + 1
    BY <1>1, <1>2, <1>4, SMTT(30)
  <2>2. filled' = SubSeq(bits, Len(bits) - W + 1, Len(bits))
    BY <1>1 DEF RecentSlots, bits, zeros
  <2> QED BY <2>1, <2>2, <1>4
<1> HIDE DEF bits
<1>6. /\ filled' \in Seq({0, 1}) /\ Len(filled') = W
      /\ \A i \in 1..W: filled'[i] = bits[slot + i]
  <2>1. slot + 1 \in 1..(W + slot) /\ W + slot \in 1..Len(bits)
    BY <1>1, <1>2, <1>4
  <2>2. (W + slot) - (slot + 1) + 1 = W
    BY <1>1, <1>2
  <2>3. \A i \in 1..W: (slot + 1) + i - 1 = slot + i
    BY <1>1, <1>2
  <2>4. bits \in Seq({0, 1}) /\ slot + 1 \in 1..Len(bits)
        /\ W + slot \in (slot + 1)..Len(bits)
    BY <1>1, <1>2, <1>4
  <2> DEFINE a == slot + 1
             b == W + slot
  <2>5. /\ SubSeq(bits, a, b) \in Seq({0, 1})
        /\ Len(SubSeq(bits, a, b)) = b - a + 1
        /\ \A i \in 1..(b - a + 1): SubSeq(bits, a, b)[i] = bits[a + i - 1]
    <3> HIDE DEF a, b
    <3> QED BY <2>4, SubSeqOf DEF a, b
  <2> QED BY <2>2, <2>3, <2>5, <1>5
<1>7. ASSUME NEW i \in 1..W
      PROVE  filled'[i] = IF aslot' - W + i - 1 <= 0 \/ aslot' - W + i - 1 \in history'
                          THEN 1 ELSE 0
  <2> DEFINE u == aslot + slot - W + i - 1
  <2>1. (aslot' - W + i - 1 <= 0 \/ aslot' - W + i - 1 \in history')
          <=> u <= 0 \/ u \in history \/ u = aslot + slot
    <3>1. aslot' - W + i - 1 = u
      BY <1>1, <1>2
    <3> HIDE DEF u
    <3> QED BY <3>1, <1>1
  <2>2. filled'[i] = bits[slot + i]
    BY <1>6
  <2>3. CASE slot + i <= W
    <3>1. slot + i \in 1..W
      BY <2>3, <1>1, <1>2
    <3>2. bits[slot + i] = filled[slot + i]
      BY <3>1, <1>4
    <3>3. filled[slot + i] = IF Occupied(aslot - W + (slot + i) - 1) THEN 1 ELSE 0
      BY <3>1 DEF ChainInv, BitsShifted
    <3>4. aslot - W + (slot + i) - 1 = u /\ u # aslot + slot
      BY <2>3, <1>1, <1>2
    <3> QED BY <2>1, <2>2, <3>2, <3>3, <3>4 DEF Occupied
  <2>4. CASE slot + i = W + 1
    <3>1. u = aslot
      BY <2>4, <1>1, <1>2
    <3>2. Occupied(aslot)
      BY DEF ChainInv, BitsShifted
    <3> QED BY <2>1, <2>2, <2>4, <3>1, <3>2, <1>4 DEF Occupied
  <2>5. CASE slot + i > W + 1
    <3>1. slot + i \in (W + 2)..(W + slot)
      BY <2>5, <1>1, <1>2
    <3>2. bits[slot + i] = 0
      BY <3>1, <1>4
    <3>3. u > aslot /\ u < aslot + slot /\ ~ (u <= 0)
      BY <2>5, <1>1, <1>2
    <3>4. u \notin history
      <4>1. u \notin 1..aslot
        BY <3>3, <1>2
      <4> HIDE DEF u
      <4> QED BY <4>1, <1>2
    <3> QED BY <2>1, <2>2, <3>2, <3>3, <3>4, <1>1, <1>2
  <2> QED BY <2>3, <2>4, <2>5, <1>1, <1>2
<1>8. Occupied(aslot)'
  BY <1>1 DEF Occupied
<1> QED BY <1>6, <1>7, <1>8 DEF BitsShifted, Occupied

LEMMA MaxPair ==
    ASSUME NEW a \in Nat, NEW b \in Nat
    PROVE  /\ Max({a, b}) \in {a, b} /\ Max({a, b}) >= a /\ Max({a, b}) >= b
           /\ Min({a, b}) \in {a, b}
<1>1. \E x \in {a, b}: \A y \in {a, b}: x >= y
  OBVIOUS
<1>2. \E x \in {a, b}: \A y \in {a, b}: x =< y
  OBVIOUS
<1>3. Max({a, b}) \in {a, b} /\ \A y \in {a, b}: Max({a, b}) >= y
  BY <1>1 DEF Max
<1>4. Min({a, b}) \in {a, b}
  BY <1>2 DEF Min
<1> QED BY <1>3, <1>4

(* Maintenance takes at least a whole round of active miners.              *)
LEMMA EnoughActive ==
    ASSUME NEW S \in ActiveMiners
    PROVE  S \subseteq Miners /\ Cardinality(S) >= Round
<1> DEFINE above == {m \in Miners: weight[m] >= Line}
           c == Cardinality(above)
           n == Cardinality(Miners)
           scan == Min({c + 1, n})
           count == Max({scan, Round})
<1>1. Round \in Nat /\ IsFiniteSet(Miners)
  BY ScheduleAssumption
<1>2. above \subseteq Miners
  OBVIOUS
<1>3. c \in Nat /\ n \in Nat
  <2> HIDE DEF above
  <2> QED BY <1>1, <1>2, FS_Subset, FS_CardinalityType
<1>4. S \subseteq Miners /\ Cardinality(S) = count
  BY DEF ActiveMiners
<1> HIDE DEF c, n
<1>5. scan \in Nat
  <2>1. c + 1 \in Nat
    BY <1>3
  <2> QED BY <2>1, <1>3, MaxPair
<1> HIDE DEF scan
<1>6. count >= Round
  BY <1>1, <1>5, MaxPair
<1> QED BY <1>4, <1>6

LEMMA BlockMaintenance ==
    ASSUME ChainInv, NEW m \in Miners, NEW t \in Nat, apply_block(m, t)
    PROVE  /\ active' \subseteq Miners /\ Cardinality(active') >= Round
           /\ maint' \in Nat /\ flag' \in BOOLEAN
<1>1. TypeOK /\ perform_chain_maintenance(t) /\ active \subseteq Miners
      /\ maint \in Nat /\ Cardinality(active) >= Round
  BY DEF ChainInv, TypeOK, apply_block
<1>2. CASE maint <= t
  <2>1. active' \in ActiveMiners /\ maint' = NextMaintenance(t) /\ flag' = TRUE
    BY <1>1, <1>2 DEF perform_chain_maintenance
  <2>2. NextMaintenance(t) \in Nat
    <3>1. MaintenanceInterval \in Nat \ {0} /\ t - maint \in Nat
      BY <1>1, <1>2, ScheduleAssumption
    <3>2. ASSUME NEW x \in Nat PROVE (x \div MaintenanceInterval + 1) * MaintenanceInterval \in Nat
      <4>1. x \div MaintenanceInterval \in Nat
        BY <3>1
      <4> QED BY <4>1, <3>1
    <3> QED BY <3>1, <3>2, <1>1 DEF NextMaintenance
  <2> QED BY <2>1, <2>2, EnoughActive
<1>3. CASE ~(maint <= t)
  BY <1>1, <1>3 DEF perform_chain_maintenance
<1> QED BY <1>2, <1>3

LEMMA BlockSchedule ==
    ASSUME ChainInv, NEW m \in Miners, NEW t \in Nat, apply_block(m, t)
    PROVE  /\ weight' \in [Miners -> Nat \ {0}]
           /\ shuffled' \in Seq(Miners) /\ Len(shuffled') >= Round
           /\ ShuffleDistinct'
<1>1. TypeOK /\ ShuffleDistinct /\ update_miner_schedule /\ Round \in Nat
  BY ScheduleAssumption DEF ChainInv, apply_block
<1>2. produced' \in [Miners -> Nat] /\ active' \subseteq Miners /\ Locks \in [Miners -> Nat]
  BY BlockCounters, BlockMaintenance, ScheduleAssumption
<1>3. CASE head' % Round = 0
  <2>1. /\ weight' = [n \in Miners |-> IF n \in active'
                            THEN produced'[n] + 1 + Locks[n] ELSE weight[n]]
        /\ shuffled' \in Shuffles(active' \ blocked', weight')
    BY <1>1, <1>3 DEF update_miner_schedule
  <2>2. weight' \in [Miners -> Nat \ {0}]
    BY <2>1, <1>1, <1>2, SMTT(30) DEF TypeOK
  <2>3. weight' \in [Miners -> Nat] /\ active' \ blocked' \subseteq Miners
    BY <2>2, <1>2
  <2>4. /\ shuffled' \in Seq(Miners) /\ Len(shuffled') = Round
        /\ \A i, j \in 1..Round: shuffled'[i] = shuffled'[j] => i = j
    BY <2>1, <2>3, ShuffledDistinct
  <2> QED BY <2>2, <2>4, <1>1 DEF ShuffleDistinct
<1>4. CASE head' % Round # 0
  <2>1. UNCHANGED <<weight, shuffled>>
    BY <1>1, <1>4 DEF update_miner_schedule
  <2> QED BY <2>1, <1>1 DEF TypeOK, ShuffleDistinct
<1> QED BY <1>3, <1>4

LEMMA BlockTurns ==
    ASSUME ChainInv, NEW m \in Miners, NEW t \in Nat, apply_block(m, t)
    PROVE  TurnsCounted'
<1> DEFINE slot == get_slot_at_time(t)
<1>1. slot \in Nat \ {0} /\ aslot' = aslot + slot
  BY BlockClock
<1>2. /\ aslot \in Nat /\ Round \in Nat \ {0} /\ ShuffleDistinct /\ turns \in [Miners -> Nat]
      /\ shuffled \in Seq(Miners) /\ Len(shuffled) >= Round
  BY ScheduleAssumption DEF ChainInv, TypeOK
<1>3. CASE head' % Round = 0
  <2>1. turns' = [n \in Miners |-> 0]
    BY <1>3 DEF apply_block, update_miner_schedule
  <2>2. shuffled' \in Seq(Miners) /\ Len(shuffled') >= Round
    BY BlockSchedule
  <2> HIDE DEF slot
  <2>3. aslot' \in Nat /\ aslot' \in 0..aslot'
    BY <1>1, <1>2
  <2>4. \A i \in 1..Round: turns'[shuffled'[i]] = Met(i, aslot') - Met(i, aslot')
    <3> SUFFICES ASSUME NEW i \in 1..Round
                 PROVE  turns'[shuffled'[i]] = Met(i, aslot') - Met(i, aslot')
      OBVIOUS
    <3>1. Met(i, aslot') \in Int
      BY <2>3, MetInt
    <3>2. shuffled'[i] \in Miners
      BY <2>2, <1>2
    <3> QED BY <3>1, <3>2, <2>1
  <2>5. \E b \in 0..aslot': \A i \in 1..Round:
            turns'[shuffled'[i]] = Met(i, aslot') - Met(i, b)
    BY <2>3, <2>4
  <2> QED BY <2>5 DEF TurnsCounted, Met
<1>4. CASE head' % Round # 0
  <2>1. turns' = [n \in Miners |-> turns[n] + MissedTurns(n, slot)] /\ shuffled' = shuffled
    BY <1>4 DEF apply_block, update_global_dynamic_data, update_miner_schedule
  <2>2. PICK b \in 0..aslot: \A i \in 1..Round:
            turns[shuffled[i]] = Met(i, aslot) - Met(i, b)
    BY DEF ChainInv, TurnsCounted
  <2> HIDE DEF slot
  <2>3. ASSUME NEW i \in 1..Round
        PROVE  turns'[shuffled[i]] = Met(i, aslot') - Met(i, b)
    <3> DEFINE S == {k \in 1..slot: get_scheduled_miner(k) = shuffled[i]}
               T == {k \in 1..slot: (aslot + k) % Round = i - 1}
    <3>1. ASSUME NEW k \in 1..slot
          PROVE  get_scheduled_miner(k) = shuffled[i] <=> (aslot + k) % Round = i - 1
      <4> DEFINE r == (aslot + k) % Round
      <4>1. aslot + k \in Int
        BY <1>2
      <4>2. r \in 0..(Round - 1)
        <5> DEFINE x == aslot + k
        <5> HIDE DEF x
        <5> QED BY <4>1, <1>2, DivDef DEF x
      <4>3. get_scheduled_miner(k) = shuffled[r + 1]
        BY DEF get_scheduled_miner
      <4> HIDE DEF r
      <4>4. r + 1 \in 1..Round
        BY <4>2, <1>2
      <4>5. shuffled[r + 1] = shuffled[i] <=> r + 1 = i
        BY <4>4, <1>2 DEF ShuffleDistinct
      <4> QED BY <4>2, <4>3, <4>5, <1>2 DEF r
    <3>2. S = T
      BY <3>1
    <3>3. MissedTurns(shuffled[i], slot) = Cardinality(T)
      BY <3>2 DEF MissedTurns
    <3>4. Cardinality(T) = Met(i, aslot + slot) - Met(i, aslot)
      <4>1. slot \in Nat /\ aslot \in Nat
        BY <1>1, <1>2
      <4> QED BY ONLY <4>1, i \in 1..Round, SlotsOfPlace
    <3>5. Met(i, aslot + slot) \in Int /\ Met(i, aslot) \in Int /\ Met(i, b) \in Int
      <4>1. aslot + slot \in Nat /\ aslot \in Nat /\ b \in Nat
        BY <1>1, <1>2
      <4> QED BY <4>1, MetInt
    <3>6. shuffled[i] \in Miners
      BY <1>2
    <3>7. turns'[shuffled[i]] = turns[shuffled[i]] + MissedTurns(shuffled[i], slot)
      BY <2>1, <3>6
    <3> HIDE DEF S, T
    <3> QED BY <2>2, <3>3, <3>4, <3>5, <3>7, <1>1
  <2>4. b \in 0..aslot'
    BY <1>1, <1>2
  <2>5. \E c \in 0..aslot': \A i \in 1..Round:
            turns'[shuffled'[i]] = Met(i, aslot') - Met(i, c)
    BY <2>1, <2>3, <2>4
  <2> QED BY <2>5 DEF TurnsCounted, Met
<1> QED BY <1>3, <1>4

(* A block keeps the invariant of the chain.                               *)
LEMMA BlockKeeps ==
    ASSUME ChainInv, NEW m \in Miners, NEW t \in Nat, apply_block(m, t), now \in Nat
    PROVE  ChainInv'
<1> DEFINE slot == get_slot_at_time(t)
<1>1. /\ slot \in Nat \ {0} /\ t \div Interval = Base + slot
      /\ time' = t /\ aslot' = aslot + slot /\ skipped' = skipped + SkippedSlots
  BY BlockClock
<1>2. TypeOK'
  <2>1. now' \in Nat /\ arrived' \in Nat /\ blocked' \subseteq Miners
    BY DEF apply_block, BlockAddresses
  <2> QED BY <2>1, BlockCounters, BlockBits, BlockMaintenance, BlockSchedule DEF TypeOK
<1>3. HeadInv'
  BY BlockCounters DEF HeadInv
<1>4. SlotsMatchClock'
  <2> HIDE DEF slot
  <2>1. /\ aslot \in Nat /\ skipped \in Nat /\ SkippedSlots \in Nat
        /\ Genesis \div Interval \in Int /\ time \div Interval \in Int
        /\ time \div Interval = Genesis \div Interval + aslot + skipped
    <3>1. Interval \in Nat \ {0} /\ Genesis \in Int /\ time \in Int
      BY ScheduleAssumption DEF ChainInv, TypeOK
    <3>2. Genesis \div Interval \in Int /\ time \div Interval \in Int
      BY <3>1, DivDef
    <3> QED BY <3>2, SkippedSlotsNat DEF ChainInv, TypeOK, SlotsMatchClock
  <2>2. time' \div Interval = Base + slot
    BY <1>1
  <2> QED BY <2>1, <2>2, <1>1 DEF SlotsMatchClock, Base
<1> QED BY <1>2, <1>3, <1>4, BlockBits, BlockMaintenance, BlockSchedule, BlockTurns DEF ChainInv

-----------------------------------------------------------------------------
(* What the invariant says.                                                *)

LEMMA TurnsAreEqual ==
    ASSUME ChainInv
    PROVE  EqualTurns
<1>1. aslot \in Nat
  BY DEF ChainInv, TypeOK
<1>2. PICK b \in 0..aslot: \A i \in 1..Round: turns[shuffled[i]] = Met(i, aslot) - Met(i, b)
  BY DEF ChainInv, TurnsCounted
<1>3. ASSUME NEW i \in 1..Round, NEW j \in 1..Round
      PROVE  turns[shuffled[i]] <= turns[shuffled[j]] + 1
  BY <1>1, <1>2, PlacesEqual
<1> QED BY <1>3 DEF EqualTurns

LEMMA ShiftedCardinality ==
    ASSUME NEW S, S \subseteq Int, IsFiniteSet(S), NEW k \in Int
    PROVE  LET T == {x + k: x \in S} IN IsFiniteSet(T) /\ Cardinality(T) = Cardinality(S)
<1> DEFINE T == {x + k: x \in S}
           f == [x \in S |-> x + k]
<1>1. f \in [S -> T] /\ \A x, y \in S: f[x] = f[y] => x = y
  OBVIOUS
<1>2. \A y \in T: \E x \in S: f[x] = y
  OBVIOUS
<1> HIDE DEF T, f
<1>3. f \in Bijection(S, T)
  BY <1>1, <1>2 DEF Bijection, Injection, Surjection, IsInjective
<1>4. ExistsBijection(S, T)
  BY <1>3 DEF ExistsBijection
<1>5. IsFiniteSet(T) /\ Cardinality(T) = Cardinality(S)
  BY <1>4, FS_Bijection
<1> QED BY <1>5 DEF T

(* The window of slots behind recent_slots_filled, counted.                *)
LEMMA WindowCounted ==
    ASSUME ChainInv
    PROVE  LET recent == {s \in 1..aslot: s > aslot - Window}
               Q == {i \in 1..Window: Occupied(aslot - Window + i)}
           IN  /\ IsFiniteSet(Q) /\ Cardinality(Q) \in Nat
               /\ Cardinality(Q) = Cardinality(recent \cap history)
                                   + (Window - Cardinality(recent))
<1> DEFINE a == aslot
           W == Window
           recent == {s \in 1..a: s > a - W}
           Q == {i \in 1..W: Occupied(a - W + i)}
           N == {i \in 1..W: a - W + i <= 0}
           H == {i \in 1..W: a - W + i >= 1 /\ a - W + i \in history}
           d == a - W
<1>1. a \in Nat /\ W \in Nat \ {0} /\ history \subseteq 1..a /\ d \in Int
  BY ScheduleAssumption DEF ChainInv, TypeOK
<1> HIDE DEF a, W
<1>2. IsFiniteSet(1..W) /\ IsFiniteSet(1..a)
  <2>1. 1 \in Int /\ W \in Int /\ a \in Int
    BY <1>1
  <2> QED BY <2>1, FS_Interval
<1>3. Q = N \cup H /\ N \cap H = {} /\ N \subseteq 1..W /\ H \subseteq 1..W
  BY <1>1 DEF Occupied
<1>4. IsFiniteSet(N) /\ IsFiniteSet(H)
  BY <1>2, <1>3, FS_Subset
<1>5. IsFiniteSet(Q) /\ Cardinality(Q) = Cardinality(N) + Cardinality(H)
  <2>1. Cardinality(N) \in Nat /\ Cardinality(H) \in Nat
    BY <1>4, FS_CardinalityType
  <2> HIDE DEF Q, N, H
  <2>2. /\ IsFiniteSet(N \cup H)
        /\ Cardinality(N \cup H) = Cardinality(N) + Cardinality(H) - Cardinality(N \cap H)
    BY <1>4, FS_Union
  <2>3. Cardinality(N \cap H) = 0
    BY <1>3, FS_EmptySet
  <2> QED BY <1>3, <2>1, <2>2, <2>3
<1>6. Cardinality(H) = Cardinality(recent \cap history)
  <2> DEFINE T == {x + d: x \in H}
  <2>1. T = recent \cap history
    <3>1. ASSUME NEW s \in T PROVE s \in recent \cap history
      BY <1>1
    <3>2. ASSUME NEW s \in recent \cap history PROVE s \in T
      <4>1. s \in Int /\ s > d /\ s <= a /\ s >= 1 /\ s \in history
        BY <1>1
      <4>2. s - d \in 1..W /\ (s - d) + d = s /\ a - W + (s - d) = s
        BY <4>1, <1>1
      <4>3. s - d \in H
        BY <4>1, <4>2
      <4> HIDE DEF H
      <4> QED BY <4>2, <4>3
    <3> QED BY <3>1, <3>2
  <2>2. H \subseteq Int
    OBVIOUS
  <2> HIDE DEF H, d
  <2>3. Cardinality(T) = Cardinality(H)
    BY <2>2, <1>1, <1>4, ShiftedCardinality
  <2> QED BY <2>1, <2>3
<1>7. Cardinality(N) = W - Cardinality(recent)
  <2>1. CASE a >= W
    <3>1. N = {}
      BY <1>1, <2>1
    <3>2. recent = (d + 1)..a
      BY <1>1, <2>1
    <3>3. d + 1 \in Int /\ a \in Int
      BY <1>1
    <3>4. Cardinality((d + 1)..a) = IF d + 1 > a THEN 0 ELSE a - (d + 1) + 1
      <4> HIDE DEF d
      <4> QED BY <3>3, FS_Interval
    <3>5. Cardinality((d + 1)..a) = W
      BY <3>4, <1>1
    <3>6. Cardinality(N) = 0
      BY <3>1, FS_EmptySet
    <3> HIDE DEF N, recent
    <3> QED BY <3>2, <3>5, <3>6, <1>1
  <2>2. CASE a < W
    <3>1. N = 1..(W - a) /\ recent = 1..a
      BY <1>1, <2>2
    <3>2. 1 \in Int /\ a \in Int /\ W - a \in Int
      BY <1>1
    <3>3. /\ Cardinality(1..(W - a)) = IF 1 > W - a THEN 0 ELSE (W - a) - 1 + 1
          /\ Cardinality(1..a) = IF 1 > a THEN 0 ELSE a - 1 + 1
      BY <3>2, FS_Interval
    <3>4. Cardinality(1..(W - a)) = W - a /\ Cardinality(1..a) = a
      BY <3>3, <1>1, <2>2
    <3> HIDE DEF N, recent
    <3> QED BY <3>1, <3>4, <1>1
  <2> QED BY <2>1, <2>2, <1>1
<1>8. Cardinality(Q) \in Nat
  <2> HIDE DEF Q
  <2> QED BY <1>5, FS_CardinalityType
<1>9. Cardinality(Q) = Cardinality(recent \cap history) + (W - Cardinality(recent))
  <2>1. Cardinality(N) \in Nat /\ Cardinality(H) \in Nat
    BY <1>4, FS_CardinalityType
  <2> HIDE DEF Q, N, H, recent
  <2> QED BY <2>1, <1>5, <1>6, <1>7
<1> QED BY <1>5, <1>8, <1>9 DEF a, W

LEMMA BitsCount ==
    ASSUME ChainInv
    PROVE  ParticipationTrue /\ Participation \in Nat
<1> DEFINE W == Window
           P == {i \in 1..W: filled[i] = 1}
           Q == {i \in 1..W: Occupied(aslot - W + i)}
           P1 == P \ {1}
           Q1 == Q \ {W}
           T == {x + 1: x \in Q1}
<1>1. aslot \in Nat /\ W \in Nat \ {0}
  BY ScheduleAssumption DEF ChainInv, TypeOK
<1>2. \A i \in 1..W: i \in P <=> Occupied(aslot - W + i - 1)
  BY DEF ChainInv, BitsShifted
<1>3. W \in Q
  <2>1. aslot - W + W = aslot /\ W \in 1..W
    BY <1>1
  <2> QED BY <2>1 DEF ChainInv, BitsShifted
<1>4. IsFiniteSet(1..W)
  <2>1. 1 \in Int /\ W \in Int
    BY <1>1
  <2> QED BY <2>1, FS_Interval
<1>5. P \subseteq 1..W /\ Q \subseteq 1..W
  OBVIOUS
<1>6. P1 = T
  <2>1. ASSUME NEW i \in P1 PROVE i \in T
    <3>1. i \in 1..W /\ i # 1 /\ i - 1 \in 1..W /\ i - 1 # W /\ (i - 1) + 1 = i
      BY <1>1
    <3>2. Occupied(aslot - W + i - 1) /\ aslot - W + i - 1 = aslot - W + (i - 1)
      BY <1>1, <1>2, <3>1
    <3>3. i - 1 \in Q1
      BY <3>1, <3>2
    <3> HIDE DEF Q1
    <3> QED BY <3>1, <3>3
  <2>2. ASSUME NEW i \in T PROVE i \in P1
    <3>1. PICK x \in Q1: i = x + 1
      OBVIOUS
    <3>2. x \in 1..W /\ x # W /\ Occupied(aslot - W + x)
      OBVIOUS
    <3>3. i \in 1..W /\ i # 1 /\ aslot - W + i - 1 = aslot - W + x
      BY <1>1, <3>1, <3>2
    <3> QED BY <1>2, <3>2, <3>3
  <2> QED BY <2>1, <2>2
<1> HIDE DEF P, Q
<1>7. IsFiniteSet(P) /\ IsFiniteSet(Q) /\ Cardinality(P) \in Nat /\ Cardinality(Q) \in Nat
  BY <1>4, <1>5, FS_Subset, FS_CardinalityType
<1>8. IsFiniteSet(Q1) /\ Cardinality(Q1) = Cardinality(Q) - 1
  BY <1>3, <1>7, FS_RemoveElement
<1>9. Cardinality(P1) = IF 1 \in P THEN Cardinality(P) - 1 ELSE Cardinality(P)
  BY <1>7, FS_RemoveElement
<1>10. Cardinality(P1) = Cardinality(Q1)
  <2>1. Q1 \subseteq Int /\ 1 \in Int
    <3>1. 1..W \subseteq Int
      OBVIOUS
    <3>2. \A x \in Q1: x \in Q
      OBVIOUS
    <3>3. \A x \in Q: x \in 1..W
      BY <1>5
    <3>4. \A x \in Q1: x \in Int
      BY <3>2, <3>3
    <3> HIDE DEF Q1
    <3> QED BY <3>4
  <2> HIDE DEF P1, Q1
  <2> QED BY <2>1, <1>6, <1>8, ShiftedCardinality
<1>11. Cardinality(P) \in {Cardinality(Q), Cardinality(Q) - 1}
  BY <1>7, <1>8, <1>9, <1>10
<1>12. Participation = Cardinality(P)
  BY DEF Participation, P
<1> DEFINE recent == {s \in 1..aslot: s > aslot - W}
<1>13. Cardinality(Q) = Cardinality(recent \cap history) + (W - Cardinality(recent))
  BY WindowCounted DEF Q
<1> QED BY <1>7, <1>11, <1>12, <1>13 DEF ParticipationTrue

LEMMA SlotOfPlace ==
    ASSUME NEW x \in Nat, NEW i \in 1..Round
    PROVE  \E j \in 1..Round: (x + j) % Round = i - 1
<1> DEFINE R == Round
           y == i - 2 - x
           q == y \div R
           r == y % R
           j == r + 1
<1>1. R \in Nat \ {0} /\ i \in Int
  BY ScheduleAssumption
<1>2. y \in Int
  BY <1>1
<1>3. q \in Int /\ r \in 0..(R - 1) /\ y = R * q + r
  <2> HIDE DEF y, R
  <2> QED BY <1>1, <1>2, DivDef
<1>4. j \in 1..R
  <2> HIDE DEF r
  <2> QED BY <1>1, <1>3
<1>5. x + j = (i - 1) + R * (- q)
  <2>1. R * (- q) = - (R * q) /\ R * q \in Int
    <3> HIDE DEF q, R
    <3> QED BY <1>1, <1>3
  <2>2. r = y - R * q
    <3> HIDE DEF y, q, r, R
    <3> QED BY <1>2, <1>3, <2>1
  <2>3. x + j = x + 1 + (i - 2 - x) - R * q
    <3> DEFINE z == R * q
    <3> HIDE DEF z, r
    <3> QED BY <2>1, <2>2, <1>1, <1>3 DEF z
  <2> DEFINE z == R * q
  <2> HIDE DEF z, j
  <2> QED BY <2>1, <2>3, <1>1 DEF z
<1>6. ((i - 1) + R * (- q)) % R = (i - 1) % R
  <2> DEFINE u == i - 1
             k == - q
  <2>1. u \in Int /\ k \in Int
    BY <1>1, <1>3
  <2> HIDE DEF u, k, R
  <2> QED BY <2>1, <1>1, DivShift DEF u, k
<1>7. (i - 1) % R = i - 1
  <2>1. i - 1 \in 0..(R - 1)
    BY <1>1
  <2>2. R * 0 <= i - 1 /\ i - 1 < R * 0 + R /\ R * 0 = 0
    BY <2>1, <1>1
  <2>3. (i - 1) \div R = 0
    <3> DEFINE u == i - 1
    <3>1. u \in Int /\ R * 0 <= u /\ u < R * 0 + R
      BY <2>1, <2>2
    <3> HIDE DEF u, R
    <3> QED BY <3>1, <1>1, DivUnique DEF u
  <2>4. i - 1 = R * ((i - 1) \div R) + ((i - 1) % R) /\ (i - 1) % R \in Int
    <3> DEFINE u == i - 1
    <3>1. u \in Int
      BY <1>1
    <3> HIDE DEF u, R
    <3> QED BY <3>1, <1>1, DivDef DEF u
  <2> QED BY <2>2, <2>3, <2>4
<1>8. (x + j) % R = i - 1
  BY <1>5, <1>6, <1>7
<1> HIDE DEF j
<1> QED BY <1>4, <1>8

(* A place of the schedule that is up would have been served in a round.   *)
LEMMA RoundServes ==
    ASSUME ChainInv, Waited, Required = 0
    PROVE  Progress
<1> DEFINE I == Interval
           R == Round
           s == SkippedSlots
           M == Max({time, arrived})
           q == M \div I
           p == time \div I
<1> SUFFICES ASSUME NEW i \in 1..R, shuffled[i] \in AlwaysOn, blocked = {},
                    ~ (now <= M + (R + s) * I)
             PROVE  FALSE
  BY DEF Progress
<1>1. /\ I \in Nat \ {0} /\ R \in Nat \ {0} /\ s \in Nat /\ aslot \in Nat
      /\ time \in Nat /\ arrived \in Nat /\ now \in Nat
  BY ScheduleAssumption, SkippedSlotsNat DEF ChainInv, TypeOK
<1>2. M \in Nat /\ M >= time /\ M >= arrived
  BY <1>1, MaxPair
<1> HIDE DEF M, I, s
<1>3. q \in Nat /\ p \in Nat /\ M = I * q + (M % I) /\ M % I \in 0..(I - 1)
  <2>1. q \in Nat /\ p \in Nat
    BY <1>1, <1>2
  <2>2. M \in Int
    BY <1>2
  <2> QED BY <2>1, <2>2, <1>1, DivDef
<1>4. q >= p
  <2>1. time = I * p + (time % I) /\ time % I \in 0..(I - 1)
    <3>1. time \in Int
      BY <1>1
    <3> QED BY <3>1, <1>1, DivDef
  <2> HIDE DEF p, q
  <2> SUFFICES ASSUME q + 1 <= p PROVE FALSE
    BY <1>3
  <2>2. I * (q + 1) <= I * p /\ I * (q + 1) = I * q + I /\ I * q \in Int /\ I * p \in Int
    BY <1>1, <1>3
  <2> QED BY <2>1, <2>2, <1>1, <1>2, <1>3
<1>5. Base = p + s /\ Base \in Nat /\ TypeOK /\ HeadInv
  BY BaseNat DEF Base, ChainInv, I, s
<1>6. PICK j \in 1..R: ((aslot + (q - p)) + j) % Round = i - 1
  <2>1. aslot + (q - p) \in Nat
    BY <1>1, <1>3, <1>4
  <2> QED BY <2>1, SlotOfPlace
<1> DEFINE k == (q - p) + j
           c == I * (Base + k)
<1>7. k \in Nat \ {0} /\ Base + k = q + s + j
  <2>1. j \in Int /\ j >= 1
    BY <1>1
  <2>2. q \in Nat /\ p \in Nat
    BY <1>3
  <2> HIDE DEF p, q
  <2> QED BY <2>1, <2>2, <1>1, <1>4, <1>5
<1>8. c > M /\ c < now /\ c \in Nat
  <2> HIDE DEF p, q, k
  <2>1. c = I * (q + s + j)
    BY <1>7
  <2>2. q + 1 <= q + s + j /\ q + s + j <= q + (R + s) /\ q + s + j \in Nat
    BY <1>1, <1>3
  <2> DEFINE n == q + s + j
             l == R + s
  <2>3. l \in Nat /\ n \in Nat /\ q + 1 <= n /\ n <= q + l
    BY <2>2, <1>1
  <2> HIDE DEF n, l
  <2>4. I * (q + 1) <= I * n /\ I * n <= I * (q + l) /\ I * n \in Nat
    BY <2>3, <1>1, <1>3
  <2>5. I * (q + 1) = I * q + I /\ I * (q + l) = I * q + I * l /\ l * I = I * l
        /\ I * q \in Int /\ I * l \in Int
    BY <2>3, <1>1, <1>3
  <2>6. I * n > M
    BY <2>4, <2>5, <1>1, <1>2, <1>3
  <2>7. I * n <= M + l * I
    BY <2>4, <2>5, <1>1, <1>2, <1>3
  <2>8. c = I * n /\ M + l * I < now
    <3>1. M + (R + s) * I \in Int /\ ~ (now <= M + (R + s) * I)
      BY <1>1, <1>2
    <3> QED BY <3>1, <2>1, <1>1 DEF n, l
  <2> HIDE DEF c
  <2> QED BY <2>4, <2>5, <2>6, <2>7, <2>8, <1>1, <1>2
<1>9. c \in arrived..(now - 1)
  <2> HIDE DEF c
  <2> QED BY <1>1, <1>2, <1>8
<1>10. c \div Interval = Base + k
  <2> DEFINE n == Base + k
  <2>1. n \in Int
    BY <1>5, <1>7
  <2> HIDE DEF n
  <2>2. I * n <= I * n /\ I * n < I * n + I /\ I * n \in Int
    BY <2>1, <1>1
  <2>3. (I * n) \div I = n
    <3> DEFINE v == I * n
    <3> HIDE DEF v
    <3> QED BY <2>1, <2>2, <1>1, DivUnique DEF v
  <2> QED BY <2>3 DEF I, n
<1>11. get_slot_at_time(c) = k
  <2>1. get_slot_at_time(c) = IF c \div Interval <= Base THEN 0 ELSE (c \div Interval) - Base
    <3> HIDE DEF c
    <3> QED BY <1>5, <1>8, SlotAtTime
  <2> HIDE DEF c, k
  <2> QED BY <2>1, <1>5, <1>7, <1>10
<1>12. get_slot_time(k) = c
  <2> HIDE DEF k
  <2> QED BY <1>5, <1>7, SlotTime DEF I
<1>13. get_scheduled_miner(k) = shuffled[i]
  <2>1. aslot + k = (aslot + (q - p)) + j
    BY <1>1, <1>3
  <2>2. (aslot + k) % Round = i - 1 /\ (i - 1) + 1 = i
    BY <2>1, <1>6
  <2> HIDE DEF k
  <2> QED BY <2>2 DEF get_scheduled_miner
<1>14. Participation >= Required
  BY BitsCount
<1> HIDE DEF c, k
<1>15. TurnAt(shuffled[i], c)
  BY <1>7, <1>11, <1>12, <1>13, <1>14 DEF TurnAt
<1>16. MakeableAt(c)
  <2> SUFFICES ASSUME NEW S \in IF maint <= c THEN ActiveMiners ELSE {active}
               PROVE  Cardinality(S \ blocked) >= Round
    BY DEF MakeableAt
  <2>1. Cardinality(S) >= Round
    BY EnoughActive DEF ChainInv
  <2>2. S \ blocked = S
    OBVIOUS
  <2> QED BY <2>1, <2>2
<1> QED BY <1>9, <1>15, <1>16 DEF Waited

-----------------------------------------------------------------------------
(* The steps.                                                              *)

LEMMA InitChain ==
    ASSUME Init
    PROVE  ChainInv /\ Waited
<1>1. /\ Miners \subseteq Nat /\ Round \in Nat \ {0} /\ Window \in Nat \ {0}
      /\ InitialActive \in Seq(Miners) /\ IsInjective(InitialActive)
      /\ Len(InitialActive) >= Round /\ Genesis \in Nat
  BY ScheduleAssumption
<1>2. TypeOK
  <2>1. Range(InitialActive) \subseteq Miners
    BY <1>1 DEF Range
  <2>2. filled \in Seq({0, 1}) /\ Len(filled) = Window
    <3>1. filled \in [1..Window -> {0, 1}] /\ Window \in Nat
      BY <1>1 DEF Init
    <3> QED BY <3>1, ListIsSeq
  <2>3. shuffled \in Seq(Miners) /\ Len(shuffled) >= Round
    BY <1>1 DEF Init
  <2>4. active \subseteq Miners /\ blocked \subseteq Miners
    BY <2>1 DEF Init
  <2>5. weight \in [Miners -> Nat \ {0}]
    BY DEF Init
  <2>6. /\ produced \in [Miners -> Nat] /\ missed \in [Miners -> Nat]
        /\ turns \in [Miners -> Nat]
    BY DEF Init
  <2>7. /\ now \in Nat /\ head \in Nat /\ time \in Nat /\ aslot \in Nat
        /\ flag \in BOOLEAN /\ maint \in Nat
        /\ skipped \in Nat /\ arrived \in Nat
    BY <1>1 DEF Init
  <2>8. history \subseteq 1..aslot
    BY DEF Init
  <2> QED BY <2>2, <2>3, <2>4, <2>5, <2>6, <2>7, <2>8 DEF TypeOK
<1>3. HeadInv
  BY DEF Init, HeadInv
<1>4. SlotsMatchClock
  <2>1. Interval \in Nat \ {0} /\ Genesis \in Int
    BY ScheduleAssumption
  <2>2. Genesis \div Interval \in Int
    BY <2>1, DivDef
  <2> QED BY <2>2 DEF Init, SlotsMatchClock
<1>5. ShuffleDistinct
  <2>1. \A i \in 1..Round: i \in DOMAIN InitialActive
    BY <1>1
  <2> QED BY <2>1, <1>1 DEF Init, ShuffleDistinct, IsInjective
<1>6. BitsShifted
  BY <1>1 DEF Init, BitsShifted, Occupied
<1>7. TurnsCounted
  <2>1. aslot = 0 /\ 0 \in 0..aslot
    BY DEF Init
  <2>2. ASSUME NEW i \in 1..Round
        PROVE  turns[shuffled[i]] = Met(i, aslot) - Met(i, 0)
    <3>1. Met(i, 0) \in Int
      BY MetInt
    <3>2. shuffled[i] \in Miners
      BY <1>1 DEF Init
    <3>3. turns[shuffled[i]] = 0
      BY <3>2 DEF Init
    <3> QED BY <3>1, <3>3, <2>1
  <2> QED BY <2>1, <2>2 DEF TurnsCounted
<1>8. Cardinality(active) >= Round
  <2> DEFINE n == Len(InitialActive)
             D == 1..n
             T == Range(InitialActive)
  <2>1. n \in Nat /\ DOMAIN InitialActive = D
    BY <1>1
  <2>2. IsFiniteSet(D) /\ Cardinality(D) = n
    <3>1. 1 \in Int /\ n \in Int
      BY <2>1
    <3> HIDE DEF n
    <3>2. IsFiniteSet(D) /\ Cardinality(D) = IF 1 > n THEN 0 ELSE n - 1 + 1
      BY <3>1, FS_Interval
    <3> QED BY <3>2, <2>1
  <2>3. /\ InitialActive \in [D -> T]
        /\ \A x, y \in D: InitialActive[x] = InitialActive[y] => x = y
        /\ \A y \in T: \E x \in D: InitialActive[x] = y
    BY <1>1, <2>1 DEF Range, IsInjective
  <2> HIDE DEF D, T, n
  <2>4. InitialActive \in Bijection(D, T)
    BY <2>3 DEF Bijection, Injection, Surjection, IsInjective
  <2>5. ExistsBijection(D, T)
    BY <2>4 DEF ExistsBijection
  <2>6. Cardinality(T) = n
    BY <2>2, <2>5, FS_Bijection
  <2>7. n >= Round
    BY <1>1 DEF n
  <2> QED BY <2>6, <2>7 DEF Init, T
<1>9. Waited
  BY <1>1 DEF Init, Waited
<1> QED BY <1>2, <1>3, <1>4, <1>5, <1>6, <1>7, <1>8, <1>9 DEF ChainInv

LEMMA ChainSame ==
    ASSUME ChainInv, UNCHANGED chainvars, now' \in Nat
    PROVE  ChainInv'
<1>1. UNCHANGED <<head, time, aslot, flag, maint, filled, shuffled, active,
                  blocked, weight, produced, missed, skipped, history, turns, arrived>>
  BY DEF chainvars, counters
<1>2. TypeOK'
  BY <1>1 DEF ChainInv, TypeOK
<1>3. HeadInv' /\ SlotsMatchClock' /\ ShuffleDistinct'
  BY <1>1 DEF ChainInv, HeadInv, SlotsMatchClock, ShuffleDistinct
<1>4. BitsShifted'
  BY <1>1 DEF ChainInv, BitsShifted, Occupied
<1>5. TurnsCounted'
  BY <1>1 DEF ChainInv, TurnsCounted, Met
<1> QED BY <1>1, <1>2, <1>3, <1>4, <1>5 DEF ChainInv

LEMMA TurnSame ==
    ASSUME UNCHANGED chainvars, NEW m, NEW c
    PROVE  (TurnAt(m, c)' <=> TurnAt(m, c)) /\ (MakeableAt(c)' <=> MakeableAt(c))
<1>1. UNCHANGED <<head, time, aslot, flag, maint, filled, shuffled, active,
                  blocked, weight>>
  BY DEF chainvars
<1>2. SkippedSlots' = SkippedSlots
  BY <1>1 DEF SkippedSlots
<1>3. get_slot_at_time(c)' = get_slot_at_time(c)
  BY <1>1, <1>2 DEF get_slot_at_time, get_slot_time
<1>4. get_slot_time(get_slot_at_time(c))' = get_slot_time(get_slot_at_time(c))
  BY <1>1, <1>2, <1>3 DEF get_slot_time
<1>5. get_scheduled_miner(get_slot_at_time(c))' = get_scheduled_miner(get_slot_at_time(c))
  BY <1>1, <1>3 DEF get_scheduled_miner
<1>6. Participation' = Participation
  BY <1>1 DEF Participation
<1>7. TurnAt(m, c)' <=> TurnAt(m, c)
  BY <1>3, <1>4, <1>5, <1>6 DEF TurnAt
<1>8. ActiveMiners' = ActiveMiners
  BY <1>1 DEF ActiveMiners
<1> QED BY <1>1, <1>7, <1>8 DEF MakeableAt

LEMMA TickKeeps ==
    ASSUME ChainInv, Waited, Tick
    PROVE  ChainInv' /\ Waited'
<1>1. now \in Nat /\ arrived \in Nat /\ now' = now + 1 /\ arrived' = arrived
      /\ UNCHANGED chainvars
  BY DEF Tick, ChainInv, TypeOK, chainvars, counters
<1>2. ChainInv'
  BY <1>1, ChainSame
<1>3. ASSUME NEW c \in arrived..now, NEW m \in AlwaysOn
      PROVE  ~ (TurnAt(m, c) /\ MakeableAt(c))
  <2>1. CASE c = now
    BY <2>1 DEF Tick, Turn, Makeable, TurnAt, MakeableAt
  <2>2. CASE c # now
    <3>1. c \in arrived..(now - 1)
      BY <2>2, <1>1
    <3> QED BY <3>1 DEF Waited
  <2> QED BY <2>1, <2>2
<1>4. ASSUME NEW c \in arrived'..(now' - 1), NEW m \in AlwaysOn
      PROVE  ~ (TurnAt(m, c) /\ MakeableAt(c))'
  <2>1. c \in arrived..now
    BY <1>1
  <2> QED BY <2>1, <1>1, <1>3, TurnSame
<1>5. arrived' <= now'
  BY <1>1 DEF Waited
<1> QED BY <1>2, <1>4, <1>5 DEF Waited

LEMMA NextKeeps ==
    ASSUME ChainInv, Waited, [Next]_vars
    PROVE  ChainInv' /\ Waited'
<1>1. now \in Nat /\ time \in Nat /\ Tolerance \in Nat
  BY ScheduleAssumption DEF ChainInv, TypeOK
<1>2. CASE Tick
  BY <1>2, TickKeeps
<1>3. ASSUME NEW m \in Miners, NEW t \in Nat, apply_block(m, t)
      PROVE  ChainInv' /\ Waited'
  <2>1. ChainInv'
    BY <1>1, <1>3, BlockKeeps
  <2>2. arrived' = now /\ now' = now
    BY <1>3 DEF apply_block
  <2>3. arrived'..(now' - 1) = {} /\ arrived' <= now'
    BY <2>2, <1>1
  <2> QED BY <2>1, <2>3 DEF Waited
<1>4. ASSUME NEW m \in Miners, maybe_produce_block(m) PROVE ChainInv' /\ Waited'
  BY <1>1, <1>3, <1>4 DEF maybe_produce_block
<1>5. ASSUME NEW m \in Miners, NEW t \in (time + 1)..(now + Tolerance), push_block(m, t)
      PROVE  ChainInv' /\ Waited'
  <2>1. t \in Nat
    BY <1>1
  <2> QED BY <2>1, <1>3, <1>5 DEF push_block
<1>6. CASE UNCHANGED vars
  <2>1. UNCHANGED chainvars /\ now' = now /\ arrived' = arrived
    BY <1>6 DEF vars, chainvars, counters
  <2>2. ChainInv'
    BY <2>1, <1>1, ChainSame
  <2>3. \A c \in arrived'..(now' - 1): \A m \in AlwaysOn: ~ (TurnAt(m, c) /\ MakeableAt(c))'
    BY <2>1, TurnSame DEF Waited
  <2> QED BY <2>1, <2>2, <2>3 DEF Waited
<1> QED BY <1>2, <1>4, <1>5, <1>6 DEF Next

LEMMA ChainInvariant == Spec => [](ChainInv /\ Waited)
<1>1. Init => ChainInv /\ Waited
  BY InitChain
<1>2. ChainInv /\ Waited /\ [Next]_vars => ChainInv' /\ Waited'
  BY NextKeeps
<1> QED BY <1>1, <1>2, PTL DEF Spec

-----------------------------------------------------------------------------
(* The theorems.                                                           *)

(* All variables of the schedule keep their types: in particular a block   *)
(* never leaves current_shuffled_miners with fewer places than a round, a  *)
(* pledge_weight of zero, or a bitmap of another length.                   *)
THEOREM TypeCorrect == Spec => []TypeOK
<1>1. ChainInv /\ Waited => TypeOK
  BY DEF ChainInv
<1> QED BY <1>1, ChainInvariant, PTL

(* current_aslot keeps step with the clock through missed slots, gaps      *)
(* after maintenance and bonus blocks, and blocks stamped anywhere in      *)
(* their slot (get_slot_time and get_slot_at_time round alike).            *)
THEOREM SlotsKeepStep == Spec => []SlotsMatchClock
<1>1. ChainInv /\ Waited => SlotsMatchClock
  BY DEF ChainInv
<1> QED BY <1>1, ChainInvariant, PTL

(* The weighted shuffle of update_miner_schedule never draws a miner       *)
(* twice, for any candidates, weights and random numbers.                  *)
THEOREM DrawnOnce == Spec => []ShuffleDistinct
<1>1. ChainInv /\ Waited => ShuffleDistinct
  BY DEF ChainInv
<1> QED BY <1>1, ChainInvariant, PTL

(* get_scheduled_miner gives the miners of a round equal turns, whatever   *)
(* was missed.                                                             *)
THEOREM TurnsStayEqual == Spec => []EqualTurns
<1>1. ChainInv /\ Waited => EqualTurns
  BY TurnsAreEqual
<1> QED BY <1>1, ChainInvariant, PTL

(* The bitmap of update_global_dynamic_data gives the true participation   *)
(* of the window, or one less.                                             *)
THEOREM ParticipationExact == Spec => []ParticipationTrue
<1>1. ChainInv /\ Waited => ParticipationTrue
  BY BitsCount
<1> QED BY <1>1, ChainInvariant, PTL

(* If no participation is required, a miner in the schedule whose node is  *)
(* up makes a block within a round of slots.                               *)
THEOREM BlockWithinRound == Required = 0 => (Spec => []Progress)
<1>1. ASSUME Required = 0 PROVE Spec => []Progress
  <2>1. ChainInv /\ Waited => Progress
    BY <1>1, RoundServes
  <2> QED BY <2>1, ChainInvariant, PTL
<1> QED BY <1>1

=============================================================================
