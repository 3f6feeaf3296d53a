------------------------- MODULE UndoDatabaseProofs -------------------------
(***************************************************************************)
(* Proofs about UndoDatabase: type correctness; that the store holds        *)
(* exactly the queued keys; and, when every size given to set_max_size     *)
(* exceeds the length at which deltas are spilled, that the retained deltas *)
(* always lead back through the newest databases without a gap, and that   *)
(* no assertion fires.                                                     *)
(***************************************************************************)
EXTENDS UndoDatabase, SequenceTheorems, FiniteSetTheorems, TLAPS

\* What every database reached satisfies: ids from next on are unused.
WellFormed(d) ==
  /\ d \in Databases
  /\ \A i \in Ids : i >= d.next => d.objs[i] = None

-----------------------------------------------------------------------------
(* The deltas.                                                              *)

\* Updates of a delta's fields keep its type.
LEMMA UndoStateExcept ==
  ASSUME NEW e \in UndoState
  PROVE  /\ \A x \in (0 .. MaxId) \cup {None}, y \in SUBSET Ids :
              [e EXCEPT !.next = x, !.new = y] \in UndoState
         /\ \A i \in Ids, x \in Slots : [e EXCEPT !.old[i] = x] \in UndoState
         /\ \A i \in Ids, x \in Slots : [e EXCEPT !.removed[i] = x] \in UndoState
         /\ \A i \in Ids, x \in Slots, y \in Slots :
              [e EXCEPT !.removed[i] = x, !.old[i] = y] \in UndoState
         /\ \A y \in SUBSET Ids : [e EXCEPT !.new = y] \in UndoState
         /\ \A h \in (0 .. MaxHead) \cup {None} : [e EXCEPT !.head = h] \in UndoState
BY DEF UndoState

\* Updates of a database's fields keep its type.
LEMMA DatabaseExcept ==
  ASSUME NEW d \in Databases
  PROVE  /\ \A i \in Ids, x \in Slots : [d EXCEPT !.objs[i] = x] \in Databases
         /\ \A i \in Ids, x \in Slots, k \in 0 .. MaxId :
              [d EXCEPT !.objs[i] = x, !.next = k] \in Databases
         /\ \A h \in 0 .. MaxHead : [d EXCEPT !.head = h] \in Databases
BY DEF Databases

\* The empty delta of a new session leads from a database to itself.
LEMMA EmptyRecords ==
  ASSUME NEW d \in Databases
  PROVE  Records(EmptyState, d, d) /\ EmptyState \in UndoState
<1>1. EmptyState \in UndoState
  BY ConstantsAssumption DEF EmptyState, UndoState, Nothing, Slots, Ids
<1>2. Records(EmptyState, d, d)
  BY DEF Records, RecordsAt, EmptyState, Nothing
<1> QED BY <1>1, <1>2

\* A delta that records the way back never raises the next id.
LEMMA RecordsNext ==
  ASSUME NEW e \in UndoState, NEW c \in Databases, NEW d \in Databases,
         Records(e, c, d)
  PROVE  c.next <= d.next
BY DEF Records, Databases, UndoState

\* The delta operators return deltas, and undoing one returns a database.
LEMMA DeltaTypes ==
  ASSUME NEW e \in UndoState, NEW d \in Databases
  PROVE  /\ d.next < MaxId => on_create(e, d.next) \in UndoState
         /\ \A i \in Ids : /\ on_modify(e, i, d.objs[i]) \in UndoState
                           /\ on_remove(e, i, d.objs[i]) \in UndoState
         /\ on_modify_head(e, d.head) \in UndoState
         /\ Undone(e, d) \in Databases
<1>1. ASSUME d.next < MaxId PROVE on_create(e, d.next) \in UndoState
  <2>1. (IF e.next = None THEN d.next ELSE e.next) \in (0 .. MaxId) \cup {None}
    BY DEF Databases, UndoState
  <2>2. e.new \cup {d.next} \in SUBSET Ids
    BY <1>1, ConstantsAssumption DEF UndoState, Databases, Ids
  <2> QED BY <2>1, <2>2, UndoStateExcept DEF on_create
<1>2. ASSUME NEW i \in Ids
      PROVE  /\ on_modify(e, i, d.objs[i]) \in UndoState
             /\ on_remove(e, i, d.objs[i]) \in UndoState
  <2>1. /\ None \in Slots /\ d.objs[i] \in Slots /\ e.old[i] \in Slots
        /\ e.new \ {i} \in SUBSET Ids
    BY DEF Databases, Slots, UndoState
  <2>2. on_modify(e, i, d.objs[i]) \in UndoState
    BY <2>1, UndoStateExcept DEF on_modify
  <2>3. on_remove(e, i, d.objs[i]) \in UndoState
    BY <2>1, UndoStateExcept DEF on_remove
  <2> QED BY <2>2, <2>3
<1>3. on_modify_head(e, d.head) \in UndoState
  <2>1. d.head \in (0 .. MaxHead) \cup {None}
    BY DEF Databases
  <2> QED BY <2>1, UndoStateExcept DEF on_modify_head
<1>4. Undone(e, d) \in Databases
  <2>1. ASSUME NEW i \in Ids
        PROVE  /\ e.removed[i] \in Slots /\ e.old[i] \in Slots
               /\ d.objs[i] \in Slots /\ None \in Slots
    BY DEF UndoState, Databases, Slots
  <2>2. Undone(e, d).objs \in [Ids -> Slots]
    BY <2>1 DEF Undone
  <2>3. Undone(e, d).next \in 0 .. MaxId /\ Undone(e, d).head \in 0 .. MaxHead
    BY DEF Undone, UndoState, Databases
  <2>4. Undone(e, d) = [objs |-> Undone(e, d).objs, next |-> Undone(e, d).next,
                        head |-> Undone(e, d).head]
    BY DEF Undone
  <2>5. [objs |-> Undone(e, d).objs, next |-> Undone(e, d).next,
         head |-> Undone(e, d).head] \in Databases
    BY <2>2, <2>3 DEF Databases
  <2> QED BY <2>4, <2>5, Zenon
<1> QED BY <1>1, <1>2, <1>3, <1>4

\* on_create keeps the way back to the database the session started from.
LEMMA CreateRecords ==
  ASSUME NEW e \in UndoState, NEW c, NEW d, WellFormed(c), WellFormed(d),
         Records(e, c, d), d.next < MaxId, NEW v \in Vals
  PROVE  LET n == [d EXCEPT !.objs[d.next] = v, !.next = @ + 1]
         IN  /\ on_create(e, d.next) \in UndoState
             /\ WellFormed(n)
             /\ Records(on_create(e, d.next), c, n)
<1> DEFINE n == [d EXCEPT !.objs[d.next] = v, !.next = @ + 1]
           f == on_create(e, d.next)
<1>t. /\ d \in Databases /\ c \in Databases /\ MaxId \in Nat /\ v # None
      /\ d.next \in Nat /\ d.next \in Ids /\ c.next \in Nat /\ None \notin Nat
  BY ConstantsAssumption DEF WellFormed, Databases, Ids
<1>1. f \in UndoState
  BY <1>t, DeltaTypes
<1>2. n \in Databases
  <2>1. d.next + 1 \in 0 .. MaxId /\ v \in Slots
    BY <1>t DEF Databases, Slots
  <2> QED BY <2>1, <1>t, DatabaseExcept
<1>3. /\ n.next = d.next + 1 /\ n.head = d.head
      /\ \A i \in Ids : n.objs[i] = IF i = d.next THEN v ELSE d.objs[i]
  BY <1>t DEF Databases
<1>4. WellFormed(n)
  BY <1>2, <1>3, <1>t DEF WellFormed, Ids
<1>5. /\ f.old = e.old /\ f.removed = e.removed /\ f.head = e.head
      /\ f.new = e.new \cup {d.next}
      /\ f.next = IF e.next = None THEN d.next ELSE e.next
  BY DEF on_create, UndoState
<1>6. c.next <= d.next
  BY RecordsNext, <1>t
<1>7. d.objs[d.next] = None /\ c.objs[d.next] = None
  BY <1>t, <1>6 DEF WellFormed
<1>8. Records(f, c, n)
  <2>1. ASSUME NEW i \in Ids
        PROVE  RecordsAt(f, c, n, i)
    <3>1. CASE i = d.next
      BY <3>1, <1>t, <1>3, <1>5, <1>6, <1>7 DEF Records, RecordsAt
    <3>2. CASE i # d.next
      BY <3>2, <1>3, <1>5 DEF Records, RecordsAt
    <3> QED BY <3>1, <3>2
  <2>2. IF f.next = None THEN c.next = n.next ELSE c.next = f.next /\ f.next <= n.next
    BY <1>t, <1>3, <1>5 DEF Records, UndoState
  <2>3. IF f.head = None THEN c.head = n.head ELSE c.head = f.head
    BY <1>3, <1>5 DEF Records
  <2> QED BY <2>1, <2>2, <2>3 DEF Records
<1> QED BY <1>1, <1>4, <1>8

\* So does on_modify.
LEMMA ModifyRecords ==
  ASSUME NEW e \in UndoState, NEW c, NEW d, WellFormed(c), WellFormed(d),
         Records(e, c, d), NEW x \in Ids, d.objs[x] # None, NEW v \in Vals
  PROVE  LET n == [d EXCEPT !.objs[x] = v]
             f == on_modify(e, x, d.objs[x])
         IN  f \in UndoState /\ WellFormed(n) /\ Records(f, c, n)
<1> DEFINE n == [d EXCEPT !.objs[x] = v]
           f == on_modify(e, x, d.objs[x])
<1>t. /\ d \in Databases /\ c \in Databases /\ v # None
      /\ v \in Slots /\ d.objs[x] \in Slots
  BY ConstantsAssumption DEF WellFormed, Databases, Slots
<1>1. f \in UndoState
  BY <1>t, DeltaTypes
<1>2. n \in Databases
  BY <1>t, DatabaseExcept
<1>3. /\ n.next = d.next /\ n.head = d.head
      /\ \A i \in Ids : n.objs[i] = IF i = x THEN v ELSE d.objs[i]
  BY <1>t DEF Databases
<1>4. WellFormed(n)
  BY <1>2, <1>3, <1>t DEF WellFormed
<1>5. /\ f.removed = e.removed /\ f.head = e.head
      /\ f.new = e.new /\ f.next = e.next
      /\ \A i \in Ids : f.old[i] = IF i = x /\ ~(x \in e.new \/ e.old[x] # None)
                                   THEN d.objs[x] ELSE e.old[i]
  BY DEF on_modify, UndoState
<1>6. ASSUME NEW i \in Ids PROVE RecordsAt(f, c, n, i)
  <2>1. CASE i = x
    BY <2>1, <1>t, <1>3, <1>5 DEF Records, RecordsAt
  <2>2. CASE i # x
    BY <2>2, <1>3, <1>5 DEF Records, RecordsAt
  <2> QED BY <2>1, <2>2
<1>7. Records(f, c, n)
  BY <1>3, <1>5, <1>6 DEF Records
<1> QED BY <1>1, <1>4, <1>7

\* So does on_remove.
LEMMA RemoveRecords ==
  ASSUME NEW e \in UndoState, NEW c, NEW d, WellFormed(c), WellFormed(d),
         Records(e, c, d), NEW x \in Ids, d.objs[x] # None
  PROVE  LET n == [d EXCEPT !.objs[x] = None]
             f == on_remove(e, x, d.objs[x])
         IN  f \in UndoState /\ WellFormed(n) /\ Records(f, c, n)
<1> DEFINE n == [d EXCEPT !.objs[x] = None]
           f == on_remove(e, x, d.objs[x])
<1>t. /\ d \in Databases /\ c \in Databases
      /\ None \in Slots /\ d.objs[x] \in Slots /\ e.old[x] \in Slots
      /\ e.new \ {x} \in SUBSET Ids
  BY DEF WellFormed, Databases, Slots, UndoState
<1>1. f \in UndoState
  BY <1>t, DeltaTypes
<1>2. n \in Databases
  BY <1>t, DatabaseExcept
<1>3. /\ n.next = d.next /\ n.head = d.head
      /\ \A i \in Ids : n.objs[i] = IF i = x THEN None ELSE d.objs[i]
  BY <1>t DEF Databases
<1>4. WellFormed(n)
  BY <1>2, <1>3, <1>t DEF WellFormed
<1>5. /\ f.head = e.head /\ f.next = e.next
      /\ f.new = e.new \ {x}
      /\ \A i \in Ids \ {x} : f.old[i] = e.old[i] /\ f.removed[i] = e.removed[i]
  BY DEF on_remove, UndoState
<1>6. RecordsAt(e, c, d, x)
  BY DEF Records
<1>7. RecordsAt(f, c, n, x)
  <2>1. CASE x \in e.new
    <3>1. f.old = e.old /\ f.removed = e.removed
      BY <2>1 DEF on_remove, UndoState
    <3> QED BY <2>1, <3>1, <1>3, <1>5, <1>6 DEF RecordsAt
  <2>2. CASE x \notin e.new /\ e.old[x] # None
    <3>1. f.old[x] = None /\ f.removed[x] = e.old[x]
      BY <2>2 DEF on_remove, UndoState
    <3> QED BY <2>2, <3>1, <1>3, <1>5, <1>6 DEF RecordsAt
  <2>3. CASE x \notin e.new /\ e.old[x] = None
    <3>1. e.removed[x] = None /\ c.objs[x] = d.objs[x]
      BY <2>3, <1>6 DEF RecordsAt
    <3>2. f.old = e.old /\ f.removed[x] = d.objs[x]
      BY <2>3, <3>1 DEF on_remove, UndoState
    <3> QED BY <2>3, <3>1, <3>2, <1>3, <1>5, <1>6 DEF RecordsAt
  <2> QED BY <2>1, <2>2, <2>3
<1>8. ASSUME NEW i \in Ids PROVE RecordsAt(f, c, n, i)
  <2>1. CASE i = x
    BY <2>1, <1>7
  <2>2. CASE i # x
    BY <2>2, <1>3, <1>5 DEF Records, RecordsAt
  <2> QED BY <2>1, <2>2
<1>9. Records(f, c, n)
  BY <1>3, <1>5, <1>8 DEF Records
<1> QED BY <1>1, <1>4, <1>9

\* So does the change every block makes.
LEMMA HeadRecords ==
  ASSUME NEW e \in UndoState, NEW c, NEW d, WellFormed(c), WellFormed(d),
         Records(e, c, d), e.head = None, d.head < MaxHead
  PROVE  LET n == [d EXCEPT !.head = @ + 1]
             f == on_modify_head(e, d.head)
         IN  f \in UndoState /\ WellFormed(n) /\ Records(f, c, n)
<1> DEFINE n == [d EXCEPT !.head = @ + 1]
           f == on_modify_head(e, d.head)
<1>t. /\ d \in Databases /\ c \in Databases /\ MaxHead \in Nat /\ None \notin Nat
      /\ d.head \in 0 .. MaxHead /\ d.head + 1 \in 0 .. MaxHead
  BY ConstantsAssumption DEF WellFormed, Databases
<1>1. f \in UndoState
  BY <1>t, DeltaTypes
<1>2. n \in Databases
  BY <1>t, DatabaseExcept
<1>3. n.next = d.next /\ n.objs = d.objs /\ n.head = d.head + 1
  BY <1>t DEF Databases
<1>4. WellFormed(n)
  BY <1>2, <1>3, <1>t DEF WellFormed
<1>5. /\ f.head = d.head /\ f.next = e.next /\ f.new = e.new
      /\ f.old = e.old /\ f.removed = e.removed
  BY DEF on_modify_head, UndoState
<1>6. \A i \in Ids : RecordsAt(f, c, n, i)
  BY <1>3, <1>5 DEF Records, RecordsAt
<1>7. Records(f, c, n)
  BY <1>t, <1>3, <1>5, <1>6 DEF Records
<1> QED BY <1>1, <1>4, <1>7

\* Undoing a delta restores the database it leads to.
LEMMA UndoneRestores ==
  ASSUME NEW e \in UndoState, NEW c \in Databases, NEW d \in Databases,
         Records(e, c, d)
  PROVE  Undone(e, d) = c
<1>1. \A i \in Ids : Undone(e, d).objs[i] = c.objs[i]
  BY DEF Records, RecordsAt, Undone
<1>2. Undone(e, d).objs = c.objs
  <2>1. Undone(e, d).objs = [i \in Ids |-> Undone(e, d).objs[i]]
    BY DEF Undone
  <2>2. c.objs = [i \in Ids |-> c.objs[i]]
    BY DEF Databases
  <2> QED BY <1>1, <2>1, <2>2
<1>3. Undone(e, d).next = c.next /\ Undone(e, d).head = c.head
  BY DEF Records, Undone
<1>4. Undone(e, d) = [objs |-> Undone(e, d).objs, next |-> Undone(e, d).next,
                      head |-> Undone(e, d).head]
  BY DEF Undone
<1>5. c = [objs |-> c.objs, next |-> c.next, head |-> c.head]
  BY DEF Databases
<1> QED BY <1>2, <1>3, <1>4, <1>5

\* The merge of two deltas is a delta.
LEMMA MergeType ==
  ASSUME NEW a \in UndoState, NEW b \in UndoState
  PROVE  merge_states(a, b) \in UndoState
<1> DEFINE f == merge_states(a, b)
<1>1. f.old \in [Ids -> Slots]
  <2>1. \A i \in Ids : a.old[i] \in Slots /\ b.old[i] \in Slots /\ None \in Slots
    BY DEF UndoState, Slots
  <2> QED BY <2>1 DEF merge_states
<1>2. f.removed \in [Ids -> Slots]
  <2>1. \A i \in Ids : /\ a.old[i] \in Slots
                       /\ a.removed[i] \in Slots /\ b.removed[i] \in Slots
    BY DEF UndoState
  <2> QED BY <2>1 DEF merge_states
<1>3. f.new \in SUBSET Ids
  BY DEF merge_states, UndoState
<1>4. /\ f.next \in (0 .. MaxId) \cup {None}
      /\ f.head \in (0 .. MaxHead) \cup {None}
  BY DEF merge_states, UndoState
<1>5. f = [old |-> f.old, next |-> f.next, new |-> f.new,
           removed |-> f.removed, head |-> f.head]
  BY DEF merge_states
<1> HIDE DEF f
<1>6. [old |-> f.old, next |-> f.next, new |-> f.new,
       removed |-> f.removed, head |-> f.head] \in UndoState
  BY <1>1, <1>2, <1>3, <1>4 DEF UndoState
<1>7. f \in UndoState
  BY <1>5, <1>6, Zenon
<1> QED BY <1>7 DEF f

\* The merge of two successive deltas leads back over both sessions.
LEMMA MergeRecords ==
  ASSUME NEW a \in UndoState, NEW b \in UndoState, NEW c, NEW m, NEW d,
         WellFormed(c), WellFormed(m), WellFormed(d),
         Records(a, c, m), Records(b, m, d)
  PROVE  merge_states(a, b) \in UndoState /\ Records(merge_states(a, b), c, d)
<1> DEFINE f == merge_states(a, b)
<1>t. /\ c \in Databases /\ m \in Databases /\ d \in Databases
      /\ MaxId \in Nat /\ None \notin Nat
  BY ConstantsAssumption DEF WellFormed
<1>1. f \in UndoState
  BY MergeType
<1>2. c.next <= m.next /\ m.next <= d.next
  BY <1>t, RecordsNext
<1>3. /\ f.new = {i \in a.new \cup b.new : ~(i \in a.new /\ b.removed[i] # None)}
      /\ f.next = IF a.next # None THEN a.next ELSE b.next
      /\ f.head = IF a.head # None THEN a.head ELSE b.head
  BY DEF merge_states
<1>4. ASSUME NEW i \in Ids PROVE RecordsAt(f, c, d, i)
  <2>1. RecordsAt(a, c, m, i) /\ RecordsAt(b, m, d, i)
    BY DEF Records
  <2>2. /\ f.old[i] = CASE b.removed[i] # None -> None
                       [] b.removed[i] = None /\ (i \in a.new \/ a.old[i] # None) -> a.old[i]
                       [] OTHER -> b.old[i]
        /\ f.removed[i] = CASE b.removed[i] # None /\ i \in a.new -> a.removed[i]
                       [] b.removed[i] # None /\ i \notin a.new /\ a.old[i] # None -> a.old[i]
                       [] b.removed[i] # None /\ i \notin a.new /\ a.old[i] = None -> b.removed[i]
                       [] OTHER -> a.removed[i]
    BY DEF merge_states
  <2>3. i \in Nat /\ c.next \in Nat /\ m.next \in Nat /\ (i >= m.next => i >= c.next)
    BY <1>t, <1>2 DEF Ids, Databases
  <2>4. i \in f.new <=> (i \in a.new \/ i \in b.new) /\ ~(i \in a.new /\ b.removed[i] # None)
    BY <1>3
  <2>5. CASE i \in b.new
    <3>1. i >= m.next
      BY <2>1, <2>5 DEF RecordsAt
    <3>2. c.objs[i] = None
      BY <3>1, <2>3 DEF WellFormed
    <3> QED BY <2>1, <2>2, <2>3, <2>4, <2>5, <3>1, <3>2 DEF RecordsAt
  <2>6. CASE i \notin b.new /\ b.old[i] # None
    BY <2>1, <2>2, <2>4, <2>6 DEF RecordsAt
  <2>7. CASE i \notin b.new /\ b.old[i] = None /\ b.removed[i] # None
    BY <2>1, <2>2, <2>4, <2>7 DEF RecordsAt
  <2>8. CASE i \notin b.new /\ b.old[i] = None /\ b.removed[i] = None
    BY <2>1, <2>2, <2>4, <2>8 DEF RecordsAt
  <2> QED BY <2>5, <2>6, <2>7, <2>8
<1>5. IF f.next = None THEN c.next = d.next ELSE c.next = f.next /\ f.next <= d.next
  BY <1>t, <1>2, <1>3 DEF Records, Databases, UndoState
<1>6. IF f.head = None THEN c.head = d.head ELSE c.head = f.head
  BY <1>3 DEF Records
<1> QED BY <1>1, <1>4, <1>5, <1>6 DEF Records

-----------------------------------------------------------------------------
(* Memory and storage.                                                      *)

\* A slice of a sequence, and a prefix of one.
LEMMA Slice ==
  ASSUME NEW S, NEW s \in Seq(S), NEW m \in 1 .. Len(s) + 1, NEW n \in 0 .. Len(s)
  PROVE  /\ SubSeq(s, m, n) \in Seq(S)
         /\ Len(SubSeq(s, m, n)) = IF m <= n THEN n - m + 1 ELSE 0
         /\ \A i \in 1 .. n - m + 1 : SubSeq(s, m, n)[i] = s[m + i - 1]
<1>1. \A i \in m .. n : s[i] \in S
  BY ElementOfSeq
<1>2. m \in Int /\ n \in Int
  BY LenProperties
<1> QED BY <1>1, <1>2, SubSeqProperties

\* A prefix of a sequence of S, its length and its elements.
LEMMA PrefixSlice ==
  ASSUME NEW S, NEW s \in Seq(S), NEW n \in 0 .. Len(s)
  PROVE  /\ SubSeq(s, 1, n) \in Seq(S)
         /\ Len(SubSeq(s, 1, n)) = n
         /\ \A i \in 1 .. n : SubSeq(s, 1, n)[i] = s[i]
<1>1. Len(s) \in Nat /\ 1 \in 1 .. Len(s) + 1 /\ n \in Nat
  BY LenProperties
<1> QED BY <1>1, Slice

\* The elements of a sequence of deltas are deltas.
LEMMA ElementsType ==
  ASSUME NEW S, NEW s \in Seq(S)
  PROVE  Elements(s) \subseteq S
BY ElementOfSeq, LenProperties DEF Elements

\* Dropping a prefix of the first of two sequences, or cutting it in two.
LEMMA SuffixOfConcat ==
  ASSUME NEW S, NEW s \in Seq(S), NEW t \in Seq(S), NEW k \in 0 .. Len(s)
  PROVE  SubSeq(s, k + 1, Len(s)) \o t = SubSeq(s \o t, k + 1, Len(s \o t))
<1> DEFINE u == SubSeq(s, k + 1, Len(s))
           w == SubSeq(s \o t, k + 1, Len(s \o t))
<1>1. /\ Len(s) \in Nat /\ Len(t) \in Nat
      /\ s \o t \in Seq(S) /\ Len(s \o t) = Len(s) + Len(t)
      /\ \A i \in 1 .. Len(s) + Len(t) :
           (s \o t)[i] = IF i <= Len(s) THEN s[i] ELSE t[i - Len(s)]
  BY LenProperties, ConcatProperties
<1>2. /\ u \in Seq(S) /\ Len(u) = Len(s) - k
      /\ \A i \in 1 .. Len(s) - k : u[i] = s[k + i]
  BY <1>1, Slice
<1>3. /\ w \in Seq(S) /\ Len(w) = Len(s) + Len(t) - k
      /\ \A i \in 1 .. Len(s) + Len(t) - k : w[i] = (s \o t)[k + i]
  BY <1>1, Slice
<1> HIDE DEF u, w
<1>4. /\ u \o t \in Seq(S) /\ Len(u \o t) = Len(u) + Len(t)
      /\ \A i \in 1 .. Len(u) + Len(t) :
           (u \o t)[i] = IF i <= Len(u) THEN u[i] ELSE t[i - Len(u)]
  BY <1>2, ConcatProperties
<1>5. ASSUME NEW i \in 1 .. Len(u \o t) PROVE (u \o t)[i] = w[i]
  BY <1>1, <1>2, <1>3, <1>4
<1>6. u \o t \in Seq(S) /\ w \in Seq(S) /\ Len(u \o t) = Len(w)
  BY <1>1, <1>2, <1>3, <1>4
<1> HIDE DEF u, w
<1>7. u \o t = w
  BY <1>5, <1>6, SeqEqual
<1> QED BY <1>7 DEF u, w

\* What starting a session does to the queue of spilled deltas and to the
\* deltas in memory.
LEMMA StartShape ==
  ASSUME TypeOK, active <= Len(back), start_undo_session
  PROVE  /\ back' \in Seq(UndoState) /\ stack' \in Seq(UndoState)
         /\ storage' \subseteq UndoState
         /\ active + 1 <= Len(back')
         /\ Len(back') < MaxBack + Slack
         /\ max_size > MaxBack + Slack /\ Len(back) < MaxBack + Slack =>
              LET all == Append(stack \o back, EmptyState)
              IN  \E k \in 0 .. Len(all) :
                    stack' \o back' = SubSeq(all, k + 1, Len(all))
<1> DEFINE b == Append(back, EmptyState)
           c == SpillCount(b)
           out == Spilled(b)
           kept == SubSeq(b, c + 1, Len(b))
           queue == stack \o out
           total == Len(queue) + Len(kept)
           excess == IF total > max_size THEN total - max_size ELSE 0
           fromStack == Smaller(excess, Len(queue))
<1>t. /\ back \in Seq(UndoState) /\ stack \in Seq(UndoState)
      /\ EmptyState \in UndoState /\ db \in Databases
      /\ active \in Nat /\ max_size \in Nat /\ Len(back) \in Nat /\ Len(stack) \in Nat
      /\ MaxBack \in Nat /\ Slack \in Nat /\ MaxDepth \in Nat
      /\ max_size >= MaxBack /\ MaxBack > MaxDepth /\ active < MaxDepth
      /\ Slack >= 1
  BY ConstantsAssumption, EmptyRecords, LenProperties DEF TypeOK, start_undo_session
<1>1. /\ b \in Seq(UndoState) /\ Len(b) = Len(back) + 1
  BY <1>t, AppendProperties
<1>2. c \in Nat /\ c < Len(b) /\ (c > 0 => c = Len(b) - MaxBack + 1)
      /\ (c = 0 => Len(b) < MaxBack + Slack)
  BY <1>1, <1>t DEF SpillCount
<1> HIDE DEF c
<1>3. /\ kept \in Seq(UndoState) /\ Len(kept) = Len(b) - c
  BY <1>1, <1>2, <1>t, Slice
<1>4. out \in Seq(UndoState) /\ Len(out) \in Nat
  <2> DEFINE start == IF Len(b) + 2 > max_size THEN Len(b) + 2 - max_size ELSE 1
  <2>1. start \in 1 .. Len(b) + 1
    BY <1>1, <1>t
  <2>2. out = SubSeq(b, start, c)
    BY DEF Spilled, c
  <2>3. c \in 0 .. Len(b)
    BY <1>1, <1>2, <1>t
  <2> HIDE DEF start, b, out
  <2>4. SubSeq(b, start, c) \in Seq(UndoState)
    BY <1>1, <2>1, <2>3, Slice
  <2> QED BY <2>2, <2>4, LenProperties
<1> HIDE DEF b, kept, out
<1>5. queue \in Seq(UndoState) /\ Len(queue) = Len(stack) + Len(out)
  BY <1>4, <1>t, ConcatProperties
<1>6. /\ Len(queue) \in Nat /\ Len(kept) \in Nat
      /\ excess \in Nat /\ fromStack \in 0 .. Len(queue)
      /\ fromStack <= excess /\ excess - fromStack \in 0 .. Len(kept)
      /\ excess > fromStack => Len(kept) - (excess - fromStack) = max_size
  BY <1>3, <1>4, <1>5, <1>t, LenProperties, SMTT(30) DEF Smaller
<1>7. /\ back' = SubSeq(kept, excess - fromStack + 1, Len(kept))
      /\ stack' = SubSeq(queue, fromStack + 1, Len(queue))
      /\ storage' = (storage \cup Elements(out)) \ Elements(Prefix(queue, fromStack))
  BY DEF start_undo_session, b, kept, out, c
<1> HIDE DEF queue, excess, fromStack
<1>8. /\ back' \in Seq(UndoState)
      /\ Len(back') = Len(kept) - (excess - fromStack)
  BY <1>3, <1>6, <1>7, Slice
<1>9. stack' \in Seq(UndoState)
  BY <1>5, <1>6, <1>7, Slice
<1>10. storage' \subseteq UndoState
  BY <1>4, <1>7, ElementsType DEF TypeOK
<1>11. active + 1 <= Len(back')
  BY <1>1, <1>2, <1>3, <1>6, <1>8, <1>t, SMTT(30)
<1>12. Len(back') < MaxBack + Slack
  BY <1>1, <1>2, <1>3, <1>6, <1>8, <1>t, SMTT(30)
<1>13. ASSUME max_size > MaxBack + Slack, Len(back) < MaxBack + Slack
       PROVE  LET all == Append(stack \o back, EmptyState)
              IN  \E k \in 0 .. Len(all) :
                    stack' \o back' = SubSeq(all, k + 1, Len(all))
  <2> DEFINE all == Append(stack \o back, EmptyState)
  <2>1. excess = fromStack
    BY <1>1, <1>2, <1>3, <1>6, <1>13, <1>t
  <2>2. back' = kept
    BY <2>1, <1>3, <1>6, <1>7, SubSeqFull
  <2>3. out = SubSeq(b, 1, c)
    <3>1. Len(b) <= MaxBack + Slack /\ MaxBack + Slack + 1 <= max_size
      BY <1>1, <1>13, <1>t
    <3>2. Len(b) + 2 > max_size => Len(b) + 2 - max_size = 1
      BY <3>1, <1>1, <1>t, SMTT(30)
    <3> QED BY <3>2 DEF Spilled, out, c, b
  <2>4. out \o kept = b
    <3>0. 1 \in 1 .. Len(b) + 1 /\ c \in 1 - 1 .. Len(b) /\ Len(b) \in c .. Len(b)
      BY <1>1, <1>2, <1>t
    <3>1. SubSeq(b, 1, c) \o SubSeq(b, c + 1, Len(b)) = SubSeq(b, 1, Len(b))
      BY <3>0, <1>1, ConcatAdjacentSubSeq
    <3>2. SubSeq(b, 1, Len(b)) = b
      BY <1>1, SubSeqFull
    <3> QED BY <3>1, <3>2, <2>3 DEF kept
  <2>5. queue \o kept = all
    <3>1. queue \o kept = stack \o (out \o kept)
      BY <1>3, <1>4, <1>t, ConcatAssociative, SMTT(30) DEF queue
    <3>2. b = back \o <<EmptyState>>
      BY <1>t, AppendIsConcat DEF b
    <3>3. <<EmptyState>> \in Seq(UndoState)
      BY <1>t
    <3>4. stack \o (back \o <<EmptyState>>) = (stack \o back) \o <<EmptyState>>
      BY <3>3, <1>t, ConcatAssociative
    <3>5. all = (stack \o back) \o <<EmptyState>>
      BY <1>t, ConcatProperties, AppendIsConcat
    <3> QED BY <3>1, <3>2, <3>4, <3>5, <2>4
  <2> HIDE DEF all
  <2>6. all \in Seq(UndoState) /\ Len(all) = Len(queue) + Len(kept)
    <3>0. queue \in Seq(UndoState) /\ kept \in Seq(UndoState)
      BY <1>3, <1>5
    <3>1. /\ queue \o kept \in Seq(UndoState)
          /\ Len(queue \o kept) = Len(queue) + Len(kept)
      BY <3>0, ConcatProperties
    <3> QED BY <3>1, <2>5
  <2>7. stack' \o back' = SubSeq(all, fromStack + 1, Len(all))
    BY <2>2, <2>5, <1>3, <1>5, <1>6, <1>7, SuffixOfConcat
  <2>8. fromStack \in 0 .. Len(all)
    BY <2>6, <1>6
  <2> QED BY <2>7, <2>8 DEF all
<1> QED BY <1>8, <1>9, <1>10, <1>11, <1>12, <1>13

\* What reloading does: the deltas stay the same, some move into memory.
LEMMA RefillShape ==
  ASSUME TypeOK, NEW b \in Seq(UndoState), Refilled(b)
  PROVE  /\ back' \in Seq(UndoState) /\ stack' \in Seq(UndoState)
         /\ storage' \subseteq UndoState
         /\ Len(b) <= Len(back')
         /\ Len(b) < MaxBack + Slack => Len(back') < MaxBack + Slack
         /\ stack' \o back' = stack \o b
<1> DEFINE n == RefillCount(b)
           k == Len(stack) - n
           ids == Suffix(stack, n)
<1>t. /\ stack \in Seq(UndoState) /\ Len(stack) \in Nat /\ Len(b) \in Nat
      /\ MaxBack \in Nat /\ Slack \in Nat /\ Slack >= 1
      /\ ReloadAt \in Nat /\ ReloadAt < MaxBack
  BY ConstantsAssumption, LenProperties DEF TypeOK
<1>1. /\ n \in 0 .. Len(stack)
      /\ n > 0 => n + Len(b) <= MaxBack
  BY <1>t DEF RefillCount, Smaller
<1> HIDE DEF n
<1>2. k \in 0 .. Len(stack) /\ Len(stack) - n + 1 = k + 1
  BY <1>1, <1>t
<1>3. ids = SubSeq(stack, k + 1, Len(stack))
  BY <1>2 DEF Suffix
<1>4. ids \in Seq(UndoState) /\ Len(ids) = n
  BY <1>1, <1>2, <1>3, <1>t, Slice
<1> HIDE DEF ids
<1>5. /\ back' = ids \o b /\ stack' = SubSeq(stack, 1, k)
      /\ storage' = storage \ Elements(ids)
  BY DEF Refilled, Prefix, n, k, ids
<1>6. back' \in Seq(UndoState) /\ Len(back') = n + Len(b)
  <2>1. ids \o b \in Seq(UndoState) /\ Len(ids \o b) = Len(ids) + Len(b)
    BY <1>4, ConcatProperties
  <2> QED BY <2>1, <1>4, <1>5
<1> HIDE DEF k
<1>7. stack' \in Seq(UndoState)
  BY <1>2, <1>5, <1>t, Slice
<1>8. storage' \subseteq UndoState
  BY <1>5 DEF TypeOK
<1>9. stack' \o back' = stack \o b
  <2>0. 1 \in 1 .. Len(stack) + 1 /\ k \in 1 - 1 .. Len(stack) /\ Len(stack) \in k .. Len(stack)
    BY <1>2, <1>t
  <2>1. SubSeq(stack, 1, k) \o ids = SubSeq(stack, 1, Len(stack))
    BY <2>0, <1>3, <1>t, ConcatAdjacentSubSeq
  <2>2. SubSeq(stack, 1, Len(stack)) = stack
    BY <1>t, SubSeqFull
  <2>3. stack' \o (ids \o b) = (stack' \o ids) \o b
    BY <1>4, <1>7, ConcatAssociative, SMTT(30)
  <2> QED BY <2>1, <2>2, <2>3, <1>5
<1>10. /\ Len(b) <= Len(back')
       /\ Len(b) < MaxBack + Slack => Len(back') < MaxBack + Slack
  BY <1>1, <1>6, <1>t
<1> QED BY <1>6, <1>7, <1>8, <1>9, <1>10

\* What a restart does: the deltas stay the same, the newest in memory.
LEMMA RestartShape ==
  ASSUME TypeOK, restart, ~failed'
  PROVE  /\ back' \in Seq(UndoState) /\ stack' \in Seq(UndoState)
         /\ storage' \subseteq UndoState
         /\ Len(back') < MaxBack + Slack
         /\ stack' \o back' = stack \o back
<1> DEFINE all == stack \o back
           n == Smaller(MaxBack, Len(all))
           k == Len(all) - n
<1>t. /\ stack \in Seq(UndoState) /\ back \in Seq(UndoState)
      /\ MaxBack \in Nat /\ Slack \in Nat /\ Slack >= 1
  BY ConstantsAssumption DEF TypeOK
<1>1. all \in Seq(UndoState) /\ Len(all) \in Nat
  BY <1>t, ConcatProperties, LenProperties
<1>2. /\ back' = Suffix(all, n) /\ stack' = SubSeq(all, 1, Len(all) - n)
      /\ storage' = (storage \cup Elements(back)) \ Elements(Suffix(all, n))
  BY DEF restart, Prefix
<1> HIDE DEF all
<1>3. n \in 0 .. Len(all) /\ n <= MaxBack
  BY <1>1, <1>t DEF Smaller
<1> HIDE DEF n
<1>4. k \in 0 .. Len(all) /\ Len(all) - n + 1 = k + 1
  BY <1>1, <1>3
<1>5. back' = SubSeq(all, k + 1, Len(all)) /\ stack' = SubSeq(all, 1, k)
  BY <1>2, <1>4 DEF Suffix
<1>6. Len(back') = n /\ back' \in Seq(UndoState)
  BY <1>1, <1>3, <1>4, <1>5, Slice
<1> HIDE DEF k
<1>7. stack' \in Seq(UndoState)
  BY <1>1, <1>4, <1>5, Slice
<1>8. stack' \o back' = all
  <2>0. 1 \in 1 .. Len(all) + 1 /\ k \in 1 - 1 .. Len(all) /\ Len(all) \in k .. Len(all)
    BY <1>1, <1>4
  <2>1. SubSeq(all, 1, k) \o SubSeq(all, k + 1, Len(all)) = SubSeq(all, 1, Len(all))
    BY <2>0, <1>1, ConcatAdjacentSubSeq
  <2> QED BY <2>1, <1>1, <1>5, SubSeqFull
<1>9. storage' \subseteq UndoState
  BY <1>2, <1>t, ElementsType DEF TypeOK
<1>10. Len(back') < MaxBack + Slack
  BY <1>3, <1>6, <1>t
<1> QED BY <1>6, <1>7, <1>8, <1>9, <1>10 DEF all

-----------------------------------------------------------------------------
(* Type correctness.                                                        *)


\* The open sessions have their deltas in memory: a delta is never spilled,
\* nor dropped, under an open session.
TypeInv == TypeOK /\ active <= Len(back)

\* With a session open or a delta committed, the newest delta is one.
LEMMA TopType ==
  ASSUME TypeInv, back # << >> \/ active > 0
  PROVE  /\ Len(back) \in Nat \ {0} /\ Top \in UndoState
         /\ \A e \in UndoState : /\ ReplaceTop(e) \in Seq(UndoState)
                                /\ Len(ReplaceTop(e)) = Len(back)
         /\ Prefix(back, Len(back) - 1) \in Seq(UndoState)
         /\ Len(Prefix(back, Len(back) - 1)) = Len(back) - 1
<1>1. back \in Seq(UndoState) /\ active \in Nat /\ active <= Len(back) /\ Len(back) \in Nat
  BY LenProperties, ConstantsAssumption DEF TypeInv, TypeOK
<1>2. Len(back) \in Nat \ {0}
  BY <1>1, EmptySeq
<1>3. Len(back) \in 1 .. Len(back)
  BY <1>2
<1>4. Top \in UndoState
  BY <1>1, <1>3, ElementOfSeq DEF Top
<1>5. \A e \in UndoState : /\ ReplaceTop(e) \in Seq(UndoState)
                          /\ Len(ReplaceTop(e)) = Len(back)
  BY <1>1, <1>3, ExceptSeq DEF ReplaceTop
<1>6. 1 \in 1 .. Len(back) + 1 /\ Len(back) - 1 \in 0 .. Len(back)
  BY <1>2
<1>7. /\ Prefix(back, Len(back) - 1) \in Seq(UndoState)
      /\ Len(Prefix(back, Len(back) - 1)) = Len(back) - 1
  <2>1. \A n \in 0 .. Len(back) : /\ SubSeq(back, 1, n) \in Seq(UndoState)
                                  /\ Len(SubSeq(back, 1, n)) = n
    BY <1>1, Slice
  <2> QED BY <1>6, <2>1 DEF Prefix
<1> QED BY <1>2, <1>4, <1>5, <1>7

\* The history of snapshots loses its newest entry.
LEMMA SnapsType ==
  ASSUME TypeOK
  PROVE  Prefix(snaps, Len(snaps) - 1) \in Seq(Databases)
<1>1. snaps \in Seq(Databases) /\ Len(snaps) \in Nat
  BY LenProperties DEF TypeOK
<1>2. CASE Len(snaps) = 0
  <2>1. Prefix(snaps, Len(snaps) - 1) = << >>
    BY <1>2, SubSeqEmpty DEF Prefix
  <2> QED BY <2>1, EmptySeq
<1>3. CASE Len(snaps) > 0
  <2>1. 1 \in 1 .. Len(snaps) + 1 /\ Len(snaps) - 1 \in 0 .. Len(snaps)
    BY <1>1, <1>3
  <2> QED BY <2>1, <1>1, Slice DEF Prefix
<1> QED BY <1>1, <1>2, <1>3

\* Each step keeps the types and the open sessions in memory.
LEMMA TypeInvStep ==
  ASSUME TypeInv, Next
  PROVE  TypeInv'
<1> USE DEF TypeInv
<1>t. /\ active \in Nat /\ active \in 0 .. MaxDepth /\ MaxDepth \in Nat
      /\ Len(back) \in Nat /\ back \in Seq(UndoState) /\ db \in Databases
      /\ ~failed
  BY LenProperties, ConstantsAssumption DEF TypeOK, Next
<1>1. ASSUME NEW m \in MaxSizes, set_max_size(m) PROVE TypeInv'
  BY <1>1 DEF set_max_size, TypeOK
<1>2. CASE start_undo_session
  <2>1. Append(snaps, db) \in Seq(Databases)
    BY AppendProperties DEF TypeOK
  <2>2. active + 1 \in 0 .. MaxDepth
    BY <1>2, <1>t DEF start_undo_session
  <2>3. /\ back' \in Seq(UndoState) /\ stack' \in Seq(UndoState)
        /\ storage' \subseteq UndoState /\ active + 1 <= Len(back')
    BY <1>2, StartShape
  <2> QED BY <1>2, <2>1, <2>2, <2>3 DEF start_undo_session, TypeOK
<1>3. ASSUME NEW v \in Vals, create(v) PROVE TypeInv'
  <2>1. db' \in Databases
    <3>1. db.next \in Ids /\ db.next + 1 \in 0 .. MaxId /\ v \in Slots
      BY <1>3, <1>t, ConstantsAssumption DEF create, Databases, Ids, Slots
    <3> QED BY <1>3, <1>t, <3>1, DatabaseExcept DEF create
  <2>2. back' \in Seq(UndoState) /\ Len(back') = Len(back)
    BY <1>3, <1>t, TopType, DeltaTypes DEF create
  <2> QED BY <1>3, <2>1, <2>2 DEF create, TypeOK
<1>4. ASSUME NEW i \in Ids, NEW v \in Vals, modify(i, v) PROVE TypeInv'
  <2>1. db' \in Databases
    BY <1>4, <1>t, DatabaseExcept DEF modify, Slots
  <2>2. back' \in Seq(UndoState) /\ Len(back') = Len(back)
    BY <1>4, <1>t, TopType, DeltaTypes DEF modify
  <2> QED BY <1>4, <2>1, <2>2 DEF modify, TypeOK
<1>5. ASSUME NEW i \in Ids, remove(i) PROVE TypeInv'
  <2>1. db' \in Databases
    BY <1>5, <1>t, DatabaseExcept DEF remove, Slots
  <2>2. back' \in Seq(UndoState) /\ Len(back') = Len(back)
    BY <1>5, <1>t, TopType, DeltaTypes DEF remove
  <2> QED BY <1>5, <2>1, <2>2 DEF remove, TypeOK
<1>6. CASE update_head
  <2>1. db' \in Databases
    <3>1. db.head + 1 \in 0 .. MaxHead
      BY <1>6, <1>t, ConstantsAssumption DEF update_head, Databases
    <3> QED BY <1>6, <1>t, <3>1, DatabaseExcept DEF update_head
  <2>2. back' \in Seq(UndoState) /\ Len(back') = Len(back)
    BY <1>6, <1>t, TopType, DeltaTypes DEF update_head
  <2> QED BY <1>6, <2>1, <2>2 DEF update_head, TypeOK
<1>7. ASSUME back # << >>, Rollback
      PROVE  /\ db' \in Databases /\ back' \in Seq(UndoState)
             /\ stack' \in Seq(UndoState) /\ storage' \subseteq UndoState
             /\ snaps' \in Seq(Databases) /\ failed' \in BOOLEAN
             /\ Len(back) - 1 <= Len(back')
             /\ failed' => Len(back') = Len(back)
  <2> DEFINE b == Prefix(back, Len(back) - 1)
  <2>t. /\ b \in Seq(UndoState) /\ Len(b) = Len(back) - 1 /\ Top \in UndoState
    BY <1>7, TopType
  <2>1. CASE Undoable(Top, db) /\ ~FailsToLoad(b)
    <3>1. /\ db' = Undone(Top, db) /\ Refilled(b) /\ failed' = failed
          /\ snaps' = Prefix(snaps, Len(snaps) - 1)
      BY <1>7, <2>1 DEF Rollback
    <3>2. db' \in Databases
      BY <3>1, <2>t, <1>t, DeltaTypes
    <3>3. snaps' \in Seq(Databases)
      BY <3>1, SnapsType
    <3>4. /\ back' \in Seq(UndoState) /\ stack' \in Seq(UndoState)
          /\ storage' \subseteq UndoState /\ Len(b) <= Len(back')
      BY <3>1, <2>t, RefillShape
    <3>5. ~failed'
      BY <3>1, <1>t
    <3> QED BY <3>1, <3>2, <3>3, <3>4, <3>5, <2>t DEF TypeOK
  <2>2. CASE ~(Undoable(Top, db) /\ ~FailsToLoad(b))
    <3>1. failed' = TRUE /\ UNCHANGED <<db, back, stack, storage, snaps>>
      BY <1>7, <2>2 DEF Rollback
    <3> QED BY <3>1, <1>t DEF TypeOK
  <2> QED BY <2>1, <2>2
<1>8. CASE undo
  <2>1. back # << >> /\ Rollback /\ active > 0 /\ max_size' = max_size
        /\ active' = IF failed' THEN active ELSE active - 1
    BY <1>8 DEF undo
  <2>2. active' \in 0 .. MaxDepth /\ active' <= Len(back')
    <3>1. Len(back') \in Nat
      BY <2>1, <1>7, LenProperties
    <3> QED BY <3>1, <2>1, <1>7, <1>t
  <2> QED BY <2>1, <2>2, <1>7 DEF TypeOK
<1>9. CASE merge
  <2> DEFINE b == Prefix(back, Len(back) - 1)
             c == [b EXCEPT ![Len(b)] = merge_states(@, Top)]
  <2>1. CASE Len(back) >= 2 /\ ~FailsToLoad(b)
    <3>1. /\ Refilled(c) /\ snaps' = Prefix(snaps, Len(snaps) - 1)
          /\ failed' = failed /\ db' = db /\ max_size' = max_size
          /\ active > 1 /\ active' = active - 1
      BY <1>9, <2>1, <1>t DEF merge
    <3>2. /\ b \in Seq(UndoState) /\ Len(b) = Len(back) - 1 /\ Top \in UndoState
      BY <2>1, <3>1, <1>t, TopType
    <3>3. Len(b) \in 1 .. Len(b)
      BY <3>2, <2>1, <1>t
    <3> HIDE DEF b
    <3>4. merge_states(b[Len(b)], Top) \in UndoState
      BY <3>2, <3>3, ElementOfSeq, MergeType
    <3>5. c \in Seq(UndoState) /\ Len(c) = Len(b)
      BY <3>2, <3>3, <3>4, ExceptSeq
    <3> HIDE DEF c
    <3>6. /\ back' \in Seq(UndoState) /\ stack' \in Seq(UndoState)
          /\ storage' \subseteq UndoState /\ Len(c) <= Len(back')
      BY <3>1, <3>5, RefillShape
    <3>7. active' \in 0 .. MaxDepth /\ active' <= Len(back')
      BY <3>1, <3>2, <3>5, <3>6, <1>t, LenProperties
    <3> QED BY <3>1, <3>6, <3>7, SnapsType DEF TypeOK
  <2>2. CASE ~(Len(back) >= 2 /\ ~FailsToLoad(b))
    BY <1>9, <2>2 DEF merge, TypeOK
  <2> QED BY <2>1, <2>2
<1>10. CASE commit
  BY <1>10, <1>t DEF commit, TypeOK
<1>11. CASE pop_commit
  <2>1. back # << >> /\ Rollback /\ active' = 0 /\ active = 0 /\ max_size' = max_size
    BY <1>11 DEF pop_commit
  <2>2. active' <= Len(back')
    BY <2>1, <1>7, LenProperties
  <2> QED BY <2>1, <2>2, <1>7 DEF TypeOK
<1>12. CASE restart
  <2>1. /\ active' = 0 /\ active = 0 /\ max_size' = DefaultMax /\ DefaultMax \in MaxSizes
        /\ db' = db /\ snaps' = snaps /\ failed' \in BOOLEAN
    BY <1>12, ConstantsAssumption DEF restart, TypeOK
  <2>2. CASE failed'
    <3>1. UNCHANGED <<back, stack, storage>>
      BY <1>12, <2>2, <1>t DEF restart
    <3> QED BY <2>1, <3>1 DEF TypeOK
  <2>3. CASE ~failed'
    <3>1. /\ back' \in Seq(UndoState) /\ stack' \in Seq(UndoState)
          /\ storage' \subseteq UndoState
      BY <1>12, <2>3, RestartShape
    <3>2. active' <= Len(back')
      BY <2>1, <3>1, LenProperties
    <3> QED BY <2>1, <3>1, <3>2 DEF TypeOK
  <2> QED BY <2>2, <2>3
<1> QED BY <1>1, <1>2, <1>3, <1>4, <1>5, <1>6, <1>8, <1>9, <1>10, <1>11, <1>12
        DEF Next, Step

\* The initial state is typed.
LEMMA TypeInvInit == Init => TypeInv
<1> SUFFICES ASSUME Init PROVE TypeInv
  OBVIOUS
<1>1. db \in Databases
  BY ConstantsAssumption DEF Init, Databases, Nothing, Slots
<1>2. /\ << >> \in Seq(UndoState) /\ << >> \in Seq(Databases)
      /\ Len(<< >>) = 0 /\ 0 \in 0 .. MaxDepth /\ DefaultMax \in MaxSizes
  BY EmptySeq, ConstantsAssumption
<1>3. /\ back \in Seq(UndoState) /\ stack \in Seq(UndoState) /\ snaps \in Seq(Databases)
      /\ active \in 0 .. MaxDepth /\ max_size \in MaxSizes /\ active = 0
  BY <1>2 DEF Init
<1>4. storage \subseteq UndoState /\ failed \in BOOLEAN /\ Len(back) \in Nat
  BY <1>3, LenProperties DEF Init
<1> QED BY <1>1, <1>3, <1>4 DEF TypeInv, TypeOK

\* Every variable keeps its type, and no step reads a delta that is not in
\* memory, whatever sizes set_max_size is given: undo_database's operations on
\* back.back() are always defined.
THEOREM TypeCorrect == Spec => []TypeOK
<1>1. Init => TypeInv
  BY TypeInvInit
<1>2. TypeInv /\ [Next]_vars => TypeInv'
  <2>1. ASSUME TypeInv, UNCHANGED vars PROVE TypeInv'
    BY <2>1 DEF vars, TypeInv, TypeOK
  <2> QED BY <2>1, TypeInvStep
<1>3. TypeInv => TypeOK
  BY DEF TypeInv
<1> QED BY <1>1, <1>2, <1>3, PTL DEF Spec

-----------------------------------------------------------------------------
(* The retained deltas lead back through the newest databases.              *)

\* A new session starts with an empty delta.
LEMMA CoversPush ==
  ASSUME NEW all \in Seq(UndoState), NEW sn \in Seq(Databases), NEW d \in Databases,
         Covers(all, sn, d)
  PROVE  Covers(Append(all, EmptyState), Append(sn, d), d)
<1> DEFINE a == Append(all, EmptyState)
           t == Append(sn, d)
<1>t. Len(all) \in Nat /\ Len(sn) \in Nat /\ EmptyState \in UndoState
  BY LenProperties, EmptyRecords
<1>1. /\ Len(a) = Len(all) + 1 /\ a[Len(all) + 1] = EmptyState
      /\ \A i \in 1 .. Len(all) : a[i] = all[i]
  BY <1>t, AppendProperties
<1>2. /\ Len(t) = Len(sn) + 1 /\ t[Len(sn) + 1] = d
      /\ \A i \in 1 .. Len(sn) : t[i] = sn[i]
  BY AppendProperties
<1>3. Len(all) <= Len(sn)
  BY DEF Covers
<1> HIDE DEF a, t
<1>4. /\ \A k \in 1 .. Len(sn) + 1 : SnapAt(t, d, k) = SnapAt(sn, d, k)
      /\ SnapAt(t, d, Len(sn) + 2) = d
  BY <1>t, <1>2 DEF SnapAt
<1>5. ASSUME NEW i \in 1 .. Len(a)
      PROVE  Records(a[i], SnapAt(t, d, Len(t) - Len(a) + i),
                           SnapAt(t, d, Len(t) - Len(a) + i + 1))
  <2>1. CASE i = Len(all) + 1
    <3>1. Len(t) - Len(a) + i = Len(sn) + 1 /\ Len(t) - Len(a) + i + 1 = Len(sn) + 2
      BY <2>1, <1>t, <1>1, <1>2
    <3>2. SnapAt(t, d, Len(sn) + 1) = d
      BY <1>t, <1>4 DEF SnapAt
    <3> QED BY <2>1, <3>1, <3>2, <1>1, <1>4, EmptyRecords
  <2>2. CASE i # Len(all) + 1
    <3>1. /\ i \in 1 .. Len(all) /\ Len(t) - Len(a) + i = Len(sn) - Len(all) + i
          /\ Len(sn) - Len(all) + i \in 1 .. Len(sn) + 1
          /\ Len(sn) - Len(all) + i + 1 \in 1 .. Len(sn) + 1
      BY <2>2, <1>t, <1>1, <1>2, <1>3
    <3>2. Records(all[i], SnapAt(sn, d, Len(sn) - Len(all) + i),
                          SnapAt(sn, d, Len(sn) - Len(all) + i + 1))
      BY <3>1 DEF Covers
    <3> QED BY <3>1, <3>2, <1>1, <1>4
  <2> QED BY <2>1, <2>2
<1>6. Len(a) <= Len(t)
  BY <1>t, <1>1, <1>2, <1>3
<1>7. Covers(a, t, d)
  BY <1>5, <1>6 DEF Covers
<1> QED BY <1>7 DEF a, t

\* The oldest deltas may be dropped.
LEMMA CoversSuffix ==
  ASSUME NEW all \in Seq(UndoState), NEW sn \in Seq(Databases), NEW d \in Databases,
         Covers(all, sn, d), NEW k \in 0 .. Len(all)
  PROVE  Covers(SubSeq(all, k + 1, Len(all)), sn, d)
<1> DEFINE a == SubSeq(all, k + 1, Len(all))
<1>t. Len(all) \in Nat /\ Len(sn) \in Nat /\ Len(all) <= Len(sn)
  BY LenProperties DEF Covers
<1>1. Len(a) = Len(all) - k /\ \A i \in 1 .. Len(all) - k : a[i] = all[k + i]
  BY <1>t, Slice
<1> HIDE DEF a
<1>2. ASSUME NEW i \in 1 .. Len(a)
      PROVE  Records(a[i], SnapAt(sn, d, Len(sn) - Len(a) + i),
                           SnapAt(sn, d, Len(sn) - Len(a) + i + 1))
  <2>1. /\ k + i \in 1 .. Len(all) /\ a[i] = all[k + i]
        /\ Len(sn) - Len(a) + i = Len(sn) - Len(all) + (k + i)
    BY <1>t, <1>1
  <2>2. Records(all[k + i], SnapAt(sn, d, Len(sn) - Len(all) + (k + i)),
                            SnapAt(sn, d, Len(sn) - Len(all) + (k + i) + 1))
    BY <2>1 DEF Covers
  <2> QED BY <2>1, <2>2
<1>3. Len(a) <= Len(sn)
  BY <1>t, <1>1
<1>4. Covers(a, sn, d)
  BY <1>2, <1>3 DEF Covers
<1> QED BY <1>4 DEF a

\* The newest delta leads to the database its session started from, and the
\* others lead on from there.
LEMMA CoversPop ==
  ASSUME NEW all \in Seq(UndoState), NEW sn \in Seq(Databases), NEW d \in Databases,
         Covers(all, sn, d), Len(all) >= 1
  PROVE  /\ Len(sn) >= 1
         /\ sn[Len(sn)] \in Databases
         /\ Records(all[Len(all)], sn[Len(sn)], d)
         /\ Covers(Prefix(all, Len(all) - 1), Prefix(sn, Len(sn) - 1), sn[Len(sn)])
<1> DEFINE m == Len(all) - 1
           n == Len(sn) - 1
           a == SubSeq(all, 1, m)
           t == SubSeq(sn, 1, n)
           c == sn[Len(sn)]
<1>t. Len(all) \in Nat /\ Len(sn) \in Nat /\ Len(all) <= Len(sn)
  BY LenProperties DEF Covers
<1>1. m \in 0 .. Len(all) /\ n \in 0 .. Len(sn) /\ m <= n
      /\ Len(all) = m + 1 /\ Len(sn) = n + 1
  BY <1>t
<1>2. Len(a) = m /\ \A i \in 1 .. m : a[i] = all[i]
  BY <1>1, <1>t, Slice
<1>3. Len(t) = n /\ \A i \in 1 .. n : t[i] = sn[i]
  BY <1>1, <1>t, Slice
<1>4. c \in Databases
  BY <1>1, <1>t, ElementOfSeq
<1>5. Records(all[Len(all)], c, d)
  <2>1. /\ Len(all) \in 1 .. Len(all)
        /\ Len(sn) - Len(all) + Len(all) = Len(sn)
        /\ Len(sn) # Len(sn) + 1
    BY <1>t
  <2>2. Records(all[Len(all)], SnapAt(sn, d, Len(sn)), SnapAt(sn, d, Len(sn) + 1))
    BY <2>1 DEF Covers
  <2> QED BY <2>1, <2>2 DEF SnapAt
<1> HIDE DEF a, t
<1>6. ASSUME NEW k \in 1 .. n + 1 PROVE SnapAt(t, c, k) = SnapAt(sn, d, k)
  <2>1. CASE k = n + 1
    BY <2>1, <1>1, <1>3, <1>t DEF SnapAt
  <2>2. CASE k # n + 1
    <3>0. n \in Nat /\ k \in Nat /\ Len(t) = n /\ Len(sn) = n + 1
      BY <1>1, <1>3, <1>t
    <3> HIDE DEF n
    <3>1. k \in 1 .. n /\ k # Len(sn) + 1 /\ k # Len(t) + 1
      BY <2>2, <3>0
    <3> QED BY <3>1, <1>3 DEF SnapAt
  <2> QED BY <2>1, <2>2
<1>7. ASSUME NEW i \in 1 .. Len(a)
      PROVE  Records(a[i], SnapAt(t, c, Len(t) - Len(a) + i),
                           SnapAt(t, c, Len(t) - Len(a) + i + 1))
  <2>1. /\ i \in 1 .. Len(all) /\ a[i] = all[i]
        /\ Len(t) - Len(a) + i = Len(sn) - Len(all) + i
        /\ Len(sn) - Len(all) + i \in 1 .. n + 1
        /\ Len(sn) - Len(all) + i + 1 \in 1 .. n + 1
    BY <1>1, <1>2, <1>3, <1>t
  <2>2. Records(all[i], SnapAt(sn, d, Len(sn) - Len(all) + i),
                        SnapAt(sn, d, Len(sn) - Len(all) + i + 1))
    BY <2>1 DEF Covers
  <2> QED BY <2>1, <2>2, <1>6
<1>8. Covers(a, t, c)
  BY <1>1, <1>2, <1>3, <1>7 DEF Covers
<1>9. Len(sn) >= 1
  BY <1>1, <1>t
<1> QED BY <1>4, <1>5, <1>8, <1>9 DEF a, t, Prefix

\* The newest delta and the database may change together.
LEMMA CoversTop ==
  ASSUME NEW all \in Seq(UndoState), NEW sn \in Seq(Databases), NEW d \in Databases,
         Covers(all, sn, d), Len(all) >= 1,
         NEW e \in UndoState, NEW f \in Databases, Records(e, sn[Len(sn)], f)
  PROVE  Covers([all EXCEPT ![Len(all)] = e], sn, f)
<1> DEFINE a == [all EXCEPT ![Len(all)] = e]
<1>t. Len(all) \in Nat /\ Len(sn) \in Nat /\ Len(all) <= Len(sn)
  BY LenProperties DEF Covers
<1>1. /\ Len(a) = Len(all)
      /\ \A i \in 1 .. Len(all) : a[i] = IF i = Len(all) THEN e ELSE all[i]
  <2>1. Len(all) \in 1 .. Len(all)
    BY <1>t
  <2> QED BY <2>1, ExceptSeq
<1> HIDE DEF a
<1>2. ASSUME NEW i \in 1 .. Len(a)
      PROVE  Records(a[i], SnapAt(sn, f, Len(sn) - Len(a) + i),
                           SnapAt(sn, f, Len(sn) - Len(a) + i + 1))
  <2>1. CASE i = Len(all)
    <3>1. Len(sn) - Len(a) + i = Len(sn) /\ Len(sn) # Len(sn) + 1
      BY <2>1, <1>1, <1>t
    <3> QED BY <2>1, <3>1, <1>1 DEF SnapAt
  <2>2. CASE i # Len(all)
    <3>1. /\ i \in 1 .. Len(all) /\ a[i] = all[i]
          /\ Len(sn) - Len(a) + i = Len(sn) - Len(all) + i
          /\ Len(sn) - Len(all) + i # Len(sn) + 1
          /\ Len(sn) - Len(all) + i + 1 # Len(sn) + 1
      BY <2>2, <1>1, <1>t
    <3>2. Records(all[i], SnapAt(sn, d, Len(sn) - Len(all) + i),
                          SnapAt(sn, d, Len(sn) - Len(all) + i + 1))
      BY <3>1 DEF Covers
    <3> QED BY <3>1, <3>2 DEF SnapAt
  <2> QED BY <2>1, <2>2
<1>3. Covers(a, sn, f)
  BY <1>t, <1>1, <1>2 DEF Covers
<1> QED BY <1>3 DEF a

\* In a concatenation the top and all below it are those of the second part.
LEMMA TopOfConcat ==
  ASSUME NEW s \in Seq(UndoState), NEW t \in Seq(UndoState), Len(t) >= 1
  PROVE  LET all == s \o t
         IN  /\ all \in Seq(UndoState) /\ Len(all) >= 1
             /\ Len(all) = Len(s) + Len(t)
             /\ all[Len(all)] = t[Len(t)]
             /\ s \o Prefix(t, Len(t) - 1) = Prefix(all, Len(all) - 1)
             /\ \A e \in UndoState :
                  s \o [t EXCEPT ![Len(t)] = e] = [all EXCEPT ![Len(all)] = e]
<1> DEFINE all == s \o t
           n == Len(t) - 1
<1>1. /\ Len(s) \in Nat /\ Len(t) \in Nat
      /\ all \in Seq(UndoState) /\ Len(all) = Len(s) + Len(t)
      /\ \A i \in 1 .. Len(s) + Len(t) :
           all[i] = IF i <= Len(s) THEN s[i] ELSE t[i - Len(s)]
  BY LenProperties, ConcatProperties
<1> HIDE DEF all
<1>2. Len(all) >= 1 /\ all[Len(all)] = t[Len(t)]
  BY <1>1
<1>3. s \o SubSeq(t, 1, n) = SubSeq(all, 1, Len(all) - 1)
  <2> DEFINE u == SubSeq(t, 1, n)
             w == SubSeq(all, 1, Len(all) - 1)
  <2>0. n \in 0 .. Len(t) /\ Len(all) - 1 \in 0 .. Len(all) /\ Len(all) - 1 = Len(s) + n
    BY <1>1
  <2>1. u \in Seq(UndoState) /\ Len(u) = n /\ \A i \in 1 .. n : u[i] = t[i]
    BY <2>0, PrefixSlice
  <2>2. /\ w \in Seq(UndoState) /\ Len(w) = Len(s) + n
        /\ \A i \in 1 .. Len(s) + n : w[i] = all[i]
    BY <2>0, <1>1, Slice
  <2> HIDE DEF u, w, n
  <2>3. /\ s \o u \in Seq(UndoState) /\ Len(s \o u) = Len(s) + Len(u)
        /\ \A i \in 1 .. Len(s) + Len(u) :
             (s \o u)[i] = IF i <= Len(s) THEN s[i] ELSE u[i - Len(s)]
    BY <2>1, ConcatProperties
  <2>4. ASSUME NEW i \in 1 .. Len(s \o u) PROVE (s \o u)[i] = w[i]
    <3>1. CASE i <= Len(s)
      BY <3>1, <1>1, <2>0, <2>1, <2>2, <2>3
    <3>2. CASE ~(i <= Len(s))
      <4>1. i - Len(s) \in 1 .. n /\ i \in 1 .. Len(s) + n /\ i \in 1 .. Len(s) + Len(t)
        BY <3>2, <1>1, <2>0, <2>1, <2>3
      <4> QED BY <3>2, <4>1, <1>1, <2>1, <2>2, <2>3
    <3> QED BY <3>1, <3>2
  <2>5. Len(s \o u) = Len(w) /\ s \o u \in Seq(UndoState) /\ w \in Seq(UndoState)
    BY <2>1, <2>2, <2>3
  <2>6. s \o u = w
    BY <2>4, <2>5, SeqEqual
  <2> QED BY <2>6 DEF u, w
<1>4. ASSUME NEW e \in UndoState
      PROVE  s \o [t EXCEPT ![Len(t)] = e] = [all EXCEPT ![Len(all)] = e]
  <2> DEFINE u == [t EXCEPT ![Len(t)] = e]
             w == [all EXCEPT ![Len(all)] = e]
  <2>0. Len(t) \in 1 .. Len(t) /\ Len(all) \in 1 .. Len(all)
    BY <1>1, <1>2
  <2>1. /\ u \in Seq(UndoState) /\ Len(u) = Len(t)
        /\ \A i \in 1 .. Len(t) : u[i] = IF i = Len(t) THEN e ELSE t[i]
    BY <2>0, ExceptSeq
  <2>2. /\ w \in Seq(UndoState) /\ Len(w) = Len(all)
        /\ \A i \in 1 .. Len(all) : w[i] = IF i = Len(all) THEN e ELSE all[i]
    BY <2>0, <1>1, ExceptSeq
  <2> HIDE DEF u, w
  <2>3. /\ s \o u \in Seq(UndoState) /\ Len(s \o u) = Len(s) + Len(u)
        /\ \A i \in 1 .. Len(s) + Len(u) :
             (s \o u)[i] = IF i <= Len(s) THEN s[i] ELSE u[i - Len(s)]
    BY <2>1, ConcatProperties
  <2>4. ASSUME NEW i \in 1 .. Len(s \o u) PROVE (s \o u)[i] = w[i]
    <3>0. i \in 1 .. Len(s) + Len(t) /\ i \in 1 .. Len(all) /\ i \in 1 .. Len(s) + Len(u)
      BY <1>1, <2>1, <2>3
    <3>1. CASE i <= Len(s)
      BY <3>0, <3>1, <1>1, <2>0, <2>2, <2>3
    <3>2. CASE ~(i <= Len(s))
      <4>1. i - Len(s) \in 1 .. Len(t) /\ (i - Len(s) = Len(t) <=> i = Len(all))
        BY <3>0, <3>2, <1>1
      <4> QED BY <3>0, <3>2, <4>1, <1>1, <2>1, <2>2, <2>3
    <3> QED BY <3>1, <3>2
  <2>5. Len(s \o u) = Len(w) /\ s \o u \in Seq(UndoState) /\ w \in Seq(UndoState)
    BY <1>1, <2>1, <2>2, <2>3
  <2>6. s \o u = w
    BY <2>4, <2>5, SeqEqual
  <2> QED BY <2>6 DEF u, w
<1> QED BY <1>1, <1>2, <1>3, <1>4 DEF all, Prefix

\* Every size given to set_max_size exceeds the length at which deltas are
\* spilled, so that a spill stores every delta it takes from memory.
LargeSizes == \A m \in MaxSizes : m > MaxBack + Slack

\* The inductive invariant: Restorable needs that memory is not overfull when a
\* session starts, and that unused ids are free (a created object cannot be one
\* that an older delta of the same session removed).
RestoreInv ==
  /\ TypeInv
  /\ Len(back) < MaxBack + Slack
  /\ WellFormed(db)
  /\ \A k \in 1 .. Len(snaps) : WellFormed(snaps[k])
  /\ Restorable

\* The newest delta leads to the newest snapshot, the others on from there.
LEMMA TopRecords ==
  ASSUME RestoreInv, back # << >> \/ active > 0
  PROVE  /\ Len(snaps) \in 1 .. Len(snaps)
         /\ WellFormed(snaps[Len(snaps)])
         /\ Records(Top, snaps[Len(snaps)], db)
         /\ Undone(Top, db) = snaps[Len(snaps)]
         /\ Covers(stack \o Prefix(back, Len(back) - 1), Prefix(snaps, Len(snaps) - 1),
                   snaps[Len(snaps)])
<1>t. /\ stack \in Seq(UndoState) /\ back \in Seq(UndoState)
      /\ snaps \in Seq(Databases) /\ db \in Databases /\ Covers(All, snaps, db)
  BY DEF RestoreInv, TypeInv, TypeOK, Restorable
<1>1. Len(back) >= 1 /\ Top \in UndoState
  BY TopType DEF RestoreInv
<1>2. /\ All \in Seq(UndoState) /\ Len(All) >= 1 /\ All[Len(All)] = Top
      /\ stack \o Prefix(back, Len(back) - 1) = Prefix(All, Len(All) - 1)
  BY <1>t, <1>1, TopOfConcat DEF All, Top
<1>3. /\ Len(snaps) >= 1 /\ snaps[Len(snaps)] \in Databases
      /\ Records(Top, snaps[Len(snaps)], db)
      /\ Covers(Prefix(All, Len(All) - 1), Prefix(snaps, Len(snaps) - 1), snaps[Len(snaps)])
  BY <1>t, <1>2, CoversPop
<1>4. Len(snaps) \in 1 .. Len(snaps)
  BY <1>3, <1>t, LenProperties
<1>5. Undone(Top, db) = snaps[Len(snaps)]
  BY <1>1, <1>3, <1>t, UndoneRestores
<1> QED BY <1>2, <1>3, <1>4, <1>5 DEF RestoreInv

\* A change of the database that the newest delta records keeps Restorable.
LEMMA ChangeKeeps ==
  ASSUME RestoreInv, active > 0, NEW e \in UndoState,
         Records(e, snaps[Len(snaps)], db'), WellFormed(db'),
         back' = ReplaceTop(e), UNCHANGED <<stack, snaps>>
  PROVE  /\ Len(back') < MaxBack + Slack
         /\ \A k \in 1 .. Len(snaps') : WellFormed(snaps'[k])
         /\ Restorable'
<1>t. /\ stack \in Seq(UndoState) /\ back \in Seq(UndoState)
      /\ snaps \in Seq(Databases) /\ db \in Databases /\ Covers(All, snaps, db)
      /\ db' \in Databases
  BY DEF RestoreInv, TypeInv, TypeOK, Restorable, WellFormed
<1>1. Len(back) >= 1 /\ Len(ReplaceTop(e)) = Len(back)
  BY TopType DEF RestoreInv
<1>2. /\ All \in Seq(UndoState) /\ Len(All) >= 1
      /\ stack \o ReplaceTop(e) = [All EXCEPT ![Len(All)] = e]
  BY <1>t, <1>1, TopOfConcat DEF All, ReplaceTop
<1>3. Covers([All EXCEPT ![Len(All)] = e], snaps, db')
  BY <1>t, <1>2, CoversTop
<1>4. Restorable'
  BY <1>2, <1>3 DEF Restorable, All
<1> QED BY <1>1, <1>4 DEF RestoreInv

\* A prefix of the snapshots is well formed.
LEMMA SnapsPrefix ==
  ASSUME RestoreInv, Len(snaps) >= 1
  PROVE  LET t == Prefix(snaps, Len(snaps) - 1)
         IN  t \in Seq(Databases) /\ \A k \in 1 .. Len(t) : WellFormed(t[k])
<1> DEFINE n == Len(snaps) - 1
<1>1. /\ snaps \in Seq(Databases) /\ Len(snaps) \in Nat
      /\ n \in 0 .. Len(snaps) /\ 1 .. n \subseteq 1 .. Len(snaps)
  BY LenProperties DEF RestoreInv, TypeInv, TypeOK
<1> HIDE DEF n
<1>2. /\ SubSeq(snaps, 1, n) \in Seq(Databases) /\ Len(SubSeq(snaps, 1, n)) = n
      /\ \A k \in 1 .. n : SubSeq(snaps, 1, n)[k] = snaps[k]
  BY <1>1, PrefixSlice
<1>3. \A k \in 1 .. n : WellFormed(SubSeq(snaps, 1, n)[k])
  BY <1>1, <1>2 DEF RestoreInv
<1> QED BY <1>2, <1>3 DEF Prefix, n

\* Undoing the newest delta keeps the invariant, and restores the newest
\* snapshot.
LEMMA RollbackKeeps ==
  ASSUME RestoreInv, back # << >>, Rollback, ~failed'
  PROVE  /\ Len(back') < MaxBack + Slack /\ WellFormed(db')
         /\ \A k \in 1 .. Len(snaps') : WellFormed(snaps'[k])
         /\ Restorable'
         /\ Len(snaps) >= 1 /\ db' = snaps[Len(snaps)]
         /\ snaps' = Prefix(snaps, Len(snaps) - 1)
<1> DEFINE b == Prefix(back, Len(back) - 1)
<1>1. db' = Undone(Top, db) /\ Refilled(b) /\ snaps' = Prefix(snaps, Len(snaps) - 1)
  BY DEF Rollback
<1>2. /\ Len(snaps) \in 1 .. Len(snaps) /\ WellFormed(snaps[Len(snaps)])
      /\ Undone(Top, db) = snaps[Len(snaps)]
      /\ Covers(stack \o b, Prefix(snaps, Len(snaps) - 1), snaps[Len(snaps)])
  BY TopRecords
<1>3. b \in Seq(UndoState) /\ Len(b) = Len(back) - 1 /\ Len(back) \in Nat
  BY TopType DEF RestoreInv
<1> HIDE DEF b
<1>4. /\ stack' \o back' = stack \o b
      /\ Len(b) < MaxBack + Slack => Len(back') < MaxBack + Slack
  BY <1>1, <1>3, RefillShape DEF RestoreInv, TypeInv
<1>5. Len(b) < MaxBack + Slack
  BY <1>3, ConstantsAssumption DEF RestoreInv
<1>6. Len(snaps) >= 1
  BY <1>2
<1>7. Restorable'
  BY <1>1, <1>2, <1>4 DEF Restorable, All
<1>8. \A k \in 1 .. Len(snaps') : WellFormed(snaps'[k])
  BY <1>1, <1>6, SnapsPrefix
<1> QED BY <1>1, <1>2, <1>4, <1>5, <1>6, <1>7, <1>8

\* Merging the newest delta into the one below it keeps the invariant.
LEMMA MergeKeeps ==
  ASSUME RestoreInv, merge, ~failed'
  PROVE  /\ Len(back') < MaxBack + Slack
         /\ \A k \in 1 .. Len(snaps') : WellFormed(snaps'[k])
         /\ Restorable'
         /\ Len(snaps) >= 2 /\ snaps' = Prefix(snaps, Len(snaps) - 1)
<1> DEFINE n == Len(back) - 1
           b == Prefix(back, n)
           f == merge_states(b[Len(b)], Top)
           c == [b EXCEPT ![Len(b)] = f]
           sn == Prefix(snaps, Len(snaps) - 1)
           m == snaps[Len(snaps)]
<1>1. /\ Len(back) >= 2 /\ Refilled(c) /\ snaps' = sn /\ db' = db /\ active > 1
  BY DEF merge
<1>2. /\ b \in Seq(UndoState) /\ Len(b) = n /\ Len(back) \in Nat /\ Top \in UndoState
  BY <1>1, TopType DEF RestoreInv, TypeInv
<1>3. /\ Len(snaps) \in 1 .. Len(snaps) /\ WellFormed(m)
      /\ Records(Top, m, db) /\ Covers(stack \o b, sn, m)
  BY <1>1, TopRecords DEF RestoreInv, TypeInv, TypeOK
<1>4. Len(b) >= 1 /\ Len(b) \in 1 .. Len(b) /\ Len(snaps) >= 1
  BY <1>1, <1>2, <1>3
<1>5. /\ sn \in Seq(Databases) /\ \A k \in 1 .. Len(sn) : WellFormed(sn[k])
  BY <1>4, SnapsPrefix
<1>t. /\ stack \in Seq(UndoState) /\ db \in Databases /\ m \in Databases
      /\ WellFormed(db) /\ Len(snaps) \in Nat /\ snaps \in Seq(Databases)
  BY <1>3, LenProperties DEF RestoreInv, TypeInv, TypeOK, WellFormed
<1> HIDE DEF b, sn, m
<1>6. /\ stack \o b \in Seq(UndoState) /\ Len(stack \o b) >= 1
      /\ (stack \o b)[Len(stack \o b)] = b[Len(b)]
      /\ \A e \in UndoState :
           stack \o [b EXCEPT ![Len(b)] = e] = [stack \o b EXCEPT ![Len(stack \o b)] = e]
  BY <1>2, <1>4, <1>t, TopOfConcat
<1>7. /\ Len(sn) >= 1 /\ sn[Len(sn)] \in Databases
      /\ Records(b[Len(b)], sn[Len(sn)], m)
  BY <1>3, <1>5, <1>6, <1>t, CoversPop
<1>8. WellFormed(sn[Len(sn)]) /\ b[Len(b)] \in UndoState
  BY <1>2, <1>4, <1>5, <1>7, LenProperties, ElementOfSeq
<1>9. f \in UndoState /\ Records(f, sn[Len(sn)], db)
  BY <1>2, <1>3, <1>7, <1>8, <1>t, MergeRecords
<1> HIDE DEF f
<1>10. Covers([stack \o b EXCEPT ![Len(stack \o b)] = f], sn, db)
  BY <1>3, <1>5, <1>6, <1>9, <1>t, CoversTop
<1>11. Covers(stack \o c, sn, db)
  BY <1>6, <1>9, <1>10
<1>12. c \in Seq(UndoState) /\ Len(c) = Len(b)
  BY <1>2, <1>4, <1>9, ExceptSeq
<1> HIDE DEF c
<1>13. /\ stack' \o back' = stack \o c
       /\ Len(c) < MaxBack + Slack => Len(back') < MaxBack + Slack
  BY <1>1, <1>12, RefillShape DEF RestoreInv, TypeInv
<1>14. Len(c) < MaxBack + Slack
  BY <1>2, <1>12, ConstantsAssumption DEF RestoreInv
<1>15. Restorable'
  BY <1>1, <1>11, <1>13 DEF Restorable, All
<1>16. Len(snaps) >= 2
  <2>1. Len(sn) = Len(snaps) - 1
    <3>1. Len(snaps) - 1 \in 0 .. Len(snaps)
      BY <1>4, <1>t
    <3> QED BY <3>1, <1>t, PrefixSlice DEF sn, Prefix
  <2> QED BY <2>1, <1>7, <1>t
<1> QED BY <1>1, <1>5, <1>13, <1>14, <1>15, <1>16 DEF sn

\* Every step keeps the invariant.
LEMMA RestoreInvStep ==
  ASSUME LargeSizes, RestoreInv, Next
  PROVE  RestoreInv'
<1> DEFINE Kept == /\ Len(back') < MaxBack + Slack /\ WellFormed(db')
                   /\ \A k \in 1 .. Len(snaps') : WellFormed(snaps'[k])
                   /\ Restorable'
<1>a. TypeInv'
  BY TypeInvStep DEF RestoreInv
<1> SUFFICES Kept
  BY <1>a DEF RestoreInv
<1>b. UNCHANGED <<db, back, stack, snaps>> => Kept
  BY DEF RestoreInv, Restorable, All
<1>c. ~failed /\ WellFormed(db)
  BY DEF Next, RestoreInv
<1>1. ASSUME NEW m \in MaxSizes, set_max_size(m) PROVE Kept
  BY <1>1, <1>b DEF set_max_size
<1>2. CASE start_undo_session
  <2> DEFINE a == Append(stack \o back, EmptyState)
             t == Append(snaps, db)
  <2>t. /\ stack \in Seq(UndoState) /\ back \in Seq(UndoState) /\ EmptyState \in UndoState
        /\ snaps \in Seq(Databases) /\ db \in Databases /\ Len(snaps) \in Nat
        /\ max_size > MaxBack + Slack /\ Len(back) < MaxBack + Slack
    BY EmptyRecords, LenProperties DEF RestoreInv, TypeInv, TypeOK, LargeSizes
  <2>1. db' = db /\ snaps' = t
    BY <1>2 DEF start_undo_session
  <2>2. /\ Len(back') < MaxBack + Slack
        /\ \E k \in 0 .. Len(a) : stack' \o back' = SubSeq(a, k + 1, Len(a))
    BY <1>2, <2>t, StartShape DEF RestoreInv, TypeInv
  <2>3. stack \o back \in Seq(UndoState)
    BY <2>t, ConcatProperties
  <2>4. a \in Seq(UndoState)
    BY <2>3, <2>t, AppendProperties
  <2>5. /\ t \in Seq(Databases) /\ Len(t) = Len(snaps) + 1
        /\ t[Len(snaps) + 1] = db /\ \A k \in 1 .. Len(snaps) : t[k] = snaps[k]
    BY <2>t, AppendProperties
  <2>6. Covers(a, t, db)
    BY <2>3, <2>t, CoversPush DEF RestoreInv, Restorable, All
  <2> HIDE DEF a, t
  <2>7. Covers(stack' \o back', t, db)
    BY <2>2, <2>4, <2>5, <2>6, <2>t, CoversSuffix
  <2>8. ASSUME NEW k \in 1 .. Len(t) PROVE WellFormed(t[k])
    <3>1. CASE k = Len(snaps) + 1
      BY <3>1, <2>5, <1>c
    <3>2. CASE k # Len(snaps) + 1
      <4>1. k \in 1 .. Len(snaps)
        BY <3>2, <2>5, <2>t
      <4> QED BY <4>1, <2>5 DEF RestoreInv
    <3> QED BY <3>1, <3>2
  <2> QED BY <2>1, <2>2, <2>7, <2>8, <1>c DEF Restorable, All
<1>3. ASSUME NEW v \in Vals, create(v) PROVE Kept
  <2>1. /\ WellFormed(snaps[Len(snaps)]) /\ Records(Top, snaps[Len(snaps)], db)
        /\ Top \in UndoState
    BY <1>3, TopRecords, TopType DEF create, RestoreInv
  <2>2. /\ on_create(Top, db.next) \in UndoState /\ WellFormed(db')
        /\ Records(on_create(Top, db.next), snaps[Len(snaps)], db')
    BY <1>3, <1>c, <2>1, CreateRecords DEF create
  <2> QED BY <1>3, <2>2, ChangeKeeps DEF create
<1>4. ASSUME NEW i \in Ids, NEW v \in Vals, modify(i, v) PROVE Kept
  <2>1. /\ WellFormed(snaps[Len(snaps)]) /\ Records(Top, snaps[Len(snaps)], db)
        /\ Top \in UndoState
    BY <1>4, TopRecords, TopType DEF modify, RestoreInv
  <2>2. /\ on_modify(Top, i, db.objs[i]) \in UndoState /\ WellFormed(db')
        /\ Records(on_modify(Top, i, db.objs[i]), snaps[Len(snaps)], db')
    BY <1>4, <1>c, <2>1, ModifyRecords DEF modify
  <2> QED BY <1>4, <2>2, ChangeKeeps DEF modify
<1>5. ASSUME NEW i \in Ids, remove(i) PROVE Kept
  <2>1. /\ WellFormed(snaps[Len(snaps)]) /\ Records(Top, snaps[Len(snaps)], db)
        /\ Top \in UndoState
    BY <1>5, TopRecords, TopType DEF remove, RestoreInv
  <2>2. /\ on_remove(Top, i, db.objs[i]) \in UndoState /\ WellFormed(db')
        /\ Records(on_remove(Top, i, db.objs[i]), snaps[Len(snaps)], db')
    BY <1>5, <1>c, <2>1, RemoveRecords DEF remove
  <2> QED BY <1>5, <2>2, ChangeKeeps DEF remove
<1>6. CASE update_head
  <2>0. active > 0
    BY <1>6 DEF update_head
  <2>1. /\ WellFormed(snaps[Len(snaps)]) /\ Records(Top, snaps[Len(snaps)], db)
        /\ Top \in UndoState
    BY <2>0, TopRecords, TopType DEF RestoreInv
  <2>2. /\ on_modify_head(Top, db.head) \in UndoState /\ WellFormed(db')
        /\ Records(on_modify_head(Top, db.head), snaps[Len(snaps)], db')
    BY <1>6, <1>c, <2>1, HeadRecords DEF update_head
  <2> QED BY <1>6, <2>0, <2>2, ChangeKeeps DEF update_head
<1>7. ASSUME back # << >>, Rollback PROVE Kept
  <2>1. CASE failed'
    BY <1>7, <2>1, <1>b, <1>c DEF Rollback
  <2>2. CASE ~failed'
    BY <1>7, <2>2, RollbackKeeps
  <2> QED BY <2>1, <2>2
<1>8. CASE undo
  BY <1>8, <1>7 DEF undo
<1>9. CASE merge
  <2>1. CASE failed'
    BY <1>9, <2>1, <1>b, <1>c DEF merge
  <2>2. CASE ~failed'
    <3>1. db' = db
      BY <1>9 DEF merge
    <3> QED BY <1>9, <2>2, <3>1, <1>c, MergeKeeps
  <2> QED BY <2>1, <2>2
<1>10. CASE commit
  BY <1>10, <1>b DEF commit
<1>11. CASE pop_commit
  BY <1>11, <1>7 DEF pop_commit
<1>12. CASE restart
  <2>1. db' = db /\ snaps' = snaps
    BY <1>12 DEF restart
  <2>2. CASE failed'
    BY <1>12, <2>1, <2>2, <1>b, <1>c DEF restart
  <2>3. CASE ~failed'
    <3>1. Len(back') < MaxBack + Slack /\ stack' \o back' = stack \o back
      BY <1>12, <2>3, RestartShape DEF RestoreInv, TypeInv
    <3> QED BY <2>1, <3>1 DEF RestoreInv, Restorable, All
  <2> QED BY <2>2, <2>3
<1> QED BY <1>1, <1>2, <1>3, <1>4, <1>5, <1>6, <1>8, <1>9, <1>10, <1>11, <1>12
        DEF Next, Step

\* So does a step that leaves everything alone.
LEMMA RestoreInvNext ==
  ASSUME LargeSizes
  PROVE  RestoreInv /\ [Next]_vars => RestoreInv'
<1>1. ASSUME RestoreInv, UNCHANGED vars PROVE RestoreInv'
  BY <1>1 DEF vars, RestoreInv, TypeInv, TypeOK, Restorable, All
<1> QED BY <1>1, RestoreInvStep

\* The invariant holds at first.
LEMMA RestoreInvInit == Init => RestoreInv
<1> SUFFICES ASSUME Init PROVE RestoreInv
  OBVIOUS
<1>1. TypeInv
  BY TypeInvInit
<1>2. Len(back) = 0 /\ Len(stack) = 0 /\ Len(snaps) = 0 /\ All = << >>
  BY EmptySeq, ConcatEmptySeq DEF Init, All
<1>3. Len(back) < MaxBack + Slack
  BY <1>2, ConstantsAssumption
<1>4. WellFormed(db)
  BY <1>1 DEF TypeInv, TypeOK, WellFormed, Init, Nothing
<1>5. Restorable
  BY <1>2 DEF Restorable, Covers
<1> QED BY <1>1, <1>2, <1>3, <1>4, <1>5 DEF RestoreInv

\* If every size given to set_max_size exceeds the spill length, the deltas
\* the undo database retains always lead back, one session after the other and
\* without a gap, through the databases the newest sessions started from:
\* pop_commit and undo restore exactly what the block or transaction found.
\* The sizes the code uses are 1440, which satisfies the condition, and 20,
\* which does not.
THEOREM RetainedDeltasRestore == LargeSizes => (Spec => []Restorable)
<1> SUFFICES ASSUME LargeSizes PROVE Spec => []Restorable
  OBVIOUS
<1>1. RestoreInv /\ [Next]_vars => RestoreInv'
  BY RestoreInvNext
<1>2. RestoreInv => Restorable
  BY DEF RestoreInv
<1> QED BY <1>1, <1>2, RestoreInvInit, PTL DEF Spec

\* Under the same condition the undo database implements the stack of full
\* snapshots: every step of it is one of SnapshotStack or leaves the database
\* and the snapshots alone.
THEOREM Refinement == LargeSizes => (Spec => ImplementsSnapshots)
<1> SUFFICES ASSUME LargeSizes PROVE Spec => ImplementsSnapshots
  OBVIOUS
<1>1. Init => Snapshots!Init
  BY RestoreInvInit DEF Init, Snapshots!Init, RestoreInv, TypeInv, TypeOK
<1>2. RestoreInv /\ [Next]_vars => RestoreInv'
  BY RestoreInvNext
<1>3. RestoreInv /\ RestoreInv' /\ [Next]_vars => [Snapshots!Next]_<<db, snaps>>
  <2> SUFFICES ASSUME RestoreInv, RestoreInv', Next
               PROVE  [Snapshots!Next]_<<db, snaps>>
    BY DEF vars
  <2>t. /\ db' \in Databases /\ ~failed /\ snaps \in Seq(Databases)
    BY DEF RestoreInv, TypeInv, TypeOK, Next
  <2>a. (active > 0 \/ back # << >>) => snaps # << >>
    BY <2>t, TopRecords, EmptySeq
  <2>1. ASSUME back # << >>, Rollback PROVE [Snapshots!Next]_<<db, snaps>>
    <3>1. CASE failed'
      BY <2>1, <3>1, <2>t DEF Rollback
    <3>2. CASE ~failed'
      BY <2>1, <3>2, <2>a, RollbackKeeps DEF Snapshots!Next, Snapshots!Rollback, Prefix
    <3> QED BY <3>1, <3>2
  <2>2. CASE start_undo_session
    BY <2>2 DEF start_undo_session, Snapshots!Next, Snapshots!Begin
  <2>3. ASSUME active > 0, snaps' = snaps PROVE [Snapshots!Next]_<<db, snaps>>
    BY <2>3, <2>a, <2>t DEF Snapshots!Next, Snapshots!Change
  <2>4. CASE merge
    <3>1. CASE failed'
      BY <2>4, <3>1, <2>t DEF merge
    <3>2. CASE ~failed'
      <4>1. db' = db
        BY <2>4 DEF merge
      <4> QED BY <2>4, <3>2, <4>1, MergeKeeps DEF Snapshots!Next, Snapshots!Merge, Prefix
    <3> QED BY <3>1, <3>2
  <2>5. CASE undo
    BY <2>5, <2>1 DEF undo
  <2>6. CASE pop_commit
    BY <2>6, <2>1 DEF pop_commit
  <2>7. CASE commit
    BY <2>7 DEF commit
  <2>8. CASE restart
    BY <2>8 DEF restart
  <2>9. ASSUME NEW m \in MaxSizes, set_max_size(m) PROVE [Snapshots!Next]_<<db, snaps>>
    BY <2>9 DEF set_max_size
  <2>10. ASSUME NEW v \in Vals, create(v) PROVE [Snapshots!Next]_<<db, snaps>>
    BY <2>10, <2>3 DEF create
  <2>11. ASSUME NEW i \in Ids, NEW v \in Vals, modify(i, v)
         PROVE  [Snapshots!Next]_<<db, snaps>>
    BY <2>11, <2>3 DEF modify
  <2>12. ASSUME NEW i \in Ids, remove(i) PROVE [Snapshots!Next]_<<db, snaps>>
    BY <2>12, <2>3 DEF remove
  <2>13. CASE update_head
    BY <2>13, <2>3 DEF update_head
  <2> QED BY <2>2, <2>4, <2>5, <2>6, <2>7, <2>8, <2>9, <2>10, <2>11, <2>12, <2>13
          DEF Next, Step
<1> QED BY <1>1, <1>2, <1>3, RestoreInvInit, PTL DEF Spec, ImplementsSnapshots, Snapshots!Spec

\* Under the same condition pop_block does what its comment says: popping the
\* newest committed session restores the database it started from.
THEOREM PopRestores == LargeSizes => (Spec => PopUndoesBlock)
<1> SUFFICES ASSUME LargeSizes PROVE Spec => PopUndoesBlock
  OBVIOUS
<1> DEFINE Pops == active = 0 /\ Len(snaps') < Len(snaps)
<1>1. RestoreInv /\ [Next]_vars => RestoreInv'
  BY RestoreInvNext
<1>2. RestoreInv /\ [Next]_vars => [Pops => db' = snaps[Len(snaps)]]_vars
  <2> SUFFICES ASSUME RestoreInv, Next, Pops PROVE db' = snaps[Len(snaps)]
    OBVIOUS
  <2>t. /\ snaps \in Seq(Databases) /\ Len(snaps) \in Nat /\ db \in Databases /\ ~failed
    BY LenProperties DEF RestoreInv, TypeInv, TypeOK, Next
  <2>1. snaps' # snaps /\ snaps' # Append(snaps, db)
    <3>1. Len(Append(snaps, db)) = Len(snaps) + 1
      BY <2>t, AppendProperties
    <3> QED BY <3>1, <2>t
  <2>2. pop_commit
    <3>1. active = 0 /\ Step
      BY DEF Next
    <3>2. ~start_undo_session /\ ~undo /\ ~merge /\ ~update_head /\ ~commit /\ ~restart
      BY <2>1, <3>1, <2>t DEF start_undo_session, undo, merge, update_head, commit, restart
    <3>3. \A m \in MaxSizes : ~set_max_size(m)
      BY <2>1 DEF set_max_size
    <3>4. \A v \in Vals : ~create(v) /\ \A i \in Ids : ~modify(i, v)
      BY <2>1 DEF create, modify
    <3>5. \A i \in Ids : ~remove(i)
      BY <2>1 DEF remove
    <3> QED BY <3>1, <3>2, <3>3, <3>4, <3>5 DEF Step
  <2>3. back # << >> /\ Rollback
    BY <2>2 DEF pop_commit
  <2>4. ~failed'
    BY <2>1, <2>3, <2>t DEF Rollback
  <2> QED BY <2>3, <2>4, RollbackKeeps
<1> QED BY <1>1, <1>2, RestoreInvInit, PTL DEF Spec, PopUndoesBlock

-----------------------------------------------------------------------------
(* The store.                                                               *)

\* Every committed delta holds the head block number its session started
\* with; along the deltas these numbers grow, and none has reached that of the
\* database.  The newest n deltas are of sessions that are still open.
HeadOrder(all, d, n) ==
  /\ \A i, j \in 1 .. Len(all) :
       i < j /\ all[i].head # None /\ all[j].head # None => all[i].head < all[j].head
  /\ \A i \in 1 .. Len(all) : all[i].head # None => all[i].head < d.head
  /\ \A i \in 1 .. Len(all) - n : all[i].head # None

Distinct(s) == \A i, j \in 1 .. Len(s) : s[i] = s[j] => i = j

\* The inductive invariant for the store: a key is stored once because no two
\* committed deltas are equal.
StoreInv == TypeInv /\ HeadOrder(All, db, active) /\ StorageExact

\* What is left of a sequence from a place on.
LEMMA SuffixSlice ==
  ASSUME NEW S, NEW s \in Seq(S), NEW k \in 0 .. Len(s)
  PROVE  LET q == SubSeq(s, k + 1, Len(s))
         IN  /\ q \in Seq(S) /\ Len(q) = Len(s) - k /\ Len(s) - k \in Nat
             /\ \A i \in 1 .. Len(s) - k : q[i] = s[k + i]
<1> DEFINE q == SubSeq(s, k + 1, Len(s))
<1>0. Len(s) \in Nat /\ k \in Nat /\ k + 1 \in 1 .. Len(s) + 1
      /\ Len(s) \in 0 .. Len(s)
  BY LenProperties
<1>1. /\ q \in Seq(S)
      /\ Len(q) = IF k + 1 <= Len(s) THEN Len(s) - (k + 1) + 1 ELSE 0
      /\ \A i \in 1 .. Len(s) - (k + 1) + 1 : q[i] = s[(k + 1) + i - 1]
  BY <1>0, Slice
<1> HIDE DEF q
<1>2. Len(q) = Len(s) - k
  <2>1. Len(q) = IF k + 1 <= Len(s) THEN Len(s) - (k + 1) + 1 ELSE 0
    BY <1>1
  <2>2. Len(s) \in Nat /\ k \in Nat /\ k <= Len(s)
    BY <1>0
  <2> QED BY ONLY <2>1, <2>2
<1>3. ASSUME NEW i \in 1 .. Len(s) - k PROVE q[i] = s[k + i]
  <2>1. i \in 1 .. Len(s) - (k + 1) + 1 /\ (k + 1) + i - 1 = k + i
    BY <1>0
  <2>2. q[i] = s[(k + 1) + i - 1]
    BY <1>1, <2>1
  <2> QED BY <2>1, <2>2
<1>4. Len(s) - k \in Nat
  BY <1>0
<1> QED BY <1>1, <1>2, <1>3, <1>4 DEF q

\* A sequence without repetition has as many elements as places.
LEMMA DistinctCount ==
  ASSUME NEW S, NEW s \in Seq(S), Distinct(s)
  PROVE  Cardinality(Elements(s)) = Len(s)
<1>1. Len(s) \in Nat /\ DOMAIN s = 1 .. Len(s) /\ s \in [1 .. Len(s) -> S]
  BY LenProperties
<1>2. s \in [1 .. Len(s) -> Elements(s)]
  BY <1>1 DEF Elements
<1>3. \A a, b \in 1 .. Len(s) : s[a] = s[b] => a = b
  BY DEF Distinct
<1>4. s \in Injection(1 .. Len(s), Elements(s))
  BY <1>1, <1>2, <1>3 DEF Injection, IsInjective
<1>5. s \in Surjection(1 .. Len(s), Elements(s))
  BY <1>1, <1>2 DEF Surjection, Elements
<1>6. ExistsBijection(1 .. Len(s), Elements(s))
  BY <1>4, <1>5 DEF ExistsBijection, Bijection
<1> QED BY <1>1, <1>6, FS_CountingElements

\* A sequence without repetition cut in two.
LEMMA DistinctCut ==
  ASSUME NEW S, NEW s \in Seq(S), Distinct(s), NEW k \in 0 .. Len(s)
  PROVE  LET p == SubSeq(s, 1, k)
             q == SubSeq(s, k + 1, Len(s))
         IN  /\ Distinct(p) /\ Distinct(q)
             /\ Elements(p) = Elements(s) \ Elements(q)
             /\ Elements(q) = Elements(s) \ Elements(p)
             /\ Elements(p) \subseteq Elements(s) /\ Elements(q) \subseteq Elements(s)
<1> DEFINE p == SubSeq(s, 1, k)
           q == SubSeq(s, k + 1, Len(s))
<1>0. Len(s) \in Nat /\ DOMAIN s = 1 .. Len(s) /\ k \in Nat /\ k + 1 \in 1 .. Len(s) + 1
      /\ Len(s) \in 0 .. Len(s)
  BY LenProperties
<1>1. p \in Seq(S) /\ Len(p) = k /\ \A i \in 1 .. k : p[i] = s[i]
  BY <1>0, PrefixSlice
<1>2. q \in Seq(S) /\ Len(q) = Len(s) - k /\ \A i \in 1 .. Len(s) - k : q[i] = s[k + i]
  BY SuffixSlice
<1>3. DOMAIN p = 1 .. k /\ DOMAIN q = 1 .. Len(s) - k
  BY <1>1, <1>2, LenProperties
<1> HIDE DEF p, q
<1>4. Elements(p) = {s[i] : i \in 1 .. k}
  BY <1>1, <1>3 DEF Elements
<1>5. Elements(q) = {s[i] : i \in k + 1 .. Len(s)}
  <2>1. ASSUME NEW x \in Elements(q) PROVE x \in {s[i] : i \in k + 1 .. Len(s)}
    <3>1. PICK i \in 1 .. Len(s) - k : x = q[i]
      BY <1>3 DEF Elements
    <3>2. x = s[k + i] /\ k + i \in k + 1 .. Len(s)
      BY <3>1, <1>0, <1>2
    <3> QED BY <3>2
  <2>2. ASSUME NEW j \in k + 1 .. Len(s) PROVE s[j] \in Elements(q)
    <3>1. j - k \in 1 .. Len(s) - k /\ k + (j - k) = j
      BY <1>0
    <3>2. s[j] = q[j - k]
      BY <3>1, <1>2
    <3> QED BY <3>1, <3>2, <1>3 DEF Elements
  <2> QED BY <2>1, <2>2
<1>6. Elements(s) = {s[i] : i \in 1 .. Len(s)}
  BY <1>0 DEF Elements
<1>7. \A i \in 1 .. k, j \in k + 1 .. Len(s) : i \in 1 .. Len(s) /\ j \in 1 .. Len(s) /\ s[i] # s[j]
  BY <1>0 DEF Distinct
<1>8. \A i \in 1 .. Len(s) : i \in 1 .. k \/ i \in k + 1 .. Len(s)
  BY <1>0
<1>9. Elements(p) = Elements(s) \ Elements(q) /\ Elements(q) = Elements(s) \ Elements(p)
  BY <1>4, <1>5, <1>6, <1>7, <1>8
<1>10. Distinct(p)
  BY <1>0, <1>1 DEF Distinct
<1>11. Distinct(q)
  <2> SUFFICES ASSUME NEW i \in 1 .. Len(s) - k, NEW j \in 1 .. Len(s) - k, q[i] = q[j]
               PROVE  i = j
    BY <1>2 DEF Distinct
  <2>0. k + i \in 1 .. Len(s) /\ k + j \in 1 .. Len(s)
    BY <1>0
  <2>1. s[k + i] = s[k + j]
    BY <1>2
  <2>2. k + i = k + j
    BY <2>0, <2>1 DEF Distinct
  <2> QED BY <2>2, <1>0
<1> QED BY <1>9, <1>10, <1>11 DEF p, q

\* The elements of two sequences put together.
LEMMA ConcatElements ==
  ASSUME NEW T, NEW s \in Seq(T), NEW t \in Seq(T)
  PROVE  Elements(s \o t) = Elements(s) \cup Elements(t)
<1> DEFINE S == Len(s)
           O == Len(t)
           u == s \o t
<1>1. /\ S \in Nat /\ O \in Nat /\ Len(u) = S + O
      /\ \A i \in 1 .. S + O : u[i] = IF i <= S THEN s[i] ELSE t[i - S]
      /\ DOMAIN u = 1 .. S + O /\ DOMAIN s = 1 .. S /\ DOMAIN t = 1 .. O
  BY ConcatProperties, LenProperties
<1> HIDE DEF S, O, u
<1>2. ASSUME NEW y \in Elements(u) PROVE y \in Elements(s) \cup Elements(t)
  <2>1. PICK i \in 1 .. S + O : y = u[i]
    BY <1>1 DEF Elements
  <2>2. i <= S => i \in 1 .. S /\ y = s[i]
    BY <2>1, <1>1
  <2>3. ~(i <= S) => i - S \in 1 .. O /\ y = t[i - S]
    BY <2>1, <1>1
  <2> QED BY <2>2, <2>3, <1>1 DEF Elements
<1>3. ASSUME NEW i \in 1 .. S PROVE s[i] \in Elements(u)
  <2>1. i \in 1 .. S + O /\ u[i] = s[i]
    BY <1>1
  <2> QED BY <2>1, <1>1 DEF Elements
<1>4. ASSUME NEW i \in 1 .. O PROVE t[i] \in Elements(u)
  <2> DEFINE j == S + i
  <2>1. j \in 1 .. S + O /\ ~(j <= S) /\ j - S = i
    BY <1>1
  <2> HIDE DEF j
  <2>2. u[j] = t[i]
    BY <2>1, <1>1
  <2> QED BY <2>1, <2>2, <1>1 DEF Elements
<1>5. Elements(s) \subseteq Elements(u) /\ Elements(t) \subseteq Elements(u)
  BY <1>1, <1>3, <1>4 DEF Elements
<1> QED BY <1>2, <1>5 DEF u

\* The committed deltas are distinct.
LEMMA CommittedDistinct ==
  ASSUME NEW all \in Seq(UndoState), NEW d \in Databases, NEW n \in Nat,
         HeadOrder(all, d, n), NEW k \in 0 .. Len(all), k <= Len(all) - n
  PROVE  \A i, j \in 1 .. k : all[i] = all[j] => i = j
<1> SUFFICES ASSUME NEW i \in 1 .. k, NEW j \in 1 .. k, all[i] = all[j], i < j
             PROVE  FALSE
  BY LenProperties
<1>1. Len(all) \in Nat
  BY LenProperties
<1>2. i \in 1 .. Len(all) - n /\ j \in 1 .. Len(all) - n
      /\ i \in 1 .. Len(all) /\ j \in 1 .. Len(all)
  BY <1>1
<1>3. all[i].head # None /\ all[j].head # None /\ all[i].head < all[j].head
  BY <1>2 DEF HeadOrder
<1>4. all[i] \in UndoState
  BY <1>2, ElementOfSeq
<1>5. all[i].head \in Nat
  BY <1>3, <1>4, ConstantsAssumption DEF UndoState
<1> QED BY <1>3, <1>5

LEMMA HeadType ==
  ASSUME NEW all \in Seq(UndoState)
  PROVE  \A i \in 1 .. Len(all) : all[i].head # None => all[i].head \in Nat
<1> SUFFICES ASSUME NEW i \in 1 .. Len(all), all[i].head # None PROVE all[i].head \in Nat
  OBVIOUS
<1>1. all[i] \in UndoState
  BY ElementOfSeq
<1> QED BY <1>1, ConstantsAssumption DEF UndoState

\* Deltas may be dropped anywhere.
LEMMA HeadOrderSub ==
  ASSUME NEW all, NEW part, NEW d, NEW n \in Nat, NEW m \in Nat,
         Len(all) \in Nat, Len(part) \in Nat, HeadOrder(all, d, n),
         NEW g \in [1 .. Len(part) -> 1 .. Len(all)],
         \A i, j \in 1 .. Len(part) : i < j => g[i] < g[j],
         \A i \in 1 .. Len(part) : part[i] = all[g[i]],
         \A i \in 1 .. Len(part) - m : g[i] <= Len(all) - n
  PROVE  HeadOrder(part, d, m)
<1>1. ASSUME NEW i \in 1 .. Len(part), NEW j \in 1 .. Len(part), i < j,
             part[i].head # None, part[j].head # None
      PROVE  part[i].head < part[j].head
  <2>1. g[i] \in 1 .. Len(all) /\ g[j] \in 1 .. Len(all) /\ g[i] < g[j]
    BY <1>1
  <2>2. all[g[i]].head # None /\ all[g[j]].head # None
    BY <1>1
  <2>3. all[g[i]].head < all[g[j]].head
    BY <2>1, <2>2 DEF HeadOrder
  <2> QED BY <2>3
<1>2. ASSUME NEW i \in 1 .. Len(part), part[i].head # None PROVE part[i].head < d.head
  BY <1>2 DEF HeadOrder
<1>3. ASSUME NEW i \in 1 .. Len(part) - m PROVE part[i].head # None
  <2>1. i \in 1 .. Len(part)
    OBVIOUS
  <2>2. g[i] \in 1 .. Len(all) - n
    BY <2>1
  <2>3. all[g[i]].head # None
    BY <2>2 DEF HeadOrder
  <2> QED BY <2>1, <2>3
<1> QED BY <1>1, <1>2, <1>3 DEF HeadOrder

\* A change made in the newest session, which is open.
LEMMA HeadOrderTop ==
  ASSUME NEW all \in Seq(UndoState), NEW d \in Databases, NEW n \in Nat \ {0},
         Len(all) >= 1, HeadOrder(all, d, n), NEW e \in UndoState, NEW c \in Databases,
         \/ e.head = all[Len(all)].head /\ c.head >= d.head
         \/ all[Len(all)].head = None /\ e.head = d.head /\ c.head > d.head
  PROVE  HeadOrder([all EXCEPT ![Len(all)] = e], c, n)
<1> DEFINE p == [all EXCEPT ![Len(all)] = e]
           L == Len(all)
<1>1. L \in Nat \ {0} /\ DOMAIN all = 1 .. L
  BY LenProperties
<1>2. /\ p \in Seq(UndoState) /\ Len(p) = L /\ p[L] = e
      /\ \A i \in 1 .. L : i # L => p[i] = all[i]
  BY <1>1, ExceptSeq
<1>3. d.head \in Nat /\ c.head \in Nat
  BY ConstantsAssumption DEF Databases
<1>4. \A i \in 1 .. L : all[i].head # None => all[i].head \in Nat
  BY HeadType
<1>o. /\ \A i, j \in 1 .. L :
           i < j /\ all[i].head # None /\ all[j].head # None => all[i].head < all[j].head
      /\ \A i \in 1 .. L : all[i].head # None => all[i].head < d.head
      /\ \A i \in 1 .. L - n : all[i].head # None
  BY DEF HeadOrder
<1>e. \/ e.head = all[L].head /\ c.head >= d.head
      \/ all[L].head = None /\ e.head = d.head /\ c.head > d.head
  OBVIOUS
<1> HIDE DEF p, L
<1>5. ASSUME NEW i \in 1 .. L, NEW j \in 1 .. L, i < j, p[i].head # None, p[j].head # None
      PROVE  p[i].head < p[j].head
  <2>1. i # L /\ p[i] = all[i]
    BY <1>1, <1>2, <1>5
  <2>2. CASE j # L
    BY <2>1, <2>2, <1>2, <1>5, <1>o
  <2>3. CASE j = L
    <3>1. CASE e.head = all[L].head
      BY <3>1, <2>1, <2>3, <1>2, <1>5, <1>o
    <3>2. CASE e.head = d.head
      BY <3>2, <2>1, <2>3, <1>2, <1>5, <1>o
    <3> QED BY <3>1, <3>2, <1>e
  <2> QED BY <2>2, <2>3
<1>6. ASSUME NEW i \in 1 .. L, p[i].head # None PROVE p[i].head < c.head
  <2>1. CASE i # L
    <3>1. p[i] = all[i] /\ all[i].head < d.head /\ all[i].head \in Nat
      BY <2>1, <1>2, <1>4, <1>6, <1>o
    <3> QED BY <3>1, <1>3
  <2>2. CASE i = L
    <3>1. CASE e.head = all[L].head /\ c.head >= d.head
      <4>1. p[i].head = all[L].head /\ all[L].head # None /\ L \in 1 .. L
        BY <3>1, <2>2, <1>1, <1>2, <1>6
      <4>2. all[L].head < d.head /\ all[L].head \in Nat
        BY <4>1, <1>4, <1>o
      <4> QED BY <3>1, <4>1, <4>2, <1>3
    <3>2. CASE e.head = d.head /\ c.head > d.head
      <4>1. p[i].head = d.head
        BY <3>2, <2>2, <1>2
      <4> QED BY <3>2, <4>1, <1>3
    <3> QED BY <3>1, <3>2, <1>e
  <2> QED BY <2>1, <2>2
<1>7. ASSUME NEW i \in 1 .. L - n PROVE p[i].head # None
  <2>1. i \in 1 .. L /\ i # L
    BY <1>1
  <2> QED BY <2>1, <1>2, <1>o
<1> QED BY <1>2, <1>5, <1>6, <1>7 DEF HeadOrder, p, L

\* The newest session is undone or popped.
LEMMA HeadOrderPop ==
  ASSUME NEW all \in Seq(UndoState), NEW d \in Databases, NEW n \in Nat, NEW m \in Nat,
         Len(all) >= 1, HeadOrder(all, d, n), m >= n - 1, NEW c \in Databases,
         c.head = IF all[Len(all)].head # None THEN all[Len(all)].head ELSE d.head
  PROVE  HeadOrder(Prefix(all, Len(all) - 1), c, m)
<1> DEFINE L == Len(all)
           p == Prefix(all, L - 1)
<1>1. L \in Nat \ {0} /\ L - 1 \in 0 .. L
  BY LenProperties
<1>2. p \in Seq(UndoState) /\ Len(p) = L - 1 /\ \A i \in 1 .. L - 1 : p[i] = all[i]
  BY <1>1, PrefixSlice DEF Prefix
<1>o. /\ \A i, j \in 1 .. L :
           i < j /\ all[i].head # None /\ all[j].head # None => all[i].head < all[j].head
      /\ \A i \in 1 .. L : all[i].head # None => all[i].head < d.head
      /\ \A i \in 1 .. L - n : all[i].head # None
  BY DEF HeadOrder
<1> HIDE DEF p
<1>3. \A i \in 1 .. L - 1 : i \in 1 .. L /\ i < L
  BY <1>1
<1>4. \A i, j \in 1 .. L - 1 :
        i < j /\ p[i].head # None /\ p[j].head # None => p[i].head < p[j].head
  BY <1>2, <1>3, <1>o
<1>5. ASSUME NEW i \in 1 .. L - 1, p[i].head # None PROVE p[i].head < c.head
  <2>1. CASE all[L].head # None
    <3>1. L \in 1 .. L /\ i \in 1 .. L /\ i < L
      BY <1>1, <1>3
    <3>2. all[i].head < all[L].head
      BY <3>1, <2>1, <1>2, <1>5, <1>o
    <3> QED BY <3>2, <2>1, <1>2
  <2>2. CASE all[L].head = None
    BY <2>2, <1>2, <1>3, <1>5, <1>o
  <2> QED BY <2>1, <2>2
<1>6. \A i \in 1 .. L - 1 - m : p[i].head # None
  <2>1. \A i \in 1 .. L - 1 - m : i \in 1 .. L - 1 /\ i \in 1 .. L - n
    BY <1>1
  <2> QED BY <2>1, <1>2, <1>o
<1> QED BY <1>2, <1>4, <1>5, <1>6 DEF HeadOrder, p, L

\* The two newest sessions become one.
LEMMA HeadOrderMerge ==
  ASSUME NEW all \in Seq(UndoState), NEW d \in Databases, NEW n \in Nat,
         Len(all) >= 2, n >= 2, HeadOrder(all, d, n), NEW e \in UndoState,
         LET a == all[Len(all) - 1].head
             b == all[Len(all)].head
         IN  e.head = IF a # None THEN a ELSE b
  PROVE  LET p == Prefix(all, Len(all) - 1)
         IN  HeadOrder([p EXCEPT ![Len(p)] = e], d, n - 1)
<1> DEFINE L == Len(all)
           p == Prefix(all, L - 1)
           b == all[L].head
           c == [d EXCEPT !.head = IF b # None THEN b ELSE d.head]
<1>1. L \in Nat /\ L >= 2 /\ L - 1 \in 0 .. L /\ L \in 1 .. L /\ L - 1 \in 1 .. L - 1
  BY LenProperties
<1>2. p \in Seq(UndoState) /\ Len(p) = L - 1 /\ \A i \in 1 .. L - 1 : p[i] = all[i]
  BY <1>1, PrefixSlice DEF Prefix
<1>3. b # None => b \in 0 .. MaxHead /\ b < d.head
  <2>1. all[L] \in UndoState
    BY <1>1, ElementOfSeq
  <2>2. b \in (0 .. MaxHead) \cup {None}
    BY <2>1 DEF UndoState
  <2>3. b # None => b < d.head
    BY <1>1 DEF HeadOrder
  <2> QED BY <2>2, <2>3
<1>4. c \in Databases /\ c.head = (IF b # None THEN b ELSE d.head)
  <2>1. (IF b # None THEN b ELSE d.head) \in 0 .. MaxHead
    BY <1>3 DEF Databases
  <2> QED BY <2>1, DatabaseExcept DEF Databases
<1>5. HeadOrder(p, c, n - 1)
  <2>1. n - 1 \in Nat /\ Len(all) >= 1 /\ n - 1 >= n - 1
    BY <1>1
  <2> HIDE DEF c
  <2> QED BY <2>1, <1>4, HeadOrderPop
<1>6. p[Len(p)] = all[L - 1]
  BY <1>1, <1>2
<1>7. e.head = IF p[Len(p)].head # None THEN p[Len(p)].head ELSE b
  BY <1>6
<1>8. d.head \in Nat /\ c.head \in Nat
  BY <1>4, ConstantsAssumption DEF Databases
<1> HIDE DEF p, c, b, L
<1>9. \/ e.head = p[Len(p)].head /\ d.head >= c.head
      \/ p[Len(p)].head = None /\ e.head = c.head /\ d.head > c.head
  BY <1>3, <1>4, <1>7, <1>8
<1>10. Len(p) >= 1 /\ n - 1 \in Nat \ {0}
  BY <1>1, <1>2
<1>11. HeadOrder([p EXCEPT ![Len(p)] = e], d, n - 1)
  BY <1>2, <1>4, <1>5, <1>9, <1>10, HeadOrderTop
<1> QED BY <1>11 DEF p, L

\* A new session.
LEMMA HeadOrderPush ==
  ASSUME NEW all \in Seq(UndoState), NEW d \in Databases, NEW n \in Nat,
         HeadOrder(all, d, n)
  PROVE  HeadOrder(Append(all, EmptyState), d, n + 1)
<1> DEFINE L == Len(all)
           p == Append(all, EmptyState)
<1>1. /\ L \in Nat /\ EmptyState.head = None /\ Len(p) = L + 1 /\ p[L + 1] = EmptyState
      /\ \A i \in 1 .. L : p[i] = all[i]
  BY LenProperties, AppendProperties, EmptyRecords DEF EmptyState
<1>o. /\ \A i, j \in 1 .. L :
           i < j /\ all[i].head # None /\ all[j].head # None => all[i].head < all[j].head
      /\ \A i \in 1 .. L : all[i].head # None => all[i].head < d.head
      /\ \A i \in 1 .. L - n : all[i].head # None
  BY DEF HeadOrder
<1> HIDE DEF p, L
<1>2. \A i \in 1 .. L + 1 : p[i].head # None => i \in 1 .. L
  BY <1>1
<1>3. \A i \in 1 .. L + 1 - (n + 1) : i \in 1 .. L - n /\ i \in 1 .. L
  BY <1>1
<1>4. \A i, j \in 1 .. L + 1 :
        i < j /\ p[i].head # None /\ p[j].head # None => p[i].head < p[j].head
  BY <1>1, <1>2, <1>o
<1>5. \A i \in 1 .. L + 1 : p[i].head # None => p[i].head < d.head
  BY <1>1, <1>2, <1>o
<1>6. \A i \in 1 .. L + 1 - (n + 1) : p[i].head # None
  BY <1>1, <1>3, <1>o
<1> QED BY <1>1, <1>4, <1>5, <1>6 DEF HeadOrder, p, L

\* The parts that the start of a session makes of the deltas.
LEMMA StartParts ==
  ASSUME TypeInv, start_undo_session
  PROVE  \E u, c, f, x \in Nat :
           LET b == Append(back, EmptyState)
               out == SubSeq(b, u, c)
               queue == stack \o out
               kept == SubSeq(b, c + 1, Len(b))
           IN  /\ u \in 1 .. Len(b) + 1 /\ c \in 0 .. Len(b)
               /\ f \in 0 .. Len(queue) /\ x \in 0 .. Len(kept)
               /\ Len(kept) >= active + 1 + x
               /\ back' = SubSeq(kept, x + 1, Len(kept))
               /\ stack' = SubSeq(queue, f + 1, Len(queue))
               /\ storage' = (storage \cup Elements(out)) \ Elements(SubSeq(queue, 1, f))
<1> DEFINE b == Append(back, EmptyState)
           c == SpillCount(b)
           out == Spilled(b)
           kept == SubSeq(b, c + 1, Len(b))
           queue == stack \o out
           total == Len(queue) + Len(kept)
           excess == IF total > max_size THEN total - max_size ELSE 0
           f == Smaller(excess, Len(queue))
           u == IF Len(b) + 2 > max_size THEN Len(b) + 2 - max_size ELSE 1
<1>t. /\ back \in Seq(UndoState) /\ stack \in Seq(UndoState)
      /\ EmptyState \in UndoState /\ db \in Databases
      /\ active \in Nat /\ max_size \in Nat /\ Len(back) \in Nat /\ Len(stack) \in Nat
      /\ MaxBack \in Nat /\ Slack \in Nat /\ MaxDepth \in Nat
      /\ max_size >= MaxBack /\ MaxBack > MaxDepth /\ active < MaxDepth
      /\ Slack >= 1 /\ active <= Len(back) /\ max_size >= 2
  BY ConstantsAssumption, EmptyRecords, LenProperties DEF TypeInv, TypeOK, start_undo_session
<1>1. /\ b \in Seq(UndoState) /\ Len(b) = Len(back) + 1 /\ Len(b) \in Nat
  BY <1>t, AppendProperties
<1>2. c \in Nat /\ c < Len(b) /\ (c > 0 => c = Len(b) - MaxBack + 1)
      /\ c \in 0 .. Len(b)
  BY <1>1, <1>t DEF SpillCount
<1>3. u \in 1 .. Len(b) + 1 /\ out = SubSeq(b, u, c) /\ u \in Nat
  <2>1. u \in 1 .. Len(b) + 1
    BY <1>1, <1>t
  <2> QED BY <2>1 DEF Spilled
<1> HIDE DEF c, u
<1>4. out \in Seq(UndoState) /\ Len(out) \in Nat
  BY <1>1, <1>2, <1>3, Slice, LenProperties
<1>5. kept \in Seq(UndoState) /\ Len(kept) = Len(b) - c
  BY <1>1, <1>2, <1>t, Slice
<1> HIDE DEF b, kept, out
<1>6. queue \in Seq(UndoState) /\ Len(queue) = Len(stack) + Len(out)
  BY <1>4, <1>t, ConcatProperties
<1>7. /\ excess \in Nat /\ f \in 0 .. Len(queue) /\ f <= excess /\ f \in Nat
      /\ excess - f \in 0 .. Len(kept) /\ excess - f \in Nat
      /\ excess > f => Len(kept) - (excess - f) = max_size
  <2>1. /\ Len(queue) \in Nat /\ Len(kept) \in Nat /\ max_size \in Nat
        /\ Len(kept) >= 1
    BY <1>1, <1>2, <1>4, <1>5, <1>6, <1>t
  <2> DEFINE q == Len(queue)
             k == Len(kept)
  <2>2. /\ q \in Nat /\ k \in Nat
        /\ excess = IF q + k > max_size THEN q + k - max_size ELSE 0
        /\ f = IF excess <= q THEN excess ELSE q
    BY <2>1 DEF Smaller
  <2> HIDE DEF q, k, excess, f
  <2>3. excess \in Nat /\ f \in 0 .. q /\ f <= excess
    BY ONLY <2>2, <2>1
  <2>4. excess - f \in 0 .. k /\ (excess > f => k - (excess - f) = max_size)
    BY ONLY <2>1, <2>2, <2>3
  <2> QED BY <2>3, <2>4 DEF q, k
<1>8. Len(kept) >= active + 1 + (excess - f)
  <2>1. /\ Len(kept) \in Nat /\ Len(kept) >= active + 1
    BY <1>1, <1>2, <1>5, <1>t
  <2> DEFINE k == Len(kept)
             y == excess - f
  <2>2. /\ k \in Nat /\ k >= active + 1 /\ y \in Nat /\ (y > 0 => k - y = max_size)
        /\ active \in Nat /\ max_size \in Nat /\ max_size >= active + 1
    BY <2>1, <1>7, <1>t
  <2> HIDE DEF k, y
  <2>3. k >= active + 1 + y
    BY ONLY <2>2
  <2> QED BY <2>3 DEF k, y
<1>9. /\ back' = SubSeq(kept, excess - f + 1, Len(kept))
      /\ stack' = SubSeq(queue, f + 1, Len(queue))
      /\ storage' = (storage \cup Elements(out)) \ Elements(SubSeq(queue, 1, f))
  BY DEF start_undo_session, b, kept, out, c, Prefix
<1> HIDE DEF excess, f
<1>10. queue = stack \o SubSeq(b, u, c)
  BY <1>3
<1> QED BY <1>2, <1>3, <1>7, <1>8, <1>9, <1>10 DEF b, kept

\* Where the queue of keys, with what was spilled, comes from.
LEMMA QueueMap ==
  ASSUME NEW s \in Seq(UndoState), NEW b \in Seq(UndoState),
         NEW u \in 1 .. Len(b) + 1, NEW c \in 0 .. Len(b)
  PROVE  LET queue == s \o SubSeq(b, u, c)
         IN  /\ queue \in Seq(UndoState) /\ Len(queue) \in Nat
             /\ \E h \in [1 .. Len(queue) -> 1 .. Len(s) + c] :
                  /\ \A i, j \in 1 .. Len(queue) : i < j => h[i] < h[j]
                  /\ \A i \in 1 .. Len(queue) : queue[i] = (s \o b)[h[i]]
<1> DEFINE S == Len(s)
           B == Len(b)
           out == SubSeq(b, u, c)
           o == Len(out)
           queue == s \o out
<1>1. S \in Nat /\ B \in Nat /\ u \in Nat \ {0} /\ c \in Nat /\ c <= B
  BY LenProperties
<1>2. /\ out \in Seq(UndoState) /\ o = IF u <= c THEN c - u + 1 ELSE 0
      /\ \A i \in 1 .. c - u + 1 : out[i] = b[u + i - 1]
  BY Slice
<1>3. /\ queue \in Seq(UndoState) /\ Len(queue) = S + o
      /\ \A i \in 1 .. S + o : queue[i] = IF i <= S THEN s[i] ELSE out[i - S]
  BY <1>2, ConcatProperties
<1>4. \A i \in 1 .. S + B : (s \o b)[i] = IF i <= S THEN s[i] ELSE b[i - S]
  BY ConcatProperties
<1> HIDE DEF S, B, out, o, queue
<1>5. o \in Nat /\ (o > 0 => u + o - 1 = c)
  <2>1. o = IF u <= c THEN c - u + 1 ELSE 0
    BY <1>2
  <2> QED BY ONLY <2>1, <1>1
<1> DEFINE h == [i \in 1 .. S + o |-> IF i <= S THEN i ELSE i + u - 1]
<1>6. ASSUME NEW i \in 1 .. S + o
      PROVE  h[i] \in 1 .. S + c /\ queue[i] = (s \o b)[h[i]]
  <2>1. CASE i <= S
    <3>1. h[i] = i /\ i \in 1 .. S + c /\ i \in 1 .. S + B
      BY <2>1, <1>1
    <3> QED BY <3>1, <2>1, <1>3, <1>4
  <2>2. CASE i > S
    <3>1. ~(i <= S) /\ i - S \in 1 .. o /\ o > 0
      BY <2>2, <1>1, <1>5
    <3>2. PICK j : j = i + u - 1
      OBVIOUS
    <3>3. h[i] = j
      BY <3>1, <3>2
    <3> HIDE DEF h
    <3>4. /\ i - S \in 1 .. c - u + 1 /\ j \in 1 .. S + c
          /\ j \in 1 .. S + B /\ ~(j <= S) /\ j - S = u + (i - S) - 1
      BY ONLY <3>1, <3>2, <2>2, <1>1, <1>5, i \in 1 .. S + o
    <3>5. queue[i] = out[i - S] /\ out[i - S] = b[u + (i - S) - 1]
      BY <3>1, <3>4, <1>2, <1>3
    <3>6. (s \o b)[j] = b[j - S]
      BY <3>4, <1>4
    <3> QED BY <3>3, <3>4, <3>5, <3>6
  <2>3. i <= S \/ i > S
    BY <1>1, <1>5
  <2> HIDE DEF h
  <2> QED BY <2>1, <2>2, <2>3
<1>7. \A i, j \in 1 .. S + o : i < j => h[i] < h[j]
  BY <1>1, <1>5
<1>8. h \in [1 .. S + o -> 1 .. S + c]
  BY <1>6
<1> HIDE DEF h
<1>9. \E g \in [1 .. Len(queue) -> 1 .. S + c] :
        /\ \A i, j \in 1 .. Len(queue) : i < j => g[i] < g[j]
        /\ \A i \in 1 .. Len(queue) : queue[i] = (s \o b)[g[i]]
  BY <1>3, <1>6, <1>7, <1>8
<1>10. queue \in Seq(UndoState) /\ Len(queue) \in Nat
  BY <1>1, <1>3, <1>5
<1> QED BY <1>9, <1>10 DEF queue, S, out

\* The deltas part are those of queue after the first f, then the newest k of
\* all; queue holds deltas of all from before those k, at the places h.
LeftOf(all, queue, part, h, A, p, q, f, s, k) ==
  /\ A \in Nat /\ p \in Nat /\ q \in Nat /\ f \in Nat /\ s \in Nat /\ k \in Nat
  /\ Len(all) = A /\ Len(part) = s + k /\ A >= p + k /\ q = s + f
  /\ h \in [1 .. q -> 1 .. p]
  /\ \A i, j \in 1 .. q : i < j => h[i] < h[j]
  /\ \A i \in 1 .. q : queue[i] = all[h[i]]
  /\ \A i \in 1 .. s : part[i] = queue[f + i]
  /\ \A i \in s + 1 .. s + k : part[i] = all[A - (s + k) + i]

\* The deltas left keep the order of those there were.
LEMMA PartOrder ==
  ASSUME NEW all, NEW queue, NEW part, NEW d, NEW h,
         NEW A, NEW p, NEW q, NEW f, NEW s, NEW k, NEW n \in Nat,
         LeftOf(all, queue, part, h, A, p, q, f, s, k), HeadOrder(all, d, n), k >= n
  PROVE  HeadOrder(part, d, n)
<1>0. /\ A \in Nat /\ p \in Nat /\ q \in Nat /\ f \in Nat /\ s \in Nat /\ k \in Nat
      /\ Len(all) = A /\ Len(part) = s + k /\ A >= p + k /\ q = s + f
      /\ h \in [1 .. q -> 1 .. p]
      /\ \A i, j \in 1 .. q : i < j => h[i] < h[j]
      /\ \A i \in 1 .. q : queue[i] = all[h[i]]
      /\ \A i \in 1 .. s : part[i] = queue[f + i]
      /\ \A i \in s + 1 .. s + k : part[i] = all[A - (s + k) + i]
  BY DEF LeftOf
<1> USE <1>0
<1> DEFINE g == [i \in 1 .. s + k |-> IF i <= s THEN h[f + i] ELSE A - (s + k) + i]
<1>1. \A i \in 1 .. s : f + i \in 1 .. q /\ h[f + i] \in 1 .. p
  OBVIOUS
<1>2. \A i \in 1 .. s : i \in 1 .. s + k /\ i <= s
  OBVIOUS
<1>3. \A i \in 1 .. s : g[i] = h[f + i] /\ g[i] \in 1 .. p
  BY <1>1, <1>2
<1>4. \A i \in s + 1 .. s + k : i \in 1 .. s + k /\ ~(i <= s)
  OBVIOUS
<1>5. \A i \in s + 1 .. s + k : g[i] = A - (s + k) + i
  BY <1>4
<1>6. \A i \in s + 1 .. s + k : A - (s + k) + i \in p + 1 .. A
  OBVIOUS
<1>7. \A i \in 1 .. s + k : i \in 1 .. s \/ i \in s + 1 .. s + k
  OBVIOUS
<1>8. g = [i \in 1 .. s + k |-> g[i]]
  OBVIOUS
<1> HIDE DEF g
<1>9. \A i \in 1 .. s + k : g[i] \in 1 .. A
  BY <1>3, <1>5, <1>6, <1>7, SMTT(30)
<1>10. g \in [1 .. s + k -> 1 .. A]
  BY <1>8, <1>9
<1>11. ASSUME NEW i \in 1 .. s + k, NEW j \in 1 .. s + k, i < j PROVE g[i] < g[j]
  <2>1. CASE i \in 1 .. s /\ j \in 1 .. s
    <3>1. f + i \in 1 .. q /\ f + j \in 1 .. q /\ f + i < f + j
      BY <2>1, <1>1, <1>11
    <3> QED BY <3>1, <2>1, <1>3
  <2>2. CASE i \in 1 .. s /\ j \in s + 1 .. s + k
    <3>1. g[i] \in 1 .. p /\ g[j] \in p + 1 .. A
      BY <2>2, <1>3, <1>5, <1>6
    <3> QED BY <3>1
  <2>3. CASE i \in s + 1 .. s + k /\ j \in s + 1 .. s + k
    <3>1. g[i] = A - (s + k) + i /\ g[j] = A - (s + k) + j
      BY <2>3, <1>5
    <3> QED BY <3>1, <1>11
  <2>4. ~(i \in s + 1 .. s + k /\ j \in 1 .. s)
    BY <1>11
  <2> QED BY <2>1, <2>2, <2>3, <2>4, <1>7
<1>12. ASSUME NEW i \in 1 .. s + k PROVE part[i] = all[g[i]]
  <2>1. CASE i \in 1 .. s
    BY <2>1, <1>1, <1>3
  <2>2. CASE i \in s + 1 .. s + k
    BY <2>2, <1>5
  <2> QED BY <2>1, <2>2, <1>7
<1>13. ASSUME NEW i \in 1 .. s + k - n PROVE g[i] <= A - n
  <2>1. i \in 1 .. s + k
    OBVIOUS
  <2>2. CASE i \in 1 .. s
    <3>1. g[i] \in 1 .. p
      BY <2>2, <1>3
    <3> QED BY <3>1
  <2>3. CASE i \in s + 1 .. s + k
    <3>1. g[i] = A - (s + k) + i
      BY <2>3, <1>5
    <3> QED BY <3>1
  <2> QED BY <2>1, <2>2, <2>3, <1>7
<1>14. Len(all) \in Nat /\ Len(part) \in Nat
  OBVIOUS
<1>15. /\ g \in [1 .. Len(part) -> 1 .. Len(all)]
       /\ \A i, j \in 1 .. Len(part) : i < j => g[i] < g[j]
       /\ \A i \in 1 .. Len(part) : part[i] = all[g[i]]
       /\ \A i \in 1 .. Len(part) - n : g[i] <= Len(all) - n
  BY <1>10, <1>11, <1>12, <1>13
<1> QED BY ONLY <1>14, <1>15, n \in Nat, HeadOrder(all, d, n), HeadOrderSub

\* The start of a session keeps the order of the committed deltas, and stores
\* those it spills.
LEMMA StartStores ==
  ASSUME StoreInv, start_undo_session
  PROVE  HeadOrder(All', db', active') /\ StorageExact'
<1> DEFINE b == Append(back, EmptyState)
           all == stack \o b
           n == active + 1
           S == Len(stack)
           A == Len(all)
<1>t. /\ stack \in Seq(UndoState) /\ back \in Seq(UndoState) /\ db \in Databases
      /\ active \in Nat /\ EmptyState \in UndoState /\ S \in Nat
      /\ db' = db /\ active' = active + 1
  BY EmptyRecords, LenProperties, ConstantsAssumption
     DEF StoreInv, TypeInv, TypeOK, start_undo_session
<1>1. /\ b \in Seq(UndoState) /\ Len(b) \in Nat /\ all \in Seq(UndoState)
      /\ A = S + Len(b)
      /\ \A i \in 1 .. S + Len(b) : all[i] = IF i <= S THEN stack[i] ELSE b[i - S]
  <2>1. b \in Seq(UndoState) /\ Len(b) \in Nat
    BY <1>t, AppendProperties, LenProperties
  <2> HIDE DEF b
  <2> QED BY <2>1, <1>t, ConcatProperties
<1>2. HeadOrder(all, db, n)
  <2>1. stack \o back \in Seq(UndoState) /\ HeadOrder(stack \o back, db, active)
    BY <1>t, ConcatProperties DEF StoreInv, All
  <2>2. all = Append(stack \o back, EmptyState)
    <3>1. b = back \o <<EmptyState>>
      BY <1>t, AppendIsConcat
    <3>2. <<EmptyState>> \in Seq(UndoState)
      BY <1>t
    <3>3. stack \o (back \o <<EmptyState>>) = (stack \o back) \o <<EmptyState>>
      BY ONLY <1>t, <3>2, ConcatAssociative, SMTT(30)
    <3>4. Append(stack \o back, EmptyState) = (stack \o back) \o <<EmptyState>>
      BY ONLY <2>1, <1>t, AppendIsConcat
    <3> QED BY <3>1, <3>3, <3>4
  <2> HIDE DEF all
  <2> QED BY <2>1, <2>2, <1>t, HeadOrderPush
<1>3. PICK u, c, f, x \in Nat :
        LET out == SubSeq(b, u, c)
            queue == stack \o out
            kept == SubSeq(b, c + 1, Len(b))
        IN  /\ u \in 1 .. Len(b) + 1 /\ c \in 0 .. Len(b)
            /\ f \in 0 .. Len(queue) /\ x \in 0 .. Len(kept)
            /\ Len(kept) >= active + 1 + x
            /\ back' = SubSeq(kept, x + 1, Len(kept))
            /\ stack' = SubSeq(queue, f + 1, Len(queue))
            /\ storage' = (storage \cup Elements(out)) \ Elements(SubSeq(queue, 1, f))
  BY StartParts DEF StoreInv
<1> DEFINE out == SubSeq(b, u, c)
           queue == stack \o out
           kept == SubSeq(b, c + 1, Len(b))
           q == Len(queue)
<1>4. /\ u \in 1 .. Len(b) + 1 /\ c \in 0 .. Len(b)
      /\ f \in 0 .. q /\ x \in 0 .. Len(kept)
      /\ Len(kept) >= active + 1 + x
      /\ back' = SubSeq(kept, x + 1, Len(kept))
      /\ stack' = SubSeq(queue, f + 1, q)
      /\ storage' = (storage \cup Elements(out)) \ Elements(SubSeq(queue, 1, f))
  BY <1>3
<1>5. /\ queue \in Seq(UndoState) /\ q \in Nat
      /\ \E h \in [1 .. q -> 1 .. S + c] :
           /\ \A i, j \in 1 .. q : i < j => h[i] < h[j]
           /\ \A i \in 1 .. q : queue[i] = all[h[i]]
  <2> HIDE DEF b
  <2> QED BY <1>t, <1>1, <1>4, QueueMap
<1>6. PICK h \in [1 .. q -> 1 .. S + c] :
           /\ \A i, j \in 1 .. q : i < j => h[i] < h[j]
           /\ \A i \in 1 .. q : queue[i] = all[h[i]]
  BY <1>5
<1>7. out \in Seq(UndoState) /\ Elements(queue) = Elements(stack) \cup Elements(out)
  <2>1. out \in Seq(UndoState)
    BY <1>1, <1>4, Slice
  <2> HIDE DEF out
  <2> QED BY <2>1, <1>t, ConcatElements
<1>8. Len(kept) = Len(b) - c /\ kept \in Seq(UndoState)
      /\ \A i \in 1 .. Len(b) - c : kept[i] = b[c + i]
  BY <1>1, <1>4, SuffixSlice
<1>9. Distinct(queue)
  <2>1. S + c \in 0 .. A /\ S + c <= A - n /\ n \in Nat
    BY <1>1, <1>4, <1>8, <1>t
  <2> HIDE DEF n, queue, q
  <2>2. \A i, j \in 1 .. S + c : all[i] = all[j] => i = j
    <3> DEFINE p == S + c
    <3>1. p \in 0 .. Len(all) /\ p <= Len(all) - n
      BY <2>1
    <3> HIDE DEF p, all
    <3>2. \A i, j \in 1 .. p : all[i] = all[j] => i = j
      <4>1. all \in Seq(UndoState) /\ db \in Databases /\ n \in Nat /\ HeadOrder(all, db, n)
        BY <2>1, <1>1, <1>2, <1>t
      <4> QED BY ONLY <3>1, <4>1, CommittedDistinct
    <3> QED BY <3>2 DEF p
  <2> HIDE DEF all, A, S
  <2>3. \A i \in 1 .. q : h[i] \in 1 .. S + c
    BY <1>6
  <2>4. \A i, j \in 1 .. q : queue[i] = queue[j] => h[i] = h[j]
    BY <2>2, <2>3, <1>6
  <2>5. \A i, j \in 1 .. q : h[i] = h[j] => i = j
    <3> SUFFICES ASSUME NEW i \in 1 .. q, NEW j \in 1 .. q, i < j PROVE h[i] # h[j]
      BY <1>5
    <3>1. h[i] < h[j] /\ h[i] \in Nat /\ h[j] \in Nat
      BY <1>6, <2>3, <1>t
    <3> QED BY <3>1
  <2> QED BY <2>4, <2>5 DEF Distinct, q
<1>10. StorageExact'
  <2>1. Elements(stack') = Elements(queue) \ Elements(SubSeq(queue, 1, f)) /\ Distinct(stack')
    <3> HIDE DEF queue
    <3> QED BY <1>4, <1>5, <1>9, DistinctCut
  <2>2. storage' = Elements(stack')
    BY <2>1, <1>4, <1>7 DEF StoreInv, StorageExact
  <2>3. stack' \in Seq(UndoState)
    <3>1. f + 1 \in 1 .. q + 1 /\ q \in 0 .. q
      BY <1>4, <1>5
    <3> HIDE DEF queue
    <3> QED BY <3>1, <1>4, <1>5, Slice
  <2>4. Cardinality(Elements(stack')) = Len(stack')
    BY <2>1, <2>3, DistinctCount
  <2> QED BY <2>2, <2>4 DEF StorageExact
<1>11. PICK s \in Nat : /\ stack' \in Seq(UndoState) /\ Len(stack') = s /\ q = s + f
                       /\ \A i \in 1 .. s : stack'[i] = queue[f + i]
  <2>1. /\ stack' \in Seq(UndoState) /\ Len(stack') = q - f /\ q - f \in Nat
        /\ \A i \in 1 .. q - f : stack'[i] = queue[f + i]
    <3> HIDE DEF queue
    <3> QED BY <1>4, <1>5, SuffixSlice
  <2>2. q = (q - f) + f
    BY <1>5, <1>4
  <2> HIDE DEF queue, q
  <2> QED BY <2>1, <2>2
<1>12. PICK k \in Nat : /\ back' \in Seq(UndoState) /\ Len(back') = k /\ Len(kept) = k + x
                       /\ \A i \in 1 .. k : back'[i] = kept[x + i]
  <2> DEFINE K == Len(kept)
  <2>1. /\ back' \in Seq(UndoState) /\ Len(back') = K - x /\ K - x \in Nat
        /\ \A i \in 1 .. K - x : back'[i] = kept[x + i]
    <3> HIDE DEF kept
    <3> QED BY <1>4, <1>8, SuffixSlice
  <2>2. K = (K - x) + x
    BY <1>4, <1>8, LenProperties
  <2> HIDE DEF kept, K
  <2>3. Len(kept) = (K - x) + x
    BY <2>2 DEF K
  <2> QED BY <2>1, <2>3
<1> DEFINE part == stack' \o back'
           B == Len(b)
<1>13. /\ Len(part) = s + k
       /\ \A i \in 1 .. s + k : part[i] = IF i <= s THEN stack'[i] ELSE back'[i - s]
  <2>1. /\ Len(part) = Len(stack') + Len(back')
        /\ \A i \in 1 .. Len(stack') + Len(back') :
              part[i] = IF i <= Len(stack') THEN stack'[i] ELSE back'[i - Len(stack')]
    BY ONLY <1>11, <1>12, ConcatProperties
  <2> HIDE DEF part
  <2> QED BY <2>1, <1>11, <1>12
<1>14. /\ S \in Nat /\ B \in Nat /\ A = S + B /\ B = c + (k + x) /\ k >= n /\ n \in Nat
       /\ c \in Nat
  <2>1. B \in Nat /\ k + x = B - c /\ k + x >= n + x /\ n \in Nat
    BY <1>1, <1>4, <1>8, <1>12, <1>t
  <2> HIDE DEF B, n
  <2> QED BY <2>1, <1>1, <1>t DEF B
<1>15. \A i \in 1 .. B : all[S + i] = b[i]
  <2> SUFFICES ASSUME NEW i \in 1 .. B PROVE all[S + i] = b[i]
    OBVIOUS
  <2> DEFINE j == S + i
  <2>1. j \in 1 .. S + B /\ ~(j <= S) /\ j - S = i
    <3> HIDE DEF B, S
    <3> QED BY <1>14
  <2> HIDE DEF j
  <2>2. all[j] = b[j - S]
    BY <2>1, <1>1
  <2> QED BY <2>1, <2>2 DEF j
<1>16. \A i \in 1 .. s : part[i] = queue[f + i]
  <2>1. \A i \in 1 .. s : i \in 1 .. s + k /\ i <= s
    OBVIOUS
  <2> HIDE DEF part, queue
  <2> QED BY <2>1, <1>11, <1>13
<1>17. ASSUME NEW i \in s + 1 .. s + k PROVE part[i] = all[A - (s + k) + i]
  <2> DEFINE r == i - s
             j == x + r
             y == c + j
  <2>1. /\ i \in 1 .. s + k /\ ~(i <= s) /\ r \in 1 .. k /\ j \in 1 .. B - c
        /\ y \in 1 .. B /\ A - (s + k) + i = S + y
    <3> HIDE DEF A, S, B
    <3> QED BY <1>14
  <2>2. part[i] = back'[r]
    <3> HIDE DEF part
    <3> QED BY <2>1, <1>13
  <2> HIDE DEF part, r
  <2>3. back'[r] = kept[j]
    BY <2>1, <1>12
  <2> HIDE DEF j
  <2>4. kept[j] = b[y]
    BY <2>1, <1>8
  <2> HIDE DEF y
  <2>5. b[y] = all[S + y]
    BY <2>1, <1>15
  <2> HIDE DEF kept, all, b, A, S
  <2> QED BY <2>1, <2>2, <2>3, <2>4, <2>5
<1>18. HeadOrder(part, db, n)
  <2> DEFINE p == S + c
  <2>1. p \in Nat /\ A \in Nat /\ A >= p + k /\ Len(all) = A
    <3>1. A \in Nat /\ A >= p + k /\ p \in Nat
      <4> HIDE DEF A, S, B
      <4> QED BY <1>14
    <3> QED BY <3>1
  <2>2. h \in [1 .. q -> 1 .. p]
    BY <1>6
  <2>3. /\ q \in Nat /\ f \in Nat /\ s \in Nat /\ k \in Nat /\ n \in Nat
        /\ Len(part) = s + k /\ HeadOrder(all, db, n) /\ q = s + f /\ k >= n
    BY <1>2, <1>5, <1>11, <1>13, <1>14
  <2>4. /\ \A i, j \in 1 .. q : i < j => h[i] < h[j]
        /\ \A i \in 1 .. q : queue[i] = all[h[i]]
        /\ \A i \in 1 .. s : part[i] = queue[f + i]
        /\ \A i \in s + 1 .. s + k : part[i] = all[A - (s + k) + i]
    <3> HIDE DEF part, queue, all, q, A
    <3> QED BY <1>6, <1>16, <1>17
  <2> HIDE DEF part, queue, all, p, n, q, A
  <2>5. LeftOf(all, queue, part, h, A, p, q, f, s, k)
    BY ONLY <2>1, <2>2, <2>3, <2>4 DEF LeftOf
  <2> QED BY ONLY <2>3, <2>5, PartOrder
<1> QED BY <1>10, <1>18, <1>t DEF All

\* The queue of keys never names a delta twice.
LEMMA StackDistinct ==
  ASSUME StoreInv
  PROVE  Distinct(stack)
<1> DEFINE S == Len(stack)
<1>t. /\ stack \in Seq(UndoState) /\ back \in Seq(UndoState) /\ db \in Databases
      /\ active \in Nat /\ active <= Len(back) /\ HeadOrder(All, db, active)
      /\ S \in Nat /\ Len(back) \in Nat
  BY LenProperties, ConstantsAssumption DEF StoreInv, TypeInv, TypeOK
<1>1. /\ All \in Seq(UndoState) /\ Len(All) = S + Len(back)
      /\ \A i \in 1 .. S + Len(back) : All[i] = IF i <= S THEN stack[i] ELSE back[i - S]
  BY <1>t, ConcatProperties DEF All
<1>2. S \in 0 .. Len(All) /\ S <= Len(All) - active
  BY <1>t, <1>1
<1>3. \A i, j \in 1 .. S : All[i] = All[j] => i = j
  <2> HIDE DEF S
  <2>1. All \in Seq(UndoState) /\ db \in Databases /\ active \in Nat
        /\ HeadOrder(All, db, active)
    BY <1>t, <1>1
  <2> QED BY ONLY <2>1, <1>2, CommittedDistinct
<1>4. \A i \in 1 .. S : i \in 1 .. S + Len(back) /\ i <= S
  BY <1>t
<1>5. \A i \in 1 .. S : All[i] = stack[i]
  BY <1>1, <1>4
<1> QED BY <1>3, <1>5 DEF Distinct

\* Reloading finds every key it asks for.
LEMMA AlwaysLoads ==
  ASSUME StoreInv, NEW b \in Seq(UndoState)
  PROVE  ~FailsToLoad(b)
<1> DEFINE n == RefillCount(b)
           k == Len(stack) - n
           ids == SubSeq(stack, k + 1, Len(stack))
<1>t. /\ stack \in Seq(UndoState) /\ Len(stack) \in Nat /\ Len(b) \in Nat
      /\ MaxBack \in Nat /\ ReloadAt \in Nat /\ ReloadAt < MaxBack
      /\ storage = Elements(stack) /\ Distinct(stack)
  BY ConstantsAssumption, LenProperties, StackDistinct DEF StoreInv, TypeInv, TypeOK, StorageExact
<1>1. n \in 0 .. Len(stack)
  BY <1>t DEF RefillCount, Smaller
<1> HIDE DEF n
<1>2. k \in 0 .. Len(stack) /\ Len(stack) - n + 1 = k + 1
  BY <1>1, <1>t
<1>3. Suffix(stack, n) = ids
  BY <1>2 DEF Suffix
<1> HIDE DEF k
<1>4. Distinct(ids) /\ Elements(ids) \subseteq Elements(stack)
  BY <1>2, <1>t, DistinctCut
<1>5. ids \in Seq(UndoState)
  BY <1>2, <1>t, SuffixSlice
<1> HIDE DEF ids
<1>6. Cardinality(Elements(ids)) = Len(ids)
  BY <1>4, <1>5, DistinctCount
<1> QED BY <1>3, <1>4, <1>6, <1>t DEF FailsToLoad, Loadable, n

\* Reloading takes from the store what it moves into memory.
LEMMA RefillStores ==
  ASSUME StoreInv, NEW b \in Seq(UndoState), Refilled(b)
  PROVE  StorageExact'
<1> DEFINE n == RefillCount(b)
           k == Len(stack) - n
           ids == SubSeq(stack, k + 1, Len(stack))
<1>t. /\ stack \in Seq(UndoState) /\ Len(stack) \in Nat /\ Len(b) \in Nat
      /\ MaxBack \in Nat /\ ReloadAt \in Nat /\ ReloadAt < MaxBack
      /\ storage = Elements(stack) /\ Distinct(stack)
  BY ConstantsAssumption, LenProperties, StackDistinct DEF StoreInv, TypeInv, TypeOK, StorageExact
<1>1. n \in 0 .. Len(stack)
  BY <1>t DEF RefillCount, Smaller
<1> HIDE DEF n
<1>2. k \in 0 .. Len(stack) /\ Len(stack) - n + 1 = k + 1
  BY <1>1, <1>t
<1>3. stack' = SubSeq(stack, 1, k) /\ storage' = storage \ Elements(ids)
  BY <1>2 DEF Refilled, Suffix, Prefix, n
<1> HIDE DEF k
<1>4. /\ Distinct(SubSeq(stack, 1, k))
      /\ Elements(SubSeq(stack, 1, k)) = Elements(stack) \ Elements(ids)
  BY <1>2, <1>t, DistinctCut
<1>5. SubSeq(stack, 1, k) \in Seq(UndoState)
  BY <1>2, <1>t, PrefixSlice
<1>6. Cardinality(Elements(stack')) = Len(stack')
  BY <1>3, <1>4, <1>5, DistinctCount
<1>7. storage' = Elements(stack')
  BY <1>3, <1>4, <1>t
<1> QED BY <1>6, <1>7 DEF StorageExact

\* Undoing the newest session keeps the order and the store.
LEMMA RollbackStores ==
  ASSUME StoreInv, back # << >>, Rollback, ~failed', NEW m \in Nat, m >= active - 1
  PROVE  HeadOrder(All', db', m) /\ StorageExact'
<1> DEFINE b == Prefix(back, Len(back) - 1)
<1>1. db' = Undone(Top, db) /\ Refilled(b)
  BY DEF Rollback
<1>t. /\ stack \in Seq(UndoState) /\ back \in Seq(UndoState) /\ db \in Databases
      /\ active \in Nat /\ HeadOrder(All, db, active) /\ TypeInv /\ TypeOK
  BY ConstantsAssumption DEF StoreInv, TypeInv, TypeOK
<1>2. /\ b \in Seq(UndoState) /\ Len(back) \in Nat \ {0} /\ Top \in UndoState
  BY <1>t, TopType
<1>3. Len(back) >= 1
  BY <1>2
<1>4. /\ All \in Seq(UndoState) /\ Len(All) >= 1 /\ All[Len(All)] = Top
      /\ stack \o b = Prefix(All, Len(All) - 1)
  BY <1>3, <1>t, TopOfConcat DEF All, Top
<1> HIDE DEF b
<1>5. stack' \o back' = stack \o b
  BY <1>1, <1>2, <1>t, RefillShape
<1>6. /\ db' \in Databases
      /\ db'.head = IF All[Len(All)].head # None THEN All[Len(All)].head ELSE db.head
  <2>1. Undone(Top, db) \in Databases
    BY <1>2, <1>t, DeltaTypes
  <2>2. Undone(Top, db).head = IF Top.head # None THEN Top.head ELSE db.head
    BY DEF Undone
  <2> QED BY <2>1, <2>2, <1>1, <1>4
<1>7. HeadOrder(Prefix(All, Len(All) - 1), db', m)
  BY ONLY <1>4, <1>6, <1>t, m \in Nat, m >= active - 1, HeadOrderPop
<1>8. All' = Prefix(All, Len(All) - 1)
  BY <1>4, <1>5 DEF All
<1> QED BY <1>1, <1>2, <1>7, <1>8, RefillStores

\* Merging the two newest sessions keeps the order and the store.
LEMMA MergeStores ==
  ASSUME StoreInv, merge, ~failed'
  PROVE  HeadOrder(All', db', active') /\ StorageExact'
<1> DEFINE b == Prefix(back, Len(back) - 1)
           f == merge_states(b[Len(b)], Top)
           c == [b EXCEPT ![Len(b)] = f]
           P == stack \o b
<1>1. /\ Len(back) >= 2 /\ Refilled(c) /\ db' = db /\ active > 1 /\ active' = active - 1
  BY DEF merge
<1>t. /\ stack \in Seq(UndoState) /\ back \in Seq(UndoState) /\ db \in Databases
      /\ active \in Nat /\ HeadOrder(All, db, active) /\ TypeInv /\ TypeOK
      /\ Len(stack) \in Nat
  BY LenProperties, ConstantsAssumption DEF StoreInv, TypeInv, TypeOK
<1>2. /\ b \in Seq(UndoState) /\ Len(back) \in Nat \ {0} /\ Top \in UndoState
      /\ Len(b) = Len(back) - 1
  BY <1>1, <1>t, TopType
<1>3. Len(back) >= 1 /\ Len(b) >= 1 /\ Len(b) \in 1 .. Len(b)
  BY <1>1, <1>2
<1>4. /\ All \in Seq(UndoState) /\ All[Len(All)] = Top
      /\ Len(All) = Len(stack) + Len(back)
      /\ P = Prefix(All, Len(All) - 1)
  BY <1>3, <1>t, TopOfConcat DEF All, Top
<1> HIDE DEF b
<1>5. /\ P \in Seq(UndoState) /\ Len(P) >= 1 /\ Len(P) = Len(stack) + Len(b)
      /\ P[Len(P)] = b[Len(b)]
      /\ \A e \in UndoState : stack \o [b EXCEPT ![Len(b)] = e] = [P EXCEPT ![Len(P)] = e]
  BY <1>2, <1>3, <1>t, TopOfConcat
<1>6. b[Len(b)] \in UndoState
  BY <1>2, <1>3, ElementOfSeq
<1>7. f \in UndoState /\ f.head = IF b[Len(b)].head # None THEN b[Len(b)].head ELSE Top.head
  BY <1>2, <1>6, MergeType DEF merge_states
<1> HIDE DEF f, P
<1>8. Len(All) >= 2 /\ Len(P) = Len(All) - 1 /\ active >= 2 /\ Len(All) \in Nat
  BY <1>1, <1>2, <1>4, <1>5, <1>t
<1>9. All[Len(All) - 1] = b[Len(b)]
  <2>1. Len(All) - 1 \in 0 .. Len(All) /\ Len(All) - 1 \in 1 .. Len(All) - 1
    BY <1>8
  <2>2. P[Len(All) - 1] = All[Len(All) - 1]
    BY <2>1, <1>4, PrefixSlice DEF Prefix
  <2> QED BY <2>2, <1>5, <1>8
<1>10. HeadOrder([P EXCEPT ![Len(P)] = f], db, active - 1)
  <2>1. f.head = IF All[Len(All) - 1].head # None THEN All[Len(All) - 1].head
                                                  ELSE All[Len(All)].head
    BY <1>4, <1>7, <1>9
  <2> QED BY <2>1, <1>4, <1>7, <1>8, <1>t, HeadOrderMerge
<1>11. c \in Seq(UndoState)
  BY <1>2, <1>3, <1>7, ExceptSeq
<1>12. stack \o c = [P EXCEPT ![Len(P)] = f]
  BY <1>5, <1>7
<1> HIDE DEF c
<1>13. stack' \o back' = stack \o c
  BY <1>1, <1>11, <1>t, RefillShape
<1>14. All' = [P EXCEPT ![Len(P)] = f]
  BY <1>12, <1>13 DEF All
<1> QED BY <1>1, <1>10, <1>11, <1>14, RefillStores
\* A change made in the newest session keeps the order and the store.
LEMMA ChangeStores ==
  ASSUME StoreInv, active > 0, NEW e \in UndoState, db' \in Databases,
         \/ e.head = Top.head /\ db'.head >= db.head
         \/ Top.head = None /\ e.head = db.head /\ db'.head > db.head,
         back' = ReplaceTop(e), UNCHANGED <<stack, storage, active>>
  PROVE  HeadOrder(All', db', active') /\ StorageExact'
<1>t. /\ stack \in Seq(UndoState) /\ back \in Seq(UndoState) /\ db \in Databases
      /\ active \in Nat \ {0} /\ HeadOrder(All, db, active) /\ TypeInv
  BY ConstantsAssumption DEF StoreInv, TypeInv, TypeOK
<1>1. Len(back) >= 1
  BY <1>t, TopType
<1>2. /\ All \in Seq(UndoState) /\ Len(All) >= 1 /\ All[Len(All)] = Top
      /\ stack \o ReplaceTop(e) = [All EXCEPT ![Len(All)] = e]
  BY <1>t, <1>1, TopOfConcat DEF All, ReplaceTop, Top
<1>3. HeadOrder([All EXCEPT ![Len(All)] = e], db', active)
  BY <1>t, <1>2, HeadOrderTop
<1>4. All' = [All EXCEPT ![Len(All)] = e]
  BY <1>2 DEF All
<1> QED BY <1>3, <1>4 DEF StoreInv, StorageExact

\* A clean restart finds every delta it loads, and leaves the others stored.
LEMMA RestartStores ==
  ASSUME StoreInv, ~failed, restart
  PROVE  UNCHANGED failed /\ HeadOrder(All', db', active') /\ StorageExact'
<1> DEFINE all == stack \o back
           n == Smaller(MaxBack, Len(all))
           k == Len(all) - n
           loaded == SubSeq(all, k + 1, Len(all))
           saved == storage \cup Elements(back)
<1>t. /\ stack \in Seq(UndoState) /\ back \in Seq(UndoState) /\ db \in Databases
      /\ MaxBack \in Nat /\ active = 0 /\ HeadOrder(all, db, 0) /\ TypeOK
      /\ db' = db /\ active' = active
  BY ConstantsAssumption DEF StoreInv, TypeInv, TypeOK, restart, All
<1>1. all \in Seq(UndoState) /\ Len(all) \in Nat
  BY <1>t, ConcatProperties, LenProperties
<1>2. saved = Elements(all)
  BY <1>t, ConcatElements DEF StoreInv, StorageExact
<1> HIDE DEF all, saved
<1>3. n \in 0 .. Len(all) /\ n \in Nat
  BY <1>1, <1>t DEF Smaller
<1> HIDE DEF n
<1>4. k \in 0 .. Len(all) /\ Len(all) - n + 1 = k + 1 /\ Len(all) - k = n
  BY <1>1, <1>3
<1>5. Suffix(all, n) = loaded
  BY <1>4 DEF Suffix
<1> HIDE DEF k
<1>6. Distinct(all)
  <2>1. Len(all) \in 0 .. Len(all) /\ Len(all) <= Len(all) - 0 /\ 0 \in Nat
    BY <1>1
  <2>2. \A i, j \in 1 .. Len(all) : all[i] = all[j] => i = j
    BY <2>1, <1>1, <1>t, CommittedDistinct
  <2> QED BY <2>2 DEF Distinct
<1>7. /\ Distinct(loaded) /\ Distinct(SubSeq(all, 1, k))
      /\ Elements(SubSeq(all, 1, k)) = Elements(all) \ Elements(loaded)
      /\ Elements(loaded) \subseteq Elements(all)
  BY <1>1, <1>4, <1>6, DistinctCut
<1>8. /\ loaded \in Seq(UndoState) /\ Len(loaded) = n
      /\ SubSeq(all, 1, k) \in Seq(UndoState)
  BY <1>1, <1>4, SuffixSlice, PrefixSlice
<1> HIDE DEF loaded
<1>9. Cardinality(Elements(loaded)) = n
  BY <1>7, <1>8, DistinctCount
<1>10. /\ failed' = failed /\ stack' = SubSeq(all, 1, k)
       /\ storage' = saved \ Elements(loaded)
  <2>1. Elements(Suffix(all, n)) \subseteq saved /\ Cardinality(Elements(Suffix(all, n))) = n
    BY <1>2, <1>5, <1>7, <1>9
  <2>2. /\ failed' = failed /\ stack' = Prefix(all, Len(all) - n)
        /\ storage' = saved \ Elements(Suffix(all, n))
    BY <2>1 DEF restart, all, n, saved
  <2> QED BY <2>2, <1>5 DEF Prefix, k
<1>11. StorageExact'
  <2>1. Cardinality(Elements(stack')) = Len(stack')
    BY <1>7, <1>8, <1>10, DistinctCount
  <2>2. storage' = Elements(stack')
    BY <1>2, <1>7, <1>10
  <2> QED BY <2>1, <2>2 DEF StorageExact
<1>12. All' = all
  BY <1>10, <1>t, RestartShape DEF All, all
<1> QED BY <1>10, <1>11, <1>12, <1>t

\* Every step keeps the order and the store.
LEMMA StoreInvStep ==
  ASSUME StoreInv, Next
  PROVE  StoreInv'
<1> DEFINE Kept == HeadOrder(All', db', active') /\ StorageExact'
<1>a. TypeInv'
  BY TypeInvStep DEF StoreInv
<1> SUFFICES Kept
  BY <1>a DEF StoreInv
<1>b. UNCHANGED <<db, back, stack, storage, active>> => Kept
  BY DEF StoreInv, StorageExact, All
<1>t. /\ ~failed /\ TypeInv /\ db \in Databases /\ active \in Nat /\ db' \in Databases
      /\ db.head \in Nat
  BY <1>a, ConstantsAssumption DEF Next, StoreInv, TypeInv, TypeOK, Databases
<1>1. ASSUME NEW m \in MaxSizes, set_max_size(m) PROVE Kept
  BY <1>1, <1>b DEF set_max_size
<1>2. CASE start_undo_session
  BY <1>2, StartStores
<1>3. ASSUME NEW v \in Vals, create(v) PROVE Kept
  <2>1. Top \in UndoState /\ active > 0
    BY <1>3, <1>t, TopType DEF create
  <2>2. /\ on_create(Top, db.next) \in UndoState
        /\ on_create(Top, db.next).head = Top.head
    BY <1>3, <1>t, <2>1, DeltaTypes DEF create, on_create, UndoState
  <2>3. db'.head = db.head
    BY <1>3, <1>t DEF create, Databases
  <2> QED BY <1>3, <1>t, <2>1, <2>2, <2>3, ChangeStores DEF create
<1>4. ASSUME NEW i \in Ids, NEW v \in Vals, modify(i, v) PROVE Kept
  <2>1. Top \in UndoState /\ active > 0
    BY <1>4, <1>t, TopType DEF modify
  <2>2. /\ on_modify(Top, i, db.objs[i]) \in UndoState
        /\ on_modify(Top, i, db.objs[i]).head = Top.head
    BY <1>t, <2>1, DeltaTypes DEF on_modify, UndoState
  <2>3. db'.head = db.head
    BY <1>4, <1>t DEF modify, Databases
  <2> QED BY <1>4, <1>t, <2>1, <2>2, <2>3, ChangeStores DEF modify
<1>5. ASSUME NEW i \in Ids, remove(i) PROVE Kept
  <2>1. Top \in UndoState /\ active > 0
    BY <1>5, <1>t, TopType DEF remove
  <2>2. /\ on_remove(Top, i, db.objs[i]) \in UndoState
        /\ on_remove(Top, i, db.objs[i]).head = Top.head
    BY <1>t, <2>1, DeltaTypes DEF on_remove, UndoState
  <2>3. db'.head = db.head
    BY <1>5, <1>t DEF remove, Databases
  <2> QED BY <1>5, <1>t, <2>1, <2>2, <2>3, ChangeStores DEF remove
<1>6. CASE update_head
  <2>0. active > 0 /\ Top.head = None
    BY <1>6 DEF update_head
  <2>1. Top \in UndoState
    BY <2>0, <1>t, TopType
  <2>2. /\ on_modify_head(Top, db.head) \in UndoState
        /\ on_modify_head(Top, db.head).head = db.head
    BY <1>t, <2>1, DeltaTypes DEF on_modify_head, UndoState
  <2>3. db'.head = db.head + 1
    BY <1>6, <1>t DEF update_head, Databases
  <2>4. db'.head > db.head
    BY <2>3, <1>t
  <2> QED BY <1>6, <1>t, <2>0, <2>1, <2>2, <2>4, ChangeStores DEF update_head
<1>7. CASE undo
  <2>1. CASE failed'
    BY <1>7, <2>1, <1>b, <1>t DEF undo, Rollback
  <2>2. CASE ~failed'
    <3>1. active' = active - 1 /\ active - 1 \in Nat /\ active - 1 >= active - 1
      BY <1>7, <2>2, <1>t DEF undo
    <3>2. back # << >> /\ Rollback
      BY <1>7 DEF undo
    <3>3. HeadOrder(All', db', active - 1) /\ StorageExact'
      BY <3>1, <3>2, <2>2, RollbackStores
    <3> QED BY <3>1, <3>3
  <2> QED BY <2>1, <2>2
<1>8. CASE merge
  <2>1. CASE failed'
    BY <1>8, <2>1, <1>b, <1>t DEF merge
  <2>2. CASE ~failed'
    BY <1>8, <2>2, MergeStores
  <2> QED BY <2>1, <2>2
<1>9. CASE commit
  <2>1. /\ active = 1 /\ Top.head # None /\ active' = 0
        /\ UNCHANGED <<db, back, stack, storage>>
    BY <1>9 DEF commit
  <2>t. stack \in Seq(UndoState) /\ back \in Seq(UndoState) /\ HeadOrder(All, db, 1)
    BY <2>1 DEF StoreInv, TypeInv, TypeOK
  <2>2. Len(back) >= 1
    BY <2>1, <1>t, TopType
  <2>3. All \in Seq(UndoState) /\ Len(All) >= 1 /\ All[Len(All)] = Top
    BY <2>2, <2>t, TopOfConcat DEF All, Top
  <2>4. Len(All) \in Nat
    BY <2>3, LenProperties
  <2>5. \A i \in 1 .. Len(All) - 0 : i = Len(All) \/ i \in 1 .. Len(All) - 1
    BY <2>4
  <2>6. HeadOrder(All, db, 0)
    BY <2>1, <2>3, <2>5, <2>t DEF HeadOrder
  <2>7. All' = All
    BY <2>1 DEF All
  <2> QED BY <2>1, <2>6, <2>7 DEF StoreInv, StorageExact
<1>10. CASE pop_commit
  <2>1. CASE failed'
    BY <1>10, <2>1, <1>b, <1>t DEF pop_commit, Rollback
  <2>2. CASE ~failed'
    <3>1. active' = active /\ active >= active - 1
      BY <1>10, <2>2, <1>t DEF pop_commit
    <3>2. back # << >> /\ Rollback
      BY <1>10 DEF pop_commit
    <3>3. HeadOrder(All', db', active) /\ StorageExact'
      BY <3>1, <3>2, <2>2, <1>t, RollbackStores
    <3> QED BY <3>1, <3>3
  <2> QED BY <2>1, <2>2
<1>11. CASE restart
  BY <1>11, <1>t, RestartStores
<1> QED BY <1>1, <1>2, <1>3, <1>4, <1>5, <1>6, <1>7, <1>8, <1>9, <1>10, <1>11
        DEF Next, Step

\* So does a step that leaves everything alone.
LEMMA StoreInvNext == StoreInv /\ [Next]_vars => StoreInv'
<1>1. ASSUME StoreInv, UNCHANGED vars PROVE StoreInv'
  BY <1>1 DEF vars, StoreInv, TypeInv, TypeOK, StorageExact, All
<1> QED BY <1>1, StoreInvStep

\* The invariant holds at first.
LEMMA StoreInvInit == Init => StoreInv
<1> SUFFICES ASSUME Init PROVE StoreInv
  OBVIOUS
<1>1. TypeInv
  BY TypeInvInit
<1>2. Len(stack) = 0 /\ All = << >> /\ stack = << >> /\ storage = {} /\ active = 0
  BY EmptySeq, ConcatEmptySeq DEF Init, All
<1>3. HeadOrder(All, db, active)
  BY <1>2 DEF HeadOrder
<1>4. Elements(stack) = {}
  BY <1>2 DEF Elements
<1>5. StorageExact
  BY <1>2, <1>4, FS_EmptySet DEF StorageExact
<1> QED BY <1>1, <1>3, <1>5 DEF StoreInv

\* The store holds exactly the keys queued in _stack, each once, whatever the
\* sizes: spilling, trimming, reloading and restarting neither leak a key nor
\* leave one dangling.
THEOREM StoreIsExact == Spec => []StorageExact
<1>1. StoreInv => StorageExact
  BY DEF StoreInv
<1> QED BY <1>1, StoreInvInit, StoreInvNext, PTL DEF Spec

\* The newest delta can be undone: every object it restores or erases is there,
\* and the ids of those it puts back are free.
LEMMA TopUndoable ==
  ASSUME RestoreInv, back # << >> \/ active > 0
  PROVE  Undoable(Top, db)
<1>1. Records(Top, snaps[Len(snaps)], db)
  BY TopRecords
<1> QED BY <1>1 DEF Undoable, Records, RecordsAt

\* No step makes an assertion fire.
LEMMA NoStepFails ==
  ASSUME RestoreInv, StoreInv, Next
  PROVE  ~failed'
<1>t. /\ ~failed /\ TypeInv /\ active \in Nat /\ active <= Len(back) /\ Len(back) \in Nat
  BY LenProperties, ConstantsAssumption DEF Next, StoreInv, TypeInv, TypeOK
<1>1. ASSUME back # << >>, Rollback PROVE ~failed'
  <2>1. Prefix(back, Len(back) - 1) \in Seq(UndoState)
    BY <1>1, <1>t, TopType
  <2> QED BY <1>1, <2>1, <1>t, TopUndoable, AlwaysLoads DEF Rollback
<1>2. ASSUME merge PROVE ~failed'
  <2>1. active > 1
    BY <1>2 DEF merge
  <2>2. Prefix(back, Len(back) - 1) \in Seq(UndoState) /\ Len(back) >= 2
    BY <2>1, <1>t, TopType
  <2> QED BY <1>2, <2>2, <1>t, AlwaysLoads DEF merge
<1>3. ASSUME restart PROVE ~failed'
  BY <1>3, <1>t, RestartStores
<1>4. ASSUME NEW m \in MaxSizes, set_max_size(m) PROVE ~failed'
  BY <1>4, <1>t DEF set_max_size
<1>5. CASE start_undo_session \/ update_head \/ commit
  BY <1>5, <1>t DEF start_undo_session, update_head, commit
<1>6. ASSUME NEW v \in Vals, create(v) PROVE ~failed'
  BY <1>6, <1>t DEF create
<1>7. ASSUME NEW i \in Ids, NEW v \in Vals, modify(i, v) PROVE ~failed'
  BY <1>7, <1>t DEF modify
<1>8. ASSUME NEW i \in Ids, remove(i) PROVE ~failed'
  BY <1>8, <1>t DEF remove
<1>9. CASE undo
  BY <1>9, <1>1 DEF undo
<1>10. CASE pop_commit
  BY <1>10, <1>1 DEF pop_commit
<1> QED BY <1>2, <1>3, <1>4, <1>5, <1>6, <1>7, <1>8, <1>9, <1>10 DEF Next, Step

\* With sizes above the spill length no assertion of undo, merge, pop_commit or
\* from_file fires: every delta finds the objects it restores, every key asked
\* for is in the store, and a merge has a session to merge into.
THEOREM NoAssertion == LargeSizes => (Spec => []NoAssertFires)
<1> SUFFICES ASSUME LargeSizes PROVE Spec => []NoAssertFires
  OBVIOUS
<1> DEFINE Inv == RestoreInv /\ StoreInv /\ NoAssertFires
<1>1. Init => Inv
  BY RestoreInvInit, StoreInvInit DEF Init, NoAssertFires
<1>2. Inv /\ [Next]_vars => Inv'
  <2>1. ASSUME Inv, Next PROVE NoAssertFires'
    BY <2>1, NoStepFails DEF NoAssertFires
  <2>2. ASSUME Inv, UNCHANGED vars PROVE NoAssertFires'
    BY <2>2 DEF NoAssertFires, vars
  <2> QED BY <2>1, <2>2, RestoreInvNext, StoreInvNext
<1>3. Inv => NoAssertFires
  OBVIOUS
<1> HIDE DEF Inv
<1> QED BY <1>1, <1>2, <1>3, PTL DEF Spec
=============================================================================
