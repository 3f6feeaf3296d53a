----------------------------- MODULE ChainRestart -----------------------------
(***************************************************************************)
(* Stopping and starting a node: database::close, open and reindex, with   *)
(* the choice between opening and replaying that application::startup      *)
(* makes.  The directory dblock exists while a node runs, so that a node   *)
(* that was killed, at any step, also within close, replays its blocks.    *)
(*                                                                         *)
(* Only the block store is read by a replay.  A clean stop also saves the  *)
(* objects, the undo history (see UndoDatabase) and the fork database.     *)
(***************************************************************************)
EXTENDS ChainDatabase

CONSTANTS
  MaxRestarts,  \* bound: times the node stops
  MaxSaved      \* bound: items in the fork database when it is stopped cleanly

ASSUME RestartAssumption ==
  /\ MaxRestarts \in Nat /\ MaxSaved \in Nat
  /\ \E m \in UndoSizes : \A n \in UndoSizes : m >= n

VARIABLE restarts      \* bound only

restartvars == <<vars, restarts>>

Smallest(S) == CHOOSE m \in S : \A n \in S : m <= n
Largest(S) == CHOOSE m \in S : \A n \in S : m >= n

\* What a new process begins with, whatever it finds on disk.
FreshProcess ==
  /\ restarts < MaxRestarts /\ restarts' = restarts + 1
  /\ pending' = << >> /\ open' = FALSE /\ session' = {}
  /\ popped' = << >> /\ ids' = {} /\ queue' = << >>
  /\ phase' = "idle" /\ err' = FALSE /\ new' = Root /\ old' = NoCall
  /\ first' = << >> /\ second' = << >> /\ left' = << >>

-----------------------------------------------------------------------------
(* reindex.                                                                 *)

\* block_database::last and fetch_by_number: the stored heights, and how far
\* they go without a gap.
StoredHeights == {n \in 0 .. MaxHeight : store[n] # None}
Contiguous == Largest({n \in 0 .. MaxHeight : 0 .. n \subseteq StoredHeights})

\* The undo limit while block number i is applied, of last: an unsigned
\* difference, which wraps for a chain that is shorter than the larger limit.
ReplayLimit(i, last) ==
  IF last >= Largest(UndoSizes) /\ i >= last - Largest(UndoSizes)
  THEN Largest(UndoSizes) ELSE Smallest(UndoSizes)

\* The deltas retained, and the irreversible number, after each block.
ReplayDeltas(last) ==
  LET d[i \in 0 .. last] ==
        IF i = 0 THEN 0 ELSE Smaller(d[i - 1] + 1, ReplayLimit(i, last))
  IN  d
ReplayLibs(n, last) ==
  LET lib[i \in 0 .. n] ==
        IF i = 0 THEN 0 ELSE Larger(lib[i - 1], Minus(i, ReplayDeltas(last)[i]))
  IN  [i \in 1 .. n |-> lib[i]]

\* Mutant of Replayed: LevelDB is not emptied first, and has transactions of
\* the block that was being applied.
Mutant_Replayed ==
  LET n    == Contiguous
      last == Num(store[Largest(StoredHeights)])
  IN  /\ head' = store[n]
      /\ libs' = ReplayLibs(n + 1, last)
      /\ deltas' = ReplayDeltas(last)[n + 1]
      /\ max_size' = ReplayLimit(n + 1, last)
      /\ store' = [k \in 0 .. MaxHeight |-> IF k <= n THEN store[k] ELSE None]
      /\ trxs' = ChainTxs(head') \cup IF phase = "direct" THEN Elements(TxsOf(new)) ELSE {}
      /\ index' = {Upto(head', k) : k \in Minus(Minus(n + 1, ForkSize), 1) .. n}
      /\ orphan' = {b \in index' : b # Root /\ Previous(b) \notin index'}
      /\ fhead' = head' /\ loose' = FALSE /\ kept' = {}

\* The state after every stored block up to a gap was applied again, and those
\* above it dropped.  (Deltas that open read from a file of an earlier stop
\* stay in the undo database at first; twenty blocks push them out.)
Replayed ==
  LET n    == Contiguous
      last == Num(store[Largest(StoredHeights)])
  IN  /\ head' = store[n]
      /\ libs' = ReplayLibs(n + 1, last)
      /\ deltas' = ReplayDeltas(last)[n + 1]
      /\ max_size' = ReplayLimit(n + 1, last)
      /\ store' = [k \in 0 .. MaxHeight |-> IF k <= n THEN store[k] ELSE None]
      /\ trxs' = ChainTxs(head')
      /\ index' = {Upto(head', k) : k \in Minus(Minus(n + 1, ForkSize), 1) .. n}
      /\ orphan' = {b \in index' : b # Root /\ Previous(b) \notin index'}
      /\ fhead' = head' /\ loose' = FALSE /\ kept' = {}

\* The process ends without close.
crash == Replayed /\ FreshProcess

-----------------------------------------------------------------------------
(* close and open.                                                          *)

\* What fork_database::from_file may read: of the items with the same parent
\* one, since they are put into a map by the id of the parent.
OnePerParent(S) == {T \in SUBSET S : \A b \in S : \E c \in T :
                      {d \in T : Previous(d) = Previous(b)} = {c}}

\* from_file throws, which ends in a replay, when the head was read and its
\* parent was not.
Unreadable(read) == head \in read /\ Previous(head) \notin read

\* The objects, the undo history and LevelDB are as they were; the index has
\* the last block, from start_block, and what was read.
Reopened(read) ==
  /\ index' = read \cup {head}
  /\ orphan' = {b \in index' : b # Root /\ ~ (b \in read /\ Previous(b) \in read)}
  /\ fhead' = IF fhead \in index THEN fhead ELSE head
  /\ loose' = (fhead' \notin index')
  /\ kept' = read \ {head}
  /\ max_size' = Largest(UndoSizes)
  /\ UNCHANGED <<head, libs, deltas, store, trxs>>

restart ==
  /\ phase = "idle"
  /\ Cardinality(index) <= MaxSaved
  /\ \E read \in OnePerParent(index) :
       IF Unreadable(read) THEN Replayed ELSE Reopened(read)
  /\ FreshProcess

\* How many blocks fork_database::pop_block can pop.
ForkPops ==
  IF loose THEN 0
  ELSE Cardinality({k \in 1 .. Len(fhead) : \A l \in k .. Len(fhead) :
                      Upto(fhead, l) \in (index \cup kept \cup {fhead}) \ orphan})

\* close with rewind_on_close: blocks are popped as far as the undo history
\* goes or until one cannot be, and neither file is kept.
restart_rewound ==
  /\ phase = "idle"
  /\ LET k == Smaller(Smaller(deltas, ForkPops), Len(head))
     IN  /\ head' = Upto(head, Len(head) - k)
         /\ libs' = Upto(libs, Len(libs) - k)
         /\ store' = [n \in 0 .. MaxHeight |-> IF n <= Len(head') THEN store[n] ELSE None]
         /\ trxs' = ChainTxs(head')
  /\ deltas' = 0 /\ max_size' = Largest(UndoSizes)
  /\ index' = {head'} /\ orphan' = index' \ {Root}
  /\ fhead' = head' /\ loose' = FALSE /\ kept' = {}
  /\ FreshProcess

RestartNext ==
  \/ Next /\ UNCHANGED restarts
  \/ crash
  \/ restart
  \/ restart_rewound

RestartSpec == Init /\ restarts = 0 /\ [][RestartNext]_restartvars

-----------------------------------------------------------------------------
(* Properties.                                                              *)

\* Whenever the process is killed, in the middle of a fork switch too, the
\* stored blocks below the first gap are one chain, all of whose blocks apply,
\* and that has every block that was irreversible when the last push began.
Replayable ==
  LET b   == store[Contiguous]
      was == IF phase = "idle" THEN [head |-> head, lib |-> Lib] ELSE old
  IN  /\ \A n \in 0 .. Contiguous : store[n] = Upto(b, n)
      /\ Valid(b)
      /\ Len(b) >= Minus(was.lib, 1)
      /\ Upto(b, Minus(was.lib, 1)) = Upto(was.head, Minus(was.lib, 1))
=============================================================================
