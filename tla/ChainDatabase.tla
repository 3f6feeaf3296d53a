---------------------------- MODULE ChainDatabase ----------------------------
(***************************************************************************)
(* graphene::chain::database: how a node accepts, rejects, switches and    *)
(* unwinds blocks, and what becomes of its pending transactions meanwhile. *)
(*                                                                         *)
(* A block is the sequence of block bodies that leads to it from Root, the *)
(* block the fork database was started with: its id, its parent and its    *)
(* number follow, and two blocks are equal iff their ids are.  A body has  *)
(* transactions, and a flag that says whether it passes the checks that do  *)
(* not concern duplicates.  The object database is a function of the head  *)
(* block (see UndoDatabase), except for the irreversible block number.     *)
(*                                                                         *)
(* push_block runs on one thread without yielding; its loops are steps      *)
(* here, driven by phase, during which nothing else may happen.            *)
(***************************************************************************)
EXTENDS Naturals, Sequences, FiniteSets

CONSTANTS
  Txs,          \* transactions
  NotRepushed,  \* those with a crosschain or coldhot operation
  Bodies,       \* block bodies: [txs : Seq(Txs), good : BOOLEAN]
  None,         \* no block
  MaxHeight,    \* bound: blocks above Root
  MaxItems,     \* bound: items in the fork database when a block arrives
  MaxPending,   \* bound: pending transactions when one more arrives
  MaxReorg,     \* bound: blocks that adopting a pushed block may undo
  ForkSize,     \* fork_database::_max_size (1500)
  UndoSizes     \* what undo_database::set_max_size is given ({20, 1440})

ASSUME ChainAssumption ==
  /\ NotRepushed \subseteq Txs
  /\ \A y \in Bodies : y.txs \in Seq(Txs) /\ y.good \in BOOLEAN
  /\ MaxHeight \in Nat /\ MaxItems \in Nat /\ MaxPending \in Nat
  /\ MaxReorg \in Nat /\ ForkSize \in Nat \ {0}
  /\ UndoSizes \subseteq Nat /\ UndoSizes # {} /\ \A m \in UndoSizes : m >= 2

VARIABLES
  \* the object database and its undo history
  head,      \* head_block_id
  libs,      \* last_irreversible_block_num after each block from Root to head
  deltas,    \* committed deltas the undo database retains
  max_size,  \* undo_database::_max_size
  \* the fork database
  index,     \* _index
  orphan,    \* the items of index whose prev pointer has expired
  fhead,     \* _head
  loose,     \* _head is an item of its own, outside the index and without prev
  kept,      \* items_read, which keeps what a restart read alive
  \* on disk
  store,     \* block_database: the block stored under each height
  trxs,      \* LevelDB: the transactions that fetch_trx finds
  \* transactions
  pending,   \* _pending_tx
  open,      \* _pending_tx_session is valid
  session,   \* the transactions applied in it
  popped,    \* _popped_tx
  ids,       \* _push_transaction_tx_ids
  queue,     \* transactions the pending_transactions_restorer has yet to push
  \* the push_block in progress
  phase,     \* where it is
  new,       \* new_block
  first,     \* branches.first, newest first; what is left of it
  second,    \* branches.second, newest first
  left,      \* the blocks of second still to be applied again
  err,       \* it throws
  old        \* history: head, irreversible number, transactions at the call

chainvars == <<head, libs, deltas, max_size, store, trxs>>
forkvars == <<index, orphan, fhead, loose, kept>>
txvars == <<pending, open, session, popped, ids, queue>>
callvars == <<phase, new, first, second, left, err, old>>
vars == <<chainvars, forkvars, txvars, callvars>>

Root == << >>
Blocks == UNION {[1 .. n -> Bodies] : n \in 0 .. MaxHeight}

ASSUME NoneAssumption == None \notin Blocks

Height(b) == Len(b)
Num(b) == Len(b) + 1
Upto(b, n) == SubSeq(b, 1, n)
Previous(b) == IF b = Root THEN None ELSE Upto(b, Len(b) - 1)
Body(b) == b[Len(b)]
TxsOf(b) == IF b = Root THEN << >> ELSE Body(b).txs

Elements(s) == {s[i] : i \in DOMAIN s}
Smaller(m, n) == IF m <= n THEN m ELSE n
Larger(m, n) == IF m >= n THEN m ELSE n
Minus(m, n) == IF m >= n THEN m - n ELSE 0

Lib == libs[Len(libs)]
ChainTxs(b) == UNION {Elements(b[i].txs) : i \in 1 .. Len(b)}

-----------------------------------------------------------------------------
(* The fork database.                                                       *)

is_known_block(b) == b \in index \/ store[Height(b)] = b

\* _push_block throws: the block is out of the cached range, or does not link.
CannotLink(b) ==
  \/ Num(b) <= Minus(Num(fhead), ForkSize)
  \/ Previous(b) \notin index

\* Erasing items kills the prev pointers of their children.
Erase(idx, gone) ==
  /\ index' = idx \ gone
  /\ orphan' = (orphan \ gone) \cup {b \in idx \ gone : Previous(b) \in gone \ kept}
  /\ UNCHANGED kept

\* The items too far below the new highest block.
Outdated(b) == {c \in index : Num(c) < Minus(Num(b), ForkSize)}

\* Mutant of Inserted: the head is replaced one block too late.
Mutant_Inserted(b) ==
  IF Num(b) > Num(fhead) + 1
  THEN fhead' = b /\ loose' = FALSE /\ Erase(index \cup {b}, Outdated(b))
  ELSE index' = index \cup {b} /\ UNCHANGED <<fhead, orphan, loose, kept>>

\* _push_block: the highest block becomes the head and outdated items go.
Inserted(b) ==
  IF Num(b) > Num(fhead)
  THEN fhead' = b /\ loose' = FALSE /\ Erase(index \cup {b}, Outdated(b))
  ELSE index' = index \cup {b} /\ UNCHANGED <<fhead, orphan, loose, kept>>

\* How far two blocks have the same ancestors.
Common(a, c) ==
  Cardinality({n \in 1 .. Smaller(Len(a), Len(c)) : Upto(a, n) = Upto(c, n)})

\* fetch_branch_from: both branches reach down to height ForkHeight, where the
\* parents are the same block.
ForkHeight(a, c) == Smaller(Smaller(Len(a), Len(c)), Common(a, c) + 1)

Branch(a, n) == [i \in 1 .. Len(a) - n + 1 |-> Upto(a, Len(a) - i + 1)]

Climbs(idx, orp, a, n) ==
  a \in idx /\ \A k \in n + 1 .. Len(a) : Upto(a, k) \in (idx \cup kept) \ orp

\* fetch_block_by_id finds the head, and fork_database::pop_block finds the
\* parent of _head alive.
CanPopFork ==
  /\ is_known_block(head)
  /\ fhead # Root /\ fhead \notin orphan /\ Previous(fhead) \in index \cup kept
  /\ ~loose

\* Mutant of fetch_block_by_number: any block of that number will do.
Mutant_fetch_block_by_number(n) ==
  LET found == {b \in index : Height(b) = n}
  IN  IF found # {} THEN CHOOSE b \in found : TRUE ELSE store[n]

\* database::fetch_block_by_number: the fork database answers when it holds just
\* one block of that number.
fetch_block_by_number(n) ==
  LET found == {b \in index : Height(b) = n}
  IN  IF Cardinality(found) = 1 THEN CHOOSE b \in found : TRUE ELSE store[n]

-----------------------------------------------------------------------------
(* Applying and popping one block.                                          *)

\* _apply_block does not throw: the header builds on the head, no transaction
\* is known or twice in the block, and the rest of the block is good.
Applies(b) ==
  /\ Previous(b) = head
  /\ Body(b).good
  /\ Elements(TxsOf(b)) \cap trxs = {}
  /\ Cardinality(Elements(TxsOf(b))) = Len(TxsOf(b))

\* The transactions whose ids are recorded before _apply_block throws.  A body
\* that is not good fails in one of the checks that follow its transactions.
PassedTxs(b) ==
  IF Previous(b) # head THEN {}
  ELSE {TxsOf(b)[i] : i \in {j \in DOMAIN TxsOf(b) :
          \A k \in 1 .. j : /\ TxsOf(b)[k] \notin trxs
                            /\ \A l \in 1 .. k - 1 : TxsOf(b)[l] # TxsOf(b)[k]}}

\* block_database::store.
Mutant_Stored(b) == store
Stored(b) == [store EXCEPT ![Height(b)] = b]

\* update_last_irreversible_block, with d deltas retained.
Mutant_NewLib(b, d) == Larger(Lib, Num(b) - d + 1)
NewLib(b, d) == Larger(Lib, Num(b) - d)

\* start_undo_session, apply_block, store, commit.
Apply(b, m) ==
  /\ max_size' = m
  /\ deltas' = Smaller(deltas + 1, m)
  /\ head' = b
  /\ libs' = Append(libs, NewLib(b, deltas'))
  /\ store' = Stored(b)
  /\ trxs' = trxs \cup Elements(TxsOf(b))
  /\ ids' = ids \cup Elements(TxsOf(b))

\* start_undo_session, apply_block throws, the session is undone.
FailToApply(b, m) ==
  /\ max_size' = m
  /\ deltas' = Smaller(deltas, m - 1)
  /\ ids' = ids \cup PassedTxs(b)
  /\ UNCHANGED <<head, libs, store, trxs>>

\* database::pop_block.  The fork database and the block store are changed
\* before pop_undo, which throws when no delta is left.
CanPop == deltas > 0

\* Mutant of PopUndone: the block's transactions are put last.
Mutant_PopUndone ==
  /\ head' = Previous(head)
  /\ libs' = Upto(libs, Len(libs) - 1)
  /\ deltas' = deltas - 1
  /\ trxs' = trxs \ Elements(TxsOf(head))
  /\ popped' = popped \o TxsOf(head)

\* Mutant of PopUndone: removed_trxs is not signalled.
MutantIndex_PopUndone ==
  /\ head' = Previous(head)
  /\ libs' = Upto(libs, Len(libs) - 1)
  /\ deltas' = deltas - 1
  /\ popped' = TxsOf(head) \o popped
  /\ UNCHANGED trxs

\* Mutant of PopUndone: the irreversible number is kept.
MutantLib_PopUndone ==
  /\ head' = Previous(head)
  /\ deltas' = deltas - 1
  /\ trxs' = trxs \ Elements(TxsOf(head))
  /\ popped' = TxsOf(head) \o popped
  /\ UNCHANGED libs

\* pop_undo, then removed_trxs; the transactions go first in _popped_tx.
PopUndone ==
  /\ head' = Previous(head)
  /\ libs' = Upto(libs, Len(libs) - 1)
  /\ deltas' = deltas - 1
  /\ trxs' = trxs \ Elements(TxsOf(head))
  /\ popped' = TxsOf(head) \o popped

\* Mutant of pop_block: the block stays in the store.
Mutant_pop_block ==
  /\ CanPopFork
  /\ fhead' = Previous(fhead) /\ loose' = FALSE
  /\ IF CanPop THEN PopUndone
     ELSE UNCHANGED <<head, libs, deltas, trxs, popped>>
  /\ UNCHANGED <<store, max_size, index, orphan, kept, pending, open, session, ids, queue>>

pop_block ==
  /\ CanPopFork
  /\ fhead' = Previous(fhead) /\ loose' = FALSE
  /\ store' = IF store[Height(head)] = head
              THEN [store EXCEPT ![Height(head)] = None] ELSE store
  /\ IF CanPop THEN PopUndone
     ELSE UNCHANGED <<head, libs, deltas, trxs, popped>>
  /\ UNCHANGED <<max_size, index, orphan, kept, pending, open, session, ids, queue>>

-----------------------------------------------------------------------------
(* push_block.                                                              *)

NoCall == [head |-> Root, lib |-> 0, txs |-> {}]

Init ==
  /\ head = Root /\ libs = <<0>> /\ deltas = 0 /\ max_size \in UndoSizes
  /\ index = {Root} /\ orphan = {} /\ fhead = Root
  /\ loose = FALSE /\ kept = {}
  /\ store = [n \in 0 .. MaxHeight |-> IF n = 0 THEN Root ELSE None]
  /\ trxs = {}
  /\ pending = << >> /\ open = FALSE /\ session = {}
  /\ popped = << >> /\ ids = {} /\ queue = << >>
  /\ phase = "idle" /\ new = Root /\ first = << >> /\ second = << >>
  /\ left = << >> /\ err = FALSE /\ old = NoCall

\* The callback of without_pending_transactions has returned or thrown.
Return(failed) ==
  /\ phase' = "restoring"
  /\ err' = failed
  /\ UNCHANGED <<new, first, second, left, old>>

Goto(p) == phase' = p /\ UNCHANGED <<new, first, second, left, err, old>>

\* push_block is entered: the pending state is set aside.  Then, of _push_block,
\* the fork database's part and the choice of what to do.
Enter(b) ==
  /\ new' = b
  /\ old' = [head |-> head, lib |-> Lib, txs |-> ChainTxs(head) \cup Elements(pending)]
  /\ queue' = pending
  /\ pending' = << >> /\ open' = FALSE /\ session' = {}
  /\ ids' = {}
  /\ left' = << >>
  /\ IF CannotLink(b)
     THEN /\ phase' = "restoring" /\ err' = TRUE
          /\ first' = << >> /\ second' = << >>
          /\ UNCHANGED forkvars
     ELSE /\ Inserted(b)
          /\ LET n == ForkHeight(fhead', head)
                 switch == Previous(fhead') # head /\ Num(fhead') > Num(head)
                 linked == /\ Climbs(index', orphan', fhead', n)
                           /\ Climbs(index', orphan', head, n)
             IN  /\ phase' = CASE Previous(fhead') = head -> "direct"
                               [] switch /\ linked -> "popping"
                               [] OTHER -> "restoring"
                 /\ err' = (switch /\ ~linked)
                 /\ first' = IF switch /\ linked THEN Branch(fhead', n) ELSE << >>
                 /\ second' = IF switch /\ linked THEN Branch(head, n) ELSE << >>

\* A peer delivers a block the node does not know (has_item was asked).
push_block(b) ==
  /\ phase = "idle"
  /\ b # Root /\ ~is_known_block(b)
  /\ Cardinality(index) <= MaxItems
  /\ Height(head) - Common(b, head) <= MaxReorg
  /\ Enter(b)
  /\ UNCHANGED <<chainvars, popped>>

\* The block extends the head.
push_direct(m) ==
  /\ phase = "direct"
  /\ IF Applies(new)
     THEN Apply(new, m) /\ UNCHANGED forkvars /\ Return(FALSE)
     ELSE /\ FailToApply(new, m) /\ Erase(index, {new}) /\ UNCHANGED <<fhead, loose>>
          /\ Return(TRUE)
  /\ UNCHANGED <<pending, open, session, popped, queue>>

\* The head is the block both branches grew from.
Mutant_AtFork == head = second[Len(second)]
AtFork == head = Previous(second[Len(second)])

\* The first loop of a fork switch.
switch_pop ==
  /\ phase = "popping"
  /\ IF AtFork
     THEN Goto("pushing") /\ UNCHANGED <<chainvars, forkvars, txvars>>
     ELSE \/ pop_block /\ IF CanPop THEN UNCHANGED callvars ELSE Return(TRUE)
          \/ ~CanPopFork /\ Return(TRUE) /\ UNCHANGED <<chainvars, forkvars, txvars>>

\* The second: the new branch is applied, oldest block first.  The first block
\* that throws is removed with the rest of its branch.
switch_push(m) ==
  /\ phase = "pushing"
  /\ IF first = << >>
     THEN Return(FALSE) /\ UNCHANGED <<chainvars, forkvars, txvars>>
     ELSE LET b == first[Len(first)]
          IN  IF Applies(b)
              THEN /\ Apply(b, m)
                   /\ first' = Upto(first, Len(first) - 1)
                   /\ UNCHANGED <<forkvars, phase, new, second, left, err, old>>
                   /\ UNCHANGED <<pending, open, session, popped, queue>>
              ELSE /\ FailToApply(b, m)
                   /\ Erase(index, Elements(first))
                   /\ fhead' = second[1] /\ loose' = FALSE
                   /\ Goto("unwinding")
                   /\ UNCHANGED <<pending, open, session, popped, queue>>

\* The third, after a failure: pop what was applied of the bad fork.
switch_unwind ==
  /\ phase = "unwinding"
  /\ IF AtFork
     THEN /\ phase' = "reapplying" /\ left' = second
          /\ UNCHANGED <<new, first, second, err, old, chainvars, forkvars, txvars>>
     ELSE \/ pop_block /\ IF CanPop THEN UNCHANGED callvars ELSE Return(TRUE)
          \/ ~CanPopFork /\ Return(TRUE) /\ UNCHANGED <<chainvars, forkvars, txvars>>

\* The fourth: apply the old branch again, then throw the exception on.
switch_reapply(m) ==
  /\ phase = "reapplying"
  /\ UNCHANGED <<pending, open, session, popped, queue, forkvars>>
  /\ IF left = << >>
     THEN Return(TRUE) /\ UNCHANGED <<chainvars, ids>>
     ELSE LET b == left[Len(left)]
          IN  IF Applies(b)
              THEN /\ Apply(b, m)
                   /\ left' = Upto(left, Len(left) - 1)
                   /\ UNCHANGED <<phase, new, first, second, err, old>>
              ELSE FailToApply(b, m) /\ Return(TRUE)

-----------------------------------------------------------------------------
(* Transactions.                                                            *)

\* Mutant of PushTx: no check against the transactions on the chain.
Mutant_PushTx(t) ==
  /\ open' = TRUE
  /\ deltas' = Smaller(deltas, max_size - 2)
  /\ IF t \in session
     THEN UNCHANGED <<pending, session>>
     ELSE pending' = Append(pending, t) /\ session' = session \cup {t}
  /\ UNCHANGED <<head, libs, max_size, store, trxs>>

\* _push_transaction: the pending session and a temporary one take the places
\* of the oldest deltas when the history is full.
PushTx(t) ==
  /\ open' = TRUE
  /\ deltas' = Smaller(deltas, max_size - 2)
  /\ IF t \in trxs \/ t \in session
     THEN UNCHANGED <<pending, session>>
     ELSE pending' = Append(pending, t) /\ session' = session \cup {t}
  /\ UNCHANGED <<head, libs, max_size, store, trxs>>

push_transaction(t) ==
  /\ phase = "idle"
  /\ Len(pending) <= MaxPending
  /\ PushTx(t)
  /\ UNCHANGED <<forkvars, popped, ids, queue, callvars>>

\* validate_transaction: a session that is always undone.
validate_transaction ==
  /\ phase = "idle"
  /\ deltas' = Smaller(deltas, max_size - IF open THEN 2 ELSE 1)
  /\ UNCHANGED <<head, libs, max_size, store, trxs, forkvars, txvars, callvars>>

\* Mutant of restore_popped: the popped transactions are forgotten.
Mutant_restore_popped ==
  /\ phase = "restoring"
  /\ popped # << >>
  /\ popped' = << >>
  /\ UNCHANGED <<chainvars, forkvars, callvars, pending, open, session, ids, queue>>

\* The destructor of pending_transactions_restorer: the popped transactions are
\* pushed, oldest first, but those applied since and those it leaves out.
restore_popped ==
  /\ phase = "restoring"
  /\ popped # << >>
  /\ popped' = Tail(popped)
  /\ IF Head(popped) \in ids \cup NotRepushed
     THEN UNCHANGED <<chainvars, pending, open, session>>
     ELSE PushTx(Head(popped))
  /\ UNCHANGED <<forkvars, callvars, ids, queue>>

\* Mutant of restore_next: a known transaction is kept for later.
Mutant_restore_next ==
  /\ phase = "restoring"
  /\ popped = << >>
  /\ IF queue = << >>
     THEN /\ phase' = "idle" /\ err' = FALSE /\ new' = Root /\ old' = NoCall
          /\ first' = << >> /\ second' = << >> /\ left' = << >>
          /\ ids' = {}
          /\ UNCHANGED <<chainvars, forkvars, pending, open, session, popped, queue>>
     ELSE /\ IF Head(queue) \in trxs
             THEN /\ queue' = Append(Tail(queue), Head(queue))
                  /\ UNCHANGED <<chainvars, pending, open, session>>
             ELSE PushTx(Head(queue)) /\ queue' = Tail(queue)
          /\ UNCHANGED <<forkvars, popped, ids, callvars>>

\* Then those that were pending, but the ones known by now.  At the end the
\* variables of the call are forgotten, and ids, which the next call clears.
restore_next ==
  /\ phase = "restoring"
  /\ popped = << >>
  /\ IF queue = << >>
     THEN /\ phase' = "idle" /\ err' = FALSE /\ new' = Root /\ old' = NoCall
          /\ first' = << >> /\ second' = << >> /\ left' = << >>
          /\ ids' = {}
          /\ UNCHANGED <<chainvars, forkvars, pending, open, session, popped, queue>>
     ELSE /\ IF Head(queue) \in trxs
             THEN UNCHANGED <<chainvars, pending, open, session>>
             ELSE PushTx(Head(queue))
          /\ queue' = Tail(queue)
          /\ UNCHANGED <<forkvars, popped, ids, callvars>>

\* _generate_block: the pending session is rebuilt from the pending
\* transactions that fit, then dropped; the block is pushed.
generate_block(y) ==
  /\ phase = "idle"
  /\ Height(head) < MaxHeight
  /\ y.good /\ Elements(y.txs) \subseteq Elements(pending) \ trxs
  /\ ~is_known_block(Append(head, y))
  /\ deltas' = Smaller(deltas, max_size - IF pending = << >> THEN 1 ELSE 2)
  /\ Enter(Append(head, y))
  /\ UNCHANGED <<head, libs, max_size, store, trxs, popped>>

\* It throws instead, when results have made the block too large.
generate_block_too_large ==
  /\ phase = "idle"
  /\ pending # << >>
  /\ open' = FALSE /\ session' = {}
  /\ deltas' = Smaller(deltas, max_size - 2)
  /\ UNCHANGED <<head, libs, max_size, store, trxs, forkvars, callvars>>
  /\ UNCHANGED <<pending, popped, ids, queue>>

\* The steps of a push_block in progress.
CallStep ==
  \/ \E m \in UndoSizes : push_direct(m) \/ switch_push(m) \/ switch_reapply(m)
  \/ switch_pop
  \/ switch_unwind
  \/ restore_popped
  \/ restore_next

Next ==
  \/ CallStep
  \/ \E b \in Blocks : push_block(b)
  \/ \E t \in Txs : push_transaction(t)
  \/ validate_transaction
  \/ \E y \in Bodies : generate_block(y)
  \/ generate_block_too_large

Spec == Init /\ [][Next]_vars

\* The thread that runs push_block keeps running: no step of it waits.
FairSpec == Spec /\ WF_vars(CallStep)

-----------------------------------------------------------------------------
(* Properties.                                                              *)

Phases ==
  {"idle", "direct", "popping", "pushing", "unwinding", "reapplying", "restoring"}

\* Every variable has its type.
TypeOK ==
  /\ head \in Blocks /\ fhead \in Blocks /\ new \in Blocks
  /\ libs \in Seq(Nat) /\ Len(libs) = Len(head) + 1
  /\ max_size \in UndoSizes /\ deltas \in 0 .. max_size
  /\ index \subseteq Blocks /\ kept \subseteq Blocks
  /\ orphan \subseteq index /\ loose \in BOOLEAN
  /\ store \in [0 .. MaxHeight -> Blocks \cup {None}]
  /\ trxs \subseteq Txs /\ session \subseteq Txs /\ ids \subseteq Txs
  /\ pending \in Seq(Txs) /\ popped \in Seq(Txs) /\ queue \in Seq(Txs)
  /\ open \in BOOLEAN /\ err \in BOOLEAN
  /\ phase \in Phases
  /\ first \in Seq(Blocks) /\ second \in Seq(Blocks) /\ left \in Seq(Blocks)
  /\ old \in [head : Blocks, lib : Nat, txs : SUBSET Txs]

\* push_block is about to return or to throw.
Done == phase = "restoring" /\ popped = << >> /\ queue = << >>

\* The block store holds the current chain and nothing above it, whatever was
\* popped, applied and restored: last() is the head that open() expects, and
\* a replay rebuilds this chain.
StoreHoldsChain ==
  Done =>
    \A n \in 0 .. MaxHeight :
      store[n] = IF n <= Height(head) THEN Upto(head, n) ELSE None

\* No transaction is on the chain twice, and the LevelDB index the duplicate
\* check reads has exactly the transactions of the chain.
AppliedOnce ==
  /\ trxs = ChainTxs(head)
  /\ \A i, j \in 1 .. Len(head) :
       \A t \in Elements(head[i].txs) \cap Elements(head[j].txs) : i = j

\* "Push block may fail in which case every partial change is unwound": when
\* push_block throws the head is the one it found, and when it returns the
\* chain is not shorter.
Unwound ==
  Done => (IF err THEN head = old.head ELSE Height(head) >= Height(old.head))

\* Fork switches never reach the irreversible block, and its number never
\* goes back, although it is itself undone with every popped block.
IrreversibleStays ==
  Done =>
    /\ Lib >= old.lib
    /\ Upto(head, Minus(old.lib, 1)) = Upto(old.head, Minus(old.lib, 1))

\* A transaction that was on the chain or pending when a block was pushed is
\* on the chain or pending afterwards, unless it has an operation that the
\* restorer leaves out.
NoTxLost ==
  Done => old.txs \ NotRepushed \subseteq ChainTxs(head) \cup Elements(pending)

\* The transactions of popped blocks are pending again in the order they had
\* on the chain: a transaction that needs an earlier one finds it applied.
ChainOrderKept ==
  Done =>
    \A m, n \in 1 .. Len(old.head), i, j \in 1 .. Len(pending) :
      (/\ m < n
       /\ pending[i] \in Elements(old.head[m].txs)
       /\ pending[j] \in Elements(old.head[n].txs)) => i < j

\* No pending transaction is on the chain, and the pending session holds no
\* effect of a transaction that is not pending.
PendingFresh ==
  phase = "idle" =>
    /\ Elements(pending) \cap trxs = {}
    /\ session \subseteq Elements(pending)

\* A block looked up by number is the one on the current chain, although the
\* fork database is asked before the block store.
FetchOnChain ==
  Done => \A n \in 0 .. Height(head) : fetch_block_by_number(n) = Upto(head, n)

Valid(b) ==
  /\ \A i \in 1 .. Len(b) : b[i].good /\ Cardinality(Elements(b[i].txs)) = Len(b[i].txs)
  /\ \A i, j \in 1 .. Len(b) : Elements(b[i].txs) \cap Elements(b[j].txs) # {} => i = j

\* A prev pointer of the fork database has expired only where it led to a block
\* of the chain that ends in h, as happens when the lowest items are pruned, and
\* not where a branch lost its lower part.
LinkedTo(h) == \A b \in orphan : Height(b) <= Height(h) /\ Previous(b) = Upto(h, Height(b) - 1)

\* While every branch in the fork database is linked to the current chain, a
\* valid block that extends the head is applied, whatever stale head the fork
\* database keeps after a failed push or a fork switch.
ExtensionApplied ==
  (Done /\ LinkedTo(old.head) /\ Previous(new) = old.head /\ Valid(new)) => head = new

\* Every push_block ends, in a return or an exception: the loops of a fork
\* switch and of the restorer finish.
PushReturns == phase # "idle" ~> phase = "idle"

\* "As long as blocks are pushed in order the fork database will maintain a
\* linked tree of all blocks that branch from the start_block": a valid block
\* whose parent is in the tree is in it once pushed.
TreeKeepsValid ==
  (Done /\ Previous(new) \in index /\ Valid(new)) => new \in index
=============================================================================
