---------------------------- MODULE UndoDatabase ----------------------------
(***************************************************************************)
(* graphene::db::undo_database: nested undo sessions over the object        *)
(* database, recorded as deltas (undo_state), the older deltas spilled from *)
(* memory (back) to a content-addressed LevelDB store (state_storage) whose *)
(* keys are queued in _stack.                                               *)
(*                                                                         *)
(* The object database is one index of objects with consecutive ids, plus  *)
(* the one field of the dynamic global property object that every applied  *)
(* block changes, the head block number.  The model stops where an FC_ASSERT *)
(* of the undo code fires (failed).                                         *)
(***************************************************************************)
EXTENDS Naturals, Sequences, FiniteSets

CONSTANTS
  Vals,       \* what an object may hold
  None,       \* no object / no entry
  MaxId,      \* bound: object ids are 0 .. MaxId-1
  MaxHead,    \* bound: highest head block number
  MaxDepth,   \* sessions open at once (the pending session and one under it)
  MaxBack,    \* max_back_size: deltas kept in memory (20)
  Slack,      \* deltas over MaxBack that trigger a spill (10)
  ReloadAt,   \* back this short reloads spilled deltas (5)
  MaxSizes,   \* values given to set_max_size ({20, 1440})
  DefaultMax  \* _max_size of a fresh undo_database (1440)

ASSUME ConstantsAssumption ==
  /\ None \notin Vals /\ None \notin Nat
  /\ MaxId \in Nat /\ MaxHead \in Nat /\ MaxDepth \in Nat
  /\ MaxBack \in Nat /\ Slack \in Nat /\ ReloadAt \in Nat
  /\ MaxDepth >= 1 /\ MaxBack > MaxDepth /\ Slack >= 1
  /\ 1 <= ReloadAt /\ ReloadAt < MaxBack
  /\ MaxSizes \subseteq Nat /\ \A m \in MaxSizes : m >= MaxBack
  /\ DefaultMax \in MaxSizes

VARIABLES
  db,        \* the object database
  back,      \* deque<undo_state> back: the newest deltas, newest last
  stack,     \* deque<undo_state_id_type> _stack: keys of the spilled ones
  storage,   \* the keys present in state_storage
  active,    \* _active_sessions
  max_size,  \* _max_size
  failed,    \* an FC_ASSERT of the undo code fired
  snaps      \* history: the database at the start of each surviving session

vars == <<db, back, stack, storage, active, max_size, failed, snaps>>

Ids == 0 .. MaxId - 1
Slots == Vals \cup {None}

Databases == [objs : [Ids -> Slots], next : 0 .. MaxId, head : 0 .. MaxHead]

\* A key is the hash of the packed delta, so equal deltas have equal keys: the
\* model uses the delta itself as its key.
UndoState ==
  [old : [Ids -> Slots], next : (0 .. MaxId) \cup {None}, new : SUBSET Ids,
   removed : [Ids -> Slots], head : (0 .. MaxHead) \cup {None}]

Nothing == [i \in Ids |-> None]

EmptyState ==
  [old |-> Nothing, next |-> None, new |-> {}, removed |-> Nothing, head |-> None]

Smaller(m, n) == IF m <= n THEN m ELSE n

Prefix(s, n) == SubSeq(s, 1, n)
Suffix(s, n) == SubSeq(s, Len(s) - n + 1, Len(s))
Elements(s) == {s[i] : i \in DOMAIN s}
Top == back[Len(back)]
ReplaceTop(e) == [back EXCEPT ![Len(back)] = e]

-----------------------------------------------------------------------------
(* The deltas.                                                              *)

\* on_create: the first creation of a session saves the index's next id.
on_create(e, i) ==
  [e EXCEPT !.next = IF @ = None THEN i ELSE @, !.new = @ \cup {i}]

\* on_modify: the first modification of an object that is not new saves it.
on_modify(e, i, v) ==
  IF i \in e.new \/ e.old[i] # None THEN e ELSE [e EXCEPT !.old[i] = v]

\* Mutant of on_remove: every removal is remembered, with the latest value.
Mutant_on_remove(e, i, v) ==
  [e EXCEPT !.removed[i] = v, !.old[i] = None, !.new = @ \ {i}]

\* on_remove: a new object leaves no trace, a modified one is remembered by its
\* oldest value.
on_remove(e, i, v) ==
  CASE i \in e.new -> [e EXCEPT !.new = @ \ {i}]
    [] i \notin e.new /\ e.old[i] # None ->
         [e EXCEPT !.removed[i] = e.old[i], !.old[i] = None]
    [] OTHER -> IF e.removed[i] # None THEN e ELSE [e EXCEPT !.removed[i] = v]

\* on_modify of the dynamic global property object, once per block.
on_modify_head(e, h) == [e EXCEPT !.head = h]

\* merge: the delta of a session followed by the delta of its child.
merge_states(a, b) ==
  [old |-> [i \in Ids |->
       CASE b.removed[i] # None -> None
         [] b.removed[i] = None /\ (i \in a.new \/ a.old[i] # None) -> a.old[i]
         [] OTHER -> b.old[i]],
   next |-> IF a.next # None THEN a.next ELSE b.next,
   new |-> {i \in a.new \cup b.new : ~(i \in a.new /\ b.removed[i] # None)},
   removed |-> [i \in Ids |->
       CASE b.removed[i] # None /\ i \in a.new -> a.removed[i]
         [] b.removed[i] # None /\ i \notin a.new /\ a.old[i] # None -> a.old[i]
         [] b.removed[i] # None /\ i \notin a.new /\ a.old[i] = None -> b.removed[i]
         [] OTHER -> a.removed[i]],
   head |-> IF a.head # None THEN a.head ELSE b.head]

\* Mutant of Undone: the index's next id is not reset.
Mutant_Undone(e, d) ==
  [objs |-> [i \in Ids |->
       CASE e.removed[i] # None -> e.removed[i]
         [] e.removed[i] = None /\ i \in e.new -> None
         [] e.removed[i] = None /\ i \notin e.new /\ e.old[i] # None -> e.old[i]
         [] OTHER -> d.objs[i]],
   next |-> d.next,
   head |-> IF e.head # None THEN e.head ELSE d.head]

\* undo, pop_commit: put back the old values, erase the new objects, reset the
\* next id, insert the removed objects.
Undone(e, d) ==
  [objs |-> [i \in Ids |->
       CASE e.removed[i] # None -> e.removed[i]
         [] e.removed[i] = None /\ i \in e.new -> None
         [] e.removed[i] = None /\ i \notin e.new /\ e.old[i] # None -> e.old[i]
         [] OTHER -> d.objs[i]],
   next |-> IF e.next # None THEN e.next ELSE d.next,
   head |-> IF e.head # None THEN e.head ELSE d.head]

\* get_object finds every object to restore or erase, and insert finds the ids
\* of the removed ones free.
Undoable(e, d) ==
  \A i \in Ids :
    /\ (i \in e.new \/ e.old[i] # None) => d.objs[i] # None
    /\ e.removed[i] # None => (d.objs[i] = None \/ i \in e.new)

-----------------------------------------------------------------------------
(* Memory and storage.                                                      *)

\* How many of the oldest deltas leave back when a session starts with back at
\* b, and which of those are stored: only those popped while back is shorter
\* than max_size.
SpillCount(b) == IF Len(b) >= MaxBack + Slack THEN Len(b) - MaxBack + 1 ELSE 0

\* Mutant of Spilled: a delta is popped before the front is stored.
Mutant_Spilled(b) ==
  LET first == IF Len(b) + 2 > max_size THEN Len(b) + 2 - max_size ELSE 1
  IN  IF SpillCount(b) = 0 THEN << >> ELSE SubSeq(b, first + 1, SpillCount(b) + 1)

Spilled(b) ==
  LET first == IF Len(b) + 2 > max_size THEN Len(b) + 2 - max_size ELSE 1
  IN  SubSeq(b, first, SpillCount(b))

\* The deltas reloaded from storage once b is short.
RefillCount(b) ==
  IF stack # << >> /\ Len(b) <= ReloadAt
  THEN Smaller(Len(stack), MaxBack - Len(b)) ELSE 0

\* get_state succeeds for each key in turn, each being removed after its load.
Loadable(ids) ==
  /\ Elements(ids) \subseteq storage
  /\ Cardinality(Elements(ids)) = Len(ids)

\* Mutant of Refilled: reloaded deltas stay in the store.
Mutant_Refilled(b) ==
  LET ids == Suffix(stack, RefillCount(b))
  IN  /\ back' = ids \o b
      /\ stack' = Prefix(stack, Len(stack) - RefillCount(b))
      /\ storage' = storage

Refilled(b) ==
  LET ids == Suffix(stack, RefillCount(b))
  IN  /\ back' = ids \o b
      /\ stack' = Prefix(stack, Len(stack) - RefillCount(b))
      /\ storage' = storage \ Elements(ids)

FailsToLoad(b) == ~Loadable(Suffix(stack, RefillCount(b)))

-----------------------------------------------------------------------------
Init ==
  /\ db = [objs |-> Nothing, next |-> 0, head |-> 0]
  /\ back = << >> /\ stack = << >> /\ storage = {}
  /\ active = 0
  /\ max_size = DefaultMax
  /\ failed = FALSE
  /\ snaps = << >>

set_max_size(m) ==
  /\ active = 0
  /\ max_size' = m
  /\ UNCHANGED <<db, back, stack, storage, active, failed, snaps>>

\* A new delta is pushed, back is spilled when it has grown by Slack, then the
\* oldest deltas beyond max_size are dropped, from storage first.
start_undo_session ==
  /\ active < MaxDepth
  /\ LET b == Append(back, EmptyState)
         kept == SubSeq(b, SpillCount(b) + 1, Len(b))
         queue == stack \o Spilled(b)
         total == Len(queue) + Len(kept)
         excess == IF total > max_size THEN total - max_size ELSE 0
         fromStack == Smaller(excess, Len(queue))
     IN  /\ back' = SubSeq(kept, excess - fromStack + 1, Len(kept))
         /\ stack' = SubSeq(queue, fromStack + 1, Len(queue))
         /\ storage' = (storage \cup Elements(Spilled(b)))
                          \ Elements(Prefix(queue, fromStack))
  /\ active' = active + 1
  /\ snaps' = Append(snaps, db)
  /\ UNCHANGED <<db, max_size, failed>>

create(v) ==
  /\ active > 0
  /\ db.next < MaxId
  /\ db' = [db EXCEPT !.objs[db.next] = v, !.next = @ + 1]
  /\ back' = ReplaceTop(on_create(Top, db.next))
  /\ UNCHANGED <<stack, storage, active, max_size, failed, snaps>>

modify(i, v) ==
  /\ active > 0
  /\ db.objs[i] # None
  /\ db' = [db EXCEPT !.objs[i] = v]
  /\ back' = ReplaceTop(on_modify(Top, i, db.objs[i]))
  /\ UNCHANGED <<stack, storage, active, max_size, failed, snaps>>

remove(i) ==
  /\ active > 0
  /\ db.objs[i] # None
  /\ db' = [db EXCEPT !.objs[i] = None]
  /\ back' = ReplaceTop(on_remove(Top, i, db.objs[i]))
  /\ UNCHANGED <<stack, storage, active, max_size, failed, snaps>>

\* update_global_dynamic_data: the one change that every applied block makes.
update_head ==
  /\ active = 1
  /\ Top.head = None
  /\ db.head < MaxHead
  /\ db' = [db EXCEPT !.head = @ + 1]
  /\ back' = ReplaceTop(on_modify_head(Top, db.head))
  /\ UNCHANGED <<stack, storage, active, max_size, failed, snaps>>

\* The work shared by undo and pop_commit.
Rollback ==
  LET b == Prefix(back, Len(back) - 1)
  IN  IF Undoable(Top, db) /\ ~FailsToLoad(b)
      THEN /\ db' = Undone(Top, db)
           /\ Refilled(b)
           /\ snaps' = Prefix(snaps, Len(snaps) - 1)
           /\ UNCHANGED failed
      ELSE /\ failed' = TRUE
           /\ UNCHANGED <<db, back, stack, storage, snaps>>

undo ==
  /\ active > 0
  /\ back # << >>
  /\ Rollback
  /\ active' = IF failed' THEN active ELSE active - 1
  /\ UNCHANGED max_size

\* A child session is folded into its parent.
merge ==
  /\ active > 1
  /\ IF Len(back) >= 2 /\ ~FailsToLoad(Prefix(back, Len(back) - 1))
     THEN /\ LET b == Prefix(back, Len(back) - 1)
             IN  Refilled([b EXCEPT ![Len(b)] = merge_states(@, Top)])
          /\ snaps' = Prefix(snaps, Len(snaps) - 1)
          /\ UNCHANGED failed
     ELSE /\ failed' = TRUE
          /\ UNCHANGED <<back, stack, storage, snaps>>
  /\ active' = IF failed' THEN active ELSE active - 1
  /\ UNCHANGED <<db, max_size>>

\* Mutant of commit: a session without a block is committed.
Mutant_commit ==
  /\ active = 1
  /\ active' = 0
  /\ UNCHANGED <<db, back, stack, storage, max_size, failed, snaps>>

\* A session is committed only after apply_block succeeded in it, and with no
\* other session open.
commit ==
  /\ active = 1
  /\ Top.head # None
  /\ active' = 0
  /\ UNCHANGED <<db, back, stack, storage, max_size, failed, snaps>>

\* Mutant of pop_commit: it also leaves a session.
Mutant_pop_commit ==
  /\ active = 0
  /\ back # << >>
  /\ Rollback
  /\ active' = active - 1
  /\ UNCHANGED max_size

pop_commit ==
  /\ active = 0
  /\ back # << >>
  /\ Rollback
  /\ UNCHANGED <<active, max_size>>

\* A clean shutdown and the next start: save_to_file stores back and writes the
\* queue of keys, from_file reads it and loads the newest deltas.
restart ==
  /\ active = 0
  /\ back # << >>
  /\ LET all == stack \o back
         n == Smaller(MaxBack, Len(all))
         loaded == Suffix(all, n)
         saved == storage \cup Elements(back)
     IN  IF Elements(loaded) \subseteq saved /\ Cardinality(Elements(loaded)) = n
         THEN /\ back' = loaded
              /\ stack' = Prefix(all, Len(all) - n)
              /\ storage' = saved \ Elements(loaded)
              /\ UNCHANGED failed
         ELSE /\ failed' = TRUE
              /\ UNCHANGED <<back, stack, storage>>
  /\ max_size' = DefaultMax
  /\ UNCHANGED <<db, active, snaps>>

Step ==
  \/ \E m \in MaxSizes : set_max_size(m)
  \/ start_undo_session
  \/ \E v \in Vals : create(v)
  \/ \E i \in Ids, v \in Vals : modify(i, v)
  \/ \E i \in Ids : remove(i)
  \/ update_head
  \/ undo
  \/ merge
  \/ commit
  \/ pop_commit
  \/ restart

Next == ~failed /\ Step

Spec == Init /\ [][Next]_vars

-----------------------------------------------------------------------------
(* Properties.                                                              *)

\* Every variable has its type; the session counter stays within the nesting
\* the callers use.
TypeOK ==
  /\ db \in Databases
  /\ back \in Seq(UndoState) /\ stack \in Seq(UndoState)
  /\ storage \subseteq UndoState
  /\ active \in 0 .. MaxDepth
  /\ max_size \in MaxSizes
  /\ failed \in BOOLEAN
  /\ snaps \in Seq(Databases)

\* Delta e says of object i what database c had there and d has not: at most
\* one of its three maps names it.
RecordsAt(e, c, d, i) ==
  \/ /\ i \in e.new /\ e.old[i] = None /\ e.removed[i] = None
     /\ c.objs[i] = None /\ d.objs[i] # None /\ i >= c.next
  \/ /\ i \notin e.new /\ e.old[i] # None /\ e.removed[i] = None
     /\ c.objs[i] = e.old[i] /\ d.objs[i] # None
  \/ /\ i \notin e.new /\ e.old[i] = None /\ e.removed[i] # None
     /\ c.objs[i] = e.removed[i] /\ d.objs[i] = None
  \/ /\ i \notin e.new /\ e.old[i] = None /\ e.removed[i] = None
     /\ c.objs[i] = d.objs[i]

\* Delta e leads from database d back to database c.
Records(e, c, d) ==
  /\ \A i \in Ids : RecordsAt(e, c, d, i)
  /\ IF e.next = None THEN c.next = d.next ELSE c.next = e.next /\ e.next <= d.next
  /\ IF e.head = None THEN c.head = d.head ELSE c.head = e.head

All == stack \o back

\* The database when the k-th of the sessions sn started; the current one last.
SnapAt(sn, d, k) == IF k = Len(sn) + 1 THEN d ELSE sn[k]

\* The deltas all are those of the newest sessions of sn without a gap.
Covers(all, sn, d) ==
  /\ Len(all) <= Len(sn)
  /\ \A i \in 1 .. Len(all) :
       Records(all[i], SnapAt(sn, d, Len(sn) - Len(all) + i),
                       SnapAt(sn, d, Len(sn) - Len(all) + i + 1))

\* Whatever mix of creations, modifications, removals, merges, spills, reloads
\* and restarts led here, the retained deltas are those of the newest sessions
\* without a gap, and each leads from its successor's database to the one
\* its own session started from.
Restorable == Covers(All, snaps, db)

\* The LevelDB store holds exactly the keys queued in _stack, each once: no key
\* dangles, and none is leaked when deltas are trimmed or reloaded.
StorageExact ==
  /\ storage = Elements(stack)
  /\ Cardinality(storage) = Len(stack)

\* No FC_ASSERT of undo, merge, pop_commit or from_file ever fires (in a
\* session destructor it would end the process).
NoAssertFires == ~failed

Snapshots == INSTANCE SnapshotStack

\* Undo, merge and pop_commit do to the database what they would do on a stack
\* of full snapshots.
ImplementsSnapshots == Snapshots!Spec

\* "Removes the most recent block from the database and undoes any changes it
\* made" (pop_block): popping the newest committed session restores the
\* database that session started from.
PopUndoesBlock ==
  [][(active = 0 /\ Len(snaps') < Len(snaps)) => db' = snaps[Len(snaps)]]_vars
=============================================================================
