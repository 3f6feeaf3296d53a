---------------------------- MODULE SnapshotStack ----------------------------
(***************************************************************************)
(* What the undo database promises its callers, with no deltas, no spill    *)
(* and no bound: a current database, and the snapshot taken at the start of  *)
(* every session that is still open or was committed.                       *)
(*                                                                         *)
(* Undoing a session or popping a committed one brings back exactly the     *)
(* snapshot taken when it started; merging a session into its parent        *)
(* forgets the snapshot and keeps the database.                             *)
(***************************************************************************)
EXTENDS Naturals, Sequences

CONSTANT Databases   \* every value the database may have

VARIABLES
  db,       \* the current database
  snaps     \* snaps[i]: the database when the i-th surviving session started

Init ==
  /\ db \in Databases
  /\ snaps = << >>

Begin ==
  /\ snaps' = Append(snaps, db)
  /\ UNCHANGED db

Change ==
  /\ snaps # << >>
  /\ db' \in Databases
  /\ UNCHANGED snaps

Merge ==
  /\ Len(snaps) >= 2
  /\ snaps' = SubSeq(snaps, 1, Len(snaps) - 1)
  /\ UNCHANGED db

Rollback ==
  /\ snaps # << >>
  /\ db' = snaps[Len(snaps)]
  /\ snaps' = SubSeq(snaps, 1, Len(snaps) - 1)

Next == Begin \/ Change \/ Merge \/ Rollback

Spec == Init /\ [][Next]_<<db, snaps>>
=============================================================================
