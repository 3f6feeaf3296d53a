------------------------------- MODULE MCUndo -------------------------------
(* Instances of UndoDatabase for TLC.                                       *)
EXTENDS UndoDatabase
=============================================================================
