------------------------------- MODULE MCSync -------------------------------
(***************************************************************************)
(* Instances of PeerSync.                                                  *)
(***************************************************************************)
EXTENDS PeerSync, TLC
=============================================================================
