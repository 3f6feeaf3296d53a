----------------------------- MODULE MCSchedule -----------------------------
(***************************************************************************)
(* An instance of MinerSchedule: four miners in rounds of three, one of    *)
(* them always up.                                                         *)
(***************************************************************************)
EXTENDS MinerSchedule

MCInitialActive == <<1, 2, 3>>
MCLocks == [m \in Miners |-> IF m = 2 THEN 1 ELSE 0]
=============================================================================
