------------------------------ MODULE MCElection ------------------------------
(***************************************************************************)
(* An instance of WallfacerElection: two permanent wallfacers and one      *)
(* external, two candidates, and two miners of whom one alone has the      *)
(* weight that a referendum needs.                                         *)
(***************************************************************************)
EXTENDS WallfacerElection, TLC

CONSTANTS p, q, e, x, y

MCWeights == {<<3, 1>>, <<1, 3>>}
MCElections == {<<x :> p>>, <<x :> p, y :> q>>}
MCReferenda == {<<x :> e>>, <<x :> e @@ y :> e>>, <<y :> e, x :> e>>}
=============================================================================
