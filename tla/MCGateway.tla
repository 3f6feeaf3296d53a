------------------------------ MODULE MCGateway ------------------------------
(***************************************************************************)
(* Instances of CrosschainWithdraw: withdrawals of two accounts, of which  *)
(* one needs the deposit first; four wallfacers of whom three must sign.   *)
(***************************************************************************)
EXTENDS CrosschainWithdraw, TLC

CONSTANTS a1, a2, w1, w2, d1, g1, g2, g3, g4

MCOwner == [t \in Withdraws \cup Deposits |-> IF t = w2 THEN a2 ELSE a1]
MCAmount == [t \in Withdraws \cup Deposits |->
               IF t = d1 THEN 1 ELSE IF t = w2 THEN 2 ELSE 3]
MCBalance == (a1 :> 2) @@ (a2 :> 2)
=============================================================================
