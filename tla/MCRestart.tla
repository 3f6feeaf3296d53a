----------------------------- MODULE MCRestart -----------------------------
(* Instances of ChainRestart for TLC.                                       *)
EXTENDS ChainRestart, TLC

CONSTANTS t1, t2

With(t) == [txs |-> <<t>>, good |-> TRUE]

\* Two transactions, one per block.
TxBodies == {With(t1), With(t2), [txs |-> << >>, good |-> TRUE]}
Alike == Permutations(Txs)
=============================================================================
