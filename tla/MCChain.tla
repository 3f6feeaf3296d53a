------------------------------ MODULE MCChain ------------------------------
(* Instances of ChainDatabase for TLC.                                      *)
EXTENDS ChainDatabase

CONSTANTS t1, t2

Plain == [txs |-> << >>, good |-> TRUE]
Bad == [txs |-> << >>, good |-> FALSE]
With(t) == [txs |-> <<t>>, good |-> TRUE]

\* Two transactions, one per block.
TxBodies == {With(t1), With(t2), Plain}
\* A chain of empty blocks with forks and invalid blocks.
ForkBodies == {Plain, Bad, With(t1)}
=============================================================================
