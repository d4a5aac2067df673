------------------------- MODULE MCPaymentsPromises -------------------------
(* Small instances of PaymentsPromises for TLC.                            *)
EXTENDS PaymentsPromises, TLC

Symmetry == Permutations(Txs)
=============================================================================
