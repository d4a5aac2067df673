----------------------------- MODULE MCPayments -----------------------------
(* Small instances of Payments for TLC.                                    *)
EXTENDS Payments, TLC

(* No action distinguishes two transactions, request handlers or servers;  *)
(* intents and actions are numbered by age and have no symmetry.           *)
Symmetry ==
    Permutations(Txs) \cup Permutations(Handlers) \cup Permutations(Scanners)
=============================================================================
