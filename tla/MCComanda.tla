----------------------------- MODULE MCComanda -----------------------------
(* A salon with few appointments and products, for TLC.                    *)
EXTENDS Comanda, TLC
Symmetry == Permutations(Txs) \cup Permutations(Appts)
=============================================================================
