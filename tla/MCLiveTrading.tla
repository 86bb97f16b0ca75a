--------------------------- MODULE MCLiveTrading ---------------------------
(***************************************************************************)
(* LiveTrading on small instances.  Attempts and workers are                *)
(* interchangeable: no definition orders them, so runs of safety            *)
(* properties may identify states that differ by a permutation.             *)
(***************************************************************************)
EXTENDS LiveTrading, TLC

Interchangeable == Permutations(Exec) \union Permutations(Worker)
=============================================================================
