------------------------- MODULE MCTradingProfiles -------------------------
(***************************************************************************)
(* TradingProfiles on small instances.  Attempts, threads, requests and    *)
(* venues are interchangeable; amounts, seasons and positions are not.     *)
(***************************************************************************)
EXTENDS TradingProfiles, TLC

Interchangeable ==
    Permutations(Exec) \union Permutations(Worker) \union Permutations(Request)
        \union Permutations(Venue)
=============================================================================
