---------------------------- MODULE MCLiveSetup -----------------------------
(***************************************************************************)
(* Two parts of live trading that share no state, in one run: the trades,  *)
(* or the preparation of the wallet that LiveTrading takes as one step.    *)
(* The first state picks the part that moves.  Attempts are named in the    *)
(* order they are accepted in, and preparations are interchangeable.       *)
(***************************************************************************)
EXTENDS LiveTrading, WalletSetup, TLC

CONSTANTS e1, e2, e3
Interchangeable == Permutations(Preparation)

VARIABLE part
bothVars == <<part, vars, setupVars>>

BothInit ==
    /\ part \in {"trades", "setup"} /\ Init /\ SetupInit

Accepted(e) == exStatus'[e] # "NONE"
InOrder == (Accepted(e2) => Accepted(e1)) /\ (Accepted(e3) => Accepted(e2))

BothNext ==
    /\ UNCHANGED part
    /\ \/ part = "trades" /\ Next /\ InOrder /\ UNCHANGED setupVars
       \/ part = "setup" /\ SetupNext /\ UNCHANGED vars

BothSpec == BothInit /\ [][BothNext]_bothVars
=============================================================================
