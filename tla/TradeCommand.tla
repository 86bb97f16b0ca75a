---------------------------- MODULE TradeCommand ----------------------------
(***************************************************************************)
(* What the trading backend promises about a command of the user: it is    *)
(* accepted once, it takes effect on the chain at most once and through    *)
(* one transaction, and when the user is told that it failed it has had no *)
(* effect and never will.  A command whose transaction was signed again    *)
(* without knowing the fate of the first is in doubt: it takes effect      *)
(* twice at most, and the report of its failure may be wrong.              *)
(***************************************************************************)
CONSTANTS Command, Number

VARIABLES
    accepted,   \* commands the API has accepted
    refused,    \* commands reported as failed
    doubtful,   \* commands signed again in ignorance of their effect
    effect      \* numbers of the transactions of a command that took effect

cmdVars == <<accepted, refused, doubtful, effect>>

CommandInit ==
    /\ accepted = {}
    /\ refused = {}
    /\ doubtful = {}
    /\ effect = [c \in Command |-> {}]

Accept(c) ==
    /\ c \notin accepted
    /\ accepted' = accepted \union {c}
    /\ UNCHANGED <<refused, doubtful, effect>>

TakeEffect(c, k) ==
    /\ c \in accepted \ refused
    /\ effect[c] = {}
    /\ effect' = [effect EXCEPT ![c] = {k}]
    /\ UNCHANGED <<accepted, refused, doubtful>>

Doubt(c) ==
    /\ c \in accepted \ refused
    /\ doubtful' = doubtful \union {c}
    /\ UNCHANGED <<accepted, refused, effect>>

TakeEffectInDoubt(c, k) ==
    /\ c \in doubtful
    /\ \E j \in Number : effect[c] \subseteq {j}
    /\ effect' = [effect EXCEPT ![c] = @ \union {k}]
    /\ UNCHANGED <<accepted, refused, doubtful>>

Refuse(c) ==
    /\ c \in accepted \ refused
    /\ effect[c] = {} \/ c \in doubtful
    /\ refused' = refused \union {c}
    /\ UNCHANGED <<accepted, doubtful, effect>>

CommandNext ==
    \E c \in Command :
        \/ Accept(c) \/ Doubt(c) \/ Refuse(c)
        \/ \E k \in Number : TakeEffect(c, k) \/ TakeEffectInDoubt(c, k)

CommandSpec == CommandInit /\ [][CommandNext]_cmdVars
=============================================================================
