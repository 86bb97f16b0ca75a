------------------------------ MODULE MCPlatform ------------------------------
(***************************************************************************)
(* Parts of the platform that share no state, checked in one run: the      *)
(* first state picks the part that moves.                                  *)
(***************************************************************************)
EXTENDS WalletPayments, SolanaWithdrawal, TradeReconciliation, AvantisService,
        MarketHistory, TradeClient, LocalExecution

CONSTANTS p1, p2, s1, s2, x1, o1, o2, u1

VARIABLE part

platformVars ==
  <<part, vars, solanaVars, reconVars, avantisVars, historyVars, clientVars,
    localVars>>

PlatformInit ==
  /\ part \in {"arbitrum", "solana", "reconciliation", "avantis", "history", "client",
              "local"}
  /\ Init /\ SolanaInit /\ ReconInit /\ AvantisInit /\ HistoryInit /\ ClientInit
  /\ LocalInit
  /\ part # "arbitrum" => kind = [p \in Payment |-> "withdrawal"]
  /\ part # "solana" => wallet = Total
  /\ \A p, q \in Payment : SenderOf(p) = SenderOf(q)
  /\ kind[p2] = "withdrawal" => kind[p1] = "withdrawal"

\* Payments of one kind are interchangeable: the first is taken first, and it is
\* the one that two jobs run at once.
InOrder ==
  /\ pc'[<<p2, s2>>] = "idle"
  /\ pc[<<p1, s2>>] = "idle" /\ pc'[<<p1, s2>>] # "idle" => pc[<<p1, s1>>] # "idle"
  /\ kind[p1] = kind[p2] /\ status'[p2] # "none" => status'[p1] # "none"

\* Two sessions are open at a time, and one where the end of a trade closed twice was
\* told of; it is told of twice beside one close.  Money moves beside the trade before
\* the end is told of and beside one close.
FewAtOnce ==
  /\ Cardinality({a \in Actor : session'[a] # {}})
       <= IF told' > 0 /\ Len(book') = 2 THEN 1 ELSE 2
  /\ told' + Len(book') <= 3
  /\ moved' # 0 => paid' # {} /\ told' = 0 /\ Len(book') <= 1

\* A position matters to withdrawals, with no other payment beside them.  The market
\* on the screen matters to quotes: before the app has any it may look at another
\* one and come back.
PlatformNext ==
  /\ UNCHANGED part
  /\ \/ /\ part = "arbitrum" /\ Next /\ InOrder
        /\ Withdrawals # Payment => position' = position
        /\ UNCHANGED <<solanaVars, reconVars, avantisVars, historyVars, clientVars, localVars>>
     \/ /\ part = "solana" /\ SolanaNext
        /\ UNCHANGED <<vars, reconVars, avantisVars, historyVars, clientVars, localVars>>
     \/ /\ part = "reconciliation" /\ ReconNext /\ FewAtOnce
        /\ UNCHANGED <<vars, solanaVars, avantisVars, historyVars, clientVars, localVars>>
     \/ /\ part = "avantis" /\ AvantisNext
        /\ UNCHANGED <<vars, solanaVars, reconVars, historyVars, clientVars, localVars>>
     \/ /\ part = "history" /\ HistoryNext
        /\ UNCHANGED <<vars, solanaVars, reconVars, avantisVars, clientVars, localVars>>
     \/ /\ part = "client" /\ ClientNext
        /\ market' # market => view = {} /\ prefetched = {} /\ command = {}
        /\ market # 1 => market' = 1
        /\ UNCHANGED <<vars, solanaVars, reconVars, avantisVars, historyVars, localVars>>
     \/ /\ part = "local" /\ LocalNext
        /\ UNCHANGED <<vars, solanaVars, reconVars, avantisVars, historyVars, clientVars>>

PlatformSpec == PlatformInit /\ [][PlatformNext]_platformVars
=============================================================================
