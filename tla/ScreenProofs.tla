----------------------------- MODULE ScreenProofs -----------------------------
(***************************************************************************)
(* Theorems about what the user's screen shows: which results pop up, in   *)
(* TradeClient, for any markets and number of trades, closes and switches; *)
(* and what the bars of a chart say, in MarketHistory, for any prices,     *)
(* number of ticks and of restarts.                                        *)
(***************************************************************************)
EXTENDS TradeClient, MarketHistory, FiniteSetTheorems, SequenceTheorems, TLAPS

USE ClientConstants

-----------------------------------------------------------------------------
(* Results: the inductive invariant *)

Command == [kind : {"open", "close"}, trade : Nat, market : SUBSET Market,
            answer : {"none", "accepted", "refused"}]

ClientTypeOK ==
  /\ trades \in [Trade -> Row] /\ tradingMode \in Modes
  /\ market \in Market /\ prefetched \subseteq Market /\ command \subseteq Command
  /\ refresh \in {"idle", "asked", "answered"}
  /\ answers \in [{"refresh", "reload"} -> SUBSET Copy]
  /\ pops \in [Trade -> 0..2]

\* What has ended in a copy has ended on the server, with the same reconciliations.
IsPast(copy) ==
  \A t \in Trade : copy[t].status = "closed" =>
    trades[t].status = "closed" /\ copy[t].reconciliations = trades[t].reconciliations

\* An answer is on its way only to a request, and tells of ends that do not change.
AnswersArePast ==
  /\ refresh # "answered" => answers["refresh"] = {}
  /\ \A copy \in answers["refresh"] : IsPast(copy)

\* A result pops up for the last reconciliation, and that is marked as shown.
PoppedIsShown ==
  \A t \in Trade :
    \/ pops[t] = 0
    \/ pops[t] = 1 /\ trades[t].status = "closed" /\ <<t, trades[t].reconciliations>> \in shown

\* The trades that had ended are in every answer asked since the load, so the first one
\* marks every reconciliation of theirs as shown, and nothing pops up before.
OldIsMarked ==
  ~overtaken => \A t \in oldResults :
    /\ trades[t].status = "closed" /\ trades[t].mode = tradingMode
    /\ pops[t] = 0 /\ \A r \in pending : r[1] # t
    /\ initialized => \A k \in 1..trades[t].reconciliations : <<t, k>> \in shown
    /\ \A copy \in answers["refresh"] :
         copy[t].status = "closed" /\ copy[t].reconciliations = trades[t].reconciliations

ClientInv ==
  /\ ClientTypeOK /\ oldResults \subseteq Trade
  /\ AnswersArePast /\ PoppedIsShown /\ OldIsMarked

-----------------------------------------------------------------------------
(* The server's trades *)

LEMMA UnusedIsRow == Unused \in Row /\ Unused.status = "none"
<1>1. (CHOOSE m \in Market : TRUE) \in Market
  BY DEF ClientConstants
<1> QED
  BY <1>1 DEF Unused, Row, Modes, ClientConstants

\* GET /api/state tells of the trades of the active mode as they are.
LEMMA ResponseIs ==
  ASSUME ClientTypeOK
  PROVE  /\ Response \in Copy /\ IsPast(Response)
         /\ \A t \in Trade : trades[t].mode = tradingMode => Response[t] = trades[t]
         /\ \A t \in Ended(Response) : t \in Trade /\ trades[t].status = "closed"
                                      /\ trades[t].mode = tradingMode
  BY UnusedIsRow DEF ClientTypeOK, Response, Copy, IsPast, Ended

\* A trade that has ended stays as it is, but for the verdict on its result.
ClosedStays ==
  \A t \in Trade : trades[t].status = "closed" =>
    /\ trades'[t].status = "closed" /\ trades'[t].mode = trades[t].mode
    /\ trades'[t].reconciliations = trades[t].reconciliations

MovedRow(row, to, n) ==
  [status |-> to, market |-> row.market, mode |-> row.mode, reconciliations |-> n,
   final |-> row.final]

LEMMA MovedIs ==
  ASSUME NEW row \in Row, NEW n \in 0..MaxCloseTries,
         NEW to \in {"open", "closing", "failed", "closed", "unknown"}
  PROVE  /\ MovedRow(row, to, n) \in Row
         /\ [row EXCEPT !.status = to] = MovedRow(row, to, row.reconciliations)
  BY DEF MovedRow, Row

LEMMA TradesStep ==
  ASSUME ClientTypeOK, [ClientNext]_clientVars
  PROVE  trades' \in [Trade -> Row] /\ ClosedStays
<1> USE DEF ClosedStays
<1>0. trades \in [Trade -> Row] /\ command \subseteq Command /\ tradingMode \in Modes
  BY DEF ClientTypeOK
<1>1. CASE UNCHANGED trades
  BY <1>0, <1>1
<1>2. ASSUME NEW c \in command, NEW t \in Trade, ServeOpen(c, t)
      PROVE  trades' \in [Trade -> Row] /\ ClosedStays
  <2>1. PICK m \in c.market :
          trades' = [trades EXCEPT ![t] =
                       [Unused EXCEPT !.status = "opening", !.market = m, !.mode = tradingMode]]
    BY <1>2 DEF ServeOpen
  <2>2. m \in Market
    BY <1>0 DEF Command
  <2>3. [Unused EXCEPT !.status = "opening", !.market = m, !.mode = tradingMode] \in Row
    BY <1>0, <2>2, UnusedIsRow DEF Row
  <2>4. trades[t].status = "none"
    BY <1>2 DEF ServeOpen
  <2> QED
    BY <1>0, <2>1, <2>3, <2>4
<1>3. ASSUME NEW c \in command, NEW t \in Trade, ServeClose(c, t)
      PROVE  trades' \in [Trade -> Row] /\ ClosedStays
  <2>1. trades[t].status \in {"open", "unknown"} /\ trades[t].reconciliations < MaxCloseTries
    BY <1>3 DEF ServeClose
  <2>2. trades' = [trades EXCEPT ![t].status = "closing", ![t].reconciliations = @ + 1]
    BY <1>3 DEF ServeClose
  <2>3. PICK n \in 0..MaxCloseTries : n = trades[t].reconciliations + 1
    BY <1>0, <2>1 DEF Row, ClientConstants
  <2>4. trades' = [trades EXCEPT ![t] = MovedRow(trades[t], "closing", n)]
    BY <1>0, <2>2, <2>3 DEF MovedRow, Row
  <2> QED
    BY <1>0, <2>1, <2>4, MovedIs
<1>4. ASSUME NEW t \in Trade, TradeMoves(t) PROVE trades' \in [Trade -> Row] /\ ClosedStays
  <2>1. PICK change \in Outcome :
          /\ change[1] = trades[t].status
          /\ trades' = [trades EXCEPT ![t].status = change[2],
               ![t].reconciliations = IF change[2] = "closed" /\ @ = 0 THEN 1 ELSE @]
    BY <1>4 DEF TradeMoves
  <2>2. change[1] # "closed" /\ change[2] \in {"open", "failed", "closed", "unknown"}
    BY DEF Outcome
  <2>3. PICK n \in 0..MaxCloseTries : n = IF change[2] = "closed" /\ trades[t].reconciliations = 0
                                         THEN 1 ELSE trades[t].reconciliations
    BY <1>0 DEF Row, ClientConstants
  <2>4. PICK to \in {"open", "failed", "closed", "unknown"} : to = change[2]
    BY <2>2
  <2>5. trades' = [trades EXCEPT ![t] = MovedRow(trades[t], to, n)]
    <3>1. CASE change[2] = "closed" /\ trades[t].reconciliations = 0
      <4>1. trades' = [trades EXCEPT ![t].status = to, ![t].reconciliations = 1]
        BY <1>0, <2>1, <2>4, <3>1
      <4> QED
        BY <1>0, <2>3, <3>1, <4>1 DEF MovedRow, Row
    <3>2. CASE ~(change[2] = "closed" /\ trades[t].reconciliations = 0)
      <4>1. trades' = [trades EXCEPT ![t].status = to, ![t].reconciliations = @]
        BY <1>0, <2>1, <2>4, <3>2
      <4>2. trades' = [trades EXCEPT ![t].status = to]
        BY <1>0, <4>1 DEF Row
      <4>3. PICK row \in Row : row = trades[t]
        BY <1>0
      <4>4. trades' = [trades EXCEPT ![t] = [row EXCEPT !.status = to]]
        BY <1>0, <4>2, <4>3
      <4>5. n = row.reconciliations
        BY <2>3, <3>2, <4>3
      <4>6. [row EXCEPT !.status = to] = MovedRow(row, to, n)
        BY <4>5, MovedIs
      <4> QED
        BY <4>3, <4>4, <4>6
    <3> QED
      BY <3>1, <3>2
  <2>6. trades[t].status # "closed"
    BY <2>1, <2>2
  <2>7. MovedRow(trades[t], to, n) \in Row
    BY <1>0, MovedIs
  <2> QED
    BY <1>0, <2>5, <2>6, <2>7
<1>5. ASSUME NEW t \in Trade, ResultIsFinal(t) PROVE trades' \in [Trade -> Row] /\ ClosedStays
  <2>1. trades' = [trades EXCEPT ![t] = [@ EXCEPT !.final = TRUE]]
    BY <1>0, <1>5 DEF ResultIsFinal
  <2>2. [trades[t] EXCEPT !.final = TRUE] \in Row
    BY <1>0 DEF Row
  <2> QED
    BY <1>0, <2>1, <2>2 DEF Row
<1>6. Serve => \/ UNCHANGED trades
               \/ \E c \in command, t \in Trade : ServeOpen(c, t) \/ ServeClose(c, t)
  BY DEF Serve
<1>7. ClientNext => \/ UNCHANGED trades \/ Serve
                    \/ \E t \in Trade : TradeMoves(t) \/ ResultIsFinal(t)
  BY DEF ClientNext, Shift, QuotesArrive, SwipeOpen, SwipeClose, Accepted, CommandFails,
     AskState, AnswerState, LoseState, ReceiveState, SwitchTradingMode, Reload, AnswerReload,
     ReceiveReload, LoseReload, serverVars
<1> QED
  BY <1>1, <1>2, <1>3, <1>4, <1>5, <1>6, <1>7 DEF clientVars, serverVars

-----------------------------------------------------------------------------
(* What a step does to the answers, the results and the history *)

\* An ended trade whose reconciliation was not shown pops up, with its result or without.
LEMMA ResultsAre ==
  ASSUME NEW copy, Results(copy)
  PROVE  \/ UNCHANGED <<shown, pending, pops>>
         \/ \E t \in Ended(copy) : \E k \in 1..copy[t].reconciliations :
              /\ <<t, k>> \notin shown
              /\ \/ PopFinal(t, <<t, k>>) /\ k = copy[t].reconciliations
                 \/ pending' = pending \cup {<<t, k>>} /\ UNCHANGED <<shown, pops>>
  BY DEF Results

history == <<tradingMode, initialized, shown, pending, pops, oldResults, overtaken>>

\* A step that neither answers the app nor loads the profile.
Quiet ==
  /\ UNCHANGED history
  /\ answers'["refresh"] = answers["refresh"]
  /\ \/ refresh' = refresh
     \/ refresh = "idle" /\ refresh' = "asked"

LEMMA StepsAre ==
  ASSUME ClientTypeOK, [ClientNext]_clientVars
  PROVE  \/ Quiet
         \/ AnswerState \/ LoseState \/ ReceiveState
         \/ SwitchTradingMode \/ Reload
<1> USE DEF Quiet, history, clientVars, serverVars, swipeVars, fetchVars, resultVars, reloadVars
<1>0. answers \in [{"refresh", "reload"} -> SUBSET Copy]
  BY DEF ClientTypeOK
<1>1. (\E m \in Market : Shift(m)) \/ QuotesArrive \/ SwipeOpen \/ SwipeClose \/ Serve => Quiet
  BY DEF Shift, QuotesArrive, SwipeOpen, SwipeClose, Serve
<1>2. Accepted \/ CommandFails \/ AskState => Quiet
  BY DEF Accepted, CommandFails, AskState, RefreshAgain
<1>3. AnswerReload \/ ReceiveReload \/ LoseReload => Quiet
  BY <1>0 DEF AnswerReload, ReceiveReload, LoseReload
<1>4. (\E t \in Trade : TradeMoves(t) \/ ResultIsFinal(t)) => Quiet
  BY DEF TradeMoves, ResultIsFinal
<1>5. UNCHANGED clientVars => Quiet
  OBVIOUS
<1> QED
  BY <1>1, <1>2, <1>3, <1>4, <1>5 DEF ClientNext

-----------------------------------------------------------------------------
(* The steps keep the invariant *)

LEMMA TradeIsNat == Trade \subseteq Nat
  BY DEF Trade

LEMMA AnsweredIs ==
  ASSUME NEW c \in Command, NEW t \in Nat
  PROVE  /\ [c EXCEPT !.answer = "refused"] \in Command
         /\ [c EXCEPT !.answer = "accepted", !.trade = t] \in Command
<1>1. PICK d \in Command : d = [c EXCEPT !.answer = "accepted"]
  BY DEF Command
<1>2. [d EXCEPT !.trade = t] \in Command
  BY DEF Command
<1>3. [c EXCEPT !.answer = "refused"] \in Command
  BY DEF Command
<1> QED
  BY <1>1, <1>2, <1>3

LEMMA ClientInitHolds == ClientInit => ClientInv
<1> SUFFICES ASSUME ClientInit PROVE ClientInv
  OBVIOUS
<1>1. /\ trades = [t \in Trade |-> Unused] /\ tradingMode = "demo"
      /\ market = CHOOSE m \in Market : TRUE
      /\ prefetched = {} /\ command = {} /\ refresh = "idle"
      /\ answers = [refresh |-> {}, reload |-> {}]
      /\ pops = [t \in Trade |-> 0] /\ oldResults = {}
  BY Zenon DEF ClientInit
<1>2. market \in Market
  BY <1>1 DEF ClientConstants
<1>3. ClientTypeOK
  BY <1>1, <1>2, UnusedIsRow DEF ClientTypeOK, Modes
<1> QED
  BY <1>1, <1>3 DEF ClientInv, AnswersArePast, PoppedIsShown, OldIsMarked

LEMMA ClientTypesStep ==
  ASSUME ClientTypeOK, [ClientNext]_clientVars
  PROVE  ClientTypeOK'
<1> USE DEF clientVars, serverVars, swipeVars, fetchVars, resultVars, reloadVars
<1>0. /\ trades \in [Trade -> Row] /\ tradingMode \in Modes
      /\ market \in Market /\ prefetched \subseteq Market /\ command \subseteq Command
      /\ refresh \in {"idle", "asked", "answered"}
      /\ answers \in [{"refresh", "reload"} -> SUBSET Copy]
      /\ pops \in [Trade -> 0..2]
  BY DEF ClientTypeOK
<1>1. trades' \in [Trade -> Row]
  BY TradesStep
<1>2. tradingMode' \in Modes
  BY <1>0 DEF ClientNext, Shift, QuotesArrive, SwipeOpen, SwipeClose, Serve, Accepted,
     CommandFails, AskState, AnswerState, LoseState, ReceiveState, SwitchTradingMode, Reload,
     AnswerReload, ReceiveReload, LoseReload, TradeMoves, ResultIsFinal
<1>3. market' \in Market /\ prefetched' \subseteq Market
  BY <1>0 DEF ClientNext, Shift, QuotesArrive, QuotesBeside, SwipeOpen, SwipeClose, Serve,
     Accepted, CommandFails, AskState, AnswerState, LoseState, ReceiveState, SwitchTradingMode,
     Reload, AnswerReload, ReceiveReload, LoseReload, TradeMoves, ResultIsFinal
<1>4. command' \subseteq Command
  <2>1. CASE SwipeOpen
    BY <1>0, <2>1 DEF SwipeOpen, Command
  <2>2. CASE SwipeClose
    BY <2>2 DEF SwipeClose, Command, ShownTrades, Live, Trade
  <2>3. CASE Serve
    <3>1. PICK c \in Command, t \in Nat :
            \/ command' = {[c EXCEPT !.answer = "accepted", !.trade = t]}
            \/ command' = {[c EXCEPT !.answer = "refused"]}
      BY <1>0, <2>3, TradeIsNat DEF Serve
    <3>2. /\ [c EXCEPT !.answer = "refused"] \in Command
          /\ [c EXCEPT !.answer = "accepted", !.trade = t] \in Command
      BY AnsweredIs
    <3> QED
      BY <3>1, <3>2
  <2>4. CASE command' = {} \/ command' = command
    BY <1>0, <2>4
  <2> QED
    BY <2>1, <2>2, <2>3, <2>4 DEF ClientNext, Shift, QuotesArrive, Accepted, CommandFails,
       AskState, AnswerState, LoseState, ReceiveState, SwitchTradingMode,
       Reload, AnswerReload, ReceiveReload, LoseReload, TradeMoves, ResultIsFinal
<1>5. refresh' \in {"idle", "asked", "answered"}
  BY <1>0, StepsAre DEF Quiet, AnswerState, LoseState, ReceiveState, SwitchTradingMode, Reload
<1>6. answers' \in [{"refresh", "reload"} -> SUBSET Copy]
  <2>1. Response \in Copy
    BY ResponseIs
  <2>2. \/ answers' = answers
        \/ \E a \in {"refresh", "reload"}, s \in {{}, {Response}} :
             answers' = [answers EXCEPT ![a] = s]
    BY DEF ClientNext, Shift, QuotesArrive, SwipeOpen, SwipeClose, Serve, Accepted,
       CommandFails, AskState, AnswerState, LoseState, ReceiveState, SwitchTradingMode, Reload,
       AnswerReload, ReceiveReload, LoseReload, TradeMoves, ResultIsFinal
  <2> QED
    BY <1>0, <2>1, <2>2
<1>7. pops' \in [Trade -> 0..2]
  <2>1. CASE ReceiveState
    <3>1. PICK copy \in answers["refresh"] : pops' = pops \/ Results(copy)
      BY <2>1 DEF ReceiveState
    <3>2. pops' = pops \/ \E t \in Trade : \E r : PopFinal(t, r)
      BY <3>1, ResultsAre DEF Ended
    <3> QED
      BY <1>0, <3>2 DEF PopFinal
  <2>2. CASE Reload
    BY <2>2 DEF Reload, ForgetResults
  <2>3. CASE pops' = pops
    BY <1>0, <2>3
  <2> QED
    BY <2>1, <2>2, <2>3, StepsAre DEF Quiet, history, AnswerState, LoseState, SwitchTradingMode
<1> QED
  BY <1>1, <1>2, <1>3, <1>4, <1>5, <1>6, <1>7 DEF ClientTypeOK

\* An answer of the server stays in the past.
LEMMA PastStays ==
  ASSUME ClosedStays, NEW copy, IsPast(copy)
  PROVE  IsPast(copy)'
  BY DEF ClosedStays, IsPast

LEMMA AnswersStep ==
  ASSUME ClientInv, [ClientNext]_clientVars
  PROVE  AnswersArePast'
<1>0. ClientTypeOK /\ AnswersArePast
  BY DEF ClientInv
<1>1. ClosedStays /\ ClientTypeOK'
  BY <1>0, TradesStep, ClientTypesStep
<1>2. answers \in [{"refresh", "reload"} -> SUBSET Copy]
  BY <1>0 DEF ClientTypeOK
<1>3. \A copy \in answers["refresh"] : IsPast(copy)'
  BY <1>0, <1>1, PastStays DEF AnswersArePast
<1>4. CASE answers'["refresh"] = {}
  BY <1>4 DEF AnswersArePast
<1>5. CASE AnswerState
  <2>1. PICK reply \in Copy : reply = Response /\ IsPast(reply)
    BY <1>0, ResponseIs
  <2>2. refresh' = "answered" /\ answers' = [answers EXCEPT !.refresh = {reply}]
    BY <1>5, <2>1 DEF AnswerState
  <2>3. answers'["refresh"] = {reply} /\ IsPast(reply)'
    BY <1>1, <1>2, <2>1, <2>2, PastStays
  <2> QED
    BY <2>2, <2>3 DEF AnswersArePast
<1>6. CASE answers'["refresh"] = answers["refresh"] /\ (refresh # "answered" => refresh' # "answered")
                                                    /\ (refresh' # "answered" => refresh # "answered")
  BY <1>0, <1>3, <1>6 DEF AnswersArePast
<1>7. LoseState \/ ReceiveState => answers'["refresh"] = {}
  BY <1>2 DEF LoseState, ReceiveState
<1>8. Quiet \/ SwitchTradingMode \/ Reload =>
        /\ answers'["refresh"] = answers["refresh"]
        /\ refresh' = "answered" <=> refresh = "answered"
  BY DEF Quiet, SwitchTradingMode, Reload
<1> QED
  BY <1>0, <1>4, <1>5, <1>6, <1>7, <1>8, StepsAre

\* What the answer to a refresh does to the results.
LEMMA ReceivedIs ==
  ASSUME ClientInv, ReceiveState
  PROVE  /\ initialized' = TRUE /\ shown \subseteq shown'
         /\ answers'["refresh"] = {} /\ UNCHANGED <<trades, tradingMode, oldResults, overtaken>>
         /\ \E copy \in answers["refresh"] :
              \/ /\ ~initialized /\ shown' = shown \cup Reconciliations(copy)
                 /\ UNCHANGED <<pending, pops>>
              \/ initialized /\ UNCHANGED <<shown, pending, pops>>
              \/ /\ initialized
                 /\ \E t \in Ended(copy) : \E k \in 1..copy[t].reconciliations :
                      /\ <<t, k>> \notin shown
                      /\ \/ PopFinal(t, <<t, k>>) /\ k = copy[t].reconciliations
                         \/ pending' = pending \cup {<<t, k>>} /\ UNCHANGED <<shown, pops>>
<1>1. answers \in [{"refresh", "reload"} -> SUBSET Copy]
  BY DEF ClientInv, ClientTypeOK
<1>2. PICK copy \in answers["refresh"] :
        /\ answers' = [answers EXCEPT !.refresh = {}] /\ initialized' = TRUE
        /\ IF initialized THEN Results(copy)
           ELSE /\ shown' = shown \cup Reconciliations(copy)
                /\ UNCHANGED <<pending, pops>>
        /\ UNCHANGED <<serverVars, reloadVars>>
  BY DEF ReceiveState
<1>3. answers'["refresh"] = {} /\ UNCHANGED <<trades, tradingMode, oldResults, overtaken>>
  BY <1>1, <1>2 DEF serverVars, reloadVars
<1>4. CASE ~initialized
  BY <1>2, <1>3, <1>4
<1>5. CASE initialized
  <2>1. Results(copy)
    BY <1>2, <1>5
  <2>2. \/ UNCHANGED <<shown, pending, pops>>
        \/ \E t \in Ended(copy) : \E k \in 1..copy[t].reconciliations :
             /\ <<t, k>> \notin shown
             /\ \/ PopFinal(t, <<t, k>>) /\ k = copy[t].reconciliations
                \/ pending' = pending \cup {<<t, k>>} /\ UNCHANGED <<shown, pops>>
    BY <2>1, ResultsAre
  <2>3. shown \subseteq shown'
    BY <2>2 DEF PopFinal
  <2> QED
    BY <1>2, <1>3, <1>5, <2>2, <2>3
<1> QED
  BY <1>4, <1>5

\* A result that pops up was not shown, so it is the first of its trade.
LEMMA PoppedStep ==
  ASSUME ClientInv, [ClientNext]_clientVars
  PROVE  PoppedIsShown'
<1>0. ClientTypeOK /\ AnswersArePast /\ PoppedIsShown /\ pops \in [Trade -> 0..2]
  BY DEF ClientInv, ClientTypeOK
<1>1. ClosedStays
  BY <1>0, TradesStep
<1>2. CASE shown \subseteq shown' /\ pops' = pops
  BY <1>0, <1>1, <1>2 DEF PoppedIsShown, ClosedStays
<1>3. CASE Reload
  BY <1>3 DEF Reload, ForgetResults, PoppedIsShown
<1>4. CASE ReceiveState
  <2>1. ASSUME NEW copy \in answers["refresh"], NEW t \in Ended(copy),
               NEW k \in 1..copy[t].reconciliations, <<t, k>> \notin shown,
               PopFinal(t, <<t, k>>), k = copy[t].reconciliations
        PROVE  PoppedIsShown'
    <3>1. t \in Trade /\ trades[t].status = "closed" /\ k = trades[t].reconciliations
      BY <1>0, <2>1 DEF AnswersArePast, IsPast, Ended
    <3>2. pops[t] = 0
      BY <1>0, <2>1, <3>1 DEF PoppedIsShown
    <3>3. pops' = [pops EXCEPT ![t] = IF @ < 2 THEN @ + 1 ELSE @] /\ shown' = shown \cup {<<t, k>>}
      BY <2>1 DEF PopFinal
    <3>4. pops'[t] = 1 /\ \A u \in Trade \ {t} : pops'[u] = pops[u]
      BY <1>0, <3>1, <3>2, <3>3
    <3>5. trades'[t].status = "closed" /\ <<t, trades'[t].reconciliations>> \in shown'
      BY <1>1, <3>1, <3>3 DEF ClosedStays
    <3>6. \A u \in Trade \ {t} :
            \/ pops'[u] = 0
            \/ /\ pops'[u] = 1 /\ trades'[u].status = "closed"
               /\ <<u, trades'[u].reconciliations>> \in shown'
      BY <1>0, <1>1, <3>3, <3>4 DEF PoppedIsShown, ClosedStays
    <3> QED
      BY <3>4, <3>5, <3>6 DEF PoppedIsShown
  <2> QED
    BY <1>2, <1>4, <2>1, ReceivedIs
<1>5. Quiet \/ AnswerState \/ LoseState \/ SwitchTradingMode => shown' = shown /\ pops' = pops
  BY DEF Quiet, history, AnswerState, LoseState, SwitchTradingMode, resultVars
<1> QED
  BY <1>0, <1>2, <1>3, <1>4, <1>5, StepsAre

\* The trades that had ended at the load are marked by the first answer, whichever it is.
LEMMA OldStep ==
  ASSUME ClientInv, [ClientNext]_clientVars
  PROVE  OldIsMarked' /\ oldResults' \subseteq Trade
<1>0. /\ ClientTypeOK /\ AnswersArePast /\ OldIsMarked /\ oldResults \subseteq Trade
      /\ trades \in [Trade -> Row] /\ pops \in [Trade -> 0..2]
      /\ answers \in [{"refresh", "reload"} -> SUBSET Copy]
  BY DEF ClientInv, ClientTypeOK
<1>1. ClosedStays
  BY <1>0, TradesStep
<1>2. CASE Quiet
  BY <1>0, <1>1, <1>2 DEF Quiet, history, OldIsMarked, ClosedStays
<1>3. CASE AnswerState
  <2>1. /\ UNCHANGED <<trades, history>> /\ answers' = [answers EXCEPT !.refresh = {Response}]
    BY <1>3 DEF AnswerState, serverVars, resultVars, reloadVars, history
  <2>2. answers'["refresh"] = {Response}
    BY <1>0, <2>1
  <2>3. \A t \in Trade : trades[t].mode = tradingMode => Response[t] = trades[t]
    BY <1>0, ResponseIs
  <2> QED
    BY <1>0, <2>1, <2>2, <2>3 DEF OldIsMarked, history
<1>4. CASE LoseState
  <2>1. UNCHANGED <<trades, history>> /\ answers' = [answers EXCEPT !.refresh = {}]
    BY <1>4 DEF LoseState, serverVars, resultVars, reloadVars, history
  <2>2. answers'["refresh"] = {}
    BY <1>0, <2>1
  <2> QED
    BY <1>0, <2>1, <2>2 DEF OldIsMarked, history
<1>5. CASE ReceiveState
  <2>1. /\ initialized' = TRUE /\ shown \subseteq shown'
        /\ answers'["refresh"] = {} /\ UNCHANGED <<trades, tradingMode, oldResults, overtaken>>
    BY <1>5, ReceivedIs
  <2>2. ASSUME ~overtaken, NEW t \in oldResults
        PROVE  /\ \A k \in 1..trades[t].reconciliations : <<t, k>> \in shown'
               /\ pops'[t] = 0 /\ \A r \in pending' : r[1] # t
    <3>1. /\ t \in Trade /\ pops[t] = 0 /\ \A r \in pending : r[1] # t
          /\ initialized => \A k \in 1..trades[t].reconciliations : <<t, k>> \in shown
          /\ \A copy \in answers["refresh"] :
               copy[t].status = "closed" /\ copy[t].reconciliations = trades[t].reconciliations
      BY <1>0, <2>2 DEF OldIsMarked
    <3>2. ASSUME NEW copy \in answers["refresh"], ~initialized,
                 shown' = shown \cup Reconciliations(copy), UNCHANGED <<pending, pops>>
          PROVE  /\ \A k \in 1..trades[t].reconciliations : <<t, k>> \in shown'
                 /\ pops'[t] = 0 /\ \A r \in pending' : r[1] # t
      <4>1. copy[t].reconciliations = trades[t].reconciliations
        BY <3>1
      <4>2. \A k \in 1..copy[t].reconciliations : <<t, k>> \in Reconciliations(copy)
        BY <3>1 DEF Reconciliations
      <4> QED
        BY <3>1, <3>2, <4>1, <4>2
    <3>3. ASSUME NEW copy \in answers["refresh"], initialized,
                 NEW u \in Ended(copy), NEW k \in 1..copy[u].reconciliations,
                 <<u, k>> \notin shown,
                 PopFinal(u, <<u, k>>) \/ (pending' = pending \cup {<<u, k>>} /\ pops' = pops)
          PROVE  pops'[t] = 0 /\ \A r \in pending' : r[1] # t
      <4>1. u # t
        BY <3>1, <3>3
      <4>2. pops'[t] = pops[t]
        BY <1>0, <3>1, <3>3, <4>1 DEF PopFinal
      <4>3. pending' \subseteq pending \cup {<<u, k>>}
        BY <3>3 DEF PopFinal
      <4> QED
        BY <3>1, <4>1, <4>2, <4>3
    <3>4. initialized => \A k \in 1..trades[t].reconciliations : <<t, k>> \in shown'
      BY <2>1, <3>1
    <3> QED
      BY <1>5, <3>1, <3>2, <3>3, <3>4, ReceivedIs
  <2> QED
    BY <1>0, <2>1, <2>2 DEF OldIsMarked
<1>6. CASE SwitchTradingMode
  BY <1>6 DEF SwitchTradingMode, OldIsMarked
<1>7. CASE Reload
  <2>1. /\ UNCHANGED <<trades, tradingMode, answers>> /\ initialized' = FALSE
        /\ pending' = {} /\ pops' = [t \in Trade |-> 0]
        /\ oldResults' = Ended(Response) /\ overtaken' = (refresh # "idle")
    BY <1>7 DEF Reload, ForgetResults, serverVars
  <2>2. \A t \in Ended(Response) : t \in Trade /\ trades[t].status = "closed"
                                  /\ trades[t].mode = tradingMode
    BY <1>0, ResponseIs
  <2>3. ~overtaken' => answers["refresh"] = {}
    BY <1>0, <2>1 DEF AnswersArePast
  <2> QED
    BY <2>1, <2>2, <2>3 DEF OldIsMarked
<1> QED
  BY <1>2, <1>3, <1>4, <1>5, <1>6, <1>7, StepsAre, <1>0

-----------------------------------------------------------------------------
(* The theorems *)

LEMMA ClientInvariance == ClientSpec => []ClientInv
<1>1. ClientInv /\ [ClientNext]_clientVars => ClientInv'
  BY ClientTypesStep, AnswersStep, PoppedStep, OldStep DEF ClientInv
<1> QED
  BY <1>1, ClientInitHolds, PTL DEF ClientSpec

\* refreshState shows the final result of a trade once, however often and late the state
\* arrives and whichever of the trade's reconciliations the app finds first.
THEOREM ResultPopsUpOnce == ClientSpec => []ResultShownOnce
<1>1. ASSUME PoppedIsShown, NEW t \in Trade PROVE pops[t] < 2
  <2>1. pops[t] = 0 \/ pops[t] = 1
    BY <1>1 DEF PoppedIsShown
  <2> QED
    BY <2>1
<1>2. ClientInv => ResultShownOnce
  BY <1>1 DEF ClientInv, ResultShownOnce
<1> QED
  BY <1>2, ClientInvariance, PTL

\* What had ended when reloadProfileState cleared the results does not come up as news,
\* if no refresh was under way then and the mode is not switched again.
THEOREM OldResultsStayDown == ClientSpec => []ResultIsNew
<1>1. ClientInv => ResultIsNew
  BY DEF ClientInv, OldIsMarked, ResultIsNew
<1> QED
  BY <1>1, ClientInvariance, PTL

-----------------------------------------------------------------------------
(* The bars of a market: the inductive invariant *)

HIDE ClientConstants
USE HistoryConstants

Bar == [open : Int, high : Int, low : Int, close : Int, first : Nat, last : Nat]

HistoryTypeOK ==
  /\ second \in Second /\ process \in Nat /\ sequence \in Nat
  /\ queue \in Seq(Observation)
  /\ pendingBars \in [Second -> SUBSET Bar] /\ bars \in [Second -> SUBSET Bar]
  /\ accepted \subseteq Observation

\* The ticks the writer has taken from the queue.
Folded == accepted \ ToSet(queue)

\* The queue, and what of it was written, follow the order of the ticks: what is
\* written comes before what is not, and what waits comes last.
TicksInOrder ==
  /\ \A t \in accepted : t.process <= process /\ (t.process = process => t.sequence <= sequence)
  /\ \A i \in DOMAIN queue :
       /\ queue[i] \in accepted
       /\ \A t \in Folded : Before(t, queue[i])
       /\ \A j \in DOMAIN queue : i < j => Before(queue[i], queue[j])
  /\ written \subseteq Folded
  /\ \A u \in accepted \ written : u.process = process /\ \A t \in written : Before(t, u)

\* A bar spans ticks: it reaches over all of some, and its ends are of others.
Spans(bar, some, others) ==
  /\ \A t \in some : bar.low <= t.price /\ t.price <= bar.high
  /\ bar.high \in Prices(others) /\ bar.low \in Prices(others)

\* The bar opens with the first of the ticks, or closes with the last.
OpensWith(bar, ticks)  == \E t \in ticks : bar.open = t.price /\ \A u \in ticks : ~Before(u, t)
ClosesWith(bar, ticks) == \E t \in ticks : bar.close = t.price /\ \A u \in ticks : ~Before(t, u)

\* The last tick of a pending bar is the last one folded for that second.
EndsNow(bar, ticks) ==
  \E t \in ticks : /\ t.process = process /\ bar.last = t.sequence /\ bar.close = t.price
                   /\ \A u \in ticks : ~Before(t, u)

OneProcess(ticks) == \A t, u \in ticks : t.process = u.process

\* A pending bar holds at least what is not written of its second, and nothing
\* that was not folded.
PendingIsTrue ==
  \A s \in Second :
    /\ pendingBars[s] = {} => Of(Folded, s) \subseteq written
    /\ \A bar \in pendingBars[s] :
         /\ Spans(bar, Of(Folded, s) \ written, Of(Folded, s))
         /\ EndsNow(bar, Of(Folded, s))
         /\ Of(written, s) = {} => OpensWith(bar, Of(Folded, s))

\* What a row says of the ticks it was made of.
RowIsOf(bar, ticks) ==
  /\ Spans(bar, ticks, ticks)
  /\ OpensWith(bar, ticks)
  /\ \A t \in ticks : t.sequence <= bar.last
  /\ \E t \in ticks : t.sequence = bar.last
  /\ OneProcess(ticks) => ClosesWith(bar, ticks)

RowsAreTrue ==
  \A s \in Kept :
    /\ bars[s] = {} <=> Of(written, s) = {}
    /\ \A bar \in bars[s] : RowIsOf(bar, Of(written, s))

HistoryInv == HistoryTypeOK /\ TicksInOrder /\ PendingIsTrue /\ RowsAreTrue

-----------------------------------------------------------------------------
(* Bars and ticks *)

\* What comes before does not come after.
LEMMA BeforeIsOrder ==
  ASSUME NEW t \in Observation, NEW u \in Observation, Before(t, u)
  PROVE  ~Before(u, t)
BY DEF Before, Observation

\* The bar of one tick.
LEMMA TickBar ==
  ASSUME NEW t \in Observation
  PROVE  /\ FromTick(t) \in Bar
         /\ FromTick(t).open = t.price /\ FromTick(t).close = t.price
         /\ FromTick(t).high = t.price /\ FromTick(t).low = t.price
         /\ FromTick(t).last = t.sequence
BY DEF FromTick, Bar, Observation

\* What a merge keeps and what it takes from the later bar.
LEMMA MergedBar ==
  ASSUME NEW a \in Bar, NEW b \in Bar
  PROVE  /\ Merge(a, b) \in Bar
         /\ Merge(a, b).open = a.open
         /\ Merge(a, b).high = Larger(a.high, b.high) /\ Merge(a, b).low = Smaller(a.low, b.low)
         /\ Merge(a, b).last = Larger(a.last, b.last)
         /\ b.last >= a.last => Merge(a, b).close = b.close
         /\ ~(b.last >= a.last) => Merge(a, b).close = a.close
<1>1. CASE b.last >= a.last
  BY <1>1 DEF Merge, Larger, Smaller, Bar
<1>2. CASE ~(b.last >= a.last)
  BY <1>2 DEF Merge, Larger, Smaller, Bar
<1> QED
  BY <1>1, <1>2

\* A merged bar spans what either of the two spans.
LEMMA MergeSpans ==
  ASSUME NEW a \in Bar, NEW b \in Bar,
         NEW A \in SUBSET Observation, NEW B \in SUBSET Observation,
         NEW C \in SUBSET Observation, NEW D \in SUBSET Observation,
         Spans(a, A, C), Spans(b, B, D)
  PROVE  Spans(Merge(a, b), A \cup B, C \cup D)
<1>1. /\ Merge(a, b).high = Larger(a.high, b.high) /\ Merge(a, b).low = Smaller(a.low, b.low)
      /\ a.high \in Int /\ a.low \in Int /\ b.high \in Int /\ b.low \in Int
  BY MergedBar DEF Bar
<1>2. \A t \in A \cup B : Merge(a, b).low <= t.price /\ t.price <= Merge(a, b).high
  BY <1>1 DEF Spans, Larger, Smaller, Observation
<1>3. Merge(a, b).high \in Prices(C \cup D) /\ Merge(a, b).low \in Prices(C \cup D)
  BY <1>1 DEF Spans, Larger, Smaller, Prices
<1> QED
  BY <1>2, <1>3 DEF Spans

\* The ticks of a second.
LEMMA OfIsSubset ==
  ASSUME NEW T, T \subseteq Observation, NEW s
  PROVE  Of(T, s) \subseteq T /\ Of(T, s) \subseteq Observation
BY DEF Of

-----------------------------------------------------------------------------
(* A tick is folded *)

\* The tick at the head of the queue is the next after all that were folded.
LEMMA HeadIsNext ==
  ASSUME HistoryTypeOK, TicksInOrder, queue # <<>>
  PROVE  /\ Head(queue) \in Observation /\ Head(queue) \in accepted
         /\ Head(queue) \notin written /\ Head(queue).process = process
         /\ \A t \in Folded : Before(t, Head(queue)) /\ ~Before(Head(queue), t)
         /\ accepted \ ToSet(Tail(queue)) = Folded \cup {Head(queue)}
         /\ Tail(queue) \in Seq(Observation)
         /\ \A i \in DOMAIN Tail(queue) : /\ i + 1 \in DOMAIN queue
                                          /\ Tail(queue)[i] = queue[i + 1]
<1>1. /\ Len(queue) \in Nat \ {0} /\ 1 \in DOMAIN queue /\ Head(queue) = queue[1]
      /\ Tail(queue) \in Seq(Observation) /\ Len(Tail(queue)) = Len(queue) - 1
      /\ DOMAIN queue = 1 .. Len(queue) /\ DOMAIN Tail(queue) = 1 .. (Len(queue) - 1)
      /\ \A i \in 1 .. (Len(queue) - 1) : Tail(queue)[i] = queue[i + 1]
  BY DEF HistoryTypeOK
<1>2. queue[1] \in accepted /\ queue[1] \in Observation /\ queue[1] \in ToSet(queue)
  BY <1>1 DEF TicksInOrder, HistoryTypeOK, ToSet
<1>3. queue[1] \notin written /\ queue[1].process = process
  BY <1>2 DEF TicksInOrder, Folded
<1>4. \A t \in Folded : Before(t, queue[1]) /\ ~Before(queue[1], t)
  BY <1>1, <1>2, BeforeIsOrder DEF TicksInOrder, Folded, HistoryTypeOK
<1>5. ToSet(queue) = ToSet(Tail(queue)) \cup {queue[1]}
  <2>1. ASSUME NEW i \in DOMAIN queue, i # 1 PROVE queue[i] \in ToSet(Tail(queue))
    <3>1. i - 1 \in DOMAIN Tail(queue) /\ Tail(queue)[i - 1] = queue[i]
      BY <1>1, <2>1
    <3> QED
      BY <3>1 DEF ToSet
  <2>2. \A i \in DOMAIN Tail(queue) : Tail(queue)[i] \in ToSet(queue)
    BY <1>1 DEF ToSet
  <2> QED
    BY <1>2, <2>1, <2>2 DEF ToSet
<1>6. queue[1] \notin ToSet(Tail(queue))
  <2>1. ASSUME NEW i \in DOMAIN Tail(queue) PROVE Tail(queue)[i] # queue[1]
    <3>1. i + 1 \in DOMAIN queue /\ 1 < i + 1 /\ Tail(queue)[i] = queue[i + 1]
      BY <1>1
    <3>2. Before(queue[1], queue[i + 1])
      BY <1>1, <3>1 DEF TicksInOrder
    <3> QED
      BY <1>2, <3>1, <3>2, BeforeIsOrder
  <2> QED
    BY <2>1 DEF ToSet
<1>7. accepted \ ToSet(Tail(queue)) = Folded \cup {queue[1]}
  BY <1>2, <1>5, <1>6 DEF Folded
<1> QED
  BY <1>1, <1>2, <1>3, <1>4, <1>7

\* Folding keeps the order: the head is now the last of the folded ticks.
LEMMA FoldKeepsOrder ==
  ASSUME HistoryTypeOK, TicksInOrder, Fold
  PROVE  TicksInOrder'
<1>1. /\ queue # <<>> /\ queue' = Tail(queue) /\ Folded' = Folded \cup {Head(queue)}
      /\ UNCHANGED <<process, sequence, accepted, written>>
  BY HeadIsNext DEF Fold, Folded
<1>2. Head(queue) = queue[1] /\ 1 \in DOMAIN queue /\ DOMAIN queue = 1 .. Len(queue)
      /\ Len(queue) \in Nat
  BY <1>1 DEF HistoryTypeOK
<1>3. ASSUME NEW i \in DOMAIN queue'
      PROVE  /\ queue'[i] \in accepted
             /\ \A t \in Folded' : Before(t, queue'[i])
             /\ \A j \in DOMAIN queue' : i < j => Before(queue'[i], queue'[j])
  <2>1. i + 1 \in DOMAIN queue /\ queue'[i] = queue[i + 1] /\ i \in Nat /\ 1 < i + 1
    BY <1>1, <1>2, <1>3, HeadIsNext DEF HistoryTypeOK
  <2>2. \A t \in Folded : Before(t, queue[i + 1])
    BY <2>1 DEF TicksInOrder
  <2>3. Before(queue[1], queue[i + 1])
    BY <1>2, <2>1 DEF TicksInOrder
  <2>4. ASSUME NEW j \in DOMAIN queue', i < j PROVE Before(queue'[i], queue'[j])
    <3>1. j + 1 \in DOMAIN queue /\ queue'[j] = queue[j + 1] /\ i + 1 < j + 1
      BY <1>1, <1>2, <2>4, HeadIsNext DEF HistoryTypeOK
    <3> QED
      BY <2>1, <3>1 DEF TicksInOrder
  <2> QED
    BY <1>1, <1>2, <2>1, <2>2, <2>3, <2>4 DEF TicksInOrder
<1>4. written' \subseteq Folded'
  BY <1>1 DEF TicksInOrder
<1> QED
  BY <1>1, <1>3, <1>4 DEF TicksInOrder, Before


\* A pending bar grows by the tick that is folded into its second.
LEMMA FoldedBar ==
  ASSUME HistoryTypeOK, TicksInOrder, NEW t \in Observation,
         t \notin written, t.process = process,
         \A u \in Folded : Before(u, t) /\ ~Before(t, u),
         NEW s \in Second, t.second = s, NEW F, F = Of(Folded, s),
         NEW bar \in Bar,
         Spans(bar, F \ written, F), EndsNow(bar, F),
         Of(written, s) = {} => OpensWith(bar, F),
         NEW new, new = Merge(bar, FromTick(t))
  PROVE  /\ Spans(new, (F \cup {t}) \ written, F \cup {t})
         /\ EndsNow(new, F \cup {t})
         /\ Of(written, s) = {} => OpensWith(new, F \cup {t})
<1>1. F \subseteq Observation /\ \A u \in F : Before(u, t) /\ ~Before(t, u)
  BY OfIsSubset DEF Folded, HistoryTypeOK, Of
<1>2. Spans(new, (F \ written) \cup {t}, F \cup {t})
  <2>1. FromTick(t) \in Bar /\ Spans(FromTick(t), {t}, {t})
    BY TickBar DEF Spans, Prices, Observation
  <2>2. F \ written \in SUBSET Observation /\ F \in SUBSET Observation
        /\ {t} \in SUBSET Observation
    BY <1>1
  <2> QED
    BY <2>1, <2>2, MergeSpans
<1>3. (F \cup {t}) \ written = (F \ written) \cup {t}
  OBVIOUS
<1>4. ~Before(t, t)
  BY DEF Before, Observation
<1>5. PICK u \in F : u.process = process /\ bar.last = u.sequence
  BY DEF EndsNow
<1>6. u.sequence < t.sequence /\ u.sequence \in Nat /\ t.sequence \in Nat
  BY <1>1, <1>5 DEF Before, Observation, HistoryTypeOK
<1>7. new.last = t.sequence /\ new.close = t.price /\ new.open = bar.open
  BY <1>5, <1>6, MergedBar, TickBar DEF Larger
<1>8. EndsNow(new, F \cup {t})
  BY <1>1, <1>4, <1>7 DEF EndsNow
<1>9. OpensWith(bar, F) => OpensWith(new, F \cup {t})
  BY <1>1, <1>7 DEF OpensWith
<1> QED
  BY <1>2, <1>3, <1>8, <1>9

\* The first tick of a second since the last write is a bar of its own.
LEMMA FirstBar ==
  ASSUME HistoryTypeOK, TicksInOrder, NEW t \in Observation,
         t \notin written, t.process = process,
         \A u \in Folded : Before(u, t) /\ ~Before(t, u),
         NEW s \in Second, t.second = s, NEW F, F = Of(Folded, s), F \subseteq written,
         NEW new, new = FromTick(t)
  PROVE  /\ Spans(new, (F \cup {t}) \ written, F \cup {t})
         /\ EndsNow(new, F \cup {t})
         /\ Of(written, s) = {} => OpensWith(new, F \cup {t})
<1>1. (F \cup {t}) \ written = {t}
  OBVIOUS
<1>2. \A u \in F : ~Before(t, u)
  BY DEF Of
<1>3. ~Before(t, t)
  BY DEF Before, Observation
<1>4. /\ new.open = t.price /\ new.close = t.price /\ new.high = t.price /\ new.low = t.price
      /\ new.last = t.sequence
  BY TickBar
<1>5. Spans(new, {t}, F \cup {t})
  BY <1>4 DEF Spans, Prices, Observation
<1>6. EndsNow(new, F \cup {t})
  BY <1>2, <1>3, <1>4 DEF EndsNow
<1>7. ASSUME Of(written, s) = {} PROVE OpensWith(new, F \cup {t})
  <2>1. F = {}
    BY <1>7 DEF Of
  <2> QED
    BY <1>3, <1>4, <2>1 DEF OpensWith
<1> QED
  BY <1>1, <1>5, <1>6, <1>7

\* The pending bars after a fold, second by second.
LEMMA FoldKeepsPending ==
  ASSUME HistoryTypeOK, TicksInOrder, PendingIsTrue, Fold
  PROVE  PendingIsTrue' /\ pendingBars' \in [Second -> SUBSET Bar]
<1> DEFINE h == Head(queue)
<1>1. /\ queue # <<>> /\ queue' = Tail(queue)
      /\ pendingBars' = [pendingBars EXCEPT ![h.second] = Upsert(@, FromTick(h))]
      /\ UNCHANGED <<second, process, accepted, written>>
  BY DEF Fold, FoldTick
<1>2. PICK t \in Observation : t = h
  BY <1>1, HeadIsNext
<1>3. /\ t \notin written /\ t.process = process
      /\ \A u \in Folded : Before(u, t) /\ ~Before(t, u)
      /\ Folded' = Folded \cup {t}
  BY <1>1, <1>2, HeadIsNext DEF Folded
<1>4. t.second \in Second
  BY DEF Observation
<1>5. \A s \in Second : pendingBars'[s] = IF s = t.second THEN Upsert(pendingBars[s], FromTick(t))
                                          ELSE pendingBars[s]
  BY <1>1, <1>2, <1>4 DEF HistoryTypeOK
<1>6. \A s \in Second : pendingBars[s] \subseteq Bar
  BY DEF HistoryTypeOK
<1>7. FromTick(t) \in Bar
  BY TickBar
<1>8. ASSUME NEW s \in Second
      PROVE  /\ pendingBars'[s] \subseteq Bar
             /\ pendingBars'[s] = {} => Of(Folded', s) \subseteq written
             /\ \A bar \in pendingBars'[s] :
                  /\ Spans(bar, Of(Folded', s) \ written, Of(Folded', s))
                  /\ EndsNow(bar, Of(Folded', s))
                  /\ Of(written, s) = {} => OpensWith(bar, Of(Folded', s))
  <2>1. CASE s # t.second
    <3>1. Of(Folded', s) = Of(Folded, s)
      BY <1>3, <2>1 DEF Of
    <3>2. pendingBars'[s] = pendingBars[s]
      BY <1>5, <2>1
    <3> QED
      BY <1>6, <3>1, <3>2 DEF PendingIsTrue
  <2>2. CASE s = t.second /\ pendingBars[s] = {}
    <3>1. Of(Folded', s) = Of(Folded, s) \cup {t}
      BY <1>3, <2>2 DEF Of
    <3>2. pendingBars'[s] = {FromTick(t)}
      BY <1>5, <2>2 DEF Upsert
    <3>3. Of(Folded, s) \subseteq written
      BY <2>2 DEF PendingIsTrue
    <3> QED
      BY <1>3, <1>7, <2>2, <3>1, <3>2, <3>3, FirstBar
  <2>3. CASE s = t.second /\ pendingBars[s] # {}
    <3>1. Of(Folded', s) = Of(Folded, s) \cup {t}
      BY <1>3, <2>3 DEF Of
    <3>2. pendingBars'[s] = {Merge(b, FromTick(t)) : b \in pendingBars[s]}
      BY <1>5, <2>3 DEF Upsert
    <3>3. ASSUME NEW b \in pendingBars[s]
          PROVE  /\ Merge(b, FromTick(t)) \in Bar
                 /\ Spans(Merge(b, FromTick(t)), Of(Folded', s) \ written, Of(Folded', s))
                 /\ EndsNow(Merge(b, FromTick(t)), Of(Folded', s))
                 /\ Of(written, s) = {} => OpensWith(Merge(b, FromTick(t)), Of(Folded', s))
      <4>1. /\ b \in Bar /\ Spans(b, Of(Folded, s) \ written, Of(Folded, s))
            /\ EndsNow(b, Of(Folded, s))
            /\ Of(written, s) = {} => OpensWith(b, Of(Folded, s))
        BY <1>6 DEF PendingIsTrue
      <4>2. PICK F : F = Of(Folded, s)
        OBVIOUS
      <4>3. PICK new : new = Merge(b, FromTick(t))
        OBVIOUS
      <4>4. /\ Spans(new, (F \cup {t}) \ written, F \cup {t}) /\ EndsNow(new, F \cup {t})
            /\ Of(written, s) = {} => OpensWith(new, F \cup {t})
        BY <1>3, <2>3, <4>1, <4>2, <4>3, FoldedBar
      <4> QED
        BY <1>7, <3>1, <4>1, <4>2, <4>3, <4>4, MergedBar
    <3>4. pendingBars'[s] # {}
      BY <2>3, <3>2
    <3> QED
      BY <3>2, <3>3, <3>4
  <2> QED
    BY <2>1, <2>2, <2>3
<1>9. PendingIsTrue'
  <2>1. UNCHANGED <<process, written>>
    BY <1>1
  <2> QED
    BY <1>8, <2>1 DEF PendingIsTrue, EndsNow
<1>10. pendingBars' \in [Second -> SUBSET Bar]
  <2>1. pendingBars' = [s \in Second |-> pendingBars'[s]]
    BY <1>1 DEF HistoryTypeOK
  <2> QED
    BY <1>8, <2>1
<1> QED
  BY <1>9, <1>10

LEMMA FoldKeeps ==
  ASSUME HistoryInv, Fold
  PROVE  HistoryInv'
<1>1. TicksInOrder' /\ PendingIsTrue' /\ pendingBars' \in [Second -> SUBSET Bar]
  BY FoldKeepsOrder, FoldKeepsPending DEF HistoryInv
<1>2. UNCHANGED <<second, process, sequence, bars, accepted, written>>
  BY DEF Fold
<1>3. queue' \in Seq(Observation)
  BY HeadIsNext DEF HistoryInv, Fold
<1>4. HistoryTypeOK'
  BY <1>1, <1>2, <1>3 DEF HistoryInv, HistoryTypeOK
<1>5. RowsAreTrue'
  BY <1>2 DEF HistoryInv, RowsAreTrue, Kept
<1> QED
  BY <1>1, <1>4, <1>5 DEF HistoryInv

\* Bars that nothing touches say the same of the same ticks.
LEMMA SameBars ==
  ASSUME PendingIsTrue, RowsAreTrue, Folded' = Folded,
         UNCHANGED <<second, process, pendingBars, bars, written>>
  PROVE  PendingIsTrue' /\ RowsAreTrue'
<1>1. PendingIsTrue'
  BY DEF PendingIsTrue, EndsNow
<1>2. RowsAreTrue'
  BY DEF RowsAreTrue, Kept
<1> QED
  BY <1>1, <1>2

-----------------------------------------------------------------------------
(* A batch is committed *)

\* A row joined with the pending bar of its second is the bar of all ticks that
\* were folded for it.
LEMMA MergedRow ==
  ASSUME HistoryTypeOK, TicksInOrder, NEW s \in Second,
         NEW W, W = Of(written, s), NEW F, F = Of(Folded, s),
         NEW row \in Bar, RowIsOf(row, W),
         NEW bar \in Bar, Spans(bar, F \ written, F), EndsNow(bar, F),
         NEW new, new = Merge(row, bar)
  PROVE  RowIsOf(new, F)
<1>1. W \subseteq F /\ F \subseteq Observation /\ F \ written = F \ W
  BY DEF TicksInOrder, Of, Folded, HistoryTypeOK
<1>2. /\ new.open = row.open /\ new.last = Larger(row.last, bar.last)
      /\ bar.last >= row.last => new.close = bar.close
      /\ ~(bar.last >= row.last) => new.close = row.close
      /\ row.last \in Nat /\ bar.last \in Nat
  BY MergedBar DEF Bar
<1>3. Spans(new, F, F)
  <2>1. Spans(row, W, W)
    BY DEF RowIsOf
  <2>2. Spans(new, W \cup (F \ written), W \cup F)
    BY <1>1, <2>1, MergeSpans
  <2>3. W \cup (F \ written) = F /\ W \cup F = F
    BY <1>1
  <2> QED
    BY <2>2, <2>3
<1>4. \A t \in W, u \in F \ W : Before(t, u) /\ ~Before(u, t) /\ u.process = process
  <2>1. ASSUME NEW t \in W, NEW u \in F \ W
        PROVE  Before(t, u) /\ u.process = process
    BY <2>1 DEF TicksInOrder, Of, Folded
  <2> QED
    BY <1>1, <2>1, BeforeIsOrder
<1>5. OpensWith(new, F)
  BY <1>1, <1>2, <1>4 DEF RowIsOf, OpensWith
<1>6. PICK l \in F : /\ l.process = process /\ bar.last = l.sequence /\ bar.close = l.price
                     /\ \A u \in F : ~Before(l, u)
  BY DEF EndsNow
<1>7. \A u \in F : u.process = process => u.sequence <= bar.last
  BY <1>1, <1>6 DEF Before, Observation, HistoryTypeOK
<1>8. /\ \A t \in W : t.sequence <= row.last
      /\ \E t \in W : t.sequence = row.last
  BY DEF RowIsOf
<1>9. ASSUME NEW t \in F PROVE t.sequence <= new.last
  <2>1. t.sequence <= row.last \/ t.sequence <= bar.last
    BY <1>4, <1>7, <1>8
  <2> QED
    BY <1>1, <1>2, <2>1 DEF Larger, Observation
<1>10. \E t \in F : t.sequence = new.last
  BY <1>1, <1>2, <1>6, <1>8 DEF Larger
<1>11. ASSUME OneProcess(F) PROVE ClosesWith(new, F)
  <2>1. PICK t \in W : t.sequence = row.last
    BY <1>8
  <2>2. t.process = process
    BY <1>1, <1>6, <1>11 DEF OneProcess
  <2>3. bar.last >= row.last
    BY <1>1, <1>7, <2>1, <2>2
  <2> QED
    BY <1>2, <1>6, <2>3 DEF ClosesWith
<1> QED
  BY <1>3, <1>5, <1>9, <1>10, <1>11 DEF RowIsOf

\* The first row of a second is its pending bar.
LEMMA FirstRow ==
  ASSUME HistoryTypeOK, TicksInOrder, NEW s \in Second,
         Of(written, s) = {}, NEW F, F = Of(Folded, s),
         NEW bar \in Bar, Spans(bar, F \ written, F), EndsNow(bar, F), OpensWith(bar, F)
  PROVE  RowIsOf(bar, F)
<1>1. F \subseteq Observation /\ F \ written = F /\ \A u \in F : u.process = process
  BY DEF TicksInOrder, Of, Folded, HistoryTypeOK
<1>2. PICK l \in F : /\ l.process = process /\ bar.last = l.sequence /\ bar.close = l.price
                     /\ \A u \in F : ~Before(l, u)
  BY DEF EndsNow
<1>3. \A u \in F : u.sequence <= bar.last
  BY <1>1, <1>2 DEF Before, Observation, HistoryTypeOK
<1> QED
  BY <1>1, <1>2, <1>3 DEF RowIsOf, ClosesWith

\* After a commit the rows that are kept are the bars of all folded ticks.
LEMMA CommitIsTrue ==
  ASSUME HistoryInv, Commit(pendingBars)
  PROVE  /\ bars' \in [Second -> SUBSET Bar]
         /\ written' = Folded
         /\ \A s \in Kept : /\ bars'[s] = {} <=> Of(Folded, s) = {}
                            /\ \A bar \in bars'[s] : RowIsOf(bar, Of(Folded, s))
<1>1. /\ HistoryTypeOK /\ TicksInOrder
      /\ pendingBars \in [Second -> SUBSET Bar] /\ bars \in [Second -> SUBSET Bar]
  BY DEF HistoryInv, HistoryTypeOK
<1>2. written' = Folded
  BY <1>1 DEF Commit, Folded, TicksInOrder
<1>3. bars' = [s \in Second |-> IF pendingBars[s] = {} THEN bars[s]
                                ELSE UNION {Upsert(bars[s], bar) : bar \in pendingBars[s]}]
  BY DEF Commit, Written
<1>4. ASSUME NEW s \in Second, pendingBars[s] # {}
      PROVE  \A new \in bars'[s] :
               \E bar \in pendingBars[s] :
                 \/ bars[s] = {} /\ new = bar
                 \/ \E row \in bars[s] : new = Merge(row, bar)
  BY <1>3, <1>4 DEF Upsert
<1>5. ASSUME NEW s \in Second PROVE bars'[s] \subseteq Bar
  <2>1. CASE pendingBars[s] = {}
    BY <1>1, <1>3, <2>1
  <2>2. CASE pendingBars[s] # {}
    <3>1. pendingBars[s] \subseteq Bar /\ bars[s] \subseteq Bar
      BY <1>1
    <3> QED
      BY <1>4, <2>2, <3>1, MergedBar
  <2> QED
    BY <2>1, <2>2
<1>6. bars' \in [Second -> SUBSET Bar]
  BY <1>3, <1>5
<1>7. ASSUME NEW s \in Kept
      PROVE  /\ bars'[s] = {} <=> Of(Folded, s) = {}
             /\ \A bar \in bars'[s] : RowIsOf(bar, Of(Folded, s))
  <2>1. /\ s \in Second /\ pendingBars[s] \subseteq Bar /\ bars[s] \subseteq Bar
        /\ bars[s] = {} <=> Of(written, s) = {}
        /\ \A row \in bars[s] : RowIsOf(row, Of(written, s))
    BY <1>1, <1>7 DEF HistoryInv, RowsAreTrue, Kept
  <2>2. CASE pendingBars[s] = {}
    <3>1. Of(Folded, s) = Of(written, s)
      BY <1>1, <2>1, <2>2 DEF HistoryInv, PendingIsTrue, TicksInOrder, Of
    <3>2. bars'[s] = bars[s]
      BY <1>3, <2>1, <2>2
    <3> QED
      BY <2>1, <3>1, <3>2
  <2>3. CASE pendingBars[s] # {}
    <3>1. \A bar \in pendingBars[s] :
            /\ Spans(bar, Of(Folded, s) \ written, Of(Folded, s)) /\ EndsNow(bar, Of(Folded, s))
            /\ Of(written, s) = {} => OpensWith(bar, Of(Folded, s))
      BY <2>1 DEF HistoryInv, PendingIsTrue
    <3>2. Of(Folded, s) # {}
      BY <2>3, <3>1 DEF EndsNow
    <3>3. bars'[s] # {}
      <4>1. PICK bar \in pendingBars[s] : TRUE
        BY <2>3
      <4>2. Upsert(bars[s], bar) # {} /\ Upsert(bars[s], bar) \subseteq bars'[s]
        BY <1>3, <2>1, <2>3 DEF Upsert
      <4> QED
        BY <4>2
    <3>4. ASSUME NEW new \in bars'[s] PROVE RowIsOf(new, Of(Folded, s))
      <4>1. PICK bar \in pendingBars[s] :
                 \/ bars[s] = {} /\ new = bar
                 \/ \E row \in bars[s] : new = Merge(row, bar)
        BY <1>4, <2>1, <2>3, <3>4
      <4>2. CASE bars[s] = {} /\ new = bar
        BY <1>1, <2>1, <3>1, <4>2, FirstRow
      <4>3. ASSUME NEW row \in bars[s], new = Merge(row, bar)
            PROVE  RowIsOf(new, Of(Folded, s))
        BY <1>1, <2>1, <3>1, <4>3, MergedRow
      <4> QED
        BY <4>1, <4>2, <4>3
    <3> QED
      BY <3>2, <3>3, <3>4
  <2> QED
    BY <2>2, <2>3
<1> QED
  BY <1>2, <1>6, <1>7


\* Everything folded is written now, so the order has nothing left to say of it.
LEMMA CommitKeepsOrder ==
  ASSUME TicksInOrder, HistoryTypeOK, written' = Folded,
         UNCHANGED <<process, sequence, queue, accepted>>
  PROVE  TicksInOrder'
<1>1. Folded' = Folded
  BY DEF Folded
<1>2. ASSUME NEW u \in accepted \ Folded
      PROVE  u.process = process /\ \A t \in Folded : Before(t, u)
  <2>1. u \in ToSet(queue) /\ u \notin written
    BY <1>2 DEF Folded, TicksInOrder
  <2>2. PICK i \in DOMAIN queue : u = queue[i]
    BY <2>1 DEF ToSet
  <2> QED
    BY <1>2, <2>1, <2>2 DEF TicksInOrder
<1> QED
  BY <1>1, <1>2 DEF TicksInOrder

\* A flush commits or fails; when the answer was lost the batch stays pending
\* and holds nothing that the rows do not hold.
LEMMA FlushKeeps ==
  ASSUME HistoryInv, Flush
  PROVE  HistoryInv'
<1>1. UNCHANGED <<second, process, sequence, queue, accepted>>
  BY DEF Flush
<1>2. CASE Commit(pendingBars)
  <2>1. /\ bars' \in [Second -> SUBSET Bar] /\ written' = Folded
        /\ \A s \in Kept : /\ bars'[s] = {} <=> Of(Folded, s) = {}
                           /\ \A bar \in bars'[s] : RowIsOf(bar, Of(Folded, s))
    BY <1>2, CommitIsTrue
  <2>2. pendingBars' = NoBars \/ pendingBars' = pendingBars
    BY DEF Flush
  <2>3. Folded' = Folded
    BY <1>1 DEF Folded
  <2>4. TicksInOrder'
    BY <1>1, <2>1, CommitKeepsOrder DEF HistoryInv
  <2>5. RowsAreTrue'
    BY <1>1, <2>1 DEF RowsAreTrue, Kept
  <2>6. HistoryTypeOK'
    BY <1>1, <2>1, <2>2 DEF HistoryInv, HistoryTypeOK, NoBars
  <2>7. PendingIsTrue'
    <3>1. \A s \in Second : Of(Folded, s) \subseteq Folded /\ Of(written, s) \subseteq Of(Folded, s)
      BY DEF Of, HistoryInv, TicksInOrder
    <3>2. CASE pendingBars' = NoBars
      BY <2>1, <2>3, <3>1, <3>2 DEF PendingIsTrue, NoBars
    <3>3. CASE pendingBars' = pendingBars
      <4>1. ASSUME NEW s \in Second, NEW bar \in pendingBars[s]
            PROVE  /\ Spans(bar, Of(Folded, s) \ Folded, Of(Folded, s))
                   /\ EndsNow(bar, Of(Folded, s)) /\ Of(Folded, s) # {}
        <5>1. Spans(bar, Of(Folded, s) \ written, Of(Folded, s)) /\ EndsNow(bar, Of(Folded, s))
          BY DEF HistoryInv, PendingIsTrue
        <5>2. Of(Folded, s) \ Folded = {}
          BY <3>1
        <5>3. Of(Folded, s) # {}
          BY <5>1 DEF EndsNow
        <5> QED
          BY <5>1, <5>2, <5>3 DEF Spans
      <4> QED
        BY <1>1, <2>1, <2>3, <3>1, <3>3, <4>1 DEF PendingIsTrue, EndsNow
    <3> QED
      BY <2>2, <3>2, <3>3
  <2> QED
    BY <2>4, <2>5, <2>6, <2>7 DEF HistoryInv
<1>3. CASE UNCHANGED <<pendingBars, bars, written>>
  <2>1. Folded' = Folded
    BY <1>1 DEF Folded
  <2>2. HistoryTypeOK' /\ TicksInOrder'
    BY <1>1, <1>3, <2>1 DEF HistoryInv, HistoryTypeOK, TicksInOrder
  <2> QED
    BY <1>1, <1>3, <2>1, <2>2, SameBars DEF HistoryInv
<1> QED
  BY <1>2, <1>3 DEF Flush, WriteFails

\* A process that ends leaves the rows of what it has written; the next one
\* numbers its ticks from one, and they come after.
LEMMA StopKeeps ==
  ASSUME HistoryInv, StopHistory
  PROVE  HistoryInv'
<1>1. /\ process' = process + 1 /\ sequence' = 0 /\ queue' = <<>> /\ pendingBars' = NoBars
      /\ accepted' = written' /\ UNCHANGED second /\ process \in Nat
  BY DEF StopHistory, HistoryInv, HistoryTypeOK
<1>2. /\ bars' \in [Second -> SUBSET Bar] /\ written' \subseteq accepted
      /\ \A s \in Kept : /\ bars'[s] = {} <=> Of(written', s) = {}
                         /\ \A bar \in bars'[s] : RowIsOf(bar, Of(written', s))
  <2>1. CASE Commit(pendingBars)
    <3>1. Folded \subseteq accepted
      BY DEF Folded
    <3> QED
      BY <2>1, <3>1, CommitIsTrue
  <2>2. CASE UNCHANGED <<bars, written>>
    BY <2>2 DEF HistoryInv, HistoryTypeOK, RowsAreTrue, TicksInOrder, Folded
  <2> QED
    BY <2>1, <2>2 DEF StopHistory
<1>3. HistoryTypeOK'
  BY <1>1, <1>2 DEF HistoryInv, HistoryTypeOK, NoBars
<1>4. Folded' = written'
  <2>1. ToSet(queue)' = {}
    BY <1>1 DEF ToSet
  <2> QED
    BY <1>1, <2>1 DEF Folded
<1>5. TicksInOrder'
  <2>1. \A t \in accepted' : t.process < process'
    BY <1>1, <1>2 DEF HistoryInv, TicksInOrder, HistoryTypeOK, Observation
  <2>2. \A t \in accepted' : t.process <= process' /\ t.process # process'
    BY <1>1, <1>2, <2>1 DEF HistoryInv, HistoryTypeOK, Observation
  <2>3. DOMAIN queue' = {}
    BY <1>1
  <2> QED
    BY <1>1, <1>4, <2>2, <2>3 DEF TicksInOrder
<1>6. PendingIsTrue'
  BY <1>1, <1>4 DEF PendingIsTrue, NoBars, Of
<1>7. RowsAreTrue'
  BY <1>1, <1>2 DEF RowsAreTrue, Kept
<1> QED
  BY <1>3, <1>5, <1>6, <1>7 DEF HistoryInv

-----------------------------------------------------------------------------
(* The other steps *)

\* A new tick waits behind all others, or is dropped.
LEMMA ObserveKeeps ==
  ASSUME HistoryInv, NEW price \in Price, Observe(price)
  PROVE  HistoryInv'
<1> DEFINE tick == [price |-> price, sequence |-> sequence + 1, second |-> second,
                    process |-> process]
<1>0. PICK t : t = tick
  OBVIOUS
<1>1. /\ UNCHANGED <<second, process, pendingBars, bars, written>>
      /\ sequence' = sequence + 1 /\ sequence \in Nat
  BY DEF Observe, HistoryInv, HistoryTypeOK
<1>2. t \in Observation /\ t.process = process /\ t.sequence = sequence + 1
  BY <1>0 DEF HistoryInv, HistoryTypeOK, Observation
<1>3. \A u \in accepted : Before(u, t) /\ u # t
  BY <1>1, <1>2 DEF HistoryInv, HistoryTypeOK, TicksInOrder, Before, Observation
<1>4. \A u \in accepted : u.process = process => u.sequence <= sequence + 1
  BY <1>1 DEF HistoryInv, HistoryTypeOK, TicksInOrder, Observation
<1>5. CASE UNCHANGED <<queue, accepted>>
  <2>1. TicksInOrder'
    BY <1>1, <1>4, <1>5 DEF HistoryInv, TicksInOrder, Folded
  <2>2. Folded' = Folded
    BY <1>5 DEF Folded
  <2>3. HistoryTypeOK'
    BY <1>1, <1>5 DEF HistoryInv, HistoryTypeOK
  <2> QED
    BY <1>1, <2>1, <2>2, <2>3, SameBars DEF HistoryInv
<1>6. CASE queue' = Append(queue, t) /\ accepted' = accepted \cup {t}
  <2>1. /\ queue' \in Seq(Observation) /\ Len(queue) \in Nat
        /\ DOMAIN queue = 1 .. Len(queue) /\ DOMAIN queue' = 1 .. (Len(queue) + 1)
        /\ \A i \in DOMAIN queue : queue'[i] = queue[i]
        /\ queue'[Len(queue) + 1] = t
    BY <1>2, <1>6 DEF HistoryInv, HistoryTypeOK
  <2>2. ToSet(queue') = ToSet(queue) \cup {t}
    <3>1. ASSUME NEW i \in DOMAIN queue' PROVE queue'[i] \in ToSet(queue) \cup {t}
      BY <2>1 DEF ToSet
    <3>2. ASSUME NEW i \in DOMAIN queue PROVE queue[i] \in ToSet(queue')
      BY <2>1 DEF ToSet
    <3>3. t \in ToSet(queue')
      BY <2>1 DEF ToSet
    <3> QED
      BY <3>1, <3>2, <3>3 DEF ToSet
  <2>3. Folded' = Folded
    BY <1>3, <1>6, <2>2 DEF Folded
  <2>4. TicksInOrder'
    <3>1. ASSUME NEW u \in accepted'
          PROVE  u.process <= process /\ (u.process = process => u.sequence <= sequence + 1)
      BY <1>1, <1>2, <1>4, <1>6, <3>1 DEF HistoryInv, TicksInOrder, HistoryTypeOK
    <3>2. ASSUME NEW i \in DOMAIN queue'
          PROVE  /\ queue'[i] \in accepted'
                 /\ \A u \in Folded : Before(u, queue'[i])
                 /\ \A j \in DOMAIN queue' : i < j => Before(queue'[i], queue'[j])
      <4>1. CASE i \in DOMAIN queue
        <5>1. /\ queue[i] \in accepted
              /\ \A u \in Folded : Before(u, queue[i])
              /\ \A j \in DOMAIN queue : i < j => Before(queue[i], queue[j])
          BY <4>1 DEF HistoryInv, TicksInOrder
        <5>2. Before(queue[i], t)
          BY <1>3, <5>1
        <5> QED
          BY <1>6, <2>1, <4>1, <5>1, <5>2
      <4>2. CASE i = Len(queue) + 1
        <5>1. \A u \in Folded : Before(u, t)
          BY <1>3 DEF Folded
        <5> QED
          BY <1>6, <2>1, <4>2, <5>1
      <4> QED
        BY <2>1, <4>1, <4>2
    <3>3. ASSUME NEW u \in accepted' \ written
          PROVE  u.process = process /\ \A x \in written : Before(x, u)
      <4>1. written \subseteq accepted
        BY DEF HistoryInv, TicksInOrder, Folded
      <4> QED
        BY <1>2, <1>3, <1>6, <3>3, <4>1 DEF HistoryInv, TicksInOrder
    <3>4. written \subseteq Folded
      BY DEF HistoryInv, TicksInOrder
    <3> QED
      BY <1>1, <2>3, <3>1, <3>2, <3>3, <3>4 DEF TicksInOrder
  <2>5. HistoryTypeOK'
    BY <1>1, <1>2, <1>6, <2>1 DEF HistoryInv, HistoryTypeOK
  <2>6. PendingIsTrue' /\ RowsAreTrue'
    BY <1>1, <2>3, SameBars DEF HistoryInv
  <2> QED
    BY <2>4, <2>5, <2>6 DEF HistoryInv
<1> QED
  BY <1>0, <1>5, <1>6 DEF Observe

\* Time passes, and rows that are old enough go: neither touches a row that is kept.
LEMMA AgeingKeeps ==
  ASSUME HistoryInv, Prune \/ NextSecond
  PROVE  HistoryInv'
<1>1. UNCHANGED <<process, sequence, queue, pendingBars, accepted, written>>
  BY DEF Prune, NextSecond
<1>2. TicksInOrder' /\ PendingIsTrue'
  BY <1>1, ZenonT(60) DEF HistoryInv, TicksInOrder, PendingIsTrue, Folded, EndsNow
<1>3. CASE Prune
  <2>1. /\ bars' = [s \in Second |-> IF s < second - Retention THEN {} ELSE bars[s]]
        /\ UNCHANGED second /\ bars \in [Second -> SUBSET Bar] /\ second \in Int
    BY <1>3 DEF Prune, HistoryInv, HistoryTypeOK, Second
  <2>2. bars' \in [Second -> SUBSET Bar]
    BY <2>1
  <2>3. \A s \in Kept : bars'[s] = bars[s]
    BY <2>1 DEF Kept, Second
  <2>4. HistoryTypeOK'
    BY <1>1, <2>1, <2>2 DEF HistoryInv, HistoryTypeOK
  <2>5. RowsAreTrue'
    BY <1>1, <2>1, <2>3 DEF HistoryInv, RowsAreTrue, Kept
  <2> QED
    BY <1>2, <2>4, <2>5 DEF HistoryInv
<1>4. CASE NextSecond
  <2>1. second' \in Second /\ UNCHANGED bars /\ Kept' \subseteq Kept
    BY <1>4 DEF NextSecond, HistoryInv, HistoryTypeOK, Second, Kept
  <2>2. HistoryTypeOK'
    BY <1>1, <2>1 DEF HistoryInv, HistoryTypeOK
  <2>3. RowsAreTrue'
    BY <1>1, <2>1 DEF HistoryInv, RowsAreTrue
  <2> QED
    BY <1>2, <2>2, <2>3 DEF HistoryInv
<1> QED
  BY <1>3, <1>4

LEMMA HistoryInvHolds == HistorySpec => []HistoryInv
<1>1. HistoryInit => HistoryInv
  <2> SUFFICES ASSUME HistoryInit PROVE HistoryInv
    OBVIOUS
  <2>1. HistoryTypeOK
    BY DEF HistoryInit, HistoryTypeOK, Second, NoBars
  <2>2. Folded = {}
    BY DEF HistoryInit, Folded
  <2>3. TicksInOrder
    BY <2>2 DEF HistoryInit, TicksInOrder
  <2>4. PendingIsTrue /\ RowsAreTrue
    BY <2>2 DEF HistoryInit, PendingIsTrue, RowsAreTrue, NoBars, Of, Kept
  <2> QED
    BY <2>1, <2>3, <2>4 DEF HistoryInv
<1>2. HistoryInv /\ [HistoryNext]_historyVars => HistoryInv'
  <2> SUFFICES ASSUME HistoryInv, [HistoryNext]_historyVars PROVE HistoryInv'
    OBVIOUS
  <2>1. CASE UNCHANGED historyVars
    <3>1. Folded' = Folded
      BY <2>1 DEF historyVars, Folded
    <3>2. HistoryTypeOK' /\ TicksInOrder'
      BY <2>1, <3>1 DEF historyVars, HistoryInv, HistoryTypeOK, TicksInOrder
    <3> QED
      BY <2>1, <3>1, <3>2, SameBars DEF historyVars, HistoryInv
  <2> QED
    BY <2>1, ObserveKeeps, FoldKeeps, FlushKeeps, AgeingKeeps, StopKeeps DEF HistoryNext
<1> QED
  BY <1>1, <1>2, PTL DEF HistorySpec

-----------------------------------------------------------------------------
(* The theorems *)

\* A price that bounds a set of prices and belongs to it is its Max, or its Min.
LEMMA EndsAreExtremes ==
  ASSUME NEW P \in SUBSET Int, NEW p \in P
  PROVE  /\ (\A x \in P : x <= p) => p = Max(P)
         /\ (\A x \in P : p <= x) => p = Min(P)
<1>1. ASSUME \A x \in P : x <= p PROVE p = Max(P)
  <2>1. \E x \in P : \A y \in P : x >= y
    BY <1>1
  <2>2. PICK m : m = CHOOSE x \in P : \A y \in P : x >= y
    OBVIOUS
  <2>3. m \in P /\ \A y \in P : m >= y
    BY <2>1, <2>2, Zenon
  <2> QED
    BY <1>1, <2>2, <2>3 DEF Max
<1>2. ASSUME \A x \in P : p <= x PROVE p = Min(P)
  <2>1. \E x \in P : \A y \in P : x =< y
    BY <1>2
  <2>2. PICK m : m = CHOOSE x \in P : \A y \in P : x =< y
    OBVIOUS
  <2>3. m \in P /\ \A y \in P : m =< y
    BY <2>1, <2>2, Zenon
  <2> QED
    BY <1>2, <2>2, <2>3 DEF Min
<1> QED
  BY <1>1, <1>2

\* Whatever batches fail, are repeated or get lost with their answer, and however
\* often the process ends: a kept row has open, high and low of exactly the ticks
\* that were written for its second, and their close too if one process saw them.
THEOREM BarsAreTrue == HistorySpec => []BarIsTrue
<1>1. ASSUME HistoryInv PROVE BarIsTrue
  <2>1. ASSUME NEW s \in Kept, NEW bar \in bars[s], NEW W, W = Of(written, s)
        PROVE  /\ bar.high = Max(Prices(W)) /\ bar.low = Min(Prices(W))
               /\ \E t \in W : bar.open = t.price /\ \A u \in W : ~Before(u, t)
               /\ Cardinality({t.process : t \in W}) = 1 =>
                    \E t \in W : bar.close = t.price /\ \A u \in W : ~Before(t, u)
    <3>1. RowIsOf(bar, W)
      BY <1>1, <2>1 DEF HistoryInv, RowsAreTrue
    <3>2. W \subseteq Observation /\ \A t \in W : t.process \in 0 .. process
      BY <1>1, <2>1 DEF HistoryInv, HistoryTypeOK, TicksInOrder, Folded, Of, Observation
    <3>3. /\ Prices(W) \subseteq Int /\ bar.high \in Prices(W) /\ bar.low \in Prices(W)
          /\ \A x \in Prices(W) : bar.low <= x /\ x <= bar.high
      BY <3>1, <3>2 DEF RowIsOf, Spans, Prices, Observation
    <3>4. bar.high = Max(Prices(W)) /\ bar.low = Min(Prices(W))
      BY <3>3, EndsAreExtremes
    <3>5. ASSUME Cardinality({t.process : t \in W}) = 1 PROVE OneProcess(W)
      <4> DEFINE Processes == {t.process : t \in W}
      <4>1. IsFiniteSet(0 .. process)
        BY <1>1, FS_Interval DEF HistoryInv, HistoryTypeOK
      <4>2. Processes \subseteq 0 .. process
        BY <3>2
      <4>3. IsFiniteSet(Processes)
        BY <4>1, <4>2, FS_Subset
      <4>4. PICK x : Processes = {x}
        BY <3>5, <4>3, FS_Singleton
      <4>5. \A t \in W : t.process \in Processes
        OBVIOUS
      <4> QED
        BY <4>4, <4>5 DEF OneProcess
    <3> QED
      BY <3>1, <3>4, <3>5 DEF RowIsOf, OpensWith, ClosesWith
  <2>2. \A s \in Kept : bars[s] = {} <=> Of(written, s) = {}
    BY <1>1 DEF HistoryInv, RowsAreTrue
  <2> QED
    BY <2>1, <2>2, ZenonT(60) DEF BarIsTrue
<1> QED
  BY <1>1, HistoryInvHolds, PTL

\* No tick the queue took is lost before its process ends: it waits, or a pending
\* bar or a row reaches over its price and its number.
THEOREM AcceptedTicksAreKept == HistorySpec => []AcceptedIsKept
<1>1. ASSUME HistoryInv PROVE AcceptedIsKept
  <2>1. ASSUME NEW t \in accepted, t.second \in Kept, t \notin ToSet(queue)
        PROVE  \E bar \in pendingBars[t.second] \cup bars[t.second] :
                 bar.low <= t.price /\ t.price <= bar.high
                   /\ (process = t.process => t.sequence <= bar.last)
    <3>1. t.second \in Second /\ t \in Of(Folded, t.second) /\ t \in Observation
      BY <1>1, <2>1 DEF Of, Folded, Kept, HistoryInv, HistoryTypeOK
    <3>2. CASE t \in written
      <4>1. t \in Of(written, t.second)
        BY <3>2 DEF Of
      <4>2. bars[t.second] # {}
        BY <1>1, <2>1, <4>1 DEF HistoryInv, RowsAreTrue
      <4> QED
        BY <1>1, <2>1, <4>1, <4>2 DEF HistoryInv, RowsAreTrue, RowIsOf, Spans
    <3>3. CASE t \notin written
      <4>1. PICK bar \in pendingBars[t.second] : TRUE
        BY <1>1, <3>1, <3>3 DEF HistoryInv, PendingIsTrue
      <4>2. /\ Spans(bar, Of(Folded, t.second) \ written, Of(Folded, t.second))
            /\ EndsNow(bar, Of(Folded, t.second))
        BY <1>1, <3>1 DEF HistoryInv, PendingIsTrue
      <4>3. PICK l \in Of(Folded, t.second) :
                   l.process = process /\ bar.last = l.sequence /\ ~Before(l, t)
        BY <3>1, <4>2 DEF EndsNow
      <4>4. l \in Observation
        BY <1>1, <4>3 DEF HistoryInv, HistoryTypeOK, Of, Folded
      <4>5. process = t.process => t.sequence <= bar.last
        BY <3>1, <4>3, <4>4 DEF Before, Observation
      <4> QED
        BY <3>1, <3>3, <4>1, <4>2, <4>5 DEF Spans
    <3> QED
      BY <3>2, <3>3
  <2> QED
    BY <2>1 DEF AcceptedIsKept
<1> QED
  BY <1>1, HistoryInvHolds, PTL

=============================================================================
