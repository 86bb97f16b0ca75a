----------------------------- MODULE TradeClient -----------------------------
(***************************************************************************)
(* The trading screen against the API.  The app shows a copy of the        *)
(* server's state that events, a timer and its own commands refresh; it    *)
(* prefetches quotes for the market it shows, sends one open or close per  *)
(* swipe, and pops a trade's result up.  Requests are answered late and in *)
(* any order, and an answer may be lost.                                   *)
(*                                                                         *)
(* From frontend/src/useTick.ts and components/useTradeSwipe.ts.  A swipe  *)
(* is one step that sees the last state set; the server's side of a trade  *)
(* is LiveTrading's, here only the statuses it goes through.               *)
(***************************************************************************)
EXTENDS Integers, FiniteSets

CONSTANTS
  Market,        \* the markets of the carousel
  MaxTrades,     \* bound on the trades the server accepts
  MaxCloseTries, \* bound on the closes accepted for one trade
  MaxSwitches    \* bound on switches between demo and live

ASSUME ClientConstants == Market # {} /\ MaxTrades \in Nat /\ MaxCloseTries \in Nat \ {0}

VARIABLES
  trades,       \* server: [Trade -> Row], in order of creation
  tradingMode,  \* server: the user's active trading mode
  view,         \* the app's state, a set of at most one Copy
  market,       \* activeMarketId
  prefetched,   \* market of the prefetched quotes, a set of at most one
  busyAction,   \* BOOLEAN, busyAction is set
  command,      \* the swipe's request, a set of at most one: actionBusy
  refresh,      \* refreshState: "idle", "asked" or "answered" (stateBusy)
  reload,       \* a switch of mode: "idle", "switched", "asked" or "answered"
  answers,      \* ["refresh", "reload" -> set of at most one Copy] on its way
  initialized,  \* stateInitialized
  shown,        \* shownReconciliations
  pending,      \* pendingReconciliations
  pops,         \* history: final results popped up for a trade since the reload
  oldResults,   \* history: the trades that had ended before the last reload, in its mode
  overtaken,    \* history: a refresh was under way when the app reloaded
  meant,        \* history: [Trade -> SUBSET Market], what the screen showed
  switches

serverVars  == <<trades, tradingMode>>
swipeVars   == <<busyAction, command, meant>>
fetchVars   == <<refresh, reload, answers>>
resultVars  == <<initialized, shown, pending, pops>>
reloadVars  == <<oldResults, overtaken, switches>>
clientVars  == <<serverVars, view, market, prefetched, swipeVars, fetchVars, resultVars,
                 reloadVars>>

Trade == 1..MaxTrades
Modes == {"demo", "live"}

\* Every accepted close adds a reconciliation; the last one gets the result.
Row == [status : {"none", "opening", "open", "closing", "unknown", "failed", "closed"},
        market : Market, mode : Modes, reconciliations : 0..MaxCloseTries, final : BOOLEAN]
Copy == [Trade -> Row]

ActiveStatuses == {"opening", "open", "closing", "unknown"}
Live(copy)   == {t \in Trade : copy[t].status \in ActiveStatuses}
Ended(copy)  == {t \in Trade : copy[t].status = "closed"}
Reconciliations(copy) ==
  UNION {{<<t, k>> : k \in 1..copy[t].reconciliations} : t \in Trade}

Unused == [status |-> "none", market |-> CHOOSE m \in Market : TRUE, mode |-> "demo",
           reconciliations |-> 0, final |-> FALSE]

\* GET /api/state: the trades of the active mode, newest first.
Response == [t \in Trade |-> IF trades[t].mode = tradingMode THEN trades[t] ELSE Unused]

ShownTrades == UNION {Live(copy) : copy \in view}

ClientBusy ==
  \/ busyAction
  \/ \E copy \in view, t \in ShownTrades : copy[t].status \in {"opening", "closing"}

-----------------------------------------------------------------------------
(* Markets and quotes *)

\* selectMarket and shiftMarket leave the quotes alone.
Shift(m) ==
  /\ ShownTrades = {} /\ ~ClientBusy /\ m # market
  /\ market' = m
  /\ UNCHANGED <<serverVars, view, prefetched, swipeVars, fetchVars, resultVars, reloadVars>>

\* The answer to a prefetch counts only while the market it was asked for is on
\* the screen: a change of market or a position cancels the effect that asked.  A
\* refusal (422) clears the quotes.
QuotesArrive ==
  /\ ShownTrades = {}
  /\ prefetched' \in {{market}, {}}
  /\ UNCHANGED <<serverVars, view, market, swipeVars, fetchVars, resultVars, reloadVars>>

\* The effect clears the quotes when a position is shown.
QuotesBeside(copy) == prefetched' = IF Live(copy) = {} THEN prefetched ELSE {}

-----------------------------------------------------------------------------
(* Swipes *)

\* The prefetched quote is used while it is fresh and matches the settings;
\* otherwise one is asked for the market on the screen.
SwipeOpen ==
  /\ ShownTrades = {} /\ ~ClientBusy /\ command = {}
  /\ \E quoted \in {prefetched, {market}} \ {{}} :
       command' = {[kind |-> "open", trade |-> 1, market |-> quoted, answer |-> "none"]}
  /\ meant' = [t \in Trade |-> IF trades[t].status = "none" THEN {market} ELSE meant[t]]
  /\ busyAction' = TRUE
  /\ UNCHANGED <<serverVars, view, market, prefetched, fetchVars, resultVars, reloadVars>>

SwipeClose ==
  /\ ~ClientBusy /\ command = {}
  /\ \E t \in ShownTrades :
       command' = {[kind |-> "close", trade |-> t, market |-> {}, answer |-> "none"]}
  /\ busyAction' = TRUE
  /\ UNCHANGED <<serverVars, view, market, prefetched, meant, fetchVars, resultVars,
                 reloadVars>>

ServeOpen(c, t) ==
  /\ c.kind = "open" /\ trades[t].status = "none"
  /\ \A u \in 1..(t - 1) : trades[u].status # "none"
  /\ Live(Response) = {}
  /\ \E m \in c.market :
       trades' = [trades EXCEPT ![t] =
                    [Unused EXCEPT !.status = "opening", !.market = m, !.mode = tradingMode]]

ServeClose(c, t) ==
  /\ c.kind = "close" /\ c.trade = t /\ trades[t].mode = tradingMode
  /\ trades[t].status \in {"open", "unknown"}
  /\ trades[t].reconciliations < MaxCloseTries
  /\ trades' = [trades EXCEPT ![t].status = "closing", ![t].reconciliations = @ + 1]

\* accept_open and accept_close, which also refuse for reasons of their own.
Serve ==
  \E c \in command :
    /\ c.answer = "none"
    /\ \/ \E t \in Trade :
            /\ ServeOpen(c, t) \/ ServeClose(c, t)
            /\ command' = {[c EXCEPT !.answer = "accepted", !.trade = t]}
       \/ /\ command' = {[c EXCEPT !.answer = "refused"]}
          /\ UNCHANGED trades
    /\ UNCHANGED <<tradingMode, view, market, prefetched, busyAction, meant, fetchVars, resultVars,
                   reloadVars>>

RefreshAgain == refresh' = IF refresh = "idle" THEN "asked" ELSE refresh

\* applyAccepted puts the position as it was accepted over the app's own.
Accepted ==
  \E c \in command :
    /\ c.answer = "accepted"
    /\ view' = {[copy EXCEPT ![c.trade] =
                   [copy[c.trade] EXCEPT
                      !.status = IF c.kind = "open" THEN "opening" ELSE "closing",
                      !.market = trades[c.trade].market, !.mode = trades[c.trade].mode]]
                : copy \in view}
    /\ prefetched' = {}
    /\ command' = {}
    /\ RefreshAgain
    /\ UNCHANGED <<serverVars, market, busyAction, meant, reload, answers, resultVars,
                   reloadVars>>

\* Refused, failed on the way, or the answer is lost.
CommandFails ==
  /\ command # {}
  /\ command' = {}
  /\ busyAction' = FALSE
  /\ RefreshAgain
  /\ UNCHANGED <<serverVars, view, market, prefetched, meant, reload, answers, resultVars,
                 reloadVars>>

-----------------------------------------------------------------------------
(* refreshState *)

AskState ==
  /\ refresh = "idle"
  /\ refresh' = "asked"
  /\ UNCHANGED <<serverVars, view, market, prefetched, swipeVars, reload, answers, resultVars,
                 reloadVars>>

AnswerState ==
  /\ refresh = "asked"
  /\ refresh' = "answered"
  /\ answers' = [answers EXCEPT !.refresh = {Response}]
  /\ UNCHANGED <<serverVars, view, market, prefetched, swipeVars, reload, resultVars,
                 reloadVars>>

LoseState ==
  /\ refresh # "idle"
  /\ refresh' = "idle"
  /\ answers' = [answers EXCEPT !.refresh = {}]
  /\ UNCHANGED <<serverVars, view, market, prefetched, swipeVars, reload, resultVars,
                 reloadVars>>

\* Faulty form: the result is not marked as shown.
PopUnmarked(t, r) ==
  /\ pending' = pending \ {r}
  /\ pops' = [pops EXCEPT ![t] = IF @ < 2 THEN @ + 1 ELSE @]
  /\ UNCHANGED shown

PopFinal(t, r) ==
  /\ pending' = pending \ {r}
  /\ shown' = shown \cup {r}
  /\ pops' = [pops EXCEPT ![t] = IF @ < 2 THEN @ + 1 ELSE @]

\* The newest ended trade, and any one of its reconciliations: neither the query
\* nor the app orders them.
Results(copy) ==
  \/ /\ Ended(copy) = {}
     /\ UNCHANGED <<shown, pending, pops>>
  \/ \E t \in Ended(copy) :
       /\ \A u \in Ended(copy) : u <= t
       /\ \E k \in 1..copy[t].reconciliations :
            CASE <<t, k>> \in shown -> UNCHANGED <<shown, pending, pops>>
              [] <<t, k>> \notin shown /\ copy[t].final /\ k = copy[t].reconciliations ->
                   PopFinal(t, <<t, k>>)
              [] OTHER -> /\ pending' = pending \cup {<<t, k>>}
                          /\ UNCHANGED <<shown, pops>>

\* The first answer after a load marks what is there as shown.
ReceiveState ==
  \E copy \in answers.refresh :
    /\ refresh' = "idle"
    /\ answers' = [answers EXCEPT !.refresh = {}]
    /\ view' = {copy}
    /\ busyAction' = FALSE
    /\ QuotesBeside(copy)
    /\ initialized' = TRUE
    /\ IF initialized THEN Results(copy)
       ELSE /\ shown' = shown \cup Reconciliations(copy)
            /\ UNCHANGED <<pending, pops>>
    /\ UNCHANGED <<serverVars, market, command, meant, reload, reloadVars>>

-----------------------------------------------------------------------------
(* switchTradingMode and reloadProfileState *)

SwitchTradingMode ==
  /\ reload = "idle" /\ switches < MaxSwitches
  /\ Live(Response) = {}
  /\ tradingMode' \in Modes \ {tradingMode}
  /\ reload' = "switched"
  /\ switches' = switches + 1
  /\ oldResults' = {}
  /\ UNCHANGED <<trades, view, market, prefetched, swipeVars, refresh, answers, resultVars,
                 overtaken>>

ForgetResults ==
  /\ shown' = {} /\ pending' = {}
  /\ pops' = [t \in Trade |-> 0]
  /\ oldResults' = Ended(Response)
  /\ overtaken' = (refresh # "idle")

\* Faulty form: stateInitialized is not reset.
ReloadAsInitialized ==
  /\ reload = "switched"
  /\ reload' = "asked"
  /\ ForgetResults
  /\ prefetched' = {}
  /\ UNCHANGED <<serverVars, view, market, swipeVars, refresh, answers,
                 initialized, switches>>

Reload ==
  /\ reload = "switched"
  /\ reload' = "asked"
  /\ ForgetResults
  /\ initialized' = FALSE
  /\ prefetched' = {}
  /\ UNCHANGED <<serverVars, view, market, swipeVars, refresh, answers, switches>>

AnswerReload ==
  /\ reload = "asked"
  /\ reload' = "answered"
  /\ answers' = [answers EXCEPT !.reload = {Response}]
  /\ UNCHANGED <<serverVars, view, market, prefetched, swipeVars, refresh, resultVars,
                 reloadVars>>

ReceiveReload ==
  \E copy \in answers.reload :
    /\ reload' = "idle"
    /\ answers' = [answers EXCEPT !.reload = {}]
    /\ view' = {copy}
    /\ QuotesBeside(copy)
    /\ UNCHANGED <<serverVars, market, swipeVars, refresh, resultVars, reloadVars>>

LoseReload ==
  /\ reload # "idle"
  /\ reload' = "idle"
  /\ answers' = [answers EXCEPT !.reload = {}]
  /\ UNCHANGED <<serverVars, view, market, prefetched, swipeVars, refresh, resultVars,
                 reloadVars>>

-----------------------------------------------------------------------------
(* The workers behind the API *)

Outcome ==
  {<<"opening", "open">>, <<"opening", "failed">>, <<"open", "closed">>,
   <<"closing", "open">>, <<"closing", "unknown">>, <<"closing", "closed">>,
   <<"unknown", "closed">>}

TradeMoves(t) ==
  \E change \in Outcome :
    /\ change[1] = trades[t].status
    /\ trades' = [trades EXCEPT ![t].status = change[2],
         ![t].reconciliations = IF change[2] = "closed" /\ @ = 0 THEN 1 ELSE @]
    /\ UNCHANGED <<tradingMode, view, market, prefetched, swipeVars, fetchVars, resultVars, reloadVars>>

ResultIsFinal(t) ==
  /\ trades[t].status = "closed" /\ ~trades[t].final
  /\ trades' = [trades EXCEPT ![t].final = TRUE]
  /\ UNCHANGED <<tradingMode, view, market, prefetched, swipeVars, fetchVars, resultVars, reloadVars>>

ClientInit ==
  /\ tradingMode = "demo" /\ market = CHOOSE m \in Market : TRUE
  /\ trades = [t \in Trade |-> Unused]
  /\ view = {} /\ prefetched = {} /\ busyAction = FALSE /\ command = {}
  /\ refresh = "idle" /\ reload = "idle"
  /\ answers = [refresh |-> {}, reload |-> {}]
  /\ initialized = FALSE /\ shown = {} /\ pending = {}
  /\ pops = [t \in Trade |-> 0]
  /\ oldResults = {} /\ overtaken = FALSE
  /\ meant = [t \in Trade |-> {}] /\ switches = 0

ClientNext ==
  \/ \E m \in Market : Shift(m)
  \/ QuotesArrive
  \/ SwipeOpen \/ SwipeClose \/ Serve \/ Accepted \/ CommandFails
  \/ AskState \/ AnswerState \/ LoseState \/ ReceiveState
  \/ SwitchTradingMode \/ Reload \/ AnswerReload \/ ReceiveReload \/ LoseReload
  \/ \E t \in Trade : TradeMoves(t) \/ ResultIsFinal(t)

ClientSpec == ClientInit /\ [][ClientNext]_clientVars

-----------------------------------------------------------------------------
(* Properties *)

\* However often and late the state arrives, the final result of a trade pops
\* up at most once between two loads of the profile (shownReconciliations).
ResultShownOnce == \A t \in Trade : pops[t] < 2

\* A result that was there when the profile was loaded does not pop up as news
\* (stateInitialized), unless a refresh asked before the load is answered after it.  It
\* does if the mode is then switched and switched back without a load: then what the
\* app marked as shown may be of the other mode.
ResultIsNew ==
  ~overtaken => \A t \in oldResults : pops[t] = 0 /\ \A r \in pending : r[1] # t

\* The two below are what documents promise and the code does not keep (README.md,
\* section 3): no run assumes them.

\* A trade is opened on the market the screen showed when the user swiped: the
\* quote it is opened with captures the selected market.  After a shift the quotes
\* of the market before are still there and match the settings.
OpensWhatIsShown ==
  \A t \in Trade : trades[t].status # "none" => trades[t].market \in meant[t]

\* While a trade of the active mode is opening or closing, gestures are locked.  An
\* answer to a refresh asked before the swipe clears busyAction and the position.
GesturesLocked ==
  \A t \in Trade : trades[t].status \in {"opening", "closing"} /\ trades[t].mode = tradingMode
                     => ClientBusy \/ command # {}
=============================================================================
