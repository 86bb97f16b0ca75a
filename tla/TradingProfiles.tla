-------------------------- MODULE TradingProfiles --------------------------
(***************************************************************************)
(* The two trading profiles of one user.  The user row says which mode and *)
(* which venue is active; the demo profile has a season and a balance that *)
(* simulated fills debit and credit.  Requests of the API, worker threads  *)
(* that execute demo attempts, and the demo risk monitor meet on these     *)
(* rows, each holding only some of their locks.                            *)
(*                                                                         *)
(* A step is one database transaction, except that a request is split      *)
(* where accept_open and accept_close read the mode of the user without a  *)
(* lock.  The chain is not involved: what a live position goes through is  *)
(* LiveTrading, here it only changes its status.  The queue is left out: a *)
(* demo attempt that waits may be claimed at any time.                     *)
(***************************************************************************)
EXTENDS Integers, FiniteSets, TradeStates

CONSTANTS
    MaxPos,        \* positions are rows 1 .. MaxPos, in order of creation
    Exec,          \* identities of execution attempts
    Worker,        \* threads that run jobs
    Request,       \* API requests in progress at a time
    Venue,         \* venues the user may choose
    Ticket,        \* collateral a quote may ask for
    Returned,      \* what a simulated close may pay back
    StartBalance,  \* balance of a new season
    MaxSeason,     \* bound: seasons of the demo profile
    MaxQuotes,     \* bound: quotes that have not expired
    NULL

ASSUME ProfileAssumption ==
    /\ MaxPos \in Nat \ {0}
    /\ Ticket \subseteq Nat \ {0}
    /\ Returned \subseteq Nat
    /\ StartBalance \in Nat
    /\ MaxSeason \in Nat \ {0}
    /\ MaxQuotes \in Nat
    /\ NULL \notin Exec

Pos == 1 .. MaxPos
Season == 1 .. MaxSeason
Mode == {"live", "demo"}
Quote == [mode : Mode, season : Season, venue : Venue, ticket : Ticket]

VARIABLES
    mode,         \* users.active_trading_mode
    venue,        \* users.active_venue
    season,       \* current_season of the demo profile; the live one stays 1
    balance,      \* balance_usd of the demo profile
    ending,       \* demo_profile_resets.ending_balance_usd of each ended season
    quotes,       \* quotes that have not expired
    reqMode,      \* the mode each request has read, "none" when it is not running
    posStatus,    \* positions.status, "NONE" before the row exists
    posQuote,     \* mode, season, venue and ticket the position was opened with
    posEntry,     \* positions.entry_price is set
    exStatus,     \* execution_attempts.status
    exAction,     \* execution_attempts.action
    exPos,        \* the position of the attempt's intent
    wExec,        \* the attempt each worker thread claimed
    wEntry,       \* its context carries an entry price
    monitor,      \* the position the demo monitor has priced, 0 none
    ledger,       \* sum of the amounts of the ledger events of each season
    locks,        \* demo_collateral_locked events of each position
    settlements   \* demo_position_settled events of each position

userVars == <<mode, venue, quotes, reqMode>>
demoVars == <<season, balance, ending, ledger>>
posVars == <<posStatus, posQuote, posEntry, locks, settlements>>
exVars == <<exStatus, exAction, exPos>>
wVars == <<wExec, wEntry>>
vars == <<userVars, demoVars, posVars, exVars, wVars, monitor>>

UserTypeOK ==
    /\ mode \in Mode
    /\ venue \in Venue
    /\ quotes \subseteq Quote
    /\ reqMode \in [Request -> Mode \union {"none"}]

DemoTypeOK ==
    /\ season \in Season
    /\ balance \in Nat
    /\ ending \in [Season -> Nat]
    /\ ledger \in [Season -> Int]

PosTypeOK ==
    /\ posStatus \in [Pos -> PositionStatus \union {"NONE"}]
    /\ posQuote \in [Pos -> Quote \union {NULL}]
    /\ \A p \in Pos : posStatus[p] # "NONE" => posQuote[p] \in Quote
    /\ posEntry \in [Pos -> BOOLEAN]
    /\ locks \in [Pos -> Nat]
    /\ settlements \in [Pos -> Nat]

ExTypeOK ==
    /\ exStatus \in [Exec -> ExecutionStatus \union {"NONE"}]
    /\ exAction \in [Exec -> {"OPEN", "CLOSE", "NONE"}]
    /\ exPos \in [Exec -> 0 .. MaxPos]
    /\ \A e \in Exec : exStatus[e] # "NONE" => exPos[e] \in Pos

WorkerTypeOK ==
    /\ wExec \in [Worker -> Exec \union {NULL}]
    /\ wEntry \in [Worker -> BOOLEAN]
    /\ \A w \in Worker : wExec[w] # NULL => exStatus[wExec[w]] # "NONE"
    /\ monitor \in 0 .. MaxPos

\* Every variable has its type; in particular the balance is never negative,
\* and a thread works on an attempt that exists, of a position that exists.
TypeOK == UserTypeOK /\ DemoTypeOK /\ PosTypeOK /\ ExTypeOK /\ WorkerTypeOK

Init ==
    /\ mode \in Mode
    /\ venue \in Venue
    /\ quotes = {}
    /\ reqMode = [r \in Request |-> "none"]
    /\ season = 1
    /\ balance = StartBalance
    /\ ending = [s \in Season |-> 0]
    /\ ledger = [s \in Season |-> 0]
    /\ posStatus = [p \in Pos |-> "NONE"]
    /\ posQuote = [p \in Pos |-> NULL]
    /\ posEntry = [p \in Pos |-> FALSE]
    /\ locks = [p \in Pos |-> 0]
    /\ settlements = [p \in Pos |-> 0]
    /\ exStatus = [e \in Exec |-> "NONE"]
    /\ exAction = [e \in Exec |-> "NONE"]
    /\ exPos = [e \in Exec |-> 0]
    /\ wExec = [w \in Worker |-> NULL]
    /\ wEntry = [w \in Worker |-> FALSE]
    /\ monitor = 0

-----------------------------------------------------------------------------
Active(p) == posStatus[p] \in ActiveStatus
Terminal(p) == posStatus[p] \in TerminalStatus
Demo(p) == posStatus[p] # "NONE" /\ posQuote[p].mode = "demo"

\* current_season of the profile of a mode.
SeasonOf(m) == IF m = "demo" THEN season ELSE 1

\* An active position of the user, in any profile and in one profile.
AnyActive == \E p \in Pos : Active(p)
ActiveIn(m, s) ==
    \E p \in Pos : Active(p) /\ posQuote[p].mode = m /\ posQuote[p].season = s

MovePosition(p, to) ==
    /\ CanTransition(posStatus[p], to)
    /\ posStatus' = [posStatus EXCEPT ![p] = to]

MoveExecution(e, to) ==
    /\ CanExecutionTransition(exStatus[e], to)
    /\ exStatus' = [exStatus EXCEPT ![e] = to]

\* Faulty form: the demo profile is found whatever its season.
AnySeason(p) == Demo(p)

\* _demo_profile: the demo profile, if it is still in the position's season.
InSeason(p) == Demo(p) /\ posQuote[p].season = season

-----------------------------------------------------------------------------
(* The API, at rest: one lock, one transaction.                            *)

\* switch_trading_mode
SwitchMode(m) ==
    /\ ~AnyActive
    /\ mode' = m
    /\ UNCHANGED <<venue, quotes, reqMode, demoVars, posVars, exVars, wVars, monitor>>

\* Faulty form: only the trades of the active mode hold the venue.
SwitchVenueBesideOtherMode(v) ==
    /\ ~ActiveIn(mode, SeasonOf(mode))
    /\ venue' = v
    /\ UNCHANGED <<mode, quotes, reqMode, demoVars, posVars, exVars, wVars, monitor>>

\* switch_venue
SwitchVenue(v) ==
    /\ ~AnyActive
    /\ venue' = v
    /\ UNCHANGED <<mode, quotes, reqMode, demoVars, posVars, exVars, wVars, monitor>>

\* Faulty form: only an open demo trade holds its season.
ResetBesidePending ==
    /\ \A p \in Pos : InSeason(p) => posStatus[p] # "OPEN"
    /\ season < MaxSeason
    /\ season' = season + 1
    /\ ending' = [ending EXCEPT ![season] = balance]
    /\ balance' = StartBalance
    /\ UNCHANGED <<userVars, ledger, posVars, exVars, wVars, monitor>>

\* reset_demo_profile: the active mode does not matter, nor do live trades.
ResetDemo ==
    /\ ~ActiveIn("demo", season)
    /\ season < MaxSeason
    /\ season' = season + 1
    /\ ending' = [ending EXCEPT ![season] = balance]
    /\ balance' = StartBalance
    /\ UNCHANGED <<userVars, ledger, posVars, exVars, wVars, monitor>>

\* create_quote: the venue that was priced is still the active one.
CreateQuote(ticket) ==
    /\ Cardinality(quotes) < MaxQuotes
    /\ quotes' = quotes \union
            {[mode |-> mode, season |-> SeasonOf(mode), venue |-> venue, ticket |-> ticket]}
    /\ UNCHANGED <<mode, venue, reqMode, demoVars, posVars, exVars, wVars, monitor>>

ExpireQuote(q) ==
    /\ q \in quotes
    /\ quotes' = quotes \ {q}
    /\ UNCHANGED <<mode, venue, reqMode, demoVars, posVars, exVars, wVars, monitor>>

-----------------------------------------------------------------------------
(* The API, open and close: the mode is read first, then the rows are      *)
(* locked, and a switch of the mode may commit in between.                 *)

\* _active_profile reads the user without a lock.
ReadMode(r) ==
    /\ reqMode[r] = "none"
    /\ reqMode' = [reqMode EXCEPT ![r] = mode]
    /\ UNCHANGED <<mode, venue, quotes, demoVars, posVars, exVars, wVars, monitor>>

\* The request is refused, or its idempotency key is known already.
Refuse(r) ==
    /\ reqMode[r] # "none"
    /\ reqMode' = [reqMode EXCEPT ![r] = "none"]
    /\ UNCHANGED <<mode, venue, quotes, demoVars, posVars, exVars, wVars, monitor>>

NewExecution(e, action, p) ==
    /\ exStatus[e] = "NONE"
    /\ exStatus' = [exStatus EXCEPT ![e] = "CREATED"]
    /\ exAction' = [exAction EXCEPT ![e] = action]
    /\ exPos' = [exPos EXCEPT ![e] = p]

\* Faulty form: a position that is not open yet does not count.
AcceptOpenBesideOpening(r, q, p, e) ==
    LET m == reqMode[r] IN
    /\ m # "none"
    /\ q \in quotes
    /\ q.mode = m /\ q.season = SeasonOf(m) /\ q.venue = venue
    /\ \A o \in Pos : posStatus[o] = "OPEN" => posQuote[o].mode # m
    /\ m = "demo" => balance >= q.ticket
    /\ posStatus[p] = "NONE"
    /\ \A o \in 1 .. (p - 1) : posStatus[o] # "NONE"
    /\ posStatus' = [posStatus EXCEPT ![p] = "OPENING"]
    /\ posQuote' = [posQuote EXCEPT ![p] = q]
    /\ NewExecution(e, "OPEN", p)
    /\ reqMode' = [reqMode EXCEPT ![r] = "none"]
    /\ UNCHANGED <<mode, venue, quotes, demoVars, posEntry, locks, settlements, wVars,
                   monitor>>

\* accept_open: the profile of the mode read before, then the user, are
\* locked.  The venue is compared again under the user's lock, the mode not.
AcceptOpen(r, q, p, e) ==
    LET m == reqMode[r] IN
    /\ m # "none"
    /\ q \in quotes
    /\ q.mode = m /\ q.season = SeasonOf(m) /\ q.venue = venue
    /\ ~ActiveIn(m, SeasonOf(m))
    /\ m = "demo" => balance >= q.ticket
    /\ posStatus[p] = "NONE"
    /\ \A o \in 1 .. (p - 1) : posStatus[o] # "NONE"
    /\ posStatus' = [posStatus EXCEPT ![p] = "OPENING"]
    /\ posQuote' = [posQuote EXCEPT ![p] = q]
    /\ NewExecution(e, "OPEN", p)
    /\ reqMode' = [reqMode EXCEPT ![r] = "none"]
    /\ UNCHANGED <<mode, venue, quotes, demoVars, posEntry, locks, settlements, wVars,
                   monitor>>

\* accept_close: only a position of the profile the request has read.
AcceptClose(r, p, e) ==
    LET m == reqMode[r] IN
    /\ m # "none"
    /\ posStatus[p] \in ClosableStatus
    /\ posQuote[p].mode = m /\ posQuote[p].season = SeasonOf(m)
    /\ posStatus' = [posStatus EXCEPT ![p] = "CLOSING"]
    /\ NewExecution(e, "CLOSE", p)
    /\ reqMode' = [reqMode EXCEPT ![r] = "none"]
    /\ UNCHANGED <<mode, venue, quotes, demoVars, posQuote, posEntry, locks,
                   settlements, wVars, monitor>>

-----------------------------------------------------------------------------
(* Demo execution.                                                         *)

\* claim and load: the context remembers whether the entry price was there.
Claim(w, e) ==
    /\ wExec[w] = NULL
    /\ exStatus[e] = "CREATED"
    /\ Demo(exPos[e])
    /\ MoveExecution(e, "CLAIMED")
    /\ wExec' = [wExec EXCEPT ![w] = e]
    /\ wEntry' = [wEntry EXCEPT ![w] = exAction[e] = "CLOSE" /\ posEntry[exPos[e]]]
    /\ UNCHANGED <<userVars, demoVars, posVars, exAction, exPos, monitor>>

\* A claim is released after two minutes; a simulated fill sleeps for less than
\* two seconds and asks for one quote, so only a dead thread is that slow.
ReleaseStaleClaim(e) ==
    /\ exStatus[e] = "CLAIMED"
    /\ \A w \in Worker : wExec[w] # e
    /\ exStatus' = [exStatus EXCEPT ![e] = "CREATED"]
    /\ UNCHANGED <<userVars, demoVars, posVars, exAction, exPos, wVars, monitor>>

Release(w) ==
    /\ wExec' = [wExec EXCEPT ![w] = NULL]
    /\ wEntry' = [wEntry EXCEPT ![w] = FALSE]

\* Faulty form: what is debited from the balance should be credited.
BookSwapped(s, amount) ==
    /\ balance' = balance - amount
    /\ ledger' = [ledger EXCEPT ![s] = @ + amount]

\* The balance and the ledger event of a booking are one transaction.
Book(s, amount) ==
    /\ balance' = balance + amount
    /\ ledger' = [ledger EXCEPT ![s] = @ + amount]

\* mark_demo_open
BookOpen(w) ==
    LET e == wExec[w]
        p == exPos[e]
        ticket == posQuote[p].ticket IN
    /\ e # NULL
    /\ exAction[e] = "OPEN"
    /\ InSeason(p)
    /\ balance >= ticket
    /\ Book(posQuote[p].season, -ticket)
    /\ MoveExecution(e, "VENUE_EXECUTED")
    /\ MovePosition(p, "OPEN")
    /\ posEntry' = [posEntry EXCEPT ![p] = TRUE]
    /\ locks' = [locks EXCEPT ![p] = @ + 1]
    /\ Release(w)
    /\ UNCHANGED <<userVars, season, ending, posQuote, settlements, exAction, exPos,
                   monitor>>

EndedBy(liquidated) == IF liquidated THEN "LIQUIDATED" ELSE "CLOSED"

\* Faulty form: a close does not ask for the entry price.
BookCloseAtOnce(w, returned, liquidated) ==
    LET e == wExec[w]
        p == exPos[e] IN
    /\ e # NULL
    /\ exAction[e] = "CLOSE"
    /\ InSeason(p)
    /\ liquidated => returned = 0
    /\ Book(posQuote[p].season, returned)
    /\ MoveExecution(e, "VENUE_EXECUTED")
    /\ MovePosition(p, EndedBy(liquidated))
    /\ settlements' = [settlements EXCEPT ![p] = @ + 1]
    /\ Release(w)
    /\ UNCHANGED <<userVars, season, ending, posQuote, posEntry, locks, exAction,
                   exPos, monitor>>

\* mark_demo_close: the amount is credited whatever the position has become
\* since, as long as the tables allow the statuses.
BookClose(w, returned, liquidated) ==
    LET e == wExec[w]
        p == exPos[e] IN
    /\ e # NULL
    /\ exAction[e] = "CLOSE"
    /\ wEntry[w]
    /\ InSeason(p)
    /\ liquidated => returned = 0
    /\ Book(posQuote[p].season, returned)
    /\ MoveExecution(e, "VENUE_EXECUTED")
    /\ MovePosition(p, EndedBy(liquidated))
    /\ settlements' = [settlements EXCEPT ![p] = @ + 1]
    /\ Release(w)
    /\ UNCHANGED <<userVars, season, ending, posQuote, posEntry, locks, exAction,
                   exPos, monitor>>

\* mark_failed: no price, no entry price, an ended season, too little balance
\* or a refused status.  A claimed demo attempt has no hash: it is FAILED.
MarkFailed(w) ==
    LET e == wExec[w]
        p == exPos[e] IN
    /\ e # NULL
    /\ MoveExecution(e, "FAILED")
    /\ IF Terminal(p) THEN UNCHANGED posStatus
       ELSE MovePosition(p, IF exAction[e] = "CLOSE" THEN "UNKNOWN" ELSE "CLOSED")
    /\ Release(w)
    /\ UNCHANGED <<userVars, demoVars, posQuote, posEntry, locks, settlements,
                   exAction, exPos, monitor>>

\* The thread dies with its process before it books anything.
Crash(w) ==
    /\ wExec[w] # NULL
    /\ Release(w)
    /\ UNCHANGED <<userVars, demoVars, posVars, exVars, monitor>>

-----------------------------------------------------------------------------
(* The demo risk monitor.                                                  *)

\* open_demo_positions lists the position; its price is asked for next.
MonitorRead(p) ==
    /\ monitor = 0
    /\ Demo(p) /\ posStatus[p] = "OPEN" /\ posEntry[p]
    /\ monitor' = p
    /\ UNCHANGED <<userVars, demoVars, posVars, exVars, wVars>>

\* settle_demo_terminal: season and status are compared again.  The attempt it
\* inserts is executed already and no thread ever sees it.
MonitorSettle(returned, liquidated) ==
    LET p == monitor IN
    /\ p # 0
    /\ InSeason(p)
    /\ posStatus[p] = "OPEN"
    /\ liquidated => returned = 0
    /\ Book(posQuote[p].season, returned)
    /\ MovePosition(p, EndedBy(liquidated))
    /\ settlements' = [settlements EXCEPT ![p] = @ + 1]
    /\ monitor' = 0
    /\ UNCHANGED <<userVars, season, ending, posQuote, posEntry, locks, exVars, wVars>>

\* No threshold is crossed, the position is not open any more, or no price.
MonitorSkip ==
    /\ monitor # 0
    /\ monitor' = 0
    /\ UNCHANGED <<userVars, demoVars, posVars, exVars, wVars>>

\* An active live position takes its way through the table: LiveTrading says
\* which steps, here it only matters whether it is still active.
LiveMoves(p, to) ==
    /\ Active(p) /\ posQuote[p].mode = "live"
    /\ MovePosition(p, to)
    /\ UNCHANGED <<userVars, demoVars, posQuote, posEntry, locks, settlements, exVars,
                   wVars, monitor>>

-----------------------------------------------------------------------------
UserStep ==
    \/ \E m \in Mode : SwitchMode(m)
    \/ \E v \in Venue : SwitchVenue(v)
    \/ ResetDemo
    \/ \E ticket \in Ticket : CreateQuote(ticket)
    \/ \E q \in Quote : ExpireQuote(q)

RequestStep(r) ==
    \/ ReadMode(r)
    \/ Refuse(r)
    \/ \E q \in Quote, p \in Pos, e \in Exec : AcceptOpen(r, q, p, e)
    \/ \E p \in Pos, e \in Exec : AcceptClose(r, p, e)

WorkerStep(w) ==
    \/ \E e \in Exec : Claim(w, e)
    \/ BookOpen(w)
    \/ \E returned \in Returned, liquidated \in BOOLEAN : BookClose(w, returned, liquidated)
    \/ MarkFailed(w)
    \/ Crash(w)

MonitorStep ==
    \/ \E p \in Pos : MonitorRead(p)
    \/ \E returned \in Returned, liquidated \in BOOLEAN : MonitorSettle(returned, liquidated)
    \/ MonitorSkip

Next ==
    \/ UserStep
    \/ \E r \in Request : RequestStep(r)
    \/ \E w \in Worker : WorkerStep(w)
    \/ MonitorStep
    \/ \E e \in Exec : ReleaseStaleClaim(e)
    \/ \E p \in Pos, to \in PositionStatus : LiveMoves(p, to)

Spec == Init /\ [][Next]_vars

-----------------------------------------------------------------------------
(* Safety.                                                                 *)

\* The balance is the start of the season plus the ledger events of that
\* season, and the audit record of an ended season stays true: no booking that
\* was under way when the season was reset reaches either season's books.
BooksAgree ==
    /\ balance = StartBalance + ledger[season]
    /\ \A s \in 1 .. (season - 1) : ending[s] = StartBalance + ledger[s]

\* accept_open counts positions of its own profile only and a reset looks at
\* the current season only: still one position at most is active per mode, and
\* a reset strands none in a season whose profile can no longer be found.
OneActivePerProfile ==
    \A p, q \in Pos : Active(p) /\ Active(q) /\ posQuote[p].mode = posQuote[q].mode => p = q

ActiveInSeason ==
    \A p \in Pos : Active(p) => posQuote[p].season = SeasonOf(posQuote[p].mode)

\* state() lists the positions of the active venue only, beside its wallet, and
\* switch_venue refuses while any position is active: a position active on
\* another venue would be invisible and would hold the user on the wrong one.
\* Nothing is said of the wallet of a close: accept_close takes the oldest one.
ActiveOnActiveVenue ==
    \A p \in Pos : Active(p) => posQuote[p].venue = venue

\* Collateral follows the position.  It is locked once, by the fill that sets
\* the entry price; nothing is paid back while the position is active or if it
\* was never filled; and a filled position that ended has been settled.
CollateralFollows ==
    \A p \in Pos : Demo(p) =>
        /\ locks[p] = IF posEntry[p] THEN 1 ELSE 0
        /\ Active(p) \/ ~posEntry[p] => settlements[p] = 0
        /\ posStatus[p] = "OPEN" => posEntry[p]
        /\ Terminal(p) /\ posEntry[p] => settlements[p] > 0

-----------------------------------------------------------------------------
(* What the documents say and the code does not keep.                      *)

\* "open/close are idempotent": the collateral of a position is paid back once.
SettledOnce == \A p \in Pos : settlements[p] <= 1

\* "one active position per user"
OneActivePerUser == \A p, q \in Pos : Active(p) /\ Active(q) => p = q
=============================================================================
