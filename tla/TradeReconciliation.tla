------------------------ MODULE TradeReconciliation ------------------------
(***************************************************************************)
(* What one live trade made.  Three processes write the same row in any    *)
(* order: the worker that closed the trade, the recovery loop, and the     *)
(* venue-events process, which hears of the end by an event and applies an *)
(* event again when it hears of it again.  Every writer compares what the  *)
(* wallet gained with what the venue paid and with the gas in the ledger,  *)
(* and the gas of a transaction may come to the ledger at any time.        *)
(*                                                                         *)
(* A writer of the row is a database session of two steps: it reads, and   *)
(* later it writes what it made of that.  Some hold the position meanwhile *)
(* (FOR UPDATE) and so exclude each other; none holds the row or the       *)
(* ledger.  A session reads at one moment here, and a read that is spread  *)
(* over several commits counts as outdated in any case.                    *)
(*                                                                         *)
(* From tick_mvp/wallets/accounting.py, execution/repository.py,           *)
(* execution/terminal_reducer.py, execution/service.py, domain/accounting  *)
(* and workers/venue_events.py.                                            *)
(***************************************************************************)
EXTENDS Integers, FiniteSets, Sequences, SequencesExt

CONSTANTS
  Stake,       \* collateral of the trade
  PaidBack,    \* what the venue may pay back at its end
  Elsewhere,   \* what the user may move in or out of the wallet beside the trade
  Told,        \* reasons an event may give for the end
  MaxCloses,   \* close requests
  MaxTellings  \* times the end of the trade is reported

\* Amounts are whole micro-units of USDC.
ASSUME AmountsAreInts == Stake \in Int /\ PaidBack \subseteq Int /\ Elsewhere \subseteq Int
ASSUME MaxClosesIsNat == MaxCloses \in Nat

VARIABLES
  stage,       \* "opening", "open", "closing", "closed": the position
  reason,      \* terminalReason in its payload
  knows,       \* whether the balance before the open was stored: "yet", "yes" or "no"
  paid,        \* what the venue paid back, at most one; {} while the trade is on
  settled,     \* whether that money is in the wallet
  moved,       \* what else moved in the wallet
  ledger,      \* transactions whose gas charge is in the ledger
  costs,       \* [Gas -> Nat], gas_cost_usd kept with each attempt
  due,         \* charges the actors are about to record
  book,        \* the reconciliation rows, the latest last
  run,         \* [Closer -> place]
  seen,        \* [Actor -> balances read and not yet used, at most one]
  told,        \* times the event was applied
  session,     \* [Actor -> sessions under way, at most one]
  outdated     \* history: the result was last written from a read that is not current

trade     == <<stage, reason, knows>>
venue     == <<paid, settled, moved>>
gas       == <<ledger, costs, due>>
actors    == <<run, seen, told>>
books     == <<book, session, outdated>>
reconVars == <<trade, venue, gas, actors, books>>

Closer == {"worker", "recovery"}
Actor  == Closer \cup {"events"}
Gas    == 0..MaxCloses   \* the open's transaction, then the one of each close

\* The balance, counted from the one before the open.
Balance == moved - Stake + (IF settled THEN CHOOSE x \in paid : TRUE ELSE 0)
VenuePnl == {x - Stake : x \in paid}
Closes   == Len(book)

\* position FOR UPDATE
Locked == \E a \in Actor : \E s \in session[a] : s.does \notin {"charge", "wallet"}

Blank == [status |-> "pending", pnl |-> {}, delta |-> {}, terminal |-> {}, close |-> {}]

-----------------------------------------------------------------------------
(* The arithmetic every writer does *)

Charged(charges) == Cardinality(charges)

\* net_wallet_delta: nothing without both balances.
NetDelta(balance, charges, knew) ==
  IF knew = "yes" THEN {b - Charged(charges) : b \in balance} ELSE {}

\* Faulty form: gas counts on one side only.
AgreeGross(delta, pnl, charges) == delta = pnl

\* reconciliation_difference is nought.
Agree(delta, pnl, charges) == delta = {p - Charged(charges) : p \in pnl}

\* platform_gas_complete
GasComplete(charges, why) ==
  IF why = "manual_close" THEN charges \ {0} # {} ELSE 0 \in charges

Judge(delta, pnl, charges, why) ==
  IF pnl = {} THEN "wallet_observed"
  ELSE IF ~GasComplete(charges, why) THEN "venue_accounted"
  ELSE IF Agree(delta, pnl, charges) THEN "wallet_reconciled" ELSE "mismatched"

\* _apply_reconciliation_truth asks for no gas.
CloseVerdict(delta, pnl, charges) ==
  IF delta = {} THEN (IF pnl = {} THEN "pending" ELSE "venue_accounted")
  ELSE IF pnl = {} THEN "wallet_observed"
  ELSE IF Agree(delta, pnl, charges) THEN "wallet_reconciled" ELSE "mismatched"

\* _refresh_position_reconciliation; the balance of the event goes first.
FreshDelta(row, charges, knew) ==
  NetDelta(IF row.terminal # {} THEN row.terminal ELSE row.close, charges, knew)

Refreshed(row, charges, knew, why) ==
  LET delta == FreshDelta(row, charges, knew)
  IN  IF delta = {} THEN row
      ELSE [row EXCEPT !.delta = delta, !.status = Judge(delta, row.pnl, charges, why)]

-----------------------------------------------------------------------------
(* Database sessions that write the row *)

\* The latest row, or what a new one holds.
Latest == IF book = <<>> THEN Blank ELSE Last(book)

\* What a session is to do, for which transaction, with which reason and which
\* amount, and what it reads.
Begin(who, does, g, says, sum) ==
  /\ session[who] = {}
  /\ does \notin {"charge", "wallet"} => ~Locked
  /\ session' = [session EXCEPT ![who] =
       {[does |-> does, gas |-> g, says |-> says, sum |-> sum, at |-> Closes, was |-> Latest,
         charges |-> ledger, knew |-> knows, why |-> reason]}]
  /\ UNCHANGED <<trade, venue, gas, actors, book, outdated>>

\* The session writes the columns that differ from what it read into the row it
\* read; the balances are one column, the payload.
Merged(old, was, row, payload) ==
  LET balances == payload \/ row.terminal # was.terminal \/ row.close # was.close
  IN  [status   |-> IF row.status # was.status THEN row.status ELSE old.status,
       pnl      |-> IF row.pnl # was.pnl THEN row.pnl ELSE old.pnl,
       delta    |-> IF row.delta # was.delta THEN row.delta ELSE old.delta,
       terminal |-> IF balances THEN row.terminal ELSE old.terminal,
       close    |-> IF balances THEN row.close ELSE old.close]

SetBook(s, row, payload) ==
  book' = IF s.at > 0 THEN [book EXCEPT ![s.at] = Merged(@, s.was, row, payload)]
          ELSE IF s.does = "terminal" THEN Append(book, row) ELSE book

\* What a session read is still stored.
Current(s) == /\ s.at = Closes /\ s.was = Latest
              /\ s.charges = ledger /\ s.knew = knows /\ s.why = reason

Outdate(s, computed) == outdated' = IF Current(s) THEN outdated /\ ~computed ELSE TRUE

EndSession(who, s, row, payload, computed) ==
  /\ SetBook(s, row, payload)
  /\ Outdate(s, computed)
  /\ session' = [session EXCEPT ![who] = {}]

-----------------------------------------------------------------------------
(* The trade *)

\* mark_open_result stores the balance before; the recovery of an open does
\* not.  Both may find the trade over, and the charge of its gas comes after.
OpenDone(who, before) ==
  /\ knows = "yet" /\ ~Locked
  /\ before = "yes" => who = "worker"
  /\ stage' = IF stage = "opening" THEN "open" ELSE stage
  /\ knows' = before
  /\ due' = due \cup {<<who, 0>>}
  /\ UNCHANGED <<reason, venue, ledger, costs, actors, books>>

\* accept_close: every request has a row of its own.
AskClose ==
  /\ stage = "open" /\ ~Locked
  /\ run = [c \in Closer |-> "idle"]
  /\ Closes < MaxCloses
  /\ stage' = "closing"
  /\ book' = Append(book, Blank)
  /\ outdated' = FALSE
  /\ run' = [run EXCEPT !["worker"] = "waiting"]
  /\ UNCHANGED <<reason, knows, venue, gas, seen, told, session>>

\* The venue ends the trade, at the request or by itself.
VenueEnds(x) ==
  /\ stage # "closed" /\ paid = {}
  /\ paid' = {x}
  /\ UNCHANGED <<trade, settled, moved, gas, actors, books>>

MoneyArrives ==
  /\ paid # {} /\ ~settled
  /\ settled' = TRUE
  /\ UNCHANGED <<trade, paid, moved, gas, actors, books>>

\* A deposit, a withdrawal, the stake of the next trade.
MoneyMoves(x) ==
  /\ moved = 0 /\ moved' = x
  /\ UNCHANGED <<trade, paid, settled, gas, actors, books>>

-----------------------------------------------------------------------------
(* Gas *)

BeginCharge(who, g) == <<who, g>> \in due /\ Begin(who, "charge", g, "", {})

\* Faulty form: the charge joins the ledger, the result is not computed again.
RecordUnrefreshed(who, s) ==
  /\ s.does = "charge"
  /\ due' = due \ {<<who, s.gas>>}
  /\ ledger' = ledger \cup {s.gas}
  /\ costs' = IF s.gas \in s.charges THEN costs ELSE [costs EXCEPT ![s.gas] = @ + 1]
  /\ EndSession(who, s, s.was, FALSE, FALSE)
  /\ UNCHANGED <<trade, venue, actors>>

\* Faulty form: the ledger is not asked whether it has the charge.
RecordTwice(who, s) ==
  /\ s.does = "charge"
  /\ due' = due \ {<<who, s.gas>>}
  /\ ledger' = ledger \cup {s.gas}
  /\ costs' = [costs EXCEPT ![s.gas] = @ + 1]
  /\ LET charges == s.charges \cup {s.gas}
     IN  EndSession(who, s, Refreshed(s.was, charges, s.knew, s.why), FALSE,
                FreshDelta(s.was, charges, s.knew) # {})
  /\ UNCHANGED <<trade, venue, actors>>

\* record_charge: a charge is new if the ledger had none for the transaction;
\* the row is computed again.
RecordCharge(who, s) ==
  /\ s.does = "charge"
  /\ s.gas \in s.charges \/ s.gas \notin ledger
  /\ due' = due \ {<<who, s.gas>>}
  /\ ledger' = ledger \cup {s.gas}
  /\ costs' = IF s.gas \in s.charges THEN costs ELSE [costs EXCEPT ![s.gas] = @ + 1]
  /\ LET charges == s.charges \cup {s.gas}
     IN  EndSession(who, s, Refreshed(s.was, charges, s.knew, s.why), FALSE,
                FreshDelta(s.was, charges, s.knew) # {})
  /\ UNCHANGED <<trade, venue, actors>>

\* The oracle or the database fails, or another session had the same charge
\* stored meanwhile: the charge is only logged.
DeferCharge(who, g) ==
  /\ <<who, g>> \in due
  /\ \A s \in session[who] : s.does = "charge" /\ s.gas = g
  /\ due' = due \ {<<who, g>>}
  /\ session' = [session EXCEPT ![who] = {}]
  /\ UNCHANGED <<trade, venue, ledger, costs, actors, book, outdated>>

-----------------------------------------------------------------------------
(* The close path of the worker, and of the recovery loop *)

Free(who) == \A g \in Gas : <<who, g>> \notin due

\* The loop finds that the transaction of an attempt left to it reverted: the
\* position is open again, and the gas is charged.
CloseReverts ==
  /\ run["worker"] = "left" /\ paid = {} /\ stage = "closing" /\ ~Locked
  /\ run' = [run EXCEPT !["worker"] = "idle"]
  /\ stage' = "open"
  /\ due' = due \cup {<<"recovery", Closes>>}
  /\ UNCHANGED <<reason, knows, venue, ledger, costs, seen, told, books>>

\* The worker waited in vain or stopped: the attempt is left to the loop.
WorkerLeaves ==
  /\ run["worker"] = "waiting" /\ ~Locked
  /\ run' = [run EXCEPT !["worker"] = "left"]
  /\ UNCHANGED <<trade, venue, gas, seen, told, books>>

WorkerSeesEnd ==
  /\ run["worker"] = "waiting" /\ paid # {}
  /\ run' = [run EXCEPT !["worker"] = "charging"]
  /\ due' = due \cup {<<"worker", Closes>>}
  /\ UNCHANGED <<trade, venue, ledger, costs, seen, told, books>>

\* mark_close_result: what the venue told the worker, perhaps nothing, and no
\* balance.
BeginCloseResult(pnl) ==
  /\ run["worker"] = "charging" /\ Free("worker")
  /\ pnl \in {{}, VenuePnl}
  /\ Begin("worker", "result", 0, "", pnl)

MarkCloseResult(s) ==
  /\ s.does = "result"
  /\ stage' = "closed"
  /\ reason' = IF reason = "" THEN "manual_close" ELSE reason
  /\ EndSession("worker", s,
            [s.was EXCEPT !.pnl = s.sum, !.delta = {},
                          !.status = CloseVerdict({}, s.sum, s.charges)], TRUE, TRUE)
  /\ run' = [run EXCEPT !["worker"] = "balance"]
  /\ UNCHANGED <<knows, venue, gas, seen, told>>

\* apply_execution_recovery finds the position gone; the charge comes after.
RecoverClose ==
  /\ run = [worker |-> "left", recovery |-> "idle"] /\ paid # {} /\ ~Locked
  /\ stage' = "closed"
  /\ reason' = "recovered_close"
  /\ due' = due \cup {<<"recovery", Closes>>}
  /\ run' = [worker |-> "idle", recovery |-> "charging"]
  /\ UNCHANGED <<knows, venue, ledger, costs, seen, told, books>>

Recharged ==
  /\ run["recovery"] = "charging" /\ Free("recovery")
  /\ run' = [run EXCEPT !["recovery"] = "balance"]
  /\ UNCHANGED <<trade, venue, gas, seen, told, books>>

\* The attempt is resolved already: its gas is charged once more.
RecoverResolved ==
  /\ run["recovery"] = "idle" /\ run["worker"] \in {"balance", "record"}
  /\ due' = due \cup {<<"recovery", Closes>>}
  /\ UNCHANGED <<trade, venue, ledger, costs, actors, books>>

ReadBalance(who) ==
  /\ run[who] = "balance"
  /\ run' = [run EXCEPT ![who] = "record"]
  /\ seen' = [seen EXCEPT ![who] = {Balance}]
  /\ UNCHANGED <<trade, venue, gas, told, books>>

BalanceFails(who) ==
  /\ run[who] = "balance"
  /\ run' = [run EXCEPT ![who] = "idle"]
  /\ UNCHANGED <<trade, venue, gas, seen, told, books>>

\* mark_close_reconciliation
BeginCloseReconciliation(who) ==
  run[who] = "record" /\ Begin(who, "balance", 0, "", seen[who])

MarkCloseReconciliation(who, s) ==
  LET delta == NetDelta(s.sum, s.charges, s.knew)
  IN  /\ s.does = "balance"
      /\ EndSession(who, s,
                [s.was EXCEPT !.delta = delta, !.close = s.sum,
                              !.status = CloseVerdict(delta, s.was.pnl, s.charges)],
                FALSE, TRUE)
      /\ run' = [run EXCEPT ![who] = "idle"]
      /\ seen' = [seen EXCEPT ![who] = {}]
      /\ UNCHANGED <<trade, venue, gas, told>>

-----------------------------------------------------------------------------
(* The venue-events process *)

Priority(r) == CASE r \in {"", "recovered_close"} -> 0
                 [] r = "external_close" -> 1
                 [] r = "manual_close"   -> 2
                 [] r = "stop_loss"      -> 3
                 [] r = "liquidation"    -> 4

\* apply: amount is what the event says was paid back.
BeginTerminal(r, amount) ==
  /\ paid # {} /\ told < MaxTellings /\ seen["events"] = {}
  /\ amount \in {{}, paid}
  /\ Begin("events", "terminal", 0, r, amount)

\* The event counts as the truth unless a better reason is stored, also when it
\* was applied before.
ApplyTerminal(s) ==
  LET truth   == Priority(s.says) >= Priority(reason)
      counted == truth /\ s.sum # {}
  IN  /\ s.does = "terminal"
      /\ told' = told + 1
      /\ stage' = IF truth THEN "closed" ELSE stage
      /\ reason' = IF truth THEN s.says ELSE reason
      /\ EndSession("events", s,
                IF counted THEN [s.was EXCEPT !.status = "venue_accounted",
                                              !.pnl = {x - Stake : x \in s.sum}]
                ELSE s.was, counted, FALSE)
      /\ \/ seen' = [seen EXCEPT !["events"] = {Balance}]
         \/ seen' = seen                   \* the balance could not be read
      /\ UNCHANGED <<knows, venue, gas, run>>

\* reconcile_wallet
BeginWallet == seen["events"] # {} /\ Begin("events", "wallet", 0, "", seen["events"])

ReconcileWallet(s) ==
  LET delta == NetDelta(s.sum, s.charges, s.knew)
  IN  /\ s.does = "wallet"
      /\ EndSession("events", s,
                [s.was EXCEPT !.delta = delta, !.terminal = s.sum,
                   !.status = IF delta = {} THEN "venue_accounted"
                              ELSE Judge(delta, s.was.pnl, s.charges, s.why)], FALSE, TRUE)
      /\ seen' = [seen EXCEPT !["events"] = {}]
      /\ UNCHANGED <<trade, venue, gas, run, told>>

-----------------------------------------------------------------------------
ReconInit ==
  /\ stage = "opening" /\ reason = "" /\ knows = "yet"
  /\ paid = {} /\ settled = FALSE /\ moved = 0
  /\ ledger = {} /\ costs = [g \in Gas |-> 0] /\ due = {}
  /\ book = <<>>
  /\ run = [c \in Closer |-> "idle"]
  /\ seen = [a \in Actor |-> {}]
  /\ told = 0
  /\ session = [a \in Actor |-> {}] /\ outdated = FALSE

ReconNext ==
  \/ \E who \in Closer, before \in {"yes", "no"} : OpenDone(who, before)
  \/ AskClose
  \/ \E x \in PaidBack : VenueEnds(x)
  \/ MoneyArrives
  \/ \E x \in Elsewhere : MoneyMoves(x)
  \/ \E who \in Closer, g \in Gas : BeginCharge(who, g) \/ DeferCharge(who, g)
  \/ \E who \in Closer : \E s \in session[who] :
       RecordCharge(who, s) \/ MarkCloseReconciliation(who, s)
  \/ CloseReverts \/ WorkerLeaves \/ WorkerSeesEnd
  \/ \E pnl \in {{}, VenuePnl} : BeginCloseResult(pnl)
  \/ \E s \in session["worker"] : MarkCloseResult(s)
  \/ RecoverClose \/ Recharged \/ RecoverResolved
  \/ \E who \in Closer : \/ ReadBalance(who) \/ BalanceFails(who)
                          \/ BeginCloseReconciliation(who)
  \/ \E r \in Told, amount \in {{}, paid} : BeginTerminal(r, amount)
  \/ BeginWallet
  \/ \E s \in session["events"] : ApplyTerminal(s) \/ ReconcileWallet(s)

ReconSpec == ReconInit /\ [][ReconNext]_reconVars

-----------------------------------------------------------------------------
(* Properties *)

\* The result of a trade is a balance the wallet had after it, less every gas
\* charge the ledger has for the trade: also the charges that came after the
\* result, and whichever of the three processes wrote the row last.  A session
\* that was outdated between its read and its write may lose a charge or a
\* balance, until one computes the result from what is stored then.
ResultNetsGas ==
  book # <<>> /\ ~outdated /\ Last(book).delta # {} =>
    \E b \in Last(book).terminal \cup Last(book).close :
      Last(book).delta = {b - Charged(ledger)}

\* A reconciled trade made what the venue paid back, less the stake, less the
\* gas in the ledger: a balance read too early, or moved by something else,
\* ends as a mismatch and not as a reconciled result that is wrong; unless,
\* again, the session that wrote it was outdated.
ReconciledIsTrue ==
  book # <<>> /\ ~outdated /\ Last(book).status = "wallet_reconciled" =>
    Last(book).delta = {p - Charged(ledger) : p \in VenuePnl}

\* The gas of a transaction is charged to its attempt once, and only when the
\* ledger has it, however many of the worker and the loop charge it, also at
\* the same time.
ChargedOnce == \A g \in Gas : costs[g] = Charged(ledger \cap {g})
=============================================================================
