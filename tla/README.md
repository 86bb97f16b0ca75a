# TICK: verification project

TLA+ models of the trading backend under `src/builds/tick-mvp/backend/tick_mvp`
(paths below are relative to it), of the app's polling and swipes and of the
local canary under `src/builds/local-mvp/tick-mvp-local/backend`, TLC runs that
check them on small instances, and TLAPS proofs that hold for every instance. `PROJECT.json` maps each
definition to the lines it models and lists runs, mutants, findings, hazards
and theorems.

## 1. The system

A user swipes a trade open and closed on a phone. The API writes a command to
Postgres and puts a job on Redis; a worker process runs the job in a thread,
signs a transaction of the user's platform wallet (or of the platform agent),
broadcasts it to Arbitrum, Base or Solana, and waits for what the venue's keeper
does with the order. Three more loops run beside the workers: the redispatch
and recovery loop, the demo risk monitor, and the venue-events process. The
local canary is the program's predecessor, still kept beside it: one wallet, one
process, a journal in SQLite, a worker thread and a monitor thread.

| component | source | state | operations |
|---|---|---|---|
| State tables | `domain/states.py` | none | which status may follow which |
| API store | `infrastructure/sqlalchemy_store.py`, `api/app.py` | users, profiles, quotes, intents, attempts, positions, withdrawals | quote, open, close, withdraw, switch venue, switch mode, reset demo |
| Execution | `execution/service.py`, `execution/repository.py`, `workers/` | attempts (status, hash, signed bytes), positions, jobs | claim, store before broadcast, results, failures, redispatch, recovery |
| Terminal reducer | `execution/terminal_reducer.py` | positions, attempts, reconciliations | apply an event of the venue |
| gTrade executor | `venues/gtrade/wallet.py`, `infrastructure/arbitrum_broadcast.py` | none beyond caches | sign, send on two routes, retry a stale nonce, wait, look a hash up |
| Event streams | `venues/gtrade/events.py`, `terminal_monitor.py`, `onchain_events.py` | websocket buffers, block cursor | deliver opens and closes: late, again or never |
| Demo trading | `execution/service.py`, `execution/repository.py` | demo profile, ledger events | simulated fills, risk monitor, seasons |
| Wallet writes | `wallets/*`, `infrastructure/evm_nonce.py` | withdrawals, gas top-ups, sweeps, reserved nonces | sign, store, broadcast, confirm, retry |
| Accounting | `wallets/accounting.py`, `domain/accounting.py` | gas charges, ledger, reconciliations | charge, refresh, complete |
| Avantis | `venues/avantis/runtime.py` | service nonce, coroutines on an event loop | sign, store and send under one lock, wait for a callback, resend |
| Flash | `venues/flash`, `wallets/solana.py` | token account, custody, stored transactions | release, transfer, deposit; opens and closes that confirm at once |
| Aark | `venues/aark` | none | the same executor interface, not wired in |
| Prices | `venues/*/pricing.py`, `infrastructure/market_history.py` | caches, a queue, bars by the second | quote, observe, fold, flush, prune |
| Frontend | `../../frontend/src/useTick.ts`, `components/useTradeSwipe.ts` | a copy of the state, prefetched quotes, what was shown | poll, swipe, shift the market, switch the mode, pop results up |
| Local canary | `execution.py`, `store.py`, `connectors/gtrade_wallet.py`, `gtrade_events.py` | journal rows; `_running`, `_account`, `_closed_pairs`, `_missing_positions` in memory | open, close, worker, monitor, refresh, restart |

Interaction is by shared rows under row locks (`SELECT ... FOR UPDATE`), by jobs
that may be lost or delivered twice, by calls to chain and venue that have no
common transaction with the database, and by events that owe nothing to anyone.

What makes it hard, and hard to test:

- An effect on the chain and the row that records it can never be one
  transaction: the process may die on either side of the broadcast.
- Several writers decide the same row: the thread that waits for its result,
  the recovery loop with what it read earlier, the reducer of late events, the
  scan that gives claims back, and the user.
- Names are weak: a notice of the venue matches by pair or by index, an event
  of an unknown trade goes to the only active position.
- The API reads before it locks (the trading mode), and locks different rows in
  different handlers (profile, user, position).
- A demo close credits money in the transaction that writes a status which is
  allowed to follow itself.
- Payments are retried by whole runs that may overlap, and their writers look at
  the row's hash, seldom at its status; nonces live in memory and die with it.
- The result of a trade is written by three processes as its parts arrive: the
  balance, the venue's payment, the gas.
- The app acts on answers that were asked for before its last command.
- The canary's monitor repairs rows it read before, beside the thread that is
  still at work on them.

What should make each part correct, in one line (section 3 says where the code
falls short): a command takes effect at most once and is never reported as failed
if it has an effect or may still have one; the database always stores the hash
that can still act; what has ended stays ended;
one position is active; every accepted command is handled; the demo books agree
with their ledger in this and in every ended season; profiles do not mix; a
payment leaves once, is confirmed only if it arrived and failed only if it never
will; a result counts every charge and is reconciled only if it is the venue's;
a bar is that of its ticks; a result pops up once.

## 2. The modules

| module | what it is |
|---|---|
| `TradeStates` | statuses, both transition tables, the status sets of the queries |
| `LiveTrading` | one user's live trading on gTrade: API, queue, worker threads, recovery loop, events, chain, venue |
| `TradeCommand` | abstract specification: a command is accepted, and takes effect once or is refused |
| `TradingProfiles` | the two profiles of a user: modes, venues, quotes, seasons, demo execution, monitor |
| `WalletPayments` | withdrawals, sweeps and gas top-ups on Arbitrum: rows, overlapping runs, nonces, chain |
| `WalletSetup` | the preparation of a wallet: loans of ETH, delegation and approval, charges, sweeps of what is left |
| `SolanaWithdrawal` | withdrawals of a Flash user: release from custody, transfer, and deposits beside them |
| `TradeReconciliation` | what one live trade made: gas, balances and the venue's result from three writers |
| `AvantisService` | orders and preparations of all users through one service wallet on Base |
| `MarketHistory` | price observations on their way into one-second bars |
| `TradeClient` | the trading screen: state polling, swipes, quotes, results, switches of mode |
| `MCLiveTrading`, `MCTradingProfiles` | symmetry sets for TLC |
| `LocalExecution` | the local canary: requests, the single worker thread, the monitor, the journal |
| `MCLiveSetup` | `LiveTrading` and `WalletSetup` in one run: the first state picks the part that moves |
| `MCPlatform` | the seven parts above that share no state, in one run: the first state picks the part that moves |
| `LiveTradingProofs` | theorems about `LiveTrading` and its refinement of `TradeCommand` |
| `ProfileProofs`, `WalletProofs`, `ReconciliationProofs`, `AvantisProofs`, `LocalProofs` | theorems about `TradingProfiles`, `WalletPayments`, `TradeReconciliation`, `AvantisService`, `LocalExecution` |
| `FundsProofs` | theorems about `SolanaWithdrawal` and `WalletSetup`, with lemmas on sums over finite sets |
| `ScreenProofs` | theorems about what the screen shows: `TradeClient` and `MarketHistory` |

**Steps.** An action is one database transaction (`session_scope`) or one call
to the chain or the venue. A transaction whose status change the tables forbid
raises `StoreConflict` and writes nothing, so the table is a guard; the
exception then ends in `MarkFailed`, or in `Crash` when `mark_failed` itself
raises. Definitions marked *Faulty form* are the mutants: a plausible bug in the
definition that follows them.

**LiveTrading.** `posStatus`, `posVenueId`, `posReason` are columns of
`positions`; `exStatus`, `exAction`, `exPos`, `exTx` are `execution_attempts`
with their intent; `jobs` is the ARQ queue; the `w...` variables are the worker
threads (`ExecutionService.execute` with `GTradeWalletExecutor`); `rec` is the
recovery loop between its reads and `apply_execution_recovery`; `chain`,
`venue`, `target` are outside `src/`, modelled from what the code reads of them;
`foreign` and `overlooked` are history variables. A transaction is an attempt and
a number, so each nonce retry is another transaction of the same attempt. The
retry of `_send` is two actions: `SignAgain`, when another transaction has the
nonce and the first is dead, and `SignOverMined`, when the recovery loop had the
first one mined meanwhile and the lookup of its hash failed, which
`_transaction_exists` takes for a no; `overlooked` remembers the attempt.
`mishaps` counts crashes and such lookups. Hashes, bytes,
prices and receipts are abstracted to a fate: signed, pending, dead (its nonce
was taken), confirmed, reverted. Preparation (approvals, delegation, gas,
balance) is the time between `Claim` and `SignOpen`/`SignClose`, where it may
fail or be slow. The gas charge after an open result is `Finish`.

**TradingProfiles.** `mode` and `venue` are columns of `users`; `season`,
`balance` and `ending` are the demo profile and its reset records; `quotes` have
not expired; `reqMode` holds the mode a request read before it locks;
`ledger`, `locks`, `settlements` summarize the ledger events by season and by
position. Live positions only change their status here (`LiveMoves`); demo
attempts are executed in full. The two reads of `create_quote` are one step,
because the venue is compared again in the second and nothing was written in
between. `claim` and the `load` after it are one step: what `load` reads can
only change before a claim that takes place later. A withdrawal that is pending
refuses a live open; withdrawals are not in this module, so `Refuse` covers it
(`WalletPayments` shows that half).

**WalletPayments.** `kind`, `status`, `stored` are rows of `withdrawals`,
`gas_topups` and `gas_sweeps`; a thread is a pair of a payment and a slot, `pc`
and `hand` its place and the transaction it holds. `next` is `_next_nonce`; the
sender's lock is held from `Sign` or `Resume` to `MarkBroadcast`. `latest`,
`pool`, `mined`, `reverted` are the chain. `created` stands for `VALIDATED` of a
withdrawal and `CREATED` of the others. A withdrawal runs in one job at a time,
because its job id is the row's id and arq runs an id once; top-ups and sweeps
overlap. All threads are of one worker process, since `EvmNonceCoordinator` is
process-wide. A superseded payment is followed in the same run by a new row;
here that is another `LoadOrCreate`. Approvals and delegations of the user's
wallet have no row; they are in `WalletSetup`.

**WalletSetup.** `topups` and `sweeps` are the rows with their amounts; `value`
is what was signed and `tx` its fate on chain. `preps` are runs of
`prepare_user_wallet` and `reclaim_user_gas` with what they read (`needs`,
`seen`, `plan`) and the gas they have yet to charge (`owed`). `outdated` is the
one case in which `_delegate_cache` differs from the chain. Every setup
transaction and every sweep costs one unit of gas. `Proceed` covers both the
early returns of `ensure_funded` and what follows a confirmed top-up. Signing
and sending are one step each here, because `WalletPayments` shows what lies
between; a transfer does not revert. Withdrawals, which also spend the wallet's
gas, and the thresholds used without a gas estimate are left out.

**SolanaWithdrawal.** `row` is the status, `drawn` the stored venue stage,
`payout` the stored transfer; `wallet` and `custody` count the user's USDC.
A run may stop at every step (`RunFails`, `StopWorker`) and starts again at the
top, where it reads the wallet. A blockhash expires at any time. `PrepareWallet`
reads and `SubmitDeposit` sends, in two steps.

**TradeReconciliation.** `book` holds the reconciliation rows of one position,
the latest last; every charge costs one unit. `due` are the charges an actor is
about to record; `RecordCharge` or `DeferCharge` follows each. The writers of
the row are `MarkCloseResult`, `MarkCloseReconciliation`, `ApplyTerminal`,
`ReconcileWallet` and the refresh in `RecordCharge`. Each of them is a session of
two steps, of which the `Begin...` action is the first: it reads the row, the
ledger and the position (`session` keeps what it read), and its second step
writes what it made of that. Those that take the position `FOR UPDATE` exclude
each other (`Locked`); `record_charge` and `reconcile_wallet` hold nothing, and
nobody holds the row or the ledger. The row is written by columns, as the ORM
does it: only those that differ from what was read (`Merged`). `outdated` is a
history variable: the session that computed the stored result had read something
that was no longer stored when it wrote. A session reads at one moment here; in the code
its reads are several statements, and one that changes between two of them counts
as `outdated` too, because what was read first is then no longer stored.

**AvantisService.** A coroutine is an order or a preparation; `caller` says
whether the worker's thread still waits in `_call`. `lost` remembers nonces
whose transaction was neither stored nor taken, until the process restarts and
asks the chain. A claim that is released although its thread still runs is
`live_stale_claim` and not repeated here.

**MarketHistory.** One market; others share only the queue. `accepted` and
`written` are history variables for the properties. `sample_count` is left out:
a repeated batch counts its samples twice. The price streams are joined before the
history is stopped, so a clean stop drains a queue nobody fills any more: these are
ordinary `Fold` steps, and `StopHistory` is the last flush, or the stop that gives up.

**TradeClient.** `view` is the app's copy of `GET /api/state`, `prefetched` the
market of its quotes, `command` the swipe's request, `refresh` and `reload` the
two requests for the state that may be under way. A swipe and a rendering are
one step; the answer to a prefetch counts only while its market is on the
screen, as the effect's `canceled` flag has it. The server's side of a trade is
reduced to the statuses it goes through. `oldResults`, a history variable, is
forgotten at a switch of mode: a switch whose answer is lost, and a switch back
before any load, leave the app with marks of the other mode's trades, and then an
old result does pop up. The proof of `OldResultsStayDown` found this; the run needs
four switches to see it.

**LocalExecution.** `executions` is the journal; `newer` stands for the order
of `updated_at` and `heard` for the notices that are younger than a row (a
second of grace is left open). `jobs` and `worker` are the executor with its one
thread, `monitor` the monitor loop between its reads and its writes, `unseen` is
`_missing_positions`, `cached` and `closedPair` are `_account` and
`_closed_pairs`. `orders`, `onVenue`, `listing` (what the venue's endpoint
returns, which lags behind) and `notices` are outside `src/`. One market; rows
are numbered in order of creation, and an open's number is the index of its
trade. A request is two steps under `_state_lock`: `Open` or `Close` stores the
row (`entering`), `HandOver` puts it in `_running` and hands it to the executor.
What takes the lock too waits meanwhile (`Unlocked`: another request, a refresh,
the end of `_finish_close`, a row's leaving of `_running`), but the monitor does not:
it reads the journal and looks at `_running` without the lock, so it may see a row
that is stored and not yet in `_running`. `strays`, a history variable, are the
rows it then goes on to repair. Between its look at `_running` and its write lie
an event stored, a balance read over the network and the wait for the lock:
`Settle` is the look, `Adopt` the write to an open, and `EndOpeningOf`,
`HideEnded`, `RecordEnd` are the steps of `_finish_close`, which the worker takes
in `FinishClose`. `EndOpening` reads the opening and ends it in one step. Writes to
the journal are assumed not to fail. Balances, quotes, prices and
timings are left out; a time limit may run out at any step.

**Composition.** `LiveTrading` and `TradingProfiles` share `TradeStates` and meet
at the positions: the first shows what becomes of a live position, the second
who may create one. `TradeCommand` is instantiated in `LiveTrading` with a
refinement mapping: accepted attempts, failed attempts, confirmed transactions.
The parts of `MCPlatform` touch the same rows in the program but through
conditions the modules carry themselves (`position` in `WalletPayments`,
`trades` in `TradeClient`), so that one run may check them side by side.

## 3. What the runs check

| run | instance | checks |
|---|---|---|
| `live_attempts` | 1 position, 2 attempts, 2 threads, up to 3 transactions each, 1 crash or failed lookup | `TypeOK`, `TxIsRecorded`, `AttemptInv`, `FailedHasNoEffect`, `OutcomesAreFinal`, `CommandPromise` (refinement) |
| `live_and_setup` | 2 positions, 3 attempts, late notices; or 2 preparations, 1 top-up, 2 sweeps, restarts | `OneActivePosition`, `ExecutedIsSettled`, `OrphanNeedsForeign`; `WalletSetup`: `ReserveIsCounted` |
| `live_liveness` | 1 position, open and close, 1 crash, fair loops | `AcceptedIsHandled`, `ConfirmedCloseIsRecorded` |
| `profiles` | 2 requests, 2 positions, 3 commands, 2 threads, 2 venues, 2 seasons | `TypeOK`, `BooksAgree`, `CollateralFollows`, `OneActivePerProfile`, `ActiveInSeason`, `ActiveOnActiveVenue` |
| `platform` | 2 payments, 2 nonces, crashes at any point; 1 Solana withdrawal beside deposits; 1 trade, 2 closes, 2 tellings; 2 Avantis orders and a preparation; 2 seconds, 2 processes; 1 trade on the screen, 2 switches; 2 journal rows, 1 restart | `WalletPayments`: `TypeOK`, `StoredBeforeSent`, `PaidOnce`, `ConfirmedIsPaid`, `FailedWithdrawalIsHarmless`, `NoNonceGap`, `NonceKept`, `NoLivePositionBesideWithdrawal`, `WithdrawalSettlesOnce`; `SolanaPaidOnce`, `SolanaConfirmedIsPaid`; `ResultNetsGas`, `ReconciledIsTrue`, `ChargedOnce`; `FailedOrderIsHarmless`, `GapIsRecoverable`; `BarIsTrue`, `AcceptedIsKept`; `ResultShownOnce`, `ResultIsNew`; `OneOpenInFlight`, `RunningIsOwned` |

What they show:

- *Attempts.* With one exception, the only transaction of an attempt that can
  still act is the one whose hash is stored (`TxIsRecorded`) and an attempt is
  `FAILED` only without an effect (`FailedHasNoEffect`), whatever crashes,
  recovery passes, clean retries and events do. The exception is the retry beside
  a failed lookup (`SignOverMined`): the first transaction may be mined, its hash
  is overwritten, the second may be mined too or fail, and then one command has
  two effects, or is reported as failed and has one. The properties say exactly
  this of such an attempt: its first transaction is mined, there is one more and
  never a third, and everything else still holds of it. `TradeCommand` has it as
  the state of doubt a command may be in, and the backend implements that; so
  "at most once" is a promise only where no lookup failed. No slower writer
  rewrites an outcome in any case (`OutcomesAreFinal`).
- *Positions.* No late result, failure, recovery or event brings a second
  position to life; an executed attempt shows in its position; a record is over
  beside its own live trade only after a trade that is not its own was
  attributed to it, or if its open was retried over a mined transaction
  (`OrphanNeedsForeign` names these two ways in which it happens; the run has one
  transaction per attempt and so the first of them, the theorem has both).
- *Profiles.* Bookings that were under way when a season was reset reach neither
  the new balance nor the record of the old season (`BooksAgree`). Collateral is
  locked once, and never paid back for an active or an unfilled position.
- *Payments.* Jobs that overlap, crash, time out and are retried, with answers
  and lookups lost, still pay once, because the bytes are stored first and never
  replaced; statuses are written blindly, yet the end of a withdrawal is final
  and true. (For top-ups it is not: a slower run may take `CONFIRMED` back, which
  is why `ConfirmedIsPaid` and `PaidOnce` are what is claimed for them.) No
  reserved nonce is left as a gap.
- *Loans of gas.* What the platform lent and is still in the wallet is
  recoverable by the next sweep, or its top-up is still to be confirmed:
  overlapping preparations, lost charges and repeated runs hide no part of it.
  That a sweep takes *only* that is false (see the findings).
- *Results.* Whichever of the three writers is last, the net result counts every
  charge in the ledger, also those that come after it, and what is called
  reconciled is what the venue paid less gas, *as long as* the session that wrote
  the result was not overtaken between its read and its write. If it was, a
  charge, a balance or the venue's amount is lost from the result, and stays lost
  unless the row is computed again: nothing in the code prevents that. A charge
  reaches the ledger and its attempt once in any case (`ChargedOnce`), because the
  ledger's key is unique and the attempt's cost is written in the same session.
  What else is not kept is in the findings.
- *Avantis.* A coroutine that outlives its caller places no order for an attempt
  that failed; what holds up the service wallet is known to somebody, except a
  transaction lost before it was stored.
- *Bars and screen.* Repeated and split batches keep the bar of the ticks; a
  result pops up once, and not when it is old.
- *Local canary.* The guard of an open looks at the row that was updated last,
  and the monitor rewrites rows from lists it read earlier, with a balance read
  and a lock between its look at `_running` and its write; still no two opens are
  under way, and what the worker has in hand only its thread writes. Both are said
  of rows the monitor did not take up in the gap between their insertion and
  `_running.add`. For those (`strays`) they are false: the monitor passes its check
  on a new close, and writes `closed` when its order is being sent (two rows
  suffice; TLC shows it at once when `RunningIsOwned` is stated without
  `\ strays`); with a third row an open marked `open` in the gap is ended, the
  next open is accepted, and the worker writes the first one `opening`. That the
  *venue* never has two trades is false too (see the findings).

Seven runs end in a counterexample: the code does something a document says it
does not. In each the last state is the disagreement.

| run | document | what happens |
|---|---|---|
| `live_two_closes` | backend/README.md:88 "one active close command" | a close accepted while the open is in flight is overtaken by the open's result (or fails); a second close is accepted beside it |
| `live_stale_claim` | repository.py:245 "A stale claim has done no economic work" | a thread that prepares the wallet for longer than 120 s goes on after its claim was given away: one attempt opens two trades |
| `live_false_close` | tick_real_build_spec.md:1101 "zero false closed states" | the event of an earlier trade no record names is adopted by the only active position |
| `live_stuck_opening` | tick_real_build_spec.md:886-895, :1102 "100% eventual reconciliation" | `reconcile_positions` is empty: an open order the keeper cancels leaves its position `OPENING` for ever, with all loops fair and all events delivered |
| `profile_two_modes` | tick-mvp/README.md:37 "one active position per user" | an open that read the mode before a switch is accepted beside an open of the other mode |
| `solana_unrecorded` | backend/README.md:81 "recover by deterministic transaction hash" | a run that stops after its transfer landed is followed by one that finds the wallet empty, looks for the money in custody, and never asks for the stored transfer |
| `profile_settled_twice` | tick-mvp/README.md:40 "open/close are idempotent" | a close accepted before the demo fill runs after the monitor (or another close) settled the position: the collateral is paid back twice |

(`live_two_closes` and `profile_settled_twice` have one root: `accept_close`
asks for the status of the position only, and the open's result moves it back.)

Fourteen further disagreements are recorded as findings without a run. Some are
stated in a module and refuted by TLC when it is checked alone (deadlock off):
`OpensWhatIsShown` (after a shift the quotes of the market before are used) and
`GesturesLocked` (an answer asked before the swipe unlocks the controls) of
`TradeClient`, with `ClientSpec`, `Market = {1, 2}` and 1 for the other bounds;
`OneTradeOnVenue` (an open whose broadcast or receipt raised is failed although
its order may go through, and leaves room for the next) and `EndIsFinal` of
`LocalExecution`, with `LocalSpec`, `MaxExecutions = 2` and
`MaxLocalRestarts = 1`; `OnlyReserveIsSwept` (two runs that read the same
reserve both sweep it, the second from the user's own ETH) and
`SetupGasIsCharged` (a delegation is not charged if the approval after it fails)
of `WalletSetup`, with `SetupSpec`, two preparations, `OwnEth = 2`,
`SetupBuffer = 2` and `MaxSweeps = 2`. The others were met while modelling: a charge that fails
is not made up for before the result is final; a restart of the event process
judges finished trades by today's balance; the refresh prefers the older of two
balances; the Flash funder may send twice; the app picks one of two
reconciliations at random; a close on Flash is signed with the user's oldest
wallet, which is the Arbitrum one; the Flash monitor's events find no wallet,
because its chain id is that of no known chain; a failed lookup lets the nonce
retry place a second order; a session that is overtaken drops a charge from a
result.

### Bounds

`MaxPos`, `Exec`, `Worker`, `Request`, `Venue`, `MaxTx`, `MaxMishap`, `Ends`,
`MaxSeason`, `MaxQuotes`; `Payment`, `Slot`, `MaxJobs`, `MaxNonce`, `Fee`; `Withdrawal`,
`Serial`; `Preparation`, `SetupBuffer`, `SweepMin`,
`OwnEth`, `MaxTopups`, `MaxSweeps`; `MaxCloses`, `MaxTellings`; `Order`, `Setup`, `BaseNonces`,
`MaxRestarts`; `MaxSecond`, `MaxSequence`, `MaxProcess`, `QueueLimit`;
`MaxTrades`, `MaxCloseTries`, `MaxSwitches`; `MaxExecutions` and
`MaxLocalRestarts` bound rows, threads, retries,
crashes and requests; amounts and prices are small numbers. They are enough for
the cases the properties speak of: two threads on one attempt, one nonce retry
(the code allows one, and the instance has a third transaction that must stay
unsigned), a crash in any phase or a lookup that fails, a position after a
position, two commands on one position, an ended season with a command still
waiting, two requests around one switch; two runs of one payment and a second
payment for the same nonces, two tellings of one end between charges and
balances, an order behind a lost nonce, a second split over two processes, a
profile loaded twice; in the canary an open beside its close or beside a second open, and a
restart in any place of either thread. Two instances are smaller than they might
be. `live_attempts` has liquidations as the only end the venue makes by itself,
because stops differ from them in the reason alone, and they are in the other
runs. `MarketHistory` runs with `Retention = 0`, so that `AcceptedIsKept` says
little there of older bars; the theorem holds for any retention. Every passing property has a faulty form of the code that
the same instance detects (`mutants`). The theorems do not depend on these
bounds.

`MCPlatform` narrows the payments further, without losing a case of the
properties: payments of one kind are interchangeable, so the first is taken
first and is the one that two runs share (`InOrder`); both have the same
sender, because others share nothing; a position matters only to withdrawals,
so it moves only where both payments are; the market on the screen changes only
before the app has a state, so that the quotes case stays with the findings. Of
the reconciliation it drops combinations (`FewAtOnce`): two sessions of the three
actors are open at a time, one where two closes and a telling meet; money moves
beside the trade before its end is told of and beside one close. The one reason
told is the external close, which ranks between the recovered and the manual one.
The run has over two million states and takes two to three minutes. `MCLiveSetup` names the
attempts in the order they are accepted in and identifies the preparations; a
buffer of two leaves something to sweep after a setup that went well, and its
run is of the same size.

`SlowPreparation` says that wallet preparation may outlast
`stale_claim_seconds`; `LateNotices` that the notice of a finished trade may
reach a later wait. Runs set them to ask a question with or without the case.
Demo claims are released only when no thread holds them: a simulated fill
sleeps for under two seconds and asks for one quote.

Deadlock is not checked: the system may rest when the user does nothing more.

### Fairness

`FairSpec` assumes that the redispatch loop and the threads keep running, that
the chain includes or rejects what it accepted and that the keeper serves every
order. The loops run for ever with a sleep of a second and catch every exception
(`workers/worker.py:85-95`), which is weak fairness; a pass of the recovery loop
that fails does not always fail at the same attempt and point, which is strong
fairness of the read and the write of one attempt. Users, crashes, nonce races,
stop losses and venue events have no fairness: an event may be lost for good.
`SolanaFairSpec` (for `solana_unrecorded`) has the job run again for ever (arq
tries it five times and the user may ask again), and each call succeed some
time: strong fairness, since a run that fails is followed by another.
`ConfirmedCloseIsRecorded` leaves out a close that was retried over its mined first
transaction: the row then names a hash that may never be mined, nothing looks the
first one up, and without an event the record may stay open. Its run has one
transaction per attempt and so does not reach that case.
`DeliveredSpec` adds delivery of every event, so that the counterexample of
`live_stuck_opening` cannot be blamed on a lost one.

## 4. What is proved

TLAPS checks every leaf; the theorems hold for any number of positions,
attempts, threads, transactions, crashes, requests, venues, amounts, seasons,
payments, rows, orders, ticks, switches and restarts. Every invariant and every
action property of a passing run is one of them; what is left to TLC is liveness.

| theorem | statement | assumes |
|---|---|---|
| `TypeCorrect` | `TypeOK` of `LiveTrading` | - |
| `AttemptsAreExclusive` | `AttemptInv` | `~SlowPreparation` |
| `HashIsRecorded` | `TxIsRecorded` | `~SlowPreparation` |
| `FailedIsHarmless` | `FailedHasNoEffect` | `~SlowPreparation` |
| `PromiseIsKept` | `LiveTrading` implements `TradeCommand` | `~SlowPreparation` |
| `OneIsActive` | `OneActivePosition` | - |
| `OutcomesHold` | `OutcomesAreFinal` | - |
| `ExecutedSettles` | `ExecutedIsSettled` | - |
| `OrphansAreForeign` | `OrphanNeedsForeign` | `~SlowPreparation` |
| `TypesHold` | `TypeOK` of `TradingProfiles` | - |
| `BooksHold`, `CollateralHolds` | `BooksAgree`, `CollateralFollows` | - |
| `OneActiveHolds`, `SeasonHolds`, `VenueHolds` | the three isolation properties of `profiles` | - |
| `PaymentTypeCorrect` | `TypeOK` of `WalletPayments` | - |
| `StoredFirst`, `NeverPaidTwice` | `StoredBeforeSent`, `PaidOnce` | - |
| `ConfirmedMeansPaid` | `ConfirmedIsPaid` | - |
| `NoncesHaveNoGap`, `NoncesAreKept` | `NoNonceGap`, `NonceKept` | - |
| `FailedTakesNothing`, `WithdrawalsStaySettled` | `FailedWithdrawalIsHarmless`, `WithdrawalSettlesOnce` | - |
| `LiveExcludesWithdrawal` | `NoLivePositionBesideWithdrawal` | - |
| `SolanaTypeCorrect` | `SolanaTypeOK` | - |
| `WithdrawalPaysOnce`, `ConfirmedWithdrawalIsPaid` | `SolanaPaidOnce`, `SolanaConfirmedIsPaid` | - |
| `ReserveIsInTheBooks` | `ReserveIsCounted` of `WalletSetup` | - |
| `ReconTypeCorrect` | `ReconTypeOK` | - |
| `GasIsChargedOnce`, `ResultIsNet`, `ReconciledResultIsTrue` | `ChargedOnce`, `ResultNetsGas`, `ReconciledIsTrue` | - |
| `FailedOrderPlacesNothing`, `GapsAreRecoverable` | `FailedOrderIsHarmless`, `GapIsRecoverable` of `AvantisService` | - |
| `ResultPopsUpOnce`, `OldResultsStayDown` | `ResultShownOnce`, `ResultIsNew` of `TradeClient` | - |
| `BarsAreTrue`, `AcceptedTicksAreKept` | `BarIsTrue`, `AcceptedIsKept` of `MarketHistory` | - |
| `LocalTypeCorrect` | `LocalTypeOK` | - |
| `OneOpenUnderWay`, `RunningRowsAreOwned` | `OneOpenInFlight`, `RunningIsOwned` | - |

The constants have the assumptions the modules state and TLC evaluates: bounds
are natural numbers, amounts and prices integers, a preparation is not an order
(`OrdersAreNotSetups`), there is a market, the jobs that may overlap are finitely
many.

`~SlowPreparation` is needed: `live_stale_claim` is the counterexample without it.

*Attempts.* `TxIsRecorded` is not inductive: nothing in it says that the thread
about to sign is the only one, or that recovery will not put an older hash back.
`AttemptInv` adds that: one thread per attempt, a thread past signing knows the
stored hash, nothing is signed before the row says so, the transaction that
recovery carries from its read to its write is pending or mined and so is not
replaced by a clean retry (which needs a dead one), and there is one retry
(`OneRetry`): a thread that has not retried has signed the first transaction and
no other, so that a retry over a mined one adds the second and marks the attempt
for good, and a third is never signed. Claims are exclusive because
only a `CREATED` row is claimed and only an abandoned claim goes back to
`CREATED`. `FailedHasNoEffect` follows by looking at the three writers of
`FAILED`, for attempts that are not marked, and with the fate of the stored
transaction each step of `LiveTrading` is a step of `TradeCommand` or a stutter;
`SignOverMined` is the step into doubt. The exception is the exact one: the mark
is set by that action alone, and nothing else is excused.

*Positions.* The proofs first show that every step changes at most one position
and one attempt, each by a creation, a close command or the tables; the tables
lead nowhere from `CLOSED` and `LIQUIDATED` but to `LIQUIDATED`, so that
`OneActivePosition` is decided in `accept_open` alone. `ExecutedIsSettled` needs
the result writers case by case.

*Orphans.* `OrphanNeedsForeign` speaks of the end of a position only; `OrphanInv`
follows the identity of a trade from the chain to that end: a position has one open
command (`OneOpenCommand`), an order or a trade exists only of a confirmed
transaction (`VenueFollowsChain`), what a record, a thread, a close's target or the
recovery loop's reading names is the position's own trade unless it was marked
foreign (`TiesAreOwn`, `HandsAreOwn`, `TargetsAreOwn`, `ReadIsTrue`), and what is
over has lost its own trade or never had one (`OverIsSettled`), all of this but for
attempts whose retry overlooked a mined transaction. What a thread has in
hand was true when it was read and stays true, because trades that are gone do not
come back.

*Profiles.* `BooksHold` strengthens `BooksAgree` by "no event yet for a later
season" and rests on `_demo_profile` asking for the season of the position. The
three isolation properties are one induction: every step is quiet (no position
becomes active, none changes profile, season and venue stay), or is one of
`AcceptOpen`, `SwitchVenue`, `ResetDemo`. `CollateralInv` adds what
`CollateralFollows` takes from the attempts: a thread holds a claimed attempt
alone, a position has one opening attempt, and its entry price is empty until that
attempt is through, so the fill that locks the collateral happens once.

*Payments.* `PaidInv` carries the first four theorems: a row holds one
transaction and it was made for it, what a thread sends, awaits or records is
its row's, the chain has passed exactly what it executed. `PaidOnce` then
follows from `StoredBeforeSent`. For the nonces `GapInv` says that every nonce
below a stored transaction or below the cache is on chain, accepted, or about to
be sent by the thread that holds the lock; it needs the lock, and that a failed
send drops the cache. `RunsInv` adds to `PaidInv` that a withdrawal has one run,
that a run has something to write only while its row is active, and that what
will be rejected was never signed: then no writer that ignores the status can
meet a settled row. `NonceInv` says that while the cache of a sender was never
dropped all its signed payments have their own nonces, below the cached one, and
that the chain passes a nonce by executing it.

*Solana.* `SolanaInv` accounts for the money: what is in the wallet, in custody
and paid out is always the total (`MoneyKept`), every transaction on its way or
landed is a deposit or the one stored for its withdrawal (`SentIsStored`), and a
confirmed row has its own landed transfer (`ConfirmedLanded`).

*Loans of gas.* `ReserveIsCounted` is a matter of sums, and true of every state in
which the rows tell the truth (what is confirmed has landed, what was signed moves
the amount of its row) and no more gas was charged than spent. The last is not
inductive alone: several jobs may be about to charge, so `ChargesAreSpent` adds what
they all still owe. The sums are the library's `SumFunctionOnSet`, whose recursion
the provers cannot unfold for a set of any size; the lemmas (`SumElement`,
`SumOfParts`, `SumOrder`) show what it returns by the smallest subset that would be
a counterexample, which needs no induction theorem with an operator for parameter.

*Results.* `ReconInv` holds the last row of the book to the ledger and to the
venue's payment: a result is one balance less the gas that is in the ledger now
(`RowNetsGas`), a profit is the venue's, and a row counts as reconciled only if the
two agree (`RowIsTrue`); the two are said of a row that is not `outdated`. A charge
writes the row again in its own session, so charges that come after a result are
in it if nothing came between. For the sessions under way `SessionsHold` keeps what
they have read: rows of the book as they once were, charges that are still in the
ledger, amounts the venue did pay. A session that is still current when it writes
then writes the truth, and one that is not says so. Each actor has at most one
balance in hand, and whoever works on the end of a trade has a row to write to
(`ActorsHold`).

*Avantis.* An order about to send, or sent, has what it signed in its row
(`SignedIsStored`); an attempt is over with a stored nonce only if the chain used
that nonce, and failed only if it reverted (`StatusFollowsChain`); the chain executes
nonces in order, and of an order only what its row stores (`ChainKeepsOrder`).

*Screen.* `ClientInv` reads the answers under way as copies of the past
(`AnswersArePast`): what has ended in one has ended on the server with the same
number of reconciliations. A result that popped up is marked as shown
(`PoppedIsShown`), and what had ended at the load is in the first answer after it,
which marks it (`OldIsMarked`).

*Bars.* `HistoryInv` orders the ticks: written before pending, pending before
queued (`TicksInOrder`). A pending bar holds at least what is not written of
its second, and nothing that was not folded (`PendingIsTrue`); a row spans those
written, and may be written again, because merging the same bar twice changes nothing (`RowsAreTrue`).

*Local canary.* `OneOpenInFlight` rests on the guard of an open, but that guard
is only worth something if no writer takes a row back to an open under way:
`LocalInv` adds that rows which are stored and not yet taken are as they were
created (`JobsAreNew`), that the thread's row left the queue and its status follows
the thread (`WorkerHasItsRow`), and that the row the monitor is about to write,
however long ago it looked at `_running`, had been let go before
(`MonitorHasALeftRow`): a row that left `_running` does not come back. Each of
these excuses the rows in `strays` alone. `RunningIsOwned` follows: every write of
the monitor is to a row that is not in hand, or not pending, or a stray.

Only model-checked: `AcceptedIsHandled` and `ConfirmedCloseIsRecorded`, because
liveness under fairness and `ENABLED` are out of this prover's reach. Out of reach
too are the induction theorems that take an operator as a parameter, which is why
sums are treated as above and queues by their order, and `RECURSIVE` operators, which
no module uses. The proofs changed the models where these were wrong or could not be
reasoned about: the amount of a transaction in `SolanaWithdrawal` may exceed what the
wallet holds and has the type of any number; the history variable of `TradeClient`
above; the drain of `MarketHistory`; the sums of `WalletSetup`. Reading
them against the code again changed others: the nonce retry over a mined transaction
in `LiveTrading`, the sessions of two steps in `TradeReconciliation`, and the gap
between a row and `_running` in `LocalExecution`.

## 5. Not modelled, and the plan

| part | why |
|---|---|
| Flash opens, closes and monitor | an open or close confirms in the call itself, so its attempt is one of `LiveTrading` with another sender; a close never finds its position and the monitor's events find no wallet (see the findings), so there is nothing of their own to check |
| Avantis price feed, catalogue, terminal monitor, user-signed setup | caches of external data; the monitor feeds the same reducer |
| the gas of withdrawals in the loan's books, a reverted top-up or sweep | another consumer of the same amounts; plain transfers to the platform and to a user do not revert |
| invitations, accounts, sessions | each operation is one locked transaction or a signature check |
| row-lock order of the handlers | the database aborts one of two transactions that deadlock; the models allow it as a refusal |
| market tape, charts, rendering | no state a command depends on |
| `memory_store.py` | a test double of the SQL store |
| canary: balance repair, quotes, fee and nonce caches, Ostium connector | amounts and caches of external data; the connector is not the one in use |
| `research/`, the Expo app and the mockups of `builds/local-mvp/` | experiments that run once by hand, and screens without state of their own |
| formulas, formatting, mapping, encryption, balance readers, configuration, logging | real arithmetic or pure input and output |

The map covers nearly a fifth of the repository's implementation lines: half of
these lines are the experiments, the mockups and the frontend's presentation,
and much of the rest is field mapping, payloads of venue clients and formulas.

Open questions, in the order in which they would pay: an abstract single payment
that `WalletPayments` and `SolanaWithdrawal` implement; what becomes of a row whose
attempt placed two orders, beyond that there are two. Two hazards have no property,
only a note in `PROJECT.json`: a close that fails before it is signed leaves its
position to the user, and stored bytes whose nonce another transaction took are
never settled. In both the code does nothing and no document promises otherwise, so
a property would only restate that.
