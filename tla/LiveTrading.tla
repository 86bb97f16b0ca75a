---------------------------- MODULE LiveTrading ----------------------------
(***************************************************************************)
(* Live trading of one user on the gTrade venue: the API accepts open and  *)
(* close commands, worker threads claim them, sign one transaction, store  *)
(* its bytes and broadcast it; a keeper of the venue executes the order    *)
(* later.  Three independent writers then decide what the database says:   *)
(* the worker that waits for its own result, the recovery loop that looks  *)
(* the stored hash up again, and the reducer of the venue's events.        *)
(*                                                                         *)
(* A step below is one database transaction (session_scope) or one call to *)
(* the chain or the venue.  A transaction whose status change the tables   *)
(* of TradeStates forbid raises StoreConflict and writes nothing: it is a  *)
(* guard here, and the exception that follows is MarkFailed or Crash.      *)
(***************************************************************************)
EXTENDS Integers, TradeStates

CONSTANTS
    MaxPos,           \* positions are rows 1 .. MaxPos, in order of creation
    Exec,             \* identities of execution attempts
    Worker,           \* threads that run jobs
    MaxTx,            \* bound: transactions signed for one attempt
    MaxMishap,        \* bound: worker mishaps and failed lookups
    Ends,             \* how the venue may end a trade by itself
    SlowPreparation,  \* wallet preparation may outlast stale_claim_seconds
    LateNotices,      \* the notice of a finished trade may reach a later wait
    NULL

ASSUME LiveAssumption ==
    /\ MaxPos \in Nat \ {0}
    /\ MaxTx \in Nat \ {0}
    /\ MaxMishap \in Nat
    /\ Ends \subseteq {"stopped", "liquidated"}
    /\ SlowPreparation \in BOOLEAN
    /\ LateNotices \in BOOLEAN

Pos == 1 .. MaxPos

\* A signed transaction is the attempt it belongs to and its number; the
\* trade that an open transaction creates at the venue carries its name.
Tx == Exec \X (1 .. MaxTx)
ASSUME NullAssumption == NULL \notin Exec /\ NULL \notin Tx

VARIABLES
    posStatus,   \* positions.status, "NONE" before the row exists
    posVenueId,  \* positions.venue_position_id
    posReason,   \* positions.payload.terminalReason
    exStatus,    \* execution_attempts.status
    exAction,    \* execution_attempts.action
    exPos,       \* the position of the attempt's intent
    exTx,        \* execution_attempts.tx_hash and raw_tx_ref: a tx number, 0 none
    jobs,        \* attempts with a job on the queue
    wPc,         \* what each worker thread is doing
    wExec,       \* the attempt it claimed
    wTx,         \* the transaction it signed last
    wTrade,      \* the trade its context names, then the one it closes
    wRetried,    \* it has used its one stale-nonce retry
    mishaps,     \* crashes and failed lookups so far
    chain,       \* fate of each transaction
    venue,       \* what the venue did with the order of each transaction
    target,      \* the trade a close transaction closes
    overlooked,  \* history: attempts signed again although the first was mined
    rec,         \* the recovery loop between its reads and its write
    foreign      \* history: the position was settled or named by another's trade

posVars == <<posStatus, posVenueId, posReason>>
exVars == <<exStatus, exAction, exPos, exTx>>
wVars == <<wPc, wExec, wTx, wTrade, wRetried, mishaps>>
venueVars == <<chain, venue, target, overlooked>>
vars == <<posVars, exVars, jobs, wVars, venueVars, rec, foreign>>

WorkerPc == {"idle", "claimed", "signed", "sent", "marked"}
ChainState == {"none", "signed", "pending", "dead", "confirmed", "reverted"}
Mined == {"confirmed", "reverted"}
Gone == {"closed", "stopped", "liquidated"}
VenueState == {"none", "placed", "cancelled", "done", "open"} \union Gone
NoRecovery == [exec |-> NULL, tx |-> 0, status |-> "none", seen |-> NULL]

PosTypeOK ==
    /\ posStatus \in [Pos -> PositionStatus \union {"NONE"}]
    /\ posVenueId \in [Pos -> Tx \union {NULL}]
    /\ posReason \in [Pos -> TerminalReason]
    /\ foreign \in [Pos -> BOOLEAN]

ExTypeOK ==
    /\ exStatus \in [Exec -> ExecutionStatus \union {"NONE"}]
    /\ exAction \in [Exec -> {"OPEN", "CLOSE", "NONE"}]
    /\ exPos \in [Exec -> 0 .. MaxPos]
    /\ exTx \in [Exec -> 0 .. MaxTx]
    /\ \A e \in Exec : exStatus[e] # "NONE" => exPos[e] \in Pos
    /\ jobs \subseteq Exec

WorkerTypeOK ==
    /\ wPc \in [Worker -> WorkerPc]
    /\ wExec \in [Worker -> Exec \union {NULL}]
    /\ \A w \in Worker : wPc[w] = "idle" <=> wExec[w] = NULL
    /\ wTx \in [Worker -> 0 .. MaxTx]
    /\ wTrade \in [Worker -> Tx \union {NULL}]
    /\ wRetried \in [Worker -> BOOLEAN]
    /\ mishaps \in 0 .. MaxMishap

VenueTypeOK ==
    /\ chain \in [Tx -> ChainState]
    /\ venue \in [Tx -> VenueState]
    /\ target \in [Tx -> Tx \union {NULL}]
    /\ overlooked \subseteq Exec

RecTypeOK ==
    /\ rec \in [exec : Exec \union {NULL}, tx : 0 .. MaxTx,
                status : Mined \union {"none"}, seen : Tx \union {NULL}]
    /\ rec.exec = NULL => rec = NoRecovery

\* Every variable has its type, a row of an attempt belongs to a position, and a
\* thread is idle iff it holds no attempt.
TypeOK == PosTypeOK /\ ExTypeOK /\ WorkerTypeOK /\ VenueTypeOK /\ RecTypeOK

Init ==
    /\ posStatus = [p \in Pos |-> "NONE"]
    /\ posVenueId = [p \in Pos |-> NULL]
    /\ posReason = [p \in Pos |-> ""]
    /\ exStatus = [e \in Exec |-> "NONE"]
    /\ exAction = [e \in Exec |-> "NONE"]
    /\ exPos = [e \in Exec |-> 0]
    /\ exTx = [e \in Exec |-> 0]
    /\ jobs = {}
    /\ wPc = [w \in Worker |-> "idle"]
    /\ wExec = [w \in Worker |-> NULL]
    /\ wTx = [w \in Worker |-> 0]
    /\ wTrade = [w \in Worker |-> NULL]
    /\ wRetried = [w \in Worker |-> FALSE]
    /\ mishaps = 0
    /\ chain = [t \in Tx |-> "none"]
    /\ venue = [t \in Tx |-> "none"]
    /\ target = [t \in Tx |-> NULL]
    /\ overlooked = {}
    /\ rec = NoRecovery
    /\ foreign = [p \in Pos |-> FALSE]

-----------------------------------------------------------------------------
Active(p) == posStatus[p] \in ActiveStatus
Terminal(p) == posStatus[p] \in TerminalStatus
OpenTrades == {t \in Tx : venue[t] = "open"}

\* The trade was opened by the open command of position p.
Own(p, t) == exAction[t[1]] = "OPEN" /\ exPos[t[1]] = p

\* _transition_position and _transition_execution as parts of a transaction.
MovePosition(p, to) ==
    /\ CanTransition(posStatus[p], to)
    /\ posStatus' = [posStatus EXCEPT ![p] = to]

\* Faulty form: the status is written without asking the table.
MoveExecutionUnchecked(e, to) == exStatus' = [exStatus EXCEPT ![e] = to]

MoveExecution(e, to) ==
    /\ CanExecutionTransition(exStatus[e], to)
    /\ exStatus' = [exStatus EXCEPT ![e] = to]

\* Faulty form: the thread keeps its attempt.
ReleaseNothing(w) ==
    /\ wPc' = [wPc EXCEPT ![w] = "idle"]
    /\ UNCHANGED <<wExec, wTx, wTrade, wRetried>>

\* The thread is done with its job.
Release(w) ==
    /\ wPc' = [wPc EXCEPT ![w] = "idle"]
    /\ wExec' = [wExec EXCEPT ![w] = NULL]
    /\ wTx' = [wTx EXCEPT ![w] = 0]
    /\ wTrade' = [wTrade EXCEPT ![w] = NULL]
    /\ wRetried' = [wRetried EXCEPT ![w] = FALSE]

-----------------------------------------------------------------------------
(* The API.  The store commits first; the enqueue after it may fail.       *)

Enqueue(e) == jobs' = jobs \union {e} \/ jobs' = jobs

NewExecution(e, action, p) ==
    /\ exStatus[e] = "NONE"
    /\ exStatus' = [exStatus EXCEPT ![e] = "CREATED"]
    /\ exAction' = [exAction EXCEPT ![e] = action]
    /\ exPos' = [exPos EXCEPT ![e] = p]
    /\ Enqueue(e)

\* Faulty form: only an open position blocks the next one.
AcceptOpenBesideUnknown(p, e) ==
    /\ \A q \in Pos : posStatus[q] # "OPEN"
    /\ posStatus[p] = "NONE"
    /\ \A q \in 1 .. (p - 1) : posStatus[q] # "NONE"
    /\ posStatus' = [posStatus EXCEPT ![p] = "OPENING"]
    /\ NewExecution(e, "OPEN", p)
    /\ UNCHANGED <<posVenueId, posReason, exTx, wVars, venueVars, rec, foreign>>

\* accept_open: the active positions are counted under the user's lock.
AcceptOpen(p, e) ==
    /\ \A q \in Pos : ~Active(q)
    /\ posStatus[p] = "NONE"
    /\ \A q \in 1 .. (p - 1) : posStatus[q] # "NONE"
    /\ posStatus' = [posStatus EXCEPT ![p] = "OPENING"]
    /\ NewExecution(e, "OPEN", p)
    /\ UNCHANGED <<posVenueId, posReason, exTx, wVars, venueVars, rec, foreign>>

\* accept_close
AcceptClose(p, e) ==
    /\ posStatus[p] \in ClosableStatus
    /\ posStatus' = [posStatus EXCEPT ![p] = "CLOSING"]
    /\ NewExecution(e, "CLOSE", p)
    /\ UNCHANGED <<posVenueId, posReason, exTx, wVars, venueVars, rec, foreign>>

-----------------------------------------------------------------------------
(* The redispatch scan.                                                    *)

\* Time is not modelled: a claim is stale when it has waited long enough,
\* which a running worker outlasts only if preparation can be that slow.
ReleaseStaleClaim(e) ==
    /\ exStatus[e] = "CLAIMED"
    /\ exTx[e] = 0
    /\ SlowPreparation \/ \A w \in Worker : wExec[w] # e
    /\ exStatus' = [exStatus EXCEPT ![e] = "CREATED"]
    /\ UNCHANGED <<posVars, exAction, exPos, exTx, jobs, wVars, venueVars, rec,
                   foreign>>

\* Faulty form: the scan trusts the API's enqueue.
RedispatchQueued(e) ==
    /\ exStatus[e] = "CREATED"
    /\ e \in jobs
    /\ UNCHANGED vars

Redispatch(e) ==
    /\ exStatus[e] = "CREATED"
    /\ jobs' = jobs \union {e}
    /\ UNCHANGED <<posVars, exVars, wVars, venueVars, rec, foreign>>

-----------------------------------------------------------------------------
(* A worker thread.                                                        *)

\* claim: only a CREATED attempt is taken; then the context is loaded.
Claim(w, e) ==
    /\ wPc[w] = "idle"
    /\ e \in jobs
    /\ exStatus[e] = "CREATED"
    /\ MoveExecution(e, "CLAIMED")
    /\ jobs' = jobs \ {e}
    /\ wPc' = [wPc EXCEPT ![w] = "claimed"]
    /\ wExec' = [wExec EXCEPT ![w] = e]
    /\ wTrade' = [wTrade EXCEPT ![w] = posVenueId[exPos[e]]]
    /\ UNCHANGED <<posVars, exAction, exPos, exTx, wTx, wRetried, mishaps,
                   venueVars, rec, foreign>>

\* A transaction number never used for the attempt: it has its own nonce.
FreshTx(e, k) == chain[<<e, k>>] = "none" /\ \A i \in 1 .. (k - 1) : chain[<<e, i>>] # "none"

\* Faulty form: a hash, once stored, is kept.
PersistFirst(w, k) ==
    LET e == wExec[w] IN
    /\ FreshTx(e, k)
    /\ MoveExecution(e, "BROADCAST_PENDING")
    /\ exTx' = [exTx EXCEPT ![e] = IF @ = 0 THEN k ELSE @]
    /\ chain' = [chain EXCEPT ![<<e, k>>] = "signed"]
    /\ wPc' = [wPc EXCEPT ![w] = "signed"]
    /\ wTx' = [wTx EXCEPT ![w] = k]

\* mark_broadcast_pending, called with the signed bytes before the broadcast.
Persist(w, k) ==
    LET e == wExec[w] IN
    /\ FreshTx(e, k)
    /\ MoveExecution(e, "BROADCAST_PENDING")
    /\ exTx' = [exTx EXCEPT ![e] = k]
    /\ chain' = [chain EXCEPT ![<<e, k>>] = "signed"]
    /\ wPc' = [wPc EXCEPT ![w] = "signed"]
    /\ wTx' = [wTx EXCEPT ![w] = k]

\* The wallet is prepared and funded, the balance suffices, the open is signed.
SignOpen(w, k) ==
    /\ wPc[w] = "claimed"
    /\ exAction[wExec[w]] = "OPEN"
    /\ Persist(w, k)
    /\ UNCHANGED <<posVars, exAction, exPos, jobs, wExec, wTrade, wRetried,
                   mishaps, venue, target, overlooked, rec, foreign>>

\* _resolve_position_index: the trade of the context, else any the venue shows.
SignClose(w, k, t) ==
    LET e == wExec[w] IN
    /\ wPc[w] = "claimed"
    /\ exAction[e] = "CLOSE"
    /\ IF wTrade[w] # NULL THEN t = wTrade[w] ELSE t \in OpenTrades
    /\ Persist(w, k)
    /\ wTrade' = [wTrade EXCEPT ![w] = t]
    /\ target' = [target EXCEPT ![<<e, k>>] = t]
    /\ foreign' = [foreign EXCEPT ![exPos[e]] = @ \/ ~Own(exPos[e], t)]
    /\ UNCHANGED <<posVars, exAction, exPos, jobs, wExec, wRetried, mishaps,
                   venue, overlooked, rec>>

\* Both routes say nonce too low and no transaction of that hash is known: one
\* new nonce, signed and stored again.
Resign(w, k) ==
    /\ wPc[w] = "signed"
    /\ ~wRetried[w]
    /\ Persist(w, k)
    /\ wRetried' = [wRetried EXCEPT ![w] = TRUE]
    /\ target' = [target EXCEPT ![<<wExec[w], k>>] = wTrade[w]]
    /\ UNCHANGED <<posVars, exAction, exPos, jobs, wExec, wTrade, venue, rec, foreign>>

\* Faulty form: any broadcast error is retried with a new nonce.
SignAgainAlways(w, k) ==
    /\ Resign(w, k)
    /\ UNCHANGED <<mishaps, overlooked>>

\* Faulty form: the bytes of the retry are sent without being stored.
SignAgainUnstored(w, k) ==
    LET e == wExec[w] IN
    /\ wPc[w] = "signed"
    /\ chain[<<e, wTx[w]>>] = "dead"
    /\ ~wRetried[w]
    /\ FreshTx(e, k)
    /\ chain' = [chain EXCEPT ![<<e, k>>] = "signed"]
    /\ wTx' = [wTx EXCEPT ![w] = k]
    /\ wRetried' = [wRetried EXCEPT ![w] = TRUE]
    /\ target' = [target EXCEPT ![<<e, k>>] = wTrade[w]]
    /\ UNCHANGED <<posVars, exVars, jobs, wPc, wExec, wTrade, mishaps, venue,
                   overlooked, rec, foreign>>

\* Another transaction has the nonce: the first can never be mined.
SignAgain(w, k) ==
    /\ Resign(w, k)
    /\ chain[<<wExec[w], wTx[w]>>] = "dead"
    /\ UNCHANGED <<mishaps, overlooked>>

\* The recovery loop sent the same bytes in the meantime and they are mined,
\* but the lookup of the hash fails, which _transaction_exists takes for a no.
SignOverMined(w, k) ==
    /\ Resign(w, k)
    /\ chain[<<wExec[w], wTx[w]>>] \in Mined
    /\ mishaps < MaxMishap
    /\ mishaps' = mishaps + 1
    /\ overlooked' = overlooked \union {wExec[w]}

\* A route accepted the bytes, or the hash is already known to the chain.
Broadcast(w) ==
    LET t == <<wExec[w], wTx[w]>> IN
    /\ wPc[w] = "signed"
    /\ chain[t] # "dead"
    /\ chain' = [chain EXCEPT ![t] = IF @ = "signed" THEN "pending" ELSE @]
    /\ wPc' = [wPc EXCEPT ![w] = "sent"]
    /\ UNCHANGED <<posVars, exVars, jobs, wExec, wTx, wTrade, wRetried, mishaps,
                   venue, target, overlooked, rec, foreign>>

\* What _wait_for_position may report for an open: any trade the open-trades
\* snapshot lists, or the register notice of a trade, its own or a late one.
Sightings(t) ==
    {u \in Tx : venue[u] = "open" \/ (venue[u] \in Gone /\ (u = t \/ LateNotices))}
        \union {NULL}

\* mark_open_result, after the receipt.
MarkOpenResult(w, seen) ==
    LET e == wExec[w]
        p == exPos[e]
        t == <<e, wTx[w]>> IN
    /\ wPc[w] = "sent"
    /\ exAction[e] = "OPEN"
    /\ chain[t] \in Mined
    /\ seen \in Sightings(t)
    /\ exTx' = [exTx EXCEPT ![e] = wTx[w]]
    /\ \/ /\ seen # NULL
          /\ MoveExecution(e, "VENUE_EXECUTED")
          /\ IF Terminal(p) THEN UNCHANGED posStatus ELSE MovePosition(p, "OPEN")
          /\ posVenueId' = [posVenueId EXCEPT ![p] = seen]
          /\ foreign' = [foreign EXCEPT ![p] = @ \/ ~Own(p, seen)]
       \/ /\ seen = NULL
          /\ chain[t] = "confirmed"
          /\ MoveExecution(e, IF Terminal(p) THEN "VENUE_EXECUTED" ELSE "AWAITING")
          /\ UNCHANGED <<posStatus, posVenueId, foreign>>
       \/ /\ seen = NULL
          /\ chain[t] = "reverted"
          /\ MoveExecution(e, "FAILED")
          /\ IF Terminal(p) THEN UNCHANGED posStatus ELSE MovePosition(p, "CLOSED")
          /\ UNCHANGED <<posVenueId, foreign>>
    /\ wPc' = [wPc EXCEPT ![w] = "marked"]
    /\ wTx' = [wTx EXCEPT ![w] = 0]
    /\ wTrade' = [wTrade EXCEPT ![w] = NULL]
    /\ wRetried' = [wRetried EXCEPT ![w] = FALSE]
    /\ UNCHANGED <<posReason, exAction, exPos, jobs, wExec, mishaps, venueVars, rec>>

\* The gas charge and the cache updates after an open result are done.
Finish(w) ==
    /\ wPc[w] = "marked"
    /\ Release(w)
    /\ UNCHANGED <<posVars, exVars, jobs, mishaps, venueVars, rec, foreign>>

\* An absence that ends the wait of a close: the trade is gone, or a notice of
\* another trade of the same pair is taken for it (the pair alone matches).
AbsenceSeen(t) ==
    \/ venue[t] # "open"
    \/ LateNotices /\ \E u \in Tx : venue[u] \in Gone

\* mark_close_result, after the receipt; closed says how the wait ended.
MarkCloseResult(w, closed) ==
    LET e == wExec[w]
        p == exPos[e]
        t == <<e, wTx[w]>> IN
    /\ wPc[w] = "sent"
    /\ exAction[e] = "CLOSE"
    /\ chain[t] \in Mined
    /\ closed => AbsenceSeen(target[t])
    /\ exTx' = [exTx EXCEPT ![e] = wTx[w]]
    /\ \/ /\ closed
          /\ MoveExecution(e, "VENUE_EXECUTED")
          /\ IF Terminal(p) THEN UNCHANGED posStatus ELSE MovePosition(p, "CLOSED")
          /\ posReason' = [posReason EXCEPT ![p] = IF @ = "" THEN "manual_close" ELSE @]
          /\ foreign' = [foreign EXCEPT ![p] = @ \/ venue[target[t]] = "open"]
       \/ /\ ~closed
          /\ chain[t] = "confirmed"
          /\ MoveExecution(e, IF Terminal(p) THEN "VENUE_EXECUTED" ELSE "AWAITING")
          /\ UNCHANGED <<posStatus, posReason, foreign>>
       \/ /\ ~closed
          /\ chain[t] = "reverted"
          /\ MoveExecution(e, "FAILED")
          /\ IF Terminal(p) THEN UNCHANGED posStatus ELSE MovePosition(p, "UNKNOWN")
          /\ UNCHANGED <<posReason, foreign>>
    /\ Release(w)
    /\ UNCHANGED <<posVenueId, exAction, exPos, jobs, mishaps, venueVars, rec>>

\* Faulty form: a stored but unsent transaction counts as harmless.
MarkFailedOnceSent(w) ==
    LET e == wExec[w]
        p == exPos[e]
        ambiguous == exStatus[e] \in AmbiguousStatus \ {"BROADCAST_PENDING"} IN
    /\ wPc[w] # "idle"
    /\ IF exStatus[e] \in ResolvedStatus
       THEN UNCHANGED <<posStatus, exStatus>>
       ELSE /\ MoveExecution(e, IF ambiguous THEN "UNKNOWN" ELSE "FAILED")
            /\ IF Terminal(p) THEN UNCHANGED posStatus
               ELSE MovePosition(p, IF ambiguous \/ exAction[e] = "CLOSE"
                                    THEN "UNKNOWN" ELSE "CLOSED")
    /\ Release(w)
    /\ UNCHANGED <<posVenueId, posReason, exAction, exPos, exTx, jobs, mishaps,
                   venueVars, rec, foreign>>

\* mark_failed: any exception of preparation, signing, broadcast, receipt
\* wait or accounting.  Without a stored hash nothing was ever submitted.
MarkFailed(w) ==
    LET e == wExec[w]
        p == exPos[e]
        ambiguous == exTx[e] # 0 \/ exStatus[e] \in AmbiguousStatus \union {"SIGNED"} IN
    /\ wPc[w] # "idle"
    /\ IF exStatus[e] \in ResolvedStatus
       THEN UNCHANGED <<posStatus, exStatus>>
       ELSE /\ MoveExecution(e, IF ambiguous THEN "UNKNOWN" ELSE "FAILED")
            /\ IF Terminal(p) THEN UNCHANGED posStatus
               ELSE MovePosition(p, IF ambiguous \/ exAction[e] = "CLOSE"
                                    THEN "UNKNOWN" ELSE "CLOSED")
    /\ Release(w)
    /\ UNCHANGED <<posVenueId, posReason, exAction, exPos, exTx, jobs, mishaps,
                   venueVars, rec, foreign>>

\* The process dies, or mark_failed itself raises: nothing is written.
Crash(w) ==
    /\ wPc[w] # "idle"
    /\ mishaps < MaxMishap
    /\ mishaps' = mishaps + 1
    /\ Release(w)
    /\ UNCHANGED <<posVars, exVars, jobs, venueVars, rec, foreign>>

WorkerStep(w) ==
    \/ \E k \in 1 .. MaxTx : SignOpen(w, k) \/ SignAgain(w, k) \/ SignOverMined(w, k)
    \/ \E k \in 1 .. MaxTx, t \in Tx : SignClose(w, k, t)
    \/ Broadcast(w)
    \/ \E seen \in Tx \union {NULL} : MarkOpenResult(w, seen)
    \/ \E closed \in BOOLEAN : MarkCloseResult(w, closed)
    \/ Finish(w)
    \/ MarkFailed(w)

-----------------------------------------------------------------------------
(* The chain and the venue (not under src/).                               *)

\* Another transaction of the same sender takes the nonce first.
NonceTaken(t) ==
    /\ chain[t] = "signed"
    /\ chain' = [chain EXCEPT ![t] = "dead"]
    /\ UNCHANGED <<posVars, exVars, jobs, wVars, venue, target, overlooked, rec,
                   foreign>>

\* A close can only be confirmed while its trade is open.
Mine(t, outcome) ==
    /\ chain[t] = "pending"
    /\ (outcome = "confirmed" /\ exAction[t[1]] = "CLOSE") => venue[target[t]] = "open"
    /\ chain' = [chain EXCEPT ![t] = outcome]
    /\ venue' = [venue EXCEPT ![t] = IF outcome = "confirmed" THEN "placed" ELSE @]
    /\ UNCHANGED <<posVars, exVars, jobs, wVars, target, overlooked, rec, foreign>>

\* The keeper executes an order, or cancels it (slippage, no price).
KeeperOpens(t) ==
    /\ venue[t] = "placed" /\ exAction[t[1]] = "OPEN"
    /\ \E result \in {"open", "cancelled"} : venue' = [venue EXCEPT ![t] = result]
    /\ UNCHANGED <<posVars, exVars, jobs, wVars, chain, target, overlooked, rec,
                   foreign>>

KeeperCloses(t) ==
    /\ venue[t] = "placed" /\ exAction[t[1]] = "CLOSE"
    /\ \/ venue' = [venue EXCEPT ![t] = "done"]
       \/ /\ venue[target[t]] = "open"
          /\ venue' = [venue EXCEPT ![t] = "done", ![target[t]] = "closed"]
    /\ UNCHANGED <<posVars, exVars, jobs, wVars, chain, target, overlooked, rec,
                   foreign>>

\* A stop loss or take profit order at the venue, or a liquidation.
VenueEnds(t) ==
    /\ venue[t] = "open"
    /\ \E how \in Ends : venue' = [venue EXCEPT ![t] = how]
    /\ UNCHANGED <<posVars, exVars, jobs, wVars, chain, target, overlooked, rec,
                   foreign>>

VenueStep(t) ==
    \/ \E outcome \in Mined : Mine(t, outcome)
    \/ KeeperOpens(t)
    \/ KeeperCloses(t)

-----------------------------------------------------------------------------
(* The recovery loop: one thread, several awaits in one pass.              *)

\* Faulty form: an attempt whose worker failed is left alone.
RecoverableKnown(e) ==
    /\ exStatus[e] \in AmbiguousStatus \ {"UNKNOWN"}
    /\ exTx[e] # 0
    /\ Active(exPos[e])

\* ambiguous_execution_ids selects the attempt.
Recoverable(e) ==
    /\ exStatus[e] \in AmbiguousStatus
    /\ exTx[e] # 0
    /\ Active(exPos[e])

\* No receipt for the stored hash: the stored bytes are sent once more.
Rebroadcast(e) ==
    LET t == <<e, exTx[e]>> IN
    /\ Recoverable(e)
    /\ chain[t] = "signed"
    /\ chain' = [chain EXCEPT ![t] = "pending"]
    /\ UNCHANGED <<posVars, exVars, jobs, wVars, venue, target, overlooked, rec,
                   foreign>>

\* The open trade the snapshot names for a record that carries venue id v.
Snapshot(v, t) ==
    IF v # NULL THEN t = (IF venue[v] = "open" THEN v ELSE NULL)
    ELSE IF OpenTrades = {} THEN t = NULL ELSE t \in OpenTrades

\* recover_execution: a receipt and the snapshot after it, or no receipt yet
\* (bytes no route accepts raise instead, and the scan moves on).
RecoverRead(e, seen) ==
    LET k == exTx[e] IN
    /\ rec = NoRecovery
    /\ Recoverable(e)
    /\ IF chain[<<e, k>>] \in Mined
       THEN /\ Snapshot(posVenueId[exPos[e]], seen)
            /\ rec' = [exec |-> e, tx |-> k, status |-> chain[<<e, k>>], seen |-> seen]
       ELSE /\ chain[<<e, k>>] = "pending"
            /\ seen = NULL
            /\ rec' = [exec |-> e, tx |-> k, status |-> "none", seen |-> NULL]
    /\ UNCHANGED <<posVars, exVars, jobs, wVars, venueVars, foreign>>

\* apply_execution_recovery: the outcomes, one per branch of the function.
RecoveredUnknown(e, p) ==
    /\ rec.status = "none"
    /\ MoveExecution(e, "UNKNOWN")
    /\ IF Terminal(p) THEN UNCHANGED posStatus ELSE MovePosition(p, "UNKNOWN")
    /\ UNCHANGED <<exTx, posVenueId, posReason, foreign>>

RecoveredReverted(e, p) ==
    /\ rec.status = "reverted"
    /\ exTx' = [exTx EXCEPT ![e] = rec.tx]
    /\ MoveExecution(e, "FAILED")
    /\ IF Terminal(p) THEN UNCHANGED posStatus
       ELSE MovePosition(p, IF exAction[e] = "OPEN" THEN "CLOSED" ELSE "OPEN")
    /\ UNCHANGED <<posVenueId, posReason, foreign>>

RecoveredOpen(e, p) ==
    /\ rec.status = "confirmed"
    /\ exAction[e] = "OPEN" /\ rec.seen # NULL
    /\ exTx' = [exTx EXCEPT ![e] = rec.tx]
    /\ MoveExecution(e, "VENUE_EXECUTED")
    /\ IF Terminal(p) THEN UNCHANGED posStatus ELSE MovePosition(p, "OPEN")
    /\ posVenueId' = [posVenueId EXCEPT ![p] = rec.seen]
    /\ foreign' = [foreign EXCEPT ![p] = @ \/ ~Own(p, rec.seen)]
    /\ UNCHANGED posReason

\* Faulty form: a confirmed close transaction counts as a closed trade.
RecoveredCloseEarly(e, p) ==
    /\ rec.status = "confirmed"
    /\ exAction[e] = "CLOSE"
    /\ exTx' = [exTx EXCEPT ![e] = rec.tx]
    /\ MoveExecution(e, "VENUE_EXECUTED")
    /\ IF Terminal(p) THEN UNCHANGED posStatus ELSE MovePosition(p, "CLOSED")
    /\ posReason' = [posReason EXCEPT ![p] = "recovered_close"]
    /\ UNCHANGED <<posVenueId, foreign>>

RecoveredClose(e, p) ==
    /\ rec.status = "confirmed"
    /\ exAction[e] = "CLOSE" /\ rec.seen = NULL
    /\ exTx' = [exTx EXCEPT ![e] = rec.tx]
    /\ MoveExecution(e, "VENUE_EXECUTED")
    /\ IF Terminal(p) THEN UNCHANGED posStatus ELSE MovePosition(p, "CLOSED")
    /\ posReason' = [posReason EXCEPT ![p] = "recovered_close"]
    /\ UNCHANGED <<posVenueId, foreign>>

\* Faulty form: a mined transaction counts as an executed order.
RecoveredExecuted(e, p) ==
    /\ rec.status = "confirmed"
    /\ exAction[e] = "OPEN" <=> rec.seen = NULL
    /\ exTx' = [exTx EXCEPT ![e] = rec.tx]
    /\ MoveExecution(e, "VENUE_EXECUTED")
    /\ IF Terminal(p) THEN UNCHANGED posStatus
       ELSE MovePosition(p, IF exAction[e] = "OPEN" THEN "OPENING" ELSE "CLOSING")
    /\ UNCHANGED <<posVenueId, posReason, foreign>>

RecoveredAwaiting(e, p) ==
    /\ rec.status = "confirmed"
    /\ exAction[e] = "OPEN" <=> rec.seen = NULL
    /\ exTx' = [exTx EXCEPT ![e] = rec.tx]
    /\ MoveExecution(e, IF Terminal(p) THEN "VENUE_EXECUTED" ELSE "AWAITING")
    /\ IF Terminal(p) THEN UNCHANGED posStatus
       ELSE MovePosition(p, IF exAction[e] = "OPEN" THEN "OPENING" ELSE "CLOSING")
    /\ UNCHANGED <<posVenueId, posReason, foreign>>

RecoverApply ==
    LET e == rec.exec
        p == exPos[e] IN
    /\ rec # NoRecovery
    /\ exStatus[e] \notin ResolvedStatus
    /\ \/ RecoveredUnknown(e, p)
       \/ RecoveredReverted(e, p)
       \/ RecoveredOpen(e, p)
       \/ RecoveredClose(e, p)
       \/ RecoveredAwaiting(e, p)
    /\ rec' = NoRecovery
    /\ UNCHANGED <<exAction, exPos, jobs, wVars, venueVars>>

\* Already resolved, a status the tables refuse, or a crash: logged, no write.
RecoverAbandon ==
    /\ rec # NoRecovery
    /\ rec' = NoRecovery
    /\ UNCHANGED <<posVars, exVars, jobs, wVars, venueVars, foreign>>

-----------------------------------------------------------------------------
(* The venue-events process.  The log of the last blocks is replayed when  *)
(* it starts and two streams carry every event, so the event of a finished *)
(* trade may arrive late, again, or never.                                 *)

\* The on-chain log names the order type; the backend stream only the fact.
EventReasons(t) ==
    {CASE venue[t] = "closed" -> "manual_close"
       [] venue[t] = "stopped" -> "stop_loss"
       [] venue[t] = "liquidated" -> "liquidation",
     "external_close"}

\* The newest record that carries the trade's id, else the only active one.
Matches(t) == {p \in Pos : posVenueId[p] = t}
Candidates == {p \in Pos : Active(p)}
Correlated(t, p) ==
    IF Matches(t) # {}
    THEN p \in Matches(t) /\ \A q \in Matches(t) : q <= p
    ELSE Candidates = {p}

ApplyEvent(t, reason, p) ==
    /\ venue[t] \in Gone
    /\ reason \in EventReasons(t)
    /\ Correlated(t, p)
    /\ posVenueId' = [posVenueId EXCEPT ![p] = t]
    /\ foreign' = [foreign EXCEPT ![p] = @ \/ ~Own(p, t)]
    /\ IF ReasonRank(reason) >= ReasonRank(posReason[p])
       THEN /\ IF posStatus[p] = "LIQUIDATED" THEN UNCHANGED posStatus
               ELSE MovePosition(p, IF reason = "liquidation" THEN "LIQUIDATED" ELSE "CLOSED")
            /\ posReason' = [posReason EXCEPT ![p] = reason]
       ELSE UNCHANGED <<posStatus, posReason>>
    /\ UNCHANGED <<exVars, jobs, wVars, venueVars, rec>>

-----------------------------------------------------------------------------
Next ==
    \/ \E p \in Pos, e \in Exec : AcceptOpen(p, e)
    \/ \E p \in Pos, e \in Exec : AcceptClose(p, e)
    \/ \E e \in Exec : ReleaseStaleClaim(e) \/ Redispatch(e) \/ Rebroadcast(e)
    \/ \E w \in Worker, e \in Exec : Claim(w, e)
    \/ \E w \in Worker : WorkerStep(w)
    \/ \E w \in Worker : Crash(w)
    \/ \E t \in Tx : NonceTaken(t) \/ VenueStep(t) \/ VenueEnds(t)
    \/ \E e \in Exec, seen \in Tx \union {NULL} : RecoverRead(e, seen)
    \/ RecoverApply
    \/ RecoverAbandon
    \/ \E t \in Tx, reason \in TerminalReason, p \in Pos : ApplyEvent(t, reason, p)

Spec == Init /\ [][Next]_vars

\* The loops and threads keep running, the chain mines what it accepted and the
\* keeper serves every order.  A pass of the recovery loop may fail, but not
\* always at the same point.  Users, crashes, nonce races, stop losses and the
\* events process owe nothing: an event may be lost for good.
Fairness ==
    /\ \A e \in Exec :
        /\ WF_vars(ReleaseStaleClaim(e))
        /\ WF_vars(Redispatch(e))
        /\ WF_vars(Rebroadcast(e))
        /\ WF_vars(\E w \in Worker : Claim(w, e))
        /\ SF_vars(\E seen \in Tx \union {NULL} : RecoverRead(e, seen))
        /\ SF_vars(rec.exec = e /\ RecoverApply)
    /\ WF_vars(RecoverApply \/ RecoverAbandon)
    /\ \A w \in Worker : WF_vars(WorkerStep(w))
    /\ \A t \in Tx : WF_vars(VenueStep(t))

FairSpec == Spec /\ Fairness

\* The same when no event of the venue is lost.
DeliveredSpec ==
    /\ FairSpec
    /\ \A t \in Tx :
        WF_vars(\E reason \in TerminalReason, p \in Pos : ApplyEvent(t, reason, p))

-----------------------------------------------------------------------------
(* Safety.                                                                 *)

\* The recovery loop looks the stored hash up and nothing else.  What else was
\* signed for an attempt is dead; unless the retry of the worker overlooked a
\* mined transaction, and then there are these two and never a third.
TxIsRecorded ==
    \A e \in Exec, k \in 1 .. MaxTx : chain[<<e, k>>] \notin {"none", "dead"} =>
        \/ exTx[e] = k
        \/ e \in overlooked /\ k \in 1 .. 2 /\ chain[<<e, 1>>] \in Mined

\* Why TxIsRecorded holds: one thread works on an attempt, it knows the stored
\* hash, nothing is signed before the row says so, what the recovery loop
\* carries between its read and its write can no longer be replaced by a clean
\* retry, and there is one retry: a third transaction is never signed.
OneWorkerPerAttempt ==
    \A v, w \in Worker : wExec[v] # NULL /\ wExec[v] = wExec[w] => v = w

WorkerMatchesRow ==
    \A w \in Worker : wPc[w] # "idle" =>
        /\ exStatus[wExec[w]] \notin {"NONE", "CREATED"}
        /\ wPc[w] = "claimed" <=> exStatus[wExec[w]] = "CLAIMED"
        /\ wPc[w] \in {"signed", "sent"} =>
            wTx[w] # 0 /\ (exTx[wExec[w]] = wTx[w] \/ wExec[w] \in overlooked)

SignedIsStored ==
    \A e \in Exec :
        /\ exStatus[e] \in {"NONE", "CREATED", "CLAIMED"} => exTx[e] = 0
        /\ \A k \in 1 .. MaxTx : chain[<<e, k>>] # "none" => exTx[e] # 0

OneRetry ==
    /\ \A e \in Exec, k \in 1 .. MaxTx : chain[<<e, k>>] # "none" => k <= 2
    /\ \A e \in overlooked : chain[<<e, 1>>] \in Mined
    /\ \A w \in Worker : wPc[w] = "signed" /\ ~wRetried[w] =>
        /\ \A k \in 1 .. MaxTx : chain[<<wExec[w], k>>] # "none" => k = 1
        /\ wExec[w] \notin overlooked

RecoveryKnowsFate ==
    rec.exec # NULL =>
        /\ rec.tx # 0
        /\ chain[<<rec.exec, rec.tx>>] \in Mined \union {"pending"}
        /\ rec.status \in Mined => chain[<<rec.exec, rec.tx>>] = rec.status

AttemptInv ==
    /\ OneWorkerPerAttempt
    /\ WorkerMatchesRow
    /\ SignedIsStored
    /\ TxIsRecorded
    /\ OneRetry
    /\ RecoveryKnowsFate

\* An attempt is FAILED only when nothing it signed had or can have an effect:
\* no error path of the worker or of the recovery writes off a live order.  Only
\* an attempt whose retry overlooked a mined transaction may fail beside one.
FailedHasNoEffect ==
    \A e \in Exec \ overlooked : exStatus[e] = "FAILED" =>
        \A k \in 1 .. MaxTx : chain[<<e, k>>] \in {"none", "dead", "reverted"}

\* accept_open looks at the active positions once; no handler that runs later
\* (results, failures, recovery, events) revives a position beside a new one.
OneActivePosition ==
    \A p, q \in Pos : Active(p) /\ Active(q) => p = q

\* An executed attempt is visible in its position: an executed open left a
\* venue id or the position is over, an executed close ended the position.
ExecutedIsSettled ==
    \A e \in Exec : exStatus[e] = "VENUE_EXECUTED" =>
        \/ Terminal(exPos[e])
        \/ exAction[e] = "OPEN" /\ posVenueId[exPos[e]] # NULL

\* A position is recorded as over while its own order can still open, or its
\* own trade is open, only after it was tied to a trade that is not its own, or
\* because the retry of its open overlooked the first transaction.
OrphanNeedsForeign ==
    \A p \in Pos, t \in Tx :
        Terminal(p) /\ ~foreign[p] /\ Own(p, t) /\ t[1] \notin overlooked =>
            chain[t] \in {"none", "dead", "reverted"} \/ venue[t] \in Gone

\* A position that is over stays over, a liquidation stays one, and the outcome
\* of an attempt, once settled, is never rewritten by a slower writer.
OutcomesAreFinal ==
    [][ /\ \A p \in Pos :
            /\ Terminal(p) => Terminal(p)'
            /\ posStatus[p] = "LIQUIDATED" => posStatus'[p] = "LIQUIDATED"
        /\ \A e \in Exec : exStatus[e] \in FinalStatus => exStatus'[e] = exStatus[e] ]_vars

\* The whole is an implementation of the command that takes effect once, or
\* twice if a retry was signed in doubt.
Effect == [e \in Exec |-> {k \in 1 .. MaxTx : chain[<<e, k>>] = "confirmed"}]
Promise == INSTANCE TradeCommand WITH
    Command <- Exec,
    Number <- 1 .. MaxTx,
    accepted <- {e \in Exec : exStatus[e] # "NONE"},
    refused <- {e \in Exec : exStatus[e] = "FAILED"},
    doubtful <- overlooked,
    effect <- Effect

\* An accepted command takes effect at most once, by one transaction, and never
\* beside a report that it failed.  A command whose retry overlooked a mined
\* transaction is not refused by then, takes effect twice at most, and is the
\* only one whose report may be wrong.
CommandPromise == Promise!CommandSpec

-----------------------------------------------------------------------------
(* Liveness, under FairSpec.                                               *)

\* A command the API accepted is signed, refused or failed in the end, whether
\* its job was lost or the worker that claimed it died.
AcceptedIsHandled ==
    \A e \in Exec :
        exStatus[e] \in {"CREATED", "CLAIMED"} ~> exStatus[e] \notin {"CREATED", "CLAIMED"}

\* The close of a trade that really closed ends the record, with no event of
\* the venue, whatever happened to the worker that sent it; if no retry replaced
\* its hash while it was mined.
ConfirmedCloseIsRecorded ==
    \A t \in Tx, p \in Pos :
        (/\ exAction[t[1]] = "CLOSE" /\ exPos[t[1]] = p
         /\ chain[t] = "confirmed" /\ venue[target[t]] \in Gone)
            ~> Terminal(p) \/ t[1] \in overlooked

-----------------------------------------------------------------------------
(* What the documents say and the code does not keep.                      *)

\* "one active close command [is] enforced at the API/store layer"
OneActiveClose ==
    \A p \in Pos, d, e \in Exec :
        /\ exAction[d] = "CLOSE" /\ exPos[d] = p /\ exStatus[d] \in InFlightStatus
        /\ exAction[e] = "CLOSE" /\ exPos[e] = p /\ exStatus[e] \in InFlightStatus
        => d = e

\* "A stale claim has done no economic work and is safe to release."  The retry
\* over a mined transaction, which needs no stale claim, is left out here.
OneEffectPerAttempt ==
    \A e \in Exec \ overlooked, j, k \in 1 .. MaxTx :
        chain[<<e, j>>] = "confirmed" /\ chain[<<e, k>>] = "confirmed" => j = k

\* "zero false closed states"
NoFalseClose ==
    \A p \in Pos, t \in Tx : Terminal(p) /\ Own(p, t) => venue[t] # "open"

\* "stale opening/closing positions" are watched and reconciled in the end.
OpeningIsResolved ==
    \A p \in Pos : posStatus[p] = "OPENING" ~> posStatus[p] # "OPENING"
=============================================================================
