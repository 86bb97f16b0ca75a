--------------------------- MODULE WalletPayments ---------------------------
(***************************************************************************)
(* The payments the worker signs on Arbitrum: withdrawals and sweeps from  *)
(* the user's wallet, gas top-ups from the platform's wallet.  A payment is *)
(* a row that keeps the one transaction signed for it; the threads of the  *)
(* worker sign, send, wait and record, and the nonces of a sender come     *)
(* from EvmNonceCoordinator, whose cache and locks live in the process.    *)
(*                                                                         *)
(* From tick_mvp/wallets/service.py, repository.py, arbitrum.py, gas.py,   *)
(* gas_repository.py, gas_sweep_repository.py and                          *)
(* tick_mvp/infrastructure/evm_nonce.py, arbitrum_broadcast.py.            *)
(***************************************************************************)
EXTENDS Integers, FiniteSets

CONSTANTS
  Payment,    \* the rows of withdrawals, gas_topups and gas_sweeps
  Slot,       \* runs of one payment that may overlap
  MaxJobs,    \* jobs the worker runs at a time, arq_max_jobs
  Fee,        \* fee parameters a transaction may be signed with
  MaxNonce    \* bound: no nonce at or above it is signed

ASSUME MaxNonceIsNat == MaxNonce \in Nat

VARIABLES
  kind,       \* [Payment -> Kind], fixed
  status,     \* [Payment -> Status], the rows' status
  stored,     \* [Payment -> SUBSET Tx], the signed transaction of the row, at most one
  pc,         \* [Thread -> place], where each thread is
  hand,       \* [Thread -> SUBSET Tx], the transaction the thread has in hand
  next,       \* [Sender -> Nat or Unread], _next_nonce
  latest,     \* [Sender -> Nat], the chain's next nonce
  pool,       \* transactions accepted by a route and not yet on chain
  mined, reverted,   \* transactions on chain; the ones among them that failed
  position,   \* the user's active position: "none", "live" or "demo"
  dropped     \* [Sender -> BOOLEAN], history: the nonce cache was ever dropped

rows   == <<kind, status, stored>>
threads == <<pc, hand>>
chain  == <<latest, pool, mined, reverted>>
vars   == <<rows, threads, next, chain, position, dropped>>

Kind   == {"withdrawal", "topup", "sweep"}
Status == {"none", "requested", "created", "signed", "broadcast", "unknown",
           "confirmed", "failed"}
\* Faulty form: UNKNOWN does not count as active.
ActiveButUnknown == Status \ {"none", "confirmed", "failed", "unknown"}
Active == Status \ {"none", "confirmed", "failed"}
Sender == {"user", "platform"}
Unread == -1
Tx     == [payment : Payment, nonce : Nat, fee : Fee]

\* The wallet that signs: gas comes from the platform, the rest from the user.
SenderOf(p) == IF kind[p] = "topup" THEN "platform" ELSE "user"
TxSender(tx) == SenderOf(tx.payment)

\* A thread is one run of the worker over a payment.
Thread == Payment \X Slot
Job(t) == t[1]
Running == {t \in Thread : pc[t] # "idle"}

Withdrawals == {p \in Payment : kind[p] = "withdrawal"}
Pending(p)  == status[p] \in Active

\* sender_lock is held from the reservation of a nonce, or the observation of a
\* stored one, until mark_broadcast has returned.
InLock(t, s)  == pc[t] \in {"send", "sent"} /\ SenderOf(Job(t)) = s
LockFree(s)   == \A t \in Thread : ~InLock(t, s)

-----------------------------------------------------------------------------
(* EvmNonceCoordinator *)

\* What get_transaction_count(sender, "pending") may answer: the node may or may
\* not have seen the transactions that are accepted and not yet on chain.
PendingCounts(s) ==
  {n \in latest[s]..MaxNonce :
     \A m \in latest[s]..(n - 1) : \E tx \in pool : TxSender(tx) = s /\ tx.nonce = m}

\* Faulty form: the reserved nonce is handed out again.
ReserveUncounted(s, n) == next' = [next EXCEPT ![s] = n]
\* Faulty form: a failed send keeps the cached nonce.
KeepCache(s) == UNCHANGED next /\ dropped' = [dropped EXCEPT ![s] = TRUE]

Reservable(s) == IF next[s] = Unread THEN PendingCounts(s) ELSE {next[s]}

Reserve(s, n) == next' = [next EXCEPT ![s] = n + 1]

Advance(s, n) == next' = [next EXCEPT ![s] = IF @ < n THEN n ELSE @]

Invalidate(s) ==
  /\ next' = [next EXCEPT ![s] = Unread]
  /\ dropped' = [dropped EXCEPT ![s] = TRUE]

\* The cache is warmed from the chain when a wallet is prepared.
Warm(s) ==
  /\ LockFree(s)
  /\ \E n \in PendingCounts(s) : n > next[s] /\ Advance(s, n)
  /\ UNCHANGED <<rows, threads, chain, position, dropped>>

-----------------------------------------------------------------------------
(* The rows, as the API and the worker create and load them *)

NoWithdrawalPending == \A p \in Withdrawals : ~Pending(p)

RequestWithdrawal(p) ==
  /\ kind[p] = "withdrawal" /\ status[p] = "none"
  /\ position = "none" /\ NoWithdrawalPending
  /\ status' = [status EXCEPT ![p] = "requested"]
  /\ UNCHANGED <<kind, stored, threads, next, chain, position, dropped>>

\* A demo open does not look at the withdrawals of the live account.
OpenPosition(mode) ==
  /\ position = "none"
  /\ mode = "live" => NoWithdrawalPending
  /\ position' = mode
  /\ UNCHANGED <<rows, threads, next, chain, dropped>>

ClosePosition ==
  /\ position # "none"
  /\ position' = "none"
  /\ UNCHANGED <<rows, threads, next, chain, dropped>>

Start(t) == pc[t] = "idle" /\ Cardinality(Running) < MaxJobs

Load(t) ==
  /\ pc' = [pc EXCEPT ![t] = "ready"]
  /\ hand' = [hand EXCEPT ![t] = stored[Job(t)]]

\* Faulty form: a settled withdrawal runs again.
LoadAny(t) ==
  LET p == Job(t) IN
  /\ Start(t) /\ kind[p] = "withdrawal" /\ status[p] # "none"
  /\ \A u \in Running : Job(u) # p
  /\ status' = [status EXCEPT ![p] = IF @ = "requested" THEN "created" ELSE @]
  /\ Load(t)
  /\ UNCHANGED <<kind, stored, next, chain, position, dropped>>

\* Faulty form: a withdrawal runs in two jobs, and the position is not looked at.
LoadBeside(t) ==
  LET p == Job(t) IN
  /\ Start(t) /\ kind[p] = "withdrawal" /\ Pending(p)
  /\ status' = [status EXCEPT ![p] = IF @ = "requested" THEN "created" ELSE @]
  /\ Load(t)
  /\ UNCHANGED <<kind, stored, next, chain, position, dropped>>

\* A withdrawal runs as one job at a time (its job id is the row's id).
LoadWithdrawal(t) ==
  LET p == Job(t) IN
  /\ Start(t) /\ kind[p] = "withdrawal" /\ Pending(p)
  /\ \A u \in Running : Job(u) # p
  /\ IF status[p] = "requested" /\ position # "none"
       THEN /\ status' = [status EXCEPT ![p] = "failed"]
            /\ UNCHANGED threads
       ELSE /\ status' = [status EXCEPT ![p] = IF @ = "requested" THEN "created" ELSE @]
            /\ Load(t)
  /\ UNCHANGED <<kind, stored, next, chain, position, dropped>>

\* ensure_funded and reclaim_excess run in any number of jobs: each loads the
\* active row of the wallet, or creates one.
LoadOrCreate(t) ==
  LET p == Job(t) IN
  /\ Start(t) /\ kind[p] # "withdrawal"
  /\ \/ Pending(p) /\ UNCHANGED status
     \/ /\ status[p] = "none"
        /\ kind[p] = "sweep" =>
             \A q \in Payment : kind[q] = "sweep" => ~Pending(q)
        /\ status' = [status EXCEPT ![p] = "created"]
  /\ Load(t)
  /\ UNCHANGED <<kind, stored, next, chain, position, dropped>>

-----------------------------------------------------------------------------
(* transfer and sweep *)

Goto(t, place) == pc' = [pc EXCEPT ![t] = place]

\* Faulty form: a second transaction replaces the stored one.
MarkSignedOver(p, tx) ==
  /\ stored' = [stored EXCEPT ![p] = {tx}]
  /\ status' = [status EXCEPT ![p] = "signed"]

\* mark_signed refuses a second transaction for the row.
MarkSigned(p, tx) ==
  /\ stored[p] \subseteq {tx}
  /\ stored' = [stored EXCEPT ![p] = {tx}]
  /\ status' = [status EXCEPT ![p] = "signed"]

Sign(t) ==
  LET p == Job(t)  s == SenderOf(p) IN
  /\ pc[t] = "ready" /\ hand[t] = {} /\ LockFree(s)
  /\ \E n \in Reservable(s), f \in Fee :
       LET tx == [payment |-> p, nonce |-> n, fee |-> f] IN
       /\ n < MaxNonce
       /\ \/ /\ MarkSigned(p, tx)
             /\ Reserve(s, n)
             /\ hand' = [hand EXCEPT ![t] = {tx}]
             /\ Goto(t, "send")
             /\ UNCHANGED dropped
          \/ /\ ~(stored[p] \subseteq {tx})
             /\ Invalidate(s)
             /\ Goto(t, "failing")
             /\ UNCHANGED <<stored, status, hand>>
  /\ UNCHANGED <<kind, chain, position>>

\* A failed read, or a balance that does not cover the payment: only a
\* withdrawal is rejected for it.
PrepareFails(t) ==
  LET p == Job(t) IN
  /\ pc[t] = "ready" /\ hand[t] = {} /\ LockFree(SenderOf(p))
  /\ Invalidate(SenderOf(p))
  /\ \/ Goto(t, "failing")
     \/ kind[p] = "withdrawal" /\ Goto(t, "rejected")
  /\ UNCHANGED <<rows, hand, chain, position>>

\* A stored transaction is sent again as it is.
Resume(t) ==
  LET s == SenderOf(Job(t)) IN
  /\ pc[t] = "ready" /\ LockFree(s)
  /\ \E tx \in hand[t] : Advance(s, tx.nonce + 1)
  /\ Goto(t, "send")
  /\ UNCHANGED <<rows, hand, chain, position, dropped>>

\* A sweep asks for the receipt of its stored transaction first.
RecoverByHash(t) ==
  /\ pc[t] = "ready" /\ kind[Job(t)] = "sweep"
  /\ hand[t] \cap mined # {}
  /\ Goto(t, "await")
  /\ UNCHANGED <<rows, hand, next, chain, position, dropped>>

\* DualBroadcaster: accepted if a route takes the bytes, or if the chain knows
\* the hash after both refused.
SendAccepted(t, tx) ==
  /\ tx \in mined \/ tx.nonce >= latest[TxSender(tx)]
  /\ pool' = IF tx \in mined THEN pool ELSE pool \cup {tx}
  /\ Goto(t, "sent")
  /\ UNCHANGED <<next, dropped>>

\* Both routes fail and the hash is not found: nothing was sent, or the answers
\* and the lookup were lost.
SendFails(t, tx) ==
  /\ \/ UNCHANGED pool
     \/ tx.nonce >= latest[TxSender(tx)] /\ pool' = pool \cup {tx}
  /\ Invalidate(TxSender(tx))
  /\ \/ Goto(t, "failing")
     \/ /\ kind[tx.payment] # "withdrawal"
        /\ tx.nonce < latest[TxSender(tx)]
        /\ Goto(t, "stale")
     \/ /\ kind[tx.payment] = "sweep"
        /\ tx \in mined
        /\ Goto(t, "await")

Send(t) ==
  /\ pc[t] = "send"
  /\ \E tx \in hand[t] : SendAccepted(t, tx) \/ SendFails(t, tx)
  /\ UNCHANGED <<rows, hand, latest, mined, reverted, position>>

MarkBroadcast(t) ==
  /\ pc[t] = "sent"
  /\ stored[Job(t)] = hand[t]
  /\ status' = [status EXCEPT ![Job(t)] = "broadcast"]
  /\ Goto(t, "await")
  /\ UNCHANGED <<kind, stored, hand, next, chain, position, dropped>>

-----------------------------------------------------------------------------
(* What the thread writes at the end of its run *)

Finish(t, p, s) ==
  /\ status' = [status EXCEPT ![p] = s]
  /\ Goto(t, "idle")
  /\ hand' = [hand EXCEPT ![t] = {}]
  /\ UNCHANGED <<kind, stored, next, chain, position, dropped>>

\* Faulty form: the receipt's status is not looked at.
RecordAny(t) ==
  /\ pc[t] = "await"
  /\ hand[t] \cap stored[Job(t)] \cap mined # {}
  /\ Finish(t, Job(t), "confirmed")

\* mark_confirmed and mark_reverted require the row's hash.
Record(t) ==
  /\ pc[t] = "await"
  /\ \E tx \in hand[t] \cap stored[Job(t)] \cap mined :
       Finish(t, Job(t), IF tx \in reverted THEN "failed" ELSE "confirmed")

ReceiptTimeout(t) ==
  /\ pc[t] = "await"
  /\ Goto(t, "failing")
  /\ UNCHANGED <<rows, hand, next, chain, position, dropped>>

\* Faulty form: a status rows of this kind do not have.
RetryableValidated(p) == IF stored[p] = {} THEN "validated" ELSE "unknown"
RetryableStatus(p) == IF stored[p] = {} THEN "created" ELSE "unknown"

\* mark_retryable_error looks at the row's hash and not at its status.
MarkRetryable(t) ==
  /\ pc[t] = "failing"
  /\ Finish(t, Job(t), RetryableStatus(Job(t)))

MarkRejected(t) ==
  /\ pc[t] = "rejected"
  /\ Finish(t, Job(t), "failed")

MarkSuperseded(t) ==
  /\ pc[t] = "stale" /\ stored[Job(t)] = hand[t]
  /\ Finish(t, Job(t), "failed")

-----------------------------------------------------------------------------
(* The chain, and the end of the process *)

Mine(tx) ==
  LET s == TxSender(tx) IN
  /\ tx \in pool /\ tx.nonce = latest[s]
  /\ latest' = [latest EXCEPT ![s] = @ + 1]
  /\ pool' = {u \in pool : TxSender(u) = s => u.nonce > tx.nonce}
  /\ mined' = mined \cup {tx}
  /\ reverted' \in {reverted, reverted \cup {tx}}
  /\ UNCHANGED <<rows, threads, next, position, dropped>>

Crash ==
  /\ Running # {}
  /\ pc' = [t \in Thread |-> "idle"]
  /\ hand' = [t \in Thread |-> {}]
  /\ next' = [s \in Sender |-> Unread]
  /\ dropped' = [s \in Sender |-> TRUE]
  /\ UNCHANGED <<rows, chain, position>>

Init ==
  /\ kind \in [Payment -> Kind]
  /\ status = [p \in Payment |-> "none"]
  /\ stored = [p \in Payment |-> {}]
  /\ pc = [t \in Thread |-> "idle"]
  /\ hand = [t \in Thread |-> {}]
  /\ next = [s \in Sender |-> Unread]
  /\ latest = [s \in Sender |-> 0]
  /\ pool = {} /\ mined = {} /\ reverted = {}
  /\ position = "none"
  /\ dropped = [s \in Sender |-> FALSE]

ThreadStep(t) ==
  \/ Sign(t) \/ PrepareFails(t) \/ Resume(t) \/ RecoverByHash(t)
  \/ Send(t) \/ MarkBroadcast(t)
  \/ Record(t) \/ ReceiptTimeout(t)
  \/ MarkRetryable(t) \/ MarkRejected(t) \/ MarkSuperseded(t)

Next ==
  \/ \E s \in Sender : Warm(s)
  \/ \E p \in Payment : RequestWithdrawal(p)
  \/ \E m \in {"live", "demo"} : OpenPosition(m)
  \/ ClosePosition
  \/ \E t \in Thread : LoadWithdrawal(t) \/ LoadOrCreate(t) \/ ThreadStep(t)
  \/ \E tx \in pool : Mine(tx)
  \/ Crash

Spec == Init /\ [][Next]_vars

-----------------------------------------------------------------------------
TypeOK ==
  /\ kind \in [Payment -> Kind]
  /\ status \in [Payment -> Status]
  /\ stored \in [Payment -> SUBSET Tx]
  /\ pc \in [Thread -> {"idle", "ready", "send", "sent", "await", "failing",
                        "rejected", "stale"}]
  /\ hand \in [Thread -> SUBSET Tx]
  /\ next \in [Sender -> Nat \cup {Unread}]
  /\ latest \in [Sender -> Nat]
  /\ pool \subseteq Tx /\ mined \subseteq Tx /\ reverted \subseteq mined
  /\ position \in {"none", "live", "demo"}
  /\ dropped \in [Sender -> BOOLEAN]

\* A transaction is stored before it can be sent: whatever a route accepted or
\* the chain executed is the transaction of its row, also after a crash, a
\* lost answer or the overlap of two threads on one row.
StoredBeforeSent == \A tx \in pool \cup mined : stored[tx.payment] = {tx}

\* No payment is executed twice.
PaidOnce == \A x, y \in mined : x.payment = y.payment => x = y

\* A row is CONFIRMED only over a transaction of its own that succeeded.
ConfirmedIsPaid ==
  \A p \in Payment : status[p] = "confirmed" =>
    \E tx \in mined \ reverted : tx.payment = p

\* A withdrawal the user sees as failed did not take the money and never will.
FailedWithdrawalIsHarmless ==
  \A p \in Withdrawals : status[p] = "failed" =>
    \A tx \in pool \cup (mined \ reverted) : tx.payment # p

\* Nonces are handed out without a gap: every nonce below an accepted
\* transaction is on chain or accepted too, so nothing waits for a nonce that
\* was reserved and never used.
NoNonceGap ==
  \A tx \in pool : \A n \in latest[TxSender(tx)]..(tx.nonce - 1) :
    \E u \in pool : TxSender(u) = TxSender(tx) /\ u.nonce = n

\* As long as the cache of a sender was never dropped, a signed payment does not
\* lose its nonce to another one.
NonceKept ==
  \A p \in Payment : \A tx \in stored[p] \ mined :
    tx.nonce < latest[TxSender(tx)] => dropped[TxSender(tx)]

\* No live position is opened while a withdrawal is pending, and none of the
\* worker's writes revives a withdrawal beside a live position.
NoLivePositionBesideWithdrawal ==
  position = "live" =>
    \A p \in Withdrawals : status[p] \in {"none", "confirmed", "failed"}

\* The end of a withdrawal is final.
WithdrawalSettlesOnce ==
  [][\A p \in Withdrawals :
       status[p] \in {"confirmed", "failed"} => status'[p] = status[p]]_vars
=============================================================================
