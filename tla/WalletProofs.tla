---------------------------- MODULE WalletProofs ----------------------------
(***************************************************************************)
(* Theorems about WalletPayments, for any payments, fees and bounds.        *)
(***************************************************************************)
EXTENDS WalletPayments, TLAPS

USE MaxNonceIsNat

LEMMA SenderIsTyped ==
  ASSUME TypeOK, NEW p \in Payment
  PROVE  SenderOf(p) \in Sender
  BY DEF SenderOf, Sender

LEMMA ReservableIsNat ==
  ASSUME TypeOK, NEW s \in Sender
  PROVE  /\ PendingCounts(s) \subseteq Nat
         /\ Reservable(s) \subseteq Nat \cup {Unread}
         /\ next[s] # Unread => Reservable(s) \subseteq Nat
         /\ Reservable(s) \subseteq Nat
  BY DEF TypeOK, PendingCounts, Reservable, Unread

LEMMA InitTyped == Init => TypeOK
  BY DEF Init, TypeOK, Status, Sender, Unread, Thread, Kind

LEMMA StepTyped == TypeOK /\ [Next]_vars => TypeOK'
<1> SUFFICES ASSUME TypeOK, [Next]_vars PROVE TypeOK'
  OBVIOUS
<1> USE DEF TypeOK, rows, threads, chain, Goto
<1>1. CASE UNCHANGED vars
  BY <1>1 DEF vars
<1>2. ASSUME NEW s \in Sender, Warm(s) PROVE TypeOK'
  BY <1>2, ReservableIsNat DEF Warm, Advance
<1>3. ASSUME NEW p \in Payment, RequestWithdrawal(p) PROVE TypeOK'
  BY <1>3 DEF RequestWithdrawal, Status
<1>4. ASSUME NEW m \in {"live", "demo"}, OpenPosition(m) PROVE TypeOK'
  BY <1>4 DEF OpenPosition
<1>5. CASE ClosePosition
  BY <1>5 DEF ClosePosition
<1>6. ASSUME NEW t \in Thread, LoadWithdrawal(t) PROVE TypeOK'
  BY <1>6 DEF LoadWithdrawal, Load, Start, Status, Thread, Job
<1>7. ASSUME NEW t \in Thread, LoadOrCreate(t) PROVE TypeOK'
  BY <1>7 DEF LoadOrCreate, Load, Start, Status, Thread, Job
<1>8. ASSUME NEW t \in Thread, ThreadStep(t) PROVE TypeOK'
  <2> Job(t) \in Payment
    BY DEF Job, Thread
  <2> SenderOf(Job(t)) \in Sender
    BY SenderIsTyped
  <2>1. CASE Sign(t)
    <3> PICK n \in Reservable(SenderOf(Job(t))), f \in Fee : 
          LET p == Job(t)  s == SenderOf(p)
              tx == [payment |-> p, nonce |-> n, fee |-> f] IN
          \/ /\ MarkSigned(p, tx) /\ Reserve(s, n)
             /\ hand' = [hand EXCEPT ![t] = {tx}]
             /\ Goto(t, "send") /\ UNCHANGED dropped
          \/ /\ Invalidate(s) /\ Goto(t, "failing")
             /\ UNCHANGED <<stored, status, hand>>
      BY <2>1 DEF Sign
    <3> n \in Nat
      BY ReservableIsNat
    <3> UNCHANGED <<kind, latest, pool, mined, reverted, position>>
      BY <2>1 DEF Sign
    <3> DEFINE tx == [payment |-> Job(t), nonce |-> n, fee |-> f]
    <3> tx \in Tx
      BY DEF Tx
    <3> HIDE DEF tx
    <3>1. CASE MarkSigned(Job(t), tx) /\ Reserve(SenderOf(Job(t)), n)
               /\ hand' = [hand EXCEPT ![t] = {tx}] /\ Goto(t, "send") /\ UNCHANGED dropped
      BY <3>1 DEF MarkSigned, Reserve, Status
    <3>2. CASE Invalidate(SenderOf(Job(t))) /\ Goto(t, "failing")
               /\ UNCHANGED <<stored, status, hand>>
      BY <3>2 DEF Invalidate
    <3> QED
      BY <3>1, <3>2 DEF tx
  <2>2. CASE PrepareFails(t)
    BY <2>2 DEF PrepareFails, Invalidate
  <2>3. CASE Resume(t)
    <3> PICK tx \in hand[t] : Advance(SenderOf(Job(t)), tx.nonce + 1)
      BY <2>3 DEF Resume
    <3> tx.nonce \in Nat
      BY DEF Tx
    <3> QED
      BY <2>3 DEF Resume, Advance
  <2>4. CASE RecoverByHash(t)
    BY <2>4 DEF RecoverByHash
  <2>5. CASE Send(t)
    <3> PICK tx \in hand[t] : SendAccepted(t, tx) \/ SendFails(t, tx)
      BY <2>5 DEF Send
    <3> tx \in Tx /\ TxSender(tx) \in Sender
      BY DEF Tx, TxSender, SenderOf, Sender
    <3> UNCHANGED <<kind, status, stored, hand, latest, mined, reverted, position>>
      BY <2>5 DEF Send
    <3>1. CASE SendAccepted(t, tx)
      BY <3>1 DEF SendAccepted
    <3>2. CASE SendFails(t, tx)
      BY <3>2 DEF SendFails, Invalidate
    <3> QED
      BY <3>1, <3>2
  <2>6. CASE MarkBroadcast(t)
    BY <2>6 DEF MarkBroadcast, Status
  <2>7. CASE Record(t)
    BY <2>7 DEF Record, Finish, Status
  <2>8. CASE ReceiptTimeout(t)
    BY <2>8 DEF ReceiptTimeout
  <2>9. CASE MarkRetryable(t)
    BY <2>9 DEF MarkRetryable, RetryableStatus, Finish, Status
  <2>10. CASE MarkRejected(t)
    BY <2>10 DEF MarkRejected, Finish, Status
  <2>11. CASE MarkSuperseded(t)
    BY <2>11 DEF MarkSuperseded, Finish, Status
  <2> QED
    BY <1>8, <2>1, <2>2, <2>3, <2>4, <2>5, <2>6, <2>7, <2>8, <2>9, <2>10, <2>11
    DEF ThreadStep
<1>9. ASSUME NEW tx \in pool, Mine(tx) PROVE TypeOK'
  BY <1>9 DEF Mine, Tx, TxSender, SenderOf, Sender
<1>10. CASE Crash
  BY <1>10 DEF Crash, Unread
<1> QED
  BY <1>1, <1>2, <1>3, <1>4, <1>5, <1>6, <1>7, <1>8, <1>9, <1>10 DEF Next

\* Every row, thread, nonce and transaction keeps its type, for any number of
\* payments and overlapping runs.
THEOREM PaymentTypeCorrect == Spec => []TypeOK
<1>1. Init => TypeOK
  BY InitTyped
<1>2. TypeOK /\ [Next]_vars => TypeOK'
  BY StepTyped
<1> QED
  BY <1>1, <1>2, PTL DEF Spec

-----------------------------------------------------------------------------
(* Payments: what is sent is what is stored *)

\* A row holds one transaction, made for it.
RowsHold ==
  \A p \in Payment : \A tx \in stored[p] : tx.payment = p /\ stored[p] = {tx}

\* What a thread sends, awaits and records is its row's transaction.
HandsHold ==
  \A t \in Thread : hand[t] # {} => hand[t] = stored[Job(t)]

\* The chain has not passed an accepted transaction, and has passed every
\* executed one.
ChainOrder ==
  /\ \A tx \in pool : tx.nonce >= latest[TxSender(tx)]
  /\ \A tx \in mined : tx.nonce < latest[TxSender(tx)]

PaidInv ==
  /\ TypeOK /\ RowsHold /\ HandsHold
  /\ StoredBeforeSent /\ ChainOrder /\ ConfirmedIsPaid

LEMMA InitPaid == Init => PaidInv
  BY InitTyped DEF Init, PaidInv, RowsHold, HandsHold, StoredBeforeSent,
                   ChainOrder, ConfirmedIsPaid

\* Steps that leave the rows' transactions and the chain alone: they may change
\* a status to anything but CONFIRMED, and put the stored transaction in hand.
LEMMA QuietStep ==
  ASSUME PaidInv, TypeOK', UNCHANGED <<kind, stored, chain>>,
         \A p \in Payment : status'[p] = "confirmed" =>
           \/ status[p] = "confirmed"
           \/ \E tx \in mined \ reverted : tx.payment = p,
         \A t \in Thread : hand'[t] \in {hand[t], {}, stored[Job(t)]}
  PROVE  PaidInv'
<1> USE DEF PaidInv, chain
<1>1. RowsHold'
  BY DEF RowsHold
<1>2. HandsHold'
  BY DEF HandsHold
<1>3. StoredBeforeSent' /\ ChainOrder'
  BY DEF StoredBeforeSent, ChainOrder, TxSender, SenderOf
<1>4. ConfirmedIsPaid'
  BY DEF ConfirmedIsPaid
<1> QED
  BY <1>1, <1>2, <1>3, <1>4

LEMMA StepPaid == PaidInv /\ [Next]_vars => PaidInv'
<1> SUFFICES ASSUME PaidInv, [Next]_vars PROVE PaidInv'
  OBVIOUS
<1> TypeOK /\ TypeOK'
  BY StepTyped DEF PaidInv
<1> USE DEF rows, threads, Goto
<1>1. CASE UNCHANGED vars
  BY <1>1, QuietStep DEF vars
<1>2. ASSUME NEW s \in Sender, Warm(s) PROVE PaidInv'
  BY <1>2, QuietStep DEF Warm
<1>3. ASSUME NEW p \in Payment, RequestWithdrawal(p) PROVE PaidInv'
  BY <1>3, QuietStep DEF RequestWithdrawal, TypeOK, chain
<1>4. ASSUME NEW m \in {"live", "demo"}, OpenPosition(m) PROVE PaidInv'
  BY <1>4, QuietStep DEF OpenPosition
<1>5. CASE ClosePosition
  BY <1>5, QuietStep DEF ClosePosition
<1>6. ASSUME NEW t \in Thread, LoadWithdrawal(t) PROVE PaidInv'
  BY <1>6, QuietStep DEF LoadWithdrawal, Load, TypeOK, chain
<1>7. ASSUME NEW t \in Thread, LoadOrCreate(t) PROVE PaidInv'
  BY <1>7, QuietStep DEF LoadOrCreate, Load, TypeOK, chain
<1>8. ASSUME NEW t \in Thread, ThreadStep(t) PROVE PaidInv'
  <2> Job(t) \in Payment
    BY DEF Job, Thread
  <2>1. CASE Sign(t)
    <3> PICK n \in Reservable(SenderOf(Job(t))), f \in Fee :
          LET p == Job(t)  s == SenderOf(p)
              tx == [payment |-> p, nonce |-> n, fee |-> f] IN
          \/ /\ MarkSigned(p, tx)
             /\ hand' = [hand EXCEPT ![t] = {tx}]
          \/ UNCHANGED <<stored, status, hand>>
      BY <2>1 DEF Sign
    <3> UNCHANGED <<kind, chain>>
      BY <2>1 DEF Sign
    <3>1. CASE UNCHANGED <<stored, status, hand>>
      BY <3>1, QuietStep
    <3> DEFINE tx == [payment |-> Job(t), nonce |-> n, fee |-> f]
    <3>2. CASE MarkSigned(Job(t), tx) /\ hand' = [hand EXCEPT ![t] = {tx}]
      <4> tx.payment = Job(t)
        OBVIOUS
      <4> HIDE DEF tx
      <4>1. \A p \in Payment : stored'[p] = IF p = Job(t) THEN {tx} ELSE stored[p]
        BY <3>2 DEF MarkSigned, TypeOK
      <4>2. \A p \in Payment : stored[p] = stored'[p] \/ stored[p] = {}
        BY <3>2, <4>1 DEF MarkSigned
      <4>3. RowsHold'
        BY <4>1 DEF PaidInv, RowsHold
      <4>4. HandsHold'
        <5> SUFFICES ASSUME NEW u \in Thread, hand'[u] # {}
                     PROVE  hand'[u] = stored'[Job(u)]
          BY DEF HandsHold
        <5> Job(u) \in Payment
          BY DEF Job, Thread
        <5>1. CASE u = t
          BY <5>1, <3>2, <4>1 DEF TypeOK
        <5>2. CASE u # t
          BY <5>2, <3>2, <4>2 DEF PaidInv, HandsHold, TypeOK
        <5> QED
          BY <5>1, <5>2
      <4>5. StoredBeforeSent' /\ ChainOrder'
        <5>1. \A y \in pool \cup mined : y.payment \in Payment
          BY DEF TypeOK, Tx
        <5> QED
          BY <5>1, <4>2 DEF PaidInv, StoredBeforeSent, ChainOrder, TxSender, SenderOf, chain
      <4>6. ConfirmedIsPaid'
        BY <3>2 DEF PaidInv, ConfirmedIsPaid, MarkSigned, TypeOK, chain
      <4> QED
        BY <4>3, <4>4, <4>5, <4>6 DEF PaidInv
    <3> QED
      BY <3>1, <3>2
  <2>2. CASE PrepareFails(t)
    BY <2>2, QuietStep DEF PrepareFails
  <2>3. CASE Resume(t)
    BY <2>3, QuietStep DEF Resume
  <2>4. CASE RecoverByHash(t)
    BY <2>4, QuietStep DEF RecoverByHash
  <2>5. CASE Send(t)
    <3> PICK tx \in hand[t] : SendAccepted(t, tx) \/ SendFails(t, tx)
      BY <2>5 DEF Send
    <3> UNCHANGED <<kind, status, stored, hand, latest, mined, reverted>>
      BY <2>5 DEF Send
    <3>1. stored[Job(t)] = {tx} /\ tx.payment = Job(t)
      BY DEF PaidInv, HandsHold, RowsHold
    <3>2. pool' = pool \/ (pool' = pool \cup {tx} /\ tx.nonce >= latest[TxSender(tx)])
      BY DEF SendAccepted, SendFails
    <3>3. RowsHold' /\ HandsHold' /\ ConfirmedIsPaid'
      BY DEF PaidInv, RowsHold, HandsHold, ConfirmedIsPaid
    <3>4. StoredBeforeSent' /\ ChainOrder'
      BY <3>1, <3>2 DEF PaidInv, StoredBeforeSent, ChainOrder, TxSender, SenderOf
    <3> QED
      BY <3>3, <3>4 DEF PaidInv
  <2>6. CASE MarkBroadcast(t)
    BY <2>6, QuietStep DEF MarkBroadcast, TypeOK
  <2>7. CASE Record(t)
    <3> PICK tx \in hand[t] \cap stored[Job(t)] \cap mined :
          Finish(t, Job(t), IF tx \in reverted THEN "failed" ELSE "confirmed")
      BY <2>7 DEF Record
    <3> tx.payment = Job(t)
      BY DEF PaidInv, RowsHold
    <3> QED
      BY QuietStep DEF Finish, TypeOK
  <2>8. CASE ReceiptTimeout(t)
    BY <2>8, QuietStep DEF ReceiptTimeout
  <2>9. CASE MarkRetryable(t)
    BY <2>9, QuietStep DEF MarkRetryable, RetryableStatus, Finish, TypeOK
  <2>10. CASE MarkRejected(t)
    BY <2>10, QuietStep DEF MarkRejected, Finish, TypeOK
  <2>11. CASE MarkSuperseded(t)
    BY <2>11, QuietStep DEF MarkSuperseded, Finish, TypeOK
  <2> QED
    BY <1>8, <2>1, <2>2, <2>3, <2>4, <2>5, <2>6, <2>7, <2>8, <2>9, <2>10, <2>11
    DEF ThreadStep
<1>9. ASSUME NEW tx \in pool, Mine(tx) PROVE PaidInv'
  <2>1. RowsHold' /\ HandsHold'
    BY <1>9 DEF Mine, PaidInv, RowsHold, HandsHold
  <2>2. StoredBeforeSent'
    BY <1>9 DEF Mine, PaidInv, StoredBeforeSent
  <2>3. tx \notin mined
    BY DEF PaidInv, ChainOrder, TypeOK, Tx, TxSender, SenderOf, Sender
  <2>4. ConfirmedIsPaid'
    BY <1>9, <2>3 DEF Mine, PaidInv, ConfirmedIsPaid
  <2>5. ChainOrder'
    <3> TxSender(tx) \in Sender /\ \A y \in pool \cup mined : y.nonce \in Nat /\ TxSender(y) \in Sender
      BY DEF TypeOK, Tx, TxSender, SenderOf, Sender
    <3> \A y : TxSender(y)' = TxSender(y)
      BY <1>9 DEF Mine, TxSender, SenderOf
    <3> \A s \in Sender : latest'[s] = IF s = TxSender(tx) THEN latest[s] + 1 ELSE latest[s]
      BY <1>9 DEF Mine, TypeOK
    <3> QED
      BY <1>9 DEF Mine, PaidInv, ChainOrder, TypeOK
  <2> QED
    BY <2>1, <2>2, <2>4, <2>5 DEF PaidInv
<1>10. CASE Crash
  BY <1>10, QuietStep DEF Crash
<1> QED
  BY <1>1, <1>2, <1>3, <1>4, <1>5, <1>6, <1>7, <1>8, <1>9, <1>10 DEF Next

LEMMA AlwaysPaid == Spec => []PaidInv
<1>1. Init => PaidInv
  BY InitPaid
<1>2. PaidInv /\ [Next]_vars => PaidInv'
  BY StepPaid
<1> QED
  BY <1>1, <1>2, PTL DEF Spec

\* Whatever a route accepted or the chain executed is the transaction stored in
\* its row: a crash between any two steps loses no transaction.
THEOREM StoredFirst == Spec => []StoredBeforeSent
<1>1. PaidInv => StoredBeforeSent
  BY DEF PaidInv
<1> QED
  BY <1>1, AlwaysPaid, PTL

\* No payment is executed twice, however many threads, retries and crashes
\* there are.
THEOREM NeverPaidTwice == Spec => []PaidOnce
<1>1. PaidInv => PaidOnce
  BY DEF PaidInv, StoredBeforeSent, PaidOnce
<1> QED
  BY <1>1, AlwaysPaid, PTL

\* A row is CONFIRMED only over its own successful transaction.
THEOREM ConfirmedMeansPaid == Spec => []ConfirmedIsPaid
<1>1. PaidInv => ConfirmedIsPaid
  BY DEF PaidInv
<1> QED
  BY <1>1, AlwaysPaid, PTL

-----------------------------------------------------------------------------
(* Nonces: none is handed out beyond one that nothing will use *)

\* The nonce is used up on chain or held by an accepted transaction.
Held(s, m) == m < latest[s] \/ \E tx \in pool : TxSender(tx) = s /\ tx.nonce = m

\* The thread that holds the lock is about to send a transaction with it.
InSending(s, m) ==
  \E t \in Thread : /\ pc[t] = "send" /\ SenderOf(Job(t)) = s
                    /\ \E tx \in hand[t] : tx.nonce = m

Filled(s, n) == \A m \in Nat : m < n => Held(s, m)

GapInv ==
  /\ \A tx \in pool : Filled(TxSender(tx), tx.nonce)
  /\ \A p \in Payment : \A tx \in stored[p] : Filled(SenderOf(p), tx.nonce)
  /\ \A s \in Sender : \A m \in Nat : m < next[s] => Held(s, m) \/ InSending(s, m)

LEMMA HeldKept ==
  ASSUME TypeOK, [Next]_vars, NEW s \in Sender, NEW m \in Nat, Held(s, m)
  PROVE  Held(s, m)'
<1>1. ASSUME NEW tx \in pool, Mine(tx) PROVE Held(s, m)'
  BY <1>1 DEF Mine, Held, TypeOK, Tx, TxSender, SenderOf, rows
<1>2. ASSUME UNCHANGED <<kind, latest>>, pool \subseteq pool' PROVE Held(s, m)'
  BY <1>2 DEF Held, TxSender, SenderOf
<1>3. ASSUME NEW t \in Thread, Send(t) PROVE UNCHANGED <<kind, latest>> /\ pool \subseteq pool'
  BY <1>3 DEF Send, SendAccepted, SendFails, rows
<1>4. \/ UNCHANGED <<kind, chain>>
      \/ \E t \in Thread : Send(t)
      \/ \E tx \in pool : Mine(tx)
  BY DEF Next, vars, rows, ThreadStep, Warm, RequestWithdrawal, OpenPosition, ClosePosition,
         LoadWithdrawal, LoadOrCreate, Sign, PrepareFails, Resume, RecoverByHash, MarkBroadcast,
         Record, ReceiptTimeout, MarkRetryable, MarkRejected, MarkSuperseded, Finish, Crash
<1> QED
  BY <1>1, <1>2, <1>3, <1>4 DEF chain

LEMMA KindKept == [Next]_vars => UNCHANGED kind
  BY DEF Next, vars, rows, ThreadStep, Warm, RequestWithdrawal, OpenPosition, ClosePosition,
         LoadWithdrawal, LoadOrCreate, Sign, PrepareFails, Resume, RecoverByHash, MarkBroadcast,
         Record, ReceiptTimeout, MarkRetryable, MarkRejected, MarkSuperseded, Finish, Crash,
         Send, Mine

LEMMA FilledKept ==
  ASSUME TypeOK, [Next]_vars, NEW s \in Sender, NEW n \in Nat, Filled(s, n)
  PROVE  Filled(s, n)'
  BY HeldKept DEF Filled

\* A nonce that is read or taken from the cache under the lock has no gap below.
LEMMA ReservableIsFilled ==
  ASSUME TypeOK, GapInv, NEW s \in Sender, LockFree(s), NEW n \in Reservable(s)
  PROVE  Filled(s, n)
<1> n \in Nat
  BY ReservableIsNat
<1>1. CASE next[s] = Unread
  BY <1>1 DEF Reservable, PendingCounts, Filled, Held, TypeOK
<1>2. CASE next[s] # Unread
  <2> n = next[s]
    BY <1>2 DEF Reservable
  <2> \A m \in Nat : ~InSending(s, m)
    BY DEF LockFree, InLock, InSending
  <2> QED
    BY DEF GapInv, Filled
<1> QED
  BY <1>1, <1>2

LEMMA InitGap == Init => GapInv
  BY DEF Init, GapInv, Unread, Filled

\* Steps that reserve nothing and send nothing.
LEMMA IdleStep ==
  ASSUME PaidInv, GapInv, [Next]_vars, TypeOK', pool' \subseteq pool, UNCHANGED stored,
         \A s \in Sender : next'[s] \in {next[s], Unread},
         \A t \in Thread : pc[t] = "send" => \/ pc'[t] = "send" /\ hand'[t] = hand[t]
                                             \/ next'[SenderOf(Job(t))] = Unread
  PROVE  GapInv'
<1> TypeOK /\ kind' = kind
  BY KindKept DEF PaidInv
<1>1. \A tx \in pool' : Filled(TxSender(tx), tx.nonce)'
  <2> TAKE tx \in pool'
  <2> tx \in pool /\ TxSender(tx) \in Sender /\ tx.nonce \in Nat /\ TxSender(tx)' = TxSender(tx)
    BY DEF TypeOK, Tx, TxSender, SenderOf, Sender
  <2> QED
    BY FilledKept DEF GapInv
<1>2. \A p \in Payment : \A tx \in stored'[p] : Filled(SenderOf(p), tx.nonce)'
  <2> TAKE p \in Payment
  <2> TAKE tx \in stored'[p]
  <2> SenderOf(p) \in Sender /\ tx.nonce \in Nat /\ SenderOf(p)' = SenderOf(p)
    BY DEF TypeOK, Tx, SenderOf, Sender
  <2> QED
    BY FilledKept DEF GapInv
<1>3. \A s \in Sender : \A m \in Nat : m < next'[s] => Held(s, m)' \/ InSending(s, m)'
  <2> TAKE s \in Sender
  <2> TAKE m \in Nat
  <2> SUFFICES ASSUME m < next'[s] PROVE Held(s, m)' \/ InSending(s, m)'
    OBVIOUS
  <2> next'[s] = next[s] /\ next'[s] # Unread
    BY DEF Unread
  <2>1. CASE Held(s, m)
    BY <2>1, HeldKept
  <2>2. CASE InSending(s, m)
    <3> PICK t \in Thread : pc[t] = "send" /\ SenderOf(Job(t)) = s /\ \E tx \in hand[t] : tx.nonce = m
      BY <2>2 DEF InSending
    <3> QED
      BY DEF InSending, SenderOf
  <2> QED
    BY <2>1, <2>2 DEF GapInv
<1> QED
  BY <1>1, <1>2, <1>3 DEF GapInv

\* A thread takes the lock with a transaction whose nonce is filled up to.
LEMMA TakeStep ==
  ASSUME PaidInv, GapInv, [Next]_vars, TypeOK', NEW t \in Thread, NEW tx \in Tx,
         LockFree(SenderOf(Job(t))), UNCHANGED <<latest, pool>>,
         Filled(SenderOf(Job(t)), tx.nonce),
         \/ UNCHANGED stored
         \/ stored' = [stored EXCEPT ![Job(t)] = {tx}],
         \/ Advance(SenderOf(Job(t)), tx.nonce + 1)
         \/ Reserve(SenderOf(Job(t)), tx.nonce),
         pc' = [pc EXCEPT ![t] = "send"],
         hand' = [hand EXCEPT ![t] = {tx}]
  PROVE  GapInv'
<1> TypeOK /\ kind' = kind
  BY KindKept DEF PaidInv
<1> Job(t) \in Payment /\ SenderOf(Job(t)) \in Sender /\ tx.nonce \in Nat
  BY DEF Job, Thread, SenderOf, Sender, Tx
<1> \A p \in Payment : SenderOf(p) \in Sender /\ SenderOf(p)' = SenderOf(p)
  BY SenderIsTyped DEF SenderOf
<1>1. \A y \in pool' : Filled(TxSender(y), y.nonce)'
  <2> TAKE y \in pool'
  <2> y \in pool /\ TxSender(y) \in Sender /\ y.nonce \in Nat /\ TxSender(y)' = TxSender(y)
    BY DEF TypeOK, Tx, TxSender
  <2> QED
    BY FilledKept DEF GapInv
<1>2. \A p \in Payment : \A y \in stored'[p] : Filled(SenderOf(p), y.nonce)'
  <2> TAKE p \in Payment
  <2> TAKE y \in stored'[p]
  <2> y \in stored[p] \/ (p = Job(t) /\ y = tx)
    BY DEF TypeOK
  <2> y \in Tx /\ y.nonce \in Nat
    BY DEF TypeOK, Tx
  <2> QED
    BY FilledKept DEF GapInv
<1>3. \A s \in Sender : \A m \in Nat : m < next'[s] => Held(s, m)' \/ InSending(s, m)'
  <2> TAKE s \in Sender
  <2> TAKE m \in Nat
  <2> SUFFICES ASSUME m < next'[s] PROVE Held(s, m)' \/ InSending(s, m)'
    OBVIOUS
  <2>1. CASE s # SenderOf(Job(t))
    <3>1. next'[s] = next[s]
      BY <2>1 DEF Advance, Reserve, TypeOK
    <3>2. CASE InSending(s, m)
      <4> PICK u \in Thread : pc[u] = "send" /\ SenderOf(Job(u)) = s /\ \E y \in hand[u] : y.nonce = m
        BY <3>2 DEF InSending
      <4> pc'[u] = "send" /\ hand'[u] = hand[u] /\ SenderOf(Job(u))' = s
        BY <2>1 DEF TypeOK, SenderOf
      <4> QED
        BY DEF InSending
    <3> QED
      BY <3>1, <3>2, HeldKept DEF GapInv
  <2>2. CASE s = SenderOf(Job(t))
    <3>1. ~InSending(s, m)
      BY <2>2 DEF LockFree, InLock, InSending
    <3>2. CASE m = tx.nonce
      <4> pc'[t] = "send" /\ tx \in hand'[t] /\ SenderOf(Job(t))' = s
        BY <2>2 DEF TypeOK
      <4> QED
        BY <3>2 DEF InSending
    <3>3. CASE m < tx.nonce
      BY <3>3, <2>2, HeldKept DEF Filled
    <3>4. CASE m > tx.nonce
      <4> m < next[s]
        BY <2>2, <3>4 DEF Advance, Reserve, TypeOK, Unread
      <4> QED
        BY <3>1, HeldKept DEF GapInv
    <3> QED
      BY <3>2, <3>3, <3>4
  <2> QED
    BY <2>1, <2>2
<1> QED
  BY <1>1, <1>2, <1>3 DEF GapInv

\* Sending takes the nonce, or drops the cache.
LEMMA SendStep ==
  ASSUME PaidInv, GapInv, [Next]_vars, TypeOK', NEW t \in Thread, Send(t)
  PROVE  GapInv'
<1> TypeOK /\ kind' = kind
  BY KindKept DEF PaidInv
<1> PICK tx \in hand[t] : SendAccepted(t, tx) \/ SendFails(t, tx)
  BY DEF Send
<1> UNCHANGED <<stored, latest, hand>> /\ pc[t] = "send"
  BY DEF Send, rows
<1> \A p \in Payment : SenderOf(p) \in Sender /\ SenderOf(p)' = SenderOf(p)
  BY SenderIsTyped DEF SenderOf
<1>1. /\ Job(t) \in Payment /\ tx \in stored[Job(t)] /\ tx.payment = Job(t)
      /\ hand[t] = {tx} /\ tx.nonce \in Nat /\ TxSender(tx) = SenderOf(Job(t))
  BY DEF PaidInv, HandsHold, RowsHold, Job, Thread, TypeOK, Tx, TxSender
<1>2. pool' = pool \/ pool' = pool \cup {tx}
  BY DEF SendAccepted, SendFails
<1>3. \A y \in pool' : Filled(TxSender(y), y.nonce)'
  <2> TAKE y \in pool'
  <2> y \in Tx /\ TxSender(y) \in Sender /\ y.nonce \in Nat /\ TxSender(y)' = TxSender(y)
    BY DEF TypeOK, Tx, TxSender
  <2> QED
    BY <1>1, <1>2, FilledKept DEF GapInv
<1>4. \A p \in Payment : \A y \in stored'[p] : Filled(SenderOf(p), y.nonce)'
  <2> TAKE p \in Payment
  <2> TAKE y \in stored'[p]
  <2> y \in stored[p] /\ y.nonce \in Nat
    BY DEF TypeOK, Tx
  <2> QED
    BY FilledKept DEF GapInv
<1>5. \A s \in Sender : \A m \in Nat : m < next'[s] => Held(s, m)' \/ InSending(s, m)'
  <2> TAKE s \in Sender
  <2> TAKE m \in Nat
  <2> SUFFICES ASSUME m < next'[s] PROVE Held(s, m)' \/ InSending(s, m)'
    OBVIOUS
  <2>1. next'[s] = next[s]
    BY DEF SendAccepted, SendFails, Invalidate, TypeOK, Unread
  <2>2. CASE Held(s, m)
    BY <2>2, HeldKept
  <2>3. CASE InSending(s, m)
    <3> PICK u \in Thread : pc[u] = "send" /\ SenderOf(Job(u)) = s /\ \E y \in hand[u] : y.nonce = m
      BY <2>3 DEF InSending
    <3>1. CASE u # t
      <4> pc'[u] = "send"
        BY <3>1 DEF SendAccepted, SendFails, Goto, TypeOK
      <4> QED
        BY DEF InSending, SenderOf
    <3>2. CASE u = t
      <4>1. tx.nonce = m /\ TxSender(tx) = s
        BY <3>2, <1>1
      <4>2. SendAccepted(t, tx)
        BY <4>1, <2>1 DEF SendFails, Invalidate, TypeOK, Unread
      <4>3. TxSender(tx)' = s
        BY <4>1, <1>1 DEF TxSender
      <4>4. CASE tx \in mined
        BY <4>1, <4>4 DEF PaidInv, ChainOrder, Held
      <4>5. CASE tx \in pool'
        BY <4>1, <4>3, <4>5 DEF Held
      <4> QED
        BY <4>2, <4>4, <4>5 DEF SendAccepted
    <3> QED
      BY <3>1, <3>2
  <2> QED
    BY <2>1, <2>2, <2>3 DEF GapInv
<1> QED
  BY <1>3, <1>4, <1>5 DEF GapInv

LEMMA StepGap == PaidInv /\ GapInv /\ [Next]_vars => GapInv'
<1> SUFFICES ASSUME PaidInv, GapInv, [Next]_vars PROVE GapInv'
  OBVIOUS
<1> TypeOK /\ TypeOK'
  BY StepTyped DEF PaidInv
<1> USE DEF rows, threads, chain, Goto
<1>1. CASE UNCHANGED vars
  BY <1>1, IdleStep DEF vars
<1>2. ASSUME NEW r \in Sender, Warm(r) PROVE GapInv'
  <2> kind' = kind
    BY KindKept
  <2> PICK n \in PendingCounts(r) : n > next[r] /\ Advance(r, n)
    BY <1>2 DEF Warm
  <2> n \in Nat /\ UNCHANGED <<stored, pc, hand, latest, pool>>
    BY <1>2, ReservableIsNat DEF Warm
  <2>1. \A m \in Nat : m < n => Held(r, m)
    BY DEF PendingCounts, Held, TypeOK
  <2>2. \A s \in Sender : \A m \in Nat : m < next'[s] => Held(s, m) \/ InSending(s, m)
    BY <2>1 DEF GapInv, Advance, TypeOK
  <2>3. \A s \in Sender, m \in Nat : /\ Held(s, m)' = Held(s, m)
                                     /\ InSending(s, m)' = InSending(s, m)
    BY DEF Held, InSending, TxSender, SenderOf
  <2>4. \A s \in Sender, n2 \in Nat : Filled(s, n2)' = Filled(s, n2)
    BY <2>3 DEF Filled
  <2>5. \A tx \in pool : TxSender(tx) \in Sender /\ TxSender(tx)' = TxSender(tx) /\ tx.nonce \in Nat
    BY DEF TypeOK, Tx, TxSender, SenderOf, Sender
  <2>6. \A p \in Payment : /\ SenderOf(p) \in Sender /\ SenderOf(p)' = SenderOf(p)
                           /\ \A tx \in stored[p] : tx.nonce \in Nat
    BY SenderIsTyped DEF TypeOK, Tx, SenderOf
  <2> QED
    BY <2>2, <2>3, <2>4, <2>5, <2>6 DEF GapInv
<1>3. ASSUME NEW p \in Payment, RequestWithdrawal(p) PROVE GapInv'
  BY <1>3, IdleStep DEF RequestWithdrawal
<1>4. ASSUME NEW m \in {"live", "demo"}, OpenPosition(m) PROVE GapInv'
  BY <1>4, IdleStep DEF OpenPosition
<1>5. CASE ClosePosition
  BY <1>5, IdleStep DEF ClosePosition
<1>6. ASSUME NEW t \in Thread, LoadWithdrawal(t) PROVE GapInv'
  BY <1>6, IdleStep DEF LoadWithdrawal, Load, Start, TypeOK
<1>7. ASSUME NEW t \in Thread, LoadOrCreate(t) PROVE GapInv'
  BY <1>7, IdleStep DEF LoadOrCreate, Load, Start, TypeOK
<1>8. ASSUME NEW t \in Thread, ThreadStep(t) PROVE GapInv'
  <2> Job(t) \in Payment /\ SenderOf(Job(t)) \in Sender
    BY SenderIsTyped DEF Job, Thread
  <2>1. CASE Sign(t)
    <3> LockFree(SenderOf(Job(t))) /\ pc[t] = "ready" /\ UNCHANGED <<latest, pool>>
      BY <2>1 DEF Sign
    <3> PICK n \in Reservable(SenderOf(Job(t))), f \in Fee :
          LET p == Job(t)  s == SenderOf(p)
              tx == [payment |-> p, nonce |-> n, fee |-> f] IN
          \/ /\ MarkSigned(p, tx) /\ Reserve(s, n)
             /\ hand' = [hand EXCEPT ![t] = {tx}]
             /\ Goto(t, "send")
          \/ /\ Invalidate(s) /\ Goto(t, "failing")
             /\ UNCHANGED <<stored, status, hand>>
      BY <2>1 DEF Sign
    <3>1. CASE Invalidate(SenderOf(Job(t))) /\ Goto(t, "failing")
               /\ UNCHANGED <<stored, status, hand>>
      BY <3>1, IdleStep DEF Invalidate, TypeOK
    <3> DEFINE tx == [payment |-> Job(t), nonce |-> n, fee |-> f]
    <3>2. CASE MarkSigned(Job(t), tx) /\ Reserve(SenderOf(Job(t)), n)
               /\ hand' = [hand EXCEPT ![t] = {tx}] /\ Goto(t, "send")
      <4>1. tx \in Tx /\ tx.nonce = n
        BY ReservableIsNat DEF Tx
      <4>2. Filled(SenderOf(Job(t)), n)
        BY ReservableIsFilled
      <4> HIDE DEF tx
      <4>3. stored' = [stored EXCEPT ![Job(t)] = {tx}]
        BY <3>2 DEF MarkSigned
      <4> QED
        BY <3>2, <4>1, <4>2, <4>3, TakeStep
    <3> QED
      BY <3>1, <3>2
  <2>2. CASE PrepareFails(t)
    BY <2>2, IdleStep DEF PrepareFails, Invalidate, TypeOK
  <2>3. CASE Resume(t)
    <3> PICK tx \in hand[t] : Advance(SenderOf(Job(t)), tx.nonce + 1)
      BY <2>3 DEF Resume
    <3>1. tx \in Tx /\ hand[t] = {tx} /\ tx \in stored[Job(t)]
      BY DEF PaidInv, HandsHold, RowsHold, TypeOK
    <3>2. Filled(SenderOf(Job(t)), tx.nonce)
      BY <3>1 DEF GapInv
    <3>3. hand' = [hand EXCEPT ![t] = {tx}]
      BY <2>3, <3>1 DEF Resume, TypeOK
    <3> QED
      BY <2>3, <3>1, <3>2, <3>3, TakeStep DEF Resume
  <2>4. CASE RecoverByHash(t)
    BY <2>4, IdleStep DEF RecoverByHash, TypeOK
  <2>5. CASE Send(t)
    BY <2>5, SendStep
  <2>6. CASE MarkBroadcast(t)
    BY <2>6, IdleStep DEF MarkBroadcast, TypeOK
  <2>7. CASE Record(t)
    BY <2>7, IdleStep DEF Record, Finish, TypeOK
  <2>8. CASE ReceiptTimeout(t)
    BY <2>8, IdleStep DEF ReceiptTimeout, TypeOK
  <2>9. CASE MarkRetryable(t)
    BY <2>9, IdleStep DEF MarkRetryable, Finish, TypeOK
  <2>10. CASE MarkRejected(t)
    BY <2>10, IdleStep DEF MarkRejected, Finish, TypeOK
  <2>11. CASE MarkSuperseded(t)
    BY <2>11, IdleStep DEF MarkSuperseded, Finish, TypeOK
  <2> QED
    BY <1>8, <2>1, <2>2, <2>3, <2>4, <2>5, <2>6, <2>7, <2>8, <2>9, <2>10, <2>11
    DEF ThreadStep
<1>9. ASSUME NEW tx \in pool, Mine(tx) PROVE GapInv'
  BY <1>9, IdleStep DEF Mine
<1>10. CASE Crash
  BY <1>10, IdleStep, SenderIsTyped DEF Crash, Job, Thread
<1> QED
  BY <1>1, <1>2, <1>3, <1>4, <1>5, <1>6, <1>7, <1>8, <1>9, <1>10 DEF Next

\* Nothing a route accepted waits behind a nonce that was reserved and dropped.
THEOREM NoncesHaveNoGap == Spec => []NoNonceGap
<1>1. Init => PaidInv /\ GapInv
  BY InitPaid, InitGap
<1>2. (PaidInv /\ GapInv) /\ [Next]_vars => (PaidInv /\ GapInv)'
  BY StepPaid, StepGap
<1>3. PaidInv /\ GapInv => NoNonceGap
  <2> SUFFICES ASSUME PaidInv, GapInv, NEW tx \in pool,
                      NEW n \in latest[TxSender(tx)]..(tx.nonce - 1)
               PROVE  \E u \in pool : TxSender(u) = TxSender(tx) /\ u.nonce = n
    BY DEF NoNonceGap
  <2> TypeOK /\ TxSender(tx) \in Sender /\ tx.nonce \in Nat /\ n \in Nat /\ n < tx.nonce
    BY DEF PaidInv, TypeOK, Tx, TxSender, SenderOf, Sender
  <2> QED
    BY DEF GapInv, Filled, Held, TypeOK
<1> QED
  BY <1>1, <1>2, <1>3, PTL DEF Spec

-----------------------------------------------------------------------------
(* Withdrawals: one run at a time, and the end is final *)

Busy(t) == pc[t] # "idle"
Settled == {"confirmed", "failed"}

RunInv ==
  /\ \A t, u \in Thread : Busy(t) /\ Busy(u) /\ Job(t) = Job(u) /\ Job(t) \in Withdrawals => t = u
  /\ \A t \in Thread : Busy(t) /\ Job(t) \in Withdrawals => status[Job(t)] \in Active \ {"requested"}
  /\ \A t \in Thread : pc[t] \in {"ready", "rejected"} /\ Job(t) \in Withdrawals /\ hand[t] = {}
       => stored[Job(t)] = {}
  /\ \A t \in Thread : pc[t] = "rejected" => Job(t) \in Withdrawals /\ hand[t] = {}
  /\ \A t \in Thread : pc[t] = "stale" => Job(t) \notin Withdrawals
  /\ \A p \in Payment : status[p] \in {"none", "requested", "created"} => stored[p] = {}
  /\ FailedWithdrawalIsHarmless

RunsInv == PaidInv /\ RunInv

LEMMA InitRuns == Init => RunsInv
  BY InitPaid DEF Init, RunsInv, RunInv, Busy, FailedWithdrawalIsHarmless, Withdrawals

\* A step of thread t that leaves the row and the chain alone and goes on.
LEMMA GoOn ==
  ASSUME RunsInv, PaidInv', NEW t \in Thread, NEW place, Busy(t), place # "idle",
         UNCHANGED <<rows, chain, hand>>, pc' = [pc EXCEPT ![t] = place],
         place # "ready",
         place = "rejected" => pc[t] = "ready" /\ Job(t) \in Withdrawals /\ hand[t] = {},
         place = "stale" => Job(t) \notin Withdrawals
  PROVE  RunInv'
<1> TypeOK
  BY DEF RunsInv, PaidInv
<1>1. \A u \in Thread : pc'[u] = IF u = t THEN place ELSE pc[u]
  BY DEF TypeOK
<1>2. FailedWithdrawalIsHarmless'
  BY DEF RunsInv, RunInv, FailedWithdrawalIsHarmless, Withdrawals, rows, chain
<1> QED
  BY <1>1, <1>2 DEF RunsInv, RunInv, Busy, Withdrawals, rows

\* The last step of a run.
LEMMA Ends ==
  ASSUME RunsInv, PaidInv', NEW t \in Thread, NEW to \in Status, Busy(t), Finish(t, Job(t), to),
         to \in {"none", "requested", "created"} => stored[Job(t)] = {},
         to = "failed" /\ Job(t) \in Withdrawals
           => \A tx \in pool \cup (mined \ reverted) : tx.payment # Job(t)
  PROVE  RunInv'
<1> TypeOK /\ Job(t) \in Payment
  BY DEF RunsInv, PaidInv, Job, Thread
<1>1. \A u \in Thread : pc'[u] = IF u = t THEN "idle" ELSE pc[u]
  BY DEF TypeOK, Finish, Goto
<1>2. \A p \in Payment : status'[p] = IF p = Job(t) THEN to ELSE status[p]
  BY DEF TypeOK, Finish
<1>3. \A u \in Thread : hand'[u] = IF u = t THEN {} ELSE hand[u]
  BY DEF TypeOK, Finish
<1>4. UNCHANGED <<kind, stored, pool, mined, reverted>>
  BY DEF Finish, chain
<1>5. FailedWithdrawalIsHarmless'
  BY <1>2, <1>4 DEF RunsInv, RunInv, FailedWithdrawalIsHarmless, Withdrawals
<1>6. \A u \in Thread : Job(u) \in Payment
  BY DEF Job, Thread
<1> QED
  BY <1>1, <1>2, <1>3, <1>4, <1>5, <1>6 DEF RunsInv, RunInv, Busy, Withdrawals

LEMMA StepRuns == RunsInv /\ [Next]_vars => RunsInv'
<1> SUFFICES ASSUME RunsInv, [Next]_vars PROVE RunInv'
  BY StepPaid DEF RunsInv
<1> PaidInv /\ PaidInv' /\ TypeOK /\ TypeOK' /\ RunInv
  BY StepPaid DEF RunsInv, PaidInv
<1> \A u \in Thread : Job(u) \in Payment
  BY DEF Job, Thread
<1>1. ASSUME UNCHANGED <<rows, threads, pool, mined, reverted>> PROVE RunInv'
  BY <1>1 DEF RunInv, Busy, Withdrawals, FailedWithdrawalIsHarmless, rows, threads
<1>2. ASSUME NEW s \in Sender, Warm(s) PROVE RunInv'
  BY <1>1, <1>2 DEF Warm, chain
<1>3. ASSUME NEW p \in Payment, RequestWithdrawal(p) PROVE RunInv'
  <2>1. \A q \in Payment : status'[q] = IF q = p THEN "requested" ELSE status[q]
    BY <1>3 DEF RequestWithdrawal, TypeOK
  <2>2. status[p] = "none" /\ UNCHANGED <<kind, stored, threads, pool, mined, reverted>>
    BY <1>3 DEF RequestWithdrawal, chain
  <2>3. FailedWithdrawalIsHarmless'
    BY <2>1, <2>2 DEF RunInv, FailedWithdrawalIsHarmless, Withdrawals
  <2> QED
    BY <2>1, <2>2, <2>3 DEF RunInv, Busy, Withdrawals, Active, threads
<1>4. ASSUME NEW m \in {"live", "demo"}, OpenPosition(m) PROVE RunInv'
  BY <1>1, <1>4 DEF OpenPosition, chain
<1>5. CASE ClosePosition
  BY <1>1, <1>5 DEF ClosePosition, chain
<1>6. ASSUME NEW t \in Thread, LoadWithdrawal(t) PROVE RunInv'
  <2> DEFINE p == Job(t)
  <2>0. /\ pc[t] = "idle" /\ kind[p] = "withdrawal" /\ status[p] \in Active
        /\ \A u \in Thread : Busy(u) => Job(u) # p
        /\ UNCHANGED <<kind, stored, pool, mined, reverted>>
    BY <1>6 DEF LoadWithdrawal, Start, Running, Pending, Busy, chain
  <2>1. CASE status[p] = "requested" /\ status' = [status EXCEPT ![p] = "failed"] /\ UNCHANGED threads
    <3>1. \A q \in Payment : status'[q] = IF q = p THEN "failed" ELSE status[q]
      BY <2>1 DEF TypeOK
    <3>2. stored[p] = {}
      BY <2>1 DEF RunInv
    <3>3. FailedWithdrawalIsHarmless'
      BY <2>0, <3>1, <3>2 DEF RunInv, FailedWithdrawalIsHarmless, Withdrawals, PaidInv, StoredBeforeSent
    <3> QED
      BY <2>0, <2>1, <3>1, <3>3 DEF RunInv, Busy, Withdrawals, threads
  <2>2. CASE /\ status' = [status EXCEPT ![p] = IF @ = "requested" THEN "created" ELSE @]
             /\ Load(t)
    <3>1. \A q \in Payment : status'[q] = IF q = p /\ status[q] = "requested" THEN "created" ELSE status[q]
      BY <2>2 DEF TypeOK
    <3>2. \A u \in Thread : /\ pc'[u] = IF u = t THEN "ready" ELSE pc[u]
                            /\ hand'[u] = IF u = t THEN stored[p] ELSE hand[u]
      BY <2>2 DEF TypeOK, Load
    <3>3. FailedWithdrawalIsHarmless'
      BY <2>0, <3>1 DEF RunInv, FailedWithdrawalIsHarmless, Withdrawals
    <3> QED
      BY <2>0, <3>1, <3>2, <3>3 DEF RunInv, Busy, Withdrawals, Active, Status
  <2> QED
    BY <1>6, <2>1, <2>2 DEF LoadWithdrawal
<1>7. ASSUME NEW t \in Thread, LoadOrCreate(t) PROVE RunInv'
  <2> DEFINE p == Job(t)
  <2>0. /\ pc[t] = "idle" /\ kind[p] # "withdrawal"
        /\ UNCHANGED <<kind, stored, pool, mined, reverted>>
        /\ \/ status' = status
           \/ status[p] = "none" /\ status' = [status EXCEPT ![p] = "created"]
        /\ Load(t)
    BY <1>7 DEF LoadOrCreate, Start, chain
  <2>1. \A q \in Payment : \/ status'[q] = status[q]
                           \/ q = p /\ status[q] = "none" /\ status'[q] = "created"
    BY <2>0 DEF TypeOK
  <2>2. \A u \in Thread : /\ pc'[u] = IF u = t THEN "ready" ELSE pc[u]
                          /\ hand'[u] = IF u = t THEN stored[p] ELSE hand[u]
    BY <2>0 DEF TypeOK, Load
  <2>3. FailedWithdrawalIsHarmless'
    BY <2>0, <2>1 DEF RunInv, FailedWithdrawalIsHarmless, Withdrawals
  <2> QED
    BY <2>0, <2>1, <2>2, <2>3 DEF RunInv, Busy, Withdrawals
<1>9. ASSUME NEW tx \in pool, Mine(tx) PROVE RunInv'
  <2>1. FailedWithdrawalIsHarmless'
    BY <1>9 DEF Mine, RunInv, FailedWithdrawalIsHarmless, Withdrawals, rows
  <2> QED
    BY <1>9, <2>1 DEF Mine, RunInv, Busy, Withdrawals, rows, threads
<1>10. CASE Crash
  <2>1. \A t \in Thread : pc'[t] = "idle"
    BY <1>10 DEF Crash
  <2>2. FailedWithdrawalIsHarmless'
    BY <1>10 DEF Crash, RunInv, FailedWithdrawalIsHarmless, Withdrawals, rows, chain
  <2> QED
    BY <1>10, <2>1, <2>2 DEF Crash, RunInv, Busy, Withdrawals, rows
<1>8. ASSUME NEW t \in Thread, ThreadStep(t) PROVE RunInv'
  <2>1. CASE Sign(t)
    <3> UNCHANGED <<kind, pool, mined, reverted>> /\ pc[t] = "ready" /\ hand[t] = {}
      BY <2>1 DEF Sign, chain
    <3> PICK n \in Reservable(SenderOf(Job(t))), f \in Fee :
          LET p == Job(t)  s == SenderOf(p)
              tx == [payment |-> p, nonce |-> n, fee |-> f] IN
          \/ /\ MarkSigned(p, tx)
             /\ hand' = [hand EXCEPT ![t] = {tx}]
             /\ Goto(t, "send")
          \/ /\ Goto(t, "failing") /\ UNCHANGED <<stored, status, hand>>
      BY <2>1 DEF Sign
    <3>1. CASE Goto(t, "failing") /\ UNCHANGED <<stored, status, hand>>
      BY <2>1, <3>1, GoOn DEF Goto, Sign, rows, Busy
    <3> DEFINE tx == [payment |-> Job(t), nonce |-> n, fee |-> f]
    <3>2. CASE MarkSigned(Job(t), tx) /\ hand' = [hand EXCEPT ![t] = {tx}] /\ Goto(t, "send")
      <4> HIDE DEF tx
      <4>1. \A u \in Thread : /\ pc'[u] = IF u = t THEN "send" ELSE pc[u]
                              /\ hand'[u] = IF u = t THEN {tx} ELSE hand[u]
        BY <3>2 DEF Goto, TypeOK
      <4>2. \A q \in Payment : /\ status'[q] = IF q = Job(t) THEN "signed" ELSE status[q]
                               /\ stored'[q] = IF q = Job(t) THEN {tx} ELSE stored[q]
        BY <3>2 DEF MarkSigned, TypeOK
      <4>3. FailedWithdrawalIsHarmless'
        BY <4>2 DEF RunInv, FailedWithdrawalIsHarmless, Withdrawals
      <4> QED
        BY <4>1, <4>2, <4>3 DEF RunInv, Busy, Withdrawals, Active, Status
    <3> QED
      BY <3>1, <3>2
  <2>2. CASE PrepareFails(t)
    <3>1. CASE pc' = [pc EXCEPT ![t] = "failing"]
      BY <2>2, <3>1, GoOn DEF PrepareFails, Busy
    <3>2. CASE kind[Job(t)] = "withdrawal" /\ pc' = [pc EXCEPT ![t] = "rejected"]
      BY <2>2, <3>2, GoOn DEF PrepareFails, Busy, Withdrawals
    <3> QED
      BY <2>2, <3>1, <3>2 DEF PrepareFails, Goto
  <2>3. CASE Resume(t)
    BY <2>3, GoOn DEF Resume, Busy, Goto
  <2>4. CASE RecoverByHash(t)
    BY <2>4, GoOn DEF RecoverByHash, Busy, Goto
  <2>5. CASE Send(t)
    <3> PICK tx \in hand[t] : SendAccepted(t, tx) \/ SendFails(t, tx)
      BY <2>5 DEF Send
    <3>0. UNCHANGED <<kind, status, stored, hand, mined, reverted>> /\ pc[t] = "send"
      BY <2>5 DEF Send, rows
    <3>1. tx.payment = Job(t)
      BY DEF PaidInv, HandsHold, RowsHold
    <3> PICK place \in {"sent", "failing", "stale", "await"} :
          pc' = [pc EXCEPT ![t] = place] /\ (place = "stale" => kind[tx.payment] # "withdrawal")
      BY DEF SendAccepted, SendFails, Goto
    <3>2. \A u \in Thread : pc'[u] = IF u = t THEN place ELSE pc[u]
      BY DEF TypeOK
    <3>3. Job(t) \in Withdrawals => status[Job(t)] # "failed"
      BY <3>0 DEF RunInv, Busy, Active
    <3>4. pool' \subseteq pool \cup {tx}
      BY DEF SendAccepted, SendFails
    <3>5. FailedWithdrawalIsHarmless'
      BY <3>0, <3>1, <3>3, <3>4 DEF RunInv, FailedWithdrawalIsHarmless, Withdrawals
    <3> QED
      BY <3>0, <3>1, <3>2, <3>5 DEF RunInv, Busy, Withdrawals
  <2>6. CASE MarkBroadcast(t)
    <3>1. \A u \in Thread : pc'[u] = IF u = t THEN "await" ELSE pc[u]
      BY <2>6 DEF MarkBroadcast, Goto, TypeOK
    <3>2. \A q \in Payment : status'[q] = IF q = Job(t) THEN "broadcast" ELSE status[q]
      BY <2>6 DEF MarkBroadcast, TypeOK
    <3>3. UNCHANGED <<kind, stored, hand, pool, mined, reverted>> /\ pc[t] = "sent"
      BY <2>6 DEF MarkBroadcast, chain
    <3>4. FailedWithdrawalIsHarmless'
      BY <3>2, <3>3 DEF RunInv, FailedWithdrawalIsHarmless, Withdrawals
    <3> QED
      BY <3>1, <3>2, <3>3, <3>4 DEF RunInv, Busy, Withdrawals, Active, Status
  <2>7. CASE Record(t)
    <3> PICK tx \in hand[t] \cap stored[Job(t)] \cap mined :
          Finish(t, Job(t), IF tx \in reverted THEN "failed" ELSE "confirmed")
      BY <2>7 DEF Record
    <3>1. pc[t] = "await"
      BY <2>7 DEF Record
    <3>2. stored[Job(t)] = {tx}
      BY DEF PaidInv, RowsHold
    <3>3. tx \notin pool
      BY DEF PaidInv, ChainOrder, TypeOK, Tx, TxSender, SenderOf, Sender
    <3>4. \A y \in pool \cup mined : y.payment = Job(t) => y = tx
      BY <3>2 DEF PaidInv, StoredBeforeSent
    <3>5. tx \in reverted => \A y \in pool \cup (mined \ reverted) : y.payment # Job(t)
      BY <3>3, <3>4
    <3> QED
      BY <3>1, <3>5, Ends DEF Busy, Status
  <2>8. CASE ReceiptTimeout(t)
    BY <2>8, GoOn DEF ReceiptTimeout, Busy, Goto
  <2>9. CASE MarkRetryable(t)
    BY <2>9, Ends DEF MarkRetryable, RetryableStatus, Busy, Status
  <2>10. CASE MarkRejected(t)
    <3> stored[Job(t)] = {}
      BY <2>10 DEF MarkRejected, RunInv
    <3> \A tx \in pool \cup (mined \ reverted) : tx.payment # Job(t)
      BY DEF PaidInv, StoredBeforeSent
    <3> QED
      BY <2>10, Ends DEF MarkRejected, Busy, Status
  <2>11. CASE MarkSuperseded(t)
    BY <2>11, Ends DEF MarkSuperseded, Busy, Status, RunInv
  <2> QED
    BY <1>8, <2>1, <2>2, <2>3, <2>4, <2>5, <2>6, <2>7, <2>8, <2>9, <2>10, <2>11
    DEF ThreadStep
<1> QED
  BY <1>1, <1>2, <1>3, <1>4, <1>5, <1>6, <1>7, <1>8, <1>9, <1>10 DEF Next, vars, chain

LEMMA AlwaysRuns == Spec => []RunsInv
<1>1. Init => RunsInv
  BY InitRuns
<1>2. RunsInv /\ [Next]_vars => RunsInv'
  BY StepRuns
<1> QED
  BY <1>1, <1>2, PTL DEF Spec

\* A failed withdrawal has no transaction that a route accepted and that may
\* still execute, nor one that executed.
THEOREM FailedTakesNothing == Spec => []FailedWithdrawalIsHarmless
<1>1. RunsInv => FailedWithdrawalIsHarmless
  BY DEF RunsInv, RunInv
<1> QED
  BY <1>1, AlwaysRuns, PTL

\* A withdrawal that is CONFIRMED or FAILED stays so.
THEOREM WithdrawalsStaySettled == Spec => WithdrawalSettlesOnce
<1> DEFINE Stays == \A p \in Withdrawals :
                      status[p] \in {"confirmed", "failed"} => status'[p] = status[p]
<1>1. RunsInv /\ [Next]_vars => [Stays]_vars
  <2> SUFFICES ASSUME RunsInv, Next, NEW p \in Withdrawals, status[p] \in {"confirmed", "failed"}
               PROVE  status'[p] = status[p]
    BY DEF vars
  <2> TypeOK /\ RunInv /\ p \in Payment /\ kind[p] = "withdrawal"
    BY DEF RunsInv, PaidInv, Withdrawals
  <2>1. \A t \in Thread : pc[t] # "idle" => Job(t) # p
    BY DEF RunInv, Busy, Active, Status, Withdrawals
  <2>2. ASSUME NEW t \in Thread, ThreadStep(t) PROVE status'[p] = status[p]
    <3> Job(t) # p \/ UNCHANGED status
      BY <2>1, <2>2 DEF ThreadStep, Sign, PrepareFails, Resume, RecoverByHash, Send, MarkBroadcast,
                        Record, ReceiptTimeout, MarkRetryable, MarkRejected, MarkSuperseded
    <3> UNCHANGED status \/ \E s : status' = [status EXCEPT ![Job(t)] = s]
      BY <2>2 DEF ThreadStep, Sign, MarkSigned, PrepareFails, Resume, RecoverByHash, Send,
                  MarkBroadcast, Record, ReceiptTimeout, MarkRetryable, MarkRejected,
                  MarkSuperseded, Finish, rows
    <3> QED
      BY DEF TypeOK
  <2>3. ASSUME NEW t \in Thread, LoadWithdrawal(t) \/ LoadOrCreate(t) PROVE status'[p] = status[p]
    <3> Job(t) # p \/ UNCHANGED status
      BY <2>3 DEF LoadWithdrawal, LoadOrCreate, Pending, Active
    <3> UNCHANGED status \/ \E s : status' = [status EXCEPT ![Job(t)] = s]
      BY <2>3 DEF LoadWithdrawal, LoadOrCreate, threads
    <3> QED
      BY DEF TypeOK
  <2>4. ASSUME NEW q \in Payment, RequestWithdrawal(q) PROVE status'[p] = status[p]
    BY <2>4 DEF RequestWithdrawal, TypeOK
  <2> QED
    BY <2>2, <2>3, <2>4 DEF Next, Warm, OpenPosition, ClosePosition, Mine, Crash, rows
<1> QED
  BY <1>1, AlwaysRuns, PTL DEF WithdrawalSettlesOnce, Spec

-----------------------------------------------------------------------------
(* A live position and a pending withdrawal exclude each other *)

\* A step that ends or begins nothing leaves no withdrawal pending beside a live position.
LEMMA BesideStep ==
  ASSUME RunsInv, NoLivePositionBesideWithdrawal, [Next]_vars
  PROVE  NoLivePositionBesideWithdrawal'
<1> TypeOK /\ RunInv /\ kind' = kind
  BY KindKept DEF RunsInv, PaidInv
<1> Withdrawals' = Withdrawals
  BY DEF Withdrawals
<1>1. ASSUME position' = position, NEW q \in Payment, NEW to,
             UNCHANGED status \/ status' = [status EXCEPT ![q] = to],
             position = "live" /\ q \in Withdrawals =>
               UNCHANGED status \/ to \in {"none", "confirmed", "failed"}
      PROVE  NoLivePositionBesideWithdrawal'
  BY <1>1 DEF NoLivePositionBesideWithdrawal, TypeOK, Withdrawals
<1>2. ASSUME UNCHANGED <<status, position>> PROVE NoLivePositionBesideWithdrawal'
  BY <1>2 DEF NoLivePositionBesideWithdrawal
<1>3. ASSUME NEW q \in Payment, RequestWithdrawal(q) PROVE NoLivePositionBesideWithdrawal'
  BY <1>3 DEF RequestWithdrawal, NoLivePositionBesideWithdrawal
<1>4. ASSUME NEW m \in {"live", "demo"}, OpenPosition(m) PROVE NoLivePositionBesideWithdrawal'
  BY <1>4 DEF OpenPosition, NoWithdrawalPending, Pending, Active, rows, Withdrawals, TypeOK,
     NoLivePositionBesideWithdrawal
<1>5. CASE ClosePosition
  BY <1>5 DEF ClosePosition, NoLivePositionBesideWithdrawal
<1>6. ASSUME NEW t \in Thread, LoadWithdrawal(t) \/ LoadOrCreate(t) \/ ThreadStep(t)
      PROVE  NoLivePositionBesideWithdrawal'
  <2>1. Job(t) \in Payment
    BY DEF Job, Thread
  <2>2. position' = position
    BY <1>6 DEF LoadWithdrawal, LoadOrCreate, ThreadStep, Sign, PrepareFails, Resume,
       RecoverByHash, Send, MarkBroadcast, Record, ReceiptTimeout, MarkRetryable, MarkRejected,
       MarkSuperseded, Finish
  <2>3. UNCHANGED status \/ \E to : status' = [status EXCEPT ![Job(t)] = to]
    BY <1>6 DEF LoadWithdrawal, LoadOrCreate, ThreadStep, Sign, MarkSigned, PrepareFails, Resume,
       RecoverByHash, Send, MarkBroadcast, Record, ReceiptTimeout, MarkRetryable, MarkRejected,
       MarkSuperseded, Finish, rows
  <2>4. Job(t) \in Withdrawals /\ ~UNCHANGED status => Pending(Job(t))
    BY <1>6 DEF LoadWithdrawal, LoadOrCreate, ThreadStep, Sign, PrepareFails, Resume,
       RecoverByHash, Send, MarkBroadcast, Record, ReceiptTimeout, MarkRetryable, MarkRejected,
       MarkSuperseded, rows, RunInv, Busy, Pending, Withdrawals
  <2>5. position = "live" /\ Job(t) \in Withdrawals => ~Pending(Job(t))
    BY DEF NoLivePositionBesideWithdrawal, Pending, Active
  <2> QED
    BY <1>1, <2>1, <2>2, <2>3, <2>4, <2>5
<1>7. \/ UNCHANGED <<status, position>>
      \/ \E q \in Payment : RequestWithdrawal(q)
      \/ \E m \in {"live", "demo"} : OpenPosition(m)
      \/ ClosePosition
      \/ \E t \in Thread : LoadWithdrawal(t) \/ LoadOrCreate(t) \/ ThreadStep(t)
  BY DEF Next, Warm, Mine, Crash, rows, vars
<1> QED
  BY <1>2, <1>3, <1>4, <1>5, <1>6, <1>7

\* While the user's position is live no withdrawal is pending: the two gates of the API
\* hold, and no late write of the worker brings a withdrawal back.
THEOREM LiveExcludesWithdrawal == Spec => []NoLivePositionBesideWithdrawal
<1>1. Init => NoLivePositionBesideWithdrawal
  BY DEF Init, NoLivePositionBesideWithdrawal
<1>2. RunsInv /\ NoLivePositionBesideWithdrawal /\ [Next]_vars => NoLivePositionBesideWithdrawal'
  BY BesideStep
<1> QED
  BY <1>1, <1>2, AlwaysRuns, PTL DEF Spec

-----------------------------------------------------------------------------
(* A cache that was never dropped hands every nonce out once *)

\* The nonces below the chain's next one were used by executed transactions.
MinedBelow ==
  \A s \in Sender : \A m \in Nat : m < latest[s] =>
    \E tx \in mined : TxSender(tx) = s /\ tx.nonce = m

\* The signed payments of a sender have their own nonces, all below the cached one.
Distinct(s) ==
  /\ \A p \in Payment : \A x \in stored[p] : SenderOf(p) = s => x.nonce < next[s]
  /\ \A p, q \in Payment : \A x \in stored[p], y \in stored[q] :
       SenderOf(p) = s /\ SenderOf(q) = s /\ x.nonce = y.nonce => x = y

NonceInv == MinedBelow /\ \A s \in Sender : ~dropped[s] => Distinct(s)

\* Steps that sign nothing: the cached nonce only grows, or the cache is dropped.
LEMMA NoncesGrow ==
  ASSUME TypeOK, TypeOK', NonceInv, UNCHANGED <<kind, stored>>, MinedBelow',
         \A s \in Sender : \/ dropped'[s]
                           \/ dropped'[s] = dropped[s] /\ next'[s] >= next[s]
  PROVE  NonceInv'
<1> SUFFICES ASSUME NEW s \in Sender, ~dropped'[s] PROVE Distinct(s)'
  BY DEF NonceInv
<1>1. Distinct(s) /\ next'[s] >= next[s]
  BY DEF NonceInv
<1>2. \A p \in Payment : \A x \in stored[p] : x.nonce \in Nat
  BY DEF TypeOK, Tx
<1>3. next[s] \in Int /\ next'[s] \in Int
  BY DEF TypeOK, Unread
<1> QED
  BY <1>1, <1>2, <1>3 DEF Distinct, SenderOf

LEMMA MinedBelowStep ==
  ASSUME PaidInv, MinedBelow, [Next]_vars
  PROVE  MinedBelow'
<1> TypeOK /\ kind' = kind
  BY KindKept DEF PaidInv
<1>1. ASSUME UNCHANGED <<latest, mined>> PROVE MinedBelow'
  BY <1>1 DEF MinedBelow, TxSender, SenderOf
<1>2. ASSUME NEW tx \in pool, Mine(tx) PROVE MinedBelow'
  <2>1. TxSender(tx) \in Sender
    BY DEF TypeOK, Tx, TxSender, SenderOf, Sender
  <2>2. /\ \A s \in Sender : latest'[s] = IF s = TxSender(tx) THEN latest[s] + 1 ELSE latest[s]
        /\ mined' = mined \cup {tx} /\ tx.nonce = latest[TxSender(tx)]
    BY <1>2 DEF Mine, TypeOK
  <2>3. \A y : TxSender(y)' = TxSender(y)
    BY DEF TxSender, SenderOf
  <2>4. ASSUME NEW s \in Sender, NEW m \in Nat, m < latest'[s]
        PROVE  \E y \in mined' : TxSender(y) = s /\ y.nonce = m
    <3>1. CASE m < latest[s]
      BY <2>2, <3>1 DEF MinedBelow
    <3>2. CASE ~(m < latest[s])
      <4>1. s = TxSender(tx) /\ m = latest[s]
        BY <2>2, <2>4, <3>2 DEF TypeOK
      <4> QED
        BY <2>2, <4>1
    <3> QED
      BY <3>1, <3>2
  <2> QED
    BY <2>3, <2>4 DEF MinedBelow
<1>3. UNCHANGED <<latest, mined>> \/ \E tx \in pool : Mine(tx)
  BY DEF Next, vars, chain, ThreadStep, Warm, RequestWithdrawal, OpenPosition, ClosePosition,
     LoadWithdrawal, LoadOrCreate, Sign, PrepareFails, Resume, RecoverByHash, Send, MarkBroadcast,
     Record, ReceiptTimeout, MarkRetryable, MarkRejected, MarkSuperseded, Finish, Crash
<1> QED
  BY <1>1, <1>2, <1>3

\* A fresh nonce lies above every nonce a cache that was never dropped handed out.
LEMMA FreshNonce ==
  ASSUME TypeOK, TypeOK', NonceInv, MinedBelow', UNCHANGED <<kind, dropped>>, NEW p \in Payment,
         NEW n \in Reservable(SenderOf(p)), Reserve(SenderOf(p), n), NEW tx \in Tx,
         tx.payment = p, tx.nonce = n, stored' = [stored EXCEPT ![p] = {tx}]
  PROVE  NonceInv'
<1> SUFFICES ASSUME NEW s \in Sender, ~dropped[s] PROVE Distinct(s)'
  BY DEF NonceInv
<1>1. Distinct(s) /\ SenderOf(p) \in Sender
  BY SenderIsTyped DEF NonceInv
<1>2. \A q \in Payment : stored'[q] = IF q = p THEN {tx} ELSE stored[q]
  BY DEF TypeOK
<1>3. next'[s] = IF s = SenderOf(p) THEN n + 1 ELSE next[s]
  BY DEF Reserve, TypeOK
<1>4. \A q \in Payment : \A x \in stored[q] : x.nonce \in Nat
  BY DEF TypeOK, Tx
<1>5. n \in Nat /\ next[s] \in Int
  BY <1>1, ReservableIsNat DEF TypeOK, Unread
<1>6. ASSUME s = SenderOf(p)
      PROVE  \A q \in Payment : \A x \in stored[q] : SenderOf(q) = s => x.nonce < n
  <2>1. CASE next[s] = Unread
    BY <1>1, <1>4, <2>1 DEF Distinct, Unread
  <2>2. CASE next[s] # Unread
    BY <1>1, <1>6, <2>2 DEF Distinct, Reservable
  <2> QED
    BY <2>1, <2>2
<1>7. \A q \in Payment : SenderOf(q)' = SenderOf(q)
  BY DEF SenderOf
<1>8. CASE s = SenderOf(p)
  <2>1. \A q \in Payment : \A x \in stored'[q] : SenderOf(q) = s => x.nonce < n + 1
    BY <1>2, <1>4, <1>5, <1>6, <1>8
  <2>2. ASSUME NEW q \in Payment, NEW r \in Payment, NEW x \in stored'[q], NEW y \in stored'[r],
               SenderOf(q) = s, SenderOf(r) = s, x.nonce = y.nonce
        PROVE  x = y
    <3>1. CASE q # p /\ r # p
      BY <1>1, <1>2, <2>2, <3>1 DEF Distinct
    <3>2. CASE q = p /\ r = p
      BY <1>2, <3>2
    <3>3. CASE q = p /\ r # p
      BY <1>2, <1>4, <1>5, <1>6, <1>8, <2>2, <3>3
    <3>4. CASE q # p /\ r = p
      BY <1>2, <1>4, <1>5, <1>6, <1>8, <2>2, <3>4
    <3> QED
      BY <3>1, <3>2, <3>3, <3>4
  <2> QED
    BY <1>3, <1>7, <1>8, <2>1, <2>2 DEF Distinct
<1>9. CASE s # SenderOf(p)
  BY <1>1, <1>2, <1>3, <1>7, <1>9 DEF Distinct
<1> QED
  BY <1>8, <1>9

LEMMA NonceStep ==
  ASSUME PaidInv, NonceInv, [Next]_vars
  PROVE  NonceInv'
<1> TypeOK /\ TypeOK' /\ kind' = kind /\ MinedBelow'
  BY KindKept, StepTyped, MinedBelowStep DEF PaidInv, NonceInv
<1>0. \A s \in Sender : next[s] \in Int /\ next'[s] \in Int
  BY DEF TypeOK, Unread
<1>1. ASSUME UNCHANGED <<stored, next, dropped>> PROVE NonceInv'
  BY <1>0, <1>1, NoncesGrow
<1>2. ASSUME NEW r \in Sender, NEW n \in Nat, Advance(r, n), UNCHANGED <<stored, dropped>>
      PROVE  NonceInv'
  <2>1. \A s \in Sender : next'[s] >= next[s]
    BY <1>0, <1>2 DEF Advance, TypeOK
  <2> QED
    BY <1>2, <2>1, NoncesGrow
<1>3. ASSUME NEW r \in Sender, Invalidate(r), UNCHANGED stored PROVE NonceInv'
  <2>1. \A s \in Sender : \/ dropped'[s]
                          \/ dropped'[s] = dropped[s] /\ next'[s] >= next[s]
    BY <1>0, <1>3 DEF Invalidate, TypeOK
  <2> QED
    BY <1>3, <2>1, NoncesGrow
<1>4. ASSUME NEW r \in Sender, Warm(r) PROVE NonceInv'
  <2>1. PICK n \in PendingCounts(r) : Advance(r, n)
    BY <1>4 DEF Warm
  <2> QED
    BY <1>2, <1>4, <2>1, ReservableIsNat DEF Warm, rows
<1>5. ASSUME NEW t \in Thread, Sign(t) PROVE NonceInv'
  <2> DEFINE p == Job(t)
             s == SenderOf(p)
  <2>1. p \in Payment /\ s \in Sender
    BY SenderIsTyped DEF Job, Thread
  <2>2. PICK n \in Reservable(s), f \in Fee :
          \/ /\ MarkSigned(p, [payment |-> p, nonce |-> n, fee |-> f])
             /\ Reserve(s, n) /\ UNCHANGED dropped
          \/ Invalidate(s) /\ UNCHANGED stored
    BY <1>5 DEF Sign
  <2>3. CASE Invalidate(s) /\ UNCHANGED stored
    BY <1>3, <2>1, <2>3
  <2>4. CASE /\ MarkSigned(p, [payment |-> p, nonce |-> n, fee |-> f])
             /\ Reserve(s, n) /\ UNCHANGED dropped
    <3>1. PICK tx \in Tx : tx = [payment |-> p, nonce |-> n, fee |-> f]
      BY <2>1, ReservableIsNat DEF Tx
    <3>2. tx.payment = p /\ tx.nonce = n /\ stored' = [stored EXCEPT ![p] = {tx}]
      BY <2>4, <3>1 DEF MarkSigned
    <3> QED
      BY <2>1, <2>2, <2>4, <3>1, <3>2, FreshNonce
  <2> QED
    BY <2>2, <2>3, <2>4
<1>6. ASSUME NEW t \in Thread, PrepareFails(t) PROVE NonceInv'
  <2>1. SenderOf(Job(t)) \in Sender
    BY SenderIsTyped DEF Job, Thread
  <2> QED
    BY <1>3, <1>6, <2>1 DEF PrepareFails, rows
<1>7. ASSUME NEW t \in Thread, Resume(t) PROVE NonceInv'
  <2>1. SenderOf(Job(t)) \in Sender
    BY SenderIsTyped DEF Job, Thread
  <2>2. PICK tx \in hand[t] : Advance(SenderOf(Job(t)), tx.nonce + 1)
    BY <1>7 DEF Resume
  <2>3. tx.nonce + 1 \in Nat
    BY DEF TypeOK, Tx
  <2> QED
    BY <1>2, <1>7, <2>1, <2>2, <2>3 DEF Resume, rows
<1>8. ASSUME NEW t \in Thread, Send(t) PROVE NonceInv'
  <2>1. PICK tx \in hand[t] : SendAccepted(t, tx) \/ SendFails(t, tx)
    BY <1>8 DEF Send
  <2>2. TxSender(tx) \in Sender
    BY DEF TypeOK, Tx, TxSender, SenderOf, Sender
  <2>3. UNCHANGED stored
    BY <1>8 DEF Send, rows
  <2> QED
    BY <1>1, <1>3, <2>1, <2>2, <2>3 DEF SendAccepted, SendFails
<1>9. CASE Crash
  BY <1>9, NoncesGrow DEF Crash, rows
<1>10. \/ UNCHANGED <<stored, next, dropped>>
       \/ \E r \in Sender : Warm(r)
       \/ \E t \in Thread : Sign(t) \/ PrepareFails(t) \/ Resume(t) \/ Send(t)
       \/ Crash
  BY DEF Next, vars, rows, ThreadStep, RequestWithdrawal, OpenPosition, ClosePosition,
     LoadWithdrawal, LoadOrCreate, RecoverByHash, MarkBroadcast, Record, ReceiptTimeout,
     MarkRetryable, MarkRejected, MarkSuperseded, Finish, Mine
<1> QED
  BY <1>1, <1>4, <1>5, <1>6, <1>7, <1>8, <1>9, <1>10

\* A payment that is signed keeps its nonce for as long as EvmNonceCoordinator never dropped
\* its cache: only a failed preparation, a failed send or a restart lets another one take it.
THEOREM NoncesAreKept == Spec => []NonceKept
<1>1. Init => NonceInv
  BY DEF Init, NonceInv, MinedBelow, Distinct
<1>2. PaidInv /\ NonceInv /\ [Next]_vars => NonceInv'
  BY NonceStep
<1>3. PaidInv /\ NonceInv => NonceKept
  <2> SUFFICES ASSUME PaidInv, NonceInv, NEW p \in Payment, NEW x \in stored[p] \ mined,
                      x.nonce < latest[TxSender(x)], ~dropped[TxSender(x)]
               PROVE  FALSE
    BY DEF NonceKept
  <2>1. TypeOK /\ x.payment = p /\ x.nonce \in Nat /\ TxSender(x) \in Sender
    BY DEF PaidInv, RowsHold, TypeOK, Tx, TxSender, SenderOf, Sender
  <2>2. PICK y \in mined : TxSender(y) = TxSender(x) /\ y.nonce = x.nonce
    BY <2>1 DEF NonceInv, MinedBelow
  <2>3. y.payment \in Payment /\ y \in stored[y.payment]
    BY <2>1 DEF PaidInv, StoredBeforeSent, TypeOK, Tx
  <2>4. x = y
    BY <2>1, <2>2, <2>3 DEF NonceInv, Distinct, TxSender
  <2> QED
    BY <2>4
<1> QED
  BY <1>1, <1>2, <1>3, AlwaysPaid, PTL DEF Spec
=============================================================================
