--------------------------- MODULE AvantisService ---------------------------
(***************************************************************************)
(* Avantis orders of all users leave through one service wallet on Base.   *)
(* Every call runs as a coroutine on the runtime's event loop while the    *)
(* worker's thread waits for it, and the thread gives up after a time      *)
(* while the coroutine goes on.  One lock covers the nonce, the signature, *)
(* the record in the database and the broadcast; the transfers that set a  *)
(* wallet up take their nonces under the same lock and are not recorded.   *)
(*                                                                         *)
(* From tick_mvp/venues/avantis/runtime.py and execution/repository.py.    *)
(* The release of a claim whose thread still runs is left to LiveTrading.  *)
(***************************************************************************)
EXTENDS Integers, FiniteSets

CONSTANTS
  Order,       \* execution attempts, opens and closes of any users
  Setup,       \* preparations of wallets that need gas
  BaseNonces,  \* bound: nonces the service wallet may use are below it
  MaxRestarts  \* bound on restarts of the worker

\* An attempt is not the preparation of a wallet, and a nonce is a number.
ASSUME OrdersAreNotSetups == Order \cap Setup = {}
ASSUME BaseNoncesIsNat == BaseNonces \in Nat

VARIABLES
  attempt,     \* [Order -> AttemptState], the row's status
  kept,        \* [Order -> SUBSET Nat], nonce of the stored transaction, at most one
  caller,      \* [Order -> BOOLEAN], a thread of the worker waits for the coroutine
  task,        \* [Order \cup Setup -> place], where the coroutine is
  nonceOf,     \* [Order \cup Setup -> Nat or Unset], the nonce it signed
  serviceNext, \* Nat or Unset, _service_next_nonce
  baseNext,    \* the chain's next nonce of the service wallet
  basePool,    \* transactions a node took and that are not on chain
  onBase,      \* transactions on chain
  fills,       \* transactions on chain whose order the keeper filled
  undone,      \* transactions on chain that reverted
  lost,        \* history: nonces whose transaction was neither stored nor taken
  restarts     \* restarts so far

orderVars   == <<attempt, kept, caller>>
taskVars    == <<task, nonceOf>>
baseVars    == <<baseNext, basePool, onBase, fills, undone>>
avantisVars == <<orderVars, taskVars, serviceNext, baseVars, lost, restarts>>

Unset == -1
Coroutine  == Order \cup Setup
AttemptState == {"created", "claimed", "pending", "unknown", "executed", "failed"}
BaseTx == [job : Coroutine, nonce : Nat]

\* The statuses the recovery loop visits.
Visited == {"pending", "unknown"}

ServiceLockFree == \A j \in Coroutine : task[j] \notin {"signed", "send"}

Move(j, place) == task' = [task EXCEPT ![j] = place]

-----------------------------------------------------------------------------
(* What the thread writes when its call raises *)

\* Faulty form: a stored hash does not make the attempt ambiguous.
FailedOutright(o) == [attempt EXCEPT ![o] = IF @ = "executed" THEN @ ELSE "failed"]

Resolved == {"executed", "failed"}

\* mark_failed: a stored hash makes the attempt ambiguous; a row that is over
\* admits no other status.
MarkedFailed(o) ==
  [attempt EXCEPT ![o] = IF @ \in Resolved THEN @
                         ELSE IF kept[o] = {} THEN "failed" ELSE "unknown"]

\* The coroutine of j ends with an exception; only a waiting thread hears of it.
TaskRaises(j) ==
  /\ Move(j, "over")
  /\ IF j \in Order /\ caller[j]
       THEN attempt' = MarkedFailed(j) /\ caller' = [caller EXCEPT ![j] = FALSE]
       ELSE UNCHANGED <<attempt, caller>>

-----------------------------------------------------------------------------
(* Starting *)

ClaimOrder(o) ==
  /\ attempt[o] = "created" /\ task[o] = "idle"
  /\ attempt' = [attempt EXCEPT ![o] = "claimed"]
  /\ caller' = [caller EXCEPT ![o] = TRUE]
  /\ Move(o, "ready")
  /\ UNCHANGED <<kept, nonceOf, serviceNext, baseVars, lost, restarts>>

StartSetup(s) ==
  /\ task[s] = "idle"
  /\ Move(s, "ready")
  /\ UNCHANGED <<orderVars, nonceOf, serviceNext, baseVars, lost, restarts>>

\* A read fails, the wallet has a trade or needs nothing, the price is too old.
GiveUpBefore(j) ==
  /\ task[j] = "ready"
  /\ TaskRaises(j)
  /\ UNCHANGED <<kept, nonceOf, serviceNext, baseVars, lost, restarts>>

\* The worker died after the claim: redispatch hands the attempt out again.
ReclaimOrder(o) ==
  /\ attempt[o] = "claimed" /\ ~caller[o] /\ task[o] \in {"idle", "over"}
  /\ attempt' = [attempt EXCEPT ![o] = "created"]
  /\ Move(o, "idle")
  /\ UNCHANGED <<kept, caller, nonceOf, serviceNext, baseVars, lost, restarts>>

-----------------------------------------------------------------------------
(* _submit_service_transaction *)

\* get_transaction_count(service, "pending"), whatever of the pool the node saw.
PendingOnBase ==
  {n \in baseNext..BaseNonces :
     \A m \in baseNext..(n - 1) : \E tx \in basePool : tx.nonce = m}

SignForService(j) ==
  /\ task[j] = "ready" /\ ServiceLockFree
  /\ \E seen \in PendingOnBase :
       LET n == IF serviceNext > seen THEN serviceNext ELSE seen IN
       /\ n < BaseNonces
       /\ nonceOf' = [nonceOf EXCEPT ![j] = n]
       /\ serviceNext' = n + 1
  /\ Move(j, "signed")
  /\ UNCHANGED <<orderVars, baseVars, lost, restarts>>

\* Faulty form: a row that is over is prepared and sent all the same.
StoreUnchecked(o) ==
  /\ task[o] = "signed"
  /\ attempt' = [attempt EXCEPT ![o] = IF @ = "claimed" THEN "pending" ELSE @]
  /\ kept' = [kept EXCEPT ![o] = {nonceOf[o]}]
  /\ Move(o, "send")
  /\ UNCHANGED <<caller, nonceOf, serviceNext, baseVars, lost, restarts>>

\* on_transaction_prepared is mark_broadcast_pending: it refuses an attempt that
\* has failed meanwhile, and the write itself may fail.
StoreOrder(o) ==
  /\ task[o] = "signed"
  /\ \/ /\ attempt[o] = "claimed"
        /\ attempt' = [attempt EXCEPT ![o] = "pending"]
        /\ kept' = [kept EXCEPT ![o] = {nonceOf[o]}]
        /\ Move(o, "send")
        /\ UNCHANGED <<caller, lost>>
     \/ /\ TaskRaises(o)
        /\ lost' = lost \cup {nonceOf[o]}
        /\ UNCHANGED kept
  /\ UNCHANGED <<nonceOf, serviceNext, baseVars, restarts>>

\* A node takes a transaction whose nonce is not used, on chain or in the pool, and
\* one it knows.
TakenNew(tx) ==
  /\ tx.nonce >= baseNext
  /\ \A other \in basePool : other.nonce # tx.nonce
  /\ basePool' = basePool \cup {tx}

Taken(tx) ==
  \/ tx \in basePool \cup onBase /\ UNCHANGED basePool
  \/ TakenNew(tx)

SignedTx(j) == [job |-> j, nonce |-> nonceOf[j]]

BaseSend(j) ==
  /\ task[j] = IF j \in Order THEN "send" ELSE "signed"
  /\ \/ /\ Taken(SignedTx(j))
        /\ Move(j, "await")
        /\ UNCHANGED <<attempt, caller, lost>>
     \/ /\ Taken(SignedTx(j)) \/ UNCHANGED basePool  \* and the answers are lost
        /\ TaskRaises(j)
        /\ lost' = IF j \in Setup THEN lost \cup {nonceOf[j]} ELSE lost
  /\ UNCHANGED <<kept, nonceOf, serviceNext, baseNext, onBase, fills, undone, restarts>>

-----------------------------------------------------------------------------
(* Receipt and callback *)

SeeCallback(j) ==
  /\ task[j] = "await"
  /\ IF j \in Order THEN SignedTx(j) \in fills ELSE SignedTx(j) \in onBase \ undone
  /\ Move(j, "over")
  /\ IF j \in Order /\ caller[j]
       THEN /\ attempt' = [attempt EXCEPT ![j] = "executed"]
            /\ caller' = [caller EXCEPT ![j] = FALSE]
       ELSE UNCHANGED <<attempt, caller>>
  /\ UNCHANGED <<kept, nonceOf, serviceNext, baseVars, lost, restarts>>

\* No receipt or callback in time, a canceled open, a reverted transaction.
AwaitFails(j) ==
  /\ task[j] = "await"
  /\ TaskRaises(j)
  /\ UNCHANGED <<kept, nonceOf, serviceNext, baseVars, lost, restarts>>

\* _call: the thread stops waiting, the coroutine is not cancelled.
CallTimesOut(o) ==
  /\ caller[o] /\ task[o] # "over"
  /\ attempt' = MarkedFailed(o)
  /\ caller' = [caller EXCEPT ![o] = FALSE]
  /\ UNCHANGED <<kept, taskVars, serviceNext, baseVars, lost, restarts>>

-----------------------------------------------------------------------------
(* _recover, and the write of what it found *)

Resend(o) ==
  LET tx(n) == [job |-> o, nonce |-> n] IN
  /\ attempt[o] \in Visited
  /\ \E n \in kept[o] : TakenNew(tx(n))
  /\ UNCHANGED <<orderVars, taskVars, serviceNext, baseNext, onBase, fills, undone, lost, restarts>>

RecoverOrder(o) ==
  /\ attempt[o] \in Visited
  /\ \E n \in kept[o] : [job |-> o, nonce |-> n] \in fills
  /\ attempt' = [attempt EXCEPT ![o] = "executed"]
  /\ UNCHANGED <<kept, caller, taskVars, serviceNext, baseVars, lost, restarts>>

\* The receipt says that the transaction reverted.
RecoverReverted(o) ==
  /\ attempt[o] \in Visited
  /\ \E n \in kept[o] : [job |-> o, nonce |-> n] \in undone
  /\ attempt' = [attempt EXCEPT ![o] = "failed"]
  /\ UNCHANGED <<kept, caller, taskVars, serviceNext, baseVars, lost, restarts>>

-----------------------------------------------------------------------------
(* The chain and the process *)

MineOnBase(tx) ==
  /\ tx \in basePool /\ tx.nonce = baseNext
  /\ baseNext' = baseNext + 1
  /\ basePool' = {other \in basePool : other.nonce > tx.nonce}
  /\ onBase' = onBase \cup {tx}
  /\ \/ fills' = fills \cup {tx} /\ UNCHANGED undone
     \/ undone' = undone \cup {tx} /\ UNCHANGED fills
     \/ UNCHANGED <<fills, undone>>          \* the keeper cancels, or is slow for good
  /\ UNCHANGED <<orderVars, taskVars, serviceNext, lost, restarts>>

RestartWorker ==
  /\ restarts < MaxRestarts
  /\ restarts' = restarts + 1
  /\ task' = [j \in Coroutine |-> IF task[j] = "idle" THEN "idle" ELSE "over"]
  /\ caller' = [o \in Order |-> FALSE]
  /\ serviceNext' = Unset
  /\ lost' = {}
  /\ UNCHANGED <<attempt, kept, nonceOf, baseVars>>

AvantisInit ==
  /\ attempt = [o \in Order |-> "created"]
  /\ kept = [o \in Order |-> {}]
  /\ caller = [o \in Order |-> FALSE]
  /\ task = [j \in Coroutine |-> "idle"]
  /\ nonceOf = [j \in Coroutine |-> Unset]
  /\ serviceNext = Unset /\ baseNext = 0
  /\ basePool = {} /\ onBase = {} /\ fills = {} /\ undone = {} /\ lost = {} /\ restarts = 0

AvantisNext ==
  \/ \E s \in Setup : StartSetup(s)
  \/ \E j \in Coroutine : GiveUpBefore(j) \/ SignForService(j) \/ BaseSend(j)
                      \/ SeeCallback(j) \/ AwaitFails(j)
  \/ \E o \in Order : ClaimOrder(o) \/ ReclaimOrder(o) \/ StoreOrder(o) \/ CallTimesOut(o)
                       \/ Resend(o) \/ RecoverOrder(o) \/ RecoverReverted(o)
  \/ \E tx \in basePool : MineOnBase(tx)
  \/ RestartWorker

AvantisSpec == AvantisInit /\ [][AvantisNext]_avantisVars

-----------------------------------------------------------------------------
(* Properties *)

\* An attempt that failed for good placed no order and never will, although its
\* coroutine may outlive the thread that gave up on it.
FailedOrderIsHarmless ==
  \A o \in Order : attempt[o] = "failed" => \A tx \in basePool \cup fills : tx.job # o

\* Whatever holds back the wallet's later transactions is a transaction some
\* coroutine still sends, one the recovery loop sends again, or one that was
\* never stored and failed to leave.
GapIsRecoverable ==
  \A n \in baseNext..(serviceNext - 1) :
    \/ n \in lost
    \/ \E tx \in basePool : tx.nonce = n
    \/ \E j \in Coroutine : task[j] \in {"signed", "send"} /\ nonceOf[j] = n
    \/ \E o \in Order : kept[o] = {n} /\ attempt[o] \in Visited
=============================================================================
