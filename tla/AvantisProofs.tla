---------------------------- MODULE AvantisProofs ----------------------------
(***************************************************************************)
(* Theorems about AvantisService, for any number of orders, preparations   *)
(* of wallets, nonces and restarts.                                        *)
(***************************************************************************)
EXTENDS AvantisService, TLAPS

USE OrdersAreNotSetups, BaseNoncesIsNat

-----------------------------------------------------------------------------
(* The inductive invariant *)

AvantisTypeOK ==
  /\ attempt \in [Order -> AttemptState]
  /\ kept \in [Order -> SUBSET Nat]
  /\ caller \in [Order -> BOOLEAN]
  /\ task \in [Coroutine -> {"idle", "ready", "signed", "send", "await", "over"}]
  /\ nonceOf \in [Coroutine -> Nat \cup {Unset}]
  /\ serviceNext \in Nat \cup {Unset}
  /\ baseNext \in Nat
  /\ basePool \subseteq BaseTx /\ onBase \subseteq BaseTx
  /\ fills \subseteq onBase /\ undone \subseteq onBase

\* A coroutine past its signature has a nonce, and an order past the write of its row
\* is about to send, or sent, what the row stores.
SignedIsStored ==
  /\ \A j \in Coroutine : task[j] \in {"signed", "send", "await"} => nonceOf[j] \in Nat
  /\ \A o \in Order : task[o] \in {"send", "await"} => kept[o] = {nonceOf[o]}

\* An attempt stores one nonce, none before it was signed for; it is over with a
\* stored nonce only if the chain used that nonce, and failed only if it reverted.
StatusFollowsChain ==
  \A o \in Order :
    /\ attempt[o] \in {"created", "claimed"} => kept[o] = {}
    /\ \A n \in kept[o] :
         /\ kept[o] = {n}
         /\ attempt[o] = "executed" => n < baseNext
         /\ attempt[o] = "failed" => [job |-> o, nonce |-> n] \in undone

\* The chain executes nonces in order, and an order sends nothing but what it stores.
ChainKeepsOrder ==
  /\ \A tx \in basePool : tx.nonce >= baseNext
  /\ \A tx \in onBase : tx.nonce < baseNext
  /\ fills \cap undone = {}
  /\ \A tx \in basePool \cup onBase : tx.job \in Order => kept[tx.job] = {tx.nonce}

AvantisInv ==
  /\ AvantisTypeOK /\ SignedIsStored /\ StatusFollowsChain /\ ChainKeepsOrder
  /\ GapIsRecoverable

-----------------------------------------------------------------------------
(* What the operators of the model do *)

\* The thread that hears of an exception fails an attempt without a stored nonce,
\* leaves one that is over, and hands any other to the recovery loop.
LEMMA MarkedFailedIs ==
  ASSUME AvantisTypeOK, NEW o \in Order
  PROVE  /\ MarkedFailed(o) \in [Order -> AttemptState]
         /\ \A p \in Order \ {o} : MarkedFailed(o)[p] = attempt[p]
         /\ \/ attempt[o] \in Resolved /\ MarkedFailed(o)[o] = attempt[o]
            \/ attempt[o] \notin Resolved /\ kept[o] = {} /\ MarkedFailed(o)[o] = "failed"
            \/ attempt[o] \notin Resolved /\ kept[o] # {} /\ MarkedFailed(o)[o] = "unknown"
  BY DEF MarkedFailed, AvantisTypeOK, AttemptState, Resolved

\* An exception ends the coroutine, and changes at most the attempt of the order.
LEMMA RaiseIs ==
  ASSUME AvantisTypeOK, NEW j \in Coroutine, TaskRaises(j)
  PROVE  /\ task' = [task EXCEPT ![j] = "over"]
         /\ attempt' = attempt \/ (j \in Order /\ attempt' = MarkedFailed(j))
         /\ caller' \in [Order -> BOOLEAN]
  BY DEF TaskRaises, Move, AvantisTypeOK

\* A nonce that is signed is the smallest the cache and the node allow.
LEMMA PendingIsNat ==
  ASSUME AvantisTypeOK, NEW seen \in PendingOnBase
  PROVE  /\ seen \in Nat /\ baseNext <= seen
         /\ \A m \in baseNext..(seen - 1) : \E tx \in basePool : tx.nonce = m
  BY DEF PendingOnBase, AvantisTypeOK

LEMMA SignIs ==
  ASSUME AvantisTypeOK, NEW j \in Coroutine, SignForService(j)
  PROVE  \E n \in Nat, seen \in PendingOnBase :
           /\ n = IF serviceNext > seen THEN serviceNext ELSE seen
           /\ seen \in Nat /\ n >= seen /\ n >= serviceNext
           /\ serviceNext' = n + 1
           /\ nonceOf' = [nonceOf EXCEPT ![j] = n]
           /\ task' = [task EXCEPT ![j] = "signed"]
<1>1. PICK seen \in PendingOnBase :
        LET n == IF serviceNext > seen THEN serviceNext ELSE seen IN
        nonceOf' = [nonceOf EXCEPT ![j] = n] /\ serviceNext' = n + 1
  BY DEF SignForService
<1> DEFINE n == IF serviceNext > seen THEN serviceNext ELSE seen
<1>2. seen \in Nat /\ serviceNext \in Int
  BY PendingIsNat DEF AvantisTypeOK, Unset
<1>3. n \in Nat /\ n >= seen /\ n >= serviceNext
  BY <1>2 DEF AvantisTypeOK, Unset
<1> QED
  BY <1>1, <1>2, <1>3 DEF SignForService, Move

\* Whatever is taken is in the pool then, or on chain.
LEMMA TakenIs ==
  ASSUME NEW tx, Taken(tx)
  PROVE  /\ basePool \subseteq basePool' /\ basePool' \subseteq basePool \cup {tx}
         /\ tx \in basePool' \cup onBase
         /\ tx \in basePool' \ basePool =>
              tx.nonce >= baseNext /\ \A other \in basePool : other.nonce # tx.nonce
  BY DEF Taken, TakenNew

-----------------------------------------------------------------------------
(* Types *)

LEMMA AvantisInitTyped == AvantisInit => AvantisTypeOK
  BY DEF AvantisInit, AvantisTypeOK, AttemptState, Coroutine, Unset

LEMMA AvantisStepTyped ==
  ASSUME AvantisTypeOK, SignedIsStored, [AvantisNext]_avantisVars
  PROVE  AvantisTypeOK'
<1> USE DEF AvantisTypeOK, orderVars, taskVars, baseVars, Move, AttemptState
<1>1. CASE UNCHANGED avantisVars
  BY <1>1 DEF avantisVars
<1>2. ASSUME NEW s \in Setup, StartSetup(s) PROVE AvantisTypeOK'
  BY <1>2 DEF StartSetup
<1>3. ASSUME NEW j \in Coroutine, GiveUpBefore(j) \/ AwaitFails(j) PROVE AvantisTypeOK'
  <2>1. /\ TaskRaises(j)
        /\ UNCHANGED <<kept, nonceOf, serviceNext, baseNext, basePool, onBase, fills, undone>>
    BY <1>3 DEF GiveUpBefore, AwaitFails
  <2>2. attempt' \in [Order -> AttemptState]
    BY <2>1, RaiseIs, MarkedFailedIs
  <2> QED
    BY <2>1, <2>2, RaiseIs
<1>4. ASSUME NEW j \in Coroutine, SignForService(j) PROVE AvantisTypeOK'
  <2>1. UNCHANGED <<attempt, kept, caller, baseNext, basePool, onBase, fills, undone>>
    BY <1>4 DEF SignForService
  <2>2. PICK n \in Nat : /\ serviceNext' = n + 1
                         /\ nonceOf' = [nonceOf EXCEPT ![j] = n]
                         /\ task' = [task EXCEPT ![j] = "signed"]
    BY <1>4, SignIs
  <2> QED
    BY <2>1, <2>2
<1>5. ASSUME NEW j \in Coroutine, BaseSend(j) PROVE AvantisTypeOK'
  <2>1. nonceOf[j] \in Nat
    BY <1>5 DEF BaseSend, SignedIsStored
  <2>2. SignedTx(j) \in BaseTx
    BY <2>1 DEF SignedTx, BaseTx
  <2>3. basePool' \subseteq BaseTx
    BY <1>5, <2>2, TakenIs DEF BaseSend
  <2> QED
    BY <1>5, <2>3, RaiseIs, MarkedFailedIs DEF BaseSend
<1>6. ASSUME NEW j \in Coroutine, SeeCallback(j) PROVE AvantisTypeOK'
  <2>1. CASE j \in Order /\ caller[j]
    BY <1>6, <2>1 DEF SeeCallback
  <2>2. CASE ~(j \in Order /\ caller[j])
    BY <1>6, <2>2 DEF SeeCallback
  <2> QED
    BY <2>1, <2>2
<1>7. ASSUME NEW o \in Order, ClaimOrder(o) \/ ReclaimOrder(o) PROVE AvantisTypeOK'
  BY <1>7 DEF ClaimOrder, ReclaimOrder
<1>8. ASSUME NEW o \in Order, StoreOrder(o) PROVE AvantisTypeOK'
  <2>1. o \in Coroutine /\ nonceOf[o] \in Nat
    BY <1>8 DEF StoreOrder, SignedIsStored, Coroutine
  <2>2. CASE /\ kept' = [kept EXCEPT ![o] = {nonceOf[o]}]
             /\ attempt' = [attempt EXCEPT ![o] = "pending"]
             /\ Move(o, "send") /\ UNCHANGED caller
    BY <1>8, <2>1, <2>2 DEF StoreOrder
  <2>3. CASE TaskRaises(o) /\ UNCHANGED kept
    BY <1>8, <2>1, <2>3, RaiseIs, MarkedFailedIs DEF StoreOrder
  <2> QED
    BY <1>8, <2>2, <2>3 DEF StoreOrder
<1>9. ASSUME NEW o \in Order, CallTimesOut(o) PROVE AvantisTypeOK'
  BY <1>9, MarkedFailedIs DEF CallTimesOut
<1>10. ASSUME NEW o \in Order, Resend(o) PROVE AvantisTypeOK'
  BY <1>10 DEF Resend, TakenNew, BaseTx, Coroutine
<1>11. ASSUME NEW o \in Order, RecoverOrder(o) \/ RecoverReverted(o) PROVE AvantisTypeOK'
  BY <1>11 DEF RecoverOrder, RecoverReverted
<1>12. ASSUME NEW tx \in basePool, MineOnBase(tx) PROVE AvantisTypeOK'
  BY <1>12 DEF MineOnBase
<1>13. CASE RestartWorker
  BY <1>13 DEF RestartWorker
<1> QED
  BY <1>1, <1>2, <1>3, <1>4, <1>5, <1>6, <1>7, <1>8, <1>9, <1>10, <1>11, <1>12, <1>13
  DEF AvantisNext

-----------------------------------------------------------------------------
(* What is stored, and what is sent *)

LEMMA SignedIsStoredStep ==
  ASSUME AvantisInv, [AvantisNext]_avantisVars PROVE SignedIsStored'
<1> USE DEF AvantisInv, AvantisTypeOK, SignedIsStored, orderVars, taskVars, baseVars, Move,
            Coroutine
<1>1. CASE UNCHANGED <<kept, task, nonceOf>>
  BY <1>1
<1>2. ASSUME NEW s \in Setup, StartSetup(s) PROVE SignedIsStored'
  BY <1>2 DEF StartSetup
<1>3. ASSUME NEW j \in Coroutine, GiveUpBefore(j) \/ AwaitFails(j) PROVE SignedIsStored'
  <2>1. UNCHANGED <<kept, nonceOf>> /\ task' = [task EXCEPT ![j] = "over"]
    BY <1>3, RaiseIs DEF GiveUpBefore, AwaitFails
  <2> QED
    BY <2>1
<1>4. ASSUME NEW j \in Coroutine, SignForService(j) PROVE SignedIsStored'
  <2>1. UNCHANGED kept
    BY <1>4 DEF SignForService
  <2>2. PICK n \in Nat : /\ nonceOf' = [nonceOf EXCEPT ![j] = n]
                         /\ task' = [task EXCEPT ![j] = "signed"]
    BY <1>4, SignIs
  <2> QED
    BY <2>1, <2>2
<1>5. ASSUME NEW j \in Coroutine, BaseSend(j) PROVE SignedIsStored'
  <2>1. UNCHANGED <<kept, nonceOf>>
    BY <1>5 DEF BaseSend
  <2>2. \/ task' = [task EXCEPT ![j] = "await"]
        \/ task' = [task EXCEPT ![j] = "over"]
    BY <1>5, RaiseIs DEF BaseSend
  <2>3. task[j] \in {"signed", "send"} /\ (j \in Order => task[j] = "send")
    BY <1>5 DEF BaseSend
  <2> QED
    BY <2>1, <2>2, <2>3
<1>6. ASSUME NEW j \in Coroutine, SeeCallback(j) PROVE SignedIsStored'
  BY <1>6 DEF SeeCallback
<1>7. ASSUME NEW o \in Order, ClaimOrder(o) \/ ReclaimOrder(o) PROVE SignedIsStored'
  BY <1>7 DEF ClaimOrder, ReclaimOrder
<1>8. ASSUME NEW o \in Order, StoreOrder(o) PROVE SignedIsStored'
  <2>1. UNCHANGED nonceOf /\ task[o] = "signed"
    BY <1>8 DEF StoreOrder
  <2>2. \/ kept' = [kept EXCEPT ![o] = {nonceOf[o]}] /\ task' = [task EXCEPT ![o] = "send"]
        \/ UNCHANGED kept /\ task' = [task EXCEPT ![o] = "over"]
    BY <1>8, RaiseIs DEF StoreOrder
  <2> QED
    BY <2>1, <2>2
<1>9. CASE RestartWorker
  BY <1>9 DEF RestartWorker
<1> QED
  BY <1>1, <1>2, <1>3, <1>4, <1>5, <1>6, <1>7, <1>8, <1>9
  DEF AvantisNext, avantisVars, CallTimesOut, Resend, RecoverOrder, RecoverReverted, MineOnBase

\* A transaction that is signed is not overtaken by what the order stores later: a row that
\* stores a nonce stores no other.
LEMMA KeptOnce ==
  ASSUME AvantisInv, [AvantisNext]_avantisVars, NEW o \in Order, kept[o] # {}
  PROVE  kept'[o] = kept[o]
<1> USE DEF AvantisInv, AvantisTypeOK, orderVars, taskVars, baseVars
<1>1. CASE UNCHANGED kept
  BY <1>1
<1>2. ASSUME NEW p \in Order, StoreOrder(p) PROVE kept'[o] = kept[o]
  BY <1>2 DEF StoreOrder, StatusFollowsChain
<1> QED
  BY <1>1, <1>2 DEF AvantisNext, avantisVars, StartSetup, GiveUpBefore, SignForService,
     BaseSend, SeeCallback, AwaitFails, ClaimOrder, ReclaimOrder, CallTimesOut, Resend,
     RecoverOrder, RecoverReverted, MineOnBase, RestartWorker

\* What an order sends, the first time or again, is what it stores.
LEMMA PoolGrows ==
  ASSUME AvantisInv, [AvantisNext]_avantisVars, NEW tx \in basePool' \ basePool
  PROVE  /\ UNCHANGED <<kept, baseNext, onBase, fills, undone>>
         /\ tx.nonce >= baseNext
         /\ tx.job \in Order => kept[tx.job] = {tx.nonce}
<1> USE DEF AvantisInv, orderVars, taskVars, baseVars
<1>1. ASSUME NEW j \in Coroutine, BaseSend(j)
      PROVE  /\ UNCHANGED <<kept, baseNext, onBase, fills, undone>>
             /\ tx.nonce >= baseNext
             /\ tx.job \in Order => kept[tx.job] = {tx.nonce}
  <2>1. UNCHANGED <<kept, baseNext, onBase, fills, undone>>
    BY <1>1 DEF BaseSend
  <2>2. Taken(SignedTx(j))
    BY <1>1 DEF BaseSend
  <2>3. tx = SignedTx(j) /\ tx.nonce >= baseNext
    BY <2>2, TakenIs
  <2>4. tx.job \in Order => kept[tx.job] = {tx.nonce}
    BY <1>1, <2>3 DEF BaseSend, SignedIsStored, SignedTx
  <2> QED
    BY <2>1, <2>3, <2>4
<1>2. ASSUME NEW o \in Order, Resend(o)
      PROVE  /\ UNCHANGED <<kept, baseNext, onBase, fills, undone>>
             /\ tx.nonce >= baseNext
             /\ tx.job \in Order => kept[tx.job] = {tx.nonce}
  BY <1>2 DEF Resend, TakenNew, StatusFollowsChain
<1> QED
  BY <1>1, <1>2 DEF AvantisNext, avantisVars, StartSetup, GiveUpBefore, SignForService,
     SeeCallback, AwaitFails, ClaimOrder, ReclaimOrder, StoreOrder, CallTimesOut,
     RecoverOrder, RecoverReverted, MineOnBase, RestartWorker

LEMMA ChainKeepsOrderStep ==
  ASSUME AvantisInv, [AvantisNext]_avantisVars PROVE ChainKeepsOrder'
<1> USE DEF AvantisInv, orderVars, taskVars, baseVars
<1>1. CASE UNCHANGED <<baseNext, onBase, fills, undone>>
  <2>1. ASSUME NEW tx \in basePool' PROVE tx.nonce >= baseNext
    BY PoolGrows DEF ChainKeepsOrder
  <2>2. ASSUME NEW tx \in basePool' \cup onBase, tx.job \in Order
        PROVE  kept'[tx.job] = {tx.nonce}
    <3>1. kept[tx.job] = {tx.nonce}
      BY <2>2, PoolGrows DEF ChainKeepsOrder
    <3> QED
      BY <2>2, <3>1, KeptOnce
  <2> QED
    BY <1>1, <2>1, <2>2 DEF ChainKeepsOrder
<1>2. ASSUME NEW tx \in basePool, MineOnBase(tx) PROVE ChainKeepsOrder'
  <2>1. /\ baseNext' = baseNext + 1 /\ tx.nonce = baseNext
        /\ basePool' = {other \in basePool : other.nonce > tx.nonce}
        /\ onBase' = onBase \cup {tx} /\ UNCHANGED kept
        /\ fills' \subseteq fills \cup {tx} /\ undone' \subseteq undone \cup {tx}
        /\ fills' = fills \/ undone' = undone
    BY <1>2 DEF MineOnBase
  <2>2. tx \notin onBase
    BY <2>1 DEF ChainKeepsOrder, AvantisTypeOK
  <2>3. fills' \cap undone' = {}
    BY <2>1, <2>2 DEF ChainKeepsOrder, AvantisTypeOK
  <2>4. \A u \in basePool' : u.nonce >= baseNext'
    BY <2>1 DEF AvantisTypeOK, BaseTx
  <2>5. \A u \in onBase' : u.nonce < baseNext'
    BY <2>1 DEF ChainKeepsOrder, AvantisTypeOK, BaseTx
  <2>6. \A u \in basePool' \cup onBase' : u.job \in Order => kept'[u.job] = {u.nonce}
    BY <2>1 DEF ChainKeepsOrder
  <2> QED
    BY <2>3, <2>4, <2>5, <2>6 DEF ChainKeepsOrder
<1> QED
  BY <1>1, <1>2 DEF AvantisNext, avantisVars, StartSetup, GiveUpBefore, SignForService,
     BaseSend, SeeCallback, AwaitFails, ClaimOrder, ReclaimOrder, StoreOrder, CallTimesOut,
     Resend, RecoverOrder, RecoverReverted, RestartWorker

-----------------------------------------------------------------------------
(* What the rows say, and what the chain did *)

\* An attempt that changes by an exception alone still says what the chain did.
LEMMA RaisedFollows ==
  ASSUME AvantisInv, NEW o \in Order, UNCHANGED <<kept, baseNext, undone>>,
         attempt' = attempt \/ \E p \in Order : attempt' = MarkedFailed(p)
  PROVE  /\ attempt'[o] \in {"created", "claimed"} => kept'[o] = {}
         /\ \A n \in kept'[o] :
              /\ kept'[o] = {n}
              /\ attempt'[o] = "executed" => n < baseNext'
              /\ attempt'[o] = "failed" => [job |-> o, nonce |-> n] \in undone'
<1>1. CASE attempt' = attempt
  BY <1>1 DEF AvantisInv, StatusFollowsChain
<1>2. ASSUME NEW p \in Order, attempt' = MarkedFailed(p), p # o
      PROVE  attempt'[o] = attempt[o]
  BY <1>2, MarkedFailedIs DEF AvantisInv
<1>3. CASE attempt' = MarkedFailed(o)
  <2>1. \/ attempt[o] \in Resolved /\ attempt'[o] = attempt[o]
        \/ kept[o] = {} /\ attempt'[o] = "failed"
        \/ attempt'[o] = "unknown"
    BY <1>3, MarkedFailedIs DEF AvantisInv
  <2> QED
    BY <2>1 DEF AvantisInv, StatusFollowsChain
<1> QED
  BY <1>1, <1>2, <1>3 DEF AvantisInv, StatusFollowsChain

LEMMA StatusStep ==
  ASSUME AvantisInv, [AvantisNext]_avantisVars PROVE StatusFollowsChain'
<1> SUFFICES ASSUME NEW o \in Order
             PROVE  /\ attempt'[o] \in {"created", "claimed"} => kept'[o] = {}
                    /\ \A n \in kept'[o] :
                         /\ kept'[o] = {n}
                         /\ attempt'[o] = "executed" => n < baseNext'
                         /\ attempt'[o] = "failed" => [job |-> o, nonce |-> n] \in undone'
  BY DEF StatusFollowsChain
<1> DEFINE Follows == /\ attempt'[o] \in {"created", "claimed"} => kept'[o] = {}
                      /\ \A n \in kept'[o] :
                           /\ kept'[o] = {n}
                           /\ attempt'[o] = "executed" => n < baseNext'
                           /\ attempt'[o] = "failed" => [job |-> o, nonce |-> n] \in undone'
<1> SUFFICES Follows
  OBVIOUS
<1> USE DEF orderVars, taskVars, baseVars
<1>0. AvantisTypeOK /\ SignedIsStored /\ StatusFollowsChain /\ ChainKeepsOrder
  BY DEF AvantisInv
<1>1. CASE UNCHANGED <<attempt, kept, baseNext, undone>>
  BY <1>1, RaisedFollows
<1>2. ASSUME NEW j \in Coroutine, GiveUpBefore(j) \/ AwaitFails(j) \/ BaseSend(j)
      PROVE  Follows
  <2>1. UNCHANGED <<kept, baseNext, undone>>
    BY <1>2 DEF GiveUpBefore, AwaitFails, BaseSend
  <2>2. attempt' = attempt \/ TaskRaises(j)
    BY <1>2 DEF GiveUpBefore, AwaitFails, BaseSend
  <2>3. attempt' = attempt \/ \E p \in Order : attempt' = MarkedFailed(p)
    BY <1>0, <2>2, RaiseIs
  <2> QED
    BY <2>1, <2>3, RaisedFollows
<1>3. ASSUME NEW p \in Order, CallTimesOut(p) PROVE Follows
  BY <1>3, RaisedFollows DEF CallTimesOut
<1>4. ASSUME NEW j \in Coroutine, SeeCallback(j) PROVE Follows
  <2>1. UNCHANGED <<kept, baseNext, undone>>
    BY <1>4 DEF SeeCallback
  <2>2. CASE attempt' = attempt
    BY <2>1, <2>2, RaisedFollows
  <2>3. CASE j \in Order /\ attempt' = [attempt EXCEPT ![j] = "executed"]
    <3>1. SignedTx(j) \in onBase /\ kept[j] = {nonceOf[j]}
      BY <1>0, <1>4, <2>3 DEF SeeCallback, AvantisTypeOK, SignedIsStored
    <3>2. nonceOf[j] < baseNext
      BY <1>0, <3>1 DEF SignedTx, ChainKeepsOrder
    <3> QED
      BY <1>0, <2>1, <2>3, <3>1, <3>2 DEF StatusFollowsChain, AvantisTypeOK
  <2> QED
    BY <1>4, <2>2, <2>3 DEF SeeCallback
<1>5. ASSUME NEW p \in Order, ClaimOrder(p) \/ ReclaimOrder(p) PROVE Follows
  <2>1. kept[p] = {} /\ UNCHANGED <<kept, baseNext, undone>>
    BY <1>0, <1>5 DEF ClaimOrder, ReclaimOrder, StatusFollowsChain
  <2>2. \E s \in AttemptState : attempt' = [attempt EXCEPT ![p] = s]
    BY <1>5 DEF ClaimOrder, ReclaimOrder, AttemptState
  <2> QED
    BY <1>0, <2>1, <2>2 DEF StatusFollowsChain, AvantisTypeOK
<1>6. ASSUME NEW p \in Order, StoreOrder(p) PROVE Follows
  <2>1. UNCHANGED <<baseNext, undone>>
    BY <1>6 DEF StoreOrder
  <2>2. CASE /\ attempt' = [attempt EXCEPT ![p] = "pending"]
             /\ kept' = [kept EXCEPT ![p] = {nonceOf[p]}]
    BY <1>0, <2>1, <2>2 DEF StatusFollowsChain, AvantisTypeOK
  <2>3. CASE TaskRaises(p) /\ UNCHANGED kept
    BY <1>0, <2>1, <2>3, RaiseIs, RaisedFollows DEF Coroutine
  <2> QED
    BY <1>6, <2>2, <2>3 DEF StoreOrder
<1>7. ASSUME NEW p \in Order, RecoverOrder(p) PROVE Follows
  <2>1. /\ attempt' = [attempt EXCEPT ![p] = "executed"]
        /\ UNCHANGED <<kept, baseNext, undone>>
        /\ \E n \in kept[p] : [job |-> p, nonce |-> n] \in onBase
    BY <1>0, <1>7 DEF RecoverOrder, AvantisTypeOK
  <2>2. \A n \in kept[p] : n < baseNext
    BY <1>0, <2>1 DEF StatusFollowsChain, ChainKeepsOrder
  <2> QED
    BY <1>0, <2>1, <2>2 DEF StatusFollowsChain, AvantisTypeOK
<1>8. ASSUME NEW p \in Order, RecoverReverted(p) PROVE Follows
  <2>1. /\ attempt' = [attempt EXCEPT ![p] = "failed"]
        /\ UNCHANGED <<kept, baseNext, undone>>
        /\ \E n \in kept[p] : [job |-> p, nonce |-> n] \in undone
    BY <1>8 DEF RecoverReverted
  <2> QED
    BY <1>0, <2>1 DEF StatusFollowsChain, AvantisTypeOK
<1>9. ASSUME NEW tx \in basePool, MineOnBase(tx) PROVE Follows
  <2>1. /\ UNCHANGED <<attempt, kept>> /\ baseNext' = baseNext + 1 /\ undone \subseteq undone'
    BY <1>9 DEF MineOnBase
  <2> QED
    BY <1>0, <2>1 DEF StatusFollowsChain, AvantisTypeOK
<1> QED
  BY <1>1, <1>2, <1>3, <1>4, <1>5, <1>6, <1>7, <1>8, <1>9
  DEF AvantisNext, avantisVars, StartSetup, SignForService, Resend, RestartWorker

-----------------------------------------------------------------------------
(* The gap *)

\* A nonce that was handed out has a transaction that leaves, or is known to be lost.
Held(n) ==
  \/ n \in lost
  \/ \E tx \in basePool : tx.nonce = n
  \/ \E j \in Coroutine : task[j] \in {"signed", "send"} /\ nonceOf[j] = n
  \/ \E o \in Order : kept[o] = {n} /\ attempt[o] \in Visited

LEMMA GapIsHeld ==
  GapIsRecoverable <=> \A n \in baseNext..(serviceNext - 1) : Held(n)
  BY DEF GapIsRecoverable, Held

\* The recovery loop keeps what it has to send again until the chain used its nonce.
LEMMA VisitedStays ==
  ASSUME AvantisInv, [AvantisNext]_avantisVars, NEW o \in Order, NEW n \in Nat,
         kept[o] = {n}, attempt[o] \in Visited, n >= baseNext'
  PROVE  kept'[o] = {n} /\ attempt'[o] \in Visited
<1> USE DEF orderVars, taskVars, baseVars
<1>0. AvantisTypeOK /\ StatusFollowsChain' /\ kept'[o] = {n} /\ baseNext' \in Nat
  BY StatusStep, KeptOnce, AvantisStepTyped DEF AvantisInv, AvantisTypeOK
<1>n. n \in kept'[o]
  BY <1>0
<1>1. attempt'[o] \in {"pending", "unknown", "executed", "failed"}
  BY <1>0, AvantisStepTyped DEF StatusFollowsChain, AvantisInv, AvantisTypeOK, AttemptState
<1>2. attempt'[o] # "executed"
  <2>1. attempt'[o] = "executed" => n < baseNext'
    BY <1>0, <1>n DEF StatusFollowsChain
  <2> QED
    BY <1>0, <2>1
<1>3. attempt'[o] = "failed" => n < baseNext'
  <2>1. ChainKeepsOrder' /\ AvantisTypeOK'
    BY ChainKeepsOrderStep, AvantisStepTyped DEF AvantisInv
  <2>2. attempt'[o] = "failed" => [job |-> o, nonce |-> n] \in undone'
    BY <1>0, <1>n DEF StatusFollowsChain
  <2> QED
    BY <2>1, <2>2 DEF ChainKeepsOrder, AvantisTypeOK
<1> QED
  BY <1>0, <1>1, <1>2, <1>3 DEF Visited

\* An order whose coroutine ends with what it signed already stored is the recovery
\* loop's, unless the chain used the nonce.
LEMMA SendingIsVisited ==
  ASSUME AvantisInv, NEW o \in Order, task[o] = "send", nonceOf[o] >= baseNext
  PROVE  kept[o] = {nonceOf[o]} /\ attempt[o] \in Visited
<1>1. kept[o] = {nonceOf[o]} /\ nonceOf[o] \in Nat /\ baseNext \in Nat
  BY DEF AvantisInv, SignedIsStored, AvantisTypeOK, Coroutine
<1>n. nonceOf[o] \in kept[o]
  BY <1>1
<1>2. attempt[o] \in {"pending", "unknown", "executed", "failed"}
  BY <1>1 DEF AvantisInv, StatusFollowsChain, AvantisTypeOK, AttemptState
<1>3. attempt[o] # "executed"
  <2>1. attempt[o] = "executed" => nonceOf[o] < baseNext
    BY <1>1, <1>n DEF AvantisInv, StatusFollowsChain
  <2> QED
    BY <1>1, <2>1
<1>4. attempt[o] # "failed"
  <2>1. attempt[o] = "failed" => [job |-> o, nonce |-> nonceOf[o]] \in undone
    BY <1>n DEF AvantisInv, StatusFollowsChain
  <2> QED
    BY <1>1, <2>1 DEF AvantisInv, AvantisTypeOK, ChainKeepsOrder
<1> QED
  BY <1>1, <1>2, <1>3, <1>4 DEF Visited

\* What is held stays held until the chain used it, unless the worker restarts.
LEMMA HeldStays ==
  ASSUME AvantisInv, [AvantisNext]_avantisVars, ~RestartWorker, NEW n \in Nat,
         n >= baseNext', Held(n)
  PROVE  Held(n)'
<1> USE DEF orderVars, taskVars, baseVars, Move
<1>0. /\ AvantisTypeOK /\ AvantisTypeOK' /\ SignedIsStored /\ StatusFollowsChain
      /\ ChainKeepsOrder
  BY AvantisStepTyped DEF AvantisInv
<1>1. CASE n \in lost
  <2>1. lost \subseteq lost'
    BY DEF AvantisNext, avantisVars, StartSetup, GiveUpBefore, SignForService, BaseSend,
       SeeCallback, AwaitFails, ClaimOrder, ReclaimOrder, StoreOrder, CallTimesOut, Resend,
       RecoverOrder, RecoverReverted, MineOnBase
  <2> QED
    BY <1>1, <2>1 DEF Held
<1>2. CASE \E tx \in basePool : tx.nonce = n
  <2>1. CASE basePool \subseteq basePool'
    BY <1>2, <2>1 DEF Held
  <2>2. ASSUME NEW u \in basePool, MineOnBase(u) PROVE \E tx \in basePool' : tx.nonce = n
    BY <1>0, <1>2, <2>2 DEF MineOnBase, AvantisTypeOK, BaseTx
  <2>3. ASSUME NEW j \in Coroutine, BaseSend(j) PROVE basePool \subseteq basePool'
    BY <2>3, TakenIs DEF BaseSend
  <2> QED
    BY <2>1, <2>2, <2>3 DEF Held, AvantisNext, avantisVars, StartSetup, GiveUpBefore,
       SignForService, SeeCallback, AwaitFails, ClaimOrder, ReclaimOrder, StoreOrder,
       CallTimesOut, Resend, TakenNew, RecoverOrder, RecoverReverted
<1>3. ASSUME NEW o \in Order, kept[o] = {n}, attempt[o] \in Visited PROVE Held(n)'
  BY <1>3, VisitedStays DEF Held
<1>4. ASSUME NEW j \in Coroutine, task[j] \in {"signed", "send"}, nonceOf[j] = n
      PROVE  Held(n)'
  <2>1. CASE task'[j] = task[j] /\ nonceOf'[j] = nonceOf[j]
    BY <1>4, <2>1 DEF Held
  <2>2. ASSUME NEW i \in Coroutine, i # j, task' = [task EXCEPT ![i] = task'[i]],
               nonceOf' = [nonceOf EXCEPT ![i] = nonceOf'[i]]
        PROVE  task'[j] = task[j] /\ nonceOf'[j] = nonceOf[j]
    BY <1>0, <2>2 DEF AvantisTypeOK
  <2>3. CASE BaseSend(j)
    <3>1. CASE Taken(SignedTx(j))
      <4>1. SignedTx(j) \in basePool' \cup onBase /\ SignedTx(j).nonce = n
        BY <1>4, <3>1, TakenIs DEF SignedTx
      <4>2. baseNext' = baseNext
        BY <2>3 DEF BaseSend
      <4>3. SignedTx(j) \notin onBase
        BY <1>0, <4>1, <4>2 DEF ChainKeepsOrder, AvantisTypeOK
      <4> QED
        BY <4>1, <4>3 DEF Held
    <3>2. CASE j \in Setup /\ lost' = lost \cup {nonceOf[j]}
      BY <1>4, <3>2 DEF Held
    <3>3. CASE j \in Order
      <4>1. task[j] = "send" /\ baseNext' = baseNext
        BY <2>3, <3>3 DEF BaseSend
      <4>2. kept[j] = {n} /\ attempt[j] \in Visited
        BY <1>4, <3>3, <4>1, SendingIsVisited
      <4> QED
        BY <3>3, <4>2, VisitedStays DEF Held
    <3> QED
      BY <2>3, <3>1, <3>2, <3>3 DEF BaseSend, Coroutine
  <2>4. CASE j \in Order /\ StoreOrder(j)
    <3>1. CASE task' = [task EXCEPT ![j] = "send"] /\ UNCHANGED nonceOf
      BY <1>0, <1>4, <3>1 DEF Held, AvantisTypeOK
    <3>2. CASE lost' = lost \cup {nonceOf[j]}
      BY <1>4, <3>2 DEF Held
    <3> QED
      BY <2>4, <3>1, <3>2 DEF StoreOrder
  <2>5. ASSUME NEW i \in Coroutine,
               GiveUpBefore(i) \/ AwaitFails(i) \/ SeeCallback(i) \/ SignForService(i)
        PROVE  task'[j] = task[j] /\ nonceOf'[j] = nonceOf[j]
    <3>1. task[i] \in {"ready", "await"}
      BY <2>5 DEF GiveUpBefore, AwaitFails, SeeCallback, SignForService
    <3>2. task' = [task EXCEPT ![i] = "over"] \/ task' = [task EXCEPT ![i] = "signed"]
      BY <1>0, <2>5, RaiseIs DEF GiveUpBefore, AwaitFails, SeeCallback, SignForService
    <3>3. nonceOf' = nonceOf \/ \E m \in Nat : nonceOf' = [nonceOf EXCEPT ![i] = m]
      BY <1>0, <2>5, SignIs DEF GiveUpBefore, AwaitFails, SeeCallback
    <3> QED
      BY <1>0, <1>4, <3>1, <3>2, <3>3 DEF AvantisTypeOK
  <2>6. ASSUME NEW i \in Coroutine, i # j, BaseSend(i) \/ (i \in Order /\ StoreOrder(i))
        PROVE  task'[j] = task[j] /\ nonceOf'[j] = nonceOf[j]
    <3>1. /\ nonceOf' = nonceOf
          /\ \E place \in {"over", "send", "await"} : task' = [task EXCEPT ![i] = place]
      BY <1>0, <2>6, RaiseIs DEF BaseSend, StoreOrder
    <3> QED
      BY <1>0, <2>6, <3>1 DEF AvantisTypeOK
  <2>7. ASSUME NEW i \in Coroutine,
               (i \in Setup /\ StartSetup(i)) \/ (i \in Order /\ (ClaimOrder(i) \/ ReclaimOrder(i)))
        PROVE  task'[j] = task[j] /\ nonceOf'[j] = nonceOf[j]
    BY <1>0, <1>4, <2>7 DEF StartSetup, ClaimOrder, ReclaimOrder, AvantisTypeOK
  <2>8. CASE UNCHANGED taskVars
    BY <2>1, <2>8
  <2> QED
    BY <2>1, <2>3, <2>4, <2>5, <2>6, <2>7, <2>8 DEF AvantisNext, avantisVars, Coroutine,
       CallTimesOut, Resend, RecoverOrder, RecoverReverted, MineOnBase
<1> QED
  BY <1>1, <1>2, <1>3, <1>4 DEF Held

LEMMA BetweenIs ==
  ASSUME NEW low \in Nat, NEW high \in Int, NEW n \in low..(high - 1)
  PROVE  n \in Nat /\ n >= low /\ n < high
  OBVIOUS

LEMMA GapStep ==
  ASSUME AvantisInv, [AvantisNext]_avantisVars PROVE GapIsRecoverable'
<1>0. /\ AvantisTypeOK /\ AvantisTypeOK'
      /\ \A n \in baseNext..(serviceNext - 1) : Held(n)
  BY AvantisStepTyped, GapIsHeld DEF AvantisInv
<1>1. CASE RestartWorker
  <2>1. serviceNext' = Unset
    BY <1>1 DEF RestartWorker
  <2> QED
    BY <1>0, <2>1 DEF GapIsRecoverable, Unset, AvantisTypeOK
<1>2. CASE ~RestartWorker
  <2> SUFFICES ASSUME NEW n \in baseNext'..(serviceNext' - 1) PROVE Held(n)'
    BY Zenon DEF GapIsRecoverable, Held
  <2> PICK low \in Nat, high \in Int : low = baseNext' /\ high = serviceNext'
    BY <1>0 DEF AvantisTypeOK, Unset
  <2>0. n \in low..(high - 1)
    BY Zenon
  <2>1. n \in Nat /\ n >= baseNext' /\ n < serviceNext' /\ baseNext' >= baseNext
    <3>1. baseNext' = baseNext \/ baseNext' = baseNext + 1
      BY <1>2 DEF AvantisNext, avantisVars, baseVars, StartSetup, GiveUpBefore,
         SignForService, BaseSend, SeeCallback, AwaitFails, ClaimOrder, ReclaimOrder,
         StoreOrder, CallTimesOut, Resend, RecoverOrder, RecoverReverted, MineOnBase
    <3>2. baseNext \in Nat /\ baseNext' \in Nat /\ serviceNext' \in Int
      BY <1>0 DEF AvantisTypeOK, Unset
    <3>3. n \in Nat /\ n >= low /\ n < high
      BY <2>0, BetweenIs, Zenon
    <3>4. low >= baseNext
      BY <3>1, <3>2
    <3> QED
      BY <3>3, <3>4, Zenon
  <2>2. CASE n < serviceNext
    <3>1. n \in baseNext..(serviceNext - 1)
      BY <1>0, <2>1, <2>2 DEF AvantisTypeOK, Unset
    <3> QED
      BY <1>0, <1>2, <2>1, <3>1, HeldStays
  <2>3. ASSUME NEW j \in Coroutine, SignForService(j), n >= serviceNext PROVE Held(n)'
    <3>1. UNCHANGED <<baseNext, basePool>>
      BY <2>3 DEF SignForService, baseVars
    <3>2. PICK k \in Nat, seen \in PendingOnBase :
                 /\ k = IF serviceNext > seen THEN serviceNext ELSE seen
                 /\ seen \in Nat
                 /\ serviceNext' = k + 1
                 /\ nonceOf' = [nonceOf EXCEPT ![j] = k]
                 /\ task' = [task EXCEPT ![j] = "signed"]
      BY <1>0, <2>3, SignIs
    <3>3. CASE n = k
      <4>1. task'[j] = "signed" /\ nonceOf'[j] = n
        BY <1>0, <3>2, <3>3 DEF AvantisTypeOK
      <4> QED
        BY <4>1 DEF Held
    <3>4. CASE n # k
      <4>1. n < seen
        BY <1>0, <2>1, <2>3, <3>2, <3>4 DEF AvantisTypeOK, Unset
      <4>2. n \in baseNext..(seen - 1)
        BY <1>0, <2>1, <3>1, <3>2, <4>1 DEF AvantisTypeOK
      <4> QED
        BY <1>0, <3>1, <3>2, <4>2, PendingIsNat DEF Held
    <3> QED
      BY <3>3, <3>4
  <2>4. serviceNext' = serviceNext \/ \E j \in Coroutine : SignForService(j)
    BY <1>2 DEF AvantisNext, avantisVars, StartSetup, GiveUpBefore, BaseSend,
       SeeCallback, AwaitFails, ClaimOrder, ReclaimOrder, StoreOrder, CallTimesOut,
       Resend, RecoverOrder, RecoverReverted, MineOnBase
  <2> QED
    BY <1>0, <2>1, <2>2, <2>3, <2>4 DEF AvantisTypeOK, Unset
<1> QED
  BY <1>1, <1>2

-----------------------------------------------------------------------------
(* The theorems *)

LEMMA AvantisInvInit == AvantisInit => AvantisInv
<1> SUFFICES ASSUME AvantisInit PROVE AvantisInv
  OBVIOUS
<1>1. AvantisTypeOK
  BY AvantisInitTyped
<1>2. GapIsRecoverable
  BY DEF AvantisInit, GapIsRecoverable, Unset
<1> QED
  BY <1>1, <1>2 DEF AvantisInit, AvantisInv, SignedIsStored, StatusFollowsChain,
     ChainKeepsOrder, Coroutine

LEMMA AvantisInvariance == AvantisSpec => []AvantisInv
<1>1. AvantisInv /\ [AvantisNext]_avantisVars => AvantisInv'
  BY AvantisStepTyped, SignedIsStoredStep, StatusStep, ChainKeepsOrderStep, GapStep
  DEF AvantisInv
<1> QED
  BY <1>1, AvantisInvInit, PTL DEF AvantisSpec

\* An attempt the platform reports as failed for good has placed no order on Avantis and
\* never will, although its coroutine goes on after the thread gave up (_call).
THEOREM FailedOrderPlacesNothing == AvantisSpec => []FailedOrderIsHarmless
<1>1. AvantisInv => FailedOrderIsHarmless
  <2> SUFFICES ASSUME AvantisInv, NEW o \in Order, attempt[o] = "failed",
                      NEW tx \in basePool \cup fills, tx.job = o
               PROVE  FALSE
    BY DEF FailedOrderIsHarmless
  <2>0. AvantisTypeOK /\ StatusFollowsChain /\ ChainKeepsOrder
    BY DEF AvantisInv
  <2>1. kept[o] = {tx.nonce} /\ tx \in BaseTx
    BY <2>0 DEF ChainKeepsOrder, AvantisTypeOK
  <2>2. [job |-> o, nonce |-> tx.nonce] \in undone
    BY <2>0, <2>1 DEF StatusFollowsChain
  <2>3. tx = [job |-> o, nonce |-> tx.nonce]
    BY <2>1 DEF BaseTx
  <2>4. tx \in undone /\ tx \in onBase /\ tx.nonce \in Nat
    BY <2>0, <2>1, <2>2, <2>3 DEF AvantisTypeOK, BaseTx
  <2> QED
    BY <2>0, <2>4 DEF ChainKeepsOrder, AvantisTypeOK
<1> QED
  BY <1>1, AvantisInvariance, PTL

\* The service wallet is held up by nothing that cannot be sent again, but for the
\* transactions _submit_service_transaction lost before they were stored: of a preparation
\* of a wallet, or of an order whose row refused the write.
THEOREM GapsAreRecoverable == AvantisSpec => []GapIsRecoverable
<1>1. AvantisInv => GapIsRecoverable
  BY DEF AvantisInv
<1> QED
  BY <1>1, AvantisInvariance, PTL
=============================================================================
