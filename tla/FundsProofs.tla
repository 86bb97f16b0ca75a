----------------------------- MODULE FundsProofs -----------------------------
(***************************************************************************)
(* Theorems about the funds the platform moves: in SolanaWithdrawal, for   *)
(* any number of withdrawals, any amounts and any balances; and the loan   *)
(* of WalletSetup, for any number of preparations, rows and restarts.      *)
(***************************************************************************)
EXTENDS SolanaWithdrawal, WalletSetup, FiniteSetTheorems, TLAPS

USE AmountIsPositive

-----------------------------------------------------------------------------
(* Withdrawals on Solana: the inductive invariant *)

\* A withdrawal stores one release and one transfer, each made for it.
RunsHold ==
  \A w \in Withdrawal :
    /\ \A tx \in drawn[w] : tx.for = "release" /\ tx.of = w /\ drawn[w] = {tx}
    /\ \A tx \in payout[w] :
         tx.for = "payout" /\ tx.of = w /\ tx.units = Amount /\ payout[w] = {tx}

\* The stored transaction of some withdrawal.
IsStored(tx) ==
  \/ tx.for = "release" /\ tx.of \in Withdrawal /\ drawn[tx.of] = {tx}
  \/ tx.for = "payout" /\ tx.of \in Withdrawal /\ payout[tx.of] = {tx}

\* Whatever was sent is a deposit, or the stored transaction of its withdrawal; of a
\* deposit nobody knows how it ended.
SentIsStored ==
  /\ \A tx \in flight : tx.for = "deposit" \/ IsStored(tx)
  /\ \A tx \in landed \cup errored : IsStored(tx)
  /\ flight \cap landed = {}

\* The withdrawals the chain has paid.
Paid == {w \in Withdrawal : payout[w] \cap landed # {}}

\* Only a landed transfer takes money out of the wallet and custody together.
MoneyKept ==
  /\ IsFiniteSet(Paid)
  /\ wallet + custody + Amount * Cardinality(Paid) = Total

ConfirmedLanded == \A w \in Withdrawal : row[w] = "confirmed" => w \in Paid

SolanaInv ==
  /\ SolanaTypeOK /\ RunsHold /\ SentIsStored /\ MoneyKept /\ ConfirmedLanded

-----------------------------------------------------------------------------
(* Types *)

LEMMA SignedIsTyped ==
  ASSUME NEW what \in Purpose, NEW w \in Withdrawal \cup {"wallet"}, NEW n \in Nat,
         NEW tx \in Signed(what, w, n)
  PROVE  tx \in SolanaTx /\ tx.for = what /\ tx.of = w /\ tx.units = n
         /\ tx \notin flight \cup Over
  BY DEF Signed, SolanaTx

\* What is paid comes out of the total.
LEMMA MoneyBounded ==
  ASSUME SolanaTypeOK, MoneyKept
  PROVE  wallet + custody <= Total
<1> DEFINE k == Cardinality(Paid)
<1>1. k \in Nat
  BY FS_CardinalityType DEF MoneyKept
<1>2. Amount * k \in Nat
  BY <1>1
<1> QED
  BY <1>2 DEF MoneyKept, SolanaTypeOK

LEMMA SolanaInitTyped == SolanaInit => SolanaTypeOK
  BY DEF SolanaInit, SolanaTypeOK, RowStatus, Over

LEMMA SolanaStepTyped == SolanaInv /\ [SolanaNext]_solanaVars => SolanaTypeOK'
<1> SUFFICES ASSUME SolanaTypeOK, RunsHold, MoneyKept, [SolanaNext]_solanaVars
             PROVE  SolanaTypeOK'
  BY DEF SolanaInv
<1> USE DEF SolanaTypeOK, rowVars, runVars, fate, money, Step, SetRow, Over
<1>1. CASE UNCHANGED solanaVars
  BY <1>1 DEF solanaVars
<1>2. ASSUME NEW w \in Withdrawal, AskWithdrawal(w) PROVE SolanaTypeOK'
  BY <1>2 DEF AskWithdrawal, RowStatus
<1>3. ASSUME NEW w \in Withdrawal, LoadRun(w) PROVE SolanaTypeOK'
  BY <1>3 DEF LoadRun, RowStatus
<1>4. ASSUME NEW w \in Withdrawal, ReadWallet(w) PROVE SolanaTypeOK'
  BY <1>4 DEF ReadWallet
<1>5. ASSUME NEW w \in Withdrawal, PrepareRelease(w) PROVE SolanaTypeOK'
  <2> PICK tx \in ReleaseOf(w) : drawn' = [drawn EXCEPT ![w] = {tx}]
    BY <1>5 DEF PrepareRelease
  <2> tx \in SolanaTx
    BY SignedIsTyped DEF ReleaseOf, ReleaseAnew, Purpose
  <2> QED
    BY <1>5 DEF PrepareRelease
<1>6. ASSUME NEW w \in Withdrawal, SubmitRelease(w) PROVE SolanaTypeOK'
  BY <1>6 DEF SubmitRelease, Posted
<1>7. ASSUME NEW w \in Withdrawal, AwaitRelease(w) \/ AwaitFunds(w) PROVE SolanaTypeOK'
  BY <1>7 DEF AwaitRelease, AwaitFunds
<1>8. ASSUME NEW w \in Withdrawal, PreparePayout(w) PROVE SolanaTypeOK'
  <2> PICK tx \in PayoutOf(w) : payout' = [payout EXCEPT ![w] = {tx}]
    BY <1>8 DEF PreparePayout
  <2> tx \in SolanaTx
    BY SignedIsTyped DEF PayoutOf, PayoutAnew, Purpose
  <2> QED
    BY <1>8 DEF PreparePayout, RowStatus
<1>9. ASSUME NEW w \in Withdrawal, SendPayout(w) PROVE SolanaTypeOK'
  BY <1>9 DEF SendPayout, Posted
<1>10. ASSUME NEW w \in Withdrawal, MarkPosted(w) \/ RecordPayout(w) PROVE SolanaTypeOK'
  BY <1>10 DEF MarkPosted, RecordPayout, RowStatus
<1>11. ASSUME NEW w \in Withdrawal, RunFails(w) \/ FailRun(w) \/ RejectRun(w)
       PROVE  SolanaTypeOK'
  BY <1>11 DEF RunFails, FailRun, RejectRun, RowStatus
<1>12. CASE StopWorker
  BY <1>12 DEF StopWorker
<1>13. CASE PrepareWallet
  BY <1>13 DEF PrepareWallet
<1>14. CASE SubmitDeposit
  <2>1. flight' \subseteq SolanaTx
    BY <1>14, SignedIsTyped DEF SubmitDeposit, Posted, Purpose
  <2> QED
    BY <1>14, <2>1 DEF SubmitDeposit
<1>15. ASSUME NEW tx \in flight, LandTx(tx) PROVE SolanaTypeOK'
  <2> tx \in SolanaTx /\ tx.units \in Nat /\ wallet + custody <= Total
    BY MoneyBounded DEF SolanaTx
  <2>1. /\ flight' \cup Over' \subseteq SolanaTx
        /\ UNCHANGED <<row, drawn, payout, at, missing, deposit>>
    BY <1>15 DEF LandTx
  <2>2. wallet' \in 0..Total /\ custody' \in 0..Total
    BY <1>15 DEF LandTx
  <2> QED
    BY <2>1, <2>2
<1>16. ASSUME NEW w \in Withdrawal, NEW tx \in drawn[w] \cup payout[w], ExpireTx(tx)
       PROVE  SolanaTypeOK'
  BY <1>16 DEF ExpireTx
<1> QED
  BY <1>1, <1>2, <1>3, <1>4, <1>5, <1>6, <1>7, <1>8, <1>9, <1>10, <1>11, <1>12, <1>13,
     <1>14, <1>15, <1>16 DEF SolanaNext, RunStep

\* Every balance, row and transaction keeps its type: neither the wallet nor custody
\* is ever overdrawn.

-----------------------------------------------------------------------------
(* What is sent is what is stored *)

\* Only the preparation of a run changes what its withdrawal stores, and only if
\* nothing is stored.
LEMMA StoredOnce ==
  ASSUME SolanaTypeOK, RunsHold, [SolanaNext]_solanaVars, NEW w \in Withdrawal
  PROVE  /\ drawn[w] # {} => drawn'[w] = drawn[w]
         /\ payout[w] # {} => payout'[w] = payout[w]
<1> USE DEF SolanaTypeOK, rowVars
<1>1. CASE UNCHANGED <<drawn, payout>>
  BY <1>1
<1>2. ASSUME NEW v \in Withdrawal, PrepareRelease(v)
      PROVE  UNCHANGED payout /\ (drawn[w] # {} => drawn'[w] = drawn[w])
  BY <1>2 DEF PrepareRelease, ReleaseOf, RunsHold
<1>3. ASSUME NEW v \in Withdrawal, PreparePayout(v)
      PROVE  UNCHANGED drawn /\ (payout[w] # {} => payout'[w] = payout[w])
  BY <1>3 DEF PreparePayout, PayoutOf, RunsHold
<1> QED
  BY <1>1, <1>2, <1>3 DEF SolanaNext, RunStep, solanaVars, AskWithdrawal, LoadRun, ReadWallet,
     SubmitRelease, AwaitRelease, AwaitFunds, SendPayout, MarkPosted, RecordPayout, RunFails,
     FailRun, RejectRun, StopWorker, PrepareWallet, SubmitDeposit, LandTx, ExpireTx

LEMMA RunsHoldStep == SolanaInv /\ [SolanaNext]_solanaVars => RunsHold'
<1> SUFFICES ASSUME SolanaTypeOK, RunsHold, [SolanaNext]_solanaVars
             PROVE  RunsHold'
  BY DEF SolanaInv
<1> USE DEF SolanaTypeOK, rowVars
<1>1. CASE UNCHANGED <<drawn, payout>>
  BY <1>1 DEF RunsHold
<1>2. ASSUME NEW v \in Withdrawal, PrepareRelease(v) PROVE RunsHold'
  <2> PICK tx \in ReleaseOf(v) : drawn' = [drawn EXCEPT ![v] = {tx}]
    BY <1>2 DEF PrepareRelease
  <2>1. tx.for = "release" /\ tx.of = v
    BY SignedIsTyped DEF ReleaseOf, ReleaseAnew, Purpose, RunsHold
  <2> QED
    BY <1>2, <2>1 DEF PrepareRelease, RunsHold
<1>3. ASSUME NEW v \in Withdrawal, PreparePayout(v) PROVE RunsHold'
  <2> PICK tx \in PayoutOf(v) : payout' = [payout EXCEPT ![v] = {tx}]
    BY <1>3 DEF PreparePayout
  <2>1. tx.for = "payout" /\ tx.of = v /\ tx.units = Amount
    BY SignedIsTyped DEF PayoutOf, PayoutAnew, Purpose, RunsHold
  <2> QED
    BY <1>3, <2>1 DEF PreparePayout, RunsHold
<1> QED
  BY <1>1, <1>2, <1>3 DEF SolanaNext, RunStep, solanaVars, AskWithdrawal, LoadRun, ReadWallet,
     SubmitRelease, AwaitRelease, AwaitFunds, SendPayout, MarkPosted, RecordPayout, RunFails,
     FailRun, RejectRun, StopWorker, PrepareWallet, SubmitDeposit, LandTx, ExpireTx

LEMMA SentStep == SolanaInv /\ [SolanaNext]_solanaVars => SentIsStored'
<1> SUFFICES ASSUME SolanaTypeOK, RunsHold, SentIsStored, [SolanaNext]_solanaVars
             PROVE  SentIsStored'
  BY DEF SolanaInv
<1> USE DEF SentIsStored, SolanaTypeOK, rowVars, fate, Over
<1>0. ASSUME NEW tx, IsStored(tx) PROVE IsStored(tx)'
  BY <1>0, StoredOnce DEF IsStored
<1>1. CASE UNCHANGED <<flight, fate>>
  BY <1>0, <1>1
<1>2. ASSUME NEW w \in Withdrawal, SubmitRelease(w) PROVE SentIsStored'
  <2>1. UNCHANGED <<drawn, payout, fate>>
    BY <1>2 DEF SubmitRelease
  <2>2. \A tx \in flight' : tx \in flight \/ (tx \in drawn[w] /\ tx \notin landed)
    BY <1>2 DEF SubmitRelease, Posted
  <2>3. flight \subseteq flight'
    BY <1>2 DEF SubmitRelease, Posted
  <2> QED
    BY <1>0, <2>1, <2>2, <2>3 DEF RunsHold, IsStored
<1>3. ASSUME NEW w \in Withdrawal, SendPayout(w) PROVE SentIsStored'
  <2>1. UNCHANGED <<drawn, payout, fate>>
    BY <1>3 DEF SendPayout
  <2>2. \A tx \in flight' : tx \in flight \/ (tx \in payout[w] /\ tx \notin landed)
    BY <1>3 DEF SendPayout, Posted
  <2>3. flight \subseteq flight'
    BY <1>3 DEF SendPayout, Posted
  <2> QED
    BY <1>0, <2>1, <2>2, <2>3 DEF RunsHold, IsStored
<1>4. CASE SubmitDeposit
  <2>1. UNCHANGED <<drawn, payout, fate>>
    BY <1>4 DEF SubmitDeposit
  <2>2. \A tx \in flight' : tx \in flight \/ (tx.for = "deposit" /\ tx \notin landed)
    BY <1>4, SignedIsTyped DEF SubmitDeposit, Posted, Purpose
  <2>3. flight \subseteq flight'
    BY <1>4 DEF SubmitDeposit, Posted
  <2> QED
    BY <1>0, <2>1, <2>2, <2>3
<1>5. ASSUME NEW tx \in flight, LandTx(tx) PROVE SentIsStored'
  <2> DEFINE known == IF tx.for = "deposit" THEN {} ELSE {tx}
  <2>1. UNCHANGED <<drawn, payout>> /\ flight' = flight \ {tx}
    BY <1>5 DEF LandTx
  <2>2. landed' \subseteq landed \cup known /\ errored' \subseteq errored \cup known
    BY <1>5 DEF LandTx
  <2> QED
    BY <1>0, <2>1, <2>2
<1>6. ASSUME NEW w \in Withdrawal, NEW tx \in drawn[w] \cup payout[w], ExpireTx(tx)
      PROVE  SentIsStored'
  <2>1. UNCHANGED <<drawn, payout, landed, errored>> /\ flight' = flight \ {tx}
    BY <1>6 DEF ExpireTx
  <2>2. tx.for # "deposit"
    BY DEF RunsHold
  <2> QED
    BY <1>0, <2>1, <2>2
<1> QED
  BY <1>1, <1>2, <1>3, <1>4, <1>5, <1>6 DEF SolanaNext, RunStep, solanaVars, AskWithdrawal,
     LoadRun, ReadWallet, PrepareRelease, AwaitRelease, AwaitFunds, PreparePayout, MarkPosted,
     RecordPayout, RunFails, FailRun, RejectRun, StopWorker, PrepareWallet

-----------------------------------------------------------------------------
(* The money *)

\* A transfer is signed over a blockhash no transaction that ended was signed over:
\* only the chain adds to the paid withdrawals.
LEMMA PaidUnlessLanded ==
  ASSUME SolanaInv, [SolanaNext]_solanaVars, UNCHANGED landed
  PROVE  Paid' = Paid
<1> USE DEF SolanaInv, SolanaTypeOK, Over, rowVars
<1>1. CASE UNCHANGED payout
  BY <1>1 DEF Paid
<1>2. ASSUME NEW v \in Withdrawal, PreparePayout(v) PROVE Paid' = Paid
  <2>1. PICK tx \in PayoutOf(v) : payout' = [payout EXCEPT ![v] = {tx}]
    BY <1>2 DEF PreparePayout
  <2>2. CASE payout[v] = {}
    <3>1. tx \notin landed
      BY <2>2, SignedIsTyped DEF PayoutOf, PayoutAnew, Purpose
    <3>2. payout'[v] = {tx} /\ \A w \in Withdrawal \ {v} : payout'[w] = payout[w]
      BY <2>1
    <3> QED
      BY <2>2, <3>1, <3>2 DEF Paid
  <2>3. CASE payout[v] # {}
    BY <2>1, <2>3 DEF PayoutOf, RunsHold, Paid
  <2> QED
    BY <2>2, <2>3
<1> QED
  BY <1>1, <1>2 DEF SolanaNext, RunStep, solanaVars, AskWithdrawal, LoadRun, ReadWallet,
     PrepareRelease, SubmitRelease, AwaitRelease, AwaitFunds, SendPayout, MarkPosted,
     RecordPayout, RunFails, FailRun, RejectRun, StopWorker, PrepareWallet, SubmitDeposit,
     LandTx, ExpireTx

\* A transaction that lands is a deposit or a release, which leave the paid
\* withdrawals alone, or the transfer of one that was not paid.
LEMMA LandPays ==
  ASSUME SolanaInv, NEW tx \in flight, LandTx(tx)
  PROVE  \/ /\ tx.for \in {"deposit", "release"} \/ landed' = landed
            /\ Paid' = Paid
         \/ /\ tx.for = "payout" /\ tx.units = Amount /\ landed' = landed \cup {tx}
            /\ tx.of \in Withdrawal \ Paid
            /\ Paid' = Paid \cup {tx.of}
<1> USE DEF SolanaInv, SolanaTypeOK, Over, rowVars
<1>1. UNCHANGED payout
  BY DEF LandTx
<1>2. landed' = landed \/ (tx.for # "deposit" /\ landed' = landed \cup {tx})
  BY DEF LandTx
<1>3. CASE landed' = landed
  BY <1>1, <1>3 DEF Paid
<1>4. CASE tx.for = "release" /\ landed' = landed \cup {tx}
  BY <1>1, <1>4 DEF Paid, RunsHold
<1>5. CASE tx.for = "payout" /\ landed' = landed \cup {tx}
  <2>1. tx.of \in Withdrawal /\ payout[tx.of] = {tx} /\ tx \notin landed
    BY <1>5 DEF SentIsStored, IsStored
  <2>2. tx.units = Amount
    BY <2>1 DEF RunsHold
  <2>3. tx.of \notin Paid
    BY <2>1 DEF Paid
  <2>4. \A w \in Withdrawal : w # tx.of => tx \notin payout[w]
    BY DEF RunsHold
  <2>5. Paid' = Paid \cup {tx.of}
    BY <1>1, <1>5, <2>1, <2>4 DEF Paid
  <2> QED
    BY <1>5, <2>1, <2>2, <2>3, <2>5
<1>6. tx.for \in {"release", "payout", "deposit"}
  BY DEF SolanaTx, Purpose
<1> QED
  BY <1>2, <1>3, <1>4, <1>5, <1>6

LEMMA MoneyStep == SolanaInv /\ [SolanaNext]_solanaVars => MoneyKept'
<1> SUFFICES ASSUME SolanaInv, [SolanaNext]_solanaVars PROVE MoneyKept'
  OBVIOUS
<1> USE DEF rowVars, runVars, money, fate
<1>1. CASE UNCHANGED <<money, landed>>
  BY <1>1, PaidUnlessLanded DEF MoneyKept, SolanaInv
<1>2. ASSUME NEW tx \in flight, LandTx(tx) PROVE MoneyKept'
  <2> tx.units \in Nat /\ tx \in SolanaTx /\ wallet \in Nat /\ custody \in Nat
    BY DEF SolanaInv, SolanaTypeOK, SolanaTx
  <2>1. IsFiniteSet(Paid) /\ wallet + custody + Amount * Cardinality(Paid) = Total
    BY DEF SolanaInv, MoneyKept
  <2>2. Cardinality(Paid) \in Nat
    BY <2>1, FS_CardinalityType
  <2>3. CASE UNCHANGED money /\ landed' = landed
    BY <1>1, <2>3
  <2>4. CASE /\ wallet' = IF tx.for = "release" THEN wallet + tx.units ELSE wallet - tx.units
             /\ custody' = CASE tx.for = "release" -> custody - tx.units
                             [] tx.for = "deposit" -> custody + tx.units
                             [] OTHER -> custody
             /\ tx.for # "deposit" => landed' = landed \cup {tx}
    <3>1. CASE tx.for \in {"deposit", "release"}
      <4>1. wallet' + custody' = wallet + custody
        <5>1. CASE tx.for = "deposit"
          BY <2>4, <5>1
        <5>2. CASE tx.for = "release"
          BY <2>4, <5>2
        <5> QED
          BY <3>1, <5>1, <5>2
      <4>2. Paid' = Paid
        BY <1>2, <3>1, LandPays
      <4> QED
        BY <2>1, <4>1, <4>2 DEF MoneyKept
    <3>2. CASE tx.for = "payout"
      <4>1. wallet' = wallet - tx.units /\ custody' = custody
        BY <2>4, <3>2
      <4>2. tx \notin landed
        BY DEF SolanaInv, SentIsStored
      <4>3. tx.units = Amount /\ tx.of \notin Paid /\ Paid' = Paid \cup {tx.of}
        BY <1>2, <2>4, <3>2, <4>2, LandPays
      <4>4. IsFiniteSet(Paid') /\ Cardinality(Paid') = Cardinality(Paid) + 1
        BY <2>1, <4>3, FS_AddElement
      <4>5. Amount * (Cardinality(Paid) + 1) = Amount * Cardinality(Paid) + Amount
        BY <2>2
      <4> QED
        BY <2>1, <2>2, <4>1, <4>3, <4>4, <4>5 DEF MoneyKept
    <3> QED
      BY <3>1, <3>2 DEF SolanaTx, Purpose
  <2> QED
    BY <1>2, <2>3, <2>4 DEF LandTx
<1> QED
  BY <1>1, <1>2 DEF SolanaNext, RunStep, solanaVars, AskWithdrawal, LoadRun, ReadWallet,
     PrepareRelease, SubmitRelease, AwaitRelease, AwaitFunds, PreparePayout, SendPayout,
     MarkPosted, RecordPayout, RunFails, FailRun, RejectRun, StopWorker, PrepareWallet,
     SubmitDeposit, ExpireTx

LEMMA ConfirmedStep == SolanaInv /\ [SolanaNext]_solanaVars => ConfirmedLanded'
<1> SUFFICES ASSUME SolanaInv, [SolanaNext]_solanaVars, NEW w \in Withdrawal,
                    row'[w] = "confirmed"
             PROVE  w \in Paid'
  BY DEF ConfirmedLanded
<1> USE DEF rowVars, SetRow, fate
<1>1. Paid \subseteq Paid'
  <2>1. CASE UNCHANGED landed
    BY <2>1, PaidUnlessLanded
  <2>2. ASSUME NEW tx \in flight, LandTx(tx) PROVE Paid \subseteq Paid'
    BY <2>2, LandPays
  <2> QED
    BY <2>1, <2>2 DEF SolanaNext, RunStep, solanaVars, AskWithdrawal, LoadRun, ReadWallet,
     PrepareRelease, SubmitRelease, AwaitRelease, AwaitFunds, PreparePayout, SendPayout,
     MarkPosted, RecordPayout, RunFails, FailRun, RejectRun, StopWorker, PrepareWallet,
     SubmitDeposit, ExpireTx
<1>2. CASE row[w] = "confirmed"
  BY <1>1, <1>2 DEF SolanaInv, ConfirmedLanded
<1>3. ASSUME NEW v \in Withdrawal, RecordPayout(v), row[w] # "confirmed" PROVE w \in Paid
  BY <1>3 DEF RecordPayout, SolanaInv, SolanaTypeOK, Paid
<1> QED
  BY <1>1, <1>2, <1>3 DEF SolanaNext, RunStep, solanaVars, AskWithdrawal, LoadRun, ReadWallet,
     PrepareRelease, SubmitRelease, AwaitRelease, AwaitFunds, PreparePayout, SendPayout,
     MarkPosted, RunFails, FailRun, RejectRun, StopWorker, PrepareWallet,
     SubmitDeposit, LandTx, ExpireTx, SolanaInv, SolanaTypeOK

-----------------------------------------------------------------------------
(* The theorems *)

LEMMA SolanaInvInit == SolanaInit => SolanaInv
<1> SUFFICES ASSUME SolanaInit PROVE SolanaInv
  OBVIOUS
<1>1. Paid = {}
  BY DEF SolanaInit, Paid
<1>2. IsFiniteSet(Paid) /\ Cardinality(Paid) = 0
  BY <1>1, FS_EmptySet
<1>3. wallet \in 0..Total /\ custody = Total - wallet
  BY DEF SolanaInit
<1>4. MoneyKept
  BY <1>2, <1>3 DEF MoneyKept
<1> QED
  BY <1>4, SolanaInitTyped
  DEF SolanaInit, SolanaInv, RunsHold, SentIsStored, IsStored, ConfirmedLanded

LEMMA SolanaInvariance == SolanaSpec => []SolanaInv
<1>1. SolanaInv /\ [SolanaNext]_solanaVars => SolanaInv'
  BY SolanaStepTyped, RunsHoldStep, SentStep, MoneyStep, ConfirmedStep DEF SolanaInv
<1> QED
  BY <1>1, SolanaInvInit, PTL DEF SolanaSpec

\* Every balance, row and transaction keeps its type: neither the wallet nor custody
\* is ever overdrawn.
THEOREM SolanaTypeCorrect == SolanaSpec => []SolanaTypeOK
<1>1. SolanaInv => SolanaTypeOK
  BY DEF SolanaInv
<1> QED
  BY <1>1, SolanaInvariance, PTL

\* However often a withdrawal is run, interrupted and resumed, one release and one
\* transfer of it land at most: a run sends the stored transactions of service.py again.
THEOREM WithdrawalPaysOnce == SolanaSpec => []SolanaPaidOnce
<1>1. SolanaInv => SolanaPaidOnce
  BY DEF SolanaInv, SentIsStored, IsStored, SolanaPaidOnce
<1> QED
  BY <1>1, SolanaInvariance, PTL

\* A withdrawal the user reads as CONFIRMED was paid by its own transfer, and the money of
\* all of them has left the wallet and custody.
THEOREM ConfirmedWithdrawalIsPaid == SolanaSpec => []SolanaConfirmedIsPaid
<1>1. SolanaInv => SolanaConfirmedIsPaid
  <2> SUFFICES ASSUME SolanaInv PROVE SolanaConfirmedIsPaid
    OBVIOUS
  <2> DEFINE Confirmed == {w \in Withdrawal : row[w] = "confirmed"}
  <2>1. Confirmed \subseteq Paid
    BY DEF SolanaInv, ConfirmedLanded
  <2>2. ASSUME NEW w \in Withdrawal, row[w] = "confirmed"
        PROVE  \E tx \in landed : tx.for = "payout" /\ tx.of = w
    BY <2>1, <2>2 DEF SolanaInv, RunsHold, Paid
  <2>3. /\ IsFiniteSet(Paid) /\ IsFiniteSet(Confirmed)
        /\ Cardinality(Confirmed) <= Cardinality(Paid)
    BY <2>1, FS_Subset DEF SolanaInv, MoneyKept
  <2>4. Cardinality(Confirmed) \in Nat /\ Cardinality(Paid) \in Nat
    BY <2>3, FS_CardinalityType
  <2>5. Amount * Cardinality(Confirmed) <= Amount * Cardinality(Paid)
    BY <2>3, <2>4
  <2>6. Amount * Cardinality(Confirmed) \in Nat /\ Amount * Cardinality(Paid) \in Nat
    BY <2>4
  <2>7. wallet + custody <= Total - Amount * Cardinality(Confirmed)
    BY <2>5, <2>6 DEF SolanaInv, MoneyKept, SolanaTypeOK
  <2> QED
    BY <2>2, <2>7 DEF SolanaConfirmedIsPaid
<1> QED
  BY <1>1, SolanaInvariance, PTL

-----------------------------------------------------------------------------
(* Sums over finite sets.  What SumFunctionOnSet returns is shown without   *)
(* an induction theorem: of the subsets that would fail, one is smallest.   *)

HIDE AmountIsPositive

Some(s) == CHOOSE x \in s : TRUE

\* How a sum is built from smaller ones, over a collection of sets.
SumsUp(g, fun, sets) ==
  g = [s \in sets |-> IF s = {} THEN 0 ELSE fun[Some(s)] + g[s \ {Some(s)}]]

\* Of some subsets of a finite set, one contains no other.
LEMMA SmallestSubset ==
  ASSUME NEW S, IsFiniteSet(S), NEW T, T \subseteq SUBSET S, T # {}
  PROVE  \E x \in T : \A y \in T : y \subseteq x => y = x
<1>1. IsWellFoundedOn(StrictSubsetOrdering(S), SUBSET S)
  BY FS_StrictSubsetOrderingWellFounded, FS_FiniteSubsetsOfFinite
<1>2. \E x \in T : \A y \in T : ~(<<y, x>> \in StrictSubsetOrdering(S))
  BY <1>1, WFMin
<1> QED
  BY <1>2 DEF StrictSubsetOrdering

\* A set of natural numbers has a least element.
LEMMA LeastNumber ==
  ASSUME NEW T \in SUBSET Nat, T # {}
  PROVE  \E n \in T : \A m \in T : n <= m
<1>1. PICK n \in T : TRUE
  OBVIOUS
<1> DEFINE Below == {0 .. m : m \in T \cap (0 .. n)}
<1>2. /\ n \in Nat /\ n \in T \cap (0 .. n) /\ IsFiniteSet(0 .. n)
      /\ \A m \in T \cap (0 .. n) : m \in Nat /\ 0 .. m \subseteq 0 .. n
  <2>1. n \in Nat /\ n \in 0 .. n
    OBVIOUS
  <2> QED
    BY <2>1, FS_Interval
<1>3. Below \in SUBSET SUBSET (0 .. n) /\ Below # {}
  BY <1>2
<1>4. PICK x \in Below : \A y \in Below : y \subseteq x => y = x
  <2> HIDE DEF Below
  <2>1. PICK S, B : S = 0 .. n /\ B = Below
    OBVIOUS
  <2>2. IsFiniteSet(S) /\ B \subseteq SUBSET S /\ B # {}
    BY <1>2, <1>3, <2>1
  <2>3. \E x \in B : \A y \in B : y \subseteq x => y = x
    BY <2>2, SmallestSubset, SMT
  <2> QED
    BY <2>1, <2>3
<1>5. PICK m \in T \cap (0 .. n) : x = 0 .. m
  OBVIOUS
<1>6. ASSUME NEW k \in T, k < m PROVE FALSE
  <2>1. k \in T \cap (0 .. n) /\ 0 .. k \subseteq 0 .. m /\ m \in Nat /\ k \in Nat
    BY <1>2, <1>6
  <2>2. 0 .. k \in Below
    BY <2>1
  <2>3. 0 .. k = 0 .. m
    BY <1>4, <1>5, <2>1, <2>2
  <2>4. m \in 0 .. m /\ m \notin 0 .. k
    BY <1>6, <2>1
  <2> QED
    BY <2>3, <2>4
<1>7. \A k \in T : k \in Nat /\ m \in Nat
  BY <1>2
<1> QED
  BY <1>5, <1>6, <1>7

\* A set without one of its elements is smaller.
LEMMA SmallerSet ==
  ASSUME NEW S, IsFiniteSet(S), NEW s \in SUBSET S, s # {}
  PROVE  /\ Some(s) \in s /\ IsFiniteSet(s) /\ s \ {Some(s)} \in SUBSET S
         /\ Cardinality(s) \in Nat \ {0}
         /\ Cardinality(s \ {Some(s)}) = Cardinality(s) - 1
<1>1. Some(s) \in s
  BY DEF Some
<1>2. IsFiniteSet(s)
  BY FS_Subset
<1>3. Cardinality(s) \in Nat /\ Cardinality(s) # 0
  BY <1>2, FS_CardinalityType, FS_EmptySet
<1>4. Cardinality(s \ {Some(s)}) = Cardinality(s) - 1
  BY <1>1, <1>2, FS_RemoveElement
<1> QED
  BY <1>1, <1>2, <1>3, <1>4

UpTo(S, n) == {s \in SUBSET S : Cardinality(s) <= n}

\* The sums over the smaller subsets give those over the next larger ones.
LEMMA NextSums ==
  ASSUME NEW S, IsFiniteSet(S), NEW fun, NEW n \in Nat, NEW g, SumsUp(g, fun, UpTo(S, n))
  PROVE  \E h : SumsUp(h, fun, UpTo(S, n + 1))
<1>1. PICK h : h = [s \in UpTo(S, n + 1) |-> IF s = {} THEN 0 ELSE fun[Some(s)] + g[s \ {Some(s)}]]
  OBVIOUS
<1>2. ASSUME NEW s \in UpTo(S, n + 1), s # {} PROVE g[s \ {Some(s)}] = h[s \ {Some(s)}]
  <2>1. PICK t : t = s \ {Some(s)}
    OBVIOUS
  <2>2. s \in SUBSET S /\ Cardinality(s) <= n + 1
    BY DEF UpTo
  <2>3. t \in SUBSET S /\ Cardinality(s) \in Nat /\ Cardinality(t) = Cardinality(s) - 1
    BY <1>2, <2>1, <2>2, SmallerSet
  <2>4. t \in UpTo(S, n) /\ t \in UpTo(S, n + 1)
    BY <2>2, <2>3 DEF UpTo
  <2>5. g[t] = IF t = {} THEN 0 ELSE fun[Some(t)] + g[t \ {Some(t)}]
    BY <2>4 DEF SumsUp
  <2>6. h[t] = IF t = {} THEN 0 ELSE fun[Some(t)] + g[t \ {Some(t)}]
    BY <1>1, <2>4
  <2> QED
    BY <2>1, <2>5, <2>6
<1>3. SumsUp(h, fun, UpTo(S, n + 1))
  <2>1. PICK U : U = UpTo(S, n + 1)
    OBVIOUS
  <2>2. h = [s \in U |-> IF s = {} THEN 0 ELSE fun[Some(s)] + h[s \ {Some(s)}]]
    BY <1>1, <1>2, <2>1
  <2> QED
    BY <2>1, <2>2 DEF SumsUp
<1> QED
  BY <1>3

\* The sums over all subsets of a finite set exist.
LEMMA SumsExist ==
  ASSUME NEW S, IsFiniteSet(S), NEW fun
  PROVE  \E g : SumsUp(g, fun, SUBSET S)
<1> DEFINE Has(n) == \E g : SumsUp(g, fun, UpTo(S, n))
           Bad == {n \in Nat : ~Has(n)}
<1>1. Has(0)
  <2>1. ASSUME NEW s \in UpTo(S, 0) PROVE s = {}
    <3>1. s \in SUBSET S /\ Cardinality(s) <= 0
      BY DEF UpTo
    <3>2. s # {} => Cardinality(s) \in Nat \ {0}
      BY <3>1, SmallerSet
    <3> QED
      BY <3>1, <3>2
  <2>2. PICK g : g = [s \in UpTo(S, 0) |-> 0]
    OBVIOUS
  <2>3. SumsUp(g, fun, UpTo(S, 0))
    BY <2>1, <2>2 DEF SumsUp
  <2> QED
    BY <2>3
<1>2. \A n \in Nat : Has(n) => Has(n + 1)
  BY NextSums
<1>3. \A n \in Nat : Has(n)
  <2> HIDE DEF Has
  <2>1. SUFFICES ASSUME Bad # {} PROVE FALSE
    OBVIOUS
  <2>2. PICK n \in Bad : \A m \in Bad : n <= m
    <3>1. Bad \in SUBSET Nat
      OBVIOUS
    <3> HIDE DEF Bad
    <3> QED
      BY <2>1, <3>1, LeastNumber
  <2>3. n \in Nat /\ n # 0
    BY <1>1
  <2>4. n - 1 \in Nat /\ n - 1 \in Bad
    <3>1. n - 1 \in Nat /\ (n - 1) + 1 = n
      BY <2>3
    <3>2. Has(n - 1) => Has(n)
      BY <1>2, <3>1
    <3> QED
      BY <3>1, <3>2
  <2> QED
    BY <2>2, <2>3, <2>4
<1>4. Cardinality(S) \in Nat /\ UpTo(S, Cardinality(S)) = SUBSET S
  BY FS_CardinalityType, FS_Subset DEF UpTo
<1> QED
  BY <1>3, <1>4

\* The library's sum is such a sum.
LEMMA SumIsBuilt ==
  ASSUME NEW S, IsFiniteSet(S), NEW fun
  PROVE  \E g : SumsUp(g, fun, SUBSET S) /\ SumFunctionOnSet(fun, S) = g[S]
<1>1. PICK h : h = CHOOSE g : SumsUp(g, fun, SUBSET S)
  OBVIOUS
<1>2. SumsUp(h, fun, SUBSET S)
  BY <1>1, SumsExist, Zenon
<1>3. SumFunctionOnSet(fun, S) = h[S]
  BY <1>1 DEF SumFunctionOnSet, FoldFunctionOnSet, MapThenFoldSet, SumsUp, Some
<1> QED
  BY <1>2, <1>3

\* A subset that fails what the empty set has fails it for the first time after an element.
LEMMA FirstFailure ==
  ASSUME NEW S, IsFiniteSet(S), NEW T, T \subseteq SUBSET S, T # {}, {} \notin T
  PROVE  \E s \in T : Some(s) \in s /\ \A r \in SUBSET S : r \subseteq s /\ r # s => r \notin T
<1>1. PICK s \in T : \A r \in T : r \subseteq s => r = s
  BY SmallestSubset
<1>2. Some(s) \in s
  BY DEF Some
<1> QED
  BY <1>1, <1>2

\* Sums over subsets do not depend on the set they were built for.
LEMMA SumsAgree ==
  ASSUME NEW S, IsFiniteSet(S), NEW fun, NEW g, NEW h, NEW R, R \subseteq S,
         SumsUp(g, fun, SUBSET S), SumsUp(h, fun, SUBSET R)
  PROVE  \A s \in SUBSET R : g[s] = h[s]
<1>1. PICK T : T = {s \in SUBSET R : g[s] # h[s]}
  OBVIOUS
<1>2. SUFFICES ASSUME T # {} PROVE FALSE
  BY <1>1
<1>3. T \subseteq SUBSET S /\ {} \notin T
  BY <1>1 DEF SumsUp
<1>4. PICK s \in T : Some(s) \in s /\ \A r \in SUBSET S : r \subseteq s /\ r # s => r \notin T
  BY <1>2, <1>3, FirstFailure
<1>5. PICK r : r = s \ {Some(s)}
  OBVIOUS
<1>6. s \in SUBSET R /\ s \in SUBSET S /\ r \in SUBSET R /\ r \in SUBSET S /\ r # s /\ s # {}
  BY <1>1, <1>4, <1>5
<1>7. g[r] = h[r]
  BY <1>1, <1>4, <1>5, <1>6
<1>8. g[s] = fun[Some(s)] + g[r] /\ h[s] = fun[Some(s)] + h[r]
  BY <1>5, <1>6 DEF SumsUp
<1> QED
  BY <1>1, <1>7, <1>8

\* A sum adds some element of the set to the sum over the others.
LEMMA SumStep ==
  ASSUME NEW S, IsFiniteSet(S), NEW fun
  PROVE  /\ SumFunctionOnSet(fun, {}) = 0
         /\ S # {} => SumFunctionOnSet(fun, S) = fun[Some(S)] + SumFunctionOnSet(fun, S \ {Some(S)})
<1>1. PICK g : SumsUp(g, fun, SUBSET S) /\ SumFunctionOnSet(fun, S) = g[S]
  BY SumIsBuilt
<1>2. ASSUME NEW R \in SUBSET S PROVE SumFunctionOnSet(fun, R) = g[R]
  <2>1. IsFiniteSet(R)
    BY FS_Subset
  <2>2. PICK h : SumsUp(h, fun, SUBSET R) /\ SumFunctionOnSet(fun, R) = h[R]
    BY <2>1, SumIsBuilt
  <2>3. SumsUp(g, fun, SUBSET S) /\ SumsUp(h, fun, SUBSET R) /\ R \subseteq S
    BY <1>1, <2>2
  <2>4. \A s \in SUBSET R : g[s] = h[s]
    BY <2>3, SumsAgree, SMTT(60)
  <2> QED
    BY <2>2, <2>4
<1>3. g[{}] = 0 /\ (S # {} => g[S] = fun[Some(S)] + g[S \ {Some(S)}])
  BY <1>1 DEF SumsUp
<1>4. SumFunctionOnSet(fun, {}) = g[{}]
  BY <1>2
<1>5. PICK r : r = S \ {Some(S)}
  OBVIOUS
<1>6. SumFunctionOnSet(fun, r) = g[r]
  BY <1>2, <1>5
<1> QED
  BY <1>1, <1>3, <1>4, <1>5, <1>6

\* The sum over nothing.
LEMMA SumOfNone ==
  ASSUME NEW fun
  PROVE  SumFunctionOnSet(fun, {}) = 0
<1>1. IsFiniteSet({})
  BY FS_EmptySet
<1> QED
  BY <1>1, SumStep

\* Sums of integers are integers, and sums of no negative numbers are not negative.
LEMMA SumIsInt ==
  ASSUME NEW S, IsFiniteSet(S), NEW fun, \A x \in S : fun[x] \in Int
  PROVE  /\ SumFunctionOnSet(fun, S) \in Int
         /\ (\A x \in S : fun[x] >= 0) => SumFunctionOnSet(fun, S) >= 0
         /\ (\A x \in S : fun[x] = 0) => SumFunctionOnSet(fun, S) = 0
<1> DEFINE Good(s) == /\ SumFunctionOnSet(fun, s) \in Int
                      /\ (\A x \in S : fun[x] >= 0) => SumFunctionOnSet(fun, s) >= 0
                      /\ (\A x \in S : fun[x] = 0) => SumFunctionOnSet(fun, s) = 0
<1>1. PICK T : T = {s \in SUBSET S : ~Good(s)}
  OBVIOUS
<1>2. SUFFICES ASSUME T # {} PROVE FALSE
  BY <1>1
<1>3. T \subseteq SUBSET S /\ {} \notin T
  BY <1>1, SumOfNone
<1>4. PICK s \in T : Some(s) \in s /\ \A r \in SUBSET S : r \subseteq s /\ r # s => r \notin T
  BY <1>2, <1>3, FirstFailure
<1>5. PICK r : r = s \ {Some(s)}
  OBVIOUS
<1>6. s \in SUBSET S /\ r \in SUBSET S /\ r # s /\ s # {} /\ r \subseteq s /\ Some(s) \in S
  BY <1>1, <1>4, <1>5
<1>7. Good(r) /\ ~Good(s)
  BY <1>1, <1>4, <1>6
<1>8. SumFunctionOnSet(fun, s) = fun[Some(s)] + SumFunctionOnSet(fun, r)
  <2>1. IsFiniteSet(s)
    BY <1>6, FS_Subset
  <2> QED
    BY <1>5, <1>6, <2>1, SumStep
<1> QED
  BY <1>6, <1>7, <1>8

\* Any element may be taken out of a sum.
LEMMA SumElement ==
  ASSUME NEW S, IsFiniteSet(S), NEW fun, \A x \in S : fun[x] \in Int, NEW c \in S
  PROVE  SumFunctionOnSet(fun, S) = fun[c] + SumFunctionOnSet(fun, S \ {c})
<1> DEFINE Sum(s) == SumFunctionOnSet(fun, s)
           Good(s) == \A x \in s : Sum(s) = fun[x] + Sum(s \ {x})
<1> HIDE DEF Sum
<1>a. \A s \in SUBSET S : Sum(s) \in Int
  BY SumIsInt, FS_Subset DEF Sum
<1>b. \A s \in SUBSET S : s # {} => Sum(s) = fun[Some(s)] + Sum(s \ {Some(s)})
  <2>1. SUFFICES ASSUME NEW s \in SUBSET S, s # {} PROVE Sum(s) = fun[Some(s)] + Sum(s \ {Some(s)})
    OBVIOUS
  <2>2. IsFiniteSet(s)
    BY FS_Subset
  <2> QED
    BY <2>1, <2>2, SumStep DEF Sum
<1>1. PICK T : T = {s \in SUBSET S : ~Good(s)}
  OBVIOUS
<1>2. T # {} => FALSE
  <2>1. SUFFICES ASSUME T # {} PROVE FALSE
    OBVIOUS
  <2>2. T \subseteq SUBSET S /\ {} \notin T
    BY <1>1
  <2>3. PICK s \in T : Some(s) \in s /\ \A r \in SUBSET S : r \subseteq s /\ r # s => r \notin T
    BY <2>1, <2>2, FirstFailure
  <2>4. PICK c0 : c0 = Some(s)
    OBVIOUS
  <2>5. PICK x \in s : Sum(s) # fun[x] + Sum(s \ {x})
    BY <1>1, <2>3
  <2>6. s \in SUBSET S /\ c0 \in s /\ Sum(s) = fun[c0] + Sum(s \ {c0})
    BY <1>1, <1>b, <2>3, <2>4
  <2>7. x # c0
    BY <2>5, <2>6
  <2>8. Sum(s \ {c0}) = fun[x] + Sum((s \ {c0}) \ {x})
    <3>1. s \ {c0} \in SUBSET S /\ s \ {c0} \subseteq s /\ s \ {c0} # s /\ x \in s \ {c0}
      BY <2>5, <2>6, <2>7
    <3>2. s \ {c0} \notin T
      BY <2>3, <3>1
    <3> QED
      BY <1>1, <3>1, <3>2
  <2>9. Sum(s \ {x}) = fun[c0] + Sum((s \ {x}) \ {c0})
    <3>1. s \ {x} \in SUBSET S /\ s \ {x} \subseteq s /\ s \ {x} # s /\ c0 \in s \ {x}
      BY <2>5, <2>6, <2>7
    <3>2. s \ {x} \notin T
      BY <2>3, <3>1
    <3> QED
      BY <1>1, <3>1, <3>2
  <2>10. (s \ {x}) \ {c0} = (s \ {c0}) \ {x}
    OBVIOUS
  <2>11. PICK r : r = (s \ {c0}) \ {x}
    OBVIOUS
  <2>12. Sum(r) \in Int /\ fun[x] \in Int /\ fun[c0] \in Int
    BY <1>a, <2>5, <2>6, <2>11
  <2>13. Sum(s) = fun[c0] + (fun[x] + Sum(r)) /\ Sum(s \ {x}) = fun[c0] + Sum(r)
    BY <2>6, <2>8, <2>9, <2>10, <2>11
  <2> QED
    BY <2>5, <2>12, <2>13
<1>3. Good(S)
  BY <1>1, <1>2
<1> QED
  BY <1>3 DEF Sum

\* Sums follow the order of the functions.
LEMMA SumOrder ==
  ASSUME NEW S, IsFiniteSet(S), NEW fun, NEW gun,
         \A x \in S : fun[x] \in Int /\ gun[x] \in Int /\ fun[x] <= gun[x]
  PROVE  SumFunctionOnSet(fun, S) <= SumFunctionOnSet(gun, S)
<1> DEFINE Good(s) == SumFunctionOnSet(fun, s) <= SumFunctionOnSet(gun, s)
<1>1. PICK T : T = {s \in SUBSET S : ~Good(s)}
  OBVIOUS
<1>2. SUFFICES ASSUME T # {} PROVE FALSE
  BY <1>1
<1>3. T \subseteq SUBSET S /\ {} \notin T
  BY <1>1, SumOfNone
<1>4. PICK s \in T : Some(s) \in s /\ \A r \in SUBSET S : r \subseteq s /\ r # s => r \notin T
  BY <1>2, <1>3, FirstFailure
<1>5. PICK r : r = s \ {Some(s)}
  OBVIOUS
<1>6. s \in SUBSET S /\ r \in SUBSET S /\ r # s /\ s # {} /\ r \subseteq s /\ Some(s) \in S
  BY <1>1, <1>4, <1>5
<1>7. Good(r) /\ ~Good(s)
  BY <1>1, <1>4, <1>6
<1>8. IsFiniteSet(s) /\ IsFiniteSet(r)
  BY <1>6, FS_Subset
<1>9. /\ SumFunctionOnSet(fun, s) = fun[Some(s)] + SumFunctionOnSet(fun, r)
      /\ SumFunctionOnSet(gun, s) = gun[Some(s)] + SumFunctionOnSet(gun, r)
  BY <1>5, <1>6, <1>8, SumStep
<1>10. SumFunctionOnSet(fun, r) \in Int /\ SumFunctionOnSet(gun, r) \in Int
  BY <1>6, <1>8, SumIsInt
<1> QED
  BY <1>6, <1>7, <1>9, <1>10

\* The sum over a set is made of those over a part and over the rest.
LEMMA SumOfParts ==
  ASSUME NEW S, IsFiniteSet(S), NEW fun, \A x \in S : fun[x] \in Int, NEW R, R \subseteq S
  PROVE  SumFunctionOnSet(fun, S) = SumFunctionOnSet(fun, R) + SumFunctionOnSet(fun, S \ R)
<1> DEFINE Sum(s) == SumFunctionOnSet(fun, s)
           Good(s) == Sum(s) = Sum(s \cap R) + Sum(s \ R)
<1> HIDE DEF Sum
<1>a. \A s \in SUBSET S : Sum(s) \in Int
  BY SumIsInt, FS_Subset DEF Sum
<1>b. \A s \in SUBSET S : \A x \in s : Sum(s) = fun[x] + Sum(s \ {x})
  <2>1. SUFFICES ASSUME NEW s \in SUBSET S, NEW x \in s PROVE Sum(s) = fun[x] + Sum(s \ {x})
    OBVIOUS
  <2>2. IsFiniteSet(s) /\ \A y \in s : fun[y] \in Int
    BY FS_Subset
  <2> QED
    BY <2>2, SumElement DEF Sum
<1>1. PICK T : T = {s \in SUBSET S : ~Good(s)}
  OBVIOUS
<1>2. T # {} => FALSE
  <2>1. SUFFICES ASSUME T # {} PROVE FALSE
    OBVIOUS
  <2>2. T \subseteq SUBSET S /\ {} \notin T
    <3>1. Sum({}) = 0
      BY SumOfNone DEF Sum
    <3>2. {} \cap R = {} /\ {} \ R = {}
      OBVIOUS
    <3> QED
      BY <1>1, <3>1, <3>2
  <2>3. PICK s \in T : Some(s) \in s /\ \A r \in SUBSET S : r \subseteq s /\ r # s => r \notin T
    BY <2>1, <2>2, FirstFailure
  <2>4. PICK c, r, a, b : c = Some(s) /\ r = s \ {c} /\ a = s \cap R /\ b = s \ R
    OBVIOUS
  <2>5. /\ s \in SUBSET S /\ c \in s /\ c \in S /\ r \in SUBSET S /\ r \subseteq s /\ r # s
        /\ a \in SUBSET S /\ b \in SUBSET S
    BY <1>1, <2>3, <2>4
  <2>6. Good(r) /\ ~Good(s)
    BY <1>1, <2>3, <2>5
  <2>7. Sum(s) = fun[c] + Sum(r)
    BY <1>b, <2>4, <2>5
  <2>8. CASE c \in R
    <3>1. c \in a /\ r \cap R = a \ {c} /\ r \ R = b /\ a \ {c} \in SUBSET S
      BY <2>4, <2>5, <2>8
    <3>2. Sum(a) = fun[c] + Sum(a \ {c})
      BY <1>b, <2>5, <3>1
    <3>3. Sum(r) = Sum(a \ {c}) + Sum(b) /\ Sum(s) # Sum(a) + Sum(b)
      BY <2>4, <2>6, <3>1
    <3>4. Sum(a \ {c}) \in Int /\ Sum(b) \in Int /\ fun[c] \in Int
      BY <1>a, <2>5, <3>1
    <3> QED
      BY <2>7, <3>2, <3>3, <3>4
  <2>9. CASE c \notin R
    <3>1. c \in b /\ r \ R = b \ {c} /\ r \cap R = a /\ b \ {c} \in SUBSET S
      BY <2>4, <2>5, <2>9
    <3>2. Sum(b) = fun[c] + Sum(b \ {c})
      BY <1>b, <2>5, <3>1
    <3>3. Sum(r) = Sum(a) + Sum(b \ {c}) /\ Sum(s) # Sum(a) + Sum(b)
      BY <2>4, <2>6, <3>1
    <3>4. Sum(b \ {c}) \in Int /\ Sum(a) \in Int /\ fun[c] \in Int
      BY <1>a, <2>5, <3>1
    <3> QED
      BY <2>7, <3>2, <3>3, <3>4
  <2> QED
    BY <2>8, <2>9
<1>3. Good(S)
  BY <1>1, <1>2
<1>4. S \cap R = R
  OBVIOUS
<1> QED
  BY <1>3, <1>4 DEF Sum
-----------------------------------------------------------------------------
(* The reserve of a wallet: the inductive invariant *)

USE SetupAssumption

\* A confirmed transaction has landed, and a signed one moves the amount of its row.
Row ==
  [status : {"none", "active", "confirmed", "failed"}, tx : {"none", "stored", "landed", "dead"},
   amount : Int, value : Int]

Loan == {rec \in Row : /\ rec.status = "confirmed" => rec.tx = "landed"
                       /\ rec.tx # "none" => rec.value = rec.amount}

Sweep == {rec \in Loan : rec.amount >= 0}

\* A preparation works on a row of the books.
Work ==
  [pc : {"idle", "fund", "topup", "pay", "send", "paid", "setup", "signing", "charge",
         "reclaim", "claim", "sweep", "sweeping", "swept"},
   needs : SUBSET {"delegate", "approve"}, seen : Int, row : Nat, fresh : BOOLEAN,
   again : BOOLEAN, plan : Int, owed : Nat]

Job == {work \in Work :
          /\ work.pc \in {"pay", "send", "paid"} => work.row \in Topups
          /\ work.pc \in {"sweep", "sweeping", "swept"} => work.row \in Sweeps}

SetupTypeOK ==
  /\ topups \in [Topups -> Loan] /\ sweeps \in [Sweeps -> Sweep] /\ charged \in Nat
  /\ preps \in [Preparation -> Job]
  /\ outdated \in BOOLEAN /\ delegated \in BOOLEAN /\ approved \in BOOLEAN /\ spent \in Nat

OwedBy(jobs) == SumFunctionOnSet([r \in Preparation |-> jobs[r].owed], Preparation)

\* Gas is charged once, and only gas that was spent.
ChargesAreSpent == charged + OwedBy(preps) <= spent

SetupInv == SetupTypeOK /\ ChargesAreSpent

-----------------------------------------------------------------------------
(* What the jobs owe *)

\* What all jobs owe is a number of units.
LEMMA OwedIsNat ==
  ASSUME NEW jobs \in [Preparation -> Job]
  PROVE  OwedBy(jobs) \in Nat
<1>1. PICK fun : fun = [r \in Preparation |-> jobs[r].owed]
  OBVIOUS
<1>2. \A r \in Preparation : fun[r] \in Int /\ fun[r] >= 0
  BY <1>1 DEF Job, Work
<1>3. SumFunctionOnSet(fun, Preparation) \in Int /\ SumFunctionOnSet(fun, Preparation) >= 0
  BY <1>2, SumIsInt
<1> QED
  BY <1>1, <1>3 DEF OwedBy

\* Jobs that each owe no more owe no more together.
LEMMA OwedFollows ==
  ASSUME NEW jobs \in [Preparation -> Job], NEW others \in [Preparation -> Job],
         \A r \in Preparation : others[r].owed <= jobs[r].owed
  PROVE  OwedBy(others) <= OwedBy(jobs)
<1>1. PICK fun, gun : /\ fun = [r \in Preparation |-> others[r].owed]
                      /\ gun = [r \in Preparation |-> jobs[r].owed]
  OBVIOUS
<1>2. \A r \in Preparation : fun[r] \in Int /\ gun[r] \in Int /\ fun[r] <= gun[r]
  BY <1>1 DEF Job, Work
<1>3. SumFunctionOnSet(fun, Preparation) <= SumFunctionOnSet(gun, Preparation)
  BY <1>2, SumOrder
<1> QED
  BY <1>1, <1>3 DEF OwedBy

\* When one job changes, what is owed changes by what that job owes.
LEMMA OwedByOne ==
  ASSUME NEW jobs \in [Preparation -> Job], NEW r \in Preparation, NEW job \in Job
  PROVE  OwedBy([jobs EXCEPT ![r] = job]) = OwedBy(jobs) - jobs[r].owed + job.owed
<1>1. PICK fun, gun, rest :
        /\ fun = [s \in Preparation |-> jobs[s].owed]
        /\ gun = [s \in Preparation |-> [jobs EXCEPT ![r] = job][s].owed]
        /\ rest = Preparation \ {r}
  OBVIOUS
<1>2. \A s \in Preparation : fun[s] \in Int /\ gun[s] \in Int
  BY <1>1 DEF Job, Work
<1>3. fun[r] = jobs[r].owed /\ gun[r] = job.owed /\ \A s \in rest : fun[s] = gun[s]
  BY <1>1
<1>4. IsFiniteSet(rest) /\ rest \subseteq Preparation
  BY <1>1, FS_Subset
<1>5. /\ SumFunctionOnSet(fun, Preparation) = fun[r] + SumFunctionOnSet(fun, rest)
      /\ SumFunctionOnSet(gun, Preparation) = gun[r] + SumFunctionOnSet(gun, rest)
  BY <1>1, <1>2, SumElement
<1>6. SumFunctionOnSet(fun, rest) \in Int /\ SumFunctionOnSet(gun, rest) \in Int
  BY <1>2, <1>4, SumIsInt
<1>7. /\ SumFunctionOnSet(fun, rest) <= SumFunctionOnSet(gun, rest)
      /\ SumFunctionOnSet(gun, rest) <= SumFunctionOnSet(fun, rest)
  <2>1. \A s \in rest : /\ fun[s] \in Int /\ gun[s] \in Int
                        /\ fun[s] <= gun[s] /\ gun[s] <= fun[s]
    BY <1>2, <1>3, <1>4
  <2> QED
    BY <1>4, <2>1, SumOrder
<1>8. /\ OwedBy(jobs) = SumFunctionOnSet(fun, Preparation)
      /\ OwedBy([jobs EXCEPT ![r] = job]) = SumFunctionOnSet(gun, Preparation)
  BY <1>1 DEF OwedBy
<1>9. fun[r] \in Int /\ gun[r] \in Int
  BY <1>2
<1> QED
  BY <1>3, <1>5, <1>6, <1>7, <1>8, <1>9

\* A job goes on and owes no more than before.
LEMMA JobGoesOn ==
  ASSUME SetupInv, NEW r \in Preparation, NEW job \in Job, Become(r, job),
         job.owed <= preps[r].owed, charged' = charged, spent' \in Nat, spent' >= spent
  PROVE  preps' \in [Preparation -> Job] /\ ChargesAreSpent'
<1>1. PICK p, q : p = preps /\ q = [p EXCEPT ![r] = job]
  OBVIOUS
<1>2. p \in [Preparation -> Job] /\ q \in [Preparation -> Job] /\ preps' = q
  BY <1>1 DEF SetupInv, SetupTypeOK, Become
<1>3. \A s \in Preparation : q[s].owed <= p[s].owed
  BY <1>1, <1>2 DEF Job, Work
<1>4. OwedBy(q) <= OwedBy(p) /\ OwedBy(q) \in Nat /\ OwedBy(p) \in Nat
  BY <1>2, <1>3, OwedFollows, OwedIsNat
<1>5. charged \in Nat /\ spent \in Nat /\ charged + OwedBy(p) <= spent
  BY <1>1 DEF SetupInv, SetupTypeOK, ChargesAreSpent
<1>6. charged + OwedBy(q) <= spent'
  BY <1>4, <1>5
<1> QED
  BY <1>2, <1>6 DEF ChargesAreSpent

-----------------------------------------------------------------------------
(* What is in the wallet and in the books *)

\* The tables are bounded.
LEMMA RowsAreFinite ==
  /\ \A among \in SUBSET Topups : IsFiniteSet(among)
  /\ \A among \in SUBSET Sweeps : IsFiniteSet(among)
<1>1. IsFiniteSet(Topups) /\ IsFiniteSet(Sweeps)
  BY FS_Interval DEF Topups, Sweeps
<1> QED
  BY <1>1, FS_Subset

\* The sums over some rows are integers.
LEMMA SumsAreInts ==
  ASSUME SetupTypeOK
  PROVE  /\ \A among \in SUBSET Topups :
              SumOf(topups, among) \in Int /\ Moved(topups, among) \in Int
         /\ \A among \in SUBSET Sweeps : /\ SumOf(sweeps, among) \in Int
                                         /\ Moved(sweeps, among) \in Int
                                         /\ Cardinality(among) \in Nat
<1>1. ASSUME NEW among \in SUBSET Topups
      PROVE  SumOf(topups, among) \in Int /\ Moved(topups, among) \in Int
  <2>1. PICK a, v : /\ a = [i \in DOMAIN topups |-> topups[i].amount]
                    /\ v = [i \in DOMAIN topups |-> topups[i].value]
    OBVIOUS
  <2>2. \A i \in among : a[i] \in Int /\ v[i] \in Int
    BY <2>1 DEF SetupTypeOK, Loan, Row
  <2>3. SumFunctionOnSet(a, among) \in Int /\ SumFunctionOnSet(v, among) \in Int
    BY <2>2, RowsAreFinite, SumIsInt
  <2> QED
    BY <2>1, <2>3 DEF SumOf, Moved
<1>2. ASSUME NEW among \in SUBSET Sweeps
      PROVE  SumOf(sweeps, among) \in Int /\ Moved(sweeps, among) \in Int
  <2>1. PICK a, v : /\ a = [i \in DOMAIN sweeps |-> sweeps[i].amount]
                    /\ v = [i \in DOMAIN sweeps |-> sweeps[i].value]
    OBVIOUS
  <2>2. \A i \in among : a[i] \in Int /\ v[i] \in Int
    BY <2>1 DEF SetupTypeOK, Sweep, Loan, Row
  <2>3. SumFunctionOnSet(a, among) \in Int /\ SumFunctionOnSet(v, among) \in Int
    BY <2>2, RowsAreFinite, SumIsInt
  <2> QED
    BY <2>1, <2>3 DEF SumOf, Moved
<1>3. \A among \in SUBSET Sweeps : Cardinality(among) \in Nat
  BY RowsAreFinite, FS_CardinalityType
<1> QED
  BY <1>1, <1>2, <1>3

\* What landed and what is confirmed are rows of the tables, and what is confirmed has
\* landed.
LEMMA RowSets ==
  ASSUME SetupTypeOK
  PROVE  /\ Landed(topups) \in SUBSET Topups /\ Landed(sweeps) \in SUBSET Sweeps
         /\ \A s : /\ WithStatus(topups, s) \in SUBSET Topups
                   /\ WithStatus(sweeps, s) \in SUBSET Sweeps
         /\ WithStatus(topups, "confirmed") \subseteq Landed(topups)
         /\ WithStatus(sweeps, "confirmed") \subseteq Landed(sweeps)
  BY DEF SetupTypeOK, Landed, WithStatus, Loan, Row, Sweep

\* What the balance and the books say are integers.
LEMMA BooksAreInts ==
  ASSUME SetupTypeOK
  PROVE  Balance \in Int /\ RecoverableGas \in Int
<1>1. /\ Moved(topups, Landed(topups)) \in Int /\ Moved(sweeps, Landed(sweeps)) \in Int
      /\ Cardinality(Landed(sweeps)) \in Nat
  BY RowSets, SumsAreInts
<1>2. /\ SumOf(topups, WithStatus(topups, "confirmed")) \in Int
      /\ SumOf(sweeps, WithStatus(sweeps, "confirmed")) \in Int
      /\ Cardinality(WithStatus(sweeps, "confirmed")) \in Nat
  BY RowSets, SumsAreInts
<1>3. OwnEth \in Nat /\ spent \in Nat /\ charged \in Nat
  BY DEF SetupTypeOK
<1>4. Balance \in Int
  BY <1>1, <1>3 DEF Balance
<1>5. RecoverableGas \in Int
  BY <1>2, <1>3 DEF RecoverableGas, Returned
<1> QED
  BY <1>4, <1>5

\* What a signed transaction of these rows moved is what the rows say.
LEMMA LandedMovesAmounts ==
  ASSUME SetupTypeOK
  PROVE  /\ Moved(topups, Landed(topups)) = SumOf(topups, Landed(topups))
         /\ Moved(sweeps, Landed(sweeps)) = SumOf(sweeps, Landed(sweeps))
<1>1. Moved(topups, Landed(topups)) = SumOf(topups, Landed(topups))
  <2>1. PICK a, v, L : /\ a = [i \in DOMAIN topups |-> topups[i].amount]
                       /\ v = [i \in DOMAIN topups |-> topups[i].value]
                       /\ L = Landed(topups)
    OBVIOUS
  <2>2. IsFiniteSet(L) /\ \A i \in L : a[i] \in Int /\ v[i] \in Int /\ a[i] <= v[i] /\ v[i] <= a[i]
    BY <2>1, RowsAreFinite DEF SetupTypeOK, Loan, Row, Landed
  <2>3. SumFunctionOnSet(a, L) \in Int /\ SumFunctionOnSet(v, L) \in Int
    BY <2>2, SumIsInt
  <2>4. SumFunctionOnSet(a, L) <= SumFunctionOnSet(v, L)
    BY <2>2, SumOrder
  <2>5. SumFunctionOnSet(v, L) <= SumFunctionOnSet(a, L)
    BY <2>2, SumOrder
  <2>6. SumFunctionOnSet(a, L) = SumFunctionOnSet(v, L)
    BY <2>3, <2>4, <2>5
  <2> QED
    BY <2>1, <2>6 DEF SumOf, Moved
<1>2. Moved(sweeps, Landed(sweeps)) = SumOf(sweeps, Landed(sweeps))
  <2>1. PICK a, v, L : /\ a = [i \in DOMAIN sweeps |-> sweeps[i].amount]
                       /\ v = [i \in DOMAIN sweeps |-> sweeps[i].value]
                       /\ L = Landed(sweeps)
    OBVIOUS
  <2>2. IsFiniteSet(L) /\ \A i \in L : a[i] \in Int /\ v[i] \in Int /\ a[i] <= v[i] /\ v[i] <= a[i]
    BY <2>1, RowsAreFinite DEF SetupTypeOK, Loan, Row, Sweep, Landed
  <2>3. SumFunctionOnSet(a, L) \in Int /\ SumFunctionOnSet(v, L) \in Int
    BY <2>2, SumIsInt
  <2>4. SumFunctionOnSet(a, L) <= SumFunctionOnSet(v, L)
    BY <2>2, SumOrder
  <2>5. SumFunctionOnSet(v, L) <= SumFunctionOnSet(a, L)
    BY <2>2, SumOrder
  <2>6. SumFunctionOnSet(a, L) = SumFunctionOnSet(v, L)
    BY <2>3, <2>4, <2>5
  <2> QED
    BY <2>1, <2>6 DEF SumOf, Moved
<1> QED
  BY <1>1, <1>2

-----------------------------------------------------------------------------
(* Every step keeps the invariant. *)

\* A job that rests is a job, and owes nothing.
LEMMA IdleOwesNothing ==
  Idle \in Job /\ Idle \in Work /\ Idle.owed = 0
  BY DEF Idle, Job, Work

\* The invariant holds at first.
LEMMA SetupInitHolds == SetupInit => SetupInv
<1> SUFFICES ASSUME SetupInit PROVE SetupInv
  OBVIOUS
<1>1. Idle \in Job /\ Idle.owed = 0
  BY IdleOwesNothing
<1>2. NoLoan \in Loan /\ NoLoan \in Sweep
  BY DEF NoLoan, Loan, Row, Sweep
<1>3. SetupTypeOK
  BY <1>1, <1>2 DEF SetupInit, SetupTypeOK
<1>4. OwedBy(preps) = 0
  <2>1. PICK fun : fun = [r \in Preparation |-> preps[r].owed]
    OBVIOUS
  <2>2. \A r \in Preparation : fun[r] = 0
    BY <1>1, <2>1 DEF SetupInit
  <2>3. SumFunctionOnSet(fun, Preparation) = 0
    BY <2>2, SumIsInt
  <2> QED
    BY <2>1, <2>3 DEF OwedBy
<1>5. ChargesAreSpent
  BY <1>4 DEF SetupInit, SetupTypeOK, ChargesAreSpent
<1> QED
  BY <1>3, <1>5 DEF SetupInv

\* The steps that touch no row.
LEMMA JobSteps ==
  ASSUME SetupInv, NEW r \in Preparation,
         \/ StartPreparation(r) \/ StartReclaim(r) \/ LookAtBalance(r) \/ LockWallet(r)
         \/ SetupDone(r) \/ NotSpendable(r) \/ LoadSweep(r) \/ ResumeSweep(r)
  PROVE  SetupInv'
<1>1. PICK old : old = preps[r]
  OBVIOUS
<1>2. /\ old \in Job /\ old \in Work /\ old.owed \in Nat
      /\ Missing \in SUBSET {"delegate", "approve"}
      /\ Balance \in Int /\ RecoverableGas \in Int
  BY <1>1, BooksAreInts DEF SetupInv, SetupTypeOK, Job, Work, Missing
<1>0. Idle \in Job /\ Idle \in Work /\ Idle.owed = 0
  BY IdleOwesNothing
<1>3. /\ UNCHANGED <<loanVars, walletVars>> /\ outdated' = outdated
  BY DEF StartPreparation, StartReclaim, LookAtBalance, LockWallet, SetupDone, NotSpendable,
         LoadSweep, ResumeSweep
<1>4. \E job \in Job : Become(r, job) /\ job.owed <= old.owed
  <2>1. CASE StartPreparation(r)
    <3>1. PICK place, job : /\ place = IF Missing = {} THEN "charge" ELSE "fund"
                            /\ job = [Idle EXCEPT !.needs = Missing, !.pc = place]
      OBVIOUS
    <3>2. job \in Job /\ job.owed = 0
      BY <1>0, <1>2, <3>1, ZenonT(60) DEF Job, Work
    <3>3. Become(r, job)
      BY <2>1, <3>1, Zenon DEF StartPreparation
    <3> QED
      BY <1>2, <3>2, <3>3
  <2>2. CASE StartReclaim(r)
    <3>1. PICK job : job = [old EXCEPT !.pc = "reclaim"]
      OBVIOUS
    <3>2. job \in Job /\ job.owed = old.owed
      BY <1>2, <3>1 DEF Job, Work
    <3>3. Become(r, job)
      BY <1>1, <2>2, <3>1 DEF StartReclaim, Move
    <3> QED
      BY <1>2, <3>2, <3>3
  <2>3. CASE LookAtBalance(r)
    <3>1. CASE Become(r, [Idle EXCEPT !.pc = "setup", !.owed = old.owed])
      <4>1. PICK job : job = [Idle EXCEPT !.pc = "setup", !.owed = old.owed]
        OBVIOUS
      <4>2. job \in Job /\ job.owed = old.owed
        BY <1>0, <1>2, <4>1 DEF Job, Work
      <4>3. Become(r, job)
        BY <3>1, <4>1, Zenon
      <4> QED
        BY <1>2, <4>2, <4>3
    <3>2. CASE Become(r, [old EXCEPT !.pc = "topup", !.seen = Balance])
      <4>1. PICK job : job = [old EXCEPT !.pc = "topup", !.seen = Balance]
        OBVIOUS
      <4>2. job \in Job /\ job.owed = old.owed
        BY <1>2, <4>1 DEF Job, Work
      <4>3. Become(r, job)
        BY <3>2, <4>1, Zenon
      <4> QED
        BY <1>2, <4>2, <4>3
    <3> QED
      BY <1>1, <2>3, <3>1, <3>2 DEF LookAtBalance, Proceed
  <2>4. CASE LockWallet(r)
    <3>1. PICK job : job = [old EXCEPT !.needs = Missing, !.pc = "signing"]
      OBVIOUS
    <3>2. job \in Job /\ job.owed = old.owed
      BY <1>2, <3>1 DEF Job, Work
    <3>3. Become(r, job)
      BY <1>1, <2>4, <3>1 DEF LockWallet
    <3> QED
      BY <1>2, <3>2, <3>3
  <2>5. CASE SetupDone(r)
    <3>1. PICK job : job = [old EXCEPT !.pc = "charge"]
      OBVIOUS
    <3>2. job \in Job /\ job.owed = old.owed
      BY <1>2, <3>1 DEF Job, Work
    <3>3. Become(r, job)
      BY <1>1, <2>5, <3>1 DEF SetupDone, Move
    <3> QED
      BY <1>2, <3>2, <3>3
  <2>6. CASE NotSpendable(r)
    <3>1. Idle \in Job /\ Idle.owed = 0
      BY <1>0
    <3> QED
      BY <1>2, <2>6, <3>1 DEF NotSpendable, Stop, Job
  <2>7. CASE LoadSweep(r)
    <3>1. CASE \E i \in Oldest(WithStatus(sweeps, "active")) :
                 Become(r, [Idle EXCEPT !.pc = "sweep", !.row = i, !.fresh = (sweeps[i].tx = "none")])
      <4>1. PICK i \in Oldest(WithStatus(sweeps, "active")) :
              Become(r, [Idle EXCEPT !.pc = "sweep", !.row = i, !.fresh = (sweeps[i].tx = "none")])
        BY <3>1
      <4>2. i \in Sweeps
        BY RowSets DEF SetupInv, Oldest
      <4>3. PICK fresh, job : /\ fresh \in BOOLEAN /\ fresh = (sweeps[i].tx = "none")
                              /\ job = [Idle EXCEPT !.pc = "sweep", !.row = i, !.fresh = fresh]
        OBVIOUS
      <4>4. fresh \in BOOLEAN /\ job = [Idle EXCEPT !.pc = "sweep", !.row = i, !.fresh = fresh]
        BY <4>3
      <4>5. i \in Nat /\ i \in Sweeps
        BY <4>2 DEF Sweeps
      <4>6. job \in Job /\ job.owed = 0
        BY <1>0, <4>4, <4>5 DEF Job, Work
      <4>7. Become(r, job)
        BY <4>1, <4>3, Zenon
      <4> QED
        BY <1>2, <4>6, <4>7
    <3>2. CASE Become(r, [Idle EXCEPT !.pc = "claim", !.plan = RecoverableGas])
      <4>1. PICK job : job = [Idle EXCEPT !.pc = "claim", !.plan = RecoverableGas]
        OBVIOUS
      <4>2. job \in Job /\ job.owed = 0
        BY <1>0, <1>2, <4>1 DEF Job, Work
      <4>3. Become(r, job)
        BY <3>2, <4>1, Zenon
      <4> QED
        BY <1>2, <4>2, <4>3
    <3> QED
      BY <2>7, <3>1, <3>2 DEF LoadSweep
  <2>8. CASE ResumeSweep(r)
    <3>1. PICK place \in {"sweeping", "swept"} : Become(r, [old EXCEPT !.pc = place])
      BY <1>1, <2>8 DEF ResumeSweep, Move
    <3>2. PICK job : job = [old EXCEPT !.pc = place]
      OBVIOUS
    <3>3. old.row \in Sweeps
      BY <1>1, <1>2, <2>8 DEF ResumeSweep, InPlace, Job
    <3>4. job \in Job /\ job.owed = old.owed
      BY <1>2, <3>2, <3>3 DEF Job, Work
    <3>5. Become(r, job)
      BY <3>1, <3>2, Zenon
    <3> QED
      BY <1>2, <3>4, <3>5
  <2> QED
    BY <2>1, <2>2, <2>3, <2>4, <2>5, <2>6, <2>7, <2>8
<1>5. spent \in Nat /\ charged' = charged /\ spent' = spent
  BY <1>3 DEF SetupInv, SetupTypeOK, loanVars, walletVars
<1>6. preps' \in [Preparation -> Job] /\ ChargesAreSpent'
  BY <1>1, <1>4, <1>5, JobGoesOn
<1> QED
  BY <1>3, <1>6 DEF SetupInv, SetupTypeOK, loanVars, walletVars

\* A row goes its way.
LEMMA RowMoves ==
  ASSUME NEW rec \in Loan
  PROVE  /\ \A s \in {"active", "failed"} :
              [rec EXCEPT !.status = s] \in Loan /\ [rec EXCEPT !.status = s].amount = rec.amount
         /\ rec.tx = "landed" =>
              /\ [rec EXCEPT !.status = "confirmed"] \in Loan
              /\ [rec EXCEPT !.status = "confirmed"].amount = rec.amount
         /\ rec.tx = "none" =>
              /\ [rec EXCEPT !.tx = "stored", !.value = rec.amount] \in Loan
              /\ \A n \in Int : /\ [rec EXCEPT !.tx = "stored", !.value = n, !.amount = n] \in Loan
                                /\ [rec EXCEPT !.tx = "stored", !.value = n, !.amount = n].amount = n
         /\ \A t \in {"landed", "dead"} : rec.tx = "stored" =>
              [rec EXCEPT !.tx = t] \in Loan /\ [rec EXCEPT !.tx = t].amount = rec.amount
<1>1. rec \in Row
  BY DEF Loan
<1>2. ASSUME NEW s \in {"active", "failed"}
      PROVE  [rec EXCEPT !.status = s] \in Loan /\ [rec EXCEPT !.status = s].amount = rec.amount
  BY <1>1, <1>2 DEF Loan, Row
<1>3. ASSUME rec.tx = "landed"
      PROVE  /\ [rec EXCEPT !.status = "confirmed"] \in Loan
             /\ [rec EXCEPT !.status = "confirmed"].amount = rec.amount
  BY <1>1, <1>3 DEF Loan, Row
<1>4. ASSUME rec.tx = "none"
      PROVE  [rec EXCEPT !.tx = "stored", !.value = rec.amount] \in Loan
  BY <1>1, <1>4 DEF Loan, Row
<1>5. ASSUME rec.tx = "none", NEW n \in Int
      PROVE  /\ [rec EXCEPT !.tx = "stored", !.value = n, !.amount = n] \in Loan
             /\ [rec EXCEPT !.tx = "stored", !.value = n, !.amount = n].amount = n
  BY <1>1, <1>5 DEF Loan, Row
<1>6. ASSUME NEW t \in {"landed", "dead"}, rec.tx = "stored"
      PROVE  [rec EXCEPT !.tx = t] \in Loan /\ [rec EXCEPT !.tx = t].amount = rec.amount
  BY <1>1, <1>6 DEF Loan, Row
<1> QED
  BY <1>2, <1>3, <1>4, <1>5, <1>6

\* A new row is one of the books.
LEMMA NewRow ==
  ASSUME NEW n \in Int
  PROVE  /\ [NoLoan EXCEPT !.status = "active", !.amount = n] \in Loan
         /\ [NoLoan EXCEPT !.status = "active", !.amount = n].amount = n
<1>1. NoLoan \in Row /\ NoLoan.tx = "none" /\ NoLoan.value = 0
  BY DEF NoLoan, Row
<1> QED
  BY <1>1 DEF Loan, Row

\* Only rows of the table are loaded, and a new one is made of an amount.
LEMMA LoadedRows ==
  ASSUME SetupTypeOK, NEW n \in Int
  PROVE  /\ \A i \in LoadedRow(topups) :
              i \in Topups /\ Created(topups, i, n) \in [Topups -> Loan]
         /\ \A i \in LoadedRow(sweeps) :
              i \in Sweeps /\ (n >= 0 => Created(sweeps, i, n) \in [Sweeps -> Sweep])
<1>1. LoadedRow(topups) \subseteq Topups /\ LoadedRow(sweeps) \subseteq Sweeps
  BY RowSets DEF LoadedRow, Oldest
<1>2. PICK new : new = [NoLoan EXCEPT !.status = "active", !.amount = n]
  OBVIOUS
<1>3. new \in Loan /\ (n >= 0 => new \in Sweep)
  BY <1>2, NewRow DEF Sweep
<1>4. ASSUME NEW i \in Topups PROVE Created(topups, i, n) \in [Topups -> Loan]
  <2>1. Created(topups, i, n) \in {topups, [topups EXCEPT ![i] = new]}
    BY <1>2 DEF Created
  <2> QED
    BY <1>3, <2>1 DEF SetupTypeOK
<1>5. ASSUME NEW i \in Sweeps, n >= 0 PROVE Created(sweeps, i, n) \in [Sweeps -> Sweep]
  <2>1. Created(sweeps, i, n) \in {sweeps, [sweeps EXCEPT ![i] = new]}
    BY <1>2 DEF Created
  <2> QED
    BY <1>3, <1>5, <2>1 DEF SetupTypeOK
<1> QED
  BY <1>1, <1>4, <1>5

\* What a funded wallet should hold is a number of units.
LEMMA TargetIsNat ==
  ASSUME SetupTypeOK, NEW r \in Preparation
  PROVE  Target(r) \in Nat
<1>1. preps[r].needs \subseteq {"delegate", "approve"}
  BY DEF SetupTypeOK, Job, Work
<1>2. IsFiniteSet({"delegate", "approve"})
  <2>1. IsFiniteSet({"delegate"})
    BY FS_Singleton
  <2>2. {"delegate", "approve"} = {"delegate"} \cup {"approve"}
    OBVIOUS
  <2> QED
    BY <2>1, <2>2, FS_AddElement
<1>3. Cardinality(preps[r].needs) \in Nat
  BY <1>1, <1>2, FS_Subset, FS_CardinalityType
<1> QED
  BY <1>3 DEF Target

\* The steps of ensure_funded that write a row.
LEMMA TopupSteps ==
  ASSUME SetupInv, NEW r \in Preparation,
         \/ CreateTopup(r) \/ SignTopup(r) \/ TopupSent(r) \/ TopupSuperseded(r)
         \/ TopupConfirmed(r) \/ FundingFails(r)
  PROVE  SetupInv'
<1>1. PICK old, i : old = preps[r] /\ i = old.row
  OBVIOUS
<1>2. /\ old \in Job /\ old \in Work /\ old.owed \in Nat /\ Balance \in Int
      /\ topups \in [Topups -> Loan]
      /\ Idle \in Job /\ Idle \in Work /\ Idle.owed = 0
  BY <1>1, BooksAreInts, IdleOwesNothing DEF SetupInv, SetupTypeOK, Job, Work
<1>3. /\ UNCHANGED <<sweeps, charged, outdated, walletVars>>
  BY DEF CreateTopup, SignTopup, TopupSent, TopupSuperseded, TopupConfirmed, FundingFails
<1>4. /\ topups' \in [Topups -> Loan]
      /\ \E job \in Job : Become(r, job) /\ job.owed <= old.owed
  <2>1. CASE CreateTopup(r)
    <3>1. PICK k \in LoadedRow(topups) :
            /\ topups' = Created(topups, k, Target(r) - old.seen)
            /\ Become(r, [old EXCEPT !.pc = "pay", !.row = k, !.fresh = (topups'[k].tx = "none")])
      BY <1>1, <2>1, Zenon DEF CreateTopup
    <3>2. PICK n \in Int : n = Target(r) - old.seen
      BY <1>2, TargetIsNat DEF SetupInv, Work
    <3>3. k \in Topups /\ topups' \in [Topups -> Loan]
      BY <3>1, <3>2, LoadedRows DEF SetupInv
    <3>4. PICK fresh, job : /\ fresh \in BOOLEAN /\ fresh = (topups'[k].tx = "none")
                            /\ job = [old EXCEPT !.pc = "pay", !.row = k, !.fresh = fresh]
      OBVIOUS
    <3>5. fresh \in BOOLEAN /\ job = [old EXCEPT !.pc = "pay", !.row = k, !.fresh = fresh]
      BY <3>4
    <3>6. k \in Nat
      BY <3>3 DEF Topups
    <3>7. job \in Job /\ job.owed = old.owed
      BY <1>2, <3>3, <3>5, <3>6 DEF Job, Work
    <3>8. Become(r, job)
      BY <3>1, <3>4, Zenon
    <3> QED
      BY <1>2, <3>3, <3>7, <3>8
  <2>2. CASE SignTopup(r)
    <3>1. i \in Topups
      BY <1>1, <1>2, <2>2 DEF SignTopup, InPlace, Job
    <3>2. topups' \in [Topups -> Loan]
      <4>1. PICK rec : rec = topups[i] /\ rec \in Loan
        BY <1>2, <3>1
      <4>2. CASE rec.tx # "none"
        BY <1>1, <1>2, <2>2, <4>1, <4>2 DEF SignTopup
      <4>3. CASE rec.tx = "none"
        <5>1. topups' = [topups EXCEPT ![i] = [rec EXCEPT !.tx = "stored", !.value = rec.amount]]
          BY <1>1, <1>2, <2>2, <3>1, <4>1, <4>3 DEF SignTopup, Loan, Row
        <5> QED
          BY <1>2, <3>1, <4>1, <4>3, <5>1, RowMoves
      <4> QED
        BY <4>2, <4>3
    <3>3. PICK job : job = [old EXCEPT !.pc = "send"]
      OBVIOUS
    <3>4. job \in Job /\ job.owed = old.owed
      BY <1>1, <1>2, <3>1, <3>3 DEF Job, Work
    <3>5. Become(r, job)
      BY <1>1, <2>2, <3>3, Zenon DEF SignTopup, Move
    <3> QED
      BY <1>2, <3>2, <3>4, <3>5
  <2>3. CASE TopupSent(r)
    <3>1. i \in Topups
      BY <1>1, <1>2, <2>3 DEF TopupSent, InPlace, Job
    <3>2. topups' \in [Topups -> Loan]
      <4>1. topups' = [topups EXCEPT ![i] = [topups[i] EXCEPT !.status = "active"]]
        BY <1>1, <2>3 DEF TopupSent
      <4> QED
        BY <1>2, <3>1, <4>1, RowMoves
    <3>3. PICK job : job = [old EXCEPT !.pc = "paid"]
      OBVIOUS
    <3>4. job \in Job /\ job.owed = old.owed
      BY <1>1, <1>2, <3>1, <3>3 DEF Job, Work
    <3>5. Become(r, job)
      BY <1>1, <2>3, <3>3, Zenon DEF TopupSent, Move
    <3> QED
      BY <1>2, <3>2, <3>4, <3>5
  <2>4. CASE TopupSuperseded(r)
    <3>1. i \in Topups
      BY <1>1, <1>2, <2>4 DEF TopupSuperseded, InPlace, Job
    <3>2. topups' \in [Topups -> Loan]
      <4>1. topups' = [topups EXCEPT ![i] = [topups[i] EXCEPT !.status = "failed"]]
        BY <1>1, <2>4 DEF TopupSuperseded
      <4> QED
        BY <1>2, <3>1, <4>1, RowMoves
    <3>3. PICK paid, again :
            /\ paid = [Idle EXCEPT !.pc = "setup", !.owed = old.owed]
            /\ again = [old EXCEPT !.pc = "topup", !.seen = Balance, !.again = TRUE]
      OBVIOUS
    <3>4. paid \in Job /\ paid.owed = old.owed
      BY <1>2, <3>3 DEF Job, Work
    <3>5. again \in Job /\ again.owed = old.owed
      BY <1>2, <3>3 DEF Job, Work
    <3>6. Become(r, paid) \/ Become(r, Idle) \/ Become(r, again)
      BY <1>1, <2>4, <3>3, Zenon DEF TopupSuperseded, Proceed, Stop
    <3> QED
      BY <1>2, <3>2, <3>4, <3>5, <3>6
  <2>5. CASE TopupConfirmed(r)
    <3>1. i \in Topups
      BY <1>1, <1>2, <2>5 DEF TopupConfirmed, InPlace, Job
    <3>2. topups' \in [Topups -> Loan]
      <4>1. /\ topups' = [topups EXCEPT ![i] = [topups[i] EXCEPT !.status = "confirmed"]]
            /\ topups[i].tx = "landed"
        BY <1>1, <2>5 DEF TopupConfirmed
      <4> QED
        BY <1>2, <3>1, <4>1, RowMoves
    <3>3. PICK job : job = [Idle EXCEPT !.pc = "setup", !.owed = old.owed]
      OBVIOUS
    <3>4. job \in Job /\ job.owed = old.owed
      BY <1>2, <3>3 DEF Job, Work
    <3>5. Become(r, job)
      BY <1>1, <2>5, <3>3, Zenon DEF TopupConfirmed, Proceed
    <3> QED
      BY <1>2, <3>2, <3>4, <3>5
  <2>6. CASE FundingFails(r)
    <3>1. topups' \in [Topups -> Loan]
      <4>1. CASE old.pc \in {"pay", "send", "paid"}
        <5>1. i \in Topups
          BY <1>1, <1>2, <4>1 DEF Job
        <5>2. topups' = [topups EXCEPT ![i] = [topups[i] EXCEPT !.status = "active"]]
          BY <1>1, <2>6, <4>1 DEF FundingFails
        <5> QED
          BY <1>2, <5>1, <5>2, RowMoves
      <4>2. CASE old.pc \notin {"pay", "send", "paid"}
        BY <1>1, <1>2, <2>6, <4>2 DEF FundingFails
      <4> QED
        BY <4>1, <4>2
    <3>2. Become(r, Idle)
      BY <2>6 DEF FundingFails, Stop
    <3> QED
      BY <1>2, <3>1, <3>2
  <2> QED
    BY <2>1, <2>2, <2>3, <2>4, <2>5, <2>6
<1>5. spent \in Nat /\ charged' = charged /\ spent' = spent
  BY <1>3 DEF SetupInv, SetupTypeOK, walletVars
<1>6. preps' \in [Preparation -> Job] /\ ChargesAreSpent'
  BY <1>1, <1>4, <1>5, JobGoesOn
<1> QED
  BY <1>3, <1>4, <1>6 DEF SetupInv, SetupTypeOK, walletVars

\* The steps of reclaim_excess that write a row.
LEMMA SweepSteps ==
  ASSUME SetupInv, NEW r \in Preparation,
         \/ ClaimSweep(r) \/ SignSweep(r) \/ SweepSent(r) \/ SweepSuperseded(r)
         \/ SweepConfirmed(r) \/ SweepFails(r)
  PROVE  SetupInv'
<1>1. PICK old, i : old = preps[r] /\ i = old.row
  OBVIOUS
<1>2. /\ old \in Job /\ old \in Work /\ old.owed \in Nat
      /\ Balance \in Int /\ RecoverableGas \in Int
      /\ sweeps \in [Sweeps -> Sweep]
      /\ Idle \in Job /\ Idle \in Work /\ Idle.owed = 0
  BY <1>1, BooksAreInts, IdleOwesNothing DEF SetupInv, SetupTypeOK, Job, Work
<1>3. /\ UNCHANGED <<topups, charged, outdated, walletVars>>
  BY DEF ClaimSweep, SignSweep, SweepSent, SweepSuperseded, SweepConfirmed, SweepFails
<1>4. ASSUME NEW s \in {"active", "failed"}, i \in Sweeps,
             sweeps' = [sweeps EXCEPT ![i] = [sweeps[i] EXCEPT !.status = s]]
      PROVE  sweeps' \in [Sweeps -> Sweep]
  <2>1. PICK rec : rec = sweeps[i] /\ rec \in Loan /\ rec.amount >= 0
    BY <1>2, <1>4 DEF Sweep
  <2>2. PICK new : new = [rec EXCEPT !.status = s]
    OBVIOUS
  <2>3. new \in Loan /\ new.amount = rec.amount
    BY <2>1, <2>2, RowMoves
  <2>4. new \in Sweep
    BY <2>1, <2>3 DEF Sweep
  <2> QED
    BY <1>2, <1>4, <2>1, <2>2, <2>4
<1>5. /\ sweeps' \in [Sweeps -> Sweep]
      /\ \E job \in Job : Become(r, job) /\ job.owed <= old.owed
  <2>1. CASE ClaimSweep(r)
    <3>1. PICK n \in Int : n = LowerOf(Balance, old.plan) - 1
      BY <1>2 DEF LowerOf, Work
    <3>2. \/ Become(r, Idle) /\ sweeps' = sweeps
          \/ /\ n >= SweepMin
             /\ \E k \in LoadedRow(sweeps) :
                  /\ sweeps' = Created(sweeps, k, n)
                  /\ Become(r, [old EXCEPT !.pc = "sweep", !.row = k, !.plan = 0,
                                           !.fresh = (sweeps'[k].tx = "none")])
      BY <1>1, <2>1, <3>1, Zenon DEF ClaimSweep, Stop
    <3>3. CASE Become(r, Idle) /\ sweeps' = sweeps
      BY <1>2, <3>3
    <3>4. ASSUME n >= SweepMin, NEW k \in LoadedRow(sweeps),
                 sweeps' = Created(sweeps, k, n),
                 Become(r, [old EXCEPT !.pc = "sweep", !.row = k, !.plan = 0,
                                       !.fresh = (sweeps'[k].tx = "none")])
          PROVE  <1>5
      <4>1. n >= 0
        BY <3>1, <3>4
      <4>2. k \in Sweeps /\ sweeps' \in [Sweeps -> Sweep]
        BY <3>1, <3>4, <4>1, LoadedRows DEF SetupInv
      <4>3. PICK fresh, job :
              /\ fresh \in BOOLEAN /\ fresh = (sweeps'[k].tx = "none")
              /\ job = [old EXCEPT !.pc = "sweep", !.row = k, !.plan = 0, !.fresh = fresh]
        OBVIOUS
      <4>4. /\ fresh \in BOOLEAN
            /\ job = [old EXCEPT !.pc = "sweep", !.row = k, !.plan = 0, !.fresh = fresh]
        BY <4>3
      <4>5. k \in Nat
        BY <4>2 DEF Sweeps
      <4>6. job \in Job /\ job.owed = old.owed
        <5>1. PICK on : on = [old EXCEPT !.pc = "sweep", !.row = k]
          OBVIOUS
        <5>2. on \in Work /\ on.pc = "sweep" /\ on.row = k /\ on.owed = old.owed
          BY <1>2, <4>5, <5>1 DEF Work
        <5>3. job = [on EXCEPT !.plan = 0, !.fresh = fresh]
          BY <4>4, <5>1, Zenon
        <5>4. job \in Work /\ job.pc = "sweep" /\ job.row = k /\ job.owed = old.owed
          <6>1. PICK half : half = [on EXCEPT !.plan = 0]
            OBVIOUS
          <6>2. half \in Work /\ half.pc = "sweep" /\ half.row = k /\ half.owed = old.owed
            BY <5>2, <6>1 DEF Work
          <6>3. job = [half EXCEPT !.fresh = fresh] /\ fresh \in BOOLEAN
            BY <4>4, <5>3, <6>1, Zenon
          <6> QED
            BY <6>2, <6>3 DEF Work
        <5> QED
          BY <4>2, <5>4 DEF Job
      <4>7. Become(r, job)
        BY <3>4, <4>3, Zenon
      <4> QED
        BY <1>2, <4>2, <4>6, <4>7
    <3> QED
      BY <3>2, <3>3, <3>4
  <2>2. CASE SignSweep(r)
    <3>1. i \in Sweeps
      BY <1>1, <1>2, <2>2 DEF SignSweep, InPlace, Job
    <3>2. PICK rec : rec = sweeps[i] /\ rec \in Loan /\ rec \in Row /\ rec.amount >= 0
      BY <1>2, <3>1 DEF Sweep, Loan
    <3>3. PICK n : n = LowerOf(rec.amount, Balance - 1)
      OBVIOUS
    <3>4. n \in Int /\ n >= 0 /\ rec.tx = "none"
      BY <1>1, <1>2, <2>2, <3>2, <3>3 DEF SignSweep, LowerOf, Row
    <3>5. PICK new : new = [rec EXCEPT !.tx = "stored", !.value = n, !.amount = n]
      OBVIOUS
    <3>6. new \in Sweep
      BY <3>2, <3>4, <3>5, RowMoves DEF Sweep
    <3>7. sweeps' = [sweeps EXCEPT ![i] = new]
      <4>1. sweeps' = [sweeps EXCEPT ![i].tx = "stored", ![i].value = n, ![i].amount = n]
        BY <1>1, <2>2, <3>2, <3>3, Zenon DEF SignSweep
      <4> QED
        BY <1>2, <3>1, <3>2, <3>5, <4>1
    <3>8. PICK job : job = [old EXCEPT !.pc = "sweeping"]
      OBVIOUS
    <3>9. job \in Job /\ job.owed = old.owed
      BY <1>1, <1>2, <3>1, <3>8 DEF Job, Work
    <3>10. Become(r, job)
      BY <1>1, <2>2, <3>8, Zenon DEF SignSweep, Move
    <3> QED
      BY <1>2, <3>1, <3>6, <3>7, <3>9, <3>10
  <2>3. CASE SweepSent(r)
    <3>1. i \in Sweeps
      BY <1>1, <1>2, <2>3 DEF SweepSent, InPlace, Job
    <3>2. sweeps' = [sweeps EXCEPT ![i] = [sweeps[i] EXCEPT !.status = "active"]]
      BY <1>1, <2>3 DEF SweepSent
    <3>3. PICK job : job = [old EXCEPT !.pc = "swept"]
      OBVIOUS
    <3>4. job \in Job /\ job.owed = old.owed
      BY <1>1, <1>2, <3>1, <3>3 DEF Job, Work
    <3>5. Become(r, job)
      BY <1>1, <2>3, <3>3, Zenon DEF SweepSent, Move
    <3> QED
      BY <1>2, <1>4, <3>1, <3>2, <3>4, <3>5
  <2>4. CASE SweepSuperseded(r)
    <3>1. i \in Sweeps
      BY <1>1, <1>2, <2>4 DEF SweepSuperseded, InPlace, Job
    <3>2. sweeps' = [sweeps EXCEPT ![i] = [sweeps[i] EXCEPT !.status = "failed"]]
      BY <1>1, <2>4 DEF SweepSuperseded
    <3>3. PICK job : job = [Idle EXCEPT !.pc = "claim", !.again = TRUE, !.plan = RecoverableGas]
      OBVIOUS
    <3>4. job \in Job /\ job.owed = 0
      BY <1>2, <3>3 DEF Job, Work
    <3>5. Become(r, job) \/ Become(r, Idle)
      BY <1>1, <2>4, <3>3, Zenon DEF SweepSuperseded, Stop
    <3> QED
      BY <1>2, <1>4, <3>1, <3>2, <3>4, <3>5
  <2>5. CASE SweepConfirmed(r)
    <3>1. i \in Sweeps
      BY <1>1, <1>2, <2>5 DEF SweepConfirmed, InPlace, Job
    <3>2. PICK rec, new : /\ rec = sweeps[i] /\ rec \in Loan /\ rec.amount >= 0
                          /\ new = [rec EXCEPT !.status = "confirmed"]
      BY <1>2, <3>1 DEF Sweep
    <3>3. sweeps' = [sweeps EXCEPT ![i] = new] /\ rec.tx = "landed"
      BY <1>1, <2>5, <3>2 DEF SweepConfirmed
    <3>4. new \in Sweep
      BY <3>2, <3>3, RowMoves DEF Sweep
    <3>5. Become(r, Idle)
      BY <2>5 DEF SweepConfirmed, Stop
    <3> QED
      BY <1>2, <3>1, <3>3, <3>4, <3>5
  <2>6. CASE SweepFails(r)
    <3>1. sweeps' \in [Sweeps -> Sweep]
      <4>1. CASE old.pc \in {"sweep", "sweeping", "swept"}
        <5>1. i \in Sweeps
          BY <1>1, <1>2, <4>1 DEF Job
        <5>2. sweeps' = [sweeps EXCEPT ![i] = [sweeps[i] EXCEPT !.status = "active"]]
          BY <1>1, <2>6, <4>1 DEF SweepFails
        <5> QED
          BY <1>4, <5>1, <5>2
      <4>2. CASE old.pc \notin {"sweep", "sweeping", "swept"}
        BY <1>1, <1>2, <2>6, <4>2 DEF SweepFails
      <4> QED
        BY <4>1, <4>2
    <3>2. Become(r, Idle)
      BY <2>6 DEF SweepFails, Stop
    <3> QED
      BY <1>2, <3>1, <3>2
  <2> QED
    BY <2>1, <2>2, <2>3, <2>4, <2>5, <2>6
<1>6. spent \in Nat /\ charged' = charged /\ spent' = spent
  BY <1>3 DEF SetupInv, SetupTypeOK, walletVars
<1>7. preps' \in [Preparation -> Job] /\ ChargesAreSpent'
  BY <1>1, <1>5, <1>6, JobGoesOn
<1> QED
  BY <1>3, <1>5, <1>7 DEF SetupInv, SetupTypeOK, walletVars

\* The steps that spend gas, and the charge of it.
LEMMA SpendingSteps ==
  ASSUME SetupInv, NEW r \in Preparation, NEW step \in {"delegate", "approve"},
         SetupConfirmed(r, step) \/ SetupFails(r, step) \/ Charge(r)
  PROVE  SetupInv'
<1>1. PICK old : old = preps[r]
  OBVIOUS
<1>2. /\ old \in Job /\ old \in Work /\ old.owed \in Nat /\ spent \in Nat /\ charged \in Nat
      /\ preps \in [Preparation -> Job] /\ OwedBy(preps) \in Nat
      /\ Idle \in Job /\ Idle \in Work /\ Idle.owed = 0
      /\ charged + OwedBy(preps) <= spent
  BY <1>1, OwedIsNat, IdleOwesNothing DEF SetupInv, SetupTypeOK, ChargesAreSpent, Job, Work
<1>3. CASE SetupConfirmed(r, step)
  <2>1. PICK needs, n, job :
          /\ needs = old.needs \ {step} /\ n = old.owed + 1
          /\ job = [old EXCEPT !.needs = needs, !.owed = n]
    OBVIOUS
  <2>2. job \in Job /\ job.owed = old.owed + 1
    <3>1. needs \in SUBSET {"delegate", "approve"} /\ n \in Nat
      BY <1>2, <2>1 DEF Work
    <3> QED
      BY <1>2, <2>1, <3>1, ZenonT(60) DEF Job, Work
  <2>3. Become(r, job) /\ spent' = spent + 1 /\ UNCHANGED loanVars
    BY <1>1, <1>3, <2>1, Zenon DEF SetupConfirmed
  <2>4. OwedBy(preps') = OwedBy(preps) + 1
    <3>1. OwedBy([preps EXCEPT ![r] = job]) = OwedBy(preps) - preps[r].owed + job.owed
      BY <1>2, <2>2, OwedByOne
    <3>2. preps' = [preps EXCEPT ![r] = job]
      BY <2>3 DEF Become
    <3> QED
      BY <1>1, <1>2, <2>2, <3>1, <3>2
  <2>5. /\ preps' \in [Preparation -> Job]
        /\ outdated' \in BOOLEAN /\ delegated' \in BOOLEAN /\ approved' \in BOOLEAN
    BY <1>2, <1>3, <2>2, <2>3 DEF SetupConfirmed, Takes, Become, SetupInv, SetupTypeOK
  <2> QED
    BY <1>2, <2>3, <2>4, <2>5 DEF SetupInv, SetupTypeOK, ChargesAreSpent, loanVars
<1>4. CASE SetupFails(r, step)
  <2>1. /\ Become(r, Idle) /\ UNCHANGED loanVars
        /\ spent' \in Nat /\ spent' >= spent
        /\ outdated' \in BOOLEAN /\ delegated' \in BOOLEAN /\ approved' \in BOOLEAN
    <3>1. Become(r, Idle) /\ UNCHANGED loanVars /\ (spent' = spent \/ spent' = spent + 1)
      BY <1>4, Zenon DEF SetupFails, Stop
    <3>2. delegated' \in BOOLEAN /\ approved' \in BOOLEAN
      BY <1>4 DEF SetupFails, Takes, SetupInv, SetupTypeOK
    <3>3. outdated' \in BOOLEAN
      BY <1>4, Zenon DEF SetupFails, SetupInv, SetupTypeOK
    <3> QED
      BY <1>2, <3>1, <3>2, <3>3
  <2>2. preps' \in [Preparation -> Job] /\ ChargesAreSpent'
    BY <1>1, <1>2, <2>1, JobGoesOn DEF loanVars
  <2> QED
    BY <2>1, <2>2 DEF SetupInv, SetupTypeOK, loanVars
<1>5. CASE Charge(r)
  <2>1. PICK n \in 0..old.owed : charged' = charged + n
    BY <1>1, <1>5 DEF Charge
  <2>2. PICK job : job = [Idle EXCEPT !.pc = "reclaim"]
    OBVIOUS
  <2>3. job \in Job /\ job.owed = 0
    BY <1>2, <2>2 DEF Job, Work
  <2>4. Become(r, job) /\ UNCHANGED <<topups, sweeps, outdated, walletVars>>
    BY <1>5, <2>2, Zenon DEF Charge
  <2>5. OwedBy(preps') = OwedBy(preps) - old.owed
    <3>1. OwedBy([preps EXCEPT ![r] = job]) = OwedBy(preps) - preps[r].owed + job.owed
      BY <1>2, <2>3, OwedByOne
    <3>2. preps' = [preps EXCEPT ![r] = job]
      BY <2>4 DEF Become
    <3> QED
      BY <1>1, <1>2, <2>3, <3>1, <3>2
  <2>6. preps' \in [Preparation -> Job]
    BY <1>2, <2>3, <2>4 DEF Become
  <2>7. charged' + OwedBy(preps') <= spent' /\ charged' \in Nat
    BY <1>2, <2>1, <2>4, <2>5 DEF walletVars
  <2> QED
    BY <2>4, <2>6, <2>7 DEF SetupInv, SetupTypeOK, ChargesAreSpent, walletVars
<1> QED
  BY <1>3, <1>4, <1>5

\* The steps of the caches, the worker and the chain.
LEMMA OutsideSteps ==
  ASSUME SetupInv,
         \/ CacheExpires \/ RestartWorker
         \/ \E i \in Topups : TopupOnChain(i)
         \/ \E i \in Sweeps : SweepOnChain(i)
  PROVE  SetupInv'
<1>1. CASE CacheExpires
  BY <1>1 DEF CacheExpires, SetupInv, SetupTypeOK, ChargesAreSpent, loanVars, walletVars
<1>2. CASE RestartWorker
  <2>1. PICK jobs : jobs = [r \in Preparation |-> Idle]
    OBVIOUS
  <2>2. jobs \in [Preparation -> Job] /\ \A r \in Preparation : jobs[r].owed = 0
    BY <2>1, IdleOwesNothing
  <2>3. OwedBy(jobs) <= OwedBy(preps) /\ OwedBy(jobs) \in Nat /\ OwedBy(preps) \in Nat
    <3>1. preps \in [Preparation -> Job] /\ \A r \in Preparation : 0 <= preps[r].owed
      BY DEF SetupInv, SetupTypeOK, Job, Work
    <3>2. PICK p : p = preps
      OBVIOUS
    <3>3. OwedBy(jobs) <= OwedBy(p) /\ OwedBy(jobs) \in Nat /\ OwedBy(p) \in Nat
      BY <2>2, <3>1, <3>2, OwedFollows, OwedIsNat
    <3> QED
      BY <3>2, <3>3
  <2>4. preps' = jobs /\ UNCHANGED <<loanVars, walletVars>> /\ outdated' = FALSE
    BY <1>2, <2>1 DEF RestartWorker
  <2>5. charged + OwedBy(jobs) <= spent
    BY <2>3 DEF SetupInv, SetupTypeOK, ChargesAreSpent
  <2> QED
    BY <2>2, <2>4, <2>5 DEF SetupInv, SetupTypeOK, ChargesAreSpent, loanVars, walletVars
<1>3. ASSUME NEW i \in Topups, TopupOnChain(i) PROVE SetupInv'
  <2>1. PICK rec, t : /\ rec = topups[i] /\ t \in {"landed", "dead"}
                      /\ topups' = [topups EXCEPT ![i] = [rec EXCEPT !.tx = t]]
                      /\ rec.tx = "stored"
    BY <1>3 DEF TopupOnChain
  <2>2. [rec EXCEPT !.tx = t] \in Loan
    BY <2>1, RowMoves DEF SetupInv, SetupTypeOK
  <2>3. topups' \in [Topups -> Loan]
    BY <2>1, <2>2 DEF SetupInv, SetupTypeOK
  <2> QED
    BY <1>3, <2>3 DEF TopupOnChain, SetupInv, SetupTypeOK, ChargesAreSpent, walletVars
<1>4. ASSUME NEW i \in Sweeps, SweepOnChain(i) PROVE SetupInv'
  <2>1. PICK rec, t : /\ rec = sweeps[i] /\ t \in {"landed", "dead"}
                      /\ sweeps' = [sweeps EXCEPT ![i] = [rec EXCEPT !.tx = t]]
                      /\ rec.tx = "stored"
    BY <1>4 DEF SweepOnChain
  <2>2. rec \in Loan /\ rec.amount >= 0
    BY <2>1 DEF SetupInv, SetupTypeOK, Sweep
  <2>3. [rec EXCEPT !.tx = t] \in Sweep
    BY <2>1, <2>2, RowMoves DEF Sweep
  <2>4. sweeps' \in [Sweeps -> Sweep]
    BY <2>1, <2>3 DEF SetupInv, SetupTypeOK
  <2> QED
    BY <1>4, <2>4 DEF SweepOnChain, SetupInv, SetupTypeOK, ChargesAreSpent, walletVars
<1> QED
  BY <1>1, <1>2, <1>3, <1>4

\* The invariant holds in every behaviour.
LEMMA SetupInvariance == SetupSpec => []SetupInv
<1>1. SetupInv /\ [SetupNext]_setupVars => SetupInv'
  <2> SUFFICES ASSUME SetupInv, [SetupNext]_setupVars PROVE SetupInv'
    OBVIOUS
  <2>1. CASE UNCHANGED setupVars
    BY <2>1 DEF setupVars, loanVars, walletVars, SetupInv, SetupTypeOK, ChargesAreSpent
  <2>2. ASSUME NEW r \in Preparation, PrepareStep(r) PROVE SetupInv'
    <3>1. CASE \/ StartPreparation(r) \/ StartReclaim(r) \/ LookAtBalance(r) \/ LockWallet(r)
               \/ SetupDone(r) \/ NotSpendable(r) \/ LoadSweep(r) \/ ResumeSweep(r)
      BY <3>1, JobSteps
    <3>2. CASE \/ CreateTopup(r) \/ SignTopup(r) \/ TopupSent(r) \/ TopupSuperseded(r)
               \/ TopupConfirmed(r) \/ FundingFails(r)
      BY <3>2, TopupSteps
    <3>3. CASE \/ ClaimSweep(r) \/ SignSweep(r) \/ SweepSent(r) \/ SweepSuperseded(r)
               \/ SweepConfirmed(r) \/ SweepFails(r)
      BY <3>3, SweepSteps
    <3>4. CASE Charge(r) \/ \E step \in {"delegate", "approve"} :
                               SetupConfirmed(r, step) \/ SetupFails(r, step)
      <4>1. CASE Charge(r)
        <5>1. PICK step \in {"delegate", "approve"} : TRUE
          OBVIOUS
        <5> QED
          BY <4>1, SpendingSteps
      <4>2. CASE \E step \in {"delegate", "approve"} :
                   SetupConfirmed(r, step) \/ SetupFails(r, step)
        BY <4>2, SpendingSteps
      <4> QED
        BY <3>4, <4>1, <4>2
    <3> QED
      BY <2>2, <3>1, <3>2, <3>3, <3>4 DEF PrepareStep
  <2>3. CASE \/ CacheExpires \/ RestartWorker
             \/ \E i \in Topups : TopupOnChain(i)
             \/ \E i \in Sweeps : SweepOnChain(i)
    BY <2>3, OutsideSteps
  <2> QED
    BY <2>1, <2>2, <2>3 DEF SetupNext
<1> QED
  BY <1>1, SetupInitHolds, PTL DEF SetupSpec

\* What the platform lent and is still in the wallet is in its books: for any number of
\* overlapping preparations, top-ups, sweeps and restarts, and whatever is lost.
THEOREM ReserveIsInTheBooks == SetupSpec => []ReserveIsCounted
<1>1. SetupInv => ReserveIsCounted
  <2> SUFFICES ASSUME SetupInv PROVE ReserveIsCounted
    OBVIOUS
  <2>1. PICK L, C, S, D :
          /\ L = Landed(topups) /\ C = WithStatus(topups, "confirmed")
          /\ S = Landed(sweeps) /\ D = WithStatus(sweeps, "confirmed")
    OBVIOUS
  <2>2. /\ L \in SUBSET Topups /\ C \subseteq L /\ L \ C \in SUBSET Topups
        /\ S \in SUBSET Sweeps /\ D \subseteq S
    BY <2>1, RowSets DEF SetupInv
  <2>3. /\ Moved(topups, L) = SumOf(topups, L) /\ Moved(sweeps, S) = SumOf(sweeps, S)
    BY <2>1, LandedMovesAmounts DEF SetupInv
  <2>4. SumOf(topups, L) = SumOf(topups, C) + SumOf(topups, L \ C)
    <3>1. PICK a : a = [i \in DOMAIN topups |-> topups[i].amount]
      OBVIOUS
    <3>2. IsFiniteSet(L) /\ \A i \in L : a[i] \in Int
      BY <2>2, <3>1, RowsAreFinite DEF SetupInv, SetupTypeOK, Loan, Row
    <3>3. SumFunctionOnSet(a, L) = SumFunctionOnSet(a, C) + SumFunctionOnSet(a, L \ C)
      BY <2>2, <3>2, SumOfParts
    <3> QED
      BY <3>1, <3>3 DEF SumOf
  <2>5. SumOf(sweeps, D) <= SumOf(sweeps, S) /\ Cardinality(D) <= Cardinality(S)
    <3>1. PICK a, R : a = [i \in DOMAIN sweeps |-> sweeps[i].amount] /\ R = S \ D
      OBVIOUS
    <3>2. IsFiniteSet(S) /\ IsFiniteSet(R) /\ IsFiniteSet(D) /\ R \subseteq S
      BY <2>2, <3>1, RowsAreFinite
    <3>3. \A i \in S : a[i] \in Int /\ a[i] >= 0
      BY <2>2, <3>1 DEF SetupInv, SetupTypeOK, Sweep, Loan, Row
    <3>4. SumFunctionOnSet(a, S) = SumFunctionOnSet(a, D) + SumFunctionOnSet(a, R)
      BY <2>2, <3>1, <3>2, <3>3, SumOfParts
    <3>5. SumFunctionOnSet(a, R) \in Int /\ SumFunctionOnSet(a, R) >= 0
      BY <3>2, <3>3, SumIsInt
    <3>6. SumFunctionOnSet(a, D) \in Int
      BY <2>2, <3>2, <3>3, SumIsInt
    <3>7. Cardinality(D) <= Cardinality(S)
      BY <2>2, <3>2, FS_Subset
    <3> QED
      BY <3>1, <3>4, <3>5, <3>6, <3>7 DEF SumOf
  <2>6. /\ SumOf(topups, C) \in Int /\ SumOf(topups, L \ C) \in Int
        /\ SumOf(sweeps, D) \in Int /\ SumOf(sweeps, S) \in Int
        /\ Cardinality(D) \in Nat /\ Cardinality(S) \in Nat
    <3>1. C \in SUBSET Topups /\ D \in SUBSET Sweeps
      BY <2>2
    <3> QED
      BY <2>2, <3>1, SumsAreInts DEF SetupInv
  <2>7. charged \in Nat /\ spent \in Nat /\ charged <= spent /\ OwnEth \in Nat
    <3>1. PICK p : p = preps
      OBVIOUS
    <3>2. OwedBy(p) \in Nat
      BY <3>1, OwedIsNat DEF SetupInv, SetupTypeOK
    <3> QED
      BY <3>1, <3>2 DEF SetupInv, SetupTypeOK, ChargesAreSpent
  <2>8. Balance = OwnEth + SumOf(topups, L) - SumOf(sweeps, S) - Cardinality(S) - spent
    BY <2>1, <2>3 DEF Balance
  <2>9. /\ RecoverableGas \in Int
        /\ RecoverableGas >= SumOf(topups, C) - (SumOf(sweeps, D) + Cardinality(D)) - charged
    BY <2>1, <2>6, <2>7 DEF RecoverableGas, Returned
  <2>10. Balance - OwnEth <= RecoverableGas + SumOf(topups, L \ C)
    BY <2>4, <2>5, <2>6, <2>7, <2>8, <2>9
  <2> QED
    BY <2>1, <2>10 DEF ReserveIsCounted
<1> QED
  BY <1>1, SetupInvariance, PTL
=============================================================================
