-------------------------- MODULE SolanaWithdrawal --------------------------
(***************************************************************************)
(* Withdrawals of a Flash user.  The money is in the user's token account  *)
(* ("wallet") or in Flash custody; a withdrawal that finds too little in   *)
(* the wallet draws the missing part from custody first, and then pays.    *)
(* Both transactions are stored before they are sent and are sent again as *)
(* they are; beside them the preparation of the wallet moves whatever it   *)
(* finds in the wallet into custody.                                       *)
(*                                                                         *)
(* From tick_mvp/wallets/solana.py, service.py, repository.py and          *)
(* tick_mvp/venues/flash/client.py, wallet.py.                             *)
(***************************************************************************)
EXTENDS Integers, FiniteSets

CONSTANTS
  Withdrawal,  \* the user's withdrawals
  Amount,      \* units of USDC each of them asks for
  Total,       \* units the user has at first
  Serial,      \* blockhashes a transaction may be signed over
  Redeposit    \* whether wallets are prepared while a withdrawal runs

ASSUME AmountIsPositive == Amount \in Nat \ {0} /\ Total \in Nat

VARIABLES
  row,         \* [Withdrawal -> RowStatus], withdrawals.status
  drawn,       \* [Withdrawal -> SUBSET SolanaTx], the stored venue stage, at most one
  payout,      \* [Withdrawal -> SUBSET SolanaTx], the stored transfer, at most one
  at,          \* [Withdrawal -> place], where the job of the withdrawal is
  missing,     \* [Withdrawal -> 0..Amount], what its run found missing in the wallet
  deposit,     \* what a preparation of the wallet is about to deposit, 0 for none
  wallet, custody,   \* units in the token account and in Flash custody
  flight,      \* transactions a validator or the router took
  landed, errored, expired   \* how they ended

rowVars == <<row, drawn, payout>>
runVars == <<at, missing>>
fate    == <<landed, errored, expired>>
money   == <<wallet, custody>>
solanaVars == <<rowVars, runVars, deposit, money, flight, fate>>

Purpose  == {"release", "payout", "deposit"}
SolanaTx == [for : Purpose, of : Withdrawal \cup {"wallet"}, units : Nat, serial : Serial]
Over     == landed \cup errored \cup expired

RowStatus == {"none", "requested", "validated", "signed", "broadcast", "unknown",
              "confirmed", "failed"}
RowActive == RowStatus \ {"none", "confirmed", "failed"}

Step(w, place) == at' = [at EXCEPT ![w] = place]
SetRow(w, s)   == row' = [row EXCEPT ![w] = s]

-----------------------------------------------------------------------------
(* The row and its job *)

AskWithdrawal(w) ==
  /\ row[w] = "none"
  /\ \A v \in Withdrawal : row[v] \notin RowActive
  /\ SetRow(w, "requested")
  /\ UNCHANGED <<drawn, payout, runVars, deposit, money, flight, fate>>

LoadRun(w) ==
  /\ at[w] = "idle" /\ row[w] \in RowActive
  /\ SetRow(w, IF row[w] = "requested" THEN "validated" ELSE row[w])
  /\ Step(w, "read")
  /\ UNCHANGED <<drawn, payout, missing, deposit, money, flight, fate>>

ReadWallet(w) ==
  /\ at[w] = "read"
  /\ IF wallet < Amount
       THEN missing' = [missing EXCEPT ![w] = Amount - wallet] /\ Step(w, "release")
       ELSE Step(w, "pay") /\ UNCHANGED missing
  /\ UNCHANGED <<rowVars, deposit, money, flight, fate>>

-----------------------------------------------------------------------------
(* The venue stage *)

Signed(what, w, n) ==
  {tx \in [for : {what}, of : {w}, units : {n}, serial : Serial] :
     tx \notin flight \cup Over}

\* Faulty form: the release is prepared anew on every run.
ReleaseAnew(w) == Signed("release", w, missing[w])

\* A stored release is used whatever is missing now.
ReleaseOf(w) == IF drawn[w] # {} THEN drawn[w] ELSE ReleaseAnew(w)

PrepareRelease(w) ==
  /\ at[w] = "release"
  /\ \E tx \in ReleaseOf(w) : drawn' = [drawn EXCEPT ![w] = {tx}]
  /\ missing' = [missing EXCEPT ![w] = 0]
  /\ Step(w, "draw")
  /\ UNCHANGED <<row, payout, deposit, money, flight, fate>>

\* What a submission does, whether its answer arrives or not.
Posted(tx) == flight' \in {flight, flight \cup ({tx} \ Over)}

\* The router takes the bytes, knows them, answers nothing, or refuses.
SubmitRelease(w) ==
  /\ at[w] = "draw"
  /\ \/ \E tx \in drawn[w] : Posted(tx) /\ Step(w, "drawn")
     \/ UNCHANGED flight /\ Step(w, "failing")
  /\ UNCHANGED <<rowVars, missing, deposit, money, fate>>

AwaitRelease(w) ==
  /\ at[w] = "drawn"
  /\ \/ drawn[w] \cap landed # {} /\ Step(w, "fund")
     \/ drawn[w] \cap errored # {} /\ Step(w, "rejected")
  /\ UNCHANGED <<rowVars, missing, deposit, money, flight, fate>>

AwaitFunds(w) ==
  /\ at[w] = "fund" /\ wallet >= Amount
  /\ Step(w, "pay")
  /\ UNCHANGED <<rowVars, missing, deposit, money, flight, fate>>

-----------------------------------------------------------------------------
(* The transfer *)

PayoutAnew(w) == Signed("payout", w, Amount)

PayoutOf(w) == IF payout[w] # {} THEN payout[w] ELSE PayoutAnew(w)

PreparePayout(w) ==
  /\ at[w] = "pay"
  /\ \E tx \in PayoutOf(w) : payout' = [payout EXCEPT ![w] = {tx}]
  /\ SetRow(w, IF payout[w] = {} THEN "signed" ELSE row[w])
  /\ Step(w, "send")
  /\ UNCHANGED <<drawn, missing, deposit, money, flight, fate>>

\* The node simulates before it sends: a transfer that has landed or expired, or
\* that the wallet cannot pay, may be refused.
SendPayout(w) ==
  /\ at[w] = "send"
  /\ \/ \E tx \in payout[w] : Posted(tx) /\ Step(w, "posted")
     \/ UNCHANGED flight /\ Step(w, "failing")
  /\ UNCHANGED <<rowVars, missing, deposit, money, fate>>

MarkPosted(w) ==
  /\ at[w] = "posted"
  /\ SetRow(w, "broadcast") /\ Step(w, "sent")
  /\ UNCHANGED <<drawn, payout, missing, deposit, money, flight, fate>>

\* Faulty form: the payout counts as confirmed once it was sent.
RecordSent(w) ==
  /\ at[w] = "sent" /\ payout[w] # {}
  /\ SetRow(w, "confirmed") /\ Step(w, "idle")
  /\ UNCHANGED <<drawn, payout, missing, deposit, money, flight, fate>>

RecordPayout(w) ==
  /\ at[w] = "sent"
  /\ \/ payout[w] \cap landed # {} /\ SetRow(w, "confirmed") /\ Step(w, "idle")
     \/ payout[w] \cap errored # {} /\ Step(w, "rejected") /\ UNCHANGED row
  /\ UNCHANGED <<drawn, payout, missing, deposit, money, flight, fate>>

-----------------------------------------------------------------------------
(* How a run ends early *)

\* A timeout, a failed call, a builder that answers nothing.
RunFails(w) ==
  /\ at[w] \in {"read", "release", "drawn", "fund", "pay", "sent"}
  /\ missing' = [missing EXCEPT ![w] = 0]
  /\ Step(w, "failing")
  /\ UNCHANGED <<rowVars, deposit, money, flight, fate>>

FailRun(w) ==
  /\ at[w] = "failing"
  /\ SetRow(w, IF payout[w] = {} THEN "validated" ELSE "unknown")
  /\ Step(w, "idle")
  /\ UNCHANGED <<drawn, payout, missing, deposit, money, flight, fate>>

RejectRun(w) ==
  /\ at[w] = "rejected"
  /\ SetRow(w, "failed") /\ Step(w, "idle")
  /\ UNCHANGED <<drawn, payout, missing, deposit, money, flight, fate>>

StopWorker ==
  /\ \E w \in Withdrawal : at[w] # "idle"
  /\ at' = [w \in Withdrawal |-> "idle"]
  /\ missing' = [w \in Withdrawal |-> 0]
  /\ deposit' = 0
  /\ UNCHANGED <<rowVars, money, flight, fate>>

-----------------------------------------------------------------------------
(* prepare_wallet: the wallet is read and all of it deposited *)

PrepareWallet ==
  /\ Redeposit /\ deposit = 0 /\ wallet > 0
  /\ deposit' = wallet
  /\ UNCHANGED <<rowVars, runVars, money, flight, fate>>

SubmitDeposit ==
  /\ deposit > 0
  /\ deposit' = 0
  /\ \/ \E tx \in Signed("deposit", "wallet", deposit) : Posted(tx)
     \/ UNCHANGED flight
  /\ UNCHANGED <<rowVars, runVars, money, fate>>

-----------------------------------------------------------------------------
(* The chain *)

\* A transaction moves its units if they are there; any may fail on chain.
\* Nobody asks what became of a deposit.
LandTx(tx) ==
  LET in == IF tx.for = "release" THEN custody ELSE wallet
      known == IF tx.for = "deposit" THEN {} ELSE {tx} IN
  /\ tx \in flight
  /\ flight' = flight \ {tx}
  /\ \/ /\ in >= tx.units
        /\ wallet' = IF tx.for = "release" THEN wallet + tx.units ELSE wallet - tx.units
        /\ custody' = CASE tx.for = "release" -> custody - tx.units
                        [] tx.for = "deposit" -> custody + tx.units
                        [] OTHER -> custody
        /\ landed' = landed \cup known
        /\ UNCHANGED errored
     \/ errored' = errored \cup known /\ UNCHANGED <<landed, money>>
  /\ UNCHANGED <<rowVars, runVars, deposit, expired>>

\* A signed blockhash is too old after a minute or so.
ExpireTx(tx) ==
  /\ tx \notin Over
  /\ expired' = expired \cup {tx}
  /\ flight' = flight \ {tx}
  /\ UNCHANGED <<rowVars, runVars, deposit, money, landed, errored>>

SolanaInit ==
  /\ row = [w \in Withdrawal |-> "none"]
  /\ drawn = [w \in Withdrawal |-> {}]
  /\ payout = [w \in Withdrawal |-> {}]
  /\ at = [w \in Withdrawal |-> "idle"]
  /\ missing = [w \in Withdrawal |-> 0]
  /\ deposit = 0
  /\ wallet \in 0..Total /\ custody = Total - wallet
  /\ flight = {} /\ landed = {} /\ errored = {} /\ expired = {}

RunStep(w) ==
  \/ LoadRun(w) \/ ReadWallet(w)
  \/ PrepareRelease(w) \/ SubmitRelease(w) \/ AwaitRelease(w) \/ AwaitFunds(w)
  \/ PreparePayout(w) \/ SendPayout(w) \/ MarkPosted(w) \/ RecordPayout(w)
  \/ RunFails(w) \/ FailRun(w) \/ RejectRun(w)

SolanaNext ==
  \/ \E w \in Withdrawal : AskWithdrawal(w) \/ RunStep(w)
  \/ StopWorker
  \/ PrepareWallet \/ SubmitDeposit
  \/ \E tx \in flight : LandTx(tx)
  \/ \E w \in Withdrawal : \E tx \in drawn[w] \cup payout[w] : ExpireTx(tx)

SolanaSpec == SolanaInit /\ [][SolanaNext]_solanaVars

\* The job is run again and again, the process stays up long enough, and every
\* call of a run that may succeed does so some time.
CallsSucceed(w) ==
  /\ SF_solanaVars(ReadWallet(w)) /\ SF_solanaVars(PrepareRelease(w))
  /\ SF_solanaVars(SubmitRelease(w) /\ at'[w] = "drawn")
  /\ SF_solanaVars(AwaitRelease(w)) /\ SF_solanaVars(AwaitFunds(w))
  /\ SF_solanaVars(PreparePayout(w))
  /\ SF_solanaVars(SendPayout(w) /\ at'[w] = "posted")
  /\ SF_solanaVars(MarkPosted(w)) /\ SF_solanaVars(RecordPayout(w))

SolanaFairSpec ==
  /\ SolanaSpec
  /\ \A w \in Withdrawal :
       /\ WF_solanaVars(LoadRun(w)) /\ CallsSucceed(w)
       /\ WF_solanaVars(FailRun(w)) /\ WF_solanaVars(RejectRun(w))
  /\ WF_solanaVars(\E tx \in flight : LandTx(tx))

-----------------------------------------------------------------------------
SolanaTypeOK ==
  /\ row \in [Withdrawal -> RowStatus]
  /\ drawn \in [Withdrawal -> SUBSET SolanaTx]
  /\ payout \in [Withdrawal -> SUBSET SolanaTx]
  /\ at \in [Withdrawal -> {"idle", "read", "release", "draw", "drawn", "fund", "pay",
                            "send", "posted", "sent", "failing", "rejected"}]
  /\ missing \in [Withdrawal -> 0..Amount]
  /\ deposit \in 0..Total /\ wallet \in 0..Total /\ custody \in 0..Total
  /\ flight \cup Over \subseteq SolanaTx

\* Whatever is retried, a withdrawal leaves the wallet once and draws from
\* custody once: a later run sends the stored transactions and no others.
SolanaPaidOnce ==
  \A x, y \in landed : x.for = y.for /\ x.of = y.of => x = y

\* The user reads CONFIRMED only if the transfer of this withdrawal landed, and
\* then the money is not in the wallet or in custody any more.
SolanaConfirmedIsPaid ==
  /\ \A w \in Withdrawal : row[w] = "confirmed" =>
       \E tx \in landed : tx.for = "payout" /\ tx.of = w
  /\ wallet + custody
       <= Total - Amount * Cardinality({w \in Withdrawal : row[w] = "confirmed"})

\* backend/README.md:81: withdrawals "recover by deterministic transaction hash".
\* A transfer that landed is found again and the withdrawal confirmed.
PayoutIsRecorded ==
  \A w \in Withdrawal : payout[w] \cap landed # {} ~> row[w] = "confirmed"
=============================================================================
