---------------------------- MODULE WalletSetup ----------------------------
(***************************************************************************)
(* The preparation of one user's wallet on Arbitrum: the platform lends    *)
(* it ETH for a delegation and an approval, charges the user their gas,    *)
(* and takes back what is left of the loan.  Preparations of one user, and *)
(* reclaim_user_gas, may overlap.  A setup transaction costs one unit of   *)
(* gas, and so does a sweep.  How a top-up or a sweep is signed, sent and  *)
(* found again is WalletPayments; here its transaction is stored, landed   *)
(* or dead, which is when another one took its nonce.                      *)
(*                                                                         *)
(* From tick_mvp/execution/service.py, venues/gtrade/wallet.py,            *)
(* wallets/gas.py, gas_repository.py and gas_sweep_repository.py.          *)
(***************************************************************************)
EXTENDS Integers, FiniteSets, Functions

CONSTANTS
  Preparation,       \* jobs that may overlap
  SetupBuffer,       \* user_gas_buffer_eth
  SweepMin,          \* user_gas_sweep_min_eth
  OwnEth,            \* ETH in the wallet that the platform did not send
  MaxTopups, MaxSweeps,   \* bounds on rows
  WorkerStops        \* whether the worker may restart

ASSUME SetupAssumption ==
  /\ {SetupBuffer, SweepMin, OwnEth, MaxTopups, MaxSweeps} \subseteq Nat
  /\ SweepMin > 0 /\ WorkerStops \in BOOLEAN
  /\ IsFiniteSet(Preparation)

VARIABLES
  topups,      \* [Topups -> Loan], gas_topups
  sweeps,      \* [Sweeps -> Loan], gas_sweeps
  charged,     \* native gas of the wallet in the ledger
  preps,       \* [Preparation -> Run]
  outdated,    \* _delegate_cache still denies a delegation that is on chain
  delegated, approved,   \* on chain
  spent        \* gas of setup transactions

loanVars   == <<topups, sweeps, charged>>
walletVars == <<delegated, approved, spent>>
setupVars  == <<loanVars, preps, outdated, walletVars>>

Topups == 1..MaxTopups
Sweeps == 1..MaxSweeps
NoLoan == [status |-> "none", tx |-> "none", amount |-> 0, value |-> 0]
Idle   == [pc |-> "idle", needs |-> {}, seen |-> 0, row |-> 0, fresh |-> TRUE,
           again |-> FALSE, plan |-> 0, owed |-> 0]

SumOf(rows, among) == SumFunctionOnSet([i \in DOMAIN rows |-> rows[i].amount], among)
Moved(rows, among) == SumFunctionOnSet([i \in DOMAIN rows |-> rows[i].value], among)
WithStatus(rows, s) == {i \in DOMAIN rows : rows[i].status = s}
Landed(rows) == {i \in DOMAIN rows : rows[i].tx = "landed"}

\* A sweep takes its own gas beside the amount.
Returned(among) == SumOf(sweeps, among) + Cardinality(among)

Balance ==
  OwnEth + Moved(topups, Landed(topups)) - Moved(sweeps, Landed(sweeps))
    - Cardinality(Landed(sweeps)) - spent

\* recoverable_native
RecoverableGas ==
  LET left == SumOf(topups, WithStatus(topups, "confirmed"))
                - Returned(WithStatus(sweeps, "confirmed")) - charged
  IN  IF left > 0 THEN left ELSE 0

\* create_or_load takes the oldest active row of the wallet, else makes a new one.
Oldest(among) == {i \in among : \A j \in among : i <= j}
LoadedRow(rows) ==
  Oldest(IF WithStatus(rows, "active") # {} THEN WithStatus(rows, "active")
         ELSE WithStatus(rows, "none"))
Created(rows, i, amount) ==
  IF rows[i].status = "active" THEN rows
  ELSE [rows EXCEPT ![i] = [NoLoan EXCEPT !.status = "active", !.amount = amount]]

SetupInit ==
  /\ topups = [i \in Topups |-> NoLoan] /\ sweeps = [i \in Sweeps |-> NoLoan]
  /\ charged = 0
  /\ preps = [r \in Preparation |-> Idle]
  /\ outdated = FALSE
  /\ delegated = FALSE /\ approved = FALSE /\ spent = 0

InPlace(r, place) == preps[r].pc = place
Become(r, run) == preps' = [preps EXCEPT ![r] = run]
Move(r, place) == Become(r, [preps[r] EXCEPT !.pc = place])
Stop(r) == Become(r, Idle)
Proceed(r, place) == Become(r, [Idle EXCEPT !.pc = place, !.owed = preps[r].owed])

\* sender_lock of the wallet: for the whole setup, and while a sweep is sent.
Unlocked == \A r \in Preparation : preps[r].pc \notin {"signing", "sweeping"}

-----------------------------------------------------------------------------
(* What is missing.  The delegate that was read or set is remembered for a while. *)

Missing ==
  (IF delegated /\ ~outdated THEN {} ELSE {"delegate"})
    \cup (IF approved THEN {} ELSE {"approve"})

StartPreparation(r) ==
  /\ InPlace(r, "idle")
  /\ Become(r, [Idle EXCEPT !.needs = Missing, !.pc = IF Missing = {} THEN "charge" ELSE "fund"])
  /\ UNCHANGED <<loanVars, outdated, walletVars>>

StartReclaim(r) ==
  /\ InPlace(r, "idle")
  /\ Move(r, "reclaim")
  /\ UNCHANGED <<loanVars, outdated, walletVars>>

-----------------------------------------------------------------------------
(* ensure_funded *)

Target(r) == Cardinality(preps[r].needs) + SetupBuffer

\* A balance read up to half a minute ago may say that there is enough.
LookAtBalance(r) ==
  /\ InPlace(r, "fund")
  /\ \/ Proceed(r, "setup")
     \/ /\ Balance < Target(r)
        /\ Become(r, [preps[r] EXCEPT !.pc = "topup", !.seen = Balance])
  /\ UNCHANGED <<loanVars, outdated, walletVars>>

CreateTopup(r) ==
  /\ InPlace(r, "topup")
  /\ \E i \in LoadedRow(topups) :
       /\ topups' = Created(topups, i, Target(r) - preps[r].seen)
       /\ Become(r, [preps[r] EXCEPT !.pc = "pay", !.row = i, !.fresh = (topups'[i].tx = "none")])
  /\ UNCHANGED <<sweeps, charged, outdated, walletVars>>

\* mark_signed refuses a second transaction for the row.
SignTopup(r) ==
  LET i == preps[r].row IN
  /\ InPlace(r, "pay")
  /\ preps[r].fresh => topups[i].tx = "none"
  /\ topups' = IF topups[i].tx # "none" THEN topups
               ELSE [topups EXCEPT ![i].tx = "stored", ![i].value = topups[i].amount]
  /\ Move(r, "send")
  /\ UNCHANGED <<sweeps, charged, outdated, walletVars>>

\* A route takes the bytes, or the chain knows them.
TopupSent(r) ==
  /\ InPlace(r, "send") /\ topups[preps[r].row].tx # "dead"
  /\ topups' = [topups EXCEPT ![preps[r].row].status = "active"]
  /\ Move(r, "paid")
  /\ UNCHANGED <<sweeps, charged, outdated, walletVars>>

\* The nonce is past, and the hash was not found: it may be the one that passed it.
TopupSuperseded(r) ==
  /\ InPlace(r, "send") /\ topups[preps[r].row].tx \in {"dead", "landed"}
  /\ topups' = [topups EXCEPT ![preps[r].row].status = "failed"]
  /\ IF Balance >= Target(r) THEN Proceed(r, "setup")
     ELSE IF preps[r].again THEN Stop(r)
     ELSE Become(r, [preps[r] EXCEPT !.pc = "topup", !.seen = Balance, !.again = TRUE])
  /\ UNCHANGED <<sweeps, charged, outdated, walletVars>>

TopupConfirmed(r) ==
  LET i == preps[r].row IN
  /\ InPlace(r, "paid") /\ topups[i].tx = "landed"
  /\ topups' = [topups EXCEPT ![i].status = "confirmed"]
  /\ Proceed(r, "setup")
  /\ UNCHANGED <<sweeps, charged, outdated, walletVars>>

\* mark_retryable_error looks at no status.
FundingFails(r) ==
  /\ \/ preps[r].pc \in {"fund", "topup"} /\ UNCHANGED topups
     \/ /\ preps[r].pc \in {"pay", "send", "paid"}
        /\ topups' = [topups EXCEPT ![preps[r].row].status = "active"]
  /\ Stop(r)
  /\ UNCHANGED <<sweeps, charged, outdated, walletVars>>

-----------------------------------------------------------------------------
(* The delegation and then the approval, each until its receipt, under the lock *)

LockWallet(r) ==
  /\ InPlace(r, "setup") /\ Unlocked
  /\ Become(r, [preps[r] EXCEPT !.needs = Missing, !.pc = "signing"])
  /\ UNCHANGED <<loanVars, outdated, walletVars>>

NextStep(r, step) ==
  /\ InPlace(r, "signing")
  /\ step \in preps[r].needs
  /\ step = "approve" => "delegate" \notin preps[r].needs

Takes(step) ==
  /\ delegated' = (delegated \/ step = "delegate")
  /\ approved' = (approved \/ step = "approve")

SetupConfirmed(r, step) ==
  /\ NextStep(r, step)
  /\ Balance >= 1 /\ spent' = spent + 1
  /\ Takes(step)
  /\ outdated' = (outdated /\ step # "delegate")
  /\ Become(r, [preps[r] EXCEPT !.needs = @ \ {step}, !.owed = @ + 1])
  /\ UNCHANGED loanVars

\* It cannot be paid for, its receipt does not come, or it reverts.
SetupFails(r, step) ==
  /\ NextStep(r, step)
  /\ \/ UNCHANGED <<delegated, approved, spent>>
     \/ /\ Balance >= 1 /\ spent' = spent + 1
        /\ Takes(step) \/ UNCHANGED <<delegated, approved>>
  /\ outdated' = (outdated \/ (step = "delegate" /\ delegated'))
  /\ Stop(r)
  /\ UNCHANGED loanVars

SetupDone(r) ==
  /\ InPlace(r, "signing") /\ preps[r].needs = {}
  /\ Move(r, "charge")
  /\ UNCHANGED <<loanVars, outdated, walletVars>>

\* Each charge is recorded, or fails and is logged.
Charge(r) ==
  /\ InPlace(r, "charge")
  /\ \E n \in 0..preps[r].owed : charged' = charged + n
  /\ Become(r, [Idle EXCEPT !.pc = "reclaim"])
  /\ UNCHANGED <<topups, sweeps, outdated, walletVars>>

\* _require_spendable: the user's USDC does not cover the ticket of the quote.
NotSpendable(r) ==
  /\ InPlace(r, "charge")
  /\ Stop(r)
  /\ UNCHANGED <<loanVars, outdated, walletVars>>

-----------------------------------------------------------------------------
(* reclaim_excess.  An exception in it is caught. *)

LoadSweep(r) ==
  /\ InPlace(r, "reclaim")
  /\ LET active == Oldest(WithStatus(sweeps, "active"))
     IN  \/ \E i \in active :
              Become(r, [Idle EXCEPT !.pc = "sweep", !.row = i,
                                     !.fresh = (sweeps[i].tx = "none")])
         \/ active = {} /\ Become(r, [Idle EXCEPT !.pc = "claim", !.plan = RecoverableGas])
  /\ UNCHANGED <<loanVars, outdated, walletVars>>

LowerOf(a, b) == IF a < b THEN a ELSE b

\* The plan is made of what was recoverable, and of the balance there is now.
ClaimSweep(r) ==
  LET amount == LowerOf(Balance, preps[r].plan) - 1 IN
  /\ InPlace(r, "claim")
  /\ \/ /\ amount < SweepMin
        /\ Stop(r) /\ UNCHANGED sweeps
     \/ /\ amount >= SweepMin
        /\ \E i \in LoadedRow(sweeps) :
             /\ sweeps' = Created(sweeps, i, amount)
             /\ Become(r, [preps[r] EXCEPT !.pc = "sweep", !.row = i,
                                           !.plan = 0, !.fresh = (sweeps'[i].tx = "none")])
  /\ UNCHANGED <<topups, charged, outdated, walletVars>>

\* The balance may have gone down since: what is signed is stored.
SignSweep(r) ==
  LET i == preps[r].row IN
  /\ InPlace(r, "sweep") /\ Unlocked
  /\ preps[r].fresh /\ sweeps[i].tx = "none" /\ Balance > 1
  /\ LET amount == LowerOf(sweeps[i].amount, Balance - 1) IN
     sweeps' = [sweeps EXCEPT ![i].tx = "stored", ![i].value = amount, ![i].amount = amount]
  /\ Move(r, "sweeping")
  /\ UNCHANGED <<topups, charged, outdated, walletVars>>

ResumeSweep(r) ==
  /\ InPlace(r, "sweep") /\ ~preps[r].fresh
  /\ \/ Unlocked /\ Move(r, "sweeping")
     \/ sweeps[preps[r].row].tx = "landed" /\ Move(r, "swept")
  /\ UNCHANGED <<loanVars, outdated, walletVars>>

SweepSent(r) ==
  /\ InPlace(r, "sweeping") /\ sweeps[preps[r].row].tx # "dead"
  /\ sweeps' = [sweeps EXCEPT ![preps[r].row].status = "active"]
  /\ Move(r, "swept")
  /\ UNCHANGED <<topups, charged, outdated, walletVars>>

SweepSuperseded(r) ==
  /\ InPlace(r, "sweeping") /\ sweeps[preps[r].row].tx \in {"dead", "landed"}
  /\ sweeps' = [sweeps EXCEPT ![preps[r].row].status = "failed"]
  /\ IF preps[r].again THEN Stop(r)
     ELSE Become(r, [Idle EXCEPT !.pc = "claim", !.again = TRUE, !.plan = RecoverableGas])
  /\ UNCHANGED <<topups, charged, outdated, walletVars>>

\* Faulty form: a sweep counts as returned once it is sent.
CountSentSweep(r) ==
  LET i == preps[r].row IN
  /\ InPlace(r, "swept")
  /\ sweeps' = [sweeps EXCEPT ![i].status = "confirmed"]
  /\ Stop(r)
  /\ UNCHANGED <<topups, charged, outdated, walletVars>>

SweepConfirmed(r) ==
  LET i == preps[r].row IN
  /\ InPlace(r, "swept") /\ sweeps[i].tx = "landed"
  /\ sweeps' = [sweeps EXCEPT ![i].status = "confirmed"]
  /\ Stop(r)
  /\ UNCHANGED <<topups, charged, outdated, walletVars>>

SweepFails(r) ==
  /\ \/ preps[r].pc \in {"reclaim", "claim"} /\ UNCHANGED sweeps
     \/ /\ preps[r].pc \in {"sweep", "sweeping", "swept"}
        /\ sweeps' = [sweeps EXCEPT ![preps[r].row].status = "active"]
  /\ Stop(r)
  /\ UNCHANGED <<topups, charged, outdated, walletVars>>

-----------------------------------------------------------------------------
(* The caches run out, the worker restarts, the chain goes on. *)

CacheExpires ==
  /\ outdated' = FALSE
  /\ UNCHANGED <<loanVars, preps, walletVars>>

RestartWorker ==
  /\ WorkerStops
  /\ preps' = [r \in Preparation |-> Idle]
  /\ outdated' = FALSE
  /\ UNCHANGED <<loanVars, walletVars>>

TopupOnChain(i) ==
  /\ topups[i].tx = "stored"
  /\ topups' = [topups EXCEPT ![i].tx = "landed"] \/ topups' = [topups EXCEPT ![i].tx = "dead"]
  /\ UNCHANGED <<sweeps, charged, preps, outdated, walletVars>>

SweepOnChain(i) ==
  /\ sweeps[i].tx = "stored"
  /\ \/ Balance > sweeps[i].value /\ sweeps' = [sweeps EXCEPT ![i].tx = "landed"]
     \/ sweeps' = [sweeps EXCEPT ![i].tx = "dead"]
  /\ UNCHANGED <<topups, charged, preps, outdated, walletVars>>

PrepareStep(r) ==
  \/ StartPreparation(r) \/ StartReclaim(r)
  \/ LookAtBalance(r) \/ CreateTopup(r) \/ SignTopup(r) \/ TopupSent(r)
  \/ TopupSuperseded(r) \/ TopupConfirmed(r) \/ FundingFails(r)
  \/ LockWallet(r) \/ SetupDone(r) \/ Charge(r) \/ NotSpendable(r)
  \/ \E step \in {"delegate", "approve"} : SetupConfirmed(r, step) \/ SetupFails(r, step)
  \/ LoadSweep(r) \/ ClaimSweep(r) \/ SignSweep(r) \/ ResumeSweep(r) \/ SweepSent(r)
  \/ SweepSuperseded(r) \/ SweepConfirmed(r) \/ SweepFails(r)

SetupNext ==
  \/ \E r \in Preparation : PrepareStep(r)
  \/ CacheExpires \/ RestartWorker
  \/ \E i \in Topups : TopupOnChain(i)
  \/ \E i \in Sweeps : SweepOnChain(i)

SetupSpec == SetupInit /\ [][SetupNext]_setupVars
-----------------------------------------------------------------------------
\* What the platform lent and is still in the wallet is known to its books: it is
\* recoverable (recoverable_native, which every later sweep is planned from), or its
\* top-up landed and is not confirmed yet.  Charges, sweeps that fail or are recorded
\* late, and lost answers never hide a part of the loan.
ReserveIsCounted ==
  Balance - OwnEth <=
    RecoverableGas + SumOf(topups, Landed(topups) \ WithStatus(topups, "confirmed"))

\* The platform takes back what it lent, never what the user sent: its landed sweeps
\* and their gas are within its landed top-ups.
OnlyReserveIsSwept == Returned(Landed(sweeps)) <= Moved(topups, Landed(topups))

\* A preparation does not stop with gas of confirmed transactions it has not tried to
\* charge.
SetupGasIsCharged ==
  [][\A r \in Preparation :
       preps[r].owed > 0 => preps'[r].owed > 0 \/ preps'[r].pc = "reclaim"]_setupVars
=============================================================================
