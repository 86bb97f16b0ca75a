------------------------ MODULE ReconciliationProofs ------------------------
(***************************************************************************)
(* Theorems about TradeReconciliation, for any amounts, reasons and number *)
(* of closes and reports.                                                  *)
(***************************************************************************)
EXTENDS TradeReconciliation, FiniteSetTheorems, SequenceTheorems, TLAPS

USE AmountsAreInts

-----------------------------------------------------------------------------
(* The inductive invariant *)

Verdict == {"pending", "wallet_observed", "venue_accounted", "mismatched", "wallet_reconciled"}

BookRow == [status : Verdict, pnl : SUBSET Int, delta : SUBSET Int, terminal : SUBSET Int,
            close : SUBSET Int]

ReconTypeOK ==
  /\ stage \in {"opening", "open", "closing", "closed"}
  /\ knows \in {"yet", "yes", "no"}
  /\ paid \subseteq Int /\ settled \in BOOLEAN /\ moved \in Int
  /\ ledger \subseteq Gas /\ IsFiniteSet(ledger)
  /\ costs \in [Gas -> Nat]
  /\ book \in Seq(BookRow)
  /\ run \in [Closer -> {"idle", "waiting", "left", "charging", "balance", "record"}]
  /\ seen \in [Actor -> SUBSET Int]
  /\ DOMAIN session = Actor /\ outdated \in BOOLEAN

AtMostOne(S) == \A x, y \in S : x = y

\* The venue pays once, and each actor has one balance in hand; who is at work on the end of
\* a trade has a row to write to.
ActorsHold ==
  /\ AtMostOne(paid) /\ (settled => paid # {})
  /\ \A a \in Actor : AtMostOne(seen[a])
  /\ (\E c \in Closer : run[c] # "idle") \/ seen["events"] # {} => book # <<>>

\* A row has one balance of each kind, and the profit the venue paid, or none yet.
RowHolds(row) ==
  /\ AtMostOne(row.terminal) /\ AtMostOne(row.close)
  /\ row.pnl # {} => paid # {} /\ row.pnl = VenuePnl

\* A session has such a row in hand, one that is in the book unless there was none, charges
\* that are in the ledger, and at most one amount, which the venue paid if it says so.
SessionHolds(s) ==
  /\ s.gas \in Gas
  /\ s.sum \subseteq Int /\ AtMostOne(s.sum)
  /\ s.does = "result" /\ s.sum # {} => paid # {} /\ s.sum = VenuePnl
  /\ s.does = "terminal" /\ s.sum # {} => s.sum = paid
  /\ s.at \in 0..Len(book)
  /\ s.does \in {"result", "balance", "wallet"} => s.at > 0
  /\ s.was \in BookRow /\ RowHolds(s.was)
  /\ s.charges \subseteq ledger /\ IsFiniteSet(s.charges)

SessionsHold == \A a \in Actor : \A s \in session[a] : SessionHolds(s)

\* A result was computed from one balance, with the gas that is in the ledger now, for a
\* trade whose balance before is known.
RowNetsGas(row) ==
  row.delta # {} =>
    /\ knows = "yes"
    /\ \E b \in row.terminal \cup row.close : row.delta = {b - Charged(ledger)}

\* A row counts as reconciled only if its result is its profit less the gas that is in the
\* ledger now.
RowIsTrue(row) ==
  row.status = "wallet_reconciled" =>
    row.pnl # {} /\ row.delta # {} /\ Agree(row.delta, row.pnl, ledger)

RowsHold == \A i \in 1..Len(book) : RowHolds(book[i])
LastIsTrue == book # <<>> /\ ~outdated => RowNetsGas(Last(book)) /\ RowIsTrue(Last(book))

ReconInv ==
  ReconTypeOK /\ ActorsHold /\ SessionsHold /\ RowsHold /\ LastIsTrue /\ ChargedOnce

-----------------------------------------------------------------------------
(* Sequences, charges and verdicts *)

LEMMA LastIsRow ==
  ASSUME NEW R, NEW s \in Seq(R), s # <<>>
  PROVE  Len(s) \in Nat \ {0} /\ Last(s) = s[Len(s)] /\ Last(s) \in R
<1>1. /\ Len(s) \in Nat /\ s \in [1..Len(s) -> R] /\ Len(s) # 0
  BY LenProperties, EmptySeq
<1> QED
  BY <1>1 DEF Last

\* A row that is added is the last one then.
LEMMA AddedIsLast ==
  ASSUME NEW R, NEW s \in Seq(R), NEW r \in R
  PROVE  /\ Append(s, r) \in Seq(R) /\ Append(s, r) # <<>>
         /\ Len(Append(s, r)) = Len(s) + 1 /\ Last(Append(s, r)) = r
         /\ \A i \in 1..Len(s) : Append(s, r)[i] = s[i]
         /\ Append(s, r)[Len(s) + 1] = r
  BY AppendProperties DEF Last

LEMMA ReplacedIs ==
  ASSUME NEW R, NEW s \in Seq(R), NEW i \in 1..Len(s), NEW r \in R
  PROVE  /\ [s EXCEPT ![i] = r] \in Seq(R) /\ [s EXCEPT ![i] = r] # <<>>
         /\ Len([s EXCEPT ![i] = r]) = Len(s)
         /\ \A j \in 1..Len(s) : [s EXCEPT ![i] = r][j] = IF j = i THEN r ELSE s[j]
  BY ExceptSeq, LenProperties, EmptySeq

LEMMA GasHasOpen == 0 \in Gas
  BY MaxClosesIsNat DEF Gas

LEMMA ChargedIsNat ==
  ASSUME NEW charges, IsFiniteSet(charges)
  PROVE  Charged(charges) \in Nat
  BY FS_CardinalityType DEF Charged

LEMMA VerdictsAre ==
  ASSUME NEW delta, NEW pnl, NEW charges, NEW why
  PROVE  /\ Judge(delta, pnl, charges, why) \in Verdict
         /\ CloseVerdict(delta, pnl, charges) \in Verdict
         /\ Judge(delta, pnl, charges, why) = "wallet_reconciled" =>
              pnl # {} /\ Agree(delta, pnl, charges)
         /\ CloseVerdict(delta, pnl, charges) = "wallet_reconciled" =>
              pnl # {} /\ delta # {} /\ Agree(delta, pnl, charges)
  BY DEF Judge, CloseVerdict, Verdict

\* The result of a balance, less the charges.
LEMMA NetIs ==
  ASSUME NEW S \in SUBSET Int, AtMostOne(S), NEW c \in Nat
  PROVE  /\ {b - c : b \in S} \in SUBSET Int
         /\ {b - c : b \in S} # {} => \E b \in S : {x - c : x \in S} = {b - c}
  BY DEF AtMostOne

LEMMA NetDeltaIs ==
  ASSUME NEW S \in SUBSET Int, AtMostOne(S), NEW charges, IsFiniteSet(charges), NEW knew
  PROVE  /\ NetDelta(S, charges, knew) \in SUBSET Int
         /\ NetDelta(S, charges, knew) # {} =>
              knew = "yes" /\ \E b \in S : NetDelta(S, charges, knew) = {b - Charged(charges)}
<1>1. Charged(charges) \in Nat
  BY ChargedIsNat
<1> QED
  BY <1>1, NetIs DEF NetDelta

LEMMA VenuePnlIs ==
  ASSUME ReconTypeOK
  PROVE  VenuePnl \in SUBSET Int
  BY DEF ReconTypeOK, VenuePnl

LEMMA BalanceIsInt ==
  ASSUME ReconTypeOK, ActorsHold
  PROVE  Balance \in Int
<1>1. settled => (CHOOSE x \in paid : TRUE) \in Int
  BY DEF ReconTypeOK, ActorsHold
<1> QED
  BY <1>1 DEF Balance, ReconTypeOK

\* A row that is computed again, with a charge more, nets it.
NetsMore(fresh, row, charges, knew) ==
  /\ fresh \in BookRow
  /\ fresh.pnl = row.pnl /\ fresh.terminal = row.terminal /\ fresh.close = row.close
  /\ FreshDelta(row, charges, knew) = {} => fresh = row
  /\ FreshDelta(row, charges, knew) # {} =>
       /\ knew = "yes" /\ fresh.delta # {}
       /\ \E b \in row.terminal \cup row.close : fresh.delta = {b - Charged(charges)}
       /\ fresh.status = "wallet_reconciled" =>
            fresh.pnl # {} /\ Agree(fresh.delta, fresh.pnl, charges)

LEMMA RefreshedIs ==
  ASSUME NEW row \in BookRow, RowHolds(row), NEW charges, IsFiniteSet(charges), NEW knew, NEW why
  PROVE  NetsMore(Refreshed(row, charges, knew, why), row, charges, knew)
<1> PICK fresh : fresh = Refreshed(row, charges, knew, why)
  OBVIOUS
<1> SUFFICES NetsMore(fresh, row, charges, knew)
  OBVIOUS
<1> PICK balance : balance = IF row.terminal # {} THEN row.terminal ELSE row.close
  OBVIOUS
<1> PICK delta : delta = FreshDelta(row, charges, knew)
  OBVIOUS
<1> PICK verdict : verdict = Judge(delta, row.pnl, charges, why)
  OBVIOUS
<1>1. balance \in SUBSET Int /\ AtMostOne(balance) /\ balance \subseteq row.terminal \cup row.close
  BY DEF BookRow, RowHolds
<1>2. delta = NetDelta(balance, charges, knew)
  BY DEF FreshDelta
<1>3. /\ delta \in SUBSET Int
      /\ delta # {} => knew = "yes" /\ \E b \in balance : delta = {b - Charged(charges)}
  BY <1>1, <1>2, NetDeltaIs
<1>4. /\ verdict \in Verdict
      /\ verdict = "wallet_reconciled" => row.pnl # {} /\ Agree(delta, row.pnl, charges)
  BY VerdictsAre
<1>5. fresh = IF delta = {} THEN row ELSE [row EXCEPT !.delta = delta, !.status = verdict]
  BY DEF Refreshed
<1>6. CASE delta = {}
  BY <1>5, <1>6 DEF NetsMore
<1>7. CASE delta # {}
  <2>1. /\ fresh.delta = delta /\ fresh.pnl = row.pnl /\ fresh.terminal = row.terminal
        /\ fresh.close = row.close /\ fresh.status = verdict
        /\ fresh \in BookRow
    BY <1>3, <1>4, <1>5, <1>7 DEF BookRow
  <2>2. \E b \in row.terminal \cup row.close : delta = {b - Charged(charges)}
    BY <1>1, <1>3, <1>7
  <2> QED
    BY <1>3, <1>4, <1>7, <2>1, <2>2 DEF NetsMore
<1> QED
  BY <1>6, <1>7

\* What is written over an older read is a row as well, and over a current one what the
\* session made of it.
LEMMA MergedIs ==
  ASSUME NEW old \in BookRow, RowHolds(old), NEW was \in BookRow,
         NEW row \in BookRow, RowHolds(row), NEW payload
  PROVE  /\ Merged(old, was, row, payload) \in BookRow
         /\ RowHolds(Merged(old, was, row, payload))
         /\ old = was => Merged(old, was, row, payload) = row
<1> PICK new : new = Merged(old, was, row, payload)
  OBVIOUS
<1>1. /\ new.status \in {row.status, old.status} /\ new.pnl \in {row.pnl, old.pnl}
      /\ new.delta \in {row.delta, old.delta} /\ new.terminal \in {row.terminal, old.terminal}
      /\ new.close \in {row.close, old.close}
  BY DEF Merged
<1>2. new \in BookRow
  BY DEF Merged, BookRow
<1>3. RowHolds(new)
  BY <1>1 DEF RowHolds
<1>4. ASSUME old = was PROVE new = row
  <2>1. /\ new.status = row.status /\ new.pnl = row.pnl /\ new.delta = row.delta
        /\ new.terminal = row.terminal /\ new.close = row.close
    BY <1>4 DEF Merged
  <2> QED
    BY <1>2, <2>1 DEF BookRow
<1> QED
  BY <1>2, <1>3, <1>4

-----------------------------------------------------------------------------
(* Types, and who holds what *)

LEMMA ReconInitHolds == ReconInit => ReconInv
<1> SUFFICES ASSUME ReconInit PROVE ReconInv
  OBVIOUS
<1>1. IsFiniteSet({}) /\ Cardinality({}) = 0
  BY FS_EmptySet
<1>2. ReconTypeOK
  <2>1. book \in Seq(BookRow)
    BY EmptySeq DEF ReconInit
  <2>2. seen \in [Actor -> SUBSET Int]
    BY DEF ReconInit
  <2>3. ledger \subseteq Gas /\ IsFiniteSet(ledger)
    BY <1>1 DEF ReconInit
  <2>4. /\ costs \in [Gas -> Nat]
        /\ run \in [Closer -> {"idle", "waiting", "left", "charging", "balance", "record"}]
    BY DEF ReconInit
  <2>5. stage \in {"opening", "open", "closing", "closed"} /\ knows \in {"yet", "yes", "no"}
    BY DEF ReconInit
  <2>6. settled \in BOOLEAN
    BY Zenon DEF ReconInit
  <2>7. paid = {} /\ moved = 0
    BY Zenon DEF ReconInit
  <2>8. paid \subseteq Int /\ moved \in Int
    BY <2>7
  <2>9. DOMAIN session = Actor /\ outdated \in BOOLEAN
    BY Zenon DEF ReconInit
  <2> QED
    BY <2>1, <2>2, <2>3, <2>4, <2>5, <2>6, <2>8, <2>9 DEF ReconTypeOK
<1>3. ActorsHold
  BY DEF ReconInit, ActorsHold, AtMostOne, Actor, Closer
<1>4. ChargedOnce
  BY <1>1 DEF ReconInit, ChargedOnce, Charged
<1>5. SessionsHold
  BY Zenon DEF ReconInit, SessionsHold
<1>6. RowsHold /\ LastIsTrue
  <2>1. book = <<>> /\ book \in Seq(BookRow)
    BY <1>2, Zenon DEF ReconInit, ReconTypeOK
  <2>2. Len(book) = 0
    BY <2>1, EmptySeq
  <2>3. 1..Len(book) = {}
    BY <2>2
  <2> QED
    BY <2>1, <2>3, Zenon DEF RowsHold, LastIsTrue
<1> QED
  BY <1>2, <1>3, <1>4, <1>5, <1>6 DEF ReconInv

\* All types but the book's, which is typed with what it holds below.
TypesBesideBook ==
  /\ stage \in {"opening", "open", "closing", "closed"}
  /\ knows \in {"yet", "yes", "no"}
  /\ paid \subseteq Int /\ settled \in BOOLEAN /\ moved \in Int
  /\ ledger \subseteq Gas /\ IsFiniteSet(ledger)
  /\ costs \in [Gas -> Nat]
  /\ run \in [Closer -> {"idle", "waiting", "left", "charging", "balance", "record"}]
  /\ seen \in [Actor -> SUBSET Int]
  /\ DOMAIN session = Actor /\ outdated \in BOOLEAN

LEMMA CommitTypes ==
  ASSUME ReconTypeOK, NEW who, NEW s, NEW row, NEW payload, NEW computed \in BOOLEAN,
         EndSession(who, s, row, payload, computed)
  PROVE  DOMAIN session' = Actor /\ outdated' \in BOOLEAN
<1>1. session' = [session EXCEPT ![who] = {}]
  BY DEF EndSession
<1>2. outdated' = TRUE \/ outdated' = (outdated /\ ~computed)
  BY Zenon DEF EndSession, Outdate
<1> QED
  BY <1>1, <1>2 DEF ReconTypeOK

LEMMA BeginTypes ==
  ASSUME ReconTypeOK, NEW who, NEW does, NEW g, NEW says, NEW sum, Begin(who, does, g, says, sum)
  PROVE  TypesBesideBook'
<1>1. /\ DOMAIN session' = DOMAIN session
      /\ UNCHANGED <<trade, venue, gas, actors, outdated>>
  BY DEF Begin
<1> QED
  BY <1>1 DEF ReconTypeOK, TypesBesideBook, trade, venue, gas, actors

LEMMA TypesStep ==
  ASSUME ReconInv, [ReconNext]_reconVars PROVE TypesBesideBook'
<1> USE DEF TypesBesideBook, trade, venue, gas, actors, books
<1>0. TypesBesideBook /\ ReconTypeOK /\ ActorsHold /\ Balance \in Int
  BY BalanceIsInt DEF ReconInv, ReconTypeOK
<1>1. CASE UNCHANGED reconVars
  BY <1>0, <1>1 DEF reconVars
<1>2. ASSUME NEW who \in Closer, NEW before \in {"yes", "no"}, OpenDone(who, before)
      PROVE  TypesBesideBook'
  BY <1>0, <1>2 DEF OpenDone
<1>3. CASE AskClose
  BY <1>0, <1>3 DEF AskClose, Closer
<1>4. ASSUME NEW x \in PaidBack, VenueEnds(x) PROVE TypesBesideBook'
  BY <1>0, <1>4 DEF VenueEnds
<1>5. CASE MoneyArrives
  BY <1>0, <1>5 DEF MoneyArrives
<1>6. ASSUME NEW x \in Elsewhere, MoneyMoves(x) PROVE TypesBesideBook'
  BY <1>0, <1>6 DEF MoneyMoves
<1>7. ASSUME NEW who \in Closer, NEW s \in session[who], RecordCharge(who, s)
      PROVE  TypesBesideBook'
  <2>1. /\ ledger' = ledger \cup {s.gas}
        /\ costs' = costs \/ costs' = [costs EXCEPT ![s.gas] = @ + 1]
        /\ UNCHANGED <<stage, knows, paid, settled, moved, run, seen>>
    BY <1>7 DEF RecordCharge
  <2>2. s.gas \in Gas
    BY <1>7 DEF ReconInv, SessionsHold, SessionHolds, Actor
  <2>3. IsFiniteSet(ledger')
    BY <1>0, <2>1, FS_AddElement
  <2>4. DOMAIN session' = Actor /\ outdated' \in BOOLEAN
    BY <1>0, <1>7, CommitTypes DEF RecordCharge
  <2> QED
    BY <1>0, <2>1, <2>2, <2>3, <2>4
<1>8. ASSUME NEW who \in Closer, NEW g \in Gas, DeferCharge(who, g) PROVE TypesBesideBook'
  BY <1>0, <1>8 DEF DeferCharge
<1>9. CASE CloseReverts
  BY <1>0, <1>9 DEF CloseReverts
<1>10. CASE WorkerLeaves \/ WorkerSeesEnd \/ Recharged \/ RecoverResolved
  BY <1>0, <1>10 DEF WorkerLeaves, WorkerSeesEnd, Recharged, RecoverResolved
<1>11. ASSUME NEW s, MarkCloseResult(s) PROVE TypesBesideBook'
  <2>1. DOMAIN session' = Actor /\ outdated' \in BOOLEAN
    BY <1>0, <1>11, CommitTypes DEF MarkCloseResult
  <2>2. /\ stage' = "closed" /\ run' = [run EXCEPT !["worker"] = "balance"]
        /\ UNCHANGED <<knows, venue, gas, seen>>
    BY <1>11 DEF MarkCloseResult
  <2> QED
    BY <1>0, <2>1, <2>2
<1>12. CASE RecoverClose
  <2>1. run' \in [Closer -> {"idle", "waiting", "left", "charging", "balance", "record"}]
    BY <1>12 DEF RecoverClose, Closer
  <2> QED
    BY <1>0, <1>12, <2>1 DEF RecoverClose
<1>13. ASSUME NEW who \in Closer, ReadBalance(who) PROVE TypesBesideBook'
  <2>1. /\ run' = [run EXCEPT ![who] = "record"] /\ seen' = [seen EXCEPT ![who] = {Balance}]
        /\ UNCHANGED <<trade, venue, gas, books>>
    BY <1>13 DEF ReadBalance
  <2> QED
    BY <1>0, <2>1
<1>14. ASSUME NEW who \in Closer, BalanceFails(who) PROVE TypesBesideBook'
  BY <1>0, <1>14 DEF BalanceFails
<1>15. ASSUME NEW who \in Closer, NEW s, MarkCloseReconciliation(who, s) PROVE TypesBesideBook'
  <2>1. DOMAIN session' = Actor /\ outdated' \in BOOLEAN
    BY <1>0, <1>15, CommitTypes DEF MarkCloseReconciliation
  <2>2. /\ run' = [run EXCEPT ![who] = "idle"] /\ seen' = [seen EXCEPT ![who] = {}]
        /\ UNCHANGED <<trade, venue, gas>>
    BY <1>15 DEF MarkCloseReconciliation
  <2> QED
    BY <1>0, <2>1, <2>2
<1>16. ASSUME NEW s, ApplyTerminal(s) PROVE TypesBesideBook'
  <2>1. DOMAIN session' = Actor /\ outdated' \in BOOLEAN
    BY <1>0, <1>16, CommitTypes DEF ApplyTerminal
  <2>2. /\ stage' \in {stage, "closed"}
        /\ UNCHANGED <<knows, venue, gas, run>>
        /\ seen' = [seen EXCEPT !["events"] = {Balance}] \/ seen' = seen
    BY <1>16 DEF ApplyTerminal
  <2> QED
    BY <1>0, <2>1, <2>2
<1>17. ASSUME NEW s, ReconcileWallet(s) PROVE TypesBesideBook'
  <2>1. DOMAIN session' = Actor /\ outdated' \in BOOLEAN
    BY <1>0, <1>17, CommitTypes DEF ReconcileWallet
  <2>2. seen' = [seen EXCEPT !["events"] = {}] /\ UNCHANGED <<trade, venue, gas, run>>
    BY <1>17 DEF ReconcileWallet
  <2> QED
    BY <1>0, <2>1, <2>2
<1>18. ASSUME NEW who, NEW does, NEW g, NEW says, NEW sum, Begin(who, does, g, says, sum)
       PROVE  TypesBesideBook'
  BY <1>0, <1>18, BeginTypes
<1> QED
  BY <1>1, <1>2, <1>3, <1>4, <1>5, <1>6, <1>7, <1>8, <1>9, <1>10, <1>11, <1>12, <1>13,
     <1>14, <1>15, <1>16, <1>17, <1>18, ZenonT(60)
  DEF ReconNext, BeginCharge, BeginCloseResult, BeginCloseReconciliation, BeginTerminal, BeginWallet

\* A transaction is charged when it joins the ledger.
LEMMA ChargedStep ==
  ASSUME ReconInv, [ReconNext]_reconVars PROVE ChargedOnce'
<1> USE DEF trade, venue, gas, actors
<1>0. costs \in [Gas -> Nat] /\ ChargedOnce
  BY DEF ReconInv, ReconTypeOK
<1>1. CASE UNCHANGED <<ledger, costs>>
  BY <1>0, <1>1 DEF ChargedOnce
<1>2. ASSUME NEW who \in Closer, NEW s \in session[who], RecordCharge(who, s)
      PROVE  ChargedOnce'
  <2> PICK g : g = s.gas
    OBVIOUS
  <2>0. g \in Gas /\ s.charges \subseteq ledger
    BY <1>2 DEF ReconInv, SessionsHold, SessionHolds, Actor
  <2>1. /\ ledger' = ledger \cup {g}
        /\ g \in s.charges \/ g \notin ledger
        /\ costs' = IF g \in s.charges THEN costs ELSE [costs EXCEPT ![g] = @ + 1]
    BY <1>2 DEF RecordCharge
  <2>2. CASE g \in ledger
    <3>1. ledger' = ledger /\ costs' = costs
      BY <2>1, <2>2
    <3> QED
      BY <1>0, <3>1 DEF ChargedOnce
  <2>3. CASE g \notin ledger
    <3>1. costs' = [costs EXCEPT ![g] = @ + 1]
      BY <2>0, <2>1, <2>3
    <3>2. /\ ledger \cap {g} = {} /\ ledger' \cap {g} = {g}
          /\ \A h \in Gas \ {g} : ledger' \cap {h} = ledger \cap {h}
      BY <2>1, <2>3
    <3>3. Cardinality({}) = 0 /\ Cardinality({g}) = 1
      BY FS_EmptySet, FS_Singleton
    <3>4. costs[g] = 0
      BY <1>0, <2>0, <3>2, <3>3 DEF ChargedOnce, Charged
    <3>5. costs'[g] = 1 /\ \A h \in Gas \ {g} : costs'[h] = costs[h]
      BY <1>0, <2>0, <3>1, <3>4
    <3> QED
      BY <1>0, <3>2, <3>3, <3>5 DEF ChargedOnce, Charged
  <2> QED
    BY <2>2, <2>3
<1> QED
  BY <1>1, <1>2, ZenonT(60) DEF ReconNext, reconVars, OpenDone, AskClose, VenueEnds, MoneyArrives,
     MoneyMoves, DeferCharge, CloseReverts, WorkerLeaves, WorkerSeesEnd, MarkCloseResult,
     RecoverClose, Recharged, RecoverResolved, ReadBalance, BalanceFails,
     MarkCloseReconciliation, ApplyTerminal, ReconcileWallet, Begin,
     BeginCharge, BeginCloseResult, BeginCloseReconciliation, BeginTerminal, BeginWallet

LEMMA BlankHolds ==
  /\ Blank \in BookRow /\ RowHolds(Blank) /\ RowNetsGas(Blank)' /\ RowIsTrue(Blank)'
  /\ RowHolds(Blank)'
  BY DEF Blank, BookRow, Verdict, RowHolds, RowNetsGas, RowIsTrue, AtMostOne

LEMMA LastTrueIs ==
  ASSUME NEW row, book' # <<>> => Last(book') = row, RowNetsGas(row)', RowIsTrue(row)'
  PROVE  LastIsTrue'
  BY DEF LastIsTrue, RowNetsGas, RowIsTrue, Agree

LEMMA LatestIs ==
  ASSUME ReconInv
  PROVE  /\ Latest \in BookRow /\ RowHolds(Latest) /\ Closes \in Nat
         /\ book # <<>> => Closes > 0 /\ Latest = book[Closes]
<1>1. CASE book = <<>>
  BY <1>1, BlankHolds, EmptySeq DEF Latest, Closes
<1>2. CASE book # <<>>
  BY <1>2, LastIsRow DEF Latest, Closes, ReconInv, ReconTypeOK, RowsHold
<1> QED
  BY <1>1, <1>2

-----------------------------------------------------------------------------
(* The rows *)

\* A session that commits leaves rows that hold, and a last row that is true if what it read
\* was current and what it made of that is true.
LEMMA CommitKeepsBook ==
  ASSUME ReconInv, NEW who \in Actor, NEW s \in session[who], NEW row \in BookRow, RowHolds(row),
         NEW payload \in BOOLEAN, NEW computed \in BOOLEAN,
         EndSession(who, s, row, payload, computed), UNCHANGED <<knows, paid>>,
         s.at > 0 \/ s.does = "terminal" \/ s.does = "charge",
         Current(s) /\ (computed \/ ~outdated) => RowNetsGas(row)' /\ RowIsTrue(row)'
  PROVE  /\ book' \in Seq(BookRow) /\ RowsHold' /\ LastIsTrue'
         /\ book # <<>> \/ s.does = "terminal" => book' # <<>>
         /\ Len(book) <= Len(book')
<1>0. /\ book \in Seq(BookRow) /\ Len(book) \in Nat /\ s.at \in 0..Len(book)
      /\ s.was \in BookRow /\ RowsHold /\ VenuePnl' = VenuePnl
  BY LenProperties DEF ReconInv, ReconTypeOK, SessionsHold, SessionHolds, VenuePnl
<1>1. \A r : RowHolds(r)' <=> RowHolds(r)
  BY <1>0 DEF RowHolds
<1>2. ~outdated' => Current(s) /\ (computed \/ ~outdated)
  BY Zenon DEF EndSession, Outdate
<1>3. CASE s.at > 0
  <2> PICK new : new = Merged(book[s.at], s.was, row, payload)
    OBVIOUS
  <2>1. s.at \in 1..Len(book) /\ book[s.at] \in BookRow /\ RowHolds(book[s.at])
    BY <1>0, <1>3 DEF RowsHold
  <2>2. new \in BookRow /\ RowHolds(new) /\ (book[s.at] = s.was => new = row)
    BY <1>0, <2>1, MergedIs
  <2>3. book' = [book EXCEPT ![s.at] = new]
    BY <1>3 DEF EndSession, SetBook
  <2>4. /\ book' \in Seq(BookRow) /\ book' # <<>> /\ Len(book') = Len(book)
        /\ \A j \in 1..Len(book) : book'[j] = IF j = s.at THEN new ELSE book[j]
    BY <1>0, <2>1, <2>2, <2>3, ReplacedIs
  <2>5. RowsHold'
    BY <1>0, <1>1, <2>2, <2>4 DEF RowsHold
  <2>6. CASE ~outdated'
    <3>1. s.at = Len(book) /\ book[s.at] = s.was
      BY <1>2, <1>3, <2>1, <2>6, LatestIs, EmptySeq DEF Current, Closes
    <3>2. Last(book') = row
      BY <2>2, <2>4, <3>1, <2>1, LastIsRow
    <3>3. RowNetsGas(row)' /\ RowIsTrue(row)'
      BY <1>2, <2>6
    <3>4. LastIsTrue'
      BY <3>2, <3>3, LastTrueIs
    <3> QED
      BY <1>0, <2>4, <2>5, <3>4
  <2>7. CASE outdated'
    BY <1>0, <2>4, <2>5, <2>7 DEF LastIsTrue
  <2> QED
    BY <2>6, <2>7
<1>4. CASE s.at = 0 /\ s.does = "terminal"
  <2>1. book' = Append(book, row)
    BY <1>4 DEF EndSession, SetBook
  <2>2. /\ book' \in Seq(BookRow) /\ book' # <<>>
        /\ Len(book') = Len(book) + 1 /\ Last(book') = row
        /\ \A i \in 1..Len(book) : book'[i] = book[i]
        /\ book'[Len(book) + 1] = row
    BY <1>0, <2>1, AddedIsLast
  <2>3. RowsHold'
    BY <1>0, <1>1, <2>2 DEF RowsHold
  <2>4. ~outdated' => LastIsTrue'
    BY <1>2, <2>2, LastTrueIs
  <2>5. outdated' => LastIsTrue'
    BY Zenon DEF LastIsTrue
  <2> QED
    BY <1>0, <2>2, <2>3, <2>4, <2>5
<1>5. CASE s.at = 0 /\ s.does = "charge"
  <2>1. book' = book
    BY <1>5 DEF EndSession, SetBook
  <2>2. book # <<>> => outdated'
    BY <1>2, <1>5, LatestIs DEF Current
  <2>3. RowsHold'
    BY <1>0, <1>1, <2>1 DEF RowsHold
  <2>4. LastIsTrue'
    BY <2>1, <2>2 DEF LastIsTrue
  <2> QED
    BY <1>0, <1>5, <2>1, <2>3, <2>4
<1> QED
  BY <1>0, <1>3, <1>4, <1>5

\* What every commit of an actor may use about its session.
LEMMA InHandIs ==
  ASSUME ReconInv, NEW who \in Actor, NEW s \in session[who]
  PROVE  SessionHolds(s)
  BY DEF ReconInv, SessionsHold

LEMMA ChargeKeepsBook ==
  ASSUME ReconInv, NEW who \in Closer, NEW s \in session[who], RecordCharge(who, s)
  PROVE  /\ book' \in Seq(BookRow) /\ RowsHold' /\ LastIsTrue'
         /\ book # <<>> => book' # <<>>
         /\ Len(book) <= Len(book')
<1> PICK charges : charges = s.charges \cup {s.gas}
  OBVIOUS
<1> PICK row : row = Refreshed(s.was, charges, s.knew, s.why)
  OBVIOUS
<1> DEFINE computed == FreshDelta(s.was, charges, s.knew) # {}
<1>0. SessionHolds(s) /\ who \in Actor /\ computed \in BOOLEAN
  BY InHandIs DEF Actor
<1>1. /\ EndSession(who, s, row, FALSE, computed) /\ s.does = "charge"
      /\ ledger' = ledger \cup {s.gas} /\ UNCHANGED <<knows, paid>>
  BY DEF RecordCharge, trade, venue
<1>2. IsFiniteSet(charges)
  BY <1>0, FS_AddElement DEF SessionHolds
<1>3. /\ row \in BookRow
      /\ row.pnl = s.was.pnl /\ row.terminal = s.was.terminal /\ row.close = s.was.close
      /\ FreshDelta(s.was, charges, s.knew) = {} => row = s.was
      /\ FreshDelta(s.was, charges, s.knew) # {} =>
           /\ s.knew = "yes" /\ row.delta # {}
           /\ \E b \in s.was.terminal \cup s.was.close : row.delta = {b - Charged(charges)}
           /\ row.status = "wallet_reconciled" =>
                row.pnl # {} /\ Agree(row.delta, row.pnl, charges)
  <2> PICK was : was = s.was
    OBVIOUS
  <2> PICK knew, why : knew = s.knew /\ why = s.why
    OBVIOUS
  <2>1. was \in BookRow /\ RowHolds(was) /\ row = Refreshed(was, charges, knew, why)
    BY <1>0 DEF SessionHolds
  <2>2. NetsMore(row, was, charges, knew)
    BY <1>2, <2>1, RefreshedIs
  <2> QED
    BY <2>2, Zenon DEF NetsMore
<1>4. RowHolds(row)
  BY <1>0, <1>3 DEF SessionHolds, RowHolds
<1>5. ASSUME s.at = Closes, s.was = Latest, s.charges = ledger, s.knew = knows,
             computed \/ ~outdated
      PROVE  RowNetsGas(row)' /\ RowIsTrue(row)'
  <2>1. ledger' = charges /\ knows' = s.knew
    BY <1>1, <1>5
  <2>2. CASE computed
    BY <1>3, <2>1, <2>2 DEF RowNetsGas, RowIsTrue, Agree
  <2>3. CASE ~computed
    <3>1. CASE book = <<>>
      <4>1. row = Blank
        BY <1>3, <1>5, <2>3, <3>1 DEF Latest
      <4> QED
        BY <4>1, BlankHolds
    <3>2. CASE book # <<>>
      <4>1. row = Last(book) /\ RowNetsGas(row) /\ RowIsTrue(row) /\ RowHolds(row)
        BY <1>3, <1>4, <1>5, <2>3, <3>2 DEF Latest, ReconInv, LastIsTrue
      <4>2. row.delta = {}
        <5>1. SUFFICES ASSUME row.delta # {} PROVE FALSE
          OBVIOUS
        <5>2. knows = "yes" /\ row.terminal \cup row.close # {}
          BY <4>1, <5>1 DEF RowNetsGas
        <5>3. PICK b : b \in IF row.terminal # {} THEN row.terminal ELSE row.close
          BY <5>2
        <5>4. b - Charged(charges) \in FreshDelta(s.was, charges, s.knew)
          BY <1>3, <1>5, <2>3, <5>2, <5>3 DEF FreshDelta, NetDelta
        <5> QED
          BY <2>3, <5>4
      <4> QED
        BY <4>1, <4>2 DEF RowNetsGas, RowIsTrue
    <3> QED
      BY <3>1, <3>2
  <2> QED
    BY <1>0, <2>2, <2>3
<1>6. Current(s) /\ (computed \/ ~outdated) => RowNetsGas(row)' /\ RowIsTrue(row)'
  BY <1>5, Zenon DEF Current
<1>7. row \in BookRow
  BY <1>3
<1> HIDE DEF computed
<1> QED
  BY <1>0, <1>1, <1>4, <1>6, <1>7, CommitKeepsBook, ZenonT(60)

LEMMA CloseKeepsBook ==
  ASSUME ReconInv, NEW s \in session["worker"], MarkCloseResult(s)
  PROVE  book' \in Seq(BookRow) /\ RowsHold' /\ LastIsTrue' /\ book' # <<>>
         /\ Len(book) <= Len(book')
<1> PICK verdict : verdict = CloseVerdict({}, s.sum, s.charges)
  OBVIOUS
<1> PICK row : row = [s.was EXCEPT !.pnl = s.sum, !.delta = {}, !.status = verdict]
  OBVIOUS
<1>0. SessionHolds(s) /\ "worker" \in Actor
  BY InHandIs DEF Actor, Closer
<1>1. /\ EndSession("worker", s, row, TRUE, TRUE) /\ s.does = "result" /\ UNCHANGED <<knows, paid>>
  BY DEF MarkCloseResult, venue
<1>2. verdict \in Verdict /\ verdict # "wallet_reconciled"
  BY VerdictsAre
<1>3. /\ row \in BookRow /\ row.pnl = s.sum /\ row.delta = {} /\ row.status = verdict
      /\ row.terminal = s.was.terminal /\ row.close = s.was.close
  BY <1>0, <1>2 DEF BookRow, SessionHolds
<1>4. RowHolds(row) /\ s.at > 0
  BY <1>0, <1>1, <1>3 DEF SessionHolds, RowHolds
<1>5. Current(s) /\ (TRUE \/ ~outdated) => RowNetsGas(row)' /\ RowIsTrue(row)'
  BY <1>2, <1>3 DEF RowNetsGas, RowIsTrue
<1>6. book # <<>>
  BY <1>0, <1>4, EmptySeq DEF SessionHolds
<1> QED
  BY <1>0, <1>1, <1>3, <1>4, <1>5, <1>6, CommitKeepsBook, ZenonT(60)

\* A result of a balance, computed with the gas that a session read.
LEMMA ResultIs ==
  ASSUME NEW s, SessionHolds(s)
  PROVE  /\ NetDelta(s.sum, s.charges, s.knew) \in SUBSET Int
         /\ NetDelta(s.sum, s.charges, s.knew) # {} =>
              /\ s.knew = "yes"
              /\ \E b \in s.sum : NetDelta(s.sum, s.charges, s.knew) = {b - Charged(s.charges)}
<1>1. s.sum \in SUBSET Int /\ AtMostOne(s.sum) /\ IsFiniteSet(s.charges)
  BY DEF SessionHolds
<1> QED
  BY <1>1, NetDeltaIs

LEMMA ReconciliationKeepsBook ==
  ASSUME ReconInv, NEW who \in Closer, NEW s \in session[who], MarkCloseReconciliation(who, s)
  PROVE  book' \in Seq(BookRow) /\ RowsHold' /\ LastIsTrue' /\ book' # <<>>
         /\ Len(book) <= Len(book')
<1> PICK delta : delta = NetDelta(s.sum, s.charges, s.knew)
  OBVIOUS
<1> PICK verdict : verdict = CloseVerdict(delta, s.was.pnl, s.charges)
  OBVIOUS
<1> PICK row : row = [s.was EXCEPT !.delta = delta, !.close = s.sum, !.status = verdict]
  OBVIOUS
<1>0. SessionHolds(s) /\ who \in Actor
  BY InHandIs DEF Actor
<1>1. /\ EndSession(who, s, row, FALSE, TRUE) /\ s.does = "balance"
      /\ UNCHANGED <<knows, paid, ledger>>
  BY DEF MarkCloseReconciliation, trade, venue, gas
<1>2. /\ delta \in SUBSET Int
      /\ delta # {} => s.knew = "yes" /\ \E b \in s.sum : delta = {b - Charged(s.charges)}
  BY <1>0, ResultIs
<1>3. /\ verdict \in Verdict
      /\ verdict = "wallet_reconciled" => s.was.pnl # {} /\ delta # {}
                                          /\ Agree(delta, s.was.pnl, s.charges)
  BY VerdictsAre
<1>4. /\ row \in BookRow /\ row.pnl = s.was.pnl /\ row.delta = delta /\ row.status = verdict
      /\ row.terminal = s.was.terminal /\ row.close = s.sum
  BY <1>0, <1>2, <1>3 DEF BookRow, SessionHolds
<1>5. RowHolds(row) /\ s.at > 0
  BY <1>0, <1>1, <1>4 DEF SessionHolds, RowHolds
<1>6. Current(s) /\ (TRUE \/ ~outdated) => RowNetsGas(row)' /\ RowIsTrue(row)'
  BY <1>1, <1>2, <1>3, <1>4 DEF Current, RowNetsGas, RowIsTrue, Agree
<1>7. book # <<>>
  BY <1>0, <1>5, EmptySeq DEF SessionHolds
<1> QED
  BY <1>0, <1>1, <1>4, <1>5, <1>6, <1>7, CommitKeepsBook, ZenonT(60)

LEMMA WalletKeepsBook ==
  ASSUME ReconInv, NEW s \in session["events"], ReconcileWallet(s)
  PROVE  book' \in Seq(BookRow) /\ RowsHold' /\ LastIsTrue' /\ book' # <<>>
         /\ Len(book) <= Len(book')
<1> PICK delta : delta = NetDelta(s.sum, s.charges, s.knew)
  OBVIOUS
<1> PICK verdict : verdict = IF delta = {} THEN "venue_accounted"
                             ELSE Judge(delta, s.was.pnl, s.charges, s.why)
  OBVIOUS
<1> PICK row : row = [s.was EXCEPT !.delta = delta, !.terminal = s.sum, !.status = verdict]
  OBVIOUS
<1>0. SessionHolds(s) /\ "events" \in Actor
  BY InHandIs DEF Actor
<1>1. /\ EndSession("events", s, row, FALSE, TRUE) /\ s.does = "wallet"
      /\ UNCHANGED <<knows, paid, ledger>>
  BY DEF ReconcileWallet, trade, venue, gas
<1>2. /\ delta \in SUBSET Int
      /\ delta # {} => s.knew = "yes" /\ \E b \in s.sum : delta = {b - Charged(s.charges)}
  BY <1>0, ResultIs
<1>3. /\ verdict \in Verdict
      /\ verdict = "wallet_reconciled" => s.was.pnl # {} /\ delta # {}
                                          /\ Agree(delta, s.was.pnl, s.charges)
  BY VerdictsAre DEF Verdict
<1>4. /\ row \in BookRow /\ row.pnl = s.was.pnl /\ row.delta = delta /\ row.status = verdict
      /\ row.terminal = s.sum /\ row.close = s.was.close
  BY <1>0, <1>2, <1>3 DEF BookRow, SessionHolds
<1>5. RowHolds(row) /\ s.at > 0
  BY <1>0, <1>1, <1>4 DEF SessionHolds, RowHolds
<1>6. Current(s) /\ (TRUE \/ ~outdated) => RowNetsGas(row)' /\ RowIsTrue(row)'
  BY <1>1, <1>2, <1>3, <1>4 DEF Current, RowNetsGas, RowIsTrue, Agree
<1>7. book # <<>>
  BY <1>0, <1>5, EmptySeq DEF SessionHolds
<1> QED
  BY <1>0, <1>1, <1>4, <1>5, <1>6, <1>7, CommitKeepsBook, ZenonT(60)

LEMMA TerminalKeepsBook ==
  ASSUME ReconInv, NEW s \in session["events"], ApplyTerminal(s)
  PROVE  book' \in Seq(BookRow) /\ RowsHold' /\ LastIsTrue' /\ book' # <<>>
         /\ Len(book) <= Len(book')
<1> DEFINE counted == Priority(s.says) >= Priority(reason) /\ s.sum # {}
<1> PICK pnl : pnl = {x - Stake : x \in s.sum}
  OBVIOUS
<1> PICK row : row = IF counted THEN [s.was EXCEPT !.status = "venue_accounted", !.pnl = pnl]
                     ELSE s.was
  OBVIOUS
<1>0. SessionHolds(s) /\ "events" \in Actor
  BY InHandIs DEF Actor
<1>1. /\ EndSession("events", s, row, counted, FALSE) /\ s.does = "terminal"
      /\ UNCHANGED <<knows, paid, ledger>>
  BY DEF ApplyTerminal, venue, gas
<1>2. pnl \in SUBSET Int /\ (counted => pnl = VenuePnl /\ paid # {})
  <2>1. s.sum \subseteq Int /\ (counted => s.sum = paid /\ paid # {})
    BY <1>0, <1>1 DEF SessionHolds
  <2>2. pnl \in SUBSET Int
    BY <2>1
  <2>3. s.sum = paid => pnl = VenuePnl
    BY DEF VenuePnl
  <2> QED
    BY <2>1, <2>2, <2>3
<1>3. /\ row \in BookRow /\ RowHolds(row)
      /\ row.terminal = s.was.terminal /\ row.close = s.was.close /\ row.delta = s.was.delta
      /\ row = s.was \/ row.status = "venue_accounted"
  BY <1>0, <1>2 DEF BookRow, SessionHolds, RowHolds, Verdict
<1>4. ASSUME s.at = Closes, s.was = Latest, s.charges = ledger, s.knew = knows, ~outdated
      PROVE  RowNetsGas(row)' /\ RowIsTrue(row)'
  <2>1. RowNetsGas(s.was) /\ RowIsTrue(s.was)
    BY <1>4 DEF Latest, ReconInv, LastIsTrue, RowNetsGas, RowIsTrue, Blank
  <2> QED
    BY <1>1, <1>3, <2>1 DEF RowNetsGas, RowIsTrue, Agree
<1>5. counted \in BOOLEAN
  BY Zenon
<1> HIDE DEF counted
<1>6. Current(s) /\ (FALSE \/ ~outdated) => RowNetsGas(row)' /\ RowIsTrue(row)'
  BY <1>4, Zenon DEF Current
<1> QED
  BY <1>0, <1>1, <1>3, <1>5, <1>6, CommitKeepsBook, ZenonT(60)

LEMMA AskKeepsBook ==
  ASSUME ReconInv, AskClose
  PROVE  book' \in Seq(BookRow) /\ RowsHold' /\ LastIsTrue' /\ book' # <<>>
         /\ Len(book) <= Len(book')
<1>1. book \in Seq(BookRow) /\ book' = Append(book, Blank) /\ paid' = paid /\ Len(book) \in Nat
  BY LenProperties DEF ReconInv, ReconTypeOK, AskClose, venue
<1>2. /\ book' \in Seq(BookRow) /\ book' # <<>>
      /\ Len(book') = Len(book) + 1 /\ Last(book') = Blank
      /\ \A i \in 1..Len(book) : book'[i] = book[i]
      /\ book'[Len(book) + 1] = Blank
  BY <1>1, BlankHolds, AddedIsLast
<1>3. VenuePnl' = VenuePnl
  BY <1>1 DEF VenuePnl
<1>4. \A i \in 1..Len(book) : RowHolds(book[i])'
  BY <1>1, <1>2, <1>3 DEF RowHolds, ReconInv, RowsHold
<1>5. RowsHold'
  BY <1>1, <1>2, <1>4, BlankHolds DEF RowsHold, RowHolds
<1> QED
  BY <1>1, <1>2, <1>5, BlankHolds DEF LastIsTrue

LEMMA BookStep ==
  ASSUME ReconInv, [ReconNext]_reconVars
  PROVE  /\ book' \in Seq(BookRow) /\ RowsHold' /\ LastIsTrue'
         /\ Len(book) <= Len(book')
         /\ book # <<>> => book' # <<>>
         /\ AskClose \/ (\E s \in session["events"] : ApplyTerminal(s)) => book' # <<>>
<1> USE DEF trade, venue, gas, actors, books
<1>0. book \in Seq(BookRow) /\ RowsHold /\ LastIsTrue /\ Len(book) \in Nat
  BY LenProperties DEF ReconInv, ReconTypeOK
<1> DEFINE Kept == /\ book' \in Seq(BookRow) /\ RowsHold' /\ LastIsTrue'
                   /\ Len(book) <= Len(book')
                   /\ (book # <<>> => book' # <<>>)
<1> SUFFICES Kept
  BY AskKeepsBook, TerminalKeepsBook
<1>1. CASE UNCHANGED <<knows, paid, ledger, book, outdated>>
  <2>1. VenuePnl' = VenuePnl
    BY <1>1 DEF VenuePnl
  <2>2. \A r : /\ RowHolds(r)' <=> RowHolds(r)
               /\ RowNetsGas(r)' <=> RowNetsGas(r)
               /\ RowIsTrue(r)' <=> RowIsTrue(r)
    BY <1>1, <2>1 DEF RowHolds, RowNetsGas, RowIsTrue, Agree
  <2> QED
    BY <1>0, <1>1, <2>2 DEF RowsHold, LastIsTrue
<1>2. ASSUME NEW who \in Closer, NEW before \in {"yes", "no"}, OpenDone(who, before)
      PROVE  Kept
  <2>1. UNCHANGED <<paid, ledger, book, outdated>> /\ knows = "yet"
    BY <1>2 DEF OpenDone
  <2>2. VenuePnl' = VenuePnl
    BY <2>1 DEF VenuePnl
  <2>3. \A r : /\ RowHolds(r)' <=> RowHolds(r)
               /\ RowNetsGas(r) => RowNetsGas(r)'
               /\ RowIsTrue(r)' <=> RowIsTrue(r)
    BY <2>1, <2>2 DEF RowHolds, RowNetsGas, RowIsTrue, Agree
  <2> QED
    BY <1>0, <2>1, <2>3 DEF RowsHold, LastIsTrue
<1>3. ASSUME NEW x \in PaidBack, VenueEnds(x) PROVE Kept
  <2>1. UNCHANGED <<knows, ledger, book, outdated>> /\ paid = {}
    BY <1>3 DEF VenueEnds
  <2>2. \A r : /\ RowHolds(r) => RowHolds(r)'
               /\ RowNetsGas(r)' <=> RowNetsGas(r)
               /\ RowIsTrue(r)' <=> RowIsTrue(r)
    BY <2>1 DEF RowHolds, RowNetsGas, RowIsTrue, Agree
  <2> QED
    BY <1>0, <2>1, <2>2 DEF RowsHold, LastIsTrue
<1>4. ASSUME NEW who \in Closer, NEW s \in session[who], RecordCharge(who, s) PROVE Kept
  BY <1>4, ChargeKeepsBook
<1>5. ASSUME NEW who \in Closer, NEW s \in session[who], MarkCloseReconciliation(who, s)
      PROVE  Kept
  BY <1>5, ReconciliationKeepsBook
<1>6. ASSUME NEW s \in session["worker"], MarkCloseResult(s) PROVE Kept
  BY <1>6, CloseKeepsBook
<1>7. ASSUME NEW s \in session["events"], ReconcileWallet(s) PROVE Kept
  BY <1>7, WalletKeepsBook
<1>8. CASE AskClose
  BY <1>8, AskKeepsBook
<1>9. ASSUME NEW s \in session["events"], ApplyTerminal(s) PROVE Kept
  BY <1>9, TerminalKeepsBook
<1> HIDE DEF Kept
<1> QED
  BY <1>1, <1>2, <1>3, <1>4, <1>5, <1>6, <1>7, <1>8, <1>9, ZenonT(60)
  DEF ReconNext, reconVars, MoneyArrives, MoneyMoves, DeferCharge, CloseReverts,
      WorkerLeaves, WorkerSeesEnd, RecoverClose, Recharged, RecoverResolved, ReadBalance,
      BalanceFails, Begin, BeginCharge, BeginCloseResult, BeginCloseReconciliation,
      BeginTerminal, BeginWallet

-----------------------------------------------------------------------------
(* The sessions *)

\* What a session holds stays with it, whatever else happens.
LEMMA SessionKept ==
  ASSUME NEW s, SessionHolds(s), Len(book) \in Nat, ledger \subseteq ledger',
         Len(book) <= Len(book'), Len(book') \in Nat, paid' = paid \/ paid = {}
  PROVE  SessionHolds(s)'
<1>1. SessionHolds(s) /\ Len(book) \in Nat
  OBVIOUS
<1>2. s.at \in 0..Len(book')
  BY <1>1 DEF SessionHolds
<1>3. CASE paid' = paid
  <2>1. VenuePnl' = VenuePnl
    BY <1>3 DEF VenuePnl
  <2> QED
    BY <1>1, <1>2, <1>3, <2>1 DEF SessionHolds, RowHolds
<1>4. CASE paid = {}
  <2>1. VenuePnl = {}
    BY <1>4 DEF VenuePnl
  <2> QED
    BY <1>1, <1>2, <1>4, <2>1 DEF SessionHolds, RowHolds
<1> QED
  BY <1>3, <1>4

LEMMA BegunHolds ==
  ASSUME ReconInv, NEW who \in Actor, NEW does, NEW g \in Gas, NEW says, NEW sum \in SUBSET Int,
         AtMostOne(sum), Begin(who, does, g, says, sum),
         does = "result" /\ sum # {} => paid # {} /\ sum = VenuePnl,
         does = "terminal" /\ sum # {} => sum = paid,
         does \in {"result", "balance", "wallet"} => book # <<>>
  PROVE  SessionsHold'
<1> DEFINE new == [does |-> does, gas |-> g, says |-> says, sum |-> sum, at |-> Closes,
                   was |-> Latest, charges |-> ledger, knew |-> knows, why |-> reason]
<1>1. /\ session' = [session EXCEPT ![who] = {new}]
      /\ UNCHANGED <<paid, ledger, book>>
  BY DEF Begin, venue, gas
<1>2. \A a \in Actor : session'[a] = IF a = who THEN {new} ELSE session[a]
  BY <1>1 DEF ReconInv, ReconTypeOK
<1>3. /\ new.does = does /\ new.gas = g /\ new.sum = sum /\ new.at = Closes /\ new.was = Latest
      /\ new.charges = ledger
  OBVIOUS
<1>4. SessionHolds(new)
  <2>1. /\ Latest \in BookRow /\ RowHolds(Latest) /\ Closes \in 0..Len(book)
        /\ book # <<>> => Closes > 0
    BY LatestIs DEF Closes
  <2>2. ledger \subseteq ledger /\ IsFiniteSet(ledger)
    BY DEF ReconInv, ReconTypeOK
  <2> HIDE DEF new
  <2> QED
    BY <1>3, <2>1, <2>2 DEF SessionHolds
<1> HIDE DEF new
<1>5. Len(book) \in Nat /\ Len(book) <= Len(book)
  BY LenProperties DEF ReconInv, ReconTypeOK
<1>6. \A s : SessionHolds(s) => SessionHolds(s)'
  BY <1>1, <1>5, SessionKept
<1>7. \A a \in Actor : \A s \in session'[a] : SessionHolds(s)
  BY <1>2, <1>4 DEF ReconInv, SessionsHold
<1> QED
  BY <1>6, <1>7, Zenon DEF SessionsHold

LEMMA SessionsStep ==
  ASSUME ReconInv, [ReconNext]_reconVars PROVE SessionsHold'
<1> USE DEF trade, venue, gas, actors, books
<1>0. /\ ReconTypeOK /\ ActorsHold /\ DOMAIN session = Actor
      /\ Len(book) <= Len(book') /\ Len(book') \in Nat /\ Len(book) \in Nat
  BY BookStep, LenProperties DEF ReconInv, ReconTypeOK
<1>1. ASSUME ledger \subseteq ledger', paid' = paid \/ paid = {},
             session' = session \/ \E a : session' = [session EXCEPT ![a] = {}]
      PROVE  SessionsHold'
  <2>1. \A s : SessionHolds(s) => SessionHolds(s)'
    BY <1>0, <1>1, SessionKept
  <2>2. \A a \in Actor : session'[a] \subseteq session[a]
    BY <1>0, <1>1
  <2>3. \A a \in Actor : \A s \in session'[a] : SessionHolds(s)
    BY <2>2 DEF ReconInv, SessionsHold
  <2> QED
    BY <2>1, <2>3, Zenon DEF SessionsHold
<1>2. ASSUME NEW who \in Closer, NEW g \in Gas, BeginCharge(who, g) PROVE SessionsHold'
  <2>1. Begin(who, "charge", g, "", {}) /\ who \in Actor /\ AtMostOne({})
    BY <1>2 DEF BeginCharge, Actor, AtMostOne
  <2> QED
    BY <2>1, BegunHolds
<1>3. ASSUME NEW pnl \in {{}, VenuePnl}, BeginCloseResult(pnl) PROVE SessionsHold'
  <2>1. /\ Begin("worker", "result", 0, "", pnl) /\ "worker" \in Actor /\ 0 \in Gas
        /\ run["worker"] # "idle"
    BY <1>3, GasHasOpen DEF BeginCloseResult, Actor, Closer
  <2>2. pnl \in SUBSET Int /\ AtMostOne(pnl) /\ (pnl # {} => paid # {} /\ pnl = VenuePnl)
    <3>1. VenuePnl \in SUBSET Int
      BY <1>0, VenuePnlIs
    <3>2. AtMostOne(VenuePnl) /\ AtMostOne({}) /\ (VenuePnl # {} => paid # {})
      BY <1>0 DEF VenuePnl, AtMostOne, ActorsHold
    <3> QED
      BY <3>1, <3>2
  <2>3. book # <<>>
    BY <1>0, <2>1 DEF ActorsHold, Closer
  <2> QED
    BY <2>1, <2>2, <2>3, BegunHolds
<1>4. ASSUME NEW who \in Closer, BeginCloseReconciliation(who) PROVE SessionsHold'
  <2>1. /\ Begin(who, "balance", 0, "", seen[who]) /\ who \in Actor /\ 0 \in Gas
        /\ run[who] # "idle"
    BY <1>4, GasHasOpen DEF BeginCloseReconciliation, Actor
  <2>2. seen[who] \in SUBSET Int /\ AtMostOne(seen[who])
    BY <1>0, <2>1 DEF ReconTypeOK, ActorsHold
  <2>3. book # <<>>
    BY <1>0, <2>1 DEF ActorsHold
  <2> QED
    BY <2>1, <2>2, <2>3, BegunHolds
<1>5. ASSUME NEW r \in Told, NEW amount \in {{}, paid}, BeginTerminal(r, amount)
      PROVE  SessionsHold'
  <2>1. Begin("events", "terminal", 0, r, amount) /\ "events" \in Actor /\ 0 \in Gas
    BY <1>5, GasHasOpen DEF BeginTerminal, Actor
  <2>2. amount \in SUBSET Int /\ AtMostOne(amount) /\ (amount # {} => amount = paid)
    BY <1>0 DEF ReconTypeOK, AtMostOne, ActorsHold
  <2> QED
    BY <2>1, <2>2, BegunHolds
<1>6. ASSUME BeginWallet PROVE SessionsHold'
  <2>1. /\ Begin("events", "wallet", 0, "", seen["events"]) /\ "events" \in Actor /\ 0 \in Gas
        /\ seen["events"] # {}
    BY <1>6, GasHasOpen DEF BeginWallet, Actor
  <2>2. seen["events"] \in SUBSET Int /\ AtMostOne(seen["events"])
    BY <1>0, <2>1 DEF ReconTypeOK, ActorsHold
  <2>3. book # <<>>
    BY <1>0, <2>1 DEF ActorsHold
  <2> QED
    BY <2>1, <2>2, <2>3, BegunHolds
<1>7. ASSUME NEW who, NEW s, NEW row, NEW payload, NEW computed,
             EndSession(who, s, row, payload, computed), ledger \subseteq ledger', paid' = paid
      PROVE  SessionsHold'
  BY <1>1, <1>7 DEF EndSession
<1> QED
  BY <1>1, <1>2, <1>3, <1>4, <1>5, <1>6, <1>7, ZenonT(60)
  DEF ReconNext, reconVars, OpenDone, AskClose, VenueEnds, MoneyArrives, MoneyMoves,
      RecordCharge, DeferCharge, CloseReverts, WorkerLeaves, WorkerSeesEnd, MarkCloseResult,
      RecoverClose, Recharged, RecoverResolved, ReadBalance, BalanceFails,
      MarkCloseReconciliation, ApplyTerminal, ReconcileWallet

LEMMA ActorsStep ==
  ASSUME ReconInv, [ReconNext]_reconVars PROVE ActorsHold'
<1> USE DEF trade, venue, gas, actors, books
<1>0. ReconTypeOK /\ ActorsHold
  BY DEF ReconInv
<1>a. paid' = paid \/ \E x \in PaidBack : paid' = {x}
  BY ZenonT(60) DEF ReconNext, reconVars, OpenDone, AskClose, VenueEnds,
     MoneyArrives, MoneyMoves, RecordCharge, DeferCharge, CloseReverts, WorkerLeaves,
     WorkerSeesEnd, MarkCloseResult, RecoverClose, Recharged, RecoverResolved, ReadBalance,
     BalanceFails, MarkCloseReconciliation, ApplyTerminal, ReconcileWallet, Begin,
     BeginCharge, BeginCloseResult, BeginCloseReconciliation, BeginTerminal, BeginWallet
<1>b. settled' = settled \/ paid # {}
  BY ZenonT(60) DEF ReconNext, reconVars, OpenDone, AskClose, VenueEnds,
     MoneyArrives, MoneyMoves, RecordCharge, DeferCharge, CloseReverts, WorkerLeaves,
     WorkerSeesEnd, MarkCloseResult, RecoverClose, Recharged, RecoverResolved, ReadBalance,
     BalanceFails, MarkCloseReconciliation, ApplyTerminal, ReconcileWallet, Begin,
     BeginCharge, BeginCloseResult, BeginCloseReconciliation, BeginTerminal, BeginWallet
<1>1. AtMostOne(paid') /\ (settled' => paid' # {})
  BY <1>0, <1>a, <1>b DEF ActorsHold, AtMostOne
<1>2. \A a \in Actor : AtMostOne(seen'[a])
  <2>1. \/ seen' = seen
        \/ \E a \in Actor : seen' = [seen EXCEPT ![a] = {}]
        \/ \E a \in Actor : seen' = [seen EXCEPT ![a] = {Balance}]
    <3>1. \A c \in Closer : c \in Actor
      BY DEF Actor
    <3>2. "events" \in Actor
      BY DEF Actor
    <3> QED
      BY <3>1, <3>2, ZenonT(60) DEF ReconNext, reconVars, OpenDone, AskClose, VenueEnds,
       MoneyArrives, MoneyMoves, RecordCharge, DeferCharge, CloseReverts, WorkerLeaves,
       WorkerSeesEnd, MarkCloseResult, RecoverClose, Recharged, RecoverResolved, ReadBalance,
       BalanceFails, MarkCloseReconciliation, ApplyTerminal, ReconcileWallet, Begin,
       BeginCharge, BeginCloseResult, BeginCloseReconciliation, BeginTerminal, BeginWallet
  <2> QED
    BY <1>0, <2>1 DEF ActorsHold, AtMostOne, ReconTypeOK
<1>3. ASSUME (\E c \in Closer : run'[c] # "idle") \/ seen'["events"] # {} PROVE book' # <<>>
  <2>1. CASE book # <<>>
    BY <2>1, BookStep
  <2>2. CASE AskClose \/ (\E s \in session["events"] : ApplyTerminal(s))
    BY <2>2, BookStep
  <2>3. CASE /\ run = [c \in Closer |-> "idle"] /\ seen["events"] = {} /\ book = <<>>
             /\ ~(AskClose \/ (\E s \in session["events"] : ApplyTerminal(s)))
    <3>0. \A a \in Actor : \A s \in session[a] : s.does \in {"terminal", "charge"}
                                                 \/ s.does \notin {"result", "balance", "wallet"}
      BY <2>3, EmptySeq DEF ReconInv, SessionsHold, SessionHolds
    <3>1. run' = run /\ seen'["events"] = seen["events"]
      <4>1. "worker" \in Actor /\ "events" \in Actor /\ \A c \in Closer : c \in Actor
        BY DEF Actor, Closer
      <4>2. /\ \A s \in session["worker"] : ~MarkCloseResult(s)
            /\ \A c \in Closer : \A s \in session[c] : ~MarkCloseReconciliation(c, s)
            /\ \A s \in session["events"] : ~ReconcileWallet(s)
        BY <3>0, <4>1 DEF MarkCloseResult, MarkCloseReconciliation, ReconcileWallet
      <4>3. run["worker"] = "idle" /\ \A c \in Closer : run[c] = "idle"
        BY <2>3 DEF Closer
      <4> QED
        BY <2>3, <4>2, <4>3 DEF ReconNext, reconVars, OpenDone, VenueEnds,
           MoneyArrives, MoneyMoves, RecordCharge, DeferCharge, CloseReverts, WorkerLeaves,
           WorkerSeesEnd, RecoverClose, Recharged, RecoverResolved, ReadBalance,
           BalanceFails, Begin, BeginCharge, BeginCloseResult,
           BeginCloseReconciliation, BeginTerminal, BeginWallet
    <3> QED
      BY <1>3, <2>3, <3>1
  <2>4. book = <<>> => run = [c \in Closer |-> "idle"] /\ seen["events"] = {}
    BY <1>0 DEF ActorsHold, ReconTypeOK
  <2> QED
    BY <2>1, <2>2, <2>3, <2>4
<1> QED
  BY <1>1, <1>2, <1>3, Zenon DEF ActorsHold

-----------------------------------------------------------------------------
(* The theorems *)

LEMMA ReconInvariance == ReconSpec => []ReconInv
<1>1. ReconInv /\ [ReconNext]_reconVars => ReconInv'
  <2> SUFFICES ASSUME ReconInv, [ReconNext]_reconVars PROVE ReconInv'
    OBVIOUS
  <2>1. TypesBesideBook' /\ ChargedOnce' /\ ActorsHold'
    BY TypesStep, ChargedStep, ActorsStep
  <2>2. book' \in Seq(BookRow) /\ RowsHold' /\ LastIsTrue'
    BY BookStep
  <2>3. SessionsHold'
    BY SessionsStep
  <2> QED
    BY <2>1, <2>2, <2>3 DEF ReconInv, ReconTypeOK, TypesBesideBook
<1> QED
  BY <1>1, ReconInitHolds, PTL DEF ReconSpec

\* Every field of the books keeps its type.
THEOREM ReconTypeCorrect == ReconSpec => []ReconTypeOK
<1>1. ReconInv => ReconTypeOK
  BY DEF ReconInv
<1> QED
  BY <1>1, ReconInvariance, PTL

\* record_charge charges the gas of a transaction to its attempt once, however often the
\* worker and the recovery loop come to it, also in sessions that overlap: the ledger takes
\* the key of a transaction once.
THEOREM GasIsChargedOnce == ReconSpec => []ChargedOnce
<1>1. ReconInv => ChargedOnce
  BY DEF ReconInv
<1> QED
  BY <1>1, ReconInvariance, PTL

\* Whichever process wrote the result of a trade last, it is net of all the gas in the
\* ledger, the charges that came after it included (_refresh_position_reconciliation),
\* unless a session wrote over what another had stored since it read.
THEOREM ResultIsNet == ReconSpec => []ResultNetsGas
<1>1. ReconInv => ResultNetsGas
  BY DEF ReconInv, LastIsTrue, RowNetsGas, ResultNetsGas
<1> QED
  BY <1>1, ReconInvariance, PTL

\* A trade that counts as wallet-reconciled made what the venue paid back, less the stake
\* and the gas, unless a session wrote over what another had stored since it read.
THEOREM ReconciledResultIsTrue == ReconSpec => []ReconciledIsTrue
<1>1. ASSUME ReconInv, book # <<>>, ~outdated, Last(book).status = "wallet_reconciled"
      PROVE  Last(book).delta = {p - Charged(ledger) : p \in VenuePnl}
  <2>1. RowIsTrue(Last(book)) /\ RowHolds(Last(book))
    BY <1>1, LastIsRow DEF ReconInv, ReconTypeOK, LastIsTrue, RowsHold
  <2> QED
    BY <1>1, <2>1 DEF RowIsTrue, RowHolds, Agree
<1> QED
  BY <1>1, ReconInvariance, PTL DEF ReconciledIsTrue
=============================================================================
