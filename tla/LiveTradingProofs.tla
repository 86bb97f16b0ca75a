-------------------------- MODULE LiveTradingProofs --------------------------
(***************************************************************************)
(* Theorems about LiveTrading, for any number of positions, attempts,      *)
(* threads, transactions and crashes.                                      *)
(***************************************************************************)
EXTENDS LiveTrading, TLAPS

\* The tables let no row that does not exist take a status.
LEMMA MovedRowExists ==
    ASSUME NEW e \in Exec, NEW to \in ExecutionStatus, MoveExecution(e, to)
    PROVE  exStatus[e] # "NONE"
BY DEF MoveExecution, CanExecutionTransition, ExecutionStatus

\* A status change that keeps the row's command and position keeps the types.
LEMMA MovedExType ==
    ASSUME TypeOK, NEW e \in Exec, NEW to \in ExecutionStatus, MoveExecution(e, to),
           exTx' \in [Exec -> 0 .. MaxTx], exAction' = exAction, exPos' = exPos,
           jobs' \subseteq Exec
    PROVE  ExTypeOK'
<1>1. exStatus[e] # "NONE"
  BY MovedRowExists
<1>2. exStatus' = [exStatus EXCEPT ![e] = to]
  BY DEF MoveExecution
<1>3. exStatus' \in [Exec -> ExecutionStatus \union {"NONE"}]
  BY <1>2 DEF TypeOK, ExTypeOK
<1>4. \A f \in Exec : exStatus'[f] # "NONE" => exPos'[f] \in Pos
  BY <1>1, <1>2 DEF TypeOK, ExTypeOK
<1> QED
  BY <1>3, <1>4 DEF TypeOK, ExTypeOK

\* The hash of an attempt is overwritten by a transaction number.
LEMMA StoredHashType ==
    ASSUME TypeOK, NEW e \in Exec, NEW k \in 0 .. MaxTx,
           exTx' = [exTx EXCEPT ![e] = k]
    PROVE  exTx' \in [Exec -> 0 .. MaxTx]
BY DEF TypeOK, ExTypeOK

\* Every step keeps the types of the attempts.
LEMMA ExTypeStep == TypeOK /\ [Next]_vars => ExTypeOK'
<1> SUFFICES ASSUME TypeOK, [Next]_vars PROVE ExTypeOK'
    OBVIOUS
<1> USE LiveAssumption DEF TypeOK, ExTypeOK, ExecutionStatus, Pos
<1>1. ASSUME NEW p \in Pos, NEW e \in Exec, AcceptOpen(p, e)
      PROVE ExTypeOK'
  BY <1>1 DEF AcceptOpen, NewExecution, Enqueue
<1>2. ASSUME NEW p \in Pos, NEW e \in Exec, AcceptClose(p, e)
      PROVE ExTypeOK'
  BY <1>2 DEF AcceptClose, NewExecution, Enqueue
<1>3. ASSUME NEW e \in Exec, ReleaseStaleClaim(e)
      PROVE ExTypeOK'
  BY <1>3 DEF ReleaseStaleClaim
<1>4. ASSUME NEW e \in Exec, Redispatch(e)
      PROVE ExTypeOK'
  BY <1>4 DEF Redispatch, exVars
<1>5. ASSUME NEW e \in Exec, Rebroadcast(e)
      PROVE ExTypeOK'
  BY <1>5 DEF Rebroadcast, exVars
<1>6. ASSUME NEW w \in Worker, NEW e \in Exec, Claim(w, e)
      PROVE ExTypeOK'
  <2>1. /\ MoveExecution(e, "CLAIMED") /\ exTx' = exTx /\ exAction' = exAction
        /\ exPos' = exPos /\ jobs' = jobs \ {e}
    BY <1>6 DEF Claim
  <2> QED
    BY <2>1, MovedExType
<1>7. ASSUME NEW w \in Worker, NEW k \in 1 .. MaxTx, Persist(w, k), wPc[w] # "idle",
             exAction' = exAction, exPos' = exPos, jobs' = jobs
      PROVE ExTypeOK'
  <2>1. k \in 0 .. MaxTx /\ wExec[w] \in Exec
    BY <1>7 DEF WorkerTypeOK
  <2>2. exTx' = [exTx EXCEPT ![wExec[w]] = k] /\ MoveExecution(wExec[w], "BROADCAST_PENDING")
    BY <1>7 DEF Persist
  <2> QED
    BY <1>7, <2>1, <2>2, StoredHashType, MovedExType
<1>8. ASSUME NEW w \in Worker, NEW k \in 1 .. MaxTx,
             SignOpen(w, k) \/ Resign(w, k) \/ \E t \in Tx : SignClose(w, k, t)
      PROVE ExTypeOK'
  BY <1>7, <1>8 DEF SignOpen, Resign, SignClose
<1>9. ASSUME NEW w \in Worker, Broadcast(w) \/ Finish(w) \/ Crash(w)
      PROVE ExTypeOK'
  BY <1>9 DEF Broadcast, Finish, Crash, exVars
<1>10. ASSUME NEW w \in Worker, NEW seen \in Tx \union {NULL}, MarkOpenResult(w, seen)
      PROVE ExTypeOK'
  <2>1. wExec[w] \in Exec /\ wTx[w] \in 0 .. MaxTx
    BY <1>10 DEF MarkOpenResult, WorkerTypeOK
  <2>2. /\ exTx' = [exTx EXCEPT ![wExec[w]] = wTx[w]] /\ jobs' = jobs
        /\ exAction' = exAction /\ exPos' = exPos
        /\ \E to \in ExecutionStatus : MoveExecution(wExec[w], to)
    BY <1>10 DEF MarkOpenResult
  <2> QED
    BY <2>1, <2>2, StoredHashType, MovedExType
<1>11. ASSUME NEW w \in Worker, NEW closed \in BOOLEAN, MarkCloseResult(w, closed)
      PROVE ExTypeOK'
  <2>1. wExec[w] \in Exec /\ wTx[w] \in 0 .. MaxTx
    BY <1>11 DEF MarkCloseResult, WorkerTypeOK
  <2>2. /\ exTx' = [exTx EXCEPT ![wExec[w]] = wTx[w]] /\ jobs' = jobs
        /\ exAction' = exAction /\ exPos' = exPos
        /\ \E to \in ExecutionStatus : MoveExecution(wExec[w], to)
    BY <1>11 DEF MarkCloseResult
  <2> QED
    BY <2>1, <2>2, StoredHashType, MovedExType
<1>12. ASSUME NEW w \in Worker, MarkFailed(w)
      PROVE ExTypeOK'
  <2>1. wExec[w] \in Exec
    BY <1>12 DEF MarkFailed, WorkerTypeOK
  <2>2. /\ exTx' = exTx /\ jobs' = jobs /\ exAction' = exAction /\ exPos' = exPos
        /\ exStatus' = exStatus \/ \E to \in ExecutionStatus : MoveExecution(wExec[w], to)
    BY <1>12 DEF MarkFailed
  <2> QED
    BY <2>1, <2>2, MovedExType
<1>13. ASSUME NEW t \in Tx, NonceTaken(t) \/ VenueStep(t) \/ VenueEnds(t)
      PROVE ExTypeOK'
  BY <1>13 DEF NonceTaken, VenueStep, VenueEnds, Mine, KeeperOpens, KeeperCloses, exVars
<1>14. ASSUME NEW e \in Exec, NEW seen \in Tx \union {NULL}, RecoverRead(e, seen)
      PROVE ExTypeOK'
  BY <1>14 DEF RecoverRead, exVars
<1>15. ASSUME RecoverApply
      PROVE ExTypeOK'
  <2>1. jobs' = jobs /\ exAction' = exAction /\ exPos' = exPos
    BY <1>15 DEF RecoverApply
  <2>2. \E to \in ExecutionStatus : MoveExecution(rec.exec, to)
    BY <1>15 DEF RecoverApply, RecoveredUnknown, RecoveredReverted, RecoveredOpen,
       RecoveredClose, RecoveredAwaiting
  <2>3. exTx' = exTx \/ exTx' = [exTx EXCEPT ![rec.exec] = rec.tx]
    BY <1>15 DEF RecoverApply, RecoveredUnknown, RecoveredReverted, RecoveredOpen,
       RecoveredClose, RecoveredAwaiting
  <2>4. rec.exec \in Exec /\ rec.tx \in 0 .. MaxTx
    BY <1>15 DEF RecoverApply, RecTypeOK
  <2> QED
    BY <2>1, <2>2, <2>3, <2>4, StoredHashType, MovedExType
<1>16. ASSUME RecoverAbandon
      PROVE ExTypeOK'
  BY <1>16 DEF RecoverAbandon, exVars
<1>17. ASSUME NEW t \in Tx, NEW reason \in TerminalReason, NEW p \in Pos, ApplyEvent(t, reason, p)
      PROVE ExTypeOK'
  BY <1>17 DEF ApplyEvent, exVars
<1>18. CASE UNCHANGED vars
  BY <1>18 DEF vars, exVars
<1> QED
  BY <1>1, <1>2, <1>3, <1>4, <1>5, <1>6, <1>7, <1>8, <1>9, <1>10, <1>11, <1>12, <1>13,
     <1>14, <1>15, <1>16, <1>17, <1>18 DEF Next, WorkerStep, SignAgain, SignOverMined

\* Every step keeps the types of the positions.
LEMMA PosTypeStep == TypeOK /\ [Next]_vars => PosTypeOK'
<1> SUFFICES ASSUME TypeOK, [Next]_vars PROVE PosTypeOK'
    OBVIOUS
<1> USE DEF TypeOK, PosTypeOK, PositionStatus, ActiveStatus, TerminalStatus, TerminalReason
<1>1. ASSUME NEW p \in Pos, NEW e \in Exec, AcceptOpen(p, e) \/ AcceptClose(p, e)
      PROVE PosTypeOK'
  BY <1>1 DEF AcceptOpen, AcceptClose
<1>2. ASSUME NEW e \in Exec, ReleaseStaleClaim(e) \/ Redispatch(e) \/ Rebroadcast(e)
      PROVE PosTypeOK'
  BY <1>2 DEF ReleaseStaleClaim, Redispatch, Rebroadcast, posVars
<1>3. ASSUME NEW w \in Worker, NEW e \in Exec, Claim(w, e)
      PROVE PosTypeOK'
  BY <1>3 DEF Claim, posVars
<1>4. ASSUME NEW w \in Worker, NEW k \in 1 .. MaxTx, SignOpen(w, k) \/ Resign(w, k)
      PROVE PosTypeOK'
  BY <1>4 DEF SignOpen, Resign, posVars
<1>5. ASSUME NEW w \in Worker, NEW k \in 1 .. MaxTx, NEW t \in Tx, SignClose(w, k, t)
      PROVE PosTypeOK'
  BY <1>5 DEF SignClose, posVars
<1>6. ASSUME NEW w \in Worker, Broadcast(w) \/ Finish(w) \/ Crash(w)
      PROVE PosTypeOK'
  BY <1>6 DEF Broadcast, Finish, Crash, posVars
<1>7. ASSUME NEW w \in Worker, NEW seen \in Tx \union {NULL}, MarkOpenResult(w, seen)
      PROVE PosTypeOK'
  BY <1>7 DEF MarkOpenResult, MovePosition
<1>8. ASSUME NEW w \in Worker, NEW closed \in BOOLEAN, MarkCloseResult(w, closed)
      PROVE PosTypeOK'
  <2> DEFINE p == exPos[wExec[w]]
  <2>1. /\ posVenueId' = posVenueId
        /\ \/ posStatus' = posStatus
           \/ posStatus' = [posStatus EXCEPT ![p] = "CLOSED"]
           \/ posStatus' = [posStatus EXCEPT ![p] = "UNKNOWN"]
    BY <1>8 DEF MarkCloseResult, MovePosition
  <2>2. \/ posReason' = posReason
        \/ posReason' = [posReason EXCEPT ![p] = IF @ = "" THEN "manual_close" ELSE @]
    BY <1>8 DEF MarkCloseResult
  <2>3. \/ foreign' = foreign
        \/ \E b \in BOOLEAN : foreign' = [foreign EXCEPT ![p] = @ \/ b]
    BY <1>8 DEF MarkCloseResult
  <2> QED
    BY <2>1, <2>2, <2>3
<1>9. ASSUME NEW w \in Worker, MarkFailed(w)
      PROVE PosTypeOK'
  BY <1>9 DEF MarkFailed, MovePosition
<1>10. ASSUME NEW t \in Tx, NonceTaken(t) \/ VenueStep(t) \/ VenueEnds(t)
      PROVE PosTypeOK'
  BY <1>10 DEF NonceTaken, VenueStep, VenueEnds, Mine, KeeperOpens, KeeperCloses, posVars
<1>11. ASSUME NEW e \in Exec, NEW seen \in Tx \union {NULL}, RecoverRead(e, seen)
      PROVE PosTypeOK'
  BY <1>11 DEF RecoverRead, posVars
<1>12. ASSUME RecoverApply
      PROVE PosTypeOK'
  <2> DEFINE e == rec.exec
             p == exPos[e]
  <2>1. CASE RecoveredUnknown(e, p)
    BY <2>1 DEF RecoveredUnknown, MovePosition
  <2>2. CASE RecoveredReverted(e, p)
    BY <2>2 DEF RecoveredReverted, MovePosition
  <2>3. CASE RecoveredOpen(e, p)
    BY <2>3 DEF RecoveredOpen, MovePosition, RecTypeOK
  <2>4. CASE RecoveredClose(e, p)
    BY <2>4 DEF RecoveredClose, MovePosition
  <2>5. CASE RecoveredAwaiting(e, p)
    BY <2>5 DEF RecoveredAwaiting, MovePosition
  <2> QED
    BY <1>12, <2>1, <2>2, <2>3, <2>4, <2>5 DEF RecoverApply
<1>13. ASSUME RecoverAbandon
      PROVE PosTypeOK'
  BY <1>13 DEF RecoverAbandon, posVars
<1>14. ASSUME NEW t \in Tx, NEW reason \in TerminalReason, NEW p \in Pos, ApplyEvent(t, reason, p)
      PROVE PosTypeOK'
  BY <1>14 DEF ApplyEvent, MovePosition
<1>15. CASE UNCHANGED vars
  BY <1>15 DEF vars, posVars
<1> QED
  BY <1>1, <1>2, <1>3, <1>4, <1>5, <1>6, <1>7, <1>8, <1>9, <1>10, <1>11, <1>12, <1>13,
     <1>14, <1>15 DEF Next, WorkerStep, SignAgain, SignOverMined

\* Every step keeps the types of the chain and the venue.
LEMMA VenueTypeStep == TypeOK /\ [Next]_vars => VenueTypeOK'
<1> SUFFICES ASSUME TypeOK, [Next]_vars PROVE VenueTypeOK'
    OBVIOUS
<1> USE DEF TypeOK, VenueTypeOK, ChainState, VenueState, Mined, Gone
<1>1. ASSUME NEW p \in Pos, NEW e \in Exec, AcceptOpen(p, e) \/ AcceptClose(p, e)
      PROVE VenueTypeOK'
  BY <1>1 DEF AcceptOpen, AcceptClose, venueVars
<1>2. ASSUME NEW e \in Exec, ReleaseStaleClaim(e) \/ Redispatch(e) \/ Rebroadcast(e)
      PROVE VenueTypeOK'
  BY <1>2 DEF ReleaseStaleClaim, Redispatch, Rebroadcast, venueVars
<1>3. ASSUME NEW w \in Worker, NEW e \in Exec, Claim(w, e)
      PROVE VenueTypeOK'
  BY <1>3 DEF Claim, venueVars
<1>4. ASSUME NEW w \in Worker, NEW k \in 1 .. MaxTx,
             SignOpen(w, k) \/ SignAgain(w, k) \/ SignOverMined(w, k)
      PROVE VenueTypeOK'
  <2>1. wExec[w] \in Exec
    BY <1>4 DEF SignOpen, SignAgain, SignOverMined, Resign, WorkerTypeOK
  <2>2. overlooked' \subseteq Exec
    BY <1>4, <2>1 DEF SignOpen, SignAgain, SignOverMined
  <2>3. venue' = venue /\ chain' = [chain EXCEPT ![<<wExec[w], k>>] = "signed"]
    BY <1>4 DEF SignOpen, SignAgain, SignOverMined, Resign, Persist
  <2>4. target' = target \/ target' = [target EXCEPT ![<<wExec[w], k>>] = wTrade[w]]
    BY <1>4 DEF SignOpen, SignAgain, SignOverMined, Resign
  <2>5. wTrade[w] \in Tx \union {NULL}
    BY DEF WorkerTypeOK
  <2> QED
    BY <2>2, <2>3, <2>4, <2>5
<1>5. ASSUME NEW w \in Worker, NEW k \in 1 .. MaxTx, NEW t \in Tx, SignClose(w, k, t)
      PROVE VenueTypeOK'
  BY <1>5 DEF SignClose, Persist
<1>6. ASSUME NEW w \in Worker, Broadcast(w) \/ Finish(w) \/ Crash(w) \/ MarkFailed(w)
      PROVE VenueTypeOK'
  BY <1>6 DEF Broadcast, Finish, Crash, MarkFailed, venueVars
<1>7. ASSUME NEW w \in Worker, NEW seen \in Tx \union {NULL}, MarkOpenResult(w, seen)
      PROVE VenueTypeOK'
  BY <1>7 DEF MarkOpenResult, venueVars
<1>8. ASSUME NEW w \in Worker, NEW closed \in BOOLEAN, MarkCloseResult(w, closed)
      PROVE VenueTypeOK'
  BY <1>8 DEF MarkCloseResult, venueVars
<1>10. ASSUME NEW t \in Tx, NonceTaken(t) \/ VenueStep(t) \/ VenueEnds(t)
      PROVE VenueTypeOK'
  BY <1>10, LiveAssumption DEF NonceTaken, VenueStep, VenueEnds, Mine, KeeperOpens,
     KeeperCloses
<1>11. ASSUME NEW e \in Exec, NEW seen \in Tx \union {NULL}, RecoverRead(e, seen)
      PROVE VenueTypeOK'
  BY <1>11 DEF RecoverRead, venueVars
<1>12. ASSUME RecoverApply \/ RecoverAbandon
      PROVE VenueTypeOK'
  BY <1>12 DEF RecoverApply, RecoverAbandon, venueVars
<1>14. ASSUME NEW t \in Tx, NEW reason \in TerminalReason, NEW p \in Pos, ApplyEvent(t, reason, p)
      PROVE VenueTypeOK'
  BY <1>14 DEF ApplyEvent, venueVars
<1>15. CASE UNCHANGED vars
  BY <1>15 DEF vars, venueVars
<1> QED
  BY <1>1, <1>2, <1>3, <1>4, <1>5, <1>6, <1>7, <1>8, <1>10, <1>11, <1>12,
     <1>14, <1>15 DEF Next, WorkerStep

\* Every step keeps the type of what the recovery loop carries.
LEMMA RecTypeStep == TypeOK /\ [Next]_vars => RecTypeOK'
<1> SUFFICES ASSUME TypeOK, [Next]_vars PROVE RecTypeOK'
    OBVIOUS
<1> USE LiveAssumption DEF TypeOK, RecTypeOK
<1>1. ASSUME NEW e \in Exec, NEW seen \in Tx \union {NULL}, RecoverRead(e, seen)
      PROVE RecTypeOK'
  BY <1>1, NullAssumption DEF RecoverRead, ExTypeOK, Mined
<1>2. ASSUME RecoverApply \/ RecoverAbandon
      PROVE RecTypeOK'
  BY <1>2 DEF RecoverApply, RecoverAbandon, NoRecovery
<1>3. ASSUME NEW p \in Pos, NEW e \in Exec, AcceptOpen(p, e) \/ AcceptClose(p, e)
      PROVE rec' = rec
  BY <1>3 DEF AcceptOpen, AcceptClose
<1>4. ASSUME NEW e \in Exec, ReleaseStaleClaim(e) \/ Redispatch(e) \/ Rebroadcast(e)
      PROVE rec' = rec
  BY <1>4 DEF ReleaseStaleClaim, Redispatch, Rebroadcast
<1>5. ASSUME NEW w \in Worker,
             (\E e \in Exec : Claim(w, e)) \/ WorkerStep(w) \/ Crash(w)
      PROVE rec' = rec
  BY <1>5 DEF Claim, WorkerStep, SignOpen, SignClose, SignAgain, SignOverMined, Resign,
     Broadcast, MarkOpenResult,
     Finish, MarkCloseResult, MarkFailed, Crash
<1>6. ASSUME NEW t \in Tx, NonceTaken(t) \/ VenueStep(t) \/ VenueEnds(t)
      PROVE rec' = rec
  BY <1>6 DEF NonceTaken, VenueStep, Mine, KeeperOpens, KeeperCloses, VenueEnds
<1>7. ASSUME NEW t \in Tx, NEW reason \in TerminalReason, NEW p \in Pos, ApplyEvent(t, reason, p)
      PROVE rec' = rec
  BY <1>7 DEF ApplyEvent
<1>8. CASE UNCHANGED vars
  BY <1>8 DEF vars
<1> QED
  BY <1>1, <1>2, <1>3, <1>4, <1>5, <1>6, <1>7, <1>8 DEF Next

\* Every step keeps the types of the threads, and a thread holds an attempt
\* exactly while it is busy.
LEMMA WorkerTypeStep == TypeOK /\ [Next]_vars => WorkerTypeOK'
<1> SUFFICES ASSUME TypeOK, [Next]_vars PROVE WorkerTypeOK'
    OBVIOUS
<1> USE LiveAssumption, NullAssumption DEF TypeOK, WorkerTypeOK, WorkerPc
<1>1. ASSUME NEW p \in Pos, NEW e \in Exec, AcceptOpen(p, e) \/ AcceptClose(p, e)
      PROVE WorkerTypeOK'
  BY <1>1 DEF AcceptOpen, AcceptClose, wVars
<1>2. ASSUME NEW e \in Exec, ReleaseStaleClaim(e) \/ Redispatch(e) \/ Rebroadcast(e)
      PROVE WorkerTypeOK'
  BY <1>2 DEF ReleaseStaleClaim, Redispatch, Rebroadcast, wVars
<1>3. ASSUME NEW w \in Worker, NEW e \in Exec, Claim(w, e)
      PROVE WorkerTypeOK'
  <2>1. exStatus[e] # "NONE" /\ posVenueId[exPos[e]] \in Tx \union {NULL}
    BY <1>3 DEF Claim, PosTypeOK, ExTypeOK
  <2>2. /\ wPc' = [wPc EXCEPT ![w] = "claimed"]
        /\ wExec' = [wExec EXCEPT ![w] = e]
        /\ wTrade' = [wTrade EXCEPT ![w] = posVenueId[exPos[e]]]
        /\ wTx' = wTx /\ wRetried' = wRetried /\ mishaps' = mishaps
    BY <1>3 DEF Claim
  <2> QED
    BY <2>1, <2>2
<1>4. ASSUME NEW w \in Worker, NEW k \in 1 .. MaxTx,
             SignOpen(w, k) \/ SignAgain(w, k) \/ SignOverMined(w, k)
      PROVE WorkerTypeOK'
  <2>1. k \in 0 .. MaxTx /\ mishaps' \in 0 .. MaxMishap
    BY <1>4 DEF SignOpen, SignAgain, SignOverMined
  <2>2. /\ wPc[w] # "idle"
        /\ wPc' = [wPc EXCEPT ![w] = "signed"]
        /\ wTx' = [wTx EXCEPT ![w] = k]
        /\ wExec' = wExec /\ wTrade' = wTrade
    BY <1>4 DEF SignOpen, SignAgain, SignOverMined, Resign, Persist
  <2>3. wRetried' \in [Worker -> BOOLEAN]
    BY <1>4 DEF SignOpen, SignAgain, SignOverMined, Resign
  <2> QED
    BY <2>1, <2>2, <2>3
<1>5. ASSUME NEW w \in Worker, NEW k \in 1 .. MaxTx, NEW t \in Tx, SignClose(w, k, t)
      PROVE WorkerTypeOK'
  BY <1>5 DEF SignClose, Persist
<1>6. ASSUME NEW w \in Worker, Broadcast(w)
      PROVE WorkerTypeOK'
  BY <1>6 DEF Broadcast
<1>7. ASSUME NEW w \in Worker, NEW seen \in Tx \union {NULL}, MarkOpenResult(w, seen)
      PROVE WorkerTypeOK'
  BY <1>7 DEF MarkOpenResult
<1>8. ASSUME NEW w \in Worker, Release(w), mishaps' \in 0 .. MaxMishap
      PROVE WorkerTypeOK'
  BY <1>8 DEF Release
<1>9. ASSUME NEW w \in Worker, Finish(w) \/ MarkFailed(w) \/ Crash(w)
      PROVE WorkerTypeOK'
  BY <1>8, <1>9 DEF Finish, MarkFailed, Crash
<1>10. ASSUME NEW w \in Worker, NEW closed \in BOOLEAN, MarkCloseResult(w, closed)
      PROVE WorkerTypeOK'
  BY <1>8, <1>10 DEF MarkCloseResult
<1>11. ASSUME NEW t \in Tx, NonceTaken(t) \/ VenueStep(t) \/ VenueEnds(t)
      PROVE WorkerTypeOK'
  BY <1>11 DEF NonceTaken, VenueStep, VenueEnds, Mine, KeeperOpens, KeeperCloses, wVars
<1>12. ASSUME NEW e \in Exec, NEW seen \in Tx \union {NULL}, RecoverRead(e, seen)
      PROVE WorkerTypeOK'
  BY <1>12 DEF RecoverRead, wVars
<1>13. ASSUME RecoverApply \/ RecoverAbandon
      PROVE WorkerTypeOK'
  BY <1>13 DEF RecoverApply, RecoverAbandon, wVars
<1>14. ASSUME NEW t \in Tx, NEW reason \in TerminalReason, NEW p \in Pos, ApplyEvent(t, reason, p)
      PROVE WorkerTypeOK'
  BY <1>14 DEF ApplyEvent, wVars
<1>15. CASE UNCHANGED vars
  BY <1>15 DEF vars, wVars
<1> QED
  BY <1>1, <1>2, <1>3, <1>4, <1>5, <1>6, <1>7, <1>9, <1>10, <1>11, <1>12, <1>13,
     <1>14, <1>15 DEF Next, WorkerStep, SignAgain, SignOverMined

\* Row number, transaction number and crash count may start at zero.
LEMMA ZeroInBounds == 0 \in 0 .. MaxPos /\ 0 \in 0 .. MaxTx /\ 0 \in 0 .. MaxMishap
BY LiveAssumption DEF LiveAssumption

\* The empty database has the types.
LEMMA TypeInit == Init => TypeOK
<1> SUFFICES ASSUME Init PROVE TypeOK
    OBVIOUS
<1> USE LiveAssumption, NullAssumption DEF Init
<1>1. PosTypeOK
  BY DEF PosTypeOK, TerminalReason
<1>0. 0 \in 0 .. MaxPos /\ 0 \in 0 .. MaxTx /\ 0 \in 0 .. MaxMishap
  BY ZeroInBounds
<1>2. ExTypeOK
  BY <1>0 DEF ExTypeOK
<1>3. WorkerTypeOK
  BY <1>0 DEF WorkerTypeOK, WorkerPc
<1>4. VenueTypeOK
  BY DEF VenueTypeOK, ChainState, VenueState
<1>5. RecTypeOK
  BY <1>0 DEF RecTypeOK, NoRecovery
<1> QED
  BY <1>1, <1>2, <1>3, <1>4, <1>5 DEF TypeOK

\* Every variable keeps its type, whatever the interleaving of API calls,
\* threads, recovery and venue events.
THEOREM TypeCorrect == Spec => []TypeOK
<1>1. TypeOK /\ [Next]_vars => TypeOK'
  BY PosTypeStep, ExTypeStep, WorkerTypeStep, VenueTypeStep, RecTypeStep DEF TypeOK
<1> QED
  BY TypeInit, <1>1, PTL DEF Spec

-----------------------------------------------------------------------------
(***************************************************************************)
(* What happens to the positions: one is active at a time, what is over    *)
(* stays over, and an executed attempt shows in its position.  None of it  *)
(* needs an assumption on the speed of the threads.                        *)
(***************************************************************************)

\* One row of positions is created, gets a close command, or follows the table.
PositionMove(p) ==
    \/ /\ \A q \in Pos : ~Active(q)
       /\ posStatus[p] = "NONE"
       /\ posStatus' = [posStatus EXCEPT ![p] = "OPENING"]
    \/ /\ posStatus[p] \in ClosableStatus
       /\ posStatus' = [posStatus EXCEPT ![p] = "CLOSING"]
    \/ \E to \in PositionStatus : MovePosition(p, to)

\* One attempt is created, gives a stale claim back, or follows the table.
AttemptMove(e) ==
    \/ exStatus[e] \in {"NONE", "CLAIMED"} /\ exStatus' = [exStatus EXCEPT ![e] = "CREATED"]
    \/ \E to \in ExecutionStatus \ {"RECONCILED"} : MoveExecution(e, to)

\* The position of an attempt with a row exists.
LEMMA RowPosition ==
    ASSUME TypeOK, NEW e \in Exec, exStatus[e] # "NONE"
    PROVE  exPos[e] \in Pos
BY DEF TypeOK, ExTypeOK

\* A busy thread holds an attempt.
LEMMA ThreadAttempt ==
    ASSUME TypeOK, NEW w \in Worker, wPc[w] # "idle"
    PROVE  wExec[w] \in Exec
BY DEF TypeOK, WorkerTypeOK

\* The writers of results: each moves its attempt by the table and its
\* position by the table, or leaves a position that is over alone.
LEMMA ResultMoves ==
    ASSUME TypeOK,
           \/ \E w \in Worker : \/ \E seen \in Tx \union {NULL} : MarkOpenResult(w, seen)
                                \/ \E closed \in BOOLEAN : MarkCloseResult(w, closed)
                                \/ MarkFailed(w)
           \/ RecoverApply
    PROVE  /\ exStatus' = exStatus \/ \E e \in Exec : AttemptMove(e)
           /\ posStatus' = posStatus \/ \E p \in Pos : PositionMove(p)
<1>1. ASSUME NEW e \in Exec, NEW to \in ExecutionStatus \ {"RECONCILED"}, MoveExecution(e, to),
             posStatus' = posStatus \/ \E s \in PositionStatus : MovePosition(exPos[e], s)
      PROVE  /\ AttemptMove(e)
             /\ posStatus' = posStatus \/ \E p \in Pos : PositionMove(p)
  <2>1. exPos[e] \in Pos
    BY <1>1, MovedRowExists, RowPosition
  <2> QED
    BY <1>1, <2>1 DEF AttemptMove, PositionMove
<1>2. ASSUME NEW w \in Worker, NEW seen \in Tx \union {NULL}, MarkOpenResult(w, seen)
      PROVE  /\ \E e \in Exec : AttemptMove(e)
             /\ posStatus' = posStatus \/ \E p \in Pos : PositionMove(p)
  <2>1. wExec[w] \in Exec
    BY <1>2, ThreadAttempt DEF MarkOpenResult
  <2>2. PICK to \in {"VENUE_EXECUTED", "AWAITING", "FAILED"} : MoveExecution(wExec[w], to)
    BY <1>2 DEF MarkOpenResult
  <2>3. \/ posStatus' = posStatus
        \/ MovePosition(exPos[wExec[w]], "OPEN") \/ MovePosition(exPos[wExec[w]], "CLOSED")
    BY <1>2 DEF MarkOpenResult
  <2> QED
    BY <1>1, <2>1, <2>2, <2>3
       DEF ExecutionStatus, PositionStatus, ActiveStatus, TerminalStatus
<1>3. ASSUME NEW w \in Worker, NEW closed \in BOOLEAN, MarkCloseResult(w, closed)
      PROVE  /\ \E e \in Exec : AttemptMove(e)
             /\ posStatus' = posStatus \/ \E p \in Pos : PositionMove(p)
  <2>1. wExec[w] \in Exec
    BY <1>3, ThreadAttempt DEF MarkCloseResult
  <2>2. PICK to \in {"VENUE_EXECUTED", "AWAITING", "FAILED"} : MoveExecution(wExec[w], to)
    BY <1>3 DEF MarkCloseResult
  <2>3. \/ posStatus' = posStatus
        \/ MovePosition(exPos[wExec[w]], "CLOSED") \/ MovePosition(exPos[wExec[w]], "UNKNOWN")
    BY <1>3 DEF MarkCloseResult
  <2> QED
    BY <1>1, <2>1, <2>2, <2>3
       DEF ExecutionStatus, PositionStatus, ActiveStatus, TerminalStatus
<1>4. ASSUME NEW w \in Worker, MarkFailed(w)
      PROVE  /\ exStatus' = exStatus \/ \E e \in Exec : AttemptMove(e)
             /\ posStatus' = posStatus \/ \E p \in Pos : PositionMove(p)
  <2>1. wExec[w] \in Exec
    BY <1>4, ThreadAttempt DEF MarkFailed
  <2>2. CASE UNCHANGED <<posStatus, exStatus>>
    BY <2>2
  <2>3. CASE ~UNCHANGED <<posStatus, exStatus>>
    <3>1. PICK to \in {"UNKNOWN", "FAILED"} : MoveExecution(wExec[w], to)
      BY <1>4, <2>3 DEF MarkFailed
    <3>2. \/ posStatus' = posStatus
          \/ MovePosition(exPos[wExec[w]], "CLOSED") \/ MovePosition(exPos[wExec[w]], "UNKNOWN")
      BY <1>4, <2>3 DEF MarkFailed
    <3> QED
      BY <1>1, <2>1, <3>1, <3>2
         DEF ExecutionStatus, PositionStatus, ActiveStatus, TerminalStatus
  <2> QED
    BY <2>2, <2>3
<1>5. ASSUME RecoverApply
      PROVE  /\ \E e \in Exec : AttemptMove(e)
             /\ posStatus' = posStatus \/ \E p \in Pos : PositionMove(p)
  <2>1. rec.exec \in Exec
    BY <1>5 DEF RecoverApply, TypeOK, RecTypeOK
  <2>2. PICK to \in {"UNKNOWN", "VENUE_EXECUTED", "AWAITING", "FAILED"} :
          MoveExecution(rec.exec, to)
    BY <1>5 DEF RecoverApply, RecoveredUnknown, RecoveredReverted, RecoveredOpen,
       RecoveredClose, RecoveredAwaiting
  <2>3. \/ posStatus' = posStatus
        \/ \E s \in {"UNKNOWN", "CLOSED", "OPEN", "OPENING", "CLOSING"} :
             MovePosition(exPos[rec.exec], s)
    BY <1>5 DEF RecoverApply, RecoveredUnknown, RecoveredReverted, RecoveredOpen,
       RecoveredClose, RecoveredAwaiting
  <2> QED
    BY <1>1, <2>1, <2>2, <2>3
       DEF ExecutionStatus, PositionStatus, ActiveStatus, TerminalStatus
<1> QED
  BY <1>2, <1>3, <1>4, <1>5

\* What one step may do to the rows of attempts and positions.
LEMMA RecordMoves ==
    ASSUME TypeOK, [Next]_vars
    PROVE  /\ exStatus' = exStatus \/ \E e \in Exec : AttemptMove(e)
           /\ posStatus' = posStatus \/ \E p \in Pos : PositionMove(p)
<1>1. ASSUME NEW p \in Pos, NEW e \in Exec, AcceptOpen(p, e) \/ AcceptClose(p, e)
      PROVE AttemptMove(e) /\ PositionMove(p)
  BY <1>1 DEF AcceptOpen, AcceptClose, NewExecution, AttemptMove, PositionMove
<1>2. ASSUME NEW e \in Exec, ReleaseStaleClaim(e)
      PROVE AttemptMove(e) /\ posStatus' = posStatus
  BY <1>2 DEF ReleaseStaleClaim, AttemptMove, posVars
<1>3. ASSUME NEW w \in Worker, NEW e \in Exec, Claim(w, e)
      PROVE AttemptMove(e) /\ posStatus' = posStatus
  BY <1>3 DEF Claim, AttemptMove, posVars, ExecutionStatus
<1>4. ASSUME NEW w \in Worker, NEW k \in 1 .. MaxTx,
             SignOpen(w, k) \/ Resign(w, k) \/ \E t \in Tx : SignClose(w, k, t)
      PROVE (\E e \in Exec : AttemptMove(e)) /\ posStatus' = posStatus
  <2>1. wExec[w] \in Exec /\ posStatus' = posStatus
    BY <1>4, ThreadAttempt DEF SignOpen, Resign, SignClose, posVars
  <2>2. MoveExecution(wExec[w], "BROADCAST_PENDING")
    BY <1>4 DEF SignOpen, Resign, SignClose, Persist
  <2> QED
    BY <2>1, <2>2 DEF AttemptMove, ExecutionStatus
<1>5. ASSUME NEW t \in Tx, NEW reason \in TerminalReason, NEW p \in Pos,
             ApplyEvent(t, reason, p)
      PROVE exStatus' = exStatus /\ (posStatus' = posStatus \/ PositionMove(p))
  BY <1>5 DEF ApplyEvent, exVars, PositionMove, PositionStatus, TerminalStatus
<1>6. ASSUME NEW e \in Exec,
             \/ Redispatch(e) \/ Rebroadcast(e)
             \/ \E seen \in Tx \union {NULL} : RecoverRead(e, seen)
      PROVE UNCHANGED <<exStatus, posStatus>>
  BY <1>6 DEF Redispatch, Rebroadcast, RecoverRead, exVars, posVars
<1>7. ASSUME NEW w \in Worker, Broadcast(w) \/ Finish(w) \/ Crash(w)
      PROVE UNCHANGED <<exStatus, posStatus>>
  BY <1>7 DEF Broadcast, Finish, Crash, exVars, posVars
<1>8. ASSUME NEW t \in Tx, NonceTaken(t) \/ VenueStep(t) \/ VenueEnds(t)
      PROVE UNCHANGED <<exStatus, posStatus>>
  BY <1>8 DEF NonceTaken, VenueStep, Mine, KeeperOpens, KeeperCloses, VenueEnds, exVars,
     posVars
<1>9. CASE RecoverAbandon \/ UNCHANGED vars
  BY <1>9 DEF RecoverAbandon, vars, exVars, posVars
<1> QED
  BY <1>1, <1>2, <1>3, <1>4, <1>5, <1>6, <1>7, <1>8, <1>9, ResultMoves DEF Next, WorkerStep,
     SignAgain, SignOverMined

\* Every step keeps one active position at most.
LEMMA OneActiveStep ==
    ASSUME TypeOK, OneActivePosition, [Next]_vars
    PROVE  OneActivePosition'
<1>1. ASSUME NEW p \in Pos, PositionMove(p) PROVE OneActivePosition'
  <2>1. \A q \in Pos : q # p => posStatus'[q] = posStatus[q]
    BY <1>1 DEF PositionMove, MovePosition, TypeOK, PosTypeOK
  <2>2. CASE \A q \in Pos : ~Active(q)
    BY <2>1, <2>2 DEF OneActivePosition, Active
  <2>3. CASE \E q \in Pos : Active(q)
    <3>1. Active(p)' => Active(p)
      BY <1>1, <2>3 DEF PositionMove, MovePosition, CanTransition, Active, ClosableStatus,
         ActiveStatus, PositionStatus, TerminalStatus, TypeOK, PosTypeOK
    <3> QED
      BY <2>1, <3>1 DEF OneActivePosition, Active
  <2> QED
    BY <2>2, <2>3
<1>2. CASE posStatus' = posStatus
  BY <1>2 DEF OneActivePosition, Active
<1> QED
  BY <1>1, <1>2, RecordMoves

\* No writer revives a position beside the one accept_open let in.
THEOREM OneIsActive == Spec => []OneActivePosition
<1>1. Init => OneActivePosition
  <2> SUFFICES ASSUME Init, NEW p \in Pos PROVE ~Active(p)
    BY DEF OneActivePosition
  <2> QED
    BY DEF Init, Active, ActiveStatus
<1>2. TypeOK /\ OneActivePosition /\ [Next]_vars => OneActivePosition'
  BY OneActiveStep
<1> QED
  BY <1>1, <1>2, TypeCorrect, PTL DEF Spec

\* A position that is over stays over, a liquidation stays one.
LEMMA TerminalStays ==
    ASSUME TypeOK, [Next]_vars, NEW p \in Pos
    PROVE  /\ Terminal(p) => Terminal(p)'
           /\ posStatus[p] = "LIQUIDATED" => posStatus'[p] = "LIQUIDATED"
<1>1. ASSUME NEW q \in Pos, PositionMove(q)
      PROVE /\ Terminal(p) => Terminal(p)'
            /\ posStatus[p] = "LIQUIDATED" => posStatus'[p] = "LIQUIDATED"
  BY <1>1 DEF PositionMove, MovePosition, CanTransition, Terminal, ClosableStatus,
     TerminalStatus, TypeOK, PosTypeOK
<1> QED
  BY <1>1, RecordMoves DEF Terminal

\* An attempt whose outcome is settled keeps it.
LEMMA OutcomeStays ==
    ASSUME TypeOK, [Next]_vars, NEW f \in Exec, exStatus[f] \in FinalStatus
    PROVE  exStatus'[f] = exStatus[f]
<1>1. ASSUME NEW e \in Exec, AttemptMove(e) PROVE exStatus'[f] = exStatus[f]
  BY <1>1 DEF AttemptMove, MoveExecution, CanExecutionTransition, FinalStatus, ResolvedStatus,
     TypeOK, ExTypeOK
<1> QED
  BY <1>1, RecordMoves

\* No slower writer rewrites the end of a position or the outcome of an attempt.
THEOREM OutcomesHold == Spec => OutcomesAreFinal
<1>1. TypeOK /\ [Next]_vars =>
        [ /\ \A p \in Pos :
              /\ Terminal(p) => Terminal(p)'
              /\ posStatus[p] = "LIQUIDATED" => posStatus'[p] = "LIQUIDATED"
          /\ \A e \in Exec : exStatus[e] \in FinalStatus => exStatus'[e] = exStatus[e] ]_vars
  BY TerminalStays, OutcomeStays
<1> QED
  BY <1>1, TypeCorrect, PTL DEF Spec, OutcomesAreFinal

\* The command and the position of an attempt are fixed when it is accepted, and
\* a position that was tied to a trade stays tied to one.
LEMMA RowsKeepIdentity ==
    ASSUME TypeOK, [Next]_vars
    PROVE  /\ \A e \in Exec : exStatus[e] # "NONE" =>
                exAction'[e] = exAction[e] /\ exPos'[e] = exPos[e]
           /\ \A p \in Pos : posVenueId[p] # NULL => posVenueId'[p] # NULL
<1>1. ASSUME NEW p \in Pos, NEW e \in Exec, AcceptOpen(p, e) \/ AcceptClose(p, e)
      PROVE  /\ \A f \in Exec : exStatus[f] # "NONE" =>
                  exAction'[f] = exAction[f] /\ exPos'[f] = exPos[f]
             /\ posVenueId' = posVenueId
  BY <1>1 DEF AcceptOpen, AcceptClose, NewExecution, TypeOK, ExTypeOK
<1>2. ASSUME NEW w \in Worker, NEW seen \in Tx \union {NULL}, MarkOpenResult(w, seen)
      PROVE  /\ UNCHANGED <<exAction, exPos>>
             /\ \A p \in Pos : posVenueId[p] # NULL => posVenueId'[p] # NULL
  BY <1>2 DEF MarkOpenResult, TypeOK, PosTypeOK
<1>3. ASSUME RecoverApply
      PROVE  /\ UNCHANGED <<exAction, exPos>>
             /\ \A p \in Pos : posVenueId[p] # NULL => posVenueId'[p] # NULL
  BY <1>3 DEF RecoverApply, RecoveredUnknown, RecoveredReverted, RecoveredOpen, RecoveredClose,
     RecoveredAwaiting, TypeOK, PosTypeOK
<1>4. ASSUME NEW t \in Tx, NEW reason \in TerminalReason, NEW p \in Pos,
             ApplyEvent(t, reason, p)
      PROVE  /\ UNCHANGED <<exAction, exPos>>
             /\ \A q \in Pos : posVenueId[q] # NULL => posVenueId'[q] # NULL
  BY <1>4, NullAssumption DEF ApplyEvent, exVars, TypeOK, PosTypeOK
<1>5. ASSUME NEW e \in Exec,
             \/ ReleaseStaleClaim(e) \/ Redispatch(e) \/ Rebroadcast(e)
             \/ \E seen \in Tx \union {NULL} : RecoverRead(e, seen)
      PROVE UNCHANGED <<exAction, exPos, posVenueId>>
  BY <1>5 DEF ReleaseStaleClaim, Redispatch, Rebroadcast, RecoverRead, exVars, posVars
<1>6. ASSUME NEW w \in Worker,
             \/ \E e \in Exec : Claim(w, e)
             \/ \E k \in 1 .. MaxTx : SignOpen(w, k) \/ Resign(w, k)
             \/ \E k \in 1 .. MaxTx, t \in Tx : SignClose(w, k, t)
             \/ \E closed \in BOOLEAN : MarkCloseResult(w, closed)
             \/ Broadcast(w) \/ Finish(w) \/ MarkFailed(w) \/ Crash(w)
      PROVE UNCHANGED <<exAction, exPos, posVenueId>>
  BY <1>6 DEF Claim, SignOpen, Resign, SignClose, MarkCloseResult, Broadcast, Finish,
     MarkFailed, Crash, exVars, posVars
<1>7. ASSUME NEW t \in Tx, NonceTaken(t) \/ VenueStep(t) \/ VenueEnds(t)
      PROVE UNCHANGED <<exAction, exPos, posVenueId>>
  BY <1>7 DEF NonceTaken, VenueStep, Mine, KeeperOpens, KeeperCloses, VenueEnds, exVars,
     posVars
<1>8. CASE RecoverAbandon \/ UNCHANGED vars
  BY <1>8 DEF RecoverAbandon, vars, exVars, posVars
<1> QED
  BY <1>1, <1>2, <1>3, <1>4, <1>5, <1>6, <1>7, <1>8 DEF Next, WorkerStep, SignAgain,
     SignOverMined

\* What the writer of an execution leaves in the position.
Settled(e) == Terminal(exPos[e]) \/ (exAction[e] = "OPEN" /\ posVenueId[exPos[e]] # NULL)

\* A settled attempt stays settled.
LEMMA SettledStays ==
    ASSUME TypeOK, [Next]_vars, NEW e \in Exec, exStatus[e] # "NONE", Settled(e)
    PROVE  Settled(e)'
<1>1. exPos[e] \in Pos /\ exPos'[e] = exPos[e] /\ exAction'[e] = exAction[e]
  BY RowPosition, RowsKeepIdentity
<1> QED
  BY <1>1, TerminalStays, RowsKeepIdentity DEF Settled, Terminal

\* The writers of results leave a position settled when they write EXECUTED.
LEMMA ExecutedBySettling ==
    ASSUME TypeOK, [Next]_vars, NEW f \in Exec,
           exStatus[f] # "VENUE_EXECUTED", exStatus'[f] = "VENUE_EXECUTED"
    PROVE  Settled(f)'
<1> USE DEF TypeOK, ExTypeOK
<1>1. ASSUME NEW w \in Worker, NEW seen \in Tx \union {NULL}, MarkOpenResult(w, seen)
      PROVE Settled(f)'
  <2>1. wExec[w] = f /\ exPos[f] \in Pos /\ exPos'[f] = exPos[f] /\ exAction'[f] = exAction[f]
    BY <1>1, ThreadAttempt, MovedRowExists, RowPosition DEF MarkOpenResult, MoveExecution,
       ExecutionStatus
  <2>2. CASE Terminal(exPos[f])
    BY <2>1, <2>2, TerminalStays DEF Settled, Terminal
  <2>3. CASE ~Terminal(exPos[f])
    <3>1. seen # NULL /\ exAction[f] = "OPEN"
      BY <1>1, <2>1, <2>3 DEF MarkOpenResult, MoveExecution
    <3>2. posVenueId' = [posVenueId EXCEPT ![exPos[f]] = seen]
      BY <1>1, <2>1, <3>1 DEF MarkOpenResult
    <3> QED
      BY <2>1, <3>1, <3>2 DEF Settled, PosTypeOK
  <2> QED
    BY <2>2, <2>3
<1>2. ASSUME NEW w \in Worker, NEW closed \in BOOLEAN, MarkCloseResult(w, closed)
      PROVE Settled(f)'
  <2>1. wExec[w] = f /\ exPos[f] \in Pos /\ exPos'[f] = exPos[f]
    BY <1>2, ThreadAttempt, MovedRowExists, RowPosition DEF MarkCloseResult, MoveExecution,
       ExecutionStatus
  <2>2. CASE Terminal(exPos[f])
    BY <2>1, <2>2, TerminalStays DEF Settled, Terminal
  <2>3. CASE ~Terminal(exPos[f])
    <3>1. MovePosition(exPos[f], "CLOSED")
      BY <1>2, <2>1, <2>3 DEF MarkCloseResult, MoveExecution
    <3> QED
      BY <2>1, <3>1 DEF MovePosition, Settled, Terminal, TerminalStatus, PosTypeOK
  <2> QED
    BY <2>2, <2>3
<1>3. ASSUME RecoverApply
      PROVE Settled(f)'
  <2>1. rec.exec = f /\ exPos[f] \in Pos /\ exPos'[f] = exPos[f] /\ exAction'[f] = exAction[f]
    <3>1. rec.exec \in Exec
      BY <1>3 DEF RecoverApply, RecTypeOK
    <3>2. \E to \in ExecutionStatus : MoveExecution(rec.exec, to)
      BY <1>3 DEF RecoverApply, RecoveredUnknown, RecoveredReverted, RecoveredOpen,
         RecoveredClose, RecoveredAwaiting, ExecutionStatus
    <3>3. rec.exec = f
      BY <3>1, <3>2 DEF MoveExecution
    <3> QED
      BY <1>3, <3>2, <3>3, MovedRowExists, RowPosition DEF RecoverApply
  <2>2. CASE Terminal(exPos[f])
    BY <2>1, <2>2, TerminalStays DEF Settled, Terminal
  <2>3. CASE ~Terminal(exPos[f])
    <3>1. RecoveredOpen(f, exPos[f]) \/ RecoveredClose(f, exPos[f])
      BY <1>3, <2>1, <2>3 DEF RecoverApply, RecoveredUnknown, RecoveredReverted,
         RecoveredAwaiting, MoveExecution
    <3>2. CASE RecoveredOpen(f, exPos[f])
      BY <2>1, <3>2 DEF RecoveredOpen, Settled, PosTypeOK
    <3>3. CASE RecoveredClose(f, exPos[f])
      BY <2>1, <2>3, <3>3
         DEF RecoveredClose, MovePosition, Settled, Terminal, TerminalStatus, PosTypeOK
    <3> QED
      BY <3>1, <3>2, <3>3
  <2> QED
    BY <2>2, <2>3
<1>4. ASSUME NEW e \in Exec,
             \/ \E p \in Pos : AcceptOpen(p, e) \/ AcceptClose(p, e)
             \/ ReleaseStaleClaim(e) \/ Redispatch(e) \/ Rebroadcast(e)
             \/ \E seen \in Tx \union {NULL} : RecoverRead(e, seen)
      PROVE FALSE
  BY <1>4 DEF AcceptOpen, AcceptClose, NewExecution, ReleaseStaleClaim, Redispatch,
     Rebroadcast,
     RecoverRead, exVars
<1>5. ASSUME NEW w \in Worker,
             \/ \E e \in Exec : Claim(w, e)
             \/ \E k \in 1 .. MaxTx : SignOpen(w, k) \/ Resign(w, k)
             \/ \E k \in 1 .. MaxTx, t \in Tx : SignClose(w, k, t)
             \/ Broadcast(w) \/ Finish(w) \/ MarkFailed(w) \/ Crash(w)
      PROVE FALSE
  BY <1>5 DEF Claim, SignOpen, Resign, SignClose, Persist, Broadcast, Finish, MarkFailed,
     Crash, MoveExecution, exVars
<1>6. ASSUME NEW t \in Tx,
             \/ NonceTaken(t) \/ VenueStep(t) \/ VenueEnds(t)
             \/ \E reason \in TerminalReason, p \in Pos : ApplyEvent(t, reason, p)
      PROVE FALSE
  BY <1>6 DEF NonceTaken, VenueStep, Mine, KeeperOpens, KeeperCloses, VenueEnds, ApplyEvent,
     exVars
<1>7. CASE RecoverAbandon \/ UNCHANGED vars
  BY <1>7 DEF RecoverAbandon, vars, exVars
<1> QED
  BY <1>1, <1>2, <1>3, <1>4, <1>5, <1>6, <1>7 DEF Next, WorkerStep, SignAgain, SignOverMined

\* An executed open left a venue id or is over, an executed close ended its
\* position, whichever of the three writers came first.
THEOREM ExecutedSettles == Spec => []ExecutedIsSettled
<1>1. Init => ExecutedIsSettled
  BY DEF Init, ExecutedIsSettled
<1>2. ASSUME TypeOK, ExecutedIsSettled, [Next]_vars PROVE ExecutedIsSettled'
  <2> SUFFICES ASSUME NEW f \in Exec, exStatus'[f] = "VENUE_EXECUTED" PROVE Settled(f)'
    BY DEF ExecutedIsSettled, Settled
  <2>1. CASE exStatus[f] = "VENUE_EXECUTED"
    BY <1>2, <2>1, SettledStays DEF ExecutedIsSettled, Settled
  <2>2. CASE exStatus[f] # "VENUE_EXECUTED"
    BY <1>2, <2>2, ExecutedBySettling
  <2> QED
    BY <2>1, <2>2
<1> QED
  BY <1>1, <1>2, TypeCorrect, PTL DEF Spec

-----------------------------------------------------------------------------
(***************************************************************************)
(* What happens to one attempt: the database stores the only hash that can *)
(* still act, unless the one retry was signed over a mined transaction; a  *)
(* failed attempt has had no effect, with the same exception; therefore    *)
(* LiveTrading implements TradeCommand.  All of it rests on a claim never  *)
(* being released under a running thread, so SlowPreparation is assumed    *)
(* away; the run live_stale_claim shows what happens otherwise.            *)
(***************************************************************************)

\* A new fate of one transaction leaves the others as they were.
LEMMA ChainUpdate ==
    ASSUME TypeOK, NEW e \in Exec, NEW k \in 1 .. MaxTx, NEW c \in ChainState,
           chain' = [chain EXCEPT ![<<e, k>>] = c]
    PROVE  \A f \in Exec, j \in 1 .. MaxTx :
             chain'[<<f, j>>] = IF f = e /\ j = k THEN c ELSE chain[<<f, j>>]
BY DEF TypeOK, VenueTypeOK, Tx

LEMMA ChainSigned ==
    ASSUME TypeOK, NEW w \in Worker, wExec[w] \in Exec, NEW k \in 1 .. MaxTx, Persist(w, k)
    PROVE  \A f \in Exec, j \in 1 .. MaxTx :
             chain'[<<f, j>>] = IF f = wExec[w] /\ j = k THEN "signed" ELSE chain[<<f, j>>]
<1>1. chain' = [chain EXCEPT ![<<wExec[w], k>>] = "signed"]
  BY DEF Persist
<1> QED
  BY <1>1 DEF TypeOK, VenueTypeOK, Tx

\* The attempt a busy thread holds, and the transaction it signed, exist.
LEMMA BusyWorker ==
    ASSUME TypeOK, NEW w \in Worker, wPc[w] # "idle"
    PROVE  wExec[w] \in Exec /\ wTx[w] \in 0 .. MaxTx
BY DEF TypeOK, WorkerTypeOK

\* A row keeps its hash; only after a retry over a mined transaction may the one
\* hash be written in place of the other.
KeepsHash ==
    \A f \in Exec : exTx'[f] = exTx[f] \/ (f \in overlooked /\ exTx[f] # 0 /\ exTx'[f] # 0)

\* An attempt whose retry overlooked a mined transaction has a hash.
LEMMA DoubtIsStored ==
    ASSUME TypeOK, AttemptInv, NEW e \in overlooked
    PROVE  e \in Exec /\ exTx[e] # 0
<1>1. e \in Exec /\ 1 \in 1 .. MaxTx
  BY LiveAssumption DEF TypeOK, VenueTypeOK
<1>2. chain[<<e, 1>>] # "none"
  BY DEF AttemptInv, OneRetry, Mined
<1> QED
  BY <1>1, <1>2 DEF AttemptInv, SignedIsStored

\* Writing the hash that is stored already changes nothing, unless the attempt
\* is in doubt.
LEMMA HashKept ==
    ASSUME TypeOK, AttemptInv, NEW e \in Exec, NEW k \in 1 .. MaxTx,
           exTx[e] = k \/ e \in overlooked, exTx' = [exTx EXCEPT ![e] = k]
    PROVE  KeepsHash
<1>1. \A f \in Exec : exTx'[f] = IF f = e THEN k ELSE exTx[f]
  BY DEF TypeOK, ExTypeOK
<1>2. e \in overlooked => exTx[e] # 0
  BY DoubtIsStored
<1> QED
  BY <1>1, <1>2 DEF KeepsHash

\* A step that signs nothing and sends nothing keeps what is known of the hashes.
LEMMA HashesStay ==
    ASSUME TypeOK, AttemptInv, KeepsHash, UNCHANGED <<chain, overlooked>>,
           \A f \in Exec : exStatus'[f] \in {"NONE", "CREATED", "CLAIMED"} => exTx[f] = 0,
           \A v \in Worker : wPc'[v] = "signed" =>
             wPc[v] = "signed" /\ wRetried'[v] = wRetried[v] /\ wExec'[v] = wExec[v]
    PROVE  SignedIsStored' /\ TxIsRecorded' /\ OneRetry'
<1>1. \A f \in Exec : exTx'[f] = 0 <=> exTx[f] = 0
  BY DEF KeepsHash
<1>2. SignedIsStored'
  BY <1>1 DEF AttemptInv, SignedIsStored
<1>3. OneRetry'
  BY DEF AttemptInv, OneRetry
<1>4. ASSUME NEW f \in Exec, NEW j \in 1 .. MaxTx, chain[<<f, j>>] \notin {"none", "dead"}
      PROVE  exTx'[f] = j \/ (f \in overlooked /\ j \in 1 .. 2 /\ chain[<<f, 1>>] \in Mined)
  <2>1. j \in 1 .. 2
    BY <1>4 DEF AttemptInv, OneRetry
  <2>2. f \in overlooked => chain[<<f, 1>>] \in Mined
    BY DEF AttemptInv, OneRetry
  <2>3. exTx[f] = j \/ f \in overlooked
    BY <1>4 DEF AttemptInv, TxIsRecorded
  <2>4. exTx'[f] = exTx[f] \/ f \in overlooked
    BY DEF KeepsHash
  <2> QED
    BY <2>1, <2>2, <2>3, <2>4
<1>5. TxIsRecorded'
  BY <1>4 DEF TxIsRecorded
<1> QED
  BY <1>2, <1>3, <1>5

\* Steps that touch neither the attempts nor the threads nor the chain.
LEMMA AttemptInvQuiet ==
    ASSUME TypeOK, AttemptInv, rec' \in {rec, NoRecovery},
           UNCHANGED <<exStatus, exTx, wPc, wExec, wTx, wRetried, chain, overlooked>>
    PROVE  AttemptInv'
BY DEF AttemptInv, OneWorkerPerAttempt, WorkerMatchesRow, SignedIsStored, TxIsRecorded,
   OneRetry, RecoveryKnowsFate, NoRecovery

\* A thread lets go of its attempt: nothing is claimed of it any more.
LEMMA AttemptInvReleased ==
    ASSUME TypeOK, AttemptInv, NEW w \in Worker, wPc[w] # "idle", Release(w),
           KeepsHash, UNCHANGED <<chain, overlooked, rec>>,
           NEW to \in ExecutionStatus \ {"CREATED", "CLAIMED"},
           exStatus' \in {exStatus, [exStatus EXCEPT ![wExec[w]] = to]}
    PROVE  AttemptInv'
<1> DEFINE e == wExec[w]
<1>1. e \in Exec
  BY BusyWorker
<1>2. \A f \in Exec : exStatus'[f] = exStatus[f] \/ (f = e /\ exStatus'[f] = to)
  BY <1>1 DEF TypeOK, ExTypeOK
<1>3. \A v \in Worker : v # w => /\ wPc'[v] = wPc[v] /\ wExec'[v] = wExec[v]
                                 /\ wTx'[v] = wTx[v] /\ wRetried'[v] = wRetried[v]
  BY DEF Release, TypeOK, WorkerTypeOK
<1>4. wPc'[w] = "idle" /\ wExec'[w] = NULL
  BY DEF Release, TypeOK, WorkerTypeOK
<1>5. OneWorkerPerAttempt'
  BY <1>3, <1>4 DEF AttemptInv, OneWorkerPerAttempt
<1>6. WorkerMatchesRow'
  <2> SUFFICES ASSUME NEW v \in Worker, wPc'[v] # "idle"
               PROVE  /\ exStatus'[wExec'[v]] \notin {"NONE", "CREATED"}
                      /\ wPc'[v] = "claimed" <=> exStatus'[wExec'[v]] = "CLAIMED"
                      /\ wPc'[v] \in {"signed", "sent"} =>
                            wTx'[v] # 0 /\ (exTx'[wExec'[v]] = wTx'[v] \/ wExec'[v] \in overlooked)
    BY DEF WorkerMatchesRow
  <2>1. v # w /\ wPc[v] # "idle" /\ wExec'[v] = wExec[v] /\ wPc'[v] = wPc[v] /\ wTx'[v] = wTx[v]
    BY <1>3, <1>4
  <2>2. wExec[v] \in Exec /\ wExec[v] # e
    BY <1>1, <2>1, BusyWorker, NullAssumption DEF AttemptInv, OneWorkerPerAttempt
  <2> QED
    BY <1>2, <2>1, <2>2 DEF AttemptInv, WorkerMatchesRow, KeepsHash
<1>7. SignedIsStored' /\ TxIsRecorded' /\ OneRetry'
  <2>1. \A f \in Exec : exStatus'[f] \in {"NONE", "CREATED", "CLAIMED"} => exTx[f] = 0
    BY <1>2 DEF AttemptInv, SignedIsStored, ExecutionStatus
  <2> QED
    BY <1>3, <1>4, <2>1, HashesStay
<1>8. RecoveryKnowsFate'
  BY DEF AttemptInv, RecoveryKnowsFate
<1> QED
  BY <1>5, <1>6, <1>7, <1>8 DEF AttemptInv

\* A new transaction is stored before it is sent, as the first of its attempt or
\* beside one that is dead, or mined and overlooked.
LEMMA AttemptInvSigned ==
    ASSUME TypeOK, AttemptInv, NEW w \in Worker, NEW k \in 1 .. MaxTx, Persist(w, k),
           \/ /\ wPc[w] = "claimed" /\ overlooked' = overlooked
           \/ /\ wPc[w] = "signed" /\ ~wRetried[w] /\ wRetried' = [wRetried EXCEPT ![w] = TRUE]
              /\ \/ chain[<<wExec[w], wTx[w]>>] = "dead" /\ overlooked' = overlooked
                 \/ /\ chain[<<wExec[w], wTx[w]>>] \in Mined
                    /\ overlooked' = overlooked \union {wExec[w]},
           \A v \in Worker : v # w => wRetried'[v] = wRetried[v],
           wExec' = wExec, rec' = rec
    PROVE  AttemptInv'
<1> DEFINE e == wExec[w]
<1>1. e \in Exec /\ e # NULL
  BY BusyWorker, NullAssumption
<1>2. chain[<<e, k>>] = "none" /\ \A i \in 1 .. (k - 1) : chain[<<e, i>>] # "none"
  BY DEF Persist, FreshTx
<1>3. \A f \in Exec : /\ exStatus'[f] = IF f = e THEN "BROADCAST_PENDING" ELSE exStatus[f]
                      /\ exTx'[f] = IF f = e THEN k ELSE exTx[f]
  BY <1>1 DEF Persist, MoveExecution, TypeOK, ExTypeOK
<1>4. \A f \in Exec, j \in 1 .. MaxTx :
        chain'[<<f, j>>] = IF f = e /\ j = k THEN "signed" ELSE chain[<<f, j>>]
  BY <1>1, ChainSigned
<1>5. \A v \in Worker : v # w => wPc'[v] = wPc[v] /\ wTx'[v] = wTx[v]
  BY DEF Persist, TypeOK, WorkerTypeOK
<1>6. wPc'[w] = "signed" /\ wTx'[w] = k
  BY DEF Persist, TypeOK, WorkerTypeOK
<1>7. OneWorkerPerAttempt'
  BY DEF AttemptInv, OneWorkerPerAttempt
<1>a. wTx[w] = 1 \/ wPc[w] = "claimed"
  <2>1. CASE wPc[w] = "signed" /\ ~wRetried[w] /\ chain[<<e, wTx[w]>>] # "none"
    <3>1. wTx[w] \in 1 .. MaxTx
      BY <2>1, BusyWorker DEF AttemptInv, WorkerMatchesRow
    <3> QED
      BY <2>1, <3>1 DEF AttemptInv, OneRetry
  <2> QED
    BY <2>1 DEF Mined
<1>b. \A j \in 1 .. MaxTx : chain[<<e, j>>] # "none" => j = 1 /\ wPc[w] = "signed"
  <2>1. CASE wPc[w] = "claimed"
    BY <1>1, <2>1 DEF AttemptInv, WorkerMatchesRow, SignedIsStored
  <2>2. CASE wPc[w] = "signed" /\ ~wRetried[w]
    BY <2>2 DEF AttemptInv, OneRetry
  <2> QED
    BY <2>1, <2>2
<1>c. k <= 2
  <2>1. ASSUME k > 2 PROVE FALSE
    <3>1. 2 \in 1 .. MaxTx /\ 2 \in 1 .. (k - 1)
      BY <2>1, LiveAssumption
    <3>2. chain[<<e, 2>>] # "none"
      BY <1>2, <3>1
    <3> QED
      BY <1>b, <3>1, <3>2
  <2> QED
    BY <2>1
<1>d. /\ overlooked' \subseteq overlooked \union {e}
      /\ \A f \in overlooked' : chain[<<f, 1>>] \in Mined
      /\ overlooked \subseteq overlooked'
  BY <1>a DEF AttemptInv, OneRetry
<1>e. \A j \in 1 .. MaxTx : chain[<<e, j>>] \in {"none", "dead"} \/ e \in overlooked'
  BY <1>a, <1>b
<1>f. 1 \in 1 .. MaxTx
  BY LiveAssumption
<1>8. WorkerMatchesRow'
  <2> SUFFICES ASSUME NEW v \in Worker, wPc'[v] # "idle"
               PROVE  /\ exStatus'[wExec[v]] \notin {"NONE", "CREATED"}
                      /\ wPc'[v] = "claimed" <=> exStatus'[wExec[v]] = "CLAIMED"
                      /\ wPc'[v] \in {"signed", "sent"} =>
                            wTx'[v] # 0 /\ (exTx'[wExec[v]] = wTx'[v] \/ wExec[v] \in overlooked')
    BY DEF WorkerMatchesRow
  <2>1. CASE v = w
    BY <1>1, <1>3, <1>6, <2>1
  <2>2. CASE v # w
    <3>1. wPc[v] # "idle" /\ wPc'[v] = wPc[v] /\ wTx'[v] = wTx[v]
      BY <1>5, <2>2
    <3>2. wExec[v] \in Exec /\ wExec[v] # e
      BY <1>1, <2>2, <3>1, BusyWorker, NullAssumption DEF AttemptInv, OneWorkerPerAttempt
    <3> QED
      BY <1>3, <1>d, <3>1, <3>2 DEF AttemptInv, WorkerMatchesRow
  <2> QED
    BY <2>1, <2>2
<1>9. SignedIsStored'
  <2>1. \A f \in Exec : exStatus'[f] \in {"NONE", "CREATED", "CLAIMED"} => exTx'[f] = 0
    BY <1>3 DEF AttemptInv, SignedIsStored
  <2>2. \A f \in Exec, j \in 1 .. MaxTx : chain'[<<f, j>>] # "none" => exTx'[f] # 0
    BY <1>3, <1>4 DEF AttemptInv, SignedIsStored
  <2> QED
    BY <2>1, <2>2 DEF SignedIsStored
<1>10. OneRetry'
  <2>1. \A f \in Exec, j \in 1 .. MaxTx : chain'[<<f, j>>] # "none" => j <= 2
    BY <1>4, <1>c DEF AttemptInv, OneRetry
  <2>2. \A f \in overlooked' : f \in Exec /\ chain'[<<f, 1>>] \in Mined
    <3>1. \A f \in overlooked' : f \in Exec
      BY <1>1, <1>d DEF TypeOK, VenueTypeOK
    <3>2. \A f \in overlooked' : chain[<<f, 1>>] # "none"
      BY <1>d DEF Mined
    <3> QED
      BY <1>2, <1>4, <1>d, <1>f, <3>1, <3>2
  <2>3. ASSUME NEW v \in Worker, wPc'[v] = "signed", ~wRetried'[v]
        PROVE  /\ \A j \in 1 .. MaxTx : chain'[<<wExec[v], j>>] # "none" => j = 1
               /\ wExec[v] \notin overlooked'
    <3>1. CASE v = w
      <4>1. wPc[w] = "claimed" /\ overlooked' = overlooked
        BY <2>3, <3>1 DEF TypeOK, WorkerTypeOK
      <4>2. \A j \in 1 .. MaxTx : chain[<<e, j>>] = "none"
        BY <1>b, <4>1
      <4>3. k = 1
        <5>1. k # 1 => 1 \in 1 .. (k - 1)
          OBVIOUS
        <5> QED
          BY <1>2, <1>f, <4>2, <5>1
      <4>4. e \notin overlooked
        BY <1>f, <4>2 DEF AttemptInv, OneRetry, Mined
      <4> QED
        BY <1>1, <1>4, <3>1, <4>1, <4>2, <4>3, <4>4
    <3>2. CASE v # w
      <4>1. wPc[v] = "signed" /\ ~wRetried[v]
        BY <1>5, <2>3, <3>2
      <4>2. wExec[v] \in Exec /\ wExec[v] # e
        BY <1>1, <3>2, <4>1, BusyWorker, NullAssumption DEF AttemptInv, OneWorkerPerAttempt
      <4> QED
        BY <1>4, <1>d, <4>1, <4>2 DEF AttemptInv, OneRetry
    <3> QED
      BY <3>1, <3>2
  <2> QED
    BY <2>1, <2>2, <2>3 DEF OneRetry
<1>11. TxIsRecorded'
  <2>1. ASSUME NEW f \in Exec, NEW j \in 1 .. MaxTx, chain'[<<f, j>>] \notin {"none", "dead"}
        PROVE  exTx'[f] = j \/ f \in overlooked'
    <3>1. CASE f = e
      BY <1>3, <1>4, <1>e, <2>1, <3>1
    <3>2. CASE f # e
      BY <1>3, <1>4, <1>d, <2>1, <3>2 DEF AttemptInv, TxIsRecorded
    <3> QED
      BY <3>1, <3>2
  <2>2. \A f \in Exec, j \in 1 .. MaxTx : chain'[<<f, j>>] # "none" => j \in 1 .. 2
    BY <1>10 DEF OneRetry
  <2>3. \A f \in overlooked' : chain'[<<f, 1>>] \in Mined
    BY <1>10 DEF OneRetry
  <2> QED
    BY <2>1, <2>2, <2>3 DEF TxIsRecorded
<1>12. RecoveryKnowsFate'
  <2> SUFFICES ASSUME rec.exec # NULL
               PROVE  /\ rec.tx # 0
                      /\ chain'[<<rec.exec, rec.tx>>] = chain[<<rec.exec, rec.tx>>]
    BY DEF AttemptInv, RecoveryKnowsFate
  <2>1. rec.exec \in Exec /\ rec.tx \in 1 .. MaxTx
    BY DEF TypeOK, RecTypeOK, AttemptInv, RecoveryKnowsFate
  <2>2. chain[<<rec.exec, rec.tx>>] # "none"
    BY DEF AttemptInv, RecoveryKnowsFate, Mined
  <2> QED
    BY <1>2, <1>4, <2>1, <2>2
<1> QED
  BY <1>7, <1>8, <1>9, <1>10, <1>11, <1>12 DEF AttemptInv

\* The chain decides: signed bytes are sent or lose their nonce, sent ones are
\* mined.  The fate of a stored hash moves on, nothing else comes to life.
LEMMA AttemptInvFate ==
    ASSUME TypeOK, AttemptInv, NEW e \in Exec, NEW k \in 1 .. MaxTx, NEW c \in ChainState,
           chain' = [chain EXCEPT ![<<e, k>>] = c],
           \/ c = chain[<<e, k>>]
           \/ chain[<<e, k>>] = "signed" /\ c \in {"pending", "dead"}
           \/ chain[<<e, k>>] = "pending" /\ c \in Mined,
           UNCHANGED <<exStatus, exTx, wExec, wTx, wRetried, overlooked, rec>>,
           \A v \in Worker : wPc'[v] = wPc[v] \/ (wPc[v] = "signed" /\ wPc'[v] = "sent")
    PROVE  AttemptInv'
<1>1. \A f \in Exec, j \in 1 .. MaxTx :
        chain'[<<f, j>>] = IF f = e /\ j = k THEN c ELSE chain[<<f, j>>]
  BY ChainUpdate
<1>2. OneWorkerPerAttempt'
  BY DEF AttemptInv, OneWorkerPerAttempt
<1>5. WorkerMatchesRow'
  <2> SUFFICES ASSUME NEW v \in Worker, wPc'[v] # "idle"
               PROVE  /\ exStatus[wExec[v]] \notin {"NONE", "CREATED"}
                      /\ wPc'[v] = "claimed" <=> exStatus[wExec[v]] = "CLAIMED"
                      /\ wPc'[v] \in {"signed", "sent"} =>
                            wTx[v] # 0 /\ (exTx[wExec[v]] = wTx[v] \/ wExec[v] \in overlooked)
    BY DEF WorkerMatchesRow
  <2>1. CASE wPc'[v] = wPc[v]
    BY <2>1 DEF AttemptInv, WorkerMatchesRow
  <2>2. CASE wPc[v] = "signed" /\ wPc'[v] = "sent"
    BY <2>2 DEF AttemptInv, WorkerMatchesRow
  <2> QED
    BY <2>1, <2>2
<1>3. SignedIsStored' /\ TxIsRecorded' /\ OneRetry'
  <2>1. 1 \in 1 .. MaxTx /\ overlooked \subseteq Exec
    BY LiveAssumption DEF TypeOK, VenueTypeOK
  <2>2. \A f \in Exec, j \in 1 .. MaxTx :
          /\ chain'[<<f, j>>] = "none" <=> chain[<<f, j>>] = "none"
          /\ chain'[<<f, j>>] \notin {"none", "dead"} => chain[<<f, j>>] \notin {"none", "dead"}
          /\ chain[<<f, j>>] \in Mined => chain'[<<f, j>>] \in Mined
    <3>1. /\ c = "none" <=> chain[<<e, k>>] = "none"
          /\ c \notin {"none", "dead"} => chain[<<e, k>>] \notin {"none", "dead"}
          /\ chain[<<e, k>>] \in Mined => c \in Mined
      BY DEF Mined
    <3>2. TAKE f \in Exec, j \in 1 .. MaxTx
    <3>3. CASE f = e /\ j = k
      BY <1>1, <3>1, <3>3
    <3>4. CASE ~(f = e /\ j = k)
      BY <1>1, <3>4
    <3> QED
      BY <3>3, <3>4
  <2>3. SignedIsStored'
    BY <2>2 DEF AttemptInv, SignedIsStored
  <2>4. TxIsRecorded'
    BY <2>1, <2>2 DEF AttemptInv, TxIsRecorded
  <2>5. OneRetry'
    <3>1. \A v \in Worker : wPc'[v] = "signed" => wPc[v] = "signed" /\ wExec[v] \in Exec
      BY BusyWorker
    <3> QED
      BY <2>1, <2>2, <3>1 DEF AttemptInv, OneRetry
  <2> QED
    BY <2>3, <2>4, <2>5
<1>4. RecoveryKnowsFate'
  <2> SUFFICES ASSUME rec.exec # NULL
               PROVE  /\ rec.tx # 0
                      /\ chain'[<<rec.exec, rec.tx>>] \in Mined \union {"pending"}
                      /\ rec.status \in Mined => chain'[<<rec.exec, rec.tx>>] = rec.status
    BY DEF RecoveryKnowsFate
  <2>1. rec.exec \in Exec /\ rec.tx \in 1 .. MaxTx
    BY DEF TypeOK, RecTypeOK, AttemptInv, RecoveryKnowsFate
  <2> QED
    BY <1>1, <2>1 DEF AttemptInv, RecoveryKnowsFate, Mined
<1> QED
  BY <1>2, <1>3, <1>4, <1>5 DEF AttemptInv

\* A row changes its status beside the threads: either no thread holds it and
\* nothing is stored for it, or it stays among the statuses of a signed attempt.
LEMMA AttemptInvStatus ==
    ASSUME TypeOK, AttemptInv, NEW e \in Exec, NEW to \in ExecutionStatus,
           exStatus' = [exStatus EXCEPT ![e] = to],
           \/ exTx[e] = 0 /\ \A v \in Worker : wExec[v] # e
           \/ exTx[e] # 0 /\ to \notin {"CREATED", "CLAIMED"},
           KeepsHash, UNCHANGED <<wPc, wExec, wTx, wRetried, chain, overlooked>>,
           rec' \in {rec, NoRecovery}
    PROVE  AttemptInv'
<1>1. \A f \in Exec : exStatus'[f] = IF f = e THEN to ELSE exStatus[f]
  BY DEF TypeOK, ExTypeOK
<1>2. OneWorkerPerAttempt'
  BY DEF AttemptInv, OneWorkerPerAttempt
<1>3. WorkerMatchesRow'
  <2> SUFFICES ASSUME NEW v \in Worker, wPc[v] # "idle"
               PROVE  /\ exStatus'[wExec[v]] \notin {"NONE", "CREATED"}
                      /\ wPc[v] = "claimed" <=> exStatus'[wExec[v]] = "CLAIMED"
                      /\ wPc[v] \in {"signed", "sent"} =>
                            wTx[v] # 0 /\ (exTx'[wExec[v]] = wTx[v] \/ wExec[v] \in overlooked)
    BY DEF WorkerMatchesRow
  <2>1. wExec[v] \in Exec
    BY BusyWorker
  <2>2. CASE wExec[v] # e
    BY <1>1, <2>1, <2>2 DEF AttemptInv, WorkerMatchesRow, KeepsHash
  <2>3. CASE wExec[v] = e
    <3>1. exTx[e] # 0 /\ to \notin {"NONE", "CREATED", "CLAIMED"}
      BY <2>3 DEF ExecutionStatus
    <3>2. exStatus[e] # "CLAIMED"
      BY <3>1 DEF AttemptInv, SignedIsStored
    <3> QED
      BY <1>1, <2>3, <3>1, <3>2 DEF AttemptInv, WorkerMatchesRow, KeepsHash
  <2> QED
    BY <2>2, <2>3
<1>4. SignedIsStored' /\ TxIsRecorded' /\ OneRetry'
  <2>1. \A f \in Exec : exStatus'[f] \in {"NONE", "CREATED", "CLAIMED"} => exTx[f] = 0
    BY <1>1 DEF AttemptInv, SignedIsStored, ExecutionStatus
  <2> QED
    BY <2>1, HashesStay
<1>5. RecoveryKnowsFate'
  BY DEF AttemptInv, RecoveryKnowsFate, NoRecovery
<1> QED
  BY <1>2, <1>3, <1>4, <1>5 DEF AttemptInv

\* A claim takes a row no thread holds.
LEMMA AttemptInvClaimed ==
    ASSUME TypeOK, AttemptInv, NEW w \in Worker, NEW e \in Exec, Claim(w, e)
    PROVE  AttemptInv'
<1>1. /\ wPc[w] = "idle" /\ wExec[w] = NULL /\ exStatus[e] = "CREATED" /\ e # NULL
      /\ UNCHANGED <<exTx, wTx, wRetried, chain, overlooked, rec>>
  BY NullAssumption DEF Claim, TypeOK, WorkerTypeOK, venueVars
<1>2. \A f \in Exec : exStatus'[f] = IF f = e THEN "CLAIMED" ELSE exStatus[f]
  BY DEF Claim, MoveExecution, TypeOK, ExTypeOK
<1>3. \A v \in Worker : /\ wPc'[v] = IF v = w THEN "claimed" ELSE wPc[v]
                        /\ wExec'[v] = IF v = w THEN e ELSE wExec[v]
  BY DEF Claim, TypeOK, WorkerTypeOK
<1>4. \A v \in Worker : wExec[v] # e
  BY <1>1 DEF AttemptInv, WorkerMatchesRow, TypeOK, WorkerTypeOK
<1>5. OneWorkerPerAttempt'
  BY <1>3, <1>4 DEF AttemptInv, OneWorkerPerAttempt
<1>6. WorkerMatchesRow'
  <2> SUFFICES ASSUME NEW v \in Worker, wPc'[v] # "idle"
               PROVE  /\ exStatus'[wExec'[v]] \notin {"NONE", "CREATED"}
                      /\ wPc'[v] = "claimed" <=> exStatus'[wExec'[v]] = "CLAIMED"
                      /\ wPc'[v] \in {"signed", "sent"} =>
                            wTx[v] # 0 /\ (exTx[wExec'[v]] = wTx[v] \/ wExec'[v] \in overlooked)
    BY <1>1 DEF WorkerMatchesRow
  <2>1. CASE v = w
    BY <1>2, <1>3, <2>1
  <2>2. CASE v # w
    <3>1. wPc[v] # "idle" /\ wExec[v] \in Exec
      BY <1>3, <2>2, BusyWorker
    <3> QED
      BY <1>2, <1>3, <1>4, <2>2, <3>1 DEF AttemptInv, WorkerMatchesRow
  <2> QED
    BY <2>1, <2>2
<1>7. SignedIsStored' /\ TxIsRecorded' /\ OneRetry'
  <2>1. \A f \in Exec : exStatus'[f] \in {"NONE", "CREATED", "CLAIMED"} => exTx[f] = 0
    BY <1>1, <1>2 DEF AttemptInv, SignedIsStored
  <2>2. \A v \in Worker : wPc'[v] = "signed" => wPc[v] = "signed" /\ wExec'[v] = wExec[v]
    BY <1>3
  <2>3. KeepsHash
    BY <1>1 DEF KeepsHash
  <2> QED
    BY <1>1, <2>1, <2>2, <2>3, HashesStay
<1>8. RecoveryKnowsFate'
  BY <1>1 DEF AttemptInv, RecoveryKnowsFate
<1> QED
  BY <1>5, <1>6, <1>7, <1>8 DEF AttemptInv

\* The result of an open is written; the thread still has its accounting to do.
LEMMA AttemptInvOpenResult ==
    ASSUME TypeOK, AttemptInv, NEW w \in Worker, NEW seen \in Tx \union {NULL},
           MarkOpenResult(w, seen)
    PROVE  AttemptInv'
<1> DEFINE e == wExec[w]
<1>1. wPc[w] = "sent" /\ e \in Exec /\ e # NULL
  BY BusyWorker, NullAssumption DEF MarkOpenResult
<1>2. KeepsHash /\ exTx[e] # 0
  <2>1. exTx' = [exTx EXCEPT ![e] = wTx[w]]
    BY DEF MarkOpenResult
  <2>2. wTx[w] \in 1 .. MaxTx /\ (exTx[e] = wTx[w] \/ e \in overlooked)
    BY <1>1, BusyWorker DEF AttemptInv, WorkerMatchesRow
  <2> QED
    <3>1. KeepsHash
      BY <1>1, <2>1, <2>2, HashKept
    <3>2. e \in overlooked => exTx[e] # 0
      BY DoubtIsStored
    <3> QED
      BY <2>2, <3>1, <3>2
<1>3. PICK to \in {"VENUE_EXECUTED", "AWAITING", "FAILED"} : exStatus' = [exStatus EXCEPT ![e] = to]
  BY DEF MarkOpenResult, MoveExecution
<1>4. \A f \in Exec : exStatus'[f] = IF f = e THEN to ELSE exStatus[f]
  BY <1>3 DEF TypeOK, ExTypeOK
<1>5. /\ \A v \in Worker : wPc'[v] = IF v = w THEN "marked" ELSE wPc[v]
      /\ \A v \in Worker : v # w => wTx'[v] = wTx[v] /\ wRetried'[v] = wRetried[v]
      /\ UNCHANGED <<wExec, chain, overlooked, rec>>
  BY DEF MarkOpenResult, TypeOK, WorkerTypeOK, venueVars
<1>6. OneWorkerPerAttempt'
  BY <1>5 DEF AttemptInv, OneWorkerPerAttempt
<1>7. WorkerMatchesRow'
  <2> SUFFICES ASSUME NEW v \in Worker, wPc'[v] # "idle"
               PROVE  /\ exStatus'[wExec[v]] \notin {"NONE", "CREATED"}
                      /\ wPc'[v] = "claimed" <=> exStatus'[wExec[v]] = "CLAIMED"
                      /\ wPc'[v] \in {"signed", "sent"} =>
                            wTx'[v] # 0 /\ (exTx'[wExec[v]] = wTx'[v] \/ wExec[v] \in overlooked)
    BY <1>5 DEF WorkerMatchesRow
  <2>1. CASE v = w
    BY <1>1, <1>4, <1>5, <2>1
  <2>2. CASE v # w
    <3>1. wPc[v] # "idle" /\ wPc'[v] = wPc[v] /\ wTx'[v] = wTx[v]
      BY <1>5, <2>2
    <3>2. wExec[v] \in Exec /\ wExec[v] # e
      BY <1>1, <2>2, <3>1, BusyWorker, NullAssumption DEF AttemptInv, OneWorkerPerAttempt
    <3> QED
      BY <1>2, <1>4, <3>1, <3>2 DEF AttemptInv, WorkerMatchesRow, KeepsHash
  <2> QED
    BY <2>1, <2>2
<1>8. SignedIsStored' /\ TxIsRecorded' /\ OneRetry'
  <2>1. \A f \in Exec : exStatus'[f] \in {"NONE", "CREATED", "CLAIMED"} => exTx[f] = 0
    BY <1>4 DEF AttemptInv, SignedIsStored
  <2>2. \A v \in Worker : wPc'[v] = "signed" => v # w /\ wPc[v] = "signed"
    BY <1>5
  <2> QED
    BY <1>2, <1>5, <2>1, <2>2, HashesStay
<1>9. RecoveryKnowsFate'
  BY <1>5 DEF AttemptInv, RecoveryKnowsFate
<1> QED
  BY <1>6, <1>7, <1>8, <1>9 DEF AttemptInv

\* Every step of the system keeps the invariant.
LEMMA AttemptInvStep ==
    ASSUME ~SlowPreparation
    PROVE  TypeOK /\ AttemptInv /\ [Next]_vars => AttemptInv'
<1> SUFFICES ASSUME TypeOK, AttemptInv, [Next]_vars PROVE AttemptInv'
  OBVIOUS
<1>1. ASSUME NEW p \in Pos, NEW e \in Exec, AcceptOpen(p, e) \/ AcceptClose(p, e)
      PROVE AttemptInv'
  <2>1. /\ exStatus[e] = "NONE" /\ exStatus' = [exStatus EXCEPT ![e] = "CREATED"]
        /\ UNCHANGED <<exTx, wPc, wExec, wTx, wRetried, chain, overlooked, rec>>
    BY <1>1 DEF AcceptOpen, AcceptClose, NewExecution, wVars, venueVars
  <2>2. exTx[e] = 0 /\ \A v \in Worker : wExec[v] # e
    BY <2>1, NullAssumption
       DEF AttemptInv, SignedIsStored, WorkerMatchesRow, TypeOK, WorkerTypeOK
  <2> QED
    BY <2>1, <2>2, AttemptInvStatus DEF ExecutionStatus, KeepsHash
<1>2. ASSUME NEW e \in Exec, ReleaseStaleClaim(e)
      PROVE AttemptInv'
  BY <1>2, AttemptInvStatus DEF ReleaseStaleClaim, wVars, venueVars, ExecutionStatus, KeepsHash
<1>3. ASSUME NEW e \in Exec, Rebroadcast(e)
      PROVE AttemptInv'
  <2>1. exTx[e] \in 1 .. MaxTx
    BY <1>3 DEF Rebroadcast, Recoverable, TypeOK, ExTypeOK
  <2> QED
    BY <1>3, <2>1, AttemptInvFate DEF Rebroadcast, exVars, wVars, ChainState
<1>4. ASSUME NEW w \in Worker, NEW k \in 1 .. MaxTx,
             \/ SignOpen(w, k) \/ \E t \in Tx : SignClose(w, k, t)
             \/ SignAgain(w, k) \/ SignOverMined(w, k)
      PROVE AttemptInv'
  <2>1. CASE SignOpen(w, k) \/ \E t \in Tx : SignClose(w, k, t)
    BY <2>1, AttemptInvSigned DEF SignOpen, SignClose
  <2>2. CASE SignAgain(w, k) \/ SignOverMined(w, k)
    <3>1. /\ wPc[w] = "signed" /\ ~wRetried[w] /\ wRetried' = [wRetried EXCEPT ![w] = TRUE]
          /\ Persist(w, k) /\ wExec' = wExec /\ rec' = rec
      BY <2>2 DEF SignAgain, SignOverMined, Resign
    <3>2. \A v \in Worker : v # w => wRetried'[v] = wRetried[v]
      BY <3>1 DEF TypeOK, WorkerTypeOK
    <3> QED
      BY <2>2, <3>1, <3>2, AttemptInvSigned DEF SignAgain, SignOverMined
  <2> QED
    BY <1>4, <2>1, <2>2
<1>5. ASSUME NEW w \in Worker, Broadcast(w)
      PROVE AttemptInv'
  <2>1. wPc[w] = "signed" /\ wExec[w] \in Exec /\ wTx[w] \in 1 .. MaxTx
    BY <1>5, BusyWorker DEF Broadcast, AttemptInv, WorkerMatchesRow
  <2> DEFINE c == IF chain[<<wExec[w], wTx[w]>>] = "signed" THEN "pending"
                  ELSE chain[<<wExec[w], wTx[w]>>]
  <2>2. chain' = [chain EXCEPT ![<<wExec[w], wTx[w]>>] = c] /\ c \in ChainState
    BY <1>5, <2>1 DEF Broadcast, TypeOK, VenueTypeOK, Tx, ChainState
  <2>3. \A v \in Worker : wPc'[v] = wPc[v] \/ (wPc[v] = "signed" /\ wPc'[v] = "sent")
    BY <1>5 DEF Broadcast, TypeOK, WorkerTypeOK
  <2>4. UNCHANGED <<exStatus, exTx, wExec, wTx, wRetried, overlooked, rec>>
    BY <1>5 DEF Broadcast, exVars
  <2> QED
    BY <2>1, <2>2, <2>3, <2>4, AttemptInvFate
<1>6. ASSUME NEW w \in Worker, NEW closed \in BOOLEAN, MarkCloseResult(w, closed)
      PROVE AttemptInv'
  <2> DEFINE e == wExec[w]
  <2>1. wPc[w] = "sent" /\ e \in Exec
    BY <1>6, BusyWorker DEF MarkCloseResult
  <2>2. KeepsHash
    <3>1. exTx' = [exTx EXCEPT ![e] = wTx[w]]
      BY <1>6 DEF MarkCloseResult
    <3>2. wTx[w] \in 1 .. MaxTx /\ (exTx[e] = wTx[w] \/ e \in overlooked)
      BY <2>1, BusyWorker DEF AttemptInv, WorkerMatchesRow
    <3> QED
      BY <2>1, <3>1, <3>2, HashKept
  <2>3. PICK to \in {"VENUE_EXECUTED", "AWAITING", "FAILED"} :
          exStatus' = [exStatus EXCEPT ![e] = to]
    BY <1>6 DEF MarkCloseResult, MoveExecution
  <2>4. Release(w) /\ UNCHANGED <<chain, overlooked, rec>>
    BY <1>6 DEF MarkCloseResult, venueVars
  <2>5. to \in ExecutionStatus \ {"CREATED", "CLAIMED"}
    BY DEF ExecutionStatus
  <2> QED
    BY <2>1, <2>2, <2>3, <2>4, <2>5, AttemptInvReleased
<1>7. ASSUME NEW w \in Worker, Finish(w) \/ Crash(w)
      PROVE AttemptInv'
  <2>1. wPc[w] # "idle" /\ Release(w) /\ UNCHANGED <<exStatus, exTx, chain, overlooked, rec>>
    BY <1>7 DEF Finish, Crash, exVars, venueVars
  <2>2. "FAILED" \in ExecutionStatus \ {"CREATED", "CLAIMED"}
    BY DEF ExecutionStatus
  <2> QED
    BY <2>1, <2>2, AttemptInvReleased DEF KeepsHash
<1>8. ASSUME NEW w \in Worker, MarkFailed(w)
      PROVE AttemptInv'
  <2>1. wPc[w] # "idle" /\ Release(w) /\ UNCHANGED <<exTx, chain, overlooked, rec>>
    BY <1>8 DEF MarkFailed, venueVars
  <2>2. \E to \in {"UNKNOWN", "FAILED"} :
          exStatus' \in {exStatus, [exStatus EXCEPT ![wExec[w]] = to]}
    BY <1>8 DEF MarkFailed, MoveExecution
  <2>3. {"UNKNOWN", "FAILED"} \subseteq ExecutionStatus \ {"CREATED", "CLAIMED"}
    BY DEF ExecutionStatus
  <2> QED
    BY <2>1, <2>2, <2>3, AttemptInvReleased DEF KeepsHash
<1>9. ASSUME NEW t \in Tx, NonceTaken(t) \/ \E outcome \in Mined : Mine(t, outcome)
      PROVE AttemptInv'
  <2>1. PICK e \in Exec, k \in 1 .. MaxTx : t = <<e, k>>
    BY DEF Tx
  <2>2. UNCHANGED <<exStatus, exTx, wPc, wExec, wTx, wRetried, overlooked, rec>>
    BY <1>9 DEF NonceTaken, Mine, exVars, wVars
  <2>3. CASE NonceTaken(t)
    BY <2>1, <2>2, <2>3, AttemptInvFate DEF NonceTaken, ChainState
  <2>4. CASE \E outcome \in Mined : Mine(t, outcome)
    <3>1. PICK outcome \in Mined : chain' = [chain EXCEPT ![<<e, k>>] = outcome]
      BY <2>1, <2>4 DEF Mine
    <3>2. chain[<<e, k>>] = "pending" /\ outcome \in ChainState
      BY <2>1, <2>4 DEF Mine, ChainState, Mined
    <3> QED
      BY <2>2, <3>1, <3>2, AttemptInvFate
  <2> QED
    BY <1>9, <2>3, <2>4
<1>10. ASSUME NEW e \in Exec, NEW seen \in Tx \union {NULL}, RecoverRead(e, seen)
       PROVE AttemptInv'
  <2>1. /\ rec'.exec = e /\ rec'.tx = exTx[e] /\ exTx[e] # 0
        /\ chain[<<e, exTx[e]>>] \in Mined \union {"pending"}
        /\ rec'.status \in Mined => chain[<<e, exTx[e]>>] = rec'.status
    BY <1>10 DEF RecoverRead, Recoverable, Mined
  <2>2. UNCHANGED <<exStatus, exTx, wPc, wExec, wTx, wRetried, chain, overlooked>>
    BY <1>10 DEF RecoverRead, exVars, wVars, venueVars
  <2>3. RecoveryKnowsFate'
    BY <2>1, <2>2 DEF RecoveryKnowsFate
  <2> QED
    BY <2>2, <2>3 DEF AttemptInv, OneWorkerPerAttempt, WorkerMatchesRow, SignedIsStored,
       TxIsRecorded, OneRetry
<1>11. ASSUME RecoverApply
       PROVE AttemptInv'
  <2> DEFINE e == rec.exec
  <2>1. e \in Exec /\ rec.tx \in 1 .. MaxTx
    BY <1>11 DEF RecoverApply, TypeOK, RecTypeOK, AttemptInv, RecoveryKnowsFate
  <2>2. chain[<<e, rec.tx>>] \notin {"none", "dead"}
    BY <2>1, NullAssumption DEF AttemptInv, RecoveryKnowsFate, Mined
  <2>3. exTx[e] # 0 /\ (exTx[e] = rec.tx \/ e \in overlooked)
    BY <2>1, <2>2 DEF AttemptInv, TxIsRecorded, SignedIsStored
  <2>4. KeepsHash
    <3>1. exTx' = exTx \/ exTx' = [exTx EXCEPT ![e] = rec.tx]
      BY <1>11 DEF RecoverApply, RecoveredUnknown, RecoveredReverted, RecoveredOpen,
         RecoveredClose, RecoveredAwaiting
    <3>2. CASE exTx' = exTx
      BY <3>2 DEF KeepsHash
    <3>3. CASE exTx' = [exTx EXCEPT ![e] = rec.tx]
      BY <2>1, <2>3, <3>3, HashKept
    <3> QED
      BY <3>1, <3>2, <3>3
  <2>5. PICK to \in {"UNKNOWN", "VENUE_EXECUTED", "AWAITING", "FAILED"} :
          exStatus' = [exStatus EXCEPT ![e] = to]
    BY <1>11 DEF RecoverApply, RecoveredUnknown, RecoveredReverted, RecoveredOpen,
       RecoveredClose, RecoveredAwaiting, MoveExecution
  <2>6. rec' = NoRecovery /\ UNCHANGED <<wPc, wExec, wTx, wRetried, chain, overlooked>>
    BY <1>11 DEF RecoverApply, wVars, venueVars
  <2>7. to \in ExecutionStatus /\ to \notin {"CREATED", "CLAIMED"} /\ exTx[e] # 0
    BY <2>3 DEF ExecutionStatus
  <2> QED
    BY <2>1, <2>4, <2>5, <2>6, <2>7, AttemptInvStatus
<1>12. ASSUME NEW e \in Exec, Redispatch(e)
       PROVE AttemptInv'
  BY <1>12, AttemptInvQuiet DEF Redispatch, exVars, wVars, venueVars
<1>13. ASSUME NEW t \in Tx, KeeperOpens(t) \/ KeeperCloses(t) \/ VenueEnds(t)
       PROVE AttemptInv'
  BY <1>13, AttemptInvQuiet DEF KeeperOpens, KeeperCloses, VenueEnds, exVars, wVars
<1>14. ASSUME NEW t \in Tx, NEW reason \in TerminalReason, NEW p \in Pos,
              ApplyEvent(t, reason, p)
       PROVE AttemptInv'
  BY <1>14, AttemptInvQuiet DEF ApplyEvent, exVars, wVars, venueVars
<1>15. CASE RecoverAbandon \/ UNCHANGED vars
  BY <1>15, AttemptInvQuiet DEF RecoverAbandon, vars, exVars, wVars, venueVars
<1> QED
  BY <1>1, <1>2, <1>3, <1>4, <1>5, <1>6, <1>7, <1>8, <1>9, <1>10, <1>11, <1>12, <1>13,
     <1>14, <1>15, AttemptInvClaimed, AttemptInvOpenResult DEF Next, WorkerStep, VenueStep

\* Nothing is claimed, signed or read before the first step.
LEMMA AttemptInvInit == Init => AttemptInv
<1> SUFFICES ASSUME Init PROVE AttemptInv
  OBVIOUS
<1>1. \A e \in Exec, k \in 1 .. MaxTx : chain[<<e, k>>] = "none"
  BY DEF Init, Tx
<1>2. OneWorkerPerAttempt /\ WorkerMatchesRow
  BY DEF Init, OneWorkerPerAttempt, WorkerMatchesRow
<1>3. SignedIsStored /\ TxIsRecorded /\ OneRetry
  BY <1>1 DEF Init, SignedIsStored, TxIsRecorded, OneRetry
<1>4. RecoveryKnowsFate
  BY DEF Init, RecoveryKnowsFate, NoRecovery
<1> QED
  BY <1>2, <1>3, <1>4 DEF AttemptInv

\* A claim is never shared, what is signed is stored first, at most two transactions
\* of an attempt are ever signed, the second over a dead one or an overlooked one,
\* and the recovery loop acts on the final fate of the transaction it looked up.
THEOREM AttemptsAreExclusive == ASSUME ~SlowPreparation PROVE Spec => []AttemptInv
<1>1. TypeOK /\ AttemptInv /\ [Next]_vars => AttemptInv'
  BY AttemptInvStep
<1>2. Init => AttemptInv
  BY AttemptInvInit
<1>3. Spec => []TypeOK
  BY TypeCorrect
<1> QED
  BY <1>1, <1>2, <1>3, PTL DEF Spec

\* The hash the database stores is the only one that can act or has acted; if the
\* retry overlooked a mined transaction, that one and its successor are the only two.
THEOREM HashIsRecorded == ASSUME ~SlowPreparation PROVE Spec => []TxIsRecorded
<1>1. AttemptInv => TxIsRecorded
  BY DEF AttemptInv
<1>2. Spec => []AttemptInv
  BY AttemptsAreExclusive
<1> QED
  BY <1>1, <1>2, PTL

-----------------------------------------------------------------------------
(***************************************************************************)
(* What a command of the user may count on: an attempt reported as failed  *)
(* has no effect, and the whole system implements TradeCommand.  The two   *)
(* lemmas below say how one step may change the status of an attempt and   *)
(* the fate of a transaction; the theorems follow from them alone.         *)
(***************************************************************************)

NoEffect(e) == \A k \in 1 .. MaxTx : chain[<<e, k>>] \in {"none", "dead", "reverted"}

\* A row is created, gives a stale claim back, or follows the table.
RowMove(e) ==
    \/ exStatus[e] = "NONE" /\ exStatus' = [exStatus EXCEPT ![e] = "CREATED"] /\ chain' = chain
    \/ exStatus[e] = "CLAIMED" /\ exStatus' = [exStatus EXCEPT ![e] = "CREATED"]
    \/ \E to \in {"CLAIMED", "BROADCAST_PENDING", "VENUE_EXECUTED", "AWAITING", "UNKNOWN"} :
         MoveExecution(e, to)
    \/ MoveExecution(e, "FAILED") /\ (NoEffect(e) \/ e \in overlooked) /\ chain' = chain

\* A transaction is signed by storing it, or its fate moves on beside the rows.
FateMove(e, k) ==
    \/ /\ chain[<<e, k>>] = "none"
       /\ chain' = [chain EXCEPT ![<<e, k>>] = "signed"]
       /\ exStatus' = [exStatus EXCEPT ![e] = "BROADCAST_PENDING"]
    \/ /\ \E c \in {"pending", "dead", "confirmed", "reverted"} :
            /\ chain[<<e, k>>] = (IF c \in Mined THEN "pending" ELSE "signed")
            /\ chain' = [chain EXCEPT ![<<e, k>>] = c]
       /\ exStatus' = exStatus

\* The retry that overlooks a mined transaction marks its attempt, which has not failed.
Doubted(e) ==
    /\ exStatus[e] \notin {"NONE", "FAILED"}
    /\ \E k \in 1 .. MaxTx :
         chain[<<e, k>>] = "none" /\ chain' = [chain EXCEPT ![<<e, k>>] = "signed"]
    /\ exStatus' = [exStatus EXCEPT ![e] = "BROADCAST_PENDING"]
    /\ overlooked' = overlooked \union {e}

\* Of an attempt that is not in doubt, a transaction that was mined as reverted was
\* the only one.
LEMMA RevertedHasNoEffect ==
    ASSUME TypeOK, AttemptInv, NEW e \in Exec, NEW k \in 1 .. MaxTx,
           chain[<<e, k>>] = "reverted"
    PROVE  NoEffect(e) \/ e \in overlooked
BY DEF AttemptInv, TxIsRecorded, NoEffect

\* A signed transaction of a busy thread is the stored one, if the attempt is not in doubt.
LEMMA SentIsStored ==
    ASSUME TypeOK, AttemptInv, NEW w \in Worker, wPc[w] \in {"signed", "sent"}
    PROVE  /\ wExec[w] \in Exec /\ wTx[w] \in 1 .. MaxTx
           /\ exTx[wExec[w]] = wTx[w] \/ wExec[w] \in overlooked
BY BusyWorker DEF AttemptInv, WorkerMatchesRow

\* Only that retry puts an attempt in doubt.
LEMMA DoubtMoves ==
    ASSUME TypeOK, AttemptInv, [Next]_vars
    PROVE  overlooked' = overlooked \/ \E e \in Exec : Doubted(e)
<1>1. ASSUME NEW w \in Worker, NEW k \in 1 .. MaxTx, SignOverMined(w, k)
      PROVE \E e \in Exec : Doubted(e)
  <2>1. wPc[w] = "signed" /\ wExec[w] \in Exec
    BY <1>1, BusyWorker DEF SignOverMined, Resign
  <2>2. exStatus[wExec[w]] # "NONE"
    BY <2>1 DEF AttemptInv, WorkerMatchesRow
  <2>3. exStatus[wExec[w]] # "FAILED"
    BY <1>1 DEF SignOverMined, Resign, Persist, MoveExecution, CanExecutionTransition
  <2> QED
    BY <1>1, <2>1, <2>2, <2>3
       DEF SignOverMined, Resign, Persist, FreshTx, MoveExecution, Doubted
<1>2. overlooked' = overlooked \/ \E w \in Worker, k \in 1 .. MaxTx : SignOverMined(w, k)
  BY ZenonT(60)
  DEF Next, WorkerStep, VenueStep, AcceptOpen, AcceptClose, ReleaseStaleClaim, Redispatch,
     Rebroadcast, Claim, SignOpen, SignAgain, SignClose, Broadcast, MarkOpenResult,
     MarkCloseResult, Finish, MarkFailed, Crash, NonceTaken, Mine, KeeperOpens, KeeperCloses,
     VenueEnds, RecoverRead, RecoverApply, RecoverAbandon, ApplyEvent, venueVars, vars
<1> QED
  BY <1>1, <1>2

\* What one step may do to the status of the attempts.
LEMMA RowMoves ==
    ASSUME TypeOK, AttemptInv, [Next]_vars
    PROVE  exStatus' = exStatus \/ \E e \in Exec : RowMove(e)
<1>1. ASSUME NEW p \in Pos, NEW e \in Exec, AcceptOpen(p, e) \/ AcceptClose(p, e)
      PROVE RowMove(e)
  BY <1>1 DEF AcceptOpen, AcceptClose, NewExecution, venueVars, RowMove
<1>2. ASSUME NEW e \in Exec, ReleaseStaleClaim(e)
      PROVE RowMove(e)
  BY <1>2 DEF ReleaseStaleClaim, RowMove
<1>3. ASSUME NEW w \in Worker, NEW e \in Exec, Claim(w, e)
      PROVE RowMove(e)
  BY <1>3 DEF Claim, RowMove
<1>4. ASSUME NEW w \in Worker, NEW k \in 1 .. MaxTx,
             SignOpen(w, k) \/ Resign(w, k) \/ \E t \in Tx : SignClose(w, k, t)
      PROVE \E e \in Exec : RowMove(e)
  <2>1. wPc[w] # "idle" /\ MoveExecution(wExec[w], "BROADCAST_PENDING")
    BY <1>4 DEF SignOpen, Resign, SignClose, Persist
  <2> QED
    BY <2>1, BusyWorker DEF RowMove
<1>5. ASSUME NEW w \in Worker, NEW seen \in Tx \union {NULL}, MarkOpenResult(w, seen)
      PROVE \E e \in Exec : RowMove(e)
  <2> DEFINE e == wExec[w]
  <2>1. e \in Exec /\ wTx[w] \in 1 .. MaxTx /\ chain' = chain
    BY <1>5, SentIsStored DEF MarkOpenResult, venueVars
  <2>2. \/ \E to \in {"VENUE_EXECUTED", "AWAITING"} : MoveExecution(e, to)
        \/ MoveExecution(e, "FAILED") /\ chain[<<e, wTx[w]>>] = "reverted"
    BY <1>5 DEF MarkOpenResult
  <2> QED
    BY <2>1, <2>2, RevertedHasNoEffect DEF RowMove
<1>6. ASSUME NEW w \in Worker, NEW closed \in BOOLEAN, MarkCloseResult(w, closed)
      PROVE \E e \in Exec : RowMove(e)
  <2> DEFINE e == wExec[w]
  <2>1. e \in Exec /\ wTx[w] \in 1 .. MaxTx /\ chain' = chain
    BY <1>6, SentIsStored DEF MarkCloseResult, venueVars
  <2>2. \/ \E to \in {"VENUE_EXECUTED", "AWAITING"} : MoveExecution(e, to)
        \/ MoveExecution(e, "FAILED") /\ chain[<<e, wTx[w]>>] = "reverted"
    BY <1>6 DEF MarkCloseResult
  <2> QED
    BY <2>1, <2>2, RevertedHasNoEffect DEF RowMove
<1>7. ASSUME NEW w \in Worker, MarkFailed(w)
      PROVE exStatus' = exStatus \/ \E e \in Exec : RowMove(e)
  <2> DEFINE e == wExec[w]
  <2>1. e \in Exec /\ chain' = chain
    BY <1>7, BusyWorker DEF MarkFailed, venueVars
  <2>2. \/ exStatus' = exStatus
        \/ MoveExecution(e, "UNKNOWN")
        \/ MoveExecution(e, "FAILED") /\ exTx[e] = 0
    BY <1>7 DEF MarkFailed
  <2>3. exTx[e] = 0 => NoEffect(e)
    BY <2>1 DEF AttemptInv, SignedIsStored, NoEffect
  <2> QED
    BY <2>1, <2>2, <2>3 DEF RowMove
<1>8. ASSUME RecoverApply
      PROVE \E e \in Exec : RowMove(e)
  <2> DEFINE e == rec.exec
  <2>1. e \in Exec /\ rec.tx \in 1 .. MaxTx /\ chain' = chain
    BY <1>8 DEF RecoverApply, TypeOK, RecTypeOK, AttemptInv, RecoveryKnowsFate, venueVars
  <2>3. \/ \E to \in {"UNKNOWN", "VENUE_EXECUTED", "AWAITING"} : MoveExecution(e, to)
        \/ MoveExecution(e, "FAILED") /\ rec.status = "reverted"
    BY <1>8 DEF RecoverApply, RecoveredUnknown, RecoveredReverted, RecoveredOpen,
       RecoveredClose, RecoveredAwaiting
  <2>4. rec.status = "reverted" => NoEffect(e) \/ e \in overlooked
    BY <2>1, NullAssumption, RevertedHasNoEffect DEF AttemptInv, RecoveryKnowsFate, Mined
  <2> QED
    BY <2>1, <2>3, <2>4 DEF RowMove
<1>9. ASSUME NEW e \in Exec,
             \/ Redispatch(e) \/ Rebroadcast(e)
             \/ \E seen \in Tx \union {NULL} : RecoverRead(e, seen)
      PROVE exStatus' = exStatus
  BY <1>9 DEF Redispatch, Rebroadcast, RecoverRead, exVars
<1>10. ASSUME NEW w \in Worker, Broadcast(w) \/ Finish(w) \/ Crash(w)
       PROVE exStatus' = exStatus
  BY <1>10 DEF Broadcast, Finish, Crash, exVars
<1>11. ASSUME NEW t \in Tx,
              \/ NonceTaken(t) \/ VenueStep(t) \/ VenueEnds(t)
              \/ \E reason \in TerminalReason, p \in Pos : ApplyEvent(t, reason, p)
       PROVE exStatus' = exStatus
  BY <1>11 DEF NonceTaken, VenueStep, Mine, KeeperOpens, KeeperCloses, VenueEnds, ApplyEvent,
     exVars
<1>12. CASE RecoverAbandon \/ UNCHANGED vars
  BY <1>12 DEF RecoverAbandon, vars, exVars
<1> QED
  BY <1>1, <1>2, <1>3, <1>4, <1>5, <1>6, <1>7, <1>8, <1>9, <1>10, <1>11, <1>12
     DEF Next, WorkerStep, SignAgain, SignOverMined

\* What one step may do to the transactions.
LEMMA FateMoves ==
    ASSUME TypeOK, AttemptInv, [Next]_vars
    PROVE  chain' = chain \/ \E e \in Exec, k \in 1 .. MaxTx : FateMove(e, k)
<1>1. ASSUME NEW w \in Worker, NEW k \in 1 .. MaxTx,
             SignOpen(w, k) \/ Resign(w, k) \/ \E t \in Tx : SignClose(w, k, t)
      PROVE \E e \in Exec : FateMove(e, k)
  <2>1. wPc[w] # "idle" /\ Persist(w, k)
    BY <1>1 DEF SignOpen, Resign, SignClose
  <2> QED
    BY <2>1, BusyWorker DEF Persist, FreshTx, MoveExecution, FateMove
<1>2. ASSUME NEW w \in Worker, Broadcast(w)
      PROVE chain' = chain \/ \E e \in Exec, k \in 1 .. MaxTx : FateMove(e, k)
  <2> DEFINE e == wExec[w]
             k == wTx[w]
  <2>1. e \in Exec /\ k \in 1 .. MaxTx /\ exStatus' = exStatus
    BY <1>2, SentIsStored DEF Broadcast, exVars
  <2>2. CASE chain[<<e, k>>] = "signed"
    <3>1. chain' = [chain EXCEPT ![<<e, k>>] = "pending"]
      BY <1>2, <2>2 DEF Broadcast
    <3>2. FateMove(e, k)
      BY <2>1, <2>2, <3>1 DEF FateMove, Mined
    <3> QED
      BY <2>1, <3>2
  <2>3. CASE chain[<<e, k>>] # "signed"
    BY <1>2, <2>3 DEF Broadcast, TypeOK, VenueTypeOK
  <2> QED
    BY <2>2, <2>3
<1>3. ASSUME NEW e \in Exec, Rebroadcast(e)
      PROVE \E k \in 1 .. MaxTx : FateMove(e, k)
  <2>1. exTx[e] \in 1 .. MaxTx
    BY <1>3 DEF Rebroadcast, Recoverable, TypeOK, ExTypeOK
  <2>2. FateMove(e, exTx[e])
    BY <1>3 DEF Rebroadcast, FateMove, exVars, Mined
  <2> QED
    BY <2>1, <2>2
<1>4. ASSUME NEW t \in Tx, NonceTaken(t) \/ \E outcome \in Mined : Mine(t, outcome)
      PROVE \E e \in Exec, k \in 1 .. MaxTx : FateMove(e, k)
  <2>1. PICK e \in Exec, k \in 1 .. MaxTx : t = <<e, k>>
    BY DEF Tx
  <2>2. FateMove(e, k)
    BY <1>4, <2>1 DEF NonceTaken, Mine, FateMove, exVars, Mined
  <2> QED
    BY <2>2
<1>5. ASSUME NEW e \in Exec,
             \/ \E p \in Pos : AcceptOpen(p, e) \/ AcceptClose(p, e)
             \/ ReleaseStaleClaim(e) \/ Redispatch(e)
             \/ \E seen \in Tx \union {NULL} : RecoverRead(e, seen)
      PROVE chain' = chain
  BY <1>5 DEF AcceptOpen, AcceptClose, ReleaseStaleClaim, Redispatch, RecoverRead, venueVars
<1>6. ASSUME NEW w \in Worker,
             \/ \E e \in Exec : Claim(w, e)
             \/ \E seen \in Tx \union {NULL} : MarkOpenResult(w, seen)
             \/ \E closed \in BOOLEAN : MarkCloseResult(w, closed)
             \/ Finish(w) \/ MarkFailed(w) \/ Crash(w)
      PROVE chain' = chain
  BY <1>6 DEF Claim, MarkOpenResult, MarkCloseResult, Finish, MarkFailed, Crash, venueVars
<1>7. ASSUME NEW t \in Tx,
             \/ KeeperOpens(t) \/ KeeperCloses(t) \/ VenueEnds(t)
             \/ \E reason \in TerminalReason, p \in Pos : ApplyEvent(t, reason, p)
      PROVE chain' = chain
  BY <1>7 DEF KeeperOpens, KeeperCloses, VenueEnds, ApplyEvent, venueVars
<1>8. CASE RecoverApply \/ RecoverAbandon \/ UNCHANGED vars
  BY <1>8 DEF RecoverApply, RecoverAbandon, vars, venueVars
<1> QED
  BY <1>1, <1>2, <1>3, <1>4, <1>5, <1>6, <1>7, <1>8 DEF Next, WorkerStep, SignAgain,
     SignOverMined, VenueStep

\* An attempt that failed stays failed.
LEMMA FailedStays ==
    ASSUME TypeOK, AttemptInv, [Next]_vars, NEW f \in Exec, exStatus[f] = "FAILED"
    PROVE  exStatus'[f] = "FAILED"
<1>1. ASSUME NEW e \in Exec, RowMove(e) PROVE exStatus'[f] = "FAILED"
  BY <1>1 DEF RowMove, MoveExecution, CanExecutionTransition, TypeOK, ExTypeOK
<1> QED
  BY <1>1, RowMoves

\* Every step keeps a failed attempt without effect.
LEMMA FailedHasNoEffectStep ==
    ASSUME TypeOK, AttemptInv, FailedHasNoEffect, [Next]_vars
    PROVE  FailedHasNoEffect'
<1>0. overlooked \subseteq overlooked'
  BY DoubtMoves DEF Doubted
<1> SUFFICES ASSUME NEW f \in Exec, f \notin overlooked, exStatus'[f] = "FAILED",
                    NEW j \in 1 .. MaxTx
             PROVE  chain'[<<f, j>>] \in {"none", "dead", "reverted"}
  BY <1>0 DEF FailedHasNoEffect
<1>1. CASE exStatus[f] = "FAILED"
  <2>1. chain[<<f, j>>] \in {"none", "dead", "reverted"}
    BY <1>1 DEF FailedHasNoEffect
  <2>2. ASSUME NEW e \in Exec, NEW k \in 1 .. MaxTx, FateMove(e, k)
        PROVE chain'[<<f, j>>] = chain[<<f, j>>]
    <3>1. <<e, k>> # <<f, j>>
      BY <2>1, <2>2, <1>1 DEF FateMove, Mined, TypeOK, ExTypeOK
    <3>2. \E c \in ChainState : chain' = [chain EXCEPT ![<<e, k>>] = c]
      BY <2>2 DEF FateMove, ChainState
    <3> QED
      BY <3>1, <3>2, ChainUpdate
  <2> QED
    BY <2>1, <2>2, FateMoves
<1>2. CASE exStatus[f] # "FAILED"
  <2>1. PICK e \in Exec : RowMove(e)
    BY <1>2, RowMoves
  <2>2. e = f /\ NoEffect(f) /\ chain' = chain
    BY <1>2, <2>1 DEF RowMove, MoveExecution, TypeOK, ExTypeOK
  <2> QED
    BY <2>2 DEF NoEffect
<1> QED
  BY <1>1, <1>2

\* A command reported as failed has had no effect and never will, unless its retry
\* overlooked a mined transaction.
THEOREM FailedIsHarmless == ASSUME ~SlowPreparation PROVE Spec => []FailedHasNoEffect
<1>1. Init => FailedHasNoEffect
  BY DEF Init, FailedHasNoEffect
<1>2. TypeOK /\ AttemptInv /\ FailedHasNoEffect /\ [Next]_vars => FailedHasNoEffect'
  BY FailedHasNoEffectStep
<1>3. Spec => []TypeOK /\ []AttemptInv
  BY TypeCorrect, AttemptsAreExclusive, PTL
<1> QED
  BY <1>1, <1>2, <1>3, PTL DEF Spec

\* Effects change only when a pending transaction is confirmed.
LEMMA EffectStep ==
    ASSUME TypeOK, AttemptInv, NEW e \in Exec, NEW k \in 1 .. MaxTx, NEW c \in ChainState,
           chain' = [chain EXCEPT ![<<e, k>>] = c], chain[<<e, k>>] # "confirmed"
    PROVE  Effect' = IF c = "confirmed" THEN [Effect EXCEPT ![e] = Effect[e] \union {k}]
                     ELSE Effect
<1>1. \A f \in Exec, j \in 1 .. MaxTx :
        chain'[<<f, j>>] = IF f = e /\ j = k THEN c ELSE chain[<<f, j>>]
  BY ChainUpdate
<1>2. \A f \in Exec : Effect'[f] =
        IF f = e /\ c = "confirmed" THEN Effect[f] \union {k} ELSE Effect[f]
  BY <1>1 DEF Effect
<1> QED
  BY <1>2 DEF Effect

\* A step of the system is a step of the promise, or leaves what it sees alone.
LEMMA CommandStep ==
    ASSUME TypeOK, AttemptInv, FailedHasNoEffect, FailedHasNoEffect', [Next]_vars
    PROVE  [Promise!CommandNext]_<<{e \in Exec : exStatus[e] # "NONE"},
                                   {e \in Exec : exStatus[e] = "FAILED"}, overlooked, Effect>>
<1> DEFINE acc == {e \in Exec : exStatus[e] # "NONE"}
           ref == {e \in Exec : exStatus[e] = "FAILED"}
<1>0. ASSUME NEW e \in Exec, Doubted(e)
      PROVE  [Promise!CommandNext]_<<acc, ref, overlooked, Effect>>
  <2>1. acc' = acc /\ ref' = ref /\ e \in acc \ ref
    BY <1>0 DEF Doubted, TypeOK, ExTypeOK
  <2>2. Effect' = Effect
    <3>1. PICK k \in 1 .. MaxTx :
            chain[<<e, k>>] = "none" /\ chain' = [chain EXCEPT ![<<e, k>>] = "signed"]
      BY <1>0 DEF Doubted
    <3>2. "signed" \in ChainState
      BY DEF ChainState
    <3> QED
      BY <3>1, <3>2, EffectStep
  <2>3. overlooked' = overlooked \union {e}
    BY <1>0 DEF Doubted
  <2> QED
    BY <2>1, <2>2, <2>3 DEF Promise!CommandNext, Promise!Doubt
<1>1. ASSUME overlooked' = overlooked, NEW e \in Exec, NEW k \in 1 .. MaxTx, FateMove(e, k)
      PROVE  [Promise!CommandNext]_<<acc, ref, overlooked, Effect>>
  <2>1. PICK c \in ChainState :
          /\ chain' = [chain EXCEPT ![<<e, k>>] = c]
          /\ chain[<<e, k>>] \in {"none", "signed", "pending"}
          /\ c = "confirmed" => chain[<<e, k>>] = "pending"
    BY <1>1 DEF FateMove, ChainState, Mined
  <2>2. acc' = acc /\ ref' = ref
    <3>1. CASE exStatus' = exStatus
      BY <3>1
    <3>2. CASE chain[<<e, k>>] = "none" /\ exStatus' = [exStatus EXCEPT ![e] = "BROADCAST_PENDING"]
      <4>1. PICK f \in Exec : exStatus' = exStatus \/ RowMove(f)
        BY RowMoves
      <4>2. exStatus'[e] = "BROADCAST_PENDING"
        BY <3>2 DEF TypeOK, ExTypeOK
      <4>3. CASE RowMove(f) /\ exStatus' # exStatus
        BY <3>2, <4>2, <4>3 DEF RowMove, MoveExecution, CanExecutionTransition, TypeOK,
           ExTypeOK
      <4> QED
        BY <4>1, <4>3
    <3> QED
      BY <1>1, <3>1, <3>2 DEF FateMove
  <2>3. CASE c # "confirmed"
    BY <1>1, <2>1, <2>2, <2>3, EffectStep
  <2>4. CASE c = "confirmed" /\ e \notin overlooked
    <3>1. exTx[e] = k
      BY <2>1, <2>4 DEF AttemptInv, TxIsRecorded
    <3>2. Effect[e] = {}
      BY <2>1, <2>4, <3>1 DEF AttemptInv, TxIsRecorded, Effect
    <3>3. e \in acc \ ref
      BY <2>1, <2>4, <3>1 DEF AttemptInv, SignedIsStored, FailedHasNoEffect
    <3>4. Effect' = [Effect EXCEPT ![e] = {k}]
      <4>1. Effect' = [Effect EXCEPT ![e] = Effect[e] \union {k}]
        BY <2>1, <2>4, EffectStep
      <4>2. Effect[e] \union {k} = {k}
        BY <3>2
      <4> QED
        BY <4>1, <4>2
    <3> QED
      BY <1>1, <2>2, <3>2, <3>3, <3>4 DEF Promise!CommandNext, Promise!TakeEffect
  <2>5. CASE c = "confirmed" /\ e \in overlooked
    <3>1. chain[<<e, k>>] = "pending" /\ chain[<<e, 1>>] \in Mined
      BY <2>1, <2>5 DEF AttemptInv, OneRetry
    <3>2. k = 2
      BY <3>1 DEF AttemptInv, OneRetry, Mined
    <3>3. Effect[e] \subseteq {1}
      <4>1. \A j \in 1 .. MaxTx : chain[<<e, j>>] = "confirmed" => j = 1
        BY <3>1, <3>2 DEF AttemptInv, OneRetry
      <4> QED
        BY <4>1 DEF Effect
    <3>4. Effect' = [Effect EXCEPT ![e] = Effect[e] \union {k}]
      BY <2>1, <2>5, EffectStep
    <3>5. 1 \in 1 .. MaxTx
      BY LiveAssumption
    <3> QED
      BY <1>1, <2>2, <2>5, <3>3, <3>4, <3>5 DEF Promise!CommandNext, Promise!TakeEffectInDoubt
  <2> QED
    BY <2>3, <2>4, <2>5
<1>2. ASSUME UNCHANGED <<chain, overlooked>>, NEW e \in Exec, RowMove(e)
      PROVE  [Promise!CommandNext]_<<acc, ref, overlooked, Effect>>
  <2>1. Effect' = Effect
    BY <1>2 DEF Effect
  <2>2. PICK to \in ExecutionStatus : exStatus' = [exStatus EXCEPT ![e] = to]
    BY <1>2 DEF RowMove, MoveExecution, ExecutionStatus
  <2>3. \A f \in Exec : exStatus'[f] = IF f = e THEN to ELSE exStatus[f]
    BY <2>2 DEF TypeOK, ExTypeOK
  <2>4. CASE exStatus[e] = "NONE"
    <3>1. to = "CREATED"
      BY <1>2, <2>3, <2>4
         DEF RowMove, MoveExecution, CanExecutionTransition, TypeOK, ExTypeOK, ExecutionStatus
    <3>2. acc' = acc \union {e} /\ ref' = ref /\ e \notin acc
      BY <2>3, <2>4, <3>1
    <3> QED
      BY <1>2, <2>1, <3>2 DEF Promise!CommandNext, Promise!Accept
  <2>5. CASE exStatus[e] # "NONE" /\ exStatus[e] # "FAILED" /\ to = "FAILED"
    <3>1. acc' = acc /\ ref' = ref \union {e} /\ e \in acc \ ref
      BY <2>3, <2>5
    <3>2. Effect[e] = {} \/ e \in overlooked
      BY <1>2, <2>1, <2>3, <2>5 DEF FailedHasNoEffect, Effect
    <3> QED
      BY <1>2, <2>1, <3>1, <3>2 DEF Promise!CommandNext, Promise!Refuse
  <2>6. CASE exStatus[e] # "NONE" /\ (exStatus[e] = "FAILED" <=> to = "FAILED")
    <3>1. acc' = acc /\ ref' = ref
      BY <2>3, <2>6 DEF ExecutionStatus
    <3> QED
      BY <1>2, <2>1, <3>1
  <2>7. exStatus[e] = "FAILED" => to = "FAILED"
    BY <2>3, FailedStays
  <2> QED
    BY <2>4, <2>5, <2>6, <2>7
<1>3. CASE UNCHANGED <<chain, exStatus, overlooked>>
  BY <1>3 DEF Effect
<1> QED
  BY <1>0, <1>1, <1>2, <1>3, RowMoves, FateMoves, DoubtMoves

\* Every accepted command takes effect at most once, by one transaction, and
\* never beside a report that it failed; the one retry over a mined transaction
\* makes it two, and the report wrong, at worst: the system implements TradeCommand.
THEOREM PromiseIsKept == ASSUME ~SlowPreparation PROVE Spec => CommandPromise
<1>1. Init => Promise!CommandInit
  <2> SUFFICES ASSUME Init PROVE Promise!CommandInit
    OBVIOUS
  <2>1. \A e \in Exec : exStatus[e] = "NONE" /\ {k \in 1 .. MaxTx : chain[<<e, k>>] = "confirmed"} = {}
    BY DEF Init, Tx
  <2>2. Effect = [e \in Exec |-> {}]
    BY <2>1 DEF Effect
  <2>3. overlooked = {}
    BY DEF Init
  <2> QED
    BY <2>1, <2>2, <2>3 DEF Promise!CommandInit
<1>2. TypeOK /\ AttemptInv /\ FailedHasNoEffect /\ FailedHasNoEffect' /\ [Next]_vars
        => [Promise!CommandNext]_<<{e \in Exec : exStatus[e] # "NONE"},
                                   {e \in Exec : exStatus[e] = "FAILED"}, overlooked, Effect>>
  BY CommandStep
<1>3. Spec => []TypeOK /\ []AttemptInv /\ []FailedHasNoEffect
  BY TypeCorrect, AttemptsAreExclusive, FailedIsHarmless, PTL
<1> QED
  BY <1>1, <1>2, <1>3, PTL DEF Spec, CommandPromise, Promise!CommandSpec, Promise!cmdVars

-----------------------------------------------------------------------------
(***************************************************************************)
(* Which trade a position is tied to.  A trade of the position's own may   *)
(* outlive the position only if the position was tied to another's, or if  *)
(* its open was signed again over a mined transaction.                     *)
(***************************************************************************)

\* A trade that came into being at the venue.
Born(u) == venue[u] = "open" \/ venue[u] \in Gone

\* The trade u exists and position p opened it.
Tied(p, u) == u \in Tx /\ Own(p, u) /\ Born(u)

\* A position has one open command, accepted with the row.
OneOpenCommand ==
    /\ \A e, f \in Exec :
         exAction[e] = "OPEN" /\ exAction[f] = "OPEN" /\ exPos[e] = exPos[f] => e = f
    /\ \A e \in Exec : IF exStatus[e] = "NONE" THEN exAction[e] = "NONE"
                       ELSE exAction[e] # "NONE" /\ posStatus[exPos[e]] # "NONE"

\* The venue acts on confirmed orders only.
VenueFollowsChain == \A u \in Tx : venue[u] # "none" => chain[u] = "confirmed"

\* What is not marked as foreign was tied to the position's own trade: its venue id, what
\* the thread that closes it has in hand, and what its close transactions close.
TiesAreOwn ==
    \A p \in Pos : posVenueId[p] # NULL /\ ~foreign[p] => Tied(p, posVenueId[p])

HandIsOwn(w) ==
    wPc[w] # "idle" /\ exAction[wExec[w]] = "CLOSE" =>
        /\ wPc[w] # "claimed" => wTrade[w] # NULL
        /\ wTrade[w] # NULL /\ ~foreign[exPos[wExec[w]]] => Tied(exPos[wExec[w]], wTrade[w])

HandsAreOwn == \A w \in Worker : HandIsOwn(w)

TargetsAreOwn ==
    \A e \in Exec, k \in 1 .. MaxTx :
        exAction[e] = "CLOSE" /\ chain[<<e, k>>] # "none" /\ ~foreign[exPos[e]] =>
            Tied(exPos[e], target[<<e, k>>])

\* The position's own trade is gone.
OwnIsGone(p) == \E u \in Tx : Own(p, u) /\ venue[u] \in Gone

\* What the recovery loop read and has not written yet.
ReadIsTrue ==
    rec.exec # NULL =>
        /\ rec.seen # NULL => Born(rec.seen)
        /\ /\ rec.status = "confirmed" /\ rec.seen = NULL
           /\ exAction[rec.exec] = "CLOSE" /\ ~foreign[exPos[rec.exec]]
           => OwnIsGone(exPos[rec.exec])

\* A position is over because its own trade is, or because its open command failed.
OpenFailed(p) ==
    \E e \in Exec : exAction[e] = "OPEN" /\ exPos[e] = p /\ exStatus[e] = "FAILED"

OverIsSettled ==
    \A p \in Pos : Terminal(p) /\ ~foreign[p] => OwnIsGone(p) \/ OpenFailed(p)

OrphanInv ==
    /\ OneOpenCommand /\ VenueFollowsChain /\ TiesAreOwn /\ HandsAreOwn /\ TargetsAreOwn
    /\ ReadIsTrue /\ OverIsSettled

\* A trade that exists goes on existing, and one that is gone stays gone.
LEMMA TradesStay ==
    ASSUME TypeOK, VenueFollowsChain, [Next]_vars, NEW u \in Tx
    PROVE  /\ Born(u) => Born(u)'
           /\ venue[u] \in Gone => venue'[u] \in Gone
           /\ venue'[u] # "none" => venue[u] # "none" \/ chain'[u] = "confirmed"
<1> USE DEF TypeOK, VenueTypeOK, Born, Gone
<1>1. ASSUME NEW t \in Tx, NEW outcome \in Mined, Mine(t, outcome)
      PROVE  /\ Born(u) => Born(u)'
             /\ venue[u] \in Gone => venue'[u] \in Gone
             /\ venue'[u] # "none" => venue[u] # "none" \/ chain'[u] = "confirmed"
  <2>1. chain' = [chain EXCEPT ![t] = outcome] /\ chain[t] = "pending"
    BY <1>1 DEF Mine
  <2>2. venue' = [venue EXCEPT ![t] = IF outcome = "confirmed" THEN "placed" ELSE @]
    BY <1>1 DEF Mine
  <2>3. CASE outcome = "confirmed" /\ u = t
    <3>1. venue[u] = "none"
      BY <2>1, <2>3 DEF VenueFollowsChain
    <3>2. venue'[u] = "placed" /\ chain'[u] = "confirmed"
      BY <2>1, <2>2, <2>3
    <3> QED
      BY <3>1, <3>2
  <2>4. CASE ~(outcome = "confirmed" /\ u = t)
    <3>1. venue'[u] = venue[u]
      BY <2>2, <2>4
    <3> QED
      BY <3>1
  <2> QED
    BY <2>3, <2>4
<1>2. ASSUME NEW t \in Tx, KeeperOpens(t) \/ VenueEnds(t)
      PROVE  /\ Born(u) => Born(u)'
             /\ venue[u] \in Gone => venue'[u] \in Gone
             /\ venue'[u] # "none" => venue[u] # "none" \/ chain'[u] = "confirmed"
  <2>1. \/ venue[t] = "placed" /\ \E s \in {"open", "cancelled"} : venue' = [venue EXCEPT ![t] = s]
        \/ venue[t] = "open" /\ \E s \in {"stopped", "liquidated"} : venue' = [venue EXCEPT ![t] = s]
    BY <1>2, LiveAssumption DEF KeeperOpens, VenueEnds
  <2> QED
    BY <2>1
<1>3. ASSUME NEW t \in Tx, KeeperCloses(t)
      PROVE  /\ Born(u) => Born(u)'
             /\ venue[u] \in Gone => venue'[u] \in Gone
             /\ venue'[u] # "none" => venue[u] # "none" \/ chain'[u] = "confirmed"
  <2>1. venue[t] = "placed"
    BY <1>3 DEF KeeperCloses
  <2>2. \/ venue' = [venue EXCEPT ![t] = "done"]
        \/ /\ venue[target[t]] = "open"
           /\ venue' = [venue EXCEPT ![t] = "done", ![target[t]] = "closed"]
    BY <1>3 DEF KeeperCloses
  <2>3. \/ venue'[u] = venue[u]
        \/ u = t /\ venue'[u] = "done"
        \/ venue[u] = "open" /\ venue'[u] = "closed"
    <3>1. CASE venue' = [venue EXCEPT ![t] = "done"]
      BY <3>1
    <3>2. CASE /\ venue[target[t]] = "open"
               /\ venue' = [venue EXCEPT ![t] = "done", ![target[t]] = "closed"]
      <4>1. CASE u = target[t]
        <5>1. venue'[u] = "closed"
          BY <3>2, <4>1
        <5> QED
          BY <3>2, <4>1, <5>1
      <4>2. CASE u # target[t]
        <5>1. venue'[u] = [venue EXCEPT ![t] = "done"][u]
          BY <3>2, <4>2
        <5> QED
          BY <5>1
      <4> QED
        BY <4>1, <4>2
    <3> QED
      BY <2>2, <3>1, <3>2
  <2> QED
    BY <2>1, <2>3
<1>4. ASSUME venue' = venue
      PROVE  /\ Born(u) => Born(u)'
             /\ venue[u] \in Gone => venue'[u] \in Gone
             /\ venue'[u] # "none" => venue[u] # "none" \/ chain'[u] = "confirmed"
  BY <1>4
<1>5. \/ venue' = venue
      \/ \E t \in Tx : \/ \E outcome \in Mined : Mine(t, outcome)
                       \/ KeeperOpens(t) \/ VenueEnds(t) \/ KeeperCloses(t)
  BY ZenonT(60)
  DEF Next, WorkerStep, VenueStep, AcceptOpen, AcceptClose, ReleaseStaleClaim, Redispatch,
     Rebroadcast, Claim, SignOpen, SignAgain, SignOverMined, Resign, SignClose, Broadcast,
     MarkOpenResult,
     MarkCloseResult, Finish, MarkFailed, Crash, NonceTaken, RecoverRead, RecoverApply,
     RecoverAbandon, ApplyEvent, venueVars, vars
<1> QED
  BY <1>1, <1>2, <1>3, <1>4, <1>5

\* What or-ing a condition into the mark of one position does.
LEMMA MarkIs ==
    ASSUME NEW f \in [Pos -> BOOLEAN], NEW q \in Pos, NEW x \in BOOLEAN, NEW p \in Pos
    PROVE  [f EXCEPT ![q] = @ \/ x][p] = IF p = q THEN f[p] \/ x ELSE f[p]
OBVIOUS

\* What the recovery loop read belongs to an attempt with a row and a position.
LEMMA ReadRow ==
    ASSUME TypeOK, rec # NoRecovery
    PROVE  rec.exec \in Exec
  BY DEF TypeOK, RecTypeOK

\* The attempt the recovery loop writes has a row and a position.
LEMMA RecoveredRow ==
    ASSUME TypeOK, RecoverApply
    PROVE  rec.exec \in Exec /\ exPos[rec.exec] \in Pos /\ exStatus[rec.exec] # "NONE"
<1>1. rec.exec \in Exec
  BY ReadRow DEF RecoverApply
<1>2. \E to \in ExecutionStatus : MoveExecution(rec.exec, to)
  BY DEF RecoverApply, RecoveredUnknown, RecoveredReverted, RecoveredOpen, RecoveredClose,
     RecoveredAwaiting, ExecutionStatus
<1> QED
  BY <1>1, <1>2, MovedRowExists, RowPosition

\* The mark of a position that was tied to a foreign trade is never taken back.
LEMMA ForeignStays ==
    ASSUME TypeOK, [Next]_vars, NEW p \in Pos, foreign[p]
    PROVE  foreign'[p]
<1>0. foreign \in [Pos -> BOOLEAN]
  BY DEF TypeOK, PosTypeOK
<1>1. ASSUME NEW q \in Pos, NEW x \in BOOLEAN, foreign' = [foreign EXCEPT ![q] = @ \/ x]
      PROVE  foreign'[p]
  BY <1>0, <1>1, MarkIs
<1>2. ASSUME NEW w \in Worker, NEW k \in 1 .. MaxTx, NEW t \in Tx, SignClose(w, k, t)
      PROVE  foreign'[p]
  <2>1. exPos[wExec[w]] \in Pos
    BY <1>2, ThreadAttempt, MovedRowExists, RowPosition DEF SignClose, Persist, ExecutionStatus
  <2>2. foreign' = [foreign EXCEPT ![exPos[wExec[w]]] = @ \/ ~Own(exPos[wExec[w]], t)]
    BY <1>2 DEF SignClose
  <2> QED
    BY <1>1, <2>1, <2>2
<1>3. ASSUME NEW w \in Worker, NEW seen \in Tx \union {NULL}, MarkOpenResult(w, seen)
      PROVE  foreign'[p]
  <2>1. exPos[wExec[w]] \in Pos
    BY <1>3, ThreadAttempt, MovedRowExists, RowPosition DEF MarkOpenResult, ExecutionStatus
  <2>2. \/ foreign' = [foreign EXCEPT ![exPos[wExec[w]]] = @ \/ ~Own(exPos[wExec[w]], seen)]
        \/ foreign' = foreign
    BY <1>3 DEF MarkOpenResult
  <2> QED
    BY <1>1, <2>1, <2>2
<1>4. ASSUME NEW w \in Worker, NEW closed \in BOOLEAN, MarkCloseResult(w, closed)
      PROVE  foreign'[p]
  <2> DEFINE e == wExec[w]
             t == <<wExec[w], wTx[w]>>
  <2>1. exPos[e] \in Pos
    BY <1>4, ThreadAttempt, MovedRowExists, RowPosition DEF MarkCloseResult, ExecutionStatus
  <2>2. \/ foreign' = [foreign EXCEPT ![exPos[e]] = @ \/ venue[target[t]] = "open"]
        \/ foreign' = foreign
    BY <1>4 DEF MarkCloseResult
  <2> QED
    BY <1>1, <2>1, <2>2
<1>5. ASSUME RecoverApply PROVE foreign'[p]
  <2> DEFINE q == exPos[rec.exec]
  <2>1. \/ foreign' = [foreign EXCEPT ![q] = @ \/ ~Own(q, rec.seen)]
        \/ foreign' = foreign
    BY <1>5 DEF RecoverApply, RecoveredUnknown, RecoveredReverted, RecoveredOpen,
       RecoveredClose, RecoveredAwaiting
  <2>2. q \in Pos
    BY <1>5, RecoveredRow
  <2> QED
    BY <1>1, <2>1, <2>2
<1>6. ASSUME NEW t \in Tx, NEW reason \in TerminalReason, NEW q \in Pos,
             ApplyEvent(t, reason, q)
      PROVE  foreign'[p]
  BY <1>1, <1>6 DEF ApplyEvent
<1>7. \/ foreign' = foreign
      \/ \E w \in Worker : \/ \E k \in 1 .. MaxTx, t \in Tx : SignClose(w, k, t)
                           \/ \E seen \in Tx \union {NULL} : MarkOpenResult(w, seen)
                           \/ \E closed \in BOOLEAN : MarkCloseResult(w, closed)
      \/ RecoverApply
      \/ \E t \in Tx, reason \in TerminalReason, q \in Pos : ApplyEvent(t, reason, q)
  BY DEF Next, WorkerStep, VenueStep, AcceptOpen, AcceptClose, ReleaseStaleClaim, Redispatch,
     Rebroadcast, Claim, SignOpen, SignAgain, SignOverMined, Resign, Broadcast, Finish,
     MarkFailed, Crash, NonceTaken,
     Mine, KeeperOpens, KeeperCloses, VenueEnds, RecoverRead, RecoverAbandon, vars
<1> QED
  BY <1>2, <1>3, <1>4, <1>5, <1>6, <1>7

\* Attempts are accepted, or the rows keep their command and position.
LEMMA IdentityMoves ==
    ASSUME TypeOK, [Next]_vars
    PROVE  \/ \E p \in Pos, e \in Exec : AcceptOpen(p, e) \/ AcceptClose(p, e)
           \/ /\ UNCHANGED <<exAction, exPos>>
              /\ \A e \in Exec : exStatus[e] = "NONE" => exStatus'[e] = "NONE"
<1>0. exStatus \in [Exec -> ExecutionStatus \union {"NONE"}]
  BY DEF TypeOK, ExTypeOK
<1>1. ASSUME NEW f, NEW to \in ExecutionStatus, MoveExecution(f, to)
      PROVE  \A e \in Exec : exStatus[e] = "NONE" => exStatus'[e] = "NONE"
  BY <1>0, <1>1 DEF MoveExecution, CanExecutionTransition, ExecutionStatus
<1>2. ASSUME NEW w \in Worker,
             \/ \E e \in Exec : Claim(w, e)
             \/ \E k \in 1 .. MaxTx : SignOpen(w, k) \/ Resign(w, k)
             \/ \E k \in 1 .. MaxTx, t \in Tx : SignClose(w, k, t)
             \/ \E seen \in Tx \union {NULL} : MarkOpenResult(w, seen)
             \/ \E closed \in BOOLEAN : MarkCloseResult(w, closed)
             \/ MarkFailed(w)
      PROVE  /\ UNCHANGED <<exAction, exPos>>
             /\ \A e \in Exec : exStatus[e] = "NONE" => exStatus'[e] = "NONE"
  <2>1. UNCHANGED <<exAction, exPos>>
    BY <1>2 DEF Claim, SignOpen, Resign, SignClose, MarkOpenResult, MarkCloseResult, MarkFailed
  <2>2. \/ exStatus' = exStatus
        \/ \E f : \E to \in ExecutionStatus : MoveExecution(f, to)
    BY <1>2 DEF Claim, SignOpen, Resign, SignClose, Persist, MarkOpenResult, MarkCloseResult,
       MarkFailed, ExecutionStatus
  <2> QED
    BY <1>1, <2>1, <2>2
<1>3. ASSUME RecoverApply
      PROVE  /\ UNCHANGED <<exAction, exPos>>
             /\ \A e \in Exec : exStatus[e] = "NONE" => exStatus'[e] = "NONE"
  <2>1. UNCHANGED <<exAction, exPos>>
    BY <1>3 DEF RecoverApply
  <2>2. \E to \in ExecutionStatus : MoveExecution(rec.exec, to)
    BY <1>3 DEF RecoverApply, RecoveredUnknown, RecoveredReverted, RecoveredOpen,
       RecoveredClose, RecoveredAwaiting, ExecutionStatus
  <2> QED
    BY <1>1, <2>1, <2>2
<1>4. ASSUME NEW e \in Exec, ReleaseStaleClaim(e)
      PROVE  /\ UNCHANGED <<exAction, exPos>>
             /\ \A f \in Exec : exStatus[f] = "NONE" => exStatus'[f] = "NONE"
  BY <1>0, <1>4 DEF ReleaseStaleClaim
<1>5. \/ UNCHANGED exVars
      \/ \E p \in Pos, e \in Exec : AcceptOpen(p, e) \/ AcceptClose(p, e)
      \/ \E e \in Exec : ReleaseStaleClaim(e)
      \/ RecoverApply
      \/ \E w \in Worker :
             \/ \E e \in Exec : Claim(w, e)
             \/ \E k \in 1 .. MaxTx : SignOpen(w, k) \/ Resign(w, k)
             \/ \E k \in 1 .. MaxTx, t \in Tx : SignClose(w, k, t)
             \/ \E seen \in Tx \union {NULL} : MarkOpenResult(w, seen)
             \/ \E closed \in BOOLEAN : MarkCloseResult(w, closed)
             \/ MarkFailed(w)
  BY DEF Next, WorkerStep, SignAgain, SignOverMined, VenueStep, Redispatch, Rebroadcast,
     Broadcast, Finish, Crash,
     NonceTaken, Mine, KeeperOpens, KeeperCloses, VenueEnds, RecoverRead, RecoverAbandon,
     ApplyEvent, vars
<1> QED
  BY <1>2, <1>3, <1>4, <1>5 DEF exVars

\* A row of an attempt or of a position is never deleted.
LEMMA RowsStay ==
    ASSUME TypeOK, [Next]_vars
    PROVE  /\ \A e \in Exec : exStatus[e] # "NONE" => exStatus'[e] # "NONE"
           /\ \A p \in Pos : posStatus[p] # "NONE" => posStatus'[p] # "NONE"
<1>1. ASSUME NEW e \in Exec, AttemptMove(e)
      PROVE  \A f \in Exec : exStatus[f] # "NONE" => exStatus'[f] # "NONE"
  BY <1>1 DEF AttemptMove, MoveExecution, ExecutionStatus, TypeOK, ExTypeOK
<1>2. ASSUME NEW q \in Pos, PositionMove(q)
      PROVE  \A p \in Pos : posStatus[p] # "NONE" => posStatus'[p] # "NONE"
  BY <1>2 DEF PositionMove, MovePosition, PositionStatus, ActiveStatus, TerminalStatus,
     TypeOK, PosTypeOK
<1> QED
  BY <1>1, <1>2, RecordMoves

\* accept_open lets one open command in for a new position, and no step adds another.
LEMMA OneOpenStep ==
    ASSUME TypeOK, OneOpenCommand, [Next]_vars
    PROVE  OneOpenCommand'
<1>0. /\ exAction \in [Exec -> {"OPEN", "CLOSE", "NONE"}] /\ exPos \in [Exec -> 0 .. MaxPos]
      /\ exStatus \in [Exec -> ExecutionStatus \union {"NONE"}]
      /\ \A e \in Exec : exStatus[e] # "NONE" => exPos[e] \in Pos
  BY DEF TypeOK, ExTypeOK
<1>1. CASE /\ UNCHANGED <<exAction, exPos>>
           /\ \A e \in Exec : exStatus[e] = "NONE" => exStatus'[e] = "NONE"
  BY <1>0, <1>1, RowsStay DEF OneOpenCommand
<1>2. ASSUME NEW p \in Pos, NEW e \in Exec, NEW c \in {"OPEN", "CLOSE"}, NewExecution(e, c, p),
             posStatus'[p] # "NONE",
             c = "OPEN" => posStatus[p] = "NONE"
      PROVE  OneOpenCommand'
  <2>1. /\ exStatus[e] = "NONE" /\ exStatus' = [exStatus EXCEPT ![e] = "CREATED"]
        /\ exAction' = [exAction EXCEPT ![e] = c] /\ exPos' = [exPos EXCEPT ![e] = p]
    BY <1>2 DEF NewExecution
  <2>2. /\ exAction'[e] = c /\ exPos'[e] = p /\ exStatus'[e] = "CREATED"
        /\ \A f \in Exec : f # e => /\ exAction'[f] = exAction[f] /\ exPos'[f] = exPos[f]
                                    /\ exStatus'[f] = exStatus[f]
    BY <1>0, <2>1
  <2>3. \A f \in Exec : f # e /\ exAction[f] = "OPEN" /\ exPos[f] = p => c # "OPEN"
    BY <1>2 DEF OneOpenCommand
  <2>4. \A f \in Exec : IF exStatus'[f] = "NONE" THEN exAction'[f] = "NONE"
                        ELSE exAction'[f] # "NONE" /\ posStatus'[exPos'[f]] # "NONE"
    BY <1>0, <1>2, <2>2, RowsStay DEF OneOpenCommand
  <2>5. \A f, g \in Exec :
          exAction'[f] = "OPEN" /\ exAction'[g] = "OPEN" /\ exPos'[f] = exPos'[g] => f = g
    BY <2>2, <2>3 DEF OneOpenCommand
  <2> QED
    BY <2>4, <2>5 DEF OneOpenCommand
<1>3. ASSUME NEW p \in Pos, NEW e \in Exec, AcceptOpen(p, e) PROVE OneOpenCommand'
  <2>1. posStatus'[p] = "OPENING"
    BY <1>3 DEF AcceptOpen, TypeOK, PosTypeOK
  <2> QED
    BY <1>2, <1>3, <2>1 DEF AcceptOpen
<1>4. ASSUME NEW p \in Pos, NEW e \in Exec, AcceptClose(p, e) PROVE OneOpenCommand'
  <2>1. posStatus'[p] = "CLOSING"
    BY <1>4 DEF AcceptClose, TypeOK, PosTypeOK
  <2> QED
    BY <1>2, <1>4, <2>1 DEF AcceptClose
<1> QED
  BY <1>1, <1>3, <1>4, IdentityMoves

\* A confirmed transaction stays confirmed.
LEMMA ConfirmedStays ==
    ASSUME TypeOK, AttemptInv, [Next]_vars, NEW u \in Tx, chain[u] = "confirmed"
    PROVE  chain'[u] = "confirmed"
<1>1. PICK f \in Exec, j \in 1 .. MaxTx : u = <<f, j>>
  BY DEF Tx
<1>2. ASSUME NEW e \in Exec, NEW k \in 1 .. MaxTx, FateMove(e, k)
      PROVE  chain'[u] = "confirmed"
  <2>1. PICK c \in ChainState : chain' = [chain EXCEPT ![<<e, k>>] = c]
    BY <1>2 DEF FateMove, ChainState
  <2>2. chain[<<e, k>>] # "confirmed"
    BY <1>2 DEF FateMove, Mined
  <2>3. <<e, k>> # <<f, j>>
    BY <1>1, <2>2
  <2> QED
    BY <1>1, <2>1, <2>3, ChainUpdate
<1> QED
  BY <1>2, FateMoves

\* The venue never acts on an order before its transaction is confirmed.
LEMMA VenueFollowsStep ==
    ASSUME TypeOK, AttemptInv, VenueFollowsChain, [Next]_vars
    PROVE  VenueFollowsChain'
  BY TradesStay, ConfirmedStays DEF VenueFollowsChain

\* A position that is tied to its own trade stays tied to it.
LEMMA TiesStay ==
    ASSUME TypeOK, OneOpenCommand, VenueFollowsChain, [Next]_vars, NEW p \in Pos
    PROVE  /\ \A u : Tied(p, u) => Tied(p, u)'
           /\ OwnIsGone(p) => OwnIsGone(p)'
<1>1. ASSUME NEW u \in Tx, Own(p, u) PROVE Own(p, u)'
  <2>1. u[1] \in Exec /\ exStatus[u[1]] # "NONE"
    BY <1>1 DEF Tx, Own, OneOpenCommand
  <2> QED
    BY <1>1, <2>1, RowsKeepIdentity DEF Own
<1> QED
  BY <1>1, TradesStay DEF Tied, OwnIsGone

\* The venue id of a position comes with the mark, if the trade is not its own.
LEMMA TiesStep ==
    ASSUME TypeOK, OneOpenCommand, VenueFollowsChain, TiesAreOwn, ReadIsTrue, [Next]_vars
    PROVE  TiesAreOwn'
<1>0. foreign \in [Pos -> BOOLEAN] /\ posVenueId \in [Pos -> Tx \union {NULL}]
  BY DEF TypeOK, PosTypeOK
<1>1. ASSUME NEW q \in Pos, NEW u \in Tx, Born(u),
             posVenueId' = [posVenueId EXCEPT ![q] = u],
             foreign' = [foreign EXCEPT ![q] = @ \/ ~Own(q, u)],
             UNCHANGED <<exAction, exPos, venue>>
      PROVE  TiesAreOwn'
  <2>1. \A p \in Pos : foreign'[p] = IF p = q THEN foreign[p] \/ ~Own(q, u) ELSE foreign[p]
    <3>1. PICK x \in BOOLEAN : x <=> ~Own(q, u)
      OBVIOUS
    <3>2. foreign' = [foreign EXCEPT ![q] = @ \/ x]
      BY <1>1, <3>1
    <3> QED
      BY <1>0, <3>1, <3>2, MarkIs
  <2>2. posVenueId'[q] = u /\ \A p \in Pos : p # q => posVenueId'[p] = posVenueId[p]
    BY <1>0, <1>1
  <2>3. ASSUME NEW p \in Pos, posVenueId'[p] # NULL, ~foreign'[p]
        PROVE  Tied(p, posVenueId'[p])
    <3>1. CASE p = q
      BY <1>1, <2>1, <2>2, <2>3, <3>1 DEF Tied
    <3>2. CASE p # q
      BY <2>1, <2>2, <2>3, <3>2 DEF TiesAreOwn
    <3> QED
      BY <3>1, <3>2
  <2>4. \A p \in Pos, t \in Tx : Tied(p, t) => Tied(p, t)'
    BY TiesStay
  <2>5. \A p \in Pos : posVenueId'[p] # NULL => posVenueId'[p] \in Tx
    BY <1>0, <1>1, <2>2
  <2> QED
    BY <1>1, <2>3, <2>4, <2>5 DEF TiesAreOwn, Tied, Own, Born
<1>2. CASE posVenueId' = posVenueId
  <2>1. ASSUME NEW p \in Pos, posVenueId'[p] # NULL, ~foreign'[p] PROVE Tied(p, posVenueId[p])
    BY <1>2, <2>1, ForeignStays DEF TiesAreOwn
  <2>2. \A p \in Pos : posVenueId[p] # NULL => posVenueId[p] \in Tx
    BY <1>0
  <2>3. \A p \in Pos, t \in Tx : Tied(p, t) => Tied(p, t)'
    BY TiesStay
  <2> QED
    BY <1>2, <2>1, <2>2, <2>3 DEF TiesAreOwn, Tied, Own, Born
<1>3. ASSUME NEW w \in Worker, NEW seen \in Tx \union {NULL}, MarkOpenResult(w, seen)
      PROVE  TiesAreOwn'
  <2>1. PICK q \in Pos : q = exPos[wExec[w]]
    BY <1>3, ThreadAttempt, MovedRowExists, RowPosition DEF MarkOpenResult, ExecutionStatus
  <2>2. CASE seen = NULL
    BY <1>2, <1>3, <2>2 DEF MarkOpenResult
  <2>3. CASE seen # NULL
    <3>1. /\ posVenueId' = [posVenueId EXCEPT ![q] = seen]
          /\ foreign' = [foreign EXCEPT ![q] = @ \/ ~Own(q, seen)]
          /\ UNCHANGED <<exAction, exPos, venue>>
      BY <1>3, <2>1, <2>3 DEF MarkOpenResult, venueVars
    <3>2. seen \in Tx /\ Born(seen)
      BY <1>3, <2>3 DEF MarkOpenResult, Sightings, Born
    <3> QED
      BY <1>1, <3>1, <3>2
  <2> QED
    BY <2>2, <2>3
<1>4. ASSUME RecoverApply PROVE TiesAreOwn'
  <2>1. PICK e \in Exec, q \in Pos : e = rec.exec /\ q = exPos[e]
    BY <1>4, RecoveredRow
  <2>2. CASE posVenueId' = posVenueId
    BY <1>2, <2>2
  <2>3. CASE RecoveredOpen(e, q)
    <3>1. PICK u \in Tx : u = rec.seen
      BY <2>3 DEF RecoveredOpen, TypeOK, RecTypeOK
    <3>2. /\ posVenueId' = [posVenueId EXCEPT ![q] = u]
          /\ foreign' = [foreign EXCEPT ![q] = @ \/ ~Own(q, u)]
      BY <2>3, <3>1 DEF RecoveredOpen
    <3>3. Born(u) /\ UNCHANGED <<exAction, exPos, venue>>
      BY <1>4, <2>1, <3>1, NullAssumption DEF RecoverApply, ReadIsTrue, venueVars
    <3> QED
      BY <1>1, <3>2, <3>3
  <2>4. posVenueId' = posVenueId \/ RecoveredOpen(e, q)
    BY <1>4, <2>1 DEF RecoverApply, RecoveredUnknown, RecoveredReverted, RecoveredClose,
       RecoveredAwaiting
  <2> QED
    BY <2>2, <2>3, <2>4
<1>5. ASSUME NEW t \in Tx, NEW reason \in TerminalReason, NEW q \in Pos,
             ApplyEvent(t, reason, q)
      PROVE  TiesAreOwn'
  <2>1. /\ posVenueId' = [posVenueId EXCEPT ![q] = t]
        /\ foreign' = [foreign EXCEPT ![q] = @ \/ ~Own(q, t)]
        /\ UNCHANGED <<exAction, exPos, venue>>
    BY <1>5 DEF ApplyEvent, exVars, venueVars
  <2>2. Born(t)
    BY <1>5 DEF ApplyEvent, Born
  <2> QED
    BY <1>1, <2>1, <2>2
<1>6. \/ posVenueId' = posVenueId
      \/ \E w \in Worker, seen \in Tx \union {NULL} : MarkOpenResult(w, seen)
      \/ RecoverApply
      \/ \E t \in Tx, reason \in TerminalReason, q \in Pos : ApplyEvent(t, reason, q)
  BY ZenonT(60)
  DEF Next, WorkerStep, VenueStep, AcceptOpen, AcceptClose, ReleaseStaleClaim, Redispatch,
     Rebroadcast, Claim, SignOpen, SignAgain, SignOverMined, Resign, SignClose, Broadcast,
     MarkCloseResult, Finish,
     MarkFailed, Crash, NonceTaken, Mine, KeeperOpens, KeeperCloses, VenueEnds, RecoverRead,
     RecoverAbandon, posVars, vars
<1> QED
  BY <1>2, <1>3, <1>4, <1>5, <1>6

\* The trade a close is signed for is the position's own, or the position gets the mark.
LEMMA SignedIsOwn ==
    ASSUME TypeOK, HandsAreOwn, NEW w \in Worker, NEW k \in 1 .. MaxTx, NEW t \in Tx,
           SignClose(w, k, t)
    PROVE  /\ wExec[w] \in Exec /\ exPos[wExec[w]] \in Pos
           /\ ~foreign'[exPos[wExec[w]]] => Tied(exPos[wExec[w]], t)
<1>0. foreign \in [Pos -> BOOLEAN]
  BY DEF TypeOK, PosTypeOK
<1>1. wExec[w] \in Exec /\ exPos[wExec[w]] \in Pos
  BY ThreadAttempt, MovedRowExists, RowPosition DEF SignClose, Persist, ExecutionStatus
<1>2. PICK p \in Pos : p = exPos[wExec[w]]
  BY <1>1
<1>3. foreign' = [foreign EXCEPT ![p] = @ \/ ~Own(p, t)]
  BY <1>2 DEF SignClose
<1>4. PICK x \in BOOLEAN : x <=> ~Own(p, t)
  OBVIOUS
<1>5. foreign'[p] <=> foreign[p] \/ ~Own(p, t)
  <2>1. foreign' = [foreign EXCEPT ![p] = @ \/ x]
    BY <1>3, <1>4
  <2> QED
    BY <1>0, <1>4, <2>1, MarkIs
<1>6. Born(t) \/ foreign[p]
  <2>1. CASE wTrade[w] = NULL
    BY <2>1 DEF SignClose, OpenTrades, Born
  <2>2. CASE wTrade[w] # NULL
    <3>1. t = wTrade[w] /\ wPc[w] = "claimed" /\ exAction[wExec[w]] = "CLOSE"
      BY <2>2 DEF SignClose
    <3> QED
      BY <1>2, <2>2, <3>1 DEF HandsAreOwn, HandIsOwn, Tied
  <2> QED
    BY <2>1, <2>2
<1> QED
  BY <1>1, <1>2, <1>5, <1>6 DEF Tied

\* A thread that keeps its attempt and its trade keeps what was known of them.
LEMMA HandStays ==
    ASSUME TypeOK, AttemptInv, OneOpenCommand, VenueFollowsChain, HandsAreOwn, [Next]_vars,
           NEW w \in Worker, wPc[w] # "idle",
           wExec'[w] = wExec[w], wTrade'[w] = wTrade[w],
           wPc'[w] # "claimed" => wPc[w] # "claimed"
    PROVE  HandIsOwn(w)'
<1>1. wExec[w] \in Exec /\ exStatus[wExec[w]] # "NONE" /\ exPos[wExec[w]] \in Pos
  BY ThreadAttempt, RowPosition DEF AttemptInv, WorkerMatchesRow
<1>2. PICK e \in Exec, p \in Pos, t \in Tx \union {NULL} :
        e = wExec[w] /\ p = exPos[e] /\ t = wTrade[w]
  BY <1>1 DEF TypeOK, WorkerTypeOK
<1>3. exAction'[e] = exAction[e] /\ exPos'[e] = p
  BY <1>1, <1>2, RowsKeepIdentity
<1>4. Tied(p, t) => Tied(p, t)'
  BY TiesStay
<1>5. ~foreign'[p] => ~foreign[p]
  BY ForeignStays
<1>6. exAction[e] = "CLOSE" =>
        /\ wPc[w] # "claimed" => t # NULL
        /\ t # NULL /\ ~foreign[p] => Tied(p, t)
  BY <1>2 DEF HandsAreOwn, HandIsOwn
<1>7. wExec'[w] = e /\ wTrade'[w] = t
  BY <1>2
<1>8. exAction'[e] = "CLOSE" =>
        /\ wPc'[w] # "claimed" => t # NULL
        /\ t # NULL /\ ~foreign'[p] => Tied(p, t)'
  BY <1>3, <1>4, <1>5, <1>6
<1> QED
  BY <1>3, <1>7, <1>8 DEF HandIsOwn, Tied, Own, Born

\* Claim and _resolve_position_index leave the thread with the position's own trade.
LEMMA HandsStep ==
    ASSUME TypeOK, AttemptInv, OneOpenCommand, VenueFollowsChain, TiesAreOwn, HandsAreOwn,
           [Next]_vars
    PROVE  HandsAreOwn'
<1>0. /\ wPc \in [Worker -> WorkerPc] /\ wExec \in [Worker -> Exec \union {NULL}]
      /\ wTrade \in [Worker -> Tx \union {NULL}]
  BY DEF TypeOK, WorkerTypeOK
<1>1. ASSUME NEW v \in Worker, HandIsOwn(v)',
             \A w \in Worker : w # v =>
               wPc'[w] = wPc[w] /\ wExec'[w] = wExec[w] /\ wTrade'[w] = wTrade[w]
      PROVE  HandsAreOwn'
  <2>1. ASSUME NEW w \in Worker PROVE HandIsOwn(w)'
    <3>1. CASE w = v
      BY <1>1, <3>1
    <3>2. CASE w # v /\ wPc[w] = "idle"
      BY <1>1, <3>2 DEF HandIsOwn
    <3>3. CASE w # v /\ wPc[w] # "idle"
      BY <1>1, <3>3, HandStays
    <3> QED
      BY <3>1, <3>2, <3>3
  <2> QED
    BY <2>1 DEF HandsAreOwn
<1>2. CASE UNCHANGED <<wPc, wExec, wTrade>>
  <2>1. ASSUME NEW w \in Worker PROVE HandIsOwn(w)'
    <3>1. CASE wPc[w] = "idle"
      BY <1>2, <3>1 DEF HandIsOwn
    <3>2. CASE wPc[w] # "idle"
      BY <1>2, <3>2, HandStays
    <3> QED
      BY <3>1, <3>2
  <2> QED
    BY <2>1 DEF HandsAreOwn
<1>3. ASSUME NEW v \in Worker, Release(v) PROVE HandsAreOwn'
  <2>1. /\ wPc'[v] = "idle"
        /\ \A w \in Worker : w # v =>
             wPc'[w] = wPc[w] /\ wExec'[w] = wExec[w] /\ wTrade'[w] = wTrade[w]
    BY <1>0, <1>3 DEF Release
  <2>2. HandIsOwn(v)'
    BY <2>1 DEF HandIsOwn
  <2> QED
    BY <1>1, <2>1, <2>2
<1>4. ASSUME NEW v \in Worker, NEW e \in Exec, Claim(v, e) PROVE HandsAreOwn'
  <2>1. /\ wPc'[v] = "claimed" /\ wExec'[v] = e /\ wTrade'[v] = posVenueId[exPos[e]]
        /\ \A w \in Worker : w # v =>
             wPc'[w] = wPc[w] /\ wExec'[w] = wExec[w] /\ wTrade'[w] = wTrade[w]
        /\ UNCHANGED <<exAction, exPos, posVenueId, venue, foreign>>
    BY <1>0, <1>4 DEF Claim, posVars, venueVars
  <2>2. exPos[e] \in Pos
    BY <1>4, RowPosition DEF Claim
  <2>3. HandIsOwn(v)'
    BY <2>1, <2>2 DEF HandIsOwn, TiesAreOwn, Tied, Own, Born
  <2> QED
    BY <1>1, <2>1, <2>3
<1>5. ASSUME NEW v \in Worker, NEW k \in 1 .. MaxTx, NEW t \in Tx, SignClose(v, k, t)
      PROVE  HandsAreOwn'
  <2>1. /\ wExec' = wExec /\ wTrade'[v] = t
        /\ \A w \in Worker : w # v => wPc'[w] = wPc[w] /\ wTrade'[w] = wTrade[w]
        /\ UNCHANGED <<exAction, exPos, venue>>
    BY <1>0, <1>5 DEF SignClose, Persist
  <2>2. /\ wExec[v] \in Exec /\ exPos[wExec[v]] \in Pos
        /\ ~foreign'[exPos[wExec[v]]] => Tied(exPos[wExec[v]], t)
    BY <1>5, SignedIsOwn
  <2>3. t # NULL
    BY NullAssumption
  <2>4. HandIsOwn(v)'
    BY <2>1, <2>2, <2>3 DEF HandIsOwn, Tied, Own, Born
  <2> QED
    BY <1>1, <2>1, <2>4
<1>6. ASSUME NEW v \in Worker,
             \/ \E k \in 1 .. MaxTx : SignOpen(v, k)
             \/ \E seen \in Tx \union {NULL} : MarkOpenResult(v, seen)
      PROVE  HandsAreOwn'
  <2>1. /\ exAction[wExec[v]] = "OPEN" /\ UNCHANGED <<wExec, exAction>>
        /\ \A w \in Worker : w # v => wPc'[w] = wPc[w] /\ wTrade'[w] = wTrade[w]
    BY <1>0, <1>6 DEF SignOpen, Persist, MarkOpenResult
  <2>2. HandIsOwn(v)'
    BY <2>1 DEF HandIsOwn
  <2> QED
    BY <1>1, <2>1, <2>2
<1>7. ASSUME NEW v \in Worker, Broadcast(v) \/ \E k \in 1 .. MaxTx : Resign(v, k)
      PROVE  HandsAreOwn'
  <2>1. /\ wPc[v] = "signed" /\ UNCHANGED <<wExec, wTrade>>
        /\ \A w \in Worker : w # v => wPc'[w] = wPc[w]
    BY <1>0, <1>7 DEF Broadcast, Resign, Persist
  <2>2. HandIsOwn(v)'
    BY <2>1, HandStays
  <2> QED
    BY <1>1, <2>1, <2>2
<1>8. \/ UNCHANGED <<wPc, wExec, wTrade>>
      \/ \E v \in Worker :
           \/ Release(v)
           \/ \E e \in Exec : Claim(v, e)
           \/ \E k \in 1 .. MaxTx, t \in Tx : SignClose(v, k, t)
           \/ \E k \in 1 .. MaxTx : SignOpen(v, k) \/ Resign(v, k)
           \/ \E seen \in Tx \union {NULL} : MarkOpenResult(v, seen)
           \/ Broadcast(v)
  BY DEF Next, WorkerStep, SignAgain, SignOverMined, VenueStep, AcceptOpen, AcceptClose,
     ReleaseStaleClaim, Redispatch,
     Rebroadcast, MarkCloseResult, Finish, MarkFailed, Crash, NonceTaken, Mine, KeeperOpens,
     KeeperCloses, VenueEnds, RecoverRead, RecoverApply, RecoverAbandon, ApplyEvent, wVars,
     vars
<1> QED
  BY <1>2, <1>3, <1>4, <1>5, <1>6, <1>7, <1>8

\* A transaction comes into being, and gets its target, when a thread signs it.
LEMMA TargetMoves ==
    ASSUME TypeOK, [Next]_vars
    PROVE  \/ \E w \in Worker, k \in 1 .. MaxTx :
                SignOpen(w, k) \/ Resign(w, k) \/ \E t \in Tx : SignClose(w, k, t)
           \/ /\ target' = target
              /\ \A u \in Tx : chain[u] = "none" => chain'[u] = "none"
<1> USE DEF TypeOK, VenueTypeOK
<1>1. ASSUME NEW w \in Worker, Broadcast(w)
      PROVE  target' = target /\ \A u \in Tx : chain[u] = "none" => chain'[u] = "none"
  <2>1. /\ target' = target
        /\ \/ chain' = chain
           \/ /\ chain[<<wExec[w], wTx[w]>>] = "signed"
              /\ chain' = [chain EXCEPT ![<<wExec[w], wTx[w]>>] = "pending"]
    BY <1>1 DEF Broadcast
  <2> QED
    BY <2>1
<1>2. ASSUME NEW e \in Exec, Rebroadcast(e)
      PROVE  target' = target /\ \A u \in Tx : chain[u] = "none" => chain'[u] = "none"
  BY <1>2 DEF Rebroadcast
<1>3. ASSUME NEW t \in Tx, NonceTaken(t) \/ \E outcome \in Mined : Mine(t, outcome)
      PROVE  target' = target /\ \A u \in Tx : chain[u] = "none" => chain'[u] = "none"
  BY <1>3 DEF NonceTaken, Mine
<1>4. ASSUME UNCHANGED <<chain, target>>
      PROVE  target' = target /\ \A u \in Tx : chain[u] = "none" => chain'[u] = "none"
  BY <1>4
<1>5. \/ UNCHANGED <<chain, target>>
      \/ \E w \in Worker : Broadcast(w)
      \/ \E e \in Exec : Rebroadcast(e)
      \/ \E t \in Tx : NonceTaken(t) \/ \E outcome \in Mined : Mine(t, outcome)
      \/ \E w \in Worker, k \in 1 .. MaxTx :
           SignOpen(w, k) \/ Resign(w, k) \/ \E t \in Tx : SignClose(w, k, t)
  BY ZenonT(60)
  DEF Next, WorkerStep, SignAgain, SignOverMined, VenueStep, AcceptOpen, AcceptClose,
  ReleaseStaleClaim, Redispatch,
     Claim, MarkOpenResult, MarkCloseResult, Finish, MarkFailed, Crash, KeeperOpens,
     KeeperCloses, VenueEnds, RecoverRead, RecoverApply, RecoverAbandon, ApplyEvent,
     venueVars, vars
<1> QED
  BY <1>1, <1>2, <1>3, <1>4, <1>5

\* What a close transaction that exists closes stays the position's own.
LEMMA TargetStays ==
    ASSUME TypeOK, AttemptInv, OneOpenCommand, VenueFollowsChain, TargetsAreOwn, [Next]_vars,
           NEW e \in Exec, NEW k \in 1 .. MaxTx, chain[<<e, k>>] # "none",
           target'[<<e, k>>] = target[<<e, k>>], exAction'[e] = "CLOSE", ~foreign'[exPos'[e]]
    PROVE  Tied(exPos[e], target[<<e, k>>])' 
<1>1. exStatus[e] # "NONE"
  BY DEF AttemptInv, SignedIsStored
<1>2. PICK p \in Pos : p = exPos[e]
  BY <1>1, RowPosition
<1>3. exAction'[e] = exAction[e] /\ exPos'[e] = p
  BY <1>1, <1>2, RowsKeepIdentity
<1>4. PICK u : u = target[<<e, k>>]
  OBVIOUS
<1>5. ~foreign[p]
  BY <1>3, ForeignStays
<1>6. Tied(p, u)
  BY <1>2, <1>3, <1>4, <1>5 DEF TargetsAreOwn
<1>7. Tied(p, u)'
  BY <1>6, TiesStay
<1> QED
  BY <1>3, <1>4, <1>7 DEF Tied, Own, Born

\* The trade a close is signed for is the one its thread has in hand.
LEMMA TargetsStep ==
    ASSUME TypeOK, AttemptInv, OneOpenCommand, VenueFollowsChain, HandsAreOwn, TargetsAreOwn,
           [Next]_vars
    PROVE  TargetsAreOwn'
<1>0. target \in [Tx -> Tx \union {NULL}] /\ chain \in [Tx -> ChainState]
  BY DEF TypeOK, VenueTypeOK
<1> SUFFICES ASSUME NEW e \in Exec, NEW k \in 1 .. MaxTx, exAction'[e] = "CLOSE",
                    chain'[<<e, k>>] # "none", ~foreign'[exPos'[e]]
             PROVE  Tied(exPos[e], target[<<e, k>>])'
  BY DEF TargetsAreOwn, Tied, Own, Born
<1>a. <<e, k>> \in Tx
  BY DEF Tx
<1>1. CASE target' = target /\ \A u \in Tx : chain[u] = "none" => chain'[u] = "none"
  BY <1>1, <1>a, TargetStays
<1>2. ASSUME NEW w \in Worker, NEW j \in 1 .. MaxTx, wPc[w] # "idle", Persist(w, j),
             \A u \in Tx : u # <<wExec[w], j>> => target'[u] = target[u]
      PROVE  (e = wExec[w] /\ k = j) \/ Tied(exPos[e], target[<<e, k>>])'
  <2>1. wExec[w] \in Exec
    BY <1>2, ThreadAttempt
  <2>2. chain' = [chain EXCEPT ![<<wExec[w], j>>] = "signed"]
    BY <1>2 DEF Persist
  <2>3. CASE <<e, k>> = <<wExec[w], j>>
    BY <2>3
  <2>4. CASE <<e, k>> # <<wExec[w], j>>
    BY <1>0, <1>2, <1>a, <2>2, <2>4, TargetStays
  <2> QED
    BY <2>3, <2>4
<1>3. ASSUME NEW w \in Worker, NEW j \in 1 .. MaxTx, SignOpen(w, j)
      PROVE  Tied(exPos[e], target[<<e, k>>])'
  <2>1. /\ wPc[w] # "idle" /\ Persist(w, j) /\ target' = target
        /\ exAction'[wExec[w]] = "OPEN"
    BY <1>3 DEF SignOpen
  <2> QED
    BY <1>2, <2>1
<1>4. ASSUME NEW w \in Worker, NEW j \in 1 .. MaxTx, Resign(w, j)
      PROVE  Tied(exPos[e], target[<<e, k>>])'
  <2>1. /\ wPc[w] = "signed" /\ Persist(w, j)
        /\ target' = [target EXCEPT ![<<wExec[w], j>>] = wTrade[w]]
        /\ UNCHANGED <<exAction, exPos, wExec, wTrade, venue, foreign>>
    BY <1>4 DEF Resign
  <2>2. wExec[w] \in Exec
    BY <2>1, ThreadAttempt
  <2>3. CASE e = wExec[w] /\ k = j
    <3>1. HandIsOwn(w)
      BY DEF HandsAreOwn
    <3>2. Tied(exPos[e], wTrade[w])
      BY <2>1, <2>3, <3>1 DEF HandIsOwn
    <3>3. target'[<<e, k>>] = wTrade[w]
      BY <1>0, <1>a, <2>1, <2>3
    <3> QED
      BY <2>1, <3>2, <3>3 DEF Tied, Own, Born
  <2>4. CASE ~(e = wExec[w] /\ k = j)
    BY <1>0, <1>2, <2>1, <2>4
  <2> QED
    BY <2>3, <2>4
<1>5. ASSUME NEW w \in Worker, NEW j \in 1 .. MaxTx, NEW t \in Tx, SignClose(w, j, t)
      PROVE  Tied(exPos[e], target[<<e, k>>])'
  <2>1. /\ wPc[w] # "idle" /\ Persist(w, j)
        /\ target' = [target EXCEPT ![<<wExec[w], j>>] = t]
        /\ UNCHANGED <<exAction, exPos, venue>>
    BY <1>5 DEF SignClose
  <2>2. wExec[w] \in Exec
    BY <2>1, ThreadAttempt
  <2>3. CASE e = wExec[w] /\ k = j
    <3>1. Tied(exPos[e], t)
      BY <1>5, <2>1, <2>3, SignedIsOwn
    <3>2. target'[<<e, k>>] = t
      BY <1>0, <1>a, <2>1, <2>3
    <3> QED
      BY <2>1, <3>1, <3>2 DEF Tied, Own, Born
  <2>4. CASE ~(e = wExec[w] /\ k = j)
    BY <1>0, <1>2, <2>1, <2>4
  <2> QED
    BY <2>3, <2>4
<1> QED
  BY <1>1, <1>3, <1>4, <1>5, TargetMoves

\* What the recovery loop reads of the venue is true, and stays true until it writes.
LEMMA ReadStep ==
    ASSUME TypeOK, AttemptInv, OneOpenCommand, VenueFollowsChain, TiesAreOwn, TargetsAreOwn,
           ReadIsTrue, [Next]_vars
    PROVE  ReadIsTrue'
<1>1. CASE rec' = NoRecovery
  BY <1>1 DEF ReadIsTrue, NoRecovery
<1>2. ASSUME rec' = rec, rec.exec # NULL PROVE ReadIsTrue'
  <2>1. PICK e \in Exec : e = rec.exec
    BY <1>2 DEF TypeOK, RecTypeOK
  <2>2. exStatus[e] # "NONE"
    <3>1. rec.tx \in 1 .. MaxTx /\ chain[<<e, rec.tx>>] # "none"
      BY <1>2, <2>1 DEF TypeOK, RecTypeOK, AttemptInv, RecoveryKnowsFate, Mined
    <3> QED
      BY <3>1 DEF AttemptInv, SignedIsStored
  <2>3. PICK p \in Pos : p = exPos[e]
    BY <2>2, RowPosition
  <2>4. exAction'[e] = exAction[e] /\ exPos'[e] = p
    BY <2>2, <2>3, RowsKeepIdentity
  <2>5. OwnIsGone(p) => OwnIsGone(p)'
    BY TiesStay
  <2>6. ~foreign'[p] => ~foreign[p]
    BY ForeignStays
  <2>7. PICK s \in Tx \union {NULL} : s = rec.seen
    BY DEF TypeOK, RecTypeOK
  <2>8. s # NULL /\ Born(s) => Born(s)'
    BY TradesStay
  <2>9. /\ s # NULL => Born(s)
        /\ rec.status = "confirmed" /\ s = NULL /\ exAction[e] = "CLOSE" /\ ~foreign[p]
             => OwnIsGone(p)
    BY <1>2, <2>1, <2>3, <2>7 DEF ReadIsTrue
  <2>10. /\ s # NULL => Born(s)'
         /\ rec.status = "confirmed" /\ s = NULL /\ exAction'[e] = "CLOSE" /\ ~foreign'[p]
              => OwnIsGone(p)'
    BY <2>4, <2>5, <2>6, <2>8, <2>9
  <2>11. rec'.exec = e /\ rec'.seen = s /\ rec'.status = rec.status
    BY <1>2, <2>1, <2>7
  <2> QED
    BY <2>4, <2>10, <2>11 DEF ReadIsTrue, OwnIsGone, Own, Born
<1>3. ASSUME NEW e \in Exec, NEW seen \in Tx \union {NULL}, RecoverRead(e, seen)
      PROVE  ReadIsTrue'
  <2>1. PICK k \in 1 .. MaxTx : k = exTx[e]
    BY <1>3 DEF RecoverRead, Recoverable, TypeOK, ExTypeOK
  <2>2. /\ rec'.exec = e /\ rec'.seen = seen
        /\ UNCHANGED <<exAction, exPos, venue, foreign, posVenueId, target>>
    BY <1>3 DEF RecoverRead, posVars, exVars, venueVars
  <2>3. PICK p \in Pos : p = exPos[e]
    BY <1>3, RowPosition DEF RecoverRead, Recoverable, AmbiguousStatus
  <2>4. seen # NULL => Born(seen)
    <3>1. ASSUME seen # NULL PROVE Snapshot(posVenueId[p], seen)
      BY <1>3, <2>3, <3>1 DEF RecoverRead
    <3> QED
      BY <3>1 DEF Snapshot, OpenTrades, Born
  <2>5. ASSUME rec'.status = "confirmed", seen = NULL, exAction[e] = "CLOSE", ~foreign[p]
        PROVE  OwnIsGone(p)
    <3>1. chain[<<e, k>>] = "confirmed" /\ Snapshot(posVenueId[p], NULL)
      BY <1>3, <2>1, <2>3, <2>5 DEF RecoverRead, Mined
    <3>2. CASE posVenueId[p] = NULL
      <4>1. Tied(p, target[<<e, k>>])
        BY <2>3, <2>5, <3>1 DEF TargetsAreOwn
      <4>2. OpenTrades = {}
        BY <3>1, <3>2, NullAssumption DEF Snapshot, OpenTrades
      <4> QED
        BY <4>1, <4>2 DEF Tied, Born, OpenTrades, OwnIsGone
    <3>3. CASE posVenueId[p] # NULL
      <4>1. Tied(p, posVenueId[p])
        BY <2>5, <3>3 DEF TiesAreOwn
      <4>2. venue[posVenueId[p]] # "open"
        BY <3>1, <3>3 DEF Snapshot
      <4> QED
        BY <4>1, <4>2 DEF Tied, Born, OwnIsGone
    <3> QED
      BY <3>2, <3>3
  <2> QED
    BY <2>2, <2>3, <2>4, <2>5 DEF ReadIsTrue, OwnIsGone, Own, Born
<1>4. \/ rec' \in {rec, NoRecovery}
      \/ \E e \in Exec, seen \in Tx \union {NULL} : RecoverRead(e, seen)
  BY ZenonT(60)
  DEF Next, WorkerStep, VenueStep, AcceptOpen, AcceptClose, ReleaseStaleClaim, Redispatch,
     Rebroadcast, Claim, SignOpen, SignAgain, SignOverMined, Resign, SignClose, Broadcast,
     MarkOpenResult,
     MarkCloseResult, Finish, MarkFailed, Crash, NonceTaken, Mine, KeeperOpens, KeeperCloses,
     VenueEnds, RecoverApply, RecoverAbandon, ApplyEvent, vars
<1>5. rec.exec = NULL => rec = NoRecovery
  BY DEF TypeOK, RecTypeOK
<1> QED
  BY <1>1, <1>2, <1>3, <1>4, <1>5

\* A position whose open command has failed is over.
LEMMA OpenFailedStays ==
    ASSUME TypeOK, AttemptInv, [Next]_vars, NEW p \in Pos, OpenFailed(p)
    PROVE  OpenFailed(p)'
<1>1. PICK e \in Exec : exAction[e] = "OPEN" /\ exPos[e] = p /\ exStatus[e] = "FAILED"
  BY DEF OpenFailed
<1>2. exAction'[e] = "OPEN" /\ exPos'[e] = p /\ exStatus'[e] = "FAILED"
  BY <1>1, FailedStays, RowsKeepIdentity
<1> QED
  BY <1>2 DEF OpenFailed

\* A step that ends a position ends it for one of the two reasons.
LEMMA OverBySettling ==
    ASSUME TypeOK, AttemptInv, OneOpenCommand, VenueFollowsChain, TargetsAreOwn, ReadIsTrue,
           OverIsSettled, [Next]_vars, NEW q \in Pos,
           \A p \in Pos : p # q => posStatus'[p] = posStatus[p],
           Terminal(q)' /\ ~foreign'[q] => Terminal(q) \/ OwnIsGone(q)' \/ OpenFailed(q)'
    PROVE  OverIsSettled'
<1>1. ASSUME NEW p \in Pos, Terminal(p)', ~foreign'[p], ~Terminal(p)
      PROVE  OwnIsGone(p)' \/ OpenFailed(p)'
  <2>1. p = q
    BY <1>1 DEF Terminal
  <2>2. OwnIsGone(q)' \/ OpenFailed(q)'
    BY <1>1, <2>1 DEF Terminal
  <2> QED
    BY <2>1, <2>2
<1>2. ASSUME NEW p \in Pos, Terminal(p), ~foreign'[p]
      PROVE  OwnIsGone(p)' \/ OpenFailed(p)'
  <2>1. OwnIsGone(p) \/ OpenFailed(p)
    BY <1>2, ForeignStays DEF OverIsSettled
  <2> QED
    BY <2>1, TiesStay, OpenFailedStays
<1> QED
  BY <1>1, <1>2 DEF OverIsSettled, OwnIsGone, OpenFailed, Own, Terminal

\* Whoever ends a position has a reason that holds: the position's own trade is gone, its
\* open command failed, or the position gets the mark.
LEMMA OverStep ==
    ASSUME TypeOK, AttemptInv, OneOpenCommand, VenueFollowsChain, TargetsAreOwn, ReadIsTrue,
           OverIsSettled, [Next]_vars
    PROVE  OverIsSettled'
<1>0. /\ posStatus \in [Pos -> PositionStatus \union {"NONE"}] /\ foreign \in [Pos -> BOOLEAN]
      /\ exStatus \in [Exec -> ExecutionStatus \union {"NONE"}]
  BY DEF TypeOK, PosTypeOK, ExTypeOK
<1>1. ASSUME posStatus' = posStatus PROVE OverIsSettled'
  BY <1>1, LiveAssumption, OverBySettling DEF Terminal, Pos
<1>2. ASSUME NEW q \in Pos, NEW s \in PositionStatus, MovePosition(q, s),
             s \in TerminalStatus /\ ~foreign'[q] /\ ~Terminal(q)
               => OwnIsGone(q)' \/ OpenFailed(q)'
      PROVE  OverIsSettled'
  <2>1. posStatus'[q] = s /\ \A p \in Pos : p # q => posStatus'[p] = posStatus[p]
    BY <1>0, <1>2 DEF MovePosition
  <2> QED
    BY <1>2, <2>1, OverBySettling DEF Terminal
<1>3. ASSUME NEW e \in Exec, MoveExecution(e, "FAILED"), exAction[e] = "OPEN",
             UNCHANGED <<exAction, exPos>>
      PROVE  OpenFailed(exPos[e])'
  <2>1. exStatus'[e] = "FAILED"
    BY <1>0, <1>3 DEF MoveExecution
  <2> QED
    BY <1>3, <2>1 DEF OpenFailed
<1> USE DEF PositionStatus, ActiveStatus, TerminalStatus
<1>4. ASSUME NEW p \in Pos, NEW e \in Exec, AcceptOpen(p, e) \/ AcceptClose(p, e)
      PROVE  OverIsSettled'
  <2>1. PICK s \in {"OPENING", "CLOSING"} : posStatus' = [posStatus EXCEPT ![p] = s]
    BY <1>4 DEF AcceptOpen, AcceptClose
  <2>2. posStatus'[p] = s /\ \A q \in Pos : q # p => posStatus'[q] = posStatus[q]
    BY <1>0, <2>1
  <2> QED
    BY <2>2, OverBySettling DEF Terminal
<1>5. ASSUME NEW w \in Worker, NEW seen \in Tx \union {NULL}, MarkOpenResult(w, seen)
      PROVE  OverIsSettled'
  <2>1. PICK e \in Exec, p \in Pos : e = wExec[w] /\ p = exPos[e]
    BY <1>5, ThreadAttempt, MovedRowExists, RowPosition DEF MarkOpenResult, ExecutionStatus
  <2>2. exAction[e] = "OPEN" /\ UNCHANGED <<exAction, exPos>>
    BY <1>5, <2>1 DEF MarkOpenResult
  <2>3. \/ posStatus' = posStatus
        \/ MovePosition(p, "OPEN")
        \/ MovePosition(p, "CLOSED") /\ MoveExecution(e, "FAILED")
    BY <1>5, <2>1 DEF MarkOpenResult
  <2> QED
    BY <1>1, <1>2, <1>3, <2>1, <2>2, <2>3
<1>6. ASSUME NEW w \in Worker, NEW closed \in BOOLEAN, MarkCloseResult(w, closed)
      PROVE  OverIsSettled'
  <2>1. PICK e \in Exec, p \in Pos : e = wExec[w] /\ p = exPos[e]
    BY <1>6, ThreadAttempt, MovedRowExists, RowPosition DEF MarkCloseResult, ExecutionStatus
  <2>2. PICK k \in 1 .. MaxTx : k = wTx[w] /\ chain[<<e, k>>] \in Mined
    BY <1>6, <2>1, SentIsStored DEF MarkCloseResult
  <2>3. exAction[e] = "CLOSE" /\ UNCHANGED <<exAction, exPos, venue, target>>
    BY <1>6, <2>1 DEF MarkCloseResult, venueVars
  <2>4. \/ posStatus' = posStatus
        \/ MovePosition(p, "UNKNOWN")
        \/ /\ MovePosition(p, "CLOSED")
           /\ foreign' = [foreign EXCEPT ![p] = @ \/ venue[target[<<e, k>>]] = "open"]
    BY <1>6, <2>1, <2>2 DEF MarkCloseResult
  <2>5. ASSUME foreign' = [foreign EXCEPT ![p] = @ \/ venue[target[<<e, k>>]] = "open"],
               ~foreign'[p]
        PROVE  OwnIsGone(p)'
    <3>1. PICK x \in BOOLEAN : x <=> venue[target[<<e, k>>]] = "open"
      OBVIOUS
    <3>2. foreign' = [foreign EXCEPT ![p] = @ \/ x]
      BY <2>5, <3>1
    <3>3. ~foreign[p] /\ ~x
      BY <1>0, <2>5, <3>2, MarkIs
    <3>4. Tied(p, target[<<e, k>>])
      BY <2>1, <2>2, <2>3, <3>3 DEF TargetsAreOwn, Mined
    <3>5. OwnIsGone(p)
      BY <3>1, <3>3, <3>4 DEF Tied, Born, OwnIsGone
    <3> QED
      BY <3>5, TiesStay
  <2> QED
    BY <1>1, <1>2, <2>4, <2>5
<1>7. ASSUME NEW w \in Worker, MarkFailed(w)
      PROVE  OverIsSettled'
  <2>1. CASE posStatus' = posStatus
    BY <1>1, <2>1
  <2>2. CASE posStatus' # posStatus
    <3>1. PICK e \in Exec : e = wExec[w]
      BY <1>7, ThreadAttempt DEF MarkFailed
    <3>2. exStatus[e] # "NONE"
      BY <1>7, <2>2, <3>1, MovedRowExists DEF MarkFailed, ExecutionStatus
    <3>3. PICK p \in Pos : p = exPos[e]
      BY <3>2, RowPosition
    <3>4. UNCHANGED <<exAction, exPos>>
      BY <1>7 DEF MarkFailed
    <3>5. \/ MovePosition(p, "UNKNOWN")
          \/ MovePosition(p, "CLOSED") /\ MoveExecution(e, "FAILED") /\ exAction[e] # "CLOSE"
      BY <1>7, <2>2, <3>1, <3>3 DEF MarkFailed
    <3>6. exAction[e] # "CLOSE" => exAction[e] = "OPEN"
      BY <3>2 DEF OneOpenCommand, TypeOK, ExTypeOK
    <3> QED
      BY <1>2, <1>3, <3>3, <3>4, <3>5, <3>6
  <2> QED
    BY <2>1, <2>2
<1>8. ASSUME RecoverApply PROVE OverIsSettled'
  <2>1. PICK e \in Exec, p \in Pos : e = rec.exec /\ p = exPos[e]
    BY <1>8, RecoveredRow
  <2>2. UNCHANGED <<exAction, exPos, venue>>
    BY <1>8 DEF RecoverApply, venueVars
  <2>3. \/ posStatus' = posStatus
        \/ \E s \in ActiveStatus : MovePosition(p, s)
        \/ MovePosition(p, "CLOSED") /\ MoveExecution(e, "FAILED") /\ exAction[e] = "OPEN"
        \/ MovePosition(p, "CLOSED") /\ RecoveredClose(e, p)
    BY <1>8, <2>1 DEF RecoverApply, RecoveredUnknown, RecoveredReverted, RecoveredOpen,
       RecoveredClose, RecoveredAwaiting
  <2>4. ASSUME RecoveredClose(e, p), ~foreign'[p] PROVE OwnIsGone(p)'
    <3>1. /\ rec.status = "confirmed" /\ rec.seen = NULL /\ exAction[e] = "CLOSE"
          /\ ~foreign[p]
      BY <2>4 DEF RecoveredClose
    <3>2. OwnIsGone(p)
      BY <2>1, <3>1, NullAssumption DEF ReadIsTrue
    <3> QED
      BY <3>2, TiesStay
  <2> QED
    BY <1>1, <1>2, <1>3, <2>1, <2>2, <2>3, <2>4
<1>9. ASSUME NEW t \in Tx, NEW reason \in TerminalReason, NEW p \in Pos,
             ApplyEvent(t, reason, p)
      PROVE  OverIsSettled'
  <2>1. /\ venue[t] \in Gone /\ UNCHANGED <<exAction, exPos, venue>>
        /\ foreign' = [foreign EXCEPT ![p] = @ \/ ~Own(p, t)]
    BY <1>9 DEF ApplyEvent, exVars, venueVars
  <2>2. ~foreign'[p] => OwnIsGone(p)'
    <3>1. PICK x \in BOOLEAN : x <=> ~Own(p, t)
      OBVIOUS
    <3>2. foreign' = [foreign EXCEPT ![p] = @ \/ x]
      BY <2>1, <3>1
    <3>3. ~foreign'[p] => Own(p, t)
      BY <1>0, <3>1, <3>2, MarkIs
    <3> QED
      BY <2>1, <3>3 DEF OwnIsGone, Own
  <2>3. posStatus' = posStatus \/ MovePosition(p, "LIQUIDATED") \/ MovePosition(p, "CLOSED")
    BY <1>9 DEF ApplyEvent
  <2> QED
    BY <1>1, <1>2, <2>2, <2>3
<1>10. \/ posStatus' = posStatus
       \/ \E p \in Pos, e \in Exec : AcceptOpen(p, e) \/ AcceptClose(p, e)
       \/ \E w \in Worker : \/ \E seen \in Tx \union {NULL} : MarkOpenResult(w, seen)
                            \/ \E closed \in BOOLEAN : MarkCloseResult(w, closed)
                            \/ MarkFailed(w)
       \/ RecoverApply
       \/ \E t \in Tx, reason \in TerminalReason, p \in Pos : ApplyEvent(t, reason, p)
  BY DEF Next, WorkerStep, VenueStep, ReleaseStaleClaim, Redispatch, Rebroadcast, Claim,
     SignOpen, SignAgain, SignOverMined, Resign, SignClose, Broadcast, Finish, Crash,
     NonceTaken, Mine, KeeperOpens,
     KeeperCloses, VenueEnds, RecoverRead, RecoverAbandon, posVars, vars
<1> QED
  BY <1>1, <1>4, <1>5, <1>6, <1>7, <1>8, <1>9, <1>10

\* Nothing is tied to anything at first.
LEMMA OrphanInvInit == Init => OrphanInv
<1> SUFFICES ASSUME Init PROVE OrphanInv
    OBVIOUS
<1> USE DEF Init
<1>1. OneOpenCommand /\ VenueFollowsChain /\ TiesAreOwn /\ HandsAreOwn /\ TargetsAreOwn
  BY DEF OneOpenCommand, VenueFollowsChain, TiesAreOwn, HandsAreOwn, HandIsOwn, TargetsAreOwn
<1>2. ReadIsTrue /\ OverIsSettled
  BY DEF ReadIsTrue, OverIsSettled, Terminal, NoRecovery, TerminalStatus
<1> QED
  BY <1>1, <1>2 DEF OrphanInv

\* Every step keeps the ties of the positions to their trades.
LEMMA OrphanInvStep ==
    ASSUME TypeOK, AttemptInv, OrphanInv, [Next]_vars
    PROVE  OrphanInv'
<1> USE DEF OrphanInv
<1>1. OneOpenCommand' /\ VenueFollowsChain'
  BY OneOpenStep, VenueFollowsStep
<1>2. TiesAreOwn' /\ HandsAreOwn'
  BY TiesStep, HandsStep
<1>3. TargetsAreOwn'
  BY TargetsStep
<1>4. ReadIsTrue'
  BY ReadStep
<1>5. OverIsSettled'
  BY OverStep
<1> QED
  BY <1>1, <1>2, <1>3, <1>4, <1>5

\* The open transaction of a position that is over for its own trade is that trade.
LEMMA OrphansFollow ==
    ASSUME TypeOK, AttemptInv, FailedHasNoEffect, OrphanInv
    PROVE  OrphanNeedsForeign
<1> SUFFICES ASSUME NEW p \in Pos, NEW t \in Tx, Terminal(p), ~foreign[p], Own(p, t),
                    t[1] \notin overlooked
             PROVE  chain[t] \in {"none", "dead", "reverted"} \/ venue[t] \in Gone
  BY DEF OrphanNeedsForeign
<1>1. PICK e \in Exec, k \in 1 .. MaxTx : t = <<e, k>>
  BY DEF Tx
<1>2. exAction[e] = "OPEN" /\ exPos[e] = p /\ e \notin overlooked
  BY <1>1 DEF Own
<1>3. CASE OwnIsGone(p)
  <2>1. PICK u \in Tx : Own(p, u) /\ venue[u] \in Gone
    BY <1>3 DEF OwnIsGone
  <2>2. PICK f \in Exec, j \in 1 .. MaxTx : u = <<f, j>>
    BY DEF Tx
  <2>3. f = e
    BY <1>2, <2>1, <2>2 DEF Own, OrphanInv, OneOpenCommand
  <2>4. chain[u] = "confirmed"
    BY <2>1 DEF OrphanInv, VenueFollowsChain, Gone
  <2>5. exTx[e] = j
    BY <1>2, <2>2, <2>3, <2>4 DEF AttemptInv, TxIsRecorded
  <2>6. chain[t] \notin {"none", "dead"} => k = j
    BY <1>1, <1>2, <2>5 DEF AttemptInv, TxIsRecorded
  <2> QED
    BY <1>1, <2>1, <2>2, <2>3, <2>6
<1>4. CASE OpenFailed(p)
  <2>1. exStatus[e] = "FAILED"
    BY <1>2, <1>4 DEF OpenFailed, OrphanInv, OneOpenCommand
  <2> QED
    BY <1>1, <1>2, <2>1 DEF FailedHasNoEffect
<1> QED
  BY <1>3, <1>4 DEF OrphanInv, OverIsSettled

\* A position is recorded as over beside its own live order or trade only after it was tied
\* to a trade that is not its own, or because its open was signed again over a mined
\* transaction: the worker, the recovery loop and the event reducer, in any order, never
\* lose a trade whose identity they kept.
THEOREM OrphansAreForeign == ASSUME ~SlowPreparation PROVE Spec => []OrphanNeedsForeign
<1>1. TypeOK /\ AttemptInv /\ OrphanInv /\ [Next]_vars => OrphanInv'
  BY OrphanInvStep
<1>2. TypeOK /\ AttemptInv /\ FailedHasNoEffect /\ OrphanInv => OrphanNeedsForeign
  BY OrphansFollow
<1>3. Spec => []TypeOK /\ []AttemptInv /\ []FailedHasNoEffect
  BY TypeCorrect, AttemptsAreExclusive, FailedIsHarmless, PTL
<1> QED
  BY OrphanInvInit, <1>1, <1>2, <1>3, PTL DEF Spec
=============================================================================
