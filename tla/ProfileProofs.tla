--------------------------- MODULE ProfileProofs ---------------------------
(***************************************************************************)
(* TradingProfiles for every number of positions, attempts, threads,       *)
(* requests, venues, amounts and seasons: types, books and the isolation   *)
(* of the profiles.                                                        *)
(***************************************************************************)
EXTENDS TradingProfiles, TLAPS

-----------------------------------------------------------------------------
(* Types.                                                                  *)

\* The season of a profile is a season.
LEMMA SeasonType ==
    ASSUME TypeOK, NEW m \in Mode
    PROVE  SeasonOf(m) \in Season
BY ProfileAssumption DEF TypeOK, DemoTypeOK, SeasonOf, Season

\* The attempt a thread holds exists, and so does its position.
LEMMA ThreadAttempt ==
    ASSUME TypeOK, NEW w \in Worker, wExec[w] # NULL
    PROVE  /\ wExec[w] \in Exec
           /\ exStatus[wExec[w]] # "NONE"
           /\ exPos[wExec[w]] \in Pos
BY DEF TypeOK, WorkerTypeOK, ExTypeOK

\* A booking concerns a position whose quote is of the current season.
LEMMA BookedQuote ==
    ASSUME TypeOK, NEW p \in Pos, InSeason(p)
    PROVE  /\ posQuote[p] \in Quote
           /\ posQuote[p].season = season
           /\ posQuote[p].ticket \in Nat
           /\ season \in Season
<1>1. posQuote[p] \in Quote
  BY DEF TypeOK, PosTypeOK, InSeason, Demo
<1>2. posQuote[p].ticket \in Ticket
  BY <1>1 DEF Quote
<1> QED
  BY <1>1, <1>2, ProfileAssumption DEF InSeason, TypeOK, DemoTypeOK

\* A table move keeps the statuses of the attempts, and the row exists.
LEMMA ExecutionMoveType ==
    ASSUME TypeOK, NEW e \in Exec, NEW to \in ExecutionStatus, MoveExecution(e, to)
    PROVE  /\ exStatus[e] # "NONE"
           /\ exStatus' \in [Exec -> ExecutionStatus \union {"NONE"}]
           /\ \A x \in Exec : exStatus'[x] = IF x = e THEN to ELSE exStatus[x]
<1>1. exStatus[e] # "NONE"
  BY DEF MoveExecution, CanExecutionTransition, ExecutionStatus
<1>2. exStatus \in [Exec -> ExecutionStatus \union {"NONE"}]
  BY DEF TypeOK, ExTypeOK
<1> QED
  BY <1>1, <1>2 DEF MoveExecution

\* A table move keeps the statuses of the positions, and the row exists.
LEMMA PositionMoveType ==
    ASSUME TypeOK, NEW p \in Pos, NEW to \in PositionStatus, MovePosition(p, to)
    PROVE  /\ posStatus[p] # "NONE"
           /\ posStatus' \in [Pos -> PositionStatus \union {"NONE"}]
           /\ \A x \in Pos : posStatus'[x] = IF x = p THEN to ELSE posStatus[x]
<1>1. posStatus[p] # "NONE"
  BY DEF MovePosition, CanTransition, PositionStatus, ActiveStatus, TerminalStatus
<1>2. posStatus \in [Pos -> PositionStatus \union {"NONE"}]
  BY DEF TypeOK, PosTypeOK
<1> QED
  BY <1>1, <1>2 DEF MovePosition

\* Every move of a position stays active or over, or ends it for good.
LEMMA NoRevival ==
    ASSUME TypeOK, NEW p \in Pos, NEW to \in PositionStatus, MovePosition(p, to)
    PROVE  \A x \in Pos : Active(x)' => Active(x)
<1>1. posStatus[p] \in TerminalStatus => to \in TerminalStatus
  BY DEF MovePosition, CanTransition, TerminalStatus
<1>2. posStatus[p] \in ActiveStatus \union TerminalStatus
  BY PositionMoveType DEF TypeOK, PosTypeOK, PositionStatus
<1>3. to \in TerminalStatus => to \notin ActiveStatus
  BY DEF TerminalStatus, ActiveStatus
<1> QED
  BY <1>1, <1>2, <1>3, PositionMoveType DEF Active

\* Requests and switches of the API keep the types.
LEMMA UserTypes ==
    ASSUME TypeOK, UserStep
    PROVE  TypeOK'
<1> USE DEF userVars, demoVars, posVars, exVars, wVars
<1>1. ASSUME NEW m \in Mode, SwitchMode(m) PROVE TypeOK'
  BY <1>1 DEF SwitchMode, TypeOK, UserTypeOK, DemoTypeOK, PosTypeOK, ExTypeOK, WorkerTypeOK
<1>2. ASSUME NEW v \in Venue, SwitchVenue(v) PROVE TypeOK'
  BY <1>2 DEF SwitchVenue, TypeOK, UserTypeOK, DemoTypeOK, PosTypeOK, ExTypeOK, WorkerTypeOK
<1>3. CASE ResetDemo
  <2>1. season' \in Season
    BY <1>3, ProfileAssumption DEF ResetDemo, Season, TypeOK, DemoTypeOK
  <2>2. balance' \in Nat /\ ending' \in [Season -> Nat] /\ ledger' \in [Season -> Int]
    BY <1>3, ProfileAssumption DEF ResetDemo, TypeOK, DemoTypeOK
  <2> QED
    BY <1>3, <2>1, <2>2
       DEF ResetDemo, TypeOK, UserTypeOK, DemoTypeOK, PosTypeOK, ExTypeOK, WorkerTypeOK
<1>4. ASSUME NEW ticket \in Ticket, CreateQuote(ticket) PROVE TypeOK'
  <2>1. SeasonOf(mode) \in Season
    BY SeasonType DEF TypeOK, UserTypeOK
  <2>2. quotes' \subseteq Quote
    BY <1>4, <2>1 DEF CreateQuote, Quote, TypeOK, UserTypeOK
  <2> QED
    BY <1>4, <2>2
       DEF CreateQuote, TypeOK, UserTypeOK, DemoTypeOK, PosTypeOK, ExTypeOK, WorkerTypeOK
<1>5. ASSUME NEW q \in Quote, ExpireQuote(q) PROVE TypeOK'
  BY <1>5 DEF ExpireQuote, TypeOK, UserTypeOK, DemoTypeOK, PosTypeOK, ExTypeOK, WorkerTypeOK
<1> QED
  BY <1>1, <1>2, <1>3, <1>4, <1>5 DEF UserStep

\* A new attempt belongs to a position and rows of other attempts stay.
LEMMA NewExecutionType ==
    ASSUME TypeOK, NEW e \in Exec, NEW action \in {"OPEN", "CLOSE"}, NEW p \in Pos,
           NewExecution(e, action, p)
    PROVE  /\ ExTypeOK'
           /\ \A x \in Exec : exStatus[x] # "NONE" => exStatus'[x] = exStatus[x]
<1>1. exStatus' \in [Exec -> ExecutionStatus \union {"NONE"}]
  BY DEF NewExecution, TypeOK, ExTypeOK, ExecutionStatus
<1>2. exAction' \in [Exec -> {"OPEN", "CLOSE", "NONE"}] /\ exPos' \in [Exec -> 0 .. MaxPos]
  BY DEF NewExecution, TypeOK, ExTypeOK, Pos
<1>3. \A x \in Exec : exStatus'[x] # "NONE" => exPos'[x] \in Pos
  BY DEF NewExecution, TypeOK, ExTypeOK
<1> QED
  BY <1>1, <1>2, <1>3 DEF NewExecution, ExTypeOK, TypeOK

\* A request keeps the types, whichever mode it read.
LEMMA RequestTypes ==
    ASSUME TypeOK, NEW r \in Request, RequestStep(r)
    PROVE  TypeOK'
<1> USE DEF userVars, demoVars, posVars, exVars, wVars
<1>1. CASE ReadMode(r)
  BY <1>1 DEF ReadMode, TypeOK, UserTypeOK, DemoTypeOK, PosTypeOK, ExTypeOK, WorkerTypeOK
<1>2. CASE Refuse(r)
  BY <1>2 DEF Refuse, TypeOK, UserTypeOK, DemoTypeOK, PosTypeOK, ExTypeOK, WorkerTypeOK
<1>3. ASSUME NEW q \in Quote, NEW p \in Pos, NEW e \in Exec, AcceptOpen(r, q, p, e)
      PROVE  TypeOK'
  <2>1. NewExecution(e, "OPEN", p)
    BY <1>3 DEF AcceptOpen
  <2>2. ExTypeOK' /\ \A x \in Exec : exStatus[x] # "NONE" => exStatus'[x] = exStatus[x]
    BY <2>1, NewExecutionType
  <2>3. posStatus' \in [Pos -> PositionStatus \union {"NONE"}]
    BY <1>3 DEF AcceptOpen, TypeOK, PosTypeOK, PositionStatus, ActiveStatus
  <2>4. /\ posQuote' \in [Pos -> Quote \union {NULL}]
        /\ \A x \in Pos : posStatus'[x] # "NONE" => posQuote'[x] \in Quote
    BY <1>3 DEF AcceptOpen, TypeOK, PosTypeOK
  <2>5. PosTypeOK'
    BY <1>3, <2>3, <2>4 DEF AcceptOpen, TypeOK, PosTypeOK
  <2>6. WorkerTypeOK'
    BY <1>3, <2>2 DEF AcceptOpen, TypeOK, WorkerTypeOK
  <2>7. UserTypeOK' /\ DemoTypeOK'
    BY <1>3 DEF AcceptOpen, TypeOK, UserTypeOK, DemoTypeOK
  <2> QED
    BY <2>2, <2>5, <2>6, <2>7 DEF TypeOK
<1>4. ASSUME NEW p \in Pos, NEW e \in Exec, AcceptClose(r, p, e)
      PROVE  TypeOK'
  <2>1. NewExecution(e, "CLOSE", p)
    BY <1>4 DEF AcceptClose
  <2>2. ExTypeOK' /\ \A x \in Exec : exStatus[x] # "NONE" => exStatus'[x] = exStatus[x]
    BY <2>1, NewExecutionType
  <2>3. posStatus[p] # "NONE"
    BY <1>4 DEF AcceptClose, ClosableStatus
  <2>4. posStatus' \in [Pos -> PositionStatus \union {"NONE"}]
    BY <1>4 DEF AcceptClose, TypeOK, PosTypeOK, PositionStatus, ActiveStatus
  <2>5. PosTypeOK'
    BY <1>4, <2>3, <2>4 DEF AcceptClose, TypeOK, PosTypeOK
  <2>6. WorkerTypeOK'
    BY <1>4, <2>2 DEF AcceptClose, TypeOK, WorkerTypeOK
  <2>7. UserTypeOK' /\ DemoTypeOK'
    BY <1>4 DEF AcceptClose, TypeOK, UserTypeOK, DemoTypeOK
  <2> QED
    BY <2>2, <2>5, <2>6, <2>7 DEF TypeOK
<1> QED
  BY <1>1, <1>2, <1>3, <1>4 DEF RequestStep

\* A booking that leaves the balance a natural number keeps the demo types.
LEMMA BookType ==
    ASSUME TypeOK, NEW s \in Season, NEW amount \in Int, balance + amount \in Nat,
           Book(s, amount), UNCHANGED <<season, ending>>
    PROVE  DemoTypeOK'
BY DEF Book, TypeOK, DemoTypeOK

\* A position that moves by the table keeps its quote and its types.
LEMMA MovedPosType ==
    ASSUME TypeOK, NEW p \in Pos, NEW to \in PositionStatus, MovePosition(p, to),
           UNCHANGED posQuote,
           posEntry' \in [Pos -> BOOLEAN], locks' \in [Pos -> Nat],
           settlements' \in [Pos -> Nat]
    PROVE  PosTypeOK'
<1>1. \A x \in Pos : posStatus'[x] # "NONE" => posQuote'[x] \in Quote
  BY PositionMoveType DEF TypeOK, PosTypeOK
<1> QED
  BY <1>1, PositionMoveType DEF TypeOK, PosTypeOK

\* An attempt that moves by the table keeps its position; its thread lets go.
LEMMA MovedExType ==
    ASSUME TypeOK, NEW w \in Worker, NEW e \in Exec, NEW to \in ExecutionStatus,
           MoveExecution(e, to), Release(w), UNCHANGED <<exAction, exPos, monitor>>
    PROVE  ExTypeOK' /\ WorkerTypeOK'
<1>1. to # "NONE"
  BY DEF ExecutionStatus
<1>2. \A x \in Exec : exStatus[x] = "NONE" <=> exStatus'[x] = "NONE"
  BY <1>1, ExecutionMoveType
<1>3. ExTypeOK'
  BY <1>2, ExecutionMoveType DEF TypeOK, ExTypeOK
<1>4. wExec' \in [Worker -> Exec \union {NULL}] /\ wEntry' \in [Worker -> BOOLEAN]
  BY DEF Release, TypeOK, WorkerTypeOK
<1>5. \A v \in Worker : wExec'[v] # NULL => wExec'[v] = wExec[v]
  BY DEF Release, TypeOK, WorkerTypeOK
<1>6. \A v \in Worker : wExec'[v] # NULL => exStatus'[wExec'[v]] # "NONE"
  BY <1>2, <1>5 DEF TypeOK, WorkerTypeOK
<1> QED
  BY <1>3, <1>4, <1>6 DEF TypeOK, WorkerTypeOK

\* One more event of a position is still a number of events.
LEMMA OneMore ==
    ASSUME NEW f \in [Pos -> Nat], NEW p \in Pos
    PROVE  [f EXCEPT ![p] = @ + 1] \in [Pos -> Nat]
OBVIOUS

\* Threads keep the types: what they book exists and can be paid.
LEMMA WorkerTypes ==
    ASSUME TypeOK, NEW w \in Worker, WorkerStep(w)
    PROVE  TypeOK'
<1> USE DEF userVars, demoVars, posVars, exVars, wVars
<1>1. ASSUME NEW e \in Exec, Claim(w, e) PROVE TypeOK'
  <2>1. "CLAIMED" \in ExecutionStatus /\ "CLAIMED" # "NONE"
    BY DEF ExecutionStatus
  <2>2. /\ exStatus[e] # "NONE"
        /\ exStatus' \in [Exec -> ExecutionStatus \union {"NONE"}]
        /\ \A x \in Exec : exStatus'[x] = IF x = e THEN "CLAIMED" ELSE exStatus[x]
    BY <1>1, <2>1, ExecutionMoveType DEF Claim
  <2>3. ExTypeOK'
    BY <1>1, <2>1, <2>2 DEF Claim, TypeOK, ExTypeOK
  <2>4. wExec' \in [Worker -> Exec \union {NULL}]
    BY <1>1 DEF Claim, TypeOK, WorkerTypeOK
  <2>5. wEntry' \in [Worker -> BOOLEAN]
    <3>1. (exAction[e] = "CLOSE" /\ posEntry[exPos[e]]) \in BOOLEAN
      BY <2>2 DEF TypeOK, ExTypeOK, PosTypeOK
    <3>2. wEntry \in [Worker -> BOOLEAN]
      BY DEF TypeOK, WorkerTypeOK
    <3> QED
      BY <1>1, <3>1, <3>2 DEF Claim
  <2>6. \A v \in Worker : wExec'[v] = IF v = w THEN e ELSE wExec[v]
    BY <1>1 DEF Claim, TypeOK, WorkerTypeOK
  <2>7. \A v \in Worker : wExec'[v] # NULL => exStatus'[wExec'[v]] # "NONE"
    BY <2>1, <2>2, <2>6 DEF TypeOK, WorkerTypeOK
  <2>8. WorkerTypeOK'
    BY <1>1, <2>4, <2>5, <2>7 DEF Claim, TypeOK, WorkerTypeOK
  <2>9. UserTypeOK' /\ DemoTypeOK' /\ PosTypeOK'
    BY <1>1 DEF Claim, TypeOK, UserTypeOK, DemoTypeOK, PosTypeOK
  <2> QED
    BY <2>3, <2>8, <2>9 DEF TypeOK
<1>2. CASE BookOpen(w)
  <2> DEFINE e == wExec[w]
             p == exPos[e]
  <2>1. e \in Exec /\ p \in Pos
    BY <1>2, ThreadAttempt DEF BookOpen
  <2>2. InSeason(p) /\ balance >= posQuote[p].ticket /\ Book(posQuote[p].season, -posQuote[p].ticket)
    BY <1>2 DEF BookOpen
  <2>3. posQuote[p].ticket \in Nat /\ posQuote[p].season \in Season
    BY <2>1, <2>2, BookedQuote
  <2>4. balance + (-posQuote[p].ticket) \in Nat
    BY <2>2, <2>3 DEF TypeOK, DemoTypeOK
  <2>5. DemoTypeOK'
    BY <1>2, <2>2, <2>3, <2>4, BookType DEF BookOpen
  <2>6. MovePosition(p, "OPEN") /\ MoveExecution(e, "VENUE_EXECUTED") /\ Release(w)
    BY <1>2 DEF BookOpen
  <2>7. "OPEN" \in PositionStatus /\ "VENUE_EXECUTED" \in ExecutionStatus
    BY DEF PositionStatus, ActiveStatus, ExecutionStatus
  <2>8. posEntry' \in [Pos -> BOOLEAN] /\ locks' \in [Pos -> Nat] /\ settlements' \in [Pos -> Nat]
    <3>1. posEntry' = [posEntry EXCEPT ![p] = TRUE] /\ posEntry \in [Pos -> BOOLEAN]
      BY <1>2 DEF BookOpen, TypeOK, PosTypeOK
    <3>2. locks' = [locks EXCEPT ![p] = @ + 1] /\ locks \in [Pos -> Nat]
      BY <1>2 DEF BookOpen, TypeOK, PosTypeOK
    <3>3. settlements' \in [Pos -> Nat]
      BY <1>2 DEF BookOpen, TypeOK, PosTypeOK
    <3> QED
      BY <2>1, <3>1, <3>2, <3>3, OneMore
  <2>9. PosTypeOK'
    BY <1>2, <2>1, <2>6, <2>7, <2>8, MovedPosType DEF BookOpen
  <2>10. ExTypeOK' /\ WorkerTypeOK'
    BY <1>2, <2>1, <2>6, <2>7, MovedExType DEF BookOpen
  <2> QED
    BY <1>2, <2>5, <2>9, <2>10 DEF BookOpen, TypeOK, UserTypeOK
<1>3. ASSUME NEW returned \in Returned, NEW liquidated \in BOOLEAN,
             BookClose(w, returned, liquidated)
      PROVE  TypeOK'
  <2> DEFINE e == wExec[w]
             p == exPos[e]
  <2>1. e \in Exec /\ p \in Pos
    BY <1>3, ThreadAttempt DEF BookClose
  <2>2. InSeason(p) /\ Book(posQuote[p].season, returned)
    BY <1>3 DEF BookClose
  <2>3. posQuote[p].season \in Season /\ returned \in Nat /\ balance + returned \in Nat
    BY <2>1, <2>2, BookedQuote, ProfileAssumption DEF TypeOK, DemoTypeOK
  <2>4. DemoTypeOK'
    BY <1>3, <2>2, <2>3, BookType DEF BookClose
  <2>5. MovePosition(p, EndedBy(liquidated)) /\ MoveExecution(e, "VENUE_EXECUTED") /\ Release(w)
    BY <1>3 DEF BookClose
  <2>6. EndedBy(liquidated) \in PositionStatus /\ "VENUE_EXECUTED" \in ExecutionStatus
    BY DEF EndedBy, PositionStatus, TerminalStatus, ExecutionStatus
  <2>7. posEntry' \in [Pos -> BOOLEAN] /\ locks' \in [Pos -> Nat] /\ settlements' \in [Pos -> Nat]
    <3>1. posEntry' \in [Pos -> BOOLEAN] /\ locks' \in [Pos -> Nat]
      BY <1>3 DEF BookClose, TypeOK, PosTypeOK
    <3>2. settlements' = [settlements EXCEPT ![p] = @ + 1] /\ settlements \in [Pos -> Nat]
      BY <1>3 DEF BookClose, TypeOK, PosTypeOK
    <3> QED
      BY <2>1, <3>1, <3>2, OneMore
  <2>8. PosTypeOK'
    BY <1>3, <2>1, <2>5, <2>6, <2>7, MovedPosType DEF BookClose
  <2>9. ExTypeOK' /\ WorkerTypeOK'
    BY <1>3, <2>1, <2>5, <2>6, MovedExType DEF BookClose
  <2> QED
    BY <1>3, <2>4, <2>8, <2>9 DEF BookClose, TypeOK, UserTypeOK
<1>4. CASE MarkFailed(w)
  <2> DEFINE e == wExec[w]
             p == exPos[e]
  <2>1. e \in Exec /\ p \in Pos
    BY <1>4, ThreadAttempt DEF MarkFailed
  <2>2. MoveExecution(e, "FAILED") /\ Release(w) /\ "FAILED" \in ExecutionStatus
    BY <1>4 DEF MarkFailed, ExecutionStatus
  <2>3. ExTypeOK' /\ WorkerTypeOK'
    BY <1>4, <2>1, <2>2, MovedExType DEF MarkFailed
  <2>4. posEntry' \in [Pos -> BOOLEAN] /\ locks' \in [Pos -> Nat] /\ settlements' \in [Pos -> Nat]
    BY <1>4 DEF MarkFailed, TypeOK, PosTypeOK
  <2>5. posStatus' = posStatus \/ MovePosition(p, "UNKNOWN") \/ MovePosition(p, "CLOSED")
    BY <1>4 DEF MarkFailed
  <2>6. "UNKNOWN" \in PositionStatus /\ "CLOSED" \in PositionStatus
    BY DEF PositionStatus, ActiveStatus, TerminalStatus
  <2>7. PosTypeOK'
    <3>1. CASE posStatus' = posStatus
      BY <1>4, <3>1 DEF MarkFailed, TypeOK, PosTypeOK
    <3>2. ASSUME NEW to \in PositionStatus, MovePosition(p, to) PROVE PosTypeOK'
      BY <1>4, <2>1, <2>4, <3>2, MovedPosType DEF MarkFailed
    <3> QED
      BY <2>5, <2>6, <3>1, <3>2
  <2> QED
    BY <1>4, <2>3, <2>7 DEF MarkFailed, TypeOK, UserTypeOK, DemoTypeOK
<1>5. CASE Crash(w)
  <2>1. WorkerTypeOK'
    BY <1>5 DEF Crash, Release, TypeOK, WorkerTypeOK
  <2> QED
    BY <1>5, <2>1 DEF Crash, TypeOK, UserTypeOK, DemoTypeOK, PosTypeOK, ExTypeOK
<1> QED
  BY <1>1, <1>2, <1>3, <1>4, <1>5 DEF WorkerStep

\* The monitor, the scan for stale claims and live trading keep the types.
LEMMA OtherTypes ==
    ASSUME TypeOK,
           \/ MonitorStep
           \/ \E e \in Exec : ReleaseStaleClaim(e)
           \/ \E p \in Pos, to \in PositionStatus : LiveMoves(p, to)
    PROVE  TypeOK'
<1> USE DEF userVars, demoVars, posVars, exVars, wVars
<1>1. ASSUME NEW p \in Pos, MonitorRead(p) PROVE TypeOK'
  BY <1>1, ProfileAssumption
     DEF MonitorRead, TypeOK, UserTypeOK, DemoTypeOK, PosTypeOK, ExTypeOK, WorkerTypeOK, Pos
<1>2. ASSUME NEW returned \in Returned, NEW liquidated \in BOOLEAN,
             MonitorSettle(returned, liquidated)
      PROVE  TypeOK'
  <2> DEFINE p == monitor
  <2>1. p \in Pos
    BY <1>2, ProfileAssumption DEF MonitorSettle, TypeOK, WorkerTypeOK, Pos
  <2>2. InSeason(p) /\ Book(posQuote[p].season, returned) /\ MovePosition(p, EndedBy(liquidated))
    BY <1>2 DEF MonitorSettle
  <2>3. posQuote[p].season \in Season /\ returned \in Nat /\ balance + returned \in Nat
    BY <2>1, <2>2, BookedQuote, ProfileAssumption DEF TypeOK, DemoTypeOK
  <2>4. DemoTypeOK'
    BY <1>2, <2>2, <2>3, BookType DEF MonitorSettle
  <2>5. EndedBy(liquidated) \in PositionStatus
    BY DEF EndedBy, PositionStatus, TerminalStatus
  <2>6. posEntry' \in [Pos -> BOOLEAN] /\ locks' \in [Pos -> Nat] /\ settlements' \in [Pos -> Nat]
    <3>1. posEntry' \in [Pos -> BOOLEAN] /\ locks' \in [Pos -> Nat]
      BY <1>2 DEF MonitorSettle, TypeOK, PosTypeOK
    <3>2. settlements' = [settlements EXCEPT ![p] = @ + 1] /\ settlements \in [Pos -> Nat]
      BY <1>2 DEF MonitorSettle, TypeOK, PosTypeOK
    <3> QED
      BY <2>1, <3>1, <3>2, OneMore
  <2>7. PosTypeOK'
    BY <1>2, <2>1, <2>2, <2>5, <2>6, MovedPosType DEF MonitorSettle
  <2>8. WorkerTypeOK' /\ ExTypeOK'
    BY <1>2, ProfileAssumption DEF MonitorSettle, TypeOK, WorkerTypeOK, ExTypeOK
  <2> QED
    BY <1>2, <2>4, <2>7, <2>8 DEF MonitorSettle, TypeOK, UserTypeOK
<1>3. CASE MonitorSkip
  BY <1>3, ProfileAssumption
     DEF MonitorSkip, TypeOK, UserTypeOK, DemoTypeOK, PosTypeOK, ExTypeOK, WorkerTypeOK
<1>4. ASSUME NEW e \in Exec, ReleaseStaleClaim(e) PROVE TypeOK'
  <2>1. \A x \in Exec : exStatus'[x] = IF x = e THEN "CREATED" ELSE exStatus[x]
    BY <1>4 DEF ReleaseStaleClaim, TypeOK, ExTypeOK
  <2>2. exStatus' \in [Exec -> ExecutionStatus \union {"NONE"}]
    BY <1>4 DEF ReleaseStaleClaim, TypeOK, ExTypeOK, ExecutionStatus
  <2>3. ExTypeOK' /\ WorkerTypeOK'
    BY <1>4, <2>1, <2>2 DEF ReleaseStaleClaim, TypeOK, ExTypeOK, WorkerTypeOK
  <2> QED
    BY <1>4, <2>3 DEF ReleaseStaleClaim, TypeOK, UserTypeOK, DemoTypeOK, PosTypeOK
<1>5. ASSUME NEW p \in Pos, NEW to \in PositionStatus, LiveMoves(p, to) PROVE TypeOK'
  <2>1. posEntry' \in [Pos -> BOOLEAN] /\ locks' \in [Pos -> Nat] /\ settlements' \in [Pos -> Nat]
    BY <1>5 DEF LiveMoves, TypeOK, PosTypeOK
  <2>2. PosTypeOK'
    BY <1>5, <2>1, MovedPosType DEF LiveMoves
  <2> QED
    BY <1>5, <2>2 DEF LiveMoves, TypeOK, UserTypeOK, DemoTypeOK, ExTypeOK, WorkerTypeOK
<1> QED
  BY <1>1, <1>2, <1>3, <1>4, <1>5 DEF MonitorStep

\* Initially every variable has its type.
LEMMA InitTypes == ASSUME Init PROVE TypeOK
<1>1. UserTypeOK /\ DemoTypeOK
  BY ProfileAssumption DEF Init, UserTypeOK, DemoTypeOK, Season
<1>2. PosTypeOK /\ ExTypeOK
  BY ProfileAssumption DEF Init, PosTypeOK, ExTypeOK
<1>3. WorkerTypeOK
  BY ProfileAssumption DEF Init, WorkerTypeOK
<1> QED
  BY <1>1, <1>2, <1>3 DEF TypeOK

\* Every variable keeps its type.  The balance of the demo profile never goes
\* below zero, and a thread only ever works on an attempt of a position.
THEOREM TypesHold == Spec => []TypeOK
<1>1. Init => TypeOK
  BY InitTypes
<1>2. TypeOK /\ [Next]_vars => TypeOK'
  <2> SUFFICES ASSUME TypeOK, [Next]_vars PROVE TypeOK'
    OBVIOUS
  <2>1. CASE Next
    BY <2>1, UserTypes, RequestTypes, WorkerTypes, OtherTypes DEF Next
  <2>2. CASE UNCHANGED vars
    BY <2>2 DEF vars, userVars, demoVars, posVars, exVars, wVars, TypeOK, UserTypeOK,
                DemoTypeOK, PosTypeOK, ExTypeOK, WorkerTypeOK
  <2> QED
    BY <2>1, <2>2
<1> QED
  BY <1>1, <1>2, PTL DEF Spec

-----------------------------------------------------------------------------
(* The books.                                                              *)

\* The books agree and nothing has been booked for a season to come.
BooksInv ==
    /\ BooksAgree
    /\ \A s \in Season : s > season => ledger[s] = 0

\* A booking for the current season keeps the books: earlier seasons are left
\* alone and the balance moves with the events.
LEMMA BookKeeps ==
    ASSUME TypeOK, BooksInv, NEW amount \in Int, Book(season, amount),
           UNCHANGED <<season, ending>>
    PROVE  BooksInv'
<1>1. season \in Season /\ balance \in Nat /\ ledger \in [Season -> Int]
  BY DEF TypeOK, DemoTypeOK
<1>2. \A s \in Season : ledger'[s] = IF s = season THEN ledger[s] + amount ELSE ledger[s]
  BY <1>1 DEF Book
<1>3. balance' = StartBalance + ledger'[season]
  BY <1>1, <1>2, ProfileAssumption DEF Book, BooksInv, BooksAgree
<1>4. \A s \in 1 .. (season - 1) : s \in Season /\ s # season
  BY <1>1, ProfileAssumption DEF Season
<1>5. \A s \in Season : s > season => s # season
  BY ProfileAssumption DEF Season
<1> QED
  BY <1>2, <1>3, <1>4, <1>5 DEF BooksInv, BooksAgree

\* A reset closes the books of one season and starts those of the next.
LEMMA ResetKeeps ==
    ASSUME TypeOK, BooksInv, ResetDemo
    PROVE  BooksInv'
<1>1. season \in Season /\ season + 1 \in Season /\ season' = season + 1
  BY ProfileAssumption DEF ResetDemo, TypeOK, DemoTypeOK, Season
<1>2. ledger' = ledger /\ balance' = StartBalance
  BY DEF ResetDemo
<1>3. ledger[season + 1] = 0
  BY <1>1, ProfileAssumption DEF BooksInv, Season
<1>4. ending \in [Season -> Nat]
  BY DEF TypeOK, DemoTypeOK
<1>5. \A s \in Season : ending'[s] = IF s = season THEN balance ELSE ending[s]
  BY <1>4 DEF ResetDemo
<1>6. \A s \in 1 .. ((season + 1) - 1) : s \in Season /\ (s = season \/ s \in 1 .. (season - 1))
  BY <1>1, ProfileAssumption DEF Season
<1>7. \A s \in 1 .. (season' - 1) : ending'[s] = StartBalance + ledger'[s]
  BY <1>1, <1>2, <1>5, <1>6 DEF BooksInv, BooksAgree
<1>8. \A s \in Season : s > season' => ledger'[s] = 0
  BY <1>1, <1>2, ProfileAssumption DEF BooksInv, Season
<1> QED
  BY <1>1, <1>2, <1>3, <1>7, <1>8, ProfileAssumption DEF BooksInv, BooksAgree

\* What books: the fill of an open, the fill of a close, the monitor.  Each asks
\* for the profile in the season of the position.
LEMMA BookingsKeep ==
    ASSUME TypeOK, BooksInv,
           \/ \E w \in Worker : \/ BookOpen(w)
                                \/ \E returned \in Returned, liquidated \in BOOLEAN :
                                      BookClose(w, returned, liquidated)
           \/ \E returned \in Returned, liquidated \in BOOLEAN :
                 MonitorSettle(returned, liquidated)
    PROVE  BooksInv'
<1>1. ASSUME NEW w \in Worker, BookOpen(w) PROVE BooksInv'
  <2> DEFINE p == exPos[wExec[w]]
  <2>1. p \in Pos /\ InSeason(p)
    BY <1>1, ThreadAttempt DEF BookOpen
  <2>2. Book(season, -posQuote[p].ticket) /\ -posQuote[p].ticket \in Int
    BY <1>1, <2>1, BookedQuote DEF BookOpen
  <2> QED
    BY <1>1, <2>2, BookKeeps DEF BookOpen
<1>2. ASSUME NEW w \in Worker, NEW returned \in Returned, NEW liquidated \in BOOLEAN,
             BookClose(w, returned, liquidated)
      PROVE  BooksInv'
  <2> DEFINE p == exPos[wExec[w]]
  <2>1. p \in Pos /\ InSeason(p)
    BY <1>2, ThreadAttempt DEF BookClose
  <2>2. Book(season, returned) /\ returned \in Int
    BY <1>2, <2>1, BookedQuote, ProfileAssumption DEF BookClose
  <2> QED
    BY <1>2, <2>2, BookKeeps DEF BookClose
<1>3. ASSUME NEW returned \in Returned, NEW liquidated \in BOOLEAN,
             MonitorSettle(returned, liquidated)
      PROVE  BooksInv'
  <2>1. monitor \in Pos /\ InSeason(monitor)
    BY <1>3, ProfileAssumption DEF MonitorSettle, TypeOK, WorkerTypeOK, Pos
  <2>2. Book(season, returned) /\ returned \in Int
    BY <1>3, <2>1, BookedQuote, ProfileAssumption DEF MonitorSettle
  <2> QED
    BY <1>3, <2>2, BookKeeps DEF MonitorSettle
<1> QED
  BY <1>1, <1>2, <1>3

\* Whatever else happens leaves the demo profile, its resets and its ledger.
LEMMA OthersDoNotBook ==
    ASSUME [Next]_vars
    PROVE  \/ ResetDemo
           \/ \E w \in Worker : \/ BookOpen(w)
                                \/ \E returned \in Returned, liquidated \in BOOLEAN :
                                      BookClose(w, returned, liquidated)
           \/ \E returned \in Returned, liquidated \in BOOLEAN :
                 MonitorSettle(returned, liquidated)
           \/ UNCHANGED demoVars
<1>1. CASE UNCHANGED vars
  BY <1>1 DEF vars
<1>2. CASE UserStep
  BY <1>2 DEF UserStep, SwitchMode, SwitchVenue, CreateQuote, ExpireQuote
<1>3. ASSUME NEW r \in Request, RequestStep(r) PROVE UNCHANGED demoVars
  BY <1>3 DEF RequestStep, ReadMode, Refuse, AcceptOpen, AcceptClose
<1>4. ASSUME NEW w \in Worker, WorkerStep(w)
      PROVE  \/ BookOpen(w)
             \/ \E returned \in Returned, liquidated \in BOOLEAN :
                   BookClose(w, returned, liquidated)
             \/ UNCHANGED demoVars
  BY <1>4 DEF WorkerStep, Claim, MarkFailed, Crash
<1>5. CASE MonitorStep
  BY <1>5 DEF MonitorStep, MonitorRead, MonitorSkip
<1>6. ASSUME NEW e \in Exec, ReleaseStaleClaim(e) PROVE UNCHANGED demoVars
  BY <1>6 DEF ReleaseStaleClaim
<1>7. ASSUME NEW p \in Pos, NEW to \in PositionStatus, LiveMoves(p, to)
      PROVE  UNCHANGED demoVars
  BY <1>7 DEF LiveMoves
<1> QED
  BY <1>1, <1>2, <1>3, <1>4, <1>5, <1>6, <1>7 DEF Next

\* The balance is what the ledger of the season says, and the audit record of
\* a season that has ended stays what its ledger says, for ever.
THEOREM BooksHold == Spec => []BooksAgree
<1>1. Init => BooksInv
  BY ProfileAssumption DEF Init, BooksInv, BooksAgree, Season
<1>2. TypeOK /\ BooksInv /\ [Next]_vars => BooksInv'
  <2> SUFFICES ASSUME TypeOK, BooksInv, [Next]_vars PROVE BooksInv'
    OBVIOUS
  <2>1. CASE UNCHANGED demoVars
    BY <2>1 DEF demoVars, BooksInv, BooksAgree
  <2> QED
    BY <2>1, OthersDoNotBook, ResetKeeps, BookingsKeep
<1>3. BooksInv => BooksAgree
  BY DEF BooksInv
<1> QED
  BY <1>1, <1>2, <1>3, TypesHold, PTL DEF Spec

-----------------------------------------------------------------------------
(* The isolation of the profiles.                                          *)

\* Nothing that isolation speaks of is touched: no position becomes active,
\* none changes its quote, and season and venue stay.
Quiet ==
    /\ UNCHANGED <<season, venue, posQuote>>
    /\ \A x \in Pos : Active(x)' => Active(x)

IsolationInv == OneActivePerProfile /\ ActiveInSeason /\ ActiveOnActiveVenue

\* A quiet step keeps the isolation.
LEMMA QuietKeeps ==
    ASSUME IsolationInv, Quiet
    PROVE  IsolationInv'
BY DEF IsolationInv, OneActivePerProfile, ActiveInSeason, ActiveOnActiveVenue, Quiet, SeasonOf

\* What a thread does is quiet: it moves its position along the table.
LEMMA WorkerIsQuiet ==
    ASSUME TypeOK, NEW w \in Worker, WorkerStep(w)
    PROVE  Quiet
<1> USE DEF userVars, demoVars, posVars, exVars, wVars
<1>1. ASSUME NEW e \in Exec, Claim(w, e) PROVE Quiet
  BY <1>1 DEF Claim, Quiet, Active
<1>2. CASE BookOpen(w)
  <2>1. exPos[wExec[w]] \in Pos /\ MovePosition(exPos[wExec[w]], "OPEN")
    BY <1>2, ThreadAttempt DEF BookOpen
  <2>2. "OPEN" \in PositionStatus
    BY DEF PositionStatus, ActiveStatus
  <2> QED
    BY <1>2, <2>1, <2>2, NoRevival DEF BookOpen, Quiet
<1>3. ASSUME NEW returned \in Returned, NEW liquidated \in BOOLEAN,
             BookClose(w, returned, liquidated)
      PROVE  Quiet
  <2>1. exPos[wExec[w]] \in Pos /\ MovePosition(exPos[wExec[w]], EndedBy(liquidated))
    BY <1>3, ThreadAttempt DEF BookClose
  <2>2. EndedBy(liquidated) \in PositionStatus
    BY DEF EndedBy, PositionStatus, TerminalStatus
  <2> QED
    BY <1>3, <2>1, <2>2, NoRevival DEF BookClose, Quiet
<1>4. CASE MarkFailed(w)
  <2>1. exPos[wExec[w]] \in Pos
    BY <1>4, ThreadAttempt DEF MarkFailed
  <2>2. \/ posStatus' = posStatus
        \/ MovePosition(exPos[wExec[w]], "UNKNOWN") \/ MovePosition(exPos[wExec[w]], "CLOSED")
    BY <1>4 DEF MarkFailed
  <2>3. "UNKNOWN" \in PositionStatus /\ "CLOSED" \in PositionStatus
    BY DEF PositionStatus, ActiveStatus, TerminalStatus
  <2>4. \A x \in Pos : Active(x)' => Active(x)
    BY <2>1, <2>2, <2>3, NoRevival DEF Active
  <2> QED
    BY <1>4, <2>4 DEF MarkFailed, Quiet
<1>5. CASE Crash(w)
  BY <1>5 DEF Crash, Quiet, Active
<1> QED
  BY <1>1, <1>2, <1>3, <1>4, <1>5 DEF WorkerStep

\* A close command moves a position that is active already.
LEMMA CloseIsQuiet ==
    ASSUME TypeOK, NEW r \in Request, NEW p \in Pos, NEW e \in Exec, AcceptClose(r, p, e)
    PROVE  Quiet
<1>1. Active(p)
  BY DEF AcceptClose, Active, ActiveStatus, ClosableStatus
<1>2. \A x \in Pos : x # p => posStatus'[x] = posStatus[x]
  BY DEF AcceptClose, TypeOK, PosTypeOK
<1> QED
  BY <1>1, <1>2 DEF AcceptClose, Quiet, Active, demoVars

\* The monitor, the scan, live trading and the rest of the API are quiet.
LEMMA OthersAreQuiet ==
    ASSUME TypeOK,
           \/ MonitorStep
           \/ \E e \in Exec : ReleaseStaleClaim(e)
           \/ \E p \in Pos, to \in PositionStatus : LiveMoves(p, to)
           \/ \E r \in Request : ReadMode(r) \/ Refuse(r)
           \/ \E m \in Mode : SwitchMode(m)
           \/ \E ticket \in Ticket : CreateQuote(ticket)
           \/ \E q \in Quote : ExpireQuote(q)
           \/ UNCHANGED vars
    PROVE  Quiet
<1> USE DEF userVars, demoVars, posVars, exVars, wVars
<1>1. ASSUME NEW returned \in Returned, NEW liquidated \in BOOLEAN,
             MonitorSettle(returned, liquidated)
      PROVE  Quiet
  <2>1. monitor \in Pos /\ MovePosition(monitor, EndedBy(liquidated))
    BY <1>1, ProfileAssumption DEF MonitorSettle, TypeOK, WorkerTypeOK, Pos
  <2>2. EndedBy(liquidated) \in PositionStatus
    BY DEF EndedBy, PositionStatus, TerminalStatus
  <2> QED
    BY <1>1, <2>1, <2>2, NoRevival DEF MonitorSettle, Quiet
<1>2. ASSUME NEW p \in Pos, NEW to \in PositionStatus, LiveMoves(p, to) PROVE Quiet
  BY <1>2, NoRevival DEF LiveMoves, Quiet
<1>3. ASSUME NEW p \in Pos, MonitorRead(p) PROVE Quiet
  BY <1>3 DEF MonitorRead, Quiet, Active
<1>4. CASE MonitorSkip
  BY <1>4 DEF MonitorSkip, Quiet, Active
<1>5. ASSUME NEW e \in Exec, ReleaseStaleClaim(e) PROVE Quiet
  BY <1>5 DEF ReleaseStaleClaim, Quiet, Active
<1>6. ASSUME NEW r \in Request, ReadMode(r) \/ Refuse(r) PROVE Quiet
  BY <1>6 DEF ReadMode, Refuse, Quiet, Active
<1>7. ASSUME NEW m \in Mode, SwitchMode(m) PROVE Quiet
  BY <1>7 DEF SwitchMode, Quiet, Active
<1>8. ASSUME NEW ticket \in Ticket, CreateQuote(ticket) PROVE Quiet
  BY <1>8 DEF CreateQuote, Quiet, Active
<1>9. ASSUME NEW q \in Quote, ExpireQuote(q) PROVE Quiet
  BY <1>9 DEF ExpireQuote, Quiet, Active
<1>10. CASE UNCHANGED vars
  BY <1>10 DEF vars, Quiet, Active
<1> QED
  BY <1>1, <1>2, <1>3, <1>4, <1>5, <1>6, <1>7, <1>8, <1>9, <1>10 DEF MonitorStep

\* A reset of an idle demo season keeps the isolation: the active positions, if
\* any, are live ones.
LEMMA ResetIsolates ==
    ASSUME TypeOK, IsolationInv, ResetDemo
    PROVE  IsolationInv'
<1>1. UNCHANGED <<venue, posQuote, posStatus>>
  BY DEF ResetDemo, userVars, posVars
<1>2. \A p \in Pos : Active(p) => posQuote[p].mode # "demo"
  BY DEF ResetDemo, ActiveIn, IsolationInv, ActiveInSeason, SeasonOf
<1> QED
  BY <1>1, <1>2
     DEF IsolationInv, OneActivePerProfile, ActiveInSeason, ActiveOnActiveVenue, Active, SeasonOf

\* The venue changes only while nothing is active.
LEMMA VenueIsolates ==
    ASSUME IsolationInv, NEW v \in Venue, SwitchVenue(v)
    PROVE  IsolationInv'
BY DEF IsolationInv, OneActivePerProfile, ActiveInSeason, ActiveOnActiveVenue, Active, SeasonOf,
       SwitchVenue, AnyActive, demoVars, posVars

\* An accepted open finds its profile without an active position, and its quote
\* is of that profile's season and of the active venue.
LEMMA OpenIsolates ==
    ASSUME TypeOK, IsolationInv, NEW r \in Request, NEW q \in Quote, NEW p \in Pos, NEW e \in Exec,
           AcceptOpen(r, q, p, e)
    PROVE  IsolationInv'
<1>1. UNCHANGED <<venue, season>>
  BY DEF AcceptOpen, demoVars
<1>2. \A x \in Pos : posQuote'[x] = IF x = p THEN q ELSE posQuote[x]
  BY DEF AcceptOpen, TypeOK, PosTypeOK
<1>3. \A x \in Pos : x # p => (Active(x)' <=> Active(x))
  BY DEF AcceptOpen, TypeOK, PosTypeOK, Active
<1>4. q.season = SeasonOf(q.mode) /\ q.venue = venue
  BY DEF AcceptOpen
<1>5. \A x \in Pos : Active(x) => posQuote[x].mode # q.mode
  BY <1>4 DEF AcceptOpen, ActiveIn, IsolationInv, ActiveInSeason
<1>6. OneActivePerProfile'
  BY <1>2, <1>3, <1>5 DEF IsolationInv, OneActivePerProfile
<1>7. ActiveInSeason'
  BY <1>1, <1>2, <1>3, <1>4 DEF IsolationInv, ActiveInSeason, SeasonOf
<1>8. ActiveOnActiveVenue'
  BY <1>1, <1>2, <1>3, <1>4 DEF IsolationInv, ActiveOnActiveVenue
<1> QED
  BY <1>6, <1>7, <1>8 DEF IsolationInv

\* The invariant behind the three theorems below.
LEMMA IsolationHolds == Spec => []IsolationInv
<1>1. Init => IsolationInv
  BY DEF Init, IsolationInv, OneActivePerProfile, ActiveInSeason, ActiveOnActiveVenue, Active,
         ActiveStatus
<1>2. TypeOK /\ IsolationInv /\ [Next]_vars => IsolationInv'
  <2> SUFFICES ASSUME TypeOK, IsolationInv, [Next]_vars PROVE IsolationInv'
    OBVIOUS
  <2>1. CASE UserStep
    BY <2>1, OthersAreQuiet, QuietKeeps, ResetIsolates, VenueIsolates DEF UserStep
  <2>2. ASSUME NEW r \in Request, RequestStep(r) PROVE IsolationInv'
    BY <2>2, OthersAreQuiet, CloseIsQuiet, QuietKeeps, OpenIsolates DEF RequestStep
  <2>3. ASSUME NEW w \in Worker, WorkerStep(w) PROVE IsolationInv'
    BY <2>3, WorkerIsQuiet, QuietKeeps
  <2>4. ASSUME \/ MonitorStep
               \/ \E e \in Exec : ReleaseStaleClaim(e)
               \/ \E p \in Pos, to \in PositionStatus : LiveMoves(p, to)
               \/ UNCHANGED vars
        PROVE  IsolationInv'
    BY <2>4, OthersAreQuiet, QuietKeeps
  <2> QED
    BY <2>1, <2>2, <2>3, <2>4 DEF Next
<1> QED
  BY <1>1, <1>2, TypesHold, PTL DEF Spec

\* At most one position of each mode is active, although accept_open counts
\* only in the current season and reads the mode before it takes its locks.
THEOREM OneActiveHolds == Spec => []OneActivePerProfile
<1>1. IsolationInv => OneActivePerProfile
  BY DEF IsolationInv
<1> QED
  BY <1>1, IsolationHolds, PTL

\* No reset strands an active position in an ended season.
THEOREM SeasonHolds == Spec => []ActiveInSeason
<1>1. IsolationInv => ActiveInSeason
  BY DEF IsolationInv
<1> QED
  BY <1>1, IsolationHolds, PTL

\* The venue of an active position is the active venue, so the user is shown it.
THEOREM VenueHolds == Spec => []ActiveOnActiveVenue
<1>1. IsolationInv => ActiveOnActiveVenue
  BY DEF IsolationInv
<1> QED
  BY <1>1, IsolationHolds, PTL
-----------------------------------------------------------------------------
(* Collateral follows the position.                                        *)

\* A thread holds a claimed attempt of a demo position, and no other thread
\* does; the entry price it remembers is still there.
HandsHold ==
    \A w \in Worker : wExec[w] # NULL =>
        /\ exStatus[wExec[w]] = "CLAIMED"
        /\ Demo(exPos[wExec[w]])
        /\ wEntry[w] => posEntry[exPos[wExec[w]]]
        /\ \A v \in Worker : wExec[v] = wExec[w] => v = w

\* A position is opened by one attempt.
OneOpening ==
    \A e, f \in Exec :
        /\ exStatus[e] # "NONE" /\ exAction[e] = "OPEN"
        /\ exStatus[f] # "NONE" /\ exAction[f] = "OPEN"
        /\ exPos[e] = exPos[f]
        => e = f

\* Until that attempt is through its position has no entry price.
OpeningIsUnfilled ==
    \A e \in Exec : exAction[e] = "OPEN" /\ exStatus[e] \in {"CREATED", "CLAIMED"} =>
        ~posEntry[exPos[e]]

\* An attempt is inserted with or after its position and opens or closes it.
RowsExist ==
    \A e \in Exec : exStatus[e] # "NONE" =>
        posStatus[exPos[e]] # "NONE" /\ exAction[e] # "NONE"

\* Nothing is booked on a row that does not exist.
EmptyRows ==
    \A p \in Pos : posStatus[p] = "NONE" =>
        ~posEntry[p] /\ locks[p] = 0 /\ settlements[p] = 0

AttemptsHold == HandsHold /\ OneOpening /\ OpeningIsUnfilled /\ RowsExist

CollateralInv == AttemptsHold /\ EmptyRows /\ CollateralFollows

\* The books of one demo position: what CollateralFollows says of it.
BookedRight(p) ==
    /\ locks[p] = IF posEntry[p] THEN 1 ELSE 0
    /\ Active(p) \/ ~posEntry[p] => settlements[p] = 0
    /\ posStatus[p] = "OPEN" => posEntry[p]
    /\ Terminal(p) /\ posEntry[p] => settlements[p] > 0

\* If all rows but one keep their status and their books, that one is left.
LEMMA OtherBooksKeep ==
    ASSUME EmptyRows, CollateralFollows, NEW p \in Pos, UNCHANGED posQuote,
           \A x \in Pos \ {p} :
               /\ posStatus'[x] = posStatus[x] /\ posEntry'[x] = posEntry[x]
               /\ locks'[x] = locks[x] /\ settlements'[x] = settlements[x],
           posStatus'[p] # "NONE", Demo(p)' => BookedRight(p)'
    PROVE  EmptyRows' /\ CollateralFollows'
<1>1. EmptyRows'
  BY DEF EmptyRows
<1>2. ASSUME NEW x \in Pos, x # p, Demo(x)' PROVE BookedRight(x)'
  <2>1. Demo(x)
    BY <1>2 DEF Demo
  <2> QED
    BY <1>2, <2>1 DEF CollateralFollows, BookedRight, Active, Terminal
<1> QED
  BY <1>1, <1>2 DEF CollateralFollows, BookedRight

\* Rows that keep status, quote and books keep the invariant's second half.
LEMMA SameBooksKeep ==
    ASSUME EmptyRows, CollateralFollows, UNCHANGED posVars
    PROVE  EmptyRows' /\ CollateralFollows'
BY DEF EmptyRows, CollateralFollows, Demo, Active, Terminal, posVars

\* Attempts and threads that nothing touches stay as they are.
LEMMA SameAttempts ==
    ASSUME TypeOK, AttemptsHold,
           UNCHANGED <<exStatus, exAction, exPos, wExec, wEntry, posEntry, posQuote>>,
           \A x \in Pos : posStatus[x] # "NONE" => posStatus'[x] # "NONE"
    PROVE  AttemptsHold'
<1>1. \A x \in Pos : Demo(x) => Demo(x)'
  BY DEF Demo
<1>2. \A w \in Worker : wExec[w] # NULL => Demo(exPos[wExec[w]])'
  BY <1>1, ThreadAttempt DEF AttemptsHold, HandsHold
<1>3. HandsHold'
  BY <1>2 DEF AttemptsHold, HandsHold, Demo
<1>4. RowsExist'
  BY DEF AttemptsHold, RowsExist, TypeOK, ExTypeOK
<1> QED
  BY <1>3, <1>4 DEF AttemptsHold, OneOpening, OpeningIsUnfilled

\* A thread lets go of its attempt; the other threads keep theirs.
LEMMA ReleasedHands ==
    ASSUME TypeOK, NEW w \in Worker, Release(w)
    PROVE  \A v \in Worker :
               /\ v = w => wExec'[v] = NULL
               /\ v # w => wExec'[v] = wExec[v] /\ wEntry'[v] = wEntry[v]
BY DEF Release, TypeOK, WorkerTypeOK

\* The thread's attempt ends: nobody else holds it, and if its position is
\* filled by that, no other opening of that position is left.
LEMMA EndedAttempt ==
    ASSUME TypeOK, AttemptsHold, NEW w \in Worker, wExec[w] # NULL,
           NEW to \in {"VENUE_EXECUTED", "FAILED"},
           MoveExecution(wExec[w], to), Release(w),
           UNCHANGED <<exAction, exPos, posQuote>>,
           \A x \in Pos : posStatus[x] # "NONE" => posStatus'[x] # "NONE",
           \A x \in Pos : posEntry[x] => posEntry'[x],
           \A x \in Pos : posEntry'[x] =>
               \/ posEntry[x]
               \/ x = exPos[wExec[w]] /\ exAction[wExec[w]] = "OPEN"
    PROVE  AttemptsHold'
<1> DEFINE e == wExec[w]
<1>1. e \in Exec /\ exStatus[e] # "NONE" /\ exPos[e] \in Pos
  BY ThreadAttempt
<1>2. to \in ExecutionStatus /\ to # "NONE" /\ to \notin {"CREATED", "CLAIMED"}
  BY DEF ExecutionStatus
<1>3. \A x \in Exec : exStatus'[x] = IF x = e THEN to ELSE exStatus[x]
  BY <1>1, <1>2, ExecutionMoveType
<1>4. HandsHold'
  <2>1. ASSUME NEW v \in Worker, wExec'[v] # NULL
        PROVE  /\ exStatus'[wExec'[v]] = "CLAIMED"
               /\ Demo(exPos[wExec[v]])'
               /\ wExec'[v] = wExec[v]
               /\ wEntry'[v] => posEntry'[exPos'[wExec'[v]]]
               /\ \A u \in Worker : wExec'[u] = wExec'[v] => u = v
    <3>1. v # w /\ wExec'[v] = wExec[v] /\ wEntry'[v] = wEntry[v]
      BY <2>1, ReleasedHands
    <3>2. wExec[v] \in Exec /\ exPos[wExec[v]] \in Pos
      BY <2>1, <3>1, ThreadAttempt
    <3>3. /\ exStatus[wExec[v]] = "CLAIMED" /\ Demo(exPos[wExec[v]])
          /\ wEntry[v] => posEntry[exPos[wExec[v]]]
          /\ \A u \in Worker : wExec[u] = wExec[v] => u = v
      BY <2>1, <3>1 DEF AttemptsHold, HandsHold
    <3>4. wExec[v] # e
      BY <3>1, <3>3
    <3>5. \A u \in Worker : wExec'[u] = wExec'[v] => u = v
      BY <2>1, <3>1, <3>3, ReleasedHands
    <3>6. Demo(exPos[wExec[v]])'
      BY <3>1, <3>2, <3>3 DEF Demo
    <3> QED
      BY <1>3, <3>1, <3>2, <3>3, <3>4, <3>5, <3>6
  <2> QED
    BY <2>1 DEF HandsHold
<1>5. OneOpening'
  BY <1>1, <1>2, <1>3 DEF AttemptsHold, OneOpening
<1>6. OpeningIsUnfilled'
  <2>1. ASSUME NEW x \in Exec, exAction[x] = "OPEN", exStatus'[x] \in {"CREATED", "CLAIMED"}
        PROVE  ~posEntry'[exPos[x]]
    <3>1. x # e /\ exStatus[x] \in {"CREATED", "CLAIMED"}
      BY <1>2, <1>3, <2>1
    <3>2. ~posEntry[exPos[x]] /\ exPos[x] \in Pos
      BY <2>1, <3>1 DEF AttemptsHold, OpeningIsUnfilled, TypeOK, ExTypeOK
    <3>3. exPos[x] # exPos[e] \/ exAction[e] # "OPEN"
      BY <1>1, <2>1, <3>1 DEF AttemptsHold, OneOpening
    <3> QED
      BY <3>2, <3>3
  <2> QED
    BY <2>1 DEF OpeningIsUnfilled
<1>7. RowsExist'
  BY <1>1, <1>3 DEF AttemptsHold, RowsExist, TypeOK, ExTypeOK
<1> QED
  BY <1>4, <1>5, <1>6, <1>7 DEF AttemptsHold

\* A claim: the waiting attempt had no holder.
LEMMA ClaimKeeps ==
    ASSUME TypeOK, CollateralInv, NEW w \in Worker, NEW e \in Exec, Claim(w, e)
    PROVE  CollateralInv'
<1>1. UNCHANGED <<posVars, exAction, exPos>> /\ exStatus[e] = "CREATED" /\ Demo(exPos[e])
  BY DEF Claim
<1>2. UNCHANGED <<posStatus, posQuote, posEntry, locks, settlements>>
  BY <1>1 DEF posVars
<1>3. \A x \in Exec : exStatus'[x] = IF x = e THEN "CLAIMED" ELSE exStatus[x]
  <2>1. "CLAIMED" \in ExecutionStatus
    BY DEF ExecutionStatus
  <2> QED
    BY <2>1, ExecutionMoveType DEF Claim
<1>4. \A v \in Worker : wExec'[v] = IF v = w THEN e ELSE wExec[v]
  BY DEF Claim, TypeOK, WorkerTypeOK
<1>5. \A v \in Worker : v # w => wEntry'[v] = wEntry[v]
  BY DEF Claim, TypeOK, WorkerTypeOK
<1>6. wEntry'[w] => posEntry[exPos[e]]
  BY DEF Claim, TypeOK, WorkerTypeOK
<1>7. \A v \in Worker : wExec[v] # e
  <2>1. e # NULL
    BY ProfileAssumption
  <2> QED
    BY <1>1, <2>1 DEF CollateralInv, AttemptsHold, HandsHold
<1>8. HandsHold'
  <2>1. ASSUME NEW v \in Worker, wExec'[v] # NULL
        PROVE  /\ exStatus'[wExec'[v]] = "CLAIMED"
               /\ Demo(exPos[wExec[v]])'
               /\ wEntry'[v] => posEntry'[exPos'[wExec'[v]]]
               /\ \A u \in Worker : wExec'[u] = wExec'[v] => u = v
    <3>1. CASE v = w
      <4>1. Demo(exPos[wExec[v]])'
        BY <1>1, <1>2, <1>4, <3>1 DEF Demo
      <4> QED
        BY <1>1, <1>2, <1>3, <1>4, <1>6, <1>7, <3>1, <4>1
    <3>2. CASE v # w
      <4>1. wExec'[v] = wExec[v] /\ wEntry'[v] = wEntry[v] /\ wExec[v] # NULL
        BY <1>4, <1>5, <2>1, <3>2
      <4>2. /\ exStatus[wExec[v]] = "CLAIMED" /\ Demo(exPos[wExec[v]])
            /\ wEntry[v] => posEntry[exPos[wExec[v]]]
            /\ \A u \in Worker : wExec[u] = wExec[v] => u = v
        BY <4>1 DEF CollateralInv, AttemptsHold, HandsHold
      <4>3. Demo(exPos[wExec[v]])'
        BY <1>1, <1>2, <4>1, <4>2 DEF Demo
      <4>4. wExec[v] \in Exec /\ wExec[v] # e
        BY <1>7, <4>1, ThreadAttempt
      <4> QED
        BY <1>1, <1>2, <1>3, <1>4, <1>7, <4>1, <4>2, <4>3, <4>4
    <3> QED
      BY <3>1, <3>2
  <2> QED
    BY <2>1 DEF HandsHold
<1>9. OneOpening'
  BY <1>1, <1>3 DEF CollateralInv, AttemptsHold, OneOpening
<1>10. OpeningIsUnfilled'
  BY <1>1, <1>2, <1>3 DEF CollateralInv, AttemptsHold, OpeningIsUnfilled
<1>11. RowsExist'
  BY <1>1, <1>2, <1>3 DEF CollateralInv, AttemptsHold, RowsExist
<1> QED
  BY <1>1, <1>8, <1>9, <1>10, <1>11, SameBooksKeep DEF CollateralInv, AttemptsHold

\* The fill sets the entry price and locks the collateral, both for the first
\* time: the thread's opening was not through, and nothing else fills.
LEMMA FillKeeps ==
    ASSUME TypeOK, CollateralInv, NEW w \in Worker, BookOpen(w)
    PROVE  CollateralInv'
<1> DEFINE e == wExec[w]
<1>0. PICK p \in Pos : p = exPos[e]
  BY ThreadAttempt DEF BookOpen
<1>1. e # NULL /\ e \in Exec /\ p = exPos[e]
  BY <1>0, ThreadAttempt DEF BookOpen
<1>2. /\ MoveExecution(e, "VENUE_EXECUTED") /\ Release(w) /\ MovePosition(p, "OPEN")
      /\ exAction[e] = "OPEN" /\ UNCHANGED <<exAction, exPos, posQuote, settlements>>
      /\ posEntry' = [posEntry EXCEPT ![p] = TRUE]
      /\ locks' = [locks EXCEPT ![p] = @ + 1]
  BY <1>1 DEF BookOpen
<1>3. "OPEN" \in PositionStatus
  BY DEF PositionStatus, ActiveStatus
<1>4. \A x \in Pos : posStatus'[x] = IF x = p THEN "OPEN" ELSE posStatus[x]
  BY <1>1, <1>2, <1>3, PositionMoveType
<1>5. exStatus[e] = "CLAIMED" /\ Demo(p)
  BY <1>1 DEF CollateralInv, AttemptsHold, HandsHold
<1>6. ~posEntry[p]
  BY <1>1, <1>2, <1>5 DEF CollateralInv, AttemptsHold, OpeningIsUnfilled
<1>7. BookedRight(p)
  BY <1>1, <1>5 DEF CollateralInv, CollateralFollows, BookedRight
<1>8. locks[p] = 0 /\ settlements[p] = 0
  BY <1>6, <1>7 DEF BookedRight
<1>9. /\ \A x \in Pos : posEntry'[x] = IF x = p THEN TRUE ELSE posEntry[x]
      /\ \A x \in Pos : locks'[x] = IF x = p THEN 1 ELSE locks[x]
  BY <1>1, <1>2, <1>8 DEF TypeOK, PosTypeOK
<1>10. AttemptsHold'
  BY <1>1, <1>2, <1>4, <1>9, EndedAttempt DEF CollateralInv
<1>11. BookedRight(p)'
  BY <1>1, <1>2, <1>4, <1>8, <1>9
     DEF BookedRight, Active, Terminal, ActiveStatus, TerminalStatus
<1>12. EmptyRows' /\ CollateralFollows'
  <2>1. \A x \in Pos \ {p} :
            /\ posStatus'[x] = posStatus[x] /\ posEntry'[x] = posEntry[x]
            /\ locks'[x] = locks[x] /\ settlements'[x] = settlements[x]
    BY <1>2, <1>4, <1>9
  <2>2. posStatus'[p] # "NONE"
    BY <1>1, <1>4
  <2> QED
    BY <1>1, <1>2, <1>11, <2>1, <2>2, OtherBooksKeep DEF CollateralInv
<1> QED
  BY <1>10, <1>12 DEF CollateralInv

\* A settlement ends a filled position and is counted: by a thread or by the
\* monitor, on a position that may have been settled before.
LEMMA SettlementIsRight ==
    ASSUME TypeOK, CollateralInv, NEW p \in Pos, Demo(p), posEntry[p],
           NEW liquidated \in BOOLEAN, MovePosition(p, EndedBy(liquidated)),
           settlements' = [settlements EXCEPT ![p] = @ + 1],
           UNCHANGED <<posQuote, posEntry, locks>>
    PROVE  /\ \A x \in Pos : posStatus[x] # "NONE" => posStatus'[x] # "NONE"
           /\ EmptyRows' /\ CollateralFollows'
<1>1. EndedBy(liquidated) \in TerminalStatus /\ EndedBy(liquidated) \in PositionStatus
  BY DEF EndedBy, PositionStatus, TerminalStatus
<1>2. \A x \in Pos : posStatus'[x] = IF x = p THEN EndedBy(liquidated) ELSE posStatus[x]
  BY <1>1, PositionMoveType
<1>3. settlements[p] \in Nat /\ \A x \in Pos : settlements'[x] = IF x = p THEN settlements[p] + 1
                                                                ELSE settlements[x]
  BY DEF TypeOK, PosTypeOK
<1>4. BookedRight(p)
  BY DEF CollateralInv, CollateralFollows, BookedRight
<1>5. EndedBy(liquidated) \notin {"NONE", "OPEN"} \union ActiveStatus
  BY <1>1 DEF TerminalStatus, ActiveStatus
<1>6. settlements'[p] > 0
  BY <1>3
<1>7. BookedRight(p)'
  BY <1>2, <1>4, <1>5, <1>6 DEF BookedRight, Active, Terminal, ActiveStatus
<1>8. posStatus'[p] # "NONE" /\ \A x \in Pos : posStatus[x] # "NONE" => posStatus'[x] # "NONE"
  BY <1>2, <1>5
<1>9. \A x \in Pos \ {p} :
            /\ posStatus'[x] = posStatus[x] /\ posEntry'[x] = posEntry[x]
            /\ locks'[x] = locks[x] /\ settlements'[x] = settlements[x]
  BY <1>2, <1>3
<1> QED
  BY <1>7, <1>8, <1>9, OtherBooksKeep DEF CollateralInv

\* The thread settles a position whose entry price it has read.
LEMMA CloseKeeps ==
    ASSUME TypeOK, CollateralInv, NEW w \in Worker, NEW returned \in Returned,
           NEW liquidated \in BOOLEAN, BookClose(w, returned, liquidated)
    PROVE  CollateralInv'
<1> DEFINE e == wExec[w]
           p == exPos[e]
<1>1. e # NULL /\ e \in Exec /\ p \in Pos
  BY ThreadAttempt DEF BookClose
<1>2. /\ MoveExecution(e, "VENUE_EXECUTED") /\ Release(w) /\ wEntry[w]
      /\ MovePosition(p, EndedBy(liquidated))
      /\ UNCHANGED <<exAction, exPos, posQuote, posEntry, locks>>
      /\ settlements' = [settlements EXCEPT ![p] = @ + 1]
  BY DEF BookClose
<1>3. Demo(p) /\ posEntry[p]
  BY <1>1, <1>2 DEF CollateralInv, AttemptsHold, HandsHold
<1>4. /\ \A x \in Pos : posStatus[x] # "NONE" => posStatus'[x] # "NONE"
      /\ EmptyRows' /\ CollateralFollows'
  BY <1>1, <1>2, <1>3, SettlementIsRight
<1>5. AttemptsHold'
  BY <1>1, <1>2, <1>4, EndedAttempt DEF CollateralInv
<1> QED
  BY <1>4, <1>5 DEF CollateralInv

\* The monitor settles a position it finds open, which is a filled one.
LEMMA SettleKeeps ==
    ASSUME TypeOK, CollateralInv, NEW returned \in Returned, NEW liquidated \in BOOLEAN,
           MonitorSettle(returned, liquidated)
    PROVE  CollateralInv'
<1>1. monitor \in Pos
  BY ProfileAssumption DEF MonitorSettle, TypeOK, WorkerTypeOK, Pos
<1>2. /\ Demo(monitor) /\ posStatus[monitor] = "OPEN"
      /\ MovePosition(monitor, EndedBy(liquidated))
      /\ UNCHANGED <<posQuote, posEntry, locks, exVars, wVars>>
      /\ settlements' = [settlements EXCEPT ![monitor] = @ + 1]
  BY DEF MonitorSettle, InSeason
<1>3. posEntry[monitor]
  BY <1>1, <1>2 DEF CollateralInv, CollateralFollows
<1>4. /\ \A x \in Pos : posStatus[x] # "NONE" => posStatus'[x] # "NONE"
      /\ EmptyRows' /\ CollateralFollows'
  BY <1>1, <1>2, <1>3, SettlementIsRight
<1>5. UNCHANGED <<exStatus, exAction, exPos, wExec, wEntry, posEntry, posQuote>>
  BY <1>2 DEF exVars, wVars
<1>6. AttemptsHold'
  BY <1>4, <1>5, SameAttempts DEF CollateralInv
<1> QED
  BY <1>4, <1>6 DEF CollateralInv

\* A failed attempt books nothing.  A failed opening ends its position, which
\* is not filled; a failed close leaves a position unknown that is not over.
LEMMA FailureKeeps ==
    ASSUME TypeOK, CollateralInv, NEW w \in Worker, MarkFailed(w)
    PROVE  CollateralInv'
<1> DEFINE e == wExec[w]
           to == IF exAction[e] = "CLOSE" THEN "UNKNOWN" ELSE "CLOSED"
<1>0. PICK p \in Pos : p = exPos[e]
  BY ThreadAttempt DEF MarkFailed
<1>1. e # NULL /\ e \in Exec /\ p = exPos[e]
  BY <1>0, ThreadAttempt DEF MarkFailed
<1>2. /\ MoveExecution(e, "FAILED") /\ Release(w)
      /\ UNCHANGED <<exAction, exPos, posQuote, posEntry, locks, settlements>>
  BY DEF MarkFailed
<1>3. Demo(p) /\ exStatus[e] = "CLAIMED"
  BY <1>1 DEF CollateralInv, AttemptsHold, HandsHold
<1>4. CASE Terminal(p)
  <2>1. UNCHANGED posVars
    BY <1>1, <1>2, <1>4 DEF MarkFailed, posVars
  <2>2. AttemptsHold'
    BY <1>1, <1>2, <2>1, EndedAttempt DEF CollateralInv, posVars
  <2> QED
    BY <2>1, <2>2, SameBooksKeep DEF CollateralInv
<1>5. CASE ~Terminal(p)
  <2>1. MovePosition(p, to)
    BY <1>1, <1>5 DEF MarkFailed
  <2>2. to \in PositionStatus /\ to \notin {"NONE", "OPEN"}
    BY DEF PositionStatus, ActiveStatus, TerminalStatus
  <2>3. \A x \in Pos : posStatus'[x] = IF x = p THEN to ELSE posStatus[x]
    BY <1>1, <2>1, <2>2, PositionMoveType
  <2>4. AttemptsHold'
    BY <1>1, <1>2, <2>2, <2>3, EndedAttempt DEF CollateralInv
  <2>5. BookedRight(p)
    BY <1>1, <1>3 DEF CollateralInv, CollateralFollows, BookedRight
  <2>6. Active(p)
    BY <1>1, <1>3, <1>5 DEF Demo, Active, Terminal, TypeOK, PosTypeOK, PositionStatus
  <2>7. exAction[e] # "CLOSE" => ~posEntry[p]
    <3>1. exAction[e] \in {"OPEN", "CLOSE"}
      BY <1>1, <1>3 DEF CollateralInv, AttemptsHold, RowsExist, TypeOK, ExTypeOK
    <3> QED
      BY <1>1, <1>3, <3>1 DEF CollateralInv, AttemptsHold, OpeningIsUnfilled
  <2>8. BookedRight(p)'
    <3>1. CASE exAction[e] = "CLOSE"
      BY <1>1, <1>2, <2>3, <2>5, <2>6, <3>1
         DEF BookedRight, Active, Terminal, ActiveStatus, TerminalStatus
    <3>2. CASE exAction[e] # "CLOSE"
      BY <1>1, <1>2, <2>3, <2>5, <2>7, <3>2
         DEF BookedRight, Active, Terminal, ActiveStatus, TerminalStatus
    <3> QED
      BY <3>1, <3>2
  <2>9. EmptyRows' /\ CollateralFollows'
    BY <1>1, <1>2, <2>2, <2>3, <2>8, OtherBooksKeep DEF CollateralInv
  <2> QED
    BY <2>4, <2>9 DEF CollateralInv
<1> QED
  BY <1>4, <1>5

\* A thread that dies books nothing; its attempt waits for the scan.
LEMMA CrashKeeps ==
    ASSUME TypeOK, CollateralInv, NEW w \in Worker, Crash(w)
    PROVE  CollateralInv'
<1>1. UNCHANGED <<posVars, exVars>> /\ Release(w)
  BY DEF Crash
<1>2. UNCHANGED <<exStatus, exAction, exPos, posStatus, posQuote, posEntry>>
  BY <1>1 DEF posVars, exVars
<1>3. HandsHold'
  <2>1. ASSUME NEW v \in Worker, wExec'[v] # NULL
        PROVE  /\ exStatus[wExec'[v]] = "CLAIMED"
               /\ Demo(exPos[wExec'[v]])
               /\ wEntry'[v] => posEntry[exPos[wExec'[v]]]
               /\ \A u \in Worker : wExec'[u] = wExec'[v] => u = v
    <3>1. v # w /\ wExec'[v] = wExec[v] /\ wEntry'[v] = wEntry[v]
      BY <1>1, <2>1, ReleasedHands
    <3>2. /\ exStatus[wExec[v]] = "CLAIMED" /\ Demo(exPos[wExec[v]])
          /\ wEntry[v] => posEntry[exPos[wExec[v]]]
          /\ \A u \in Worker : wExec[u] = wExec[v] => u = v
      BY <2>1, <3>1 DEF CollateralInv, AttemptsHold, HandsHold
    <3>3. \A u \in Worker : wExec'[u] = wExec'[v] => u = v
      BY <1>1, <2>1, <3>1, <3>2, ReleasedHands
    <3> QED
      BY <3>1, <3>2, <3>3
  <2> QED
    BY <1>2, <2>1 DEF HandsHold, Demo
<1>4. OneOpening' /\ OpeningIsUnfilled' /\ RowsExist'
  BY <1>2 DEF CollateralInv, AttemptsHold, OneOpening, OpeningIsUnfilled, RowsExist
<1> QED
  BY <1>1, <1>3, <1>4, SameBooksKeep DEF CollateralInv, AttemptsHold

\* A claim that nobody holds waits again.
LEMMA StaleKeeps ==
    ASSUME TypeOK, CollateralInv, NEW e \in Exec, ReleaseStaleClaim(e)
    PROVE  CollateralInv'
<1>1. /\ UNCHANGED <<posVars, exAction, exPos, wVars>> /\ exStatus[e] = "CLAIMED"
      /\ \A w \in Worker : wExec[w] # e
  BY DEF ReleaseStaleClaim
<1>2. UNCHANGED <<posStatus, posQuote, posEntry, wExec, wEntry>>
  BY <1>1 DEF posVars, wVars
<1>3. \A x \in Exec : exStatus'[x] = IF x = e THEN "CREATED" ELSE exStatus[x]
  BY DEF ReleaseStaleClaim, TypeOK, ExTypeOK
<1>4. HandsHold'
  <2>1. ASSUME NEW v \in Worker, wExec[v] # NULL
        PROVE  /\ exStatus'[wExec[v]] = "CLAIMED"
               /\ Demo(exPos[wExec[v]])
               /\ wEntry[v] => posEntry[exPos[wExec[v]]]
               /\ \A u \in Worker : wExec[u] = wExec[v] => u = v
    BY <1>1, <1>3, <2>1, ThreadAttempt DEF CollateralInv, AttemptsHold, HandsHold
  <2> QED
    BY <1>1, <1>2, <2>1 DEF HandsHold, Demo
<1>5. OneOpening' /\ OpeningIsUnfilled' /\ RowsExist'
  BY <1>1, <1>2, <1>3
     DEF CollateralInv, AttemptsHold, OneOpening, OpeningIsUnfilled, RowsExist
<1> QED
  BY <1>1, <1>4, <1>5, SameBooksKeep DEF CollateralInv, AttemptsHold

\* A new attempt waits, in no thread's hands, and its row is there.
LEMMA NewAttemptKeeps ==
    ASSUME TypeOK, AttemptsHold, NEW e \in Exec, NEW action \in {"OPEN", "CLOSE"}, NEW p \in Pos,
           NewExecution(e, action, p), UNCHANGED <<wExec, wEntry, posEntry>>,
           \A x \in Pos : posStatus[x] # "NONE" =>
               posStatus'[x] # "NONE" /\ posQuote'[x] = posQuote[x],
           posStatus'[p] # "NONE",
           action = "OPEN" => ~posEntry[p] /\ posStatus[p] = "NONE"
    PROVE  AttemptsHold'
<1>1. exStatus[e] = "NONE"
  BY DEF NewExecution
<1>2. /\ \A x \in Exec : exStatus'[x] = IF x = e THEN "CREATED" ELSE exStatus[x]
      /\ \A x \in Exec : exAction'[x] = IF x = e THEN action ELSE exAction[x]
      /\ \A x \in Exec : exPos'[x] = IF x = e THEN p ELSE exPos[x]
  BY DEF NewExecution, TypeOK, ExTypeOK
<1>3. HandsHold'
  <2>1. ASSUME NEW v \in Worker, wExec[v] # NULL
        PROVE  /\ exStatus'[wExec[v]] = "CLAIMED" /\ exPos'[wExec[v]] = exPos[wExec[v]]
               /\ posStatus'[exPos[wExec[v]]] # "NONE"
               /\ posQuote'[exPos[wExec[v]]].mode = "demo"
               /\ wEntry[v] => posEntry[exPos[wExec[v]]]
               /\ \A u \in Worker : wExec[u] = wExec[v] => u = v
    <3>1. wExec[v] \in Exec /\ wExec[v] # e /\ exPos[wExec[v]] \in Pos
      BY <1>1, <2>1, ThreadAttempt
    <3>2. /\ exStatus[wExec[v]] = "CLAIMED" /\ Demo(exPos[wExec[v]])
          /\ wEntry[v] => posEntry[exPos[wExec[v]]]
          /\ \A u \in Worker : wExec[u] = wExec[v] => u = v
      BY <2>1 DEF AttemptsHold, HandsHold
    <3> QED
      BY <1>2, <3>1, <3>2 DEF Demo
  <2> QED
    BY <2>1 DEF HandsHold, Demo
<1>4. RowsExist'
  BY <1>2 DEF AttemptsHold, RowsExist, TypeOK, ExTypeOK
<1>5. OneOpening'
  <2>1. action = "OPEN" => \A x \in Exec : exStatus[x] # "NONE" => exPos[x] # p
    BY DEF AttemptsHold, RowsExist
  <2> QED
    BY <1>1, <1>2, <2>1 DEF AttemptsHold, OneOpening
<1>6. OpeningIsUnfilled'
  BY <1>2 DEF AttemptsHold, OpeningIsUnfilled
<1> QED
  BY <1>3, <1>4, <1>5, <1>6 DEF AttemptsHold

\* An accepted open starts from an empty row.
LEMMA OpenKeeps ==
    ASSUME TypeOK, CollateralInv, NEW r \in Request, NEW q \in Quote, NEW p \in Pos,
           NEW e \in Exec, AcceptOpen(r, q, p, e)
    PROVE  CollateralInv'
<1>1. /\ posStatus[p] = "NONE" /\ NewExecution(e, "OPEN", p)
      /\ UNCHANGED <<posEntry, locks, settlements, wVars>>
  BY DEF AcceptOpen
<1>2. UNCHANGED <<wExec, wEntry>>
  BY <1>1 DEF wVars
<1>3. /\ \A x \in Pos : posStatus'[x] = IF x = p THEN "OPENING" ELSE posStatus[x]
      /\ \A x \in Pos : posQuote'[x] = IF x = p THEN q ELSE posQuote[x]
  BY DEF AcceptOpen, TypeOK, PosTypeOK
<1>4. ~posEntry[p] /\ locks[p] = 0 /\ settlements[p] = 0
  BY <1>1 DEF CollateralInv, EmptyRows
<1>5. AttemptsHold'
  BY <1>1, <1>2, <1>3, <1>4, NewAttemptKeeps DEF CollateralInv
<1>6. EmptyRows'
  BY <1>1, <1>3 DEF CollateralInv, EmptyRows
<1>7. ASSUME NEW x \in Pos, Demo(x)' PROVE BookedRight(x)'
  <2>1. CASE x = p
    BY <1>1, <1>3, <1>4, <2>1 DEF BookedRight, Terminal, TerminalStatus
  <2>2. CASE x # p
    <3>1. Demo(x)
      BY <1>3, <1>7, <2>2 DEF Demo
    <3>2. BookedRight(x)
      BY <3>1 DEF CollateralInv, CollateralFollows, BookedRight
    <3> QED
      BY <1>1, <1>3, <2>2, <3>2 DEF BookedRight, Active, Terminal
  <2> QED
    BY <2>1, <2>2
<1>8. CollateralFollows'
  BY <1>7 DEF CollateralFollows, BookedRight
<1> QED
  BY <1>5, <1>6, <1>8 DEF CollateralInv

\* An accepted close books nothing yet.
LEMMA AskedCloseKeeps ==
    ASSUME TypeOK, CollateralInv, NEW r \in Request, NEW p \in Pos, NEW e \in Exec,
           AcceptClose(r, p, e)
    PROVE  CollateralInv'
<1>1. /\ posStatus[p] \in ClosableStatus /\ NewExecution(e, "CLOSE", p)
      /\ UNCHANGED <<posQuote, posEntry, locks, settlements, wVars>>
  BY DEF AcceptClose
<1>2. UNCHANGED <<wExec, wEntry>>
  BY <1>1 DEF wVars
<1>3. \A x \in Pos : posStatus'[x] = IF x = p THEN "CLOSING" ELSE posStatus[x]
  BY DEF AcceptClose, TypeOK, PosTypeOK
<1>4. posStatus[p] # "NONE" /\ Active(p)
  BY <1>1 DEF ClosableStatus, Active, ActiveStatus
<1>5. AttemptsHold'
  BY <1>1, <1>2, <1>3, <1>4, NewAttemptKeeps DEF CollateralInv
<1>6. Demo(p)' => BookedRight(p)'
  <2>1. Demo(p)' => BookedRight(p)
    BY <1>1, <1>4 DEF Demo, CollateralInv, CollateralFollows, BookedRight
  <2> QED
    BY <1>1, <1>3, <1>4, <2>1 DEF BookedRight, Active, Terminal, TerminalStatus
<1>7. EmptyRows' /\ CollateralFollows'
  BY <1>1, <1>3, <1>6, OtherBooksKeep DEF CollateralInv
<1> QED
  BY <1>5, <1>7 DEF CollateralInv

\* A live position moves on its own; the demo books do not know it.
LEMMA LiveKeeps ==
    ASSUME TypeOK, CollateralInv, NEW p \in Pos, NEW to \in PositionStatus, LiveMoves(p, to)
    PROVE  CollateralInv'
<1>1. /\ posQuote[p].mode = "live" /\ MovePosition(p, to)
      /\ UNCHANGED <<posQuote, posEntry, locks, settlements, exVars, wVars>>
  BY DEF LiveMoves
<1>2. \A x \in Pos : posStatus'[x] = IF x = p THEN to ELSE posStatus[x]
  BY <1>1, PositionMoveType
<1>3. to # "NONE"
  BY DEF PositionStatus, ActiveStatus, TerminalStatus
<1>4. AttemptsHold'
  BY <1>1, <1>2, <1>3, SameAttempts DEF CollateralInv, exVars, wVars
<1>5. ~Demo(p)'
  BY <1>1 DEF Demo
<1>6. EmptyRows' /\ CollateralFollows'
  BY <1>1, <1>2, <1>3, <1>5, OtherBooksKeep DEF CollateralInv
<1> QED
  BY <1>4, <1>6 DEF CollateralInv

\* Everything else leaves positions, attempts and threads alone.
LEMMA OthersHoldNothing ==
    ASSUME \/ UserStep
           \/ \E r \in Request : ReadMode(r) \/ Refuse(r)
           \/ \E p \in Pos : MonitorRead(p)
           \/ MonitorSkip
           \/ UNCHANGED vars
    PROVE  UNCHANGED <<posVars, exVars, wVars>>
<1>1. CASE UserStep
  BY <1>1 DEF UserStep, SwitchMode, SwitchVenue, ResetDemo, CreateQuote, ExpireQuote
<1>2. ASSUME NEW r \in Request, ReadMode(r) \/ Refuse(r)
      PROVE  UNCHANGED <<posVars, exVars, wVars>>
  BY <1>2 DEF ReadMode, Refuse
<1>3. ASSUME NEW p \in Pos, MonitorRead(p) PROVE UNCHANGED <<posVars, exVars, wVars>>
  BY <1>3 DEF MonitorRead
<1>4. CASE MonitorSkip
  BY <1>4 DEF MonitorSkip
<1>5. CASE UNCHANGED vars
  BY <1>5 DEF vars
<1> QED
  BY <1>1, <1>2, <1>3, <1>4, <1>5

\* The collateral of a demo position is locked once, by the fill; nothing comes
\* back while it is active or if it was never filled, and a filled position
\* that is over has been settled: whatever threads, monitor, stale claims and
\* crashes do in between, and whichever close was accepted before the fill.
THEOREM CollateralHolds == Spec => []CollateralFollows
<1>1. Init => CollateralInv
  BY DEF Init, CollateralInv, AttemptsHold, HandsHold, OneOpening, OpeningIsUnfilled, RowsExist,
         EmptyRows, CollateralFollows, Demo
<1>2. TypeOK /\ CollateralInv /\ [Next]_vars => CollateralInv'
  <2> SUFFICES ASSUME TypeOK, CollateralInv, [Next]_vars PROVE CollateralInv'
    OBVIOUS
  <2>1. ASSUME UNCHANGED <<posVars, exVars, wVars>> PROVE CollateralInv'
    <3>1. UNCHANGED <<posStatus, posQuote, posEntry, exStatus, exAction, exPos, wExec, wEntry>>
      BY <2>1 DEF posVars, exVars, wVars
    <3>2. AttemptsHold'
      BY <3>1, SameAttempts DEF CollateralInv
    <3> QED
      BY <2>1, <3>2, SameBooksKeep DEF CollateralInv
  <2>2. CASE UserStep \/ UNCHANGED vars
    BY <2>1, <2>2, OthersHoldNothing
  <2>3. ASSUME NEW r \in Request, RequestStep(r) PROVE CollateralInv'
    BY <2>1, <2>3, OthersHoldNothing, OpenKeeps, AskedCloseKeeps DEF RequestStep
  <2>4. ASSUME NEW w \in Worker, WorkerStep(w) PROVE CollateralInv'
    BY <2>4, ClaimKeeps, FillKeeps, CloseKeeps, FailureKeeps, CrashKeeps DEF WorkerStep
  <2>5. CASE MonitorStep
    BY <2>1, <2>5, OthersHoldNothing, SettleKeeps DEF MonitorStep
  <2> QED
    BY <2>2, <2>3, <2>4, <2>5, StaleKeeps, LiveKeeps DEF Next
<1>3. CollateralInv => CollateralFollows
  BY DEF CollateralInv
<1> QED
  BY <1>1, <1>2, <1>3, TypesHold, PTL DEF Spec
=============================================================================
