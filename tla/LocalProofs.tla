---------------------------- MODULE LocalProofs ----------------------------
(***************************************************************************)
(* Theorems about LocalExecution, for any number of rows and of restarts.  *)
(***************************************************************************)
EXTENDS LocalExecution, TLAPS

Repairs == {"adopt", "finish", "hide", "record"}

\* The rows a thread or a request has in mind were made before.
Known ==
  jobs \cup entering \cup strays \cup monitor.pending
    \cup (IF monitor.pc \in Repairs THEN {monitor.row} ELSE {})
    \cup (IF worker.pc = "idle" THEN {} ELSE {worker.row})

KnownAreMade == \A r \in Known : r \in Execution /\ executions[r].status # "none"

\* What is stored and not yet taken is as it was created, unless the monitor looked at it
\* before it was in _running.
JobsAreNew ==
  /\ jobs \cap entering = {}
  /\ \A r \in (jobs \cup entering) \ strays : executions[r].status = "created"

\* The thread's row left the queue, and its status follows the thread, with the same
\* exception.
WorkerHasItsRow ==
  worker.pc # "idle" =>
    /\ worker.row \notin jobs \cup entering
    /\ worker.row \notin strays =>
         /\ worker.pc = "begin" =>
              executions[worker.row].action = "open" /\ executions[worker.row].status = "created"
         /\ worker.pc \in {"send", "sent"} =>
              executions[worker.row].status =
                IF executions[worker.row].action = "open" THEN "opening" ELSE "created"

\* The row the monitor is about to write was let go before, with the same exception.
MonitorHasALeftRow ==
  monitor.pc \in Repairs => monitor.row \in strays \/ monitor.row \notin InHand \cup entering

LocalInv ==
  /\ LocalTypeOK /\ KnownAreMade /\ JobsAreNew /\ WorkerHasItsRow /\ MonitorHasALeftRow
  /\ OneOpenInFlight

\* What RunningIsOwned says of one step.
Owned ==
  \A r \in (InHand \cap PendingRows) \ strays :
    executions'[r] # executions[r] => WritesItsOwn(r)

InFlight(r) ==
  /\ r \notin strays
  /\ executions[r].action = "open" /\ executions[r].status \in {"created", "opening"}

LEMMA OneInFlight ==
  OneOpenInFlight <=> \A r, q \in Execution : InFlight(r) /\ InFlight(q) => r = q
  BY DEF OneOpenInFlight, OpenRows, RowsIn, InFlight

LEMMA OneInFlightNext ==
  OneOpenInFlight' <=> \A r, q \in Execution : InFlight(r)' /\ InFlight(q)' => r = q
  BY DEF OneOpenInFlight, OpenRows, RowsIn, InFlight

LEMMA OneInFlightKept ==
  ASSUME OneOpenInFlight, \A q \in Execution : InFlight(q)' => InFlight(q)
  PROVE  OneOpenInFlight'
  BY OneInFlight, OneInFlightNext

\* What the invariant says of each row a thread or a request has in mind.
LEMMA KnownIs ==
  ASSUME KnownAreMade
  PROVE  /\ \A r \in jobs \cup entering \cup strays \cup monitor.pending :
              r \in Execution /\ executions[r].status # "none"
         /\ monitor.pc \in Repairs =>
              monitor.row \in Execution /\ executions[monitor.row].status # "none"
         /\ worker.pc # "idle" =>
              worker.row \in Execution /\ executions[worker.row].status # "none"
  BY DEF KnownAreMade, Known

LEMMA KnownNext ==
  ASSUME \A r \in jobs' \cup entering' \cup strays' \cup monitor'.pending :
           r \in Execution /\ executions'[r].status # "none",
         monitor'.pc \in Repairs =>
           monitor'.row \in Execution /\ executions'[monitor'.row].status # "none",
         worker'.pc # "idle" =>
           worker'.row \in Execution /\ executions'[worker'.row].status # "none"
  PROVE  KnownAreMade'
  BY DEF KnownAreMade, Known

Statuses == ActiveLocal \cup {"none", "closed", "failed"}

\* A row takes a status, and the others stay.
Changes(r, to) ==
  /\ executions' \in [Execution -> LocalRow]
  /\ newer' \subseteq Execution \X Execution
  /\ heard' \subseteq Execution
  /\ executions'[r].action = executions[r].action
  /\ executions'[r].status = to
  /\ \A q \in Execution \ {r} : executions'[q] = executions[q]

\* A write gives the row its new value and leaves the journal's order and notices typed.
LEMMA WriteIs ==
  ASSUME LocalTypeOK, NEW r \in Execution, NEW row \in LocalRow, Write(r, row)
  PROVE  /\ executions' \in [Execution -> LocalRow]
         /\ executions'[r] = row
         /\ \A q \in Execution \ {r} : executions'[q] = executions[q]
         /\ newer' \subseteq Execution \X Execution
         /\ heard' \subseteq Execution
<1>1. executions' = [executions EXCEPT ![r] = row] /\ executions \in [Execution -> LocalRow]
  BY DEF Write, LocalTypeOK
<1>2. newer' \subseteq Execution \X Execution
  BY DEF Write, LocalTypeOK, Made, RowsIn
<1>3. heard' \subseteq Execution
  BY DEF Write, LocalTypeOK
<1> QED
  BY <1>1, <1>2, <1>3

LEMMA SetStatusChanges ==
  ASSUME LocalTypeOK, NEW r \in Execution, NEW to \in Statuses, SetStatus(r, to)
  PROVE  Changes(r, to)
<1> PICK row : row = [executions[r] EXCEPT !.status = to]
  OBVIOUS
<1>1. executions[r] \in LocalRow
  BY DEF LocalTypeOK
<1>2. row \in LocalRow /\ row.action = executions[r].action /\ row.status = to
  BY <1>1 DEF LocalRow, Statuses
<1>3. Write(r, row)
  BY DEF SetStatus
<1> QED
  BY <1>2, <1>3, WriteIs DEF Changes

LEMMA SetOpenChanges ==
  ASSUME LocalTypeOK, NEW r \in Execution, NEW trade \in Execution, SetOpen(r, trade)
  PROVE  Changes(r, "open")
<1> PICK row : row = [executions[r] EXCEPT !.status = "open", !.position = trade]
  OBVIOUS
<1>1. executions[r] \in LocalRow
  BY DEF LocalTypeOK
<1>2. row \in LocalRow /\ row.action = executions[r].action /\ row.status = "open"
  BY <1>1 DEF LocalRow, ActiveLocal
<1>3. Write(r, row)
  BY DEF SetOpen
<1> QED
  BY <1>2, <1>3, WriteIs DEF Changes

\* An open row ends, or none.
LEMMA EndOpeningChanges ==
  ASSUME LocalTypeOK, EndOpening
  PROVE  \/ \E q \in Execution : executions[q].status = "open" /\ Changes(q, "closed")
         \/ UNCHANGED journalVars
<1>1. ASSUME NEW q \in LatestOpen, executions[q].status = "open", SetStatus(q, "closed")
      PROVE  q \in Execution /\ Changes(q, "closed")
  <2>1. q \in Execution /\ "closed" \in Statuses
    BY DEF LatestOpen, OpenRows, RowsIn, Statuses
  <2> QED
    BY <1>1, <2>1, SetStatusChanges
<1> QED
  BY <1>1 DEF EndOpening

\* The monitor gives a row a status: one the executor has let go, one that is open, or one
\* it looked at before it was in _running.
LEMMA ChangesBeside ==
  ASSUME LocalInv, NEW r \in Execution, NEW to \in {"open", "closed", "failed"}, Changes(r, to),
         r \in strays \/ r \notin InHand \cup entering \/ executions[r].status = "open",
         UNCHANGED workerVars, strays' = strays
  PROVE  OneOpenInFlight' /\ JobsAreNew' /\ WorkerHasItsRow' /\ Owned
<1>1. \A q \in Execution \ {r} : executions'[q] = executions[q]
  BY DEF Changes
<1>2. executions'[r].status = to /\ executions'[r].action = executions[r].action
  BY DEF Changes
<1>3. jobs' = jobs /\ entering' = entering /\ worker' = worker
  BY DEF workerVars
<1>4. /\ \A q \in jobs \cup entering : q \in Execution
      /\ worker.pc # "idle" => worker.row \in Execution
  BY KnownIs DEF LocalInv
<1>5. OneOpenInFlight'
  <2>1. \A q \in Execution : InFlight(q)' => InFlight(q)
    BY <1>1, <1>2 DEF InFlight
  <2> QED
    BY <2>1, OneInFlightKept DEF LocalInv
<1>6. JobsAreNew'
  <2>1. \A q \in (jobs \cup entering) \ strays : q # r
    BY DEF InHand, JobsAreNew, LocalInv
  <2> QED
    BY <1>1, <1>3, <1>4, <2>1 DEF JobsAreNew, LocalInv
<1>7. worker.pc \in {"begin", "send", "sent"} /\ worker.row \notin strays => worker.row # r
  BY DEF InHand, WorkerHasItsRow, LocalInv
<1>8. WorkerHasItsRow'
  BY <1>1, <1>3, <1>4, <1>7 DEF WorkerHasItsRow, LocalInv
<1>9. Owned
  BY <1>1 DEF Owned, PendingRows, PendingLocal, RowsIn
<1> QED
  BY <1>5, <1>6, <1>8, <1>9

\* The executor's thread gives its row a status and goes on.
LEMMA ChangesOwn ==
  ASSUME LocalInv, NEW r \in Execution, NEW to \in Statuses \ {"none"}, Changes(r, to),
         NEW place \in {"send", "leave"}, worker.pc \notin {"idle", place}, worker.row = r,
         GoTo(place), UNCHANGED <<entering, jobs, monitorVars>>,
         r \notin strays /\ to \in {"created", "opening"} /\ executions[r].action = "open" =>
           InFlight(r),
         r \notin strays /\ place = "send" => to = "opening" /\ executions[r].action = "open"
  PROVE  /\ OneOpenInFlight' /\ KnownAreMade' /\ JobsAreNew' /\ WorkerHasItsRow'
         /\ MonitorHasALeftRow' /\ Owned
<1>1. \A q \in Execution \ {r} : executions'[q] = executions[q]
  BY DEF Changes
<1>2. executions'[r].status = to /\ executions'[r].action = executions[r].action
  BY DEF Changes
<1>3. /\ jobs' = jobs /\ entering' = entering /\ monitor' = monitor /\ strays' = strays
      /\ worker'.pc = place /\ worker'.row = r
  BY DEF LocalInv, LocalTypeOK, WorkerState, GoTo, monitorVars
<1>4. OneOpenInFlight'
  <2>1. \A q \in Execution : InFlight(q)' => InFlight(q)
    BY <1>1, <1>2, <1>3 DEF InFlight
  <2> QED
    BY <2>1, OneInFlightKept DEF LocalInv
<1>5. KnownAreMade'
  BY <1>1, <1>2, <1>3, KnownIs, KnownNext DEF LocalInv
<1>6. /\ \A q \in jobs \cup entering : q \in Execution /\ q # r
  BY KnownIs DEF LocalInv, WorkerHasItsRow
<1>7. JobsAreNew'
  BY <1>1, <1>3, <1>6 DEF JobsAreNew, LocalInv
<1>8. WorkerHasItsRow'
  BY <1>2, <1>3, <1>6 DEF WorkerHasItsRow
<1>9. InHand' = InHand
  BY <1>3 DEF InHand
<1>10. MonitorHasALeftRow'
  BY <1>3, <1>9 DEF MonitorHasALeftRow, LocalInv
<1>11. Owned
  BY <1>1, <1>3 DEF Owned, PendingRows, RowsIn, WritesItsOwn
<1> QED
  BY <1>4, <1>5, <1>7, <1>8, <1>10, <1>11

LEMMA SnapshotTyped ==
  ASSUME LocalTypeOK, NEW positions \in SUBSET Execution, Snapshot(positions)
  PROVE  cached' \subseteq SUBSET Execution /\ closedPair' \in BOOLEAN
<1>1. cached' \subseteq SUBSET Execution
  BY DEF Snapshot
<1>2. closedPair \in BOOLEAN
  BY DEF LocalTypeOK
<1>3. closedPair' \in BOOLEAN
  BY <1>2, Zenon DEF Snapshot
<1> QED
  BY <1>1, <1>3

LEMMA HideTyped ==
  ASSUME LocalTypeOK, Hide
  PROVE  cached' \subseteq SUBSET Execution /\ closedPair' \in BOOLEAN
  BY DEF Hide, LocalTypeOK

LEMMA AccountKept ==
  ASSUME LocalTypeOK, UNCHANGED accountVars
  PROVE  cached' \subseteq SUBSET Execution /\ closedPair' \in BOOLEAN
  BY DEF accountVars, LocalTypeOK

LEMMA WorkerTyped ==
  ASSUME LocalTypeOK,
         NEW place \in {"idle", "begin", "send", "sent", "finish", "hide", "record", "leave"}
  PROVE  /\ IdleWorker \in WorkerState
         /\ [worker EXCEPT !.pc = place, !.told = FALSE] \in WorkerState
         /\ [worker EXCEPT !.pc = place, !.told = FALSE].pc = place
         /\ [worker EXCEPT !.pc = place, !.told = FALSE].row = worker.row
  BY DEF LocalTypeOK, WorkerState, IdleWorker

LEMMA LocalInitHolds == LocalInit => LocalInv
<1> SUFFICES ASSUME LocalInit PROVE LocalInv
  OBVIOUS
<1>1. LocalTypeOK
  BY DEF LocalInit, LocalTypeOK, IdleWorker, IdleMonitor, WorkerState, MonitorState, OrderState,
         LocalRow, NoTrade
<1>2. KnownAreMade /\ JobsAreNew /\ WorkerHasItsRow /\ MonitorHasALeftRow
  BY DEF LocalInit, KnownAreMade, Known, Repairs, JobsAreNew, WorkerHasItsRow,
         MonitorHasALeftRow, IdleWorker, IdleMonitor
<1>3. OneOpenInFlight
  BY OneInFlight DEF LocalInit, InFlight
<1> QED
  BY <1>1, <1>2, <1>3 DEF LocalInv

\* A request stores a row of its own; an open only when none is under way.
LEMMA CreateKeeps ==
  ASSUME LocalInv, NEW row \in LocalRow, row.status = "created", Create(row),
         row.action = "open" => NotBusy,
         UNCHANGED <<monitorVars, localVenueVars, backends>>,
         cached' \subseteq SUBSET Execution, closedPair' \in BOOLEAN
  PROVE  LocalInv' /\ Owned
<1> USE MaxExecutionsIsNat
<1> PICK r \in Execution : /\ entering = {} /\ Made = 1..(r - 1)
                          /\ Write(r, row)
                          /\ entering' = {r}
                          /\ UNCHANGED <<jobs, worker>>
  BY DEF Create, Unlocked
<1>1. executions[r].status = "none"
  <2>1. r \notin 1..(r - 1)
    BY DEF Execution
  <2> QED
    BY <2>1 DEF Made, RowsIn
<1>2. /\ executions' \in [Execution -> LocalRow] /\ executions'[r] = row
      /\ \A q \in Execution \ {r} : executions'[q] = executions[q]
      /\ newer' \subseteq Execution \X Execution /\ heard' \subseteq Execution
  BY WriteIs DEF LocalInv
<1>3. monitor' = monitor /\ strays' = strays
  BY DEF monitorVars
<1>4. LocalTypeOK'
  BY <1>2 DEF LocalInv, LocalTypeOK, monitorVars, localVenueVars
<1>5. /\ \A q \in jobs \cup strays \cup monitor.pending :
           q \in Execution \ {r} /\ executions[q].status # "none"
      /\ monitor.pc \in Repairs =>
           monitor.row \in Execution \ {r} /\ executions[monitor.row].status # "none"
      /\ worker.pc # "idle" =>
           worker.row \in Execution \ {r} /\ executions[worker.row].status # "none"
  BY <1>1, KnownIs DEF LocalInv
<1>6. KnownAreMade'
  BY <1>2, <1>3, <1>5, KnownNext
<1>7. JobsAreNew'
  BY <1>2, <1>3, <1>5 DEF LocalInv, JobsAreNew
<1>8. WorkerHasItsRow'
  BY <1>2, <1>3, <1>5 DEF LocalInv, WorkerHasItsRow
<1>9. MonitorHasALeftRow'
  BY <1>3, <1>5 DEF LocalInv, MonitorHasALeftRow, InHand
<1>10. OneOpenInFlight'
  <2>1. CASE row.action = "open"
    <3>1. \A q \in Execution : ~InFlight(q)
      BY <2>1 DEF NotBusy, RowsIn, ActiveLocal, PendingLocal, InFlight
    <3>2. \A q \in Execution \ {r} : ~InFlight(q)'
      BY <1>2, <1>3, <3>1 DEF InFlight
    <3> QED
      BY <3>2, OneInFlightNext
  <2>2. CASE row.action # "open"
    <3>1. \A q \in Execution : InFlight(q)' => InFlight(q)
      BY <1>2, <1>3, <2>2 DEF InFlight
    <3> QED
      BY <3>1, OneInFlightKept DEF LocalInv
  <2> QED
    BY <2>1, <2>2
<1>11. Owned
  BY <1>1, <1>2 DEF Owned, PendingRows, PendingLocal, RowsIn
<1> QED
  BY <1>4, <1>6, <1>7, <1>8, <1>9, <1>10, <1>11 DEF LocalInv

LEMMA OpenKeeps == LocalInv /\ Open => LocalInv' /\ Owned
<1> SUFFICES ASSUME LocalInv, Open PROVE LocalInv' /\ Owned
  OBVIOUS
<1> DEFINE row == [action |-> "open", status |-> "created", position |-> NoTrade]
<1>1. row \in LocalRow /\ row.status = "created"
  BY DEF LocalRow, ActiveLocal, PendingLocal
<1>2. /\ Create(row) /\ NotBusy
      /\ UNCHANGED <<monitorVars, localVenueVars, backends>>
      /\ cached' = cached /\ closedPair' = closedPair
  BY DEF Open, accountVars
<1>3. cached' \subseteq SUBSET Execution /\ closedPair' \in BOOLEAN
  BY <1>2 DEF LocalInv, LocalTypeOK
<1> HIDE DEF row
<1> QED
  BY <1>1, <1>2, <1>3, CreateKeeps

LEMMA CloseKeeps == LocalInv /\ Close => LocalInv' /\ Owned
<1> SUFFICES ASSUME LocalInv, Close PROVE LocalInv' /\ Owned
  OBVIOUS
<1>1. cached' \subseteq SUBSET Execution /\ closedPair' \in BOOLEAN
  <2>1. listing \in SUBSET Execution
    BY DEF LocalInv, LocalTypeOK
  <2>2. CASE cached = {}
    BY <2>1, <2>2, SnapshotTyped DEF Close, LocalInv
  <2>3. CASE cached # {}
    BY <2>3, AccountKept DEF Close, LocalInv
  <2> QED
    BY <2>2, <2>3
<1>2. PICK trade \in IF UNION cached' # {} THEN UNION cached'
                    ELSE {executions[a].position : a \in ActiveExecution} :
        Create([action |-> "close", status |-> "created", position |-> trade])
  BY DEF Close
<1>3. trade \in Execution \cup {NoTrade}
  <2>1. \A a \in ActiveExecution : executions[a].position \in Execution \cup {NoTrade}
    BY DEF ActiveExecution, RowsIn, LocalInv, LocalTypeOK, LocalRow
  <2>2. CASE UNION cached' # {}
    BY <1>1, <1>2, <2>2
  <2>3. CASE UNION cached' = {}
    BY <1>2, <2>1, <2>3
  <2> QED
    BY <2>2, <2>3
<1> DEFINE row == [action |-> "close", status |-> "created", position |-> trade]
<1>4. row \in LocalRow /\ row.status = "created" /\ row.action # "open"
  BY <1>3 DEF LocalRow, ActiveLocal, PendingLocal
<1>5. UNCHANGED <<monitorVars, localVenueVars, backends>>
  BY DEF Close
<1>6. Create(row)
  BY <1>2
<1> HIDE DEF row
<1> QED
  BY <1>1, <1>4, <1>5, <1>6, CreateKeeps

\* What leaves the rows and the threads alone keeps the invariant.
LEMMA ThreadsKept ==
  ASSUME LocalInv, UNCHANGED <<executions, entering, jobs, strays, monitor>>, LocalTypeOK',
         worker'.pc = worker.pc /\ worker'.row = worker.row
  PROVE  LocalInv' /\ Owned
<1>1. InHand' = InHand
  BY DEF InHand
<1>2. JobsAreNew' /\ WorkerHasItsRow'
  BY DEF LocalInv, JobsAreNew, WorkerHasItsRow
<1>3. MonitorHasALeftRow'
  BY <1>1 DEF LocalInv, MonitorHasALeftRow
<1>4. OneOpenInFlight'
  BY OneInFlightKept DEF LocalInv, InFlight
<1>5. KnownAreMade'
  BY KnownIs, KnownNext DEF LocalInv
<1>6. Owned
  BY DEF Owned
<1> QED
  BY <1>2, <1>3, <1>4, <1>5, <1>6 DEF LocalInv

LEMMA RefreshKeeps == LocalInv /\ Refresh => LocalInv' /\ Owned
<1> SUFFICES ASSUME LocalInv, Refresh PROVE LocalInv' /\ Owned
  OBVIOUS
<1>1. cached' \subseteq SUBSET Execution /\ closedPair' \in BOOLEAN
  BY SnapshotTyped DEF Refresh, LocalInv, LocalTypeOK
<1>2. LocalTypeOK'
  BY <1>1 DEF Refresh, LocalInv, LocalTypeOK, journalVars, workerVars, monitorVars, localVenueVars
<1> QED
  BY <1>2, ThreadsKept DEF Refresh, journalVars, workerVars, monitorVars

\* The row of a request enters _running.
LEMMA HandOverKeeps == LocalInv /\ HandOver => LocalInv' /\ Owned
<1> SUFFICES ASSUME LocalInv, HandOver PROVE LocalInv' /\ Owned
  OBVIOUS
<1>1. /\ jobs' = jobs \cup entering /\ entering' = {}
      /\ UNCHANGED <<executions, newer, heard, cached, closedPair, worker, monitor, unseen,
                     strays, orders, onVenue, listing, notices, backends>>
  BY DEF HandOver, journalVars, accountVars, monitorVars, localVenueVars
<1>2. LocalTypeOK'
  BY <1>1 DEF LocalInv, LocalTypeOK
<1>3. JobsAreNew' /\ WorkerHasItsRow'
  BY <1>1 DEF LocalInv, JobsAreNew, WorkerHasItsRow
<1>4. MonitorHasALeftRow'
  BY <1>1 DEF LocalInv, MonitorHasALeftRow, InHand
<1>5. OneOpenInFlight'
  BY <1>1, OneInFlightKept DEF LocalInv, InFlight
<1>6. KnownAreMade'
  BY <1>1, KnownIs, KnownNext DEF LocalInv
<1>7. Owned
  BY <1>1 DEF Owned
<1> QED
  BY <1>2, <1>3, <1>4, <1>5, <1>6, <1>7 DEF LocalInv

LEMMA TakeKeeps == LocalInv /\ Take => LocalInv' /\ Owned
<1> SUFFICES ASSUME LocalInv, Take PROVE LocalInv' /\ Owned
  OBVIOUS
<1> PICK r \in jobs :
      /\ jobs' = jobs \ {r}
      /\ worker' = [pc |-> IF executions[r].action = "open" THEN "begin" ELSE "send",
                    row |-> r, told |-> FALSE]
  BY DEF Take
<1>1. /\ r \in Execution /\ worker.pc = "idle"
      /\ UNCHANGED <<entering, journalVars, accountVars, monitorVars, localVenueVars, backends>>
  BY DEF Take, LocalInv, LocalTypeOK
<1>2. LocalTypeOK'
  <2>1. worker' \in WorkerState
    BY <1>1 DEF WorkerState
  <2> QED
    BY <1>1, <2>1 DEF LocalInv, LocalTypeOK, journalVars, accountVars, monitorVars, localVenueVars
<1>3. executions' = executions /\ monitor' = monitor /\ strays' = strays /\ entering' = entering
  BY <1>1 DEF journalVars, monitorVars
<1>4. InHand' = InHand
  BY <1>1 DEF InHand
<1>5. JobsAreNew' /\ WorkerHasItsRow'
  BY <1>1, <1>3 DEF LocalInv, JobsAreNew, WorkerHasItsRow
<1>6. MonitorHasALeftRow'
  BY <1>3, <1>4 DEF LocalInv, MonitorHasALeftRow
<1>7. OneOpenInFlight'
  BY <1>3, OneInFlightKept DEF LocalInv, InFlight
<1>8. KnownAreMade'
  BY <1>3, KnownIs, KnownNext DEF LocalInv
<1>9. Owned
  BY <1>3 DEF Owned
<1> QED
  BY <1>2, <1>5, <1>6, <1>7, <1>8, <1>9 DEF LocalInv

LEMMA RestartKeeps == LocalInv /\ RestartBackend => LocalInv' /\ Owned
<1> SUFFICES ASSUME LocalInv, RestartBackend PROVE LocalInv' /\ Owned
  OBVIOUS
<1>a. /\ UNCHANGED <<executions, newer, strays, orders, onVenue, listing, notices>>
      /\ heard' = {} /\ entering' = {} /\ jobs' = {} /\ unseen' = {} /\ cached' = {}
      /\ closedPair' = FALSE /\ backends' = backends + 1
      /\ worker' = IdleWorker /\ monitor' = IdleMonitor
  BY DEF RestartBackend, localVenueVars
<1>1. LocalTypeOK'
  <2>1. IdleWorker \in WorkerState
    BY DEF IdleWorker, WorkerState
  <2>2. IdleMonitor \in MonitorState
    BY DEF IdleMonitor, MonitorState
  <2>3. backends' \in Nat
    <3>1. backends \in Nat
      BY DEF LocalInv, LocalTypeOK
    <3> QED
      BY <1>a, <3>1
  <2>4. closedPair' \in BOOLEAN
    BY <1>a
  <2> QED
    BY <1>a, <2>1, <2>2, <2>3, <2>4 DEF LocalInv, LocalTypeOK
<1>2. JobsAreNew' /\ WorkerHasItsRow' /\ MonitorHasALeftRow'
  BY <1>a DEF JobsAreNew, WorkerHasItsRow, MonitorHasALeftRow, IdleWorker, IdleMonitor, Repairs
<1>3. OneOpenInFlight'
  BY <1>a, OneInFlightKept DEF LocalInv, InFlight
<1>4. KnownAreMade'
  BY <1>a, KnownIs, KnownNext DEF LocalInv, IdleWorker, IdleMonitor, Repairs
<1>5. Owned
  BY <1>a DEF Owned
<1> QED
  BY <1>1, <1>2, <1>3, <1>4, <1>5 DEF LocalInv

LEMMA DeliverKeeps == LocalInv /\ Deliver => LocalInv' /\ Owned
<1> SUFFICES ASSUME LocalInv, Deliver PROVE LocalInv' /\ Owned
  OBVIOUS
<1>1. /\ UNCHANGED <<executions, newer, accountVars, entering, jobs, monitorVars, orders, onVenue,
                      listing, backends>>
      /\ notices' \subseteq Execution
  BY DEF Deliver, LocalInv, LocalTypeOK
<1>2. /\ worker' \in WorkerState
      /\ worker'.pc = worker.pc /\ worker'.row = worker.row
  <2>1. worker.told \in BOOLEAN
    BY DEF LocalInv, LocalTypeOK, WorkerState
  <2>2. (worker.told \/ worker.pc = "sent") \in BOOLEAN
    BY Zenon
  <2>3. CASE worker' = [worker EXCEPT !.told = worker.told \/ worker.pc = "sent"]
    <3> DEFINE b == worker.told \/ worker.pc = "sent"
    <3>1. b \in BOOLEAN /\ worker' = [worker EXCEPT !.told = b]
      BY <2>2, <2>3
    <3> HIDE DEF b
    <3> QED
      BY <3>1 DEF LocalInv, LocalTypeOK, WorkerState
  <2>4. CASE worker' = worker
    BY <2>4 DEF LocalInv, LocalTypeOK
  <2> QED
    BY <2>3, <2>4 DEF Deliver
<1>3. heard' \subseteq Execution
  BY DEF Deliver, LocalInv, LocalTypeOK, OpenRows, RowsIn
<1>4. LocalTypeOK'
  BY <1>1, <1>2, <1>3 DEF LocalInv, LocalTypeOK, accountVars, monitorVars
<1> QED
  BY <1>1, <1>2, <1>4, ThreadsKept DEF monitorVars

LEMMA VenueKeeps == LocalInv /\ VenueStep => LocalInv' /\ Owned
<1> SUFFICES ASSUME LocalInv, VenueStep PROVE LocalInv' /\ Owned
  OBVIOUS
<1>1. UNCHANGED <<journalVars, accountVars, workerVars, monitorVars, backends>>
  BY DEF VenueStep
<1> DEFINE VenueTyped ==
      /\ orders' \in [Execution -> OrderState]
      /\ onVenue' \subseteq Execution /\ listing' \subseteq Execution
      /\ notices' \subseteq Execution
<1>a. /\ orders \in [Execution -> OrderState]
      /\ onVenue \subseteq Execution /\ listing \subseteq Execution /\ notices \subseteq Execution
  BY DEF LocalInv, LocalTypeOK
<1>2. ASSUME NEW r \in Execution, MineOrder(r) PROVE VenueTyped
  BY <1>2, <1>a DEF MineOrder, OrderState
<1>3. ASSUME NEW r \in Execution, ExecuteOrder(r) PROVE VenueTyped
  BY <1>3, <1>a DEF ExecuteOrder, EndTrade, OrderState
<1>4. ASSUME EndOnVenue PROVE VenueTyped
  BY <1>4, <1>a DEF EndOnVenue, EndTrade
<1>5. ASSUME ListingCatchesUp PROVE VenueTyped
  BY <1>5, <1>a DEF ListingCatchesUp
<1> HIDE DEF VenueTyped
<1>6. VenueTyped
  BY <1>2, <1>3, <1>4, <1>5 DEF VenueStep
<1>7. LocalTypeOK'
  BY <1>1, <1>6 DEF LocalInv, LocalTypeOK, VenueTyped, journalVars, accountVars, workerVars,
                    monitorVars
<1> QED
  BY <1>1, <1>7, ThreadsKept DEF journalVars, workerVars, monitorVars

LEMMA WorkTyped ==
  ASSUME LocalTypeOK,
         NEW place \in {"idle", "begin", "send", "sent", "finish", "hide", "record", "leave"},
         worker' = IdleWorker \/ GoTo(place),
         executions' \in [Execution -> LocalRow],
         newer' \subseteq Execution \X Execution, heard' \subseteq Execution,
         cached' \subseteq SUBSET Execution, closedPair' \in BOOLEAN,
         orders' \in [Execution -> OrderState],
         UNCHANGED <<entering, jobs, monitorVars, backends, onVenue, listing, notices>>
  PROVE  LocalTypeOK'
<1>1. worker' \in WorkerState
  <2>1. CASE worker' = IdleWorker
    BY <2>1 DEF IdleWorker, WorkerState
  <2>2. CASE GoTo(place)
    <3>1. worker \in WorkerState
      BY DEF LocalTypeOK
    <3> QED
      BY <2>2, <3>1 DEF GoTo, WorkerState
  <2> QED
    BY <2>1, <2>2
<1> QED
  BY <1>1 DEF LocalTypeOK, monitorVars

LEMMA RaiseChanges ==
  ASSUME LocalTypeOK, NEW r \in Execution, Raise(r)
  PROVE  /\ Changes(r, IF executions[r].action = "open" THEN "failed" ELSE "unknown")
         /\ GoTo("leave")
  BY SetStatusChanges DEF Raise, Statuses, ActiveLocal, PendingLocal

\* One step of the executor's thread, whose row takes a status.
LEMMA WorkKeeps ==
  ASSUME LocalInv, NEW r \in Execution, NEW to \in Statuses \ {"none"}, Changes(r, to),
         NEW place \in {"send", "leave"}, worker.pc \notin {"idle", place}, worker.row = r,
         GoTo(place),
         UNCHANGED <<entering, jobs, monitorVars, backends, onVenue, listing, notices>>,
         r \notin strays /\ to \in {"created", "opening"} /\ executions[r].action = "open" =>
           InFlight(r),
         r \notin strays /\ place = "send" => to = "opening" /\ executions[r].action = "open",
         cached' \subseteq SUBSET Execution, closedPair' \in BOOLEAN,
         orders' \in [Execution -> OrderState]
  PROVE  LocalInv' /\ Owned
<1>1. /\ OneOpenInFlight' /\ KnownAreMade' /\ JobsAreNew' /\ WorkerHasItsRow'
      /\ MonitorHasALeftRow' /\ Owned
  BY ChangesOwn
<1>2. LocalTypeOK'
  BY WorkTyped DEF Changes, LocalInv
<1> QED
  BY <1>1, <1>2 DEF LocalInv

\* One step of the thread that leaves the journal alone.
LEMMA WorkMoves ==
  ASSUME LocalInv, NEW place \in {"sent", "finish", "record"}, worker.pc # "idle",
         place = "sent" => worker.pc = "send",
         GoTo(place), UNCHANGED journalVars,
         UNCHANGED <<entering, jobs, monitorVars, backends, onVenue, listing, notices>>,
         cached' \subseteq SUBSET Execution, closedPair' \in BOOLEAN,
         orders' \in [Execution -> OrderState]
  PROVE  LocalInv' /\ Owned
<1>1. /\ UNCHANGED <<executions, newer, heard, entering, jobs, monitor, strays>>
      /\ worker'.pc = place /\ worker'.row = worker.row
  BY DEF journalVars, monitorVars, GoTo, LocalInv, LocalTypeOK, WorkerState
<1>2. LocalTypeOK'
  BY <1>1, WorkTyped DEF LocalInv, LocalTypeOK
<1>3. JobsAreNew' /\ WorkerHasItsRow'
  BY <1>1 DEF LocalInv, JobsAreNew, WorkerHasItsRow
<1>4. MonitorHasALeftRow'
  BY <1>1 DEF LocalInv, MonitorHasALeftRow, InHand
<1>5. OneOpenInFlight'
  BY <1>1, OneInFlightKept DEF LocalInv, InFlight
<1>6. KnownAreMade'
  BY <1>1, KnownIs, KnownNext DEF LocalInv
<1>7. Owned
  BY <1>1 DEF Owned
<1> QED
  BY <1>2, <1>3, <1>4, <1>5, <1>6, <1>7 DEF LocalInv

\* The thread ends the opening of its close: an open row is in no other hands.
LEMMA WorkEnds ==
  ASSUME LocalInv, worker.pc = "finish", GoTo("hide"), EndOpening,
         UNCHANGED <<entering, jobs, monitorVars, backends, onVenue, listing, notices>>,
         cached' \subseteq SUBSET Execution, closedPair' \in BOOLEAN,
         orders' \in [Execution -> OrderState]
  PROVE  LocalInv' /\ Owned
<1>1. /\ UNCHANGED <<entering, jobs, monitor, strays>>
      /\ worker'.pc = "hide" /\ worker'.row = worker.row
  BY DEF monitorVars, GoTo, LocalInv, LocalTypeOK, WorkerState
<1>2. \/ \E q \in Execution : executions[q].status = "open" /\ Changes(q, "closed")
      \/ UNCHANGED journalVars
  BY EndOpeningChanges DEF LocalInv
<1>3. /\ executions' \in [Execution -> LocalRow]
      /\ newer' \subseteq Execution \X Execution /\ heard' \subseteq Execution
      /\ \A q \in Execution :
           \/ executions'[q] = executions[q]
           \/ executions[q].status = "open" /\ executions'[q].status = "closed"
  BY <1>2 DEF Changes, journalVars, LocalInv, LocalTypeOK
<1>4. LocalTypeOK'
  BY <1>3, WorkTyped DEF LocalInv
<1>5. WorkerHasItsRow'
  BY <1>1 DEF LocalInv, WorkerHasItsRow
<1>6. JobsAreNew'
  <2>1. \A q \in jobs \cup entering : q \in Execution
    BY KnownIs DEF LocalInv
  <2> QED
    BY <1>1, <1>3, <2>1 DEF LocalInv, JobsAreNew
<1>7. MonitorHasALeftRow'
  BY <1>1 DEF LocalInv, MonitorHasALeftRow, InHand
<1>8. OneOpenInFlight'
  BY <1>1, <1>3, OneInFlightKept DEF LocalInv, InFlight
<1>9. KnownAreMade'
  BY <1>1, <1>3, KnownIs, KnownNext DEF LocalInv
<1>10. Owned
  BY <1>3 DEF Owned, PendingRows, PendingLocal, RowsIn
<1> QED
  BY <1>4, <1>5, <1>6, <1>7, <1>8, <1>9, <1>10 DEF LocalInv

LEMMA WorkerKeeps == LocalInv /\ Work => LocalInv' /\ Owned
<1> SUFFICES ASSUME LocalInv, NEW r \in Execution,
                    \/ BeginOpen(r) \/ SendOrder(r) \/ OpenSeen(r) \/ OpenNotSeen(r)
                    \/ CloseSeen(r) \/ CloseNotSeen(r) \/ Reverted(r) \/ NoReceipt(r)
                    \/ FinishClose(r) \/ Leave(r),
                    UNCHANGED <<entering, jobs, monitorVars, backends>>
             PROVE  LocalInv' /\ Owned
  BY DEF Work
<1>1. /\ LocalTypeOK
      /\ orders \in [Execution -> OrderState]
      /\ listing \in SUBSET Execution
      /\ executions[r].action \in {"open", "close"}
  BY DEF LocalInv, LocalTypeOK, LocalRow
<1>2. {"opening", "open", "closing", "unknown", "closed", "failed"} \subseteq Statuses \ {"none"}
  BY DEF Statuses, ActiveLocal, PendingLocal
<1>3. r \notin strays =>
        /\ At(r, "begin") => executions[r].action = "open" /\ executions[r].status = "created"
        /\ At(r, "sent") /\ executions[r].action = "open" => executions[r].status = "opening"
  BY DEF LocalInv, WorkerHasItsRow, At
<1>4. ASSUME Raise(r), worker.pc \in {"begin", "send", "sent"}, worker.row = r,
             cached' \subseteq SUBSET Execution, closedPair' \in BOOLEAN,
             orders' \in [Execution -> OrderState],
             UNCHANGED <<onVenue, listing, notices>>
      PROVE  LocalInv' /\ Owned
  <2> DEFINE to == IF executions[r].action = "open" THEN "failed" ELSE "unknown"
  <2>1. Changes(r, to) /\ GoTo("leave")
    BY <1>1, <1>4, RaiseChanges
  <2>2. to \in Statuses \ {"none"} /\ to \notin {"created", "opening"}
    BY <1>2
  <2> HIDE DEF to
  <2> QED
    BY <1>4, <2>1, <2>2, WorkKeeps
<1>5. CASE BeginOpen(r)
  <2>1. cached' \subseteq SUBSET Execution /\ closedPair' \in BOOLEAN
    <3>1. CASE cached = {}
      BY <1>1, <1>5, <3>1, SnapshotTyped DEF BeginOpen
    <3>2. CASE cached # {}
      BY <1>1, <1>5, <3>2, AccountKept DEF BeginOpen
    <3> QED
      BY <3>1, <3>2
  <2>2. At(r, "begin") /\ UNCHANGED <<orders, onVenue, listing, notices>>
    BY <1>5 DEF BeginOpen, localVenueVars
  <2>3. CASE SetStatus(r, "opening") /\ GoTo("send")
    <3>1. Changes(r, "opening")
      BY <1>1, <1>2, <2>3, SetStatusChanges
    <3> QED
      BY <1>1, <1>2, <1>3, <2>1, <2>2, <2>3, <3>1, WorkKeeps DEF At, InFlight
  <2>4. CASE Raise(r)
    BY <1>1, <1>4, <2>1, <2>2, <2>4 DEF At
  <2> QED
    BY <1>5, <2>3, <2>4 DEF BeginOpen
<1>6. CASE SendOrder(r)
  <2>1. At(r, "send") /\ UNCHANGED <<accountVars, onVenue, listing, notices>>
    BY <1>6 DEF SendOrder
  <2>2. cached' \subseteq SUBSET Execution /\ closedPair' \in BOOLEAN
    BY <1>1, <2>1, AccountKept
  <2>3. orders' \in [Execution -> OrderState]
    BY <1>1, <1>6 DEF SendOrder, OrderState
  <2>4. CASE Raise(r)
    BY <1>4, <2>1, <2>2, <2>3, <2>4 DEF At
  <2>5. CASE GoTo("sent") /\ UNCHANGED journalVars
    BY <2>1, <2>2, <2>3, <2>5, WorkMoves DEF At
  <2> QED
    BY <1>6, <2>4, <2>5 DEF SendOrder
<1>7. CASE OpenSeen(r)
  <2>1. /\ At(r, "sent") /\ GoTo("leave")
        /\ UNCHANGED <<accountVars, orders, onVenue, listing, notices>>
    BY <1>7 DEF OpenSeen, Confirmed, localVenueVars
  <2>2. PICK trade \in Found(r) : SetOpen(r, trade)
    BY <1>7 DEF OpenSeen
  <2>3. trade \in Execution
    BY <1>1 DEF Found, OpenRows
  <2>4. Changes(r, "open")
    BY <1>1, <2>2, <2>3, SetOpenChanges
  <2> QED
    BY <1>1, <1>2, <2>1, <2>4, AccountKept, WorkKeeps DEF At
<1>8. CASE OpenNotSeen(r)
  <2>1. /\ At(r, "sent") /\ executions[r].action = "open"
        /\ UNCHANGED <<orders, onVenue, listing, notices>>
    BY <1>8 DEF OpenNotSeen, Confirmed, localVenueVars
  <2> DEFINE to == IF executions[r].status = "open" THEN "open" ELSE "opening"
  <2>2. CASE Snapshot(listing) /\ SetStatus(r, to) /\ GoTo("leave")
    <3>1. to \in Statuses \ {"none"}
      BY <1>2
    <3>2. Changes(r, to)
      BY <1>1, <2>2, <3>1, SetStatusChanges
    <3>3. r \notin strays => InFlight(r)
      BY <1>3, <2>1 DEF InFlight
    <3> HIDE DEF to
    <3> QED
      BY <1>1, <2>1, <2>2, <3>1, <3>2, <3>3, SnapshotTyped, WorkKeeps DEF At
  <2>3. CASE Raise(r) /\ UNCHANGED accountVars
    BY <1>1, <1>4, <2>1, <2>3, AccountKept DEF At
  <2> QED
    BY <1>8, <2>2, <2>3 DEF OpenNotSeen
<1>9. CASE CloseSeen(r)
  <2>1. /\ At(r, "sent") /\ GoTo("finish")
        /\ UNCHANGED <<journalVars, accountVars, orders, onVenue, listing, notices>>
    BY <1>9 DEF CloseSeen, Confirmed, localVenueVars
  <2> QED
    BY <1>1, <2>1, AccountKept, WorkMoves DEF At
<1>10. CASE CloseNotSeen(r)
  <2>1. /\ At(r, "sent") /\ GoTo("leave") /\ SetStatus(r, "closing")
        /\ UNCHANGED <<accountVars, orders, onVenue, listing, notices>>
    BY <1>10 DEF CloseNotSeen, Confirmed, localVenueVars
  <2>2. Changes(r, "closing")
    BY <1>1, <1>2, <2>1, SetStatusChanges
  <2> QED
    BY <1>1, <1>2, <2>1, <2>2, AccountKept, WorkKeeps DEF At
<1>11. CASE Reverted(r)
  <2>1. At(r, "sent") /\ UNCHANGED <<accountVars, orders, onVenue, listing, notices>>
    BY <1>11 DEF Reverted, localVenueVars
  <2>2. CASE GoTo("finish") /\ UNCHANGED journalVars
    BY <1>1, <2>1, <2>2, AccountKept, WorkMoves DEF At
  <2>3. CASE SetStatus(r, "failed") /\ GoTo("leave")
    <3>1. Changes(r, "failed")
      BY <1>1, <1>2, <2>3, SetStatusChanges
    <3> QED
      BY <1>1, <1>2, <2>1, <2>3, <3>1, AccountKept, WorkKeeps DEF At
  <2> QED
    BY <1>11, <2>2, <2>3 DEF Reverted
<1>12. CASE NoReceipt(r)
  <2>1. /\ At(r, "sent") /\ Raise(r)
        /\ UNCHANGED <<accountVars, orders, onVenue, listing, notices>>
    BY <1>12 DEF NoReceipt, localVenueVars
  <2> QED
    BY <1>1, <1>4, <2>1, AccountKept DEF At
<1>13. CASE FinishClose(r)
  <2>1. UNCHANGED <<orders, onVenue, listing, notices>>
    BY <1>13 DEF FinishClose, localVenueVars
  <2>2. CASE At(r, "finish") /\ EndOpening /\ GoTo("hide") /\ UNCHANGED accountVars
    BY <1>1, <2>1, <2>2, AccountKept, WorkEnds DEF At
  <2>3. CASE At(r, "hide") /\ Hide /\ GoTo("record") /\ UNCHANGED journalVars
    BY <1>1, <2>1, <2>3, HideTyped, WorkMoves DEF At
  <2>4. CASE At(r, "record") /\ SetStatus(r, "closed") /\ GoTo("leave") /\ UNCHANGED accountVars
    <3>1. Changes(r, "closed")
      BY <1>1, <1>2, <2>4, SetStatusChanges
    <3> QED
      BY <1>1, <1>2, <2>1, <2>4, <3>1, AccountKept, WorkKeeps DEF At
  <2> QED
    BY <1>13, <2>2, <2>3, <2>4 DEF FinishClose
<1>14. CASE Leave(r)
  <2>1. /\ UNCHANGED <<executions, newer, heard, cached, closedPair, orders, onVenue, listing,
                       notices, monitor, strays, jobs, entering>>
        /\ worker' = IdleWorker
    BY <1>14 DEF Leave, journalVars, accountVars, localVenueVars, monitorVars
  <2>2. LocalTypeOK'
    BY <1>1, <2>1, WorkTyped DEF LocalTypeOK
  <2>3. JobsAreNew' /\ WorkerHasItsRow'
    BY <2>1 DEF LocalInv, JobsAreNew, WorkerHasItsRow, IdleWorker
  <2>4. MonitorHasALeftRow'
    BY <2>1 DEF LocalInv, MonitorHasALeftRow, InHand, IdleWorker
  <2>5. OneOpenInFlight'
    BY <2>1, OneInFlightKept DEF LocalInv, InFlight
  <2>6. KnownAreMade'
    BY <2>1, KnownIs, KnownNext DEF LocalInv, IdleWorker
  <2>7. Owned
    BY <2>1 DEF Owned
  <2> QED
    BY <2>2, <2>3, <2>4, <2>5, <2>6, <2>7 DEF LocalInv
<1> QED
  BY <1>5, <1>6, <1>7, <1>8, <1>9, <1>10, <1>11, <1>12, <1>13, <1>14

LEMMA MonitorTyped ==
  ASSUME LocalTypeOK, monitor' \in MonitorState,
         executions' \in [Execution -> LocalRow],
         newer' \subseteq Execution \X Execution, heard' \subseteq Execution,
         cached' \subseteq SUBSET Execution, closedPair' \in BOOLEAN,
         unseen' \subseteq Execution \X (Execution \cup {NoTrade}), strays' \subseteq Execution,
         UNCHANGED <<workerVars, localVenueVars, backends>>
  PROVE  LocalTypeOK'
  BY DEF LocalTypeOK, workerVars, localVenueVars

\* A step of the monitor that writes no row: it may begin on an open row that is not in
\* hand, or on a row of its list, or go on with the row it has.
LEMMA MonitorReads ==
  ASSUME LocalInv, UNCHANGED journalVars, monitor' \in MonitorState,
         monitor'.pending \subseteq monitor.pending \cup PendingRows,
         \/ monitor'.pc \notin Repairs
         \/ monitor'.row \in OpenExecutions \ InHand
         \/ /\ monitor'.row \in monitor.pending
            /\ monitor'.row \in strays' \/ monitor'.row \notin InHand \cup entering
         \/ monitor.pc \in Repairs /\ monitor'.row = monitor.row,
         strays' = strays \/ \E S \in SUBSET entering : strays' = strays \cup S,
         cached' \subseteq SUBSET Execution, closedPair' \in BOOLEAN,
         unseen' \subseteq Execution \X (Execution \cup {NoTrade}),
         UNCHANGED <<workerVars, localVenueVars, backends>>
  PROVE  LocalInv' /\ Owned
<1>1. UNCHANGED <<executions, newer, heard, entering, jobs, worker>>
  BY DEF journalVars, workerVars
<1>2. strays \subseteq strays' /\ strays' \subseteq strays \cup entering
  OBVIOUS
<1>3. LocalTypeOK'
  BY <1>1, <1>2, MonitorTyped DEF LocalInv, LocalTypeOK
<1>4. JobsAreNew' /\ WorkerHasItsRow'
  BY <1>1, <1>2 DEF LocalInv, JobsAreNew, WorkerHasItsRow
<1>5. InHand' = InHand
  BY <1>1 DEF InHand
<1>6. \A r \in OpenExecutions : r \in Execution /\ executions[r].status = "open"
  BY DEF OpenExecutions, OpenRows, RowsIn
<1>7. \A r \in PendingRows : r \in Execution /\ executions[r].status # "none"
  BY DEF PendingRows, PendingLocal, RowsIn
<1>8. MonitorHasALeftRow'
  <2>1. ASSUME monitor'.row \in OpenExecutions \ InHand, monitor'.row \notin strays
        PROVE  monitor'.row \notin entering
    BY <1>6, <2>1 DEF LocalInv, JobsAreNew
  <2> QED
    BY <1>1, <1>2, <1>5, <2>1 DEF LocalInv, MonitorHasALeftRow
<1>9. OneOpenInFlight'
  BY <1>1, <1>2, OneInFlightKept DEF LocalInv, InFlight
<1>10. KnownAreMade'
  BY <1>1, <1>2, <1>6, <1>7, KnownIs, KnownNext DEF LocalInv
<1>11. Owned
  BY <1>1 DEF Owned
<1> QED
  BY <1>3, <1>4, <1>8, <1>9, <1>10, <1>11 DEF LocalInv

\* A step of the monitor that writes a row the executor has let go, one that is open, or
\* one it looked at too early, and keeps its own row or none.
LEMMA MonitorWrites ==
  ASSUME LocalInv, NEW r \in Execution, NEW to \in {"open", "closed", "failed"}, Changes(r, to),
         r \in strays \/ r \notin InHand \cup entering \/ executions[r].status = "open",
         monitor' \in MonitorState, monitor'.pending \subseteq monitor.pending \cup PendingRows,
         monitor'.pc \in Repairs => monitor.pc \in Repairs /\ monitor'.row = monitor.row,
         cached' \subseteq SUBSET Execution, closedPair' \in BOOLEAN,
         unseen' \subseteq Execution \X (Execution \cup {NoTrade}), strays' = strays,
         UNCHANGED <<workerVars, localVenueVars, backends>>
  PROVE  LocalInv' /\ Owned
<1>1. OneOpenInFlight' /\ JobsAreNew' /\ WorkerHasItsRow' /\ Owned
  BY ChangesBeside
<1>2. LocalTypeOK'
  BY MonitorTyped DEF LocalInv, LocalTypeOK, Changes
<1>3. UNCHANGED <<entering, jobs, worker>>
  BY DEF workerVars
<1>4. InHand' = InHand
  BY <1>3 DEF InHand
<1>5. MonitorHasALeftRow'
  BY <1>3, <1>4 DEF LocalInv, MonitorHasALeftRow
<1>6. \A q \in Execution : executions[q].status # "none" => executions'[q].status # "none"
  BY DEF Changes
<1>7. \A q \in PendingRows : q \in Execution /\ executions[q].status # "none"
  BY DEF PendingRows, PendingLocal, RowsIn
<1>8. KnownAreMade'
  BY <1>3, <1>6, <1>7, KnownIs, KnownNext DEF LocalInv
<1> QED
  BY <1>1, <1>2, <1>5, <1>8 DEF LocalInv

LEMMA WatchedRows ==
  /\ Watched \subseteq OpenExecutions \ InHand
  /\ \A r \in Watched : r \in Execution /\ executions[r].status = "open"
  BY DEF Watched, OpenExecutions, OpenRows, RowsIn

LEMMA ScanKeeps ==
  ASSUME LocalInv, NEW view \in SUBSET Execution, Scan(view),
         cached' \subseteq SUBSET Execution, closedPair' \in BOOLEAN, strays' = strays,
         UNCHANGED <<workerVars, localVenueVars, backends>>
  PROVE  LocalInv' /\ Owned
<1> DEFINE after(pc, r) == [pc |-> pc, row |-> r, view |-> view, pending |-> PendingRows]
<1>1. /\ LocalTypeOK
      /\ unseen \subseteq Execution \X (Execution \cup {NoTrade})
      /\ PendingRows \in SUBSET Execution
      /\ \A r \in Execution : executions[r].position \in Execution \cup {NoTrade}
  BY DEF LocalInv, LocalTypeOK, LocalRow, PendingRows, RowsIn
<1>2. /\ after("settle", 0) \in MonitorState
      /\ \A r \in Execution : after("hide", r) \in MonitorState
      /\ after("settle", 0).pc \notin Repairs
      /\ after("settle", 0).pending = PendingRows
      /\ \A r \in Execution : after("hide", r).row = r /\ after("hide", r).pending = PendingRows
  BY <1>1 DEF MonitorState, Repairs
<1>3. CASE monitor' = after("settle", 0) /\ UNCHANGED <<journalVars, unseen>>
  BY <1>1, <1>2, <1>3, MonitorReads
<1>4. ASSUME NEW r \in Watched, monitor' = after("hide", r), UNCHANGED <<journalVars, unseen>>
      PROVE  LocalInv' /\ Owned
  <2>1. r \in Execution /\ r \in OpenExecutions \ InHand
    BY <1>4, WatchedRows
  <2>2. /\ monitor' \in MonitorState /\ monitor'.row \in OpenExecutions \ InHand
        /\ monitor'.pending = PendingRows
    BY <1>2, <1>4, <2>1
  <2>3. UNCHANGED journalVars /\ unseen' = unseen
    BY <1>4
  <2> QED
    BY <1>1, <2>2, <2>3, MonitorReads
<1>5. ASSUME NEW r \in Watched, NEW trade \in view, SetOpen(r, trade),
             monitor' = after("settle", 0), unseen' \subseteq unseen
      PROVE  LocalInv' /\ Owned
  <2>1. r \in Execution /\ trade \in Execution /\ executions[r].status = "open"
    BY <1>5, WatchedRows
  <2>2. Changes(r, "open")
    BY <1>1, <1>5, <2>1, SetOpenChanges
  <2> QED
    BY <1>1, <1>2, <1>5, <2>1, <2>2, MonitorWrites
<1>6. ASSUME NEW r \in Watched, monitor' = after("settle", 0), UNCHANGED journalVars,
             unseen' = unseen \cup {<<r, executions[r].position>>}
      PROVE  LocalInv' /\ Owned
  <2>1. unseen' \subseteq Execution \X (Execution \cup {NoTrade})
    BY <1>1, <1>6, WatchedRows
  <2> QED
    BY <1>1, <1>2, <1>6, <2>1, MonitorReads
<1>7. \/ monitor' = after("settle", 0) /\ UNCHANGED <<journalVars, unseen>>
      \/ \E r \in Watched :
           \/ monitor' = after("hide", r) /\ UNCHANGED <<journalVars, unseen>>
           \/ /\ \E trade \in view : SetOpen(r, trade)
              /\ monitor' = after("settle", 0) /\ unseen' \subseteq unseen
           \/ /\ monitor' = after("settle", 0) /\ UNCHANGED journalVars
              /\ unseen' = unseen \cup {<<r, executions[r].position>>}
  BY DEF Scan
<1> HIDE DEF after
<1> QED
  BY <1>3, <1>4, <1>5, <1>6, <1>7

\* The monitor takes a row of its list, and looks at _running.
LEMMA SettleKeeps ==
  ASSUME LocalInv, Settle, UNCHANGED <<workerVars, localVenueVars, backends>>
  PROVE  LocalInv' /\ Owned
<1> DEFINE after(pc, row, r) == [monitor EXCEPT !.pc = pc, !.row = row, !.pending = @ \ {r}]
<1>1. /\ LocalTypeOK /\ monitor \in MonitorState
      /\ unseen \subseteq Execution \X (Execution \cup {NoTrade})
      /\ unseen' = unseen /\ UNCHANGED accountVars
  BY DEF LocalInv, LocalTypeOK, Settle
<1>2. cached' \subseteq SUBSET Execution /\ closedPair' \in BOOLEAN
  BY <1>1, AccountKept
<1> PICK r \in monitor.pending :
      \/ /\ r \notin InHand
         /\ \E pc \in {"adopt", "finish"} : monitor' = after(pc, r, r)
         /\ strays' = strays \cup ({r} \cap entering) /\ UNCHANGED journalVars
      \/ /\ r \notin InHand /\ r \notin entering /\ SetStatus(r, "failed")
         /\ monitor' = after("settle", 0, r) /\ strays' = strays
      \/ monitor' = after("settle", 0, r) /\ strays' = strays /\ UNCHANGED journalVars
  <2>1. \A r : /\ r \in monitor.pending
               /\ \/ /\ Repairable(r)
                     /\ monitor' = after(IF executions[r].action = "open" THEN "adopt"
                                         ELSE "finish", r, r)
                     /\ strays' = strays \cup ({r} \cap entering) /\ UNCHANGED journalVars
                  \/ /\ Repairable(r) /\ r \notin entering /\ SetStatus(r, "failed")
                     /\ monitor' = after("settle", 0, r) /\ strays' = strays
                  \/ monitor' = after("settle", 0, r) /\ strays' = strays /\ UNCHANGED journalVars
               => \/ /\ r \notin InHand
                     /\ \E pc \in {"adopt", "finish"} : monitor' = after(pc, r, r)
                     /\ strays' = strays \cup ({r} \cap entering) /\ UNCHANGED journalVars
                  \/ /\ r \notin InHand /\ r \notin entering /\ SetStatus(r, "failed")
                     /\ monitor' = after("settle", 0, r) /\ strays' = strays
                  \/ monitor' = after("settle", 0, r) /\ strays' = strays /\ UNCHANGED journalVars
    BY DEF Repairable
  <2>2. \E r \in monitor.pending :
          \/ /\ Repairable(r)
             /\ monitor' = after(IF executions[r].action = "open" THEN "adopt" ELSE "finish", r, r)
             /\ strays' = strays \cup ({r} \cap entering) /\ UNCHANGED journalVars
          \/ /\ Repairable(r) /\ r \notin entering /\ SetStatus(r, "failed")
             /\ monitor' = after("settle", 0, r) /\ strays' = strays
          \/ monitor' = after("settle", 0, r) /\ strays' = strays /\ UNCHANGED journalVars
    BY Zenon DEF Settle
  <2> HIDE DEF after
  <2> QED
    BY <2>1, <2>2, Zenon
<1>3. r \in Execution
  BY <1>1 DEF MonitorState
<1>4. /\ after("settle", 0, r) \in MonitorState
      /\ \A pc \in {"adopt", "finish"} :
           after(pc, r, r) \in MonitorState /\ after(pc, r, r).row = r
           /\ after(pc, r, r).pending \subseteq monitor.pending
      /\ after("settle", 0, r).pc \notin Repairs
      /\ after("settle", 0, r).pending \subseteq monitor.pending
  BY <1>1, <1>3 DEF MonitorState, Repairs
<1> HIDE DEF after
<1>5. CASE /\ r \notin InHand
           /\ \E pc \in {"adopt", "finish"} : monitor' = after(pc, r, r)
           /\ strays' = strays \cup ({r} \cap entering) /\ UNCHANGED journalVars
  <2>1. /\ monitor' \in MonitorState /\ monitor'.row = r /\ monitor'.pending \subseteq monitor.pending
    BY <1>4, <1>5
  <2>2. monitor'.row \in strays' \/ monitor'.row \notin InHand \cup entering
    BY <1>5, <2>1
  <2>3. \E S \in SUBSET entering : strays' = strays \cup S
    BY <1>5
  <2> QED
    BY <1>1, <1>2, <1>5, <2>1, <2>2, <2>3, MonitorReads
<1>6. CASE /\ r \notin InHand /\ r \notin entering /\ SetStatus(r, "failed")
           /\ monitor' = after("settle", 0, r) /\ strays' = strays
  <2>1. Changes(r, "failed")
    BY <1>1, <1>3, <1>6, SetStatusChanges DEF Statuses
  <2> QED
    BY <1>1, <1>2, <1>3, <1>4, <1>6, <2>1, MonitorWrites
<1>7. CASE monitor' = after("settle", 0, r) /\ strays' = strays /\ UNCHANGED journalVars
  BY <1>1, <1>2, <1>4, <1>7, MonitorReads
<1> QED
  BY <1>5, <1>6, <1>7

LEMMA MonitorKeeps == LocalInv /\ MonitorStep => LocalInv' /\ Owned
<1> SUFFICES ASSUME LocalInv, MonitorStep PROVE LocalInv' /\ Owned
  OBVIOUS
<1>1. UNCHANGED <<workerVars, localVenueVars, backends>>
  BY DEF MonitorStep
<1>2. /\ LocalTypeOK /\ monitor \in MonitorState
      /\ unseen \subseteq Execution \X (Execution \cup {NoTrade})
      /\ listing \in SUBSET Execution /\ UNION cached \in SUBSET Execution
      /\ monitor.view \in SUBSET Execution /\ monitor.pending \in SUBSET Execution
  BY DEF LocalInv, LocalTypeOK, MonitorState
<1>3. /\ IdleMonitor \in MonitorState /\ IdleMonitor.pc \notin Repairs
      /\ IdleMonitor.pending = {}
  BY DEF IdleMonitor, MonitorState, Repairs
<1>4. monitor.pc \in Repairs =>
        /\ monitor.row \in Execution
        /\ monitor.row \in strays \/ monitor.row \notin InHand \cup entering
  BY KnownIs DEF LocalInv, MonitorHasALeftRow
<1>5. CASE TellGone
  <2> PICK r \in Watched : monitor' = [monitor EXCEPT !.pc = "hide", !.row = r]
    BY <1>5 DEF TellGone
  <2>1. r \in Execution /\ r \in OpenExecutions \ InHand
    BY WatchedRows
  <2>2. monitor' \in MonitorState /\ monitor'.row = r /\ monitor'.pending = monitor.pending
    BY <1>2, <2>1 DEF MonitorState
  <2>3. /\ UNCHANGED journalVars /\ UNCHANGED accountVars /\ unseen' = unseen
        /\ strays' = strays /\ monitor'.row \in OpenExecutions \ InHand
    BY <1>5, <2>1, <2>2 DEF TellGone
  <2>4. cached' \subseteq SUBSET Execution /\ closedPair' \in BOOLEAN
    BY <1>2, <2>3, AccountKept
  <2> QED
    BY <1>1, <1>2, <2>2, <2>3, <2>4, MonitorReads
<1>6. CASE HideEnded
  <2>1. /\ monitor' \in MonitorState /\ monitor'.row = monitor.row
        /\ monitor'.pending = monitor.pending /\ monitor.pc \in Repairs
    BY <1>2, <1>6 DEF HideEnded, Turn, MonitorState, Repairs
  <2>2. cached' \subseteq SUBSET Execution /\ closedPair' \in BOOLEAN
    BY <1>2, <1>6, HideTyped DEF HideEnded
  <2>3. UNCHANGED journalVars /\ unseen' = unseen /\ strays' = strays
    BY <1>6 DEF HideEnded
  <2> QED
    BY <1>1, <1>2, <2>1, <2>2, <2>3, MonitorReads
<1>7. CASE RecordEnd
  <2>1. /\ monitor.pc \in Repairs /\ SetStatus(monitor.row, "closed")
        /\ unseen' \subseteq unseen /\ UNCHANGED accountVars /\ strays' = strays
    BY <1>7 DEF RecordEnd, Repairs
  <2>2. Changes(monitor.row, "closed")
    BY <1>2, <1>4, <2>1, SetStatusChanges DEF Statuses
  <2>3. monitor' \in MonitorState /\ monitor'.pc \notin Repairs /\ monitor'.pending = monitor.pending
    BY <1>2, <1>7 DEF RecordEnd, MonitorState, Repairs
  <2>4. cached' \subseteq SUBSET Execution /\ closedPair' \in BOOLEAN
    BY <1>2, <2>1, AccountKept
  <2> QED
    BY <1>1, <1>2, <1>4, <2>1, <2>2, <2>3, <2>4, MonitorWrites
<1>8. CASE Fetch
  <2>1. /\ monitor' \in MonitorState /\ monitor'.pc \notin Repairs
        /\ monitor'.pending = monitor.pending
    BY <1>2, <1>8 DEF Fetch, MonitorState, Repairs
  <2>2. cached' \subseteq SUBSET Execution /\ closedPair' \in BOOLEAN
    BY <1>2, <1>8, AccountKept DEF Fetch
  <2>3. UNCHANGED journalVars /\ unseen' = unseen /\ strays' = strays
    BY <1>8 DEF Fetch
  <2> QED
    BY <1>1, <1>2, <2>1, <2>2, <2>3, MonitorReads
<1>9. CASE StoreFetched
  <2>1. /\ monitor' \in MonitorState /\ monitor'.pc \notin Repairs
        /\ monitor'.pending = monitor.pending
    BY <1>2, <1>9 DEF StoreFetched, Turn, MonitorState, Repairs
  <2>2. cached' \subseteq SUBSET Execution /\ closedPair' \in BOOLEAN
    BY <1>2, <1>9, SnapshotTyped DEF StoreFetched
  <2>3. UNCHANGED journalVars /\ unseen' = unseen /\ strays' = strays
    BY <1>9 DEF StoreFetched
  <2> QED
    BY <1>1, <1>2, <2>1, <2>2, <2>3, MonitorReads
<1>10. CASE Reuse
  <2>1. /\ monitor' \in MonitorState /\ monitor'.pc \notin Repairs
        /\ monitor'.pending = monitor.pending
    BY <1>2, <1>10 DEF Reuse, MonitorState, Repairs
  <2>2. cached' \subseteq SUBSET Execution /\ closedPair' \in BOOLEAN
    BY <1>2, <1>10, AccountKept DEF Reuse
  <2>3. UNCHANGED journalVars /\ unseen' = unseen /\ strays' = strays
    BY <1>10 DEF Reuse
  <2> QED
    BY <1>1, <1>2, <2>1, <2>2, <2>3, MonitorReads
<1>11. CASE Look
  BY <1>1, <1>2, <1>11, AccountKept, ScanKeeps DEF Look
<1>12. CASE Settle
  BY <1>1, <1>12, SettleKeeps
<1>13. CASE Adopt
  <2> PICK trade \in monitor.view : SetOpen(monitor.row, trade)
    BY <1>13 DEF Adopt
  <2>1. /\ monitor.pc \in Repairs /\ unseen' = unseen
        /\ UNCHANGED accountVars /\ strays' = strays
    BY <1>13 DEF Adopt, Repairs
  <2>2. Changes(monitor.row, "open")
    BY <1>2, <1>4, <2>1, SetOpenChanges
  <2>3. monitor' \in MonitorState /\ monitor'.pc \notin Repairs /\ monitor'.pending = monitor.pending
    BY <1>2, <1>13 DEF Adopt, MonitorState, Repairs
  <2>4. cached' \subseteq SUBSET Execution /\ closedPair' \in BOOLEAN
    BY <1>2, <2>1, AccountKept
  <2> QED
    BY <1>1, <1>2, <1>4, <2>1, <2>2, <2>3, <2>4, MonitorWrites
<1>14. CASE EndOpeningOf
  <2>1. /\ monitor' \in MonitorState /\ monitor'.row = monitor.row
        /\ monitor'.pending = monitor.pending /\ monitor.pc \in Repairs
    BY <1>2, <1>14 DEF EndOpeningOf, Turn, MonitorState, Repairs
  <2>2. EndOpening /\ UNCHANGED accountVars /\ unseen' = unseen /\ strays' = strays
    BY <1>14 DEF EndOpeningOf
  <2>3. cached' \subseteq SUBSET Execution /\ closedPair' \in BOOLEAN
    BY <1>2, <2>2, AccountKept
  <2>4. CASE UNCHANGED journalVars
    BY <1>1, <1>2, <2>1, <2>2, <2>3, <2>4, MonitorReads
  <2>5. ASSUME NEW q \in Execution, executions[q].status = "open", Changes(q, "closed")
        PROVE  LocalInv' /\ Owned
    BY <1>1, <1>2, <2>1, <2>2, <2>3, <2>5, MonitorWrites
  <2> QED
    BY <1>2, <2>2, <2>4, <2>5, EndOpeningChanges
<1>15. CASE EndLoop
  <2>1. /\ monitor' = IdleMonitor /\ UNCHANGED journalVars /\ UNCHANGED accountVars
        /\ unseen' = unseen /\ strays' = strays
    BY <1>15 DEF EndLoop
  <2>2. cached' \subseteq SUBSET Execution /\ closedPair' \in BOOLEAN
    BY <1>2, <2>1, AccountKept
  <2> QED
    BY <1>1, <1>2, <1>3, <2>1, <2>2, MonitorReads
<1> QED
  BY <1>5, <1>6, <1>7, <1>8, <1>9, <1>10, <1>11, <1>12, <1>13, <1>14, <1>15 DEF MonitorStep

LEMMA LocalStep == LocalInv /\ [LocalNext]_localVars => LocalInv' /\ Owned
<1> SUFFICES ASSUME LocalInv, [LocalNext]_localVars PROVE LocalInv' /\ Owned
  OBVIOUS
<1>1. CASE UNCHANGED localVars
  <2>1. UNCHANGED <<executions, newer, heard, cached, closedPair, entering, jobs, worker, monitor,
                    unseen, strays, orders, onVenue, listing, notices, backends>>
    BY <1>1 DEF localVars, journalVars, accountVars, workerVars, monitorVars, localVenueVars
  <2>2. LocalTypeOK'
    BY <2>1 DEF LocalInv, LocalTypeOK
  <2> QED
    BY <2>1, <2>2, ThreadsKept
<1>2. CASE LocalNext
  BY <1>2, OpenKeeps, CloseKeeps, HandOverKeeps, RefreshKeeps, TakeKeeps, WorkerKeeps,
     MonitorKeeps, RestartKeeps, VenueKeeps, DeliverKeeps DEF LocalNext
<1> QED
  BY <1>1, <1>2

\* The inductive invariant.
THEOREM LocalInvariant == LocalSpec => []LocalInv
<1>1. LocalInit => LocalInv
  BY LocalInitHolds
<1>2. LocalInv /\ [LocalNext]_localVars => LocalInv'
  BY LocalStep
<1> QED
  BY <1>1, <1>2, PTL DEF LocalSpec

\* Every variable keeps its type, over the races between requests, worker and monitor.
THEOREM LocalTypeCorrect == LocalSpec => []LocalTypeOK
<1>1. LocalInv => LocalTypeOK
  BY DEF LocalInv
<1> QED
  BY <1>1, LocalInvariant, PTL

\* One open at most is created or opening, of those the monitor did not look at before
\* they were in _running: the only step that stores such a row finds no active row, and
\* no writer takes another row back to an open under way.
THEOREM OneOpenUnderWay == LocalSpec => []OneOpenInFlight
<1>1. LocalInv => OneOpenInFlight
  BY DEF LocalInv
<1> QED
  BY <1>1, LocalInvariant, PTL

\* A pending row in the executor's hands is written by the executor's thread alone, with
\* any number of rows and of restarts, however long the monitor waits between its look at
\* _running and its write: a row enters _running once, so what the monitor has found out
\* of it stays out.  Only a row it looked at before it entered is no part of this.
THEOREM RunningRowsAreOwned == LocalSpec => RunningIsOwned
<1>1. LocalInv /\ [LocalNext]_localVars =>
        [\A r \in (InHand \cap PendingRows) \ strays :
           executions'[r] # executions[r] => WritesItsOwn(r)]_localVars
  BY LocalStep DEF Owned
<1> QED
  BY <1>1, LocalInvariant, PTL DEF LocalSpec, RunningIsOwned
=============================================================================
