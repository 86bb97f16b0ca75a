--------------------------- MODULE LocalExecution ---------------------------
(***************************************************************************)
(* The local one-wallet canary (builds/local-mvp/tick-mvp-local): requests *)
(* to open and to close, the worker that carries them out one at a time,   *)
(* and the monitor that repairs what the worker left, over one journal.    *)
(* One market is followed.  Rows are numbered in order of creation, and    *)
(* the number of an open's row is also the index of the trade it makes.    *)
(*                                                                         *)
(* A request holds _state_lock from its first look at the journal until    *)
(* its row is in _running.  The monitor reads the journal and _running     *)
(* without that lock, so it may see the row before it is in _running.      *)
(***************************************************************************)
EXTENDS Integers, FiniteSets

CONSTANTS
  MaxExecutions,    \* bound on the rows of the journal
  MaxLocalRestarts  \* bound on restarts of the backend

ASSUME MaxExecutionsIsNat == MaxExecutions \in Nat

VARIABLES
  executions,   \* [Execution -> LocalRow], the journal
  newer,        \* <<r, q>>: row r was updated after row q
  heard,        \* open rows with an unregister notice they still take
  entering,     \* the row a request has stored and not yet handed over, at most one
  jobs,         \* rows handed to the executor and not yet taken
  worker,       \* the executor's thread: place, row, and a notice since it sent
  monitor,      \* the monitor's thread: place, and what it has in hand
  unseen,       \* _missing_positions, <<row, trade>>
  strays,       \* history: rows the monitor went on to repair while they were entering
  cached,       \* _account: positions of the last snapshot, a set of at most one
  closedPair,   \* BOOLEAN, the market is in _closed_pairs
  orders,       \* [Execution -> how far its transaction is]
  onVenue,      \* trades that are open
  listing,      \* trades the venue's open-trades endpoint returns
  notices,      \* trades whose unregister notice is on its way
  backends      \* restarts so far

journalVars == <<executions, newer, heard>>
accountVars == <<cached, closedPair>>
workerVars == <<entering, jobs, worker>>
monitorVars == <<monitor, unseen, strays>>
localVenueVars == <<orders, onVenue, listing, notices>>
localVars == <<journalVars, accountVars, workerVars, monitorVars, localVenueVars, backends>>

Execution == 1..MaxExecutions
NoTrade == 0      \* an optimistic position has no index
PendingLocal == {"created", "opening", "closing", "unknown"}
ActiveLocal == PendingLocal \cup {"open"}
LocalRow == [action : {"open", "close"},
             status : ActiveLocal \cup {"none", "closed", "failed"},
             position : Execution \cup {NoTrade}]

RowsIn(statuses) == {r \in Execution : executions[r].status \in statuses}
OpenRows(among) == {r \in among : executions[r].action = "open"}
CloseRows(among) == {r \in among : executions[r].action = "close"}
PendingRows == RowsIn(PendingLocal)
OpenExecutions == OpenRows(RowsIn({"open"}))

\* A request holds _state_lock meanwhile.
Unlocked == entering = {}

\* _running: handed to the executor and not yet left.
InHand == jobs \cup (IF worker.pc = "idle" THEN {} ELSE {worker.row})

\* The active row that was updated last.
ActiveExecution ==
  {r \in RowsIn(ActiveLocal) : \A q \in RowsIn(ActiveLocal) : <<q, r>> \notin newer}

\* The open row of the market that was created last, of those that became a position.
LatestOpen ==
  {r \in OpenRows(RowsIn({"open", "closed"})) :
     \A q \in OpenRows(RowsIn({"open", "closed"})) : q <= r}

Made == Execution \ RowsIn({"none"})

\* Row r takes a new value.  A notice that came over a second before the update is too
\* old for the row afterwards.
Write(r, row) ==
  /\ executions' = [executions EXCEPT ![r] = row]
  /\ newer' = {p \in newer : p[1] # r} \cup ({r} \X (Made \ {r}))
  /\ \E tooOld \in SUBSET {r} :
       heard' = {q \in heard \ tooOld : executions'[q].status \notin {"closed", "failed"}}

SetStatus(r, to) == Write(r, [executions[r] EXCEPT !.status = to])

SetOpen(r, trade) == Write(r, [executions[r] EXCEPT !.status = "open", !.position = trade])

\* The opening ends before its close, which still waits for the lock.
EndOpening ==
  \/ \E q \in LatestOpen : executions[q].status = "open" /\ SetStatus(q, "closed")
  \/ /\ \A q \in LatestOpen : executions[q].status # "open"
     /\ UNCHANGED journalVars

Snapshot(positions) ==
  /\ cached' = {positions}
  /\ closedPair' = (closedPair /\ positions # {})

\* What the end of a position does to the snapshot.
Hide ==
  /\ Unlocked
  /\ closedPair' = TRUE
  /\ cached' = IF cached = {} THEN {} ELSE {{}}

IdleWorker == [pc |-> "idle", row |-> 0, told |-> FALSE]
IdleMonitor == [pc |-> "idle", row |-> 0, view |-> {}, pending |-> {}]

LocalInit ==
  /\ executions =
       [r \in Execution |-> [action |-> "open", status |-> "none", position |-> NoTrade]]
  /\ newer = {} /\ heard = {}
  /\ entering = {} /\ jobs = {} /\ worker = IdleWorker
  /\ monitor = IdleMonitor /\ unseen = {} /\ strays = {}
  /\ cached = {} /\ closedPair = FALSE
  /\ orders = [r \in Execution |-> "none"]
  /\ onVenue = {} /\ listing = {} /\ notices = {}
  /\ backends = 0

(***************************************************************************)
(* Requests.                                                               *)
(***************************************************************************)
Create(row) ==
  \E r \in Execution :
    /\ Unlocked
    /\ Made = 1..(r - 1)
    /\ Write(r, row)
    /\ entering' = {r}
    /\ UNCHANGED <<jobs, worker>>

\* _running.add and submit
HandOver ==
  /\ entering # {}
  /\ jobs' = jobs \cup entering
  /\ entering' = {}
  /\ UNCHANGED <<journalVars, accountVars, worker, monitorVars, localVenueVars, backends>>

\* No row is active.
NotBusyIfCreated == RowsIn(ActiveLocal \ {"created"}) = {}
NotBusy == RowsIn(ActiveLocal) = {}

Open ==
  /\ NotBusy
  /\ UNION cached = {}
  /\ Create([action |-> "open", status |-> "created", position |-> NoTrade])
  /\ UNCHANGED <<accountVars, monitorVars, localVenueVars, backends>>

\* The position to close is one of the snapshot, else that of the open row.
Close ==
  /\ \A a \in ActiveExecution : executions[a].status = "open"
  /\ IF cached = {} THEN Snapshot(listing) ELSE UNCHANGED accountVars
  /\ \E trade \in IF UNION cached' # {} THEN UNION cached'
                  ELSE {executions[a].position : a \in ActiveExecution} :
       Create([action |-> "close", status |-> "created", position |-> trade])
  /\ UNCHANGED <<monitorVars, localVenueVars, backends>>

\* A poll of the state, or a refresh handed to the refresh executor.
Refresh ==
  /\ Unlocked /\ Snapshot(listing)
  /\ UNCHANGED <<journalVars, workerVars, monitorVars, localVenueVars, backends>>

(***************************************************************************)
(* The worker, one row at a time, in order of creation.                    *)
(***************************************************************************)
At(r, pc) == worker.pc = pc /\ worker.row = r
GoTo(pc) == worker' = [worker EXCEPT !.pc = pc, !.told = FALSE]

Take ==
  /\ worker.pc = "idle"
  /\ \E r \in jobs :
       /\ \A q \in jobs : r <= q
       /\ jobs' = jobs \ {r}
       /\ worker' = [pc |-> IF executions[r].action = "open" THEN "begin" ELSE "send",
                     row |-> r, told |-> FALSE]
  /\ UNCHANGED <<entering, journalVars, accountVars, monitorVars, localVenueVars, backends>>

\* An exception ends the run.
Raise(r) ==
  /\ SetStatus(r, IF executions[r].action = "open" THEN "failed" ELSE "unknown")
  /\ GoTo("leave")

\* Positions, balance and allowance are looked at, the price again.
BeginOpen(r) ==
  /\ At(r, "begin") /\ Unlocked
  /\ IF cached = {} THEN Snapshot(listing) ELSE UNCHANGED accountVars
  /\ \/ UNION cached' = {} /\ SetStatus(r, "opening") /\ GoTo("send")
     \/ Raise(r)
  /\ UNCHANGED localVenueVars

\* The order may have reached the chain although its broadcast raised.
SendOrder(r) ==
  /\ At(r, "send")
  /\ \/ /\ executions[r].action = "close" => executions[r].position # NoTrade
        /\ orders' = [orders EXCEPT ![r] = "sent"]
        /\ \/ GoTo("sent") /\ UNCHANGED journalVars
           \/ Raise(r)
     \/ Raise(r) /\ UNCHANGED orders
  /\ UNCHANGED <<accountVars, onVenue, listing, notices>>

Confirmed(r, action) ==
  At(r, "sent") /\ orders[r] \in {"mined", "executed"} /\ executions[r].action = action

\* A register notice of any trade of the market answers, and the listing.
Found(r) == {q \in OpenRows(Execution) : orders[q] = "executed"} \cup listing

OpenSeen(r) ==
  /\ Confirmed(r, "open")
  /\ \E trade \in Found(r) : SetOpen(r, trade)
  /\ GoTo("leave")
  /\ UNCHANGED <<accountVars, localVenueVars>>

\* A row that is open already stays so.  The refresh that follows is inside the try: when
\* it raises the open has failed.
OpenNotSeen(r) ==
  /\ Confirmed(r, "open")
  /\ \/ /\ Unlocked /\ Snapshot(listing)
        /\ SetStatus(r, IF executions[r].status = "open" THEN "open" ELSE "opening")
        /\ GoTo("leave")
     \/ Raise(r) /\ UNCHANGED accountVars
  /\ UNCHANGED localVenueVars

\* An unregister notice of any trade of the market, the chain's log, or the listing.
Gone(r) == worker.told \/ orders[r] = "executed" \/ executions[r].position \notin listing

CloseSeen(r) ==
  /\ Confirmed(r, "close")
  /\ Gone(r)
  /\ GoTo("finish")
  /\ UNCHANGED <<journalVars, accountVars, localVenueVars>>

CloseNotSeen(r) ==
  /\ Confirmed(r, "close")
  /\ SetStatus(r, "closing")
  /\ GoTo("leave")
  /\ UNCHANGED <<accountVars, localVenueVars>>

\* A close that reverted although the trade is not in the listing counts as done, unless
\* that look raised.
Reverted(r) ==
  /\ At(r, "sent") /\ orders[r] = "reverted"
  /\ \/ /\ executions[r].action = "close" /\ executions[r].position \notin listing
        /\ GoTo("finish") /\ UNCHANGED journalVars
     \/ SetStatus(r, "failed") /\ GoTo("leave")
  /\ UNCHANGED <<accountVars, localVenueVars>>

\* _finish_close: the balance is read, then the opening ends, then the snapshot is
\* changed under the lock, and the row of the close is written last.
FinishClose(r) ==
  /\ \/ At(r, "finish") /\ EndOpening /\ GoTo("hide") /\ UNCHANGED accountVars
     \/ At(r, "hide") /\ Hide /\ GoTo("record") /\ UNCHANGED journalVars
     \/ At(r, "record") /\ SetStatus(r, "closed") /\ GoTo("leave") /\ UNCHANGED accountVars
  /\ UNCHANGED localVenueVars

NoReceipt(r) ==
  /\ At(r, "sent")
  /\ Raise(r)
  /\ UNCHANGED <<accountVars, localVenueVars>>

Leave(r) ==
  /\ At(r, "leave") /\ Unlocked
  /\ worker' = IdleWorker
  /\ UNCHANGED <<journalVars, accountVars, localVenueVars>>

Work ==
  /\ \E r \in Execution :
       \/ BeginOpen(r) \/ SendOrder(r) \/ OpenSeen(r) \/ OpenNotSeen(r)
       \/ CloseSeen(r) \/ CloseNotSeen(r) \/ Reverted(r) \/ NoReceipt(r) \/ FinishClose(r)
       \/ Leave(r)
  /\ UNCHANGED <<entering, jobs, monitorVars, backends>>

(***************************************************************************)
(* The monitor: notices first, then a snapshot and the open rows, then     *)
(* what is pending.                                                        *)
(***************************************************************************)
\* The open rows it looks at, while no close is pending.
Watched == IF CloseRows(PendingRows) # {} THEN {} ELSE OpenExecutions \ InHand

Notified(r) == executions[r].position # NoTrade /\ r \in heard

Turn(pc) == monitor' = [monitor EXCEPT !.pc = pc]

\* The balance is read before the snapshot is changed and the row is written.
TellGone ==
  /\ monitor.pc = "idle"
  /\ \E r \in Watched : Notified(r) /\ monitor' = [monitor EXCEPT !.pc = "hide", !.row = r]
  /\ UNCHANGED <<journalVars, accountVars, unseen, strays>>

\* The end of _finish_external_position_gone, and of _finish_close.
HideEnded ==
  /\ monitor.pc = "hide" /\ Hide
  /\ Turn("record")
  /\ UNCHANGED <<journalVars, unseen, strays>>

RecordEnd ==
  /\ monitor.pc = "record"
  /\ SetStatus(monitor.row, "closed")
  /\ unseen' = unseen \ {<<monitor.row, executions[monitor.row].position>>}
  /\ monitor' = [monitor EXCEPT !.pc = "settle", !.row = 0]
  /\ UNCHANGED <<accountVars, strays>>

Fetch ==
  /\ monitor.pc = "idle"
  /\ monitor' = [monitor EXCEPT !.pc = "fetched", !.view = listing]
  /\ UNCHANGED <<journalVars, accountVars, unseen, strays>>

StoreFetched ==
  /\ monitor.pc = "fetched" /\ Unlocked
  /\ Snapshot(monitor.view)
  /\ Turn("look")
  /\ UNCHANGED <<journalVars, unseen, strays>>

\* The refresh failed and the last snapshot is young enough.
Reuse ==
  /\ monitor.pc = "idle" /\ Unlocked /\ cached # {}
  /\ monitor' = [monitor EXCEPT !.pc = "look", !.view = UNION cached]
  /\ UNCHANGED <<journalVars, accountVars, unseen, strays>>

\* What is pending is read, then the open rows are passed over, one of them at a time: an
\* open row whose trade was not in the snapshot twice is at its end.
Scan(view) ==
  LET next(pc, r) == monitor' = [pc |-> pc, row |-> r, view |-> view, pending |-> PendingRows]
      matching(r) == IF executions[r].position = NoTrade THEN view
                     ELSE view \cap {executions[r].position}
      key(r) == <<r, executions[r].position>>
  IN  \/ next("settle", 0) /\ UNCHANGED <<journalVars, unseen>>
      \/ \E r \in Watched :
           \/ /\ Notified(r) \/ (matching(r) = {} /\ key(r) \in unseen)
              /\ next("hide", r) /\ UNCHANGED <<journalVars, unseen>>
           \/ /\ ~Notified(r)
              /\ \E trade \in matching(r) : SetOpen(r, trade)
              /\ next("settle", 0) /\ unseen' = unseen \ {key(r)}
           \/ /\ ~Notified(r) /\ matching(r) = {}
              /\ next("settle", 0) /\ unseen' = unseen \cup {key(r)}
              /\ UNCHANGED journalVars

Look ==
  /\ monitor.pc = "look"
  /\ Scan(monitor.view)
  /\ UNCHANGED <<accountVars, strays>>

\* The row is not in _running any more.
RepairableWhilePending(r) == r \in Execution
Repairable(r) == r \notin InHand

\* The rows that were pending, the oldest first: repaired by the snapshot, else given up
\* or left.  A row that is being handed over is too young to be given up.
Settle ==
  /\ monitor.pc = "settle"
  /\ \E r \in monitor.pending :
       LET next(pc, row) == monitor' = [monitor EXCEPT !.pc = pc, !.row = row,
                                                       !.pending = @ \ {r}]
           stays == (executions[r].action = "open") = (monitor.view = {})
       IN  /\ \A q \in monitor.pending : r <= q
           /\ \/ /\ Repairable(r) /\ ~stays
                 /\ next(IF executions[r].action = "open" THEN "adopt" ELSE "finish", r)
                 /\ strays' = strays \cup ({r} \cap entering)
                 /\ UNCHANGED journalVars
              \/ /\ Repairable(r) /\ stays /\ r \notin entering
                 /\ SetStatus(r, "failed")
                 /\ next("settle", 0) /\ strays' = strays
              \/ /\ ~Repairable(r) \/ stays
                 /\ next("settle", 0) /\ strays' = strays
                 /\ UNCHANGED journalVars
  /\ UNCHANGED <<accountVars, unseen>>

\* The event is stored before the row is written.
Adopt ==
  /\ monitor.pc = "adopt"
  /\ \E trade \in monitor.view : SetOpen(monitor.row, trade)
  /\ monitor' = [monitor EXCEPT !.pc = "settle", !.row = 0]
  /\ UNCHANGED <<accountVars, unseen, strays>>

\* The balance is read before.
EndOpeningOf ==
  /\ monitor.pc = "finish"
  /\ EndOpening
  /\ Turn("hide")
  /\ UNCHANGED <<accountVars, unseen, strays>>

EndLoop ==
  /\ monitor.pc = "settle" /\ monitor.pending = {}
  /\ monitor' = IdleMonitor
  /\ UNCHANGED <<journalVars, accountVars, unseen, strays>>

MonitorStep ==
  /\ \/ TellGone \/ Fetch \/ StoreFetched \/ Reuse \/ Look
     \/ Settle \/ Adopt \/ EndOpeningOf \/ HideEnded \/ RecordEnd \/ EndLoop
  /\ UNCHANGED <<workerVars, localVenueVars, backends>>

\* A restart keeps the journal alone.
RestartBackend ==
  /\ backends < MaxLocalRestarts
  /\ backends' = backends + 1
  /\ entering' = {} /\ jobs' = {} /\ worker' = IdleWorker
  /\ monitor' = IdleMonitor /\ unseen' = {}
  /\ cached' = {} /\ closedPair' = FALSE /\ heard' = {}
  /\ UNCHANGED <<executions, newer, strays, localVenueVars>>

(***************************************************************************)
(* The chain and the venue.                                                *)
(***************************************************************************)
MineOrder(r) ==
  /\ orders[r] = "sent"
  /\ \/ /\ executions[r].action = "close" => executions[r].position \in onVenue
        /\ orders' = [orders EXCEPT ![r] = "mined"]
     \/ orders' = [orders EXCEPT ![r] = "reverted"]
  /\ UNCHANGED <<onVenue, listing, notices>>

EndTrade(trade) ==
  /\ onVenue' = onVenue \ {trade}
  /\ notices' = notices \cup {trade}

\* The keeper may also never do it.
ExecuteOrder(r) ==
  /\ orders[r] = "mined"
  /\ orders' = [orders EXCEPT ![r] = "executed"]
  /\ \/ /\ executions[r].action = "open"
        /\ onVenue' = onVenue \cup {r}
        /\ UNCHANGED notices
     \/ /\ executions[r].action = "close" /\ executions[r].position \in onVenue
        /\ EndTrade(executions[r].position)
  /\ UNCHANGED listing

EndOnVenue ==
  /\ \E trade \in onVenue : EndTrade(trade)
  /\ UNCHANGED <<orders, listing>>

ListingCatchesUp ==
  /\ listing' = onVenue
  /\ UNCHANGED <<orders, onVenue, notices>>

\* A notice reaches the worker that waits for it and the rows there are, or is lost.
Deliver ==
  /\ \E trade \in notices : notices' = notices \ {trade}
  /\ \/ /\ worker' = [worker EXCEPT !.told = \/ worker.told
                                            \/ worker.pc = "sent"]
        /\ heard' = heard \cup OpenRows(RowsIn(ActiveLocal))
     \/ UNCHANGED <<worker, heard>>
  /\ UNCHANGED <<executions, newer, accountVars, entering, jobs, monitorVars, orders, onVenue,
                 listing, backends>>

VenueStep ==
  /\ \/ \E r \in Execution : MineOrder(r) \/ ExecuteOrder(r)
     \/ EndOnVenue \/ ListingCatchesUp
  /\ UNCHANGED <<journalVars, accountVars, workerVars, monitorVars, backends>>

LocalNext ==
  \/ Open \/ Close \/ HandOver \/ Refresh \/ Take \/ Work \/ MonitorStep \/ RestartBackend
  \/ VenueStep \/ Deliver

LocalSpec == LocalInit /\ [][LocalNext]_localVars
-----------------------------------------------------------------------------
WorkerState ==
  [pc : {"idle", "begin", "send", "sent", "finish", "hide", "record", "leave"},
   row : Execution \cup {0}, told : BOOLEAN]
MonitorState ==
  [pc : {"idle", "fetched", "look", "settle", "adopt", "finish", "hide", "record"},
   row : Execution \cup {0}, view : SUBSET Execution, pending : SUBSET Execution]
OrderState == {"none", "sent", "mined", "reverted", "executed"}

LocalTypeOK ==
  /\ executions \in [Execution -> LocalRow]
  /\ newer \subseteq Execution \X Execution
  /\ heard \subseteq Execution /\ jobs \subseteq Execution
  /\ entering \subseteq Execution /\ strays \subseteq Execution
  /\ worker \in WorkerState /\ monitor \in MonitorState
  /\ unseen \subseteq Execution \X (Execution \cup {NoTrade})
  /\ cached \subseteq SUBSET Execution /\ closedPair \in BOOLEAN
  /\ orders \in [Execution -> OrderState]
  /\ onVenue \subseteq Execution /\ listing \subseteq Execution /\ notices \subseteq Execution
  /\ backends \in Nat

\* One open at a time is under way, whatever the monitor makes of rows it read before:
\* the guard of open looks at one active row only, the one that was updated last.  A row
\* the monitor went on to repair before it was in _running is no part of this: the worker
\* may write it "opening" after the monitor has let the next open in.
OneOpenInFlight ==
  \A r, q \in OpenRows(RowsIn({"created", "opening"})) \ strays : r = q

\* One isolated position at a time, and an end that stays one.  Neither holds: an open
\* whose order went out although its broadcast raised is failed and leaves room for the
\* next, and the monitor gives a row of its earlier list a status over its last one.
OneTradeOnVenue == \A t, u \in onVenue : t = u
EndIsFinal ==
  [][\A r \in RowsIn({"closed", "failed"}) :
       executions'[r].status = executions[r].status]_localVars

\* What the executor has not finished nobody but its thread writes, although the monitor
\* works from a list of pending rows it read before, reads a balance and waits for the
\* lock between its look at _running and its write: a row leaves _running and does not
\* come back.  The one way past this look is to take it before the row is in _running.
WritesItsOwn(r) == worker.pc # "idle" /\ worker.row = r /\ worker' # worker
RunningIsOwned ==
  [][\A r \in (InHand \cap PendingRows) \ strays :
       executions'[r] # executions[r] => WritesItsOwn(r)]_localVars
=============================================================================
