---------------------------- MODULE MarketHistory ----------------------------
(***************************************************************************)
(* The observations of one market on their way into one-second bars: the   *)
(* price stream numbers them and puts them in a bounded queue, the writer  *)
(* thread folds them into pending bars and merges those into the table     *)
(* about once a second.  A write may fail, and a commit whose answer was   *)
(* lost is repeated.  Markets share only the queue.                        *)
(*                                                                         *)
(* From tick_mvp/infrastructure/market_history.py and                      *)
(* tick_mvp/venues/gtrade/price_stream.py.                                 *)
(***************************************************************************)
EXTENDS Integers, FiniteSetsExt, Sequences, SequencesExt

CONSTANTS
  Price,        \* the prices the venue may publish, integers
  MaxSecond,    \* bound on the clock
  MaxSequence,  \* bound on the observations of one process
  MaxProcess,   \* bound on the processes, one after the other
  QueueLimit,   \* QUEUE_BATCH_LIMIT
  Retention     \* RETENTION_HOURS, in seconds of the model

ASSUME HistoryConstants ==
  /\ Price \subseteq Int
  /\ MaxSecond \in Nat \ {0}
  /\ Retention \in Nat

VARIABLES
  second,       \* the clock
  process,      \* which process of the API runs
  sequence,     \* number of the last observation of this process
  queue,        \* Seq(Observation), not yet folded
  pendingBars,  \* [Second -> bars], at most one bar for a second
  bars,         \* [Second -> bars], the table, one row for a second
  accepted,     \* history: observations the queue took, lost ones taken out
  written       \* history: observations in a batch that was committed

historyVars == <<second, process, sequence, queue, pendingBars, bars, accepted, written>>

Second == 1..MaxSecond
Observation == [price : Int, sequence : Nat, second : Second, process : Nat]

NoBars == [s \in Second |-> {}]

\* PriceBar.from_tick
FromTick(tick) ==
  [open |-> tick.price, high |-> tick.price, low |-> tick.price, close |-> tick.price,
   first |-> tick.sequence, last |-> tick.sequence]

Smaller(a, b) == IF a < b THEN a ELSE b
Larger(a, b)  == IF a > b THEN a ELSE b

\* Faulty form: the later span replaces the bar instead of joining it.
LastSpan(bar, new) ==
  [bar EXCEPT !.high = new.high, !.low = new.low, !.close = new.close, !.last = new.last]

\* PriceBar.add and the merge of ON CONFLICT treat a later tick and a later bar
\* alike: the open stays, the close follows the larger sequence.  sample_count is
\* left out.
Merge(bar, new) ==
  [bar EXCEPT !.high = Larger(@, new.high), !.low = Smaller(@, new.low),
              !.close = IF new.last >= bar.last THEN new.close ELSE @,
              !.first = Smaller(@, new.first), !.last = Larger(@, new.last)]

Upsert(stored, new) == IF stored = {} THEN {new} ELSE {Merge(bar, new) : bar \in stored}

-----------------------------------------------------------------------------
(* The price stream's thread *)

\* _handle_raw numbers the observation, record drops it when the queue is full.
Observe(price) ==
  LET tick == [price |-> price, sequence |-> sequence + 1, second |-> second,
               process |-> process] IN
  /\ sequence < MaxSequence
  /\ sequence' = sequence + 1
  /\ IF Len(queue) < QueueLimit
       THEN queue' = Append(queue, tick) /\ accepted' = accepted \cup {tick}
       ELSE UNCHANGED <<queue, accepted>>
  /\ UNCHANGED <<second, process, pendingBars, bars, written>>

-----------------------------------------------------------------------------
(* The writer's thread *)

FoldTick(pending, tick) == [pending EXCEPT ![tick.second] = Upsert(@, FromTick(tick))]

Fold ==
  /\ queue # <<>>
  /\ pendingBars' = FoldTick(pendingBars, Head(queue))
  /\ queue' = Tail(queue)
  /\ UNCHANGED <<second, process, sequence, bars, accepted, written>>

Written(pending) ==
  [s \in Second |-> IF pending[s] = {} THEN bars[s]
                    ELSE UNION {Upsert(bars[s], bar) : bar \in pending[s]}]

Commit(pending) ==
  /\ bars' = Written(pending)
  /\ written' = written \cup (accepted \ ToSet(queue))

\* _write failed: the batch was refused, or committed and the answer lost.
WriteFails == Commit(pendingBars) \/ UNCHANGED <<bars, written>>

\* Faulty form: the batch is dropped although the write failed.
FlushOnce ==
  /\ pendingBars # NoBars
  /\ Commit(pendingBars) \/ WriteFails
  /\ pendingBars' = NoBars
  /\ UNCHANGED <<second, process, sequence, queue, accepted>>

Flush ==
  /\ pendingBars # NoBars
  /\ \/ Commit(pendingBars) /\ pendingBars' = NoBars
     \/ WriteFails /\ UNCHANGED pendingBars
  /\ UNCHANGED <<second, process, sequence, queue, accepted>>

Prune ==
  /\ bars' = [s \in Second |-> IF s < second - Retention THEN {} ELSE bars[s]]
  /\ bars' # bars
  /\ UNCHANGED <<second, process, sequence, queue, pendingBars, accepted, written>>

-----------------------------------------------------------------------------
(* The process *)

NextSecond ==
  /\ second < MaxSecond
  /\ second' = second + 1
  /\ UNCHANGED <<process, sequence, queue, pendingBars, bars, accepted, written>>

\* stop: the price stream has ended, and the writer ends when it has folded what
\* is left in the queue and has written once more; the process may also die, or
\* the last write fail.  The next process numbers its ticks from one.
StopHistory ==
  /\ process < MaxProcess
  /\ \/ queue = <<>> /\ Commit(pendingBars)
     \/ UNCHANGED <<bars, written>>
  /\ process' = process + 1
  /\ sequence' = 0
  /\ queue' = <<>> /\ pendingBars' = NoBars
  /\ accepted' = written'
  /\ UNCHANGED second

HistoryInit ==
  /\ second = 1 /\ process = 1 /\ sequence = 0
  /\ queue = <<>> /\ pendingBars = NoBars /\ bars = NoBars
  /\ accepted = {} /\ written = {}

HistoryNext ==
  \/ \E price \in Price : Observe(price)
  \/ Fold \/ Flush \/ Prune
  \/ NextSecond \/ StopHistory

HistorySpec == HistoryInit /\ [][HistoryNext]_historyVars

-----------------------------------------------------------------------------
(* Properties *)

Of(ticks, s) == {tick \in ticks : tick.second = s}
Prices(ticks) == {tick.price : tick \in ticks}
Kept == {s \in Second : s >= second - Retention}

Before(t, u) == t.process < u.process \/ (t.process = u.process /\ t.sequence < u.sequence)

\* A row of market_price_bars_1s is the bar of the ticks committed for that second,
\* however they were split over batches and however often a batch was repeated.
\* The close is the last tick's unless two processes saw that second: the sequence
\* that decides it starts again with each.
BarIsTrue ==
  \A s \in Kept :
    LET ticks == Of(written, s) IN
    /\ bars[s] = {} <=> ticks = {}
    /\ \A bar \in bars[s] :
         /\ bar.high = Max(Prices(ticks)) /\ bar.low = Min(Prices(ticks))
         /\ \E t \in ticks : bar.open = t.price /\ \A u \in ticks : ~Before(u, t)
         /\ Cardinality({t.process : t \in ticks}) = 1 =>
              \E t \in ticks : bar.close = t.price /\ \A u \in ticks : ~Before(t, u)

\* A tick the queue took stays inside what the queue, the pending bars and the
\* table together say of its second, whatever fails, until the process ends.
AcceptedIsKept ==
  \A tick \in accepted : tick.second \in Kept =>
    \/ tick \in ToSet(queue)
    \/ \E bar \in pendingBars[tick.second] \cup bars[tick.second] :
         bar.low <= tick.price /\ tick.price <= bar.high
           /\ (process = tick.process => tick.sequence <= bar.last)
=============================================================================
