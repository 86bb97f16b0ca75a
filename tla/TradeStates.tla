---------------------------- MODULE TradeStates ----------------------------
(***************************************************************************)
(* The normalized trade states of tick_mvp/domain/states.py: the statuses  *)
(* of a position and of an execution attempt, the two transition tables    *)
(* that every database transaction consults before it writes a status, and *)
(* the sets of statuses that the queries of the backend are built from.    *)
(* "NONE" is a row that does not exist yet.                                *)
(***************************************************************************)

ActiveStatus == {"OPENING", "OPEN", "CLOSING", "UNKNOWN"}
TerminalStatus == {"CLOSED", "LIQUIDATED"}
PositionStatus == ActiveStatus \union TerminalStatus

\* A close command may be accepted from these position statuses.
ClosableStatus == {"OPENING", "OPEN", "UNKNOWN"}

ExecutionStatus ==
    {"CREATED", "CLAIMED", "SIGNED", "BROADCAST_PENDING", "BROADCAST",
     "INITIATION_CONFIRMED", "AWAITING", "VENUE_EXECUTED", "RECONCILED",
     "FAILED", "TIMED_OUT", "UNKNOWN"}

\* The outcome of the attempt is settled: nothing will be submitted for it.
ResolvedStatus == {"VENUE_EXECUTED", "RECONCILED"}
FinalStatus == ResolvedStatus \union {"FAILED", "TIMED_OUT"}

\* Statuses the ambiguous-execution scan of the recovery loop selects.
AmbiguousStatus ==
    {"BROADCAST_PENDING", "BROADCAST", "INITIATION_CONFIRMED", "AWAITING",
     "UNKNOWN"}

\* An unfinished close command, as the terminal reducer counts them.
InFlightStatus ==
    {"CREATED", "CLAIMED", "SIGNED"} \union AmbiguousStatus

CanTransition(from, to) ==
    \/ from = to
    \/ from = "OPENING" /\ to \in PositionStatus \ {"OPENING"}
    \/ from = "OPEN"    /\ to \in {"CLOSING", "CLOSED", "LIQUIDATED", "UNKNOWN"}
    \/ from = "CLOSING" /\ to \in {"OPEN", "CLOSED", "LIQUIDATED", "UNKNOWN"}
    \/ from = "UNKNOWN" /\ to \in PositionStatus \ {"UNKNOWN"}
    \/ from = "CLOSED"  /\ to = "LIQUIDATED"

CanExecutionTransition(from, to) ==
    \/ from = to
    \/ from = "CREATED" /\ to \in {"CLAIMED", "TIMED_OUT"}
    \/ from = "CLAIMED"
       /\ to \in {"SIGNED", "BROADCAST_PENDING", "VENUE_EXECUTED", "FAILED",
                  "TIMED_OUT", "UNKNOWN"}
    \/ from = "SIGNED" /\ to \in {"BROADCAST_PENDING", "FAILED", "UNKNOWN"}
    \/ from = "BROADCAST_PENDING"
       /\ to \in {"BROADCAST", "INITIATION_CONFIRMED", "AWAITING",
                  "VENUE_EXECUTED", "FAILED", "UNKNOWN"}
    \/ from = "BROADCAST"
       /\ to \in {"INITIATION_CONFIRMED", "AWAITING", "VENUE_EXECUTED",
                  "FAILED", "UNKNOWN"}
    \/ from = "INITIATION_CONFIRMED"
       /\ to \in {"AWAITING", "VENUE_EXECUTED", "FAILED", "UNKNOWN"}
    \/ from = "AWAITING"
       /\ to \in {"VENUE_EXECUTED", "FAILED", "TIMED_OUT", "UNKNOWN"}
    \/ from = "VENUE_EXECUTED" /\ to = "RECONCILED"
    \/ from = "UNKNOWN"
       /\ to \in {"BROADCAST", "INITIATION_CONFIRMED", "AWAITING",
                  "VENUE_EXECUTED", "FAILED", "TIMED_OUT"}

\* Why a position ended, and which account of it outranks which: the reducer
\* lets an event overwrite a reason of the same or of a lower rank.
TerminalReason ==
    {"", "recovered_close", "external_close", "manual_close", "take_profit",
     "stop_loss", "liquidation"}

ReasonRank(r) ==
    CASE r = "external_close" -> 1
      [] r = "manual_close"   -> 2
      [] r \in {"take_profit", "stop_loss"} -> 3
      [] r = "liquidation"    -> 4
      [] OTHER                -> 0
=============================================================================
