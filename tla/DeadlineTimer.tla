--------------------------- MODULE DeadlineTimer ----------------------------
(***************************************************************************)
(* What ScheduleWatchdog promises its callers, with the watchdog thread,   *)
(* its lock and its condition variables forgotten: at most one deadline is *)
(* set, it can be replaced or cleared, a deadline that has been reached is *)
(* taken once, and only a deadline that was taken cancels the scripts.     *)
(***************************************************************************)
EXTENDS IntervalTime

CONSTANT NoDeadline

VARIABLES
    clock,
    deadline,   \* the instant set last, or NoDeadline
    expiring,   \* a deadline was taken, the scripts are not cancelled yet
    canceled

tvars == <<clock, deadline, expiring, canceled>>

TInit ==
    /\ clock \in Ticks
    /\ deadline = NoDeadline
    /\ expiring = FALSE
    /\ canceled = FALSE

Pass ==
    /\ clock' = Plus(clock, 1)
    /\ UNCHANGED <<deadline, expiring, canceled>>

Set(d) ==
    /\ deadline' = d
    /\ UNCHANGED <<clock, expiring, canceled>>

Clear ==
    /\ deadline' = NoDeadline
    /\ UNCHANGED <<clock, expiring, canceled>>

Expire ==
    /\ deadline # NoDeadline
    /\ Reached(clock, deadline)
    /\ ~expiring
    /\ deadline' = NoDeadline
    /\ expiring' = TRUE
    /\ UNCHANGED <<clock, canceled>>

Cancel ==
    /\ expiring
    /\ expiring' = FALSE
    /\ canceled' = TRUE
    /\ UNCHANGED <<clock, deadline>>

Reset ==
    /\ canceled' = FALSE
    /\ UNCHANGED <<clock, deadline, expiring>>

TNext ==
    \/ Pass
    \/ \E d \in Ticks : Near(clock, d) /\ Set(d)
    \/ Clear
    \/ Expire
    \/ Cancel
    \/ Reset

TSafety == TInit /\ [][TNext]_tvars
TSpec == TSafety /\ WF_tvars(Expire) /\ WF_tvars(Cancel)
=============================================================================
