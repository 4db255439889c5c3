------------------------------ MODULE Watchdog ------------------------------
(***************************************************************************)
(* The watchdog of the shell (js.cpp, JS_THREADSAFE): the thread that      *)
(* cancels scripts when their time limit is reached, ScheduleWatchdog that *)
(* sets and clears its deadline, Sleep_fn whose sleepers it wakes, and     *)
(* KillWatchdog.  Script threads are driven from outside: Call... actions  *)
(* are their entry points, and a thread is between calls when it is        *)
(* "idle".                                                                 *)
(*                                                                         *)
(* A critical section of gWatchdogLock is two steps, Acquire and a body    *)
(* that releases the lock by returning or by waiting on a condition        *)
(* variable.  A wait ends by notification, by timeout or spuriously, and   *)
(* the waiter must then Acquire again.                                     *)
(***************************************************************************)
EXTENDS IntervalTime, FiniteSets

CONSTANTS
    Threads,    \* the threads that run scripts
    Main,       \* the one that runs main() and ends the watchdog
    WD,         \* the watchdog thread
    NoThread,   \* NULL
    NoTimeout   \* PR_INTERVAL_NO_TIMEOUT

ASSUME ThreadAssumption ==
    /\ Main \in Threads
    /\ WD \notin Threads
    /\ NoThread \notin Threads \cup {WD}
    /\ NoTimeout \notin Int

VARIABLES
    now,                  \* PR_IntervalNow()
    lock,                 \* who holds gWatchdogLock
    lockAlive,            \* gWatchdogLock and its variables are not destroyed
    gWatchdogThread,
    gWatchdogHasTimeout,
    gWatchdogTimeout,
    gCanceled,
    pc,                   \* where each thread is
    timeout,              \* the local of ScheduleWatchdog; t_ticks of Sleep_fn
    to_wakeup,            \* the local of Sleep_fn
    wakeAt                \* when the watchdog's own wait times out
                          \* (a local out of its scope is 0, or NoTimeout)

sharedVars == <<gWatchdogThread, gWatchdogHasTimeout, gWatchdogTimeout>>
localVars == <<timeout, to_wakeup, wakeAt>>
vars == <<now, lock, lockAlive, sharedVars, gCanceled, pc, localVars>>

AllThreads == Threads \cup {WD}

\* Where a thread wants gWatchdogLock, or holds it.
Locking == {"disarm", "arm", "sleep", "recheck", "kill", "loop", "notify"}
ScriptPc == {"idle", "disarm", "arm", "sleep", "asleep", "recheck",
             "kill", "join", "destroyed"}
WatchdogPc == {"none", "loop", "asleep", "cancel", "trigger", "notify",
               "exited"}

Init ==
    /\ now \in Ticks
    /\ lock = NoThread
    /\ lockAlive = TRUE
    /\ gWatchdogThread = NoThread
    /\ gWatchdogHasTimeout = FALSE
    /\ gWatchdogTimeout = 0
    /\ gCanceled = FALSE
    /\ pc = [t \in AllThreads |-> IF t = WD THEN "none" ELSE "idle"]
    /\ timeout = [t \in Threads |-> 0]
    /\ to_wakeup = [t \in Threads |-> 0]
    /\ wakeAt = NoTimeout

Goto(t, p) == pc' = [pc EXCEPT ![t] = p]
Unlock == lock' = NoThread
Holds(t, p) == lock = t /\ pc[t] = p

\* The caller goes to p; PR_NotifyCondVar(gWatchdogWakeup) ends the wait of
\* the watchdog, if it is in one.
GotoAndNotify(t, p) ==
    IF pc[WD] = "asleep"
    THEN /\ pc' = [pc EXCEPT ![t] = p, ![WD] = "loop"]
         /\ wakeAt' = NoTimeout
    ELSE /\ Goto(t, p)
         /\ UNCHANGED wakeAt

-----------------------------------------------------------------------------
(* Time, the lock and the end of a wait.                                   *)

\* The instants some thread is going to compare the clock with.
Pending ==
    (IF gWatchdogHasTimeout /\ gWatchdogThread = WD
        THEN {gWatchdogTimeout} ELSE {})
    \cup {timeout[t] : t \in {u \in Threads : pc[u] = "arm"}}
    \cup {to_wakeup[t] : t \in {u \in Threads : pc[u] \in {"asleep", "recheck"}}}
    \cup (IF pc[WD] = "asleep" /\ wakeAt # NoTimeout THEN {wakeAt} ELSE {})

\* No thread is kept from running for more than Latency after an instant it
\* waits for.
Tick ==
    /\ \A d \in Pending : Minus(now, d) # Latency
    /\ now' = Plus(now, 1)
    /\ UNCHANGED <<lock, lockAlive, sharedVars, gCanceled, pc, localVars>>

Acquire(t) ==
    /\ lock = NoThread
    /\ pc[t] \in Locking
    /\ lock' = t
    /\ UNCHANGED <<now, lockAlive, sharedVars, gCanceled, pc, localVars>>

Wakes(t) ==
    /\ pc[t] = "asleep"
    /\ Goto(t, IF t = WD THEN "loop" ELSE "recheck")
    /\ wakeAt' = IF t = WD THEN NoTimeout ELSE wakeAt
    /\ UNCHANGED <<now, lock, lockAlive, sharedVars, gCanceled, timeout, to_wakeup>>

WaitExpires(t) ==
    /\ IF t = WD THEN wakeAt # NoTimeout /\ Reached(now, wakeAt)
                 ELSE Reached(now, to_wakeup[t])
    /\ Wakes(t)

WakesSpuriously(t) == Wakes(t)

-----------------------------------------------------------------------------
(* ScheduleWatchdog.                                                       *)

CallDisarm(t) ==
    /\ pc[t] = "idle"
    /\ Goto(t, "disarm")
    /\ UNCHANGED <<now, lock, lockAlive, sharedVars, gCanceled, localVars>>

Disarm(t) ==
    /\ Holds(t, "disarm")
    /\ gWatchdogHasTimeout' = FALSE
    /\ Unlock
    /\ Goto(t, "idle")
    /\ UNCHANGED <<now, lockAlive, gWatchdogThread, gWatchdogTimeout, gCanceled,
                   localVars>>

\* The deadline is computed before the lock is taken.
CallArm(t, interval) ==
    /\ pc[t] = "idle"
    /\ timeout' = [timeout EXCEPT ![t] = Plus(now, interval)]
    /\ Goto(t, "arm")
    /\ UNCHANGED <<now, lock, lockAlive, sharedVars, gCanceled, to_wakeup, wakeAt>>

Return(local, t) == local' = [local EXCEPT ![t] = 0]

SetDeadline(t) ==
    /\ gWatchdogHasTimeout' = TRUE
    /\ gWatchdogTimeout' = timeout[t]
    /\ Return(timeout, t)
    /\ Unlock
    /\ UNCHANGED <<now, lockAlive, gCanceled, to_wakeup>>

ArmCreates(t) ==
    /\ Holds(t, "arm")
    /\ gWatchdogThread = NoThread
    /\ gWatchdogThread' = WD
    /\ pc' = [pc EXCEPT ![t] = "idle", ![WD] = "loop"]
    /\ UNCHANGED wakeAt
    /\ SetDeadline(t)

ArmFails(t) ==
    /\ Holds(t, "arm")
    /\ gWatchdogThread = NoThread
    /\ Return(timeout, t)
    /\ Unlock
    /\ Goto(t, "idle")
    /\ UNCHANGED <<now, lockAlive, sharedVars, gCanceled, to_wakeup, wakeAt>>

\* A mutant: an earlier deadline is taken for one the watchdog waits for.
NotifiesWhenUnarmed(t) == ~gWatchdogHasTimeout

\* The watchdog must wake for a deadline nearer than the one it waits for.
ArmNotifies(t) ==
    \/ ~gWatchdogHasTimeout
    \/ IsBefore(timeout[t], gWatchdogTimeout)

ArmRunning(t) ==
    /\ Holds(t, "arm")
    /\ gWatchdogThread # NoThread
    /\ IF ArmNotifies(t) THEN GotoAndNotify(t, "idle")
                         ELSE Goto(t, "idle") /\ UNCHANGED wakeAt
    /\ UNCHANGED gWatchdogThread
    /\ SetDeadline(t)

-----------------------------------------------------------------------------
(* Sleep_fn, for an interval that is not zero.                             *)

CallSleep(t, interval) ==
    /\ pc[t] = "idle"
    /\ timeout' = [timeout EXCEPT ![t] = interval]
    /\ Goto(t, "sleep")
    /\ UNCHANGED <<now, lock, lockAlive, sharedVars, gCanceled, to_wakeup, wakeAt>>

\* The first wait starts without a look at gCanceled.
SleepStart(t) ==
    /\ Holds(t, "sleep")
    /\ to_wakeup' = [to_wakeup EXCEPT ![t] = Plus(now, timeout[t])]
    /\ Return(timeout, t)
    /\ Unlock
    /\ Goto(t, "asleep")
    /\ UNCHANGED <<now, lockAlive, sharedVars, gCanceled, wakeAt>>

\* A mutant: to_wakeup is not looked at.
SleepsUntilCanceled(t) == gCanceled

SleepOver(t) == gCanceled \/ Reached(now, to_wakeup[t])

\* The next wait, if any, is for what is left until to_wakeup.
SleepRecheck(t) ==
    /\ Holds(t, "recheck")
    /\ Unlock
    /\ IF SleepOver(t)
          THEN Goto(t, "idle") /\ Return(to_wakeup, t)
          ELSE Goto(t, "asleep") /\ UNCHANGED to_wakeup
    /\ UNCHANGED <<now, lockAlive, sharedVars, gCanceled, timeout, wakeAt>>

-----------------------------------------------------------------------------
(* WatchdogMain and CancelExecution.                                       *)

WdEnds ==
    /\ Holds(WD, "loop")
    /\ gWatchdogThread = NoThread
    /\ Unlock
    /\ Goto(WD, "exited")
    /\ UNCHANGED <<now, lockAlive, sharedVars, gCanceled, localVars>>

WdExpired == gWatchdogHasTimeout /\ Reached(now, gWatchdogTimeout)

\* A mutant: the deadline stays set after it has expired.
ExpiresAgain ==
    /\ Holds(WD, "loop")
    /\ gWatchdogThread # NoThread
    /\ WdExpired
    /\ Unlock
    /\ Goto(WD, "cancel")
    /\ UNCHANGED <<now, lockAlive, sharedVars, gCanceled, localVars>>

WdExpires ==
    /\ Holds(WD, "loop")
    /\ gWatchdogThread # NoThread
    /\ WdExpired
    /\ gWatchdogHasTimeout' = FALSE
    /\ Unlock
    /\ Goto(WD, "cancel")
    /\ UNCHANGED <<now, lockAlive, gWatchdogThread, gWatchdogTimeout, gCanceled,
                   localVars>>

\* A mutant: the watchdog always waits without a timeout.
WaitsForever ==
    /\ Holds(WD, "loop")
    /\ gWatchdogThread # NoThread
    /\ ~WdExpired
    /\ wakeAt' = NoTimeout
    /\ Unlock
    /\ Goto(WD, "asleep")
    /\ UNCHANGED <<now, lockAlive, sharedVars, gCanceled, timeout, to_wakeup>>

WdWaits ==
    /\ Holds(WD, "loop")
    /\ gWatchdogThread # NoThread
    /\ ~WdExpired
    /\ wakeAt' = IF gWatchdogHasTimeout THEN gWatchdogTimeout ELSE NoTimeout
    /\ Unlock
    /\ Goto(WD, "asleep")
    /\ UNCHANGED <<now, lockAlive, sharedVars, gCanceled, timeout, to_wakeup>>

\* CancelExecution runs outside the lock: first the flag ...
WdCancels ==
    /\ pc[WD] = "cancel"
    /\ gCanceled' = TRUE
    /\ Goto(WD, "trigger")
    /\ UNCHANGED <<now, lock, lockAlive, sharedVars, localVars>>

\* ... then the operation callback of every context of the runtime.
WdTriggers ==
    /\ pc[WD] = "trigger"
    /\ Goto(WD, "notify")
    /\ UNCHANGED <<now, lock, lockAlive, sharedVars, gCanceled, localVars>>

\* The lock is kept for the next turn of the loop.
WdNotifies ==
    /\ Holds(WD, "notify")
    /\ pc' = [t \in AllThreads |->
                 IF t = WD THEN "loop"
                 ELSE IF pc[t] = "asleep" THEN "recheck" ELSE pc[t]]
    /\ UNCHANGED <<now, lock, lockAlive, sharedVars, gCanceled, localVars>>

-----------------------------------------------------------------------------
(* Process() forgets a cancellation before it prompts, and main() ends the *)
(* watchdog, when no other thread runs a script.                           *)

Quiet == \A t \in Threads : pc[t] = "idle"

ResetCanceled ==
    /\ Quiet
    /\ gCanceled' = FALSE
    /\ UNCHANGED <<now, lock, lockAlive, sharedVars, pc, localVars>>

CallKill ==
    /\ Quiet
    /\ Goto(Main, "kill")
    /\ UNCHANGED <<now, lock, lockAlive, sharedVars, gCanceled, localVars>>

\* A mutant: the thread is told to end but not woken.
KillSilently ==
    /\ Holds(Main, "kill")
    /\ gWatchdogThread # NoThread
    /\ gWatchdogThread' = NoThread
    /\ Goto(Main, "join")
    /\ Unlock
    /\ UNCHANGED <<now, lockAlive, gWatchdogHasTimeout, gWatchdogTimeout, gCanceled,
                   localVars>>

\* A mutant: the thread is told to end but not joined.
KillWithoutJoin ==
    /\ Holds(Main, "kill")
    /\ gWatchdogThread # NoThread
    /\ gWatchdogThread' = NoThread
    /\ GotoAndNotify(Main, "destroyed")
    /\ lockAlive' = FALSE
    /\ Unlock
    /\ UNCHANGED <<now, gWatchdogHasTimeout, gWatchdogTimeout, gCanceled, timeout,
                   to_wakeup>>

KillRunning ==
    /\ Holds(Main, "kill")
    /\ gWatchdogThread # NoThread
    /\ gWatchdogThread' = NoThread
    /\ GotoAndNotify(Main, "join")
    /\ Unlock
    /\ UNCHANGED <<now, lockAlive, gWatchdogHasTimeout, gWatchdogTimeout, gCanceled,
                   timeout, to_wakeup>>

KillNothing ==
    /\ Holds(Main, "kill")
    /\ gWatchdogThread = NoThread
    /\ lockAlive' = FALSE
    /\ Unlock
    /\ Goto(Main, "destroyed")
    /\ UNCHANGED <<now, sharedVars, gCanceled, localVars>>

Join ==
    /\ pc[Main] = "join"
    /\ pc[WD] = "exited"
    /\ lockAlive' = FALSE
    /\ Goto(Main, "destroyed")
    /\ UNCHANGED <<now, lock, sharedVars, gCanceled, localVars>>

-----------------------------------------------------------------------------
\* No script is started once main() is ending the watchdog.
Open == pc[Main] \notin {"kill", "join", "destroyed"}

Calls(t) ==
    /\ Open
    /\ \/ CallDisarm(t)
       \/ \E interval \in Intervals : CallArm(t, interval)
       \/ \E interval \in Intervals : CallSleep(t, interval)

ScriptBody(t) ==
    \/ Disarm(t)
    \/ ArmCreates(t)
    \/ ArmFails(t)
    \/ ArmRunning(t)
    \/ SleepStart(t)
    \/ SleepRecheck(t)

WatchdogBody ==
    \/ WdEnds
    \/ WdExpires
    \/ WdWaits
    \/ WdCancels
    \/ WdTriggers
    \/ WdNotifies

KillBody ==
    \/ KillRunning
    \/ KillNothing
    \/ Join

Next ==
    \/ Tick
    \/ \E t \in AllThreads : Acquire(t) \/ WaitExpires(t) \/ WakesSpuriously(t)
    \/ \E t \in Threads : Calls(t) \/ ScriptBody(t)
    \/ WatchdogBody
    \/ ResetCanceled
    \/ CallKill
    \/ KillBody

Safety == Init /\ [][Next]_vars

\* Time passes, every thread that can run does, a timed wait ends, and a
\* thread that wants the lock is not passed over forever.  Nothing makes a
\* script call, a spurious wakeup happen or the shell end.
Fairness ==
    /\ WF_vars(Tick)
    /\ \A t \in AllThreads : SF_vars(Acquire(t)) /\ WF_vars(WaitExpires(t))
    /\ \A t \in Threads : WF_vars(ScriptBody(t))
    /\ WF_vars(WatchdogBody)
    /\ WF_vars(KillBody)

Spec == Safety /\ Fairness

-----------------------------------------------------------------------------
(* Properties.                                                             *)

TypeOK ==
    /\ now \in Ticks
    /\ lock \in AllThreads \cup {NoThread}
    /\ lockAlive \in BOOLEAN
    /\ gWatchdogThread \in {WD, NoThread}
    /\ gWatchdogHasTimeout \in BOOLEAN
    /\ gWatchdogTimeout \in Ticks
    /\ gCanceled \in BOOLEAN
    /\ pc \in [AllThreads -> ScriptPc \cup WatchdogPc]
    /\ \A t \in Threads : pc[t] \in ScriptPc
    /\ pc[WD] \in WatchdogPc
    /\ timeout \in [Threads -> Ticks]
    /\ to_wakeup \in [Threads -> Ticks]
    /\ wakeAt \in Ticks \cup {NoTimeout}

\* The watchdog never waits past the deadline in force: whichever thread set
\* it, and whatever was set before it, the wait the watchdog is in ends at it
\* or earlier (ScheduleWatchdog notifies exactly when it must).
DeadlineWatched ==
    (/\ gWatchdogHasTimeout
     /\ gWatchdogThread = WD
     /\ pc[WD] = "asleep")
    => wakeAt # NoTimeout /\ Reached(gWatchdogTimeout, wakeAt)

\* MAX_TIMEOUT_INTERVAL keeps every instant the clock is compared with in the
\* half range that IsBefore needs, for all threads and across wrap-around.
ComparisonsInRange == \A d \in Pending : Near(now, d)

\* The assertion in ScheduleWatchdog: as long as there is no watchdog thread
\* there is no deadline, even after its creation failed.
NoDeadlineWithoutThread ==
    gWatchdogThread = NoThread /\ Open => ~gWatchdogHasTimeout

\* The watchdog thread exists while gWatchdogThread says so, and from the end
\* of KillWatchdog's critical section until it is joined; a lock is held only
\* inside a critical section; nobody else is in a call once main() ends.
ThreadLifecycle ==
    /\ lock # NoThread => pc[lock] \in Locking
    /\ gWatchdogThread = WD =>
           pc[WD] \notin {"none", "exited"} /\ pc[Main] \notin {"join", "destroyed"}
    /\ gWatchdogThread = NoThread =>
           pc[WD] = "none" \/ pc[Main] \in {"join", "destroyed"}
    /\ lockAlive <=> pc[Main] # "destroyed"
    /\ pc[Main] = "join" => pc[WD] # "none"
    /\ pc[Main] = "destroyed" => pc[WD] \in {"none", "exited"}
    /\ \A t \in Threads \ {Main} :
           pc[t] \notin {"kill", "join", "destroyed"} /\ (~Open => pc[t] = "idle")

\* KillWatchdog destroys the lock and the runtime follows: by then no thread
\* holds or wants the lock or waits on its variables, and the watchdog is not
\* inside CancelExecution.
DestroyedUnused ==
    ~lockAlive =>
        /\ lock = NoThread
        /\ \A t \in AllThreads : pc[t] \in {"idle", "none", "exited", "destroyed"}

\* A deadline that has been reached is acted upon, unless a script replaces
\* or clears it or the shell ends first.
DeadlineExpires ==
    (gWatchdogThread = WD /\ WdExpired) ~> (~WdExpired \/ gWatchdogThread = NoThread)

\* Every sleep returns: by its own timeout or because scripts are cancelled.
SleepEnds == \A t \in Threads : pc[t] = "sleep" ~> pc[t] = "idle"

\* KillWatchdog returns, wherever the watchdog is when it is told to stop.
KillEnds == pc[Main] = "kill" ~> pc[Main] = "destroyed"

\* What the callers of ScheduleWatchdog rely on.
Timer == INSTANCE DeadlineTimer WITH
    NoDeadline <- NoTimeout,
    clock <- now,
    deadline <- IF gWatchdogHasTimeout /\ gWatchdogThread = WD
                THEN gWatchdogTimeout ELSE NoTimeout,
    expiring <- pc[WD] = "cancel",
    canceled <- gCanceled

TimerSpec == Timer!TSpec
TimerSafety == Timer!TSafety

\* The comment in WatchdogMain, "Wake up any threads doing sleep": when the
\* scripts have been cancelled and the sleepers notified, no thread sits in a
\* sleep that only its own timeout can end.
SleepersWoken ==
    gCanceled /\ pc[WD] \notin {"cancel", "trigger", "notify"} =>
        \A t \in Threads : pc[t] # "asleep"
=============================================================================
