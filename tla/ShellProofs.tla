----------------------------- MODULE ShellProofs ----------------------------
(***************************************************************************)
(* Proofs about Watchdog and about Shell.  The first part is of Watchdog,  *)
(* for any number of script threads, any width of the tick counter and any *)
(* MAX_TIMEOUT_INTERVAL and latency that fit it.  The second is of Shell:  *)
(* it uses the watchdog the way Watchdog allows, so that what is proved of *)
(* Watchdog holds in the shell, it asks for input only without a deadline  *)
(* and with its threads joined, and a limit in force has a deadline.       *)
(***************************************************************************)
EXTENDS Shell, TLAPS

-----------------------------------------------------------------------------
(* The wrapping clock.                                                     *)

\* The sum and the difference of two ticks are ticks.
LEMMA TickArithmetic ==
  ASSUME NEW a \in Ticks, NEW b \in Ticks
  PROVE  Plus(a, b) \in Ticks /\ Minus(a, b) \in Ticks
  BY IntervalAssumption DEF Ticks, Span, Plus, Minus

\* A deadline computed from the present is near it.
LEMMA NearAfterPlus ==
  ASSUME NEW n \in Ticks, NEW i \in Intervals
  PROVE  /\ i \in Ticks
         /\ Near(n, Plus(n, i))
  BY IntervalAssumption DEF Ticks, Intervals, Span, Plus, Minus, Near

\* A near instant is near one tick later, unless it is Latency behind.
LEMMA NearAfterTick ==
  ASSUME NEW n \in Ticks, NEW d \in Ticks, Near(n, d), Minus(n, d) # Latency
  PROVE  Near(Plus(n, 1), d)
  BY IntervalAssumption DEF Ticks, Span, Plus, Minus, Near

\* Between instants near the same time, IsBefore is transitive.
LEMMA ReachedTransitive ==
  ASSUME NEW n \in Ticks, NEW a \in Ticks, NEW b \in Ticks, NEW c \in Ticks,
         Near(n, a), Near(n, b), Near(n, c), Reached(a, b), Reached(b, c)
  PROVE  Reached(a, c)
  BY IntervalAssumption DEF Ticks, Span, Minus, Near, Reached, IsBefore

\* An instant is reached by itself.
LEMMA ReachedReflexive ==
  ASSUME NEW a \in Ticks
  PROVE  Reached(a, a)
  BY IntervalAssumption DEF Ticks, Span, Minus, Reached, IsBefore

-----------------------------------------------------------------------------
(* Type correctness.                                                       *)

LEMMA InitType == Init => TypeOK
<1> SUFFICES ASSUME Init PROVE TypeOK
  OBVIOUS
<1> USE IntervalAssumption, ThreadAssumption DEF Init, AllThreads
<1>1. 0 \in Ticks
  BY DEF Ticks, Span
<1>2. \A t \in Threads : pc[t] \in ScriptPc
  BY DEF ScriptPc
<1>3. pc[WD] \in WatchdogPc
  BY DEF WatchdogPc
<1>4. pc \in [AllThreads -> ScriptPc \cup WatchdogPc]
  BY DEF ScriptPc, WatchdogPc
<1>5. QED
  BY <1>1, <1>2, <1>3, <1>4 DEF TypeOK

LEMMA NextType == TypeOK /\ [Next]_vars => TypeOK'
<1> SUFFICES ASSUME TypeOK, [Next]_vars PROVE TypeOK'
  OBVIOUS
<1> USE IntervalAssumption, ThreadAssumption DEF TypeOK, AllThreads, sharedVars, localVars
<1>1. CASE Tick
  BY <1>1, TickArithmetic, 1 \in Ticks DEF Tick, Ticks, Span
<1>2. ASSUME NEW t \in AllThreads, Acquire(t) PROVE TypeOK'
  BY <1>2 DEF Acquire
<1>3. ASSUME NEW t \in AllThreads, Wakes(t) PROVE TypeOK'
  BY <1>3 DEF Wakes, Goto, ScriptPc, WatchdogPc
<1>4. ASSUME NEW t \in Threads, Calls(t) PROVE TypeOK'
  <2>1. CASE CallDisarm(t)
    BY <2>1 DEF CallDisarm, Goto, ScriptPc, WatchdogPc
  <2>2. ASSUME NEW i \in Intervals, CallArm(t, i) PROVE TypeOK'
    <3>1. Plus(now, i) \in Ticks
      BY NearAfterPlus, TickArithmetic
    <3>2. QED
      BY <2>2, <3>1 DEF CallArm, Goto, ScriptPc, WatchdogPc
  <2>3. ASSUME NEW i \in Intervals, CallSleep(t, i) PROVE TypeOK'
    <3>1. i \in Ticks
      BY NearAfterPlus
    <3>2. QED
      BY <2>3, <3>1 DEF CallSleep, Goto, ScriptPc, WatchdogPc
  <2>4. QED
    BY <1>4, <2>1, <2>2, <2>3 DEF Calls
<1>5. ASSUME NEW t \in Threads, ScriptBody(t) PROVE TypeOK'
  <2>0. 0 \in Ticks
    BY DEF Ticks, Span
  <2> USE <2>0 DEF Goto, Unlock, Holds, Return, ScriptPc, WatchdogPc
  <2>1. CASE Disarm(t)
    BY <2>1 DEF Disarm
  <2>2. CASE ArmCreates(t)
    BY <2>2 DEF ArmCreates, SetDeadline
  <2>3. CASE ArmFails(t)
    BY <2>3 DEF ArmFails
  <2>4. CASE ArmRunning(t)
    BY <2>4 DEF ArmRunning, SetDeadline, GotoAndNotify
  <2>5. CASE SleepStart(t)
    <3>1. Plus(now, timeout[t]) \in Ticks
      BY TickArithmetic
    <3>2. QED
      BY <2>5, <3>1 DEF SleepStart
  <2>6. CASE SleepRecheck(t)
    BY <2>6 DEF SleepRecheck
  <2>7. QED
    BY <1>5, <2>1, <2>2, <2>3, <2>4, <2>5, <2>6 DEF ScriptBody
<1>6. CASE WatchdogBody
  <2> USE DEF Goto, Unlock, Holds, ScriptPc, WatchdogPc
  <2>1. CASE WdEnds
    BY <2>1 DEF WdEnds
  <2>2. CASE WdExpires
    BY <2>2 DEF WdExpires
  <2>3. CASE WdWaits
    BY <2>3 DEF WdWaits
  <2>4. CASE WdCancels
    BY <2>4 DEF WdCancels
  <2>5. CASE WdTriggers
    BY <2>5 DEF WdTriggers
  <2>6. CASE WdNotifies
    BY <2>6 DEF WdNotifies
  <2>7. QED
    BY <1>6, <2>1, <2>2, <2>3, <2>4, <2>5, <2>6 DEF WatchdogBody
<1>7. CASE ResetCanceled
  BY <1>7 DEF ResetCanceled
<1>8. CASE CallKill
  BY <1>8 DEF CallKill, Goto, ScriptPc
<1>9. CASE KillBody
  <2> USE DEF Goto, Unlock, Holds, ScriptPc, WatchdogPc
  <2>1. CASE KillRunning
    BY <2>1 DEF KillRunning, GotoAndNotify
  <2>2. CASE KillNothing
    BY <2>2 DEF KillNothing
  <2>3. CASE Join
    BY <2>3 DEF Join
  <2>4. QED
    BY <1>9, <2>1, <2>2, <2>3 DEF KillBody
<1>10. CASE UNCHANGED vars
  BY <1>10 DEF vars
<1>11. QED
  BY <1>1, <1>2, <1>3, <1>4, <1>5, <1>6, <1>7, <1>8, <1>9, <1>10
  DEF Next, WaitExpires, WakesSpuriously

\* Every variable keeps its type: in particular the clock, every deadline and
\* every wake-up time stay inside the range of PRIntervalTime.
THEOREM TypeCorrect == Safety => []TypeOK
  BY InitType, NextType, PTL DEF Safety

-----------------------------------------------------------------------------
(* Who runs, and who holds the lock.                                       *)

Life == TypeOK /\ ThreadLifecycle /\ NoDeadlineWithoutThread

LEMMA InitLife == Init => Life
<1> SUFFICES ASSUME Init PROVE Life
  OBVIOUS
<1>1. TypeOK
  BY InitType
<1>2. QED
  BY <1>1, ThreadAssumption
  DEF Init, Life, ThreadLifecycle, NoDeadlineWithoutThread, Open, AllThreads

LEMMA NextLife == Life /\ [Next]_vars => (ThreadLifecycle /\ NoDeadlineWithoutThread)'
<1> SUFFICES ASSUME Life, [Next]_vars PROVE (ThreadLifecycle /\ NoDeadlineWithoutThread)'
  OBVIOUS
<1> USE ThreadAssumption DEF Life, TypeOK, ThreadLifecycle, NoDeadlineWithoutThread, Open, AllThreads, Locking, sharedVars, localVars
<1>1. CASE Tick
  BY <1>1 DEF Tick
<1>2. ASSUME NEW t \in AllThreads, Acquire(t) PROVE (ThreadLifecycle /\ NoDeadlineWithoutThread)'
  BY <1>2 DEF Acquire
<1>3. ASSUME NEW t \in AllThreads, Wakes(t) PROVE (ThreadLifecycle /\ NoDeadlineWithoutThread)'
  BY <1>3 DEF Wakes, Goto
<1>4. ASSUME NEW t \in Threads, Calls(t) PROVE (ThreadLifecycle /\ NoDeadlineWithoutThread)'
  <2>1. CASE CallDisarm(t)
    BY <1>4, <2>1 DEF Calls, CallDisarm, Goto
  <2>2. ASSUME NEW i \in Intervals, CallArm(t, i) PROVE (ThreadLifecycle /\ NoDeadlineWithoutThread)'
    BY <1>4, <2>2 DEF Calls, CallArm, Goto
  <2>3. ASSUME NEW i \in Intervals, CallSleep(t, i) PROVE (ThreadLifecycle /\ NoDeadlineWithoutThread)'
    BY <1>4, <2>3 DEF Calls, CallSleep, Goto
  <2>4. QED
    BY <1>4, <2>1, <2>2, <2>3 DEF Calls
<1>5. ASSUME NEW t \in Threads, ScriptBody(t) PROVE (ThreadLifecycle /\ NoDeadlineWithoutThread)'
  <2> USE DEF Goto, Unlock, Holds, Return
  <2>1. CASE Disarm(t)
    BY <2>1 DEF Disarm
  <2>2. CASE ArmCreates(t)
    BY <2>2 DEF ArmCreates, SetDeadline
  <2>3. CASE ArmFails(t)
    BY <2>3 DEF ArmFails
  <2>4. CASE ArmRunning(t)
    BY <2>4 DEF ArmRunning, SetDeadline, GotoAndNotify
  <2>5. CASE SleepStart(t)
    BY <2>5 DEF SleepStart
  <2>6. CASE SleepRecheck(t)
    BY <2>6 DEF SleepRecheck
  <2>7. QED
    BY <1>5, <2>1, <2>2, <2>3, <2>4, <2>5, <2>6 DEF ScriptBody
<1>6. CASE WatchdogBody
  <2> USE DEF Goto, Unlock, Holds
  <2>1. CASE WdEnds
    BY <2>1 DEF WdEnds
  <2>2. CASE WdExpires
    BY <2>2 DEF WdExpires
  <2>3. CASE WdWaits
    BY <2>3 DEF WdWaits
  <2>4. CASE WdCancels
    BY <2>4 DEF WdCancels
  <2>5. CASE WdTriggers
    BY <2>5 DEF WdTriggers
  <2>6. CASE WdNotifies
    BY <2>6 DEF WdNotifies
  <2>7. QED
    BY <1>6, <2>1, <2>2, <2>3, <2>4, <2>5, <2>6 DEF WatchdogBody
<1>7. CASE ResetCanceled
  BY <1>7 DEF ResetCanceled
<1>8. CASE CallKill
  BY <1>8 DEF CallKill, Goto, Quiet
<1>9. CASE KillBody
  <2> USE DEF Goto, Unlock, Holds
  <2>1. CASE KillRunning
    BY <2>1 DEF KillRunning, GotoAndNotify
  <2>2. CASE KillNothing
    BY <2>2 DEF KillNothing
  <2>3. CASE Join
    BY <2>3 DEF Join
  <2>4. QED
    BY <1>9, <2>1, <2>2, <2>3 DEF KillBody
<1>10. CASE UNCHANGED vars
  BY <1>10 DEF vars
<1>11. QED
  BY <1>1, <1>2, <1>3, <1>4, <1>5, <1>6, <1>7, <1>8, <1>9, <1>10
  DEF Next, WaitExpires, WakesSpuriously

-----------------------------------------------------------------------------
(* The deadlines.                                                          *)

\* ComparisonsInRange, one kind of instant at a time.
InRange ==
    /\ gWatchdogHasTimeout /\ gWatchdogThread = WD => Near(now, gWatchdogTimeout)
    /\ \A t \in Threads : pc[t] = "arm" => Near(now, timeout[t])
    /\ \A t \in Threads : pc[t] \in {"asleep", "recheck"} => Near(now, to_wakeup[t])
    /\ pc[WD] = "asleep" /\ wakeAt # NoTimeout => Near(now, wakeAt)

LEMMA InRangeIsComparisonsInRange == InRange <=> ComparisonsInRange
  BY DEF InRange, ComparisonsInRange, Pending

\* Sleep_fn and SetTimeoutValue only let intervals through that are positive
\* and at most MAX_TIMEOUT_INTERVAL.
SleepIntervals == \A t \in Threads : pc[t] = "sleep" => timeout[t] \in Intervals

Timing == InRange /\ SleepIntervals /\ DeadlineWatched

LEMMA InitTiming == Init => Timing
  BY ThreadAssumption
  DEF Init, Timing, InRange, SleepIntervals, DeadlineWatched, AllThreads

\* Time passes: nothing that is waited for falls out of range.
LEMMA TickTiming == TypeOK /\ Timing /\ Tick => Timing'
<1> SUFFICES ASSUME TypeOK, Timing, Tick PROVE Timing'
  OBVIOUS
<1> USE DEF TypeOK, Timing, Tick, sharedVars, localVars
<1>1. ASSUME NEW d \in Ticks, d \in Pending, Near(now, d)
      PROVE  Near(now', d)
  BY <1>1, NearAfterTick
<1>2. InRange'
  BY <1>1 DEF InRange, Pending
<1>3. SleepIntervals'
  BY DEF SleepIntervals
<1>4. DeadlineWatched'
  BY DEF DeadlineWatched
<1>5. QED
  BY <1>2, <1>3, <1>4

\* A deadline replaced without a notification is not before the old one, so
\* the wait of the watchdog still ends early enough.
LEMMA ArmTiming ==
  ASSUME Life, Timing, NEW t \in Threads, ArmRunning(t)
  PROVE  Timing'
<1> USE ThreadAssumption DEF Life, TypeOK, Timing, AllThreads, Holds, Unlock, Goto, Return
<1>1. InRange'
  BY DEF ArmRunning, SetDeadline, GotoAndNotify, InRange
<1>2. SleepIntervals'
  BY DEF ArmRunning, SetDeadline, GotoAndNotify, SleepIntervals
<1>3. DeadlineWatched'
  <2>1. CASE ArmNotifies(t)
    BY <2>1 DEF ArmRunning, SetDeadline, GotoAndNotify, DeadlineWatched
  <2>2. CASE ~ArmNotifies(t)
    <3> SUFFICES ASSUME gWatchdogThread' = WD, pc'[WD] = "asleep"
                 PROVE  wakeAt' # NoTimeout /\ Reached(gWatchdogTimeout', wakeAt')
      BY DEF DeadlineWatched
    <3>1. /\ gWatchdogThread = WD /\ pc[WD] = "asleep"
          /\ wakeAt' = wakeAt /\ gWatchdogTimeout' = timeout[t]
          /\ pc[t] = "arm"
      BY <2>2 DEF ArmRunning, SetDeadline
    <3>2. gWatchdogHasTimeout /\ Reached(timeout[t], gWatchdogTimeout)
      BY <2>2 DEF ArmNotifies, Reached
    <3>3. wakeAt # NoTimeout /\ Reached(gWatchdogTimeout, wakeAt)
      BY <3>1, <3>2 DEF DeadlineWatched
    <3>4. /\ Near(now, timeout[t]) /\ Near(now, gWatchdogTimeout)
          /\ Near(now, wakeAt)
      BY <3>1, <3>2, <3>3 DEF InRange
    <3>5. Reached(timeout[t], wakeAt)
      BY <3>2, <3>3, <3>4, ReachedTransitive
    <3>6. QED
      BY <3>1, <3>3, <3>5
  <2>3. QED
    BY <2>1, <2>2
<1>4. QED
  BY <1>1, <1>2, <1>3

LEMMA NextTiming == Life /\ Timing /\ [Next]_vars => Timing'
<1> SUFFICES ASSUME Life, Timing, [Next]_vars PROVE Timing'
  OBVIOUS
<1> USE ThreadAssumption
    DEF Life, TypeOK, Timing, InRange, SleepIntervals, DeadlineWatched,
        AllThreads, sharedVars, localVars
<1>1. CASE Tick
  BY <1>1, TickTiming
<1>2. ASSUME NEW t \in AllThreads, Acquire(t) PROVE Timing'
  BY <1>2 DEF Acquire
<1>3. ASSUME NEW t \in AllThreads, Wakes(t) PROVE Timing'
  BY <1>3 DEF Wakes, Goto
<1>4. ASSUME NEW t \in Threads, Calls(t) PROVE Timing'
  <2>1. CASE CallDisarm(t)
    BY <2>1 DEF CallDisarm, Goto
  <2>2. ASSUME NEW i \in Intervals, CallArm(t, i) PROVE Timing'
    <3>1. Near(now, Plus(now, i))
      BY NearAfterPlus
    <3>2. QED
      BY <2>2, <3>1 DEF CallArm, Goto
  <2>3. ASSUME NEW i \in Intervals, CallSleep(t, i) PROVE Timing'
    BY <2>3 DEF CallSleep, Goto
  <2>4. QED
    BY <1>4, <2>1, <2>2, <2>3 DEF Calls
<1>5. ASSUME NEW t \in Threads, ScriptBody(t) PROVE Timing'
  <2> USE DEF Goto, Unlock, Holds, Return
  <2>1. CASE Disarm(t)
    BY <2>1 DEF Disarm
  <2>2. CASE ArmCreates(t)
    BY <2>2 DEF ArmCreates, SetDeadline
  <2>3. CASE ArmFails(t)
    BY <2>3 DEF ArmFails
  <2>4. CASE ArmRunning(t)
    BY <2>4, ArmTiming
  <2>5. CASE SleepStart(t)
    <3>1. Near(now, Plus(now, timeout[t]))
      BY <2>5, NearAfterPlus DEF SleepStart
    <3>2. QED
      BY <2>5, <3>1 DEF SleepStart
  <2>6. CASE SleepRecheck(t)
    BY <2>6 DEF SleepRecheck
  <2>7. QED
    BY <1>5, <2>1, <2>2, <2>3, <2>4, <2>5, <2>6 DEF ScriptBody
<1>6. CASE WatchdogBody
  <2> USE DEF Goto, Unlock, Holds
  <2>1. CASE WdEnds
    BY <2>1 DEF WdEnds
  <2>2. CASE WdExpires
    BY <2>2 DEF WdExpires
  <2>3. CASE WdWaits
    <3>1. NoTimeout \notin Ticks
      BY IntervalAssumption DEF Ticks, Span
    <3>2. QED
      BY <2>3, <3>1, ReachedReflexive DEF WdWaits
  <2>4. CASE WdCancels
    BY <2>4 DEF WdCancels
  <2>5. CASE WdTriggers
    BY <2>5 DEF WdTriggers
  <2>6. CASE WdNotifies
    BY <2>6 DEF WdNotifies
  <2>7. QED
    BY <1>6, <2>1, <2>2, <2>3, <2>4, <2>5, <2>6 DEF WatchdogBody
<1>7. CASE ResetCanceled
  BY <1>7 DEF ResetCanceled
<1>8. CASE CallKill
  BY <1>8 DEF CallKill, Goto
<1>9. CASE KillBody
  <2> USE DEF Goto, Unlock, Holds
  <2>1. CASE KillRunning
    BY <2>1 DEF KillRunning, GotoAndNotify
  <2>2. CASE KillNothing
    BY <2>2 DEF KillNothing
  <2>3. CASE Join
    BY <2>3 DEF Join
  <2>4. QED
    BY <1>9, <2>1, <2>2, <2>3 DEF KillBody
<1>10. CASE UNCHANGED vars
  BY <1>10 DEF vars
<1>11. QED
  BY <1>1, <1>2, <1>3, <1>4, <1>5, <1>6, <1>7, <1>8, <1>9, <1>10
  DEF Next, WaitExpires, WakesSpuriously

-----------------------------------------------------------------------------
(* The theorems.                                                           *)

Inv == Life /\ Timing

LEMMA Invariance == Safety => []Inv
<1>1. Init => Inv
  BY InitLife, InitTiming DEF Inv
<1>2. Inv /\ [Next]_vars => Inv'
  BY NextType, NextLife, NextTiming DEF Inv, Life
<1>3. QED
  BY <1>1, <1>2, PTL DEF Safety

\* Wherever the threads are, the wait the watchdog is in ends no later than
\* the deadline that ScheduleWatchdog set last.
THEOREM WatchedTheorem == Safety => []DeadlineWatched
  BY Invariance, PTL DEF Inv, Timing

\* MAX_TIMEOUT_INTERVAL does for IsBefore what its comment says, for every
\* comparison of every thread.
THEOREM RangeTheorem == Safety => []ComparisonsInRange
  BY Invariance, InRangeIsComparisonsInRange, PTL DEF Inv, Timing

\* The assertion of ScheduleWatchdog cannot fail.
THEOREM AssertionTheorem == Safety => []NoDeadlineWithoutThread
  BY Invariance, PTL DEF Inv, Life

\* The watchdog thread exists exactly while gWatchdogThread, or KillWatchdog
\* waiting in PR_JoinThread, accounts for it.
THEOREM LifecycleTheorem == Safety => []ThreadLifecycle
  BY Invariance, PTL DEF Inv, Life

\* Nothing uses the lock, the condition variables or the runtime after
\* KillWatchdog has returned.
THEOREM DestroyedTheorem == Safety => []DestroyedUnused
<1>1. Inv => DestroyedUnused
  BY ThreadAssumption
  DEF Inv, Life, TypeOK, ThreadLifecycle, DestroyedUnused, Open, AllThreads, Locking,
      ScriptPc, WatchdogPc
<1>2. QED
  BY <1>1, Invariance, PTL

-----------------------------------------------------------------------------
(* The watchdog implements DeadlineTimer.                                  *)

LEMMA TimerInit == Init => Timer!TInit
  BY ThreadAssumption
  DEF Init, AllThreads, Timer!TInit, Timer!Ticks, Timer!Span, Ticks, Span

\* DeadlineTimer compares ticks as the watchdog does.
LEMMA TimerArithmetic ==
  ASSUME NEW a, NEW b
  PROVE  /\ Timer!Plus(a, b) = Plus(a, b)
         /\ Timer!Near(a, b) = Near(a, b)
         /\ Timer!Reached(a, b) = Reached(a, b)
         /\ Timer!Ticks = Ticks
  BY DEF Timer!Plus, Plus, Timer!Near, Near, Timer!Reached, Reached,
         Timer!IsBefore, IsBefore, Timer!Minus, Minus, Timer!Span, Span,
         Timer!Ticks, Ticks

LEMMA TimerStep == Inv /\ [Next]_vars => [Timer!TNext]_(Timer!tvars)
<1> SUFFICES ASSUME Inv, [Next]_vars PROVE [Timer!TNext]_(Timer!tvars)
  OBVIOUS
<1> USE ThreadAssumption
    DEF Inv, Life, TypeOK, AllThreads, sharedVars, localVars, Timer!tvars
<1>1. CASE Tick
  BY <1>1, TimerArithmetic DEF Tick, Timer!TNext, Timer!Pass
<1>2. ASSUME NEW t \in AllThreads, Acquire(t) PROVE UNCHANGED Timer!tvars
  BY <1>2 DEF Acquire
<1>3. ASSUME NEW t \in AllThreads, Wakes(t) PROVE UNCHANGED Timer!tvars
  BY <1>3 DEF Wakes, Goto
<1>4. ASSUME NEW t \in Threads, Calls(t) PROVE UNCHANGED Timer!tvars
  BY <1>4 DEF Calls, CallDisarm, CallArm, CallSleep, Goto
<1>5. ASSUME NEW t \in Threads, ScriptBody(t) PROVE [Timer!TNext]_(Timer!tvars)
  <2> USE DEF Goto, Unlock, Holds, Return
  <2>1. CASE Disarm(t)
    BY <2>1 DEF Disarm, Timer!TNext, Timer!Clear
  <2>2. CASE ArmCreates(t) \/ ArmRunning(t)
    <3>1. timeout[t] \in Timer!Ticks /\ Timer!Near(now, timeout[t])
      BY <2>2, TimerArithmetic DEF ArmCreates, ArmRunning, Timing, InRange
    <3>2. /\ gWatchdogThread' = WD /\ gWatchdogHasTimeout'
          /\ gWatchdogTimeout' = timeout[t]
          /\ (pc'[WD] = "cancel") <=> (pc[WD] = "cancel")
          /\ UNCHANGED <<now, gCanceled>>
      <4>1. CASE ArmCreates(t)
        BY <4>1 DEF ArmCreates, SetDeadline, ThreadLifecycle, Open
      <4>2. CASE ArmRunning(t)
        BY <4>2 DEF ArmRunning, SetDeadline, GotoAndNotify
      <4>3. QED
        BY <2>2, <4>1, <4>2
    <3>3. Timer!Set(timeout[t])
      BY <3>2 DEF Timer!Set
    <3>4. \E d \in Timer!Ticks : Timer!Near(now, d) /\ Timer!Set(d)
      BY <3>1, <3>3
    <3>5. QED
      BY <3>4 DEF Timer!TNext
  <2>3. CASE ArmFails(t) \/ SleepStart(t) \/ SleepRecheck(t)
    BY <2>3 DEF ArmFails, SleepStart, SleepRecheck
  <2>4. QED
    BY <1>5, <2>1, <2>2, <2>3 DEF ScriptBody
<1>6. CASE WatchdogBody
  <2> USE DEF Goto, Unlock, Holds
  <2>1. CASE WdExpires
    <3>1. NoTimeout \notin Ticks
      BY IntervalAssumption DEF Ticks, Span
    <3>2. /\ gWatchdogThread = WD /\ gWatchdogHasTimeout
          /\ Timer!Reached(now, gWatchdogTimeout)
          /\ pc[WD] = "loop" /\ pc'[WD] = "cancel"
          /\ ~gWatchdogHasTimeout'
          /\ UNCHANGED <<now, gCanceled>>
      BY <2>1, TimerArithmetic DEF WdExpires, WdExpired
    <3>3. Timer!Expire
      BY <3>1, <3>2 DEF Timer!Expire
    <3>4. QED
      BY <3>3 DEF Timer!TNext
  <2>2. CASE WdCancels
    BY <2>2 DEF WdCancels, Timer!TNext, Timer!Cancel
  <2>3. CASE WdEnds \/ WdWaits \/ WdTriggers \/ WdNotifies
    BY <2>3 DEF WdEnds, WdWaits, WdTriggers, WdNotifies
  <2>4. QED
    BY <1>6, <2>1, <2>2, <2>3 DEF WatchdogBody
<1>7. CASE ResetCanceled
  BY <1>7 DEF ResetCanceled, Timer!TNext, Timer!Reset
<1>8. CASE CallKill
  BY <1>8 DEF CallKill, Goto
<1>9. CASE KillBody
  <2>1. CASE KillRunning
    BY <2>1 DEF KillRunning, GotoAndNotify, Goto, Holds, Timer!TNext, Timer!Clear
  <2>2. CASE KillNothing \/ Join
    BY <2>2 DEF KillNothing, Join, Goto
  <2>3. QED
    BY <1>9, <2>1, <2>2 DEF KillBody
<1>10. CASE UNCHANGED vars
  BY <1>10 DEF vars
<1>11. QED
  BY <1>1, <1>2, <1>3, <1>4, <1>5, <1>6, <1>7, <1>8, <1>9, <1>10
  DEF Next, WaitExpires, WakesSpuriously

\* The watchdog keeps the promise of DeadlineTimer: a cancellation needs a
\* deadline that was set last, was neither replaced nor cleared, and has been
\* reached; and no deadline is used twice.
THEOREM TimerTheorem == Safety => TimerSafety
  BY TimerInit, TimerStep, Invariance, PTL DEF Safety, Timer!TSafety, TimerSafety

-----------------------------------------------------------------------------
(* The shell on top of the watchdog.                                       *)

MainPhases == {"args", "prompt", "reset", "read", "rearm", "run", "element", "joining",
               "after", "end"}

\* The variables that the steps below depend on
ShellTypes ==
    /\ phase \in [Threads -> MainPhases \cup {"off", "over"}]
    /\ native \in [Threads -> {"none", "sleep"}]
    /\ gTimeoutInterval \in Limits

\* Where the first thread is
MainAt ==
    /\ phase[Main] \in MainPhases
    /\ ~Open => phase[Main] = "end"
    /\ native[Main] = "sleep" => phase[Main] \in {"run", "element"}
    /\ phase[Main] = "reset" => pc[Main] \in {"disarm", "idle"}
    /\ phase[Main] = "read" => pc[Main] = "idle"

\* Workers run only while the first thread is in scatter().
WorkersAt ==
    \A t \in Workers :
        /\ phase[t] \in {"off", "run", "over"}
        /\ phase[t] # "run" => pc[t] = "idle" /\ native[t] = "none"
        /\ phase[Main] \notin {"element", "joining"} => phase[t] = "off"

\* From the end of Prompt's ScheduleWatchdog to the line
NoDeadline ==
    phase[Main] = "read" \/ (phase[Main] = "reset" /\ pc[Main] = "idle") => ~gWatchdogHasTimeout

ShellInv == ShellTypes /\ MainAt /\ WorkersAt /\ NoDeadline

LEMMA InitShell == ShellInit => ShellInv
  BY ThreadAssumption
  DEF ShellInit, Init, ShellInv, ShellTypes, MainAt, WorkersAt, NoDeadline, MainPhases, Limits,
      Workers, Open, AllThreads

-----------------------------------------------------------------------------
(* Every step of the shell is one that Watchdog allows.                    *)

\* A thread that runs script may call.
LEMMA RunsOpen ==
  ASSUME ShellInv, NEW t \in Threads, Runs(t) \/ (t = Main /\ pc[Main] = "idle")
  PROVE  Open
<1>1. CASE t = Main
  BY <1>1 DEF Runs, Open
<1>2. CASE t # Main
  BY <1>2 DEF Runs, ShellInv, MainAt, WorkersAt, Workers
<1>3. QED
  BY <1>1, <1>2

LEMMA ScheduleCalls ==
  ASSUME NEW t \in Threads, NEW limit \in Limits, Open, Schedule(t, limit)
  PROVE  Calls(t)
  BY DEF Schedule, Limits, Calls

LEMMA ShellSteps == ShellInv /\ [ShellNext]_allVars => [Next]_vars
<1> SUFFICES ASSUME ShellInv, [ShellNext]_allVars PROVE [Next]_vars
  OBVIOUS
<1>1. CASE UNCHANGED allVars
  BY <1>1 DEF allVars
<1>2. ASSUME NEW t \in Threads, Calls(t) \/ ScriptBody(t) PROVE [Next]_vars
  BY <1>2 DEF Next
<1>3. ASSUME NEW limit \in Intervals, ArgTimeout(limit) PROVE [Next]_vars
  BY <1>2, <1>3, ThreadAssumption, RunsOpen, ScheduleCalls DEF ArgTimeout, At, Limits
<1>4. CASE ArgFile \/ ArgInteractive \/ EndOfInput \/ Complete \/ NeedsMore \/ NextStatement
           \/ ScatterRefused \/ Scatter \/ ScatterJoins
  BY <1>4 DEF ArgFile, ArgInteractive, EndOfInput, Complete, NeedsMore, NextStatement,
     ScatterRefused, Scatter, ScatterJoins
<1>5. CASE Prompt
  <2>1. Open
    BY <1>5, ThreadAssumption, RunsOpen DEF Prompt, At
  <2>2. Calls(Main)
    BY <1>5, <2>1 DEF Prompt, Calls
  <2>3. QED
    BY <1>2, <2>2, ThreadAssumption
<1>6. CASE ForgetCancel \/ EndShell
  BY <1>6 DEF ForgetCancel, EndShell, Next
<1>7. CASE ReadLine
  BY <1>2, <1>7, ThreadAssumption, RunsOpen, ScheduleCalls DEF ReadLine, At, ShellInv, ShellTypes
<1>8. ASSUME NEW t \in Threads, ScriptStep(t) PROVE [Next]_vars
  <2>1. CASE ScriptEnds(t) \/ ScriptQuit(t)
    BY <2>1 DEF ScriptEnds, ScriptQuit
  <2>2. ASSUME NEW limit \in Limits, ScriptTimeout(t, limit) PROVE [Next]_vars
    BY <1>2, <2>2, RunsOpen, ScheduleCalls DEF ScriptTimeout
  <2>3. ASSUME NEW interval \in Intervals, ScriptSleep(t, interval) PROVE [Next]_vars
    <3>1. Open
      BY <2>3, RunsOpen DEF ScriptSleep
    <3>2. Calls(t)
      BY <2>3, <3>1 DEF ScriptSleep, Calls
    <3>3. QED
      BY <1>2, <3>2
  <2>4. QED
    BY <1>8, <2>1, <2>2, <2>3 DEF ScriptStep
<1>9. ASSUME NEW t \in Threads, SleepReturns(t) \/ ServeCallback(t) PROVE [Next]_vars
  BY <1>9 DEF SleepReturns, ServeCallback
<1>10. CASE WatchdogStep
  <2>1. CASE TimePasses
    BY <2>1 DEF TimePasses, Next
  <2>2. ASSUME NEW t \in AllThreads, LockGiven(t) \/ WaitEnds(t) \/ WakesEarly(t) PROVE [Next]_vars
    BY <2>2 DEF LockGiven, WaitEnds, WakesEarly, Next
  <2>3. ASSUME NEW t \in Threads, CallRuns(t) PROVE [Next]_vars
    <3>1. ScriptBody(t)
      BY <2>3 DEF CallRuns, ScheduleFails, ScriptBody
    <3>2. QED
      BY <1>2, <3>1
  <2>4. CASE WatchdogRuns
    BY <2>4 DEF WatchdogRuns, LimitReached, CancelExecution, TriggerCallbacks, WatchdogBody, Next
  <2>5. CASE WatchdogEnds
    BY <2>5 DEF WatchdogEnds, Next
  <2>6. QED
    BY <1>10, <2>1, <2>2, <2>3, <2>4, <2>5 DEF WatchdogStep
<1>11. QED
  BY <1>1, <1>3, <1>4, <1>5, <1>6, <1>7, <1>8, <1>9, <1>10 DEF ShellNext, Repl

-----------------------------------------------------------------------------
(* What the steps of Watchdog do to where the threads are.                 *)

Ending == {"kill", "join", "destroyed"}

\* A thread that is not idle makes a step of its call: the others stay.
Own(t) ==
    /\ pc[t] # "idle"
    /\ \A u \in Threads \ {t} : pc'[u] = pc[u]
    /\ pc'[t] \in Ending => pc[t] \in Ending
    /\ pc[t] = "disarm" => pc'[t] \in {"disarm", "idle"}

\* A thread begins a call.
Begins(t, place) ==
    /\ pc[t] = "idle"
    /\ pc' = [pc EXCEPT ![t] = place]

LEMMA CallSteps ==
  ASSUME TypeOK, NEW t \in Threads, ScriptBody(t)
  PROVE  /\ Own(t)
         /\ gWatchdogHasTimeout' => gWatchdogHasTimeout \/ pc[t] = "arm"
         /\ pc[t] = "disarm" => ~gWatchdogHasTimeout'
<1> USE ThreadAssumption DEF TypeOK, AllThreads, Own, Ending, Holds, Goto, sharedVars
<1>1. CASE Disarm(t)
  BY <1>1 DEF Disarm
<1>2. CASE ArmCreates(t)
  BY <1>2 DEF ArmCreates, SetDeadline
<1>3. CASE ArmFails(t)
  BY <1>3 DEF ArmFails
<1>4. CASE ArmRunning(t)
  BY <1>4 DEF ArmRunning, SetDeadline, GotoAndNotify
<1>5. CASE SleepStart(t)
  BY <1>5 DEF SleepStart
<1>6. CASE SleepRecheck(t)
  BY <1>6 DEF SleepRecheck
<1>7. QED
  BY <1>1, <1>2, <1>3, <1>4, <1>5, <1>6 DEF ScriptBody

\* The other steps only move threads that wait, and the one that ends the
\* watchdog.
Moves ==
    /\ \A t \in Threads :
          \/ pc'[t] = pc[t]
          \/ pc[t] = "asleep" /\ pc'[t] = "recheck"
          \/ t = Main /\ pc[t] \in Ending /\ pc'[t] \in Ending
    /\ gWatchdogHasTimeout' => gWatchdogHasTimeout

LEMMA MoveSteps ==
  ASSUME TypeOK,
         \/ Tick \/ WatchdogBody \/ KillBody
         \/ \E t \in AllThreads : Acquire(t) \/ WaitExpires(t) \/ WakesSpuriously(t)
  PROVE  Moves
<1> USE ThreadAssumption DEF TypeOK, AllThreads, Moves, Ending, Holds, Goto, sharedVars
<1>1. CASE Tick
  BY <1>1 DEF Tick
<1>2. CASE WatchdogBody
  BY <1>2 DEF WatchdogBody, WdEnds, WdExpires, WdWaits, WdCancels, WdTriggers, WdNotifies
<1>3. CASE KillBody
  BY <1>3 DEF KillBody, KillRunning, KillNothing, Join, GotoAndNotify
<1>4. ASSUME NEW t \in AllThreads, Acquire(t) \/ WaitExpires(t) \/ WakesSpuriously(t) PROVE Moves
  BY <1>4 DEF Acquire, WaitExpires, WakesSpuriously, Wakes
<1>5. QED
  BY <1>1, <1>2, <1>3, <1>4

-----------------------------------------------------------------------------
(* The invariant.                                                          *)

\* A step that leaves the shell as it is
LEMMA MovesKeep ==
  ASSUME ShellInv, Moves, UNCHANGED <<phase, native, gTimeoutInterval>>
  PROVE  ShellInv'
<1> USE DEF ShellInv, Moves, Ending
<1>1. MainAt' /\ ShellTypes'
  BY ThreadAssumption DEF MainAt, ShellTypes, MainPhases, Open
<1>2. WorkersAt'
  BY ThreadAssumption DEF WorkersAt, Workers
<1>3. NoDeadline'
  BY ThreadAssumption DEF NoDeadline, MainAt
<1>4. QED
  BY <1>1, <1>2, <1>3

\* A step of a call
LEMMA CallKeeps ==
  ASSUME TypeOK, ShellInv, NEW t \in Threads, ScriptBody(t),
         UNCHANGED <<native, gTimeoutInterval>>,
         \/ UNCHANGED phase
         \/ t = Main /\ phase[Main] = "rearm" /\ Enter(t, "run")
         \/ t = Main /\ phase[Main] = "args" /\ Enter(t, "end")
  PROVE  ShellInv'
<1>1. /\ Own(t)
      /\ gWatchdogHasTimeout' => gWatchdogHasTimeout \/ pc[t] = "arm"
      /\ pc[t] = "disarm" => ~gWatchdogHasTimeout'
  BY CallSteps
<1>2. phase' = phase \/ (t = Main /\ phase[Main] \in {"rearm", "args"}
                         /\ \E p \in {"run", "end"} : phase' = [phase EXCEPT ![Main] = p])
  BY DEF Enter
<1>3. t # Main => phase[Main] \in {"element", "joining"} /\ t \in Workers
  BY <1>1 DEF Own, ShellInv, WorkersAt, Workers
<1>4. ShellTypes'
  BY <1>2, ThreadAssumption DEF ShellInv, ShellTypes, MainPhases
<1>5. MainAt'
  BY <1>1, <1>2, <1>3, ThreadAssumption DEF ShellInv, ShellTypes, MainAt, MainPhases, Open, Own, Ending
<1>6. WorkersAt'
  BY <1>1, <1>2, ThreadAssumption DEF ShellInv, ShellTypes, WorkersAt, Workers, Own
<1>7. NoDeadline'
  BY <1>1, <1>2, <1>3, ThreadAssumption DEF ShellInv, ShellTypes, NoDeadline, MainAt, Own
<1>8. QED
  BY <1>4, <1>5, <1>6, <1>7 DEF ShellInv

\* A step of the first thread between calls, into another phase or a call
LEMMA MainKeeps ==
  ASSUME ShellInv, ShellTypes', pc[Main] = "idle",
         \A t \in Workers : phase'[t] = phase[t] /\ pc'[t] = pc[t] /\ native'[t] = native[t],
         phase'[Main] \in MainPhases,
         pc'[Main] \in Ending => phase'[Main] = "end",
         native'[Main] = "sleep" => phase'[Main] \in {"run", "element"},
         phase'[Main] = "reset" => pc'[Main] = "disarm",
         phase'[Main] = "read" => pc'[Main] = "idle" /\ ~gWatchdogHasTimeout',
         phase[Main] \in {"element", "joining"} => phase'[Main] \in {"element", "joining"}
  PROVE  ShellInv'
<1> USE DEF ShellInv
<1>1. MainAt'
  BY DEF MainAt, Open, Ending
<1>2. WorkersAt'
  BY DEF WorkersAt
<1>3. NoDeadline'
  BY DEF NoDeadline
<1>4. QED
  BY <1>1, <1>2, <1>3

\* A step of a worker between calls
LEMMA WorkerKeeps ==
  ASSUME ShellInv, ShellTypes', NEW t \in Workers, phase[t] = "run",
         \A u \in Threads \ {t} : phase'[u] = phase[u] /\ pc'[u] = pc[u] /\ native'[u] = native[u],
         \/ phase'[t] = "run"
         \/ phase'[t] = "over" /\ pc'[t] = "idle" /\ native'[t] = "none"
  PROVE  ShellInv'
<1> USE ThreadAssumption DEF ShellInv
<1>1. phase[Main] \in {"element", "joining"} /\ Main # t
  BY DEF WorkersAt, Workers
<1>2. MainAt'
  BY <1>1 DEF MainAt, Open
<1>3. WorkersAt'
  BY <1>1 DEF WorkersAt, Workers
<1>4. NoDeadline'
  BY <1>1 DEF NoDeadline
<1>5. QED
  BY <1>2, <1>3, <1>4

\* Nobody is told to read a line or to sleep by the end of a frame.
LEMMA FrameKeeps ==
  ASSUME TypeOK, ShellInv, NEW t \in Threads, UNCHANGED vars, UNCHANGED gTimeoutInterval,
         pc[t] = "idle", phase[t] \in {"run", "element"}, native' = [native EXCEPT ![t] = "none"],
         FrameEnds(t) \/ UNCHANGED phase
  PROVE  ShellInv'
<1> USE ThreadAssumption
<1>1. ShellTypes'
  BY DEF ShellInv, ShellTypes, FrameEnds, Enter, MainPhases
<1>2. pc' = pc /\ gWatchdogHasTimeout' = gWatchdogHasTimeout
  BY DEF vars, sharedVars
<1>3. CASE t = Main
  <2>1. phase'[Main] \in {"run", "element", "joining", "after"}
        /\ (phase[Main] = "element" => phase'[Main] \in {"element", "joining"})
    BY <1>3 DEF ShellInv, ShellTypes, FrameEnds, Enter
  <2>2. \A u \in Workers : phase'[u] = phase[u] /\ native'[u] = native[u]
    BY <1>3 DEF ShellInv, ShellTypes, FrameEnds, Enter, Workers
  <2>3. native'[Main] = "none"
    BY <1>3 DEF ShellInv, ShellTypes
  <2>4. QED
    BY <1>1, <1>2, <1>3, <2>1, <2>2, <2>3, MainKeeps DEF MainPhases, Ending
<1>4. CASE t # Main
  <2>1. t \in Workers /\ phase[t] = "run"
    BY <1>4 DEF ShellInv, WorkersAt, Workers
  <2>2. phase'[t] \in {"run", "over"} /\ native'[t] = "none"
    BY <1>4, <2>1 DEF ShellInv, ShellTypes, FrameEnds, Enter
  <2>3. \A u \in Threads \ {t} : phase'[u] = phase[u] /\ native'[u] = native[u]
    BY DEF ShellInv, ShellTypes, FrameEnds, Enter
  <2>4. QED
    BY <1>1, <1>2, <2>1, <2>2, <2>3, WorkerKeeps
<1>5. QED
  BY <1>3, <1>4

\* A thread between calls begins one.
LEMMA BeginsKeep ==
  ASSUME TypeOK, ShellInv, NEW t \in Threads, pc[t] = "idle", phase[t] \in {"args", "run", "element"},
         NEW place, place \notin Ending, Goto(t, place),
         UNCHANGED phase, UNCHANGED gWatchdogHasTimeout, gTimeoutInterval' \in Limits,
         \/ UNCHANGED native
         \/ phase[t] \in {"run", "element"} /\ native' = [native EXCEPT ![t] = "sleep"]
  PROVE  ShellInv'
<1> USE ThreadAssumption
<1>1. ShellTypes'
  BY DEF ShellInv, ShellTypes
<1>2. \A u \in Threads \ {t} : phase'[u] = phase[u] /\ pc'[u] = pc[u] /\ native'[u] = native[u]
  BY DEF ShellInv, ShellTypes, TypeOK, Goto, AllThreads
<1>3. pc'[t] = place /\ (native'[t] = "sleep" => phase[t] \in {"run", "element"} \/ native[t] = "sleep")
  BY DEF ShellInv, ShellTypes, TypeOK, Goto, AllThreads
<1>4. CASE t = Main
  BY <1>1, <1>2, <1>3, <1>4, MainKeeps DEF ShellInv, MainAt, MainPhases, Workers
<1>5. CASE t # Main
  BY <1>1, <1>2, <1>5, WorkerKeeps DEF ShellInv, WorkersAt, Workers
<1>6. QED
  BY <1>4, <1>5

\* Schedule begins a call of ScheduleWatchdog.
LEMMA ScheduleBegins ==
  ASSUME NEW t, NEW limit, Schedule(t, limit)
  PROVE  \E place \in {"disarm", "arm"} : pc[t] = "idle" /\ Goto(t, place) /\ UNCHANGED sharedVars
  BY DEF Schedule, CallDisarm, CallArm, sharedVars
LEMMA NextShell == TypeOK /\ ShellInv /\ [ShellNext]_allVars => ShellInv'
<1> SUFFICES ASSUME TypeOK, ShellInv, [ShellNext]_allVars PROVE ShellInv'
  OBVIOUS
<1> USE ThreadAssumption
<1>1. CASE UNCHANGED allVars
  <2>1. Moves /\ UNCHANGED <<phase, native, gTimeoutInterval>>
    BY <1>1 DEF allVars, vars, sharedVars, shellVars, Moves
  <2>2. QED
    BY <2>1, MovesKeep
<1>2. ASSUME NEW t \in Threads, NEW limit \in Limits, Schedule(t, limit), UNCHANGED <<phase, native>>,
             phase[t] \in {"args", "run", "element"}, gTimeoutInterval' = limit
      PROVE  ShellInv'
  <2>1. PICK place \in {"disarm", "arm"} : pc[t] = "idle" /\ Goto(t, place) /\ UNCHANGED sharedVars
    BY <1>2, ScheduleBegins
  <2>2. QED
    BY <1>2, <2>1, BeginsKeep DEF sharedVars, Ending
<1>3. ASSUME NEW limit \in Intervals, ArgTimeout(limit) PROVE ShellInv'
  BY <1>2, <1>3 DEF ArgTimeout, At, Limits
<1>4. ASSUME NEW p \in {"run", "prompt", "after", "end"}, At(Main, phase[Main]),
             phase[Main] \notin {"element", "joining"}, Enter(Main, p),
             UNCHANGED <<vars, native, gTimeoutInterval>>
      PROVE  ShellInv'
  <2>1. ShellTypes'
    BY <1>4 DEF ShellInv, ShellTypes, Enter, MainPhases
  <2>2. phase'[Main] = p /\ \A t \in Workers : phase'[t] = phase[t]
    BY <1>4 DEF ShellInv, ShellTypes, Enter, Workers
  <2>3. pc' = pc
    BY <1>4 DEF vars, sharedVars
  <2>4. QED
    BY <1>4, <2>1, <2>2, <2>3, MainKeeps DEF At, MainPhases, Ending
<1>5. CASE ArgFile \/ ArgInteractive \/ EndOfInput \/ Complete \/ NeedsMore \/ NextStatement
  <2>1. \E p \in {"run", "prompt", "after", "end"} : Enter(Main, p)
    BY <1>5 DEF ArgFile, ArgInteractive, EndOfInput, Complete, NeedsMore, NextStatement
  <2>2. At(Main, phase[Main]) /\ phase[Main] \notin {"element", "joining"}
    BY <1>5 DEF ArgFile, ArgInteractive, EndOfInput, Complete, NeedsMore, NextStatement, At
  <2>3. UNCHANGED <<vars, native, gTimeoutInterval>>
    BY <1>5 DEF ArgFile, ArgInteractive, EndOfInput, Complete, NeedsMore, NextStatement
  <2>4. QED
    BY <1>4, <2>1, <2>2, <2>3
<1>6. CASE Prompt
  <2>1. /\ pc[Main] = "idle" /\ phase[Main] = "prompt"
        /\ pc' = [pc EXCEPT ![Main] = "disarm"]
        /\ phase' = [phase EXCEPT ![Main] = "reset"]
        /\ UNCHANGED <<native, gTimeoutInterval>>
    BY <1>6 DEF Prompt, At, CallDisarm, Goto, Enter
  <2>2. ShellTypes'
    BY <2>1 DEF ShellInv, ShellTypes, MainPhases
  <2>3. pc'[Main] = "disarm" /\ phase'[Main] = "reset" /\ native'[Main] # "sleep"
    BY <1>6, <2>1 DEF TypeOK, AllThreads, ShellInv, ShellTypes, Prompt, At
  <2>4. \A t \in Workers : phase'[t] = phase[t] /\ pc'[t] = pc[t] /\ native'[t] = native[t]
    BY <2>1 DEF TypeOK, AllThreads, ShellInv, ShellTypes, Workers
  <2>5. QED
    BY <2>1, <2>2, <2>3, <2>4, MainKeeps DEF MainPhases, Ending
<1>7. CASE ForgetCancel
  <2>1. /\ pc[Main] = "idle" /\ phase[Main] = "reset" /\ native[Main] = "none"
        /\ pc' = pc /\ gWatchdogHasTimeout' = gWatchdogHasTimeout
        /\ phase' = [phase EXCEPT ![Main] = "read"]
        /\ UNCHANGED <<native, gTimeoutInterval>>
    BY <1>7 DEF ForgetCancel, At, ResetCanceled, Enter, sharedVars
  <2>2. ~gWatchdogHasTimeout
    BY <2>1 DEF ShellInv, NoDeadline
  <2>3. ShellTypes' /\ phase'[Main] = "read" /\ \A t \in Workers : phase'[t] = phase[t]
    BY <2>1 DEF ShellInv, ShellTypes, MainPhases, Workers
  <2>4. QED
    BY <2>1, <2>2, <2>3, MainKeeps DEF MainPhases, Ending
<1>8. CASE EndShell
  <2>1. /\ pc[Main] = "idle" /\ phase[Main] = "end" /\ native[Main] = "none"
        /\ pc' = [pc EXCEPT ![Main] = "kill"]
        /\ UNCHANGED <<phase, native, gTimeoutInterval>>
    BY <1>8 DEF EndShell, At, CallKill, Goto, shellVars
  <2>2. ShellTypes' /\ \A t \in Workers : pc'[t] = pc[t]
    BY <2>1 DEF TypeOK, AllThreads, ShellInv, ShellTypes, Workers
  <2>3. QED
    BY <2>1, <2>2, MainKeeps DEF MainPhases, Ending
<1>9. CASE ReadLine
  <2>1. PICK place \in {"disarm", "arm"} : pc[Main] = "idle" /\ Goto(Main, place)
    BY <1>9, ScheduleBegins DEF ReadLine
  <2>2. /\ phase[Main] = "read" /\ native[Main] = "none"
        /\ phase' = [phase EXCEPT ![Main] = "rearm"]
        /\ UNCHANGED <<native, gTimeoutInterval>>
    BY <1>9 DEF ReadLine, At, Enter
  <2>3. /\ ShellTypes' /\ phase'[Main] = "rearm" /\ pc'[Main] = place
        /\ \A t \in Workers : phase'[t] = phase[t] /\ pc'[t] = pc[t]
    BY <2>1, <2>2 DEF TypeOK, AllThreads, ShellInv, ShellTypes, MainPhases, Workers, Goto
  <2>4. QED
    BY <2>1, <2>2, <2>3, MainKeeps DEF MainPhases, Ending
<1>10. ASSUME NEW t \in Threads, UNCHANGED vars, UNCHANGED gTimeoutInterval,
              pc[t] = "idle", phase[t] \in {"run", "element"},
              (UNCHANGED native /\ native[t] = "none") \/ native' = [native EXCEPT ![t] = "none"],
              FrameEnds(t) \/ UNCHANGED phase
       PROVE  ShellInv'
  <2>1. native' = [native EXCEPT ![t] = "none"]
    BY <1>10 DEF ShellInv, ShellTypes
  <2>2. QED
    BY <1>10, <2>1, FrameKeeps
<1>11. ASSUME NEW t \in Threads, ScriptStep(t) PROVE ShellInv'
  <2>1. CASE ScriptEnds(t) \/ ScriptQuit(t)
    BY <1>10, <2>1 DEF ScriptEnds, ScriptQuit, Runs
  <2>2. ASSUME NEW limit \in Limits, ScriptTimeout(t, limit) PROVE ShellInv'
    BY <1>2, <2>2 DEF ScriptTimeout, Runs
  <2>3. ASSUME NEW interval \in Intervals, ScriptSleep(t, interval) PROVE ShellInv'
    <3>1. Runs(t) /\ Goto(t, "sleep") /\ native' = [native EXCEPT ![t] = "sleep"]
          /\ UNCHANGED <<phase, gWatchdogHasTimeout, gTimeoutInterval>>
      BY <2>3 DEF ScriptSleep, CallSleep, sharedVars
    <3>2. QED
      BY <3>1, BeginsKeep DEF Runs, Ending, ShellInv, ShellTypes
  <2>4. QED
    BY <1>11, <2>1, <2>2, <2>3 DEF ScriptStep
<1>12. ASSUME NEW t \in Threads, SleepReturns(t) \/ ServeCallback(t) PROVE ShellInv'
  <2>1. CASE SleepReturns(t)
    <3>1. phase[t] \in {"run", "element"}
      BY <2>1 DEF SleepReturns, ShellInv, MainAt, WorkersAt, Workers
    <3>2. QED
      BY <1>10, <2>1, <3>1 DEF SleepReturns
  <2>2. CASE ServeCallback(t)
    BY <1>10, <2>2 DEF ServeCallback, Runs
  <2>3. QED
    BY <1>12, <2>1, <2>2
<1>13. CASE ScatterRefused
  BY <1>10, <1>13 DEF ScatterRefused, At
<1>14. CASE Scatter
  <2>1. /\ pc[Main] = "idle" /\ phase[Main] = "run" /\ native[Main] = "none"
        /\ phase' = [t \in Threads |-> IF t = Main THEN "element" ELSE "run"]
        /\ pc' = pc /\ UNCHANGED <<native, gTimeoutInterval, gWatchdogHasTimeout>>
    BY <1>14 DEF Scatter, At, vars, sharedVars
  <2>2. ShellTypes' /\ MainAt' /\ WorkersAt' /\ NoDeadline'
    BY <2>1 DEF ShellInv, ShellTypes, MainPhases, MainAt, WorkersAt, NoDeadline, Workers, Open
  <2>3. QED
    BY <2>2 DEF ShellInv
<1>15. CASE ScatterJoins
  <2>1. /\ phase[Main] = "joining" /\ \A t \in Workers : phase[t] = "over"
        /\ phase' = [t \in Threads |-> IF t = Main THEN "run" ELSE "off"]
        /\ pc' = pc /\ UNCHANGED <<native, gTimeoutInterval, gWatchdogHasTimeout>>
    BY <1>15 DEF ScatterJoins, vars, sharedVars
  <2>2. ShellTypes' /\ MainAt' /\ WorkersAt' /\ NoDeadline'
    BY <2>1 DEF ShellInv, ShellTypes, MainPhases, MainAt, WorkersAt, NoDeadline, Workers, Open
  <2>3. QED
    BY <2>2 DEF ShellInv
<1>16. CASE WatchdogStep
  <2>1. ASSUME NEW t \in Threads, CallRuns(t) PROVE ShellInv'
    <3>1. ScriptBody(t) /\ UNCHANGED <<native, gTimeoutInterval>>
      BY <2>1 DEF CallRuns, ScheduleFails, ScriptBody, shellVars
    <3>2. phase[t] # "rearm" \/ t = Main
      BY DEF ShellInv, WorkersAt, Workers
    <3>3. phase[t] # "args" \/ t = Main
      BY DEF ShellInv, WorkersAt, Workers
    <3>4. \/ UNCHANGED phase
          \/ t = Main /\ phase[Main] = "rearm" /\ Enter(t, "run")
          \/ t = Main /\ phase[Main] = "args" /\ Enter(t, "end")
      BY <2>1, <3>2, <3>3 DEF CallRuns, ScheduleFails, shellVars
    <3>5. QED
      BY <3>1, <3>4, CallKeeps
  <2>2. CASE TimePasses \/ WatchdogRuns \/ WatchdogEnds
             \/ \E t \in AllThreads : LockGiven(t) \/ WaitEnds(t) \/ WakesEarly(t)
    <3>1. UNCHANGED <<phase, native, gTimeoutInterval>>
      BY <2>2 DEF TimePasses, WatchdogRuns, WatchdogEnds, LockGiven, WaitEnds, WakesEarly,
         LimitReached, CancelExecution, TriggerCallbacks, shellVars
    <3>2. Moves
      BY <2>2, MoveSteps DEF TimePasses, WatchdogRuns, WatchdogEnds, LockGiven, WaitEnds, WakesEarly,
         LimitReached, CancelExecution, TriggerCallbacks, WatchdogBody
    <3>3. QED
      BY <3>1, <3>2, MovesKeep
  <2>3. QED
    BY <1>16, <2>1, <2>2 DEF WatchdogStep
<1>17. QED
  BY <1>1, <1>3, <1>5, <1>6, <1>7, <1>8, <1>9, <1>11, <1>12, <1>13, <1>14, <1>15, <1>16
  DEF ShellNext, Repl

LEMMA ShellInvariance == ShellSafety => [](TypeOK /\ ShellInv)
<1>1. ShellInit => TypeOK /\ ShellInv
  BY InitType, InitShell DEF ShellInit
<1>2. TypeOK /\ ShellInv /\ [ShellNext]_allVars => (TypeOK /\ ShellInv)'
  BY NextType, NextShell, ShellSteps
<1>3. QED
  BY <1>1, <1>2, PTL DEF ShellSafety

-----------------------------------------------------------------------------
(* The limit in force, when only one thread ever schedules limits.         *)

\* With timeout() in the functions of scatter(), two threads publish and
\* schedule their limits in different orders.
OneScheduler == {"timeout", "scatter"} \subseteq Natives => Threads = {Main}

\* Where the limit of a script applies, or of the statement just read
Timed == {"args", "rearm", "run", "element", "joining"}

\* A limit that is stored and not scheduled yet is being scheduled.
LimitScheduled ==
    /\ "scatter" \notin Natives => phase[Main] \notin {"element", "joining"}
    /\ \A t \in Workers : pc[t] \notin {"arm", "disarm"}
    /\ phase[Main] \in Timed =>
          /\ pc[Main] = "arm" => gTimeoutInterval # 0
          /\ pc[Main] = "disarm" => gTimeoutInterval = 0
          /\ gWatchdogThread = WD /\ ~reached /\ pc[Main] \notin {"arm", "disarm"} =>
                 (gTimeoutInterval # 0 <=> gWatchdogHasTimeout)

\* Steps that have nothing to do with limits
LEMMA UntimedKeep ==
  ASSUME LimitScheduled,
         UNCHANGED <<gWatchdogThread, gWatchdogHasTimeout, gTimeoutInterval, reached>>,
         \A t \in Threads : pc'[t] # pc[t] => {pc[t], pc'[t]} \cap {"arm", "disarm"} = {},
         phase'[Main] \in Timed => phase[Main] \in Timed,
         "scatter" \notin Natives => phase'[Main] \notin {"element", "joining"}
  PROVE  LimitScheduled'
  BY ThreadAssumption DEF LimitScheduled, Workers

\* ScheduleWatchdog is called with the limit that is stored.
LEMMA ScheduleKeeps ==
  ASSUME TypeOK, LimitScheduled, NEW limit \in Limits, Schedule(Main, limit),
         gTimeoutInterval' = limit,
         "scatter" \notin Natives => phase'[Main] \notin {"element", "joining"}
  PROVE  LimitScheduled'
<1> USE ThreadAssumption DEF TypeOK, AllThreads, LimitScheduled, Workers, Goto
<1>1. CASE limit = 0
  BY <1>1 DEF Schedule, CallDisarm
<1>2. CASE limit # 0
  BY <1>2 DEF Schedule, CallArm
<1>3. QED
  BY <1>1, <1>2

\* Every step of a call of the first thread
LEMMA CallSchedules ==
  ASSUME TypeOK, ShellInv, LimitScheduled, NEW t \in Threads, CallRuns(t)
  PROVE  LimitScheduled'
<1> USE ThreadAssumption DEF TypeOK, AllThreads, LimitScheduled, Workers, Goto, Holds, sharedVars
<1>1. CASE Disarm(t) /\ UNCHANGED shellVars
  BY <1>1 DEF Disarm, shellVars
<1>2. CASE ArmCreates(t) /\ UNCHANGED shellVars
  BY <1>2 DEF ArmCreates, SetDeadline, shellVars
<1>3. CASE ArmRunning(t) /\ UNCHANGED shellVars
  BY <1>3 DEF ArmRunning, SetDeadline, GotoAndNotify, shellVars
<1>4. CASE SleepStart(t) /\ UNCHANGED shellVars
  BY <1>4 DEF SleepStart, shellVars
<1>5. CASE SleepRecheck(t) /\ UNCHANGED shellVars
  BY <1>5 DEF SleepRecheck, shellVars
<1>6. CASE ScheduleFails(t)
  <2>1. t = Main /\ gWatchdogThread' = NoThread /\ pc' = [pc EXCEPT ![t] = "idle"]
    BY <1>6 DEF ScheduleFails, ArmFails
  <2>2. phase'[Main] \in {phase[Main], "run", "end"}
    BY <1>6, <2>1 DEF ScheduleFails, Enter, ShellInv, ShellTypes
  <2>3. QED
    BY <2>1, <2>2
<1>7. QED
  BY <1>1, <1>2, <1>3, <1>4, <1>5, <1>6 DEF CallRuns

LEMMA NextLimit ==
  ASSUME OneScheduler, TypeOK, ShellInv, LimitScheduled, [ShellNext]_allVars
  PROVE  LimitScheduled'
<1> USE ThreadAssumption
<1>1. CASE UNCHANGED allVars
  BY <1>1, UntimedKeep DEF allVars, vars, sharedVars, shellVars, LimitScheduled
<1>2. ASSUME NEW limit \in Intervals, ArgTimeout(limit) PROVE LimitScheduled'
  BY <1>2, ScheduleKeeps DEF ArgTimeout, At, Limits
<1>3. ASSUME UNCHANGED <<vars, gTimeoutInterval, reached>>,
             phase'[Main] \in Timed => phase[Main] \in Timed,
             "scatter" \notin Natives => phase'[Main] \notin {"element", "joining"}
      PROVE  LimitScheduled'
  BY <1>3, UntimedKeep DEF vars, sharedVars
<1>4. CASE ArgFile \/ ArgInteractive \/ EndOfInput \/ Complete \/ NeedsMore \/ NextStatement
  <2>1. UNCHANGED <<vars, gTimeoutInterval, reached>>
    BY <1>4 DEF ArgFile, ArgInteractive, EndOfInput, Complete, NeedsMore, NextStatement
  <2>2. phase'[Main] \in {"run", "prompt", "after", "end"}
        /\ (phase'[Main] = "run" => phase[Main] \in {"args", "rearm"})
    BY <1>4 DEF ArgFile, ArgInteractive, EndOfInput, Complete, NeedsMore, NextStatement,
       At, Enter, ShellInv, ShellTypes
  <2>3. QED
    BY <1>3, <2>1, <2>2 DEF Timed
<1>5. CASE Prompt
  BY <1>5 DEF Prompt, CallDisarm, Goto, Enter, TypeOK, AllThreads, LimitScheduled, ShellInv,
     ShellTypes, Timed, Workers
<1>6. CASE ForgetCancel
  <2>1. phase'[Main] = "read" /\ pc' = pc
    BY <1>6 DEF ForgetCancel, ResetCanceled, Enter, ShellInv, ShellTypes
  <2>2. QED
    BY <2>1 DEF LimitScheduled, Timed
<1>7. CASE EndShell
  BY <1>7 DEF EndShell, At, CallKill, Goto, shellVars, TypeOK, AllThreads, LimitScheduled, Timed,
     Workers
<1>8. CASE ReadLine
  <2>1. phase'[Main] = "rearm" /\ gTimeoutInterval \in Limits
    BY <1>8 DEF ReadLine, Enter, ShellInv, ShellTypes
  <2>2. QED
    BY <1>8, <2>1, ScheduleKeeps DEF ReadLine
<1>9. ASSUME NEW t \in Threads, FrameEnds(t), phase[t] \in {"run", "element"},
             UNCHANGED <<vars, gTimeoutInterval, reached>>
      PROVE  LimitScheduled'
  <2>1. phase'[Main] \in {phase[Main], "joining", "after"}
        /\ (phase'[Main] = "joining" => phase[Main] \in {"joining", "element"})
    BY <1>9 DEF FrameEnds, Enter, ShellInv, ShellTypes
  <2>2. QED
    BY <1>3, <1>9, <2>1 DEF Timed, LimitScheduled
<1>10. ASSUME NEW t \in Threads, ScriptStep(t) PROVE LimitScheduled'
  <2>1. CASE ScriptEnds(t) \/ ScriptQuit(t)
    BY <1>9, <2>1 DEF ScriptEnds, ScriptQuit, Runs
  <2>2. ASSUME NEW limit \in Limits, ScriptTimeout(t, limit) PROVE LimitScheduled'
    <3>1. t = Main
      BY <2>2 DEF ScriptTimeout, Runs, OneScheduler, LimitScheduled, ShellInv, WorkersAt, Workers
    <3>2. QED
      BY <2>2, <3>1, ScheduleKeeps DEF ScriptTimeout, LimitScheduled
  <2>3. ASSUME NEW interval \in Intervals, ScriptSleep(t, interval) PROVE LimitScheduled'
    <3>1. pc[t] = "idle" /\ Goto(t, "sleep")
          /\ UNCHANGED <<sharedVars, phase, gTimeoutInterval, reached>>
      BY <2>3 DEF ScriptSleep, CallSleep
    <3>2. \A u \in Threads : pc'[u] # pc[u] => {pc[u], pc'[u]} \cap {"arm", "disarm"} = {}
      BY <3>1 DEF Goto, TypeOK, AllThreads
    <3>3. QED
      BY <3>1, <3>2, UntimedKeep DEF sharedVars, LimitScheduled
  <2>4. QED
    BY <1>10, <2>1, <2>2, <2>3 DEF ScriptStep
<1>11. ASSUME NEW t \in Threads, SleepReturns(t) \/ ServeCallback(t) PROVE LimitScheduled'
  <2>1. phase[t] \in {"run", "element"}
    BY <1>11 DEF SleepReturns, ServeCallback, Runs, ShellInv, MainAt, WorkersAt, Workers
  <2>2. FrameEnds(t) \/ UNCHANGED phase
    BY <1>11 DEF SleepReturns, ServeCallback
  <2>3. UNCHANGED <<vars, gTimeoutInterval, reached>>
    BY <1>11 DEF SleepReturns, ServeCallback
  <2>4. QED
    BY <1>3, <1>9, <2>1, <2>2, <2>3 DEF LimitScheduled
<1>12. CASE ScatterRefused
  BY <1>9, <1>12 DEF ScatterRefused, At
<1>13. CASE Scatter
  BY <1>3, <1>13 DEF Scatter, At, Timed
<1>14. CASE ScatterJoins
  BY <1>3, <1>14 DEF ScatterJoins, Timed
<1>15. CASE WatchdogStep
  <2>1. ASSUME NEW t \in Threads, CallRuns(t) PROVE LimitScheduled'
    BY <2>1, CallSchedules
  <2>2. CASE LimitReached
    <3>1. pc' = [pc EXCEPT ![WD] = "cancel"]
          /\ reached' = TRUE /\ UNCHANGED <<phase, gTimeoutInterval>>
      BY <2>2 DEF LimitReached, WdExpires, Goto
    <3>2. \A t \in Threads : pc'[t] = pc[t]
      BY <3>1 DEF TypeOK, AllThreads
    <3>3. QED
      BY <3>1, <3>2 DEF LimitScheduled, Workers
  <2>3. CASE WatchdogEnds
    <3>1. ~Open /\ UNCHANGED <<phase, gTimeoutInterval, reached>>
      BY <2>3 DEF WatchdogEnds, shellVars, KillBody, KillRunning, KillNothing, Join, Holds, Open
    <3>2. phase[Main] = "end"
      BY <3>1 DEF ShellInv, MainAt
    <3>3. Moves
      BY <2>3, MoveSteps DEF WatchdogEnds
    <3>4. QED
      BY <3>1, <3>2, <3>3 DEF LimitScheduled, Timed, Workers, Moves
  <2>4. CASE TimePasses \/ (WatchdogRuns /\ ~LimitReached)
             \/ \E t \in AllThreads : LockGiven(t) \/ WaitEnds(t) \/ WakesEarly(t)
    <3>1. UNCHANGED <<phase, gTimeoutInterval, reached>>
      BY <2>4 DEF TimePasses, WatchdogRuns, LockGiven, WaitEnds, WakesEarly,
         CancelExecution, TriggerCallbacks, shellVars
    <3>2. UNCHANGED <<gWatchdogThread, gWatchdogHasTimeout>>
      BY <2>4 DEF TimePasses, WatchdogRuns, LockGiven, WaitEnds, WakesEarly, CancelExecution,
         TriggerCallbacks, Tick, Acquire, WaitExpires, WakesSpuriously, Wakes, WdEnds, WdWaits,
         WdNotifies, WdCancels, WdTriggers, sharedVars
    <3>3. Moves
      BY <2>4, MoveSteps DEF TimePasses, WatchdogRuns, LockGiven, WaitEnds, WakesEarly,
         CancelExecution, TriggerCallbacks, WatchdogBody
    <3>4. \A t \in Threads : pc'[t] # pc[t] => {pc[t], pc'[t]} \cap {"arm", "disarm"} = {}
      BY <3>3 DEF Moves, Ending
    <3>5. QED
      BY <3>1, <3>2, <3>4, UntimedKeep DEF LimitScheduled
  <2>5. QED
    BY <1>15, <2>1, <2>2, <2>3, <2>4 DEF WatchdogStep
<1>16. QED
  BY <1>1, <1>2, <1>4, <1>5, <1>6, <1>7, <1>8, <1>10, <1>11, <1>12, <1>13, <1>14, <1>15
  DEF ShellNext, Repl

LEMMA InitLimit == ShellInit => LimitScheduled
  BY ThreadAssumption DEF ShellInit, Init, LimitScheduled, AllThreads, Workers

-----------------------------------------------------------------------------
(* The theorems.                                                           *)

\* The shell calls ScheduleWatchdog, Sleep_fn and KillWatchdog only as
\* Watchdog allows: ProcessArgs, Process, the scripts and their threads
\* implement the callers that Watchdog leaves open.
THEOREM ShellWatchdogTheorem == ShellSafety => Safety
<1>1. ShellInit => Init
  BY DEF ShellInit
<1>2. ShellInv /\ [ShellNext]_allVars => [Next]_vars
  BY ShellSteps
<1>3. QED
  BY <1>1, <1>2, ShellInvariance, PTL DEF ShellSafety, Safety

\* So what holds of the watchdog holds in the shell: no deadline of a
\* statement is without a thread that waits for it.
THEOREM ShellWatchedTheorem == ShellSafety => []DeadlineWatched
  BY ShellWatchdogTheorem, WatchedTheorem, PTL

\* No worker is inside a call, or has anything left to run, when Process
\* resets gCanceled and when main() ends the watchdog.
THEOREM WorkersTheorem == ShellSafety => []WorkersDone
<1>1. ShellInv => WorkersDone
  BY DEF ShellInv, WorkersAt, WorkersDone, Workers
<1>2. QED
  BY <1>1, ShellInvariance, PTL

\* The user is not timed while the shell waits for a line.
THEOREM PromptTheorem == ShellSafety => []NoLimitAtPrompt
<1>1. ShellInv => NoLimitAtPrompt
  BY DEF ShellInv, NoDeadline, NoLimitAtPrompt
<1>2. QED
  BY <1>1, ShellInvariance, PTL

\* timeout() returns the limit in force, as long as the threads of scatter()
\* do not set limits of their own: between calls a stored limit that was not
\* reached has a deadline, and without one there is none.
THEOREM LimitTheorem ==
  ASSUME OneScheduler
  PROVE  ShellSafety => []LimitInForce
<1>1. ShellInit => LimitScheduled
  BY InitLimit
<1>2. TypeOK /\ ShellInv /\ LimitScheduled /\ [ShellNext]_allVars => LimitScheduled'
  BY NextLimit
<1>3. ShellInv => (gTimeoutInterval > 0 <=> gTimeoutInterval # 0)
  BY IntervalAssumption DEF ShellInv, ShellTypes, Limits, Intervals
<1>4. ShellInv /\ LimitScheduled => LimitInForce
  BY <1>3, ThreadAssumption DEF LimitScheduled, Timed, LimitInForce
<1>5. QED
  BY <1>1, <1>2, <1>4, ShellInvariance, PTL DEF ShellSafety
=============================================================================
