------------------------------- MODULE Shell --------------------------------
(***************************************************************************)
(* The shell around the watchdog: main() and ProcessArgs start a script    *)
(* file or the prompt of Process, Process limits every statement it reads, *)
(* scripts set limits, sleep, scatter and quit, and CancelExecution stops  *)
(* them through the operation callback of their contexts.                  *)
(*                                                                         *)
(* A thread runs its script in phase "run"; while main() is inside         *)
(* scatter() it runs the first function in phase "element" and then joins  *)
(* the workers, which run the others.  A call into Watchdog is over when   *)
(* pc is "idle" again.                                                     *)
(***************************************************************************)
EXTENDS Watchdog

CONSTANTS
    Natives,    \* the functions of the shell that scripts call
    QuitCode    \* the argument of quit()

ASSUME NativesAssumption == Natives \subseteq {"timeout", "sleep", "scatter", "quit"}

\* EXITCODE_TIMEOUT
ExitTimeout == 6

VARIABLES
    phase,
    native,             \* the call a thread is in, if its result matters
    opFlag,             \* operationCallbackFlag of the thread's context
    gTimeoutInterval,   \* 0 for the negative values, which mean no limit
    gExitCode,
    gQuitting,
    hitEOF,
    interactive,        \* the script was typed in, not read from a file
    sawZero,            \* CancelExecution's read of gExitCode
    reached             \* history: a limit was reached since the statement began

shellVars == <<phase, native, opFlag, gTimeoutInterval, gExitCode, gQuitting,
               hitEOF, interactive, sawZero, reached>>
allVars == <<vars, shellVars>>

Workers == Threads \ {Main}
Limits == {0} \cup Intervals

ShellInit ==
    /\ Init
    /\ phase = [t \in Threads |-> IF t = Main THEN "args" ELSE "off"]
    /\ native = [t \in Threads |-> "none"]
    /\ opFlag = [t \in Threads |-> FALSE]
    /\ gTimeoutInterval = 0
    /\ gExitCode = 0
    /\ gQuitting = FALSE
    /\ hitEOF = FALSE
    /\ interactive = FALSE
    /\ sawZero = FALSE
    /\ reached = FALSE

Enter(t, p) == phase' = [phase EXCEPT ![t] = p]
At(t, p) == phase[t] = p /\ pc[t] = "idle" /\ native[t] = "none"

\* ScheduleWatchdog(limit)
Schedule(t, limit) ==
    IF limit = 0 THEN CallDisarm(t) ELSE CallArm(t, limit)

-----------------------------------------------------------------------------
(* ProcessArgs: the limit of -t, then a script file or the prompt.         *)

ArgTimeout(limit) ==
    /\ At(Main, "args")
    /\ gTimeoutInterval' = limit
    /\ Schedule(Main, limit)
    /\ UNCHANGED <<phase, native, opFlag, gExitCode, gQuitting, hitEOF, interactive,
                   sawZero, reached>>

\* -f, or the file that ends the options.  That options may also follow a -f
\* file is left to CommandLine.
ArgFile ==
    /\ At(Main, "args")
    /\ Enter(Main, "run")
    /\ UNCHANGED <<vars, native, opFlag, gTimeoutInterval, gExitCode, gQuitting,
                   hitEOF, interactive, sawZero, reached>>

ArgInteractive ==
    /\ At(Main, "args")
    /\ interactive' = TRUE
    /\ Enter(Main, "prompt")
    /\ UNCHANGED <<vars, native, opFlag, gTimeoutInterval, gExitCode, gQuitting,
                   hitEOF, sawZero, reached>>

-----------------------------------------------------------------------------
(* Process: one line is read without a limit, then the limit starts.       *)

\* A mutant: the limit keeps running while the shell waits for a line.
PromptKeepsLimit ==
    /\ At(Main, "prompt")
    /\ Enter(Main, "reset")
    /\ UNCHANGED <<vars, native, opFlag, gTimeoutInterval, gExitCode, gQuitting,
                   hitEOF, interactive, sawZero, reached>>

Prompt ==
    /\ At(Main, "prompt")
    /\ CallDisarm(Main)
    /\ Enter(Main, "reset")
    /\ UNCHANGED <<native, opFlag, gTimeoutInterval, gExitCode, gQuitting, hitEOF,
                   interactive, sawZero, reached>>

ForgetCancel ==
    /\ At(Main, "reset")
    /\ ResetCanceled
    /\ Enter(Main, "read")
    /\ UNCHANGED <<native, opFlag, gTimeoutInterval, gExitCode, gQuitting, hitEOF,
                   interactive, sawZero, reached>>

ReadLine ==
    /\ At(Main, "read")
    /\ Schedule(Main, gTimeoutInterval)
    /\ reached' = FALSE
    /\ Enter(Main, "rearm")
    /\ UNCHANGED <<native, opFlag, gTimeoutInterval, gExitCode, gQuitting, hitEOF,
                   interactive, sawZero>>

EndOfInput ==
    /\ At(Main, "read")
    /\ hitEOF' = TRUE
    /\ Enter(Main, "after")
    /\ UNCHANGED <<vars, native, opFlag, gTimeoutInterval, gExitCode, gQuitting,
                   interactive, sawZero, reached>>

\* JS_BufferIsCompilableUnit: the statement is complete, or needs more lines.
Complete ==
    /\ At(Main, "rearm")
    /\ Enter(Main, "run")
    /\ UNCHANGED <<vars, native, opFlag, gTimeoutInterval, gExitCode, gQuitting,
                   hitEOF, interactive, sawZero, reached>>

NeedsMore ==
    /\ At(Main, "rearm")
    /\ Enter(Main, "prompt")
    /\ UNCHANGED <<vars, native, opFlag, gTimeoutInterval, gExitCode, gQuitting,
                   hitEOF, interactive, sawZero, reached>>

\* After the statement, or the file: another prompt, or the end.
NextStatement ==
    /\ At(Main, "after")
    /\ Enter(Main, IF interactive /\ ~hitEOF /\ ~gQuitting THEN "prompt" ELSE "end")
    /\ UNCHANGED <<vars, native, opFlag, gTimeoutInterval, gExitCode, gQuitting,
                   hitEOF, interactive, sawZero, reached>>

EndShell ==
    /\ At(Main, "end")
    /\ CallKill
    /\ UNCHANGED shellVars

-----------------------------------------------------------------------------
(* What scripts do.                                                        *)

Runs(t) == phase[t] \in {"run", "element"} /\ pc[t] = "idle" /\ native[t] = "none"

\* The script, or the function, is over: by its end, by an error nobody
\* catches, or because a native or the operation callback returned false.
\* DoScatteredWork swallows the failure of a function given to scatter().
FrameEnds(t) ==
    Enter(t, IF phase[t] = "element" THEN "joining"
             ELSE IF t = Main THEN "after" ELSE "over")

ScriptEnds(t) ==
    /\ Runs(t)
    /\ FrameEnds(t)
    /\ UNCHANGED <<vars, native, opFlag, gTimeoutInterval, gExitCode, gQuitting,
                   hitEOF, interactive, sawZero, reached>>

\* A mutant: the new limit is scheduled but not stored.
TimeoutNotStored(t, limit) ==
    /\ "timeout" \in Natives
    /\ Runs(t)
    /\ Schedule(t, limit)
    /\ UNCHANGED shellVars

\* SetTimeoutValue: the new limit is published before it is scheduled.
ScriptTimeout(t, limit) ==
    /\ "timeout" \in Natives
    /\ Runs(t)
    /\ gTimeoutInterval' = limit
    /\ Schedule(t, limit)
    /\ UNCHANGED <<phase, native, opFlag, gExitCode, gQuitting, hitEOF, interactive,
                   sawZero, reached>>

ScriptSleep(t, interval) ==
    /\ "sleep" \in Natives
    /\ Runs(t)
    /\ CallSleep(t, interval)
    /\ native' = [native EXCEPT ![t] = "sleep"]
    /\ UNCHANGED <<phase, opFlag, gTimeoutInterval, gExitCode, gQuitting, hitEOF,
                   interactive, sawZero, reached>>

\* "return !gCanceled", after the lock was released
SleepReturns(t) ==
    /\ native[t] = "sleep"
    /\ pc[t] = "idle"
    /\ native' = [native EXCEPT ![t] = "none"]
    /\ IF gCanceled THEN FrameEnds(t) ELSE UNCHANGED phase
    /\ UNCHANGED <<vars, opFlag, gTimeoutInterval, gExitCode, gQuitting, hitEOF,
                   interactive, sawZero, reached>>

ScriptQuit(t) ==
    /\ "quit" \in Natives
    /\ Runs(t)
    /\ gExitCode' = QuitCode
    /\ gQuitting' = TRUE
    /\ FrameEnds(t)
    /\ UNCHANGED <<vars, native, opFlag, gTimeoutInterval, hitEOF, interactive,
                   sawZero, reached>>

\* A mutant: ShellOperationCallback always lets the script go on.
CallbackLetsPass(t) ==
    /\ Runs(t)
    /\ opFlag[t]
    /\ opFlag' = [opFlag EXCEPT ![t] = FALSE]
    /\ UNCHANGED <<vars, phase, native, gTimeoutInterval, gExitCode, gQuitting, hitEOF,
                   interactive, sawZero, reached>>

\* The engine clears the flag, then asks ShellOperationCallback.
ServeCallback(t) ==
    /\ Runs(t)
    /\ opFlag[t]
    /\ opFlag' = [opFlag EXCEPT ![t] = FALSE]
    /\ IF gCanceled THEN FrameEnds(t) ELSE UNCHANGED phase
    /\ UNCHANGED <<vars, native, gTimeoutInterval, gExitCode, gQuitting, hitEOF,
                   interactive, sawZero, reached>>

\* scatter(): NewContextData refuses new contexts once scripts are canceled,
\* and the call fails.
ScatterRefused ==
    /\ "scatter" \in Natives
    /\ At(Main, "run")
    /\ gCanceled
    /\ Workers # {}
    /\ FrameEnds(Main)
    /\ UNCHANGED <<vars, native, opFlag, gTimeoutInterval, gExitCode, gQuitting,
                   hitEOF, interactive, sawZero, reached>>

Scatter ==
    /\ "scatter" \in Natives
    /\ At(Main, "run")
    /\ gCanceled => Workers = {}
    /\ phase' = [t \in Threads |-> IF t = Main THEN "element" ELSE "run"]
    /\ opFlag' = [t \in Threads |-> IF t = Main THEN opFlag[t] ELSE FALSE]
    /\ UNCHANGED <<vars, native, gTimeoutInterval, gExitCode, gQuitting, hitEOF,
                   interactive, sawZero, reached>>

\* A mutant: scatter() returns without joining its threads.
ScatterAbandons ==
    /\ phase[Main] = "joining"
    /\ phase' = [t \in Threads |-> IF t = Main THEN "run" ELSE "off"]
    /\ UNCHANGED <<vars, native, opFlag, gTimeoutInterval, gExitCode, gQuitting,
                   hitEOF, interactive, sawZero, reached>>

\* The threads are joined and their contexts destroyed; scatter() succeeds
\* whatever became of the functions.
ScatterJoins ==
    /\ phase[Main] = "joining"
    /\ \A t \in Workers : phase[t] = "over"
    /\ phase' = [t \in Threads |-> IF t = Main THEN "run" ELSE "off"]
    /\ UNCHANGED <<vars, native, opFlag, gTimeoutInterval, gExitCode, gQuitting,
                   hitEOF, interactive, sawZero, reached>>

ScriptStep(t) ==
    \/ ScriptEnds(t)
    \/ \E limit \in Limits : ScriptTimeout(t, limit)
    \/ \E interval \in Intervals : ScriptSleep(t, interval)
    \/ ScriptQuit(t)

-----------------------------------------------------------------------------
(* The steps of Watchdog, with what they do to the shell.                  *)

\* Process takes a watchdog that cannot be created for the end of the input,
\* and still runs the statement it has; ProcessArgs gives up.
ScheduleFails(t) ==
    /\ ArmFails(t)
    /\ IF t = Main /\ phase[t] = "rearm"
       THEN hitEOF' = TRUE /\ Enter(t, "run")
       ELSE UNCHANGED hitEOF /\
            IF phase[t] = "args" THEN Enter(t, "end") ELSE UNCHANGED phase
    /\ UNCHANGED <<native, opFlag, gTimeoutInterval, gExitCode, gQuitting,
                   interactive, sawZero, reached>>

LimitReached ==
    /\ WdExpires
    /\ reached' = TRUE
    /\ UNCHANGED <<phase, native, opFlag, gTimeoutInterval, gExitCode, gQuitting,
                   hitEOF, interactive, sawZero>>

CancelExecution ==
    /\ WdCancels
    /\ sawZero' = (gExitCode = 0)
    /\ UNCHANGED <<phase, native, opFlag, gTimeoutInterval, gExitCode, gQuitting,
                   hitEOF, interactive, reached>>

\* JS_TriggerAllOperationCallbacks
TriggerCallbacks ==
    /\ WdTriggers
    /\ gExitCode' = IF sawZero THEN ExitTimeout ELSE gExitCode
    /\ opFlag' = [t \in Threads |-> phase[t] # "off"]
    /\ UNCHANGED <<phase, native, gTimeoutInterval, gQuitting, hitEOF, interactive,
                   sawZero, reached>>

CallRuns(t) ==
    \/ /\ \/ Disarm(t) \/ ArmCreates(t) \/ ArmRunning(t)
          \/ SleepStart(t) \/ SleepRecheck(t)
       /\ UNCHANGED shellVars
    \/ ScheduleFails(t)

WatchdogRuns ==
    \/ (WdEnds \/ WdWaits \/ WdNotifies) /\ UNCHANGED shellVars
    \/ LimitReached
    \/ CancelExecution
    \/ TriggerCallbacks

TimePasses == Tick /\ UNCHANGED shellVars
LockGiven(t) == Acquire(t) /\ UNCHANGED shellVars
WaitEnds(t) == WaitExpires(t) /\ UNCHANGED shellVars
WakesEarly(t) == WakesSpuriously(t) /\ UNCHANGED shellVars
WatchdogEnds == KillBody /\ UNCHANGED shellVars

WatchdogStep ==
    \/ TimePasses
    \/ \E t \in AllThreads : LockGiven(t) \/ WaitEnds(t) \/ WakesEarly(t)
    \/ \E t \in Threads : CallRuns(t)
    \/ WatchdogRuns
    \/ WatchdogEnds

Repl ==
    \/ Prompt
    \/ ForgetCancel
    \/ NextStatement
    \/ EndShell

ShellNext ==
    \/ \E limit \in Intervals : ArgTimeout(limit)
    \/ ArgFile
    \/ ArgInteractive
    \/ Repl
    \/ ReadLine
    \/ EndOfInput
    \/ Complete
    \/ NeedsMore
    \/ \E t \in Threads : ScriptStep(t) \/ SleepReturns(t) \/ ServeCallback(t)
    \/ ScatterRefused
    \/ Scatter
    \/ ScatterJoins
    \/ WatchdogStep

\* Scripts may run forever and nobody has to type: only the steps the shell
\* and the engine take by themselves are fair.  The engine looks at the flag
\* on every backward jump, so a loop of calls cannot avoid it.
ShellFairness ==
    /\ WF_allVars(TimePasses)
    /\ \A t \in AllThreads : SF_allVars(LockGiven(t)) /\ WF_allVars(WaitEnds(t))
    /\ \A t \in Threads :
          /\ WF_allVars(CallRuns(t))
          /\ WF_allVars(SleepReturns(t))
          /\ SF_allVars(ServeCallback(t))
    /\ WF_allVars(WatchdogRuns)
    /\ WF_allVars(WatchdogEnds)
    /\ WF_allVars(Repl)
    /\ WF_allVars(Complete \/ NeedsMore)
    /\ WF_allVars(ScatterJoins)

ShellSafety == ShellInit /\ [][ShellNext]_allVars
ShellSpec == ShellSafety /\ ShellFairness

-----------------------------------------------------------------------------
(* Properties.                                                             *)

\* The user is not timed while the shell waits for a line, whatever scripts
\* and their threads did to the limit before.
NoLimitAtPrompt == phase[Main] = "read" => ~gWatchdogHasTimeout

\* Process resets gCanceled and main() ends the watchdog without asking whether
\* another thread is in a call: by then every worker has been joined.
WorkersDone ==
    phase[Main] \in {"reset", "end"} => \A t \in Workers : pc[t] = "idle" /\ phase[t] = "off"

\* timeout() returns the limit in force: while no thread is inside a call, a
\* limit that is set and was not reached has a deadline (unless the watchdog
\* thread could never be created).
LimitInForce ==
    (/\ gWatchdogThread = WD
     /\ phase[Main] = "run" /\ \A t \in Threads : pc[t] = "idle"
     /\ ~reached)
    => (gTimeoutInterval > 0 <=> gWatchdogHasTimeout)

\* The limit on the execution time is enforced: a cancelled script stops, in
\* an endless loop and in a sleep too.
CancelStopsScript ==
    \A t \in Threads :
        (gCanceled /\ phase[t] = "run" /\ opFlag[t])
            ~> (phase[t] \notin {"run", "element"} \/ ~gCanceled)

\* A cancelled script of the first thread leaves its endless loop for good,
\* also when it was in scatter() while it was cancelled.
CancelStopsMain ==
    (gCanceled /\ phase[Main] \in {"run", "element", "joining"})
        ~> (phase[Main] \notin {"run", "element", "joining"} \/ ~gCanceled)
=============================================================================
