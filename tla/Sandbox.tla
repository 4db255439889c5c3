------------------------------ MODULE Sandbox ------------------------------
(***************************************************************************)
(* evalcx() (js.cpp): a string is run in a context of its own, with an     *)
(* object as its global.  What went wrong in there, the caller learns from *)
(* what the context is left with; the exit code of the shell is set by     *)
(* my_ErrorReporter, quit() and CancelExecution.                           *)
(*                                                                         *)
(* One statement of the shell is modelled, with sandboxes within each      *)
(* other; it begins with no exit code.  An exception is what               *)
(* JS_GetPendingException finds; a script that ran out of memory, quit or  *)
(* was cancelled leaves none.  Warnings, which set no exit code, and the   *)
(* words of the messages are left out.  gExitCode and gCanceled are        *)
(* evalExit and evalCanceled here.                                         *)
(***************************************************************************)
EXTENDS Integers, Sequences, SequencesExt

CONSTANTS
    EvalQuitCodes,  \* what scripts pass to quit()
    MaxSandboxes    \* a bound of the model: sandboxes within each other

RuntimeError == 3
OutOfMemory == 5
TimedOut == 6
ASSUME SandboxAssumption == MaxSandboxes \in Nat /\ EvalQuitCodes \subseteq Int

VARIABLES
    contexts,       \* the contexts of the calls, the innermost last: whether it
                    \* leaves uncaught exceptions alone, and whether it has one
    evalAt,         \* the innermost script runs ("run") or has failed ("fail");
                    \* "ended": so has the statement
    evalExit, evalCanceled,
    failure         \* history: why the script failed, in which context, and the
                    \* exit code it left then

sandboxVars == <<contexts, evalAt, evalExit, evalCanceled, failure>>

NoFailure == [why |-> "none", depth |-> 0, code |-> 0]
Depth == Len(contexts)
Innermost == Last(contexts)

SandboxInit ==
    /\ contexts = <<[quiet |-> FALSE, exception |-> FALSE]>>
    /\ evalAt = "run" /\ evalExit = 0 /\ evalCanceled = FALSE
    /\ failure = NoFailure

\* The innermost of some contexts gets a pending exception, or loses it.
SetPending(cs, pending) ==
    [cs EXCEPT ![Len(cs)] = [quiet |-> @.quiet, exception |-> pending]]

\* The exit code for an error that is reported
my_ErrorReporter(error) ==
    evalExit' = IF error = "memory" THEN OutOfMemory ELSE RuntimeError

HasFailed(why, depth) ==
    evalAt' = "fail" /\ failure' = [why |-> why, depth |-> depth, code |-> evalExit']

-----------------------------------------------------------------------------
(* The script of the innermost context.                                    *)

\* The exception may be evalcx()'s own, about its arguments.
Throws ==
    /\ evalAt = "run"
    /\ contexts' = SetPending(contexts, TRUE)
    /\ UNCHANGED <<evalExit, evalCanceled>>
    /\ HasFailed("throw", Depth)

Catches ==
    /\ evalAt = "fail" /\ Innermost.exception
    /\ contexts' = SetPending(contexts, FALSE)
    /\ evalAt' = "run" /\ failure' = NoFailure
    /\ UNCHANGED <<evalExit, evalCanceled>>

RunsOut ==
    /\ evalAt = "run"
    /\ my_ErrorReporter("memory") /\ HasFailed("memory", Depth)
    /\ UNCHANGED <<contexts, evalCanceled>>

Quit ==
    /\ evalAt = "run"
    /\ evalExit' \in EvalQuitCodes /\ HasFailed("quit", Depth)
    /\ UNCHANGED <<contexts, evalCanceled>>

\* The watchdog, at any time; sooner or later the script comes to see it.
CancelExecution ==
    /\ ~evalCanceled /\ evalAt # "ended"
    /\ evalCanceled' = TRUE
    /\ evalExit' = IF evalExit = 0 THEN TimedOut ELSE evalExit
    /\ UNCHANGED <<contexts, evalAt, failure>>

ShellOperationCallback ==
    /\ evalAt = "run" /\ evalCanceled
    /\ contexts' = SetPending(contexts, FALSE)
    /\ UNCHANGED <<evalExit, evalCanceled>>
    /\ HasFailed("cancel", Depth)

-----------------------------------------------------------------------------
(* evalcx().                                                               *)

\* Once scripts have been cancelled, there are no new contexts.
NewContextData == ~evalCanceled

\* There is none, or no memory for it, the sandbox object or its classes, which
\* the caller's context or the new one reports.
EvalFails ==
    /\ evalAt = "run" /\ Depth <= MaxSandboxes
    /\ my_ErrorReporter("memory")
    /\ HasFailed(IF NewContextData THEN "memory" ELSE "cancel", Depth + 1)
    /\ UNCHANGED <<contexts, evalCanceled>>

\* A mutant: the options are the caller's.
QuietAsCaller == Innermost.quiet

\* The options are the caller's, with the one that leaves uncaught exceptions
\* alone turned over.
Quiet == ~Innermost.quiet

\* A script that is empty or "lazy" only makes the object, and ends at once.
EvalInContext ==
    /\ evalAt = "run" /\ Depth <= MaxSandboxes /\ NewContextData
    /\ contexts' = Append(contexts, [quiet |-> Quiet, exception |-> FALSE])
    /\ UNCHANGED <<evalAt, evalExit, evalCanceled, failure>>

EvalReturns ==
    /\ evalAt = "run" /\ Depth > 1
    /\ contexts' = Front(contexts)
    /\ UNCHANGED <<evalAt, evalExit, evalCanceled, failure>>

\* The outermost script of a context has failed, and unless it is quiet the
\* context reports the exception and forgets it.
Reports == Innermost.exception /\ ~Innermost.quiet

\* An exception that is left becomes the caller's.
ExceptionPassed ==
    /\ evalAt = "fail" /\ Depth > 1
    /\ Innermost.exception /\ Innermost.quiet
    /\ contexts' = SetPending(Front(contexts), TRUE)
    /\ UNCHANGED <<evalAt, evalExit, evalCanceled, failure>>

\* Where there is none, the caller is told that memory ran out.
FailurePassed ==
    /\ evalAt = "fail" /\ Depth > 1
    /\ ~Innermost.exception \/ Reports
    /\ contexts' = Front(contexts)
    /\ my_ErrorReporter("memory")
    /\ UNCHANGED <<evalAt, evalCanceled, failure>>

StatementFails ==
    /\ evalAt = "fail" /\ Depth = 1
    /\ IF Reports THEN my_ErrorReporter("exception") ELSE UNCHANGED evalExit
    /\ contexts' = SetPending(contexts, FALSE)
    /\ evalAt' = "ended"
    /\ UNCHANGED <<evalCanceled, failure>>

SandboxNext ==
    \/ Throws \/ Catches \/ RunsOut \/ Quit
    \/ CancelExecution \/ ShellOperationCallback
    \/ EvalFails \/ EvalInContext \/ EvalReturns
    \/ ExceptionPassed \/ FailurePassed \/ StatementFails

SandboxSpec == SandboxInit /\ [][SandboxNext]_sandboxVars

-----------------------------------------------------------------------------
(* Properties.                                                             *)

\* Reasons that do not outlive the context they occurred in: quit() and the
\* watchdog in a sandbox, and an exception in a sandbox of a sandbox, whose
\* context reports it.
Forgotten ==
    \/ failure.why \in {"quit", "cancel"} /\ failure.depth > 1
    \/ failure.why = "throw" /\ failure.depth > 2

\* The exit code of a statement that failed tells why, however deep in
\* sandboxes it failed, whatever was thrown and caught before and whenever the
\* watchdog struck.  The exceptions are the reasons listed above, which all
\* become "out of memory", and quit(0), which the watchdog may still turn into
\* a timeout.
ExitTells ==
    evalAt = "ended" =>
        evalExit \in
            IF Forgotten THEN {OutOfMemory}
            ELSE CASE failure.why = "throw" -> {RuntimeError}
                   [] failure.why = "memory" -> {OutOfMemory}
                   [] failure.why = "quit" ->
                        IF failure.code = 0 /\ evalCanceled THEN {0, TimedOut} ELSE {failure.code}
                   [] failure.why = "cancel" -> {TimedOut}
=============================================================================
