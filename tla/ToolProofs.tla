----------------------------- MODULE ToolProofs -----------------------------
(***************************************************************************)
(* Proofs about the natives and objects the shell adds: those that acquire *)
(* things step by step or pass an outcome on (snarf(), its_setter,         *)
(* evalcx()), DSO.load(), whose table agrees with the linker, the natives  *)
(* for output, the object environment and the global object of -z; for any *)
(* arguments, names, values, slots, libraries and threads.                 *)
(***************************************************************************)
EXTENDS Snarf, Sandbox, Its, Dso, Output, SplitObjects, Environ,
        FiniteSetTheorems, SequenceTheorems, WellFoundedInduction, TLAPS

-----------------------------------------------------------------------------
(* snarf().  What has been acquired follows from the step, and the bytes   *)
(* that are in the buffer from whether the read succeeded.                 *)

SnarfPlaces == {"path", "open", "seek", "malloc", "read", "close", "free", "string", "buf", "done"}

SnarfTypes ==
    /\ snarfAt \in SnarfPlaces
    /\ snarfOk \in BOOLEAN
    /\ snarfHolds \subseteq {"pathname", "file", "buf"}
    /\ fileLength \in Lengths \cup {Absent} /\ snarfLen # Absent
    /\ snarfAt = "seek" => fileLength # Absent

SnarfHeld ==
    /\ snarfAt \in {"path", "open", "seek", "malloc"} => "buf" \notin snarfHolds
    /\ snarfAt \in {"path", "open", "string", "buf", "done", "free"} => "file" \notin snarfHolds
    /\ snarfAt \in {"path", "string", "buf", "done"} => "pathname" \notin snarfHolds
    /\ snarfAt = "read" => "buf" \in snarfHolds

SnarfRead ==
    /\ snarfAt \in {"path", "open", "seek", "malloc", "read"} => ~snarfOk
    /\ snarfOk => cc = snarfLen /\ (snarfAt # "done" => "buf" \in snarfHolds)
    /\ snarfAt # "done" => text = Absent
    /\ snarfAt = "string" => snarfOk
    /\ snarfAt = "done" => IF text = Absent THEN "buf" \notin snarfHolds
                           ELSE "buf" \in snarfHolds /\ text = snarfLen /\ snarfOk

SnarfInv == SnarfTypes /\ SnarfHeld /\ SnarfRead

LEMMA SnarfSteps == SnarfInv /\ [SnarfNext]_snarfVars => SnarfInv'
<1> SUFFICES ASSUME SnarfInv, [SnarfNext]_snarfVars PROVE SnarfInv'
  OBVIOUS
<1> USE SnarfAssumption DEF SnarfInv, SnarfTypes, SnarfHeld, SnarfRead, SnarfPlaces, Absent
<1>1. CASE MakeAbsolutePathname
  BY <1>1 DEF MakeAbsolutePathname, Gets
<1>2. CASE Fopen
  BY <1>2 DEF Fopen, Gets
<1>3. CASE Mallocs
  BY <1>3 DEF Mallocs, Gets
<1>4. CASE SeeksLength
  BY <1>4 DEF SeeksLength
<1>5. CASE Fread
  BY <1>5 DEF Fread
<1>6. CASE Fclose
  BY <1>6 DEF Fclose
<1>7. CASE FreePathname
  BY <1>7 DEF FreePathname
<1>8. CASE NewString
  BY <1>8 DEF NewString
<1>9. CASE FreeBuf
  BY <1>9 DEF FreeBuf
<1>10. CASE FileChanges
  BY <1>10 DEF FileChanges
<1>11. CASE UNCHANGED snarfVars
  BY <1>11 DEF snarfVars
<1>12. QED
  BY <1>1, <1>2, <1>3, <1>4, <1>5, <1>6, <1>7, <1>8, <1>9, <1>10, <1>11 DEF SnarfNext

\* For files of any length: the string snarf() returns holds what was read of
\* the file and nothing else, and on every way out everything else is given
\* back.
THEOREM SnarfTheorem == SnarfSpec => []SnarfWhole
<1>1. SnarfInit => SnarfInv
  <2> SUFFICES ASSUME SnarfInit PROVE SnarfInv
    OBVIOUS
  <2>1. SnarfTypes
    <3>1. snarfLen # Absent
      BY DEF SnarfInit, Absent
    <3>2. QED
      BY <3>1 DEF SnarfInit, SnarfTypes, SnarfPlaces
  <2>2. SnarfHeld
    BY DEF SnarfInit, SnarfHeld
  <2>3. SnarfRead
    BY DEF SnarfInit, SnarfRead
  <2>4. QED
    BY <2>1, <2>2, <2>3 DEF SnarfInv
<1>2. SnarfInv => SnarfWhole
  BY DEF SnarfInv, SnarfTypes, SnarfHeld, SnarfRead, SnarfWhole
<1>3. QED
  BY <1>1, <1>2, SnarfSteps, PTL DEF SnarfSpec

-----------------------------------------------------------------------------
(* evalcx().  A failure goes outwards through the contexts: as long as it  *)
(* has its exception, no exit code was set for it, and without one the     *)
(* exit code is that of the failure or, further out, of memory.            *)

Context == [quiet : BOOLEAN, exception : BOOLEAN]

SandboxTypes ==
    /\ contexts \in Seq(Context)
    /\ Len(contexts) >= 1
    /\ evalAt \in {"run", "fail", "ended"}
    /\ evalExit \in Int /\ evalCanceled \in BOOLEAN
    /\ failure \in [why : {"none", "throw", "memory", "quit", "cancel"}, depth : Nat, code : Int]

\* Every other level is quiet, and only the innermost can have an exception.
Levels ==
    /\ ~contexts[1].quiet
    /\ \A k \in 2 .. Depth : contexts[k].quiet <=> ~contexts[k - 1].quiet
    /\ \A k \in 1 .. Depth : contexts[k].exception => k = Depth /\ evalAt = "fail"

\* What the exit code is while no failure was reported
Unreported == evalExit = IF evalCanceled THEN TimedOut ELSE 0

WithException ==
    /\ failure.why = "throw" /\ Unreported
    /\ \/ failure.depth = Depth
       \/ failure.depth = Depth + 1 /\ ~contexts[Depth].quiet

WithoutException ==
    \/ failure.why = "throw" /\ failure.depth > 2 /\ evalExit = OutOfMemory
    \/ failure.why = "memory" /\ evalExit = OutOfMemory
    \/ failure.why \in {"quit", "cancel"} /\ failure.depth > Depth /\ evalExit = OutOfMemory
    \/ /\ failure.why = "quit" /\ failure.depth = Depth
       /\ \/ evalExit = failure.code
          \/ failure.code = 0 /\ evalCanceled /\ evalExit = TimedOut
    \/ failure.why = "cancel" /\ failure.depth = Depth /\ evalCanceled /\ evalExit = TimedOut

Outwards ==
    /\ evalAt = "run" => Unreported
    /\ evalAt = "fail" /\ contexts[Depth].exception => WithException
    /\ evalAt = "fail" /\ ~contexts[Depth].exception => WithoutException

SandboxInv == SandboxTypes /\ Levels /\ Outwards /\ ExitTells

\* The innermost of some contexts gets an exception, or loses it.
LEMMA PendingSeq ==
  ASSUME NEW cs \in Seq(Context), Len(cs) >= 1, NEW b \in BOOLEAN
  PROVE  /\ SetPending(cs, b) \in Seq(Context) /\ Len(SetPending(cs, b)) = Len(cs)
         /\ SetPending(cs, b)[Len(cs)].exception = b
         /\ \A k \in 1 .. Len(cs) : SetPending(cs, b)[k].quiet = cs[k].quiet
         /\ \A k \in 1 .. Len(cs) :
               k # Len(cs) => SetPending(cs, b)[k].exception = cs[k].exception
<1> DEFINE n == Len(cs)
           c == [quiet |-> cs[n].quiet, exception |-> b]
<1>1. n \in 1 .. Len(cs) /\ cs[n] \in Context
  OBVIOUS
<1>2. c \in Context /\ c.exception = b /\ c.quiet = cs[n].quiet
  BY <1>1 DEF Context
<1>3. SetPending(cs, b) = [cs EXCEPT ![n] = c]
  BY DEF SetPending
<1> HIDE DEF n, c
<1>4. SetPending(cs, b) \in Seq(Context) /\ Len(SetPending(cs, b)) = Len(cs)
  BY <1>1, <1>2, <1>3
<1>5. SetPending(cs, b)[n] = c /\ \A k \in 1 .. Len(cs) : k # n => SetPending(cs, b)[k] = cs[k]
  BY <1>1, <1>3
<1>6. QED
  BY <1>2, <1>4, <1>5 DEF n

LEMMA MarkedContexts ==
  ASSUME contexts \in Seq(Context), Len(contexts) >= 1, NEW b \in BOOLEAN,
         contexts' = SetPending(contexts, b)
  PROVE  /\ contexts' \in Seq(Context) /\ Depth' = Depth
         /\ contexts'[Depth].exception = b
         /\ \A k \in 1 .. Depth : contexts'[k].quiet = contexts[k].quiet
         /\ \A k \in 1 .. Depth : k # Depth => contexts'[k].exception = contexts[k].exception
  BY PendingSeq DEF Depth

\* The innermost context is destroyed.
LEMMA FrontContexts ==
  ASSUME contexts \in Seq(Context), Len(contexts) > 1
  PROVE  /\ Front(contexts) \in Seq(Context) /\ Len(Front(contexts)) = Depth - 1
         /\ \A k \in 1 .. Depth - 1 : Front(contexts)[k] = contexts[k]
<1>1. \A k \in 1 .. Len(contexts) - 1 : contexts[k] \in Context
  OBVIOUS
<1>2. QED
  BY <1>1, SubSeqProperties DEF Front, Depth

\* And the one around it gets its exception.
LEMMA FrontMarked ==
  ASSUME contexts \in Seq(Context), Len(contexts) > 1, NEW b \in BOOLEAN,
         contexts' = SetPending(Front(contexts), b)
  PROVE  /\ contexts' \in Seq(Context) /\ Depth' = Depth - 1
         /\ contexts'[Depth - 1].exception = b
         /\ \A k \in 1 .. Depth - 1 : contexts'[k].quiet = contexts[k].quiet
         /\ \A k \in 1 .. Depth - 2 : contexts'[k].exception = contexts[k].exception
<1> DEFINE cs == Front(contexts)
<1>1. /\ cs \in Seq(Context) /\ Len(cs) = Depth - 1 /\ Len(cs) >= 1
      /\ \A k \in 1 .. Depth - 1 : cs[k] = contexts[k]
  BY FrontContexts DEF Depth
<1>2. contexts' = SetPending(cs, b)
  OBVIOUS
<1> HIDE DEF cs
<1>3. /\ contexts' \in Seq(Context) /\ Len(contexts') = Len(cs)
      /\ contexts'[Len(cs)].exception = b
      /\ \A k \in 1 .. Len(cs) : contexts'[k].quiet = cs[k].quiet
      /\ \A k \in 1 .. Len(cs) : k # Len(cs) => contexts'[k].exception = cs[k].exception
  BY <1>1, <1>2, PendingSeq
<1>4. \A k \in 1 .. Depth - 2 : k \in 1 .. Depth - 1 /\ k # Depth - 1
  BY DEF Depth
<1>5. QED
  BY <1>1, <1>3, <1>4 DEF Depth

\* The levels stay the levels while no context comes or goes.
LEMMA LevelsKept ==
  ASSUME Levels, Depth \in Nat, Depth >= 1, Depth' = Depth,
         \A k \in 1 .. Depth : contexts'[k].quiet = contexts[k].quiet,
         \A k \in 1 .. Depth : contexts'[k].exception => k = Depth /\ evalAt' = "fail"
  PROVE  Levels'
<1>1. ~contexts'[1].quiet
  BY DEF Levels
<1>2. \A k \in 2 .. Depth : contexts'[k].quiet <=> ~contexts'[k - 1].quiet
  <2> TAKE k \in 2 .. Depth
  <2>1. k \in 1 .. Depth /\ k - 1 \in 1 .. Depth
    OBVIOUS
  <2>2. contexts[k].quiet <=> ~contexts[k - 1].quiet
    BY DEF Levels
  <2>3. QED
    BY <2>1, <2>2
<1>3. QED
  BY <1>1, <1>2 DEF Levels

LEMMA SandboxSteps == SandboxInv /\ [SandboxNext]_sandboxVars => SandboxInv'
<1> SUFFICES ASSUME SandboxInv, [SandboxNext]_sandboxVars PROVE SandboxInv'
  OBVIOUS
<1>0. Depth \in Nat /\ Depth >= 1 /\ Depth = Len(contexts) /\ Depth' = Len(contexts')
  BY DEF SandboxInv, SandboxTypes, Depth
<1> USE <1>0, SandboxAssumption
    DEF SandboxInv, Unreported, WithException, WithoutException, Innermost, Last,
        RuntimeError, OutOfMemory, TimedOut
<1>1. CASE Throws
  <2>1. /\ contexts' \in Seq(Context) /\ Depth' = Depth /\ Depth >= 1
        /\ contexts'[Depth].exception = TRUE
        /\ \A k \in 1 .. Depth : contexts'[k].quiet = contexts[k].quiet
        /\ \A k \in 1 .. Depth : k # Depth => contexts'[k].exception = contexts[k].exception
    BY <1>1, MarkedContexts DEF Throws, SandboxTypes
  <2>2. /\ evalAt = "run" /\ evalAt' = "fail" /\ UNCHANGED <<evalExit, evalCanceled>>
        /\ failure' = [why |-> "throw", depth |-> Depth, code |-> evalExit']
    BY <1>1 DEF Throws, HasFailed, Reports, my_ErrorReporter, NoFailure, SandboxTypes
  <2>3. SandboxTypes'
    BY <2>1, <2>2 DEF SandboxTypes
  <2>4. Levels'
    <3>1. \A k \in 1 .. Depth : contexts'[k].exception => k = Depth
      BY <2>1, <2>2 DEF Levels
    <3>2. QED
      BY <2>1, <2>2, <3>1, LevelsKept
  <2>5. Outwards'
    BY <2>1, <2>2 DEF Levels, Outwards
  <2>6. ExitTells'
    BY <2>2 DEF ExitTells
  <2>7. QED
    BY <2>3, <2>4, <2>5, <2>6
<1>2. CASE Catches
  <2>1. /\ contexts' \in Seq(Context) /\ Depth' = Depth /\ Depth >= 1
        /\ contexts'[Depth].exception = FALSE
        /\ \A k \in 1 .. Depth : contexts'[k].quiet = contexts[k].quiet
        /\ \A k \in 1 .. Depth : k # Depth => contexts'[k].exception = contexts[k].exception
    BY <1>2, MarkedContexts DEF Catches, SandboxTypes
  <2>2. /\ evalAt = "fail" /\ contexts[Depth].exception /\ evalAt' = "run"
        /\ failure' = [why |-> "none", depth |-> 0, code |-> 0]
        /\ UNCHANGED <<evalExit, evalCanceled>>
    BY <1>2 DEF Catches, HasFailed, Reports, my_ErrorReporter, NoFailure, SandboxTypes
  <2>3. SandboxTypes'
    BY <2>1, <2>2 DEF SandboxTypes
  <2>4. Levels'
    <3>1. \A k \in 1 .. Depth : ~contexts'[k].exception
      BY <2>1, <2>2 DEF Levels
    <3>2. QED
      BY <2>1, <3>1, LevelsKept
  <2>5. Outwards'
    BY <2>1, <2>2 DEF Levels, Outwards
  <2>6. ExitTells'
    BY <2>2 DEF ExitTells
  <2>7. QED
    BY <2>3, <2>4, <2>5, <2>6
<1>3. CASE RunsOut
  <2>1. contexts' = contexts /\ Depth' = Depth /\ Depth >= 1
    BY <1>3 DEF RunsOut, SandboxTypes, Depth
  <2>2. SandboxTypes'
    BY <1>3, <2>1 DEF RunsOut, SandboxTypes, HasFailed, my_ErrorReporter, NoFailure
  <2>3. Levels'
    <3>1. \A k \in 1 .. Depth : contexts[k].exception => k = Depth /\ evalAt = "fail"
      BY DEF Levels
    <3>2. evalAt = "fail" => evalAt' = "fail"
      BY <1>3 DEF RunsOut, HasFailed
    <3>3. QED
      BY <2>1, <3>1, <3>2, LevelsKept
  <2>4. Outwards'
    BY <1>3, <2>1 DEF RunsOut, Levels, Outwards, HasFailed, my_ErrorReporter
  <2>5. ExitTells'
    BY <1>3 DEF RunsOut, HasFailed, ExitTells
  <2>6. QED
    BY <2>2, <2>3, <2>4, <2>5
<1>4. CASE Quit
  <2>1. contexts' = contexts /\ Depth' = Depth /\ Depth >= 1
    BY <1>4 DEF Quit, SandboxTypes, Depth
  <2>2. SandboxTypes'
    BY <1>4, <2>1 DEF Quit, SandboxTypes, HasFailed, my_ErrorReporter, NoFailure
  <2>3. Levels'
    <3>1. \A k \in 1 .. Depth : contexts[k].exception => k = Depth /\ evalAt = "fail"
      BY DEF Levels
    <3>2. evalAt = "fail" => evalAt' = "fail"
      BY <1>4 DEF Quit, HasFailed
    <3>3. QED
      BY <2>1, <3>1, <3>2, LevelsKept
  <2>4. Outwards'
    <3>1. failure'.why = "quit" /\ failure'.depth = Depth /\ failure'.code = evalExit' /\ evalAt' = "fail"
      BY <1>4 DEF Quit, HasFailed
    <3>2. ~contexts'[Depth'].exception
      BY <1>4, <2>1 DEF Quit, Levels
    <3>3. QED
      BY <2>1, <3>1, <3>2 DEF Outwards
  <2>5. ExitTells'
    BY <1>4 DEF Quit, HasFailed, ExitTells
  <2>6. QED
    BY <2>2, <2>3, <2>4, <2>5
<1>5. CASE CancelExecution
  <2>1. contexts' = contexts /\ Depth' = Depth /\ Depth >= 1
    BY <1>5 DEF CancelExecution, SandboxTypes, Depth
  <2>2. SandboxTypes'
    BY <1>5, <2>1 DEF CancelExecution, SandboxTypes, HasFailed, my_ErrorReporter, NoFailure
  <2>3. Levels'
    <3>1. \A k \in 1 .. Depth : contexts[k].exception => k = Depth /\ evalAt = "fail"
      BY DEF Levels
    <3>2. evalAt = "fail" => evalAt' = "fail"
      BY <1>5 DEF CancelExecution, HasFailed
    <3>3. QED
      BY <2>1, <3>1, <3>2, LevelsKept
  <2>4. Outwards'
    BY <1>5, <2>1 DEF CancelExecution, Levels, Outwards, HasFailed, my_ErrorReporter
  <2>5. ExitTells'
    BY <1>5 DEF CancelExecution, HasFailed, ExitTells
  <2>6. QED
    BY <2>2, <2>3, <2>4, <2>5
<1>6. CASE ShellOperationCallback
  <2>1. /\ contexts' \in Seq(Context) /\ Depth' = Depth /\ Depth >= 1
        /\ contexts'[Depth].exception = FALSE
        /\ \A k \in 1 .. Depth : contexts'[k].quiet = contexts[k].quiet
        /\ \A k \in 1 .. Depth : k # Depth => contexts'[k].exception = contexts[k].exception
    BY <1>6, MarkedContexts DEF ShellOperationCallback, SandboxTypes
  <2>2. /\ evalAt = "run" /\ evalAt' = "fail" /\ evalCanceled /\ UNCHANGED <<evalExit, evalCanceled>>
        /\ failure' = [why |-> "cancel", depth |-> Depth, code |-> evalExit']
    BY <1>6 DEF ShellOperationCallback, HasFailed, Reports, my_ErrorReporter, NoFailure, SandboxTypes
  <2>3. SandboxTypes'
    BY <2>1, <2>2 DEF SandboxTypes
  <2>4. Levels'
    <3>1. \A k \in 1 .. Depth : ~contexts'[k].exception
      BY <2>1, <2>2 DEF Levels
    <3>2. QED
      BY <2>1, <3>1, LevelsKept
  <2>5. Outwards'
    BY <2>1, <2>2 DEF Levels, Outwards
  <2>6. ExitTells'
    BY <2>2 DEF ExitTells
  <2>7. QED
    BY <2>3, <2>4, <2>5, <2>6
<1>7. CASE EvalFails
  <2>1. contexts' = contexts /\ Depth' = Depth /\ Depth >= 1
    BY <1>7 DEF EvalFails, SandboxTypes, Depth
  <2>2. SandboxTypes'
    BY <1>7, <2>1 DEF EvalFails, NewContextData, SandboxTypes, HasFailed, my_ErrorReporter, NoFailure
  <2>3. Levels'
    <3>1. \A k \in 1 .. Depth : contexts[k].exception => k = Depth /\ evalAt = "fail"
      BY DEF Levels
    <3>2. evalAt = "fail" => evalAt' = "fail"
      BY <1>7 DEF EvalFails, HasFailed
    <3>3. QED
      BY <2>1, <3>1, <3>2, LevelsKept
  <2>4. Outwards'
    BY <1>7, <2>1 DEF EvalFails, NewContextData, Levels, Outwards, HasFailed, my_ErrorReporter
  <2>5. ExitTells'
    BY <1>7 DEF EvalFails, NewContextData, HasFailed, ExitTells
  <2>6. QED
    BY <2>2, <2>3, <2>4, <2>5
<1>8. CASE EvalInContext
  <2> DEFINE c == [quiet |-> Quiet, exception |-> FALSE]
  <2>1. /\ contexts' \in Seq(Context) /\ Depth' = Depth + 1 /\ Depth >= 1
        /\ contexts'[Depth + 1] = c
        /\ \A k \in 1 .. Depth : contexts'[k] = contexts[k]
    BY <1>8 DEF EvalInContext, SandboxTypes, Quiet, Context, Depth
  <2>2. SandboxTypes'
    BY <1>8, <2>1 DEF EvalInContext, Quiet, SandboxTypes, HasFailed, my_ErrorReporter, NoFailure
  <2>3. Levels'
    <3>1. contexts'[Depth + 1].quiet <=> ~contexts[Depth].quiet
      <4>1. contexts'[Depth + 1].quiet = Quiet
        BY <2>1
      <4>2. Quiet <=> ~contexts[Depth].quiet
        BY DEF Quiet
      <4>3. QED
        BY <4>1, <4>2
    <3>2. ~contexts'[Depth + 1].exception /\ evalAt = "run"
      BY <1>8, <2>1 DEF EvalInContext
    <3>3. \A k \in 1 .. Depth : ~contexts'[k].exception
      BY <2>1, <3>2 DEF Levels
    <3>4. \A k \in 1 .. Depth + 1 : k = Depth + 1 \/ k \in 1 .. Depth
      OBVIOUS
    <3>5. \A k \in 2 .. Depth + 1 : contexts'[k].quiet <=> ~contexts'[k - 1].quiet
      <4> TAKE k \in 2 .. Depth + 1
      <4>1. k - 1 \in 1 .. Depth /\ (k = Depth + 1 \/ k \in 2 .. Depth)
        OBVIOUS
      <4>2. CASE k = Depth + 1
        BY <2>1, <3>1, <4>1, <4>2
      <4>3. CASE k \in 2 .. Depth
        <5>1. contexts[k].quiet <=> ~contexts[k - 1].quiet
          BY <4>3 DEF Levels
        <5>2. QED
          BY <2>1, <4>1, <4>3, <5>1
      <4>4. QED
        BY <4>1, <4>2, <4>3
    <3>6. QED
      BY <2>1, <3>2, <3>3, <3>4, <3>5 DEF Levels
  <2>4. Outwards'
    BY <1>8, <2>1 DEF EvalInContext, Quiet, Levels, Outwards, HasFailed, my_ErrorReporter
  <2>5. ExitTells'
    BY <1>8 DEF EvalInContext, Quiet, HasFailed, ExitTells
  <2>6. QED
    BY <2>2, <2>3, <2>4, <2>5
<1>9. CASE EvalReturns
  <2>1. /\ contexts' \in Seq(Context) /\ Depth' = Depth - 1 /\ Depth' >= 1
        /\ \A k \in 1 .. Depth - 1 : contexts'[k] = contexts[k]
    BY <1>9, FrontContexts DEF EvalReturns, SandboxTypes, Depth
  <2>2. SandboxTypes'
    BY <1>9, <2>1 DEF EvalReturns, SandboxTypes, HasFailed, my_ErrorReporter, NoFailure
  <2>3. Levels'
    BY <1>9, <2>1 DEF EvalReturns, Levels, HasFailed
  <2>4. Outwards'
    BY <1>9, <2>1 DEF EvalReturns, Levels, Outwards, HasFailed, my_ErrorReporter
  <2>5. ExitTells'
    BY <1>9 DEF EvalReturns, HasFailed, ExitTells
  <2>6. QED
    BY <2>2, <2>3, <2>4, <2>5
<1>10. CASE ExceptionPassed
  <2>1. /\ contexts' \in Seq(Context) /\ Depth' = Depth - 1 /\ Depth' >= 1
        /\ contexts'[Depth - 1].exception = TRUE
        /\ \A k \in 1 .. Depth - 1 : contexts'[k].quiet = contexts[k].quiet
        /\ \A k \in 1 .. Depth - 2 : contexts'[k].exception = contexts[k].exception
    <3>1. contexts' = SetPending(Front(contexts), TRUE) /\ Len(contexts) > 1
      BY <1>10 DEF ExceptionPassed
    <3>2. /\ contexts' \in Seq(Context) /\ Depth' = Depth - 1
          /\ contexts'[Depth - 1].exception = TRUE
          /\ \A k \in 1 .. Depth - 1 : contexts'[k].quiet = contexts[k].quiet
          /\ \A k \in 1 .. Depth - 2 : contexts'[k].exception = contexts[k].exception
      BY <3>1, FrontMarked DEF SandboxTypes
    <3>3. Depth > 1
      BY <3>1
    <3>4. QED
      BY <3>2, <3>3
  <2>2. SandboxTypes'
    BY <1>10, <2>1 DEF ExceptionPassed, SandboxTypes, HasFailed, my_ErrorReporter, NoFailure
  <2>3. Levels'
    <3>1. evalAt' = "fail" /\ Depth > 1 /\ \A k \in 1 .. Depth - 2 : ~contexts[k].exception
      BY <1>10 DEF ExceptionPassed, Levels
    <3>2. \A k \in 2 .. Depth - 1 : contexts'[k].quiet <=> ~contexts'[k - 1].quiet
      <4> TAKE k \in 2 .. Depth - 1
      <4>1. k \in 1 .. Depth - 1 /\ k - 1 \in 1 .. Depth - 1 /\ k \in 2 .. Depth
        OBVIOUS
      <4>2. contexts[k].quiet <=> ~contexts[k - 1].quiet
        BY <4>1 DEF Levels
      <4>3. QED
        BY <2>1, <4>1, <4>2
    <3>3. \A k \in 1 .. Depth - 1 : k = Depth - 1 \/ k \in 1 .. Depth - 2
      OBVIOUS
    <3>4. \A k \in 1 .. Depth - 1 : contexts'[k].exception => k = Depth - 1
      BY <2>1, <3>1, <3>3
    <3>5. ~contexts'[1].quiet
      BY <2>1 DEF Levels
    <3>6. QED
      BY <2>1, <3>1, <3>2, <3>4, <3>5 DEF Levels
  <2>4. Outwards'
    <3>1. /\ evalAt = "fail" /\ contexts[Depth].exception /\ contexts[Depth].quiet /\ Depth > 1
          /\ UNCHANGED <<evalAt, evalExit, evalCanceled, failure>>
      BY <1>10 DEF ExceptionPassed
    <3>2. failure.why = "throw" /\ Unreported /\ failure.depth = Depth
      BY <3>1 DEF Outwards
    <3>3. ~contexts'[Depth'].quiet /\ contexts'[Depth'].exception = TRUE
      BY <2>1, <3>1 DEF Levels
    <3>4. QED
      BY <2>1, <3>1, <3>2, <3>3 DEF Outwards
  <2>5. ExitTells'
    BY <1>10 DEF ExceptionPassed, HasFailed, ExitTells
  <2>6. QED
    BY <2>2, <2>3, <2>4, <2>5
<1>11. CASE FailurePassed
  <2>1. /\ contexts' \in Seq(Context) /\ Depth' = Depth - 1 /\ Depth' >= 1
        /\ \A k \in 1 .. Depth - 1 : contexts'[k] = contexts[k]
    BY <1>11, FrontContexts DEF FailurePassed, SandboxTypes, Depth
  <2>2. SandboxTypes'
    BY <1>11, <2>1 DEF FailurePassed, Reports, SandboxTypes, HasFailed, my_ErrorReporter, NoFailure
  <2>3. Levels'
    BY <1>11, <2>1 DEF FailurePassed, Reports, Levels, HasFailed
  <2>4. Outwards'
    <3>1. /\ evalAt = "fail" /\ evalAt' = "fail" /\ Depth > 1 /\ evalExit' = OutOfMemory
          /\ UNCHANGED failure
      BY <1>11 DEF FailurePassed, my_ErrorReporter
    <3>2. ~contexts'[Depth'].exception
      BY <2>1, <3>1 DEF Levels
    <3>3. failure.depth \in Nat
      BY DEF SandboxTypes
    <3>4. CASE contexts[Depth].exception
      <4>1. ~contexts[Depth].quiet
        BY <1>11, <3>4 DEF FailurePassed, Reports
      <4>2. Depth # 2
        BY <4>1 DEF Levels
      <4>3. failure.why = "throw" /\ failure.depth > 2
        BY <3>1, <3>3, <3>4, <4>2 DEF Outwards
      <4>4. QED
        BY <3>1, <3>2, <4>3 DEF Outwards
    <3>5. CASE ~contexts[Depth].exception
      <4>1. WithoutException
        BY <3>1, <3>5 DEF Outwards
      <4>2. WithoutException'
        BY <2>1, <3>1, <3>3, <4>1
      <4>3. QED
        BY <3>1, <3>2, <4>2 DEF Outwards
    <3>6. QED
      BY <3>4, <3>5
  <2>5. ExitTells'
    BY <1>11 DEF FailurePassed, Reports, HasFailed, ExitTells
  <2>6. QED
    BY <2>2, <2>3, <2>4, <2>5
<1>12. CASE StatementFails
  <2>1. /\ contexts' \in Seq(Context) /\ Depth' = Depth /\ Depth >= 1
        /\ contexts'[Depth].exception = FALSE
        /\ \A k \in 1 .. Depth : contexts'[k].quiet = contexts[k].quiet
        /\ \A k \in 1 .. Depth : k # Depth => contexts'[k].exception = contexts[k].exception
    BY <1>12, MarkedContexts DEF StatementFails, SandboxTypes
  <2>2. SandboxTypes'
    <3>1. evalAt' = "ended" /\ evalExit' \in {evalExit, RuntimeError} /\ UNCHANGED <<evalCanceled, failure>>
      BY <1>12 DEF StatementFails, my_ErrorReporter
    <3>2. QED
      BY <2>1, <3>1 DEF SandboxTypes
  <2>3. Levels'
    <3>1. Depth = 1
      BY <1>12 DEF StatementFails
    <3>2. QED
      BY <2>1, <3>1 DEF Levels
  <2>4. Outwards'
    BY <1>12, <2>1 DEF StatementFails, Reports, Forgotten, Levels, Outwards, HasFailed, my_ErrorReporter
  <2>5. ExitTells'
    <3>1. Depth = 1 /\ evalAt = "fail" /\ UNCHANGED <<evalCanceled, failure>> /\ failure.depth \in Nat
      BY <1>12 DEF StatementFails, SandboxTypes
    <3>2. CASE contexts[Depth].exception
      <4>1. evalExit' = RuntimeError
        BY <1>12, <3>1, <3>2 DEF StatementFails, Reports, Levels, my_ErrorReporter
      <4>2. failure.why = "throw" /\ ~Forgotten'
        BY <3>1, <3>2 DEF Outwards, Forgotten
      <4>3. QED
        BY <3>1, <4>1, <4>2 DEF ExitTells
    <3>3. CASE ~contexts[Depth].exception
      <4>1. evalExit' = evalExit /\ WithoutException
        BY <1>12, <3>1, <3>3 DEF StatementFails, Reports, Outwards
      <4>2. QED
        BY <3>1, <4>1 DEF ExitTells, Forgotten
    <3>4. QED
      BY <3>2, <3>3
  <2>6. QED
    BY <2>2, <2>3, <2>4, <2>5
<1>13. CASE UNCHANGED sandboxVars
  BY <1>13 DEF sandboxVars, SandboxTypes, Levels, Outwards, ExitTells, Forgotten, Depth
<1>14. QED
  BY <1>1, <1>2, <1>3, <1>4, <1>5, <1>6, <1>7, <1>8, <1>9, <1>10, <1>11, <1>12, <1>13
  DEF SandboxNext

\* For sandboxes within each other to any depth: the exit code tells why the
\* statement failed, with the exceptions ExitTells lists and no others.
THEOREM SandboxTheorem == SandboxSpec => []ExitTells
<1>1. SandboxInit => SandboxInv
  <2> SUFFICES ASSUME SandboxInit PROVE SandboxInv
    OBVIOUS
  <2>1. contexts[1] = [quiet |-> FALSE, exception |-> FALSE] /\ Len(contexts) = 1
    BY DEF SandboxInit
  <2>2. SandboxTypes
    <3>1. [quiet |-> FALSE, exception |-> FALSE] \in Context
      BY DEF Context
    <3>2. contexts \in Seq(Context)
      BY <3>1 DEF SandboxInit
    <3>3. failure \in [why : {"none", "throw", "memory", "quit", "cancel"}, depth : Nat, code : Int]
      BY DEF SandboxInit, NoFailure
    <3>4. QED
      BY <2>1, <3>2, <3>3, 0 \in Int, FALSE \in BOOLEAN, 1 >= 1 DEF SandboxInit, SandboxTypes
  <2>3. QED
    BY <2>1, <2>2 DEF SandboxInit, SandboxInv, Levels, Outwards, Unreported, Depth, ExitTells
<1>2. SandboxInv => ExitTells
  BY DEF SandboxInv
<1>3. QED
  BY <1>1, <1>2, SandboxSteps, PTL DEF SandboxSpec

-----------------------------------------------------------------------------
(* its_setter.  Each cell that is allocated is a thread's that makes it    *)
(* the value of an object, or has one; while no two threads have set the   *)
(* first value of an object at once, an object keeps the cell it has got.  *)

Setting == [at : {"root", "private", "store"}, o : ItsObjects, c : Cells, v : ItsValues]
Active(t) == setting[t] # NotSetting

ItsTypes ==
    /\ cell \in [ItsObjects -> Cells \cup {NoCell}]
    /\ DOMAIN contents \subseteq Cells
    /\ setting \in [ItsThreads -> {NotSetting} \cup Setting]

Underways ==
    \A t \in ItsThreads : Active(t) =>
        /\ setting[t].c \in DOMAIN contents
        /\ setting[t].c \in roots <=> setting[t].at # "root"
        /\ setting[t].at # "store" => \A o \in ItsObjects : cell[o] # setting[t].c
        /\ \A u \in ItsThreads : Active(u) /\ setting[u].c = setting[t].c => u = t

OwnCells ==
    /\ \A o, p \in ItsObjects : cell[o] = cell[p] /\ cell[o] # NoCell => o = p
    /\ \A o \in ItsObjects : cell[o] # NoCell => cell[o] \in roots
    /\ roots \subseteq DOMAIN contents

NoneLost ==
    /\ \A c \in roots :
          \/ \E o \in ItsObjects : cell[o] = c
          \/ \E t \in ItsThreads : setting[t].at = "private" /\ setting[t].c = c
    /\ \A c \in DOMAIN contents \ roots :
          \E t \in ItsThreads : setting[t].at = "root" /\ setting[t].c = c
    /\ \A t \in ItsThreads : setting[t].at = "store" => cell[setting[t].o] = setting[t].c
    /\ \A o \in ItsObjects : HoldsValue(o)

ItsInv == ItsTypes /\ Underways /\ OwnCells /\ (raced = {} => NoneLost)

LEMMA ItsSteps == ItsInv /\ [ItsNext]_itsVars => ItsInv'
<1> SUFFICES ASSUME ItsInv, [ItsNext]_itsVars PROVE ItsInv'
  OBVIOUS
<1> USE ItsAssumption DEF ItsInv, ItsTypes, Setting, Active, NotSetting
<1>0. \A t \in ItsThreads : setting[t] = NotSetting <=> setting[t].at = "none"
  OBVIOUS
<1>1. ASSUME NEW t \in ItsThreads, NEW o \in ItsObjects, NEW v \in ItsValues, SetCustom(t, o, v)
      PROVE  ItsInv'
  BY <1>1 DEF SetCustom, Underways, OwnCells, NoneLost, HoldsValue, its_getter
<1>2. ASSUME NEW t \in ItsThreads, NEW o \in ItsObjects, NEW v \in ItsValues, NewCell(t, o, v)
      PROVE  ItsInv'
  BY <1>2 DEF NewCell, Underways, OwnCells, NoneLost, HoldsValue, its_getter
<1>3. ASSUME NEW t \in ItsThreads, AddRoot(t) PROVE ItsInv'
  BY <1>3 DEF AddRoot, Free, Underways, OwnCells, NoneLost, HoldsValue, its_getter
<1>4. ASSUME NEW t \in ItsThreads, SetPrivateFails(t) PROVE ItsInv'
  BY <1>4 DEF SetPrivateFails, Free, Underways, OwnCells, NoneLost, HoldsValue, its_getter
<1>5. ASSUME NEW t \in ItsThreads, SetPrivate(t) PROVE ItsInv'
  <2> DEFINE c == setting[t].c
             o == setting[t].o
  <2>1. /\ setting[t].at = "private" /\ c \in Cells /\ o \in ItsObjects
        /\ cell' = [cell EXCEPT ![o] = c]
        /\ setting' = [setting EXCEPT ![t].at = "store"]
        /\ UNCHANGED <<contents, roots>>
        /\ raced' = IF cell[o] = NoCell THEN raced ELSE raced \cup {o}
    BY <1>5 DEF SetPrivate
  <2>2. ItsTypes'
    BY <2>1
  <2>3. /\ setting'[t].at = "store" /\ setting'[t].c = c /\ setting'[t].o = o
        /\ \A u \in ItsThreads : u # t => setting'[u] = setting[u]
        /\ cell'[o] = c /\ \A p \in ItsObjects : p # o => cell'[p] = cell[p]
    BY <2>1
  <2> HIDE DEF c, o
  <2>4. c \in roots /\ \A p \in ItsObjects : cell[p] # c
    BY <1>0, <2>1 DEF Underways, c
  <2>5. Underways'
    BY <1>0, <2>1, <2>3, <2>4 DEF Underways, c
  <2>6. OwnCells'
    BY <2>1, <2>3, <2>4 DEF OwnCells
  <2>7. ASSUME raced' = {} PROVE NoneLost'
    <3>1. raced = {} /\ cell[o] = NoCell /\ NoneLost
      BY <2>1, <2>7
    <3>2. \A p \in ItsObjects : HoldsValue(p)'
      BY <2>1, <2>3, <3>1 DEF NoneLost, HoldsValue, its_getter
    <3>3. \A u \in ItsThreads : setting'[u].at = "store" => cell'[setting'[u].o] = setting'[u].c
      BY <2>1, <2>3, <3>1 DEF NoneLost, Underways, OwnCells
    <3>4. \A d \in roots :
             \/ \E p \in ItsObjects : cell'[p] = d
             \/ \E u \in ItsThreads : setting'[u].at = "private" /\ setting'[u].c = d
      BY <2>1, <2>3, <3>1 DEF NoneLost, OwnCells, c
    <3>5. \A d \in DOMAIN contents \ roots :
             \E u \in ItsThreads : setting'[u].at = "root" /\ setting'[u].c = d
      BY <2>1, <2>3, <3>1 DEF NoneLost
    <3>6. QED
      BY <2>1, <3>2, <3>3, <3>4, <3>5 DEF NoneLost
  <2>8. QED
    BY <2>2, <2>5, <2>6, <2>7
<1>6. ASSUME NEW t \in ItsThreads, StoreValue(t) PROVE ItsInv'
  BY <1>6 DEF StoreValue, Underways, OwnCells, NoneLost, HoldsValue, its_getter
<1>7. ASSUME NEW o \in ItsObjects, its_finalize(o) PROVE ItsInv'
  <2>1. /\ \A t \in ItsThreads : setting'[t] = NotSetting /\ setting[t] = NotSetting
        /\ cell[o] # NoCell /\ roots' = roots \ {cell[o]} /\ DOMAIN contents' = DOMAIN contents \ {cell[o]}
        /\ \A c \in DOMAIN contents' : contents'[c] = contents[c]
        /\ cell' = [cell EXCEPT ![o] = NoCell] /\ UNCHANGED <<setting, raced>>
    BY <1>7 DEF its_finalize, Free
  <2>2. ItsTypes' /\ Underways'
    BY <2>1 DEF Underways
  <2>3. OwnCells'
    BY <2>1 DEF OwnCells
  <2>4. ASSUME NoneLost PROVE NoneLost'
    <3>1. \A p \in ItsObjects : cell'[p] # NoCell => cell'[p] = cell[p] /\ cell[p] \in DOMAIN contents'
      BY <2>1 DEF OwnCells
    <3>2. \A p \in ItsObjects : HoldsValue(p)'
      <4>1. Unread # Garbage
        BY DEF Unread, Garbage
      <4>2. \A p \in ItsObjects : its_getter(p) # Garbage
        BY <2>1, <2>4 DEF NoneLost, HoldsValue
      <4>3. \A p \in ItsObjects : its_getter(p)' # Garbage
        BY <2>1, <3>1, <4>1, <4>2 DEF its_getter
      <4>4. QED
        BY <4>3 DEF HoldsValue
    <3>3. QED
      BY <2>1, <2>4, <3>2 DEF NoneLost, OwnCells
  <2>5. QED
    BY <2>1, <2>2, <2>3, <2>4
<1>8. CASE UNCHANGED itsVars
  BY <1>8 DEF itsVars, Underways, OwnCells, NoneLost, HoldsValue, its_getter
<1>9. QED
  BY <1>1, <1>2, <1>3, <1>4, <1>5, <1>6, <1>7, <1>8 DEF ItsNext

\* For any objects, threads and cells: what can be read is a root, nothing is
\* freed that is one, and unless two threads set a first value at once nothing
\* else is a root or left allocated.
THEOREM ItsTheorem == ItsSpec => []CellsRooted
<1>1. ItsInit => ItsInv
  BY DEF ItsInit, ItsInv, ItsTypes, Underways, OwnCells, NoneLost, HoldsValue, its_getter, Active,
     NotSetting, Unread, Garbage
<1>2. ItsInv => CellsRooted
  <2> SUFFICES ASSUME ItsInv PROVE CellsRooted
    OBVIOUS
  <2>1. \A t \in ItsThreads : setting[t].at # "none" => Active(t)
    BY DEF Active, NotSetting
  <2>2. roots \subseteq DOMAIN contents /\ Held \subseteq roots
    BY DEF ItsInv, OwnCells, Held
  <2>3. /\ Underway({"private"}) \subseteq roots
        /\ Underway({"root"}) \subseteq DOMAIN contents
    BY <2>1 DEF ItsInv, Underways, Underway
  <2>4. ASSUME raced = {} PROVE roots = Held \cup Underway({"private"})
    <3>1. ASSUME NEW c \in roots PROVE c \in Held \cup Underway({"private"})
      BY <2>2, <2>4, <3>1, ItsAssumption DEF ItsInv, ItsTypes, NoneLost, Held, Underway
    <3>2. QED
      BY <2>2, <2>3, <3>1
  <2>5. ASSUME raced = {} PROVE DOMAIN contents = roots \cup Underway({"root"})
    <3>1. ASSUME NEW c \in DOMAIN contents PROVE c \in roots \cup Underway({"root"})
      BY <2>5 DEF ItsInv, NoneLost, Underway
    <3>2. QED
      BY <2>2, <2>3, <3>1
  <2>6. raced = {} => \A o \in ItsObjects : HoldsValue(o)
    BY DEF ItsInv, NoneLost
  <2>7. QED
    BY <2>2, <2>4, <2>5, <2>6 DEF CellsRooted
<1>3. QED
  BY <1>1, <1>2, ItsSteps, PTL DEF ItsSpec

-----------------------------------------------------------------------------
(* DSO.load() and DSO.unload(): the table of libraries and the linker.     *)

DsoCall == [fn : {"load", "unload"}, id : Ids, lib : Libs,
         at : {"open", "inside", "close", "clear"}]

DsoTypes ==
    /\ dso_handle \in [Ids -> Libs \cup {NoHandle}]
    /\ opened \in [Libs -> Int]
    /\ dsoCalls \in [DsoThreads -> Seq(DsoCall)]
    /\ \A t \in DsoThreads : Len(dsoCalls[t]) <= MaxCalls
    /\ clash \in BOOLEAN

\* Two calls that unload have different slots, and each slot holds the library
\* its call read from it.
Unloads(t, k) ==
    /\ k \in 1 .. Len(dsoCalls[t])
    /\ dsoCalls[t][k].fn = "unload"
UnloadsKept ==
    /\ \A t \in DsoThreads, k \in Nat :
          Unloads(t, k) => dso_handle[dsoCalls[t][k].id] = dsoCalls[t][k].lib
    /\ \A t, u \in DsoThreads, j, k \in Nat :
          Unloads(t, j) /\ Unloads(u, k) /\ dsoCalls[t][j].id = dsoCalls[u][k].id
          => t = u /\ j = k

DsoInv == DsoTypes /\ (clash \/ UnloadsKept) /\ HandlesKept

Is(made, fn, at, lib) == made.fn = fn /\ made.at = at /\ made.lib = lib
Top(t) == Len(dsoCalls[t])
Places == DsoThreads \X (1 .. MaxCalls)
Count(fn, at, lib) == Cardinality(CallsIn(fn, at, lib))
SlotsWith(lib) == {id \in Ids : dso_handle[id] = lib}

-----------------------------------------------------------------------------
(* Stacks of calls.                                                        *)

\* A call that starts is on top, and the others stay.
LEMMA Entered ==
  ASSUME DsoTypes, NEW t \in DsoThreads, NEW made \in DsoCall, Enters(t, made), MayCall(t)
  PROVE  /\ dsoCalls' \in [DsoThreads -> Seq(DsoCall)]
         /\ \A u \in DsoThreads : u # t => dsoCalls'[u] = dsoCalls[u]
         /\ Len(dsoCalls'[t]) = Top(t) + 1 /\ Top(t) \in Nat
         /\ \A k \in 1 .. Top(t) : dsoCalls'[t][k] = dsoCalls[t][k]
         /\ dsoCalls'[t][Top(t) + 1] = made
         /\ \A u \in DsoThreads : Len(dsoCalls'[u]) <= MaxCalls
<1> DEFINE s == dsoCalls[t]
<1>1. s \in Seq(DsoCall) /\ Len(s) \in Nat
  BY DEF DsoTypes
<1>2. dsoCalls' = [dsoCalls EXCEPT ![t] = Append(s, made)]
  BY DEF Enters
<1>3. /\ Append(s, made) \in Seq(DsoCall) /\ Len(Append(s, made)) = Len(s) + 1
      /\ \A k \in 1 .. Len(s) : Append(s, made)[k] = s[k]
      /\ Append(s, made)[Len(s) + 1] = made
  BY <1>1
<1>4. dsoCalls'[t] = Append(s, made) /\ \A u \in DsoThreads : u # t => dsoCalls'[u] = dsoCalls[u]
  BY <1>2 DEF DsoTypes
<1>5. \A u \in DsoThreads : Len(dsoCalls'[u]) <= MaxCalls
  <2>1. Len(s) < MaxCalls
    BY DEF MayCall
  <2>2. Len(Append(s, made)) <= MaxCalls
    BY <1>1, <1>3, <2>1, DsoAssumption
  <2>3. QED
    BY <1>4, <2>2 DEF DsoTypes
<1> QED
  BY <1>1, <1>2, <1>3, <1>4, <1>5 DEF DsoTypes, Top

\* A call that returns is gone, and the others stay.
LEMMA Left ==
  ASSUME DsoTypes, NEW t \in DsoThreads, LeavesDso(t), dsoCalls[t] # <<>>
  PROVE  /\ dsoCalls' \in [DsoThreads -> Seq(DsoCall)]
         /\ \A u \in DsoThreads : u # t => dsoCalls'[u] = dsoCalls[u]
         /\ Len(dsoCalls'[t]) = Top(t) - 1 /\ Top(t) \in Nat \ {0}
         /\ \A k \in 1 .. Top(t) - 1 : dsoCalls'[t][k] = dsoCalls[t][k]
         /\ \A u \in DsoThreads : Len(dsoCalls'[u]) <= MaxCalls
         /\ Called(t) \in DsoCall /\ Called(t) = dsoCalls[t][Top(t)]
<1> DEFINE s == dsoCalls[t]
<1>1. s \in Seq(DsoCall) /\ Len(s) \in Nat \ {0} /\ Len(s) <= MaxCalls
  BY DEF DsoTypes
<1>2. dsoCalls' = [dsoCalls EXCEPT ![t] = Front(s)]
  BY DEF LeavesDso
<1>3. /\ Front(s) \in Seq(DsoCall) /\ Len(Front(s)) = Len(s) - 1
      /\ \A k \in 1 .. Len(s) - 1 : Front(s)[k] = s[k]
  BY <1>1 DEF Front
<1>4. dsoCalls'[t] = Front(s) /\ \A u \in DsoThreads : u # t => dsoCalls'[u] = dsoCalls[u]
  BY <1>2 DEF DsoTypes
<1>5. \A u \in DsoThreads : Len(dsoCalls'[u]) <= MaxCalls
  <2>1. Len(Front(s)) <= MaxCalls
    BY <1>1, <1>3, DsoAssumption
  <2>2. QED
    BY <1>4, <2>1 DEF DsoTypes
<1>6. s[Len(s)] \in DsoCall /\ Called(t) = s[Len(s)]
  BY <1>1 DEF Called, Last
<1> QED
  BY <1>1, <1>2, <1>3, <1>4, <1>5, <1>6 DEF DsoTypes, Top

\* A call that goes on stays what it was but for the point it is at.
LEMMA Continued ==
  ASSUME DsoTypes, NEW t \in DsoThreads, NEW at \in {"open", "inside", "close", "clear"},
         Continues(t, at), dsoCalls[t] # <<>>
  PROVE  /\ dsoCalls' \in [DsoThreads -> Seq(DsoCall)]
         /\ \A u \in DsoThreads : u # t => dsoCalls'[u] = dsoCalls[u]
         /\ Len(dsoCalls'[t]) = Top(t) /\ Top(t) \in Nat \ {0}
         /\ \A k \in 1 .. Top(t) - 1 : dsoCalls'[t][k] = dsoCalls[t][k]
         /\ dsoCalls'[t][Top(t)] = [Called(t) EXCEPT !.at = at]
         /\ \A u \in DsoThreads : Len(dsoCalls'[u]) <= MaxCalls
         /\ Called(t) \in DsoCall /\ Called(t) = dsoCalls[t][Top(t)]
<1> DEFINE s == dsoCalls[t]
           made == [Last(s) EXCEPT !.at = at]
<1>1. s \in Seq(DsoCall) /\ Len(s) \in Nat \ {0} /\ Len(s) <= MaxCalls
  BY DEF DsoTypes
<1>2. dsoCalls' = [dsoCalls EXCEPT ![t] = Append(Front(s), made)]
  BY DEF Continues
<1>3. /\ Front(s) \in Seq(DsoCall) /\ Len(Front(s)) = Len(s) - 1
      /\ \A k \in 1 .. Len(s) - 1 : Front(s)[k] = s[k]
  BY <1>1 DEF Front
<1>4. s[Len(s)] \in DsoCall /\ Called(t) = s[Len(s)] /\ Last(s) = s[Len(s)]
  BY <1>1 DEF Called, Last
<1>5. made \in DsoCall
  BY <1>4 DEF DsoCall
<1> HIDE DEF made
<1>6. /\ Append(Front(s), made) \in Seq(DsoCall) /\ Len(Append(Front(s), made)) = Len(s)
      /\ \A k \in 1 .. Len(s) - 1 : Append(Front(s), made)[k] = s[k]
      /\ Append(Front(s), made)[Len(s)] = made
  BY <1>1, <1>3, <1>5
<1>7. /\ dsoCalls'[t] = Append(Front(s), made)
      /\ \A u \in DsoThreads : u # t => dsoCalls'[u] = dsoCalls[u]
  BY <1>2 DEF DsoTypes
<1>8. \A u \in DsoThreads : Len(dsoCalls'[u]) <= MaxCalls
  BY <1>1, <1>6, <1>7, DsoAssumption DEF DsoTypes
<1>9. made = [Called(t) EXCEPT !.at = at]
  BY DEF made, Called
<1> QED
  BY <1>1, <1>2, <1>4, <1>6, <1>7, <1>8, <1>9 DEF DsoTypes, Top

-----------------------------------------------------------------------------
(* Counting calls.                                                         *)

LEMMA CallsFinite ==
  ASSUME NEW fn, NEW at, NEW lib
  PROVE  /\ IsFiniteSet(CallsIn(fn, at, lib)) /\ Count(fn, at, lib) \in Nat
         /\ \A t \in DsoThreads, k \in 1 .. MaxCalls :
               <<t, k>> \in CallsIn(fn, at, lib)
               <=> k \in DOMAIN dsoCalls[t] /\ Is(dsoCalls[t][k], fn, at, lib)
<1>1. IsFiniteSet(1 .. MaxCalls)
  BY DsoAssumption, FS_Interval
<1>2. IsFiniteSet(Places)
  BY <1>1, DsoAssumption, FS_Product DEF Places
<1>3. IsFiniteSet(CallsIn(fn, at, lib))
  BY <1>2, FS_Subset DEF CallsIn, Places
<1>4. Count(fn, at, lib) \in Nat
  BY <1>3, FS_CardinalityType DEF Count
<1>5. QED
  BY <1>3, <1>4 DEF CallsIn, Is

\* A new call that is none of those counted
LEMMA EntersCount ==
  ASSUME DsoTypes, NEW t \in DsoThreads, NEW made \in DsoCall, Enters(t, made), MayCall(t),
         NEW fn, NEW at, NEW lib, ~Is(made, fn, at, lib)
  PROVE  CallsIn(fn, at, lib)' = CallsIn(fn, at, lib)
<1>1. ASSUME NEW u \in DsoThreads, NEW k \in 1 .. MaxCalls
      PROVE  k \in DOMAIN dsoCalls'[u] /\ Is(dsoCalls'[u][k], fn, at, lib)
             <=> k \in DOMAIN dsoCalls[u] /\ Is(dsoCalls[u][k], fn, at, lib)
  <2>1. DOMAIN dsoCalls[u] = 1 .. Len(dsoCalls[u]) /\ DOMAIN dsoCalls'[u] = 1 .. Len(dsoCalls'[u])
    BY Entered DEF DsoTypes
  <2>2. CASE u # t
    BY <2>1, <2>2, Entered
  <2>3. CASE u = t
    <3>1. CASE k = Top(t) + 1
      BY <3>1, <2>1, <2>3, Entered DEF Top
    <3>2. CASE k # Top(t) + 1
      <4>1. k \in 1 .. Len(dsoCalls'[t]) <=> k \in 1 .. Top(t)
        BY <3>2, Entered, DsoAssumption
      <4>2. k \in 1 .. Top(t) => dsoCalls'[t][k] = dsoCalls[t][k]
        BY Entered
      <4>3. QED
        BY <4>1, <4>2, <2>1, <2>3 DEF Top
    <3>3. QED
      BY <3>1, <3>2
  <2>4. QED
    BY <2>2, <2>3
<1>2. QED
  BY <1>1 DEF CallsIn, Is

\* A call that returns
LEMMA LeavesCount ==
  ASSUME DsoTypes, NEW t \in DsoThreads, LeavesDso(t), dsoCalls[t] # <<>>,
         NEW fn, NEW at, NEW lib
  PROVE  Count(fn, at, lib)' =
           IF Is(Called(t), fn, at, lib) THEN Count(fn, at, lib) - 1 ELSE Count(fn, at, lib)
<1> DEFINE top == <<t, Top(t)>>
<1>0. Top(t) \in 1 .. MaxCalls /\ Len(dsoCalls'[t]) = Top(t) - 1
  BY Left, DsoAssumption DEF DsoTypes, Top
<1>1. ASSUME NEW u \in DsoThreads, NEW k \in 1 .. MaxCalls
      PROVE  k \in DOMAIN dsoCalls'[u] /\ Is(dsoCalls'[u][k], fn, at, lib)
             <=> /\ k \in DOMAIN dsoCalls[u] /\ Is(dsoCalls[u][k], fn, at, lib)
                 /\ ~(u = t /\ k = Top(t))
  <2>1. DOMAIN dsoCalls[u] = 1 .. Len(dsoCalls[u]) /\ DOMAIN dsoCalls'[u] = 1 .. Len(dsoCalls'[u])
    BY Left DEF DsoTypes
  <2>2. CASE u # t
    BY <2>1, <2>2, Left
  <2>3. CASE u = t
    <3>1. k \in 1 .. Len(dsoCalls'[t]) <=> k \in 1 .. Top(t) /\ k # Top(t)
      BY <1>0, DsoAssumption
    <3>2. k \in 1 .. Top(t) - 1 => dsoCalls'[t][k] = dsoCalls[t][k]
      BY Left
    <3>3. QED
      BY <3>1, <3>2, <2>1, <2>3, <1>0 DEF Top
  <2>4. QED
    BY <2>2, <2>3
<1>2. CallsIn(fn, at, lib)' = CallsIn(fn, at, lib) \ {top}
  <2>1. \A u \in DsoThreads, k \in 1 .. MaxCalls :
           <<u, k>> \in CallsIn(fn, at, lib)' <=> <<u, k>> \in CallsIn(fn, at, lib) \ {top}
    BY <1>1 DEF CallsIn, Is
  <2>2. CallsIn(fn, at, lib)' \subseteq Places /\ CallsIn(fn, at, lib) \subseteq Places
    BY DEF CallsIn, Places
  <2>3. QED
    BY <2>1, <2>2 DEF Places
<1>3. top \in CallsIn(fn, at, lib) <=> Is(Called(t), fn, at, lib)
  <2>1. DOMAIN dsoCalls[t] = 1 .. Top(t) /\ Top(t) \in 1 .. Top(t)
    BY Left DEF DsoTypes, Top
  <2>2. QED
    BY <2>1, <1>0, CallsFinite, Left
<1>4. IsFiniteSet(CallsIn(fn, at, lib))
  BY CallsFinite
<1>5. Cardinality(CallsIn(fn, at, lib) \ {top}) =
        IF top \in CallsIn(fn, at, lib) THEN Cardinality(CallsIn(fn, at, lib)) - 1
                                        ELSE Cardinality(CallsIn(fn, at, lib))
  BY <1>4, FS_RemoveElement
<1>6. QED
  BY <1>2, <1>3, <1>5 DEF Count

\* A call that goes on to what is counted
LEMMA ContinuesCount ==
  ASSUME DsoTypes, NEW t \in DsoThreads, NEW to \in {"open", "inside", "close", "clear"},
         Continues(t, to), dsoCalls[t] # <<>>,
         NEW fn, NEW at, NEW lib, ~Is(Called(t), fn, at, lib)
  PROVE  Count(fn, at, lib)' =
           IF fn = Called(t).fn /\ at = to /\ lib = Called(t).lib
           THEN Count(fn, at, lib) + 1 ELSE Count(fn, at, lib)
<1> DEFINE top == <<t, Top(t)>>
           made == [Called(t) EXCEPT !.at = to]
<1> HIDE DEF made
<1>0. Top(t) \in 1 .. MaxCalls /\ Len(dsoCalls'[t]) = Top(t) /\ dsoCalls'[t][Top(t)] = made
  <2>1. Top(t) \in Nat \ {0} /\ Top(t) <= MaxCalls
    BY Continued DEF DsoTypes, Top
  <2>2. Top(t) \in 1 .. MaxCalls
    BY <2>1, DsoAssumption
  <2>3. QED
    BY <2>2, Continued DEF made
<1>1. ASSUME NEW u \in DsoThreads, NEW k \in 1 .. MaxCalls
      PROVE  k \in DOMAIN dsoCalls'[u] /\ Is(dsoCalls'[u][k], fn, at, lib)
             <=> \/ k \in DOMAIN dsoCalls[u] /\ Is(dsoCalls[u][k], fn, at, lib)
                 \/ u = t /\ k = Top(t) /\ Is(made, fn, at, lib)
  <2>1. DOMAIN dsoCalls[u] = 1 .. Len(dsoCalls[u]) /\ DOMAIN dsoCalls'[u] = 1 .. Len(dsoCalls'[u])
    BY Continued DEF DsoTypes
  <2>2. CASE u # t
    BY <2>1, <2>2, Continued
  <2>3. CASE u = t /\ k = Top(t)
    <3>1. dsoCalls[t][k] = Called(t)
      BY <2>3, Continued
    <3>2. QED
      BY <3>1, <2>3, <2>1, <1>0 DEF Top
  <2>4. CASE u = t /\ k # Top(t)
    <3>1. k \in 1 .. Top(t) => k \in 1 .. Top(t) - 1
      BY <2>4, <1>0, DsoAssumption
    <3>2. k \in 1 .. Top(t) - 1 => dsoCalls'[t][k] = dsoCalls[t][k]
      BY Continued
    <3>3. QED
      BY <3>1, <3>2, <2>1, <2>4, <1>0 DEF Top
  <2>5. QED
    BY <2>2, <2>3, <2>4
<1>2. CallsIn(fn, at, lib)' =
        IF Is(made, fn, at, lib) THEN CallsIn(fn, at, lib) \cup {top} ELSE CallsIn(fn, at, lib)
  <2>1. \A u \in DsoThreads, k \in 1 .. MaxCalls :
           <<u, k>> \in CallsIn(fn, at, lib)' <=>
           \/ <<u, k>> \in CallsIn(fn, at, lib)
           \/ u = t /\ k = Top(t) /\ Is(made, fn, at, lib)
    BY <1>1 DEF CallsIn, Is
  <2>2. CallsIn(fn, at, lib)' \subseteq Places /\ CallsIn(fn, at, lib) \subseteq Places
        /\ top \in Places
    BY <1>0 DEF CallsIn, Places
  <2>3. CASE Is(made, fn, at, lib)
    <3>1. \A u \in DsoThreads, k \in 1 .. MaxCalls :
             <<u, k>> \in CallsIn(fn, at, lib)' <=> <<u, k>> \in CallsIn(fn, at, lib) \cup {top}
      BY <2>1, <2>3
    <3>2. QED
      BY <3>1, <2>2, <2>3 DEF Places
  <2>4. CASE ~Is(made, fn, at, lib)
    <3>1. \A u \in DsoThreads, k \in 1 .. MaxCalls :
             <<u, k>> \in CallsIn(fn, at, lib)' <=> <<u, k>> \in CallsIn(fn, at, lib)
      BY <2>1, <2>4
    <3>2. CallsIn(fn, at, lib)' = CallsIn(fn, at, lib)
      BY <3>1, <2>2 DEF Places
    <3>3. QED
      BY <3>2, <2>4
  <2>5. QED
    BY <2>3, <2>4
<1>3. top \notin CallsIn(fn, at, lib)
  <2>1. Called(t) = dsoCalls[t][Top(t)]
    BY Continued
  <2>2. QED
    BY <1>0, <2>1, CallsFinite
<1>4. Is(made, fn, at, lib) <=> fn = Called(t).fn /\ at = to /\ lib = Called(t).lib
  <2>1. Called(t) \in DsoCall
    BY Continued
  <2>2. made.fn = Called(t).fn /\ made.at = to /\ made.lib = Called(t).lib
    BY <2>1 DEF made, DsoCall
  <2>3. QED
    BY <2>2 DEF Is
<1>5. QED
  BY <1>2, <1>3, <1>4, CallsFinite, FS_AddElement DEF Count

-----------------------------------------------------------------------------
(* The slots.                                                              *)

LEMMA HoldingFinite ==
  ASSUME NEW lib
  PROVE  IsFiniteSet(SlotsWith(lib)) /\ Cardinality(SlotsWith(lib)) \in Nat
<1>1. IsFiniteSet(Ids)
  BY DsoAssumption, FS_Interval DEF Ids
<1>2. IsFiniteSet(SlotsWith(lib))
  BY <1>1, FS_Subset DEF SlotsWith
<1>3. QED
  BY <1>2, FS_CardinalityType

LEMMA SlotSet ==
  ASSUME DsoTypes, NEW id \in Ids, NEW new,
         \A k \in Ids : dso_handle'[k] = IF k = id THEN new ELSE dso_handle[k], NEW lib
  PROVE  Cardinality(SlotsWith(lib))' =
           Cardinality(SlotsWith(lib)) - (IF dso_handle[id] = lib THEN 1 ELSE 0)
                                     + (IF new = lib THEN 1 ELSE 0)
<1> DEFINE Rest == SlotsWith(lib) \ {id}
<1>2. SlotsWith(lib)' = IF new = lib THEN Rest \cup {id} ELSE Rest
  BY DEF SlotsWith
<1>3. id \in SlotsWith(lib) <=> dso_handle[id] = lib
  BY DEF SlotsWith
<1>4. /\ IsFiniteSet(Rest)
      /\ Cardinality(Rest) =
           Cardinality(SlotsWith(lib)) - (IF dso_handle[id] = lib THEN 1 ELSE 0)
  BY <1>3, HoldingFinite, FS_RemoveElement
<1>5. id \notin Rest
  OBVIOUS
<1> HIDE DEF Rest
<1>6. Cardinality(Rest \cup {id}) = Cardinality(Rest) + 1
  BY <1>4, <1>5, FS_AddElement
<1>7. Cardinality(Rest) \in Nat
  BY <1>4, FS_CardinalityType
<1>8. CASE new = lib
  BY <1>2, <1>4, <1>6, <1>7, <1>8, HoldingFinite
<1>9. CASE new # lib
  BY <1>2, <1>4, <1>7, <1>9, HoldingFinite
<1>10. QED
  BY <1>8, <1>9

-----------------------------------------------------------------------------
(* The invariant.                                                          *)

Balanced(lib) ==
    opened[lib] = Cardinality(SlotsWith(lib)) + Count("load", "inside", lib)
                                            - Count("unload", "clear", lib)

LEMMA KeptBalanced == HandlesKept <=> clash \/ \A lib \in Libs : Balanced(lib)
BY DEF HandlesKept, Balanced, Count, SlotsWith

LEMMA KeptBalancedAfter == HandlesKept' <=> clash' \/ \A lib \in Libs : Balanced(lib)'
BY DEF HandlesKept, Balanced, Count, SlotsWith

\* What no call that unloads sees: its own slot and library stay.
SameUnloads ==
    \A u \in DsoThreads, k \in Nat :
        Unloads(u, k)' => /\ Unloads(u, k)
                          /\ dsoCalls'[u][k].id = dsoCalls[u][k].id
                          /\ dsoCalls'[u][k].lib = dsoCalls[u][k].lib

LEMMA LeavesUnloads ==
  ASSUME DsoTypes, NEW t \in DsoThreads, LeavesDso(t), dsoCalls[t] # <<>>
  PROVE  SameUnloads /\ \A k \in Nat : Unloads(t, k)' => k # Top(t)
<1>1. /\ \A u \in DsoThreads : u # t => dsoCalls'[u] = dsoCalls[u]
      /\ Len(dsoCalls'[t]) = Top(t) - 1 /\ Top(t) \in Nat \ {0}
      /\ \A k \in 1 .. Top(t) - 1 : dsoCalls'[t][k] = dsoCalls[t][k]
  BY Left
<1>2. \A k \in Nat : k \in 1 .. Top(t) - 1 => k \in 1 .. Top(t) /\ k # Top(t)
  BY <1>1
<1>3. QED
  BY <1>1, <1>2 DEF SameUnloads, Unloads, Top

LEMMA ContinuesUnloads ==
  ASSUME DsoTypes, NEW t \in DsoThreads, NEW at \in {"open", "inside", "close", "clear"},
         Continues(t, at), dsoCalls[t] # <<>>
  PROVE  SameUnloads
<1> DEFINE made == [Called(t) EXCEPT !.at = at]
<1>1. /\ \A u \in DsoThreads : u # t => dsoCalls'[u] = dsoCalls[u]
      /\ Len(dsoCalls'[t]) = Top(t) /\ Top(t) \in Nat \ {0}
      /\ \A k \in 1 .. Top(t) - 1 : dsoCalls'[t][k] = dsoCalls[t][k]
      /\ dsoCalls'[t][Top(t)] = made
      /\ Called(t) \in DsoCall /\ Called(t) = dsoCalls[t][Top(t)]
  BY Continued
<1>2. made.fn = Called(t).fn /\ made.id = Called(t).id /\ made.lib = Called(t).lib
  BY <1>1 DEF DsoCall
<1> HIDE DEF made
<1>3. \A k \in Nat : k \in 1 .. Top(t) => k \in 1 .. Top(t) - 1 \/ k = Top(t)
  BY <1>1
<1>4. QED
  BY <1>1, <1>2, <1>3 DEF SameUnloads, Unloads, Top

LEMMA EntersUnloads ==
  ASSUME DsoTypes, NEW t \in DsoThreads, NEW made \in DsoCall, Enters(t, made), MayCall(t)
  PROVE  \A u \in DsoThreads, k \in Nat :
            Unloads(u, k)' =>
              \/ u = t /\ k = Top(t) + 1 /\ made.fn = "unload"
              \/ Unloads(u, k) /\ dsoCalls'[u][k] = dsoCalls[u][k]
<1>1. /\ \A u \in DsoThreads : u # t => dsoCalls'[u] = dsoCalls[u]
      /\ Len(dsoCalls'[t]) = Top(t) + 1 /\ Top(t) \in Nat
      /\ \A k \in 1 .. Top(t) : dsoCalls'[t][k] = dsoCalls[t][k]
      /\ dsoCalls'[t][Top(t) + 1] = made
  BY Entered
<1>2. \A k \in Nat : k \in 1 .. Top(t) + 1 => k \in 1 .. Top(t) \/ k = Top(t) + 1
  BY <1>1
<1>3. QED
  BY <1>1, <1>2 DEF Unloads, Top

\* Neither the slots nor the calls that unload change.
LEMMA UnloadsUntouched ==
  ASSUME UnloadsKept, SameUnloads, UNCHANGED dso_handle
  PROVE  UnloadsKept'
BY DEF UnloadsKept, SameUnloads

LEMMA InCall ==
  ASSUME DsoTypes, NEW t \in DsoThreads, NEW fn, NEW at, In(t, fn, at)
  PROVE  /\ dsoCalls[t] # <<>> /\ Called(t).fn = fn /\ Called(t).at = at
         /\ Called(t).id \in Ids /\ Called(t).lib \in Libs
         /\ Called(t) \in DsoCall /\ Called(t) = dsoCalls[t][Top(t)]
         /\ Top(t) \in Nat /\ Top(t) \in 1 .. Top(t)
<1>1. dsoCalls[t] \in Seq(DsoCall) /\ dsoCalls[t] # <<>>
  BY DEF DsoTypes, In
<1>2. Len(dsoCalls[t]) \in Nat \ {0} /\ dsoCalls[t][Len(dsoCalls[t])] \in DsoCall
  BY <1>1
<1>3. Called(t) \in DsoCall /\ Called(t).id \in Ids /\ Called(t).lib \in Libs
  BY <1>2 DEF Called, Last, DsoCall
<1>4. QED
  BY <1>1, <1>2, <1>3 DEF In, Called, Last, Top

-----------------------------------------------------------------------------
(* The steps.                                                              *)

LEMMA LoadStartsStep ==
  ASSUME DsoInv, NEW t \in DsoThreads, NEW lib \in Libs, LoadStarts(t, lib)
  PROVE  DsoInv'
<1>1. PICK id \in Ids : Enters(t, [fn |-> "load", id |-> id, lib |-> lib, at |-> "open"])
  BY DEF LoadStarts
<1> DEFINE made == [fn |-> "load", id |-> id, lib |-> lib, at |-> "open"]
<1>2. made \in DsoCall /\ made.fn = "load" /\ made.at = "open"
  BY DEF DsoCall
<1> HIDE DEF made
<1>3. DsoTypes /\ MayCall(t) /\ Enters(t, made) /\ UNCHANGED <<dso_handle, opened, clash>>
  BY <1>1 DEF DsoInv, LoadStarts, made
<1>4. DsoTypes'
  BY <1>2, <1>3, Entered DEF DsoTypes
<1>5. UnloadsKept => UnloadsKept'
  <2>1. SameUnloads
    BY <1>2, <1>3, EntersUnloads DEF SameUnloads
  <2>2. QED
    BY <2>1, <1>3, UnloadsUntouched
<1>6. \A l \in Libs : Balanced(l) => Balanced(l)'
  <2> TAKE l \in Libs
  <2>1. CallsIn("load", "inside", l)' = CallsIn("load", "inside", l)
    BY <1>2, <1>3, EntersCount DEF Is
  <2>2. CallsIn("unload", "clear", l)' = CallsIn("unload", "clear", l)
    BY <1>2, <1>3, EntersCount DEF Is
  <2>3. QED
    BY <2>1, <2>2, <1>3 DEF Balanced, Count, SlotsWith
<1>7. QED
  BY <1>3, <1>4, <1>5, <1>6, KeptBalanced, KeptBalancedAfter DEF DsoInv

\* A call returns with the slots as they were.
LEMMA ReturnStep ==
  ASSUME DsoInv, NEW t \in DsoThreads, LeavesDso(t), dsoCalls[t] # <<>>,
         UNCHANGED <<dso_handle, clash>>, opened' \in [Libs -> Int],
         \A l \in Libs : Balanced(l) => Balanced(l)'
  PROVE  DsoInv'
<1>1. DsoTypes /\ DsoTypes'
  BY Left DEF DsoInv, DsoTypes
<1>2. UnloadsKept => UnloadsKept'
  BY <1>1, LeavesUnloads, UnloadsUntouched
<1>3. QED
  BY <1>1, <1>2, KeptBalanced, KeptBalancedAfter DEF DsoInv

\* A call goes on with the slots as they were.
LEMMA ContinueStep ==
  ASSUME DsoInv, NEW t \in DsoThreads, NEW at \in {"open", "inside", "close", "clear"},
         Continues(t, at), dsoCalls[t] # <<>>,
         UNCHANGED <<dso_handle, clash>>, opened' \in [Libs -> Int],
         \A l \in Libs : Balanced(l) => Balanced(l)'
  PROVE  DsoInv'
<1>1. DsoTypes /\ DsoTypes'
  BY Continued DEF DsoInv, DsoTypes
<1>2. UnloadsKept => UnloadsKept'
  BY <1>1, ContinuesUnloads, UnloadsUntouched
<1>3. QED
  BY <1>1, <1>2, KeptBalanced, KeptBalancedAfter DEF DsoInv

LEMMA DlopenStep ==
  ASSUME DsoInv, NEW t \in DsoThreads, Dlopen(t)
  PROVE  DsoInv'
<1>1. DsoTypes /\ In(t, "load", "open") /\ UNCHANGED <<dso_handle, clash>>
  BY DEF DsoInv, Dlopen
<1>2. /\ dsoCalls[t] # <<>> /\ Called(t).fn = "load" /\ Called(t).at = "open"
      /\ Called(t).lib \in Libs /\ Called(t) \in DsoCall
  BY <1>1, InCall
<1>3. \A l : ~Is(Called(t), "load", "inside", l) /\ ~Is(Called(t), "unload", "clear", l)
  BY <1>2 DEF Is
<1>4. opened \in [Libs -> Int]
  BY <1>1 DEF DsoTypes
<1>5. CASE LeavesDso(t) /\ UNCHANGED opened
  <2>1. ASSUME NEW l \in Libs, Balanced(l)
        PROVE  Balanced(l)'
    <3>1. Count("load", "inside", l)' = Count("load", "inside", l)
      BY <1>1, <1>2, <1>3, <1>5, LeavesCount
    <3>2. Count("unload", "clear", l)' = Count("unload", "clear", l)
      BY <1>1, <1>2, <1>3, <1>5, LeavesCount
    <3>3. QED
      BY <2>1, <3>1, <3>2, <1>1, <1>5 DEF Balanced, SlotsWith
  <2>2. QED
    BY <2>1, <1>1, <1>2, <1>4, <1>5, ReturnStep
<1>6. CASE /\ Continues(t, "inside")
           /\ opened' = [opened EXCEPT ![Called(t).lib] = @ + 1]
  <2>2. ASSUME NEW l \in Libs, Balanced(l)
        PROVE  Balanced(l)'
    <3>1. Count("load", "inside", l)' =
            IF l = Called(t).lib THEN Count("load", "inside", l) + 1
                                 ELSE Count("load", "inside", l)
      BY <1>1, <1>2, <1>3, <1>6, ContinuesCount
    <3>2. Count("unload", "clear", l)' = Count("unload", "clear", l)
      BY <1>1, <1>2, <1>3, <1>6, ContinuesCount
    <3>3. opened'[l] = IF l = Called(t).lib THEN opened[l] + 1 ELSE opened[l]
      BY <1>4, <1>6
    <3>4. /\ Cardinality(SlotsWith(l)) \in Nat /\ opened[l] \in Int
          /\ Count("load", "inside", l) \in Nat /\ Count("unload", "clear", l) \in Nat
      BY <1>4, HoldingFinite, CallsFinite
    <3>5. Cardinality(SlotsWith(l))' = Cardinality(SlotsWith(l))
      BY <1>1 DEF SlotsWith
    <3>6. QED
      BY <2>2, <3>1, <3>2, <3>3, <3>4, <3>5 DEF Balanced
  <2>3. opened' \in [Libs -> Int]
    BY <1>2, <1>4, <1>6
  <2>4. QED
    BY <2>2, <2>3, <1>1, <1>2, <1>6, ContinueStep
<1>7. QED
  BY <1>5, <1>6 DEF Dlopen

LEMMA LoadFailsStep ==
  ASSUME DsoInv, NEW t \in DsoThreads, LoadFails(t)
  PROVE  DsoInv'
<1>1. /\ DsoTypes /\ In(t, "load", "inside") /\ UNCHANGED <<dso_handle, clash>>
      /\ LeavesDso(t) /\ opened' = [opened EXCEPT ![Called(t).lib] = @ - 1]
  BY DEF DsoInv, LoadFails
<1>2. /\ dsoCalls[t] # <<>> /\ Called(t).fn = "load" /\ Called(t).at = "inside"
      /\ Called(t).lib \in Libs
  BY <1>1, InCall
<1>3. opened \in [Libs -> Int] /\ opened' \in [Libs -> Int]
  BY <1>1, <1>2 DEF DsoTypes
<1>4. ASSUME NEW l \in Libs, Balanced(l)
      PROVE  Balanced(l)'
  <2>1. Count("load", "inside", l)' =
          IF l = Called(t).lib THEN Count("load", "inside", l) - 1
                               ELSE Count("load", "inside", l)
    BY <1>1, <1>2, LeavesCount DEF Is
  <2>2. Count("unload", "clear", l)' = Count("unload", "clear", l)
    BY <1>1, <1>2, LeavesCount DEF Is
  <2>3. opened'[l] = IF l = Called(t).lib THEN opened[l] - 1 ELSE opened[l]
    BY <1>1, <1>3
  <2>4. /\ Cardinality(SlotsWith(l)) \in Nat /\ opened[l] \in Int
        /\ Count("load", "inside", l) \in Nat /\ Count("unload", "clear", l) \in Nat
    BY <1>3, HoldingFinite, CallsFinite
  <2>5. Cardinality(SlotsWith(l))' = Cardinality(SlotsWith(l))
    BY <1>1 DEF SlotsWith
  <2>6. QED
    BY <1>4, <2>1, <2>2, <2>3, <2>4, <2>5 DEF Balanced
<1>5. QED
  BY <1>1, <1>2, <1>3, <1>4, ReturnStep

\* In a free slot the library is put where no call that unloads looks.
LEMMA LoadReturnsStep ==
  ASSUME DsoInv, NEW t \in DsoThreads, LoadReturns(t)
  PROVE  DsoInv'
<1>0. DsoTypes /\ In(t, "load", "inside")
  BY DEF DsoInv, LoadReturns
<1> PICK id \in Ids, lib \in Libs : id = Called(t).id /\ lib = Called(t).lib
  BY <1>0, InCall
<1>1. /\ DsoTypes /\ In(t, "load", "inside") /\ UNCHANGED opened
      /\ LeavesDso(t) /\ dso_handle' = [dso_handle EXCEPT ![id] = lib]
      /\ clash' = (clash \/ dso_handle[id] # NoHandle)
  BY DEF DsoInv, LoadReturns
<1>2. /\ dsoCalls[t] # <<>> /\ Called(t).fn = "load" /\ Called(t).at = "inside"
      /\ Called(t).lib = lib
  BY <1>1, InCall
<1>3. DsoTypes'
  <2>1. dso_handle' \in [Ids -> Libs \cup {NoHandle}]
    BY <1>1, <1>2 DEF DsoTypes
  <2>2. clash' \in BOOLEAN
    BY <1>1 DEF DsoTypes
  <2>3. QED
    BY <1>1, <1>2, <2>1, <2>2, Left DEF DsoTypes
<1>4. CASE clash'
  BY <1>3, <1>4, KeptBalancedAfter DEF DsoInv
<1>5. CASE ~clash'
  <2>1. ~clash /\ dso_handle[id] = NoHandle
    BY <1>1, <1>5 DEF DsoTypes
  <2>2. UnloadsKept /\ \A l \in Libs : Balanced(l)
    BY <2>1, KeptBalanced DEF DsoInv
  <2>3. UnloadsKept'
    <3>1. SameUnloads
      BY <1>1, <1>2, LeavesUnloads
    <3>2. ASSUME NEW u \in DsoThreads, NEW k \in Nat, Unloads(u, k)
          PROVE  dsoCalls[u][k].id \in Ids /\ dsoCalls[u][k].lib \in Libs
      <4>1. dsoCalls[u][k] \in DsoCall
        BY <1>1, <3>2 DEF DsoTypes, Unloads
      <4>2. QED
        BY <4>1 DEF DsoCall
    <3>3. ASSUME NEW u \in DsoThreads, NEW k \in Nat, Unloads(u, k)
          PROVE  dso_handle'[dsoCalls[u][k].id] = dsoCalls[u][k].lib
      <4>1. dso_handle[dsoCalls[u][k].id] = dsoCalls[u][k].lib
        BY <3>3, <2>2 DEF UnloadsKept
      <4>2. dsoCalls[u][k].id # id
        BY <4>1, <2>1, <3>2, <3>3, DsoAssumption
      <4>3. QED
        BY <4>1, <4>2, <1>1, <3>2, <3>3 DEF DsoTypes
    <3>4. QED
      BY <3>1, <3>3, <2>2 DEF UnloadsKept, SameUnloads
  <2>4. ASSUME NEW l \in Libs
        PROVE  Balanced(l)'
    <3>1. Count("load", "inside", l)' =
            IF l = lib THEN Count("load", "inside", l) - 1 ELSE Count("load", "inside", l)
      BY <1>1, <1>2, LeavesCount DEF Is
    <3>2. Count("unload", "clear", l)' = Count("unload", "clear", l)
      BY <1>1, <1>2, LeavesCount DEF Is
    <3>3. Cardinality(SlotsWith(l))' =
            IF l = lib THEN Cardinality(SlotsWith(l)) + 1 ELSE Cardinality(SlotsWith(l))
      <4>1. dso_handle[id] # l
        BY <2>1, DsoAssumption
      <4>2. Cardinality(SlotsWith(l)) \in Nat
        BY HoldingFinite
      <4>3. Cardinality(SlotsWith(l))' =
              Cardinality(SlotsWith(l)) - (IF dso_handle[id] = l THEN 1 ELSE 0)
                                      + (IF lib = l THEN 1 ELSE 0)
        <5>1. \A k \in Ids : dso_handle'[k] = IF k = id THEN lib ELSE dso_handle[k]
          BY <1>1 DEF DsoTypes
        <5>2. QED
          BY <5>1, <1>1, SlotSet
      <4>4. QED
        BY <4>1, <4>2, <4>3
    <3>4. /\ Cardinality(SlotsWith(l)) \in Nat /\ opened[l] \in Int
          /\ Count("load", "inside", l) \in Nat /\ Count("unload", "clear", l) \in Nat
      BY <1>1, HoldingFinite, CallsFinite DEF DsoTypes
    <3>5. QED
      BY <2>2, <3>1, <3>2, <3>3, <3>4, <1>1 DEF Balanced
  <2>5. QED
    BY <1>3, <2>3, <2>4, KeptBalancedAfter DEF DsoInv
<1>6. QED
  BY <1>4, <1>5

\* Unless the slot is being unloaded already, the new call is the only one of
\* its slot and has read what the slot holds.
LEMMA UnloadStartsStep ==
  ASSUME DsoInv, NEW t \in DsoThreads, NEW id \in Ids, UnloadStarts(t, id)
  PROVE  DsoInv'
<1>1. PICK at \in {"inside", "close"} :
        Enters(t, [fn |-> "unload", id |-> id, lib |-> dso_handle[id], at |-> at])
  BY DEF UnloadStarts
<1>2. DsoTypes /\ MayCall(t) /\ UNCHANGED <<dso_handle, opened>> /\ dso_handle[id] \in Libs
  BY DEF DsoInv, UnloadStarts, DsoTypes
<1>3. PICK made \in DsoCall :
         /\ made = [fn |-> "unload", id |-> id, lib |-> dso_handle[id], at |-> at]
         /\ made.fn = "unload" /\ made.id = id /\ made.lib = dso_handle[id] /\ made.at = at
  <2>1. [fn |-> "unload", id |-> id, lib |-> dso_handle[id], at |-> at] \in DsoCall
    BY <1>2 DEF DsoCall
  <2>2. QED
    BY <2>1
<1>4. Enters(t, made)
  BY <1>1, <1>3
<1>5. clash' = (clash \/ \E u \in DsoThreads : \E k \in DOMAIN dsoCalls[u] :
                            dsoCalls[u][k].fn = "unload" /\ dsoCalls[u][k].id = id)
  BY DEF UnloadStarts
<1>6. DsoTypes'
  <2>1. clash' \in BOOLEAN
    BY <1>2, <1>5 DEF DsoTypes
  <2>2. QED
    BY <2>1, <1>2, <1>4, Entered DEF DsoTypes
<1>7. CASE clash'
  BY <1>6, <1>7, KeptBalancedAfter DEF DsoInv
<1>8. CASE ~clash'
  <2>1. ~clash /\ UnloadsKept /\ \A l \in Libs : Balanced(l)
    BY <1>2, <1>5, <1>8, KeptBalanced DEF DsoInv, DsoTypes
  <2>2. ASSUME NEW u \in DsoThreads, NEW k \in Nat, Unloads(u, k)
        PROVE  dsoCalls[u][k].id # id
    <3>1. k \in DOMAIN dsoCalls[u] /\ dsoCalls[u][k].fn = "unload"
      BY <1>2, <2>2 DEF Unloads, DsoTypes
    <3>2. QED
      BY <1>5, <1>8, <3>1
  <2>3. \A u \in DsoThreads, k \in Nat :
           Unloads(u, k)' =>
             \/ u = t /\ k = Top(t) + 1 /\ dsoCalls'[u][k] = made
             \/ Unloads(u, k) /\ dsoCalls'[u][k] = dsoCalls[u][k]
    BY <1>2, <1>4, EntersUnloads, Entered
  <2>4. UnloadsKept'
    <3>1. ASSUME NEW u \in DsoThreads, NEW k \in Nat, Unloads(u, k)'
          PROVE  dso_handle'[dsoCalls'[u][k].id] = dsoCalls'[u][k].lib
      BY <1>2, <1>3, <2>1, <2>3, <3>1 DEF UnloadsKept
    <3>2. ASSUME NEW u \in DsoThreads, NEW v \in DsoThreads, NEW j \in Nat, NEW k \in Nat,
                 Unloads(u, j)', Unloads(v, k)', dsoCalls'[u][j].id = dsoCalls'[v][k].id
          PROVE  u = v /\ j = k
      <4>1. \/ u = t /\ j = Top(t) + 1 /\ dsoCalls'[u][j].id = id
            \/ /\ Unloads(u, j) /\ dsoCalls'[u][j].id = dsoCalls[u][j].id
               /\ dsoCalls[u][j].id # id
        BY <1>3, <2>2, <2>3, <3>2
      <4>2. \/ v = t /\ k = Top(t) + 1 /\ dsoCalls'[v][k].id = id
            \/ /\ Unloads(v, k) /\ dsoCalls'[v][k].id = dsoCalls[v][k].id
               /\ dsoCalls[v][k].id # id
        BY <1>3, <2>2, <2>3, <3>2
      <4>3. QED
        BY <4>1, <4>2, <3>2, <2>1 DEF UnloadsKept
    <3>3. QED
      BY <3>1, <3>2 DEF UnloadsKept
  <2>5. ASSUME NEW l \in Libs
        PROVE  Balanced(l)'
    <3>1. CallsIn("load", "inside", l)' = CallsIn("load", "inside", l)
      BY <1>2, <1>3, <1>4, EntersCount DEF Is
    <3>2. CallsIn("unload", "clear", l)' = CallsIn("unload", "clear", l)
      BY <1>2, <1>3, <1>4, EntersCount DEF Is
    <3>3. QED
      BY <2>1, <3>1, <3>2, <1>2 DEF Balanced, Count, SlotsWith
  <2>6. QED
    BY <1>6, <2>4, <2>5, KeptBalancedAfter DEF DsoInv
<1>9. QED
  BY <1>7, <1>8

LEMMA UnloadCalledStep ==
  ASSUME DsoInv, NEW t \in DsoThreads, UnloadCalled(t)
  PROVE  DsoInv'
<1>1. DsoTypes /\ In(t, "unload", "inside") /\ UNCHANGED <<dso_handle, opened, clash>>
  BY DEF DsoInv, UnloadCalled
<1>2. dsoCalls[t] # <<>> /\ Called(t).fn = "unload" /\ Called(t).at = "inside"
  BY <1>1, InCall
<1>3. \A l : ~Is(Called(t), "load", "inside", l) /\ ~Is(Called(t), "unload", "clear", l)
  BY <1>2 DEF Is
<1>4. opened' \in [Libs -> Int]
  BY <1>1 DEF DsoTypes
<1>5. CASE LeavesDso(t)
  <2>1. ASSUME NEW l \in Libs, Balanced(l)
        PROVE  Balanced(l)'
    <3>1. Count("load", "inside", l)' = Count("load", "inside", l)
      BY <1>1, <1>2, <1>3, <1>5, LeavesCount
    <3>2. Count("unload", "clear", l)' = Count("unload", "clear", l)
      BY <1>1, <1>2, <1>3, <1>5, LeavesCount
    <3>3. QED
      BY <2>1, <3>1, <3>2, <1>1 DEF Balanced, SlotsWith
  <2>2. QED
    BY <2>1, <1>1, <1>2, <1>4, <1>5, ReturnStep
<1>6. CASE Continues(t, "close")
  <2>1. ASSUME NEW l \in Libs, Balanced(l)
        PROVE  Balanced(l)'
    <3>1. Count("load", "inside", l)' = Count("load", "inside", l)
      BY <1>1, <1>2, <1>3, <1>6, ContinuesCount
    <3>2. Count("unload", "clear", l)' = Count("unload", "clear", l)
      BY <1>1, <1>2, <1>3, <1>6, ContinuesCount
    <3>3. QED
      BY <2>1, <3>1, <3>2, <1>1 DEF Balanced, SlotsWith
  <2>2. QED
    BY <2>1, <1>1, <1>2, <1>4, <1>6, ContinueStep
<1>7. QED
  BY <1>5, <1>6 DEF UnloadCalled

LEMMA DlcloseStep ==
  ASSUME DsoInv, NEW t \in DsoThreads, Dlclose(t)
  PROVE  DsoInv'
<1>1. /\ DsoTypes /\ In(t, "unload", "close") /\ UNCHANGED <<dso_handle, clash>>
      /\ Continues(t, "clear") /\ opened' = [opened EXCEPT ![Called(t).lib] = @ - 1]
  BY DEF DsoInv, Dlclose
<1>2. /\ dsoCalls[t] # <<>> /\ Called(t).fn = "unload" /\ Called(t).at = "close"
      /\ Called(t).lib \in Libs
  BY <1>1, InCall
<1>3. \A l : ~Is(Called(t), "load", "inside", l) /\ ~Is(Called(t), "unload", "clear", l)
  BY <1>2 DEF Is
<1>4. opened \in [Libs -> Int] /\ opened' \in [Libs -> Int]
  BY <1>1, <1>2 DEF DsoTypes
<1>5. ASSUME NEW l \in Libs, Balanced(l)
      PROVE  Balanced(l)'
  <2>1. Count("load", "inside", l)' = Count("load", "inside", l)
    BY <1>1, <1>2, <1>3, ContinuesCount
  <2>2. Count("unload", "clear", l)' =
          IF l = Called(t).lib THEN Count("unload", "clear", l) + 1
                               ELSE Count("unload", "clear", l)
    BY <1>1, <1>2, <1>3, ContinuesCount
  <2>3. opened'[l] = IF l = Called(t).lib THEN opened[l] - 1 ELSE opened[l]
    BY <1>1, <1>4
  <2>4. /\ Cardinality(SlotsWith(l)) \in Nat /\ opened[l] \in Int
        /\ Count("load", "inside", l) \in Nat /\ Count("unload", "clear", l) \in Nat
    BY <1>4, HoldingFinite, CallsFinite
  <2>5. Cardinality(SlotsWith(l))' = Cardinality(SlotsWith(l))
    BY <1>1 DEF SlotsWith
  <2>6. QED
    BY <1>5, <2>1, <2>2, <2>3, <2>4, <2>5 DEF Balanced
<1>6. QED
  BY <1>1, <1>2, <1>4, <1>5, ContinueStep

\* No other call unloads the slot that is emptied.
LEMMA UnloadReturnsStep ==
  ASSUME DsoInv, NEW t \in DsoThreads, UnloadReturns(t)
  PROVE  DsoInv'
<1>0. DsoTypes /\ In(t, "unload", "clear")
  BY DEF DsoInv, UnloadReturns
<1> PICK id \in Ids, lib \in Libs : id = Called(t).id /\ lib = Called(t).lib
  BY <1>0, InCall
<1>1. /\ UNCHANGED <<opened, clash>> /\ LeavesDso(t)
      /\ dso_handle' = [dso_handle EXCEPT ![id] = NoHandle]
  BY DEF UnloadReturns
<1>2. /\ dsoCalls[t] # <<>> /\ Called(t).fn = "unload" /\ Called(t).at = "clear"
      /\ Called(t).lib = lib /\ Called(t) = dsoCalls[t][Top(t)]
      /\ Top(t) \in Nat /\ Top(t) \in 1 .. Top(t)
  BY <1>0, InCall
<1>3. DsoTypes'
  <2>1. dso_handle' \in [Ids -> Libs \cup {NoHandle}]
    BY <1>0, <1>1 DEF DsoTypes
  <2>2. QED
    BY <1>0, <1>1, <1>2, <2>1, Left DEF DsoTypes
<1>4. CASE clash
  BY <1>1, <1>3, <1>4, KeptBalancedAfter DEF DsoInv
<1>5. CASE ~clash
  <2>1. UnloadsKept /\ \A l \in Libs : Balanced(l)
    BY <1>5, KeptBalanced DEF DsoInv
  <2>2. Unloads(t, Top(t)) /\ dsoCalls[t][Top(t)].id = id /\ dso_handle[id] = lib
    <3>1. Unloads(t, Top(t)) /\ dsoCalls[t][Top(t)].id = id
      BY <1>2 DEF Unloads, Top
    <3>2. QED
      BY <1>2, <2>1, <3>1 DEF UnloadsKept
  <2>3. SameUnloads /\ \A k \in Nat : Unloads(t, k)' => k # Top(t)
    BY <1>0, <1>1, <1>2, LeavesUnloads
  <2>4. UnloadsKept'
    <3>1. ASSUME NEW u \in DsoThreads, NEW k \in Nat, Unloads(u, k)'
          PROVE  dso_handle'[dsoCalls'[u][k].id] = dsoCalls'[u][k].lib
      <4>1. /\ Unloads(u, k)
            /\ dsoCalls'[u][k].id = dsoCalls[u][k].id
            /\ dsoCalls'[u][k].lib = dsoCalls[u][k].lib
        BY <2>3, <3>1 DEF SameUnloads
      <4>2. dsoCalls[u][k].id # id
        BY <1>2, <2>1, <2>2, <2>3, <3>1, <4>1 DEF UnloadsKept
      <4>3. dsoCalls[u][k].id \in Ids
        <5>1. dsoCalls[u][k] \in DsoCall
          BY <1>0, <4>1 DEF DsoTypes, Unloads
        <5>2. QED
          BY <5>1 DEF DsoCall
      <4>4. dso_handle[dsoCalls[u][k].id] = dsoCalls[u][k].lib
        BY <2>1, <4>1 DEF UnloadsKept
      <4>5. QED
        BY <1>0, <1>1, <4>1, <4>2, <4>3, <4>4 DEF DsoTypes
    <3>2. QED
      BY <2>1, <2>3, <3>1 DEF UnloadsKept, SameUnloads
  <2>5. ASSUME NEW l \in Libs
        PROVE  Balanced(l)'
    <3>1. Count("load", "inside", l)' = Count("load", "inside", l)
      BY <1>0, <1>1, <1>2, LeavesCount DEF Is
    <3>2. Count("unload", "clear", l)' =
            IF l = lib THEN Count("unload", "clear", l) - 1 ELSE Count("unload", "clear", l)
      BY <1>0, <1>1, <1>2, LeavesCount DEF Is
    <3>3. Cardinality(SlotsWith(l))' =
            IF l = lib THEN Cardinality(SlotsWith(l)) - 1 ELSE Cardinality(SlotsWith(l))
      <4>1. NoHandle # l
        BY DsoAssumption
      <4>2. Cardinality(SlotsWith(l)) \in Nat
        BY HoldingFinite
      <4>3. \A k \in Ids : dso_handle'[k] = IF k = id THEN NoHandle ELSE dso_handle[k]
        BY <1>0, <1>1 DEF DsoTypes
      <4>4. Cardinality(SlotsWith(l))' =
              Cardinality(SlotsWith(l)) - (IF dso_handle[id] = l THEN 1 ELSE 0)
                                      + (IF NoHandle = l THEN 1 ELSE 0)
        BY <4>3, <1>0, SlotSet
      <4>5. QED
        BY <4>1, <4>2, <4>4, <2>2
    <3>4. /\ Cardinality(SlotsWith(l)) \in Nat /\ opened[l] \in Int
          /\ Count("load", "inside", l) \in Nat /\ Count("unload", "clear", l) \in Nat
      BY <1>0, HoldingFinite, CallsFinite DEF DsoTypes
    <3>5. QED
      BY <2>1, <3>1, <3>2, <3>3, <3>4, <1>1 DEF Balanced
  <2>6. QED
    BY <1>3, <2>4, <2>5, KeptBalancedAfter DEF DsoInv
<1>6. QED
  BY <1>4, <1>5

-----------------------------------------------------------------------------
(* The theorem.                                                            *)

LEMMA DsoStarts == DsoInit => DsoInv
<1> SUFFICES ASSUME DsoInit PROVE DsoInv
  OBVIOUS
<1>1. DsoTypes
  <2>1. dso_handle \in [Ids -> Libs \cup {NoHandle}] /\ opened \in [Libs -> Int]
    BY DEF DsoInit
  <2>2. dsoCalls \in [DsoThreads -> Seq(DsoCall)]
    BY DEF DsoInit
  <2>3. \A t \in DsoThreads : Len(dsoCalls[t]) <= MaxCalls
    BY DsoAssumption DEF DsoInit
  <2>4. QED
    BY <2>1, <2>2, <2>3 DEF DsoInit, DsoTypes
<1>2. ASSUME NEW l \in Libs
      PROVE  Balanced(l)
  <2>1. SlotsWith(l) = {}
    BY DsoAssumption DEF DsoInit, SlotsWith
  <2>2. CallsIn("load", "inside", l) = {} /\ CallsIn("unload", "clear", l) = {}
    BY DEF DsoInit, CallsIn
  <2>3. opened[l] = 0
    BY DEF DsoInit
  <2>4. QED
    BY <2>1, <2>2, <2>3, FS_EmptySet DEF Balanced, Count
<1>3. UnloadsKept
  BY DEF DsoInit, UnloadsKept, Unloads
<1>4. QED
  BY <1>1, <1>2, <1>3, KeptBalanced DEF DsoInv

LEMMA DsoStutters ==
  ASSUME DsoInv, UNCHANGED dsoVars
  PROVE  DsoInv'
<1>1. dso_handle' = dso_handle /\ opened' = opened /\ dsoCalls' = dsoCalls /\ clash' = clash
  BY DEF dsoVars
<1>2. DsoTypes'
  BY <1>1 DEF DsoInv, DsoTypes
<1>3. UnloadsKept => UnloadsKept'
  BY <1>1 DEF UnloadsKept, Unloads
<1>4. HandlesKept'
  <2>1. \A l \in Libs : CallsIn("load", "inside", l)' = CallsIn("load", "inside", l)
    BY <1>1 DEF CallsIn
  <2>2. \A l \in Libs : CallsIn("unload", "clear", l)' = CallsIn("unload", "clear", l)
    BY <1>1 DEF CallsIn
  <2>3. \A l \in Libs : Balanced(l) => Balanced(l)'
    BY <1>1, <2>1, <2>2 DEF Balanced, Count, SlotsWith
  <2>4. QED
    BY <1>1, <2>3, KeptBalanced, KeptBalancedAfter DEF DsoInv
<1>5. QED
  BY <1>1, <1>2, <1>3, <1>4 DEF DsoInv

\* However load() and unload() fail, and within whatever library they are
\* called, each library is open as often as it is in a slot or being loaded,
\* until two calls meet in one slot.
THEOREM DsoTheorem == DsoSpec => []HandlesKept
<1>1. DsoInv /\ [DsoNext]_dsoVars => DsoInv'
  <2> SUFFICES ASSUME DsoInv, [DsoNext]_dsoVars PROVE DsoInv'
    OBVIOUS
  <2>1. CASE UNCHANGED dsoVars
    BY <2>1, DsoStutters
  <2>2. ASSUME NEW t \in DsoThreads, NEW lib \in Libs, LoadStarts(t, lib) PROVE DsoInv'
    BY <2>2, LoadStartsStep
  <2>3. ASSUME NEW t \in DsoThreads, Dlopen(t) PROVE DsoInv'
    BY <2>3, DlopenStep
  <2>4. ASSUME NEW t \in DsoThreads, LoadFails(t) PROVE DsoInv'
    BY <2>4, LoadFailsStep
  <2>5. ASSUME NEW t \in DsoThreads, LoadReturns(t) PROVE DsoInv'
    BY <2>5, LoadReturnsStep
  <2>6. ASSUME NEW t \in DsoThreads, NEW id \in Ids, UnloadStarts(t, id) PROVE DsoInv'
    BY <2>6, UnloadStartsStep
  <2>7. ASSUME NEW t \in DsoThreads, UnloadCalled(t) PROVE DsoInv'
    BY <2>7, UnloadCalledStep
  <2>8. ASSUME NEW t \in DsoThreads, Dlclose(t) PROVE DsoInv'
    BY <2>8, DlcloseStep
  <2>9. ASSUME NEW t \in DsoThreads, UnloadReturns(t) PROVE DsoInv'
    BY <2>9, UnloadReturnsStep
  <2>10. QED
    BY <2>1, <2>2, <2>3, <2>4, <2>5, <2>6, <2>7, <2>8, <2>9 DEF DsoNext
<1>2. DsoInv => HandlesKept
  BY DEF DsoInv
<1>3. QED
  BY <1>1, <1>2, DsoStarts, PTL DEF DsoSpec

-----------------------------------------------------------------------------
(* print(), write() and help().                                            *)

Natives == {"print", "write", "help"}
Frames == [fn : Natives, left : Nat, pieces : SUBSET Nat]

OutTypes ==
    /\ stream \in Seq(Nat) /\ shown \in Seq(Nat) /\ said \in Nat
    /\ calls \in Seq(Frames)
    /\ \A k \in DOMAIN stream : stream[k] <= said
    /\ \A k \in DOMAIN shown : shown[k] <= said
    /\ direct \subseteq 1 .. said /\ returned \subseteq 0 .. said

\* The buffer holds the pieces in the order they were said in, none of them a
\* piece of write(), and all said since a print() or write() has returned.  Only
\* write() has overtaken them.
Buffered ==
    /\ \A i, k \in DOMAIN stream : i < k => stream[i] < stream[k]
    /\ \A i \in DOMAIN stream : stream[i] \notin direct /\ \A r \in returned : r < stream[i]
    /\ \A i \in DOMAIN stream, k \in DOMAIN shown :
          stream[i] < shown[k] => shown[k] \in direct

\* What the write()s that run have said was taken.
WrittenSoFar ==
    \A c \in DOMAIN calls : calls[c].fn = "write" => calls[c].pieces \subseteq ToSet(shown)

OutInv == OutTypes /\ Buffered /\ WrittenSoFar /\ OutputInOrder /\ WriteTells

LEMMA InSet ==
  ASSUME NEW s \in Seq(Nat)
  PROVE  /\ DOMAIN s = 1 .. Len(s) /\ Len(s) \in Nat
         /\ \A x : x \in ToSet(s) <=> \E k \in DOMAIN s : s[k] = x
BY DEF ToSet

LEMMA Joined ==
  ASSUME NEW s \in Seq(Nat), NEW t \in Seq(Nat)
  PROVE  /\ s \o t \in Seq(Nat)
         /\ \A k \in DOMAIN (s \o t) :
               \/ k \in DOMAIN s /\ (s \o t)[k] = s[k]
               \/ k - Len(s) \in DOMAIN t /\ k > Len(s) /\ (s \o t)[k] = t[k - Len(s)]
         /\ \A k \in DOMAIN s : k \in DOMAIN (s \o t) /\ (s \o t)[k] = s[k]
         /\ \A k \in DOMAIN s : k <= Len(s)
OBVIOUS

LEMMA Appended ==
  ASSUME NEW s \in Seq(Nat), NEW n \in Nat
  PROVE  /\ Append(s, n) \in Seq(Nat)
         /\ \A k \in DOMAIN Append(s, n) :
               \/ k \in DOMAIN s /\ k <= Len(s) /\ Append(s, n)[k] = s[k]
               \/ k = Len(s) + 1 /\ Append(s, n)[k] = n
         /\ \A k \in DOMAIN s : k \in DOMAIN Append(s, n) /\ Append(s, n)[k] = s[k]
         /\ Len(s) + 1 \in DOMAIN Append(s, n) /\ Append(s, n)[Len(s) + 1] = n
OBVIOUS

LEMMA InnermostCall ==
  ASSUME NEW s \in Seq(Frames), s # <<>>
  PROVE  /\ Len(s) \in DOMAIN s /\ Last(s) = s[Len(s)] /\ Last(s) \in Frames
         /\ Front(s) \in Seq(Frames)
         /\ \A c \in DOMAIN Front(s) : c \in DOMAIN s /\ Front(s)[c] = s[c]
<1>1. Len(s) \in Nat \ {0} /\ DOMAIN s = 1 .. Len(s)
  OBVIOUS
<1>2. Last(s) = s[Len(s)] /\ Last(s) \in Frames
  BY <1>1 DEF Last
<1>3. Front(s) = [c \in 1 .. Len(s) - 1 |-> s[c]]
  BY <1>1 DEF Front
<1>4. QED
  BY <1>1, <1>2, <1>3

\* A native goes on, and what it has said since is added to its pieces.
LEMMA ArgumentIsDone ==
  ASSUME OutInv, calls # <<>>, NEW pieces \in SUBSET Nat, Last(calls).left > 0,
         ArgumentDone(pieces)
  PROVE  /\ calls' \in Seq(Frames) /\ DOMAIN calls' = DOMAIN calls
         /\ UNCHANGED <<returned, told>>
         /\ \A c \in DOMAIN calls :
               /\ calls'[c].fn = calls[c].fn
               /\ calls'[c].pieces \subseteq calls[c].pieces \cup pieces
               /\ c # Len(calls) => calls'[c] = calls[c]
         /\ Last(calls) = calls[Len(calls)]
<1>1. calls \in Seq(Frames) /\ Last(calls) = calls[Len(calls)] /\ Last(calls) \in Frames
      /\ Len(calls) \in DOMAIN calls
  BY InnermostCall DEF OutInv, OutTypes
<1> DEFINE done == [fn |-> Last(calls).fn, left |-> Last(calls).left - 1,
                    pieces |-> Last(calls).pieces \cup pieces]
<1>2. done \in Frames
  <2>1. /\ Last(calls).fn \in Natives /\ Last(calls).left \in Nat
        /\ Last(calls).pieces \in SUBSET Nat
    BY <1>1 DEF Frames
  <2>2. Last(calls).left - 1 \in Nat
    BY <2>1
  <2>3. Last(calls).pieces \cup pieces \in SUBSET Nat
    BY <2>1
  <2>4. QED
    BY <2>1, <2>2, <2>3 DEF Frames
<1>3. calls' = [calls EXCEPT ![Len(calls)] = done] /\ UNCHANGED <<returned, told>>
  BY <1>1 DEF ArgumentDone
<1>4. done.fn = Last(calls).fn /\ done.pieces = Last(calls).pieces \cup pieces
  OBVIOUS
<1> HIDE DEF done
<1>5. QED
  BY <1>1, <1>2, <1>3, <1>4

\* A native ends, and those it was called from go on.
LEMMA CallIsOver ==
  ASSUME OutInv, calls # <<>>, NEW pieces \in SUBSET Nat, NEW ok \in BOOLEAN, NEW why,
         Ends(pieces, ok, why)
  PROVE  /\ calls' \in Seq(Frames)
         /\ \A c \in DOMAIN calls' : c \in DOMAIN calls /\ calls'[c] = calls[c]
         /\ Len(calls) \in DOMAIN calls /\ Last(calls) = calls[Len(calls)]
         /\ told'.fn = Last(calls).fn /\ told'.ok = ok /\ told'.why = why
         /\ told'.pieces = Last(calls).pieces \cup pieces
         /\ returned' = IF ok /\ Last(calls).fn # "help" THEN returned \cup {said} ELSE returned
BY InnermostCall DEF Ends, OutInv, OutTypes

\* What is shown only grows.
LEMMA StillWritten ==
  ASSUME WrittenSoFar, ToSet(shown) \subseteq ToSet(shown'),
         \A c \in DOMAIN calls' : c \in DOMAIN calls /\ calls'[c] = calls[c]
  PROVE  WrittenSoFar'
BY DEF WrittenSoFar

\* The order of what is shown, and what of it has overtaken the buffer, does not
\* depend on the piece that is said now.
LEMMA StillInOrder ==
  ASSUME OutInv, UNCHANGED <<shown, direct>>, said' \in Nat, said <= said',
         \A r \in returned' : r \in returned \/ (r \in Nat /\ r >= said)
  PROVE  OutputInOrder' /\ \A k \in DOMAIN shown' : shown'[k] <= said'
<1>1. \A k \in DOMAIN shown : shown[k] \in Nat /\ shown[k] <= said /\ said \in Nat
  BY DEF OutInv, OutTypes
<1>2. \A k \in DOMAIN shown' : shown'[k] <= said'
  BY <1>1
<1>3. ASSUME NEW i \in DOMAIN shown, NEW k \in DOMAIN shown, i < k, shown[k] < shown[i],
             NEW r \in returned'
      PROVE  r < shown[k] \/ r >= shown[i]
  <2>1. CASE r \in returned
    BY <1>3, <2>1 DEF OutInv, OutputInOrder
  <2>2. CASE r \in Nat /\ r >= said
    BY <1>1, <2>2
  <2>3. QED
    BY <2>1, <2>2
<1>4. QED
  BY <1>2, <1>3 DEF OutInv, OutputInOrder

\* The buffer is emptied, into the descriptor or not.
LEMMA BufferGoes ==
  ASSUME OutInv, shown' = shown \/ shown' = shown \o stream, said' \in Nat, said <= said',
         UNCHANGED direct, \A r \in returned' : r \in returned \/ (r \in Nat /\ r >= said)
  PROVE  /\ shown' \in Seq(Nat)
         /\ \A k \in DOMAIN shown' : shown'[k] <= said
         /\ ToSet(shown) \subseteq ToSet(shown')
         /\ OutputInOrder'
<1>1. stream \in Seq(Nat) /\ shown \in Seq(Nat) /\ said \in Nat
  BY DEF OutInv, OutTypes
<1>2. /\ shown \o stream \in Seq(Nat)
      /\ \A k \in DOMAIN shown : k \in DOMAIN (shown \o stream)
                                 /\ (shown \o stream)[k] = shown[k]
      /\ \A k \in DOMAIN (shown \o stream) : (shown \o stream)[k] <= said
  <2>1. \A k \in DOMAIN (shown \o stream) : (shown \o stream)[k] <= said
    BY <1>1, Joined DEF OutInv, OutTypes
  <2>2. QED
    BY <1>1, <2>1, Joined
<1>3. shown' \in Seq(Nat) /\ \A k \in DOMAIN shown' : shown'[k] <= said
  <2>1. CASE shown' = shown
    BY <1>1, <2>1 DEF OutInv, OutTypes
  <2>2. CASE shown' = shown \o stream
    BY <1>2, <2>2
  <2>3. QED
    BY <2>1, <2>2
<1>4. ToSet(shown) \subseteq ToSet(shown')
  <2>1. CASE shown' = shown
    BY <2>1
  <2>2. CASE shown' = shown \o stream
    BY <1>2, <2>2 DEF ToSet
  <2>3. QED
    BY <2>1, <2>2
<1>5. OutputInOrder'
  <2>1. CASE shown' = shown
    BY <2>1, StillInOrder
  <2>2. CASE shown' = shown \o stream
    <3> SUFFICES ASSUME NEW i \in DOMAIN shown', NEW k \in DOMAIN shown',
                        i < k, shown'[k] < shown'[i]
                 PROVE  /\ shown'[i] \in direct /\ shown'[k] \notin direct
                        /\ \A r \in returned' : r < shown'[k] \/ r >= shown'[i]
      BY DEF OutputInOrder
    <3>1. i \in Nat /\ k \in Nat /\ Len(shown) \in Nat /\ shown'[i] \in Nat /\ shown'[k] \in Nat
          /\ shown'[i] <= said
      BY <1>1, <1>3, InSet
    <3>2. CASE k \in DOMAIN shown
      <4>1. i \in DOMAIN shown /\ shown'[i] = shown[i] /\ shown'[k] = shown[k]
        <5>1. i \in DOMAIN shown
          BY <1>1, <3>1, <3>2, <2>2, Joined
        <5>2. QED
          BY <1>2, <2>2, <3>2, <5>1
      <4>2. /\ shown[i] \in direct /\ shown[k] \notin direct
            /\ \A r \in returned : r < shown[k] \/ r >= shown[i]
        BY <4>1, <3>2 DEF OutInv, OutputInOrder
      <4>3. \A r \in returned' : r < shown[k] \/ r >= shown[i]
        BY <4>1, <4>2, <3>1, <1>1
      <4>4. QED
        BY <4>1, <4>2, <4>3
    <3>3. CASE k - Len(shown) \in DOMAIN stream /\ shown'[k] = stream[k - Len(shown)]
      <4>1. CASE i \in DOMAIN shown /\ shown'[i] = shown[i]
        <5>1. shown'[i] \in direct /\ shown'[k] \notin direct
          BY <4>1, <3>3 DEF OutInv, Buffered
        <5>2. \A r \in returned : r < shown'[k]
          BY <3>3 DEF OutInv, Buffered
        <5>3. \A r \in returned' : r < shown'[k] \/ r >= shown'[i]
          BY <5>2, <3>1, <1>1
        <5>4. QED
          BY <5>1, <5>3
      <4>2. CASE i - Len(shown) \in DOMAIN stream /\ shown'[i] = stream[i - Len(shown)]
        <5>1. i - Len(shown) < k - Len(shown)
          BY <3>1
        <5>2. stream[i - Len(shown)] < stream[k - Len(shown)]
          BY <5>1, <4>2, <3>3 DEF OutInv, Buffered
        <5>3. QED
          BY <5>2, <3>1, <4>2, <3>3
      <4>3. QED
        BY <1>1, <2>2, <4>1, <4>2, Joined
    <3>4. QED
      BY <1>1, <2>2, <3>2, <3>3, Joined
  <2>3. QED
    BY <2>1, <2>2
<1>6. QED
  BY <1>3, <1>4, <1>5

LEMMA CalledStep ==
  ASSUME OutInv, OutputCalled
  PROVE  OutInv'
<1>1. PICK fn \in Natives, args \in 0 .. MaxArgs :
         calls' = Append(calls, [fn |-> fn, left |-> args, pieces |-> {}])
  BY DEF OutputCalled, Natives
<1>2. UNCHANGED <<stream, shown, said, direct, returned>> /\ told' = NotTold
  BY DEF OutputCalled
<1> DEFINE new == [fn |-> fn, left |-> args, pieces |-> {}]
<1>3. new \in Frames /\ new.pieces = {}
  BY OutputAssumption DEF Frames
<1>4. calls' = Append(calls, new) /\ calls \in Seq(Frames)
  BY <1>1 DEF OutInv, OutTypes
<1> HIDE DEF new
<1>5. /\ calls' \in Seq(Frames)
      /\ \A c \in DOMAIN calls' : 
            (c \in DOMAIN calls /\ calls'[c] = calls[c]) \/ calls'[c] = new
  BY <1>3, <1>4
<1>6. OutTypes' /\ Buffered' /\ OutputInOrder'
  BY <1>2, <1>5 DEF OutInv, OutTypes, Buffered, OutputInOrder
<1>7. WrittenSoFar'
  BY <1>2, <1>3, <1>5 DEF OutInv, WrittenSoFar
<1>8. WriteTells'
  BY <1>2 DEF WriteTells, NotTold
<1>9. QED
  BY <1>6, <1>7, <1>8 DEF OutInv

\* A native fails at an argument, or help() ends: the buffer stays as it is.
LEMMA StaysBuffered ==
  ASSUME OutInv, calls # <<>>, NEW ok \in BOOLEAN, NEW why, Ends({}, ok, why),
         UNCHANGED <<stream, shown, said, direct, lost>>,
         Last(calls).fn = "write" => ~ok /\ why = "threw", ok => Last(calls).fn = "help"
  PROVE  OutInv'
<1>1. /\ calls' \in Seq(Frames)
      /\ \A c \in DOMAIN calls' : c \in DOMAIN calls /\ calls'[c] = calls[c]
      /\ told'.fn = Last(calls).fn /\ told'.ok = ok /\ told'.why = why
      /\ returned' = IF ok /\ Last(calls).fn # "help" THEN returned \cup {said} ELSE returned
  <2>1. {} \in SUBSET Nat
    OBVIOUS
  <2>2. QED
    BY <2>1, CallIsOver, Zenon
<1> returned' = returned
  BY <1>1
<1>2. OutTypes'
  BY <1>1 DEF OutInv, OutTypes
<1>3. Buffered' /\ OutputInOrder'
  BY <1>1 DEF OutInv, Buffered, OutputInOrder
<1>4. WrittenSoFar'
  BY <1>1, StillWritten DEF OutInv
<1>5. WriteTells'
  BY <1>1 DEF WriteTells
<1>6. QED
  BY <1>2, <1>3, <1>4, <1>5 DEF OutInv

LEMMA ThrowsStep ==
  ASSUME OutInv, ArgumentThrows
  PROVE  OutInv'
<1>1. calls # <<>> /\ Ends({}, FALSE, "threw")
      /\ UNCHANGED <<stream, shown, said, direct, lost>>
  BY DEF ArgumentThrows, Converting, Processing, Runs
<1>2. QED
  BY <1>1, StaysBuffered

LEMMA HelpStep ==
  ASSUME OutInv, HelpEnds
  PROVE  OutInv'
<1>1. calls # <<>> /\ Ends({}, TRUE, "") /\ Last(calls).fn = "help"
      /\ UNCHANGED <<stream, shown, said, direct, lost>>
  BY DEF HelpEnds, Finishing, Runs
<1>2. QED
  BY <1>1, StaysBuffered

LEMMA QuietStep ==
  ASSUME OutInv, ArgumentSetsErrno \/ NoHelp
  PROVE  OutInv'
<1>1. UNCHANGED <<stream, shown, said, direct, lost>>
  BY DEF ArgumentSetsErrno, NoHelp
<1>2. CASE ArgumentSetsErrno
  BY <1>1, <1>2 DEF ArgumentSetsErrno, OutInv, OutTypes, Buffered, WrittenSoFar,
                    OutputInOrder, WriteTells
<1>3. CASE NoHelp
  <2>1. calls # <<>> /\ Last(calls).left > 0 /\ ArgumentDone({})
    BY <1>3 DEF NoHelp, Converting, Processing, Runs
  <2>2. /\ calls' \in Seq(Frames) /\ DOMAIN calls' = DOMAIN calls
        /\ UNCHANGED <<returned, told>>
        /\ \A c \in DOMAIN calls : /\ calls'[c].fn = calls[c].fn
                                   /\ calls'[c].pieces \subseteq calls[c].pieces
    BY <2>1, ArgumentIsDone
  <2>3. QED
    BY <1>1, <2>2 DEF OutInv, OutTypes, Buffered, WrittenSoFar, OutputInOrder, WriteTells
<1>4. QED
  BY <1>2, <1>3

\* The buffer after fprintf: what it held, or nothing, and perhaps the piece
LEMMA PieceBuffered ==
  ASSUME OutInv, Fprintf(said + 1), said' = said + 1, UNCHANGED <<direct, returned>>
  PROVE  /\ stream' \in Seq(Nat) /\ shown' \in Seq(Nat) /\ said' \in Nat
         /\ \A k \in DOMAIN stream' : stream'[k] <= said'
         /\ \A k \in DOMAIN shown' : shown'[k] <= said'
         /\ direct' \subseteq 1 .. said' /\ returned' \subseteq 0 .. said'
         /\ ToSet(shown) \subseteq ToSet(shown')
         /\ Buffered' /\ OutputInOrder'
<1>1. /\ shown \in Seq(Nat) /\ stream \in Seq(Nat) /\ said \in Nat /\ said + 1 \in Nat
      /\ \A k \in DOMAIN stream : stream[k] <= said /\ stream[k] \in Nat
      /\ \A k \in DOMAIN shown : shown[k] <= said /\ shown[k] \in Nat
      /\ direct \subseteq 1 .. said /\ returned \subseteq 0 .. said
  BY DEF OutInv, OutTypes
<1>2. /\ shown' \in Seq(Nat) /\ \A k \in DOMAIN shown' : shown'[k] <= said
      /\ ToSet(shown) \subseteq ToSet(shown') /\ OutputInOrder'
  <2>1. shown' = shown \/ shown' = shown \o stream
    BY DEF Fprintf
  <2>2. QED
    BY <1>1, <2>1, BufferGoes
<1>3. direct' \subseteq 1 .. said' /\ returned' \subseteq 0 .. said'
  BY <1>1
<1>4. \A k \in DOMAIN shown' : shown'[k] <= said' /\ shown'[k] \in Nat /\ shown'[k] < said + 1
  BY <1>1, <1>2
<1>5. said + 1 \notin direct /\ \A r \in returned : r < said + 1
  BY <1>1
<1>6. CASE stream' = <<>>
  BY <1>1, <1>2, <1>3, <1>4, <1>6 DEF Buffered
<1>7. CASE stream' = <<said + 1>>
  <2>1. DOMAIN stream' = {1} /\ stream'[1] = said + 1 /\ stream' \in Seq(Nat)
    BY <1>1, <1>7
  <2>2. Buffered'
    BY <1>1, <1>4, <1>5, <2>1 DEF Buffered
  <2>3. QED
    BY <1>1, <1>2, <1>3, <1>4, <2>1, <2>2
<1>8. CASE stream' = Append(stream, said + 1) /\ shown' = shown
  <2>1. /\ stream' \in Seq(Nat)
        /\ \A k \in DOMAIN stream' :
              \/ k \in DOMAIN stream /\ k <= Len(stream) /\ stream'[k] = stream[k]
              \/ k = Len(stream) + 1 /\ stream'[k] = said + 1
    BY <1>1, <1>8, Appended
  <2>2. \A k \in DOMAIN stream' : stream'[k] <= said'
    <3> TAKE k \in DOMAIN stream'
    <3>1. CASE k \in DOMAIN stream /\ stream'[k] = stream[k]
      <4>1. stream[k] \in Nat /\ stream[k] <= said
        BY <1>1, <3>1
      <4>2. QED
        BY <1>1, <3>1, <4>1
    <3>2. CASE stream'[k] = said + 1
      BY <3>2
    <3>3. QED
      BY <2>1, <3>1, <3>2
  <2>3. \A i, k \in DOMAIN stream' : i < k => stream'[i] < stream'[k]
    <3> SUFFICES ASSUME NEW i \in DOMAIN stream', NEW k \in DOMAIN stream', i < k
                 PROVE  stream'[i] < stream'[k]
      OBVIOUS
    <3>1. i \in Nat /\ k \in Nat /\ k <= Len(stream) + 1 /\ Len(stream) \in Nat
      <4>1. DOMAIN stream' = 1 .. Len(stream') /\ Len(stream') \in Nat /\ Len(stream) \in Nat
        BY <1>1, <2>1
      <4>2. i \in Nat /\ k \in Nat
        BY <4>1
      <4>3. k <= Len(stream) \/ k = Len(stream) + 1
        BY <2>1, Zenon
      <4>4. k <= Len(stream) + 1
        BY <4>1, <4>2, <4>3
      <4>5. QED
        BY <4>1, <4>2, <4>4
    <3>2. i \in DOMAIN stream /\ stream'[i] = stream[i]
      <4>1. i # Len(stream) + 1
        BY <3>1
      <4>2. QED
        BY <2>1, <4>1
    <3>3. CASE k \in DOMAIN stream /\ stream'[k] = stream[k]
      BY <3>2, <3>3 DEF OutInv, Buffered
    <3>4. CASE stream'[k] = said + 1
      BY <1>1, <3>2, <3>4
    <3>5. QED
      BY <2>1, <3>3, <3>4
  <2>4. \A i \in DOMAIN stream' : stream'[i] \notin direct' /\ \A r \in returned' : r < stream'[i]
    BY <1>5, <2>1 DEF OutInv, Buffered
  <2>5. \A i \in DOMAIN stream', k \in DOMAIN shown' :
           stream'[i] < shown'[k] => shown'[k] \in direct'
    BY <1>1, <1>8, <2>1 DEF OutInv, Buffered
  <2>6. QED
    BY <1>1, <1>2, <1>3, <1>4, <2>1, <2>2, <2>3, <2>4, <2>5 DEF Buffered
<1>9. QED
  BY <1>6, <1>7, <1>8 DEF Fprintf

LEMMA PrintedStep ==
  ASSUME OutInv, Printed
  PROVE  OutInv'
<1>1. /\ said' = said + 1 /\ Fprintf(said + 1) /\ UNCHANGED direct
      /\ calls # <<>> /\ Last(calls).left > 0 /\ Last(calls).fn \in {"print", "help"}
      /\ Ends({said + 1}, FALSE, "errno") \/ ArgumentDone({said + 1})
  BY DEF Printed, Processing, Runs
<1>2. said + 1 \in Nat /\ {said + 1} \in SUBSET Nat
  BY DEF OutInv, OutTypes
<1>3. CASE Ends({said + 1}, FALSE, "errno")
  <2>1. /\ calls' \in Seq(Frames)
        /\ \A c \in DOMAIN calls' : c \in DOMAIN calls /\ calls'[c] = calls[c]
        /\ told'.fn = Last(calls).fn /\ returned' = returned
    BY <1>1, <1>2, <1>3, CallIsOver
  <2>2. OutTypes' /\ Buffered' /\ OutputInOrder'
    BY <1>1, <2>1, PieceBuffered DEF OutTypes
  <2>3. WrittenSoFar'
    BY <1>1, <2>1, PieceBuffered, StillWritten DEF OutInv
  <2>4. QED
    BY <1>1, <2>1, <2>2, <2>3 DEF OutInv, WriteTells
<1>4. CASE ArgumentDone({said + 1})
  <2>1. /\ calls' \in Seq(Frames) /\ DOMAIN calls' = DOMAIN calls
        /\ UNCHANGED <<returned, told>>
        /\ \A c \in DOMAIN calls : /\ calls'[c].fn = calls[c].fn
                                   /\ c # Len(calls) => calls'[c] = calls[c]
        /\ Last(calls) = calls[Len(calls)]
    BY <1>1, <1>2, <1>4, ArgumentIsDone
  <2>2. /\ OutTypes' /\ Buffered' /\ OutputInOrder'
        /\ ToSet(shown) \subseteq ToSet(shown')
    BY <1>1, <2>1, PieceBuffered DEF OutTypes
  <2>3. WrittenSoFar'
    <3> SUFFICES ASSUME NEW c \in DOMAIN calls', calls'[c].fn = "write"
                 PROVE  calls'[c].pieces \subseteq ToSet(shown')
      BY DEF WrittenSoFar
    <3>1. calls'[c] = calls[c]
      BY <1>1, <2>1
    <3>2. QED
      BY <2>1, <2>2, <3>1 DEF OutInv, WrittenSoFar
  <2>4. lost \subseteq lost'
    BY <1>1 DEF Fprintf
  <2>5. WriteTells'
    BY <2>1, <2>2, <2>4 DEF OutInv, WriteTells
  <2>6. QED
    BY <2>2, <2>3, <2>5 DEF OutInv
<1>5. QED
  BY <1>1, <1>3, <1>4

\* A piece that is written comes behind all others.
LEMMA PieceShown ==
  ASSUME OutInv, said' = said + 1, direct' = direct \cup {said + 1},
         UNCHANGED <<stream, returned>>,
         shown' = shown \/ shown' = Append(shown, said + 1)
  PROVE  /\ stream' \in Seq(Nat) /\ shown' \in Seq(Nat) /\ said' \in Nat
         /\ \A k \in DOMAIN stream' : stream'[k] <= said'
         /\ \A k \in DOMAIN shown' : shown'[k] <= said'
         /\ direct' \subseteq 1 .. said' /\ returned' \subseteq 0 .. said'
         /\ ToSet(shown) \subseteq ToSet(shown')
         /\ shown' # shown => said + 1 \in ToSet(shown')
         /\ Buffered' /\ OutputInOrder'
<1>1. /\ shown \in Seq(Nat) /\ stream \in Seq(Nat) /\ said \in Nat /\ said + 1 \in Nat
      /\ \A k \in DOMAIN stream : stream[k] <= said /\ stream[k] \in Nat
      /\ \A k \in DOMAIN shown : shown[k] <= said /\ shown[k] \in Nat
      /\ direct \subseteq 1 .. said /\ returned \subseteq 0 .. said
  BY DEF OutInv, OutTypes
<1>2. /\ shown' \in Seq(Nat)
      /\ \A k \in DOMAIN shown' :
            \/ k \in DOMAIN shown /\ shown'[k] = shown[k]
            \/ shown'[k] = said + 1 /\ \A i \in DOMAIN shown' : i <= k
      /\ ToSet(shown) \subseteq ToSet(shown')
      /\ shown' # shown => said + 1 \in ToSet(shown')
  <2>1. CASE shown' = shown
    BY <1>1, <2>1
  <2>2. CASE shown' = Append(shown, said + 1)
    <3>1. /\ shown' \in Seq(Nat) /\ Len(shown) + 1 \in DOMAIN shown'
          /\ shown'[Len(shown) + 1] = said + 1
          /\ \A k \in DOMAIN shown' :
                \/ k \in DOMAIN shown /\ k <= Len(shown) /\ shown'[k] = shown[k]
                \/ k = Len(shown) + 1 /\ shown'[k] = said + 1
          /\ \A k \in DOMAIN shown : k \in DOMAIN shown' /\ shown'[k] = shown[k]
      BY <1>1, <2>2, Appended
    <3>2. ToSet(shown) \cup {said + 1} \subseteq ToSet(shown')
      BY <3>1 DEF ToSet
    <3>3. Len(shown) \in Nat /\ \A k \in DOMAIN shown' : k <= Len(shown) + 1
      BY <1>1, <3>1
    <3>4. QED
      BY <3>1, <3>2, <3>3
  <2>3. QED
    BY <2>1, <2>2
<1>3. \A k \in DOMAIN shown' : shown'[k] <= said' /\ shown'[k] \in Nat
  BY <1>1, <1>2
<1>4. direct' \subseteq 1 .. said' /\ returned' \subseteq 0 .. said'
      /\ \A k \in DOMAIN stream' : stream'[k] <= said'
  BY <1>1
<1>5. Buffered'
  <2>1. \A i \in DOMAIN stream' : stream'[i] \notin direct' /\ \A r \in returned' : r < stream'[i]
    BY <1>1 DEF OutInv, Buffered
  <2>2. \A i \in DOMAIN stream', k \in DOMAIN shown' :
           stream'[i] < shown'[k] => shown'[k] \in direct'
    BY <1>2 DEF OutInv, Buffered
  <2>3. QED
    BY <2>1, <2>2 DEF OutInv, Buffered
<1>6. OutputInOrder'
  <2> SUFFICES ASSUME NEW i \in DOMAIN shown', NEW k \in DOMAIN shown',
                      i < k, shown'[k] < shown'[i]
               PROVE  /\ shown'[i] \in direct' /\ shown'[k] \notin direct'
                      /\ \A r \in returned' : r < shown'[k] \/ r >= shown'[i]
    BY DEF OutputInOrder
  <2>1. k \in DOMAIN shown /\ shown'[k] = shown[k]
    <3>1. shown'[i] \in Nat /\ shown'[i] <= said + 1 /\ shown'[k] \in Nat
      BY <1>3
    <3>2. shown'[k] # said + 1
      BY <1>1, <3>1
    <3>3. QED
      BY <1>2, <3>2
  <2>2. i \in DOMAIN shown /\ shown'[i] = shown[i]
    <3>1. i \in Nat /\ k \in Nat
      BY <1>2, InSet
    <3>2. ~(k <= i)
      BY <3>1
    <3>3. QED
      BY <1>2, <3>2
  <2>3. shown[k] < shown[i]
    BY <2>1, <2>2
  <2>4. /\ shown[i] \in direct /\ shown[k] \notin direct
        /\ \A r \in returned : r < shown[k] \/ r >= shown[i]
    BY <2>1, <2>2, <2>3 DEF OutInv, OutputInOrder
  <2>5. shown[k] # said + 1
    BY <1>1, <2>1
  <2>6. QED
    BY <2>1, <2>2, <2>4, <2>5
<1>7. QED
  BY <1>1, <1>2, <1>3, <1>4, <1>5, <1>6

LEMMA WrittenStep ==
  ASSUME OutInv, Written
  PROVE  OutInv'
<1>1. /\ said' = said + 1 /\ direct' = direct \cup {said + 1} /\ UNCHANGED stream
      /\ calls # <<>> /\ Last(calls).left > 0 /\ Last(calls).fn = "write"
  BY DEF Written, Processing, Runs
<1>2. PICK took \in {"all", "part", "none"} :
         /\ Taken(said + 1, took)
         /\ IF errno'
            THEN Ends({said + 1}, FALSE, IF took = "none" THEN "failed" ELSE "errno")
            ELSE ArgumentDone({said + 1})
  BY DEF Written
<1>3. /\ shown' = shown \/ shown' = Append(shown, said + 1)
      /\ took # "none" => shown' = Append(shown, said + 1)
      /\ took = "none" => errno' /\ said + 1 \in lost'
      /\ lost \subseteq lost'
  BY <1>2 DEF Taken
<1>4. said + 1 \in Nat /\ {said + 1} \in SUBSET Nat
  BY DEF OutInv, OutTypes
<1>5. returned' = returned
  <2>1. CASE Ends({said + 1}, FALSE, IF took = "none" THEN "failed" ELSE "errno")
    BY <1>1, <1>4, <2>1, CallIsOver
  <2>2. CASE ArgumentDone({said + 1})
    BY <1>1, <1>4, <2>2, ArgumentIsDone
  <2>3. QED
    BY <1>2, <2>1, <2>2
<1>6. /\ stream' \in Seq(Nat) /\ shown' \in Seq(Nat) /\ said' \in Nat
      /\ \A k \in DOMAIN stream' : stream'[k] <= said'
      /\ \A k \in DOMAIN shown' : shown'[k] <= said'
      /\ direct' \subseteq 1 .. said' /\ returned' \subseteq 0 .. said'
      /\ ToSet(shown) \subseteq ToSet(shown')
      /\ Buffered' /\ OutputInOrder'
  BY <1>1, <1>3, <1>5, PieceShown
<1>7. CASE Ends({said + 1}, FALSE, IF took = "none" THEN "failed" ELSE "errno")
  <2>1. /\ calls' \in Seq(Frames)
        /\ \A c \in DOMAIN calls' : c \in DOMAIN calls /\ calls'[c] = calls[c]
        /\ ~told'.ok /\ told'.why = (IF took = "none" THEN "failed" ELSE "errno")
        /\ said + 1 \in told'.pieces
    BY <1>1, <1>4, <1>7, CallIsOver
  <2>2. WrittenSoFar'
    BY <1>6, <2>1, StillWritten DEF OutInv
  <2>3. WriteTells'
    BY <1>3, <2>1 DEF WriteTells
  <2>4. QED
    BY <1>6, <2>1, <2>2, <2>3 DEF OutInv, OutTypes
<1>8. CASE took # "none" /\ ArgumentDone({said + 1})
  <2>1. /\ calls' \in Seq(Frames) /\ DOMAIN calls' = DOMAIN calls
        /\ UNCHANGED told
        /\ \A c \in DOMAIN calls :
              /\ calls'[c].fn = calls[c].fn
              /\ calls'[c].pieces \subseteq calls[c].pieces \cup {said + 1}
    BY <1>1, <1>4, <1>8, ArgumentIsDone
  <2>2. said + 1 \in ToSet(shown')
    <3>1. shown \in Seq(Nat)
      BY DEF OutInv, OutTypes
    <3>2. Len(shown) + 1 \in DOMAIN shown' /\ shown'[Len(shown) + 1] = said + 1
      BY <1>3, <1>4, <1>8, <3>1, Appended
    <3>3. QED
      BY <3>2 DEF ToSet
  <2>3. WrittenSoFar'
    BY <1>6, <2>1, <2>2 DEF OutInv, WrittenSoFar
  <2>4. WriteTells'
    BY <1>3, <1>6, <2>1 DEF OutInv, WriteTells
  <2>5. QED
    BY <1>6, <2>1, <2>3, <2>4 DEF OutInv, OutTypes
<1>9. QED
  BY <1>2, <1>3, <1>7, <1>8

\* print() and write() return with the buffer flushed, or lost.
LEMMA FlushedStep ==
  ASSUME OutInv, PrintEnds \/ WriteEnds
  PROVE  OutInv'
<1>1. /\ Fflush /\ Ends({}, TRUE, "") /\ UNCHANGED <<said, direct>>
      /\ calls # <<>> /\ Last(calls).fn \in {"print", "write"}
  BY DEF PrintEnds, WriteEnds, Finishing, Runs
<1>2. /\ calls' \in Seq(Frames)
      /\ \A c \in DOMAIN calls' : c \in DOMAIN calls /\ calls'[c] = calls[c]
      /\ Len(calls) \in DOMAIN calls /\ Last(calls) = calls[Len(calls)]
      /\ told'.fn = Last(calls).fn /\ told'.ok = TRUE
      /\ told'.pieces = Last(calls).pieces \cup {}
      /\ returned' = IF TRUE /\ Last(calls).fn # "help" THEN returned \cup {said} ELSE returned
  BY <1>1, CallIsOver
<1> returned' = returned \cup {said} /\ told'.ok /\ told'.pieces = Last(calls).pieces
  BY <1>1, <1>2
<1>3. stream' = <<>> /\ (shown' = shown \/ shown' = shown \o stream)
  BY <1>1 DEF Fflush
<1>4. /\ said \in Nat /\ said' = said
      /\ direct \subseteq 1 .. said /\ returned \subseteq 0 .. said
  BY <1>1 DEF OutInv, OutTypes
<1>5. /\ shown' \in Seq(Nat) /\ \A k \in DOMAIN shown' : shown'[k] <= said
      /\ ToSet(shown) \subseteq ToSet(shown') /\ OutputInOrder'
  <2>1. \A r \in returned' : r \in returned \/ (r \in Nat /\ r >= said)
    BY <1>4
  <2>2. said' \in Nat /\ said <= said'
    BY <1>4
  <2>3. QED
    BY <1>1, <1>3, <2>1, <2>2, BufferGoes
<1>6. OutTypes' /\ Buffered'
  <2>1. stream' \in Seq(Nat) /\ DOMAIN stream' = {}
    BY <1>3
  <2>2. said' \in Nat /\ direct' \subseteq 1 .. said'
    BY <1>1, <1>4
  <2>3. returned' \subseteq 0 .. said'
    BY <1>2, <1>4
  <2>4. OutTypes'
    BY <1>2, <1>4, <1>5, <2>1, <2>2, <2>3 DEF OutTypes
  <2>5. Buffered'
    BY <2>1 DEF Buffered
  <2>6. QED
    BY <2>4, <2>5
<1>7. WrittenSoFar'
  BY <1>2, <1>5, StillWritten DEF OutInv
<1>8. WriteTells'
  BY <1>2, <1>5 DEF OutInv, WrittenSoFar, WriteTells
<1>9. QED
  BY <1>5, <1>6, <1>7, <1>8 DEF OutInv

LEMMA OutputStep ==
  ASSUME OutInv, [OutputNext]_outputVars
  PROVE  OutInv'
<1>1. CASE UNCHANGED outputVars
  BY <1>1 DEF outputVars, OutInv, OutTypes, Buffered, WrittenSoFar, OutputInOrder, WriteTells
<1>2. QED
  BY <1>1, CalledStep, ThrowsStep, QuietStep, PrintedStep, WrittenStep, FlushedStep,
     HelpStep DEF OutputNext

LEMMA OutputStarts == OutputInit => OutInv
<1> SUFFICES ASSUME OutputInit PROVE OutInv
  OBVIOUS
<1>1. OutTypes
  BY DEF OutputInit, OutTypes
<1>2. Buffered /\ OutputInOrder /\ WrittenSoFar
  BY DEF OutputInit, Buffered, OutputInOrder, WrittenSoFar
<1>3. WriteTells
  BY DEF OutputInit, WriteTells, NotTold
<1>4. QED
  BY <1>1, <1>2, <1>3 DEF OutInv

LEMMA OutputAlways == OutputSpec => []OutInv
BY OutputStep, OutputStarts, PTL DEF OutputSpec

\* What print(), write() and help() say appears in the order they say it, but for
\* pieces of write(), which overtake what is buffered, and never what was said
\* before a print() or write() that has returned: for any number of arguments and
\* pieces, any calls within the conversion of arguments, and any failures.
THEOREM OrderTheorem == OutputSpec => []OutputInOrder
<1>1. OutInv => OutputInOrder
  BY DEF OutInv
<1>2. QED
  BY <1>1, OutputAlways, PTL

\* What write() returns is true of its own pieces, also when others are written
\* by the functions that convert its arguments.
THEOREM WriteTheorem == OutputSpec => []WriteTells
<1>1. OutInv => WriteTells
  BY DEF OutInv
<1>2. QED
  BY <1>1, OutputAlways, PTL

-----------------------------------------------------------------------------
(* The global object of -z.                                                *)

Both == {Outer, Inner}

\* What there is at each point of the setup, and after it
Stages ==
    /\ splitAt = Outer => living = {} /\ DOMAIN private = {}
    /\ splitAt = Inner =>
          /\ living = {Outer} /\ DOMAIN private = {Outer}
          /\ private[Outer] \in [isInner : {FALSE}, frozen : {TRUE}, inner : {NoObject}]
    /\ splitAt \in {"created", "run", "script"} =>
          /\ living = Both /\ DOMAIN private = Both
          /\ ~private[Outer].isInner /\ private[Outer].inner = Inner
          /\ private[Inner].isInner
    /\ living \subseteq Both
    /\ splitAt \in {Outer, Inner, "created", "run", "script", "failed", "ended"}

SplitInv == Stages /\ ObjectsKept

LEMMA OneOrBoth ==
  /\ Cardinality({}) = 0 /\ Cardinality({Outer}) = 1 /\ Cardinality(Both) = 2
  /\ IsFiniteSet(Both)
<1>1. Cardinality({}) = 0 /\ Cardinality({Outer}) = 1 /\ IsFiniteSet({Outer})
  BY FS_EmptySet, FS_Singleton
<1>2. Inner \notin {Outer} /\ Both = {Outer} \cup {Inner}
  BY DEF Both, Inner, Outer
<1>3. QED
  BY <1>1, <1>2, FS_AddElement

\* The outer object keeps the inner one when nothing else does.
LEMMA CollectStep ==
  ASSUME SplitInv, Collect
  PROVE  SplitInv'
<1> DEFINE kept == (Roots \cup UNION {split_mark(o) : o \in Roots}) \cap living
<1>1. /\ living' = kept /\ private' = [o \in kept \cap DOMAIN private |-> private[o]]
      /\ allocated' = allocated - Cardinality(DOMAIN private \ kept)
      /\ splitAt' = splitAt /\ splitAt \in {Inner, "created", "run", "script", "ended"}
  BY DEF Collect, SplitInv, Stages, Inner, Outer
<1>2. DOMAIN private \subseteq living /\ allocated = Cardinality(DOMAIN private)
  BY DEF SplitInv, ObjectsKept
<1>3. CASE splitAt # "ended"
  <2>1. kept = living
    <3>1. Outer \in Roots /\ Outer \in DOMAIN private /\ ~private[Outer].isInner
      BY <1>1, <1>3 DEF SplitInv, Stages, Roots, Both, Outer, Inner
    <3>2. private[Outer].inner \in UNION {split_mark(o) : o \in Roots}
      BY <3>1 DEF split_mark
    <3>3. living \subseteq {Outer, private[Outer].inner}
      BY <1>1, <1>3 DEF SplitInv, Stages, Both
    <3>4. QED
      BY <3>1, <3>2, <3>3
  <2> HIDE DEF kept
  <2>2. DOMAIN private \ kept = {} /\ kept \cap DOMAIN private = DOMAIN private
    BY <1>2, <2>1
  <2>3. allocated' = allocated
    <3>1. IsFiniteSet(DOMAIN private) /\ Cardinality(DOMAIN private) \in Nat
      <4>1. DOMAIN private \subseteq Both
        BY <1>2 DEF SplitInv, Stages
      <4>2. QED
        BY <4>1, OneOrBoth, FS_Subset, FS_CardinalityType
    <3>2. QED
      BY <1>1, <1>2, <2>2, <3>1, OneOrBoth
  <2>4. living' = living /\ DOMAIN private' = DOMAIN private
        /\ \A o \in DOMAIN private : private'[o] = private[o]
    BY <1>1, <2>1, <2>2
  <2>5. Stages'
    BY <1>1, <2>4 DEF SplitInv, Stages, Both
  <2>6. ObjectsKept'
    BY <1>1, <2>3, <2>4 DEF SplitInv, ObjectsKept
  <2>7. QED
    BY <2>5, <2>6 DEF SplitInv
<1>4. CASE splitAt = "ended"
  <2>1. Roots = {}
    BY <1>4 DEF Roots, Inner
  <2>2. kept = {}
    BY <2>1
  <2> HIDE DEF kept
  <2>3. living' = {} /\ DOMAIN private' = {} /\ allocated' = allocated - allocated
    BY <1>1, <1>2, <2>2
  <2>4. allocated \in Nat
    <3>1. DOMAIN private \subseteq Both
      BY <1>2 DEF SplitInv, Stages
    <3>2. QED
      BY <1>2, <3>1, OneOrBoth, FS_Subset, FS_CardinalityType
  <2>5. QED
    BY <1>1, <1>4, <2>3, <2>4, OneOrBoth DEF SplitInv, Stages, ObjectsKept, Inner, Outer
<1>5. QED
  BY <1>3, <1>4

LEMMA SplitStep ==
  ASSUME SplitInv, [SplitNext]_splitVars
  PROVE  SplitInv'
<1> USE DEF SplitInv, Stages, ObjectsKept, Outer, Inner, NoObject, Both
<1>1. CASE UNCHANGED splitVars
  BY <1>1 DEF splitVars
<1>2. ASSUME NEW o \in {Outer, Inner}, CreateFails(o) PROVE SplitInv'
  BY <1>2 DEF CreateFails
<1>3. CASE split_create_outer
  <2>1. /\ DOMAIN private' = {Outer}
        /\ private'[Outer] \in [isInner : {FALSE}, frozen : {TRUE}, inner : {NoObject}]
    BY <1>3 DEF split_create_outer, Put
  <2>2. allocated = 0 /\ allocated' = 1
    BY <1>3, OneOrBoth DEF split_create_outer
  <2>3. QED
    BY <1>3, <2>1, <2>2, OneOrBoth DEF split_create_outer
<1>4. CASE split_create_inner
  <2> DEFINE thawed == [private EXCEPT ![Outer].inner = Inner, ![Outer].frozen = FALSE]
             new == [isInner |-> TRUE, frozen |-> FALSE, inner |-> NoObject]
  <2>1. /\ splitAt = Inner /\ DOMAIN private = {Outer} /\ allocated = 1
        /\ private[Outer] \in [isInner : {FALSE}, frozen : {TRUE}, inner : {NoObject}]
    BY <1>4, OneOrBoth DEF split_create_inner
  <2>2. /\ DOMAIN thawed = {Outer}
        /\ ~thawed[Outer].isInner /\ thawed[Outer].inner = Inner
    BY <2>1
  <2>3. private' = Put(thawed, Inner, new)
    BY <1>4 DEF split_create_inner
  <2> HIDE DEF thawed
  <2>4. /\ DOMAIN private' = Both
        /\ ~private'[Outer].isInner /\ private'[Outer].inner = Inner
        /\ private'[Inner].isInner
    BY <2>2, <2>3 DEF Put
  <2>5. splitAt' = "created" /\ living' = Both /\ allocated' = 2
    BY <1>4, <2>1 DEF split_create_inner
  <2>6. QED
    BY <2>4, <2>5, OneOrBoth
<1>5. CASE split_setup
  BY <1>5 DEF split_setup
<1>6. ASSUME NEW n \in Names, NEW v \in Names, SetThis(n, v) \/ SetName(n, v) PROVE SplitInv'
  BY <1>6 DEF SetThis, SetName, objectVars
<1>7. ASSUME NEW n \in Names, DeleteThis(n) \/ DeleteName(n) PROVE SplitInv'
  BY <1>7 DEF DeleteThis, DeleteName, objectVars
<1>8. CASE GetThisIsInner \/ GetIsInner
  BY <1>8 DEF GetThisIsInner, GetIsInner, objectVars
<1>9. CASE Collect
  BY <1>9, CollectStep
<1>10. CASE /\ ScriptBegins \/ ScriptStops \/ SplitEnds
            /\ UNCHANGED <<living, private, allocated, innerProps, outerOwn, splitOp>>
  BY <1>10 DEF ScriptBegins, ScriptStops, SplitEnds
<1>11. QED
  BY <1>1, <1>2, <1>3, <1>4, <1>5, <1>6, <1>7, <1>8, <1>9, <1>10 DEF SplitNext

LEMMA SplitStarts == SplitInit => SplitInv
<1>1. DOMAIN <<>> = {}
  OBVIOUS
<1>2. QED
  BY <1>1, OneOrBoth DEF SplitInit, SplitInv, Stages, ObjectsKept, Outer, Inner

\* Neither object of -z is freed while scripts can run, and no ComplexObject is
\* leaked or freed twice, for any names scripts use.
THEOREM ObjectsTheorem == SplitSpec => []ObjectsKept
<1>1. SplitInv => ObjectsKept
  BY DEF SplitInv
<1>2. QED
  BY <1>1, SplitStep, SplitStarts, PTL DEF SplitSpec

-----------------------------------------------------------------------------
(* The object environment.                                                 *)

Variable == [name : EnvNames, value : EnvValues]

EnvTypes ==
    /\ environ \in Seq(Variable) /\ envp \in Seq(Variable)
    /\ cut \subseteq DOMAIN envp /\ shared \subseteq DOMAIN envp
    /\ listing \in [EnvThreads -> Int] /\ moved \in BOOLEAN

\* The C library's array has the names of main()'s at the same places, where
\* each is once, and the very strings at the shared ones.
Arrays ==
    /\ Len(envp) <= Len(environ)
    /\ \A k \in DOMAIN envp : environ[k].name = envp[k].name
    /\ \A j, k \in DOMAIN envp : envp[j].name = envp[k].name => j = k
    /\ \A k \in shared : environ[k] = envp[k]
    /\ ~moved => environ = envp

\* A string without its '=' is in the hands of the one thread that took it.
Cutting ==
    /\ \A k \in cut : \E t \in EnvThreads : listing[t] = -k
    /\ \A t \in EnvThreads : listing[t] < 0 => -listing[t] \in cut
    /\ \A t, u \in EnvThreads : listing[t] < 0 /\ listing[t] = listing[u] => t = u

\* The variable of a name: its first string, with or without the '='
First(k, n) ==
    /\ k \in DOMAIN environ /\ environ[k].name = n
    /\ \A j \in DOMAIN environ : j < k => environ[j].name # n

Copies ==
    \A n \in DOMAIN props \ astray :
        \E k \in DOMAIN environ : First(k, n) /\ props[n] = environ[k].value

EnvInv == EnvTypes /\ Arrays /\ Cutting /\ Copies

LessThan == {p \in Nat \X Nat : p[1] < p[2]}

LEMMA LeastOf ==
  ASSUME NEW S, S \subseteq Nat, S # {}
  PROVE  Min(S) \in S /\ \A y \in S : Min(S) <= y
<1>1. IsWellFoundedOn(LessThan, Nat)
  BY SMT, NatLessThanWellFounded DEF OpToRel, LessThan
<1>2. \E x \in S : \A y \in S : <<y, x>> \notin LessThan
  BY <1>1, WFMin
<1>3. \A x, y \in Nat : <<y, x>> \notin LessThan => x <= y
  <2> TAKE x, y \in Nat
  <2> DEFINE p == <<y, x>>
  <2>1. p \in Nat \X Nat /\ p[1] = y /\ p[2] = x
    OBVIOUS
  <2>2. y < x => p \in LessThan
    BY <2>1 DEF LessThan
  <2>3. QED
    BY <2>2
<1>4. \E x \in S : \A y \in S : x <= y
  BY <1>2, <1>3
<1>5. QED
  BY <1>4 DEF Min

LEMMA EnvTyped ==
  ASSUME EnvInv
  PROVE  /\ DOMAIN environ = 1 .. Len(environ) /\ DOMAIN envp = 1 .. Len(envp)
         /\ Len(environ) \in Nat /\ Len(envp) \in Nat
         /\ DOMAIN envp \subseteq DOMAIN environ
         /\ \A k \in DOMAIN environ : k \in Nat \ {0} /\ environ[k] \in Variable
         /\ \A k \in DOMAIN envp : envp[k] \in Variable
<1>1. environ \in Seq(Variable) /\ envp \in Seq(Variable) /\ Len(envp) <= Len(environ)
  BY DEF EnvInv, EnvTypes, Arrays
<1>2. QED
  BY <1>1

\* A name that is not hidden is found at its first string.
LEMMA Found ==
  ASSUME EnvInv, NEW n, PlacesOf(n) # {}, ~Hidden(n)
  PROVE  First(Min(PlacesOf(n)), n)
<1>1. PlacesOf(n) \subseteq Nat
  BY EnvTyped DEF PlacesOf
<1>2. Min(PlacesOf(n)) \in PlacesOf(n) /\ \A y \in PlacesOf(n) : Min(PlacesOf(n)) <= y
  BY <1>1, LeastOf
<1>3. \A j \in DOMAIN environ : environ[j].name = n => j \in PlacesOf(n)
  BY DEF PlacesOf, Hidden
<1>4. QED
  <2> DEFINE m == Min(PlacesOf(n))
  <2> HIDE DEF m
  <2>1. m \in PlacesOf(n) /\ \A y \in PlacesOf(n) : m <= y
    BY <1>2 DEF m
  <2>2. m \in DOMAIN environ /\ environ[m].name = n /\ m \in Nat
    BY <2>1, <1>1 DEF PlacesOf
  <2>3. \A j \in DOMAIN environ : j < m => environ[j].name # n
    BY <2>1, <2>2, <1>1, <1>3
  <2>4. First(m, n)
    BY <2>2, <2>3 DEF First
  <2>5. QED
    BY <2>4 DEF m

\* What of the arrays stays when a variable is set: the names, and the values
\* but for the one that is set.
LEMMA SetKeeps ==
  ASSUME EnvInv, NEW n \in EnvNames, NEW v \in EnvValues, setenv(n, v), UNCHANGED listing
  PROVE  /\ EnvTypes' /\ Arrays' /\ Cutting'
         /\ \A m : \A k : m # n /\ First(k, m) => First(k, m)' /\ environ'[k] = environ[k]
         /\ ~Hidden(n) => \E k \in DOMAIN environ' : First(k, n)' /\ environ'[k].value = v
<1> DEFINE new == [name |-> n, value |-> v]
<1>1. new \in Variable /\ new.name = n /\ new.value = v
  BY DEF Variable
<1> HIDE DEF new
<1>2. /\ DOMAIN environ = 1 .. Len(environ) /\ DOMAIN envp = 1 .. Len(envp)
      /\ Len(environ) \in Nat /\ Len(envp) \in Nat
      /\ environ \in Seq(Variable) /\ envp \in Seq(Variable) /\ moved \in BOOLEAN
  BY EnvTyped DEF EnvInv, EnvTypes
<1>3. CASE PlacesOf(n) # {}
  <2>1. PICK k \in DOMAIN environ : k = Min(PlacesOf(n)) /\ environ[k].name = n
    <3>1. PlacesOf(n) \subseteq Nat
      BY EnvTyped DEF PlacesOf
    <3>2. Min(PlacesOf(n)) \in PlacesOf(n)
      BY <1>3, <3>1, LeastOf
    <3>3. QED
      BY <3>2 DEF PlacesOf
  <2>2. /\ environ' = [environ EXCEPT ![k] = new] /\ UNCHANGED <<moved, cut>>
        /\ \/ moved /\ shared' = shared \ {k} /\ UNCHANGED envp
           \/ ~moved /\ envp' = [envp EXCEPT ![k] = new] /\ UNCHANGED shared
    BY <1>2, <1>3, <2>1 DEF setenv, new
  <2>3. /\ environ' \in Seq(Variable) /\ Len(environ') = Len(environ)
        /\ DOMAIN environ' = DOMAIN environ
        /\ \A j \in DOMAIN environ : environ'[j] = IF j = k THEN new ELSE environ[j]
    BY <1>1, <1>2, <2>2, <2>2
  <2>4. /\ envp' \in Seq(Variable) /\ Len(envp') = Len(envp) /\ DOMAIN envp' = DOMAIN envp
        /\ \A j \in DOMAIN envp : envp'[j] = envp[j] \/ (~moved /\ j = k /\ envp'[j] = new)
        /\ ~moved => envp' = environ'
    <3>1. CASE moved /\ UNCHANGED envp
      BY <1>2, <3>1
    <3>2. CASE ~moved /\ envp' = [envp EXCEPT ![k] = new]
      <4>1. environ = envp
        BY <3>2 DEF EnvInv, Arrays
      <4>2. QED
        BY <1>2, <2>2, <2>1, <2>3, <3>2, <4>1
    <3>3. QED
      BY <2>2, <3>1, <3>2
  <2>5. \A j \in DOMAIN environ : environ'[j].name = environ[j].name
    BY <1>1, <2>1, <2>3
  <2>6. EnvTypes'
    BY <2>2, <2>3, <2>4 DEF EnvInv, EnvTypes
  <2>7. Arrays'
    <3>1. \A j \in DOMAIN envp : envp'[j].name = envp[j].name
      <4>1. ~moved => environ = envp
        BY DEF EnvInv, Arrays
      <4>2. QED
        BY <1>1, <2>1, <2>4, <4>1
    <3>2. \A j \in shared' : environ'[j] = envp'[j]
      <4>1. CASE moved /\ shared' = shared \ {k} /\ UNCHANGED envp
        BY <2>3, <4>1, EnvTyped DEF EnvInv, Arrays, EnvTypes
      <4>2. CASE ~moved
        BY <2>4, <4>2
      <4>3. QED
        BY <2>2, <2>4, <4>1, <4>2
    <3>3. \A j \in DOMAIN envp' : environ'[j].name = envp'[j].name
      BY <2>4, <2>5, <3>1, EnvTyped DEF EnvInv, Arrays
    <3>4. \A i, j \in DOMAIN envp' : envp'[i].name = envp'[j].name => i = j
      BY <2>4, <3>1 DEF EnvInv, Arrays
    <3>5. Len(envp') <= Len(environ') /\ (~moved' => environ' = envp')
      BY <2>2, <2>3, <2>4 DEF EnvInv, Arrays
    <3>6. QED
      BY <3>2, <3>3, <3>4, <3>5 DEF Arrays
  <2>8. Cutting'
    BY <2>2 DEF EnvInv, Cutting
  <2>9. ASSUME NEW m, NEW j, m # n, First(j, m)
        PROVE  First(j, m)' /\ environ'[j] = environ[j]
    BY <2>1, <2>3, <2>5, <2>9 DEF First
  <2>10. ASSUME ~Hidden(n)
         PROVE  First(k, n)' /\ environ'[k].value = v /\ k \in DOMAIN environ'
    <3>1. First(k, n)
      BY <1>3, <2>1, <2>10, Found
    <3>2. environ'[k].name = n /\ environ'[k].value = v /\ k \in DOMAIN environ'
      BY <1>1, <2>1, <2>3
    <3>3. \A j \in DOMAIN environ' : j < k => environ'[j].name # n
      BY <3>1, <2>3, <2>5 DEF First
    <3>4. QED
      BY <3>2, <3>3 DEF First
  <2>11. QED
    BY <2>6, <2>7, <2>8, <2>9, <2>10
<1>4. CASE PlacesOf(n) = {}
  <2>1. environ' = Append(environ, new) /\ moved' /\ UNCHANGED <<envp, shared, cut>>
    BY <1>4 DEF setenv, new
  <2>2. /\ environ' \in Seq(Variable) /\ Len(environ') = Len(environ) + 1
        /\ DOMAIN environ' = 1 .. Len(environ) + 1
        /\ \A j \in DOMAIN environ : environ'[j] = environ[j]
        /\ environ'[Len(environ) + 1] = new
    BY <1>1, <1>2, <2>1
  <2>3. \A j \in DOMAIN environ' : j \in DOMAIN environ \/ j = Len(environ) + 1
    BY <1>2, <2>2
  <2>4. EnvTypes'
    BY <2>1, <2>2 DEF EnvInv, EnvTypes
  <2>5. Arrays'
    <3>1. Len(envp') <= Len(environ')
      BY <1>2, <2>1, <2>2 DEF EnvInv, Arrays
    <3>2. shared \subseteq DOMAIN envp /\ DOMAIN envp \subseteq DOMAIN environ
      BY EnvTyped DEF EnvInv, EnvTypes
    <3>3. QED
      BY <2>1, <2>2, <3>1, <3>2 DEF EnvInv, Arrays
  <2>6. Cutting'
    BY <2>1 DEF EnvInv, Cutting
  <2>7. ASSUME NEW m, NEW j, m # n, First(j, m)
        PROVE  First(j, m)' /\ environ'[j] = environ[j]
    <3>1. j \in DOMAIN environ /\ j \in DOMAIN environ' /\ j <= Len(environ)
      BY <1>2, <2>2, <2>7 DEF First
    <3>2. \A i \in DOMAIN environ' : i < j => i \in DOMAIN environ
      BY <1>2, <2>2, <3>1
    <3>3. QED
      BY <2>2, <2>7, <3>1, <3>2 DEF First
  <2>8. ASSUME ~Hidden(n)
        PROVE  \E i \in DOMAIN environ' : First(i, n)' /\ environ'[i].value = v
    <3>1. \A j \in DOMAIN environ : environ[j].name # n
      BY <1>4, <2>8 DEF PlacesOf, Hidden
    <3>2. Len(environ) + 1 \in DOMAIN environ'
      BY <1>2, <2>2
    <3>3. \A j \in DOMAIN environ' : j < Len(environ) + 1 => environ'[j].name # n
      BY <1>2, <2>2, <2>3, <3>1
    <3>4. QED
      BY <1>1, <2>2, <3>2, <3>3 DEF First
  <2>9. QED
    BY <2>4, <2>5, <2>6, <2>7, <2>8
<1>5. QED
  BY <1>3, <1>4

LEMMA SetStep ==
  ASSUME EnvInv, NEW n \in EnvNames, NEW v \in EnvValues, env_setProperty(n, v)
  PROVE  EnvInv'
<1>1. /\ setenv(n, v) /\ UNCHANGED listing /\ props' = Holding(props, n, v)
      /\ astray' = IF Hidden(n) THEN astray \cup {n} ELSE astray \ {n}
  BY DEF env_setProperty
<1>2. /\ EnvTypes' /\ Arrays' /\ Cutting'
      /\ \A m : \A k : m # n /\ First(k, m) => First(k, m)' /\ environ'[k] = environ[k]
      /\ ~Hidden(n) => \E k \in DOMAIN environ' : First(k, n)' /\ environ'[k].value = v
  BY <1>1, SetKeeps
<1>3. Copies'
  <2> SUFFICES ASSUME NEW m \in DOMAIN props' \ astray'
               PROVE  \E k \in DOMAIN environ' : First(k, m)' /\ props'[m] = environ'[k].value
    BY DEF Copies
  <2>1. CASE m = n
    <3>1. ~Hidden(n)
      BY <1>1, <2>1
    <3>2. QED
      BY <1>1, <1>2, <2>1, <3>1 DEF Holding
  <2>2. CASE m # n
    <3>1. m \in DOMAIN props \ astray /\ props'[m] = props[m]
      BY <1>1, <2>2 DEF Holding
    <3>2. PICK k \in DOMAIN environ : First(k, m) /\ props[m] = environ[k].value
      BY <3>1 DEF EnvInv, Copies
    <3>3. First(k, m)' /\ environ'[k] = environ[k]
      BY <1>2, <2>2, <3>2
    <3>4. k \in DOMAIN environ'
      BY <3>3 DEF First
    <3>5. QED
      BY <3>1, <3>2, <3>3, <3>4
  <2>3. QED
    BY <2>1, <2>2
<1>4. QED
  BY <1>2, <1>3 DEF EnvInv

\* A step that leaves the process alone, and whose new properties are copies
LEMMA ProcessStays ==
  ASSUME EnvInv, UNCHANGED <<environ, envp, moved, shared>>, EnvTypes', Cutting',
         astray \subseteq astray',
         \A n \in DOMAIN props' \ astray' :
            \/ n \in DOMAIN props /\ props'[n] = props[n]
            \/ \E k \in DOMAIN environ : First(k, n) /\ props'[n] = environ[k].value
  PROVE  EnvInv'
<1>1. Arrays'
  BY DEF EnvInv, Arrays
<1>2. \A k, n : First(k, n)' <=> First(k, n)
  BY DEF First
<1>3. Copies'
  BY <1>2 DEF EnvInv, Copies
<1>4. QED
  BY <1>1, <1>3 DEF EnvInv

LEMMA SetFailsStep ==
  ASSUME EnvInv, NEW n \in EnvNames, SetFails(n)
  PROVE  EnvInv'
<1>1. /\ UNCHANGED <<environ, envp, moved, shared, cut, listing>>
      /\ props' = Holding(props, n, Unset) /\ astray' = astray \cup {n}
  BY DEF SetFails, processVars
<1>2. EnvTypes' /\ Cutting'
  BY <1>1 DEF EnvInv, EnvTypes, Cutting
<1>3. \A m \in DOMAIN props' \ astray' : m \in DOMAIN props /\ props'[m] = props[m]
  BY <1>1 DEF Holding
<1>4. QED
  BY <1>1, <1>2, <1>3, ProcessStays

LEMMA ResolveStep ==
  ASSUME EnvInv, NEW n \in EnvNames, env_resolve(n)
  PROVE  EnvInv'
<1>1. /\ UNCHANGED <<environ, envp, moved, shared, cut, listing>>
      /\ props' = Holding(props, n, getenv(n)) /\ getenv(n) # Unset
      /\ astray' = IF Hidden(n) THEN astray \cup {n} ELSE astray
  BY DEF env_resolve, processVars
<1>2. EnvTypes' /\ Cutting'
  BY <1>1 DEF EnvInv, EnvTypes, Cutting
<1>3. ASSUME NEW m \in DOMAIN props' \ astray'
      PROVE  \/ m \in DOMAIN props /\ props'[m] = props[m]
             \/ \E k \in DOMAIN environ : First(k, m) /\ props'[m] = environ[k].value
  <2>1. CASE m = n
    <3>1. ~Hidden(n) /\ props'[n] = getenv(n)
      BY <1>1, <2>1 DEF Holding
    <3>2. PlacesOf(n) # {} /\ getenv(n) = environ[Min(PlacesOf(n))].value
      BY <1>1 DEF getenv
    <3>3. First(Min(PlacesOf(n)), n)
      BY <3>1, <3>2, Found
    <3>4. Min(PlacesOf(n)) \in DOMAIN environ
      BY <3>3 DEF First
    <3>5. QED
      BY <2>1, <3>1, <3>2, <3>3, <3>4
  <2>2. CASE m # n
    BY <1>1, <2>2 DEF Holding
  <2>3. QED
    BY <2>1, <2>2
<1>4. astray \subseteq astray'
  BY <1>1
<1>5. QED
  BY <1>1, <1>2, <1>3, <1>4, ProcessStays

LEMMA DeleteStep ==
  ASSUME EnvInv, NEW n \in EnvNames, DeleteProperty(n)
  PROVE  EnvInv'
<1>1. /\ UNCHANGED <<environ, envp, moved, shared, cut, listing, astray>>
      /\ props' = [m \in DOMAIN props \ {n} |-> props[m]]
  BY DEF DeleteProperty, processVars
<1>2. EnvTypes' /\ Cutting'
  BY <1>1 DEF EnvInv, EnvTypes, Cutting
<1>3. \A m \in DOMAIN props' \ astray' : m \in DOMAIN props /\ props'[m] = props[m]
  BY <1>1
<1>4. QED
  BY <1>1, <1>2, <1>3, ProcessStays

\* A thread that begins or ends its listing
LEMMA ListingStep ==
  ASSUME EnvInv, NEW t \in EnvThreads, ListingBegins(t) \/ ListingEnds(t)
  PROVE  EnvInv'
<1>1. /\ UNCHANGED <<environ, envp, moved, shared, cut, props, astray>>
      /\ listing[t] >= 0
      /\ \E new \in Nat : listing' = [listing EXCEPT ![t] = new]
  BY EnvTyped DEF ListingBegins, ListingEnds, processVars, EnvInv, EnvTypes
<1>2. EnvTypes'
  BY <1>1 DEF EnvInv, EnvTypes
<1>3. listing'[t] >= 0 /\ \A u \in EnvThreads : u # t => listing'[u] = listing[u]
  BY <1>1 DEF EnvInv, EnvTypes
<1>4. cut \subseteq Nat \ {0} /\ \A u \in EnvThreads : listing[u] \in Int /\ listing'[u] \in Int
  BY <1>2, EnvTyped DEF EnvInv, EnvTypes
<1>5. Cutting'
  <2>1. ASSUME NEW k \in cut
        PROVE  \E u \in EnvThreads : listing'[u] = -k
    <3>1. PICK u \in EnvThreads : listing[u] = -k
      BY DEF EnvInv, Cutting
    <3>2. u # t
      BY <1>1, <1>4, <3>1
    <3>3. QED
      BY <1>3, <3>1, <3>2
  <2>2. \A u \in EnvThreads : listing'[u] < 0 => u # t /\ listing'[u] = listing[u]
    BY <1>3, <1>4
  <2>3. QED
    BY <1>1, <2>1, <2>2 DEF EnvInv, Cutting
<1>6. QED
  BY <1>1, <1>2, <1>5, ProcessStays

\* The thread that overwrites the '=' is the only one that has the string.
LEMMA CutsStep ==
  ASSUME EnvInv, NEW t \in EnvThreads, NEW k \in DOMAIN envp, CutsName(t, k)
  PROVE  EnvInv'
<1>1. /\ UNCHANGED <<environ, envp, moved, shared, props, astray>>
      /\ listing[t] = k
      /\ \/ k \in cut /\ listing' = [listing EXCEPT ![t] = k + 1] /\ UNCHANGED cut
         \/ k \notin cut /\ listing' = [listing EXCEPT ![t] = -k] /\ cut' = cut \cup {k}
  BY DEF CutsName, Looking
<1>2. k \in Nat \ {0} /\ cut \subseteq Nat \ {0} /\ listing \in [EnvThreads -> Int]
  BY EnvTyped DEF EnvInv, EnvTypes
<1>3. EnvTypes'
  BY <1>1, <1>2 DEF EnvInv, EnvTypes
<1>4. \A u \in EnvThreads : u # t => listing'[u] = listing[u]
  BY <1>1, <1>2
<1>5. Cutting'
  <2>1. ASSUME NEW j \in cut
        PROVE  \E u \in EnvThreads : listing'[u] = -j
    <3>1. PICK u \in EnvThreads : listing[u] = -j
      BY DEF EnvInv, Cutting
    <3>2. u # t
      BY <1>1, <1>2, <3>1
    <3>3. QED
      BY <1>4, <3>1, <3>2
  <2>2. CASE k \in cut /\ listing' = [listing EXCEPT ![t] = k + 1] /\ UNCHANGED cut
    <3>1. listing'[t] = k + 1
      BY <1>2, <2>2
    <3>2. \A u \in EnvThreads : listing'[u] < 0 => u # t /\ listing'[u] = listing[u]
      BY <1>2, <1>4, <3>1
    <3>3. QED
      BY <2>1, <2>2, <3>2 DEF EnvInv, Cutting
  <2>3. CASE k \notin cut /\ listing' = [listing EXCEPT ![t] = -k] /\ cut' = cut \cup {k}
    <3>1. listing'[t] = -k
      BY <1>2, <2>3
    <3>2. \A u \in EnvThreads : u # t => listing[u] # -k
      <4>1. \A u \in EnvThreads : listing[u] < 0 => -listing[u] \in cut
        BY DEF EnvInv, Cutting
      <4>2. ASSUME NEW u \in EnvThreads, listing[u] = -k
            PROVE  FALSE
        <5>1. listing[u] < 0 /\ -listing[u] = k
          BY <1>2, <4>2
        <5>2. QED
          BY <4>1, <5>1, <2>3
      <4>3. QED
        BY <4>2
    <3>3. \A j \in cut' : \E u \in EnvThreads : listing'[u] = -j
      BY <2>1, <2>3, <3>1
    <3>4. \A u \in EnvThreads : listing'[u] < 0 => -listing'[u] \in cut'
      <4>1. -listing'[t] = k
        BY <1>2, <3>1
      <4>2. QED
        BY <1>4, <2>3, <4>1 DEF EnvInv, Cutting
    <3>5. \A u, w \in EnvThreads : listing'[u] < 0 /\ listing'[u] = listing'[w] => u = w
      BY <1>4, <3>1, <3>2 DEF EnvInv, Cutting
    <3>6. QED
      BY <3>3, <3>4, <3>5 DEF Cutting
  <2>4. QED
    BY <1>1, <2>2, <2>3
<1>6. QED
  BY <1>1, <1>3, <1>5, ProcessStays

\* It gives the '=' back, and copies the value the process has at a shared
\* place, which is the first of its name.
LEMMA DefinesStep ==
  ASSUME EnvInv, NEW t \in EnvThreads, NEW k \in DOMAIN envp, DefinesName(t, k)
  PROVE  EnvInv'
<1> DEFINE n == envp[k].name
<1>1. /\ UNCHANGED <<environ, envp, moved, shared>>
      /\ listing[t] = -k /\ cut' = cut \ {k}
      /\ \/ /\ props' = Holding(props, n, envp[k].value)
            /\ astray' = IF k \in shared THEN astray ELSE astray \cup {n}
            /\ listing' = [listing EXCEPT ![t] = k + 1]
         \/ listing' = [listing EXCEPT ![t] = 0] /\ UNCHANGED <<props, astray>>
  BY DEF DefinesName
<1>2. k \in Nat \ {0} /\ cut \subseteq Nat \ {0} /\ listing \in [EnvThreads -> Int]
  BY EnvTyped DEF EnvInv, EnvTypes
<1>3. EnvTypes'
  BY <1>1, <1>2 DEF EnvInv, EnvTypes
<1>4. listing'[t] >= 0 /\ \A u \in EnvThreads : u # t => listing'[u] = listing[u]
  BY <1>1, <1>2
<1>5. Cutting'
  <2>1. ASSUME NEW j \in cut'
        PROVE  \E u \in EnvThreads : listing'[u] = -j
    <3>1. PICK u \in EnvThreads : listing[u] = -j
      BY <1>1 DEF EnvInv, Cutting
    <3>2. u # t
      BY <1>1, <1>2, <3>1
    <3>3. QED
      BY <1>4, <3>1, <3>2
  <2>2. ASSUME NEW u \in EnvThreads, listing'[u] < 0
        PROVE  u # t /\ listing'[u] = listing[u] /\ -listing'[u] \in cut'
    <3>1. u # t /\ listing'[u] = listing[u]
      BY <1>2, <1>3, <1>4, <2>2 DEF EnvTypes
    <3>2. -listing[u] \in cut
      BY <2>2, <3>1 DEF EnvInv, Cutting
    <3>3. -listing[u] # k
      <4>1. listing[u] # listing[t]
        BY <2>2, <3>1 DEF EnvInv, Cutting
      <4>2. QED
        BY <1>1, <1>2, <4>1
    <3>4. QED
      BY <1>1, <3>1, <3>2, <3>3
  <2>3. QED
    BY <2>1, <2>2 DEF EnvInv, Cutting
<1>6. astray \subseteq astray'
  BY <1>1
<1>7. ASSUME NEW m \in DOMAIN props' \ astray'
      PROVE  \/ m \in DOMAIN props /\ props'[m] = props[m]
             \/ \E j \in DOMAIN environ : First(j, m) /\ props'[m] = environ[j].value
  <2>1. CASE UNCHANGED props
    BY <2>1
  <2>2. CASE props' = Holding(props, n, envp[k].value) /\ m # n
    BY <2>2 DEF Holding
  <2>3. CASE /\ props' = Holding(props, n, envp[k].value) /\ m = n
             /\ astray' = IF k \in shared THEN astray ELSE astray \cup {n}
    <3>1. k \in shared /\ props'[m] = envp[k].value
      BY <2>3 DEF Holding
    <3>2. k \in DOMAIN environ /\ environ[k] = envp[k]
      BY <3>1, EnvTyped DEF EnvInv, Arrays
    <3>3. ASSUME NEW j \in DOMAIN environ, j < k, environ[j].name = n
          PROVE  FALSE
      <4>1. j \in DOMAIN envp
        BY <3>3, EnvTyped
      <4>2. envp[j].name = n
        BY <3>3, <4>1 DEF EnvInv, Arrays
      <4>3. j = k
        BY <4>1, <4>2 DEF EnvInv, Arrays
      <4>4. QED
        BY <3>3, <4>3, <1>2
    <3>4. First(k, m)
      BY <2>3, <3>2, <3>3 DEF First
    <3>5. QED
      BY <3>1, <3>2, <3>4
  <2>4. QED
    BY <1>1, <2>1, <2>2, <2>3
<1>8. QED
  BY <1>1, <1>3, <1>5, <1>6, <1>7, ProcessStays

LEMMA EnvironStep ==
  ASSUME EnvInv, [EnvironNext]_envVars
  PROVE  EnvInv'
<1>1. CASE UNCHANGED envVars
  BY <1>1 DEF envVars, EnvInv, EnvTypes, Arrays, Cutting, Copies, First
<1>2. QED
  BY <1>1, SetStep, SetFailsStep, ResolveStep, DeleteStep, ListingStep, CutsStep, DefinesStep
     DEF EnvironNext

LEMMA EnvironStarts == EnvironInit => EnvInv
<1> SUFFICES ASSUME EnvironInit PROVE EnvInv
  OBVIOUS
<1>1. EnvTypes
  <2>1. environ \in Seq(Variable) /\ envp \in Seq(Variable)
    BY EnvironAssumption DEF EnvironInit, Variable
  <2>2. cut \subseteq DOMAIN envp /\ shared \subseteq DOMAIN envp /\ moved \in BOOLEAN
    BY DEF EnvironInit
  <2>3. listing \in [EnvThreads -> Int]
    BY DEF EnvironInit
  <2>4. QED
    BY <2>1, <2>2, <2>3 DEF EnvTypes
<1>2. Arrays
  BY EnvironAssumption DEF EnvironInit, Arrays
<1>3. Cutting /\ Copies
  BY DEF EnvironInit, Cutting, Copies
<1>4. QED
  BY <1>1, <1>2, <1>3 DEF EnvInv

\* No string of the process is left without its '=', and a property that is not
\* astray has the value of its variable, for any variables and any number of
\* threads that set, ask for, delete and list them.
THEOREM EnvironTheorem == EnvironSpec => []EnvAgrees
<1>1. ASSUME EnvInv, \A t \in EnvThreads : listing[t] = 0
      PROVE  cut = {} /\ \A n \in DOMAIN props \ astray : props[n] = getenv(n)
  <2>1. cut = {}
    BY <1>1, EnvTyped DEF EnvInv, EnvTypes, Cutting
  <2>2. ASSUME NEW n \in DOMAIN props \ astray
        PROVE  props[n] = getenv(n)
    <3>1. PICK k \in DOMAIN environ : First(k, n) /\ props[n] = environ[k].value
      BY <1>1 DEF EnvInv, Copies
    <3>2. k \in PlacesOf(n) /\ ~Hidden(n)
      BY <2>1, <3>1 DEF First, PlacesOf, Hidden
    <3>3. First(Min(PlacesOf(n)), n)
      BY <1>1, <3>2, Found
    <3>4. k = Min(PlacesOf(n))
      <4> DEFINE m == Min(PlacesOf(n))
      <4> HIDE DEF m
      <4>1. First(m, n)
        BY <3>3 DEF m
      <4>2. m \in Nat /\ k \in Nat /\ ~(k < m) /\ ~(m < k)
        BY <1>1, <3>1, <4>1, EnvTyped DEF First
      <4>3. k = m
        BY <4>2
      <4>4. QED
        BY <4>3 DEF m
    <3>5. QED
      BY <3>1, <3>2, <3>4 DEF getenv
  <2>3. QED
    BY <2>1, <2>2
<1>2. EnvInv => EnvAgrees
  BY <1>1 DEF EnvAgrees
<1>3. QED
  BY <1>2, EnvironStep, EnvironStarts, PTL DEF EnvironSpec
=============================================================================
