------------------------------ MODULE Scatter -------------------------------
(***************************************************************************)
(* scatter(fns) of js.cpp: the calling thread roots the functions and the  *)
(* slots for their results, creates a context and a thread for every       *)
(* function but the first, lets the threads go, runs the first function    *)
(* itself, joins the others and builds the array.  Every allocation and    *)
(* creation can fail, and the failure paths are modelled to their end.     *)
(*                                                                         *)
(* The engine around it: a garbage collection, which any thread running    *)
(* script may start, waits until every other thread inside a request runs  *)
(* script too (it yields there), and threads cannot begin or resume a      *)
(* request meanwhile; CancelExecution sets gCanceled and then flags the    *)
(* contexts in the list of the runtime.                                    *)
(***************************************************************************)
EXTENDS Naturals, FiniteSets

CONSTANTS
    N,          \* the length of the array of functions
    Others,     \* threads that run scripts besides, and may collect garbage
    Nobody

ASSUME ScatterAssumption ==
    /\ N \in Nat
    /\ Nobody \notin Nat \cup Others
    /\ Others \cap Nat = {}

Fns == 0 .. N - 1
Workers == 1 .. N - 1
\* The caller is thread 0 even when there is no function for it to run.
Threads == {0} \cup Workers \cup Others

VARIABLES
    pc,         \* of the caller
    i,          \* its loop variable
    status,     \* sd.status
    ok,         \* what the native returns
    wpc,        \* of every worker
    rval,       \* the slots of sd.results
    resultRoots, fnRoots,
    cx,         \* the owner of each worker's context, or what became of it
    flagged,    \* the contexts whose operation callback was triggered
    inRequest,
    gc,         \* who collects garbage, or Nobody
    gCanceled, triggered,
    mem         \* which of sd.results and sd.threads are allocated

scatterVars == <<pc, i, status, ok, wpc, rval, resultRoots, fnRoots, cx, flagged,
                 inRequest, mem>>
vars == <<scatterVars, gc, gCanceled, triggered>>

\* Values of a result slot
Unset == "unset"
Void == "void"
Value == "value"

Init ==
    /\ pc = "alloc"
    /\ i = 0
    /\ status = "wait"
    /\ ok = FALSE
    /\ wpc = [k \in Workers |-> "none"]
    /\ rval = [k \in Fns |-> Unset]
    /\ resultRoots = {} /\ fnRoots = {}
    /\ cx = [k \in Workers |-> "none"]
    /\ flagged = {}
    /\ inRequest = [t \in Threads |-> t \notin Workers]
    /\ gc = Nobody
    /\ gCanceled = FALSE /\ triggered = FALSE
    /\ mem = {}

\* PR_JoinThread returns: the worker ran its function, or gave up before.
Ended(k) == wpc[k] \in {"exited", "gone"}

At(p) == pc = p /\ gc # 0
Fail == pc' = "out" /\ ok' = FALSE

-----------------------------------------------------------------------------
(* The caller sets up.                                                     *)

\* PR_NewLock, PR_NewCondVar, malloc of the results
Alloc ==
    /\ At("alloc")
    /\ \/ pc' = (IF N = 0 THEN "array" ELSE "results")
          /\ mem' = (IF N = 0 THEN {} ELSE {"results"})
          /\ UNCHANGED ok
       \/ N > 0 /\ Fail /\ UNCHANGED mem
    /\ UNCHANGED <<i, status, wpc, rval, resultRoots, fnRoots, cx, flagged, inRequest,
                   gc, gCanceled, triggered>>

\* A mutant: the slots of the results are not rooted.
RootsNothing ==
    /\ At("results")
    /\ i < N
    /\ rval' = [rval EXCEPT ![i] = Void]
    /\ i' = i + 1
    /\ UNCHANGED <<pc, ok, mem, status, wpc, resultRoots, fnRoots, cx, flagged,
                   inRequest, gc, gCanceled, triggered>>

RootResult ==
    /\ At("results")
    /\ i < N
    /\ rval' = [rval EXCEPT ![i] = Void]
    /\ \/ /\ resultRoots' = resultRoots \cup {i}
          /\ i' = i + 1
          /\ UNCHANGED <<pc, ok, mem>>
       \/ /\ resultRoots' = resultRoots \ {k \in Fns : k < i}
          /\ mem' = mem \ {"results"}
          /\ Fail
          /\ UNCHANGED i
    /\ UNCHANGED <<status, wpc, fnRoots, cx, flagged, inRequest, gc, gCanceled,
                   triggered>>

\* malloc of the threads
AllocThreads ==
    /\ At("results")
    /\ i = N
    /\ \/ pc' = "functions" /\ i' = 0 /\ mem' = mem \cup {"threads"} /\ UNCHANGED ok
       \/ Fail /\ UNCHANGED <<i, mem>>
    /\ UNCHANGED <<status, wpc, rval, resultRoots, fnRoots, cx, flagged, inRequest, gc,
                   gCanceled, triggered>>

\* A mutant: the loop that takes the roots back stops before the first.
RootFunctionForgetsFirst ==
    /\ At("functions")
    /\ i < N
    /\ \/ /\ fnRoots' = fnRoots \cup {i}
          /\ i' = i + 1
          /\ UNCHANGED <<pc, ok, mem>>
       \/ /\ fnRoots' = fnRoots \ {k \in Fns : 0 < k /\ k < i}
          /\ mem' = mem \ {"threads"}
          /\ Fail
          /\ UNCHANGED i
    /\ UNCHANGED <<status, wpc, rval, resultRoots, cx, flagged, inRequest, gc,
                   gCanceled, triggered>>

\* JS_AddRoot, then JS_GetElement, which runs script if it is a getter
RootFunction ==
    /\ At("functions")
    /\ i < N
    /\ \/ /\ fnRoots' = fnRoots \cup {i}
          /\ i' = i + 1
          /\ UNCHANGED <<pc, ok, mem>>
       \/ /\ fnRoots' = fnRoots \ {k \in Fns : k < i}
          /\ mem' = mem \ {"threads"}
          /\ Fail
          /\ UNCHANGED i
    /\ UNCHANGED <<status, wpc, rval, resultRoots, cx, flagged, inRequest, gc,
                   gCanceled, triggered>>

StartContexts ==
    /\ At("functions")
    /\ i = N
    /\ pc' = "contexts"
    /\ i' = 1
    /\ UNCHANGED <<status, ok, wpc, rval, resultRoots, fnRoots, cx, flagged, inRequest,
                   gc, gCanceled, triggered, mem>>

\* JS_NewContext puts the context into the list of the runtime ...
LinkContext ==
    /\ At("contexts")
    /\ i < N
    /\ cx[i] = "none"
    /\ cx' = [cx EXCEPT ![i] = "new"]
    /\ UNCHANGED <<pc, i, status, ok, wpc, rval, resultRoots, fnRoots, flagged,
                   inRequest, gc, gCanceled, triggered, mem>>

\* A mutant: NewContextData does not look at gCanceled.
ContextUnchecked ==
    /\ At("contexts")
    /\ i < N
    /\ cx[i] = "new"
    /\ cx' = [cx EXCEPT ![i] = "unowned"]
    /\ i' = i + 1
    /\ UNCHANGED <<pc, ok, flagged, status, wpc, rval, resultRoots, fnRoots, inRequest,
                   gc, gCanceled, triggered, mem>>

\* ... then ContextCallback asks NewContextData, which fails after a
\* cancellation, or for lack of memory; JS_ClearContextThread follows.
CheckContext ==
    /\ At("contexts")
    /\ i < N
    /\ cx[i] = "new"
    /\ \/ /\ ~gCanceled
          /\ cx' = [cx EXCEPT ![i] = "unowned"]
          /\ i' = i + 1
          /\ UNCHANGED <<pc, ok, flagged>>
       \/ /\ cx' = [cx EXCEPT ![i] = "none"]
          /\ flagged' = flagged \ {i}
          /\ Fail
          /\ UNCHANGED i
    /\ UNCHANGED <<status, wpc, rval, resultRoots, fnRoots, inRequest, gc, gCanceled,
                   triggered, mem>>

StartThreads ==
    /\ At("contexts")
    /\ i >= N
    /\ pc' = "spawn"
    /\ i' = 1
    /\ UNCHANGED <<status, ok, wpc, rval, resultRoots, fnRoots, cx, flagged, inRequest,
                   gc, gCanceled, triggered, mem>>

\* PR_NotifyAllCondVar(sd.cvar): every waiting worker looks again.
NotifyAll == wpc' = [k \in Workers |-> IF wpc[k] = "waiting" THEN "check" ELSE wpc[k]]

Spawn ==
    /\ At("spawn")
    /\ i < N
    /\ wpc' = [wpc EXCEPT ![i] = "start"]
    /\ i' = i + 1
    /\ UNCHANGED <<pc, status, ok, rval, resultRoots, fnRoots, cx, flagged, inRequest,
                   gc, gCanceled, triggered, mem>>

SpawnFails ==
    /\ At("spawn")
    /\ i < N
    /\ status' = "cancel"
    /\ NotifyAll
    /\ pc' = "cancelled"
    /\ UNCHANGED <<i, ok, rval, resultRoots, fnRoots, cx, flagged, inRequest, gc,
                   gCanceled, triggered, mem>>

\* while (i-- > 1) PR_JoinThread, inside the caller's request
CancelJoin ==
    /\ At("cancelled")
    /\ IF i > 1
       THEN /\ Ended(i - 1)
            /\ i' = i - 1
            /\ UNCHANGED <<pc, ok>>
       ELSE Fail /\ UNCHANGED i
    /\ UNCHANGED <<status, wpc, rval, resultRoots, fnRoots, cx, flagged, inRequest, gc,
                   gCanceled, triggered, mem>>

-----------------------------------------------------------------------------
(* The caller runs the first function, joins and returns.                  *)

Go ==
    /\ At("spawn")
    /\ i >= N
    /\ status' = "go"
    /\ NotifyAll
    /\ pc' = "work"
    /\ UNCHANGED <<i, ok, rval, resultRoots, fnRoots, cx, flagged, inRequest, gc,
                   gCanceled, triggered, mem>>

\* DoScatteredWork: the value returned, the exception, or nothing
CallerWorks ==
    /\ At("work")
    /\ \E v \in {Void, Value} : rval' = [rval EXCEPT ![0] = v]
    /\ pc' = "suspend"
    /\ UNCHANGED <<i, status, ok, wpc, resultRoots, fnRoots, cx, flagged, inRequest, gc,
                   gCanceled, triggered, mem>>

\* A mutant: the caller joins the threads inside its request.
JoinsInRequest ==
    /\ At("suspend")
    /\ pc' = "join"
    /\ i' = 1
    /\ UNCHANGED <<status, ok, wpc, rval, resultRoots, fnRoots, cx, flagged, inRequest,
                   gc, gCanceled, triggered, mem>>

SuspendRequest ==
    /\ At("suspend")
    /\ inRequest' = [inRequest EXCEPT ![0] = FALSE]
    /\ pc' = "join"
    /\ i' = 1
    /\ UNCHANGED <<status, ok, wpc, rval, resultRoots, fnRoots, cx, flagged, gc,
                   gCanceled, triggered, mem>>

\* A mutant: PR_JoinThread is not waited for.
JoinsNobody ==
    /\ At("join")
    /\ i < N
    /\ i' = i + 1
    /\ UNCHANGED <<pc, status, ok, wpc, rval, resultRoots, fnRoots, cx, flagged,
                   inRequest, gc, gCanceled, triggered, mem>>

Join ==
    /\ At("join")
    /\ i < N
    /\ Ended(i)
    /\ i' = i + 1
    /\ UNCHANGED <<pc, status, ok, wpc, rval, resultRoots, fnRoots, cx, flagged,
                   inRequest, gc, gCanceled, triggered, mem>>

ResumeRequest ==
    /\ At("join")
    /\ i >= N
    /\ gc = Nobody
    /\ inRequest' = [inRequest EXCEPT ![0] = TRUE]
    /\ pc' = "array"
    /\ UNCHANGED <<i, status, ok, wpc, rval, resultRoots, fnRoots, cx, flagged, gc,
                   gCanceled, triggered, mem>>

\* JS_NewArrayObject copies the results.
NewArray ==
    /\ At("array")
    /\ ok' \in BOOLEAN
    /\ pc' = "out"
    /\ UNCHANGED <<i, status, wpc, rval, resultRoots, fnRoots, cx, flagged, inRequest,
                   gc, gCanceled, triggered, mem>>

\* The code after the label out: contexts are taken over and destroyed, roots
\* removed.
Out ==
    /\ At("out")
    /\ IF "threads" \in mem
       THEN /\ cx' = [k \in Workers |-> "none"]
            /\ flagged' = {}
            /\ fnRoots' = {}
       ELSE UNCHANGED <<cx, flagged, fnRoots>>
    /\ resultRoots' = (IF "results" \in mem THEN {} ELSE resultRoots)
    /\ mem' = {}
    /\ pc' = "done"
    /\ UNCHANGED <<i, status, ok, wpc, rval, inRequest, gc, gCanceled, triggered>>

Caller ==
    \/ Alloc
    \/ RootResult
    \/ AllocThreads
    \/ RootFunction
    \/ StartContexts
    \/ LinkContext
    \/ CheckContext
    \/ StartThreads
    \/ Spawn
    \/ SpawnFails
    \/ CancelJoin
    \/ Go
    \/ CallerWorks
    \/ SuspendRequest
    \/ Join
    \/ ResumeRequest
    \/ NewArray
    \/ Out

-----------------------------------------------------------------------------
(* RunScatterThread.                                                       *)

Step(k, from, to) == wpc[k] = from /\ gc # k /\ wpc' = [wpc EXCEPT ![k] = to]

\* PR_SetThreadPrivate can fail, and the thread ends without a word.
ThreadStarts(k) ==
    /\ \/ Step(k, "start", "check")
       \/ Step(k, "start", "gone")
    /\ UNCHANGED <<pc, i, status, ok, rval, resultRoots, fnRoots, cx, flagged,
                   inRequest, gc, gCanceled, triggered, mem>>

\* A mutant: a worker that is woken to be cancelled goes.
CheckGoes(k) ==
    /\ Step(k, "check", IF status = "wait" THEN "waiting" ELSE "attach")
    /\ UNCHANGED <<pc, i, status, ok, rval, resultRoots, fnRoots, cx, flagged,
                   inRequest, gc, gCanceled, triggered, mem>>

\* while ((st = status) == SCATTER_WAIT) PR_WaitCondVar, under sd.lock
CheckStatus(k) ==
    /\ Step(k, "check", CASE status = "wait" -> "waiting"
                          [] status = "go" -> "attach"
                          [] status = "cancel" -> "gone")
    /\ UNCHANGED <<pc, i, status, ok, rval, resultRoots, fnRoots, cx, flagged,
                   inRequest, gc, gCanceled, triggered, mem>>

\* JS_SetContextThread
Attach(k) ==
    /\ Step(k, "attach", "begin")
    /\ cx' = [cx EXCEPT ![k] = "owned"]
    /\ UNCHANGED <<pc, i, status, ok, rval, resultRoots, fnRoots, flagged, inRequest,
                   gc, gCanceled, triggered, mem>>

BeginRequest(k) ==
    /\ Step(k, "begin", "work")
    /\ gc = Nobody
    /\ inRequest' = [inRequest EXCEPT ![k] = TRUE]
    /\ UNCHANGED <<pc, i, status, ok, rval, resultRoots, fnRoots, cx, flagged, gc,
                   gCanceled, triggered, mem>>

Work(k) ==
    /\ Step(k, "work", "end")
    /\ \E v \in {Void, Value} : rval' = [rval EXCEPT ![k] = v]
    /\ UNCHANGED <<pc, i, status, ok, resultRoots, fnRoots, cx, flagged, inRequest, gc,
                   gCanceled, triggered, mem>>

EndRequest(k) ==
    /\ Step(k, "end", "detach")
    /\ inRequest' = [inRequest EXCEPT ![k] = FALSE]
    /\ UNCHANGED <<pc, i, status, ok, rval, resultRoots, fnRoots, cx, flagged, gc,
                   gCanceled, triggered, mem>>

\* JS_ClearContextThread
Detach(k) ==
    /\ Step(k, "detach", "exited")
    /\ cx' = [cx EXCEPT ![k] = "unowned"]
    /\ UNCHANGED <<pc, i, status, ok, rval, resultRoots, fnRoots, flagged, inRequest,
                   gc, gCanceled, triggered, mem>>

Worker(k) ==
    \/ ThreadStarts(k)
    \/ CheckStatus(k)
    \/ Attach(k)
    \/ BeginRequest(k)
    \/ Work(k)
    \/ EndRequest(k)
    \/ Detach(k)

-----------------------------------------------------------------------------
(* The collector and CancelExecution.                                      *)

\* Where a thread yields to a collector.
InScript(t) ==
    \/ t \in Others
    \/ t = 0 /\ pc = "work"
    \/ t \in Workers /\ wpc[t] = "work"

StartGC(t) ==
    /\ gc = Nobody
    /\ InScript(t) \/ (t = 0 /\ pc \in {"functions", "contexts", "array", "out"})
    /\ inRequest[t]
    /\ gc' = t
    /\ UNCHANGED <<scatterVars, gCanceled, triggered>>

\* A result the collector does not find is gone.
FinishGC ==
    /\ gc # Nobody
    /\ \A t \in Threads \ {gc} : inRequest[t] => InScript(t)
    /\ gc' = Nobody
    /\ rval' = [k \in Fns |-> IF rval[k] = Value /\ k \notin resultRoots
                              THEN "freed" ELSE rval[k]]
    /\ UNCHANGED <<pc, i, status, ok, wpc, resultRoots, fnRoots, cx, flagged, inRequest,
                   gCanceled, triggered, mem>>

SetCanceled ==
    /\ ~gCanceled
    /\ gCanceled' = TRUE
    /\ UNCHANGED <<scatterVars, gc, triggered>>

TriggerAll ==
    /\ gCanceled /\ ~triggered
    /\ triggered' = TRUE
    /\ flagged' = {k \in Workers : cx[k] # "none"}
    /\ UNCHANGED <<pc, i, status, ok, wpc, rval, resultRoots, fnRoots, cx, inRequest,
                   gc, gCanceled, mem>>

Next ==
    \/ Caller
    \/ \E k \in Workers : Worker(k)
    \/ \E t \in Threads : StartGC(t)
    \/ FinishGC
    \/ SetCanceled
    \/ TriggerAll

\* Functions end, threads run, and a collection happens as soon as it can;
\* between collections there is time for everything else (strong fairness).
\* No script is made to collect, and no limit to be reached.
Spec ==
    /\ Init /\ [][Next]_vars
    /\ SF_vars(Caller)
    /\ \A k \in Workers : SF_vars(Worker(k))
    /\ WF_vars(FinishGC)

-----------------------------------------------------------------------------
(* Properties.                                                             *)

TypeOK ==
    /\ pc \in {"alloc", "results", "functions", "contexts", "spawn", "cancelled",
               "work", "suspend", "join", "array", "out", "done"}
    /\ i \in 0 .. N + 1
    /\ status \in {"wait", "go", "cancel"}
    /\ ok \in BOOLEAN
    /\ wpc \in [Workers -> {"none", "start", "check", "waiting", "attach", "begin",
                            "work", "end", "detach", "exited", "gone"}]
    /\ rval \in [Fns -> {Unset, Void, Value, "freed"}]
    /\ resultRoots \subseteq Fns /\ fnRoots \subseteq Fns
    /\ cx \in [Workers -> {"none", "new", "unowned", "owned"}]
    /\ flagged \subseteq Workers
    /\ inRequest \in [Threads -> BOOLEAN]
    /\ gc \in Threads \cup {Nobody}
    /\ gCanceled \in BOOLEAN /\ triggered \in BOOLEAN
    /\ mem \subseteq {"results", "threads"}

\* Whatever failed on the way, scatter() leaves no root, no context and no
\* thread that could still touch its stack frame, and the caller is back in
\* its request.
CleanExit ==
    pc = "done" =>
        /\ resultRoots = {} /\ fnRoots = {} /\ mem = {}
        /\ \A k \in Workers : cx[k] = "none" /\ wpc[k] \in {"none", "exited", "gone"}
        /\ inRequest[0]

\* No function's result is collected before the array holds it.
ResultsSurvive == pc # "done" => \A k \in Fns : rval[k] # "freed"

\* The caller takes contexts over and destroys them only when no worker can
\* use its own any more, and a worker calls its function inside a request.
ContextsReleased ==
    /\ pc \in {"array", "out", "done"} =>
          \A k \in Workers : wpc[k] \in {"none", "exited", "gone"} /\ cx[k] # "owned"
    /\ \A k \in Workers : wpc[k] = "work" => inRequest[k] /\ cx[k] = "owned"

\* "Prevent creation of new contexts after we have been canceled": once the
\* callbacks are triggered, every context that may run a function was flagged.
NoContextEscapes ==
    triggered => \A k \in Workers : cx[k] \in {"unowned", "owned"} => k \in flagged

\* scatter() returns when the functions do, even if they collect garbage.
ScatterReturns == pc = "alloc" ~> pc = "done"

Promise == INSTANCE ForkJoin WITH
    Functions <- Fns,
    returned <- pc = "done",
    run <- [k \in Fns |->
              IF k = 0
              THEN IF status # "go" THEN "no"
                   ELSE IF pc = "work" THEN "running" ELSE "over"
              ELSE CASE wpc[k] = "work" -> "running"
                     [] wpc[k] \in {"end", "detach", "exited"} -> "over"
                     [] wpc[k] = "gone" -> "skipped"
                     [] OTHER -> "no"]

PromiseKept == Promise!FSpec
=============================================================================
