--------------------------- MODULE ScatterProofs ----------------------------
(***************************************************************************)
(* Proofs about Scatter, for any number of functions and of other threads. *)
(***************************************************************************)
EXTENDS Scatter, TLAPS

-----------------------------------------------------------------------------
(* The inductive invariant.                                                *)

Setup == {"alloc", "results", "functions", "contexts"}
Running == {"work", "suspend", "join"}
Over == {"array", "out", "done"}
Idle == {"none", "exited", "gone"}

\* How far the caller's loops have got.
Loops ==
    /\ pc = "alloc" => i = 0
    /\ pc \in {"results", "functions"} => i \in 0 .. N /\ N # 0
    /\ pc \in {"contexts", "spawn", "cancelled"} \cup Running => i \in 1 .. N

\* sd.status says which way the caller took ...
Signal ==
    /\ status = "wait" => pc \notin {"cancelled"} \cup Running
    /\ status = "go" => pc \in Running \cup Over
    /\ status = "cancel" => pc \in {"cancelled", "out", "done"}
    /\ pc = "array" /\ N # 0 => status = "go"

\* ... and how far each worker may be.
Progress ==
    \A k \in Workers :
        /\ pc \in Setup => wpc[k] = "none"
        /\ pc = "spawn" => (wpc[k] = "none" <=> k >= i)
        /\ pc = "cancelled" /\ k >= i => wpc[k] \in Idle
        /\ pc = "join" /\ k < i => Ended(k)
        /\ pc \in Over => wpc[k] \in Idle
        /\ status = "go" => wpc[k] # "none"
        /\ wpc[k] \in {"attach", "begin", "work", "end", "detach", "exited"}
              => status = "go"

\* Whose the contexts are, and who is in a request.
Contexts ==
    /\ inRequest[0] <=> pc # "join"
    /\ \A k \in Workers :
          /\ inRequest[k] <=> wpc[k] \in {"work", "end"}
          /\ cx[k] = "owned" <=> wpc[k] \in {"begin", "work", "end", "detach"}
          /\ pc \in {"alloc", "results", "functions"} => cx[k] = "none"
          /\ pc = "contexts" /\ k < i => cx[k] = "unowned"
          /\ pc = "contexts" /\ k > i => cx[k] = "none"
          /\ pc \in {"spawn", "cancelled"} \cup Running => cx[k] \in {"unowned", "owned"}

\* What is allocated and rooted, and which results there are.
Memory ==
    /\ pc \in {"results", "functions", "contexts", "spawn", "cancelled"} \cup Running
          => "results" \in mem
    /\ pc \in {"functions", "contexts", "spawn", "cancelled"} \cup Running
          => "threads" \in mem
    /\ "results" \notin mem => resultRoots = {}
    /\ "threads" \notin mem => fnRoots = {} /\ \A k \in Workers : cx[k] = "none"
    /\ pc \in {"alloc", "results"} => "threads" \notin mem
    /\ pc = "results" => \A k \in resultRoots : k < i
    /\ pc = "functions" => \A k \in fnRoots : k < i
    /\ pc \in {"alloc", "done"} => mem = {}

Results ==
    /\ pc = "alloc" => resultRoots = {}
    /\ pc = "results" => \A k \in Fns : k \in resultRoots <=> k < i
    /\ pc \in {"functions", "contexts", "spawn", "cancelled"} \cup Running
          => \A k \in Fns : k \in resultRoots
    /\ pc \in {"alloc", "results"} => \A k \in Fns : rval[k] \notin {Value, "freed"}
    /\ pc # "done" =>
          \A k \in Fns : rval[k] # "freed" /\ (rval[k] = Value => k \in resultRoots)

Cancellation == (triggered => gCanceled) /\ NoContextEscapes

Inv ==
    /\ TypeOK
    /\ Loops
    /\ Signal
    /\ Progress
    /\ Contexts
    /\ Memory
    /\ Results
    /\ Cancellation

-----------------------------------------------------------------------------
(* The invariant holds at the start and every step keeps it.               *)

\* Nothing is allocated, started or cancelled when scatter() is called.
LEMMA InitInv == Init => Inv
<1> SUFFICES ASSUME Init PROVE Inv
  OBVIOUS
<1> USE ScatterAssumption DEF Fns, Workers, Threads, Setup, Running, Over, Idle,
        Unset, Void, Value
<1>0. /\ pc = "alloc" /\ i = 0 /\ status = "wait" /\ ok = FALSE
      /\ wpc = [k \in Workers |-> "none"] /\ cx = [k \in Workers |-> "none"]
      /\ rval = [k \in Fns |-> Unset]
      /\ resultRoots = {} /\ fnRoots = {} /\ flagged = {} /\ mem = {}
      /\ gc = Nobody /\ gCanceled = FALSE /\ triggered = FALSE
  BY DEF Init
<1>1. inRequest \in [Threads -> BOOLEAN]
  BY Zenon DEF Init
<1>2. TypeOK
  <2>1. /\ wpc \in [Workers -> {"none", "start", "check", "waiting", "attach", "begin",
                            "work", "end", "detach", "exited", "gone"}]
        /\ cx \in [Workers -> {"none", "new", "unowned", "owned"}]
        /\ rval \in [Fns -> {Unset, Void, Value, "freed"}]
    BY <1>0
  <2>2. i \in 0 .. N + 1 /\ gc \in Threads \cup {Nobody}
    BY <1>0
  <2>3. QED
    BY <1>0, <1>1, <2>1, <2>2 DEF TypeOK
<1>3. Loops /\ Signal
  BY <1>0 DEF Loops, Signal
<1>4. Progress
  BY <1>0 DEF Progress
<1>5. Contexts
  <2>1. 0 \in Threads /\ 0 \notin Workers
    OBVIOUS
  <2>2. inRequest[0]
    BY <2>1, Zenon DEF Init
  <2>3. \A k \in Workers : ~inRequest[k]
    BY Zenon DEF Init
  <2>4. QED
    BY <1>0, <2>2, <2>3 DEF Contexts
<1>6. Memory /\ Results
  BY <1>0 DEF Memory, Results
<1>7. Cancellation
  BY <1>0 DEF Cancellation, NoContextEscapes
<1>8. QED
  BY <1>2, <1>3, <1>4, <1>5, <1>6, <1>7 DEF Inv

\* The loops stay in their arrays, and every variable in its type.
LEMMA TypeStep == TypeOK /\ Loops /\ [Next]_vars => TypeOK'
<1> SUFFICES ASSUME TypeOK, Loops, [Next]_vars PROVE TypeOK'
  OBVIOUS
<1> USE ScatterAssumption DEF TypeOK, Loops, Setup, Running, Over, Idle,
        Value, Unset, Void, Ended, Fail, At, Step, NotifyAll, Fns, Workers, Threads
<1>1. CASE Alloc
  BY <1>1 DEF Alloc
<1>2. CASE RootResult
  <2>1. i \in Fns /\ i + 1 \in 0 .. N + 1
    BY <1>2 DEF RootResult
  <2>2. rval' \in [Fns -> {Unset, Void, Value, "freed"}]
    BY <1>2, <2>1 DEF RootResult
  <2>3. resultRoots' \subseteq Fns
    BY <1>2, <2>1 DEF RootResult
  <2>4. QED
    BY <1>2, <2>1, <2>2, <2>3 DEF RootResult
<1>3. CASE AllocThreads
  <2>1. pc' \in {"alloc", "results", "functions", "contexts", "spawn", "cancelled",
                 "work", "suspend", "join", "array", "out", "done"} /\ ok' \in BOOLEAN
    BY <1>3 DEF AllocThreads
  <2>2. i' \in 0 .. N + 1
    BY <1>3 DEF AllocThreads
  <2>3. QED
    BY <1>3, <2>1, <2>2 DEF AllocThreads
<1>4. CASE RootFunction
  <2>1. i \in Fns /\ i + 1 \in 0 .. N + 1
    BY <1>4 DEF RootFunction
  <2>2. fnRoots' \subseteq Fns
    BY <1>4, <2>1 DEF RootFunction
  <2>3. QED
    BY <1>4, <2>1, <2>2 DEF RootFunction
<1>5. CASE StartContexts
  BY <1>5 DEF StartContexts
<1>6. CASE LinkContext
  BY <1>6 DEF LinkContext
<1>7. CASE CheckContext
  <2>1. pc' \in {"alloc", "results", "functions", "contexts", "spawn", "cancelled",
                 "work", "suspend", "join", "array", "out", "done"} /\ ok' \in BOOLEAN
    BY <1>7 DEF CheckContext
  <2>2. i' \in 0 .. N + 1
    BY <1>7 DEF CheckContext
  <2>3. QED
    BY <1>7, <2>1, <2>2 DEF CheckContext
<1>8. CASE StartThreads
  BY <1>8 DEF StartThreads
<1>9. CASE Spawn
  BY <1>9 DEF Spawn
<1>10. CASE SpawnFails
  BY <1>10 DEF SpawnFails
<1>11. CASE CancelJoin
  <2>1. pc' \in {"alloc", "results", "functions", "contexts", "spawn", "cancelled",
                 "work", "suspend", "join", "array", "out", "done"} /\ ok' \in BOOLEAN
    BY <1>11 DEF CancelJoin
  <2>2. i' \in 0 .. N + 1
    BY <1>11 DEF CancelJoin
  <2>3. QED
    BY <1>11, <2>1, <2>2 DEF CancelJoin
<1>12. CASE Go
  BY <1>12 DEF Go
<1>13. CASE CallerWorks
  BY <1>13 DEF CallerWorks
<1>14. CASE SuspendRequest
  BY <1>14 DEF SuspendRequest
<1>15. CASE Join
  BY <1>15 DEF Join
<1>16. CASE ResumeRequest
  BY <1>16 DEF ResumeRequest
<1>17. CASE NewArray
  BY <1>17 DEF NewArray
<1>18. CASE Out
  BY <1>18 DEF Out
<1>19. ASSUME NEW k \in Workers, ThreadStarts(k) PROVE TypeOK'
  BY <1>19 DEF ThreadStarts
<1>20. ASSUME NEW k \in Workers, CheckStatus(k) PROVE TypeOK'
  BY <1>20 DEF CheckStatus
<1>21. ASSUME NEW k \in Workers, Attach(k) PROVE TypeOK'
  BY <1>21 DEF Attach
<1>22. ASSUME NEW k \in Workers, BeginRequest(k) PROVE TypeOK'
  BY <1>22 DEF BeginRequest
<1>23. ASSUME NEW k \in Workers, Work(k) PROVE TypeOK'
  BY <1>23 DEF Work
<1>24. ASSUME NEW k \in Workers, EndRequest(k) PROVE TypeOK'
  BY <1>24 DEF EndRequest
<1>25. ASSUME NEW k \in Workers, Detach(k) PROVE TypeOK'
  BY <1>25 DEF Detach
<1>26. ASSUME NEW t \in Threads, StartGC(t) PROVE TypeOK'
  BY <1>26 DEF StartGC, scatterVars
<1>27. CASE FinishGC
  BY <1>27 DEF FinishGC
<1>28. CASE SetCanceled
  BY <1>28 DEF SetCanceled, scatterVars
<1>29. CASE TriggerAll
  BY <1>29 DEF TriggerAll
<1>30. CASE UNCHANGED vars
  BY <1>30 DEF vars, scatterVars
<1>31. QED
  BY <1>1, <1>2, <1>3, <1>4, <1>5, <1>6, <1>7, <1>8, <1>9, <1>10, <1>11,
     <1>12, <1>13, <1>14, <1>15, <1>16, <1>17, <1>18, <1>19, <1>20, <1>21,
     <1>22, <1>23, <1>24, <1>25, <1>26, <1>27, <1>28, <1>29, <1>30 DEF
     Next, Caller, Worker

\* Every loop starts where the one before it has ended.
LEMMA LoopsStep == TypeOK /\ Loops /\ [Next]_vars => Loops'
<1> SUFFICES ASSUME TypeOK, Loops, [Next]_vars PROVE Loops'
  OBVIOUS
<1> USE ScatterAssumption DEF Loops, TypeOK, Setup, Running, Over, Idle,
        Value, Unset, Void, Ended, Fail, At, Step, NotifyAll, Fns, Workers, Threads
<1>1. CASE Alloc
  BY <1>1 DEF Alloc
<1>2. CASE RootResult
  BY <1>2 DEF RootResult
<1>3. CASE AllocThreads
  BY <1>3 DEF AllocThreads
<1>4. CASE RootFunction
  BY <1>4 DEF RootFunction
<1>5. CASE StartContexts
  BY <1>5 DEF StartContexts
<1>6. CASE LinkContext
  BY <1>6 DEF LinkContext
<1>7. CASE CheckContext
  BY <1>7 DEF CheckContext
<1>8. CASE StartThreads
  BY <1>8 DEF StartThreads
<1>9. CASE Spawn
  BY <1>9 DEF Spawn
<1>10. CASE SpawnFails
  BY <1>10 DEF SpawnFails
<1>11. CASE CancelJoin
  BY <1>11 DEF CancelJoin
<1>12. CASE Go
  BY <1>12 DEF Go
<1>13. CASE CallerWorks
  BY <1>13 DEF CallerWorks
<1>14. CASE SuspendRequest
  BY <1>14 DEF SuspendRequest
<1>15. CASE Join
  BY <1>15 DEF Join
<1>16. CASE ResumeRequest
  BY <1>16 DEF ResumeRequest
<1>17. CASE NewArray
  BY <1>17 DEF NewArray
<1>18. CASE Out
  BY <1>18 DEF Out
<1>19. ASSUME NEW k \in Workers, ThreadStarts(k) PROVE Loops'
  BY <1>19 DEF ThreadStarts
<1>20. ASSUME NEW k \in Workers, CheckStatus(k) PROVE Loops'
  BY <1>20 DEF CheckStatus
<1>21. ASSUME NEW k \in Workers, Attach(k) PROVE Loops'
  BY <1>21 DEF Attach
<1>22. ASSUME NEW k \in Workers, BeginRequest(k) PROVE Loops'
  BY <1>22 DEF BeginRequest
<1>23. ASSUME NEW k \in Workers, Work(k) PROVE Loops'
  BY <1>23 DEF Work
<1>24. ASSUME NEW k \in Workers, EndRequest(k) PROVE Loops'
  BY <1>24 DEF EndRequest
<1>25. ASSUME NEW k \in Workers, Detach(k) PROVE Loops'
  BY <1>25 DEF Detach
<1>26. ASSUME NEW t \in Threads, StartGC(t) PROVE Loops'
  BY <1>26 DEF StartGC, scatterVars
<1>27. CASE FinishGC
  BY <1>27 DEF FinishGC
<1>28. CASE SetCanceled
  BY <1>28 DEF SetCanceled, scatterVars
<1>29. CASE TriggerAll
  BY <1>29 DEF TriggerAll
<1>30. CASE UNCHANGED vars
  BY <1>30 DEF vars, scatterVars
<1>31. QED
  BY <1>1, <1>2, <1>3, <1>4, <1>5, <1>6, <1>7, <1>8, <1>9, <1>10, <1>11,
     <1>12, <1>13, <1>14, <1>15, <1>16, <1>17, <1>18, <1>19, <1>20, <1>21,
     <1>22, <1>23, <1>24, <1>25, <1>26, <1>27, <1>28, <1>29, <1>30 DEF
     Next, Caller, Worker

\* The status is decided once, by the creation of the threads.
LEMMA SignalStep == TypeOK /\ Loops /\ Signal /\ [Next]_vars => Signal'
<1> SUFFICES ASSUME TypeOK, Loops, Signal, [Next]_vars PROVE Signal'
  OBVIOUS
<1> USE ScatterAssumption DEF Signal, TypeOK, Loops, Setup, Running, Over, Idle,
        Value, Unset, Void, Ended, Fail, At, Step, NotifyAll, Fns, Workers, Threads
<1>1. CASE Alloc
  BY <1>1 DEF Alloc
<1>2. CASE RootResult
  BY <1>2 DEF RootResult
<1>3. CASE AllocThreads
  BY <1>3 DEF AllocThreads
<1>4. CASE RootFunction
  BY <1>4 DEF RootFunction
<1>5. CASE StartContexts
  BY <1>5 DEF StartContexts
<1>6. CASE LinkContext
  BY <1>6 DEF LinkContext
<1>7. CASE CheckContext
  BY <1>7 DEF CheckContext
<1>8. CASE StartThreads
  BY <1>8 DEF StartThreads
<1>9. CASE Spawn
  BY <1>9 DEF Spawn
<1>10. CASE SpawnFails
  BY <1>10 DEF SpawnFails
<1>11. CASE CancelJoin
  BY <1>11 DEF CancelJoin
<1>12. CASE Go
  BY <1>12 DEF Go
<1>13. CASE CallerWorks
  BY <1>13 DEF CallerWorks
<1>14. CASE SuspendRequest
  BY <1>14 DEF SuspendRequest
<1>15. CASE Join
  BY <1>15 DEF Join
<1>16. CASE ResumeRequest
  BY <1>16 DEF ResumeRequest
<1>17. CASE NewArray
  BY <1>17 DEF NewArray
<1>18. CASE Out
  BY <1>18 DEF Out
<1>19. ASSUME NEW k \in Workers, ThreadStarts(k) PROVE Signal'
  BY <1>19 DEF ThreadStarts
<1>20. ASSUME NEW k \in Workers, CheckStatus(k) PROVE Signal'
  BY <1>20 DEF CheckStatus
<1>21. ASSUME NEW k \in Workers, Attach(k) PROVE Signal'
  BY <1>21 DEF Attach
<1>22. ASSUME NEW k \in Workers, BeginRequest(k) PROVE Signal'
  BY <1>22 DEF BeginRequest
<1>23. ASSUME NEW k \in Workers, Work(k) PROVE Signal'
  BY <1>23 DEF Work
<1>24. ASSUME NEW k \in Workers, EndRequest(k) PROVE Signal'
  BY <1>24 DEF EndRequest
<1>25. ASSUME NEW k \in Workers, Detach(k) PROVE Signal'
  BY <1>25 DEF Detach
<1>26. ASSUME NEW t \in Threads, StartGC(t) PROVE Signal'
  BY <1>26 DEF StartGC, scatterVars
<1>27. CASE FinishGC
  BY <1>27 DEF FinishGC
<1>28. CASE SetCanceled
  BY <1>28 DEF SetCanceled, scatterVars
<1>29. CASE TriggerAll
  BY <1>29 DEF TriggerAll
<1>30. CASE UNCHANGED vars
  BY <1>30 DEF vars, scatterVars
<1>31. QED
  BY <1>1, <1>2, <1>3, <1>4, <1>5, <1>6, <1>7, <1>8, <1>9, <1>10, <1>11,
     <1>12, <1>13, <1>14, <1>15, <1>16, <1>17, <1>18, <1>19, <1>20, <1>21,
     <1>22, <1>23, <1>24, <1>25, <1>26, <1>27, <1>28, <1>29, <1>30 DEF
     Next, Caller, Worker

\* No worker runs before the signal, nor after it was joined.
LEMMA ProgressStep == TypeOK /\ Loops /\ Signal /\ Progress /\ [Next]_vars => Progress'
<1> SUFFICES ASSUME TypeOK, Loops, Signal, Progress, [Next]_vars PROVE Progress'
  OBVIOUS
<1> USE ScatterAssumption DEF Progress, TypeOK, Loops, Signal, Setup, Running, Over, Idle,
        Value, Unset, Void, Ended, Fail, At, Step, NotifyAll, Fns, Workers, Threads
<1>1. CASE Alloc
  BY <1>1 DEF Alloc
<1>2. CASE RootResult
  BY <1>2 DEF RootResult
<1>3. CASE AllocThreads
  BY <1>3 DEF AllocThreads
<1>4. CASE RootFunction
  BY <1>4 DEF RootFunction
<1>5. CASE StartContexts
  BY <1>5 DEF StartContexts
<1>6. CASE LinkContext
  BY <1>6 DEF LinkContext
<1>7. CASE CheckContext
  BY <1>7 DEF CheckContext
<1>8. CASE StartThreads
  BY <1>8 DEF StartThreads
<1>9. CASE Spawn
  BY <1>9 DEF Spawn
<1>10. CASE SpawnFails
  BY <1>10 DEF SpawnFails
<1>11. CASE CancelJoin
  BY <1>11 DEF CancelJoin
<1>12. CASE Go
  BY <1>12 DEF Go
<1>13. CASE CallerWorks
  BY <1>13 DEF CallerWorks
<1>14. CASE SuspendRequest
  BY <1>14 DEF SuspendRequest
<1>15. CASE Join
  BY <1>15 DEF Join
<1>16. CASE ResumeRequest
  BY <1>16 DEF ResumeRequest
<1>17. CASE NewArray
  BY <1>17 DEF NewArray
<1>18. CASE Out
  BY <1>18 DEF Out
<1>19. ASSUME NEW k \in Workers, ThreadStarts(k) PROVE Progress'
  BY <1>19 DEF ThreadStarts
<1>20. ASSUME NEW k \in Workers, CheckStatus(k) PROVE Progress'
  BY <1>20 DEF CheckStatus
<1>21. ASSUME NEW k \in Workers, Attach(k) PROVE Progress'
  BY <1>21 DEF Attach
<1>22. ASSUME NEW k \in Workers, BeginRequest(k) PROVE Progress'
  BY <1>22 DEF BeginRequest
<1>23. ASSUME NEW k \in Workers, Work(k) PROVE Progress'
  BY <1>23 DEF Work
<1>24. ASSUME NEW k \in Workers, EndRequest(k) PROVE Progress'
  BY <1>24 DEF EndRequest
<1>25. ASSUME NEW k \in Workers, Detach(k) PROVE Progress'
  BY <1>25 DEF Detach
<1>26. ASSUME NEW t \in Threads, StartGC(t) PROVE Progress'
  BY <1>26 DEF StartGC, scatterVars
<1>27. CASE FinishGC
  BY <1>27 DEF FinishGC
<1>28. CASE SetCanceled
  BY <1>28 DEF SetCanceled, scatterVars
<1>29. CASE TriggerAll
  BY <1>29 DEF TriggerAll
<1>30. CASE UNCHANGED vars
  BY <1>30 DEF vars, scatterVars
<1>31. QED
  BY <1>1, <1>2, <1>3, <1>4, <1>5, <1>6, <1>7, <1>8, <1>9, <1>10, <1>11,
     <1>12, <1>13, <1>14, <1>15, <1>16, <1>17, <1>18, <1>19, <1>20, <1>21,
     <1>22, <1>23, <1>24, <1>25, <1>26, <1>27, <1>28, <1>29, <1>30 DEF
     Next, Caller, Worker

\* A context is the worker's between attaching and detaching.
LEMMA ContextsStep == TypeOK /\ Loops /\ Progress /\ Contexts /\ [Next]_vars => Contexts'
<1> SUFFICES ASSUME TypeOK, Loops, Progress, Contexts, [Next]_vars PROVE Contexts'
  OBVIOUS
<1> USE ScatterAssumption DEF Contexts, TypeOK, Loops, Progress, Setup, Running, Over, Idle,
        Value, Unset, Void, Ended, Fail, At, Step, NotifyAll, Fns, Workers, Threads
<1>1. CASE Alloc
  BY <1>1 DEF Alloc
<1>2. CASE RootResult
  BY <1>2 DEF RootResult
<1>3. CASE AllocThreads
  BY <1>3 DEF AllocThreads
<1>4. CASE RootFunction
  BY <1>4 DEF RootFunction
<1>5. CASE StartContexts
  BY <1>5 DEF StartContexts
<1>6. CASE LinkContext
  BY <1>6 DEF LinkContext
<1>7. CASE CheckContext
  BY <1>7 DEF CheckContext
<1>8. CASE StartThreads
  BY <1>8 DEF StartThreads
<1>9. CASE Spawn
  BY <1>9 DEF Spawn
<1>10. CASE SpawnFails
  BY <1>10 DEF SpawnFails
<1>11. CASE CancelJoin
  BY <1>11 DEF CancelJoin
<1>12. CASE Go
  BY <1>12 DEF Go
<1>13. CASE CallerWorks
  BY <1>13 DEF CallerWorks
<1>14. CASE SuspendRequest
  BY <1>14 DEF SuspendRequest
<1>15. CASE Join
  BY <1>15 DEF Join
<1>16. CASE ResumeRequest
  BY <1>16 DEF ResumeRequest
<1>17. CASE NewArray
  BY <1>17 DEF NewArray
<1>18. CASE Out
  BY <1>18 DEF Out
<1>19. ASSUME NEW k \in Workers, ThreadStarts(k) PROVE Contexts'
  BY <1>19 DEF ThreadStarts
<1>20. ASSUME NEW k \in Workers, CheckStatus(k) PROVE Contexts'
  BY <1>20 DEF CheckStatus
<1>21. ASSUME NEW k \in Workers, Attach(k) PROVE Contexts'
  BY <1>21 DEF Attach
<1>22. ASSUME NEW k \in Workers, BeginRequest(k) PROVE Contexts'
  BY <1>22 DEF BeginRequest
<1>23. ASSUME NEW k \in Workers, Work(k) PROVE Contexts'
  BY <1>23 DEF Work
<1>24. ASSUME NEW k \in Workers, EndRequest(k) PROVE Contexts'
  BY <1>24 DEF EndRequest
<1>25. ASSUME NEW k \in Workers, Detach(k) PROVE Contexts'
  BY <1>25 DEF Detach
<1>26. ASSUME NEW t \in Threads, StartGC(t) PROVE Contexts'
  BY <1>26 DEF StartGC, scatterVars
<1>27. CASE FinishGC
  BY <1>27 DEF FinishGC
<1>28. CASE SetCanceled
  BY <1>28 DEF SetCanceled, scatterVars
<1>29. CASE TriggerAll
  BY <1>29 DEF TriggerAll
<1>30. CASE UNCHANGED vars
  BY <1>30 DEF vars, scatterVars
<1>31. QED
  BY <1>1, <1>2, <1>3, <1>4, <1>5, <1>6, <1>7, <1>8, <1>9, <1>10, <1>11,
     <1>12, <1>13, <1>14, <1>15, <1>16, <1>17, <1>18, <1>19, <1>20, <1>21,
     <1>22, <1>23, <1>24, <1>25, <1>26, <1>27, <1>28, <1>29, <1>30 DEF
     Next, Caller, Worker

\* Roots and contexts are accounted for by the arrays that hold them.
LEMMA MemoryStep == TypeOK /\ Loops /\ Progress /\ Contexts /\ Memory /\ [Next]_vars => Memory'
<1> SUFFICES ASSUME TypeOK, Loops, Progress, Contexts, Memory, [Next]_vars PROVE Memory'
  OBVIOUS
<1> USE ScatterAssumption DEF Memory, TypeOK, Loops, Progress, Contexts, Setup, Running, Over, Idle,
        Value, Unset, Void, Ended, Fail, At, Step, NotifyAll, Fns, Workers, Threads
<1>1. CASE Alloc
  BY <1>1 DEF Alloc
<1>2. CASE RootResult
  <2>1. \A k \in resultRoots : k \in Fns /\ k < i
    BY <1>2 DEF RootResult
  <2>2. CASE i' = i + 1 /\ resultRoots' = resultRoots \cup {i} /\ UNCHANGED <<pc, ok, mem>>
    <3>1. \A k \in resultRoots' : k < i'
      BY <2>1, <2>2
    <3>2. QED
      BY <1>2, <2>2, <3>1 DEF RootResult
  <2>3. CASE resultRoots' = resultRoots \ {k \in Fns : k < i} /\ mem' = mem \ {"results"} /\ pc' = "out"
    <3>1. resultRoots' = {}
      BY <2>1, <2>3
    <3>2. QED
      BY <1>2, <2>3, <3>1 DEF RootResult
  <2>4. QED
    BY <1>2, <2>2, <2>3 DEF RootResult
<1>3. CASE AllocThreads
  BY <1>3 DEF AllocThreads
<1>4. CASE RootFunction
  <2>1. \A k \in fnRoots : k \in Fns /\ k < i
    BY <1>4 DEF RootFunction
  <2>2. CASE i' = i + 1 /\ fnRoots' = fnRoots \cup {i} /\ UNCHANGED <<pc, ok, mem>>
    <3>1. \A k \in fnRoots' : k < i'
      BY <2>1, <2>2
    <3>2. QED
      BY <1>4, <2>2, <3>1 DEF RootFunction
  <2>3. CASE fnRoots' = fnRoots \ {k \in Fns : k < i} /\ mem' = mem \ {"threads"} /\ pc' = "out"
    <3>1. fnRoots' = {}
      BY <2>1, <2>3
    <3>2. QED
      BY <1>4, <2>3, <3>1 DEF RootFunction
  <2>4. QED
    BY <1>4, <2>2, <2>3 DEF RootFunction
<1>5. CASE StartContexts
  BY <1>5 DEF StartContexts
<1>6. CASE LinkContext
  BY <1>6 DEF LinkContext
<1>7. CASE CheckContext
  BY <1>7 DEF CheckContext
<1>8. CASE StartThreads
  BY <1>8 DEF StartThreads
<1>9. CASE Spawn
  BY <1>9 DEF Spawn
<1>10. CASE SpawnFails
  BY <1>10 DEF SpawnFails
<1>11. CASE CancelJoin
  BY <1>11 DEF CancelJoin
<1>12. CASE Go
  BY <1>12 DEF Go
<1>13. CASE CallerWorks
  BY <1>13 DEF CallerWorks
<1>14. CASE SuspendRequest
  BY <1>14 DEF SuspendRequest
<1>15. CASE Join
  BY <1>15 DEF Join
<1>16. CASE ResumeRequest
  BY <1>16 DEF ResumeRequest
<1>17. CASE NewArray
  BY <1>17 DEF NewArray
<1>18. CASE Out
  BY <1>18 DEF Out
<1>19. ASSUME NEW k \in Workers, ThreadStarts(k) PROVE Memory'
  BY <1>19 DEF ThreadStarts
<1>20. ASSUME NEW k \in Workers, CheckStatus(k) PROVE Memory'
  BY <1>20 DEF CheckStatus
<1>21. ASSUME NEW k \in Workers, Attach(k) PROVE Memory'
  BY <1>21 DEF Attach
<1>22. ASSUME NEW k \in Workers, BeginRequest(k) PROVE Memory'
  BY <1>22 DEF BeginRequest
<1>23. ASSUME NEW k \in Workers, Work(k) PROVE Memory'
  BY <1>23 DEF Work
<1>24. ASSUME NEW k \in Workers, EndRequest(k) PROVE Memory'
  BY <1>24 DEF EndRequest
<1>25. ASSUME NEW k \in Workers, Detach(k) PROVE Memory'
  BY <1>25 DEF Detach
<1>26. ASSUME NEW t \in Threads, StartGC(t) PROVE Memory'
  BY <1>26 DEF StartGC, scatterVars
<1>27. CASE FinishGC
  BY <1>27 DEF FinishGC
<1>28. CASE SetCanceled
  BY <1>28 DEF SetCanceled, scatterVars
<1>29. CASE TriggerAll
  BY <1>29 DEF TriggerAll
<1>30. CASE UNCHANGED vars
  BY <1>30 DEF vars, scatterVars
<1>31. QED
  BY <1>1, <1>2, <1>3, <1>4, <1>5, <1>6, <1>7, <1>8, <1>9, <1>10, <1>11,
     <1>12, <1>13, <1>14, <1>15, <1>16, <1>17, <1>18, <1>19, <1>20, <1>21,
     <1>22, <1>23, <1>24, <1>25, <1>26, <1>27, <1>28, <1>29, <1>30 DEF
     Next, Caller, Worker

\* Every slot is rooted before a function can store into it.
LEMMA ResultsStep == TypeOK /\ Loops /\ Progress /\ Results /\ [Next]_vars => Results'
<1> SUFFICES ASSUME TypeOK, Loops, Progress, Results, [Next]_vars PROVE Results'
  OBVIOUS
<1> USE ScatterAssumption DEF Results, TypeOK, Loops, Progress, Setup, Running, Over, Idle,
        Value, Unset, Void, Ended, Fail, At, Step, NotifyAll, Fns, Workers, Threads
<1>1. CASE Alloc
  BY <1>1 DEF Alloc
<1>2. CASE RootResult
  BY <1>2 DEF RootResult
<1>3. CASE AllocThreads
  BY <1>3 DEF AllocThreads
<1>4. CASE RootFunction
  BY <1>4 DEF RootFunction
<1>5. CASE StartContexts
  BY <1>5 DEF StartContexts
<1>6. CASE LinkContext
  BY <1>6 DEF LinkContext
<1>7. CASE CheckContext
  BY <1>7 DEF CheckContext
<1>8. CASE StartThreads
  BY <1>8 DEF StartThreads
<1>9. CASE Spawn
  BY <1>9 DEF Spawn
<1>10. CASE SpawnFails
  BY <1>10 DEF SpawnFails
<1>11. CASE CancelJoin
  BY <1>11 DEF CancelJoin
<1>12. CASE Go
  BY <1>12 DEF Go
<1>13. CASE CallerWorks
  BY <1>13 DEF CallerWorks
<1>14. CASE SuspendRequest
  BY <1>14 DEF SuspendRequest
<1>15. CASE Join
  BY <1>15 DEF Join
<1>16. CASE ResumeRequest
  BY <1>16 DEF ResumeRequest
<1>17. CASE NewArray
  BY <1>17 DEF NewArray
<1>18. CASE Out
  BY <1>18 DEF Out
<1>19. ASSUME NEW k \in Workers, ThreadStarts(k) PROVE Results'
  BY <1>19 DEF ThreadStarts
<1>20. ASSUME NEW k \in Workers, CheckStatus(k) PROVE Results'
  BY <1>20 DEF CheckStatus
<1>21. ASSUME NEW k \in Workers, Attach(k) PROVE Results'
  BY <1>21 DEF Attach
<1>22. ASSUME NEW k \in Workers, BeginRequest(k) PROVE Results'
  BY <1>22 DEF BeginRequest
<1>23. ASSUME NEW k \in Workers, Work(k) PROVE Results'
  BY <1>23 DEF Work
<1>24. ASSUME NEW k \in Workers, EndRequest(k) PROVE Results'
  BY <1>24 DEF EndRequest
<1>25. ASSUME NEW k \in Workers, Detach(k) PROVE Results'
  BY <1>25 DEF Detach
<1>26. ASSUME NEW t \in Threads, StartGC(t) PROVE Results'
  BY <1>26 DEF StartGC, scatterVars
<1>27. CASE FinishGC
  BY <1>27 DEF FinishGC
<1>28. CASE SetCanceled
  BY <1>28 DEF SetCanceled, scatterVars
<1>29. CASE TriggerAll
  BY <1>29 DEF TriggerAll
<1>30. CASE UNCHANGED vars
  BY <1>30 DEF vars, scatterVars
<1>31. QED
  BY <1>1, <1>2, <1>3, <1>4, <1>5, <1>6, <1>7, <1>8, <1>9, <1>10, <1>11,
     <1>12, <1>13, <1>14, <1>15, <1>16, <1>17, <1>18, <1>19, <1>20, <1>21,
     <1>22, <1>23, <1>24, <1>25, <1>26, <1>27, <1>28, <1>29, <1>30 DEF
     Next, Caller, Worker

\* A context that passes NewContextData is in the list when it is walked.
LEMMA CancellationStep == TypeOK /\ Progress /\ Contexts /\ Cancellation /\ [Next]_vars => Cancellation'
<1> SUFFICES ASSUME TypeOK, Progress, Contexts, Cancellation, [Next]_vars PROVE Cancellation'
  OBVIOUS
<1> USE ScatterAssumption DEF Cancellation, TypeOK, Progress, Contexts, Setup, Running, Over, Idle,
        Value, Unset, Void, Ended, Fail, At, Step, NotifyAll, Fns, Workers, Threads, NoContextEscapes
<1>1. CASE Alloc
  BY <1>1 DEF Alloc
<1>2. CASE RootResult
  BY <1>2 DEF RootResult
<1>3. CASE AllocThreads
  BY <1>3 DEF AllocThreads
<1>4. CASE RootFunction
  BY <1>4 DEF RootFunction
<1>5. CASE StartContexts
  BY <1>5 DEF StartContexts
<1>6. CASE LinkContext
  BY <1>6 DEF LinkContext
<1>7. CASE CheckContext
  BY <1>7 DEF CheckContext
<1>8. CASE StartThreads
  BY <1>8 DEF StartThreads
<1>9. CASE Spawn
  BY <1>9 DEF Spawn
<1>10. CASE SpawnFails
  BY <1>10 DEF SpawnFails
<1>11. CASE CancelJoin
  BY <1>11 DEF CancelJoin
<1>12. CASE Go
  BY <1>12 DEF Go
<1>13. CASE CallerWorks
  BY <1>13 DEF CallerWorks
<1>14. CASE SuspendRequest
  BY <1>14 DEF SuspendRequest
<1>15. CASE Join
  BY <1>15 DEF Join
<1>16. CASE ResumeRequest
  BY <1>16 DEF ResumeRequest
<1>17. CASE NewArray
  BY <1>17 DEF NewArray
<1>18. CASE Out
  BY <1>18 DEF Out
<1>19. ASSUME NEW k \in Workers, ThreadStarts(k) PROVE Cancellation'
  BY <1>19 DEF ThreadStarts
<1>20. ASSUME NEW k \in Workers, CheckStatus(k) PROVE Cancellation'
  BY <1>20 DEF CheckStatus
<1>21. ASSUME NEW k \in Workers, Attach(k) PROVE Cancellation'
  BY <1>21 DEF Attach
<1>22. ASSUME NEW k \in Workers, BeginRequest(k) PROVE Cancellation'
  BY <1>22 DEF BeginRequest
<1>23. ASSUME NEW k \in Workers, Work(k) PROVE Cancellation'
  BY <1>23 DEF Work
<1>24. ASSUME NEW k \in Workers, EndRequest(k) PROVE Cancellation'
  BY <1>24 DEF EndRequest
<1>25. ASSUME NEW k \in Workers, Detach(k) PROVE Cancellation'
  BY <1>25 DEF Detach
<1>26. ASSUME NEW t \in Threads, StartGC(t) PROVE Cancellation'
  BY <1>26 DEF StartGC, scatterVars
<1>27. CASE FinishGC
  BY <1>27 DEF FinishGC
<1>28. CASE SetCanceled
  BY <1>28 DEF SetCanceled, scatterVars
<1>29. CASE TriggerAll
  BY <1>29 DEF TriggerAll
<1>30. CASE UNCHANGED vars
  BY <1>30 DEF vars, scatterVars
<1>31. QED
  BY <1>1, <1>2, <1>3, <1>4, <1>5, <1>6, <1>7, <1>8, <1>9, <1>10, <1>11,
     <1>12, <1>13, <1>14, <1>15, <1>16, <1>17, <1>18, <1>19, <1>20, <1>21,
     <1>22, <1>23, <1>24, <1>25, <1>26, <1>27, <1>28, <1>29, <1>30 DEF
     Next, Caller, Worker

\* The invariant holds in every behaviour.
LEMMA Invariance == Spec => []Inv
<1>1. Inv /\ [Next]_vars => Inv'
  BY TypeStep, LoopsStep, SignalStep, ProgressStep, ContextsStep, MemoryStep,
     ResultsStep, CancellationStep DEF Inv
<1>2. QED
  BY <1>1, InitInv, PTL DEF Spec

-----------------------------------------------------------------------------
(* What follows from the invariant.                                        *)

\* Every variable keeps its type, whatever fails and however threads interleave.
THEOREM ScatterTypeCorrect == Spec => []TypeOK
<1>1. Inv => TypeOK
  BY DEF Inv
<1>2. QED
  BY <1>1, Invariance, PTL

\* When scatter() has returned no root, context, array or thread is left, and
\* the caller is in its request, whichever allocation or creation failed.
THEOREM CleanExitTheorem == Spec => []CleanExit
<1>1. Inv => CleanExit
  <2> SUFFICES ASSUME Inv, pc = "done"
               PROVE  /\ resultRoots = {} /\ fnRoots = {} /\ mem = {}
                      /\ \A k \in Workers : cx[k] = "none" /\ wpc[k] \in {"none", "exited", "gone"}
                      /\ inRequest[0]
    BY DEF CleanExit
  <2>1. resultRoots = {} /\ fnRoots = {} /\ mem = {} /\ \A k \in Workers : cx[k] = "none"
    BY DEF Inv, Memory
  <2>2. \A k \in Workers : wpc[k] \in {"none", "exited", "gone"}
    BY DEF Inv, Progress, Over, Idle
  <2>3. inRequest[0]
    BY DEF Inv, Contexts
  <2>4. QED
    BY <2>1, <2>2, <2>3
<1>2. QED
  BY <1>1, Invariance, PTL

\* The collector finds every result that scatter() still has to return.
THEOREM ResultsTheorem == Spec => []ResultsSurvive
<1>1. Inv => ResultsSurvive
  BY DEF Inv, Results, ResultsSurvive
<1>2. QED
  BY <1>1, Invariance, PTL

\* Contexts are destroyed when no worker can use them, and functions run inside
\* requests of contexts their thread owns.
THEOREM ContextsTheorem == Spec => []ContextsReleased
<1>1. Inv => ContextsReleased
  BY DEF Inv, Contexts, Progress, Over, Idle, ContextsReleased
<1>2. QED
  BY <1>1, Invariance, PTL

\* No context is missed by the cancellation of the scripts.
THEOREM EscapeTheorem == Spec => []NoContextEscapes
<1>1. Inv => NoContextEscapes
  BY DEF Inv, Cancellation
<1>2. QED
  BY <1>1, Invariance, PTL

-----------------------------------------------------------------------------
(* Scatter implements ForkJoin.                                            *)

\* The state of function k in the abstract specification.
Run(k) ==
    IF k = 0
    THEN IF status # "go" THEN "no" ELSE IF pc = "work" THEN "running" ELSE "over"
    ELSE CASE wpc[k] = "work" -> "running"
           [] wpc[k] \in {"end", "detach", "exited"} -> "over"
           [] wpc[k] = "gone" -> "skipped"
           [] OTHER -> "no"

\* A step that changes the state of no function is a stutter.
LEMMA Stutter ==
  ASSUME \A k \in Fns : Run(k)' = Run(k), (pc = "done")' = (pc = "done")
  PROVE  UNCHANGED Promise!fvars
  BY DEF Run, Promise!fvars

\* A step of one function is a step of the abstract one.
LEMMA Moves ==
  ASSUME NEW f \in Fns, NEW v, Run(f)' = v, \A k \in Fns \ {f} : Run(k)' = Run(k)
  PROVE  [k \in Fns |-> Run(k)]' = [[k \in Fns |-> Run(k)] EXCEPT ![f] = v]
  BY Zenon

LEMMA PromiseInit == Init => Promise!FInit
<1> SUFFICES ASSUME Init PROVE Promise!FInit
  OBVIOUS
<1>1. \A k \in Fns : Run(k) = "no"
  BY ScatterAssumption DEF Init, Run, Fns, Workers
<1>2. pc # "done"
  BY DEF Init
<1>3. QED
  BY <1>1, <1>2 DEF Promise!FInit, Run

\* The steps of the caller.
LEMMA CallerPromise == Inv /\ Caller => [Promise!FNext]_(Promise!fvars)
<1> SUFFICES ASSUME Inv, Caller PROVE [Promise!FNext]_(Promise!fvars)
  OBVIOUS
<1> USE ScatterAssumption DEF Inv, TypeOK, Loops, Signal, Progress, Setup, Running, Over, Idle,
        At, Fail, Ended, Fns, Workers
<1>1. CASE Alloc
  <2>1. \A k \in Fns : Run(k)' = Run(k)
    BY <1>1 DEF Alloc, Run
  <2>2. (pc = "done")' = (pc = "done")
    BY <1>1 DEF Alloc
  <2>3. QED
    BY <2>1, <2>2, Stutter
<1>2. CASE RootResult
  <2>1. \A k \in Fns : Run(k)' = Run(k)
    BY <1>2 DEF RootResult, Run
  <2>2. (pc = "done")' = (pc = "done")
    BY <1>2 DEF RootResult
  <2>3. QED
    BY <2>1, <2>2, Stutter
<1>3. CASE AllocThreads
  <2>1. \A k \in Fns : Run(k)' = Run(k)
    BY <1>3 DEF AllocThreads, Run
  <2>2. (pc = "done")' = (pc = "done")
    BY <1>3 DEF AllocThreads
  <2>3. QED
    BY <2>1, <2>2, Stutter
<1>4. CASE RootFunction
  <2>1. \A k \in Fns : Run(k)' = Run(k)
    BY <1>4 DEF RootFunction, Run
  <2>2. (pc = "done")' = (pc = "done")
    BY <1>4 DEF RootFunction
  <2>3. QED
    BY <2>1, <2>2, Stutter
<1>5. CASE StartContexts
  <2>1. \A k \in Fns : Run(k)' = Run(k)
    BY <1>5 DEF StartContexts, Run
  <2>2. (pc = "done")' = (pc = "done")
    BY <1>5 DEF StartContexts
  <2>3. QED
    BY <2>1, <2>2, Stutter
<1>6. CASE LinkContext
  <2>1. \A k \in Fns : Run(k)' = Run(k)
    BY <1>6 DEF LinkContext, Run
  <2>2. (pc = "done")' = (pc = "done")
    BY <1>6 DEF LinkContext
  <2>3. QED
    BY <2>1, <2>2, Stutter
<1>7. CASE CheckContext
  <2>1. \A k \in Fns : Run(k)' = Run(k)
    BY <1>7 DEF CheckContext, Run
  <2>2. (pc = "done")' = (pc = "done")
    BY <1>7 DEF CheckContext
  <2>3. QED
    BY <2>1, <2>2, Stutter
<1>8. CASE StartThreads
  <2>1. \A k \in Fns : Run(k)' = Run(k)
    BY <1>8 DEF StartThreads, Run
  <2>2. (pc = "done")' = (pc = "done")
    BY <1>8 DEF StartThreads
  <2>3. QED
    BY <2>1, <2>2, Stutter
<1>9. CASE Spawn
  <2>1. \A k \in Fns : Run(k)' = Run(k)
    BY <1>9 DEF Spawn, Run
  <2>2. (pc = "done")' = (pc = "done")
    BY <1>9 DEF Spawn
  <2>3. QED
    BY <2>1, <2>2, Stutter
<1>10. CASE SpawnFails
  <2>1. \A k \in Fns : Run(k)' = Run(k)
    BY <1>10 DEF SpawnFails, NotifyAll, Run
  <2>2. (pc = "done")' = (pc = "done")
    BY <1>10 DEF SpawnFails
  <2>3. QED
    BY <2>1, <2>2, Stutter
<1>11. CASE CancelJoin
  <2>1. \A k \in Fns : Run(k)' = Run(k)
    BY <1>11 DEF CancelJoin, Run
  <2>2. (pc = "done")' = (pc = "done")
    BY <1>11 DEF CancelJoin
  <2>3. QED
    BY <2>1, <2>2, Stutter
<1>12. CASE SuspendRequest
  <2>1. \A k \in Fns : Run(k)' = Run(k)
    BY <1>12 DEF SuspendRequest, Run
  <2>2. (pc = "done")' = (pc = "done")
    BY <1>12 DEF SuspendRequest
  <2>3. QED
    BY <2>1, <2>2, Stutter
<1>13. CASE Join
  <2>1. \A k \in Fns : Run(k)' = Run(k)
    BY <1>13 DEF Join, Run
  <2>2. (pc = "done")' = (pc = "done")
    BY <1>13 DEF Join
  <2>3. QED
    BY <2>1, <2>2, Stutter
<1>14. CASE ResumeRequest
  <2>1. \A k \in Fns : Run(k)' = Run(k)
    BY <1>14 DEF ResumeRequest, Run
  <2>2. (pc = "done")' = (pc = "done")
    BY <1>14 DEF ResumeRequest
  <2>3. QED
    BY <2>1, <2>2, Stutter
<1>15. CASE NewArray
  <2>1. \A k \in Fns : Run(k)' = Run(k)
    BY <1>15 DEF NewArray, Run
  <2>2. (pc = "done")' = (pc = "done")
    BY <1>15 DEF NewArray
  <2>3. QED
    BY <2>1, <2>2, Stutter
<1>16. CASE Go
  <2>1. 0 \in Fns /\ Run(0) = "no" /\ Run(0)' = "running"
    BY <1>16 DEF Go, Run
  <2>2. \A k \in Fns \ {0} : Run(k)' = Run(k)
    BY <1>16 DEF Go, NotifyAll, Run
  <2>3. pc # "done" /\ pc' # "done"
    BY <1>16 DEF Go
  <2>4. Promise!Call(0)
    BY <2>1, <2>2, <2>3, Moves DEF Promise!Call, Run
  <2>5. QED
    BY <2>1, <2>4 DEF Promise!FNext
<1>17. CASE CallerWorks
  <2>1. 0 \in Fns /\ Run(0) = "running" /\ Run(0)' = "over"
    BY <1>17 DEF CallerWorks, Run
  <2>2. \A k \in Fns \ {0} : Run(k)' = Run(k)
    BY <1>17 DEF CallerWorks, Run
  <2>3. pc # "done" /\ pc' # "done"
    BY <1>17 DEF CallerWorks
  <2>4. Promise!Finish(0)
    BY <2>1, <2>2, <2>3, Moves DEF Promise!Finish, Run
  <2>5. QED
    BY <2>1, <2>4 DEF Promise!FNext
<1>18. CASE Out
  <2>1. \A k \in Fns : Run(k)' = Run(k)
    BY <1>18 DEF Out, Run
  <2>2. pc # "done" /\ pc' = "done"
    BY <1>18 DEF Out
  <2>3. \/ \A k \in Fns : Run(k) \in {"no", "skipped"}
        \/ \A k \in Fns : Run(k) \in {"over", "skipped"}
    BY <1>18 DEF Out, Run
  <2>4. [k \in Fns |-> Run(k)]' = [k \in Fns |-> Run(k)]
    BY <2>1, Zenon
  <2>5. Promise!Return
    BY <2>2, <2>3, <2>4 DEF Promise!Return, Run
  <2>6. QED
    BY <2>5 DEF Promise!FNext
<1>19. QED
  BY <1>1, <1>2, <1>3, <1>4, <1>5, <1>6, <1>7, <1>8, <1>9, <1>10, <1>11,
     <1>12, <1>13, <1>14, <1>15, <1>16, <1>17, <1>18 DEF Caller

\* The steps of a worker.
LEMMA WorkerPromise ==
  ASSUME Inv, NEW f \in Workers, Worker(f)
  PROVE  [Promise!FNext]_(Promise!fvars)
<1> USE ScatterAssumption DEF Inv, TypeOK, Progress, Setup, Running, Over, Idle,
        Step, Fns, Workers
<1>1. f \in Fns /\ f # 0
  OBVIOUS
<1>2. /\ \A k \in Fns \ {f} : Run(k)' = Run(k)
      /\ (pc = "done")' = (pc = "done")
      /\ pc # "done"
  BY DEF Worker, ThreadStarts, CheckStatus, Attach, BeginRequest, Work, EndRequest,
         Detach, Run
<1>3. \/ Run(f)' = Run(f)
      \/ Run(f) = "no" /\ Run(f)' = "running"
      \/ Run(f) = "running" /\ Run(f)' = "over"
      \/ Run(f) = "no" /\ Run(f)' = "skipped"
  <2>1. CASE ThreadStarts(f)
    BY <2>1, <1>1 DEF ThreadStarts, Run
  <2>2. CASE CheckStatus(f)
    BY <2>2, <1>1 DEF CheckStatus, Run
  <2>3. CASE Attach(f)
    BY <2>3, <1>1 DEF Attach, Run
  <2>4. CASE BeginRequest(f)
    BY <2>4, <1>1 DEF BeginRequest, Run
  <2>5. CASE Work(f)
    BY <2>5, <1>1 DEF Work, Run
  <2>6. CASE EndRequest(f)
    BY <2>6, <1>1 DEF EndRequest, Run
  <2>7. CASE Detach(f)
    BY <2>7, <1>1 DEF Detach, Run
  <2>8. QED
    BY <2>1, <2>2, <2>3, <2>4, <2>5, <2>6, <2>7 DEF Worker
<1>4. CASE Run(f)' = Run(f)
  BY <1>2, <1>4, Stutter
<1>5. CASE Run(f) = "no" /\ Run(f)' = "running"
  <2>1. Promise!Call(f)
    BY <1>1, <1>2, <1>5, Moves DEF Promise!Call, Run
  <2>2. QED
    BY <1>1, <2>1 DEF Promise!FNext
<1>6. CASE Run(f) = "running" /\ Run(f)' = "over"
  <2>1. Promise!Finish(f)
    BY <1>1, <1>2, <1>6, Moves DEF Promise!Finish, Run
  <2>2. QED
    BY <1>1, <2>1 DEF Promise!FNext
<1>7. CASE Run(f) = "no" /\ Run(f)' = "skipped"
  <2>1. Promise!Skip(f)
    BY <1>1, <1>2, <1>7, Moves DEF Promise!Skip, Run
  <2>2. QED
    BY <1>1, <2>1 DEF Promise!FNext
<1>8. QED
  BY <1>3, <1>4, <1>5, <1>6, <1>7

\* Every step of scatter(), its workers and the engine.
LEMMA PromiseStep == Inv /\ [Next]_vars => [Promise!FNext]_(Promise!fvars)
<1> SUFFICES ASSUME Inv, [Next]_vars PROVE [Promise!FNext]_(Promise!fvars)
  OBVIOUS
<1>1. CASE Caller
  BY <1>1, CallerPromise
<1>2. ASSUME NEW k \in Workers, Worker(k) PROVE [Promise!FNext]_(Promise!fvars)
  BY <1>2, WorkerPromise
<1>3. CASE UNCHANGED <<pc, status, wpc>>
  BY <1>3, Stutter DEF Run
<1>4. ASSUME NEW t \in Threads, StartGC(t) PROVE UNCHANGED <<pc, status, wpc>>
  BY <1>4 DEF StartGC, scatterVars
<1>5. CASE FinishGC \/ SetCanceled \/ TriggerAll \/ UNCHANGED vars
  <2>1. UNCHANGED <<pc, status, wpc>>
    BY <1>5 DEF FinishGC, SetCanceled, TriggerAll, vars, scatterVars
  <2>2. QED
    BY <2>1, <1>3
<1>6. QED
  BY <1>1, <1>2, <1>3, <1>4, <1>5 DEF Next

\* scatter() implements a fork and join: every function is called at most once
\* and none runs after scatter() has returned.
THEOREM PromiseTheorem == Spec => PromiseKept
  BY PromiseInit, PromiseStep, Invariance, PTL DEF Spec, Promise!FSpec, PromiseKept
=============================================================================
