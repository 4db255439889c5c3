# A verification project for sysjs

sysjs is a JavaScript shell on SpiderMonkey with "system abilities": sockets,
`poll()`, system calls and shared libraries that scripts can load. This
directory holds TLA+ models of its control, the TLC configurations that check
them on small instances, and proofs, checked by TLAPS, that the concurrent parts
(the watchdog and the shell on top of it, `scatter()`, the sockets, the table of
libraries, the object `environment`), the command line and prompt, the output,
`poll()`, the Eaton packets, `countHeap()` and three tools are right for every size.

Paths below are relative to the repository; line numbers are those of the
commit the models were written from. `PROJECT.json` gives the lines behind every
definition.

    tlc -workers 2 -config MCWatchdog.cfg MCWatchdog      # one run
    tlapm ShellProofs.tla                                 # one module of proofs

## 1. Inventory

| source | contents |
|---|---|
| `src/js.cpp` | the shell: `main`, options, prompt, time limits, `scatter()`, natives |
| `src/js_socket.cpp` | class `Socket` |
| `src/js_sysutil.cpp` | class `SysUtil`, wrappers of system calls |
| `src/jsdso.cpp` | `DSO.load()` and `DSO.unload()` |
| `ape_project/*.js` | a client of an APE WebSocket server, the main user of `Socket` |
| `include/` | vendored engine headers |

The models are of the default build on Linux: `JS_THREADSAFE`, without
`EDITLINE`, `JS_GC_ZEAL`, tracing or the profilers.

### 1.1 Components

**Watchdog** (js.cpp 3089-3141, 3382-3490). State: `gWatchdogLock`, the
condition variables `gWatchdogWakeup` and `gSleepWakeup`, the thread
`gWatchdogThread`, the deadline (`gWatchdogHasTimeout`, `gWatchdogTimeout`),
`gCanceled`. Operations: `ScheduleWatchdog` sets or clears the deadline and
creates the thread the first time; `WatchdogMain` waits for it and calls
`CancelExecution`; `Sleep_fn` waits until its interval is over or scripts are
cancelled; `KillWatchdog` ends the thread and destroys everything. Used by the
prompt, by `timeout()`, `-t` and `sleep()`. Hard: several threads on one lock
and two condition variables, spurious and timed wake-ups, the lock dropped around
`CancelExecution`, and a 32-bit clock that wraps. Right when: a deadline in force
is watched by a wait that ends no later; every comparison of instants is within
half the range of the clock; nothing uses the lock after it was destroyed; a
deadline reached is taken once, sleeps end, `KillWatchdog` returns.

**Shell** (`Process`, `main`, `timeout`, `quit`, the operation callback,
`CancelExecution`). State: `gTimeoutInterval`, `gCanceled`, `gQuitting`,
`gExitCode`, the engine's flag per context. `Process` arms the watchdog before a
statement, clears it before it reads a line, and forgets the last cancellation.
`CancelExecution` runs in the watchdog thread outside the lock and flags all
contexts; the callback stops the script that is running. Hard: shared variables
without a lock, a cancellation that comes late, native code between the script
and its callback. Right when: nobody is timed while a line is typed; a limit in
force has a deadline; a cancelled script stops.

**scatter()** (js.cpp 3142-3379). State: the array of results with its roots,
`ScatterThreadData` per function, contexts that pass from the caller to a worker
and back, `sd.status` with its lock, requests. It calls function 0 itself and
the others in threads of their own. Hard: every allocation, root, context and
thread can fail; the garbage collector stops the world and waits for every thread
in a request; a cancellation walks the list of contexts meanwhile. Right when:
whatever fails, everything is released and everyone joined; results stay
rooted; no context is in two threads or escapes a cancellation; `scatter()`
returns.

**Command line** (`ProcessArgs`, 624-855). State: the position, `arguments`, the
settings, `gExitCode`. One pass finds where the script's arguments begin, a
second acts on the options and runs files and the prompt. Hard: two passes over
one grammar, three ways of reporting failure. Right when: the script gets the
words behind its name; a failed file ends the run; the exit status tells.

**Prompt, line buffers, `readline()`** (`GetLine` 269-301, `Process` 455-557,
`ReadLine` 959-1034). State: the input, a line buffer that doubles, the statement
buffer that collects lines. Hard: three buffers with growth rules of their own,
two readers of one input. Right when: a statement is exactly what was typed for
it, and no write is outside a buffer.

**Socket: objects, descriptors, requests** (js_socket.cpp). State: the
descriptor, the connection state and `saveDepth` of each object; the process'
descriptors; the request of each thread. Hard: descriptors are used again, natives fail half way and
leave their request, the collector closes descriptors. Right when: an open object
uses its own descriptor and nothing leaks; a thread runs script inside its
request, also when two threads read and write one object and so share the
`saveDepth` in it.

**Socket: receive buffer** (`read`, `readBytes`, `read_ws_packet`). State:
`read_buffer`, `buffer_pos`, the kernel's queue. Hard: segments end anywhere, three
natives share what is left over, the buffer grows, and the peer may hang up
anywhere. Right when: lines, bytes and frames are those
the peer sent, in order.

**Socket: `poll()`, `waitForInput()`.** State: a copy of the array, the `pollfd`
slots. It calls back `error()` and `data()`, which may close sockets. Right when:
every socket with an event is served once, in order, and no other.

**Socket: Eaton packets** (`readEatonPacket` 659-730). Stateless between calls but
for the stream. Right when: a packet returned is one that was sent.

**APE client** (`WS_Socket.js`, `ape_conn.js`). State: where the handshake is.
It reads lines, then the challenge, then polls and reads frames. Right when: it
takes each of them whole and handles every frame.

**DSO table** (jsdso.cpp). State: `libs[]`, the linker's counts. The library's own
functions run in the middle of `load` and `unload` and may call both; threads
share the table without a lock. Right when: the table holds a handle for every
library that is open.

**countHeap()** (1298-1430). State: the table of the visited, the list of nodes
to trace. Right when: the count it returns is
that of the reachable things of the kind, whatever is shared or in cycles, and none
is returned when memory ran out.

**`evalcx()`** (`EvalInContext` 2990-3064, `NewContextData`, `my_ErrorReporter`,
`Quit`, `CancelExecution`). State: a context per level with its options and its
pending exception, `gExitCode`, `gCanceled`. Hard: what fails in a sandbox is told
to its caller by the exception alone, and the exit code is set from three places,
one of them another thread. Right when: the exit code says why a statement failed.

**The split global object of `-z`** (`split_*`, 2570-2931, 4004-4035). State: the
two objects with a `ComplexObject` each, their properties. The hooks pass what is
done to the outer object on to the inner one. Hard: the setup fails half way, only
one of the two objects is a root between statements, and a property has two
copies. Right when: each `ComplexObject` is freed once and both objects live as long
as scripts run; what is assigned is what is read.

**`environment`** (`env_*`, 4566-4677) and `SysUtil.getenv()`. State: the process'
environment, the array `main()` was given, the properties defined from it. Hard: the
array is left behind by the C library when a variable is added; its strings are
cut at their `=` while a property is defined. Right when: a property has the value of
the variable and no string stays cut.

**`it`'s values** (`its_getter`, `its_setter`, `its_finalize`). State: a rooted cell
per object. Hard: making it takes three steps, each of which fails, and threads share
the object. Right when: what the object holds is rooted and nothing else is.

**`print()`, `write()`, `help()`** (1045-1115, 3950-4001). State: the stream's buffer,
the descriptor under it, `errno`. Hard: an argument's `toString` may call these natives
within one that runs, which then flush, fail and set `errno` under it. Right when: only
`write()` overtakes, and only what is still buffered, and a failure is told.

**`snarf()`** (3670-3742). State: the path, the stream, the buffer. Hard: the file
changes between the question for its length and the reading. Right when: the string
is what the file held, and everything is given back on every way out.

### 1.2 Left out, and why

| part | reason |
|---|---|
| alarm watchdog (builds without threads) | not the default build; planned |
| `setbaud`, `setTimeouts` | hand settings to the kernel and keep nothing |
| `SysUtil` but `open()` and `getenv()` | single system calls without state |
| `APE_Proto.js` | a dispatch table without concurrency; planned last |
| options, versions, GC parameters | settings of the engine |
| lazy resolution in sandboxes, enumeration of split objects, the hooks of `it` that only print | keep nothing |
| debugging natives | read the engine's data structures |
| texts of the error reporter and of help | wording and layout |
| `include/`, build files | third-party and generated |

The engine, NSPR and the kernel are external: they are modelled from how the
shell uses them (requests, stop-the-world collection, condition variables,
descriptors, `read(2)` that returns what there is).

## 2. The modules

| module | models | state corresponds to |
|---|---|---|
| `IntervalTime` | `PRIntervalTime`, `IsBefore` (3089) | a counter modulo `2 * HALF` |
| `DeadlineTimer` | the timer the callers rely on (abstract) | `clock`, `deadline`, `expiring`, `canceled` |
| `Watchdog` | the watchdog, one step per critical section | the globals and locals by name; `now` is `PR_IntervalNow()`, `pc` where each thread is, `wakeAt` when the watchdog's wait times out |
| `Shell` | extends `Watchdog` with the prompt, the limits and the natives | the globals by name; `phase` is where a thread's script is, `opFlag` the flag of its context |
| `ForkJoin` | what `scatter()` promises (abstract) | `run`, `returned` |
| `Scatter` | `scatter()`, step by step, with a collector and a cancellation | `pc`, `i`, `status` of the caller, `wpc`, `cx`, `inRequest` of the workers, `resultRoots`, `fnRoots`, `mem`, `gc` |
| `SockBuffer` | `read_buffer` as cells, one action per `read(2)`, its growth and a peer that hangs up | `read_buffer`, `buffer_size`, `buffer_pos`, `total_length`; `stream`, `arrived`, `taken`, `hungUp` are the peer and the kernel |
| `WsClient` | extends `SockBuffer` with the scripts and an APE server | `phase` is where `start_ws` and the poll loop are; `lines`, `hash`, `frames` what the script got |
| `Sockets` | objects, descriptors, requests, `SysUtil.open()` | `sock`, `state`, `saveDepth` of the objects, `open` descriptors, `depth` of the requests |
| `Repl` | `GetLine`, `Process`, `ReadLine` | `line`, `buffer`, `buf` with their sizes; `typed` and `pos` are the input |
| `CommandLine` | extends `Repl` with `ProcessArgs` | `argv`, `i`, `arguments`, `filename`, `result` |
| `Dso`, `Poll`, `Eaton`, `CountHeap` | one native family each | their locals and tables |
| `SplitObjects` | the two objects of `-z` and the hooks of their class | `private` is the `ComplexObject` of each, `innerProps`, `outerOwn` their properties |
| `Sandbox` | one statement with `evalcx()` within `evalcx()` | `contexts` is the stack of them; `evalExit`, `evalCanceled` are `gExitCode`, `gCanceled`; `failure` is history |
| `Environ` | the object `environment`, `getenv()` | `envp` is `main()`'s array, `environ` the C library's; `listing` where `env_enumerate` is in each thread, `cut` the strings without their `=` |
| `Output` | `print()`, `write()`, `help()` on one descriptor | `stream` is the buffer, `shown` what came out, `lost` what the system refused; `calls` is the stack of the natives that run within each other, `errno` is theirs together |
| `Its` | the rooted values of `it` | `cell` is the object's private, `contents`, `roots` the memory; `setting` where `its_setter` is in each thread |
| `Snarf` | `snarf()`, one action per call of the C library | its locals |
| `MCParts` | composes `CommandLine` and the ten modules after it, each behaviour being of one part | |
| `MCWatchdog`, `MCShell`, `MCScatter`, `MCWsClient`, `MCSockets` | instances for TLC | |
| `ShellProofs`, `ScatterProofs`, `SocketsProofs`, `ConsoleProofs`, `PlumbingProofs`, `WsProofs`, `ToolProofs` | the proofs; `ShellProofs` is about `Watchdog` and `Shell`, `ConsoleProofs` about `Repl` and `CommandLine`, `PlumbingProofs` about `CountHeap`, `Poll` and `Eaton`, `WsProofs` about `SockBuffer` and `WsClient`, `ToolProofs` about `Snarf`, `Sandbox`, `Its`, `Dso`, `Output`, `SplitObjects` and `Environ` | |
| `DataLemmas` | lemmas about naturals, recursive functions and sequences of sequences that these share | |

Conventions. An operation that holds a lock or waits is split where others can
run: entering a wait, being woken and taking the lock again are three steps. A
native that calls back, or that leaves its request to wait, is split at that
point; everything else is one action per native. What a script does is a choice
of the natives it may call, what a user types, what a peer sends and which
allocation fails are choices too. The action names are those of the functions
they are part of; a failure path is an action of its own (`ArmFails`,
`SpawnFails`, `ConnectFails`). A definition marked as a mutant is no part of its
module: it changes the one it is named after the way a slip in the code would, and
`PROJECT.json` lists which property is violated then.

`Shell` reuses the actions of `Watchdog`: a thread's call is its `Call...` action,
and the call is over when `pc[t] = "idle"`. `CancelExecution` is two steps outside
the lock (`gCanceled`, then the contexts), which is where it races with
`Process`' reset of `gCanceled` and with contexts being created. `Scatter` has the
same two steps against `JS_NewContext` and the callback of the new context.

## 3. The runs

Every state space is explored in full. Deadlock is not checked, because the
programs end: the shell exits, scripts stop, a peer sends no more. That waits end
is stated by liveness properties instead.

| run | instance | distinct states | shows |
|---|---|---|---|
| `watchdog` | two script threads, clock of 6 ticks, intervals 1, lateness 1 | 240,354 | deadlines are watched and expire, comparisons are in range, sleeps end, `KillWatchdog` returns, nothing uses the lock after it; refines `DeadlineTimer` |
| `watchdog_sleepers` | clock of 4 ticks, lateness 0 | | **violation**, section 5 |
| `shell` | main, one worker, all four natives | 3,185,116 | `NoLimitAtPrompt`, `WorkersDone` |
| `shell_live` | main only, `timeout`, `sleep`, `quit` | 114,324 | `LimitInForce`, `CancelStopsScript` |
| `shell_cancel` | main with `timeout` and `scatter` | | **violation**, section 5 |
| `scatter` | four functions, one other thread that collects | 73,887 | `CleanExit`, `ResultsSurvive`, `ContextsReleased`, `NoContextEscapes`, `ScatterReturns`; refines `ForkJoin` |
| `ws_client` | buffer of 12 that grows once by 8, responses of two to four lines, frames of up to 13 bytes, a server that may hang up anywhere | 28,941 | lines, challenge and frames reach the script whole, and every frame is handled |
| `ws_split` | the same, the response cut anywhere | | **violation**, section 5 |
| `sockets` | two objects, two threads, three descriptors | 2,671,734 | `FdsHeld`, `FdsAccounted`, `RequestsKept` |
| `sockets_stdin` | two objects for standard input | | **violation**, section 5 |
| `parts` | see below | 447,835 | one property or more of each of eleven parts |
| `split_delete` | `SplitObjects` with three names | | **violation**, section 5 |

The properties of `parts`: `ArgumentsMatch`, `StatusTells` (`CommandLine`),
`StatementsWhole`, `BuffersFit` (`Repl`), `HandlesKept` (`Dso`), `PollServes` (`Poll`),
`PacketsWhole` (`Eaton`), `CountExact` (`CountHeap`), `ObjectsKept`
(`SplitObjects`), `ExitTells` (`Sandbox`), `EnvAgrees` (`Environ`), `OutputInOrder`,
`WriteTells` (`Output`), `CellsRooted` (`Its`), `SnarfWhole` (`Snarf`).

Why the bounds are enough:

* Clock. Three things matter: that the counter wraps, that an interval is shorter
  than half of it, and that a thread may be late. Six ticks with intervals of
  one and lateness one have all three; the proofs cover all ranges. In the other
  runs, four ticks keep the wrap.
* Threads. Two script threads and the watchdog give every pair of callers of the
  lock; the properties speak of pairs. The proofs are for any number.
* `scatter()`. With four functions a failure can hit the first, a middle and the
  last one, with workers before and after it. One other thread is enough to
  collect while workers are in requests.
* Receive buffer. A buffer of 12 with a growth of 8 is filled by a response of
  three or four lines with its challenge, and must grow for a frame of 13. What
  `malloc` leaves in it is any of three bytes: newline, NUL, other. The run allows
  one growth (`MaxGrow`), which is all that the longest frame needs.
* Descriptors. Three (standard input and two more) are fewer than two objects
  with an accepted one want, so they are used again and run out. Threads and
  objects are interchangeable, hence the symmetry; the properties checked under
  it are invariants. Both threads may read and write one object at once; a
  native that opens or closes an object runs only while no other thread uses it,
  which the code leaves to the scripts.
* `parts`. Lines of one to five bytes against buffers of two fit, fill and
  overflow them more than once. Command lines are all those of up to two words
  of 17, three words of 11 and four of 4; long input is given to the empty
  command line, one byte to those of up to two words, none to longer ones. Two
  slots, two libraries, two threads, two calls within each other, and nothing
  after two calls met in one slot. Arrays of up to three entries of two sockets, so that a
  socket may be in it twice. Up to two packets, their data including the framing
  bytes, with noise. All heaps of two objects and a string. Three names of properties,
  among them those of the values `true` and `undefined` that the hooks of the split
  objects put in place of a name, and `isInner`, which they answer themselves. Contexts up to four deep (the statement's and
  three sandboxes): what `evalcx()` does with an exception alternates from level to
  level, so three levels have every pair of neighbours. An environment of one
  variable that grows to three strings, two names, two values, two threads. A native within
  another, each with up to two arguments, any number of calls, and three pieces of
  output in a behaviour: one that is overtaken, one that overtakes and one between. Two objects with
  rooted values, two threads and three cells: one more cell than objects, so that one can
  leak. Files of up to two bytes that change length at any time. The parts share
  no state, so each behaviour is of one of them.

Properties with a stated exception, because without it they are false of the
code (the hazards in `PROJECT.json` say what happens then):

| property | stated |
|---|---|
| `ArgumentsMatch` | of command lines without `-o`, whose operand only the second pass skips (js.cpp:634) |
| `StatusTells` | but for `-t` and `-P`, which refuse a value with status 0 (js.cpp:772) |
| `FdsAccounted` | up to the descriptors `bind()` forgets, which it lists (js_socket.cpp:473) |
| `RequestsKept` | of threads none of whose calls failed between suspending and resuming (js_socket.cpp:821), and that shared no object with such a thread (js_socket.cpp:183) |
| `LinesMatch`, `ChallengeRead`, `FramesInOrder` | `LinesMatch` of responses that arrive line by line (section 5); of a peer that hangs up, what it had sent whole |
| `LimitInForce` | with one script thread: `SetTimeoutValue` stores the limit outside the lock (js.cpp:3584) |
| `PollServes` | of arrays without a closed socket, which shortens the array (js_socket.cpp:561) |
| `PacketsWhole` | as long as no `read(2)` of a packet's data falls short (js_socket.cpp:703) |
| `HandlesKept` | until two calls choose the same slot (jsdso.cpp:119) |
| `ExitTells` | but for what fails inside a sandbox by `quit()` or the watchdog, or by an exception two levels down, which all become "out of memory" (js.cpp:3055), and `quit(0)`, which the watchdog may turn into a timeout |
| `EnvAgrees` | but for names whose old value a listing brought back, that could not be set, or that were used while their `=` was missing (js.cpp:4624) |
| `OutputInOrder` | but for pieces of `write()`, which overtake what is in the stream: text of `help()`, of a `print()` that failed, or of one that still runs while an argument's `toString` calls `write()` (js.cpp:1050, 1109); never what was said before a `print()` or `write()` returned |
| `WriteTells` | the count it returns may be short, and it may fail because of an `errno` left over (js.cpp:1103) |
| `CellsRooted` | but for two threads that set the first value of one object at once (js.cpp:4063) |
| `FdsHeld` | the theorem, with at most one object made for a descriptor (section 5, `CollectionSpares`) |

## 4. Fairness

No specification assumes that a user types, that a peer sends or that an
allocation succeeds, and only `Scatter` assumes that a script function ends.

* `Watchdog`: time passes (WF `Tick`); who wants the lock again and again gets it
  (SF `Acquire`: NSPR's locks are pthread mutexes, and the critical sections are
  short); a timed wait that is over returns, and a thread that holds the lock
  goes on (WF).
* `Shell`: the same, and SF on `ServeCallback`, because the engine polls the flag
  at every loop edge and call; WF on the prompt's own steps. A statement that
  never ends is allowed; that is what the watchdog is for.
* `Scatter`: SF on the caller and every worker, which a collection may stop and
  release any number of times, and WF on the end of a collection. A function may
  fail or collect garbage, but ends: `ScatterReturns` says that `scatter()` returns when
  its functions do. The safety properties do not depend on it.
* `WsClient`: WF on the natives and on the script; none on the server, which
  answers when it wants. `FramesHandled` speaks of frames that have arrived.

## 5. Where the code and its texts disagree

* `SleepersWoken` (js.cpp:3129). "Wake up any threads doing sleep" (3441), but
  `Sleep_fn` does not look at `gCanceled` before its first wait: a thread that takes the
  lock after the notification sleeps its whole interval.
* `CancelStopsMain` (js.cpp:3174). `DoScatteredWork` swallows the failure of the
  first function, with the callback's flag consumed: the script that called
  `scatter()` goes on, without any limit.
* `LinesMatch` (js_socket.cpp:842). When a line is cut by a segment,
  `buffer_pos` advances by the room there was, not by what was received: the
  line returned ends where the first segment did.
* `CollectionSpares` (js_socket.cpp:94). Two objects can be made for standard
  input; the collection of one closes it under the other. `APE_Proto.js` and
  `ape_conn.js` both make one.
* `OnlyTheNamed` (js.cpp:2675). "Make sure to define this property on the inner
  object" (2601, 2674), but `split_addProperty` and `split_delProperty` make the name
  of the property from `*vp`, the value: an assignment through the outer object of
  `-z` defines another property on the inner one as well, and a deletion deletes
  the property `true`.

## 6. What is proved

The modules of proofs follow the same plan: an inductive invariant as a
conjunction of named parts, one lemma per part with one step per action, and
the theorems from it by temporal logic.

**`ShellProofs`, the watchdog**, for any clock, intervals, number of threads and lateness
with `MaxInterval + Latency < HALF` (`IntervalAssumption`; in the code
`MAX_TIMEOUT_INTERVAL` is 1800 seconds, and half the range of the counter is
2^31 ticks) and a watchdog that is none of the script threads
(`ThreadAssumption`). The invariant has two parts.

* `Life`: types, `ThreadLifecycle` (the watchdog exists exactly as long as
  `gWatchdogThread` or the join in `KillWatchdog` says; locks are held only
  inside critical sections) and `NoDeadlineWithoutThread`.
* `Timing`: every instant anybody waits for is near the clock, the intervals of
  sleepers are legal, and the watchdog's wait ends no later than the deadline.
  `DeadlineWatched` is not inductive alone. When a thread sets a new deadline it compares
  it with the old one by `IsBefore`, which is only an order among instants
  within half the range: `ReachedTransitive` needs both to be near the clock,
  and `NearAfterTick` is what keeps them so when time passes.

Theorems: `TypeCorrect`, `WatchedTheorem`, `RangeTheorem`, `AssertionTheorem`,
`LifecycleTheorem`, `DestroyedTheorem`, and `TimerTheorem`: the safety part
implements `DeadlineTimer`, every step being one of the timer or a stutter.

**`ScatterProofs`**, for any length of the array, any number of other threads
and any failures (`ScatterAssumption`: the length is a natural number and the
names of threads are distinct). The invariant:

* `Loops`, `Signal`, `Progress`: how far the caller's loops, `sd.status` and each
  worker may be in relation to each other;
* `Contexts`: who owns each context and who is in a request;
* `Memory`, `Results`: what is allocated and rooted, and that a value returned is
  rooted until the array holds it;
* `Cancellation`: a context that runs script has been told of the cancellation or
  was created after it.

`CleanExit` speaks of the end only, and follows because each loop that undoes
the work counts down from where it failed, which `Loops` and `Memory` relate to
what there is to undo. Theorems: `ScatterTypeCorrect`, `CleanExitTheorem`,
`ResultsTheorem`, `ContextsTheorem`, `EscapeTheorem`, and `PromiseTheorem`:
`scatter()` implements `ForkJoin`.

**`ShellProofs`, the shell**, under the assumptions of `Watchdog`. The invariant is joint with
that of `Watchdog`: `ShellTypes`; `MainAt` (where the first thread can be while
its call of the watchdog is in progress); `WorkersAt` (workers run only while the
first thread is in `scatter()`); `NoDeadline` (from the end of the call that clears
it, to the line). `ShellSteps` shows that every step of the shell is a step of
`Watchdog` or leaves its variables alone; it needs the invariant, since
`KillWatchdog` may be called only when no thread can still call the watchdog. So
`ShellWatchdogTheorem`: the shell's behaviours are behaviours of `Watchdog`, and its
theorems hold in the shell, `ShellWatchedTheorem` for one. `WorkersTheorem` and
`PromptTheorem` follow from `WorkersAt` and `NoDeadline`. `LimitTheorem` has a
condition, `OneScheduler`: the script does not call both `timeout()` and `scatter()`, or
there is one thread. Without it `LimitInForce` is false, because
`SetTimeoutValue` stores the limit before it takes the lock (js.cpp:3584). Its
invariant is `LimitScheduled`: where the limit and the deadline disagree, the first
thread is on its way to schedule what is stored.

**`SocketsProofs`**, for any threads, objects and number of descriptors
(`SocketsAssumption`: the objects are finitely many, the bounds are natural
numbers). The invariant:

* `Turns`: which object each waiting thread is in, and that a native which opens
  or closes an object has it to itself;
* `Depths`: `RequestsKept`, and that the `saveDepth` a waiting thread will resume with is
  its own unless a call failed in it or in one it shared the object with;
* `Accounting`: `FdsAccounted`, which is inductive only with `Halfway`, what a
  native that opens or closes has done so far;
* `OneWrapper` and `Openers`, for `FdsHeld` only: no two objects were made for a
  descriptor by its number, and a descriptor that is free has no opener.

Theorems: `SocketsTypeCorrect`, `RequestsTheorem`, `AccountedTheorem`, and
`HeldTheorem`, which assumes `Wrappers <= 1`; with two it is false
(`CollectionSpares`).

**`ToolProofs`**, one invariant per module.

* `SnarfTheorem`: what `snarf()` holds at each place, `SnarfHeld`, and how much it
  read of a file that changes, `SnarfRead`; for any lengths.
* `SandboxTheorem`: for sandboxes within each other to any depth. `Levels`: every
  other context leaves its exceptions alone, and only the innermost has one.
  `Outwards`: a failure on its way out either still has its exception, and then no
  exit code was set for it, or has none, and then the exit code is already what
  `ExitTells` wants of the depth it has come to.
* `ItsTheorem`: for any objects, threads and cells. `Underways`: which cell a
  thread is setting up, and that it is nobody else's; `OwnCells`; and `NoneLost`,
  which holds until two threads set the first value of one object at once.
* `DsoTheorem`: for any number of slots, libraries, threads and calls within each
  other (`DsoAssumption`). `HandlesKept` counts three sets; it is inductive only with
  `UnloadsKept`: unless two calls have met, the calls that unload are each of a slot of
  their own, which still holds the library the call read from it. So a slot that
  is emptied is counted for the library whose count went down, and one that is
  filled was nobody's. `LeavesCount`, `ContinuesCount` and `SlotSet` say what a step does
  to the three counts.
* `OrderTheorem` and `WriteTheorem`: for any arguments, any number of pieces and natives
  of one thread within each other to any depth.
  `OutputInOrder` speaks of what was shown; it is inductive only with `Buffered`, which says
  the same of what the stream still holds: it is in order, none of it was there when
  a `print()` or `write()` returned, and only `write()` has overtaken it. `WriteTells`
  needs `WrittenSoFar`, which says of every `write()` that still runs, the innermost
  or not, that what it has said was taken.
* `ObjectsTheorem`, from `Stages`: what each step of `split_setup` has made. The collector
  finds the inner object through the outer one's private.
* `EnvironTheorem`: for any variables, each once at first (`EnvironAssumption`), and any threads.
  `Cutting`: a string without its `=` is in the hands of exactly one thread. `Arrays`:
  the C library's array has the same names at the places of `main()`'s,
  so the copy a listing makes at a shared place is that of the first string of
  the name, the one `getenv` returns. `Copies` says what `EnvAgrees` does, of the first string
  with or without its `=`.

**`ConsoleProofs`**, for any first sizes of the buffers (two bytes at least), any
input and any command lines (`ReplAssumption`, `CommandLineAssumption`).

* `BuffersTheorem`: what is written to the line, statement and `readline()` buffers
  fits them. It needs `LineRoom` (`fgets` is always given room for a byte and the
  NUL) and `NewlinesCounted`: the statement buffer holds an end of line before each line but
  the first, and `len` counts it though the line was stripped of it, so
  whether `len` is 0 tells the first line of a statement from the others.
* `StatusTheorem`: `StatusTells`, from `Prompting` (`Process` is at the prompt only where
  `ProcessArgs` called it) and `NoneFailed`: as long as `ProcessArgs` goes on, no file of
  `-f` has left an exit code.
* `ArgumentsTheorem`: `ArgumentsMatch`. Where the first pass stops is a recursive
  function of the position, `Stop`. The invariant says that from wherever the second pass
  is, the first would have stopped where it did: on every option without `-o` the
  two take the same step.
* `StatementsTheorem`: `StatementsWhole`, for input of any characters but NUL, which
  ends a string early. `CompiledSoFar` says at each place of the three loops that
  what was read is what was compiled or returned by `readline()`, then the lines of the
  statement so far (each with the end that was stripped of it), then what the reader
  holds. At the end of the input the last line may have been given an end it did not
  have, which `IsRead` allows once. `Numbers` relates `lineno` and `startline` to the ends of
  lines in those pieces. Both need `ReplInv`: a byte is only where it is said to be if the
  buffers had room for it.

**`PlumbingProofs`**, one invariant per module.

* `CountTheorem`: for any finite set of things and any heap. `Counting`: what was traced is
  counted, what it refers to is found or on its way. When nothing is left to
  trace, what was visited is closed under references, so it contains what is reachable,
  which is the least such set; and it is contained in it all along.
* `PollTheorem`: for arrays of any length, with any socket in it several times. `Polled`: the slots
  are the sockets of the array in order, so the index of a loop and the callbacks
  made so far determine each other; what a callback closes does not move a slot.
* `EatonTheorem`: for any sequence of frames whose noise has no header byte and whose data fits
  a packet (`EatonAssumption`; the data may contain any byte). `InStep`: how many bytes of the
  stream were taken tells which frame the call is in, and where in it. `StreamAt` finds a byte of
  the stream in its frame.

`DataLemmas` does what induction would. The library's induction theorems take an
operator as a parameter, which the provers here cannot instantiate; but a set of naturals has
a least element (`LeastNat`, from `WFMin`), so a claim that fails for some number
fails for a least one. `Recursion` shows in this way that a recursive function on an interval exists,
and so satisfies its equation, and the `Flatten` lemmas what the flattening of a
sequence of sequences is.

**`WsProofs`**, for any sequences of lengths of lines and frames, any length of the
challenge, any size and growth of the buffer, and whatever malloc leaves in it
(`BufferAssumption`; `WsAssumption`: the last line of a response is blank and no other,
no frame is empty).

The theorems have a condition, `KindNetwork`: a segment of the response is one line or all that
is left of it, and the response fits the buffer. Without the first `LinesMatch` is
false, which the run `ws_split` shows. The second is a bound on the peer: the buffer starts at
32*1024 bytes, far more than such a response needs, and a longer one would enlarge it in
`read()`, which the code itself says is broken (the TODO at js_socket.cpp:71). Nothing is asked of
the segments the frames come in, of the lengths of frames, or of when the server hangs up.

The invariant `WsInv` says where the client is in the stream at each phase.

* `ReadingLines`: after `q` lines what follows is in the kernel, with an empty buffer
  (`InKernel`), or all of it is in the buffer, in its place (`InBuffer`), or the server
  has hung up and nothing more comes (`GivenUp`). `buffer_pos` may count more
  bytes than there are after a line was taken from the front, which `InBuffer` allows;
  the surplus lies behind the response, so nothing that is looked for is found in it.
* `ReadingChallenge`: the same behind the last line. Since a native that finds the end of
  a line in the buffer does not wait, `readBytes()` waits only with an empty buffer,
  which is why it may ignore what was in it.
* `ReadingFrames`: `AtFrame`, which byte of which frame comes next and that
  `read_buffer` begins with the `total_length` bytes of it that came; `Over`, once
  the server has hung up and everything was read.

`Starts`, `Order` and `StreamAt` say where each line and frame of the stream begins and which
byte is at each place, by the same argument on least numbers as in
`DataLemmas`; `LineReceived` and `Ended` what the natives make of a buffer that
begins with a line or a frame. Theorems: `LinesTheorem`, `ChallengeTheorem`,
`FramesTheorem`.

**Only model-checked**: liveness (it needs fairness and ENABLED, which TLAPS does
not handle), so of `TimerSpec` the safety part is proved and its fairness checked. Every
invariant that a passing run checks is a theorem. No module has a RECURSIVE operator: the models use
recursive functions, folds and least sets. The named assumptions of all modules are
evaluated by TLC in the runs.

## 7. Hazards

`PROJECT.json` lists the steps of this code that a test would hardly reach,
each at its line with the properties that watch it. Two have no property:

* js.cpp:472: the reset of `gCanceled` races with a late cancellation. The race
  is in `Shell`; nothing says what should happen.
* js_socket.cpp:569: natives that block inside their request hold up the
  collector; in `Sockets` they are single actions.

## 8. Plan

Done, in this order: Watchdog with its abstraction and proofs; Shell; Scatter with
its abstraction and proofs; SockBuffer and WsClient; Sockets; CommandLine and
Repl; Dso, Poll, Eaton, CountHeap; SplitObjects, Sandbox, Environ, Output, Its and
Snarf; hang-ups and growth in SockBuffer; threads that share a socket; the
proofs about Sockets, Shell, the tools, the console, the table of
libraries and the objects; the proofs about data: arguments, statements,
`poll()`, packets, `countHeap()`, lines, challenge and frames.

Next, to model:

1. Natives that block inside a request, against the collector of `Scatter`
   (js_socket.cpp:569), and opening natives of one object in two threads.
2. Segments of several whole lines without the challenge (js_socket.cpp:803).
3. `poll()` with closed sockets, short reads of packets and clashes in the table
   of libraries, as runs that state what the texts promise.
4. The alarm watchdog as a second implementation of `DeadlineTimer`.
5. `APE_Proto.js`: dispatch to pipes on top of `WsClient`.

Next, to prove: item 2 with a `KindNetwork` that allows such segments; that `Dso` stays
balanced after two calls have met, but for the libraries they were about.
