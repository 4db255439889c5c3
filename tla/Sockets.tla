------------------------------ MODULE Sockets -------------------------------
(***************************************************************************)
(* Socket objects (js_socket.cpp) and the file descriptors of the process: *)
(* construct, connect, bind, accept, the natives that read and write,      *)
(* close, and js_sock_destroy when an object is collected, together with   *)
(* SysUtil.open() of js_sysutil.cpp, which takes descriptors from the same *)
(* table.  Scripts of several threads use the objects, and a native that   *)
(* waits leaves the request of its thread meanwhile and keeps the depth to *)
(* come back to in the object.                                             *)
(*                                                                         *)
(* A native is one action, or two where it waits outside its request.      *)
(***************************************************************************)
EXTENDS Integers, FiniteSets

CONSTANTS
    Socks,      \* what Socket objects can be made of
    Threads,
    MaxFd,      \* the highest descriptor the process may have
    Wrappers    \* how many live objects scripts make for one descriptor

Closed == -1
Stdin == 0
Fds == 0 .. MaxFd

\* Who opened a descriptor that no socket did
Process == "process"
Nothing == "nothing"

ASSUME SocketsAssumption ==
    /\ MaxFd \in Nat /\ Wrappers \in Nat
    /\ IsFiniteSet(Socks)
    /\ Process \notin Socks /\ Nothing \notin Socks

VARIABLES
    live, reachable,    \* the objects there are, and those scripts still have
    sock, state, saveDepth,
    open,               \* the open descriptors
    opener,             \* history: for whom each of them was opened
    wraps,              \* history: objects made by new Socket(fd)
    leaked,             \* history: descriptors bind() forgot
    depth,              \* the request depth of each thread's context
    at, on,             \* the native each thread waits in, and its object
    failed,             \* history: threads that a native returned to with an error
                        \* between JS_SuspendRequest and JS_ResumeRequest
    shared              \* history: threads that waited in a native of an object
                        \* while another one did

objVars == <<live, reachable, sock, state>>
fdVars == <<open, opener, wraps, leaked>>
threadVars == <<at, on, failed, shared>>
vars == <<objVars, saveDepth, fdVars, depth, threadVars>>

Init ==
    /\ live = {} /\ reachable = {}
    /\ sock = [s \in Socks |-> Closed]
    /\ state = [s \in Socks |-> "disconnected"]
    /\ saveDepth = [s \in Socks |-> 0]
    /\ open = {Stdin}
    /\ opener = [fd \in Fds |-> IF fd = Stdin THEN Process ELSE Nothing]
    /\ wraps = {} /\ leaked = {}
    /\ depth = [t \in Threads |-> 1]
    /\ at = [t \in Threads |-> "script"]
    /\ on = [t \in Threads |-> Nothing]
    /\ failed = {} /\ shared = {}

\* A thread runs script, and the others in natives of the object read or write.
\* What opens or closes it is not called then: the scripts take turns.
CallsAlso(t, s) ==
    /\ at[t] = "script"
    /\ s \in reachable
    /\ \A u \in Threads : on[u] = s => at[u] \in {"write", "read", "readBytes"}
Calls(t, s) == CallsAlso(t, s) /\ \A u \in Threads : on[u] # s

Back(t) ==
    /\ at' = [at EXCEPT ![t] = "script"]
    /\ on' = [on EXCEPT ![t] = Nothing]

\* saveDepth = JS_SuspendRequest(cx)
Waits(t, s, native) ==
    /\ at' = [at EXCEPT ![t] = native]
    /\ on' = [on EXCEPT ![t] = s]
    /\ saveDepth' = [saveDepth EXCEPT ![s] = depth[t]]
    /\ depth' = [depth EXCEPT ![t] = 0]
    /\ LET others == {u \in Threads : on[u] = s}
       IN shared' = IF others = {} THEN shared ELSE shared \cup others \cup {t}
    /\ UNCHANGED failed

\* JS_ResumeRequest(cx, js_sock->saveDepth)
Resumes(t, s) ==
    /\ Back(t)
    /\ depth' = [depth EXCEPT ![t] = saveDepth[s]]
    /\ UNCHANGED <<saveDepth, failed, shared>>

\* JS_ReportError and return, without JS_ResumeRequest
Fails(t) ==
    /\ Back(t)
    /\ failed' = failed \cup {t}
    /\ UNCHANGED <<saveDepth, depth, shared>>

\* The lowest free descriptor is opened for s.
Free == Fds \ open
Opens(s, fd) ==
    /\ fd \in Free /\ \A g \in Free : fd <= g
    /\ open' = open \cup {fd}
    /\ opener' = [opener EXCEPT ![fd] = s]

Closes(fds) ==
    /\ open' = open \ fds
    /\ opener' = [fd \in Fds |-> IF fd \in fds THEN Nothing ELSE opener[fd]]
    /\ leaked' = leaked \ fds

-----------------------------------------------------------------------------
(* Objects.                                                                *)

Construct(t, s) ==
    /\ at[t] = "script"
    /\ s \notin live
    /\ live' = live \cup {s} /\ reachable' = reachable \cup {s}
    /\ sock' = [sock EXCEPT ![s] = Closed]
    /\ state' = [state EXCEPT ![s] = "disconnected"]
    /\ wraps' = wraps \ {s}
    /\ UNCHANGED <<saveDepth, open, opener, leaked, depth, threadVars>>

\* new Socket(fd), for standard input or what SysUtil.open() returned
ConstructFd(t, s, fd) ==
    /\ at[t] = "script"
    /\ s \notin live
    /\ opener[fd] = Process
    /\ Cardinality({o \in live \cap wraps : sock[o] = fd}) < Wrappers
    /\ live' = live \cup {s} /\ reachable' = reachable \cup {s}
    /\ sock' = [sock EXCEPT ![s] = fd]
    /\ state' = [state EXCEPT ![s] = "connected"]
    /\ wraps' = wraps \cup {s}
    /\ UNCHANGED <<saveDepth, open, opener, leaked, depth, threadVars>>

\* SysUtil.open()
SysOpen(t) ==
    /\ at[t] = "script"
    /\ \E fd \in Fds : Opens(Process, fd)
    /\ UNCHANGED <<objVars, saveDepth, wraps, leaked, depth, threadVars>>

\* A script forgets an object.
Drop(s) ==
    /\ s \in reachable
    /\ \A u \in Threads : on[u] # s
    /\ reachable' = reachable \ {s}
    /\ UNCHANGED <<live, sock, state, saveDepth, fdVars, depth, threadVars>>

\* A collection: js_sock_destroy closes what the objects have, and they are
\* gone.  It waits for threads that stay in their request and do not run
\* script.
Collect ==
    LET dead == live \ reachable
        gone(f, v) == [s \in Socks |-> IF s \in dead THEN v ELSE f[s]]
    IN /\ dead # {}
       /\ \E t \in Threads : at[t] = "script"
       /\ \A t \in Threads : at[t] = "script" \/ depth[t] = 0
       /\ live' = reachable
       /\ Closes({sock[s] : s \in dead} \ {Closed})
       /\ sock' = gone(sock, Closed)
       /\ state' = gone(state, "disconnected")
       /\ saveDepth' = gone(saveDepth, 0)
       /\ wraps' = wraps \ dead
       /\ UNCHANGED <<reachable, depth, threadVars>>

-----------------------------------------------------------------------------
(* connect().                                                              *)

\* A mutant: connect() does not close what the object had.
ConnectForgets(t, s) ==
    /\ Calls(t, s)
    /\ sock' = [sock EXCEPT ![s] = Closed]
    /\ wraps' = wraps \ {s}
    /\ Waits(t, s, "connect")
    /\ UNCHANGED <<live, reachable, state, open, opener, leaked>>

\* The old descriptor is closed first; the state stays.  When the name is not
\* found the call is over.
Connect(t, s) ==
    /\ Calls(t, s)
    /\ Closes({sock[s]} \ {Closed})
    /\ sock' = [sock EXCEPT ![s] = Closed]
    /\ wraps' = wraps \ {s}
    /\ \/ Waits(t, s, "connect")
       \/ UNCHANGED <<saveDepth, depth, threadVars>>
    /\ UNCHANGED <<live, reachable, state>>

Connected(t, s) ==
    /\ at[t] = "connect" /\ on[t] = s
    /\ \E fd \in Fds : Opens(s, fd) /\ sock' = [sock EXCEPT ![s] = fd]
    /\ state' = [state EXCEPT ![s] = "connected"]
    /\ Resumes(t, s)
    /\ UNCHANGED <<live, reachable, wraps, leaked>>

\* "no address found"
ConnectFails(t, s) ==
    /\ at[t] = "connect" /\ on[t] = s
    /\ Fails(t)
    /\ UNCHANGED <<objVars, fdVars>>

-----------------------------------------------------------------------------
(* The natives that read and write.                                        *)

Transfer(t, s, native) ==
    /\ CallsAlso(t, s)
    /\ Waits(t, s, native)
    /\ UNCHANGED <<objVars, fdVars>>

\* A mutant: an error of write() returns at once.
WriteFailsAtOnce(t, s) ==
    /\ at[t] \in {"write", "readBytes"} /\ on[t] = s
    /\ \/ Resumes(t, s)
       \/ Back(t) /\ UNCHANGED <<saveDepth, depth, failed, shared>>
    /\ UNCHANGED <<objVars, fdVars>>

\* write(), write_ws_packet() and readBytes() come back before they look at
\* the result.
TransferEnds(t, s) ==
    /\ at[t] \in {"write", "readBytes"} /\ on[t] = s
    /\ Resumes(t, s)
    /\ UNCHANGED <<objVars, fdVars>>

\* read(), read_ws_packet() and readEatonPacket(), when no read(2) fails
ReadEnds(t, s) ==
    /\ at[t] = "read" /\ on[t] = s
    /\ sock[s] # Closed
    /\ Resumes(t, s)
    /\ UNCHANGED <<objVars, fdVars>>

\* ... and when one does: on a closed socket, or after a receive timeout
ReadFails(t, s) ==
    /\ at[t] = "read" /\ on[t] = s
    /\ Fails(t)
    /\ UNCHANGED <<objVars, fdVars>>

-----------------------------------------------------------------------------
(* bind(), accept() and close().                                           *)

\* The descriptor the object had is forgotten, like one that cannot listen.
Bind(t, s) ==
    /\ Calls(t, s)
    /\ \E fd \in Fds :
          /\ Opens(s, fd)
          /\ \/ /\ sock' = [sock EXCEPT ![s] = fd]
                /\ state' = [state EXCEPT ![s] = "listening"]
                /\ leaked' = leaked \cup ({sock[s]} \ {Closed})
                /\ wraps' = wraps \ {s}
             \/ /\ leaked' = leaked \cup {fd}
                /\ UNCHANGED <<sock, state, wraps>>
    /\ UNCHANGED <<live, reachable, saveDepth, depth, threadVars>>

\* A connection has come; accept() does not leave the request.
Accept(t, s, c) ==
    /\ Calls(t, s)
    /\ state[s] = "listening" /\ sock[s] # Closed
    /\ c \notin live
    /\ live' = live \cup {c} /\ reachable' = reachable \cup {c}
    /\ \E fd \in Fds : Opens(c, fd) /\ sock' = [sock EXCEPT ![c] = fd]
    /\ state' = [state EXCEPT ![c] = "connected"]
    /\ wraps' = wraps \ {c}
    /\ UNCHANGED <<saveDepth, leaked, depth, threadVars>>

\* close(2) and the assignments behind it are two steps outside the request.
Close(t, s) ==
    /\ Calls(t, s)
    /\ Waits(t, s, "close")
    /\ Closes({sock[s]} \ {Closed})
    /\ UNCHANGED <<objVars, wraps>>

\* A mutant: the object keeps the number of the descriptor it closed.
ClosedKeepsFd(t, s) ==
    /\ at[t] = "close" /\ on[t] = s
    /\ state' = [state EXCEPT ![s] = "disconnected"]
    /\ Resumes(t, s)
    /\ UNCHANGED <<live, reachable, sock, fdVars>>

CloseEnds(t, s) ==
    /\ at[t] = "close" /\ on[t] = s
    /\ sock' = [sock EXCEPT ![s] = Closed]
    /\ state' = [state EXCEPT ![s] = "disconnected"]
    /\ wraps' = wraps \ {s}
    /\ Resumes(t, s)
    /\ UNCHANGED <<live, reachable, open, opener, leaked>>

-----------------------------------------------------------------------------
Objects(t, s) ==
    \/ Construct(t, s)
    \/ \E fd \in Fds : ConstructFd(t, s, fd)

Natives(t, s) ==
    \/ Connect(t, s)
    \/ Connected(t, s)
    \/ ConnectFails(t, s)
    \/ \E native \in {"write", "read", "readBytes"} : Transfer(t, s, native)
    \/ TransferEnds(t, s)
    \/ ReadEnds(t, s)
    \/ ReadFails(t, s)
    \/ Bind(t, s)
    \/ \E c \in Socks : Accept(t, s, c)
    \/ Close(t, s)
    \/ CloseEnds(t, s)

Next ==
    \/ \E t \in Threads, s \in Socks : Objects(t, s) \/ Natives(t, s)
    \/ \E t \in Threads : SysOpen(t)
    \/ \E s \in Socks : Drop(s)
    \/ Collect

Spec == Init /\ [][Next]_vars

-----------------------------------------------------------------------------
(* Properties.                                                             *)

TypeOK ==
    /\ reachable \subseteq live /\ live \subseteq Socks
    /\ sock \in [Socks -> Fds \cup {Closed}]
    /\ state \in [Socks -> {"disconnected", "connected", "listening"}]
    /\ saveDepth \in [Socks -> {0, 1}]
    /\ open \subseteq Fds
    /\ opener \in [Fds -> Socks \cup {Process, Nothing}]
    /\ wraps \subseteq Socks /\ leaked \subseteq Fds
    /\ depth \in [Threads -> {0, 1}]
    /\ at \in [Threads -> {"script", "connect", "write", "read", "readBytes", "close"}]
    /\ on \in [Threads -> Socks \cup {Nothing}]
    /\ failed \subseteq Threads /\ shared \subseteq Threads

\* The native close() has closed the descriptor and not yet forgotten it.
Closing(s) == \E t \in Threads : at[t] = "close" /\ on[t] = s

\* A socket never reads, writes or closes a descriptor that is closed, or was
\* opened for somebody else since: whatever was connected, bound, accepted,
\* closed and collected in between, and though numbers are used again.
FdsHeld ==
    \A s \in live :
        sock[s] # Closed /\ ~Closing(s) =>
            /\ sock[s] \in open
            /\ opener[sock[s]] = (IF s \in wraps THEN Process ELSE s)

\* "enables us to listen on stdin etc" (js_sock_construct): a collection closes
\* no descriptor of an object that scripts still have.
CollectionSpares ==
    [][Collect => \A s \in reachable : sock[s] \in open => sock[s] \in open']_vars

\* Nothing leaks but what bind() forgets: a descriptor opened for a socket is
\* the one its object has until the object closes it, is connected elsewhere
\* or is collected.
FdsAccounted ==
    \A fd \in open :
        opener[fd] \in Socks =>
            fd \in leaked \/ (opener[fd] \in live /\ sock[opener[fd]] = fd)

\* A thread that runs script is in its request, so that collections wait for
\* it, unless connect() or a read has failed in this very thread, or in one
\* that then used an object at the same time: the depth to come back to is kept
\* in the object, and the other one's, which is none, was stored over it.
RequestsKept ==
    \A t \in Threads :
        at[t] = "script" /\ depth[t] = 0 => t \in failed \/ (t \in shared /\ failed # {})
=============================================================================
