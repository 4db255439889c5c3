--------------------------- MODULE SocketsProofs ----------------------------
(***************************************************************************)
(* Proofs about Sockets, for any number of objects, threads and            *)
(* descriptors.  That an object keeps its own descriptor needs scripts     *)
(* that make at most one object for each: two of them is the case of       *)
(* CollectionSpares, which the code does not keep.                         *)
(***************************************************************************)
EXTENDS Sockets, FiniteSetTheorems, TLAPS

-----------------------------------------------------------------------------
(* The inductive invariant.                                                *)

\* Where threads are: an object that a native waits in is not forgotten, and
\* one that is being opened or closed is nobody else's.
Turns ==
    /\ \A t \in Threads : at[t] = "script" <=> on[t] = Nothing
    /\ \A t \in Threads : at[t] # "script" => on[t] \in reachable
    /\ \A t, u \in Threads : at[t] \in {"connect", "close"} /\ on[u] = on[t] => u = t

\* The depth that a waiting thread will come back to
Unsure(t) == t \in failed \/ (t \in shared /\ failed # {})
Depths ==
    /\ RequestsKept
    /\ \A t \in Threads : at[t] # "script" /\ saveDepth[on[t]] = 0 => Unsure(t)

\* What a native that opens or closes has done so far
Halfway ==
    /\ wraps \subseteq live
    /\ \A t \in Threads :
          /\ at[t] = "connect" => sock[on[t]] = Closed /\ on[t] \notin wraps
          /\ at[t] = "close" => \A fd \in open : opener[fd] = on[t] => fd \in leaked

Accounting == Halfway /\ FdsAccounted

\* No two objects made for a descriptor that scripts have the number of
OneWrapper ==
    \A s, r \in live \cap wraps : sock[s] = sock[r] /\ sock[s] # Closed => s = r

-----------------------------------------------------------------------------
(* Types and turns.                                                        *)

LEMMA InitSockets == Init => TypeOK /\ Turns /\ Depths /\ Accounting
  BY SocketsAssumption DEF Init, TypeOK, Turns, Depths, Accounting, Halfway, RequestsKept,
     FdsAccounted, Fds, Closed, Stdin, Process, Nothing

\* The waiting thread's variables keep their types.
LEMMA WaitsTypes ==
  ASSUME TypeOK, NEW t \in Threads, NEW s \in Socks,
         NEW native \in {"connect", "write", "read", "readBytes", "close"}, Waits(t, s, native)
  PROVE  /\ at' \in [Threads -> {"script", "connect", "write", "read", "readBytes", "close"}]
         /\ on' \in [Threads -> Socks \cup {Nothing}]
         /\ saveDepth' \in [Socks -> {0, 1}] /\ depth' \in [Threads -> {0, 1}]
         /\ failed' \subseteq Threads /\ shared' \subseteq Threads
<1>1. shared' \subseteq Threads
  BY DEF TypeOK, Waits
<1>2. QED
  BY <1>1 DEF TypeOK, Waits

LEMMA ClosesTypes ==
  ASSUME TypeOK, NEW fds, Closes(fds)
  PROVE  /\ open' \subseteq Fds /\ leaked' \subseteq Fds
         /\ opener' \in [Fds -> Socks \cup {Process, Nothing}]
  BY DEF TypeOK, Closes

LEMMA OpensTypes ==
  ASSUME TypeOK, NEW s \in Socks \cup {Process}, NEW fd, Opens(s, fd)
  PROVE  /\ fd \in Fds /\ open' \subseteq Fds
         /\ opener' \in [Fds -> Socks \cup {Process, Nothing}]
  BY DEF TypeOK, Opens, Free

LEMMA NextTypes == TypeOK /\ [Next]_vars => TypeOK'
<1> SUFFICES ASSUME TypeOK, [Next]_vars PROVE TypeOK'
  OBVIOUS
<1> USE SocketsAssumption DEF TypeOK, Fds, Closed
<1>1. CASE UNCHANGED vars
  BY <1>1 DEF vars, objVars, fdVars, threadVars
<1>2. ASSUME NEW t \in Threads, NEW s \in Socks, Objects(t, s) PROVE TypeOK'
  <2>1. CASE Construct(t, s)
    BY <2>1 DEF Construct, threadVars
  <2>2. ASSUME NEW fd \in Fds, ConstructFd(t, s, fd) PROVE TypeOK'
    BY <2>2 DEF ConstructFd, threadVars
  <2>3. QED
    BY <1>2, <2>1, <2>2 DEF Objects
<1>3. ASSUME NEW t \in Threads, NEW s \in Socks, Natives(t, s) PROVE TypeOK'
  <2>1. CASE Connect(t, s)
    <3>1. open' \subseteq Fds /\ leaked' \subseteq Fds
          /\ opener' \in [Fds -> Socks \cup {Process, Nothing}]
      BY <2>1, ClosesTypes DEF Connect
    <3>2. CASE Waits(t, s, "connect")
      BY <2>1, <3>1, <3>2, WaitsTypes DEF Connect
    <3>3. CASE UNCHANGED <<saveDepth, depth, threadVars>>
      BY <2>1, <3>1, <3>3 DEF Connect, threadVars
    <3>4. QED
      BY <2>1, <3>2, <3>3 DEF Connect
  <2>2. CASE Connected(t, s)
    BY <2>2 DEF Connected, Opens, Free, Resumes, Back
  <2>3. CASE ConnectFails(t, s)
    BY <2>3 DEF ConnectFails, Fails, Back, objVars, fdVars
  <2>4. ASSUME NEW native \in {"write", "read", "readBytes"}, Transfer(t, s, native)
        PROVE  TypeOK'
    BY <2>4 DEF Transfer, CallsAlso, Waits, objVars, fdVars
  <2>5. CASE TransferEnds(t, s)
    BY <2>5 DEF TransferEnds, Resumes, Back, objVars, fdVars
  <2>6. CASE ReadEnds(t, s)
    BY <2>6 DEF ReadEnds, Resumes, Back, objVars, fdVars
  <2>7. CASE ReadFails(t, s)
    BY <2>7 DEF ReadFails, Fails, Back, objVars, fdVars
  <2>8. CASE Bind(t, s)
    <3>1. PICK fd \in Fds :
             /\ Opens(s, fd)
             /\ sock' = [sock EXCEPT ![s] = fd] \/ sock' = sock
      BY <2>8 DEF Bind
    <3>2. open' \subseteq Fds /\ opener' \in [Fds -> Socks \cup {Process, Nothing}]
      BY <3>1, OpensTypes
    <3>3. leaked' \subseteq Fds
      <4>1. ASSUME NEW f \in Fds PROVE {f} \subseteq Fds
        OBVIOUS
      <4>2. {sock[s]} \ {Closed} \subseteq Fds
        OBVIOUS
      <4>3. QED
        BY <2>8, <4>1, <4>2 DEF Bind
    <3>4. QED
      BY <2>8, <3>1, <3>2, <3>3 DEF Bind, threadVars
  <2>9. ASSUME NEW c \in Socks, Accept(t, s, c) PROVE TypeOK'
    BY <2>9, OpensTypes DEF Accept, threadVars
  <2>10. CASE Close(t, s)
    BY <2>10, WaitsTypes, ClosesTypes DEF Close, objVars
  <2>11. CASE CloseEnds(t, s)
    BY <2>11 DEF CloseEnds, Resumes, Back
  <2>12. QED
    BY <1>3, <2>1, <2>2, <2>3, <2>4, <2>5, <2>6, <2>7, <2>8, <2>9, <2>10, <2>11 DEF Natives
<1>4. ASSUME NEW t \in Threads, SysOpen(t) PROVE TypeOK'
  BY <1>4 DEF SysOpen, Opens, Free, objVars, threadVars
<1>5. ASSUME NEW s \in Socks, Drop(s) PROVE TypeOK'
  BY <1>5 DEF Drop, fdVars, threadVars
<1>6. CASE Collect
  BY <1>6 DEF Collect, Closes, threadVars
<1>7. QED
  BY <1>1, <1>2, <1>3, <1>4, <1>5, <1>6 DEF Next

-----------------------------------------------------------------------------
(* Requests.                                                               *)

\* A thread that enters a native of s, which nobody opens or closes
LEMMA EntersTurns ==
  ASSUME TypeOK, Turns, Depths, NEW t \in Threads, NEW s \in Socks, NEW native,
         native # "script", Waits(t, s, native), CallsAlso(t, s), reachable' = reachable,
         native \in {"connect", "close"} => Calls(t, s)
  PROVE  Turns' /\ Depths'
<1> USE DEF TypeOK
<1>1. at' = [at EXCEPT ![t] = native] /\ on' = [on EXCEPT ![t] = s]
  BY DEF Waits
<1>2. at[t] = "script" /\ s \in reachable /\ on[t] = Nothing
  BY DEF CallsAlso, Turns
<1>3. \A u \in Threads : on[u] = s => at[u] \notin {"connect", "close"}
  BY DEF CallsAlso
<1>4. Turns'
  <2>1. \A u \in Threads : at'[u] = "script" <=> on'[u] = Nothing
    BY <1>1, SocketsAssumption DEF Turns
  <2>2. \A u \in Threads : at'[u] # "script" => on'[u] \in reachable'
    BY <1>1, <1>2 DEF Turns
  <2>3. ASSUME NEW u \in Threads, NEW w \in Threads,
               at'[u] \in {"connect", "close"}, on'[w] = on'[u]
        PROVE  w = u
    <3>1. CASE u = t
      BY <1>1, <2>3, <3>1 DEF Calls
    <3>2. CASE u # t /\ w = t
      BY <1>1, <1>3, <2>3, <3>2
    <3>3. CASE u # t /\ w # t
      BY <1>1, <2>3, <3>3 DEF Turns
    <3>4. QED
      BY <3>1, <3>2, <3>3
  <2>4. QED
    BY <2>1, <2>2, <2>3 DEF Turns
<1>5. failed' = failed /\ shared \subseteq shared'
  BY DEF Waits
<1>6. \A u \in Threads : u # t /\ on[u] = s => u \in shared'
  BY DEF Waits
<1>7. depth[t] = 0 => Unsure(t)
  BY <1>2 DEF Depths, RequestsKept, Unsure
<1>8. saveDepth' = [saveDepth EXCEPT ![s] = depth[t]] /\ depth' = [depth EXCEPT ![t] = 0]
  BY DEF Waits
<1>9. RequestsKept'
  BY <1>1, <1>5, <1>8 DEF Depths, RequestsKept
<1>10. ASSUME NEW u \in Threads, at'[u] # "script", saveDepth'[on'[u]] = 0
       PROVE  Unsure(u)'
  <2>1. CASE u = t
    BY <1>1, <1>5, <1>7, <1>8, <1>10, <2>1 DEF Unsure
  <2>2. CASE u # t /\ on[u] = s
    BY <1>1, <1>5, <1>6, <1>7, <1>8, <1>10, <2>2 DEF Unsure
  <2>3. CASE u # t /\ on[u] # s
    <3>1. on[u] \in Socks
      BY <1>1, <1>10, <2>3 DEF Turns
    <3>2. Unsure(u)
      BY <1>1, <1>8, <1>10, <2>3, <3>1 DEF Depths
    <3>3. QED
      BY <1>5, <3>2 DEF Unsure
  <2>4. QED
    BY <2>1, <2>2, <2>3
<1>11. QED
  BY <1>4, <1>9, <1>10 DEF Depths

\* A thread that comes back, to its request or not
LEMMA ComesBack ==
  ASSUME TypeOK, Turns, Depths, NEW t \in Threads, NEW s \in Socks,
         at[t] # "script", on[t] = s, Resumes(t, s) \/ Fails(t), reachable' = reachable
  PROVE  Turns' /\ Depths'
<1> USE DEF TypeOK
<1>1. /\ at' = [at EXCEPT ![t] = "script"] /\ on' = [on EXCEPT ![t] = Nothing]
      /\ saveDepth' = saveDepth /\ shared' = shared /\ failed \subseteq failed'
  BY DEF Resumes, Fails, Back
<1>2. Turns'
  <2>1. ASSUME NEW u \in Threads, NEW w \in Threads,
               at'[u] \in {"connect", "close"}, on'[w] = on'[u]
        PROVE  w = u
    <3>1. u # t /\ on[u] \in Socks
      BY <1>1, <2>1 DEF Turns
    <3>2. w # t
      BY <1>1, <2>1, <3>1, SocketsAssumption
    <3>3. QED
      BY <1>1, <2>1, <3>1, <3>2 DEF Turns
  <2>2. QED
    BY <1>1, <2>1 DEF Turns
<1>3. \A u \in Threads : Unsure(u) => Unsure(u)'
  BY <1>1 DEF Unsure
<1>4. ASSUME NEW u \in Threads, at'[u] = "script", depth'[u] = 0
      PROVE  Unsure(u)'
  <2>1. CASE u # t
    <3>1. at[u] = "script" /\ depth[u] = 0
      BY <1>1, <1>4, <2>1 DEF Resumes, Fails
    <3>2. QED
      BY <1>3, <3>1 DEF Depths, RequestsKept, Unsure
  <2>2. CASE u = t /\ Resumes(t, s)
    <3>1. saveDepth[s] = 0
      BY <1>4, <2>2 DEF Resumes
    <3>2. QED
      BY <1>3, <2>2, <3>1 DEF Depths
  <2>3. CASE u = t /\ Fails(t)
    BY <2>3 DEF Fails, Unsure
  <2>4. QED
    BY <2>1, <2>2, <2>3
<1>5. ASSUME NEW u \in Threads, at'[u] # "script", saveDepth'[on'[u]] = 0
      PROVE  Unsure(u)'
  BY <1>1, <1>3, <1>5 DEF Depths
<1>6. QED
  BY <1>2, <1>4, <1>5 DEF Depths, RequestsKept, Unsure

\* A step that no thread takes part in, and that forgets no object in use
LEMMA OthersWait ==
  ASSUME TypeOK, Turns, Depths, UNCHANGED <<depth, threadVars>>,
         \A t \in Threads : on[t] \in reachable => on[t] \in reachable',
         \A s \in reachable : saveDepth'[s] = saveDepth[s]
  PROVE  Turns' /\ Depths'
<1>1. Turns'
  BY DEF Turns, threadVars
<1>2. RequestsKept'
  BY DEF Depths, RequestsKept, threadVars
<1>3. ASSUME NEW t \in Threads, at'[t] # "script", saveDepth'[on'[t]] = 0
      PROVE  Unsure(t)'
  <2>1. at[t] # "script" /\ on[t] \in reachable
    BY <1>3 DEF Turns, threadVars
  <2>2. saveDepth[on[t]] = 0
    BY <1>3, <2>1 DEF threadVars
  <2>3. QED
    BY <2>1, <2>2 DEF Depths, Unsure, threadVars
<1>4. QED
  BY <1>1, <1>2, <1>3 DEF Depths

LEMMA NextRequests ==
  TypeOK /\ Turns /\ Depths /\ [Next]_vars => Turns' /\ Depths'
<1> SUFFICES ASSUME TypeOK, Turns, Depths, [Next]_vars PROVE Turns' /\ Depths'
  OBVIOUS
<1>1. CASE UNCHANGED vars
  BY <1>1, OthersWait DEF vars, objVars
<1>2. ASSUME NEW t \in Threads, NEW s \in Socks, Objects(t, s) PROVE Turns' /\ Depths'
  BY <1>2, OthersWait DEF Objects, Construct, ConstructFd
<1>3. ASSUME NEW t \in Threads, NEW s \in Socks, Natives(t, s) PROVE Turns' /\ Depths'
  <2>1. CASE Connect(t, s)
    <3>1. CASE Waits(t, s, "connect")
      BY <2>1, <3>1, EntersTurns DEF Connect, Calls
    <3>2. CASE UNCHANGED <<saveDepth, depth, threadVars>>
      BY <2>1, <3>2, OthersWait DEF Connect
    <3>3. QED
      BY <2>1, <3>1, <3>2 DEF Connect
  <2>2. CASE Connected(t, s)
    BY <2>2, ComesBack DEF Connected
  <2>3. CASE ConnectFails(t, s)
    BY <2>3, ComesBack DEF ConnectFails, objVars
  <2>4. ASSUME NEW native \in {"write", "read", "readBytes"}, Transfer(t, s, native)
        PROVE  Turns' /\ Depths'
    BY <2>4, EntersTurns DEF Transfer, objVars
  <2>5. CASE TransferEnds(t, s)
    BY <2>5, ComesBack DEF TransferEnds, objVars
  <2>6. CASE ReadEnds(t, s)
    BY <2>6, ComesBack DEF ReadEnds, objVars
  <2>7. CASE ReadFails(t, s)
    BY <2>7, ComesBack DEF ReadFails, objVars
  <2>8. CASE Bind(t, s)
    BY <2>8, OthersWait DEF Bind
  <2>9. ASSUME NEW c \in Socks, Accept(t, s, c) PROVE Turns' /\ Depths'
    BY <2>9, OthersWait DEF Accept
  <2>10. CASE Close(t, s)
    BY <2>10, EntersTurns DEF Close, Calls, objVars
  <2>11. CASE CloseEnds(t, s)
    BY <2>11, ComesBack DEF CloseEnds
  <2>12. QED
    BY <1>3, <2>1, <2>2, <2>3, <2>4, <2>5, <2>6, <2>7, <2>8, <2>9, <2>10, <2>11 DEF Natives
<1>4. ASSUME NEW t \in Threads, SysOpen(t) PROVE Turns' /\ Depths'
  BY <1>4, OthersWait DEF SysOpen, objVars
<1>5. ASSUME NEW s \in Socks, Drop(s) PROVE Turns' /\ Depths'
  BY <1>5, OthersWait DEF Drop
<1>6. CASE Collect
  BY <1>6, OthersWait DEF Collect, TypeOK
<1>7. QED
  BY <1>1, <1>2, <1>3, <1>4, <1>5, <1>6 DEF Next

-----------------------------------------------------------------------------
(* Descriptors.                                                            *)

\* While a thread waits in a native of s, only its own step touches s.
LEMMA NextAccounting ==
  TypeOK /\ Turns /\ Accounting /\ [Next]_vars => Accounting'
<1> SUFFICES ASSUME TypeOK, Turns, Accounting, [Next]_vars PROVE Accounting'
  OBVIOUS
<1> USE DEF Accounting
<1>t. /\ reachable \subseteq live /\ live \subseteq Socks /\ open \subseteq Fds
      /\ sock \in [Socks -> Fds \cup {Closed}]
      /\ opener \in [Fds -> Socks \cup {Process, Nothing}]
  BY DEF TypeOK
<1>w. DOMAIN at = Threads /\ DOMAIN on = Threads
  BY DEF TypeOK
<1>s. "script" # "connect" /\ "script" # "close" /\ Process \notin Socks
  BY SocketsAssumption
<1>1. CASE UNCHANGED vars
  BY <1>1 DEF Halfway, FdsAccounted, vars, objVars, fdVars, threadVars
<1>2. ASSUME NEW t \in Threads, NEW s \in Socks, Objects(t, s) PROVE Accounting'
  <2>1. \A u \in Threads : at[u] # "script" => on[u] # s
    BY <1>2, <1>t DEF Objects, Construct, ConstructFd, Turns
  <2>2. CASE Construct(t, s)
    <3>1. FdsAccounted'
      BY <2>2, <1>t DEF Construct, FdsAccounted
    <3>2. Halfway'
      BY <2>1, <2>2, <1>t, <1>s DEF Construct, Halfway, threadVars
    <3>3. QED
      BY <3>1, <3>2
  <2>3. ASSUME NEW fd \in Fds, ConstructFd(t, s, fd) PROVE Accounting'
    <3>1. FdsAccounted'
      BY <2>3, <1>t DEF ConstructFd, FdsAccounted
    <3>2. Halfway'
      BY <2>1, <2>3, <1>t, <1>s DEF ConstructFd, Halfway, threadVars
    <3>3. QED
      BY <3>1, <3>2
  <2>4. QED
    BY <1>2, <2>2, <2>3 DEF Objects
<1>3. ASSUME NEW t \in Threads, NEW s \in Socks, Natives(t, s) PROVE Accounting'
  <2>1. CASE Connect(t, s)
    <3>1. \A u \in Threads : on[u] # s
      BY <2>1 DEF Connect, Calls
    <3>2. \A fd \in open' : fd \in open /\ opener'[fd] = opener[fd] /\ fd # sock[s]
                           /\ (fd \in leaked => fd \in leaked')
      BY <2>1, <1>t DEF Connect, Closes, Closed, Fds
    <3>3. sock' = [sock EXCEPT ![s] = Closed] /\ wraps' = wraps \ {s} /\ live' = live
      BY <2>1 DEF Connect
    <3>4. \A u \in Threads : u # t => at'[u] = at[u] /\ on'[u] = on[u]
      <4>1. CASE Waits(t, s, "connect")
        BY <4>1, <1>w DEF Waits
      <4>2. CASE UNCHANGED <<saveDepth, depth, threadVars>>
        BY <4>2 DEF threadVars
      <4>3. QED
        BY <2>1, <4>1, <4>2 DEF Connect
    <3>5. at'[t] \in {"script", "connect"} /\ (at'[t] = "connect" => on'[t] = s)
      BY <2>1, <1>w DEF Connect, Calls, CallsAlso, Waits, threadVars
    <3>6. FdsAccounted'
      BY <3>2, <3>3, <1>t DEF FdsAccounted
    <3>7. ASSUME NEW u \in Threads, at'[u] = "connect"
          PROVE  sock'[on'[u]] = Closed /\ on'[u] \notin wraps'
      <4>1. CASE u = t
        BY <3>3, <3>5, <3>7, <4>1, <1>t
      <4>2. CASE u # t
        BY <3>1, <3>3, <3>4, <3>7, <4>2, <1>t DEF Halfway
      <4>3. QED
        BY <4>1, <4>2
    <3>8. ASSUME NEW u \in Threads, at'[u] = "close", NEW fd \in open', opener'[fd] = on'[u]
          PROVE  fd \in leaked'
      BY <3>2, <3>4, <3>5, <3>8 DEF Halfway
    <3>9. wraps' \subseteq live'
      BY <3>3 DEF Halfway
    <3>10. Halfway'
      BY <3>7, <3>8, <3>9 DEF Halfway
    <3>11. QED
      BY <3>6, <3>10
  <2>2. CASE Connected(t, s)
    <3>1. PICK fd \in Fds : Opens(s, fd) /\ sock' = [sock EXCEPT ![s] = fd]
      BY <2>2 DEF Connected
    <3>2. s \in live /\ \A u \in Threads : u # t /\ at[u] # "script" => on[u] # s
      BY <2>2, <1>t, <1>s DEF Connected, Turns
    <3>3. /\ open' = open \cup {fd} /\ opener' = [opener EXCEPT ![fd] = s] /\ fd \notin open
          /\ UNCHANGED <<live, wraps, leaked>>
      BY <2>2, <3>1 DEF Connected, Opens, Free
    <3>4. \A f \in open : opener[f] = s => f \in leaked
      <4>1. sock[s] = Closed /\ Closed \notin Fds
        BY <2>2 DEF Connected, Halfway, Closed, Fds
      <4>2. QED
        BY <4>1, <1>t DEF FdsAccounted
    <3>5. FdsAccounted'
      BY <3>1, <3>2, <3>3, <3>4, <1>t DEF FdsAccounted
    <3>6. at' = [at EXCEPT ![t] = "script"] /\ on' = [on EXCEPT ![t] = Nothing]
      BY <2>2 DEF Connected, Resumes, Back
    <3>7. Halfway'
      BY <3>1, <3>2, <3>3, <3>6, <1>t, <1>w, <1>s DEF Halfway
    <3>8. QED
      BY <3>5, <3>7
  <2>3. CASE ConnectFails(t, s)
    BY <2>3, <1>w, <1>s DEF ConnectFails, Fails, Back, Halfway, FdsAccounted, objVars, fdVars
  <2>4. ASSUME NEW native \in {"write", "read", "readBytes"}, Transfer(t, s, native)
        PROVE  Accounting'
    BY <2>4, <1>w DEF Transfer, Waits, Halfway, FdsAccounted, objVars, fdVars
  <2>5. CASE TransferEnds(t, s)
    BY <2>5, <1>w, <1>s DEF TransferEnds, Resumes, Back, Halfway, FdsAccounted, objVars, fdVars
  <2>6. CASE ReadEnds(t, s)
    BY <2>6, <1>w, <1>s DEF ReadEnds, Resumes, Back, Halfway, FdsAccounted, objVars, fdVars
  <2>7. CASE ReadFails(t, s)
    BY <2>7, <1>w, <1>s DEF ReadFails, Fails, Back, Halfway, FdsAccounted, objVars, fdVars
  <2>8. CASE Bind(t, s)
    <3>1. \A u \in Threads : on[u] # s
      BY <2>8 DEF Bind, Calls
    <3>2. PICK fd \in Fds :
             /\ Opens(s, fd)
             /\ \/ /\ sock' = [sock EXCEPT ![s] = fd]
                   /\ leaked' = leaked \cup ({sock[s]} \ {Closed})
                   /\ wraps' = wraps \ {s}
                \/ leaked' = leaked \cup {fd} /\ UNCHANGED <<sock, wraps>>
      BY <2>8 DEF Bind
    <3>3. s \in live
      BY <2>8, <1>t DEF Bind, Calls, CallsAlso
    <3>4. /\ open' = open \cup {fd} /\ opener' = [opener EXCEPT ![fd] = s] /\ fd \notin open
          /\ leaked \subseteq leaked' /\ wraps' \subseteq wraps
          /\ UNCHANGED <<live, at, on>>
      BY <2>8, <3>2 DEF Bind, Opens, Free, threadVars
    <3>5. \A r \in Socks : r # s => sock'[r] = sock[r]
      BY <3>2, <1>t
    <3>6. \A f \in open : opener[f] = s => f \in leaked' \/ (sock'[s] = f)
      BY <3>2, <1>t DEF FdsAccounted, Closed, Fds
    <3>7. sock'[s] = fd \/ fd \in leaked'
      BY <3>2, <1>t
    <3>8. FdsAccounted'
      BY <3>3, <3>4, <3>5, <3>6, <3>7, <1>t DEF FdsAccounted
    <3>9. ASSUME NEW u \in Threads, at'[u] = "connect"
          PROVE  sock'[on'[u]] = Closed /\ on'[u] \notin wraps'
      <4>1. at[u] = "connect" /\ on'[u] = on[u] /\ on[u] \in Socks \ {s}
        BY <3>1, <3>4, <3>9, <1>t, <1>s DEF Turns
      <4>2. QED
        BY <3>4, <3>5, <4>1 DEF Halfway
    <3>10. Halfway'
      BY <3>1, <3>4, <3>9, <1>t DEF Halfway
    <3>11. QED
      BY <3>8, <3>10
  <2>9. ASSUME NEW c \in Socks, Accept(t, s, c) PROVE Accounting'
    <3>1. PICK fd \in Fds : Opens(c, fd) /\ sock' = [sock EXCEPT ![c] = fd]
      BY <2>9 DEF Accept
    <3>2. \A u \in Threads : at[u] # "script" => on[u] # c
      BY <2>9, <1>t DEF Accept, Turns
    <3>3. /\ open' = open \cup {fd} /\ opener' = [opener EXCEPT ![fd] = c] /\ fd \notin open
          /\ live' = live \cup {c} /\ c \notin live /\ wraps' = wraps \ {c}
          /\ UNCHANGED <<leaked, at, on>>
      BY <2>9, <3>1 DEF Accept, Opens, Free, threadVars
    <3>4. FdsAccounted'
      BY <3>1, <3>3, <1>t DEF FdsAccounted
    <3>5. Halfway'
      BY <3>1, <3>2, <3>3, <1>t, <1>s DEF Halfway
    <3>6. QED
      BY <3>4, <3>5
  <2>10. CASE Close(t, s)
    <3>1. /\ at' = [at EXCEPT ![t] = "close"] /\ on' = [on EXCEPT ![t] = s]
          /\ UNCHANGED <<live, sock, wraps>>
      BY <2>10 DEF Close, Waits, objVars
    <3>2. \A fd \in open' : fd \in open /\ opener'[fd] = opener[fd] /\ fd # sock[s]
                           /\ (fd \in leaked => fd \in leaked')
      BY <2>10, <1>t DEF Close, Closes, Closed, Fds
    <3>3. FdsAccounted'
      BY <3>1, <3>2 DEF FdsAccounted
    <3>4. ASSUME NEW u \in Threads, at'[u] = "close", NEW fd \in open', opener'[fd] = on'[u]
          PROVE  fd \in leaked'
      <4>1. CASE u = t
        <5>1. opener[fd] = s /\ s \in Socks /\ fd # sock[s]
          BY <3>1, <3>2, <3>4, <4>1, <1>w
        <5>2. QED
          BY <3>2, <5>1 DEF FdsAccounted
      <4>2. CASE u # t
        BY <3>1, <3>2, <3>4, <4>2, <1>w DEF Halfway
      <4>3. QED
        BY <4>1, <4>2
    <3>5. ASSUME NEW u \in Threads, at'[u] = "connect"
          PROVE  sock'[on'[u]] = Closed /\ on'[u] \notin wraps'
      BY <3>1, <3>5, <1>w DEF Halfway
    <3>6. Halfway'
      BY <3>1, <3>4, <3>5 DEF Halfway
    <3>7. QED
      BY <3>3, <3>6
  <2>11. CASE CloseEnds(t, s)
    <3>1. \A u \in Threads : u # t /\ at[u] # "script" => on[u] # s
      BY <2>11, <1>s DEF CloseEnds, Turns
    <3>2. FdsAccounted'
      BY <2>11, <1>t DEF CloseEnds, FdsAccounted, Halfway
    <3>3. at' = [at EXCEPT ![t] = "script"] /\ on' = [on EXCEPT ![t] = Nothing]
      BY <2>11 DEF CloseEnds, Resumes, Back
    <3>4. Halfway'
      BY <2>11, <3>1, <3>3, <1>t, <1>w, <1>s DEF CloseEnds, Halfway
    <3>5. QED
      BY <3>2, <3>4
  <2>12. QED
    BY <1>3, <2>1, <2>2, <2>3, <2>4, <2>5, <2>6, <2>7, <2>8, <2>9, <2>10, <2>11 DEF Natives
<1>4. ASSUME NEW t \in Threads, SysOpen(t) PROVE Accounting'
  <2>1. PICK fd \in Fds : Opens(Process, fd)
    BY <1>4 DEF SysOpen
  <2>2. QED
    <3>1. /\ open' = open \cup {fd} /\ opener' = [opener EXCEPT ![fd] = Process] /\ fd \notin open
          /\ UNCHANGED <<live, sock, leaked, wraps, at, on>>
      BY <1>4, <2>1 DEF SysOpen, Opens, Free, objVars, threadVars
    <3>2. FdsAccounted'
      BY <3>1, <1>t, <1>s DEF FdsAccounted
    <3>3. \A u \in Threads : at[u] # "script" => on[u] \in Socks
      BY <1>t DEF Turns
    <3>4. Halfway'
      BY <3>1, <3>3, <1>t, <1>s DEF Halfway
    <3>5. QED
      BY <3>2, <3>4
<1>5. ASSUME NEW s \in Socks, Drop(s) PROVE Accounting'
  BY <1>5 DEF Drop, Halfway, FdsAccounted, fdVars, threadVars
<1>6. CASE Collect
  <2>1. /\ live' = reachable /\ wraps' = wraps \ (live \ reachable)
        /\ \A s \in live' : sock'[s] = sock[s]
        /\ UNCHANGED <<at, on>>
    BY <1>6, <1>t DEF Collect, threadVars
  <2>2. \A fd \in open' : /\ fd \in open /\ opener'[fd] = opener[fd]
                          /\ fd \in leaked => fd \in leaked'
                          /\ \A s \in live \ live' : sock[s] # fd
    BY <1>6, <1>t DEF Collect, Closes, Closed, Fds
  <2>3. FdsAccounted'
    <3>1. ASSUME NEW fd \in open', opener'[fd] \in Socks, fd \notin leaked'
          PROVE  opener'[fd] \in live' /\ sock'[opener'[fd]] = fd
      <4>1. fd \in open /\ opener'[fd] = opener[fd] /\ fd \notin leaked
        BY <2>2, <3>1
      <4>2. opener[fd] \in live /\ sock[opener[fd]] = fd
        BY <3>1, <4>1 DEF FdsAccounted
      <4>3. QED
        BY <2>1, <2>2, <4>1, <4>2
    <3>2. QED
      BY <3>1 DEF FdsAccounted
  <2>4. \A u \in Threads : at[u] # "script" => on[u] \in live'
    BY <2>1 DEF Turns
  <2>5. Halfway'
    <3>1. wraps' \subseteq live'
      BY <2>1 DEF Halfway
    <3>2. ASSUME NEW u \in Threads, at'[u] = "connect"
          PROVE  sock'[on'[u]] = Closed /\ on'[u] \notin wraps'
      BY <2>1, <2>4, <3>2, <1>s DEF Halfway
    <3>3. ASSUME NEW u \in Threads, at'[u] = "close", NEW fd \in open', opener'[fd] = on'[u]
          PROVE  fd \in leaked'
      BY <2>1, <2>2, <3>3 DEF Halfway
    <3>4. QED
      BY <3>1, <3>2, <3>3 DEF Halfway
  <2>6. QED
    BY <2>3, <2>5
<1>7. QED
  BY <1>1, <1>2, <1>3, <1>4, <1>5, <1>6 DEF Next

-----------------------------------------------------------------------------
(* The descriptors of the objects.                                         *)

\* What is closed was opened for nobody.
Openers == \A fd \in Fds \ open : opener[fd] = Nothing

LEMMA InitHeld == Init => OneWrapper /\ FdsHeld /\ Openers
  BY SocketsAssumption DEF Init, OneWrapper, FdsHeld, Openers, Fds, Stdin, Closed

LEMMA NextOpeners == TypeOK /\ Openers /\ [Next]_vars => Openers'
<1> SUFFICES ASSUME TypeOK, Openers, [Next]_vars PROVE Openers'
  OBVIOUS
<1>1. ASSUME NEW fds, Closes(fds) PROVE Openers'
  BY <1>1 DEF Closes, Openers
<1>2. ASSUME NEW x, NEW fd, Opens(x, fd) PROVE Openers'
  BY <1>2 DEF Opens, Free, Openers, TypeOK
<1>3. CASE UNCHANGED <<open, opener>>
  BY <1>3 DEF Openers
<1>4. ASSUME NEW t \in Threads, NEW s \in Socks, Objects(t, s) PROVE Openers'
  BY <1>4, <1>3 DEF Objects, Construct, ConstructFd
<1>5. ASSUME NEW t \in Threads, NEW s \in Socks, Natives(t, s) PROVE Openers'
  <2>1. Connect(t, s) => Openers'
    BY <1>1 DEF Connect
  <2>2. Connected(t, s) => Openers'
    BY <1>2 DEF Connected
  <2>3. ConnectFails(t, s) \/ TransferEnds(t, s) \/ ReadEnds(t, s) \/ ReadFails(t, s) => Openers'
    BY <1>3 DEF ConnectFails, TransferEnds, ReadEnds, ReadFails, fdVars
  <2>4. ASSUME NEW native, Transfer(t, s, native) PROVE Openers'
    BY <2>4, <1>3 DEF Transfer, fdVars
  <2>5. Bind(t, s) => Openers'
    BY <1>2 DEF Bind
  <2>6. ASSUME NEW c \in Socks, Accept(t, s, c) PROVE Openers'
    BY <2>6, <1>2 DEF Accept
  <2>7. Close(t, s) => Openers'
    BY <1>1 DEF Close
  <2>8. CloseEnds(t, s) => Openers'
    BY <1>3 DEF CloseEnds
  <2>9. QED
    BY <1>5, <2>1, <2>2, <2>3, <2>4, <2>5, <2>6, <2>7, <2>8 DEF Natives
<1>6. ASSUME NEW t \in Threads, SysOpen(t) PROVE Openers'
  BY <1>6, <1>2 DEF SysOpen
<1>7. ASSUME NEW s \in Socks, Drop(s) PROVE Openers'
  BY <1>7, <1>3 DEF Drop, fdVars
<1>8. Collect => Openers'
  BY <1>1 DEF Collect
<1>9. UNCHANGED vars => Openers'
  BY <1>3 DEF vars, fdVars
<1>10. QED
  BY <1>4, <1>5, <1>6, <1>7, <1>8, <1>9 DEF Next

Held(s) ==
    sock[s] # Closed /\ ~Closing(s) =>
        sock[s] \in open /\ opener[sock[s]] = (IF s \in wraps THEN Process ELSE s)

\* The table that an object relies on does not change for it.
LEMMA StaysHeld ==
  ASSUME NEW r, Held(r), sock'[r] = sock[r], r \in wraps' <=> r \in wraps,
         Closing(r) => Closing(r)',
         sock[r] \in open /\ ~Closing(r) => sock[r] \in open' /\ opener'[sock[r]] = opener[sock[r]]
  PROVE  Held(r)'
  BY DEF Held

\* No two objects rely on one descriptor.
LEMMA Exclusive ==
  ASSUME TypeOK, FdsHeld, OneWrapper, NEW s \in live, NEW r \in live, ~Closing(s), ~Closing(r),
         sock[s] # Closed, sock[r] = sock[s]
  PROVE  r = s
<1>1. /\ opener[sock[s]] = IF s \in wraps THEN Process ELSE s
      /\ opener[sock[r]] = IF r \in wraps THEN Process ELSE r
  BY DEF FdsHeld
<1>2. s \in Socks /\ r \in Socks /\ Process \notin Socks
  BY SocketsAssumption DEF TypeOK
<1>3. QED
  BY <1>1, <1>2 DEF OneWrapper

\* A descriptor is opened: those who rely on others see no change.
LEMMA OpensOther ==
  ASSUME NEW x, NEW fd, Opens(x, fd)
  PROVE  \A f \in open : f \in open' /\ opener'[f] = opener[f]
  BY DEF Opens, Free

\* A thread begins or ends a native that is not close().
LEMMA ClosingKept ==
  ASSUME TypeOK, NEW t \in Threads, at[t] # "close", NEW place, NEW object,
         at' = [at EXCEPT ![t] = place], on' = [on EXCEPT ![t] = object]
  PROVE  \A r : Closing(r) => Closing(r)'
  BY DEF TypeOK, Closing

\* What closing the descriptors of some objects, which nobody is closing, does to
\* the others
LEMMA ClosesOther ==
  ASSUME TypeOK, FdsHeld, OneWrapper, NEW S \in SUBSET live, \A s \in S : ~Closing(s),
         Closes({sock[s] : s \in S} \ {Closed}), NEW r \in live \ S, ~Closing(r), sock[r] \in open
  PROVE  sock[r] \in open' /\ opener'[sock[r]] = opener[sock[r]]
<1>1. sock[r] # Closed /\ sock[r] \in Fds
  BY DEF TypeOK, Closed, Fds
<1>2. \A s \in S : sock[s] # sock[r]
  BY <1>1, Exclusive
<1>3. QED
  BY <1>1, <1>2 DEF Closes

LEMMA NextHeld ==
  ASSUME Wrappers <= 1
  PROVE  TypeOK /\ Turns /\ Accounting /\ Openers /\ OneWrapper /\ FdsHeld /\ [Next]_vars
         => OneWrapper' /\ FdsHeld'
<1> SUFFICES ASSUME TypeOK, Turns, Accounting, Openers, OneWrapper, FdsHeld, [Next]_vars
             PROVE  OneWrapper' /\ FdsHeld'
  OBVIOUS
<1>t. /\ reachable \subseteq live /\ live \subseteq Socks /\ open \subseteq Fds
      /\ sock \in [Socks -> Fds \cup {Closed}]
      /\ opener \in [Fds -> Socks \cup {Process, Nothing}]
      /\ DOMAIN at = Threads /\ DOMAIN on = Threads
  BY DEF TypeOK
<1>h. \A r \in live : Held(r)
  BY DEF FdsHeld, Held
<1>g. (\A r \in live' : Held(r)') => FdsHeld'
  BY DEF FdsHeld, Held
<1>1. CASE UNCHANGED vars
  BY <1>1 DEF OneWrapper, FdsHeld, Closing, vars, objVars, fdVars, threadVars
<1>2. ASSUME NEW t \in Threads, NEW s \in Socks, Construct(t, s) PROVE OneWrapper' /\ FdsHeld'
  <2>1. /\ live' = live \cup {s} /\ sock' = [sock EXCEPT ![s] = Closed] /\ wraps' = wraps \ {s}
        /\ UNCHANGED <<open, opener, at, on>>
    BY <1>2 DEF Construct, threadVars
  <2>2. OneWrapper'
    BY <2>1, <1>t DEF OneWrapper
  <2>3. ASSUME NEW r \in live' PROVE Held(r)'
    <3>1. CASE r = s
      BY <2>1, <3>1, <1>t DEF Held
    <3>2. CASE r # s
      BY <2>1, <2>3, <3>2, <1>h, <1>t, StaysHeld DEF Closing
    <3>3. QED
      BY <3>1, <3>2
  <2>4. QED
    BY <2>2, <2>3, <1>g
<1>3. ASSUME NEW t \in Threads, NEW s \in Socks, NEW fd \in Fds, ConstructFd(t, s, fd)
      PROVE  OneWrapper' /\ FdsHeld'
  <2>1. /\ live' = live \cup {s} /\ sock' = [sock EXCEPT ![s] = fd] /\ wraps' = wraps \cup {s}
        /\ s \notin live /\ opener[fd] = Process
        /\ Cardinality({o \in live \cap wraps : sock[o] = fd}) < Wrappers
        /\ UNCHANGED <<open, opener, at, on>>
    BY <1>3 DEF ConstructFd, threadVars
  <2>2. \A o \in live \cap wraps : sock[o] # fd
    <3> DEFINE W == {o \in live \cap wraps : sock[o] = fd}
    <3>1. IsFiniteSet(W)
      BY <1>t, SocketsAssumption, FS_Subset
    <3>2. Cardinality(W) \in Nat
      BY <3>1, FS_CardinalityType
    <3>3. Cardinality(W) = 0
      BY <2>1, <3>2, SocketsAssumption
    <3>4. QED
      BY <3>1, <3>3, FS_EmptySet
  <2>3. OneWrapper'
    BY <2>1, <2>2, <1>t DEF OneWrapper
  <2>4. fd \in open
    BY <2>1 DEF Openers, Process, Nothing
  <2>5. ASSUME NEW r \in live' PROVE Held(r)'
    <3>1. CASE r = s
      BY <2>1, <2>4, <3>1, <1>t DEF Held
    <3>2. CASE r # s
      BY <2>1, <2>5, <3>2, <1>h, <1>t, StaysHeld DEF Closing
    <3>3. QED
      BY <3>1, <3>2
  <2>6. QED
    BY <2>3, <2>5, <1>g
<1>4. ASSUME NEW t \in Threads, NEW s \in Socks, Natives(t, s) PROVE OneWrapper' /\ FdsHeld'
  <2>1. CASE Connect(t, s) \/ Close(t, s)
    <3>1. ~Closing(s) /\ s \in live
      BY <2>1, <1>t DEF Connect, Close, Calls, CallsAlso, Closing
    <3>2. Closes({sock[s]} \ {Closed})
      BY <2>1 DEF Connect, Close
    <3>3. /\ live' = live /\ wraps' \in {wraps, wraps \ {s}} /\ sock' \in {sock, [sock EXCEPT ![s] = Closed]}
          /\ sock' = sock => wraps' = wraps \/ sock[s] = Closed
      BY <2>1, <1>t DEF Connect, Close, objVars
    <3>4. OneWrapper'
      BY <3>3, <1>t DEF OneWrapper
    <3>5. at[t] = "script" /\ \A r : Closing(r) => Closing(r)'
      <4>1. at[t] = "script"
        BY <2>1 DEF Connect, Close, Calls, CallsAlso
      <4>2. CASE \E native : Waits(t, s, native)
        <5>1. PICK native : at' = [at EXCEPT ![t] = native] /\ on' = [on EXCEPT ![t] = s]
          BY <4>2 DEF Waits
        <5>2. at[t] # "close"
          BY <4>1
        <5>3. QED
          BY <4>1, <5>1, <5>2, ClosingKept
      <4>3. CASE UNCHANGED <<saveDepth, depth, threadVars>>
        BY <4>1, <4>3 DEF Closing, threadVars
      <4>4. QED
        BY <2>1, <4>1, <4>2, <4>3 DEF Connect, Close
    <3>6. ASSUME NEW r \in live', r # s PROVE Held(r)'
      <4>1. r \in live \ {s} /\ sock'[r] = sock[r] /\ (r \in wraps' <=> r \in wraps)
        BY <3>3, <3>6, <1>t
      <4>2. {sock[x] : x \in {s}} = {sock[s]}
        OBVIOUS
      <4>3. sock[r] \in open /\ ~Closing(r) => sock[r] \in open' /\ opener'[sock[r]] = opener[sock[r]]
        BY <3>1, <3>2, <4>1, <4>2, ClosesOther
      <4>4. QED
        BY <3>5, <4>1, <4>3, <1>h, StaysHeld
    <3>7. Held(s)'
      <4>1. CASE Connect(t, s)
        BY <4>1, <1>t, <3>1 DEF Connect, Held
      <4>2. CASE Close(t, s)
        BY <4>2, <1>t DEF Close, Waits, Held, Closing
      <4>3. QED
        BY <2>1, <4>1, <4>2
    <3>8. QED
      BY <3>4, <3>6, <3>7, <1>g
  <2>2. CASE Connected(t, s) \/ Bind(t, s)
    <3>1. PICK fd \in Fds :
             /\ Opens(s, fd)
             /\ \/ sock' = [sock EXCEPT ![s] = fd] /\ wraps' = wraps \ {s}
                \/ UNCHANGED <<sock, wraps>>
      <4>1. CASE Connected(t, s)
        <5>1. s \notin wraps /\ UNCHANGED wraps
          BY <4>1 DEF Connected, Accounting, Halfway
        <5>2. wraps' = wraps \ {s}
          BY <5>1
        <5>3. QED
          BY <4>1, <5>2 DEF Connected
      <4>2. CASE Bind(t, s)
        BY <4>2 DEF Bind
      <4>3. QED
        BY <2>2, <4>1, <4>2
    <3>2. live' = live
      BY <2>2 DEF Connected, Bind
    <3>3. OneWrapper'
      BY <3>1, <3>2, <1>t DEF OneWrapper
    <3>4. \A r : Closing(r) => Closing(r)'
      <4>1. CASE Connected(t, s)
        BY <4>1, ClosingKept DEF Connected, Resumes, Back
      <4>2. CASE Bind(t, s)
        BY <4>2 DEF Bind, Closing, threadVars
      <4>3. QED
        BY <2>2, <4>1, <4>2
    <3>5. \A f \in open : f \in open' /\ opener'[f] = opener[f]
      BY <3>1, OpensOther
    <3>6. ASSUME NEW r \in live', sock'[r] = sock[r], r \in wraps' <=> r \in wraps PROVE Held(r)'
      BY <3>2, <3>4, <3>5, <3>6, <1>h, StaysHeld
    <3>7. CASE UNCHANGED <<sock, wraps>>
      BY <3>3, <3>6, <3>7, <1>g
    <3>8. CASE sock' = [sock EXCEPT ![s] = fd] /\ wraps' = wraps \ {s}
      <4>1. ASSUME NEW r \in live', r # s PROVE Held(r)'
        BY <3>2, <3>6, <3>8, <4>1, <1>t
      <4>2. Held(s)'
        BY <3>1, <3>8, <1>t DEF Held, Opens, Free
      <4>3. QED
        BY <3>3, <4>1, <4>2, <1>g
    <3>9. QED
      BY <3>1, <3>7, <3>8
  <2>3. ASSUME NEW c \in Socks, Accept(t, s, c) PROVE OneWrapper' /\ FdsHeld'
    <3>1. PICK fd \in Fds : Opens(c, fd) /\ sock' = [sock EXCEPT ![c] = fd]
      BY <2>3 DEF Accept
    <3>2. /\ live' = live \cup {c} /\ c \notin live /\ wraps' = wraps \ {c}
          /\ UNCHANGED <<at, on>>
      BY <2>3 DEF Accept, threadVars
    <3>3. OneWrapper'
      BY <3>1, <3>2, <1>t DEF OneWrapper
    <3>4. ASSUME NEW r \in live', r # c PROVE Held(r)'
      BY <3>1, <3>2, <3>4, <1>h, <1>t, OpensOther, StaysHeld DEF Closing
    <3>5. Held(c)'
      BY <3>1, <3>2, <1>t DEF Held, Opens, Free
    <3>6. QED
      BY <3>3, <3>4, <3>5, <1>g
  <2>4. CASE CloseEnds(t, s)
    <3>1. /\ sock' = [sock EXCEPT ![s] = Closed] /\ wraps' = wraps \ {s}
          /\ UNCHANGED <<live, open, opener>>
          /\ at' = [at EXCEPT ![t] = "script"] /\ on' = [on EXCEPT ![t] = Nothing] /\ on[t] = s
      BY <2>4 DEF CloseEnds, Resumes, Back
    <3>2. OneWrapper'
      BY <3>1, <1>t DEF OneWrapper
    <3>3. ASSUME NEW r \in live', r # s PROVE Held(r)'
      <4>1. Closing(r) => Closing(r)'
        BY <3>1, <3>3, <1>t DEF Closing
      <4>2. QED
        BY <3>1, <3>3, <4>1, <1>h, <1>t, StaysHeld
    <3>4. Held(s)'
      BY <3>1, <1>t DEF Held
    <3>5. QED
      BY <3>2, <3>3, <3>4, <1>g
  <2>5. CASE \/ ConnectFails(t, s) \/ TransferEnds(t, s) \/ ReadEnds(t, s) \/ ReadFails(t, s)
             \/ \E native \in {"write", "read", "readBytes"} : Transfer(t, s, native)
    <3>1. UNCHANGED <<live, sock, wraps, open, opener>>
      BY <2>5 DEF ConnectFails, TransferEnds, ReadEnds, ReadFails, Transfer, objVars, fdVars
    <3>2. at[t] # "close" /\ \E place, object : /\ at' = [at EXCEPT ![t] = place]
                                               /\ on' = [on EXCEPT ![t] = object]
      BY <2>5 DEF ConnectFails, TransferEnds, ReadEnds, ReadFails, Transfer, CallsAlso,
         Resumes, Fails, Back, Waits
    <3>3. \A r : Closing(r) => Closing(r)'
      BY <3>2, ClosingKept
    <3>4. OneWrapper'
      BY <3>1 DEF OneWrapper
    <3>5. QED
      BY <3>1, <3>3, <3>4, <1>h, <1>g, StaysHeld
  <2>6. QED
    BY <1>4, <2>1, <2>2, <2>3, <2>4, <2>5 DEF Natives
<1>5. ASSUME NEW t \in Threads, SysOpen(t) PROVE OneWrapper' /\ FdsHeld'
  <2>1. PICK fd \in Fds : Opens(Process, fd)
    BY <1>5 DEF SysOpen
  <2>2. UNCHANGED <<live, sock, wraps, at, on>>
    BY <1>5 DEF SysOpen, objVars, threadVars
  <2>3. OneWrapper'
    BY <2>2 DEF OneWrapper
  <2>4. QED
    BY <2>1, <2>2, <2>3, <1>h, <1>g, OpensOther, StaysHeld DEF Closing
<1>6. ASSUME NEW s \in Socks, Drop(s) PROVE OneWrapper' /\ FdsHeld'
  BY <1>6 DEF Drop, OneWrapper, FdsHeld, Closing, fdVars, threadVars
<1>7. CASE Collect
  <2>1. /\ live' = reachable /\ wraps' = wraps \ (live \ reachable)
        /\ \A r \in live' : sock'[r] = sock[r]
        /\ UNCHANGED <<at, on>>
        /\ Closes({sock[s] : s \in live \ reachable} \ {Closed})
    BY <1>7, <1>t DEF Collect, threadVars
  <2>2. \A s \in live \ reachable : ~Closing(s)
    BY DEF Turns, Closing
  <2>3. OneWrapper'
    BY <2>1, <1>t DEF OneWrapper
  <2>4. ASSUME NEW r \in live' PROVE Held(r)'
    <3>1. r \in live \ (live \ reachable) /\ (r \in wraps' <=> r \in wraps)
      BY <2>1, <2>4, <1>t
    <3>2. sock[r] \in open /\ ~Closing(r) => sock[r] \in open' /\ opener'[sock[r]] = opener[sock[r]]
      BY <2>1, <2>2, <3>1, ClosesOther
    <3>3. QED
      BY <2>1, <2>4, <3>1, <3>2, <1>h, StaysHeld DEF Closing
  <2>5. QED
    BY <2>3, <2>4, <1>g
<1>8. QED
  BY <1>1, <1>2, <1>3, <1>4, <1>5, <1>6, <1>7 DEF Next, Objects

-----------------------------------------------------------------------------
(* Theorems.                                                               *)

\* The variables of Sockets keep their types.
THEOREM SocketsTypeCorrect == Spec => []TypeOK
  BY InitSockets, NextTypes, PTL DEF Spec

SocketsInv == TypeOK /\ Turns /\ Depths /\ Accounting
LEMMA SocketsInvariant == Spec => []SocketsInv
<1>1. Init => SocketsInv
  BY InitSockets DEF SocketsInv
<1>2. SocketsInv /\ [Next]_vars => SocketsInv'
  BY NextTypes, NextRequests, NextAccounting DEF SocketsInv
<1>3. QED
  BY <1>1, <1>2, PTL DEF Spec

\* A thread that runs script is in its request unless a native has failed
\* between JS_SuspendRequest and JS_ResumeRequest, in it or in a thread it
\* shared an object with.
THEOREM RequestsTheorem == Spec => []RequestsKept
<1>1. SocketsInv => RequestsKept
  BY DEF SocketsInv, Depths
<1>2. QED
  BY <1>1, SocketsInvariant, PTL

\* No descriptor leaks but those that bind() forgets.
THEOREM AccountedTheorem == Spec => []FdsAccounted
<1>1. SocketsInv => FdsAccounted
  BY DEF SocketsInv, Accounting
<1>2. QED
  BY <1>1, SocketsInvariant, PTL

\* A socket never uses a descriptor that is closed or somebody else's, as long
\* as scripts make one object for each descriptor.
THEOREM HeldTheorem == ASSUME Wrappers <= 1 PROVE Spec => []FdsHeld
<1> DEFINE HeldInv == OneWrapper /\ FdsHeld /\ Openers
<1>1. Init => HeldInv
  BY InitHeld
<1>2. SocketsInv /\ HeldInv /\ [Next]_vars => HeldInv'
  BY NextHeld, NextOpeners DEF SocketsInv
<1>3. HeldInv => FdsHeld
  OBVIOUS
<1>4. QED
  BY <1>1, <1>2, <1>3, SocketsInvariant, PTL DEF Spec
=============================================================================
