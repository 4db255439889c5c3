-------------------------------- MODULE Poll --------------------------------
(***************************************************************************)
(* Socket.poll() and waitForInput() (js_socket.cpp): a copy of the array   *)
(* is made, poll(2) called, and error() and data() of the sockets in the   *)
(* copy, which may close sockets.                                          *)
(*                                                                         *)
(* What poll(2) finds is a choice.  Array elements that are no sockets     *)
(* report an error before anything has happened, as does a closed socket   *)
(* whose poll() is called, and are left out.                               *)
(***************************************************************************)
EXTENDS Integers, Sequences, SequencesExt

CONSTANTS
    PollSocks,
    MaxArray,   \* a bound of the model: the length of the arrays
    Timeouts    \* what waitForInput() is given

ASSUME PollAssumption == MaxArray \in Nat /\ Timeouts \subseteq Int

VARIABLES
    closed,     \* the sockets that are closed
    sockArray,  \* the sockets of the array
    fds,        \* the slots that were set
    pollLen, pollAt,
    i_poll,     \* the index of the loops, from 1
    revents,    \* what poll(2) found at each slot
    called,     \* history: the callbacks
    allOpen,    \* history: no socket of the array was closed when it was read
    waited      \* history: the last call of waitForInput

pollVars == <<closed, sockArray, fds, pollLen, pollAt, i_poll, revents, called,
              allOpen, waited>>

PollInit ==
    /\ closed \in SUBSET PollSocks
    /\ sockArray \in UNION {[1 .. n -> PollSocks] : n \in 0 .. MaxArray}
    /\ fds = {} /\ pollLen = Len(sockArray) /\ pollAt = "fill" /\ i_poll = 1
    /\ revents = <<>> /\ called = <<>>
    /\ allOpen = (\A k \in DOMAIN sockArray : sockArray[k] \notin closed)
    /\ waited = [ms |-> 0, sec |-> 0, usec |-> 0]

\* A closed socket makes the array shorter, and leaves its slot as it was.
FillSlot ==
    /\ pollAt = "fill" /\ i_poll <= pollLen
    /\ IF sockArray[i_poll] \in closed
       THEN pollLen' = pollLen - 1 /\ UNCHANGED fds
       ELSE fds' = fds \cup {i_poll} /\ UNCHANGED pollLen
    /\ i_poll' = i_poll + 1
    /\ UNCHANGED <<closed, sockArray, pollAt, revents, called, allOpen, waited>>

Events == SUBSET {"in", "err"}

\* A slot that was not set may name any descriptor.
PollWaits ==
    /\ pollAt = "fill" /\ i_poll > pollLen
    /\ revents' \in [1 .. pollLen -> Events]
    /\ pollAt' = "error" /\ i_poll' = 1
    /\ UNCHANGED <<closed, sockArray, fds, pollLen, called, allOpen, waited>>

Handling(at) == pollAt = at /\ i_poll <= pollLen

CallBack(name) ==
    /\ called' = Append(called, <<i_poll, name>>)
    /\ closed' \in {closed} \cup {closed \cup {s} : s \in PollSocks}

\* A mutant: a socket with an error is not read any more.
ErrorOnly ==
    /\ Handling("error")
    /\ IF "err" \in revents[i_poll]
       THEN CallBack("error") /\ i_poll' = i_poll + 1 /\ UNCHANGED pollAt
       ELSE pollAt' = "data" /\ UNCHANGED <<closed, called, i_poll>>
    /\ UNCHANGED <<sockArray, fds, pollLen, revents, allOpen, waited>>

\* What error() returns does not matter.
HandleError ==
    /\ Handling("error")
    /\ IF "err" \in revents[i_poll] THEN CallBack("error") ELSE UNCHANGED <<closed, called>>
    /\ pollAt' = "data"
    /\ UNCHANGED <<sockArray, fds, pollLen, i_poll, revents, allOpen, waited>>

\* When data() fails the sockets behind it are not handled.
HandleData ==
    /\ Handling("data")
    /\ IF "in" \in revents[i_poll] THEN CallBack("data") ELSE UNCHANGED <<closed, called>>
    /\ \/ pollAt' = "error"
       \/ "in" \in revents[i_poll] /\ pollAt' = "failed"
    /\ i_poll' = i_poll + 1
    /\ UNCHANGED <<sockArray, fds, pollLen, revents, allOpen, waited>>

PollReturns ==
    /\ pollAt = "error" /\ i_poll > pollLen
    /\ pollAt' = "done"
    /\ UNCHANGED <<closed, sockArray, fds, pollLen, i_poll, revents, called, allOpen, waited>>

\* The script calls waitForInput() afterwards: milliseconds become a timeval,
\* and without any it does not wait.
WaitForInput ==
    /\ pollAt \in {"done", "failed"}
    /\ \E s \in PollSocks : s \notin closed
    /\ \E ms \in Timeouts :
          waited' = IF ms > 0
                    THEN [ms |-> ms, sec |-> ms \div 1000,
                          usec |-> (ms - (ms \div 1000) * 1000) * 1000]
                    ELSE [ms |-> 0, sec |-> 0, usec |-> 0]
    /\ UNCHANGED <<closed, sockArray, fds, pollLen, pollAt, i_poll, revents, called, allOpen>>

PollNext ==
    FillSlot \/ PollWaits \/ HandleError \/ HandleData \/ PollReturns \/ WaitForInput

PollSpec == PollInit /\ [][PollNext]_pollVars

-----------------------------------------------------------------------------
(* Properties.                                                             *)

\* What there is to call back for, by the index of the array
Due == {<<k, "error">> : k \in {n \in DOMAIN revents : "err" \in revents[n]}} \cup
       {<<k, "data">> : k \in {n \in DOMAIN revents : "in" \in revents[n]}}

\* Each is called once and in turn, error() of a socket before its data().
Precedes(a, b) == a[1] < b[1] \/ (a[1] = b[1] /\ a[2] = "error" /\ b[2] = "data")
Ordered(calls) == \A i, j \in DOMAIN calls : i < j => Precedes(calls[i], calls[j])

\* poll() calls back for what poll(2) found, of every socket and in the order
\* of the array, error() before data(), whatever the callbacks close, as long
\* as no socket of the array was closed before.  When one was, the last of the
\* array are not polled and a slot is used that was never set.  And select(2)
\* waits as long as waitForInput() was told.
PollServes ==
    /\ allOpen /\ pollAt = "done" =>
          fds = 1 .. Len(sockArray) /\ Range(called) = Due /\ Ordered(called)
    /\ waited.usec < 1000000 /\ waited.sec * 1000000 + waited.usec = waited.ms * 1000
=============================================================================
