----------------------------- MODULE SockBuffer -----------------------------
(***************************************************************************)
(* The receiving side of a Socket object (js_socket.cpp): the byte stream  *)
(* of the peer, cut into segments, and the natives that read it through    *)
(* read_buffer: read() returns a line, readBytes() an array of bytes,      *)
(* read_ws_packet() a frame 0x00 ... 0xff.                                 *)
(*                                                                         *)
(* One thread uses the socket.  A native is one action, or, where it calls *)
(* read(2), one action for every such call; read(2) waits for data, and    *)
(* returns 0 once the peer has hung up and everything was read.  The end   *)
(* of a line, "\r\n" or "\n", is one byte here.                           *)
(***************************************************************************)
EXTENDS Integers, Sequences, FiniteSetsExt

CONSTANTS
    BufferSize,  \* 32*1024 at the start
    Grow,        \* read() and read_ws_packet() add 1024 to it
    MaxGrow,     \* a bound of the model: how often they do
    Fills        \* what a malloc'ed buffer may be filled with

\* Bytes: the delimiters, what malloc left, and those of the stream, which
\* are told apart by their place in it.
NL == <<"nl", 0>>
NUL == <<"nul", 0>>
FF == <<"ff", 0>>
Junk == <<"junk", 0>>
Data(k) == <<"data", k>>
Bytes == {NL, NUL, FF, Junk} \cup ({"data"} \X Nat)

ASSUME BufferAssumption ==
    /\ BufferSize \in Nat \ {0} /\ Grow \in Nat \ {0} /\ MaxGrow \in Nat
    /\ Fills \subseteq Bytes

\* The results of the natives besides sequences of bytes
None == <<Junk, Junk>>
False == <<Junk>>

Cap == BufferSize + MaxGrow * Grow
\* read() looks at up to two bytes behind its data.
Cells == 0 .. Cap + 1

VARIABLES
    stream,       \* all that the peer will ever send
    hungUp,       \* whether the peer has closed the connection
    arrived,      \* how much of the stream the kernel has got ...
    taken,        \* ... and handed out to read(2)
    read_buffer, buffer_size, buffer_pos,
    call,         \* the native that waits in read(2), or "none"
    want,         \* bytes_to_read of readBytes()
    total_length, read_state,   \* of read_ws_packet()
    result        \* what the last native returned

netVars == <<stream, hungUp, arrived>>
bufVars == <<read_buffer, buffer_size, buffer_pos>>
wsVars == <<total_length, read_state>>
sockVars == <<netVars, taken, bufVars, call, want, wsVars, result>>

\* js_sock_construct: nothing is written to the buffer.
SockInit(s) ==
    /\ stream = s
    /\ hungUp = FALSE /\ arrived = 0 /\ taken = 0
    /\ \E fill \in Fills : read_buffer = [c \in Cells |-> fill]
    /\ buffer_size = BufferSize
    /\ buffer_pos = 0
    /\ call = "none" /\ want = 0
    /\ total_length = 0 /\ read_state = 0
    /\ result = None

\* The segment that ends with byte c arrives.
Arrive(c) ==
    /\ arrived < c /\ ~hungUp
    /\ arrived' = c
    /\ UNCHANGED <<stream, hungUp, taken, bufVars, call, want, wsVars, result>>

\* The peer closes the connection; what has arrived can still be read.
HangUp ==
    /\ ~hungUp
    /\ hungUp' = TRUE
    /\ UNCHANGED <<stream, arrived, taken, bufVars, call, want, wsVars, result>>

\* read(2) returns 0.
AtEnd == hungUp /\ arrived = taken

\* memmove of n bytes at k to the front
Moved(m, k, n) == [c \in Cells |-> IF c < n THEN m[c + k] ELSE m[c]]

\* JS_NewStringCopyZ
CString(m) ==
    [j \in 1 .. Min({c \in Cells : m[c] = NUL} \cup {Cap + 2}) |-> m[j - 1]]

\* read(2) of at most n bytes
Received(n) == Min({n, arrived - taken})
Written(m, k, n) ==
    [c \in Cells |-> IF c \in k .. k + n - 1 THEN stream[taken + 1 + c - k] ELSE m[c]]

Waits(native) == call' = native /\ UNCHANGED result
Returns(r) == call' = "none" /\ result' = r

-----------------------------------------------------------------------------
(* read().                                                                 *)

\* The first scan looks for the end of a line one byte behind the buffered
\* ones, and one more.
BufferedEnds == {k \in 0 .. buffer_pos + 1 : read_buffer[k] = NL}

\* "maybe we've got some old lines": what follows the line is moved to the
\* front with one byte more than there is, which buffer_pos then counts.
BufferedLine ==
    LET k == Min(BufferedEnds)
        rest == buffer_pos - k
        line == [read_buffer EXCEPT ![k] = NUL]
    IN /\ Returns(CString(line))
       /\ IF rest > 0
          THEN read_buffer' = Moved(line, k + 1, rest) /\ buffer_pos' = rest
          ELSE read_buffer' = line /\ buffer_pos' = 0

CallRead ==
    /\ call = "none"
    /\ IF buffer_pos > 0 /\ BufferedEnds # {}
       THEN BufferedLine
       ELSE Waits("read") /\ UNCHANGED <<read_buffer, buffer_pos>>
    /\ UNCHANGED <<netVars, taken, buffer_size, want, wsVars>>

\* A mutant: the end of the line stays in front of the bytes left over.
KeepsNewline(m, k, ret) ==
    LET line == [m EXCEPT ![k] = NUL]
        rest == ret - 1
        kept == IF rest > 0 THEN Moved(line, k, rest) ELSE line
    IN /\ Returns(CString(line))
       /\ read_buffer' = [kept EXCEPT ![rest] = NUL]
       /\ buffer_pos' = rest

\* The line ends at k, and ret bytes were received from there on.
ReceivedLine(m, k, ret) ==
    LET line == [m EXCEPT ![k] = NUL]
        rest == ret - 1
        kept == IF rest > 0 THEN Moved(line, k + 1, rest) ELSE line
    IN /\ Returns(CString(line))
       /\ read_buffer' = IF rest < 0 THEN kept ELSE [kept EXCEPT ![rest] = NUL]
       /\ buffer_pos' = rest

\* One turn of the loop.  Without the end of a line all that was received has
\* been skipped: the buffer grows, and buffer_pos becomes the room there was.
\* A buffer_pos below 0 is outside the buffer, and the model ends there.
ReadSegment ==
    LET room == buffer_size - buffer_pos
        n == Received(room)
        m == Written(read_buffer, buffer_pos, n)
        ends == {k \in buffer_pos .. buffer_pos + n : m[k] = NL}
    IN /\ call = "read"
       /\ arrived > taken
       /\ buffer_pos >= 0
       /\ taken' = taken + n
       /\ IF ends # {}
          THEN /\ ReceivedLine(m, Min(ends), buffer_pos + n - Min(ends))
               /\ UNCHANGED buffer_size
          ELSE /\ buffer_size + Grow <= Cap
               /\ read_buffer' = m
               /\ buffer_size' = buffer_size + Grow
               /\ buffer_pos' = room
               /\ UNCHANGED <<call, result>>
       /\ UNCHANGED <<netVars, want, wsVars>>

\* Nothing more comes.  The line is given up, unless the byte where it would
\* have begun happens to be the end of one.
ReadEnds ==
    /\ call = "read"
    /\ AtEnd
    /\ buffer_pos >= 0
    /\ IF read_buffer[buffer_pos] = NL
       THEN ReceivedLine(read_buffer, buffer_pos, 0)
       ELSE Returns(False) /\ UNCHANGED <<read_buffer, buffer_pos>>
    /\ UNCHANGED <<netVars, taken, buffer_size, want, wsVars>>

-----------------------------------------------------------------------------
(* readBytes(n).                                                           *)

\* A NUL is written behind the bytes of the array, over what follows them.
Terminated(m, n) == [m EXCEPT ![n] = NUL]

\* A mutant: the bytes are taken from behind the first one.
BytesSkipOne(m, n) == [j \in 1 .. n |-> m[j]]

BytesOf(m, n) == [j \in 1 .. n |-> m[j - 1]]

\* A buffer smaller than n grows first.
CallReadBytes(n) ==
    /\ call = "none"
    /\ buffer_size' = IF buffer_size < n THEN buffer_size + n + 1 ELSE buffer_size
    /\ IF buffer_pos >= n
       THEN LET m == Terminated(read_buffer, n)
            IN /\ Returns(BytesOf(read_buffer, n))
               /\ read_buffer' = IF buffer_pos > 0
                                 THEN Moved(m, n, buffer_pos - n) ELSE m
               /\ buffer_pos' = IF buffer_pos > 0 THEN buffer_pos - n ELSE 0
               /\ UNCHANGED want
       ELSE /\ Waits("readBytes")
            /\ want' = n
            /\ UNCHANGED <<read_buffer, buffer_pos>>
    /\ UNCHANGED <<netVars, taken, wsVars>>

\* The bytes asked for are compared with those received now: bytes that were
\* in the buffer count for nothing, and buffer_pos does not move.
ReadBytesReceives ==
    LET n == Received(want - buffer_pos)
        m == Written(read_buffer, buffer_pos, n)
    IN /\ call = "readBytes"
       /\ arrived > taken \/ AtEnd
       /\ taken' = taken + n
       /\ IF n < want
          THEN Returns(False) /\ read_buffer' = m
          ELSE Returns(BytesOf(m, want)) /\ read_buffer' = Terminated(m, want)
       /\ want' = 0
       /\ UNCHANGED <<netVars, buffer_size, buffer_pos, wsVars>>

-----------------------------------------------------------------------------
(* read_ws_packet(): byte by byte, over whatever read_buffer holds.        *)

CallReadWs ==
    /\ call = "none"
    /\ Waits("read_ws_packet")
    /\ total_length' = 0 /\ read_state' = 0
    /\ UNCHANGED <<netVars, taken, bufVars, want>>

\* The next byte of the stream, taken from the kernel
NextByte ==
    /\ call = "read_ws_packet"
    /\ arrived > taken
    /\ taken' = taken + 1
    /\ UNCHANGED <<netVars, buffer_pos, want>>
Byte == stream[taken + 1]

\* "try to sync to next frame"
WsSync ==
    /\ NextByte
    /\ read_state = 0
    /\ read_state' = IF Byte = NUL THEN 1 ELSE 0
    /\ UNCHANGED <<read_buffer, buffer_size, total_length, call, result>>

\* Room for the byte, and for the NUL that may follow it
WsRoom ==
    /\ total_length = buffer_size - 1 => buffer_size + Grow <= Cap
    /\ buffer_size' = IF total_length = buffer_size - 1 THEN buffer_size + Grow
                      ELSE buffer_size

WsByte ==
    /\ NextByte
    /\ read_state = 1 /\ Byte # FF
    /\ WsRoom
    /\ read_buffer' = [read_buffer EXCEPT ![total_length] = Byte]
    /\ total_length' = total_length + 1
    /\ UNCHANGED <<read_state, call, result>>

\* A mutant: the last byte of the stream, 0xff, does not end a frame.
WsEndMissed ==
    /\ NextByte
    /\ read_state = 1 /\ Byte = FF
    /\ WsRoom
    /\ taken + 1 < Len(stream)
    /\ read_buffer' = [read_buffer EXCEPT ![total_length] = NUL]
    /\ Returns(CString(read_buffer'))
    /\ UNCHANGED wsVars

\* A mutant: the frame is not terminated in the buffer.
WsEndUnterminated ==
    /\ NextByte
    /\ read_state = 1 /\ Byte = FF
    /\ WsRoom
    /\ Returns(CString(read_buffer))
    /\ UNCHANGED <<read_buffer, wsVars>>

WsEnd ==
    /\ NextByte
    /\ read_state = 1 /\ Byte = FF
    /\ WsRoom
    /\ read_buffer' = [read_buffer EXCEPT ![total_length] = NUL]
    /\ Returns(CString(read_buffer'))
    /\ UNCHANGED wsVars

\* Nothing more comes: what has come of a frame is returned as if it were one.
WsHungUp ==
    /\ call = "read_ws_packet"
    /\ AtEnd
    /\ read_buffer' = [read_buffer EXCEPT ![total_length] = NUL]
    /\ Returns(CString(read_buffer'))
    /\ UNCHANGED <<netVars, taken, buffer_size, buffer_pos, want, wsVars>>

Receive ==
    \/ ReadSegment
    \/ ReadEnds
    \/ ReadBytesReceives
    \/ WsSync
    \/ WsByte
    \/ WsEnd
    \/ WsHungUp
=============================================================================
