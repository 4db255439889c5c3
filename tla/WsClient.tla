------------------------------ MODULE WsClient ------------------------------
(***************************************************************************)
(* The APE client (ape_project) on a Socket: start_ws of WS_Socket.js      *)
(* reads the status line, the headers up to the blank line and the         *)
(* challenge of the server; then ape_conn.js sends its commands and polls, *)
(* and the data callback reads one frame whenever there is something to    *)
(* read.                                                                   *)
(*                                                                         *)
(* The server (external) answers the upgrade with lines of some lengths,   *)
(* the last of which is blank, and the challenge, and sends frames once it *)
(* has got the commands.                                                   *)
(***************************************************************************)
EXTENDS SockBuffer, SequencesExt

CONSTANTS
    Responses,     \* sequences of the lengths of the lines, status line first
    Pushes,        \* sequences of the lengths of the frames
    ChallengeLen,  \* 16
    SplitResponse  \* whether the response may be cut anywhere

\* Only the last line of a response is blank, and it is not the status line; no
\* frame is empty, as handle() is told of none that is.
ASSUME WsAssumption ==
    /\ ChallengeLen \in Nat \ {0} /\ SplitResponse \in BOOLEAN
    /\ Responses \subseteq Seq(Nat)
    /\ \A lens \in Responses :
          Len(lens) >= 2 /\ \A i \in DOMAIN lens : lens[i] = 0 <=> i = Len(lens)
    /\ Pushes \subseteq Seq(Nat \ {0})

VARIABLES
    response, pushes,
    phase,      \* what the script waits for
    lines,      \* history: the results of read()
    hash,       \* the result of readBytes()
    frames      \* history: the frames handed to callback.handle()

clientVars == <<response, pushes, phase, lines, hash, frames>>
vars == <<sockVars, clientVars>>

\* Where the parts of the stream begin, in bytes: line and frame number i are
\* behind byte number ...Start(i).
SumOf(lens, n) ==
    LET sum[k \in 0 .. Len(lens)] == IF k = 0 THEN 0 ELSE sum[k - 1] + lens[k]
    IN sum[n]
LineStart(i) == SumOf(response, i - 1) + i - 1
ChallengeStart == LineStart(Len(response) + 1)
ResponseEnd == ChallengeStart + ChallengeLen
FrameStart(i) == ResponseEnd + SumOf(pushes, i - 1) + 2 * (i - 1)

\* The n bytes that follow byte number k
Slice(k, n) == [j \in 1 .. n |-> Data(k + j)]
Line(i) == Slice(LineStart(i), response[i])
Challenge == Slice(ChallengeStart, ChallengeLen)
Frame(i) == Slice(FrameStart(i) + 1, pushes[i])

\* What the server sends
Sent ==
    LET lineEnds == {LineStart(i + 1) : i \in DOMAIN response}
        opens == {FrameStart(i) + 1 : i \in DOMAIN pushes}
        closes == {FrameStart(i + 1) : i \in DOMAIN pushes}
    IN [k \in 1 .. FrameStart(Len(pushes) + 1) |->
           CASE k \in lineEnds -> NL
             [] k \in opens -> NUL
             [] k \in closes -> FF
             [] OTHER -> Data(k)]

Init ==
    /\ response \in Responses
    /\ pushes \in Pushes
    /\ SockInit(Sent)
    /\ phase = "status"
    /\ lines = <<>> /\ hash = None /\ frames = <<>>

\* The frames come once the server has the commands, and are cut anywhere.  If
\* the response is not, the network is kind: a segment is one line, or all the
\* rest, and comes when everything before it was read.
Deliver ==
    /\ \E c \in 1 .. Len(stream) :
          /\ \/ phase = "open" /\ c > ResponseEnd
             \/ c <= ResponseEnd /\ SplitResponse
             \/ /\ arrived = taken
                /\ \/ c = ResponseEnd
                   \/ \E i \in DOMAIN response :
                         arrived = LineStart(i) /\ c = LineStart(i + 1)
          /\ Arrive(c)
    /\ UNCHANGED clientVars

HangsUp == HangUp /\ UNCHANGED clientVars

-----------------------------------------------------------------------------
(* start_ws.                                                               *)

ReadLine ==
    /\ phase \in {"status", "headers"}
    /\ result = None
    /\ CallRead
    /\ UNCHANGED clientVars

\* The script looks at the result of a native; then there is none.
Taken ==
    /\ call = "none"
    /\ result # None
    /\ result' = None
    /\ UNCHANGED <<netVars, taken, bufVars, call, want, wsVars>>

TakeStatus ==
    /\ phase = "status"
    /\ Taken
    /\ lines' = <<result>>
    /\ phase' = "headers"
    /\ UNCHANGED <<response, pushes, hash, frames>>

\* false has no length, and the script fails on it.  After the blank line, the
\* status line must be the one of a 101 response.
TakeHeader ==
    /\ phase = "headers"
    /\ Taken
    /\ lines' = Append(lines, result)
    /\ phase' = CASE result \notin {<<>>, False} -> "headers"
                  [] result = <<>> /\ lines[1] = Line(1) -> "challenge"
                  [] OTHER -> "failed"
    /\ UNCHANGED <<response, pushes, hash, frames>>

ReadChallenge ==
    /\ phase = "challenge"
    /\ result = None
    /\ CallReadBytes(ChallengeLen)
    /\ UNCHANGED clientVars

\* The challenge is stored, whatever readBytes() returned; the commands follow.
TakeChallenge ==
    /\ phase = "challenge"
    /\ Taken
    /\ hash' = result
    /\ phase' = "open"
    /\ UNCHANGED <<response, pushes, lines, frames>>

-----------------------------------------------------------------------------
(* The poll loop.                                                          *)

\* poll() calls data() when the kernel has something to read, if only the end.
Poll ==
    /\ phase = "open"
    /\ result = None
    /\ arrived > taken \/ hungUp
    /\ CallReadWs
    /\ UNCHANGED clientVars

\* An empty string is ignored.
TakeFrame ==
    /\ phase = "open"
    /\ Taken
    /\ frames' = IF result = <<>> THEN frames ELSE Append(frames, result)
    /\ UNCHANGED <<response, pushes, phase, lines, hash>>

NativeRuns == Receive /\ UNCHANGED clientVars

Script ==
    \/ ReadLine
    \/ TakeStatus
    \/ TakeHeader
    \/ ReadChallenge
    \/ TakeChallenge
    \/ Poll
    \/ TakeFrame

Next == Deliver \/ HangsUp \/ NativeRuns \/ Script

\* The script and the natives run; nothing makes the server send.
Spec == Init /\ [][Next]_vars /\ WF_vars(NativeRuns) /\ WF_vars(Script)

-----------------------------------------------------------------------------
(* Properties.                                                             *)

TypeOK ==
    /\ hungUp \in BOOLEAN
    /\ 0 <= taken /\ taken <= arrived /\ arrived <= Len(stream)
    /\ buffer_size \in BufferSize .. Cap
    /\ buffer_pos \in -1 .. buffer_size
    /\ total_length \in 0 .. buffer_size /\ read_state \in {0, 1}
    /\ call \in {"none", "read", "readBytes", "read_ws_packet"}
    /\ want \in {0, ChallengeLen}
    /\ phase \in {"status", "headers", "challenge", "open", "failed"}

\* "read a line" (js_sock_read): the lines read are those the server sent,
\* in order, none cut, joined or lost between the kernel and the script.  Where
\* the server hung up before a line, read() says so, unless malloc left a newline
\* in the buffer: then it is an empty one.
LinesMatch ==
    \A i \in DOMAIN lines :
        IF i <= Len(response) /\ LineStart(i + 1) <= arrived THEN lines[i] = Line(i)
        ELSE hungUp /\ lines[i] \in {False, <<>>}

\* "16byte challenge follows" (start_ws): readBytes() finds the challenge
\* behind the lines that read() took out of the same buffer, and is false
\* when the server hung up before it.
ChallengeRead ==
    phase = "open" => hash = IF ResponseEnd <= arrived THEN Challenge ELSE False

\* However the frames are cut into segments, handle() sees those that were
\* sent, each once and in order, and none is written behind the end of the
\* buffer, however long.  Only where the server hung up in the middle of one,
\* handle() sees the part that came.
FramesInOrder ==
    /\ call = "read_ws_packet" => total_length < buffer_size
    /\ \A i \in DOMAIN frames :
          /\ i <= Len(pushes)
          /\ IF FrameStart(i + 1) <= arrived THEN frames[i] = Frame(i)
             ELSE hungUp /\ i = Len(frames) /\ IsPrefix(frames[i], Frame(i))

\* Every frame that has arrived is handled, without another one to wake poll().
FramesHandled ==
    (phase = "open" /\ arrived = Len(stream)) ~> Len(frames) = Len(pushes)
=============================================================================
