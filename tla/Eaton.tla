------------------------------- MODULE Eaton -------------------------------
(***************************************************************************)
(* readEatonPacket() (js_socket.cpp): packets framed by 0x5a, a length that*)
(* counts itself, and 0xa5, read from a socket or a serial line.           *)
(*                                                                         *)
(* The peer sends packets with noise between them, and every read(2)       *)
(* returns what has arrived by then, up to what was asked for.  The        *)
(* request the native leaves is the matter of Sockets.                     *)
(***************************************************************************)
EXTENDS Integers, Sequences, SequencesExt

CONSTANTS Frames    \* what peers send: sequences of [noise, data]

Header == 90
Trailer == 165
MaxPacket == 32     \* sizeof packetbuf

\* A header is not noise, and packets fit the buffer.
Bytes == 0 .. 255

ASSUME EatonAssumption ==
    \A sent \in Frames :
        /\ sent \in Seq([noise : Seq(Bytes \ {Header}), data : Seq(Bytes)])
        /\ \A k \in DOMAIN sent : Len(sent[k].data) + 1 <= MaxPacket

Packet(data) == <<Len(data) + 1>> \o data
Framed(f) == f.noise \o <<Header>> \o Packet(f.data) \o <<Trailer>>
Wire(sent) == FlattenSeq([k \in DOMAIN sent |-> Framed(sent[k])])

VARIABLES
    frames,         \* what the peer sends
    eatonArrived, eatonTaken,
    eatonAt,
    packetbuf,      \* the bytes of it that were set by this call
    got,            \* history: the packets returned
    broken          \* history: a read failed, or returned less than asked for

eatonVars == <<frames, eatonArrived, eatonTaken, eatonAt, packetbuf, got, broken>>

EatonInit ==
    /\ frames \in Frames
    /\ eatonArrived = 0 /\ eatonTaken = 0
    /\ eatonAt = "idle" /\ packetbuf = <<>>
    /\ got = <<>> /\ broken = FALSE

EatonArrives ==
    /\ eatonArrived < Len(Wire(frames))
    /\ \E n \in eatonArrived + 1 .. Len(Wire(frames)) : eatonArrived' = n
    /\ UNCHANGED <<frames, eatonTaken, eatonAt, packetbuf, got, broken>>

\* read(2) of n bytes: nothing if the stream has ended or n is 0.
Reads(n, bytes) ==
    LET ready == eatonArrived - eatonTaken
        k == Min({n, ready})
    IN /\ n > 0 => ready > 0 \/ eatonTaken = Len(Wire(frames))
       /\ bytes = SubSeq(Wire(frames), eatonTaken + 1, eatonTaken + k)
       /\ eatonTaken' = eatonTaken + k
       /\ broken' = (broken \/ k < n)
       /\ UNCHANGED <<frames, eatonArrived>>

EatonCalled ==
    /\ eatonAt = "idle"
    /\ eatonAt' = "header" /\ packetbuf' = <<>>
    /\ UNCHANGED <<frames, eatonArrived, eatonTaken, got, broken>>

Byte(n) == SubSeq(Wire(frames), eatonTaken + 1, eatonTaken + Min({n, eatonArrived - eatonTaken}))

\* "wait for header byte": the end of the stream ends the loop as well.
WaitForHeader ==
    /\ eatonAt = "header"
    /\ Reads(1, Byte(1))
    /\ packetbuf' = IF Byte(1) = <<>> THEN packetbuf ELSE Byte(1)
    /\ eatonAt' = IF Byte(1) \in {<<>>, <<Header>>} THEN "length" ELSE "header"
    /\ UNCHANGED got

\* At the end of the stream the length is what the buffer happens to hold.
GetLength ==
    /\ eatonAt = "length"
    /\ Reads(1, Byte(1))
    /\ IF Byte(1) # <<>> THEN packetbuf' = Byte(1)
       ELSE packetbuf' \in IF packetbuf = <<>> THEN {<<1>>, <<MaxPacket + 1>>} ELSE {packetbuf}
    /\ eatonAt' = IF packetbuf'[1] > MaxPacket THEN "idle" ELSE "data"
    /\ UNCHANGED got

\* A mutant: the length is taken not to count itself.
GetMoreData ==
    /\ eatonAt = "data"
    /\ Reads(packetbuf[1], Byte(packetbuf[1]))
    /\ packetbuf' = packetbuf \o Byte(packetbuf[1])
    /\ eatonAt' = "trailer"
    /\ UNCHANGED got

GetData ==
    /\ eatonAt = "data"
    /\ Reads(packetbuf[1] - 1, Byte(packetbuf[1] - 1))
    /\ packetbuf' = packetbuf \o Byte(packetbuf[1] - 1)
    /\ eatonAt' = "trailer"
    /\ UNCHANGED got

\* At the end of the stream the trailer is not set and may be right.
GetTrailer ==
    /\ eatonAt = "trailer"
    /\ Reads(1, Byte(1))
    /\ eatonAt' = "idle"
    /\ IF Byte(1) = <<Trailer>> \/ Byte(1) = <<>>
       THEN got' \in {got, Append(got, packetbuf)} /\ (Byte(1) # <<>> => got' # got)
       ELSE UNCHANGED got
    /\ UNCHANGED packetbuf

\* The native returns an error, in the middle of a packet or not.
ReadErrs ==
    /\ eatonAt \in {"header", "length", "data", "trailer"}
    /\ eatonAt' = "idle" /\ broken' = TRUE
    /\ UNCHANGED <<frames, eatonArrived, eatonTaken, packetbuf, got>>

EatonNext ==
    \/ EatonArrives \/ EatonCalled
    \/ WaitForHeader \/ GetLength \/ GetData \/ GetTrailer \/ ReadErrs

EatonSpec == EatonInit /\ [][EatonNext]_eatonVars

-----------------------------------------------------------------------------
(* Properties.                                                             *)

\* As long as no read fails or returns less than it was asked for, the script
\* is given the packets that were sent, in order, whatever is between them and
\* whether or not their data holds the framing bytes.  The length and the
\* trailer are not looked for in what arrives later: a packet cut inside its
\* data is an error, or a wrong packet.
PacketsWhole ==
    ~broken =>
        /\ Len(got) <= Len(frames)
        /\ \A k \in DOMAIN got : got[k] = Packet(frames[k].data)
        /\ eatonAt = "idle" /\ eatonTaken = Len(Wire(frames)) => Len(got) = Len(frames)
=============================================================================
