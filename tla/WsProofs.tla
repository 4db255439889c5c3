------------------------------ MODULE WsProofs ------------------------------
(***************************************************************************)
(* Proofs about the APE client and the receive buffer under it: the lines, *)
(* the challenge and the frames reach the script whole, for any lengths of *)
(* them, buffers, growth and segments of the frames, and wherever the      *)
(* server hangs up.                                                        *)
(***************************************************************************)
EXTENDS WsClient, DataLemmas

\* A response that arrives line by line and fits the buffer, which has 32*1024
\* bytes at the start.  Of lines that are cut LinesMatch is false.
KindNetwork ==
    /\ ~SplitResponse
    /\ \A lens \in Responses : SumOf(lens, Len(lens)) + Len(lens) + ChallengeLen <= BufferSize

WsSafety == Init /\ [][Next]_vars

-----------------------------------------------------------------------------
(* The invariant.                                                          *)

StreamTypes ==
    /\ response \in Responses /\ pushes \in Pushes /\ stream = Sent
    /\ taken \in Nat /\ arrived \in Nat /\ hungUp \in BOOLEAN
    /\ taken <= arrived /\ arrived <= FrameStart(Len(pushes) + 1)

BufferTypes ==
    /\ read_buffer \in [Cells -> Bytes]
    /\ buffer_size \in BufferSize .. Cap /\ buffer_pos \in Int
    /\ total_length \in Nat
    /\ call = "read_ws_packet" => total_length < buffer_size

\* Which native runs, and what the script has got, in each phase
PhaseTypes ==
    /\ phase \in {"status", "headers", "challenge", "open", "failed"}
    /\ call \in CASE phase \in {"status", "headers"} -> {"none", "read"}
                  [] phase = "challenge" -> {"none", "readBytes"}
                  [] phase = "open" -> {"none", "read_ws_packet"}
                  [] OTHER -> {"none"}
    /\ phase \notin {"open", "failed"} => buffer_size = BufferSize
    /\ result \in Seq(Bytes)
    /\ result # None => call = "none"
    /\ lines \in Seq(Seq(Bytes)) /\ frames \in Seq(Seq(Bytes))
    /\ phase = "status" => lines = <<>>
    /\ phase # "open" => frames = <<>>

LineRight(i, l) ==
    IF i <= Len(response) /\ LineStart(i + 1) <= arrived THEN l = Line(i)
    ELSE hungUp /\ l \in {False, <<>>}

ChallengeRight(h) ==
    IF ResponseEnd <= arrived THEN h = Challenge ELSE hungUp /\ h = False

\* q lines were taken out of the stream.  What follows them is still in the
\* kernel, if it has come, or all of it is in the buffer.
InKernel(q) ==
    /\ buffer_pos = 0
    /\ taken = LineStart(q + 1)
    /\ \/ arrived = taken
       \/ arrived = ResponseEnd
       \/ q < Len(response) /\ arrived = LineStart(q + 2)
InBuffer(q) ==
    /\ call = "none"
    /\ buffer_pos \in ResponseEnd - LineStart(q + 1) .. BufferSize
    /\ taken = ResponseEnd /\ arrived = ResponseEnd
    /\ \A c \in 0 .. ResponseEnd - LineStart(q + 1) - 1 :
          read_buffer[c] = stream[LineStart(q + 1) + c + 1]

\* The server has hung up in the response.
GivenUp ==
    /\ hungUp /\ taken = arrived /\ arrived < ResponseEnd
    /\ buffer_pos \in {-1, 0}

LinesTaken == IF result = None THEN Len(lines) ELSE Len(lines) + 1

ReadingLines ==
    /\ result # None => LineRight(Len(lines) + 1, result)
    /\ \/ Len(lines) < Len(response) /\ (InKernel(LinesTaken) \/ InBuffer(LinesTaken))
       \/ GivenUp /\ (LinesTaken <= Len(response) => arrived < LineStart(LinesTaken + 1))

ReadingChallenge ==
    /\ call = "readBytes" => want = ChallengeLen
    /\ IF result = None
       THEN InKernel(Len(response)) \/ InBuffer(Len(response)) \/ GivenUp
       ELSE ChallengeRight(result) /\ taken = arrived /\ arrived <= ResponseEnd

\* All frames so far have come whole, and g is where the client is after them.
AtFrame(g) ==
    /\ g <= Len(pushes) /\ \A i \in 1 .. g : frames[i] = Frame(i)
    /\ CASE call = "none" /\ result = None -> taken = FrameStart(g + 1)
         [] call = "none" /\ result # None ->
              g < Len(pushes) /\ result = Frame(g + 1) /\ taken = FrameStart(g + 2)
         [] call # "none" /\ read_state = 0 ->
              taken = FrameStart(g + 1) /\ total_length = 0
         [] OTHER ->
              /\ g < Len(pushes) /\ read_state = 1 /\ total_length <= pushes[g + 1]
              /\ taken = FrameStart(g + 1) + 1 + total_length
              /\ \A c \in 0 .. total_length - 1 :
                    read_buffer[c] = Data(FrameStart(g + 1) + 1 + (c + 1))

FrameRight(i, f) ==
    /\ i <= Len(pushes)
    /\ IF FrameStart(i + 1) <= arrived THEN f = Frame(i)
       ELSE hungUp /\ IsPrefix(f, Frame(i))

\* The server has hung up and everything was read.
Over(g) ==
    /\ hungUp /\ taken = arrived
    /\ call # "none" => read_state = 0 /\ total_length = 0
    /\ \A i \in 1 .. g : FrameRight(i, frames[i]) /\ (i < g => FrameStart(i + 1) <= arrived)
    /\ result \in {None, <<>>} \/
          /\ FrameRight(g + 1, result)
          /\ \A i \in 1 .. g : FrameStart(i + 1) <= arrived

ReadingFrames ==
    /\ ChallengeRight(hash)
    /\ \/ ResponseEnd <= arrived /\ AtFrame(Len(frames))
       \/ Over(Len(frames))

WsInv ==
    /\ StreamTypes /\ BufferTypes /\ PhaseTypes /\ LinesMatch
    /\ phase \in {"status", "headers"} => ReadingLines
    /\ phase = "challenge" => ReadingChallenge
    /\ phase = "open" => ReadingFrames

-----------------------------------------------------------------------------
(* Bytes and results.                                                      *)

LEMMA ByteFacts ==
  /\ NL \in Bytes /\ NUL \in Bytes /\ FF \in Bytes /\ Junk \in Bytes
  /\ NL # NUL /\ NL # FF /\ NL # Junk /\ NUL # FF /\ NUL # Junk /\ FF # Junk
  /\ \A k \in Nat : Data(k) \in Bytes /\ Data(k) # NL /\ Data(k) # NUL /\ Data(k) # FF /\ Data(k) # Junk
  BY DEF NL, NUL, FF, Junk, Data, Bytes

LEMMA ResultFacts ==
  /\ None \in Seq(Bytes) /\ False \in Seq(Bytes) /\ <<>> \in Seq(Bytes)
  /\ Len(None) = 2 /\ Len(False) = 1 /\ Len(<<>>) = 0 /\ None[1] = Junk /\ False[1] = Junk
  /\ None # False /\ None # <<>> /\ False # <<>>
<1>1. /\ None \in Seq(Bytes) /\ False \in Seq(Bytes) /\ <<>> \in Seq(Bytes)
      /\ Len(None) = 2 /\ Len(False) = 1 /\ Len(<<>>) = 0 /\ None[1] = Junk /\ False[1] = Junk
  BY ByteFacts DEF None, False
<1>2. None # False
  BY DEF None, False
<1>3. None # <<>> /\ False # <<>>
  BY DEF None, False
<1>4. QED
  BY <1>1, <1>2, <1>3

\* What is made of the bytes of a stream is not mistaken for another result.
LEMMA SliceFacts ==
  ASSUME NEW k \in Nat, NEW n \in Nat
  PROVE  /\ Slice(k, n) \in Seq(Bytes) /\ Len(Slice(k, n)) = n
         /\ \A j \in 1 .. n : Slice(k, n)[j] = Data(k + j)
         /\ Slice(k, n) # None /\ Slice(k, n) # False
         /\ Slice(k, n) = <<>> <=> n = 0
<1> DEFINE s == Slice(k, n)
<1>1. s \in [1 .. n -> Bytes] /\ \A j \in 1 .. n : s[j] = Data(k + j)
  <2>1. \A j \in 1 .. n : k + j \in Nat /\ Data(k + j) \in Bytes
    BY ByteFacts
  <2>2. QED
    BY <2>1 DEF Slice
<1> HIDE DEF s
<1>2. s \in Seq(Bytes) /\ Len(s) = n
  BY <1>1, SeqDef, LenProperties
<1>3. n # 0 => s[1] # Junk
  <2>1. n # 0 => 1 \in 1 .. n /\ k + 1 \in Nat
    OBVIOUS
  <2>2. QED
    BY <1>1, <2>1, ByteFacts
<1>4. s # None /\ s # False
  BY <1>2, <1>3, ResultFacts
<1>5. s = <<>> <=> n = 0
  BY <1>2, ResultFacts, EmptySeq
<1>6. QED
  BY <1>1, <1>2, <1>4, <1>5 DEF s

LEMMA CapIs == Cap \in Nat /\ BufferSize <= Cap /\ BufferSize \in Nat \ {0} /\ Grow \in Nat \ {0}
<1> DEFINE more == MaxGrow * Grow
<1>1. more \in Nat /\ BufferSize \in Nat \ {0} /\ Grow \in Nat \ {0}
  BY BufferAssumption
<1> HIDE DEF more
<1>2. Cap = BufferSize + more
  BY DEF Cap, more
<1>3. QED
  BY <1>1, <1>2

-----------------------------------------------------------------------------
(* Where the parts of the stream begin.                                    *)

LEMMA SumIs ==
  ASSUME NEW lens \in Seq(Nat)
  PROVE  /\ \A k \in 0 .. Len(lens) : SumOf(lens, k) \in Nat
         /\ SumOf(lens, 0) = 0
         /\ \A k \in 1 .. Len(lens) : SumOf(lens, k) = SumOf(lens, k - 1) + lens[k]
<1> DEFINE n == Len(lens)
           Eq(g) == g = [k \in 0 .. n |-> IF k = 0 THEN 0 ELSE g[k - 1] + lens[k]]
           F == CHOOSE g : Eq(g)
           H == [e \in (1 .. n) \X Nat |-> e[2] + lens[e[1]]]
<1>1. n \in Nat /\ \A k \in 1 .. n : lens[k] \in Nat
  BY LenProperties, ElementOfSeq
<1>2. H \in [(1 .. n) \X Nat -> Nat] /\ \A k \in 1 .. n, s \in Nat : H[<<k, s>>] = s + lens[k]
  <2> HIDE DEF n
  <2>1. \A e \in (1 .. n) \X Nat : e[1] \in 1 .. n /\ e[2] \in Nat
    OBVIOUS
  <2>2. \A e \in (1 .. n) \X Nat : e[2] + lens[e[1]] \in Nat
    BY <1>1, <2>1
  <2>3. H \in [(1 .. n) \X Nat -> Nat]
    BY <2>2
  <2>4. ASSUME NEW k \in 1 .. n, NEW s \in Nat PROVE H[<<k, s>>] = s + lens[k]
    <3>1. <<k, s>> \in (1 .. n) \X Nat /\ <<k, s>>[1] = k /\ <<k, s>>[2] = s
      OBVIOUS
    <3>2. QED
      BY <3>1
  <2>5. QED
    BY <2>3, <2>4
<1>3. PICK g : Follows(g, n, Nat, 0, H)
  <2> HIDE DEF n, H
  <2>1. QED
    BY <1>1, <1>2, Recursion
<1>4. Eq(g)
  <2>1. g \in [0 .. n -> Nat] /\ g[0] = 0 /\ \A k \in 1 .. n : g[k] = H[<<k, g[k - 1]>>]
    BY <1>3 DEF Follows
  <2>2. \A k \in 1 .. n : g[k] = g[k - 1] + lens[k]
    <3>1. \A k \in 1 .. n : k - 1 \in 0 .. n
      BY <1>1
    <3>2. \A k \in 1 .. n : g[k - 1] \in Nat
      BY <2>1, <3>1
    <3> HIDE DEF H
    <3>3. QED
      BY <1>2, <2>1, <3>2
  <2> HIDE DEF n, H
  <2>3. QED
    BY <1>1, <2>1, <2>2
<1>5. Eq(F)
  <2> HIDE DEF Eq
  <2>1. QED
    BY <1>4
<1>6. \A k \in 0 .. n : SumOf(lens, k) = F[k]
  BY DEF SumOf
<1> HIDE DEF F
<1>7. F[0] = 0 /\ \A k \in 1 .. n : F[k] = F[k - 1] + lens[k]
  <2>1. F = [k \in 0 .. n |-> IF k = 0 THEN 0 ELSE F[k - 1] + lens[k]]
    BY <1>5
  <2>2. 0 \in 0 .. n /\ \A k \in 1 .. n : k \in 0 .. n /\ k # 0
    BY <1>1
  <2> HIDE DEF n
  <2>3. \A k \in 0 .. n : F[k] = IF k = 0 THEN 0 ELSE F[k - 1] + lens[k]
    BY <2>1
  <2>4. QED
    BY <2>2, <2>3
<1>8. \A k \in 0 .. n : F[k] \in Nat
  <2> DEFINE S == {k \in 0 .. n : F[k] \in Nat}
  <2>1. 0 \in S
    BY <1>1, <1>7
  <2>2. ASSUME NEW k \in 1 .. n, k - 1 \in S PROVE k \in S
    <3>1. F[k - 1] \in Nat /\ lens[k] \in Nat /\ F[k] = F[k - 1] + lens[k]
      BY <1>1, <1>7, <2>2
    <3> HIDE DEF n
    <3>2. F[k] \in Nat
      BY <3>1
    <3>3. k \in 0 .. n
      BY <1>1
    <3>4. QED
      BY <3>2, <3>3
  <2> HIDE DEF S, n
  <2>3. \A k \in 0 .. n : k \in S
    BY <1>1, <2>1, <2>2, UpTo
  <2>4. QED
    BY <2>3 DEF S
<1>9. 0 \in 0 .. n /\ \A k \in 1 .. n : k \in 0 .. n /\ k - 1 \in 0 .. n
  BY <1>1
<1>10. QED
  BY <1>6, <1>7, <1>8, <1>9

\* Steps of at least a byte add up.
LEMMA Rises ==
  ASSUME NEW n \in Nat, NEW F \in [1 .. n + 1 -> Nat], \A i \in 1 .. n : F[i] < F[i + 1]
  PROVE  \A i, j \in 1 .. n + 1 : /\ i < j => F[i] < F[j]
                                  /\ i <= j => F[i] <= F[j]
<1> SUFFICES ASSUME NEW i \in 1 .. n + 1 PROVE \A j \in 1 .. n + 1 : i < j => F[i] < F[j]
  OBVIOUS
<1> DEFINE S == {d \in 0 .. n : i < d + 1 => F[i] < F[d + 1]}
<1>1. 0 \in S
  OBVIOUS
<1>2. ASSUME NEW d \in 1 .. n, d - 1 \in S PROVE d \in S
  <2>1. F[d] < F[d + 1] /\ F[d] \in Nat /\ F[d + 1] \in Nat /\ F[i] \in Nat
    OBVIOUS
  <2>2. i < d => F[i] < F[d]
    BY <1>2
  <2>3. i < d + 1 => F[i] < F[d + 1]
    BY <2>1, <2>2
  <2>4. QED
    BY <2>3
<1> HIDE DEF S
<1>3. \A d \in 0 .. n : d \in S
  BY <1>1, <1>2, UpTo
<1>4. \A j \in 1 .. n + 1 : j - 1 \in 0 .. n /\ (j - 1) + 1 = j
  OBVIOUS
<1>5. QED
  BY <1>3, <1>4 DEF S

LEMMA ResponseIs ==
  ASSUME StreamTypes
  PROVE  /\ response \in Seq(Nat) /\ Len(response) \in Nat /\ Len(response) >= 2
         /\ \A i \in 1 .. Len(response) :
               response[i] \in Nat /\ (response[i] = 0 <=> i = Len(response))
         /\ pushes \in Seq(Nat) /\ Len(pushes) \in Nat
         /\ \A i \in 1 .. Len(pushes) : pushes[i] \in Nat \ {0}
         /\ ChallengeLen \in Nat \ {0}
<1>1. response \in Seq(Nat) /\ pushes \in Seq(Nat \ {0}) /\ ChallengeLen \in Nat \ {0}
      /\ Len(response) >= 2
      /\ \A i \in DOMAIN response : response[i] = 0 <=> i = Len(response)
  BY WsAssumption DEF StreamTypes
<1>2. pushes \in Seq(Nat)
  BY <1>1
<1>3. Len(response) \in Nat /\ DOMAIN response = 1 .. Len(response) /\ Len(pushes) \in Nat
      /\ \A i \in 1 .. Len(response) : response[i] \in Nat
  BY <1>1, LenProperties, ElementOfSeq
<1>4. \A i \in 1 .. Len(pushes) : pushes[i] \in Nat \ {0}
  BY <1>1, ElementOfSeq
<1>5. QED
  BY <1>1, <1>2, <1>3, <1>4

LEMMA Starts ==
  ASSUME StreamTypes
  PROVE  /\ LineStart(1) = 0 /\ \A i \in 1 .. Len(response) + 1 : LineStart(i) \in Nat
         /\ \A i \in 1 .. Len(response) : LineStart(i + 1) = LineStart(i) + response[i] + 1
         /\ ChallengeStart \in Nat /\ ChallengeStart = LineStart(Len(response) + 1)
         /\ ResponseEnd \in Nat /\ ResponseEnd = ChallengeStart + ChallengeLen
         /\ FrameStart(1) = ResponseEnd
         /\ \A i \in 1 .. Len(pushes) + 1 : FrameStart(i) \in Nat
         /\ \A i \in 1 .. Len(pushes) : FrameStart(i + 1) = FrameStart(i) + pushes[i] + 2
<1>1. /\ response \in Seq(Nat) /\ Len(response) \in Nat /\ pushes \in Seq(Nat) /\ Len(pushes) \in Nat
      /\ ChallengeLen \in Nat
      /\ \A i \in 1 .. Len(response) : response[i] \in Nat
      /\ \A i \in 1 .. Len(pushes) : pushes[i] \in Nat
  BY ResponseIs
<1> DEFINE R(i) == SumOf(response, i)
           P(i) == SumOf(pushes, i)
<1>2. /\ \A k \in 0 .. Len(response) : R(k) \in Nat
      /\ R(0) = 0 /\ \A k \in 1 .. Len(response) : R(k) = R(k - 1) + response[k]
  BY <1>1, SumIs
<1>3. /\ \A k \in 0 .. Len(pushes) : P(k) \in Nat
      /\ P(0) = 0 /\ \A k \in 1 .. Len(pushes) : P(k) = P(k - 1) + pushes[k]
  BY <1>1, SumIs
<1>4. /\ \A i \in 1 .. Len(response) + 1 : LineStart(i) = R(i - 1) + i - 1 /\ i - 1 \in 0 .. Len(response)
      /\ \A i \in 1 .. Len(pushes) + 1 :
            FrameStart(i) = ResponseEnd + P(i - 1) + 2 * (i - 1) /\ i - 1 \in 0 .. Len(pushes)
  BY <1>1 DEF LineStart, FrameStart
<1> HIDE DEF R, P
<1>5. LineStart(1) = 0
  <2>1. 1 \in 1 .. Len(response) + 1 /\ 1 - 1 = 0
    BY <1>1
  <2>2. QED
    BY <1>2, <1>4, <2>1
<1>6. \A i \in 1 .. Len(response) + 1 : LineStart(i) \in Nat
  BY <1>2, <1>4
<1>7. ASSUME NEW i \in 1 .. Len(response) PROVE LineStart(i + 1) = LineStart(i) + response[i] + 1
  <2>1. i + 1 \in 1 .. Len(response) + 1 /\ (i + 1) - 1 = i /\ i \in 1 .. Len(response) + 1
        /\ i - 1 \in 0 .. Len(response)
    BY <1>1
  <2>2. LineStart(i + 1) = R(i) + (i + 1) - 1 /\ LineStart(i) = R(i - 1) + i - 1
    BY <1>4, <2>1
  <2>3. R(i) = R(i - 1) + response[i] /\ R(i - 1) \in Nat /\ response[i] \in Nat
    BY <1>1, <1>2, <2>1
  <2>4. QED
    BY <2>2, <2>3
<1>8. ChallengeStart \in Nat /\ ChallengeStart = LineStart(Len(response) + 1)
  BY <1>1, <1>6 DEF ChallengeStart
<1>9. ResponseEnd \in Nat /\ ResponseEnd = ChallengeStart + ChallengeLen
  BY <1>1, <1>8 DEF ResponseEnd
<1>10. FrameStart(1) = ResponseEnd
  <2>1. 1 \in 1 .. Len(pushes) + 1 /\ 1 - 1 = 0
    BY <1>1
  <2>2. FrameStart(1) = ResponseEnd + P(0) + 2 * 0
    BY <1>4, <2>1
  <2>3. QED
    BY <1>3, <1>9, <2>2
<1>11. ASSUME NEW i \in 1 .. Len(pushes) + 1 PROVE FrameStart(i) \in Nat
  <2>1. /\ FrameStart(i) = ResponseEnd + P(i - 1) + 2 * (i - 1) /\ P(i - 1) \in Nat
        /\ i - 1 \in Nat /\ ResponseEnd \in Nat
    BY <1>1, <1>3, <1>4, <1>9
  <2> DEFINE a == P(i - 1)
             e == ResponseEnd
  <2>2. FrameStart(i) = e + a + 2 * (i - 1) /\ a \in Nat /\ e \in Nat
    BY <2>1
  <2> HIDE DEF a, e
  <2>3. QED
    BY <2>1, <2>2
<1>12. ASSUME NEW i \in 1 .. Len(pushes) PROVE FrameStart(i + 1) = FrameStart(i) + pushes[i] + 2
  <2>1. i + 1 \in 1 .. Len(pushes) + 1 /\ (i + 1) - 1 = i /\ i \in 1 .. Len(pushes) + 1
        /\ i - 1 \in 0 .. Len(pushes)
    BY <1>1
  <2>2. FrameStart(i + 1) = ResponseEnd + P(i) + 2 * i
        /\ FrameStart(i) = ResponseEnd + P(i - 1) + 2 * (i - 1)
    BY <1>4, <2>1
  <2>3. P(i) = P(i - 1) + pushes[i] /\ P(i - 1) \in Nat /\ pushes[i] \in Nat
    BY <1>1, <1>3, <2>1
  <2> DEFINE a == P(i - 1)
             e == ResponseEnd
             d == pushes[i]
  <2>4. /\ FrameStart(i + 1) = e + (a + d) + 2 * i /\ FrameStart(i) = e + a + 2 * (i - 1)
        /\ a \in Nat /\ e \in Nat /\ d \in Nat
    BY <1>9, <2>2, <2>3
  <2> HIDE DEF a, e, d
  <2>5. FrameStart(i + 1) = FrameStart(i) + d + 2
    BY <2>4
  <2>6. QED
    BY <2>5 DEF d
<1>13. QED
  BY <1>5, <1>6, <1>7, <1>8, <1>9, <1>10, <1>11, <1>12

\* Where the parts begin is in the order of the parts.
LEMMA Order ==
  ASSUME StreamTypes
  PROVE  /\ \A i, j \in 1 .. Len(response) + 1 :
               /\ i < j => LineStart(i) < LineStart(j)
               /\ i <= j => LineStart(i) <= LineStart(j)
         /\ \A i, j \in 1 .. Len(pushes) + 1 :
               /\ i < j => FrameStart(i) < FrameStart(j)
               /\ i <= j => FrameStart(i) <= FrameStart(j)
         /\ \A i \in 1 .. Len(response) + 1 : LineStart(i) < ResponseEnd
         /\ \A i \in 1 .. Len(pushes) + 1 : ResponseEnd <= FrameStart(i)
<1>1. /\ Len(response) \in Nat /\ Len(pushes) \in Nat /\ ChallengeLen \in Nat \ {0}
      /\ \A i \in 1 .. Len(response) : response[i] \in Nat
      /\ \A i \in 1 .. Len(pushes) : pushes[i] \in Nat
  BY ResponseIs
<1> DEFINE n == Len(response)
           m == Len(pushes)
           R == [i \in 1 .. n + 1 |-> LineStart(i)]
           P == [i \in 1 .. m + 1 |-> FrameStart(i)]
<1>2. \A i \in 1 .. n : i \in 1 .. n + 1 /\ i + 1 \in 1 .. n + 1
  BY <1>1
<1>3. \A i \in 1 .. m : i \in 1 .. m + 1 /\ i + 1 \in 1 .. m + 1
  BY <1>1
<1>4. R \in [1 .. n + 1 -> Nat] /\ P \in [1 .. m + 1 -> Nat]
  BY Starts
<1>5. \A i \in 1 .. n : R[i] < R[i + 1]
  <2>1. \A i \in 1 .. n : R[i] = LineStart(i) /\ R[i + 1] = LineStart(i + 1) /\ LineStart(i) \in Nat
                          /\ LineStart(i + 1) = LineStart(i) + response[i] + 1
    BY <1>2, Starts
  <2> HIDE DEF R
  <2>2. ASSUME NEW i \in 1 .. n PROVE R[i] < R[i + 1]
    <3>1. R[i] \in Nat /\ R[i + 1] = R[i] + response[i] + 1 /\ response[i] \in Nat
      BY <1>1, <2>1
    <3>2. QED
      BY <3>1
  <2>3. QED
    BY <2>2
<1>6. \A i \in 1 .. m : P[i] < P[i + 1]
  <2>1. \A i \in 1 .. m : P[i] = FrameStart(i) /\ P[i + 1] = FrameStart(i + 1) /\ FrameStart(i) \in Nat
                          /\ FrameStart(i + 1) = FrameStart(i) + pushes[i] + 2
    BY <1>3, Starts
  <2> HIDE DEF P
  <2>2. ASSUME NEW i \in 1 .. m PROVE P[i] < P[i + 1]
    <3>1. P[i] \in Nat /\ P[i + 1] = P[i] + pushes[i] + 2 /\ pushes[i] \in Nat
      BY <1>1, <2>1
    <3>2. QED
      BY <3>1
  <2>3. QED
    BY <2>2
<1>7. /\ \A i \in 1 .. n + 1 : R[i] = LineStart(i)
      /\ \A i \in 1 .. m + 1 : P[i] = FrameStart(i)
  OBVIOUS
<1> HIDE DEF R, P
<1>8. \A i, j \in 1 .. n + 1 : (i < j => R[i] < R[j]) /\ (i <= j => R[i] <= R[j])
  <2> HIDE DEF n
  <2>1. n \in Nat
    BY <1>1 DEF n
  <2>2. QED
    BY <1>4, <1>5, <2>1, Rises
<1>9. \A i, j \in 1 .. m + 1 : (i < j => P[i] < P[j]) /\ (i <= j => P[i] <= P[j])
  <2> HIDE DEF m
  <2>1. m \in Nat
    BY <1>1 DEF m
  <2>2. QED
    BY <1>4, <1>6, <2>1, Rises
<1>10. \A i \in 1 .. n + 1 : LineStart(i) < ResponseEnd
  <2>1. ASSUME NEW i \in 1 .. n + 1 PROVE R[i] <= R[n + 1]
    <3>1. n + 1 \in 1 .. n + 1 /\ i <= n + 1
      BY <1>1
    <3>2. QED
      BY <1>8, <3>1
  <2>2. n + 1 \in 1 .. n + 1
    BY <1>1
  <2>3. \A i \in 1 .. n + 1 : LineStart(i) <= ChallengeStart /\ LineStart(i) \in Nat
    BY <1>7, <2>1, <2>2, Starts
  <2>4. ChallengeStart \in Nat /\ ResponseEnd = ChallengeStart + ChallengeLen
    BY Starts
  <2>5. QED
    BY <1>1, <2>3, <2>4
<1>11. \A i \in 1 .. m + 1 : ResponseEnd <= FrameStart(i)
  <2>1. 1 \in 1 .. m + 1 /\ \A i \in 1 .. m + 1 : 1 <= i
    BY <1>1
  <2>2. \A i \in 1 .. m + 1 : P[1] <= P[i]
    BY <1>9, <2>1
  <2>3. FrameStart(1) = ResponseEnd
    BY Starts
  <2>4. QED
    BY <1>7, <2>1, <2>2, <2>3
<1>12. QED
  BY <1>7, <1>8, <1>9, <1>10, <1>11

\* What is at each place of the stream
LEMMA StreamAt ==
  ASSUME StreamTypes
  PROVE  /\ \A k \in 1 .. FrameStart(Len(pushes) + 1) : stream[k] \in Bytes
         /\ Len(stream) = FrameStart(Len(pushes) + 1)
         /\ \A i \in 1 .. Len(response) :
               /\ \A j \in 1 .. response[i] : stream[LineStart(i) + j] = Data(LineStart(i) + j)
               /\ stream[LineStart(i + 1)] = NL
         /\ \A j \in 1 .. ChallengeLen : stream[ChallengeStart + j] = Data(ChallengeStart + j)
         /\ \A i \in 1 .. Len(pushes) :
               /\ stream[FrameStart(i) + 1] = NUL
               /\ \A j \in 1 .. pushes[i] :
                     stream[FrameStart(i) + 1 + j] = Data(FrameStart(i) + 1 + j)
               /\ stream[FrameStart(i + 1)] = FF
<1> DEFINE n == Len(response)
           m == Len(pushes)
           end == FrameStart(m + 1)
           LineEnds == {LineStart(i + 1) : i \in 1 .. n}
           Opens == {FrameStart(i) + 1 : i \in 1 .. m}
           Closes == {FrameStart(i + 1) : i \in 1 .. m}
<1>1. /\ n \in Nat /\ m \in Nat /\ ChallengeLen \in Nat \ {0}
      /\ DOMAIN response = 1 .. n /\ DOMAIN pushes = 1 .. m
      /\ \A i \in 1 .. n : response[i] \in Nat
      /\ \A i \in 1 .. m : pushes[i] \in Nat
  BY ResponseIs, LenProperties
<1>2. stream = [k \in 1 .. end |-> CASE k \in LineEnds -> NL [] k \in Opens -> NUL
                                     [] k \in Closes -> FF [] OTHER -> Data(k)]
  BY <1>1 DEF StreamTypes, Sent
<1>3. \A i \in 1 .. n : i \in 1 .. n + 1 /\ i + 1 \in 1 .. n + 1
  BY <1>1
<1>4. \A i \in 1 .. m : i \in 1 .. m + 1 /\ i + 1 \in 1 .. m + 1
  BY <1>1
<1>5. m + 1 \in 1 .. m + 1 /\ \A i \in 1 .. m + 1 : i <= m + 1
  BY <1>1
<1>6. /\ \A i \in 1 .. n + 1 : LineStart(i) \in Nat
      /\ \A i \in 1 .. m + 1 : FrameStart(i) \in Nat
      /\ end \in Nat /\ ResponseEnd \in Nat /\ ChallengeStart \in Nat
      /\ ResponseEnd = ChallengeStart + ChallengeLen
  BY <1>5, Starts
<1>7. \A i \in 1 .. m + 1 : ResponseEnd <= FrameStart(i) /\ FrameStart(i) <= end
  BY <1>5, Order
<1>8. \A i \in 1 .. n + 1 : LineStart(i) <= ChallengeStart
  <2>1. n + 1 \in 1 .. n + 1 /\ \A i \in 1 .. n + 1 : i <= n + 1
    BY <1>1
  <2>2. QED
    BY <2>1, Order, Starts
<1>9. ASSUME NEW k \in 1 .. end
      PROVE  /\ k \in LineEnds /\ k \notin Opens /\ k \notin Closes => stream[k] = NL
             /\ k \notin LineEnds /\ k \in Opens /\ k \notin Closes => stream[k] = NUL
             /\ k \notin LineEnds /\ k \notin Opens /\ k \in Closes => stream[k] = FF
             /\ k \notin LineEnds /\ k \notin Opens /\ k \notin Closes => stream[k] = Data(k)
             /\ stream[k] \in Bytes
  <2>1. k \in Nat
    BY <1>6
  <2> HIDE DEF LineEnds, Opens, Closes, end
  <2>2. stream[k] = CASE k \in LineEnds -> NL [] k \in Opens -> NUL
                      [] k \in Closes -> FF [] OTHER -> Data(k)
    BY <1>2
  <2>3. stream[k] \in {NL, NUL, FF, Data(k)}
    BY <2>2
  <2>4. stream[k] \in Bytes
    BY <2>1, <2>3, ByteFacts
  <2>5. QED
    BY <2>2, <2>4
<1>10. Len(stream) = end
  <2> HIDE DEF LineEnds, Opens, Closes, end
  <2>1. QED
    BY <1>2, <1>6
<1>11. \A k \in 1 .. end : stream[k] \in Bytes
  BY <1>9
<1>12. \A k \in LineEnds : k <= ChallengeStart
  BY <1>3, <1>8
<1>13. \A k \in Opens \cup Closes : k > ResponseEnd
  <2>1. \A k \in Opens : k > ResponseEnd
    BY <1>4, <1>6, <1>7
  <2>2. ASSUME NEW i \in 1 .. m PROVE ResponseEnd < FrameStart(i + 1)
    <3>1. i \in 1 .. m + 1
      BY <1>4
    <3>2. ResponseEnd <= FrameStart(i) /\ FrameStart(i) \in Nat /\ ResponseEnd \in Nat
      BY <1>6, <1>7, <3>1
    <3>3. FrameStart(i + 1) = FrameStart(i) + pushes[i] + 2 /\ pushes[i] \in Nat
      BY <1>1, Starts
    <3>4. QED
      BY <3>2, <3>3
  <2>3. QED
    BY <2>1, <2>2
<1>14. ASSUME NEW i \in 1 .. n PROVE
          /\ \A j \in 1 .. response[i] : stream[LineStart(i) + j] = Data(LineStart(i) + j)
          /\ stream[LineStart(i + 1)] = NL
  <2>1. /\ LineStart(i) \in Nat /\ LineStart(i + 1) = LineStart(i) + response[i] + 1
        /\ response[i] \in Nat /\ LineStart(i + 1) <= ChallengeStart
        /\ ChallengeStart < ResponseEnd /\ ResponseEnd <= end
    <3>1. i \in 1 .. n + 1 /\ i + 1 \in 1 .. n + 1
      BY <1>3
    <3>2. /\ LineStart(i) \in Nat /\ LineStart(i + 1) = LineStart(i) + response[i] + 1
          /\ response[i] \in Nat
      BY <1>1, <1>6, <3>1, Starts
    <3>3. LineStart(i + 1) <= ChallengeStart
      BY <1>8, <3>1
    <3>4. ChallengeStart < ResponseEnd
      BY <1>1, <1>6
    <3>5. ResponseEnd <= end
      BY <1>5, <1>7
    <3>6. QED
      BY <3>2, <3>3, <3>4, <3>5
  <2>2. stream[LineStart(i + 1)] = NL
    <3> DEFINE k == LineStart(i + 1)
    <3>1. k \in LineEnds /\ k \in 1 .. end /\ k <= ResponseEnd /\ k \in Int
      BY <1>6, <2>1
    <3> HIDE DEF k, LineEnds, Opens, Closes
    <3>2. k \notin Opens /\ k \notin Closes
      BY <1>6, <1>13, <3>1
    <3>3. stream[k] = NL
      BY <1>9, <3>1, <3>2
    <3>4. QED
      BY <3>3 DEF k
  <2>3. ASSUME NEW j \in 1 .. response[i] PROVE stream[LineStart(i) + j] = Data(LineStart(i) + j)
    <3> DEFINE k == LineStart(i) + j
    <3>1. k \in 1 .. end /\ LineStart(i) < k /\ k < LineStart(i + 1) /\ k <= ResponseEnd
      <4> DEFINE a == LineStart(i)
                 b == LineStart(i + 1)
                 d == response[i]
      <4>1. /\ a \in Nat /\ b = a + d + 1 /\ d \in Nat /\ b <= ChallengeStart
            /\ ChallengeStart \in Nat /\ ResponseEnd \in Nat /\ end \in Nat
            /\ ChallengeStart < ResponseEnd /\ ResponseEnd <= end /\ j \in 1 .. d /\ k = a + j
        BY <1>6, <2>1
      <4> HIDE DEF a, b, d, k, end
      <4>2. k \in 1 .. end /\ a < k /\ k < b /\ k <= ResponseEnd
        BY <4>1
      <4>3. QED
        BY <4>2 DEF a, b
    <3>2. ASSUME NEW a \in 1 .. n PROVE LineStart(a + 1) # k
      <4>1. a + 1 <= i => LineStart(a + 1) <= LineStart(i)
        BY <1>3, Order
      <4>2. i + 1 <= a + 1 => LineStart(i + 1) <= LineStart(a + 1)
        BY <1>3, Order
      <4>3. LineStart(a + 1) \in Nat /\ (a + 1 <= i \/ i + 1 <= a + 1)
        BY <1>1, <1>3, <1>6
      <4> HIDE DEF k
      <4>4. QED
        BY <2>1, <3>1, <4>1, <4>2, <4>3
    <3>3. k \notin LineEnds
      BY <3>2
    <3> HIDE DEF k, LineEnds, Opens, Closes
    <3>4. k \notin Opens /\ k \notin Closes
      BY <1>6, <1>13, <3>1
    <3>5. stream[k] = Data(k)
      BY <1>9, <3>1, <3>3, <3>4
    <3>6. QED
      BY <3>5 DEF k
  <2>4. QED
    BY <2>2, <2>3
<1>15. ASSUME NEW j \in 1 .. ChallengeLen PROVE stream[ChallengeStart + j] = Data(ChallengeStart + j)
  <2> DEFINE k == ChallengeStart + j
  <2>1. ResponseEnd <= end
    BY <1>5, <1>7
  <2>2. k \in 1 .. end /\ ChallengeStart < k /\ k <= ResponseEnd
    BY <1>1, <1>6, <2>1
  <2>3. k \notin LineEnds /\ k \notin Opens /\ k \notin Closes
    <3> HIDE DEF k, LineEnds, Opens, Closes
    <3>1. \A e \in LineEnds : e <= ChallengeStart
      BY <1>12
    <3>2. k \in Int /\ ChallengeStart \in Int /\ ResponseEnd \in Int
      BY <1>6, <2>2
    <3>3. QED
      BY <1>13, <2>2, <3>1, <3>2
  <2> HIDE DEF k, LineEnds, Opens, Closes
  <2>4. stream[k] = Data(k)
    BY <1>9, <2>2, <2>3
  <2>5. QED
    BY <2>4 DEF k
<1>16. ASSUME NEW i \in 1 .. m PROVE
          /\ stream[FrameStart(i) + 1] = NUL
          /\ \A j \in 1 .. pushes[i] : stream[FrameStart(i) + 1 + j] = Data(FrameStart(i) + 1 + j)
          /\ stream[FrameStart(i + 1)] = FF
  <2>1. /\ FrameStart(i) \in Nat /\ FrameStart(i + 1) = FrameStart(i) + pushes[i] + 2
        /\ pushes[i] \in Nat /\ FrameStart(i + 1) <= end /\ ResponseEnd <= FrameStart(i)
        /\ ChallengeStart < ResponseEnd
    <3>1. i \in 1 .. m + 1 /\ i + 1 \in 1 .. m + 1
      BY <1>4
    <3>2. /\ FrameStart(i) \in Nat /\ FrameStart(i + 1) = FrameStart(i) + pushes[i] + 2
          /\ pushes[i] \in Nat
      BY <1>1, <3>1, Starts
    <3>3. FrameStart(i + 1) <= end /\ ResponseEnd <= FrameStart(i)
      BY <1>7, <3>1
    <3>4. ChallengeStart < ResponseEnd
      BY <1>1, <1>6
    <3>5. QED
      BY <3>2, <3>3, <3>4
  <2>2. ASSUME NEW k \in Int, FrameStart(i) < k PROVE k \notin LineEnds
    <3>1. k > ChallengeStart
      BY <1>6, <2>1, <2>2
    <3> HIDE DEF LineEnds
    <3>2. QED
      BY <1>6, <1>12, <3>1
  <2> DEFINE f == FrameStart(i)
             next == FrameStart(i + 1)
  <2>3. ASSUME NEW a \in 1 .. m
        PROVE  /\ FrameStart(a) <= f \/ next <= FrameStart(a)
               /\ FrameStart(a + 1) <= f \/ next <= FrameStart(a + 1)
               /\ FrameStart(a) \in Nat /\ FrameStart(a + 1) \in Nat
    <3>1. i \in 1 .. m + 1 /\ i + 1 \in 1 .. m + 1 /\ a \in 1 .. m + 1 /\ a + 1 \in 1 .. m + 1
      BY <1>4
    <3>2. (a <= i \/ i + 1 <= a) /\ (a + 1 <= i \/ i + 1 <= a + 1)
      BY <1>1
    <3>3. QED
      BY <1>6, <3>1, <3>2, Order
  <2>4. f \in Nat /\ next \in Nat /\ next = f + pushes[i] + 2 /\ pushes[i] \in Nat /\ next <= end
    BY <2>1
  <2>5. ASSUME NEW a \in 1 .. m
         PROVE  /\ FrameStart(a + 1) # f + 1 /\ FrameStart(a) + 1 # next
                /\ \A k \in f + 2 .. next - 1 : FrameStart(a) + 1 # k /\ FrameStart(a + 1) # k
    <3> DEFINE u == FrameStart(a)
               v == FrameStart(a + 1)
    <3>1. (u <= f \/ next <= u) /\ (v <= f \/ next <= v) /\ u \in Nat /\ v \in Nat
      BY <2>3
    <3> HIDE DEF u, v, f, next
    <3> DEFINE d == pushes[i]
    <3>2. next = f + d + 2 /\ d \in Nat /\ f \in Nat /\ next \in Nat
      BY <2>4
    <3> HIDE DEF d
    <3>3. v # f + 1 /\ u + 1 # next
      BY <3>1, <3>2
    <3>4. ASSUME NEW k \in f + 2 .. next - 1 PROVE u + 1 # k /\ v # k
      BY <3>1, <3>2
    <3>5. QED
      BY <3>3, <3>4 DEF u, v
  <2>6. f + 1 \in Opens /\ next \in Closes
    OBVIOUS
  <2> HIDE DEF f, next
  <2>7. stream[f + 1] = NUL
    <3>1. f + 1 \in 1 .. end /\ f < f + 1 /\ f + 1 \in Int /\ f + 1 < next
      BY <1>6, <2>4
    <3>2. \A a \in 1 .. m : FrameStart(a + 1) # f + 1
      BY <2>5
    <3>3. f + 1 \notin LineEnds /\ f + 1 \notin Closes
      BY <2>2, <3>1, <3>2 DEF f
    <3> HIDE DEF LineEnds, Opens, Closes
    <3>4. QED
      BY <1>9, <2>6, <3>1, <3>3
  <2>8. stream[next] = FF
    <3>1. next \in 1 .. end /\ f < next /\ f + 1 < next
      BY <1>6, <2>4
    <3>2. \A a \in 1 .. m : FrameStart(a) + 1 # next
      BY <2>5
    <3>3. next \notin Opens
      BY <3>2
    <3>4. next \notin LineEnds
      BY <2>2, <2>4, <3>1 DEF f
    <3> HIDE DEF LineEnds, Opens, Closes
    <3>5. QED
      BY <1>9, <2>6, <3>1, <3>3, <3>4
  <2>9. ASSUME NEW j \in 1 .. pushes[i] PROVE stream[f + 1 + j] = Data(f + 1 + j)
    <3> DEFINE k == f + 1 + j
    <3>1. k \in 1 .. end /\ f < k /\ k \in f + 2 .. next - 1 /\ k \in Int
      <4> DEFINE d == pushes[i]
      <4>1. /\ next = f + d + 2 /\ d \in Nat /\ f \in Nat /\ next \in Nat /\ next <= end
            /\ end \in Nat /\ j \in 1 .. d /\ k = f + 1 + j
        BY <1>6, <2>4
      <4> HIDE DEF d, k, end
      <4>2. QED
        BY <4>1
    <3> HIDE DEF k
    <3>2. \A a \in 1 .. m : FrameStart(a) + 1 # k /\ FrameStart(a + 1) # k
      BY <2>5, <3>1
    <3>3. k \notin Opens /\ k \notin Closes
      BY <3>2
    <3>4. k \notin LineEnds
      BY <2>2, <3>1 DEF f
    <3> HIDE DEF LineEnds, Opens, Closes
    <3>5. stream[k] = Data(k)
      BY <1>9, <3>1, <3>3, <3>4
    <3>6. QED
      BY <3>5 DEF k
  <2>10. QED
    BY <2>7, <2>8, <2>9 DEF f, next
<1>17. QED
  BY <1>10, <1>11, <1>14, <1>15, <1>16

-----------------------------------------------------------------------------
(* The buffer.                                                             *)

LEMMA MinIs ==
  ASSUME NEW S, S \subseteq Nat, NEW e \in S, \A x \in S : e <= x
  PROVE  Min(S) = e
<1>1. Min(S) \in S /\ Min(S) <= e
  BY MinOfNaturals
<1>2. Min(S) \in Nat /\ e \in Nat /\ e <= Min(S)
  BY <1>1
<1>3. QED
  BY <1>1, <1>2

\* The string in front of a NUL
LEMMA StringIs ==
  ASSUME NEW m \in [Cells -> Bytes], NEW k \in Nat, NEW e \in Nat, e <= Cap + 1,
         m[e] = NUL, \A c \in 0 .. e - 1 : m[c] = Data(k + (c + 1))
  PROVE  CString(m) = Slice(k, e)
<1> DEFINE S == {c \in Cells : m[c] = NUL} \cup {Cap + 2}
<1>1. Cap \in Nat
  BY CapIs
<1>2. S \subseteq Nat /\ e \in S
  BY <1>1 DEF Cells
<1>3. ASSUME NEW c \in S PROVE e <= c
  <2>1. CASE c = Cap + 2
    BY <1>1, <2>1
  <2>2. CASE m[c] = NUL /\ c \in Cells
    <3>1. c \in Nat
      BY <1>2
    <3>2. c < e => m[c] = Data(k + (c + 1)) /\ k + (c + 1) \in Nat
      BY <3>1
    <3>3. QED
      BY <2>2, <3>1, <3>2, ByteFacts
  <2>3. QED
    BY <2>1, <2>2
<1>4. Min(S) = e
  <2> HIDE DEF S
  <2>1. QED
    BY <1>2, <1>3, MinIs
<1>5. CString(m) = [j \in 1 .. e |-> m[j - 1]]
  BY <1>4 DEF CString
<1>6. \A j \in 1 .. e : m[j - 1] = Data(k + j)
  <2>1. \A j \in 1 .. e : j - 1 \in 0 .. e - 1 /\ (j - 1) + 1 = j
    OBVIOUS
  <2>2. QED
    BY <2>1
<1>7. QED
  BY <1>5, <1>6 DEF Slice

\* m begins with the e bytes behind byte number k of the stream.
HoldsLine(m, k, e) == \A c \in 0 .. e - 1 : m[c] = Data(k + (c + 1))

\* A line with e bytes, of ret bytes that were received from its end on
LEMMA LineReceived ==
  ASSUME NEW m \in [Cells -> Bytes], NEW k \in Nat, NEW e \in Nat, NEW ret \in Nat, ret >= 1,
         e + ret <= Cap, HoldsLine(m, k, e), ReceivedLine(m, e, ret)
  PROVE  /\ call' = "none" /\ result' = Slice(k, e)
         /\ buffer_pos' = ret - 1 /\ read_buffer' \in [Cells -> Bytes]
         /\ \A c \in 0 .. ret - 2 : read_buffer'[c] = m[c + e + 1]
<1> DEFINE line == [m EXCEPT ![e] = NUL]
           rest == ret - 1
           kept == IF rest > 0 THEN Moved(line, e + 1, rest) ELSE line
<1>1. Cap \in Nat /\ e \in Cells /\ rest \in Nat /\ rest \in Cells /\ NUL \in Bytes
  BY CapIs, ByteFacts DEF Cells
<1>2. line \in [Cells -> Bytes] /\ line[e] = NUL /\ \A c \in Cells : c # e => line[c] = m[c]
  BY <1>1
<1>3. /\ Returns(CString(line))
      /\ read_buffer' = [kept EXCEPT ![rest] = NUL] /\ buffer_pos' = rest
  BY <1>1 DEF ReceivedLine
<1>4. CString(line) = Slice(k, e)
  <2>1. \A c \in 0 .. e - 1 : c \in Cells /\ c # e
    BY <1>1 DEF Cells
  <2>2. \A c \in 0 .. e - 1 : line[c] = Data(k + (c + 1))
    BY <1>2, <2>1 DEF HoldsLine
  <2>3. e <= Cap + 1
    BY <1>1
  <2> HIDE DEF line
  <2>4. QED
    BY <1>2, <2>2, <2>3, StringIs
<1> HIDE DEF line
<1>5. kept \in [Cells -> Bytes] /\ \A c \in 0 .. ret - 2 : kept[c] = m[c + e + 1]
  <2>1. CASE rest > 0
    <3>1. \A c \in Cells : c < rest => c + (e + 1) \in Cells /\ c + (e + 1) # e /\ c + (e + 1) = c + e + 1
      BY <1>1 DEF Cells
    <3>2. \A c \in 0 .. ret - 2 : c \in Cells /\ c < rest
      BY <1>1 DEF Cells
    <3>3. kept = [c \in Cells |-> IF c < rest THEN line[c + (e + 1)] ELSE line[c]]
      BY <2>1 DEF Moved
    <3> HIDE DEF kept, rest
    <3>4. kept \in [Cells -> Bytes]
      BY <1>2, <3>1, <3>3
    <3>5. \A c \in 0 .. ret - 2 : kept[c] = line[c + (e + 1)]
      BY <3>2, <3>3
    <3>6. QED
      BY <1>2, <3>1, <3>2, <3>4, <3>5
  <2>2. CASE ~(rest > 0)
    <3>1. kept = line /\ ret = 1
      BY <2>2
    <3>2. QED
      BY <1>2, <3>1
  <2>3. QED
    BY <2>1, <2>2
<1>6. \A c \in 0 .. ret - 2 : c \in Cells /\ c # rest
  BY <1>1 DEF Cells
<1> HIDE DEF kept
<1>7. read_buffer' \in [Cells -> Bytes] /\ \A c \in 0 .. ret - 2 : read_buffer'[c] = kept[c]
  BY <1>1, <1>3, <1>5, <1>6
<1>8. QED
  BY <1>3, <1>4, <1>5, <1>7 DEF Returns

\* What stays as it is as long as the stream does
LEMMA Fixed ==
  ASSUME UNCHANGED <<response, pushes, stream>>
  PROVE  /\ Sent' = Sent /\ ResponseEnd' = ResponseEnd /\ ChallengeStart' = ChallengeStart
         /\ Challenge' = Challenge /\ Len(response)' = Len(response) /\ Len(pushes)' = Len(pushes)
         /\ \A i : LineStart(i)' = LineStart(i) /\ FrameStart(i)' = FrameStart(i)
         /\ \A i : Line(i)' = Line(i) /\ Frame(i)' = Frame(i)
  BY DEF Sent, ResponseEnd, ChallengeStart, Challenge, LineStart, FrameStart, Line, Frame

\* What the script was told stays right.
LEMMA RightStays ==
  ASSUME StreamTypes, UNCHANGED <<response, pushes, stream>>,
         arrived' \in Nat, arrived <= arrived', hungUp => hungUp' /\ arrived' = arrived
  PROVE  /\ \A i \in Nat \ {0} : \A l : LineRight(i, l) => LineRight(i, l)'
         /\ \A h : ChallengeRight(h) => ChallengeRight(h)'
         /\ \A i \in Nat \ {0} : \A f : FrameRight(i, f) => FrameRight(i, f)'
<1>1. arrived \in Nat /\ ResponseEnd \in Nat /\ Len(response) \in Nat /\ Len(pushes) \in Nat
  BY Starts, ResponseIs DEF StreamTypes
<1>2. ASSUME NEW i \in Nat \ {0}, NEW l, LineRight(i, l) PROVE LineRight(i, l)'
  <2>1. i <= Len(response) => LineStart(i + 1) \in Nat
    <3>1. i <= Len(response) => i + 1 \in 1 .. Len(response) + 1
      BY <1>1
    <3>2. QED
      BY <3>1, Starts
  <2>2. QED
    BY <1>1, <1>2, <2>1, Fixed DEF LineRight
<1>3. ASSUME NEW h, ChallengeRight(h) PROVE ChallengeRight(h)'
  BY <1>1, <1>3, Fixed DEF ChallengeRight
<1>4. ASSUME NEW i \in Nat \ {0}, NEW f, FrameRight(i, f) PROVE FrameRight(i, f)'
  <2>1. i <= Len(pushes) => FrameStart(i + 1) \in Nat
    <3>1. i <= Len(pushes) => i + 1 \in 1 .. Len(pushes) + 1
      BY <1>1
    <3>2. QED
      BY <3>1, Starts
  <2>2. QED
    BY <1>1, <1>4, <2>1, Fixed DEF FrameRight
<1>5. QED
  BY <1>2, <1>3, <1>4

LEMMA LinesAre ==
  ASSUME PhaseTypes
  PROVE  /\ Len(lines) \in Nat /\ Len(frames) \in Nat
         /\ DOMAIN lines = 1 .. Len(lines)
         /\ LinesMatch <=> \A i \in 1 .. Len(lines) : LineRight(i, lines[i])
  BY LenProperties DEF PhaseTypes, LinesMatch, LineRight

LEMMA LinesStay ==
  ASSUME StreamTypes, PhaseTypes, LinesMatch, UNCHANGED <<response, pushes, stream, lines>>,
         arrived' \in Nat, arrived <= arrived', hungUp => hungUp' /\ arrived' = arrived
  PROVE  LinesMatch'
<1>1. \A i \in 1 .. Len(lines) : i \in Nat \ {0} /\ LineRight(i, lines[i])
  BY LinesAre
<1>2. \A i \in 1 .. Len(lines) : LineRight(i, lines[i])'
  BY <1>1, RightStays
<1>3. DOMAIN lines = 1 .. Len(lines)
  BY LinesAre
<1>4. QED
  BY <1>2, <1>3 DEF LinesMatch, LineRight

-----------------------------------------------------------------------------
(* The server and the network.                                             *)

\* Before the client has its commands sent, a segment is a line or all the rest.
LEMMA Delivered ==
  ASSUME KindNetwork, StreamTypes, Deliver, phase # "open"
  PROVE  /\ arrived = taken /\ arrived < ResponseEnd
         /\ \/ arrived' = ResponseEnd
            \/ \E i \in 1 .. Len(response) : arrived = LineStart(i) /\ arrived' = LineStart(i + 1)
<1>1. PICK c \in 1 .. Len(stream) :
          /\ arrived = taken
          /\ c = ResponseEnd \/ \E i \in DOMAIN response : arrived = LineStart(i) /\ c = LineStart(i + 1)
          /\ Arrive(c)
  BY DEF Deliver, KindNetwork
<1>2. arrived < c /\ arrived' = c
  BY <1>1 DEF Arrive
<1>3. DOMAIN response = 1 .. Len(response) /\ Len(response) \in Nat
  BY ResponseIs, LenProperties
<1>4. CASE c = ResponseEnd
  BY <1>1, <1>2, <1>4
<1>5. CASE \E i \in 1 .. Len(response) : arrived = LineStart(i) /\ c = LineStart(i + 1)
  <2>1. PICK i \in 1 .. Len(response) : arrived = LineStart(i) /\ c = LineStart(i + 1)
    BY <1>5
  <2>2. i \in 1 .. Len(response) + 1
    BY <1>3
  <2>3. LineStart(i) < ResponseEnd
    BY <2>2, Order
  <2>4. QED
    BY <1>1, <1>2, <2>1, <2>3
<1>6. QED
  BY <1>1, <1>3, <1>4, <1>5

LEMMA DeliverKeeps ==
  ASSUME KindNetwork, WsInv, Deliver
  PROVE  WsInv'
<1>1. /\ UNCHANGED <<response, pushes, stream, hungUp, taken, bufVars, call, want, wsVars, result>>
      /\ UNCHANGED <<phase, lines, hash, frames>>
      /\ ~hungUp /\ arrived < arrived' /\ arrived' \in 1 .. Len(stream)
  BY DEF Deliver, Arrive, clientVars
<1>2. StreamTypes /\ PhaseTypes /\ BufferTypes /\ LinesMatch
  BY DEF WsInv
<1>3. /\ Len(response) \in Nat /\ Len(stream) = FrameStart(Len(pushes) + 1)
      /\ Len(stream) \in Nat /\ arrived \in Nat /\ taken \in Nat /\ taken <= arrived
  <2>1. Len(pushes) + 1 \in 1 .. Len(pushes) + 1
    BY <1>2, ResponseIs
  <2>2. QED
    BY <1>2, <2>1, ResponseIs, StreamAt, Starts DEF StreamTypes
<1>4. arrived' \in Nat /\ arrived <= arrived' /\ arrived' <= FrameStart(Len(pushes) + 1)
  BY <1>1, <1>3
<1>5. StreamTypes'
  BY <1>1, <1>2, <1>3, <1>4, Fixed DEF StreamTypes
<1>6. BufferTypes' /\ PhaseTypes'
  BY <1>1, <1>2 DEF BufferTypes, PhaseTypes, bufVars, wsVars
<1>7. LinesMatch'
  BY <1>1, <1>2, <1>4, LinesStay
<1>8. ASSUME NEW q \in 0 .. Len(response), InKernel(q) \/ InBuffer(q), phase # "open"
      PROVE  InKernel(q)'
  <2>1. /\ arrived = taken /\ arrived < ResponseEnd
        /\ \/ arrived' = ResponseEnd
           \/ \E i \in 1 .. Len(response) : arrived = LineStart(i) /\ arrived' = LineStart(i + 1)
    BY <1>2, <1>8, Delivered
  <2>2. InKernel(q)
    BY <1>3, <1>8, <2>1 DEF InBuffer
  <2>3. ASSUME NEW i \in 1 .. Len(response), arrived = LineStart(i), arrived' = LineStart(i + 1)
        PROVE  q < Len(response) /\ arrived' = LineStart(q + 2)
    <3>1. LineStart(i) = LineStart(q + 1)
      BY <2>1, <2>2, <2>3 DEF InKernel
    <3>2. i \in 1 .. Len(response) + 1 /\ q + 1 \in 1 .. Len(response) + 1
      BY <1>3
    <3>3. (i < q + 1 => LineStart(i) < LineStart(q + 1)) /\ (q + 1 < i => LineStart(q + 1) < LineStart(i))
      BY <1>2, <3>2, Order
    <3>4. LineStart(i) \in Nat
      BY <1>2, <3>2, Starts
    <3>5. i = q + 1
      BY <3>1, <3>2, <3>3, <3>4
    <3>6. QED
      BY <1>3, <2>3, <3>5
  <2>4. QED
    BY <1>1, <2>1, <2>2, <2>3, Fixed DEF InKernel, bufVars
<1>9. ASSUME phase \in {"status", "headers"} PROVE ReadingLines'
  <2>1. ReadingLines /\ ~GivenUp
    BY <1>1, <1>9 DEF WsInv, GivenUp
  <2>2. Len(lines) < Len(response) /\ (InKernel(LinesTaken) \/ InBuffer(LinesTaken))
    BY <2>1 DEF ReadingLines
  <2>3. LinesTaken \in 0 .. Len(response) /\ LinesTaken' = LinesTaken
    BY <1>1, <1>2, <1>3, <2>2, LinesAre DEF LinesTaken
  <2>4. InKernel(LinesTaken)'
    BY <1>8, <1>9, <2>2, <2>3
  <2>5. result # None => LineRight(Len(lines) + 1, result)'
    <3>1. Len(lines) + 1 \in Nat \ {0}
      BY <1>2, LinesAre
    <3>2. QED
      BY <1>1, <1>2, <1>4, <2>1, <3>1, RightStays DEF ReadingLines
  <2>6. QED
    BY <1>1, <2>2, <2>4, <2>5, Fixed DEF ReadingLines
<1>10. ASSUME phase = "challenge" PROVE ReadingChallenge'
  <2>1. ReadingChallenge /\ ~GivenUp
    BY <1>1, <1>10 DEF WsInv, GivenUp
  <2>2. CASE result = None
    <3>1. InKernel(Len(response))'
      <4>1. Len(response) \in 0 .. Len(response) /\ Len(response)' = Len(response)
        BY <1>1, <1>3
      <4>2. QED
        BY <1>8, <1>10, <2>1, <2>2, <4>1 DEF ReadingChallenge
    <3>2. result' = None /\ (call' = "readBytes" => want' = ChallengeLen)
      BY <1>1, <2>1, <2>2 DEF ReadingChallenge
    <3>3. QED
      BY <3>1, <3>2 DEF ReadingChallenge
  <2>3. CASE result # None
    <3>1. arrived < ResponseEnd
      BY <1>2, <1>10, Delivered
    <3>2. arrived \in Nat /\ ResponseEnd \in Nat
      BY <1>2, <1>3, Starts
    <3>3. QED
      BY <1>1, <2>1, <2>3, <3>1, <3>2 DEF ReadingChallenge, ChallengeRight
  <2>4. QED
    BY <2>2, <2>3
<1>11. ASSUME phase = "open" PROVE ReadingFrames'
  <2>1. ReadingFrames /\ ~Over(Len(frames))
    BY <1>1, <1>11 DEF WsInv, Over
  <2>2. ChallengeRight(hash)'
    BY <1>1, <1>2, <1>4, <2>1, RightStays DEF ReadingFrames
  <2>3. AtFrame(Len(frames))'
    BY <1>1, <2>1, Fixed DEF ReadingFrames, AtFrame, bufVars, wsVars
  <2>4. ResponseEnd' <= arrived'
    BY <1>1, <1>2, <1>3, <1>4, <2>1, Fixed, Starts DEF ReadingFrames
  <2>5. QED
    BY <1>1, <2>2, <2>3, <2>4 DEF ReadingFrames
<1>12. QED
  BY <1>1, <1>5, <1>6, <1>7, <1>9, <1>10, <1>11 DEF WsInv

LEMMA HangUpKeeps ==
  ASSUME WsInv, HangsUp
  PROVE  WsInv'
<1>1. /\ UNCHANGED <<response, pushes, stream, arrived, taken, bufVars, call, want, wsVars, result>>
      /\ UNCHANGED <<phase, lines, hash, frames>>
      /\ ~hungUp /\ hungUp'
  BY DEF HangsUp, HangUp, clientVars
<1>2. StreamTypes /\ PhaseTypes /\ BufferTypes /\ LinesMatch
  BY DEF WsInv
<1>3. arrived' \in Nat /\ arrived <= arrived'
  BY <1>1, <1>2 DEF StreamTypes
<1>4. StreamTypes' /\ BufferTypes' /\ PhaseTypes'
  BY <1>1, <1>2, Fixed DEF StreamTypes, BufferTypes, PhaseTypes, HangsUp, HangUp, bufVars, wsVars
<1>5. LinesMatch'
  BY <1>1, <1>2, <1>3, LinesStay
<1>6. \A q : (InKernel(q) => InKernel(q)') /\ (InBuffer(q) => InBuffer(q)')
  BY <1>1, Fixed DEF InKernel, InBuffer, bufVars
<1>7. ASSUME phase \in {"status", "headers"} PROVE ReadingLines'
  <2>1. ReadingLines /\ ~GivenUp
    BY <1>1, <1>7 DEF WsInv, GivenUp
  <2>2. result # None => LineRight(Len(lines) + 1, result)'
    <3>1. Len(lines) + 1 \in Nat \ {0}
      BY <1>2, LinesAre
    <3>2. QED
      BY <1>1, <1>2, <1>3, <2>1, <3>1, RightStays DEF ReadingLines
  <2>3. LinesTaken' = LinesTaken
    BY <1>1 DEF LinesTaken
  <2>4. QED
    BY <1>1, <1>6, <2>1, <2>2, <2>3, Fixed DEF ReadingLines
<1>8. ASSUME phase = "challenge" PROVE ReadingChallenge'
  <2>1. ReadingChallenge /\ ~GivenUp
    BY <1>1, <1>8 DEF WsInv, GivenUp
  <2>2. \A h : ChallengeRight(h) => ChallengeRight(h)'
    BY <1>1, <1>2, <1>3, RightStays
  <2>3. QED
    BY <1>1, <1>6, <2>1, <2>2, Fixed DEF ReadingChallenge
<1>9. ASSUME phase = "open" PROVE ReadingFrames'
  <2>1. ReadingFrames /\ ~Over(Len(frames))
    BY <1>1, <1>9 DEF WsInv, Over
  <2>2. ChallengeRight(hash)'
    BY <1>1, <1>2, <1>3, <2>1, RightStays DEF ReadingFrames
  <2>3. AtFrame(Len(frames))'
    BY <1>1, <2>1, Fixed DEF ReadingFrames, AtFrame, bufVars, wsVars
  <2>4. QED
    BY <1>1, <2>1, <2>2, <2>3, Fixed DEF ReadingFrames
<1>10. QED
  BY <1>1, <1>4, <1>5, <1>7, <1>8, <1>9 DEF WsInv

-----------------------------------------------------------------------------
(* The lines.                                                              *)

LEMMA Fits == ASSUME KindNetwork, StreamTypes PROVE ResponseEnd <= BufferSize
<1>1. SumOf(response, Len(response)) + Len(response) + ChallengeLen <= BufferSize
  BY DEF KindNetwork, StreamTypes
<1>2. response \in Seq(Nat) /\ Len(response) \in Nat
  BY ResponseIs
<1>3. SumOf(response, Len(response)) \in Nat
  BY <1>2, SumIs
<1>4. (Len(response) + 1) - 1 = Len(response)
  BY <1>2
<1>5. ResponseEnd = SumOf(response, Len(response)) + (Len(response) + 1) - 1 + ChallengeLen
  BY <1>4 DEF ResponseEnd, ChallengeStart, LineStart
<1>6. ChallengeLen \in Nat /\ BufferSize \in Nat
  BY WsAssumption, CapIs
<1>7. QED
  BY <1>1, <1>2, <1>3, <1>5, <1>6

\* The line behind the first q, and its bytes in the stream
LEMMA NextLine ==
  ASSUME StreamTypes, NEW q \in Nat, q < Len(response)
  PROVE  /\ LineStart(q + 1) \in Nat /\ response[q + 1] \in Nat
         /\ LineStart(q + 2) = LineStart(q + 1) + response[q + 1] + 1
         /\ LineStart(q + 2) < ResponseEnd /\ ResponseEnd \in Nat
         /\ Line(q + 1) = Slice(LineStart(q + 1), response[q + 1])
         /\ \A c \in 0 .. response[q + 1] - 1 :
               stream[LineStart(q + 1) + c + 1] = Data(LineStart(q + 1) + (c + 1))
         /\ stream[LineStart(q + 1) + response[q + 1] + 1] = NL
<1>1. /\ q + 1 \in 1 .. Len(response) /\ q + 1 \in 1 .. Len(response) + 1
      /\ q + 2 \in 1 .. Len(response) + 1 /\ (q + 1) + 1 = q + 2
  BY ResponseIs
<1>2. /\ LineStart(q + 1) \in Nat /\ LineStart(q + 2) = LineStart(q + 1) + response[q + 1] + 1
      /\ LineStart(q + 2) < ResponseEnd /\ ResponseEnd \in Nat
  BY <1>1, Starts, Order
<1>3. response[q + 1] \in Nat
  BY <1>1, ResponseIs
<1>4. stream[LineStart(q + 1) + response[q + 1] + 1] = NL
  BY <1>1, <1>2, StreamAt
<1>5. ASSUME NEW c \in 0 .. response[q + 1] - 1
      PROVE  stream[LineStart(q + 1) + c + 1] = Data(LineStart(q + 1) + (c + 1))
  <2> DEFINE k == LineStart(q + 1)
             e == response[q + 1]
  <2>1. k \in Nat /\ e \in Nat /\ c \in 0 .. e - 1
    BY <1>2, <1>3
  <2> HIDE DEF k, e
  <2>2. c + 1 \in 1 .. e /\ k + c + 1 = k + (c + 1)
    BY <2>1
  <2> USE DEF k, e
  <2>3. c + 1 \in 1 .. response[q + 1] /\ LineStart(q + 1) + c + 1 = LineStart(q + 1) + (c + 1)
    BY <2>2
  <2>4. stream[LineStart(q + 1) + (c + 1)] = Data(LineStart(q + 1) + (c + 1))
    BY <1>1, <2>3, StreamAt
  <2>5. QED
    BY <2>3, <2>4
<1>6. QED
  BY <1>2, <1>3, <1>4, <1>5 DEF Line

\* What one line more is for the script
LEMMA LineIsRight ==
  ASSUME StreamTypes, NEW q \in Nat, q < Len(response), LineStart(q + 2) <= arrived
  PROVE  LineRight(q + 1, Line(q + 1)) /\ Line(q + 1) # None /\ Line(q + 1) \in Seq(Bytes)
<1>1. q + 1 <= Len(response) /\ (q + 1) + 1 = q + 2
  BY ResponseIs
<1>2. Line(q + 1) # None /\ Line(q + 1) \in Seq(Bytes)
  <2> DEFINE k == LineStart(q + 1)
             e == response[q + 1]
  <2>1. k \in Nat /\ e \in Nat /\ Line(q + 1) = Slice(k, e)
    BY NextLine
  <2> HIDE DEF k, e
  <2>2. QED
    BY <2>1, SliceFacts
<1>3. QED
  BY <1>1, <1>2 DEF LineRight

\* While lines are read, from the parts of the invariant that may change
LEMMA ReadingKeeps ==
  ASSUME WsInv, phase \in {"status", "headers"},
         UNCHANGED <<response, pushes, stream, hungUp, arrived, buffer_size, wsVars>>,
         UNCHANGED clientVars,
         taken' \in Nat, taken' <= arrived,
         read_buffer' \in [Cells -> Bytes], buffer_pos' \in Int,
         call' \in {"none", "read"}, result' \in Seq(Bytes),
         result' # None => call' = "none", ReadingLines'
  PROVE  WsInv'
<1>1. StreamTypes /\ BufferTypes /\ PhaseTypes /\ LinesMatch
  BY DEF WsInv
<1>2. StreamTypes'
  BY <1>1, Fixed DEF StreamTypes
<1>3. BufferTypes'
  BY <1>1 DEF BufferTypes, wsVars
<1>4. PhaseTypes'
  BY <1>1 DEF PhaseTypes, clientVars
<1>5. LinesMatch'
  BY <1>1, LinesStay DEF clientVars, StreamTypes
<1>6. phase' = phase
  BY DEF clientVars
<1>7. QED
  BY <1>2, <1>3, <1>4, <1>5, <1>6 DEF WsInv

LEMMA ReadLineKeeps ==
  ASSUME KindNetwork, WsInv, ReadLine
  PROVE  WsInv'
<1>1. /\ StreamTypes /\ BufferTypes /\ PhaseTypes /\ ReadingLines
      /\ phase \in {"status", "headers"} /\ result = None /\ call = "none"
      /\ UNCHANGED <<response, pushes, stream, hungUp, arrived, taken, buffer_size, want, wsVars>>
      /\ UNCHANGED clientVars
  BY DEF WsInv, ReadLine, CallRead, netVars, clientVars
<1>q. PICK q \in Nat : q = Len(lines)
  BY <1>1, LinesAre
<1>2. /\ Len(lines) = q /\ Len(lines)' = q /\ Len(response) \in Nat /\ LinesTaken = q /\ lines' = lines
      /\ taken \in Nat /\ arrived \in Nat /\ taken <= arrived /\ buffer_pos \in Int
      /\ read_buffer \in [Cells -> Bytes]
  BY <1>1, <1>q, ResponseIs DEF LinesTaken, StreamTypes, BufferTypes, clientVars
<1>3. CASE buffer_pos > 0 /\ BufferedEnds # {}
  <2>1. BufferedLine
    BY <1>3 DEF ReadLine, CallRead
  <2>2. q < Len(response) /\ InBuffer(q)
    BY <1>1, <1>2, <1>3 DEF ReadingLines, InKernel, GivenUp
  <2> DEFINE k == LineStart(q + 1)
             e == response[q + 1]
  <2>3. /\ k \in Nat /\ e \in Nat /\ LineStart(q + 2) = k + e + 1 /\ k + e + 1 < ResponseEnd
        /\ ResponseEnd \in Nat /\ Line(q + 1) = Slice(k, e)
        /\ \A c \in 0 .. e - 1 : stream[k + c + 1] = Data(k + (c + 1))
        /\ stream[k + e + 1] = NL
    BY <1>1, <1>2, <2>2, NextLine
  <2>4. /\ buffer_pos \in ResponseEnd - k .. BufferSize
        /\ taken = ResponseEnd /\ arrived = ResponseEnd
        /\ \A c \in 0 .. ResponseEnd - k - 1 : read_buffer[c] = stream[k + c + 1]
    BY <2>2 DEF InBuffer
  <2> HIDE DEF k, e
  <2>5. Cap \in Nat /\ BufferSize \in Nat /\ BufferSize <= Cap
    BY CapIs
  <2>6. e < buffer_pos /\ buffer_pos <= Cap /\ e \in Cells
    BY <2>3, <2>4, <2>5 DEF Cells
  <2>7. read_buffer[e] = NL /\ \A c \in 0 .. e - 1 : read_buffer[c] = Data(k + (c + 1))
    <3>1. e \in 0 .. ResponseEnd - k - 1 /\ \A c \in 0 .. e - 1 : c \in 0 .. ResponseEnd - k - 1
      BY <2>3
    <3>2. QED
      BY <2>3, <2>4, <3>1
  <2>8. Min(BufferedEnds) = e
    <3>1. BufferedEnds \subseteq Nat /\ e \in BufferedEnds
      BY <1>2, <2>3, <2>6, <2>7 DEF BufferedEnds
    <3>2. ASSUME NEW c \in BufferedEnds PROVE e <= c
      <4>1. c \in Nat /\ read_buffer[c] = NL
        BY <3>1 DEF BufferedEnds
      <4>2. c < e => read_buffer[c] = Data(k + (c + 1)) /\ k + (c + 1) \in Nat
        BY <2>3, <2>7, <4>1
      <4>3. QED
        BY <2>3, <4>1, <4>2, ByteFacts
    <3>3. QED
      BY <3>1, <3>2, MinIs
  <2> DEFINE line == [read_buffer EXCEPT ![e] = NUL]
             rest == buffer_pos - e
  <2>9. Returns(CString(line)) /\ read_buffer' = Moved(line, e + 1, rest) /\ buffer_pos' = rest
    BY <1>2, <2>1, <2>3, <2>6, <2>8 DEF BufferedLine
  <2>10. line \in [Cells -> Bytes] /\ line[e] = NUL /\ \A c \in Cells : c # e => line[c] = read_buffer[c]
    BY <1>2, <2>6, ByteFacts
  <2>11. \A c \in 0 .. e - 1 : c \in Cells /\ c # e
    BY <2>3, <2>5, <2>6 DEF Cells
  <2> HIDE DEF line
  <2>12. CString(line) = Line(q + 1)
    <3>1. \A c \in 0 .. e - 1 : line[c] = Data(k + (c + 1))
      BY <2>7, <2>10, <2>11
    <3>2. e <= Cap + 1
      <4>1. e \in Nat /\ buffer_pos \in Int /\ Cap \in Nat
        BY <1>2, <2>3, <2>5
      <4>2. QED
        BY <2>6, <4>1
    <3>3. QED
      BY <2>3, <2>10, <3>1, <3>2, StringIs
  <2>13. rest \in Nat /\ rest <= BufferSize /\ ResponseEnd - (k + e + 1) <= rest
    BY <1>2, <2>3, <2>4, <2>5, <2>6
  <2>14. \A c \in Cells : c < rest => c + (e + 1) \in Cells /\ c + (e + 1) # e
    BY <1>2, <2>3, <2>5, <2>6 DEF Cells
  <2> HIDE DEF rest
  <2>15. read_buffer' = [c \in Cells |-> IF c < rest THEN line[c + (e + 1)] ELSE line[c]]
    BY <2>9 DEF Moved
  <2>16. read_buffer' \in [Cells -> Bytes]
    BY <2>10, <2>14, <2>15
  <2>17. ASSUME NEW c \in 0 .. ResponseEnd - LineStart(q + 2) - 1
         PROVE  read_buffer'[c] = stream[LineStart(q + 2) + c + 1]
    <3>1. c \in Cells /\ c < rest
      BY <2>3, <2>5, <2>13 DEF Cells
    <3>2. read_buffer'[c] = read_buffer[c + (e + 1)]
      BY <2>10, <2>14, <2>15, <3>1
    <3>3. c + (e + 1) \in 0 .. ResponseEnd - k - 1
          /\ k + (c + (e + 1)) + 1 = LineStart(q + 2) + c + 1
      BY <2>3
    <3>4. QED
      BY <2>4, <3>2, <3>3
  <2>18. result' = Line(q + 1) /\ call' = "none" /\ result' # None
         /\ LineRight(q + 1, Line(q + 1)) /\ Line(q + 1) \in Seq(Bytes)
    <3>1. LineStart(q + 2) <= arrived
      BY <2>3, <2>4
    <3>2. q \in Nat /\ q < Len(response)
      BY <1>2, <2>2
    <3>3. LineRight(q + 1, Line(q + 1)) /\ Line(q + 1) # None /\ Line(q + 1) \in Seq(Bytes)
      BY <1>1, <3>1, <3>2, LineIsRight
    <3>4. QED
      BY <2>9, <2>12, <3>3 DEF Returns
  <2>19. LineRight(Len(lines) + 1, result)'
    <3>1. Len(lines)' = q /\ arrived' = arrived /\ hungUp' = hungUp /\ Len(response)' = Len(response)
          /\ LineStart(q + 2)' = LineStart(q + 2) /\ Line(q + 1)' = Line(q + 1)
      BY <1>1, <1>2, Fixed
    <3>2. (q + 1) + 1 = q + 2
      BY <1>2
    <3>3. QED
      BY <2>18, <3>1, <3>2 DEF LineRight
  <2>20. LinesTaken' = q + 1
    BY <1>2, <2>18 DEF LinesTaken
  <2>21. InBuffer(q + 1)'
    <3>1. (q + 1) + 1 = q + 2 /\ LineStart(q + 2)' = LineStart(q + 2) /\ ResponseEnd' = ResponseEnd
      BY <1>1, <1>2, Fixed
    <3>2. buffer_pos' \in ResponseEnd - LineStart(q + 2) .. BufferSize
      BY <2>3, <2>5, <2>9, <2>13
    <3>3. QED
      BY <1>1, <2>4, <2>17, <2>18, <3>1, <3>2 DEF InBuffer
  <2>22. ReadingLines'
    <3>1. Len(lines)' = q /\ Len(response)' = Len(response)
      BY <1>1, <1>2
    <3>2. Len(lines)' < Len(response)' /\ InBuffer(LinesTaken)'
      BY <2>2, <2>20, <2>21, <3>1
    <3>3. QED
      BY <2>19, <3>2 DEF ReadingLines
  <2>23. buffer_pos' \in Int /\ taken' \in Nat /\ taken' <= arrived
    BY <1>1, <1>2, <2>9, <2>13
  <2>24. QED
    BY <1>1, <2>16, <2>18, <2>22, <2>23, ReadingKeeps
<1>4. CASE ~(buffer_pos > 0 /\ BufferedEnds # {})
  <2>1. call' = "read" /\ UNCHANGED <<result, read_buffer, buffer_pos>>
    BY <1>4 DEF ReadLine, CallRead, Waits
  <2>2. ASSUME InBuffer(q), q < Len(response) PROVE FALSE
    <3> DEFINE k == LineStart(q + 1)
               e == response[q + 1]
    <3>1. /\ k \in Nat /\ e \in Nat /\ k + e + 1 < ResponseEnd /\ ResponseEnd \in Nat
          /\ stream[k + e + 1] = NL
      BY <1>1, <1>2, <2>2, NextLine
    <3>2. /\ buffer_pos \in ResponseEnd - k .. BufferSize
          /\ \A c \in 0 .. ResponseEnd - k - 1 : read_buffer[c] = stream[k + c + 1]
      BY <2>2 DEF InBuffer
    <3> HIDE DEF k, e
    <3>3. e \in 0 .. buffer_pos + 1 /\ e \in 0 .. ResponseEnd - k - 1 /\ buffer_pos > 0
      BY <1>2, <3>1, <3>2, CapIs
    <3>4. read_buffer[e] = NL
      BY <3>1, <3>2, <3>3
    <3>5. e \in BufferedEnds
      BY <3>3, <3>4 DEF BufferedEnds
    <3>6. QED
      BY <1>4, <3>3, <3>5
  <2>3. q < Len(response) => ~InBuffer(q)
    BY <2>2
  <2>4. ReadingLines'
    <3>1. LinesTaken' = LinesTaken /\ Len(response)' = Len(response) /\ lines' = lines
      BY <1>1, <1>2, <2>1 DEF LinesTaken
    <3>2. (q < Len(response) /\ InKernel(q)) \/ (GivenUp /\ (q <= Len(response) => arrived < LineStart(q + 1)))
      BY <1>1, <1>2, <2>3 DEF ReadingLines
    <3>3. InKernel(q) => InKernel(q)'
      BY <1>1, <2>1, Fixed DEF InKernel
    <3>4. GivenUp => GivenUp'
      BY <1>1, <2>1, Fixed DEF GivenUp
    <3>5. LineStart(q + 1)' = LineStart(q + 1)
      BY <1>1, <3>1, Fixed
    <3>6. Len(lines)' = q /\ LinesTaken' = q
      BY <1>2, <3>1
    <3>7. QED
      BY <1>1, <1>2, <2>1, <3>1, <3>2, <3>3, <3>4, <3>5, <3>6 DEF ReadingLines
  <2>5. QED
    BY <1>1, <1>2, <2>1, <2>4, ReadingKeeps, ResultFacts
<1>5. QED
  BY <1>3, <1>4


\* What is written to the buffer is the stream.
LEMMA WrittenIs ==
  ASSUME StreamTypes, read_buffer \in [Cells -> Bytes], NEW k \in Int, NEW n \in Nat,
         taken + n <= arrived
  PROVE  /\ Written(read_buffer, k, n) \in [Cells -> Bytes]
         /\ \A c \in Cells : c \in k .. k + n - 1 =>
               Written(read_buffer, k, n)[c] = stream[taken + 1 + c - k]
<1>1. taken \in Nat /\ arrived \in Nat /\ FrameStart(Len(pushes) + 1) \in Nat
      /\ arrived <= FrameStart(Len(pushes) + 1)
  <2>1. Len(pushes) + 1 \in 1 .. Len(pushes) + 1
    BY ResponseIs
  <2>2. QED
    BY <2>1, Starts DEF StreamTypes
<1>2. \A c \in Cells : c \in k .. k + n - 1 =>
          taken + 1 + c - k \in 1 .. FrameStart(Len(pushes) + 1)
  BY <1>1
<1>3. \A c \in Cells : c \in k .. k + n - 1 => stream[taken + 1 + c - k] \in Bytes
  BY <1>2, StreamAt
<1>4. QED
  BY <1>3 DEF Written

\* What read(2) hands out
LEMMA ReceivedIs ==
  ASSUME StreamTypes, NEW room \in Nat
  PROVE  /\ Received(room) = IF room <= arrived - taken THEN room ELSE arrived - taken
         /\ Received(room) \in Nat /\ taken + Received(room) <= arrived
<1>1. taken \in Nat /\ arrived \in Nat /\ taken <= arrived
  BY DEF StreamTypes
<1>2. Received(room) = IF room <= arrived - taken THEN room ELSE arrived - taken
  BY <1>1, MinOfTwo DEF Received
<1>3. QED
  BY <1>1, <1>2

LEMMA ReadSegmentKeeps ==
  ASSUME KindNetwork, WsInv, ReadSegment, UNCHANGED clientVars
  PROVE  WsInv'
<1>1. /\ StreamTypes /\ BufferTypes /\ PhaseTypes
      /\ call = "read" /\ arrived > taken
      /\ UNCHANGED <<response, pushes, stream, hungUp, arrived, want, wsVars>>
  BY DEF WsInv, ReadSegment, netVars, clientVars
<1>2. phase \in {"status", "headers"} /\ result = None /\ ReadingLines /\ buffer_size = BufferSize
  BY <1>1 DEF PhaseTypes, WsInv
<1>q. PICK q \in Nat : q = Len(lines)
  BY <1>1, LinesAre
<1>3. /\ Len(lines)' = q /\ LinesTaken = q /\ Len(response) \in Nat
      /\ taken \in Nat /\ arrived \in Nat /\ read_buffer \in [Cells -> Bytes]
  BY <1>1, <1>2, <1>q, ResponseIs DEF LinesTaken, StreamTypes, BufferTypes, clientVars
<1>4. q < Len(response) /\ InKernel(q)
  BY <1>1, <1>2, <1>3, <1>q DEF ReadingLines, InBuffer, GivenUp
<1> DEFINE k == LineStart(q + 1)
           e == response[q + 1]
<1>5. /\ k \in Nat /\ e \in Nat /\ LineStart(q + 2) = k + e + 1 /\ k + e + 1 < ResponseEnd
      /\ ResponseEnd \in Nat /\ Line(q + 1) = Slice(k, e)
      /\ \A c \in 0 .. e - 1 : stream[k + c + 1] = Data(k + (c + 1))
      /\ stream[k + e + 1] = NL
  BY <1>1, <1>4, NextLine
<1>6. buffer_pos = 0 /\ taken = k /\ arrived \in {k + e + 1, ResponseEnd}
  BY <1>1, <1>3, <1>4, <1>5 DEF InKernel
<1>7. ResponseEnd <= BufferSize /\ BufferSize <= Cap /\ Cap \in Nat /\ BufferSize \in Nat
  BY <1>1, Fits, CapIs
<1> DEFINE n == Received(buffer_size - buffer_pos)
           m == Written(read_buffer, buffer_pos, n)
           ends == {c \in buffer_pos .. buffer_pos + n : m[c] = NL}
<1> HIDE DEF k, e
<1>8. n = arrived - k /\ n \in Nat /\ taken + n <= arrived /\ e + 1 <= n /\ n <= Cap
  <2>1. buffer_size - buffer_pos = BufferSize
    BY <1>2, <1>6, <1>7
  <2>2. n = (IF BufferSize <= arrived - taken THEN BufferSize ELSE arrived - taken)
        /\ n \in Nat /\ taken + n <= arrived
    BY <1>1, <1>7, <2>1, ReceivedIs
  <2> HIDE DEF n
  <2>3. QED
    BY <1>3, <1>5, <1>6, <1>7, <2>2
<1>9. /\ taken' = taken + n
      /\ ends # {} => /\ ReceivedLine(m, Min(ends), buffer_pos + n - Min(ends))
                      /\ UNCHANGED buffer_size
  BY DEF ReadSegment
<1> HIDE DEF n
<1>10. m \in [Cells -> Bytes] /\ \A c \in 0 .. n - 1 : m[c] = stream[k + c + 1]
  <2>1. /\ m \in [Cells -> Bytes]
        /\ \A c \in Cells : c \in 0 .. 0 + n - 1 => m[c] = stream[taken + 1 + c - 0]
    BY <1>1, <1>3, <1>6, <1>8, WrittenIs
  <2>2. \A c \in 0 .. n - 1 : c \in Cells /\ c \in 0 .. 0 + n - 1 /\ taken + 1 + c - 0 = k + c + 1
    BY <1>5, <1>6, <1>7, <1>8 DEF Cells
  <2> HIDE DEF m
  <2>3. QED
    BY <2>1, <2>2
<1> HIDE DEF m
<1>11. m[e] = NL /\ \A c \in 0 .. e - 1 : m[c] = Data(k + (c + 1))
  <2>1. e \in 0 .. n - 1 /\ \A c \in 0 .. e - 1 : c \in 0 .. n - 1
    BY <1>5, <1>8
  <2>2. QED
    BY <1>5, <1>10, <2>1
<1>12. Min(ends) = e /\ ends # {}
  <2>1. ends \subseteq Nat /\ e \in ends
    BY <1>5, <1>6, <1>8, <1>11
  <2>2. ASSUME NEW c \in ends PROVE e <= c
    <3>1. c \in Nat /\ m[c] = NL
      BY <2>1
    <3>2. c < e => m[c] = Data(k + (c + 1)) /\ k + (c + 1) \in Nat
      BY <1>5, <1>11, <3>1
    <3>3. QED
      BY <1>5, <3>1, <3>2, ByteFacts
  <2> HIDE DEF ends
  <2>3. QED
    BY <2>1, <2>2, MinIs
<1> HIDE DEF ends
<1>13. ReceivedLine(m, e, n - e) /\ buffer_size' = buffer_size
  <2>1. buffer_pos + n - e = n - e
    BY <1>5, <1>6, <1>8
  <2>2. QED
    BY <1>9, <1>12, <2>1
<1>14. /\ call' = "none" /\ result' = Line(q + 1)
       /\ buffer_pos' = n - e - 1 /\ read_buffer' \in [Cells -> Bytes]
       /\ \A c \in 0 .. n - e - 2 : read_buffer'[c] = m[c + e + 1]
  <2> DEFINE ret == n - e
  <2>1. ret \in Nat /\ ret >= 1 /\ e + ret <= Cap /\ ret - 1 = n - e - 1 /\ ret - 2 = n - e - 2
    BY <1>5, <1>7, <1>8
  <2>2. ReceivedLine(m, e, ret)
    BY <1>13
  <2> HIDE DEF ret
  <2>3. ret \in Nat /\ ret >= 1 /\ e + ret <= Cap
    BY <2>1
  <2>4. k \in Nat /\ e \in Nat
    BY <1>5
  <2>5. m \in [Cells -> Bytes]
    BY <1>10
  <2>6. /\ call' = "none" /\ result' = Slice(k, e)
        /\ buffer_pos' = ret - 1 /\ read_buffer' \in [Cells -> Bytes]
        /\ \A c \in 0 .. ret - 2 : read_buffer'[c] = m[c + e + 1]
    <3>1. HoldsLine(m, k, e)
      BY <1>11 DEF HoldsLine
    <3>2. QED
      BY <2>2, <2>3, <2>4, <2>5, <3>1, LineReceived
  <2>7. QED
    BY <1>5, <2>1, <2>6
<1>15. LineRight(q + 1, Line(q + 1)) /\ Line(q + 1) # None /\ Line(q + 1) \in Seq(Bytes)
  <2>1. LineStart(q + 2) <= arrived
    BY <1>5, <1>6
  <2>2. QED
    BY <1>1, <1>4, <2>1, LineIsRight
<1>16. taken' = arrived
  BY <1>3, <1>6, <1>8, <1>9
<1>17. /\ (q + 1) + 1 = q + 2 /\ LineStart(q + 2)' = LineStart(q + 2) /\ ResponseEnd' = ResponseEnd
       /\ Len(response)' = Len(response) /\ Line(q + 1)' = Line(q + 1)
       /\ arrived' = arrived /\ hungUp' = hungUp /\ stream' = stream
  BY <1>1, Fixed
<1>18. InKernel(q + 1)' \/ InBuffer(q + 1)'
  <2>1. CASE arrived = k + e + 1
    <3>1. buffer_pos' = 0 /\ taken' = LineStart(q + 2)
      BY <1>5, <1>8, <1>14, <1>16, <2>1
    <3>2. QED
      BY <1>16, <1>17, <3>1 DEF InKernel
  <2>2. CASE arrived = ResponseEnd
    <3>1. buffer_pos' = ResponseEnd - LineStart(q + 2)
      BY <1>5, <1>8, <1>14, <2>2
    <3>2. buffer_pos' \in ResponseEnd - LineStart(q + 2) .. BufferSize
      BY <1>5, <1>7, <3>1
    <3>3. ASSUME NEW c \in 0 .. ResponseEnd - LineStart(q + 2) - 1
          PROVE  read_buffer'[c] = stream[LineStart(q + 2) + c + 1]
      <4>1. c \in 0 .. n - e - 2 /\ c + e + 1 \in 0 .. n - 1
            /\ k + (c + e + 1) + 1 = LineStart(q + 2) + c + 1
        BY <1>5, <1>8, <2>2
      <4>2. QED
        BY <1>10, <1>14, <4>1
    <3>4. QED
      BY <1>14, <1>16, <1>17, <2>2, <3>2, <3>3 DEF InBuffer
  <2>3. QED
    BY <1>6, <2>1, <2>2
<1>19. ReadingLines'
  <2>1. LinesTaken' = q + 1
    BY <1>3, <1>14, <1>15 DEF LinesTaken
  <2>2. LineRight(Len(lines) + 1, result)'
    BY <1>3, <1>14, <1>15, <1>17 DEF LineRight
  <2>3. Len(lines)' < Len(response)'
    BY <1>3, <1>4, <1>17
  <2>4. QED
    BY <1>18, <2>1, <2>2, <2>3 DEF ReadingLines
<1>20. buffer_pos' \in Int /\ taken' \in Nat /\ taken' <= arrived
  BY <1>3, <1>5, <1>8, <1>14, <1>16
<1>21. QED
  BY <1>1, <1>2, <1>13, <1>14, <1>15, <1>19, <1>20, ReadingKeeps


\* Where the server hung up before a line
LEMMA NoLine ==
  ASSUME StreamTypes, hungUp, NEW i \in Nat, i <= Len(response) => arrived < LineStart(i + 1)
  PROVE  LineRight(i, False) /\ LineRight(i, <<>>)
<1>1. i <= Len(response) => LineStart(i + 1) \in Nat /\ arrived \in Nat
  <2>1. i <= Len(response) => i + 1 \in 1 .. Len(response) + 1
    BY ResponseIs
  <2>2. QED
    BY <2>1, Starts DEF StreamTypes
<1>2. QED
  BY <1>1 DEF LineRight

LEMMA ReadEndsKeeps ==
  ASSUME KindNetwork, WsInv, ReadEnds, UNCHANGED clientVars
  PROVE  WsInv'
<1>1. /\ StreamTypes /\ BufferTypes /\ PhaseTypes
      /\ call = "read" /\ arrived = taken /\ hungUp
      /\ UNCHANGED <<response, pushes, stream, hungUp, arrived, taken, buffer_size, want, wsVars>>
  BY DEF WsInv, ReadEnds, AtEnd, netVars, clientVars
<1>2. phase \in {"status", "headers"} /\ result = None /\ ReadingLines
  BY <1>1 DEF PhaseTypes, WsInv
<1>q. PICK q \in Nat : q = Len(lines)
  BY <1>1, LinesAre
<1>3. /\ Len(lines)' = q /\ LinesTaken = q /\ Len(response) \in Nat
      /\ taken \in Nat /\ arrived \in Nat /\ read_buffer \in [Cells -> Bytes]
  BY <1>1, <1>2, <1>q, ResponseIs DEF LinesTaken, StreamTypes, BufferTypes, clientVars
<1>4. /\ buffer_pos = 0 /\ arrived < ResponseEnd
      /\ q + 1 <= Len(response) => arrived < LineStart(q + 2)
  <2>1. CASE q < Len(response) /\ InKernel(q)
    <3>1. LineStart(q + 1) \in Nat /\ response[q + 1] \in Nat /\ ResponseEnd \in Nat
          /\ LineStart(q + 2) = LineStart(q + 1) + response[q + 1] + 1 /\ LineStart(q + 2) < ResponseEnd
      BY <1>1, <2>1, NextLine
    <3>2. arrived = LineStart(q + 1) /\ buffer_pos = 0
      BY <1>1, <2>1 DEF InKernel
    <3>3. QED
      BY <3>1, <3>2
  <2>2. CASE GivenUp /\ (q <= Len(response) => arrived < LineStart(q + 1))
    <3>1. buffer_pos = 0 /\ arrived < ResponseEnd
      BY <2>2 DEF GivenUp, ReadEnds
    <3>2. ASSUME q + 1 <= Len(response) PROVE arrived < LineStart(q + 2)
      <4>1. q + 1 \in 1 .. Len(response) + 1 /\ q + 2 \in 1 .. Len(response) + 1 /\ q + 1 <= q + 2
            /\ q <= Len(response)
        BY <1>3, <3>2
      <4>2. LineStart(q + 1) <= LineStart(q + 2) /\ LineStart(q + 1) \in Nat /\ LineStart(q + 2) \in Nat
        BY <1>1, <4>1, Order, Starts
      <4>3. QED
        BY <1>3, <2>2, <4>1, <4>2
    <3>3. QED
      BY <3>1, <3>2
  <2>3. QED
    BY <1>1, <1>2, <1>3, <1>q, <2>1, <2>2 DEF ReadingLines, InBuffer
<1>5. /\ call' = "none" /\ result' \in {False, <<>>} /\ buffer_pos' \in {-1, 0}
      /\ read_buffer' \in [Cells -> Bytes]
  <2>1. CASE read_buffer[buffer_pos] = NL
    <3>1. ReceivedLine(read_buffer, 0, 0)
      BY <1>4, <2>1 DEF ReadEnds
    <3> DEFINE line == [read_buffer EXCEPT ![0] = NUL]
    <3>2. Returns(CString(line)) /\ read_buffer' = line /\ buffer_pos' = -1
      BY <3>1 DEF ReceivedLine
    <3>3. line \in [Cells -> Bytes] /\ line[0] = NUL
      <4>1. 0 \in Cells
        BY CapIs DEF Cells
      <4>2. QED
        BY <1>3, <4>1, ByteFacts
    <3> HIDE DEF line
    <3>4. \A c \in 0 .. 0 - 1 : line[c] = Data(0 + (c + 1))
      OBVIOUS
    <3>5. 0 <= Cap + 1 /\ 0 \in Nat
      BY CapIs
    <3>6. CString(line) = Slice(0, 0)
      BY <3>3, <3>4, <3>5, StringIs
    <3>7. Slice(0, 0) = <<>>
      BY <3>5, SliceFacts
    <3>8. QED
      BY <3>2, <3>3, <3>6, <3>7 DEF Returns
  <2>2. CASE read_buffer[buffer_pos] # NL
    BY <1>3, <1>4, <2>2 DEF ReadEnds, Returns
  <2>3. QED
    BY <2>1, <2>2
<1>6. result' # None /\ result' \in Seq(Bytes)
  BY <1>5, ResultFacts
<1>7. /\ (q + 1) + 1 = q + 2 /\ LineStart(q + 2)' = LineStart(q + 2) /\ ResponseEnd' = ResponseEnd
      /\ Len(response)' = Len(response)
  BY <1>1, Fixed
<1>8. LinesTaken' = q + 1
  BY <1>3, <1>6 DEF LinesTaken
<1>9. GivenUp'
  BY <1>1, <1>4, <1>5, <1>7 DEF GivenUp
<1>10. LineRight(q + 1, False) /\ LineRight(q + 1, <<>>)
  BY <1>1, <1>4, <1>7, NoLine
<1>11. LineRight(Len(lines) + 1, result)'
  <2>1. LineRight(q + 1, False)' /\ LineRight(q + 1, <<>>)'
    <3>1. q + 1 \in Nat \ {0} /\ arrived' \in Nat /\ arrived <= arrived' /\ arrived' = arrived
      BY <1>1, <1>3
    <3>2. QED
      BY <1>1, <1>10, <3>1, RightStays
  <2>2. QED
    BY <1>3, <1>5, <2>1
<1>12. ReadingLines'
  <2>1. (LinesTaken <= Len(response) => arrived < LineStart(LinesTaken + 1))'
    BY <1>1, <1>4, <1>7, <1>8
  <2>2. QED
    BY <1>9, <1>11, <2>1 DEF ReadingLines
<1>13. buffer_pos' \in Int /\ taken' \in Nat /\ taken' <= arrived
  BY <1>1, <1>3, <1>5
<1>14. QED
  BY <1>1, <1>2, <1>5, <1>6, <1>12, <1>13, ReadingKeeps


-----------------------------------------------------------------------------
(* The script.                                                             *)

\* The script takes a result: nothing of the socket but that changes.
LEMMA TakenKeeps ==
  ASSUME WsInv, Taken, UNCHANGED <<response, pushes>>
  PROVE  /\ call = "none" /\ call' = "none" /\ result # None /\ result' = None
         /\ UNCHANGED <<stream, hungUp, arrived, taken, bufVars, want, wsVars>>
         /\ StreamTypes /\ BufferTypes /\ PhaseTypes /\ StreamTypes' /\ BufferTypes'
         /\ Len(response)' = Len(response) /\ ResponseEnd' = ResponseEnd
         /\ \A q : (InKernel(q) => InKernel(q)') /\ (InBuffer(q) => InBuffer(q)')
         /\ GivenUp => GivenUp'
<1>1. /\ call = "none" /\ call' = "none" /\ result # None /\ result' = None
      /\ UNCHANGED <<stream, hungUp, arrived, taken, bufVars, want, wsVars>>
      /\ StreamTypes /\ BufferTypes /\ PhaseTypes
  BY DEF WsInv, Taken, netVars
<1>2. StreamTypes' /\ BufferTypes'
  BY <1>1, Fixed DEF StreamTypes, BufferTypes, bufVars, wsVars
<1>3. Len(response)' = Len(response) /\ ResponseEnd' = ResponseEnd
  BY <1>1, Fixed
<1>4. \A q : (InKernel(q) => InKernel(q)') /\ (InBuffer(q) => InBuffer(q)')
  BY <1>1, Fixed DEF InKernel, InBuffer, bufVars
<1>5. GivenUp => GivenUp'
  BY <1>1, <1>3 DEF GivenUp, bufVars
<1>6. QED
  BY <1>1, <1>2, <1>3, <1>4, <1>5

\* A result of read() joins the lines.
LEMMA LineTaken ==
  ASSUME WsInv, UNCHANGED <<response, pushes, stream, hungUp, arrived>>,
         LineRight(Len(lines) + 1, result), lines' = Append(lines, result)
  PROVE  LinesMatch' /\ lines' \in Seq(Seq(Bytes)) /\ Len(lines)' = Len(lines) + 1
<1>1. StreamTypes /\ PhaseTypes /\ LinesMatch
  BY DEF WsInv
<1>2. lines \in Seq(Seq(Bytes)) /\ result \in Seq(Bytes)
  BY <1>1 DEF PhaseTypes
<1>3. /\ lines' \in Seq(Seq(Bytes)) /\ Len(lines') = Len(lines) + 1 /\ Len(lines) \in Nat
      /\ \A i \in 1 .. Len(lines) : lines'[i] = lines[i]
      /\ lines'[Len(lines) + 1] = result
      /\ DOMAIN lines' = 1 .. Len(lines) + 1
  BY <1>2
<1>4. \A i \in 1 .. Len(lines) : i \in Nat \ {0} /\ LineRight(i, lines[i])
  BY <1>1, LinesAre
<1>5. \A i \in 1 .. Len(lines) + 1 : i \in Nat \ {0} /\ LineRight(i, lines'[i])
  BY <1>3, <1>4
<1>6. \A i \in Nat \ {0} : \A l : LineRight(i, l) => LineRight(i, l)'
  <2>1. arrived' \in Nat /\ arrived <= arrived'
    BY <1>1 DEF StreamTypes
  <2>2. QED
    BY <1>1, <2>1, RightStays
<1>7. /\ Len(response)' = Len(response) /\ arrived' = arrived /\ hungUp' = hungUp
      /\ \A i : LineStart(i)' = LineStart(i)
      /\ \A i : Line(i)' = Line(i)
  BY Fixed
<1>8. \A i \in DOMAIN lines' :
          IF i <= Len(response)' /\ LineStart(i + 1)' <= arrived' THEN lines'[i] = Line(i)'
          ELSE hungUp' /\ lines'[i] \in {False, <<>>}
  BY <1>3, <1>5, <1>7 DEF LineRight
<1>9. LinesMatch'
  BY <1>8 DEF LinesMatch
<1>10. QED
  BY <1>3, <1>9

LEMMA TakeStatusKeeps ==
  ASSUME KindNetwork, WsInv, TakeStatus
  PROVE  WsInv'
<1>1. /\ Taken /\ phase = "status" /\ lines' = <<result>> /\ phase' = "headers"
      /\ UNCHANGED <<response, pushes, hash, frames>>
  BY DEF TakeStatus
<1>2. /\ call' = "none" /\ result # None /\ result' = None
      /\ UNCHANGED <<stream, hungUp, arrived, taken, bufVars, want, wsVars>>
      /\ StreamTypes /\ BufferTypes /\ PhaseTypes /\ StreamTypes' /\ BufferTypes'
      /\ Len(response)' = Len(response)
      /\ \A q : (InKernel(q) => InKernel(q)') /\ (InBuffer(q) => InBuffer(q)')
      /\ GivenUp => GivenUp'
  BY <1>1, TakenKeeps
<1>3. lines = <<>> /\ frames = <<>> /\ ReadingLines /\ buffer_size = BufferSize
      /\ result \in Seq(Bytes)
  BY <1>1, <1>2 DEF WsInv, PhaseTypes
<1>4. lines' = Append(lines, result) /\ Len(lines) = 0
  BY <1>1, <1>3
<1>5. LinesMatch' /\ lines' \in Seq(Seq(Bytes)) /\ Len(lines)' = 1
  <2>1. LineRight(Len(lines) + 1, result)
    BY <1>2, <1>3 DEF ReadingLines
  <2>2. QED
    BY <1>1, <1>2, <1>4, <2>1, LineTaken
<1>6. PhaseTypes'
  BY <1>1, <1>2, <1>3, <1>5, ResultFacts DEF PhaseTypes, bufVars
<1>7. ReadingLines'
  <2>1. LinesTaken = 1 /\ LinesTaken' = 1
    BY <1>2, <1>4, <1>5 DEF LinesTaken
  <2>2. Len(response) >= 2 /\ Len(response) \in Nat
    BY <1>2, ResponseIs
  <2>3. InKernel(1) \/ InBuffer(1) \/ (GivenUp /\ arrived < LineStart(2))
    BY <1>3, <2>1, <2>2 DEF ReadingLines
  <2>4. InKernel(1)' \/ InBuffer(1)' \/ (GivenUp' /\ (arrived < LineStart(2))')
    BY <1>1, <1>2, <2>3, Fixed
  <2>5. QED
    BY <1>2, <1>5, <2>1, <2>2, <2>4 DEF ReadingLines
<1>8. QED
  BY <1>1, <1>2, <1>5, <1>6, <1>7 DEF WsInv

LEMMA TakeHeaderKeeps ==
  ASSUME KindNetwork, WsInv, TakeHeader
  PROVE  WsInv'
<1>1. /\ Taken /\ phase = "headers" /\ lines' = Append(lines, result)
      /\ result \notin {<<>>, False} => phase' = "headers"
      /\ result \in {<<>>, False} =>
            phase' = "failed" \/ (result = <<>> /\ phase' = "challenge")
      /\ UNCHANGED <<response, pushes, hash, frames>>
  BY DEF TakeHeader
<1>2. /\ call' = "none" /\ result # None /\ result' = None
      /\ UNCHANGED <<stream, hungUp, arrived, taken, bufVars, want, wsVars>>
      /\ StreamTypes /\ BufferTypes /\ PhaseTypes /\ StreamTypes' /\ BufferTypes'
      /\ Len(response)' = Len(response)
      /\ \A q : (InKernel(q) => InKernel(q)') /\ (InBuffer(q) => InBuffer(q)')
      /\ GivenUp => GivenUp'
  BY <1>1, TakenKeeps
<1>3. /\ frames = <<>> /\ ReadingLines /\ buffer_size = BufferSize
      /\ phase' \in {"headers", "challenge", "failed"}
  BY <1>1, <1>2 DEF WsInv, PhaseTypes
<1>q. PICK q \in Nat : q = Len(lines) + 1
  BY <1>2, LinesAre
<1>4. LinesMatch' /\ lines' \in Seq(Seq(Bytes)) /\ Len(lines)' = q /\ LineRight(q, result)
  <2>1. LineRight(Len(lines) + 1, result)
    BY <1>2, <1>3 DEF ReadingLines
  <2>2. QED
    BY <1>1, <1>2, <1>q, <2>1, LineTaken
<1>5. PhaseTypes'
  BY <1>1, <1>2, <1>3, <1>4, ResultFacts DEF PhaseTypes, bufVars
<1>6. LinesTaken = q /\ LinesTaken' = q
  BY <1>2, <1>4, <1>q DEF LinesTaken
<1>7. /\ Len(response) \in Nat /\ Len(lines) \in Nat
      /\ q <= Len(response) =>
            /\ response[q] \in Nat /\ (response[q] = 0 <=> q = Len(response))
            /\ LineStart(q) \in Nat /\ Line(q) = Slice(LineStart(q), response[q])
            /\ LineStart(q + 1) < ResponseEnd /\ LineStart(q + 1) \in Nat
            /\ ResponseEnd \in Nat /\ arrived \in Nat
  <2>1. Len(response) \in Nat /\ Len(lines) \in Nat
    BY <1>2, ResponseIs, LinesAre
  <2>2. q <= Len(response) => q \in 1 .. Len(response) /\ q \in 1 .. Len(response) + 1
                              /\ q + 1 \in 1 .. Len(response) + 1
    BY <1>q, <2>1
  <2>3. q <= Len(response) => Line(q) = Slice(LineStart(q), response[q])
    BY DEF Line
  <2>4. arrived \in Nat
    BY <1>2 DEF StreamTypes
  <2>5. QED
    BY <1>2, <2>1, <2>2, <2>3, <2>4, ResponseIs, Starts, Order
<1>8. ASSUME q <= Len(response) PROVE Line(q) = <<>> <=> q = Len(response)
  <2> DEFINE k == LineStart(q)
             e == response[q]
  <2>1. k \in Nat /\ e \in Nat /\ Line(q) = Slice(k, e) /\ (e = 0 <=> q = Len(response))
    BY <1>7, <1>8
  <2> HIDE DEF k, e
  <2>2. Slice(k, e) = <<>> <=> e = 0
    BY <2>1, SliceFacts
  <2>3. QED
    BY <2>1, <2>2
<1>9. ASSUME phase' = "headers" PROVE ReadingLines'
  <2>1. result \notin {<<>>, False}
    BY <1>1, <1>9
  <2>2. q <= Len(response) /\ result = Line(q)
    BY <1>4, <2>1 DEF LineRight
  <2>3. q < Len(response)
    BY <1>7, <1>8, <2>1, <2>2
  <2>4. InKernel(q) \/ InBuffer(q) \/ (GivenUp /\ arrived < LineStart(q + 1))
    BY <1>3, <1>6, <2>2 DEF ReadingLines
  <2>5. InKernel(q)' \/ InBuffer(q)' \/ (GivenUp' /\ (arrived < LineStart(q + 1))')
    BY <1>1, <1>2, <2>4, Fixed
  <2>6. QED
    BY <1>2, <1>4, <1>6, <2>3, <2>5 DEF ReadingLines
<1>10. ASSUME phase' = "challenge" PROVE ReadingChallenge'
  <2>1. result = <<>>
    BY <1>1, <1>10, ResultFacts
  <2>2. ASSUME q <= Len(response), InKernel(q) \/ InBuffer(q) PROVE q = Len(response)
    <3>1. LineStart(q + 1) <= arrived
      <4>1. InKernel(q) => taken = LineStart(q + 1) /\ taken <= arrived
        BY <1>2 DEF InKernel, StreamTypes
      <4>2. InBuffer(q) => arrived = ResponseEnd
        BY DEF InBuffer
      <4>3. QED
        BY <1>7, <2>2, <4>1, <4>2
    <3>2. Line(q) = <<>>
      BY <1>4, <2>1, <2>2, <3>1 DEF LineRight
    <3>3. QED
      BY <1>8, <2>2, <3>2
  <2>3. Len(lines) < Len(response) => q <= Len(response)
    BY <1>7, <1>q
  <2>4. InKernel(Len(response)) \/ InBuffer(Len(response)) \/ GivenUp
    BY <1>3, <1>6, <2>2, <2>3 DEF ReadingLines
  <2>5. InKernel(Len(response))' \/ InBuffer(Len(response))' \/ GivenUp'
    BY <1>2, <2>4
  <2>6. QED
    BY <1>2, <2>5 DEF ReadingChallenge
<1>11. QED
  BY <1>1, <1>2, <1>3, <1>4, <1>5, <1>9, <1>10 DEF WsInv


-----------------------------------------------------------------------------
(* The challenge.                                                          *)

\* While the challenge is read, from the parts of the invariant that may change
LEMMA ChallengeKeeps ==
  ASSUME WsInv, phase = "challenge",
         UNCHANGED <<response, pushes, stream, hungUp, arrived, buffer_size, wsVars>>,
         UNCHANGED clientVars,
         taken' \in Nat, taken' <= arrived,
         read_buffer' \in [Cells -> Bytes], buffer_pos' \in Int,
         call' \in {"none", "readBytes"}, result' \in Seq(Bytes),
         result' # None => call' = "none", ReadingChallenge'
  PROVE  WsInv'
<1>1. StreamTypes /\ BufferTypes /\ PhaseTypes /\ LinesMatch
  BY DEF WsInv
<1>2. StreamTypes'
  BY <1>1, Fixed DEF StreamTypes
<1>3. BufferTypes'
  BY <1>1 DEF BufferTypes, wsVars
<1>4. PhaseTypes'
  BY <1>1 DEF PhaseTypes, clientVars
<1>5. LinesMatch'
  BY <1>1, LinesStay DEF clientVars, StreamTypes
<1>6. phase' = phase
  BY DEF clientVars
<1>7. QED
  BY <1>2, <1>3, <1>4, <1>5, <1>6 DEF WsInv

\* Where the challenge is in the stream
LEMMA ChallengeIs ==
  ASSUME StreamTypes
  PROVE  /\ ChallengeStart \in Nat /\ ChallengeLen \in Nat \ {0} /\ ResponseEnd \in Nat
         /\ LineStart(Len(response) + 1) = ChallengeStart
         /\ ResponseEnd = ChallengeStart + ChallengeLen
         /\ \A j \in 1 .. ChallengeLen : stream[ChallengeStart + j] = Data(ChallengeStart + j)
         /\ Challenge \in Seq(Bytes) /\ Challenge # None /\ Challenge # False
<1>1. /\ ChallengeStart \in Nat /\ ChallengeLen \in Nat \ {0} /\ ResponseEnd \in Nat
      /\ LineStart(Len(response) + 1) = ChallengeStart
      /\ ResponseEnd = ChallengeStart + ChallengeLen
  BY Starts, ResponseIs
<1>2. \A j \in 1 .. ChallengeLen : stream[ChallengeStart + j] = Data(ChallengeStart + j)
  BY StreamAt
<1>3. Challenge \in Seq(Bytes) /\ Challenge # None /\ Challenge # False
  <2> DEFINE k == ChallengeStart
  <2>1. k \in Nat /\ ChallengeLen \in Nat /\ Challenge = Slice(k, ChallengeLen)
    BY <1>1 DEF Challenge
  <2> HIDE DEF k
  <2>2. QED
    BY <2>1, SliceFacts
<1>4. QED
  BY <1>1, <1>2, <1>3

\* The bytes from the front of the buffer, when the challenge is there
LEMMA ChallengeBytes ==
  ASSUME StreamTypes, NEW m,
         \A c \in 0 .. ChallengeLen - 1 : m[c] = stream[ChallengeStart + c + 1]
  PROVE  BytesOf(m, ChallengeLen) = Challenge
<1>1. /\ ChallengeStart \in Nat /\ ChallengeLen \in Nat
      /\ \A j \in 1 .. ChallengeLen : stream[ChallengeStart + j] = Data(ChallengeStart + j)
  BY ChallengeIs
<1>2. ASSUME NEW j \in 1 .. ChallengeLen PROVE m[j - 1] = Data(ChallengeStart + j)
  <2>1. j - 1 \in 0 .. ChallengeLen - 1 /\ ChallengeStart + (j - 1) + 1 = ChallengeStart + j
    BY <1>1
  <2>2. m[j - 1] = stream[ChallengeStart + (j - 1) + 1]
    BY <2>1
  <2>3. QED
    BY <1>1, <2>1, <2>2
<1>3. QED
  BY <1>2 DEF BytesOf, Challenge, Slice

LEMMA ReadChallengeKeeps ==
  ASSUME KindNetwork, WsInv, ReadChallenge
  PROVE  WsInv'
<1>1. /\ StreamTypes /\ BufferTypes /\ PhaseTypes /\ ReadingChallenge
      /\ phase = "challenge" /\ result = None /\ call = "none"
      /\ UNCHANGED <<response, pushes, stream, hungUp, arrived, taken, wsVars>>
      /\ UNCHANGED clientVars
  BY DEF WsInv, ReadChallenge, CallReadBytes, netVars, clientVars
<1>2. /\ taken \in Nat /\ arrived \in Nat /\ taken <= arrived /\ buffer_pos \in Int
      /\ read_buffer \in [Cells -> Bytes] /\ buffer_size = BufferSize
  BY <1>1 DEF StreamTypes, BufferTypes, PhaseTypes
<1>3. /\ ChallengeStart \in Nat /\ ChallengeLen \in Nat \ {0} /\ ResponseEnd \in Nat
      /\ LineStart(Len(response) + 1) = ChallengeStart
      /\ ResponseEnd = ChallengeStart + ChallengeLen
      /\ Challenge \in Seq(Bytes) /\ Challenge # None
  BY <1>1, ChallengeIs
<1>4. ResponseEnd <= BufferSize /\ BufferSize <= Cap /\ Cap \in Nat /\ BufferSize \in Nat
  BY <1>1, Fits, CapIs
<1>5. buffer_size' = buffer_size
  <2>1. ~(buffer_size < ChallengeLen)
    BY <1>2, <1>3, <1>4
  <2>2. QED
    BY <2>1 DEF ReadChallenge, CallReadBytes
<1>6. InKernel(Len(response)) \/ InBuffer(Len(response)) \/ GivenUp
  BY <1>1 DEF ReadingChallenge
<1>7. CASE buffer_pos >= ChallengeLen
  <2>1. InBuffer(Len(response))
    BY <1>3, <1>6, <1>7 DEF InKernel, GivenUp
  <2>2. /\ buffer_pos \in ChallengeLen .. BufferSize
        /\ taken = ResponseEnd /\ arrived = ResponseEnd
        /\ \A c \in 0 .. ChallengeLen - 1 : read_buffer[c] = stream[ChallengeStart + c + 1]
    <3>1. ResponseEnd - LineStart(Len(response) + 1) = ChallengeLen
      BY <1>3
    <3>2. QED
      BY <1>3, <2>1, <3>1 DEF InBuffer
  <2>3. BytesOf(read_buffer, ChallengeLen) = Challenge
    BY <1>1, <2>2, ChallengeBytes
  <2> DEFINE m == Terminated(read_buffer, ChallengeLen)
             rest == buffer_pos - ChallengeLen
  <2>4. /\ result' = Challenge /\ call' = "none" /\ read_buffer' = Moved(m, ChallengeLen, rest)
        /\ buffer_pos' = rest
    <3>1. buffer_pos > 0
      BY <1>2, <1>3, <1>7
    <3>2. QED
      BY <1>7, <2>3, <3>1 DEF ReadChallenge, CallReadBytes, Returns
  <2>5. m \in [Cells -> Bytes]
    BY <1>2, ByteFacts DEF Terminated
  <2>6. rest \in Nat /\ \A c \in Cells : c < rest => c + ChallengeLen \in Cells
    BY <1>3, <1>4, <2>2 DEF Cells
  <2> HIDE DEF m, rest
  <2>7. read_buffer' \in [Cells -> Bytes]
    BY <2>4, <2>5, <2>6 DEF Moved
  <2>8. ReadingChallenge'
    <3>1. result' # None /\ taken' = arrived' /\ arrived' = ResponseEnd'
      BY <1>1, <1>3, <2>2, <2>4, Fixed
    <3>2. arrived' <= ResponseEnd' /\ ResponseEnd' <= arrived'
      BY <1>1, <1>2, <3>1
    <3>3. ChallengeRight(result)'
      BY <1>1, <2>4, <3>2, Fixed DEF ChallengeRight
    <3>4. QED
      BY <2>4, <3>1, <3>2, <3>3 DEF ReadingChallenge
  <2>9. buffer_pos' \in Int /\ taken' \in Nat /\ taken' <= arrived
    BY <1>1, <1>2, <2>4, <2>6
  <2>10. QED
    BY <1>1, <1>3, <1>5, <2>4, <2>7, <2>8, <2>9, ChallengeKeeps
<1>8. CASE ~(buffer_pos >= ChallengeLen)
  <2>1. call' = "readBytes" /\ want' = ChallengeLen /\ UNCHANGED <<result, read_buffer, buffer_pos>>
    BY <1>8 DEF ReadChallenge, CallReadBytes, Waits
  <2>2. ~InBuffer(Len(response))
    BY <1>2, <1>3, <1>8 DEF InBuffer
  <2>3. InKernel(Len(response))' \/ GivenUp'
    <3>1. Len(response)' = Len(response) /\ ResponseEnd' = ResponseEnd
          /\ \A i : LineStart(i)' = LineStart(i)
      BY <1>1, Fixed
    <3>2. CASE InKernel(Len(response))
      BY <1>1, <2>1, <3>1, <3>2 DEF InKernel
    <3>3. CASE GivenUp
      BY <1>1, <2>1, <3>1, <3>3 DEF GivenUp
    <3>4. QED
      BY <1>6, <2>2, <3>2, <3>3
  <2>4. ReadingChallenge'
    BY <1>1, <2>1, <2>3 DEF ReadingChallenge
  <2>5. QED
    BY <1>1, <1>2, <1>5, <2>1, <2>4, ResultFacts, ChallengeKeeps
<1>9. QED
  BY <1>7, <1>8

LEMMA ReadBytesKeeps ==
  ASSUME KindNetwork, WsInv, ReadBytesReceives, UNCHANGED clientVars
  PROVE  WsInv'
<1>1. /\ StreamTypes /\ BufferTypes /\ PhaseTypes
      /\ call = "readBytes" /\ (arrived > taken \/ (hungUp /\ arrived = taken))
      /\ UNCHANGED <<response, pushes, stream, hungUp, arrived, buffer_size, buffer_pos, wsVars>>
  BY DEF WsInv, ReadBytesReceives, AtEnd, netVars, clientVars
<1>2. phase = "challenge" /\ result = None
  BY <1>1 DEF PhaseTypes
<1>3. want = ChallengeLen /\ (InKernel(Len(response)) \/ GivenUp)
  BY <1>1, <1>2 DEF WsInv, ReadingChallenge, InBuffer
<1>4. /\ taken \in Nat /\ arrived \in Nat /\ taken <= arrived /\ buffer_pos \in Int
      /\ read_buffer \in [Cells -> Bytes]
  BY <1>1 DEF StreamTypes, BufferTypes
<1>5. /\ ChallengeStart \in Nat /\ ChallengeLen \in Nat \ {0} /\ ResponseEnd \in Nat
      /\ LineStart(Len(response) + 1) = ChallengeStart
      /\ ResponseEnd = ChallengeStart + ChallengeLen
      /\ Challenge \in Seq(Bytes) /\ Challenge # None /\ Challenge # False
  BY <1>1, ChallengeIs
<1>6. ResponseEnd <= BufferSize /\ BufferSize <= Cap /\ Cap \in Nat /\ BufferSize \in Nat
  BY <1>1, Fits, CapIs
<1> DEFINE n == Received(want - buffer_pos)
           m == Written(read_buffer, buffer_pos, n)
<1>7. /\ taken' = taken + n
      /\ n < want => Returns(False) /\ read_buffer' = m
      /\ ~(n < want) => Returns(BytesOf(m, want)) /\ read_buffer' = Terminated(m, want)
  BY DEF ReadBytesReceives
<1>8. n \in Nat /\ taken + n <= arrived /\ m \in [Cells -> Bytes]
  <2>1. want - buffer_pos \in Nat
    BY <1>3, <1>4, <1>5 DEF InKernel, GivenUp
  <2>2. n \in Nat /\ taken + n <= arrived
    BY <1>1, <2>1, ReceivedIs
  <2> HIDE DEF n
  <2>3. QED
    BY <1>1, <1>4, <2>2, WrittenIs
<1>9. /\ call' = "none" /\ result' \in Seq(Bytes) /\ result' # None
      /\ ChallengeRight(result') /\ taken' = arrived /\ arrived <= ResponseEnd
  <2>1. CASE arrived = taken /\ arrived < ResponseEnd /\ hungUp
    <3>1. n = 0
      BY <1>4, <1>8, <2>1
    <3>2. n < want
      BY <1>3, <1>5, <3>1
    <3> HIDE DEF n
    <3>3. call' = "none" /\ result' = False /\ taken' = arrived
      BY <1>4, <1>7, <2>1, <3>1, <3>2 DEF Returns
    <3>4. ChallengeRight(False)
      BY <1>4, <1>5, <2>1 DEF ChallengeRight
    <3>5. QED
      BY <1>4, <1>5, <2>1, <3>3, <3>4, ResultFacts
  <2>2. CASE InKernel(Len(response)) /\ arrived = ResponseEnd
    <3>1. buffer_pos = 0 /\ taken = ChallengeStart
      BY <1>5, <2>2 DEF InKernel
    <3>2. n = ChallengeLen
      <4>1. want - buffer_pos = ChallengeLen /\ arrived - taken = ChallengeLen /\ ChallengeLen \in Nat
        BY <1>3, <1>5, <2>2, <3>1
      <4>2. n = IF ChallengeLen <= arrived - taken THEN ChallengeLen ELSE arrived - taken
        BY <1>1, <4>1, ReceivedIs
      <4> HIDE DEF n
      <4>3. QED
        BY <4>1, <4>2
    <3>3. ~(n < want)
      BY <1>3, <1>5, <3>2
    <3>4. \A c \in 0 .. ChallengeLen - 1 : m[c] = stream[ChallengeStart + c + 1]
      <4>1. \A c \in Cells : c \in 0 .. 0 + n - 1 => m[c] = stream[taken + 1 + c - 0]
        <5> HIDE DEF n
        <5>1. QED
          BY <1>1, <1>4, <1>8, <3>1, WrittenIs
      <4>2. \A c \in 0 .. ChallengeLen - 1 :
               c \in Cells /\ c \in 0 .. 0 + n - 1 /\ taken + 1 + c - 0 = ChallengeStart + c + 1
        BY <1>5, <1>6, <3>1, <3>2 DEF Cells
      <4> HIDE DEF m, n
      <4>3. QED
        BY <4>1, <4>2
    <3> HIDE DEF m, n
    <3>5. BytesOf(m, ChallengeLen) = Challenge
      BY <1>1, <3>4, ChallengeBytes
    <3>6. call' = "none" /\ result' = Challenge /\ taken' = arrived
      BY <1>3, <1>5, <1>7, <2>2, <3>1, <3>2, <3>3, <3>5 DEF Returns
    <3>7. ChallengeRight(Challenge)
      BY <1>4, <2>2 DEF ChallengeRight
    <3>8. QED
      BY <1>4, <1>5, <2>2, <3>6, <3>7
  <2>3. (arrived = taken /\ arrived < ResponseEnd /\ hungUp)
        \/ (InKernel(Len(response)) /\ arrived = ResponseEnd)
    BY <1>1, <1>3, <1>4, <1>5 DEF InKernel, GivenUp
  <2>4. QED
    BY <2>1, <2>2, <2>3
<1>10. read_buffer' \in [Cells -> Bytes]
  BY <1>7, <1>8, ByteFacts DEF Terminated
<1>11. ReadingChallenge'
  <2>1. ChallengeRight(result)'
    BY <1>1, <1>9, Fixed DEF ChallengeRight
  <2>2. taken' = arrived' /\ arrived' <= ResponseEnd'
    BY <1>1, <1>9, Fixed
  <2>3. QED
    BY <1>9, <2>1, <2>2 DEF ReadingChallenge
<1>12. taken' \in Nat /\ taken' <= arrived /\ buffer_pos' \in Int
  BY <1>1, <1>4, <1>9
<1>13. QED
  BY <1>1, <1>2, <1>9, <1>10, <1>11, <1>12, ChallengeKeeps

LEMMA TakeChallengeKeeps ==
  ASSUME KindNetwork, WsInv, TakeChallenge
  PROVE  WsInv'
<1>1. /\ Taken /\ phase = "challenge" /\ hash' = result /\ phase' = "open"
      /\ UNCHANGED <<response, pushes, lines, frames>>
  BY DEF TakeChallenge
<1>2. /\ call' = "none" /\ result # None /\ result' = None
      /\ UNCHANGED <<stream, hungUp, arrived, taken, bufVars, want, wsVars>>
      /\ StreamTypes /\ BufferTypes /\ PhaseTypes /\ StreamTypes' /\ BufferTypes'
  BY <1>1, TakenKeeps
<1>3. frames = <<>> /\ ReadingChallenge /\ LinesMatch
  BY <1>1, <1>2 DEF WsInv, PhaseTypes
<1>4. ChallengeRight(result) /\ taken = arrived /\ arrived <= ResponseEnd
  BY <1>2, <1>3 DEF ReadingChallenge
<1>5. arrived \in Nat /\ ResponseEnd \in Nat /\ FrameStart(1) = ResponseEnd /\ Len(pushes) \in Nat
  BY <1>2, Starts, ResponseIs DEF StreamTypes
<1>6. PhaseTypes'
  BY <1>1, <1>2, <1>3, ResultFacts DEF PhaseTypes, bufVars
<1>7. LinesMatch'
  BY <1>1, <1>2, <1>3, <1>5, LinesStay
<1>8. ChallengeRight(hash)'
  BY <1>1, <1>2, <1>4, Fixed DEF ChallengeRight
<1>9. Len(frames)' = 0 /\ 0 + 1 = 1
  BY <1>1, <1>3
<1>10. ReadingFrames'
  <2>1. CASE ResponseEnd <= arrived
    <3>1. (ResponseEnd <= arrived)' /\ (taken = FrameStart(1))' /\ Len(pushes)' = Len(pushes)
      BY <1>1, <1>2, <1>4, <1>5, <2>1, Fixed
    <3>2. AtFrame(0)'
      BY <1>2, <1>5, <1>9, <3>1 DEF AtFrame
    <3>3. QED
      BY <1>8, <1>9, <3>1, <3>2 DEF ReadingFrames
  <2>2. CASE ~(ResponseEnd <= arrived)
    <3>1. hungUp
      BY <1>4, <2>2 DEF ChallengeRight
    <3>2. Over(0)'
      BY <1>2, <1>4, <3>1 DEF Over
    <3>3. QED
      BY <1>8, <1>9, <3>2 DEF ReadingFrames
  <2>3. QED
    BY <2>1, <2>2
<1>11. QED
  BY <1>1, <1>2, <1>6, <1>7, <1>10 DEF WsInv


-----------------------------------------------------------------------------
(* The frames.                                                             *)

\* The frame behind the first g, and its bytes in the stream
LEMMA NextFrame ==
  ASSUME StreamTypes, NEW g \in Nat, g < Len(pushes)
  PROVE  /\ FrameStart(g + 1) \in Nat /\ pushes[g + 1] \in Nat \ {0}
         /\ FrameStart(g + 2) = FrameStart(g + 1) + pushes[g + 1] + 2
         /\ stream[FrameStart(g + 1) + 1] = NUL
         /\ \A c \in 0 .. pushes[g + 1] - 1 :
               stream[FrameStart(g + 1) + 1 + (c + 1)] = Data(FrameStart(g + 1) + 1 + (c + 1))
         /\ stream[FrameStart(g + 2)] = FF
         /\ Frame(g + 1) = Slice(FrameStart(g + 1) + 1, pushes[g + 1])
         /\ Frame(g + 1) \in Seq(Bytes) /\ Frame(g + 1) # None /\ Frame(g + 1) # <<>>
<1>1. g + 1 \in 1 .. Len(pushes) /\ g + 1 \in 1 .. Len(pushes) + 1 /\ (g + 1) + 1 = g + 2
  BY ResponseIs
<1>2. /\ FrameStart(g + 1) \in Nat /\ pushes[g + 1] \in Nat \ {0}
      /\ FrameStart(g + 2) = FrameStart(g + 1) + pushes[g + 1] + 2
  BY <1>1, Starts, ResponseIs
<1>3. stream[FrameStart(g + 1) + 1] = NUL /\ stream[FrameStart(g + 2)] = FF
  BY <1>1, StreamAt
<1>4. \A c \in 0 .. pushes[g + 1] - 1 : c + 1 \in 1 .. pushes[g + 1]
  BY <1>2
<1>5. \A c \in 0 .. pushes[g + 1] - 1 :
         stream[FrameStart(g + 1) + 1 + (c + 1)] = Data(FrameStart(g + 1) + 1 + (c + 1))
  <2>1. \A j \in 1 .. pushes[g + 1] : stream[FrameStart(g + 1) + 1 + j] = Data(FrameStart(g + 1) + 1 + j)
    BY <1>1, StreamAt
  <2>2. QED
    BY <1>4, <2>1
<1>6. Frame(g + 1) = Slice(FrameStart(g + 1) + 1, pushes[g + 1])
  BY DEF Frame
<1>7. Frame(g + 1) \in Seq(Bytes) /\ Frame(g + 1) # None /\ Frame(g + 1) # <<>>
  <2> DEFINE k == FrameStart(g + 1) + 1
             n == pushes[g + 1]
  <2>1. k \in Nat /\ n \in Nat /\ n # 0 /\ Frame(g + 1) = Slice(k, n)
    BY <1>2, <1>6
  <2> HIDE DEF k, n
  <2>2. QED
    BY <2>1, SliceFacts
<1>8. QED
  BY <1>2, <1>3, <1>5, <1>6, <1>7

\* A client behind its last frame has read all of the stream.
LEMMA FrameAhead ==
  ASSUME StreamTypes, NEW g \in Nat, g <= Len(pushes), FrameStart(g + 1) < arrived
  PROVE  g < Len(pushes)
<1>1. Len(pushes) \in Nat /\ arrived \in Nat /\ arrived <= FrameStart(Len(pushes) + 1)
  BY ResponseIs DEF StreamTypes
<1>2. Len(pushes) + 1 \in 1 .. Len(pushes) + 1
  BY <1>1
<1>3. FrameStart(Len(pushes) + 1) \in Nat
  BY <1>2, Starts
<1>4. g # Len(pushes)
  BY <1>1, <1>3
<1>5. QED
  BY <1>1, <1>4

\* While frames are read, from the parts of the invariant that may change
LEMMA FramesKeep ==
  ASSUME WsInv, phase = "open",
         UNCHANGED <<response, pushes, stream, hungUp, arrived, phase, lines, hash>>,
         taken' \in Nat, taken' <= arrived, BufferTypes',
         call' \in {"none", "read_ws_packet"}, result' \in Seq(Bytes),
         result' # None => call' = "none", frames' \in Seq(Seq(Bytes)),
         (ResponseEnd <= arrived /\ AtFrame(Len(frames))') \/ Over(Len(frames))'
  PROVE  WsInv'
<1>1. StreamTypes /\ PhaseTypes /\ LinesMatch /\ ReadingFrames
  BY DEF WsInv
<1>2. StreamTypes'
  BY <1>1, Fixed DEF StreamTypes
<1>3. PhaseTypes'
  BY <1>1 DEF PhaseTypes
<1>4. LinesMatch'
  BY <1>1, LinesStay DEF StreamTypes
<1>5. ReadingFrames'
  <2>1. ChallengeRight(hash)'
    BY <1>1, Fixed DEF ReadingFrames, ChallengeRight
  <2>2. ResponseEnd' = ResponseEnd
    BY Fixed
  <2>3. QED
    BY <2>1, <2>2 DEF ReadingFrames
<1>6. QED
  BY <1>2, <1>3, <1>4, <1>5 DEF WsInv

LEMMA PollKeeps ==
  ASSUME KindNetwork, WsInv, Poll
  PROVE  WsInv'
<1>1. /\ StreamTypes /\ BufferTypes /\ PhaseTypes /\ ReadingFrames
      /\ phase = "open" /\ result = None /\ result' = None /\ call = "none" /\ call' = "read_ws_packet"
      /\ total_length' = 0 /\ read_state' = 0
      /\ UNCHANGED <<stream, hungUp, arrived, taken, bufVars>> /\ UNCHANGED clientVars
  BY DEF WsInv, Poll, CallReadWs, Waits, netVars
<1>2. BufferSize \in Nat \ {0} /\ buffer_size \in Int
  BY <1>1, CapIs DEF BufferTypes
<1>3. BufferTypes'
  BY <1>1, <1>2 DEF BufferTypes, bufVars
<1>g. PICK g \in Nat : g = Len(frames)
  BY <1>1, LinesAre
<1>4. Len(frames)' = g /\ frames' = frames /\ frames \in Seq(Seq(Bytes))
  BY <1>1, <1>g DEF PhaseTypes, clientVars
<1>5. /\ Len(pushes)' = Len(pushes)
      /\ \A i : FrameStart(i)' = FrameStart(i) /\ Frame(i)' = Frame(i)
  BY <1>1, Fixed DEF clientVars
<1>6. AtFrame(g) => AtFrame(g)'
  BY <1>1, <1>4, <1>5 DEF AtFrame
<1>7. Over(g) => Over(g)'
  BY <1>1, <1>4, <1>5 DEF Over, FrameRight
<1>8. (ResponseEnd <= arrived /\ AtFrame(Len(frames))') \/ Over(Len(frames))'
  BY <1>1, <1>4, <1>6, <1>7, <1>g DEF ReadingFrames
<1>9. taken' \in Nat /\ taken' <= arrived
  BY <1>1 DEF StreamTypes
<1>10. UNCHANGED <<response, pushes, phase, lines, hash>>
  BY <1>1 DEF clientVars
<1>11. QED
  BY <1>1, <1>3, <1>4, <1>8, <1>9, <1>10, ResultFacts, FramesKeep

\* What is known when read_ws_packet() takes a byte
LEMMA ByteTaken ==
  ASSUME WsInv, NextByte, UNCHANGED clientVars
  PROVE  /\ StreamTypes /\ BufferTypes /\ PhaseTypes /\ phase = "open" /\ result = None
         /\ ResponseEnd <= arrived /\ AtFrame(Len(frames)) /\ Len(frames) < Len(pushes)
         /\ call = "read_ws_packet" /\ taken' = taken + 1 /\ taken' \in Nat /\ taken' <= arrived
         /\ UNCHANGED <<stream, hungUp, arrived, buffer_pos, want>>
         /\ frames \in Seq(Seq(Bytes)) /\ frames' \in Seq(Seq(Bytes))
<1>1. /\ StreamTypes /\ BufferTypes /\ PhaseTypes
      /\ call = "read_ws_packet" /\ arrived > taken /\ taken' = taken + 1
      /\ UNCHANGED <<stream, hungUp, arrived, buffer_pos, want>>
  BY DEF WsInv, NextByte, netVars
<1>2. phase = "open" /\ result = None /\ frames \in Seq(Seq(Bytes)) /\ frames' = frames
  BY <1>1 DEF PhaseTypes, clientVars
<1>3. taken \in Nat /\ arrived \in Nat /\ ResponseEnd \in Nat
  BY <1>1, Starts DEF StreamTypes
<1>4. ResponseEnd <= arrived /\ AtFrame(Len(frames))
  BY <1>1, <1>2, <1>3 DEF WsInv, ReadingFrames, Over
<1>g. PICK g \in Nat : g = Len(frames)
  BY <1>1, LinesAre
<1>5. g < Len(pushes)
  <2>1. CASE read_state = 0
    <3>1. taken = FrameStart(g + 1) /\ g <= Len(pushes)
      BY <1>1, <1>4, <1>g, <2>1 DEF AtFrame
    <3>2. QED
      BY <1>1, <3>1, FrameAhead
  <2>2. CASE read_state # 0
    BY <1>1, <1>4, <1>g, <2>2 DEF AtFrame
  <2>3. QED
    BY <2>1, <2>2
<1>6. QED
  BY <1>1, <1>2, <1>3, <1>4, <1>5, <1>g


LEMMA WsSyncKeeps ==
  ASSUME KindNetwork, WsInv, WsSync, UNCHANGED clientVars
  PROVE  WsInv'
<1>1. NextByte
  BY DEF WsSync
<1>2. /\ StreamTypes /\ BufferTypes /\ PhaseTypes /\ phase = "open" /\ result = None
      /\ ResponseEnd <= arrived /\ AtFrame(Len(frames)) /\ Len(frames) < Len(pushes)
      /\ call = "read_ws_packet" /\ taken' = taken + 1 /\ taken' \in Nat /\ taken' <= arrived
      /\ UNCHANGED <<stream, hungUp, arrived, buffer_pos, want>>
      /\ frames \in Seq(Seq(Bytes)) /\ frames' \in Seq(Seq(Bytes))
  BY <1>1, ByteTaken
<1>3. /\ read_state = 0 /\ read_state' = (IF Byte = NUL THEN 1 ELSE 0)
      /\ UNCHANGED <<read_buffer, buffer_size, total_length, call, result>>
      /\ UNCHANGED <<response, pushes, phase, lines, hash, frames>>
  BY DEF WsSync, clientVars
<1>g. PICK g \in Nat : g = Len(frames)
  BY <1>2, LinesAre
<1>4. /\ FrameStart(g + 1) \in Nat /\ pushes[g + 1] \in Nat \ {0}
      /\ stream[FrameStart(g + 1) + 1] = NUL
  BY <1>2, <1>g, NextFrame
<1>5. taken = FrameStart(g + 1) /\ total_length = 0 /\ \A i \in 1 .. g : frames[i] = Frame(i)
  BY <1>2, <1>3, <1>g DEF AtFrame
<1>6. Len(frames)' = g /\ Len(pushes)' = Len(pushes)
      /\ \A i : FrameStart(i)' = FrameStart(i) /\ Frame(i)' = Frame(i)
  BY <1>2, <1>3, <1>g, Fixed
<1>7. AtFrame(g)'
  <2>1. read_state' = 1 /\ taken' = FrameStart(g + 1) + 1 + total_length'
        /\ total_length' = 0 /\ total_length' <= pushes'[g + 1] /\ g < Len(pushes)
    BY <1>2, <1>3, <1>4, <1>5, <1>g DEF Byte
  <2>2. \A c \in 0 .. total_length' - 1 : FALSE
    BY <2>1
  <2>3. call' # "none" /\ read_state' # 0 /\ g <= Len(pushes)' /\ g < Len(pushes)'
        /\ \A i \in 1 .. g : frames'[i] = Frame(i)'
    BY <1>2, <1>3, <1>5, <1>6, <2>1, ResponseIs
  <2>4. QED
    BY <1>6, <2>1, <2>2, <2>3 DEF AtFrame
<1>8. BufferTypes'
  BY <1>2, <1>3 DEF BufferTypes
<1>9. QED
  BY <1>2, <1>3, <1>6, <1>7, <1>8, ResultFacts, FramesKeep

\* Room for one byte more
LEMMA RoomIs ==
  ASSUME BufferTypes, call = "read_ws_packet", WsRoom
  PROVE  /\ total_length \in Nat /\ total_length + 1 < buffer_size' /\ total_length <= Cap
         /\ buffer_size' \in BufferSize .. Cap /\ total_length \in Cells
<1>1. /\ total_length \in Nat /\ total_length < buffer_size /\ buffer_size \in BufferSize .. Cap
  BY DEF BufferTypes
<1>2. Cap \in Nat /\ BufferSize \in Nat /\ Grow \in Nat \ {0}
  BY CapIs
<1>3. /\ total_length = buffer_size - 1 =>
             buffer_size + Grow <= Cap /\ buffer_size' = buffer_size + Grow
      /\ total_length # buffer_size - 1 => buffer_size' = buffer_size
  BY DEF WsRoom
<1>4. /\ total_length + 1 < buffer_size' /\ total_length <= Cap
      /\ buffer_size' \in BufferSize .. Cap
  BY <1>1, <1>2, <1>3
<1>5. QED
  BY <1>1, <1>2, <1>4 DEF Cells

\* In a frame: the byte is one of its bytes, or the 0xff behind them.
LEMMA InFrame ==
  ASSUME StreamTypes, NEW g \in Nat, g < Len(pushes), AtFrame(g),
         call = "read_ws_packet", read_state = 1, total_length \in Nat
  PROVE  /\ taken = FrameStart(g + 1) + 1 + total_length /\ total_length <= pushes[g + 1]
         /\ \A i \in 1 .. g : frames[i] = Frame(i)
         /\ \A c \in 0 .. total_length - 1 : read_buffer[c] = Data(FrameStart(g + 1) + 1 + (c + 1))
         /\ total_length < pushes[g + 1] => Byte = Data(FrameStart(g + 1) + 1 + (total_length + 1))
         /\ total_length < pushes[g + 1] => Byte # FF
         /\ total_length = pushes[g + 1] => Byte = FF
<1>1. /\ taken = FrameStart(g + 1) + 1 + total_length /\ total_length <= pushes[g + 1]
      /\ \A i \in 1 .. g : frames[i] = Frame(i)
      /\ \A c \in 0 .. total_length - 1 : read_buffer[c] = Data(FrameStart(g + 1) + 1 + (c + 1))
  BY DEF AtFrame
<1>2. /\ FrameStart(g + 1) \in Nat /\ pushes[g + 1] \in Nat
      /\ FrameStart(g + 2) = FrameStart(g + 1) + pushes[g + 1] + 2
      /\ \A c \in 0 .. pushes[g + 1] - 1 :
            stream[FrameStart(g + 1) + 1 + (c + 1)] = Data(FrameStart(g + 1) + 1 + (c + 1))
      /\ stream[FrameStart(g + 2)] = FF
  BY NextFrame
<1>3. ASSUME total_length < pushes[g + 1]
      PROVE  Byte = Data(FrameStart(g + 1) + 1 + (total_length + 1)) /\ Byte # FF
  <2>1. total_length \in 0 .. pushes[g + 1] - 1
    BY <1>2, <1>3
  <2>2. taken + 1 = FrameStart(g + 1) + 1 + (total_length + 1) /\ taken + 1 \in Nat
    <3>1. FrameStart(g + 1) \in Nat /\ taken = FrameStart(g + 1) + 1 + total_length
      BY <1>1, <1>2
    <3> DEFINE f == FrameStart(g + 1)
    <3> HIDE DEF f
    <3>2. f \in Nat /\ taken = f + 1 + total_length
      BY <3>1 DEF f
    <3>3. taken + 1 = f + 1 + (total_length + 1) /\ taken + 1 \in Nat
      BY <3>2
    <3>4. QED
      BY <3>3 DEF f
  <2>3. Byte = Data(FrameStart(g + 1) + 1 + (total_length + 1))
    BY <1>2, <2>1, <2>2 DEF Byte
  <2>4. Byte = Data(taken + 1)
    BY <2>2, <2>3
  <2>5. QED
    BY <2>2, <2>3, <2>4, ByteFacts
<1>4. ASSUME total_length = pushes[g + 1] PROVE Byte = FF
  <2> DEFINE f == FrameStart(g + 1)
             n == pushes[g + 1]
  <2>1. f \in Nat /\ n \in Nat /\ FrameStart(g + 2) = f + n + 2 /\ taken = f + 1 + n
    BY <1>1, <1>2, <1>4
  <2> HIDE DEF f, n
  <2>2. taken + 1 = FrameStart(g + 2)
    BY <2>1
  <2>3. QED
    BY <1>2, <2>2 DEF Byte
<1>5. QED
  BY <1>1, <1>3, <1>4

LEMMA WsByteKeeps ==
  ASSUME KindNetwork, WsInv, WsByte, UNCHANGED clientVars
  PROVE  WsInv'
<1>1. NextByte /\ WsRoom
  BY DEF WsByte
<1>2. /\ StreamTypes /\ BufferTypes /\ PhaseTypes /\ phase = "open" /\ result = None
      /\ ResponseEnd <= arrived /\ AtFrame(Len(frames)) /\ Len(frames) < Len(pushes)
      /\ call = "read_ws_packet" /\ taken' = taken + 1 /\ taken' \in Nat /\ taken' <= arrived
      /\ UNCHANGED <<stream, hungUp, arrived, buffer_pos, want>>
      /\ frames \in Seq(Seq(Bytes)) /\ frames' \in Seq(Seq(Bytes))
  BY <1>1, ByteTaken
<1>3. /\ read_state = 1 /\ Byte # FF
      /\ read_buffer' = [read_buffer EXCEPT ![total_length] = Byte]
      /\ total_length' = total_length + 1
      /\ UNCHANGED <<read_state, call, result>>
      /\ UNCHANGED <<response, pushes, phase, lines, hash, frames>>
  BY DEF WsByte, clientVars
<1>g. PICK g \in Nat : g = Len(frames)
  BY <1>2, LinesAre
<1>4. /\ total_length \in Nat /\ total_length + 1 < buffer_size' /\ total_length <= Cap
      /\ buffer_size' \in BufferSize .. Cap /\ total_length \in Cells /\ Cap \in Nat
      /\ read_buffer \in [Cells -> Bytes] /\ buffer_pos \in Int
  BY <1>1, <1>2, RoomIs, CapIs DEF BufferTypes
<1> DEFINE f == FrameStart(g + 1)
           n == pushes[g + 1]
<1>5. f \in Nat /\ n \in Nat
  BY <1>2, <1>g, NextFrame
<1>6. /\ taken = f + 1 + total_length /\ total_length <= n
      /\ \A i \in 1 .. g : frames[i] = Frame(i)
      /\ \A c \in 0 .. total_length - 1 : read_buffer[c] = Data(f + 1 + (c + 1))
      /\ total_length < n => Byte = Data(f + 1 + (total_length + 1))
      /\ total_length = n => Byte = FF
  BY <1>2, <1>3, <1>4, <1>g, InFrame
<1>7. Len(frames)' = g /\ Len(pushes)' = Len(pushes) /\ f' = f /\ n' = n
      /\ \A i : Frame(i)' = Frame(i)
  BY <1>2, <1>3, <1>g, Fixed
<1> HIDE DEF f, n
<1>8. total_length < n /\ Byte = Data(f + 1 + (total_length + 1))
  BY <1>3, <1>4, <1>5, <1>6
<1>9. Byte \in Bytes
  <2>1. f + 1 + (total_length + 1) \in Nat
    BY <1>4, <1>5
  <2>2. QED
    BY <1>8, <2>1, ByteFacts
<1>10. read_buffer' \in [Cells -> Bytes]
  BY <1>3, <1>4, <1>9
<1>11. \A c \in 0 .. total_length' - 1 : read_buffer'[c] = Data(f + 1 + (c + 1))
  <2>1. \A c \in 0 .. total_length' - 1 : c \in Cells /\ (c = total_length \/ c \in 0 .. total_length - 1)
    BY <1>3, <1>4 DEF Cells
  <2>2. \A c \in Cells : read_buffer'[c] = IF c = total_length THEN Byte ELSE read_buffer[c]
    BY <1>3, <1>4
  <2>3. QED
    BY <1>6, <1>8, <2>1, <2>2
<1>12. taken' = f + 1 + total_length' /\ total_length' <= n
  BY <1>2, <1>3, <1>4, <1>5, <1>6, <1>8
<1>13. AtFrame(g)'
  <2>1. call' # "none" /\ read_state' = 1 /\ read_state' # 0
    BY <1>2, <1>3
  <2>2. g <= Len(pushes)' /\ g < Len(pushes)'
    <3>1. Len(pushes) \in Nat
      BY <1>2, ResponseIs
    <3>2. QED
      BY <1>2, <1>7, <1>g, <3>1
  <2>3. \A i \in 1 .. g : frames'[i] = Frame(i)'
    BY <1>3, <1>6, <1>7
  <2>4. /\ total_length' <= n' /\ taken' = f' + 1 + total_length'
        /\ \A c \in 0 .. total_length' - 1 : read_buffer'[c] = Data(f' + 1 + (c + 1))
    BY <1>7, <1>11, <1>12
  <2>5. QED
    BY <2>1, <2>2, <2>3, <2>4 DEF AtFrame, f, n
<1>14. BufferTypes'
  BY <1>2, <1>3, <1>4, <1>10 DEF BufferTypes
<1>15. QED
  BY <1>2, <1>3, <1>7, <1>13, <1>14, ResultFacts, FramesKeep


\* What is returned of the first n bytes of the buffer
LEMMA Ended ==
  ASSUME read_buffer \in [Cells -> Bytes], NEW n \in Nat, n <= Cap, NEW k \in Nat,
         \A c \in 0 .. n - 1 : read_buffer[c] = Data(k + (c + 1)),
         read_buffer' = [read_buffer EXCEPT ![n] = NUL], result' = CString(read_buffer')
  PROVE  read_buffer' \in [Cells -> Bytes] /\ result' = Slice(k, n)
<1>1. Cap \in Nat
  BY CapIs
<1>2. n \in Cells /\ \A c \in 0 .. n - 1 : c \in Cells /\ c # n
  BY <1>1 DEF Cells
<1>3. read_buffer' \in [Cells -> Bytes] /\ read_buffer'[n] = NUL
  BY <1>2, ByteFacts
<1>4. \A c \in 0 .. n - 1 : read_buffer'[c] = Data(k + (c + 1))
  BY <1>2
<1>5. n <= Cap + 1
  BY <1>1
<1>6. CString(read_buffer') = Slice(k, n)
  BY <1>3, <1>4, <1>5, StringIs
<1>7. QED
  BY <1>3, <1>6

LEMMA WsEndKeeps ==
  ASSUME KindNetwork, WsInv, WsEnd, UNCHANGED clientVars
  PROVE  WsInv'
<1>1. NextByte /\ WsRoom
  BY DEF WsEnd
<1>2. /\ StreamTypes /\ BufferTypes /\ PhaseTypes /\ phase = "open" /\ result = None
      /\ ResponseEnd <= arrived /\ AtFrame(Len(frames)) /\ Len(frames) < Len(pushes)
      /\ call = "read_ws_packet" /\ taken' = taken + 1 /\ taken' \in Nat /\ taken' <= arrived
      /\ UNCHANGED <<stream, hungUp, arrived, buffer_pos, want>>
      /\ frames \in Seq(Seq(Bytes)) /\ frames' \in Seq(Seq(Bytes))
  BY <1>1, ByteTaken
<1>3. /\ read_state = 1 /\ Byte = FF
      /\ read_buffer' = [read_buffer EXCEPT ![total_length] = NUL]
      /\ call' = "none" /\ result' = CString(read_buffer')
      /\ UNCHANGED wsVars /\ UNCHANGED <<response, pushes, phase, lines, hash, frames>>
  BY DEF WsEnd, Returns, clientVars
<1>g. PICK g \in Nat : g = Len(frames)
  BY <1>2, LinesAre
<1>4. /\ total_length \in Nat /\ total_length <= Cap /\ buffer_size' \in BufferSize .. Cap
      /\ read_buffer \in [Cells -> Bytes] /\ buffer_pos \in Int
  BY <1>1, <1>2, RoomIs DEF BufferTypes
<1> DEFINE f == FrameStart(g + 1)
           n == pushes[g + 1]
<1>5. /\ f \in Nat /\ n \in Nat /\ FrameStart(g + 2) = f + n + 2
      /\ Frame(g + 1) = Slice(f + 1, n)
      /\ Frame(g + 1) \in Seq(Bytes) /\ Frame(g + 1) # None
  BY <1>2, <1>g, NextFrame
<1>6. /\ taken = f + 1 + total_length /\ total_length <= n
      /\ \A i \in 1 .. g : frames[i] = Frame(i)
      /\ \A c \in 0 .. total_length - 1 : read_buffer[c] = Data(f + 1 + (c + 1))
      /\ total_length < n => Byte # FF
  BY <1>2, <1>3, <1>4, <1>g, InFrame
<1>7. Len(frames)' = g /\ Len(pushes)' = Len(pushes) /\ FrameStart(g + 2)' = FrameStart(g + 2)
      /\ Frame(g + 1)' = Frame(g + 1) /\ \A i : Frame(i)' = Frame(i)
  BY <1>2, <1>3, <1>g, Fixed
<1> HIDE DEF f, n
<1>8. total_length = n
  BY <1>3, <1>4, <1>5, <1>6
<1>9. read_buffer' \in [Cells -> Bytes] /\ result' = Frame(g + 1)
  <2>1. f + 1 \in Nat
    BY <1>5
  <2>2. read_buffer' \in [Cells -> Bytes] /\ result' = Slice(f + 1, total_length)
    BY <1>3, <1>4, <1>6, <2>1, Ended
  <2>3. QED
    BY <1>5, <1>8, <2>2
<1>10. taken' = FrameStart(g + 2)
  BY <1>2, <1>4, <1>5, <1>6, <1>8
<1>11. AtFrame(g)'
  <2>1. call' = "none" /\ result' # None /\ result' = Frame(g + 1)' /\ taken' = FrameStart(g + 2)'
    BY <1>3, <1>5, <1>7, <1>9, <1>10
  <2>2. g <= Len(pushes)' /\ g < Len(pushes)'
    <3>1. Len(pushes) \in Nat
      BY <1>2, ResponseIs
    <3>2. QED
      BY <1>2, <1>7, <1>g, <3>1
  <2>3. \A i \in 1 .. g : frames'[i] = Frame(i)'
    BY <1>3, <1>6, <1>7
  <2>4. QED
    BY <2>1, <2>2, <2>3 DEF AtFrame
<1>12. BufferTypes'
  BY <1>2, <1>3, <1>4, <1>9 DEF BufferTypes, wsVars
<1>13. call' \in {"none", "read_ws_packet"} /\ result' \in Seq(Bytes)
  BY <1>3, <1>5, <1>9
<1>14. QED
  BY <1>2, <1>3, <1>7, <1>11, <1>12, <1>13, FramesKeep

\* Part of a frame
LEMMA SlicePrefix ==
  ASSUME NEW k \in Nat, NEW n \in Nat, NEW m \in Nat, m <= n
  PROVE  IsPrefix(Slice(k, m), Slice(k, n))
<1> DEFINE s == Slice(k, m)
           t == Slice(k, n)
<1>1. /\ s \in Seq(Bytes) /\ Len(s) = m /\ t \in Seq(Bytes) /\ Len(t) = n
      /\ \A j \in 1 .. m : s[j] = Data(k + j)
      /\ \A j \in 1 .. n : t[j] = Data(k + j)
  BY SliceFacts
<1> HIDE DEF s, t
<1>2. \A j \in 1 .. m : s[j] = t[j]
  BY <1>1
<1>3. SubSeq(s, 1, m) = SubSeq(t, 1, m)
  <2>1. SubSeq(s, 1, m) = [j \in 1 .. m |-> s[j]] /\ SubSeq(t, 1, m) = [j \in 1 .. m |-> t[j]]
    BY <1>1
  <2>2. QED
    BY <1>2, <2>1
<1>4. QED
  BY <1>1, <1>3 DEF IsPrefix, s, t

LEMMA WsHungUpKeeps ==
  ASSUME KindNetwork, WsInv, WsHungUp, UNCHANGED clientVars
  PROVE  WsInv'
<1>1. /\ StreamTypes /\ BufferTypes /\ PhaseTypes
      /\ call = "read_ws_packet" /\ hungUp /\ arrived = taken
      /\ read_buffer' = [read_buffer EXCEPT ![total_length] = NUL]
      /\ call' = "none" /\ result' = CString(read_buffer')
      /\ UNCHANGED <<stream, hungUp, arrived, taken, buffer_size, buffer_pos, want, wsVars>>
      /\ UNCHANGED <<response, pushes, phase, lines, hash, frames>>
  BY DEF WsInv, WsHungUp, AtEnd, Returns, netVars, clientVars
<1>2. phase = "open" /\ result = None /\ frames \in Seq(Seq(Bytes)) /\ ReadingFrames
  BY <1>1 DEF PhaseTypes, WsInv
<1>g. PICK g \in Nat : g = Len(frames)
  BY <1>1, LinesAre
<1>3. /\ total_length \in Nat /\ total_length <= Cap
      /\ read_buffer \in [Cells -> Bytes] /\ buffer_pos \in Int /\ buffer_size \in BufferSize .. Cap
  <2>1. /\ total_length \in Nat /\ total_length < buffer_size /\ buffer_size \in BufferSize .. Cap
        /\ read_buffer \in [Cells -> Bytes] /\ buffer_pos \in Int
    BY <1>1 DEF BufferTypes
  <2>2. QED
    BY <2>1, CapIs
<1>4. taken \in Nat /\ arrived \in Nat /\ Len(pushes) \in Nat
  BY <1>1, ResponseIs DEF StreamTypes
<1>5. /\ Len(frames)' = g /\ Len(pushes)' = Len(pushes)
      /\ \A i : FrameStart(i)' = FrameStart(i)
      /\ \A i : Frame(i)' = Frame(i)
  BY <1>1, <1>g, Fixed
<1>6. \A i : \A l : FrameRight(i, l) => FrameRight(i, l)'
  BY <1>1, <1>5 DEF FrameRight
<1>7. CASE read_state = 0
  <2>1. total_length = 0
    BY <1>1, <1>2, <1>7, <1>g DEF ReadingFrames, AtFrame, Over
  <2>2. read_buffer' \in [Cells -> Bytes] /\ result' = <<>>
    <3>1. \A c \in 0 .. total_length - 1 : read_buffer[c] = Data(0 + (c + 1))
      BY <2>1
    <3>2. read_buffer' \in [Cells -> Bytes] /\ result' = Slice(0, total_length)
      BY <1>1, <1>3, <3>1, Ended
    <3>3. Slice(0, 0) = <<>>
      BY SliceFacts
    <3>4. QED
      BY <2>1, <3>2, <3>3
  <2>3. \A i \in 1 .. g : FrameRight(i, frames[i]) /\ (i < g => FrameStart(i + 1) <= arrived)
    <3>1. CASE AtFrame(g)
      <4>1. g <= Len(pushes) /\ taken = FrameStart(g + 1) /\ \A i \in 1 .. g : frames[i] = Frame(i)
        BY <1>1, <1>7, <3>1 DEF AtFrame
      <4>2. ASSUME NEW i \in 1 .. g PROVE i <= Len(pushes) /\ FrameStart(i + 1) <= arrived
        <5>1. i + 1 \in 1 .. Len(pushes) + 1 /\ g + 1 \in 1 .. Len(pushes) + 1 /\ i + 1 <= g + 1
              /\ i <= Len(pushes)
          BY <1>4, <4>1
        <5>2. FrameStart(i + 1) <= FrameStart(g + 1)
          BY <1>1, <5>1, Order
        <5>3. QED
          BY <1>1, <4>1, <5>1, <5>2
      <4>3. QED
        BY <4>1, <4>2 DEF FrameRight
    <3>2. CASE Over(g)
      BY <3>2 DEF Over
    <3>3. QED
      BY <1>2, <1>g, <3>1, <3>2 DEF ReadingFrames
  <2>4. \A i \in 1 .. g : FrameRight(i, frames[i])' /\ (i < g => FrameStart(i + 1)' <= arrived')
    BY <1>1, <1>5, <1>6, <2>3
  <2>5. Over(g)'
    BY <1>1, <2>2, <2>4 DEF Over
  <2>6. BufferTypes'
    BY <1>1, <1>3, <2>2 DEF BufferTypes, wsVars
  <2>7. taken' \in Nat /\ taken' <= arrived /\ result' \in Seq(Bytes)
    BY <1>1, <1>4, <2>2, ResultFacts
  <2>8. QED
    BY <1>1, <1>2, <1>5, <2>5, <2>6, <2>7, FramesKeep
<1>8. CASE read_state # 0
  <2>1. AtFrame(g) /\ g < Len(pushes) /\ read_state = 1
    <3>1. AtFrame(g)
      BY <1>1, <1>2, <1>8, <1>g DEF ReadingFrames, Over
    <3>2. QED
      BY <1>1, <1>8, <3>1 DEF AtFrame
  <2> DEFINE f == FrameStart(g + 1)
             n == pushes[g + 1]
  <2>2. /\ f \in Nat /\ n \in Nat /\ FrameStart(g + 2) = f + n + 2
        /\ Frame(g + 1) = Slice(f + 1, n)
    BY <1>1, <2>1, NextFrame
  <2>3. /\ taken = f + 1 + total_length /\ total_length <= n
        /\ \A i \in 1 .. g : frames[i] = Frame(i)
        /\ \A c \in 0 .. total_length - 1 : read_buffer[c] = Data(f + 1 + (c + 1))
    BY <1>1, <1>3, <2>1, InFrame
  <2> HIDE DEF f, n
  <2>4. read_buffer' \in [Cells -> Bytes] /\ result' = Slice(f + 1, total_length) /\ f + 1 \in Nat
    <3>1. f + 1 \in Nat
      BY <2>2
    <3>2. QED
      BY <1>1, <1>3, <2>3, <3>1, Ended
  <2>5. result' \in Seq(Bytes)
    BY <1>3, <2>4, SliceFacts
  <2>6. FrameRight(g + 1, result')
    <3>1. IsPrefix(result', Frame(g + 1))
      BY <1>3, <2>2, <2>3, <2>4, SlicePrefix
    <3>2. arrived < FrameStart(g + 2) /\ (g + 1) + 1 = g + 2 /\ g + 1 <= Len(pushes)
          /\ FrameStart(g + 2) \in Nat
      BY <1>1, <1>3, <1>4, <2>1, <2>2, <2>3
    <3>3. QED
      BY <1>1, <1>4, <3>1, <3>2 DEF FrameRight
  <2>7. FrameRight(g + 1, result)'
    BY <1>1, <1>5, <2>6 DEF FrameRight
  <2>8. ASSUME NEW i \in 1 .. g PROVE i <= Len(pushes) /\ FrameStart(i + 1) <= arrived
    <3>1. i + 1 \in 1 .. Len(pushes) + 1 /\ g + 1 \in 1 .. Len(pushes) + 1 /\ i + 1 <= g + 1
          /\ i <= Len(pushes)
      BY <1>4, <2>1
    <3>2. FrameStart(i + 1) <= f /\ FrameStart(i + 1) \in Nat
      BY <1>1, <3>1, Order, Starts DEF f
    <3>3. QED
      BY <1>1, <1>3, <1>4, <2>2, <2>3, <3>1, <3>2
  <2>9. \A i \in 1 .. g : FrameRight(i, frames[i])
    BY <2>3, <2>8 DEF FrameRight
  <2>10. \A i \in 1 .. g : FrameRight(i, frames[i])' /\ FrameStart(i + 1)' <= arrived'
    BY <1>1, <1>5, <1>6, <2>8, <2>9
  <2>11. Over(g)'
    BY <1>1, <2>7, <2>10 DEF Over
  <2>12. BufferTypes'
    BY <1>1, <1>3, <2>4 DEF BufferTypes, wsVars
  <2>13. taken' \in Nat /\ taken' <= arrived
    BY <1>1, <1>4
  <2>14. QED
    BY <1>1, <1>2, <1>5, <2>5, <2>11, <2>12, <2>13, FramesKeep
<1>9. QED
  BY <1>7, <1>8


LEMMA TakeFrameKeeps ==
  ASSUME KindNetwork, WsInv, TakeFrame
  PROVE  WsInv'
<1>1. /\ Taken /\ phase = "open"
      /\ frames' = (IF result = <<>> THEN frames ELSE Append(frames, result))
      /\ UNCHANGED <<response, pushes, phase, lines, hash>>
  BY DEF TakeFrame
<1>2. /\ call = "none" /\ call' = "none" /\ result # None /\ result' = None
      /\ UNCHANGED <<stream, hungUp, arrived, taken, bufVars, want, wsVars>>
      /\ StreamTypes /\ BufferTypes /\ PhaseTypes /\ BufferTypes'
  BY <1>1, TakenKeeps
<1>3. /\ ReadingFrames /\ frames \in Seq(Seq(Bytes)) /\ result \in Seq(Bytes)
      /\ taken \in Nat /\ taken <= arrived
  BY <1>1, <1>2 DEF WsInv, PhaseTypes, StreamTypes
<1>g. PICK g \in Nat : g = Len(frames)
  BY <1>2, LinesAre
<1>4. /\ Len(pushes)' = Len(pushes) /\ Len(pushes) \in Nat
      /\ \A i : FrameStart(i)' = FrameStart(i)
      /\ \A i : Frame(i)' = Frame(i)
  BY <1>1, <1>2, Fixed, ResponseIs
<1>5. \A i : \A l : FrameRight(i, l) => FrameRight(i, l)'
  BY <1>2, <1>4 DEF FrameRight
<1>6. CASE result = <<>>
  <2>1. frames' = frames /\ Len(frames)' = g
    BY <1>1, <1>6, <1>g
  <2>2. Over(g)
    <3>1. ASSUME AtFrame(g) PROVE FALSE
      <4>1. g < Len(pushes) /\ result = Frame(g + 1)
        BY <1>2, <3>1 DEF AtFrame
      <4>2. QED
        BY <1>2, <1>6, <4>1, NextFrame
    <3>2. QED
      BY <1>3, <1>g, <3>1 DEF ReadingFrames
  <2>3. \A i \in 1 .. g : FrameRight(i, frames[i])' /\ (i < g => FrameStart(i + 1)' <= arrived')
    BY <1>2, <1>4, <1>5, <2>1, <2>2 DEF Over
  <2>4. Over(g)'
    BY <1>2, <2>1, <2>2, <2>3 DEF Over
  <2>5. QED
    BY <1>1, <1>2, <1>3, <2>1, <2>4, ResultFacts, FramesKeep
<1>7. CASE result # <<>>
  <2>1. /\ frames' \in Seq(Seq(Bytes)) /\ Len(frames)' = g + 1
        /\ \A i \in 1 .. g : frames'[i] = frames[i]
        /\ frames'[g + 1] = result
    BY <1>1, <1>3, <1>7, <1>g
  <2>2. CASE ResponseEnd <= arrived /\ AtFrame(g)
    <3>1. /\ g < Len(pushes) /\ result = Frame(g + 1) /\ taken = FrameStart(g + 2)
          /\ \A i \in 1 .. g : frames[i] = Frame(i)
      BY <1>2, <2>2 DEF AtFrame
    <3>2. \A i \in 1 .. g + 1 : frames'[i] = Frame(i)'
      <4>1. \A i \in 1 .. g + 1 : i \in 1 .. g \/ i = g + 1
        OBVIOUS
      <4>2. \A i \in 1 .. g + 1 : frames'[i] = Frame(i)
        BY <2>1, <3>1, <4>1
      <4>3. QED
        BY <1>4, <4>2
    <3>3. g + 1 <= Len(pushes)' /\ (g + 1) + 1 = g + 2 /\ taken' = FrameStart(g + 2)'
      BY <1>2, <1>4, <3>1
    <3>4. AtFrame(g + 1)'
      BY <1>2, <3>2, <3>3 DEF AtFrame
    <3>5. QED
      BY <1>1, <1>2, <1>3, <2>1, <2>2, <3>4, ResultFacts, FramesKeep
  <2>3. CASE Over(g)
    <3>1. FrameRight(g + 1, result) /\ \A i \in 1 .. g : FrameStart(i + 1) <= arrived
      BY <1>2, <1>7, <2>3 DEF Over
    <3>2. \A i \in 1 .. g : FrameRight(i, frames[i])
      BY <2>3 DEF Over
    <3>3. \A i \in 1 .. g + 1 : i \in 1 .. g \/ i = g + 1
      OBVIOUS
    <3>4. \A i \in 1 .. g + 1 : FrameRight(i, frames'[i]) /\ (i < g + 1 => FrameStart(i + 1) <= arrived)
      BY <2>1, <3>1, <3>2, <3>3
    <3>5. \A i \in 1 .. g + 1 : /\ FrameRight(i, frames[i])'
                                /\ i < g + 1 => FrameStart(i + 1)' <= arrived'
      BY <1>2, <1>4, <1>5, <3>4 DEF FrameRight
    <3>6. Over(g + 1)'
      BY <1>2, <2>3, <3>5 DEF Over
    <3>7. QED
      BY <1>1, <1>2, <1>3, <2>1, <3>6, ResultFacts, FramesKeep
  <2>4. QED
    BY <1>3, <1>g, <2>2, <2>3 DEF ReadingFrames
<1>8. QED
  BY <1>6, <1>7

-----------------------------------------------------------------------------
(* All of it.                                                              *)

LEMMA WsInit ==
  ASSUME KindNetwork, Init
  PROVE  WsInv
<1>1. /\ response \in Responses /\ pushes \in Pushes /\ stream = Sent
      /\ hungUp = FALSE /\ arrived = 0 /\ taken = 0
      /\ buffer_size = BufferSize /\ buffer_pos = 0 /\ call = "none"
      /\ total_length = 0 /\ result = None
      /\ phase = "status" /\ lines = <<>> /\ frames = <<>>
  BY DEF Init, SockInit
<1>2. read_buffer \in [Cells -> Bytes]
  <2>1. PICK fill \in Fills : read_buffer = [c \in Cells |-> fill]
    BY DEF Init, SockInit
  <2>2. fill \in Bytes
    BY BufferAssumption
  <2>3. QED
    BY <2>1, <2>2
<1>3. pushes \in Seq(Nat \ {0})
  BY <1>1, WsAssumption
<1>4. Len(pushes) + 1 \in 1 .. Len(pushes) + 1
  BY <1>3
<1>5. Len(response) >= 2 /\ response \in Seq(Nat)
  BY <1>1, WsAssumption
<1>6. StreamTypes
  <2>1. 0 <= FrameStart(Len(pushes) + 1)
    <3> DEFINE R == SumOf(response, (Len(response) + 1) - 1)
               P == SumOf(pushes, (Len(pushes) + 1) - 1)
    <3>1. R \in Nat /\ Len(response) \in Nat /\ ChallengeLen \in Nat
      <4>1. Len(response) \in Nat /\ (Len(response) + 1) - 1 \in 0 .. Len(response)
        BY <1>5
      <4>2. QED
        BY <1>5, <4>1, SumIs, WsAssumption
    <3>2. P \in Nat /\ Len(pushes) \in Nat
      <4>1. pushes \in Seq(Nat) /\ Len(pushes) \in Nat /\ (Len(pushes) + 1) - 1 \in 0 .. Len(pushes)
        BY <1>3
      <4>2. QED
        BY <4>1, SumIs
    <3>3. FrameStart(Len(pushes) + 1) =
             R + (Len(response) + 1) - 1 + ChallengeLen + P + 2 * ((Len(pushes) + 1) - 1)
      BY DEF FrameStart, ResponseEnd, ChallengeStart, LineStart
    <3> HIDE DEF R, P
    <3>4. QED
      BY <3>1, <3>2, <3>3
  <2>2. arrived <= FrameStart(Len(pushes) + 1)
    BY <1>1, <2>1
  <2>3. taken \in Nat /\ arrived \in Nat /\ taken <= arrived
    BY <1>1
  <2>4. hungUp \in BOOLEAN
    BY <1>1
  <2>5. QED
    BY <1>1, <2>2, <2>3, <2>4 DEF StreamTypes
<1>7. BufferTypes
  BY <1>1, <1>2, CapIs DEF BufferTypes
<1>8. PhaseTypes
  BY <1>1, ResultFacts DEF PhaseTypes
<1>9. LinesMatch
  BY <1>1 DEF LinesMatch
<1>10. ReadingLines
  <2>1. LinesTaken = 0 /\ Len(lines) = 0 /\ 0 + 1 = 1
    BY <1>1 DEF LinesTaken
  <2>2. LineStart(1) = 0
    BY <1>6, Starts
  <2>3. InKernel(0)
    BY <1>1, <2>1, <2>2 DEF InKernel
  <2>4. QED
    BY <1>1, <1>5, <2>1, <2>3 DEF ReadingLines
<1>11. QED
  BY <1>1, <1>6, <1>7, <1>8, <1>9, <1>10 DEF WsInv

LEMMA WsStutters ==
  ASSUME WsInv, UNCHANGED vars
  PROVE  WsInv'
<1>1. /\ UNCHANGED <<stream, hungUp, arrived, taken, read_buffer, buffer_size, buffer_pos, call>>
      /\ UNCHANGED <<want, total_length, read_state, result>>
      /\ UNCHANGED <<response, pushes, phase, lines, hash, frames>>
  BY DEF vars, sockVars, clientVars, netVars, bufVars, wsVars
<1>2. StreamTypes' /\ BufferTypes' /\ PhaseTypes' /\ LinesMatch'
  <2>1. StreamTypes /\ BufferTypes /\ PhaseTypes /\ LinesMatch
    BY DEF WsInv
  <2>2. StreamTypes' /\ BufferTypes' /\ PhaseTypes'
    BY <1>1, <2>1, Fixed DEF StreamTypes, BufferTypes, PhaseTypes
  <2>3. LinesMatch'
    BY <1>1, <2>1, LinesStay DEF StreamTypes
  <2>4. QED
    BY <2>2, <2>3
<1>3. /\ Len(response)' = Len(response) /\ Len(pushes)' = Len(pushes)
      /\ ResponseEnd' = ResponseEnd /\ Challenge' = Challenge
      /\ \A i : LineStart(i)' = LineStart(i)
      /\ \A i : FrameStart(i)' = FrameStart(i)
      /\ \A i : Line(i)' = Line(i)
      /\ \A i : Frame(i)' = Frame(i)
  BY <1>1, Fixed
<1>4. \A i, l : LineRight(i, l) => LineRight(i, l)'
  BY <1>1, <1>3 DEF LineRight
<1>5. \A q : (InKernel(q) => InKernel(q)') /\ (InBuffer(q) => InBuffer(q)')
  BY <1>1, <1>3 DEF InKernel, InBuffer
<1>6. GivenUp => GivenUp'
  BY <1>1, <1>3 DEF GivenUp
<1>7. ReadingLines => ReadingLines'
  <2>1. LinesTaken' = LinesTaken /\ Len(lines)' = Len(lines)
    BY <1>1 DEF LinesTaken
  <2>2. QED
    BY <1>1, <1>3, <1>4, <1>5, <1>6, <2>1 DEF ReadingLines
<1>8. \A h : ChallengeRight(h) => ChallengeRight(h)'
  BY <1>1, <1>3 DEF ChallengeRight
<1>9. ReadingChallenge => ReadingChallenge'
  BY <1>1, <1>3, <1>5, <1>6, <1>8 DEF ReadingChallenge
<1>10. \A i, f : FrameRight(i, f) => FrameRight(i, f)'
  BY <1>1, <1>3 DEF FrameRight
<1>11. ReadingFrames => ReadingFrames'
  <2>1. \A g : AtFrame(g) => AtFrame(g)'
    BY <1>1, <1>3 DEF AtFrame
  <2>2. \A g : Over(g) => Over(g)'
    BY <1>1, <1>3, <1>10 DEF Over
  <2>3. Len(frames)' = Len(frames)
    BY <1>1
  <2>4. QED
    BY <1>1, <1>3, <1>8, <2>1, <2>2, <2>3 DEF ReadingFrames
<1>12. QED
  BY <1>1, <1>2, <1>7, <1>9, <1>11 DEF WsInv


LEMMA WsNext ==
  ASSUME KindNetwork, WsInv, [Next]_vars
  PROVE  WsInv'
<1>1. CASE Deliver
  BY <1>1, DeliverKeeps
<1>2. CASE HangsUp
  BY <1>2, HangUpKeeps
<1>3. CASE NativeRuns
  <2>1. Receive /\ UNCHANGED clientVars
    BY <1>3 DEF NativeRuns
  <2>2. CASE ReadSegment
    BY <2>1, <2>2, ReadSegmentKeeps
  <2>3. CASE ReadEnds
    BY <2>1, <2>3, ReadEndsKeeps
  <2>4. CASE ReadBytesReceives
    BY <2>1, <2>4, ReadBytesKeeps
  <2>5. CASE WsSync
    BY <2>1, <2>5, WsSyncKeeps
  <2>6. CASE WsByte
    BY <2>1, <2>6, WsByteKeeps
  <2>7. CASE WsEnd
    BY <2>1, <2>7, WsEndKeeps
  <2>8. CASE WsHungUp
    BY <2>1, <2>8, WsHungUpKeeps
  <2>9. QED
    BY <2>1, <2>2, <2>3, <2>4, <2>5, <2>6, <2>7, <2>8 DEF Receive
<1>4. CASE Script
  <2>1. CASE ReadLine
    BY <2>1, ReadLineKeeps
  <2>2. CASE TakeStatus
    BY <2>2, TakeStatusKeeps
  <2>3. CASE TakeHeader
    BY <2>3, TakeHeaderKeeps
  <2>4. CASE ReadChallenge
    BY <2>4, ReadChallengeKeeps
  <2>5. CASE TakeChallenge
    BY <2>5, TakeChallengeKeeps
  <2>6. CASE Poll
    BY <2>6, PollKeeps
  <2>7. CASE TakeFrame
    BY <2>7, TakeFrameKeeps
  <2>8. QED
    BY <1>4, <2>1, <2>2, <2>3, <2>4, <2>5, <2>6, <2>7 DEF Script
<1>5. CASE UNCHANGED vars
  BY <1>5, WsStutters
<1>6. QED
  BY <1>1, <1>2, <1>3, <1>4, <1>5 DEF Next

\* The invariant of the client, for all lengths of lines, frames and buffers
THEOREM WsInvariance ==
  ASSUME KindNetwork
  PROVE  WsSafety => []WsInv
<1>1. Init => WsInv
  BY WsInit
<1>2. WsInv /\ [Next]_vars => WsInv'
  BY WsNext
<1>3. QED
  BY <1>1, <1>2, PTL DEF WsSafety

\* Every line that read() (js_sock_read) returns is the one the server sent, whole,
\* in order, though the rest of the response was received with it, and wherever
\* the server hangs up.
THEOREM LinesTheorem ==
  ASSUME KindNetwork
  PROVE  WsSafety => []LinesMatch
<1>1. WsInv => LinesMatch
  BY DEF WsInv
<1>2. QED
  BY <1>1, WsInvariance, PTL

\* readBytes() finds the challenge behind the lines, in the buffer or in the
\* kernel, or is false if the server hung up before its end.
THEOREM ChallengeTheorem ==
  ASSUME KindNetwork
  PROVE  WsSafety => []ChallengeRead
<1>1. WsInv => ChallengeRead
  BY DEF WsInv, ReadingFrames, ChallengeRight, ChallengeRead
<1>2. QED
  BY <1>1, WsInvariance, PTL

\* However the stream is cut and however often the buffer grows, the callback is
\* handed the frames that were sent, in order, and read_ws_packet() stays inside
\* the buffer.
THEOREM FramesTheorem ==
  ASSUME KindNetwork
  PROVE  WsSafety => []FramesInOrder
<1>1. ASSUME WsInv PROVE FramesInOrder
  <2>1. StreamTypes /\ PhaseTypes /\ BufferTypes
    BY <1>1 DEF WsInv
  <2>2. call = "read_ws_packet" => total_length < buffer_size
    BY <2>1 DEF BufferTypes
  <2>g. PICK g \in Nat : g = Len(frames)
    BY <2>1, LinesAre
  <2>3. Len(pushes) \in Nat /\ taken \in Nat /\ arrived \in Nat /\ taken <= arrived
    BY <2>1, ResponseIs DEF StreamTypes
  <2>4. ASSUME NEW i \in 1 .. g
        PROVE  /\ i <= Len(pushes)
               /\ IF FrameStart(i + 1) <= arrived THEN frames[i] = Frame(i)
                  ELSE hungUp /\ i = g /\ IsPrefix(frames[i], Frame(i))
    <3>1. phase = "open"
      <4>1. g # 0
        OBVIOUS
      <4>2. QED
        BY <2>1, <2>g, <4>1 DEF PhaseTypes
    <3>2. CASE AtFrame(g)
      <4>1. g <= Len(pushes) /\ \A j \in 1 .. g : frames[j] = Frame(j)
        BY <3>2 DEF AtFrame
      <4>2. FrameStart(g + 1) <= taken
        <5>1. g + 1 \in 1 .. Len(pushes) + 1
          BY <2>3, <4>1
        <5>2. FrameStart(g + 1) \in Nat
          BY <2>1, <5>1, Starts
        <5>3. g < Len(pushes) => FrameStart(g + 2) = FrameStart(g + 1) + pushes[g + 1] + 2
                                 /\ pushes[g + 1] \in Nat
          BY <2>1, NextFrame
        <5>4. \/ taken = FrameStart(g + 1)
              \/ g < Len(pushes) /\ taken = FrameStart(g + 2)
              \/ taken = FrameStart(g + 1) + 1 + total_length
          BY <3>2 DEF AtFrame
        <5>5. total_length \in Nat
          BY <2>1 DEF BufferTypes
        <5>6. QED
          BY <5>2, <5>3, <5>4, <5>5
      <4>3. i + 1 \in 1 .. Len(pushes) + 1 /\ g + 1 \in 1 .. Len(pushes) + 1 /\ i + 1 <= g + 1
            /\ i <= Len(pushes)
        BY <2>3, <4>1
      <4>4. FrameStart(i + 1) <= FrameStart(g + 1) /\ FrameStart(i + 1) \in Nat
            /\ FrameStart(g + 1) \in Nat
        BY <2>1, <4>3, Order, Starts
      <4>5. FrameStart(i + 1) <= arrived
        BY <2>3, <4>2, <4>4
      <4>6. QED
        BY <4>1, <4>3, <4>5
    <3>3. CASE Over(g)
      <4>1. FrameRight(i, frames[i]) /\ (i < g => FrameStart(i + 1) <= arrived)
        BY <3>3 DEF Over
      <4>2. i < g \/ i = g
        OBVIOUS
      <4>3. QED
        BY <4>1, <4>2 DEF FrameRight
    <3>4. QED
      BY <1>1, <2>g, <3>1, <3>2, <3>3 DEF WsInv, ReadingFrames
  <2>5. DOMAIN frames = 1 .. g
    BY <2>1, <2>g, LenProperties DEF PhaseTypes
  <2>6. QED
    BY <2>2, <2>4, <2>5, <2>g DEF FramesInOrder
<1>2. QED
  BY <1>1, WsInvariance, PTL
=============================================================================
