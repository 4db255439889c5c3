--------------------------- MODULE PlumbingProofs ---------------------------
(***************************************************************************)
(* Proofs about the natives that move other people's data: countHeap()     *)
(* counts what can be reached, in any heap; poll() serves the sockets that *)
(* had something to say, for any array and callbacks; the Eaton packets a  *)
(* script gets are those that were sent, for any stream.                   *)
(***************************************************************************)
EXTENDS CountHeap, Poll, Eaton, FiniteSetTheorems, DataLemmas

\* Found, and its children traced or being traced
Traced == visited \ Range(traceList)

HeapTypes ==
    /\ heap \in [Things \cup {Root} -> SUBSET Things]
    /\ heapAt \in {"trace", "done"}
    /\ visited \in SUBSET Things
    /\ edges \in SUBSET Things
    /\ traceList \in Seq(Things)

\* Each thing of the list is in it once.
Distinct(list) == \A i, j \in 1 .. Len(list) : list[i] = list[j] => i = j

\* What was traced is counted, what it refers to is found or on its way, and
\* nothing else is.
Counting ==
    /\ Distinct(traceList)
    /\ Range(traceList) \subseteq visited
    /\ heap[Root] \subseteq visited \cup edges
    /\ \A t \in Traced : heap[t] \subseteq visited \cup edges
    /\ visited \cup edges \subseteq Reachable
    /\ counter = Cardinality(OfKind(Traced))

HeapInv ==
    /\ HeapTypes
    /\ heapAt = "trace" /\ heapOk => Counting
    /\ CountExact

-----------------------------------------------------------------------------

\* The things reached are closed: so what a reached thing refers to is.
LEMMA ReachableClosed ==
  ASSUME HeapTypes
  PROVE  Closed(Reachable)
<1>1. heap[Root] \subseteq Reachable
  BY DEF HeapTypes, Closed, Reachable
<1>2. ASSUME NEW t \in Reachable, NEW c \in heap[t] PROVE c \in Reachable
  <2>1. c \in Things /\ t \in Things
    BY <1>2 DEF HeapTypes, Reachable
  <2>2. ASSUME NEW S \in SUBSET Things, Closed(S) PROVE c \in S
    BY <1>2, <2>2 DEF Reachable, Closed
  <2>3. QED
    BY <2>1, <2>2 DEF Reachable
<1>3. QED
  BY <1>1, <1>2 DEF Closed

LEMMA ReachableLeast ==
  ASSUME NEW S \in SUBSET Things, Closed(S)
  PROVE  Reachable \subseteq S
  BY DEF Reachable

\* Taking the first of the list, and putting one in front
LEMMA TakeFirst ==
  ASSUME NEW list \in Seq(Things), list # <<>>, Distinct(list)
  PROVE  /\ Head(list) \in Things /\ Tail(list) \in Seq(Things)
         /\ Distinct(Tail(list))
         /\ Head(list) \in Range(list)
         /\ Range(Tail(list)) = Range(list) \ {Head(list)}
<1>1. /\ Len(list) \in Nat \ {0} /\ Head(list) = list[1] /\ Head(list) \in Things
      /\ Tail(list) \in Seq(Things) /\ Len(Tail(list)) = Len(list) - 1
      /\ \A i \in 1 .. Len(list) - 1 : Tail(list)[i] = list[i + 1]
  BY HeadTailProperties, EmptySeq, LenProperties
<1>2. /\ \A x : x \in Range(list) <=> \E i \in 1 .. Len(list) : x = list[i]
      /\ \A x : x \in Range(Tail(list)) <=> \E i \in 1 .. Len(Tail(list)) : x = Tail(list)[i]
  BY <1>1, RangeOf
<1>3. Distinct(Tail(list))
  BY <1>1 DEF Distinct
<1>4. ASSUME NEW x \in Range(Tail(list)) PROVE x \in Range(list) \ {Head(list)}
  <2>1. PICK i \in 1 .. Len(list) - 1 : x = list[i + 1]
    BY <1>1, <1>2, <1>4
  <2>2. i + 1 \in 1 .. Len(list) /\ 1 \in 1 .. Len(list) /\ i + 1 # 1
    BY <1>1
  <2>3. QED
    BY <1>1, <1>2, <2>1, <2>2 DEF Distinct
<1>5. ASSUME NEW x \in Range(list), x # Head(list) PROVE x \in Range(Tail(list))
  <2>1. PICK i \in 1 .. Len(list) : x = list[i]
    BY <1>2, <1>5
  <2>2. i # 1
    BY <1>1, <1>5, <2>1
  <2>3. i - 1 \in 1 .. Len(list) - 1 /\ (i - 1) + 1 = i
    BY <1>1, <2>2
  <2>4. Tail(list)[i - 1] = x
    BY <1>1, <2>1, <2>3
  <2>5. QED
    BY <1>1, <1>2, <2>3, <2>4
<1>6. Head(list) \in Range(list)
  BY <1>1, <1>2
<1>7. QED
  BY <1>1, <1>3, <1>4, <1>5, <1>6

LEMMA PutInFront ==
  ASSUME NEW list \in Seq(Things), NEW x \in Things, Distinct(list), x \notin Range(list)
  PROVE  /\ <<x>> \o list \in Seq(Things)
         /\ Distinct(<<x>> \o list)
         /\ Range(<<x>> \o list) = Range(list) \cup {x}
<1>1. <<x>> \in Seq(Things) /\ Len(<<x>>) = 1 /\ <<x>>[1] = x /\ Len(list) \in Nat
  BY LenProperties
<1>2. /\ <<x>> \o list \in Seq(Things) /\ Len(<<x>> \o list) = 1 + Len(list)
      /\ \A i \in 1 .. 1 + Len(list) : (<<x>> \o list)[i] = IF i <= 1 THEN <<x>>[i] ELSE list[i - 1]
  BY <1>1, ConcatProperties
<1>3. \A y : y \in Range(list) <=> \E i \in 1 .. Len(list) : y = list[i]
  BY RangeOf
<1>4. Range(<<x>> \o list) = Range(list) \cup {x}
  <2> DEFINE c == <<x>> \o list
  <2>1. c[1] = x /\ \A i \in 1 .. Len(list) : c[i + 1] = list[i]
    <3>1. 1 \in 1 .. 1 + Len(list) /\ \A i \in 1 .. Len(list) :
              i + 1 \in 1 .. 1 + Len(list) /\ ~(i + 1 <= 1) /\ (i + 1) - 1 = i
      BY <1>1
    <3>2. QED
      BY <1>1, <1>2, <3>1
  <2>2. c \in Seq(Things) /\ Len(c) = 1 + Len(list)
    BY <1>2
  <2> HIDE DEF c
  <2>3. \A y : y \in Range(c) <=> \E i \in 1 .. Len(c) : y = c[i]
    BY <2>2, RangeOf
  <2>4. ASSUME NEW y \in Range(c) PROVE y \in Range(list) \cup {x}
    <3>1. PICK i \in 1 .. 1 + Len(list) : y = c[i]
      BY <2>2, <2>3
    <3>2. CASE i = 1
      BY <2>1, <3>1, <3>2
    <3>3. CASE i # 1
      <4>1. i - 1 \in 1 .. Len(list) /\ (i - 1) + 1 = i
        BY <1>1, <3>3
      <4>2. y = list[i - 1]
        BY <2>1, <3>1, <4>1
      <4>3. QED
        BY <1>3, <4>1, <4>2
    <3>4. QED
      BY <3>2, <3>3
  <2>5. ASSUME NEW y \in Range(list) \cup {x} PROVE y \in Range(c)
    <3>1. CASE y = x
      <4>1. 1 \in 1 .. Len(c)
        BY <1>1, <2>2
      <4>2. QED
        BY <2>1, <2>3, <3>1, <4>1
    <3>2. CASE y # x
      <4>1. PICK i \in 1 .. Len(list) : y = list[i]
        BY <1>3, <3>2
      <4>2. i + 1 \in 1 .. Len(c) /\ y = c[i + 1]
        BY <1>1, <2>1, <2>2, <4>1
      <4>3. QED
        BY <2>3, <4>2
    <3>3. QED
      BY <3>1, <3>2
  <2>6. QED
    BY <2>4, <2>5 DEF c
<1>5. Distinct(<<x>> \o list)
  <2> SUFFICES ASSUME NEW i \in 1 .. 1 + Len(list), NEW j \in 1 .. 1 + Len(list),
                      (<<x>> \o list)[i] = (<<x>> \o list)[j]
               PROVE  i = j
    BY <1>2 DEF Distinct
  <2>1. \A k \in 1 .. 1 + Len(list) : k = 1 \/ k - 1 \in 1 .. Len(list)
    BY <1>1
  <2>2. \A k \in 1 .. Len(list) : list[k] # x
    BY <1>3
  <2>3. CASE i = 1 /\ j # 1
    BY <1>1, <1>2, <2>1, <2>2, <2>3
  <2>4. CASE j = 1 /\ i # 1
    BY <1>1, <1>2, <2>1, <2>2, <2>4
  <2>5. CASE i # 1 /\ j # 1
    <3>1. i - 1 \in 1 .. Len(list) /\ j - 1 \in 1 .. Len(list) /\ list[i - 1] = list[j - 1]
      BY <1>1, <1>2, <2>1, <2>5
    <3>2. i - 1 = j - 1
      BY <3>1 DEF Distinct
    <3>3. QED
      BY <3>2
  <2>6. QED
    BY <2>3, <2>4, <2>5
<1>6. QED
  BY <1>2, <1>4, <1>5

-----------------------------------------------------------------------------

LEMMA HeapStarts == CountHeapInit => HeapInv
<1> SUFFICES ASSUME CountHeapInit PROVE HeapInv
  OBVIOUS
<1>1. HeapTypes
  <2>1. heap \in [Things \cup {Root} -> SUBSET Things]
    BY HeapAssumption DEF CountHeapInit
  <2>2. heap[Root] \in SUBSET Things
    BY <2>1
  <2>3. QED
    BY <2>1, <2>2 DEF CountHeapInit, HeapTypes
<1>2. Range(traceList) = {} /\ Distinct(traceList)
  BY <1>1, RangeOf DEF HeapTypes, CountHeapInit, Distinct
<1>3. OfKind(Traced) = {} /\ Cardinality({}) = 0
  BY FS_EmptySet DEF CountHeapInit, Traced, OfKind
<1>4. Counting
  BY <1>1, <1>2, <1>3, ReachableClosed DEF CountHeapInit, Counting, Traced, Closed
<1>5. QED
  BY <1>1, <1>4 DEF HeapInv, CountHeapInit, CountExact

\* A thing found for the first time goes to the list.
LEMMA PushStep ==
  ASSUME HeapInv, heapAt = "trace", heapOk, NEW thing \in edges, NotifyPushes(thing),
         edges' = edges \ {thing}, UNCHANGED <<heap, traceKind, heapAt, counter>>
  PROVE  HeapInv'
<1>1. HeapTypes /\ Counting /\ thing \in Things
  BY DEF HeapInv, HeapTypes
<1>2. thing \notin visited /\ thing \notin Range(traceList)
  BY <1>1 DEF NotifyPushes, Found, Counting
<1>3. /\ traceList' \in Seq(Things) /\ Distinct(traceList')
      /\ Range(traceList') = Range(traceList) \cup {thing}
  BY <1>1, <1>2, PutInFront DEF NotifyPushes, HeapTypes, Counting
<1>4. HeapTypes'
  BY <1>1, <1>3 DEF HeapTypes, NotifyPushes
<1>5. Traced' = Traced
  BY <1>2, <1>3 DEF Traced, NotifyPushes
<1>6. Reachable' = Reachable /\ OfKind(Traced)' = OfKind(Traced)
  BY <1>5 DEF Reachable, Closed, OfKind
<1>7. visited' \cup edges' = visited \cup edges
  BY DEF NotifyPushes
<1>8. Counting'
  BY <1>1, <1>3, <1>5, <1>6, <1>7 DEF Counting, NotifyPushes
<1>9. QED
  BY <1>4, <1>8 DEF HeapInv, CountExact

LEMMA NotifyStep ==
  ASSUME HeapInv, CountHeapNotify
  PROVE  HeapInv'
<1>1. PICK thing \in edges :
        /\ edges' = edges \ {thing}
        /\ IF heapOk /\ ~Found(thing) THEN NotifyFails(thing) \/ NotifyPushes(thing)
           ELSE UNCHANGED <<visited, traceList, recycleList, heapOk>>
  BY DEF CountHeapNotify
<1>2. heapAt = "trace" /\ UNCHANGED <<heap, traceKind, heapAt, counter>> /\ HeapTypes
  BY DEF CountHeapNotify, HeapInv
<1>3. CASE heapOk /\ ~Found(thing) /\ NotifyPushes(thing)
  BY <1>1, <1>2, <1>3, PushStep
<1>4. CASE heapOk /\ ~Found(thing) /\ NotifyFails(thing)
  <2>1. HeapTypes' /\ ~heapOk'
    BY <1>1, <1>2, <1>4 DEF HeapTypes, NotifyFails
  <2>2. QED
    BY <2>1 DEF HeapInv, CountExact
<1>5. CASE UNCHANGED <<visited, traceList, recycleList, heapOk>> /\ (~heapOk \/ Found(thing))
  <2>1. HeapTypes'
    BY <1>1, <1>2, <1>5 DEF HeapTypes
  <2>2. ASSUME heapOk PROVE Counting'
    <3>1. Counting /\ visited' \cup edges' = visited \cup edges
      BY <1>1, <1>2, <1>5, <2>2 DEF HeapInv, Found
    <3>2. Traced' = Traced /\ Reachable' = Reachable /\ OfKind(Traced)' = OfKind(Traced)
      BY <1>2, <1>5 DEF Traced, Reachable, Closed, OfKind
    <3>3. QED
      BY <1>2, <1>5, <3>1, <3>2 DEF Counting
  <2>3. QED
    BY <1>2, <1>5, <2>1, <2>2 DEF HeapInv, CountExact
<1>6. QED
  BY <1>1, <1>3, <1>4, <1>5

LEMMA NextStep ==
  ASSUME HeapInv, CountNext
  PROVE  HeapInv'
<1> DEFINE h == Head(traceList)
<1>1. /\ heapAt = "trace" /\ edges = {} /\ traceList # <<>>
      /\ traceList' = Tail(traceList) /\ edges' = heap[h]
      /\ UNCHANGED <<heap, traceKind, heapAt, visited, heapOk>>
      /\ counter' = IF traceKind \in {AllKinds, KindOf[h]} THEN counter + 1 ELSE counter
      /\ HeapTypes
  BY DEF CountNext, HeapInv
<1>2. h \in Things /\ Tail(traceList) \in Seq(Things)
  BY <1>1, HeadTailProperties DEF HeapTypes
<1>3. HeapTypes'
  BY <1>1, <1>2 DEF HeapTypes
<1>4. ASSUME heapOk PROVE Counting'
  <2>1. Counting
    BY <1>1, <1>4 DEF HeapInv
  <2>2. /\ Distinct(traceList') /\ h \in Range(traceList)
        /\ Range(traceList') = Range(traceList) \ {h}
    BY <1>1, <2>1, TakeFirst DEF HeapTypes, Counting
  <2>3. Traced' = Traced \cup {h} /\ h \notin Traced
    BY <1>1, <2>1, <2>2 DEF Traced, Counting
  <2>4. Reachable' = Reachable
    BY <1>1 DEF Reachable, Closed
  <2>5. heap[h] \subseteq Reachable
    BY <1>1, <2>1, <2>2, ReachableClosed DEF Counting, Closed
  <2>6. \A S : OfKind(S)' = {t \in S : traceKind \in {AllKinds, KindOf[t]}}
    BY <1>1 DEF OfKind
  <2>7. OfKind(Traced)' = OfKind(Traced)
                           \cup IF traceKind \in {AllKinds, KindOf[h]} THEN {h} ELSE {}
    BY <1>1, <2>3 DEF OfKind
  <2>8. IsFiniteSet(OfKind(Traced)) /\ h \notin OfKind(Traced)
    <3>1. OfKind(Traced) \in SUBSET Things
      BY <1>1 DEF OfKind, Traced, HeapTypes
    <3>2. QED
      BY <2>3, <3>1, HeapAssumption, FS_Subset DEF OfKind
  <2>9. counter' = Cardinality(OfKind(Traced)')
    <3>1. CASE traceKind \in {AllKinds, KindOf[h]}
      BY <1>1, <2>1, <2>7, <2>8, <3>1, FS_AddElement DEF Counting
    <3>2. CASE traceKind \notin {AllKinds, KindOf[h]}
      BY <1>1, <2>1, <2>7, <3>2 DEF Counting
    <3>3. QED
      BY <3>1, <3>2
  <2>10. QED
    BY <1>1, <2>1, <2>2, <2>3, <2>4, <2>5, <2>9 DEF Counting
<1>5. QED
  BY <1>1, <1>3, <1>4 DEF HeapInv, CountExact

\* When the list is empty, what was found is closed.
LEMMA EndStep ==
  ASSUME HeapInv, CountEnds
  PROVE  HeapInv'
<1>1. /\ heapAt = "trace" /\ edges = {} /\ traceList = <<>> /\ heapAt' = "done" /\ visited' = {}
      /\ UNCHANGED <<heap, traceKind, edges, traceList, counter, heapOk>>
      /\ HeapTypes
  BY DEF CountEnds, HeapInv
<1>2. HeapTypes'
  BY <1>1 DEF HeapTypes
<1>3. ASSUME heapOk PROVE counter = Cardinality(OfKind(Reachable))
  <2>1. Counting /\ Range(traceList) = {}
    BY <1>1, <1>3, RangeOf DEF HeapInv, HeapTypes
  <2>2. Traced = visited
    BY <2>1 DEF Traced
  <2>3. Closed(visited)
    BY <1>1, <2>1, <2>2 DEF Counting, Closed
  <2>4. visited = Reachable
    BY <1>1, <2>1, <2>3, ReachableLeast DEF Counting, HeapTypes
  <2>5. QED
    BY <2>1, <2>2, <2>4 DEF Counting
<1>4. OfKind(Reachable)' = OfKind(Reachable)
  BY <1>1 DEF Reachable, Closed, OfKind
<1>5. QED
  BY <1>1, <1>2, <1>3, <1>4 DEF HeapInv, CountExact

\* countHeap() returns the number of the things that can be reached and are of
\* the kind, whatever refers to what.
THEOREM CountTheorem == CountHeapSpec => []CountExact
<1>1. HeapInv /\ [CountHeapNext]_heapVars => HeapInv'
  <2> SUFFICES ASSUME HeapInv, [CountHeapNext]_heapVars PROVE HeapInv'
    OBVIOUS
  <2>1. CASE UNCHANGED heapVars
    BY <2>1 DEF heapVars, HeapInv, HeapTypes, Counting, Traced, CountExact, Reachable, Closed,
       OfKind, Distinct
  <2>2. QED
    BY <2>1, NotifyStep, NextStep, EndStep DEF CountHeapNext
<1>2. HeapInv => CountExact
  BY DEF HeapInv
<1>3. QED
  BY <1>1, <1>2, HeapStarts, PTL DEF CountHeapSpec

-----------------------------------------------------------------------------
(* Sequences of calls.                                                     *)

Callbacks == Nat \X {"error", "data"}

LEMMA AppendRange ==
  ASSUME NEW S, NEW s \in Seq(S), NEW e \in S
  PROVE  Range(Append(s, e)) = Range(s) \cup {e}
<1>1. /\ Len(s) \in Nat /\ Append(s, e) \in Seq(S) /\ Len(Append(s, e)) = Len(s) + 1
      /\ \A i \in 1 .. Len(s) : Append(s, e)[i] = s[i]
      /\ Append(s, e)[Len(s) + 1] = e
  BY AppendProperties, LenProperties
<1>2. /\ \A x : x \in Range(s) <=> \E i \in 1 .. Len(s) : x = s[i]
      /\ \A x : x \in Range(Append(s, e)) <=> \E i \in 1 .. Len(s) + 1 : x = Append(s, e)[i]
  BY <1>1, RangeOf
<1>3. \A i \in 1 .. Len(s) + 1 : i = Len(s) + 1 \/ i \in 1 .. Len(s)
  BY <1>1
<1>4. \A i \in 1 .. Len(s) : i \in 1 .. Len(s) + 1
  BY <1>1
<1>5. Len(s) + 1 \in 1 .. Len(s) + 1
  BY <1>1
<1>6. ASSUME NEW x PROVE x \in Range(Append(s, e)) <=> x \in Range(s) \cup {e}
  BY <1>1, <1>2, <1>3, <1>4, <1>5
<1>7. QED
  BY <1>6

LEMMA AppendOrdered ==
  ASSUME NEW s \in Seq(Callbacks), NEW e \in Callbacks, Ordered(s),
         \A x \in Range(s) : Precedes(x, e)
  PROVE  Ordered(Append(s, e))
<1>1. /\ Len(s) \in Nat /\ DOMAIN s = 1 .. Len(s)
      /\ DOMAIN Append(s, e) = 1 .. Len(s) + 1
      /\ \A i \in 1 .. Len(s) : Append(s, e)[i] = s[i]
      /\ Append(s, e)[Len(s) + 1] = e
  BY AppendProperties, LenProperties
<1>2. ASSUME NEW i \in DOMAIN Append(s, e), NEW j \in DOMAIN Append(s, e), i < j
      PROVE  Precedes(Append(s, e)[i], Append(s, e)[j])
  <2>1. i \in 1 .. Len(s) /\ (j \in 1 .. Len(s) \/ j = Len(s) + 1)
    BY <1>1, <1>2
  <2>2. s[i] \in Range(s)
    BY <1>1, <2>1, RangeOf
  <2>3. QED
    BY <1>1, <1>2, <2>1, <2>2 DEF Ordered
<1>3. QED
  BY <1>2 DEF Ordered

-----------------------------------------------------------------------------
(* poll().                                                                 *)

\* What is to be called before the socket at i, and before its data()
DueBefore(i) == {e \in Due : e[1] < i}
DueError(i) == {e \in Due : e[1] < i \/ e = <<i, "error">>}

Size == Len(sockArray)

\* How far a call of poll() has come, if all sockets were open
Polled ==
    /\ pollLen = Size
    /\ called \in Seq(Callbacks) /\ Ordered(called)
    /\ pollAt = "fill" =>
          /\ i_poll \in 1 .. Size + 1 /\ fds = 1 .. i_poll - 1
          /\ called = <<>>
          /\ \A k \in 1 .. Size : sockArray[k] \notin closed
    /\ pollAt # "fill" => fds = 1 .. Size /\ revents \in [1 .. Size -> Events]
    /\ pollAt = "error" => i_poll \in 1 .. Size + 1 /\ Range(called) = DueBefore(i_poll)
    /\ pollAt = "data" => i_poll \in 1 .. Size /\ Range(called) = DueError(i_poll)
    /\ pollAt = "done" => Range(called) = Due

PollInv ==
    /\ sockArray \in Seq(PollSocks)
    /\ pollAt \in {"fill", "error", "data", "failed", "done"}
    /\ allOpen => Polled
    /\ PollServes

LEMMA PollStarts == PollInit => PollInv
<1> SUFFICES ASSUME PollInit PROVE PollInv
  OBVIOUS
<1>1. sockArray \in Seq(PollSocks)
  <2>1. PICK n \in Nat : sockArray \in [1 .. n -> PollSocks]
    BY PollAssumption DEF PollInit
  <2>2. QED
    BY <2>1, SeqDef
<1>2. /\ Size \in Nat /\ DOMAIN sockArray = 1 .. Size
      /\ <<>> \in Seq(Callbacks) /\ Ordered(<<>>)
  BY <1>1, LenProperties DEF Size, Ordered
<1>3. ASSUME allOpen PROVE Polled
  <2>1. called \in Seq(Callbacks) /\ Ordered(called)
    BY <1>2 DEF PollInit
  <2>2. pollLen = Size /\ i_poll \in 1 .. Size + 1 /\ fds = 1 .. i_poll - 1
    BY <1>2 DEF PollInit, Size
  <2>3. \A k \in 1 .. Size : sockArray[k] \notin closed
    BY <1>2, <1>3 DEF PollInit
  <2>4. QED
    BY <2>1, <2>2, <2>3 DEF PollInit, Polled
<1>4. PollServes
  BY DEF PollInit, PollServes
<1>5. QED
  BY <1>1, <1>3, <1>4 DEF PollInv, PollInit

LEMMA DueTypes ==
  ASSUME Polled, pollAt # "fill"
  PROVE  /\ \A e \in Due : e \in Callbacks /\ e[1] \in 1 .. Size
         /\ \A k \in 1 .. Size : /\ <<k, "error">> \in Due <=> "err" \in revents[k]
                                 /\ <<k, "data">> \in Due <=> "in" \in revents[k]
  BY DEF Polled, Due, Callbacks

LEMMA FillStep ==
  ASSUME PollInv, FillSlot \/ PollWaits
  PROVE  PollInv'
<1>1. Size \in Nat /\ DOMAIN sockArray = 1 .. Size
  BY LenProperties DEF PollInv, Size
<1>2. CASE FillSlot
  <2>1. ASSUME allOpen PROVE Polled'
    <3>1. Polled /\ pollAt = "fill" /\ i_poll <= pollLen
      BY <1>2, <2>1 DEF PollInv, FillSlot
    <3>2. i_poll \in 1 .. Size
      BY <1>1, <3>1 DEF Polled
    <3>3. sockArray[i_poll] \notin closed
      BY <3>1, <3>2 DEF Polled
    <3>4. fds' = fds \cup {i_poll} /\ UNCHANGED pollLen /\ i_poll' = i_poll + 1
          /\ UNCHANGED <<closed, sockArray, pollAt, called>>
      BY <1>2, <3>3 DEF FillSlot
    <3>5. fds' = 1 .. i_poll' - 1 /\ i_poll' \in 1 .. Size + 1
      BY <1>1, <3>1, <3>2, <3>4 DEF Polled
    <3>6. QED
      BY <3>1, <3>4, <3>5 DEF Polled, Size
  <2>2. QED
    BY <1>2, <2>1 DEF PollInv, PollServes, FillSlot
<1>3. CASE PollWaits
  <2>1. ASSUME allOpen PROVE Polled'
    <3>1. /\ Polled /\ pollAt = "fill" /\ i_poll > pollLen
          /\ revents' \in [1 .. Size -> Events]
          /\ pollAt' = "error" /\ i_poll' = 1
          /\ UNCHANGED <<closed, sockArray, fds, pollLen, called>>
      BY <1>3, <2>1 DEF PollInv, PollWaits, Polled
    <3>2. i_poll = Size + 1 /\ fds = 1 .. Size
      BY <1>1, <3>1 DEF Polled
    <3>3. \A e \in Due' : e[1] \in 1 .. Size
      BY <3>1 DEF Due
    <3>4. DueBefore(i_poll)' = {}
      BY <1>1, <3>1, <3>3 DEF DueBefore
    <3>5. Range(called) = {}
      BY <3>1, RangeOf DEF Polled
    <3>6. QED
      BY <1>1, <3>1, <3>2, <3>4, <3>5 DEF Polled, Size
  <2>2. QED
    BY <1>3, <2>1 DEF PollInv, PollServes, PollWaits
<1>4. QED
  BY <1>2, <1>3

\* A callback behind all that came before it
LEMMA CalledBack ==
  ASSUME Polled, pollAt # "fill", NEW e \in Due, CallBack(e[2]), i_poll = e[1],
         \A x \in Range(called) : x \in Due /\ Precedes(x, e)
  PROVE  /\ called' \in Seq(Callbacks) /\ Ordered(called')
         /\ Range(called') = Range(called) \cup {e}
<1>1. e \in Callbacks /\ e = <<e[1], e[2]>>
  BY DueTypes DEF Callbacks
<1>2. called' = Append(called, e)
  BY <1>1 DEF CallBack
<1>3. called \in Seq(Callbacks) /\ Ordered(called)
  BY DEF Polled
<1>4. QED
  BY <1>1, <1>2, <1>3, AppendRange, AppendOrdered, AppendProperties

LEMMA ErrorStep ==
  ASSUME PollInv, HandleError
  PROVE  PollInv'
<1>1. /\ pollAt = "error" /\ i_poll <= pollLen /\ pollAt' = "data"
      /\ UNCHANGED <<sockArray, fds, pollLen, i_poll, revents, allOpen, waited>>
      /\ IF "err" \in revents[i_poll] THEN CallBack("error") ELSE UNCHANGED <<closed, called>>
  BY DEF HandleError, Handling
<1>2. Size \in Nat
  BY LenProperties DEF PollInv, Size
<1>3. ASSUME allOpen PROVE Polled'
  <2>1. Polled /\ i_poll \in 1 .. Size /\ Range(called) = DueBefore(i_poll)
    BY <1>1, <1>2, <1>3 DEF PollInv, Polled
  <2>2. Due' = Due /\ Size' = Size
    BY <1>1 DEF Due, Size
  <2>3. CASE "err" \in revents[i_poll]
    <3> DEFINE e == <<i_poll, "error">>
    <3>1. e \in Due /\ e[1] = i_poll /\ e[2] = "error"
      BY <1>1, <2>1, <2>3, DueTypes
    <3>2. \A x \in Range(called) : x \in Due /\ Precedes(x, e)
      BY <2>1, <3>1 DEF DueBefore, Precedes
    <3>3. /\ called' \in Seq(Callbacks) /\ Ordered(called')
          /\ Range(called') = Range(called) \cup {e}
      BY <1>1, <2>1, <2>3, <3>1, <3>2, CalledBack
    <3>4. Range(called') = DueError(i_poll)
      BY <2>1, <3>1, <3>3 DEF DueBefore, DueError
    <3>5. QED
      BY <1>1, <2>1, <2>2, <3>3, <3>4 DEF Polled, DueError
  <2>4. CASE "err" \notin revents[i_poll]
    <3>1. <<i_poll, "error">> \notin Due
      BY <1>1, <2>1, <2>4, DueTypes
    <3>2. Range(called) = DueError(i_poll)
      BY <2>1, <3>1 DEF DueBefore, DueError
    <3>3. QED
      BY <1>1, <2>1, <2>2, <2>4, <3>2 DEF Polled, DueError
  <2>5. QED
    BY <2>3, <2>4
<1>4. QED
  BY <1>1, <1>3 DEF PollInv, PollServes

LEMMA DataStep ==
  ASSUME PollInv, HandleData
  PROVE  PollInv'
<1>1. /\ pollAt = "data" /\ i_poll <= pollLen /\ pollAt' \in {"error", "failed"}
      /\ i_poll' = i_poll + 1
      /\ UNCHANGED <<sockArray, fds, pollLen, revents, allOpen, waited>>
      /\ IF "in" \in revents[i_poll] THEN CallBack("data") ELSE UNCHANGED <<closed, called>>
  BY DEF HandleData, Handling
<1>2. Size \in Nat
  BY LenProperties DEF PollInv, Size
<1>3. ASSUME allOpen PROVE Polled'
  <2>1. Polled /\ i_poll \in 1 .. Size /\ Range(called) = DueError(i_poll)
    BY <1>1, <1>2, <1>3 DEF PollInv, Polled
  <2>2. Due' = Due /\ Size' = Size /\ i_poll' \in 1 .. Size + 1
    BY <1>1, <1>2, <2>1 DEF Due, Size
  <2>3. \A x \in Due : x[1] < i_poll' <=> x \in DueError(i_poll) \/ x = <<i_poll, "data">>
    <3>1. ASSUME NEW x \in Due
          PROVE  x[1] < i_poll' <=> x \in DueError(i_poll) \/ x = <<i_poll, "data">>
      <4>1. x \in Callbacks /\ x = <<x[1], x[2]>> /\ x[1] \in Nat /\ x[2] \in {"error", "data"}
        BY <1>1, <2>1, DueTypes DEF Callbacks
      <4>2. x[1] < i_poll' <=> x[1] < i_poll \/ x[1] = i_poll
        BY <1>1, <2>1, <4>1
      <4>3. x[1] = i_poll <=> x = <<i_poll, "error">> \/ x = <<i_poll, "data">>
        BY <4>1
      <4>4. QED
        BY <4>2, <4>3 DEF DueError
    <3>2. QED
      BY <3>1
  <2>4. CASE "in" \in revents[i_poll]
    <3> DEFINE e == <<i_poll, "data">>
    <3>1. e \in Due /\ e[1] = i_poll /\ e[2] = "data"
      BY <1>1, <2>1, <2>4, DueTypes
    <3>2. \A x \in Range(called) : x \in Due /\ Precedes(x, e)
      BY <2>1, <3>1 DEF DueError, Precedes
    <3>3. /\ called' \in Seq(Callbacks) /\ Ordered(called')
          /\ Range(called') = Range(called) \cup {e}
      BY <1>1, <2>1, <2>4, <3>1, <3>2, CalledBack
    <3>4. Range(called') = DueBefore(i_poll)'
      BY <2>1, <2>2, <2>3, <3>1, <3>3 DEF DueBefore, DueError
    <3>5. QED
      BY <1>1, <2>1, <2>2, <3>3, <3>4 DEF Polled
  <2>5. CASE "in" \notin revents[i_poll]
    <3>1. <<i_poll, "data">> \notin Due
      BY <1>1, <2>1, <2>5, DueTypes
    <3>2. Range(called) = DueBefore(i_poll)'
      BY <2>1, <2>2, <2>3, <3>1 DEF DueBefore, DueError
    <3>3. QED
      BY <1>1, <2>1, <2>2, <2>5, <3>2 DEF Polled
  <2>6. QED
    BY <2>4, <2>5
<1>4. QED
  BY <1>1, <1>3 DEF PollInv, PollServes

LEMMA ReturnStep ==
  ASSUME PollInv, PollReturns
  PROVE  PollInv'
<1>1. /\ pollAt = "error" /\ i_poll > pollLen /\ pollAt' = "done"
      /\ UNCHANGED <<closed, sockArray, fds, pollLen, i_poll, revents, called, allOpen, waited>>
  BY DEF PollReturns
<1>2. Size \in Nat
  BY LenProperties DEF PollInv, Size
<1>3. ASSUME allOpen PROVE Polled' /\ fds = 1 .. Size /\ Range(called) = Due
  <2>1. Polled /\ i_poll = Size + 1 /\ Range(called) = DueBefore(i_poll)
    BY <1>1, <1>2, <1>3 DEF PollInv, Polled
  <2>2. DueBefore(i_poll) = Due
    BY <1>1, <1>2, <2>1, DueTypes DEF DueBefore
  <2>3. Due' = Due /\ Size' = Size
    BY <1>1 DEF Due, Size
  <2>4. QED
    BY <1>1, <2>1, <2>2, <2>3 DEF Polled
<1>4. QED
  BY <1>1, <1>3 DEF PollInv, PollServes, Due, Size, Polled

\* A timeval holds the milliseconds.
LEMMA WaitStep ==
  ASSUME PollInv, WaitForInput
  PROVE  PollInv'
<1>1. UNCHANGED <<closed, sockArray, fds, pollLen, pollAt, i_poll, revents, called, allOpen>>
  BY DEF WaitForInput
<1>2. PICK ms \in Timeouts :
          waited' = IF ms > 0
                    THEN [ms |-> ms, sec |-> ms \div 1000,
                          usec |-> (ms - (ms \div 1000) * 1000) * 1000]
                    ELSE [ms |-> 0, sec |-> 0, usec |-> 0]
  BY DEF WaitForInput
<1>3. ms \in Int
  BY PollAssumption
<1>4. CASE ms > 0
  <2> DEFINE q == ms \div 1000
  <2>1. q \in Int /\ q * 1000 <= ms /\ ms < (q + 1) * 1000
    BY <1>3, <1>4
  <2>2. waited'.usec = (ms - q * 1000) * 1000 /\ waited'.sec = q /\ waited'.ms = ms
    BY <1>2, <1>4
  <2> HIDE DEF q
  <2>3. (ms - q * 1000) * 1000 < 1000000
        /\ q * 1000000 + (ms - q * 1000) * 1000 = ms * 1000
    BY <1>3, <2>1
  <2>4. QED
    BY <1>1, <2>2, <2>3 DEF PollInv, Polled, PollServes, Due, DueBefore, DueError, Size
<1>5. CASE ~(ms > 0)
  BY <1>1, <1>2, <1>5 DEF PollInv, Polled, PollServes, Due, DueBefore, DueError, Size
<1>6. QED
  BY <1>4, <1>5

\* poll() calls back for what poll(2) found, of every socket and in the order
\* of the array, for arrays of any length and whatever the callbacks close.
THEOREM PollTheorem == PollSpec => []PollServes
<1>1. PollInv /\ [PollNext]_pollVars => PollInv'
  <2> SUFFICES ASSUME PollInv, [PollNext]_pollVars PROVE PollInv'
    OBVIOUS
  <2>1. CASE UNCHANGED pollVars
    BY <2>1 DEF pollVars, PollInv, Polled, PollServes, Due, DueBefore, DueError, Size
  <2>2. QED
    BY <2>1, FillStep, ErrorStep, DataStep, ReturnStep, WaitStep DEF PollNext
<1>2. PollInv => PollServes
  BY DEF PollInv
<1>3. QED
  BY <1>1, <1>2, PollStarts, PTL DEF PollSpec

-----------------------------------------------------------------------------
(* readEatonPacket().  Where the stream has been read to says where in a   *)
(* packet the call is.                                                     *)

\* What is sent for each frame, and where that of the first k ends
Sent == [k \in DOMAIN frames |-> Framed(frames[k])]
Start(k) == Ends(Sent, k)

Noise(k) == Len(frames[k].noise)
DataLen(k) == Len(frames[k].data)
Stream == Wire(frames)

FramesTyped ==
    /\ frames \in Seq([noise : Seq(Bytes \ {Header}), data : Seq(Bytes)])
    /\ \A k \in DOMAIN frames : Len(frames[k].data) + 1 <= MaxPacket

LEMMA BytesAreNumbers ==
  Seq(Bytes) \subseteq Seq(Nat) /\ Seq(Bytes \ {Header}) \subseteq Seq(Nat)
<1>1. Bytes \subseteq Nat /\ Bytes \ {Header} \subseteq Nat
  BY DEF Bytes
<1>2. QED
  BY <1>1, SeqMonotonic

\* What a frame looks like
IsFrame(s, noise, data) ==
    /\ s \in Seq(Nat)
    /\ Len(s) = Len(noise) + Len(data) + 3
    /\ \A m \in 1 .. Len(noise) : s[m] # Header
    /\ s[Len(noise) + 1] = Header
    /\ s[Len(noise) + 2] = Len(data) + 1
    /\ \A m \in 1 .. Len(data) : s[Len(noise) + 2 + m] = data[m]
    /\ s[Len(noise) + Len(data) + 3] = Trailer

LEMMA FramedAt ==
  ASSUME NEW noise \in Seq(Bytes \ {Header}), NEW data \in Seq(Bytes), NEW f,
         f.noise = noise, f.data = data
  PROVE  IsFrame(Framed(f), noise, data)
<1> DEFINE a == Len(noise)
           b == Len(data)
           h == <<Header>>
           p == Packet(data)
           t == <<Trailer>>
<1>1. /\ a \in Nat /\ b \in Nat /\ noise \in Seq(Nat) /\ data \in Seq(Nat)
      /\ \A m \in 1 .. a : noise[m] # Header
  <2>1. noise \in Seq(Nat) /\ data \in Seq(Nat)
    BY BytesAreNumbers
  <2>2. \A m \in 1 .. a : noise[m] \in Bytes \ {Header}
    BY ElementOfSeq
  <2>3. QED
    BY <2>1, <2>2, LenProperties
<1>2. /\ h \in Seq(Nat) /\ Len(h) = 1 /\ h[1] = Header
      /\ t \in Seq(Nat) /\ Len(t) = 1 /\ t[1] = Trailer
  BY DEF Header, Trailer
<1>3. /\ p \in Seq(Nat) /\ Len(p) = 1 + b /\ p[1] = b + 1
      /\ \A m \in 1 .. b : p[m + 1] = data[m]
  <2> DEFINE l == <<b + 1>>
  <2>1. l \in Seq(Nat) /\ Len(l) = 1 /\ l[1] = b + 1 /\ p = l \o data
    BY <1>1 DEF Packet
  <2>2. data \in Seq(Nat) /\ Len(data) = b /\ b \in Nat
    BY <1>1
  <2> HIDE DEF p, l, b
  <2>3. l \in Seq(Nat) /\ data \in Seq(Nat)
    BY <2>1, <2>2
  <2>4. /\ l \o data \in Seq(Nat) /\ Len(l \o data) = Len(l) + Len(data)
        /\ \A i \in 1 .. Len(l) + Len(data) :
              (l \o data)[i] = IF i <= Len(l) THEN l[i] ELSE data[i - Len(l)]
    BY ONLY <2>3, ConcatProperties
  <2>5. /\ p \in Seq(Nat) /\ Len(p) = 1 + b
        /\ \A i \in 1 .. 1 + b : p[i] = IF i <= 1 THEN l[i] ELSE data[i - 1]
    BY <2>1, <2>2, <2>4
  <2>6. ASSUME NEW m \in 1 .. b PROVE p[m + 1] = data[m]
    <3>1. m + 1 \in 1 .. 1 + b /\ ~(m + 1 <= 1) /\ (m + 1) - 1 = m
      BY <2>2
    <3>2. QED
      BY <2>5, <3>1
  <2>7. p[1] = b + 1
    BY <2>1, <2>2, <2>5
  <2>8. QED
    BY <2>5, <2>6, <2>7
<1>4. Framed(f) = ((noise \o h) \o p) \o t
  BY DEF Framed
<1> HIDE DEF a, b, h, p, t
<1> DEFINE x == noise \o h
<1>5. /\ x \in Seq(Nat) /\ Len(x) = a + 1
      /\ \A i \in 1 .. a + 1 : x[i] = IF i <= a THEN noise[i] ELSE h[i - a]
  <2>1. /\ noise \o h \in Seq(Nat) /\ Len(noise \o h) = Len(noise) + Len(h)
        /\ \A i \in 1 .. Len(noise) + Len(h) :
              (noise \o h)[i] = IF i <= Len(noise) THEN noise[i] ELSE h[i - Len(noise)]
    <3>1. noise \in Seq(Nat) /\ h \in Seq(Nat)
      BY <1>1, <1>2
    <3>2. QED
      BY <3>1, ConcatProperties
  <2>2. QED
    BY <1>2, <2>1 DEF a, x
<1> HIDE DEF x
<1> DEFINE y == x \o p
<1>6. /\ y \in Seq(Nat) /\ Len(y) = a + b + 2
      /\ \A i \in 1 .. a + b + 2 : y[i] = IF i <= a + 1 THEN x[i] ELSE p[i - (a + 1)]
  <2>1. /\ y \in Seq(Nat) /\ Len(y) = Len(x) + Len(p)
        /\ \A i \in 1 .. Len(x) + Len(p) : y[i] = IF i <= Len(x) THEN x[i] ELSE p[i - Len(x)]
    BY <1>3, <1>5, ConcatProperties
  <2>2. Len(x) + Len(p) = a + b + 2
    BY <1>1, <1>3, <1>5
  <2>3. QED
    BY <1>5, <2>1, <2>2
<1> HIDE DEF y
<1>7. /\ Framed(f) \in Seq(Nat) /\ Len(Framed(f)) = a + b + 3
      /\ \A i \in 1 .. a + b + 3 :
            Framed(f)[i] = IF i <= a + b + 2 THEN y[i] ELSE t[i - (a + b + 2)]
  <2>1. Framed(f) = y \o t
    BY <1>4 DEF x, y
  <2>2. Len(y) + Len(t) = a + b + 3
    BY <1>1, <1>2, <1>6
  <2>3. /\ y \o t \in Seq(Nat) /\ Len(y \o t) = Len(y) + Len(t)
        /\ \A i \in 1 .. Len(y) + Len(t) : (y \o t)[i] = IF i <= Len(y) THEN y[i] ELSE t[i - Len(y)]
    <3>1. y \in Seq(Nat) /\ t \in Seq(Nat)
      BY <1>2, <1>6
    <3>2. QED
      BY <3>1, ConcatProperties
  <2>4. QED
    BY <1>6, <2>1, <2>2, <2>3
<1>8. ASSUME NEW m \in 1 .. a PROVE Framed(f)[m] # Header
  <2>1. m \in 1 .. a + b + 3 /\ m <= a + b + 2 /\ m \in 1 .. a + b + 2 /\ m <= a + 1 /\ m \in 1 .. a + 1
        /\ m <= a
    BY <1>1
  <2>2. Framed(f)[m] = noise[m]
    BY <1>5, <1>6, <1>7, <2>1
  <2>3. QED
    BY <1>1, <2>2
<1>9. Framed(f)[a + 1] = Header
  <2>1. /\ a + 1 \in 1 .. a + b + 3 /\ a + 1 <= a + b + 2 /\ a + 1 \in 1 .. a + b + 2
        /\ a + 1 <= a + 1 /\ a + 1 \in 1 .. a + 1 /\ ~(a + 1 <= a) /\ (a + 1) - a = 1
    BY <1>1
  <2>2. QED
    BY <1>2, <1>5, <1>6, <1>7, <2>1
<1>10. ASSUME NEW m \in 1 .. b + 1 PROVE Framed(f)[a + 1 + m] = p[m]
  <2>1. /\ a + 1 + m \in 1 .. a + b + 3 /\ a + 1 + m <= a + b + 2 /\ a + 1 + m \in 1 .. a + b + 2
        /\ ~(a + 1 + m <= a + 1) /\ (a + 1 + m) - (a + 1) = m
    BY <1>1
  <2>2. QED
    BY <1>6, <1>7, <2>1
<1>11. Framed(f)[a + 2] = b + 1
  <2>1. 1 \in 1 .. b + 1 /\ a + 1 + 1 = a + 2
    BY <1>1
  <2>2. QED
    BY <1>3, <1>10, <2>1
<1>12. ASSUME NEW m \in 1 .. b PROVE Framed(f)[a + 2 + m] = data[m]
  <2>1. m + 1 \in 1 .. b + 1 /\ a + 1 + (m + 1) = a + 2 + m
    BY <1>1
  <2>2. Framed(f)[a + 1 + (m + 1)] = p[m + 1]
    BY <1>10, <2>1
  <2>3. QED
    BY <1>3, <2>1, <2>2
<1>13. Framed(f)[a + b + 3] = Trailer
  <2>1. /\ a + b + 3 \in 1 .. a + b + 3 /\ ~(a + b + 3 <= a + b + 2)
        /\ (a + b + 3) - (a + b + 2) = 1
    BY <1>1
  <2>2. QED
    BY <1>2, <1>7, <2>1
<1>14. QED
  BY <1>7, <1>8, <1>9, <1>11, <1>12, <1>13 DEF IsFrame, a, b

LEMMA StreamAt ==
  ASSUME FramesTyped
  PROVE  /\ Stream \in Seq(Nat) /\ Len(frames) \in Nat
         /\ Start(0) = 0 /\ Start(Len(frames)) = Len(Stream)
         /\ \A k \in 0 .. Len(frames) : Start(k) \in 0 .. Len(Stream)
         /\ \A k \in 1 .. Len(frames) :
               /\ Noise(k) \in Nat /\ DataLen(k) \in Nat /\ DataLen(k) + 1 <= MaxPacket
               /\ frames[k].data \in Seq(Nat)
               /\ Start(k) = Start(k - 1) + (Noise(k) + DataLen(k) + 3)
               /\ \A m \in 1 .. Noise(k) : Stream[Start(k - 1) + m] # Header
               /\ Stream[Start(k - 1) + (Noise(k) + 1)] = Header
               /\ Stream[Start(k - 1) + (Noise(k) + 2)] = DataLen(k) + 1
               /\ \A m \in 1 .. DataLen(k) :
                     Stream[Start(k - 1) + (Noise(k) + 2 + m)] = frames[k].data[m]
               /\ Stream[Start(k - 1) + (Noise(k) + DataLen(k) + 3)] = Trailer
<1>1. Len(frames) \in Nat /\ DOMAIN frames = 1 .. Len(frames)
  BY LenProperties DEF FramesTyped
<1>2. ASSUME NEW k \in 1 .. Len(frames)
      PROVE  /\ Noise(k) \in Nat /\ DataLen(k) \in Nat /\ DataLen(k) + 1 <= MaxPacket
             /\ frames[k].data \in Seq(Nat)
             /\ Framed(frames[k]) \in Seq(Nat)
             /\ Len(Framed(frames[k])) = Noise(k) + DataLen(k) + 3
             /\ \A m \in 1 .. Noise(k) : Framed(frames[k])[m] # Header
             /\ Framed(frames[k])[Noise(k) + 1] = Header
             /\ Framed(frames[k])[Noise(k) + 2] = DataLen(k) + 1
             /\ \A m \in 1 .. DataLen(k) :
                   Framed(frames[k])[Noise(k) + 2 + m] = frames[k].data[m]
             /\ Framed(frames[k])[Noise(k) + DataLen(k) + 3] = Trailer
  <2> DEFINE f == frames[k]
             noise == f.noise
             data == f.data
  <2>1. f \in [noise : Seq(Bytes \ {Header}), data : Seq(Bytes)]
    BY <1>1, ElementOfSeq DEF FramesTyped
  <2>2. noise \in Seq(Bytes \ {Header}) /\ data \in Seq(Bytes)
    BY <2>1
  <2>3. Len(data) + 1 <= MaxPacket
    BY <1>1 DEF FramesTyped
  <2>4. f.noise = noise /\ f.data = data
    OBVIOUS
  <2>5. Noise(k) = Len(noise) /\ DataLen(k) = Len(data)
    BY DEF Noise, DataLen
  <2> HIDE DEF noise, data, f
  <2>6. Len(noise) \in Nat /\ Len(data) \in Nat /\ data \in Seq(Nat)
    BY <2>2, BytesAreNumbers, LenProperties
  <2>7. IsFrame(Framed(f), noise, data)
    BY <2>2, <2>4, FramedAt
  <2>8. QED
    BY <2>3, <2>4, <2>5, <2>6, <2>7 DEF IsFrame, f
<1>3. Sent \in Seq(Seq(Nat)) /\ Len(Sent) = Len(frames)
      /\ \A k \in 1 .. Len(frames) : Sent[k] = Framed(frames[k])
  <2>1. Sent \in [1 .. Len(frames) -> Seq(Nat)]
    BY <1>1, <1>2 DEF Sent
  <2>2. Sent \in Seq(Seq(Nat)) /\ DOMAIN Sent = 1 .. Len(frames)
    BY <1>1, <2>1, SeqDef
  <2>3. Len(Sent) = Len(frames)
    BY <1>1, <2>2, LenProperties
  <2>4. QED
    BY <1>1, <2>2, <2>3 DEF Sent
<1>4. Stream = FlattenSeq(Sent)
  BY DEF Stream, Wire, Sent
<1>5. /\ Stream \in Seq(Nat)
      /\ Start(0) = 0 /\ Start(Len(frames)) = Len(Stream)
      /\ \A k \in 0 .. Len(frames) : Start(k) \in 0 .. Len(Stream)
      /\ \A k \in 1 .. Len(frames) :
            /\ Start(k) = Start(k - 1) + Len(Sent[k])
            /\ \A m \in 1 .. Len(Sent[k]) : Stream[Start(k - 1) + m] = Sent[k][m]
  BY <1>3, <1>4, FlattenAt DEF Start
<1>6. ASSUME NEW k \in 1 .. Len(frames)
      PROVE  /\ Start(k) = Start(k - 1) + (Noise(k) + DataLen(k) + 3)
             /\ \A m \in 1 .. Noise(k) + DataLen(k) + 3 :
                   Stream[Start(k - 1) + m] = Framed(frames[k])[m]
  <2>1. Sent[k] = Framed(frames[k]) /\ Len(Sent[k]) = Noise(k) + DataLen(k) + 3
    BY <1>2, <1>3
  <2>2. /\ Start(k) = Start(k - 1) + Len(Sent[k])
        /\ \A m \in 1 .. Len(Sent[k]) : Stream[Start(k - 1) + m] = Sent[k][m]
    BY <1>3, <1>5
  <2>3. QED
    BY <2>1, <2>2
<1>7. ASSUME NEW k \in 1 .. Len(frames)
      PROVE  /\ \A m \in 1 .. Noise(k) : Stream[Start(k - 1) + m] # Header
             /\ Stream[Start(k - 1) + (Noise(k) + 1)] = Header
             /\ Stream[Start(k - 1) + (Noise(k) + 2)] = DataLen(k) + 1
             /\ \A m \in 1 .. DataLen(k) :
                   Stream[Start(k - 1) + (Noise(k) + 2 + m)] = frames[k].data[m]
             /\ Stream[Start(k - 1) + (Noise(k) + DataLen(k) + 3)] = Trailer
  <2> DEFINE all == Noise(k) + DataLen(k) + 3
  <2>1. /\ Noise(k) + 1 \in 1 .. all /\ Noise(k) + 2 \in 1 .. all
        /\ Noise(k) + DataLen(k) + 3 \in 1 .. all
        /\ \A m \in 1 .. Noise(k) : m \in 1 .. all
        /\ \A m \in 1 .. DataLen(k) : Noise(k) + 2 + m \in 1 .. all
    <3> DEFINE a == Noise(k)
               b == DataLen(k)
    <3>1. a \in Nat /\ b \in Nat /\ all = a + b + 3
      BY <1>2
    <3> HIDE DEF a, b, all
    <3>2. /\ a + 1 \in 1 .. all /\ a + 2 \in 1 .. all /\ a + b + 3 \in 1 .. all
          /\ \A m \in 1 .. a : m \in 1 .. all
          /\ \A m \in 1 .. b : a + 2 + m \in 1 .. all
      BY <3>1
    <3>3. QED
      BY <3>2 DEF a, b
  <2>2. \A m \in 1 .. all : Stream[Start(k - 1) + m] = Framed(frames[k])[m]
    BY <1>6
  <2> HIDE DEF all
  <2>3. ASSUME NEW m \in 1 .. Noise(k) PROVE Stream[Start(k - 1) + m] # Header
    <3>1. Framed(frames[k])[m] # Header
      BY <1>2
    <3>2. Stream[Start(k - 1) + m] = Framed(frames[k])[m]
      BY <2>1, <2>2
    <3>3. QED
      BY <3>1, <3>2
  <2>4. /\ Stream[Start(k - 1) + (Noise(k) + 1)] = Header
        /\ Stream[Start(k - 1) + (Noise(k) + 2)] = DataLen(k) + 1
    BY <1>2, <2>1, <2>2
  <2>5. \A m \in 1 .. DataLen(k) :
            Stream[Start(k - 1) + (Noise(k) + 2 + m)] = frames[k].data[m]
    BY <1>2, <2>1, <2>2
  <2>6. Stream[Start(k - 1) + (Noise(k) + DataLen(k) + 3)] = Trailer
    BY <1>2, <2>1, <2>2
  <2>7. QED
    BY <2>3, <2>4, <2>5, <2>6
<1>8. QED
  BY <1>1, <1>2, <1>5, <1>6, <1>7

\* As long as nothing was lost, the packets returned are the first that were
\* sent, and the call is at its place in the next one.
InFrame(k) ==
    /\ k <= Len(frames)
    /\ eatonAt = "length" => eatonTaken = Start(k - 1) + (Noise(k) + 1)
    /\ eatonAt = "data" =>
          eatonTaken = Start(k - 1) + (Noise(k) + 2) /\ packetbuf = <<DataLen(k) + 1>>
    /\ eatonAt = "trailer" =>
          /\ eatonTaken = Start(k - 1) + (Noise(k) + 2 + DataLen(k))
          /\ packetbuf = Packet(frames[k].data)

InStep ==
    /\ eatonArrived \in Nat /\ eatonArrived <= Len(Stream)
    /\ eatonTaken \in Nat /\ eatonTaken <= eatonArrived
    /\ eatonAt \in {"idle", "header", "length", "data", "trailer"}
    /\ got \in Seq(Seq(Nat)) /\ Len(got) <= Len(frames)
    /\ \A k \in 1 .. Len(got) : got[k] = Packet(frames[k].data)
    /\ eatonAt = "idle" => eatonTaken = Start(Len(got))
    /\ eatonAt = "header" =>
          /\ eatonTaken >= Start(Len(got))
          /\ Len(got) < Len(frames) =>
                eatonTaken <= Start(Len(got)) + Noise(Len(got) + 1)
          /\ Len(got) = Len(frames) => eatonTaken = Len(Stream)
    /\ eatonAt \in {"length", "data", "trailer"} => InFrame(Len(got) + 1)

EatonInv ==
    /\ FramesTyped
    /\ ~broken => InStep

\* A read of n bytes that returns n
LEMMA ReadsAll ==
  ASSUME InStep, FramesTyped, NEW n \in Nat, Reads(n, Byte(n)), ~broken'
  PROVE  /\ ~broken /\ UNCHANGED <<frames, eatonArrived>>
         /\ eatonTaken' = eatonTaken + n /\ eatonTaken + n <= eatonArrived
         /\ Byte(n) = SubSeq(Stream, eatonTaken + 1, eatonTaken + n)
         /\ Byte(n) \in Seq(Nat) /\ Len(Byte(n)) = n
         /\ \A m \in 1 .. n : Byte(n)[m] = Stream[eatonTaken + m]
<1> DEFINE ready == eatonArrived - eatonTaken
           k == Min({n, ready})
<1>1. /\ ready \in Nat /\ eatonTaken \in Nat /\ eatonArrived \in Nat
      /\ eatonArrived <= Len(Stream) /\ ready = eatonArrived - eatonTaken
  BY DEF InStep
<1>2. Stream \in Seq(Nat) /\ Len(Stream) \in Nat
  BY StreamAt, LenProperties
<1>3. k = IF n <= ready THEN n ELSE ready
  BY <1>1, MinOfTwo
<1>4. ~broken /\ ~(k < n) /\ UNCHANGED <<frames, eatonArrived>> /\ eatonTaken' = eatonTaken + k
      /\ Byte(n) = SubSeq(Stream, eatonTaken + 1, eatonTaken + k)
  BY DEF Reads, Byte, Stream
<1> HIDE DEF k, ready
<1>5. k = n /\ eatonTaken + n <= eatonArrived
  BY <1>1, <1>3, <1>4
<1>6. Byte(n) = SubSeq(Stream, eatonTaken + 1, eatonTaken + n)
  BY <1>4, <1>5
<1> DEFINE from == eatonTaken + 1
           to == eatonTaken + n
<1>7. /\ from \in Int /\ to \in Int /\ \A i \in from .. to : Stream[i] \in Nat
      /\ to - from + 1 = n /\ (from <= to <=> n # 0)
  <2>1. from \in Nat /\ to \in Nat /\ 1 <= from /\ to <= Len(Stream)
    BY <1>1, <1>2, <1>5
  <2>2. \A i \in from .. to : i \in 1 .. Len(Stream)
    BY <1>2, <2>1
  <2>3. to - from + 1 = n /\ (from <= to <=> n # 0)
    BY <1>1
  <2> HIDE DEF from, to
  <2>4. QED
    BY <1>2, <2>1, <2>2, <2>3, ElementOfSeq
<1>8. \A m \in 1 .. n : from + m - 1 = eatonTaken + m
  BY <1>1
<1> HIDE DEF from, to
<1>9. /\ SubSeq(Stream, from, to) \in Seq(Nat)
      /\ Len(SubSeq(Stream, from, to)) = IF from <= to THEN to - from + 1 ELSE 0
      /\ \A i \in 1 .. to - from + 1 : SubSeq(Stream, from, to)[i] = Stream[from + i - 1]
  BY <1>7, SubSeqProperties
<1>10. Byte(n) = SubSeq(Stream, from, to)
  BY <1>6 DEF from, to
<1>11. Byte(n) \in Seq(Nat) /\ Len(Byte(n)) = n
       /\ \A m \in 1 .. n : Byte(n)[m] = Stream[eatonTaken + m]
  BY <1>7, <1>8, <1>9, <1>10
<1>12. QED
  BY <1>4, <1>5, <1>6, <1>11

\* One byte
LEMMA ReadsOne ==
  ASSUME InStep, FramesTyped, Reads(1, Byte(1)), ~broken'
  PROVE  /\ ~broken /\ UNCHANGED <<frames, eatonArrived>>
         /\ eatonTaken' = eatonTaken + 1 /\ eatonTaken + 1 <= eatonArrived
         /\ Byte(1) = <<Stream[eatonTaken + 1]>> /\ Stream[eatonTaken + 1] \in Nat
<1>1. /\ ~broken /\ UNCHANGED <<frames, eatonArrived>>
      /\ eatonTaken' = eatonTaken + 1 /\ eatonTaken + 1 <= eatonArrived
      /\ Byte(1) \in Seq(Nat) /\ Len(Byte(1)) = 1 /\ Byte(1)[1] = Stream[eatonTaken + 1]
  <2> DEFINE n == 1
  <2>1. n \in Nat /\ 1 \in 1 .. n /\ Reads(n, Byte(n))
    OBVIOUS
  <2> HIDE DEF n
  <2>2. /\ ~broken /\ UNCHANGED <<frames, eatonArrived>>
        /\ eatonTaken' = eatonTaken + n /\ eatonTaken + n <= eatonArrived
        /\ Byte(n) \in Seq(Nat) /\ Len(Byte(n)) = n
        /\ \A m \in 1 .. n : Byte(n)[m] = Stream[eatonTaken + m]
    BY <2>1, ReadsAll
  <2>3. Byte(n)[1] = Stream[eatonTaken + 1]
    BY <2>1, <2>2
  <2>4. QED
    BY <2>2, <2>3 DEF n
<1>2. Byte(1) = <<Byte(1)[1]>> /\ Byte(1)[1] \in Nat
  BY <1>1
<1>3. QED
  BY <1>1, <1>2

LEMMA FramesStay ==
  ASSUME UNCHANGED frames
  PROVE  /\ Stream' = Stream /\ FramesTyped' = FramesTyped
         /\ \A k : Start(k)' = Start(k) /\ Noise(k)' = Noise(k) /\ DataLen(k)' = DataLen(k)
  BY DEF Stream, FramesTyped, Start, Sent, Noise, DataLen

\* The frame the call is in
LEMMA FrameAt ==
  ASSUME InStep, FramesTyped, NEW k, k = Len(got) + 1, k <= Len(frames)
  PROVE  /\ k \in 1 .. Len(frames) /\ k - 1 = Len(got) /\ Len(got) \in Nat
         /\ Start(k - 1) \in Nat /\ Start(k) = Start(k - 1) + (Noise(k) + DataLen(k) + 3)
         /\ Noise(k) \in Nat /\ DataLen(k) \in Nat
<1>1. Len(got) \in Nat
  BY LenProperties DEF InStep
<1>2. Len(frames) \in Nat
  BY StreamAt
<1>3. k \in 1 .. Len(frames) /\ k - 1 = Len(got) /\ k - 1 \in 0 .. Len(frames)
  BY <1>1, <1>2
<1>4. Start(k - 1) \in Nat
  BY <1>3, StreamAt
<1>5. QED
  BY <1>1, <1>3, <1>4, StreamAt

LEMMA HeaderStep ==
  ASSUME InStep, FramesTyped, WaitForHeader, ~broken'
  PROVE  InStep'
<1> DEFINE c == Len(got)
           k == c + 1
           b == Stream[eatonTaken + 1]
<1>1. /\ eatonAt = "header" /\ UNCHANGED <<frames, eatonArrived, got>>
      /\ eatonTaken' = eatonTaken + 1 /\ eatonTaken + 1 <= eatonArrived
      /\ eatonAt' = IF <<b>> \in {<<>>, <<Header>>} THEN "length" ELSE "header"
  BY ReadsOne DEF WaitForHeader
<1>2. <<b>> \in {<<>>, <<Header>>} <=> b = Header
  OBVIOUS
<1>3. c \in Nat /\ c < Len(frames) /\ Len(frames) \in Nat
  <2>1. c \in Nat /\ c <= Len(frames) /\ Len(frames) \in Nat
    BY StreamAt, LenProperties DEF InStep
  <2>2. Len(Stream) \in Nat
    BY StreamAt, LenProperties
  <2>3. c # Len(frames)
    BY <1>1, <2>2 DEF InStep
  <2>4. QED
    BY <2>1, <2>3
<1>4. /\ k \in 1 .. Len(frames) /\ k - 1 = c /\ Start(k - 1) \in Nat /\ Noise(k) \in Nat
      /\ \A m \in 1 .. Noise(k) : Stream[Start(k - 1) + m] # Header
      /\ Stream[Start(k - 1) + (Noise(k) + 1)] = Header
  <2>1. k <= Len(frames)
    BY <1>3
  <2>2. k \in 1 .. Len(frames) /\ k - 1 = c /\ Start(k - 1) \in Nat /\ Noise(k) \in Nat
    BY <2>1, FrameAt
  <2>3. QED
    BY <2>2, StreamAt
<1>5. eatonTaken \in Nat /\ eatonTaken >= Start(c) /\ eatonTaken <= Start(c) + Noise(k)
  BY <1>1, <1>3 DEF InStep
<1> DEFINE s == Start(c)
           n == Noise(k)
<1>6. /\ s \in Nat /\ n \in Nat /\ eatonTaken \in Nat /\ eatonTaken >= s /\ eatonTaken <= s + n
      /\ \A m \in 1 .. n : Stream[s + m] # Header
      /\ Stream[s + (n + 1)] = Header
  BY <1>4, <1>5
<1> HIDE DEF s, n
<1>7. CASE eatonTaken < s + n
  <2> DEFINE m == eatonTaken - s + 1
  <2>1. m \in 1 .. n /\ s + m = eatonTaken + 1
    BY <1>6, <1>7
  <2> HIDE DEF m
  <2>2. b # Header
    BY <1>6, <2>1
  <2>3. eatonAt' = "header" /\ eatonTaken + 1 >= s /\ eatonTaken + 1 <= s + n
    BY <1>1, <1>2, <1>6, <1>7, <2>2
  <2>4. eatonTaken' \in Nat /\ eatonTaken' <= eatonArrived
    BY <1>1, <1>6
  <2>5. QED
    BY <1>1, <1>3, <2>3, <2>4, FramesStay DEF InStep, s, n
<1>8. CASE eatonTaken = s + n
  <2>1. eatonTaken + 1 = s + (n + 1)
    BY <1>6, <1>8
  <2>2. b = Header
    BY <1>6, <2>1
  <2>3. eatonAt' = "length" /\ eatonTaken' = s + (n + 1)
    BY <1>1, <1>2, <2>1, <2>2
  <2>4. eatonTaken' \in Nat /\ eatonTaken' <= eatonArrived
    BY <1>1, <1>6
  <2>5. InFrame(Len(got) + 1)'
    <3>1. eatonTaken' = Start(k - 1) + (Noise(k) + 1)
      BY <1>4, <2>3 DEF s, n
    <3>2. k <= Len(frames)
      BY <1>3
    <3>3. QED
      BY <1>1, <2>3, <3>1, <3>2, FramesStay DEF InFrame
  <2>6. QED
    BY <1>1, <2>3, <2>4, <2>5, FramesStay DEF InStep
<1>9. QED
  BY <1>6, <1>7, <1>8

LEMMA LengthStep ==
  ASSUME InStep, FramesTyped, GetLength, ~broken'
  PROVE  InStep'
<1> DEFINE k == Len(got) + 1
           b == Stream[eatonTaken + 1]
<1>1. /\ eatonAt = "length" /\ UNCHANGED <<frames, eatonArrived, got>>
      /\ eatonTaken' = eatonTaken + 1 /\ eatonTaken + 1 <= eatonArrived
      /\ packetbuf' = <<b>>
      /\ eatonAt' = IF packetbuf'[1] > MaxPacket THEN "idle" ELSE "data"
  BY ReadsOne DEF GetLength
<1>2. k <= Len(frames) /\ eatonTaken = Start(k - 1) + (Noise(k) + 1)
  BY <1>1 DEF InStep, InFrame
<1>3. k \in 1 .. Len(frames) /\ Start(k - 1) \in Nat /\ Noise(k) \in Nat /\ DataLen(k) \in Nat
  BY <1>2, FrameAt
<1>4. DataLen(k) + 1 <= MaxPacket /\ Stream[Start(k - 1) + (Noise(k) + 2)] = DataLen(k) + 1
  BY <1>3, StreamAt
<1>5. eatonTaken + 1 = Start(k - 1) + (Noise(k) + 2)
  BY <1>2, <1>3
<1>6. b = DataLen(k) + 1 /\ eatonAt' = "data"
  BY <1>1, <1>3, <1>4, <1>5 DEF MaxPacket
<1>7. eatonTaken' \in Nat /\ eatonTaken' <= eatonArrived
  BY <1>1 DEF InStep
<1>8. InFrame(Len(got) + 1)'
  BY <1>1, <1>2, <1>5, <1>6, FramesStay DEF InFrame
<1>9. QED
  BY <1>1, <1>6, <1>7, <1>8, FramesStay DEF InStep

LEMMA PacketIs ==
  ASSUME NEW d \in Seq(Nat)
  PROVE  Packet(d) \in Seq(Nat) /\ <<Len(d) + 1>> \o d = Packet(d)
<1>1. Len(d) + 1 \in Nat
  BY LenProperties
<1>2. <<Len(d) + 1>> \in Seq(Nat)
  BY <1>1
<1>3. QED
  BY <1>2, ConcatProperties DEF Packet

LEMMA DataReadStep ==
  ASSUME InStep, FramesTyped, GetData, ~broken'
  PROVE  InStep'
<1> DEFINE k == Len(got) + 1
           n == DataLen(k)
<1>1. eatonAt = "data" /\ k <= Len(frames)
      /\ eatonTaken = Start(k - 1) + (Noise(k) + 2) /\ packetbuf = <<n + 1>>
  BY DEF GetData, InStep, InFrame
<1>2. k \in 1 .. Len(frames) /\ Start(k - 1) \in Nat /\ Noise(k) \in Nat /\ n \in Nat
  BY <1>1, FrameAt
<1>3. packetbuf[1] - 1 = n
  BY <1>1, <1>2
<1>4. /\ Reads(n, Byte(n)) /\ packetbuf' = packetbuf \o Byte(n)
      /\ eatonAt' = "trailer" /\ UNCHANGED got
  BY <1>3 DEF GetData
<1> HIDE DEF n
<1>5. /\ UNCHANGED <<frames, eatonArrived>>
      /\ eatonTaken' = eatonTaken + n /\ eatonTaken + n <= eatonArrived
      /\ Byte(n) \in Seq(Nat) /\ Len(Byte(n)) = n
      /\ \A m \in 1 .. n : Byte(n)[m] = Stream[eatonTaken + m]
  BY <1>2, <1>4, ReadsAll
<1> DEFINE d == frames[k].data
<1>6. d \in Seq(Nat) /\ Len(d) = n
  BY <1>2, StreamAt DEF n, DataLen
<1>7. ASSUME NEW m \in 1 .. n PROVE Byte(n)[m] = d[m]
  <2>1. Stream[Start(k - 1) + (Noise(k) + 2 + m)] = d[m]
    BY <1>2, StreamAt DEF n
  <2>2. eatonTaken + m = Start(k - 1) + (Noise(k) + 2 + m)
    BY <1>1, <1>2
  <2>3. QED
    BY <1>5, <2>1, <2>2
<1> HIDE DEF d
<1>8. Byte(n) = d
  BY <1>5, <1>6, <1>7, SeqEqual
<1>9. packetbuf' = Packet(d)
  BY <1>1, <1>4, <1>6, <1>8, PacketIs
<1>10. eatonTaken' = Start(k - 1) + (Noise(k) + 2 + n) /\ eatonTaken' \in Nat
  <2> DEFINE s == Start(k - 1)
             l == Noise(k)
  <2>1. s \in Nat /\ l \in Nat /\ n \in Nat /\ eatonTaken' = s + (l + 2) + n
    BY <1>1, <1>2, <1>5 DEF n
  <2> HIDE DEF s, l
  <2>2. eatonTaken' = s + (l + 2 + n) /\ eatonTaken' \in Nat
    BY <2>1
  <2>3. QED
    BY <2>2 DEF s, l
<1>11. InFrame(Len(got) + 1)'
  BY <1>1, <1>4, <1>5, <1>9, <1>10, FramesStay DEF InFrame, d, n
<1>12. QED
  BY <1>4, <1>5, <1>10, <1>11, FramesStay DEF InStep

LEMMA TrailerStep ==
  ASSUME InStep, FramesTyped, GetTrailer, ~broken'
  PROVE  InStep'
<1> DEFINE k == Len(got) + 1
           b == Stream[eatonTaken + 1]
<1>1. /\ eatonAt = "trailer" /\ eatonAt' = "idle" /\ UNCHANGED <<frames, eatonArrived>>
      /\ eatonTaken' = eatonTaken + 1 /\ eatonTaken + 1 <= eatonArrived
      /\ Byte(1) = <<b>>
  BY ReadsOne DEF GetTrailer
<1>2. k <= Len(frames) /\ eatonTaken = Start(k - 1) + (Noise(k) + 2 + DataLen(k))
      /\ packetbuf = Packet(frames[k].data)
  BY <1>1 DEF InStep, InFrame
<1>3. /\ k \in 1 .. Len(frames) /\ k - 1 = Len(got) /\ Start(k - 1) \in Nat
      /\ Start(k) = Start(k - 1) + (Noise(k) + DataLen(k) + 3)
      /\ Noise(k) \in Nat /\ DataLen(k) \in Nat /\ Len(got) \in Nat
  BY <1>2, FrameAt
<1>4. eatonTaken + 1 = Start(k - 1) + (Noise(k) + DataLen(k) + 3)
  BY <1>2, <1>3
<1>5. Byte(1) = <<Trailer>>
  BY <1>1, <1>3, <1>4, StreamAt
<1>6. packetbuf \in Seq(Nat)
  BY <1>2, <1>3, StreamAt, PacketIs
<1>7. got' = Append(got, packetbuf)
  <2>1. Byte(1) # <<>>
    BY <1>1
  <2>2. QED
    BY <1>5, <2>1 DEF GetTrailer
<1>8. /\ got' \in Seq(Seq(Nat)) /\ Len(got') = k
      /\ \A j \in 1 .. Len(got) : got'[j] = got[j]
      /\ got'[k] = packetbuf
  BY <1>6, <1>7, AppendProperties DEF InStep
<1>9. \A j \in 1 .. Len(got') : got'[j] = Packet(frames[j].data)
  <2> TAKE j \in 1 .. Len(got')
  <2>1. j \in 1 .. Len(got) \/ j = k
    BY <1>3, <1>8
  <2>2. QED
    BY <1>2, <1>8, <2>1 DEF InStep
<1>10. eatonTaken' = Start(Len(got')) /\ eatonTaken' \in Nat
  BY <1>1, <1>3, <1>4, <1>8
<1>11. QED
  BY <1>1, <1>2, <1>8, <1>9, <1>10, FramesStay DEF InStep

LEMMA OtherSteps ==
  ASSUME InStep, FramesTyped, EatonArrives \/ EatonCalled \/ UNCHANGED eatonVars
  PROVE  InStep'
<1>1. CASE EatonArrives
  <2>1. /\ eatonArrived' \in eatonArrived + 1 .. Len(Stream)
        /\ UNCHANGED <<frames, eatonTaken, eatonAt, packetbuf, got>>
    BY <1>1 DEF EatonArrives, Stream
  <2>2. Len(Stream) \in Nat
    BY StreamAt, LenProperties
  <2>3. eatonArrived' \in Nat /\ eatonArrived' <= Len(Stream) /\ eatonTaken <= eatonArrived'
    BY <2>1, <2>2 DEF InStep
  <2>4. InFrame(Len(got) + 1)' <=> InFrame(Len(got) + 1)
    BY <2>1, FramesStay DEF InFrame
  <2>5. QED
    BY <2>1, <2>3, <2>4, FramesStay DEF InStep
<1>2. CASE EatonCalled
  <2> DEFINE c == Len(got)
  <2>1. /\ eatonAt = "idle" /\ eatonAt' = "header"
        /\ UNCHANGED <<frames, eatonArrived, eatonTaken, got>>
    BY <1>2 DEF EatonCalled
  <2>2. eatonTaken = Start(c) /\ eatonTaken \in Nat
    BY <2>1 DEF InStep
  <2>3. c < Len(frames) => eatonTaken <= Start(c) + Noise(c + 1)
    <3>1. SUFFICES ASSUME c < Len(frames) PROVE eatonTaken <= Start(c) + Noise(c + 1)
      OBVIOUS
    <3>2. c \in Nat /\ Len(frames) \in Nat
      BY StreamAt, LenProperties DEF InStep
    <3>3. Noise(c + 1) \in Nat
      BY <3>1, <3>2, FrameAt
    <3>4. QED
      BY <2>2, <3>3
  <2>4. c = Len(frames) => eatonTaken = Len(Stream)
    BY <2>2, StreamAt
  <2>5. eatonTaken >= Start(c)
    BY <2>2
  <2>6. QED
    BY <2>1, <2>3, <2>4, <2>5, FramesStay DEF InStep
<1>3. CASE UNCHANGED eatonVars
  <2>1. UNCHANGED <<frames, eatonArrived, eatonTaken, eatonAt, packetbuf, got>>
    BY <1>3 DEF eatonVars
  <2>2. InFrame(Len(got) + 1)' <=> InFrame(Len(got) + 1)
    BY <2>1, FramesStay DEF InFrame
  <2>3. QED
    BY <2>1, <2>2, FramesStay DEF InStep
<1>4. QED
  BY <1>1, <1>2, <1>3

LEMMA EatonSteps == EatonInv /\ [EatonNext]_eatonVars => EatonInv'
<1> SUFFICES ASSUME EatonInv, [EatonNext]_eatonVars PROVE EatonInv'
  OBVIOUS
<1>1. UNCHANGED frames
  BY DEF EatonNext, EatonArrives, EatonCalled, WaitForHeader, GetLength, GetData, GetTrailer,
         ReadErrs, Reads, eatonVars
<1>2. FramesTyped'
  BY <1>1, FramesStay DEF EatonInv
<1>3. ASSUME ~broken' PROVE ~broken
  BY <1>3 DEF EatonNext, EatonArrives, EatonCalled, WaitForHeader, GetLength, GetData,
              GetTrailer, ReadErrs, Reads, eatonVars
<1>4. ASSUME ~broken' PROVE InStep'
  <2>1. InStep /\ FramesTyped
    BY <1>3, <1>4 DEF EatonInv
  <2>2. ~ReadErrs
    BY <1>4 DEF ReadErrs
  <2>3. QED
    BY <1>4, <2>1, <2>2, HeaderStep, LengthStep, DataReadStep, TrailerStep, OtherSteps
    DEF EatonNext
<1>5. QED
  BY <1>2, <1>4 DEF EatonInv

\* The script is given the packets that were sent, in order, for any frames
\* whose noise holds no header and whose data fits, however they arrive, as
\* long as no read fails or is short.
THEOREM EatonTheorem == EatonSpec => []PacketsWhole
<1>1. EatonInit => EatonInv
  <2> SUFFICES ASSUME EatonInit PROVE EatonInv
    OBVIOUS
  <2>1. FramesTyped
    BY EatonAssumption DEF EatonInit, FramesTyped
  <2>2. Len(Stream) \in Nat /\ Start(0) = 0 /\ Len(frames) \in Nat
    BY <2>1, StreamAt, LenProperties
  <2>3. got \in Seq(Seq(Nat)) /\ Len(got) = 0
    BY DEF EatonInit
  <2>4. QED
    BY <2>1, <2>2, <2>3 DEF EatonInit, EatonInv, InStep
<1>2. EatonInv => PacketsWhole
  <2> SUFFICES ASSUME EatonInv, ~broken PROVE
                 /\ Len(got) <= Len(frames)
                 /\ \A k \in DOMAIN got : got[k] = Packet(frames[k].data)
                 /\ eatonAt = "idle" /\ eatonTaken = Len(Stream) => Len(got) = Len(frames)
    BY DEF PacketsWhole, Stream
  <2>1. InStep /\ FramesTyped
    BY DEF EatonInv
  <2>2. DOMAIN got = 1 .. Len(got)
    BY <2>1, LenProperties DEF InStep
  <2>3. ASSUME eatonAt = "idle", eatonTaken = Len(Stream), Len(got) # Len(frames) PROVE FALSE
    <3> DEFINE k == Len(got) + 1
    <3>1. Len(got) \in Nat /\ Len(frames) \in Nat /\ Len(got) <= Len(frames)
      BY <2>1, StreamAt, LenProperties DEF InStep
    <3>2. k <= Len(frames)
      BY <2>3, <3>1
    <3>3. /\ k \in 1 .. Len(frames) /\ k - 1 = Len(got) /\ Start(k - 1) \in Nat
          /\ Start(k) = Start(k - 1) + (Noise(k) + DataLen(k) + 3)
          /\ Noise(k) \in Nat /\ DataLen(k) \in Nat
      BY <2>1, <3>2, FrameAt
    <3>4. Start(k) \in 0 .. Len(Stream)
      <4>1. k \in 0 .. Len(frames)
        BY <3>1, <3>3
      <4>2. QED
        BY <2>1, <4>1, StreamAt
    <3>5. Start(k - 1) = Len(Stream)
      BY <2>1, <2>3, <3>3 DEF InStep
    <3>6. QED
      BY <3>3, <3>4, <3>5
  <2>4. QED
    BY <2>1, <2>2, <2>3 DEF InStep
<1>3. QED
  BY <1>1, <1>2, EatonSteps, PTL DEF EatonSpec
=============================================================================
