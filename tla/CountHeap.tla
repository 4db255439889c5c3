----------------------------- MODULE CountHeap -----------------------------
(***************************************************************************)
(* countHeap() (js.cpp): the number of things of a kind that the collector *)
(* would reach from a thing, or from its roots.  The engine calls          *)
(* CountHeapNotify for every edge it follows; the things whose children    *)
(* are still to be traced are kept in a list, and its nodes used again.    *)
(***************************************************************************)
EXTENDS Integers, Sequences, SequencesExt

CONSTANTS
    Things,
    KindOf,     \* the kind of each thing
    Heaps       \* the heaps: which things each thing and the roots refer to

Root == "root"

\* The engine follows references between things of the heap.
ASSUME HeapAssumption ==
    IsFiniteSet(Things) /\ Heaps \subseteq [Things \cup {Root} -> SUBSET Things]

AllKinds == "all"

VARIABLES
    heap,           \* the heap; heap[Root] is what is traced first
    traceKind,
    heapAt,
    edges,          \* what the engine still has to notify of
    visited,
    traceList,      \* the things to trace, the next one first
    recycleList,    \* the number of its nodes
    counter, heapOk

heapVars == <<heap, traceKind, heapAt, edges, visited, traceList, recycleList, counter, heapOk>>

\* The start is a thing, or the roots.
CountHeapInit ==
    /\ heap \in Heaps
    /\ traceKind \in {AllKinds} \cup {KindOf[t] : t \in Things}
    /\ heapAt = "trace" /\ edges = heap[Root]
    /\ visited = {} /\ traceList = <<>> /\ recycleList = 0
    /\ counter = 0 /\ heapOk = TRUE

\* A mutant: things are pushed each time they are found.
FoundAlways(thing) == FALSE

Found(thing) == thing \in visited

\* The table of the visited or the list cannot grow: the count is given up,
\* and the rest of the notifications ignored.
NotifyFails(thing) ==
    /\ ~Found(thing)
    /\ heapOk' = FALSE
    /\ visited' \in {visited} \cup (IF recycleList = 0 THEN {visited \cup {thing}} ELSE {})
    /\ UNCHANGED <<traceList, recycleList>>

NotifyPushes(thing) ==
    /\ ~Found(thing)
    /\ visited' = visited \cup {thing}
    /\ recycleList' = IF recycleList > 0 THEN recycleList - 1 ELSE 0
    /\ traceList' = <<thing>> \o traceList
    /\ UNCHANGED heapOk

CountHeapNotify ==
    /\ heapAt = "trace"
    /\ \E thing \in edges :
          /\ edges' = edges \ {thing}
          /\ IF heapOk /\ ~Found(thing) THEN NotifyFails(thing) \/ NotifyPushes(thing)
             ELSE UNCHANGED <<visited, traceList, recycleList, heapOk>>
    /\ UNCHANGED <<heap, traceKind, heapAt, counter>>

\* The next thing is counted, its node put aside and its children traced.
CountNext ==
    /\ heapAt = "trace" /\ edges = {}
    /\ traceList # <<>>
    /\ counter' = IF traceKind \in {AllKinds, KindOf[Head(traceList)]} THEN counter + 1 ELSE counter
    /\ traceList' = Tail(traceList) /\ recycleList' = recycleList + 1
    /\ edges' = heap[Head(traceList)]
    /\ UNCHANGED <<heap, traceKind, heapAt, visited, heapOk>>

\* The nodes are freed and the table is finished.
CountEnds ==
    /\ heapAt = "trace" /\ edges = {}
    /\ traceList = <<>>
    /\ heapAt' = "done" /\ recycleList' = 0 /\ visited' = {}
    /\ UNCHANGED <<heap, traceKind, edges, traceList, counter, heapOk>>

CountHeapNext == CountHeapNotify \/ CountNext \/ CountEnds

CountHeapSpec == CountHeapInit /\ [][CountHeapNext]_heapVars

-----------------------------------------------------------------------------
(* Properties.                                                             *)

\* What can be reached from the start, by the definition: what is in every set
\* that holds what the start refers to, and all that its things refer to.
Closed(S) == heap[Root] \subseteq S /\ \A t \in S : heap[t] \subseteq S
Reachable == {t \in Things : \A S \in SUBSET Things : Closed(S) => t \in S}

OfKind(S) == {t \in S : traceKind \in {AllKinds, KindOf[t]}}

\* The count that is returned is the number of the things that can be reached
\* and are of the kind, in heaps with cycles and shared things, and a count
\* that was given up is not returned.
CountExact ==
    heapAt = "done" /\ heapOk =>
        counter = Cardinality(OfKind(Reachable))
=============================================================================
