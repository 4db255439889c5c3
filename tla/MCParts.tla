------------------------------ MODULE MCParts -------------------------------
(***************************************************************************)
(* Small instances of the parts of the shell that share no state, one of   *)
(* them in each behaviour.                                                 *)
(***************************************************************************)
EXTENDS CommandLine, Dso, Poll, Eaton, CountHeap,
        SplitObjects, Sandbox, Environ, Output, Its, Snarf

VARIABLE part

plumbingVars == <<consoleVars, dsoVars, pollVars, eatonVars, heapVars>>
toolVars == <<splitVars, sandboxVars, envVars, outputVars, itsVars, snarfVars>>
partVars == <<plumbingVars, toolVars, part>>

-----------------------------------------------------------------------------
(* Every command line of up to two words of all kinds, of three words      *)
(* without those that only differ in name, and of four around files.       *)

Words == {"-s", "-v", "-S", "-c", "-t", "-o", "-P", "-z", "-C", "-i", "-?",
          "-e", "-f", Stdin, "a", "gone", "strict"}
SomeWords == {"-S", "-o", "-t", "-s", "-e", "-f", "-i", "-C", "a", "gone", Stdin}
FileWords == {"-f", "-e", "-o", "a"}

MCArgvs ==
    UNION {[1 .. n -> Words] : n \in 0 .. 2} \cup [1 .. 3 -> SomeWords] \cup [1 .. 4 -> FileWords]

\* Lines shorter and longer than the buffers, empty ones, and a last line
\* without its end, when the command line is empty; otherwise one byte, or
\* with more than two words nothing.
L(n) == [k \in 1 .. n |-> "x"]
MCInputs == {<<>>, L(1), L(5) \o <<NL>>,
             L(1) \o <<NL>> \o L(1) \o <<NL>> \o L(4),
             L(3) \o <<NL, NL>> \o L(2)}
MostTyped(words) == IF words = 0 THEN 9 ELSE IF words > 2 THEN 0 ELSE 1

\* In milliseconds: none, and around a second
MCTimeouts == {-1, 0, 1, 999, 1000, 2500}

\* Packets without data, with one byte, and with the framing bytes as data;
\* noise that holds a trailer
MCData == {<<>>, <<7>>, <<Header, Trailer, 2>>}
MCFrames ==
    LET F == [noise : {<<>>, <<Trailer, 3>>}, data : MCData]
    IN UNION {[1 .. n -> F] : n \in 0 .. 2}

MCThings == {"o1", "o2", "s1"}
MCKindOf == [t \in MCThings |-> IF t = "s1" THEN "string" ELSE "object"]
MCHeaps == {h \in [MCThings \cup {Root} -> SUBSET MCThings] : h["s1"] = {}}

MCEnv == <<[name |-> "HOME", value |-> "a"]>>

-----------------------------------------------------------------------------

\* The parts a behaviour is not about stay in one of their initial states.
PartsInit ==
    /\ part \in {"console", "dso", "poll", "eaton", "countHeap",
                "split", "sandbox", "env", "output", "its", "snarf"}
    /\ CommandLineInit /\ (part # "console" => argv = <<>> /\ ~tty)
    /\ DsoInit
    /\ PollInit /\ (part # "poll" => closed = {} /\ sockArray = <<>>)
    /\ EatonInit /\ (part # "eaton" => frames = <<>>)
    /\ CountHeapInit
    /\ (part # "countHeap" => traceKind = AllKinds /\ \A t \in DOMAIN heap : heap[t] = {})
    /\ SplitInit /\ SandboxInit /\ EnvironInit /\ OutputInit /\ ItsInit
    /\ SnarfInit /\ (part # "snarf" => fileLength = Absent)

\* Bounds: the libraries are not followed beyond a clash, nor packets beyond
\* one that was not sent.
PartsNext ==
    /\ UNCHANGED part
    /\ \/ /\ part = "console" /\ ProcessArgs
          /\ Len(typed') <= MostTyped(Len(argv))
          /\ UNCHANGED <<dsoVars, pollVars, eatonVars, heapVars, toolVars>>
       \/ /\ part = "dso" /\ DsoNext /\ ~clash
          /\ UNCHANGED <<consoleVars, pollVars, eatonVars, heapVars, toolVars>>
       \/ /\ part = "poll" /\ PollNext
          /\ UNCHANGED <<consoleVars, dsoVars, eatonVars, heapVars, toolVars>>
       \/ /\ part = "eaton" /\ EatonNext /\ Len(got) <= Len(frames)
          /\ UNCHANGED <<consoleVars, dsoVars, pollVars, heapVars, toolVars>>
       \/ /\ part = "countHeap" /\ CountHeapNext
          /\ UNCHANGED <<consoleVars, dsoVars, pollVars, eatonVars, toolVars>>
       \/ /\ part = "split" /\ SplitNext
          /\ UNCHANGED <<plumbingVars, sandboxVars, envVars, outputVars, itsVars, snarfVars>>
       \/ /\ part = "sandbox" /\ SandboxNext
          /\ UNCHANGED <<plumbingVars, splitVars, envVars, outputVars, itsVars, snarfVars>>
       \/ /\ part = "env" /\ EnvironNext
          /\ UNCHANGED <<plumbingVars, splitVars, sandboxVars, outputVars, itsVars, snarfVars>>
       \/ /\ part = "output" /\ OutputNext
          /\ UNCHANGED <<plumbingVars, splitVars, sandboxVars, envVars, itsVars, snarfVars>>
       \/ /\ part = "its" /\ ItsNext
          /\ UNCHANGED <<plumbingVars, splitVars, sandboxVars, envVars, outputVars, snarfVars>>
       \/ /\ part = "snarf" /\ SnarfNext
          /\ UNCHANGED <<plumbingVars, splitVars, sandboxVars, envVars, outputVars, itsVars>>

PartsSpec == PartsInit /\ [][PartsNext]_partVars
=============================================================================
