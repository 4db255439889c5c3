------------------------------- MODULE Output -------------------------------
(***************************************************************************)
(* print(), write() and help() (js.cpp).  print and help use the stream    *)
(* gOutFile, whose text reaches the descriptor when its buffer is full or  *)
(* flushed; write() uses the descriptor itself.  An argument may be an     *)
(* object of the script, and the function that converts it to a string may *)
(* call these natives in turn.                                             *)
(*                                                                         *)
(* A piece is what one fprintf or write(2) is given, numbered in the order *)
(* of the calls; the separators go with them, and a piece is where its end *)
(* is.  The stream is fully buffered, as it is for a file or a pipe.  One  *)
(* thread calls the natives, and nothing else uses the stream.             *)
(***************************************************************************)
EXTENDS Integers, Sequences, SequencesExt

CONSTANTS
    MaxArgs,    \* bounds of the model: the arguments of a call, with the
                \* version that help() begins with,
    MaxPieces,  \* the pieces of all calls,
    MaxNested   \* and the calls within each other
ASSUME OutputAssumption ==
    MaxArgs \in Nat /\ MaxPieces \in Nat /\ MaxNested \in Nat

VARIABLES
    stream,     \* the pieces in gOutFile's buffer
    shown,      \* those the descriptor has taken
    said,       \* how many there are
    calls,      \* the natives that run, the innermost last: the arguments each
                \* has left, and the pieces it has said
    errno,      \* whether errno is set
    direct,     \* history: the pieces of write()
    returned,   \* history: how many there were when a print() or write() returned
    lost,       \* history: pieces the descriptor has not taken, or not whole
    told        \* history: how a native has just ended, and why

outputVars == <<stream, shown, said, calls, errno, direct, returned, lost, told>>

NotTold == [fn |-> "none", ok |-> TRUE, why |-> "", pieces |-> {}]

OutputInit ==
    /\ stream = <<>> /\ shown = <<>> /\ said = 0
    /\ calls = <<>> /\ errno = FALSE
    /\ direct = {} /\ returned = {} /\ lost = {} /\ told = NotTold

Runs(fns) == calls # <<>> /\ Last(calls).fn \in fns

\* The innermost native is done with an argument and has said some pieces.
ArgumentDone(pieces) ==
    /\ calls' = [calls EXCEPT ![Len(calls)] =
                    [fn |-> @.fn, left |-> @.left - 1, pieces |-> @.pieces \cup pieces]]
    /\ UNCHANGED <<returned, told>>

Ends(pieces, ok, why) ==
    LET fn == Last(calls).fn
    IN /\ calls' = Front(calls)
       /\ told' = [fn |-> fn, ok |-> ok, why |-> why,
                   pieces |-> Last(calls).pieces \cup pieces]
       /\ returned' = IF ok /\ fn # "help" THEN returned \cup {said} ELSE returned

-----------------------------------------------------------------------------
(* The arguments.                                                          *)

Processing(fns) == Runs(fns) /\ Last(calls).left > 0

\* print() and write() convert every argument; help() has said the version
\* before it looks at its own.
Converting ==
    /\ Processing({"print", "write", "help"})
    /\ Last(calls).fn = "help" => Last(calls).pieces # {}

\* A script calls a native, on its own or from a function that converts an
\* argument of another.  help() leaves errno alone.
OutputCalled ==
    /\ calls = <<>> \/ Converting
    /\ said < MaxPieces /\ Len(calls) < MaxNested
    /\ \E fn \in {"print", "write", "help"}, args \in 0 .. MaxArgs :
          /\ fn = "help" => args > 0
          /\ calls' = Append(calls, [fn |-> fn, left |-> args, pieces |-> {}])
          /\ errno' = (fn = "help" /\ errno)
    /\ told' = NotTold
    /\ UNCHANGED <<stream, shown, said, direct, returned, lost>>

\* The function throws, or lets pass what a native it called has thrown.
ArgumentThrows ==
    /\ Converting
    /\ Ends({}, FALSE, "threw")
    /\ UNCHANGED <<stream, shown, said, errno, direct, lost>>

\* The function calls what sets errno, or resets it.
ArgumentSetsErrno ==
    /\ Converting
    /\ errno' = ~errno
    /\ UNCHANGED <<stream, shown, said, calls, direct, returned, lost, told>>

\* help() has none for an argument, and says so elsewhere.
NoHelp ==
    /\ Converting /\ Runs({"help"})
    /\ ArgumentDone({})
    /\ UNCHANGED <<stream, shown, said, errno, direct, lost>>

\* The piece goes to the buffer.  When that is full, what it holds goes to the
\* descriptor first, or is lost, perhaps with the piece.
Fprintf(piece) ==
    \/ stream' = Append(stream, piece) /\ UNCHANGED <<shown, lost, errno>>
    \/ stream' = <<piece>> /\ shown' = shown \o stream /\ UNCHANGED <<lost, errno>>
    \/ /\ stream' \in {<<>>, <<piece>>}
       /\ lost' = lost \cup ToSet(stream) \cup ({piece} \ ToSet(stream'))
       /\ errno' = TRUE
       /\ UNCHANGED shown

\* print() looks at errno although fprintf may not have failed, help() at
\* neither.
Printed ==
    LET piece == said + 1
    IN /\ Processing({"print", "help"}) /\ said < MaxPieces
       /\ said' = piece
       /\ Fprintf(piece)
       /\ IF errno' /\ Runs({"print"}) THEN Ends({piece}, FALSE, "errno")
                                       ELSE ArgumentDone({piece})
       /\ UNCHANGED direct

\* What write(2) takes of a piece: all, a part or nothing
Taken(piece, took) ==
    /\ shown' = IF took = "none" THEN shown ELSE Append(shown, piece)
    /\ lost' = IF took = "all" THEN lost ELSE lost \cup {piece}
    /\ errno' = (errno \/ took = "none")

\* A mutant: a failed write(2) is not looked at.
WrittenUnchecked ==
    LET piece == said + 1
    IN /\ Processing({"write"}) /\ said < MaxPieces
       /\ said' = piece /\ direct' = direct \cup {piece}
       /\ \E took \in {"all", "part", "none"} : Taken(piece, took) /\ ArgumentDone({piece})
       /\ UNCHANGED stream

\* errno is looked at although write(2) may not have failed.
Written ==
    LET piece == said + 1
    IN /\ Processing({"write"}) /\ said < MaxPieces
       /\ said' = piece /\ direct' = direct \cup {piece}
       /\ \E took \in {"all", "part", "none"} :
             /\ Taken(piece, took)
             /\ IF errno' THEN Ends({piece}, FALSE, IF took = "none" THEN "failed" ELSE "errno")
                          ELSE ArgumentDone({piece})
       /\ UNCHANGED stream

-----------------------------------------------------------------------------
(* The ends.                                                               *)

Finishing(fn) == Runs({fn}) /\ Last(calls).left = 0

\* A mutant: the buffer is not flushed.
NoFlush == UNCHANGED <<stream, shown, lost, errno>>

\* The buffer is flushed; whether that worked is not looked at.
Fflush ==
    /\ stream' = <<>>
    /\ \/ shown' = shown \o stream /\ UNCHANGED <<lost, errno>>
       \/ lost' = lost \cup ToSet(stream) /\ errno' = TRUE /\ UNCHANGED shown

PrintEnds ==
    /\ Finishing("print")
    /\ Fflush /\ Ends({}, TRUE, "")
    /\ UNCHANGED <<said, direct>>

\* The count of the bytes the descriptor took is returned, after a flush.
WriteEnds ==
    /\ Finishing("write")
    /\ Fflush /\ Ends({}, TRUE, "")
    /\ UNCHANGED <<said, direct>>

HelpEnds ==
    /\ Finishing("help")
    /\ Ends({}, TRUE, "")
    /\ UNCHANGED <<stream, shown, said, errno, direct, lost>>

OutputNext ==
    \/ OutputCalled \/ ArgumentThrows \/ ArgumentSetsErrno \/ NoHelp
    \/ Printed \/ Written \/ PrintEnds \/ WriteEnds \/ HelpEnds

OutputSpec == OutputInit /\ [][OutputNext]_outputVars

-----------------------------------------------------------------------------
(* Properties.                                                             *)

\* What the natives say appears in the order in which they say it, with one
\* exception: a piece of write() may overtake what is in the buffer of the
\* stream, but never what was said before a print() or write() that has
\* returned in between.  So the only pieces that are overtaken are those of
\* help(), of a print() that failed, and of one that still runs while a
\* function that converts one of its arguments calls write().
OutputInOrder ==
    \A i, k \in DOMAIN shown : i < k /\ shown[k] < shown[i] =>
        /\ shown[i] \in direct /\ shown[k] \notin direct
        /\ \A r \in returned : r < shown[k] \/ r >= shown[i]

\* "write bytes to stdout, honor errors" (js.cpp:1072): when write() returns,
\* all its own pieces were taken, up to those the count it returns tells of,
\* and when it fails, something went wrong: an argument, a write(2), or errno
\* that an argument's function left set, or a native that it called.
WriteTells ==
    told.fn = "write" =>
        IF told.ok THEN told.pieces \subseteq ToSet(shown)
        ELSE told.why \in {"threw", "errno"} \/ told.pieces \cap lost # {}
=============================================================================
