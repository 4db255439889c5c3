------------------------------- MODULE Snarf -------------------------------
(***************************************************************************)
(* snarf() (js.cpp): a file in the directory of the running script is      *)
(* returned as a string.  The length is asked for first, and another       *)
(* process may change the file meanwhile.  The file is its length, or      *)
(* absent; how its path is put together is left out.                       *)
(***************************************************************************)
EXTENDS Integers

CONSTANT Lengths     \* the lengths the file may have
ASSUME SnarfAssumption == Lengths \subseteq Nat

Absent == -1

VARIABLES
    fileLength,     \* the length of the file now
    snarfAt,        \* the next step
    snarfOk,        \* whether the file was read
    snarfHolds,     \* what has to be given back: "pathname", "file", "buf"
    snarfLen,       \* the length that was found
    cc,             \* the bytes of the file that are in the buffer
    text            \* the length of the string returned, or Absent

snarfVars == <<fileLength, snarfAt, snarfOk, snarfHolds, snarfLen, cc, text>>

SnarfInit ==
    /\ fileLength \in Lengths \cup {Absent}
    /\ snarfAt = "path" /\ snarfOk = FALSE /\ snarfHolds = {}
    /\ snarfLen = 0 /\ cc = 0 /\ text = Absent

\* A step that succeeds goes on to the next, one that fails to another.
Gets(what, from, next, error) ==
    /\ snarfAt = from
    /\ \/ snarfAt' = next /\ snarfHolds' = snarfHolds \cup {what}
       \/ snarfAt' = error /\ UNCHANGED snarfHolds
    /\ UNCHANGED <<fileLength, snarfOk, snarfLen, cc, text>>

MakeAbsolutePathname == Gets("pathname", "path", "open", "done")

Fopen == Gets("file", "open", "seek", "free") /\ (snarfAt' = "seek" => fileLength # Absent)

Mallocs == Gets("buf", "malloc", "read", "close")

\* To the end, to ask for the length, and back
SeeksLength ==
    /\ snarfAt = "seek" /\ snarfAt' \in {"malloc", "close"}
    /\ snarfLen' = fileLength
    /\ UNCHANGED <<fileLength, snarfOk, snarfHolds, cc, text>>

\* A mutant: it is not noticed when the file has become shorter.
FreadAny ==
    /\ snarfAt = "read" /\ snarfAt' = "close"
    /\ cc' \in 0 .. snarfLen /\ cc' <= fileLength
    /\ snarfOk' = TRUE
    /\ UNCHANGED <<fileLength, snarfHolds, snarfLen, text>>

\* No more than the length is read; less is an error, like a read that fails.
Fread ==
    /\ snarfAt = "read" /\ snarfAt' = "close"
    /\ cc' \in 0 .. snarfLen /\ cc' <= fileLength
    /\ snarfOk' = (cc' = snarfLen)
    /\ UNCHANGED <<fileLength, snarfHolds, snarfLen, text>>

Fclose ==
    /\ snarfAt = "close" /\ snarfAt' = "free"
    /\ snarfHolds' = snarfHolds \ {"file"}
    /\ UNCHANGED <<fileLength, snarfOk, snarfLen, cc, text>>

FreePathname ==
    /\ snarfAt = "free" /\ snarfAt' = IF snarfOk THEN "string" ELSE "buf"
    /\ snarfHolds' = snarfHolds \ {"pathname"}
    /\ UNCHANGED <<fileLength, snarfOk, snarfLen, cc, text>>

\* The buffer becomes the string's, or is freed.
NewString ==
    /\ snarfAt = "string" /\ snarfAt' \in {"done", "buf"}
    /\ text' = IF snarfAt' = "done" THEN snarfLen ELSE Absent
    /\ UNCHANGED <<fileLength, snarfOk, snarfHolds, snarfLen, cc>>

FreeBuf ==
    /\ snarfAt = "buf" /\ snarfAt' = "done"
    /\ snarfHolds' = snarfHolds \ {"buf"}
    /\ UNCHANGED <<fileLength, snarfOk, snarfLen, cc, text>>

FileChanges ==
    /\ snarfAt # "done" /\ fileLength # Absent
    /\ fileLength' \in Lengths \ {fileLength}
    /\ UNCHANGED <<snarfAt, snarfOk, snarfHolds, snarfLen, cc, text>>

SnarfNext ==
    \/ MakeAbsolutePathname \/ Fopen \/ SeeksLength \/ Mallocs \/ Fread
    \/ Fclose \/ FreePathname \/ NewString \/ FreeBuf \/ FileChanges

SnarfSpec == SnarfInit /\ [][SnarfNext]_snarfVars

-----------------------------------------------------------------------------

\* A string that snarf() returns holds bytes of the file and nothing else,
\* however the file changes between the question for its length and the
\* reading; and whichever step fails, the path, the file and the buffer are
\* given back, but for the buffer of a string that is returned.
SnarfWhole ==
    snarfAt = "done" =>
        IF text = Absent THEN snarfHolds = {} ELSE snarfHolds = {"buf"} /\ text = cc
=============================================================================
