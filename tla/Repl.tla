-------------------------------- MODULE Repl --------------------------------
(***************************************************************************)
(* The prompt of the shell (js.cpp): GetLine reads a line of any length    *)
(* with fgets into a buffer that doubles, and Process collects lines in    *)
(* another one until they are a compilable unit, compiles and runs them,   *)
(* and uses that buffer again for the next statement.  The statement may   *)
(* call readline(), which reads the same input with a buffer of its own.   *)
(*                                                                         *)
(* The variant of GetLine without EDITLINE; what is typed is a sequence of *)
(* bytes none of which is NUL.  The watchdog's part is in Shell.           *)
(***************************************************************************)
EXTENDS Integers, Sequences, SequencesExt

CONSTANTS
    LineSize,   \* 80: the first size of GetLine's buffer
    BufSize,    \* BUFSIZE, 256: the first size of readline()'s buffer
    Inputs,     \* what may be typed at the prompt
    QuitCodes   \* what scripts give to quit()

NL == "nl"
NoBuffer == <<"NULL">>

\* What may be typed: bytes that are not NUL
Char == (STRING \cup {NL}) \ {"NULL"}

ASSUME ReplAssumption ==
    /\ LineSize \in Nat \ {0, 1} /\ BufSize \in Nat \ {0, 1}
    /\ Inputs \subseteq Seq(Char) /\ QuitCodes \subseteq Int

VARIABLES
    typed, pos,         \* the input, and how much of it was read
    line, lineSize,     \* GetLine: what it has, and the room for it
    buffer,             \* Process: what the buffer holds, or NULL ...
    size, len,          \* ... its room, and how much of it is the statement
    lineno, startline,
    hitEOF,
    at,                 \* where Process is
    compileOnly,        \* the option -C
    gExitCode,          \* what the shell will exit with
    gQuitting,          \* quit() was called
    used,               \* history: the bytes the last strcpy filled
    buf, bufsize,       \* readline(): what it has, and the room for it
    compiled            \* history: the input used, and what for

lineVars == <<typed, pos, line, lineSize>>
bufferVars == <<buffer, size, len, lineno, used>>
exitVars == <<gExitCode, gQuitting>>
readVars == <<buf, bufsize>>
replVars == <<lineVars, bufferVars, readVars, startline, hitEOF, at, compiled>>

ReplInit ==
    /\ typed = <<>> /\ pos = 0
    /\ line = <<>> /\ lineSize = 0
    /\ buffer = NoBuffer /\ size = 0 /\ len = 0
    /\ lineno = 1 /\ startline = 1
    /\ hitEOF = FALSE
    /\ at = "off"
    /\ buf = <<>> /\ bufsize = 0
    /\ used = 0 /\ compiled = <<>>

\* What a script may leave behind: nothing, the code of an error it reported
\* (my_ErrorReporter; the codes for memory and timeouts are no different), and
\* if it is run and not only compiled the code it gives to quit(), which
\* without one keeps what is there.  quit() also quits when its argument cannot
\* be converted and an error is reported.
EXITCODE_RUNTIME_ERROR == 3
EXITCODE_OUT_OF_MEMORY == 5

Outcomes(runs) ==
    [code : {gExitCode, EXITCODE_RUNTIME_ERROR}, quits : {gQuitting}]
        \cup (IF ~runs THEN {}
              ELSE [code : {gExitCode, EXITCODE_RUNTIME_ERROR} \cup QuitCodes, quits : {TRUE}])

Leaves(outcome) == gExitCode' = outcome.code /\ gQuitting' = outcome.quits

-----------------------------------------------------------------------------
(* GetLine.                                                                *)

Prompt ==
    /\ at = "prompt"
    /\ startline' = lineno
    /\ len' = 0
    /\ at' = "getline"
    /\ UNCHANGED <<lineVars, readVars, buffer, size, lineno, used, hitEOF, compileOnly, exitVars, compiled>>

GetLine ==
    /\ at = "getline"
    /\ line' = <<>> /\ lineSize' = LineSize
    /\ at' = "fgets"
    /\ UNCHANGED <<typed, pos, bufferVars, readVars, startline, hitEOF, compileOnly, exitVars, compiled>>

\* What fgets returns: at most n - 1 bytes, up to the end of the line
Fgets(n) ==
    LET rest == SubSeq(typed, pos + 1, Len(typed))
        most == SubSeq(rest, 1, Min({n - 1, Len(rest)}))
        ends == {k \in DOMAIN most : most[k] = NL}
    IN IF ends = {} THEN most ELSE SubSeq(most, 1, Min(ends))

\* A mutant: the rest of a long line is read over its beginning.
ReadOver(got) == got

\* "current = buffer + len": what is read goes behind what there is.
ReadBehind(got) == line \o got

\* One turn of the loop: the end of the line is removed, or the buffer doubled
\* when it is full.
ReadChunk ==
    LET got == Fgets(lineSize - Len(line))
        all == ReadBehind(got)
    IN /\ at = "fgets"
       /\ got # <<>>
       /\ pos' = pos + Len(got)
       /\ IF Last(all) = NL
          THEN line' = Front(all) /\ at' = "line" /\ UNCHANGED lineSize
          ELSE /\ line' = all
               /\ lineSize' = IF Len(all) + 1 = lineSize THEN 2 * lineSize ELSE lineSize
               /\ UNCHANGED at
       /\ UNCHANGED <<typed, bufferVars, readVars, startline, hitEOF, compileOnly, exitVars, compiled>>

\* The end of the input: a line without its end is a line, and with nothing
\* at all Process compiles what it has, if it ever had a buffer.
EndOfFile ==
    /\ at = "fgets"
    /\ pos = Len(typed)
    /\ IF line # <<>>
       THEN at' = "line" /\ UNCHANGED hitEOF
       ELSE /\ hitEOF' = TRUE
            /\ at' = IF buffer = NoBuffer THEN "done" ELSE "compile"
    /\ UNCHANGED <<lineVars, bufferVars, readVars, startline, compileOnly, exitVars, compiled>>

\* malloc, realloc or read(2) fails: GetLine returns NULL with errno set, which
\* Process reports before it returns.
LineFails ==
    /\ at \in {"getline", "fgets"}
    /\ gExitCode' = EXITCODE_RUNTIME_ERROR
    /\ at' = "done"
    /\ UNCHANGED <<lineVars, bufferVars, readVars, startline, hitEOF, compileOnly, gQuitting, compiled>>

-----------------------------------------------------------------------------
(* Process.                                                                *)

\* A mutant: the room for the end of the line between two lines is forgotten.
GrowsForLine(n) == IF n > size THEN Max({n, 2 * size}) ELSE size

\* The room for n bytes and a NUL, at least doubled if there is not enough
Grown(n) == IF n + 1 > size THEN Max({n + 1, 2 * size}) ELSE size

FirstLine ==
    /\ buffer = NoBuffer
    /\ buffer' = line
    /\ len' = Len(line)
    /\ size' = Len(line) + 1
    /\ used' = Len(line) + 1

\* "len + 1 is required to store '\n' in the end of line": the end of the line
\* is stored between the lines of a statement, and counted when the statement
\* is not empty.
AppendLine ==
    LET newlen == Len(line) + (IF len # 0 THEN len + 1 ELSE 0)
        kept == SubSeq(buffer, 1, len)
        text == kept \o (IF startline # lineno THEN <<NL>> ELSE <<>>) \o line
    IN /\ buffer # NoBuffer
       /\ buffer' = text
       /\ len' = newlen
       /\ size' = Grown(newlen)
       /\ used' = Len(text) + 1

\* Whether the engine wants more is not modelled, but that it never does when
\* there is nothing yet.  ScheduleWatchdog may fail.
TakeLine ==
    /\ at = "line"
    /\ FirstLine \/ AppendLine
    /\ lineno' = lineno + 1
    /\ \/ at' = "compile" /\ hitEOF' \in BOOLEAN
       \/ len' > 0 /\ at' = "getline" /\ UNCHANGED hitEOF
    /\ UNCHANGED <<lineVars, readVars, startline, compileOnly, exitVars, compiled>>

\* JS_ReportOutOfMemory, and Process returns.
BufferFails ==
    /\ at = "line"
    /\ buffer # NoBuffer
    /\ gExitCode' = EXITCODE_OUT_OF_MEMORY
    /\ at' = "done"
    /\ UNCHANGED <<lineVars, bufferVars, readVars, startline, hitEOF, compileOnly, gQuitting, compiled>>

\* The statement is compiled and, without -C, run.
Compile ==
    /\ at = "compile"
    /\ compiled' = Append(compiled, [by |-> "typein", first |-> startline,
                                     text |-> Append(SubSeq(buffer, 1, len), NL)])
    /\ at' = "run"
    /\ UNCHANGED <<lineVars, bufferVars, readVars, startline, hitEOF, compileOnly, exitVars>>

\* It ends, and may have called quit().
StatementEnds ==
    /\ at = "run"
    /\ \E outcome \in Outcomes(~compileOnly) : Leaves(outcome)
    /\ buffer' = <<>>
    /\ at' = IF hitEOF \/ gQuitting' THEN "done" ELSE "prompt"
    /\ UNCHANGED <<lineVars, readVars, size, len, lineno, used, startline, hitEOF,
                   compileOnly, compiled>>

-----------------------------------------------------------------------------
(* readline().                                                             *)

CallReadLine ==
    /\ at = "run" /\ ~compileOnly
    /\ buf' = <<>> /\ bufsize' = BufSize
    /\ at' = "readline"
    /\ UNCHANGED <<lineVars, bufferVars, startline, hitEOF, compileOnly, exitVars, compiled>>

\* A line has its end, or it filled the buffer and there is more, or the input
\* has ended.
ReadLineChunk ==
    LET got == Fgets(bufsize - Len(buf))
        all == buf \o got
    IN /\ at = "readline"
       /\ got # <<>>
       /\ pos' = pos + Len(got)
       /\ buf' = all
       /\ IF Last(all) # NL /\ Len(all) >= bufsize - 1
          THEN bufsize' = 2 * bufsize /\ UNCHANGED at
          ELSE at' = "gotline" /\ UNCHANGED bufsize
       /\ UNCHANGED <<typed, line, lineSize, bufferVars, startline, hitEOF, compileOnly,
                      exitVars, compiled>>

\* null is returned if there is no more input.
ReadLineEnds ==
    /\ at = "readline" /\ pos = Len(typed)
    /\ IF buf = <<>> THEN at' = "run" /\ bufsize' = 0 ELSE at' = "gotline" /\ UNCHANGED bufsize
    /\ UNCHANGED <<lineVars, bufferVars, buf, startline, hitEOF, compileOnly,
                   exitVars, compiled>>

\* The script is given the line, or an allocation fails, here or on the way,
\* and what was read is lost.
ReadLine ==
    /\ \/ at = "gotline"
       \/ at = "readline" /\ buf # <<>>
    /\ at' = "run"
    /\ \E by \in {"readline", "lost"} :
          /\ by = "readline" => at = "gotline"
          /\ compiled' = Append(compiled, [by |-> by, first |-> 0, text |-> buf])
    /\ buf' = <<>> /\ bufsize' = 0
    /\ UNCHANGED <<lineVars, bufferVars, startline, hitEOF, compileOnly, exitVars>>

Repl ==
    \/ Prompt
    \/ GetLine
    \/ ReadChunk
    \/ EndOfFile
    \/ LineFails
    \/ TakeLine
    \/ BufferFails
    \/ Compile
    \/ StatementEnds
    \/ CallReadLine
    \/ ReadLineChunk
    \/ ReadLineEnds
    \/ ReadLine

-----------------------------------------------------------------------------
(* Properties.                                                             *)

\* The input that was used, in the order it was used, and that of the
\* statements alone
Replay(used_) == FlattenSeq([k \in DOMAIN used_ |-> used_[k].text])
Statements(used_) ==
    FlattenSeq([k \in DOMAIN used_ |->
                   IF used_[k].by = "typein" THEN used_[k].text ELSE <<>>])

Newlines(text) == Cardinality({k \in DOMAIN text : text[k] = NL})

\* "This should be whenever we get a complete statement that coincides with
\* the end of a line" (Process): whenever the prompt is back, the statements
\* and the lines readline() returned are what was read, once and in order,
\* whatever the lengths of the lines and the buffers before; each line of
\* readline() is one line, or the rest of the input; and each statement knows
\* its first line, of the lines that were typed as statements.
StatementsWhole ==
    at = "prompt" =>
        /\ Replay(compiled) \in {SubSeq(typed, 1, pos), Append(SubSeq(typed, 1, pos), NL)}
        /\ \A j \in DOMAIN compiled :
              LET text == compiled[j].text
              IN CASE compiled[j].by = "typein" ->
                        compiled[j].first = 1 + Newlines(Statements(SubSeq(compiled, 1, j - 1)))
                   [] compiled[j].by = "readline" ->
                        /\ \A k \in DOMAIN text : text[k] = NL => k = Len(text)
                        /\ Last(text) = NL \/ pos = Len(typed)
                   [] OTHER -> TRUE

\* No buffer is written past its end: a line and the NUL behind it fit, though
\* sizes are counted apart from what is stored.
BuffersFit ==
    /\ at \in {"fgets", "line"} => Len(line) + 1 <= lineSize
    /\ at \in {"readline", "gotline"} => Len(buf) + 1 <= bufsize
    /\ used <= size
    /\ buffer # NoBuffer /\ at \notin {"prompt", "done"} => len <= Len(buffer)
=============================================================================
