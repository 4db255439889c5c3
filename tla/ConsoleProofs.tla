--------------------------- MODULE ConsoleProofs ----------------------------
(***************************************************************************)
(* Proofs about the command line and the prompt: the exit status tells of  *)
(* failures and a script gets the words after it, for any command line;    *)
(* the buffers hold what is written to them, for any first sizes, and the  *)
(* statements and readline() return what was typed, for any input.         *)
(***************************************************************************)
EXTENDS CommandLine, FiniteSetTheorems, DataLemmas

-----------------------------------------------------------------------------
(* The exit status.  As long as ProcessArgs goes on no file of -f has left *)
(* a code, so one that leaves a code is the last.                          *)

Words == STRING \cup {None, Stdin}
Runs == [how : {"-e", "-f", "last"}, what : Words, code : Int, at : Int]

StatusTypes ==
    /\ argv \in Seq(STRING) /\ i \in Nat \ {0} /\ filename \in Words
    /\ gExitCode \in Int
    /\ pc \in {"scan", "options", "-f", "last", "exited"}
    /\ ran \in Seq(Runs)

\* Process is at the prompt only where ProcessArgs has called it.
Prompting ==
    /\ pc \in {"scan", "options", "exited"} => at = "off"
    /\ pc = "last" /\ at # "off" =>
          IsPrompt(filename, forceTTY) /\ (filename # None \/ isInteractive)

NoneFailed ==
    pc # "exited" =>
        /\ result = Running
        /\ \A k \in DOMAIN ran : ran[k].how = "-f" => ran[k].code = 0

StatusInv == StatusTypes /\ Prompting /\ NoneFailed /\ StatusTells

LEMMA OutcomesAreCodes ==
  ASSUME gExitCode \in Int, NEW runs, NEW outcome \in Outcomes(runs), Leaves(outcome)
  PROVE  gExitCode' \in Int
<1>1. \/ outcome \in [code : {gExitCode, 3}, quits : {gQuitting}]
      \/ outcome \in [code : {gExitCode, 3} \cup QuitCodes, quits : {TRUE}]
  BY DEF Outcomes, EXITCODE_RUNTIME_ERROR
<1>2. outcome.code \in {gExitCode, 3} \cup QuitCodes
  BY <1>1
<1>3. \A c \in QuitCodes : c \in Int
  BY ReplAssumption
<1>4. gExitCode' \in {gExitCode, 3} \cup QuitCodes
  BY <1>2 DEF Leaves
<1>5. QED
  BY <1>3, <1>4

LEMMA RanOneMore ==
  ASSUME ran \in Seq(Runs), NEW how \in {"-e", "-f", "last"}, NEW what \in Words,
         gExitCode' \in Int, i \in Int, Ran(how, what)
  PROVE  /\ ran' \in Seq(Runs) /\ Len(ran') = Len(ran) + 1
         /\ \A k \in DOMAIN ran' :
               \/ k \in DOMAIN ran /\ ran'[k] = ran[k]
               \/ k = Len(ran') /\ ran'[k].how = how /\ ran'[k].code = gExitCode'
<1> DEFINE e == [how |-> how, what |-> what, code |-> gExitCode', at |-> i]
<1>1. e \in Runs /\ e.how = how /\ e.code = gExitCode'
  BY DEF Runs
<1>2. ran' = Append(ran, e)
  BY DEF Ran
<1> HIDE DEF e
<1>3. QED
  BY <1>1, <1>2

\* A step that goes on, with nothing run
LEMMA GoesOn ==
  ASSUME StatusInv, pc # "exited", pc' \in {"options", "-f", "last"},
         UNCHANGED <<argv, ran, result>>,
         i' \in Nat \ {0}, filename' \in Words, gExitCode' \in Int, Prompting'
  PROVE  StatusInv'
<1>1. StatusTypes' /\ NoneFailed'
  BY DEF StatusInv, StatusTypes, NoneFailed
<1>2. StatusTells'
  BY DEF StatusInv, NoneFailed, StatusTells, Running
<1>3. QED
  BY <1>1, <1>2 DEF StatusInv

\* A step that ends the shell, with nothing run
LEMMA Exits ==
  ASSUME StatusInv, pc # "exited", pc' = "exited", at' = "off",
         UNCHANGED <<argv, i, filename, ran>>, gExitCode' \in Int,
         result' = 0 => gExitCode' = 0 \/ argv[i] \in {"-t", "-P"}
  PROVE  StatusInv'
<1>1. StatusTypes' /\ NoneFailed' /\ Prompting'
  BY DEF StatusInv, StatusTypes, NoneFailed, Prompting
<1>2. StatusTells'
  BY DEF StatusInv, NoneFailed, StatusTells
<1>3. QED
  BY <1>1, <1>2 DEF StatusInv

LEMMA OptionsTell ==
  ASSUME StatusInv,
         \/ MakeArguments \/ Setting \/ ChunkSizeCrashes \/ Usage \/ CompileOnly \/ Interactive
         \/ ToggleOption \/ SetTimeout \/ NewGlobal \/ ScriptFile \/ NoMoreOptions
  PROVE  StatusInv'
<1> USE DEF StatusInv, StatusTypes, Prompting, replVars, exitVars, optionVars, modeVars,
            At, Advance, Leave, Exit, EXITCODE_RUNTIME_ERROR, EXITCODE_OUT_OF_MEMORY
<1>1. CASE MakeArguments
  <2>1. /\ pc = "scan" /\ UNCHANGED <<argv, i, filename, ran, gExitCode, at>>
        /\ \/ pc' = "options" /\ UNCHANGED result
           \/ pc' = "exited" /\ result' = 1
    BY <1>1 DEF MakeArguments
  <2>2. QED
    BY <2>1, GoesOn, Exits
<1>2. CASE Setting
  BY <1>2, GoesOn DEF Setting
<1>3. CASE ChunkSizeCrashes
  BY <1>3, Exits DEF ChunkSizeCrashes, Crashed
<1>4. CASE Usage
  BY <1>4, Exits DEF Usage
<1>5. CASE CompileOnly
  BY <1>5, GoesOn DEF CompileOnly
<1>6. CASE Interactive
  BY <1>6, GoesOn DEF Interactive
<1>7. CASE ToggleOption
  <2>1. /\ pc = "options" /\ UNCHANGED <<argv, filename, ran, at>> /\ gExitCode' \in Int
        /\ \/ pc' = "options" /\ i' = i + 2 /\ UNCHANGED result
           \/ pc' = "exited" /\ i' = i /\ result' = gExitCode'
    BY <1>7 DEF ToggleOption
  <2>2. QED
    BY <2>1, GoesOn, Exits
<1>8. CASE SetTimeout
  <2>1. /\ pc = "options" /\ argv[i] = "-t"
        /\ UNCHANGED <<argv, filename, ran, at>> /\ gExitCode' \in Int
        /\ \/ pc' = "options" /\ i' = i + 2 /\ UNCHANGED result
           \/ pc' = "exited" /\ i' = i
    BY <1>8 DEF SetTimeout
  <2>2. QED
    BY <2>1, GoesOn, Exits
<1>9. CASE NewGlobal
  <2>1. /\ pc = "options" /\ UNCHANGED <<argv, filename, ran, at>> /\ gExitCode' \in Int
        /\ \/ pc' = "options" /\ i' = i + 1 /\ UNCHANGED result
           \/ /\ pc' = "exited" /\ i' = i
              /\ result' = IF argv[i] = "-P" THEN 0 ELSE gExitCode'
    BY <1>9 DEF NewGlobal
  <2>2. QED
    BY <2>1, GoesOn, Exits
<1>10. CASE ScriptFile
  <2>1. argv[i] \in Words
    BY <1>10, ElementOfSeq DEF ScriptFile, Words
  <2>2. QED
    BY <1>10, <2>1, GoesOn DEF ScriptFile
<1>11. CASE NoMoreOptions
  BY <1>11, GoesOn DEF NoMoreOptions
<1>12. QED
  BY <1>1, <1>2, <1>3, <1>4, <1>5, <1>6, <1>7, <1>8, <1>9, <1>10, <1>11

\* What a run of a file leaves
LEMMA FileLeaves ==
  ASSUME gExitCode \in Int, NEW how, NEW name, NEW force, ProcessFile(how, name, force)
  PROVE  gExitCode' \in Int /\ ~IsPrompt(name, force) /\ Ran(how, name)
  BY OutcomesAreCodes DEF ProcessFile, EXITCODE_FILE_NOT_FOUND

LEMMA OperandIsWord ==
  ASSUME StatusTypes, HasOperand
  PROVE  Operand \in Words
  BY ElementOfSeq DEF StatusTypes, HasOperand, Operand, Words

LEMMA RunsTell ==
  ASSUME StatusInv, Evaluate \/ RunFile \/ RunLast
  PROVE  StatusInv'
<1> USE DEF StatusInv, StatusTypes, Prompting, NoneFailed, StatusTells, Running
<1>1. CASE Evaluate
  <2>1. /\ pc = "options" /\ Operand \in Words /\ gExitCode' \in Int /\ Ran("-e", Operand)
        /\ i' = i + 2 /\ UNCHANGED <<argv, pc, result, filename, at>>
    BY <1>1, OutcomesAreCodes, OperandIsWord
    DEF Evaluate, At, Advance, replVars, optionVars
  <2>2. /\ ran' \in Seq(Runs)
        /\ \A k \in DOMAIN ran' : ran'[k].how = "-f" => ran'[k].code = 0
    BY <2>1, RanOneMore
  <2>3. QED
    BY <2>1, <2>2
<1>2. CASE RunFile
  <2>1. /\ pc = "options" /\ Operand \in Words /\ gExitCode' \in Int /\ Ran("-f", Operand)
        /\ IF gExitCode' # 0
           THEN pc' = "exited" /\ result' = gExitCode' /\ UNCHANGED i
           ELSE i' = i + 2 /\ UNCHANGED <<pc, result>>
        /\ UNCHANGED <<argv, filename, at>>
    BY <1>2, FileLeaves, OperandIsWord DEF RunFile, At, Advance, Leave, Exit, replVars, optionVars
  <2>2. /\ ran' \in Seq(Runs)
        /\ \A k \in DOMAIN ran' :
              ran'[k].how = "-f" => ran'[k].code = 0 \/ (k = Len(ran') /\ ran'[k].code = gExitCode')
    BY <2>1, RanOneMore
  <2>3. QED
    BY <2>1, <2>2
<1>3. CASE RunLast
  <2>1. /\ pc = "last" /\ pc' = "exited" /\ result' = gExitCode'
        /\ UNCHANGED <<argv, i, filename, at>>
        /\ \/ ProcessFile("last", filename, forceTTY)
           \/ ~(filename # None \/ isInteractive) /\ UNCHANGED <<gExitCode, ran>>
    BY <1>3 DEF RunLast, Leave, Exit, replVars, exitVars, optionVars, modeVars
  <2>2. CASE ProcessFile("last", filename, forceTTY)
    <3>1. gExitCode' \in Int /\ ~IsPrompt(filename, forceTTY) /\ Ran("last", filename)
      BY <2>2, FileLeaves
    <3>2. /\ ran' \in Seq(Runs)
          /\ \A k \in DOMAIN ran' : ran'[k].how = "-f" => ran'[k].code = 0
      BY <2>1, <3>1, RanOneMore
    <3>3. QED
      BY <2>1, <3>1, <3>2
  <2>3. CASE ~(filename # None \/ isInteractive) /\ UNCHANGED <<gExitCode, ran>>
    BY <2>1, <2>3
  <2>4. QED
    BY <2>1, <2>2, <2>3
<1>4. QED
  BY <1>1, <1>2, <1>3

LEMMA PromptTells ==
  ASSUME StatusInv, PromptForFile \/ PromptLast \/ AtPrompt \/ PromptReturns
  PROVE  StatusInv'
<1> USE DEF StatusInv, StatusTypes, Prompting, exitVars, optionVars, modeVars
<1>1. CASE PromptForFile
  <2>1. /\ pc = "options" /\ pc' = "-f"
        /\ UNCHANGED <<argv, i, filename, ran, result, gExitCode>>
    BY <1>1 DEF PromptForFile, ProcessPrompt, At
  <2>2. QED
    BY <2>1, GoesOn
<1>2. CASE PromptLast
  <2>1. /\ pc = "last" /\ pc' = "last"
        /\ UNCHANGED <<argv, i, filename, forceTTY, isInteractive, tty, ran, result, gExitCode>>
        /\ IsPrompt(filename, forceTTY) /\ (filename # None \/ isInteractive)
    BY <1>2 DEF PromptLast, ProcessPrompt
  <2>2. Prompting'
    BY <2>1 DEF IsPrompt, UsesStdin
  <2>3. QED
    BY <2>1, <2>2, GoesOn
<1>3. CASE AtPrompt
  <2>1. at # "off"
    BY <1>3 DEF AtPrompt, Repl, Prompt, GetLine, ReadChunk, EndOfFile, LineFails, TakeLine,
                BufferFails, Compile, StatementEnds, CallReadLine, ReadLineChunk, ReadLineEnds,
                ReadLine
  <2>2. gExitCode' \in Int
    <3>1. CASE UNCHANGED gExitCode
      BY <3>1
    <3>2. CASE LineFails \/ BufferFails
      BY <3>2 DEF LineFails, BufferFails, EXITCODE_RUNTIME_ERROR, EXITCODE_OUT_OF_MEMORY
    <3>3. CASE StatementEnds
      BY <3>3, OutcomesAreCodes DEF StatementEnds
    <3>4. QED
      BY <1>3, <3>1, <3>2, <3>3
      DEF AtPrompt, Repl, Prompt, GetLine, ReadChunk, EndOfFile, TakeLine, Compile,
          CallReadLine, ReadLineChunk, ReadLineEnds, ReadLine
  <2>3. UNCHANGED <<argv, i, filename, forceTTY, isInteractive, tty, pc, ran, result>>
    BY <1>3 DEF AtPrompt
  <2>4. Prompting'
    BY <2>1, <2>3 DEF IsPrompt, UsesStdin
  <2>5. QED
    BY <2>1, <2>2, <2>3, <2>4, GoesOn
<1>4. CASE PromptReturns
  <2>1. /\ at = "done" /\ at' = "off" /\ UNCHANGED <<argv, filename, gExitCode>> /\ Ran(pc, Stdin)
        /\ \/ /\ pc = "-f" /\ gExitCode = 0 /\ i' = i + 2 /\ pc' = "options" /\ UNCHANGED result
           \/ pc' = "exited" /\ result' = gExitCode /\ i' = i
    BY <1>4 DEF PromptReturns, Leave, Exit
  <2>2. pc \in {"-f", "last"} /\ Stdin \in Words
    BY <2>1 DEF Words
  <2>3. /\ ran' \in Seq(Runs)
        /\ \A k \in DOMAIN ran' :
              \/ k \in DOMAIN ran /\ ran'[k] = ran[k]
              \/ k = Len(ran') /\ ran'[k].how = pc /\ ran'[k].code = gExitCode'
    BY <2>1, <2>2, RanOneMore
  <2>4. QED
    BY <2>1, <2>2, <2>3 DEF NoneFailed, StatusTells, Running
<1>5. QED
  BY <1>1, <1>2, <1>3, <1>4

LEMMA StatusSteps == StatusInv /\ [ProcessArgs]_consoleVars => StatusInv'
<1> SUFFICES ASSUME StatusInv, [ProcessArgs]_consoleVars PROVE StatusInv'
  OBVIOUS
<1>1. CASE ProcessArgs
  BY <1>1, OptionsTell, RunsTell, PromptTells DEF ProcessArgs
<1>2. CASE UNCHANGED consoleVars
  BY <1>2 DEF consoleVars, replVars, exitVars, optionVars, modeVars, StatusInv, StatusTypes,
              Prompting, NoneFailed, StatusTells, IsPrompt, UsesStdin
<1>3. QED
  BY <1>1, <1>2

LEMMA StatusAlways == CommandLineSpec => []StatusInv
<1>1. CommandLineInit => StatusInv
  <2> SUFFICES ASSUME CommandLineInit PROVE StatusInv
    OBVIOUS
  <2>1. argv \in Seq(STRING) /\ None \in Words /\ ran = <<>> /\ ran \in Seq(Runs)
    BY CommandLineAssumption DEF CommandLineInit, Words
  <2>2. QED
    BY <2>1 DEF CommandLineInit, ReplInit, StatusInv, StatusTypes, Prompting, NoneFailed,
                StatusTells, Running
<1>2. QED
  BY <1>1, StatusSteps, PTL DEF CommandLineSpec

\* For every command line: a status of 0 means that nothing failed, with the
\* exceptions StatusTells states, and a file of -f that failed was the last.
THEOREM StatusTheorem == CommandLineSpec => []StatusTells
<1>1. StatusInv => StatusTells
  BY DEF StatusInv
<1>2. QED
  BY <1>1, StatusAlways, PTL

-----------------------------------------------------------------------------
(* The script's arguments.  At every option the second pass is where the   *)
(* first one was too, or would have come to, so both stop at one word.     *)

\* One turn of the first pass
Onward(g, k) ==
    IF k > Len(argv) THEN k
    ELSE IF ~IsOption(k) THEN k + 1
    ELSE g[IF Skips(argv[k]) THEN k + 2 ELSE k + 1]

Places == 1 .. Len(argv) + 2

\* g is right from word k on.
Stops(g, k) == g \in [Places -> Nat] /\ \A m \in k .. Len(argv) + 2 : g[m] = Onward(g, m)

LEMMA OnwardGoes ==
  ASSUME Len(argv) \in Nat, NEW k \in Places, NEW g, NEW h,
         g \in [Places -> Nat],
         \A m \in k + 1 .. Len(argv) + 2 : g[m] = h[m]
  PROVE  Onward(g, k) \in Nat /\ Onward(g, k) = Onward(h, k)
<1>1. CASE k > Len(argv) \/ ~IsOption(k)
  BY <1>1 DEF Onward, Places
<1>2. CASE ~(k > Len(argv)) /\ IsOption(k)
  <2> DEFINE m == IF Skips(argv[k]) THEN k + 2 ELSE k + 1
  <2>1. m \in k + 1 .. Len(argv) + 2 /\ m \in Places
    BY <1>2 DEF Places
  <2>2. Onward(g, k) = g[m] /\ Onward(h, k) = h[m]
    BY <1>2 DEF Onward
  <2> HIDE DEF m
  <2>3. QED
    BY <2>1, <2>2
<1>3. QED
  BY <1>1, <1>2

LEMMA StopsExist == ASSUME Len(argv) \in Nat PROVE \E g : Stops(g, 1)
<1> DEFINE n == Len(argv) + 1
           S == {d \in 0 .. n : \E g : Stops(g, Len(argv) + 2 - d)}
<1>1. 0 \in S
  <2> DEFINE g == [m \in Places |-> m]
  <2>1. g \in [Places -> Nat]
    BY DEF Places
  <2>2. \A m \in Len(argv) + 2 .. Len(argv) + 2 : g[m] = Onward(g, m)
    BY DEF Places, Onward
  <2> HIDE DEF g
  <2>3. Stops(g, Len(argv) + 2 - 0)
    BY <2>1, <2>2 DEF Stops
  <2>4. QED
    BY <2>3
<1>2. ASSUME NEW d \in 1 .. n, d - 1 \in S PROVE d \in S
  <2> DEFINE k == Len(argv) + 2 - d
  <2>1. k \in Places /\ k + 1 = Len(argv) + 2 - (d - 1)
    BY DEF Places
  <2>2. PICK g : Stops(g, k + 1)
    BY <1>2, <2>1
  <2> DEFINE h == [m \in Places |-> IF m = k THEN Onward(g, k) ELSE g[m]]
  <2> HIDE DEF k
  <2>3. \A m \in k + 1 .. Len(argv) + 2 : h[m] = g[m]
    BY <2>1 DEF Places
  <2>4. g \in [Places -> Nat]
    BY <2>2 DEF Stops
  <2>5. Onward(g, k) \in Nat
    BY <2>1, <2>4, OnwardGoes
  <2>6. h \in [Places -> Nat] /\ h[k] = Onward(g, k)
    BY <2>1, <2>4, <2>5
  <2> HIDE DEF h
  <2>7. ASSUME NEW m \in k .. Len(argv) + 2 PROVE h[m] = Onward(h, m)
    <3>1. m \in Places /\ \A j \in m + 1 .. Len(argv) + 2 : h[j] = g[j]
      BY <2>1, <2>3 DEF Places
    <3>2. Onward(h, m) = Onward(g, m)
      BY <2>6, <3>1, OnwardGoes
    <3>3. CASE m = k
      BY <2>6, <3>2, <3>3
    <3>4. CASE m # k
      <4>1. m \in k + 1 .. Len(argv) + 2
        BY <2>1, <3>4 DEF Places
      <4>2. QED
        BY <2>2, <2>3, <3>2, <4>1 DEF Stops
    <3>5. QED
      BY <3>3, <3>4
  <2>8. Stops(h, k)
    BY <2>6, <2>7 DEF Stops
  <2>9. QED
    BY <2>8 DEF k
<1>3. n \in S
  <2>1. n \in Nat /\ n \in 0 .. n
    OBVIOUS
  <2> HIDE DEF n, S
  <2>2. \A d \in 0 .. n : d \in S
    BY <1>1, <1>2, <2>1, UpTo
  <2>3. QED
    BY <2>1, <2>2
<1>4. Len(argv) + 2 - n = 1
  OBVIOUS
<1>5. QED
  BY <1>3, <1>4

\* Stop is what its definition says.
LEMMA StopIs ==
  ASSUME Len(argv) \in Nat
  PROVE  \A k \in Places : Stop[k] = Onward(Stop, k)
<1> DEFINE Eq(g) == g = [k \in Places |-> IF k > Len(argv) THEN k
                                          ELSE IF ~IsOption(k) THEN k + 1
                                          ELSE g[IF Skips(argv[k]) THEN k + 2 ELSE k + 1]]
           F == CHOOSE g : Eq(g)
<1>1. Stop = F
  BY DEF Stop, Places
<1>2. PICK g : Stops(g, 1)
  BY StopsExist
<1>3. Eq(g)
  <2>1. \A k \in Places : g[k] = Onward(g, k)
    BY <1>2 DEF Stops, Places
  <2>2. g \in [Places -> Nat]
    BY <1>2 DEF Stops
  <2>3. QED
    BY <2>1, <2>2 DEF Onward
<1>4. Eq(F)
  <2> HIDE DEF Eq
  <2>1. QED
    BY <1>3
<1>5. \A k \in Places : F[k] = Onward(F, k)
  <2> HIDE DEF F
  <2>1. QED
    BY <1>4 DEF Onward
<1> HIDE DEF F
<1>6. QED
  BY <1>1, <1>5

\* No option but -o is taken differently by the passes.
SameOptions == \A k \in DOMAIN argv : argv[k] # "-o"

\* The first pass stops where it would when it had come to word i only now.
Before ==
    /\ filename = None
    /\ pc = "scan" => i = 1
    /\ pc = "options" => i \in 1 .. Len(argv) + 1
    /\ pc = "-f" => i \in 1 .. Len(argv) - 1 /\ argv[i] = "-f"
    /\ pc # "scan" /\ SameOptions => arguments = SubSeq(argv, Stop[i], Len(argv))

ArgumentsInv ==
    /\ Len(argv) \in Nat /\ DOMAIN argv = 1 .. Len(argv)
    /\ pc \in {"scan", "options", "-f", "last", "exited"}
    /\ pc \in {"scan", "options", "-f"} => Before
    /\ ArgumentsMatch

\* What goes on to the next option
LEMMA NextWord ==
  ASSUME ArgumentsInv, pc \in {"options", "-f"}, pc' = "options",
         UNCHANGED <<argv, arguments, filename>>,
         \/ i' = i + 1 /\ i <= Len(argv) /\ IsOption(i) /\ ~Skips(argv[i])
         \/ i' = i + 2 /\ i < Len(argv) /\ IsOption(i) /\ Skips(argv[i])
         \/ i' = i + 2 /\ i < Len(argv) /\ argv[i] = "-o"
  PROVE  ArgumentsInv'
<1>1. /\ Len(argv) \in Nat /\ i \in 1 .. Len(argv) /\ i \in Places /\ i' \in 1 .. Len(argv) + 1
      /\ Before
  BY DEF ArgumentsInv, Before, Places
<1>2. ASSUME SameOptions PROVE Stop[i] = Stop[i']
  <2>1. argv[i] # "-o"
    BY <1>1, <1>2 DEF SameOptions, ArgumentsInv
  <2>2. Stop[i] = Onward(Stop, i)
    BY <1>1, StopIs
  <2>3. QED
    BY <1>1, <2>1, <2>2 DEF Onward
<1>3. SameOptions' = SameOptions /\ Stop' = Stop
  BY DEF SameOptions, Stop, IsOption
<1>4. Before'
  BY <1>1, <1>2, <1>3 DEF Before
<1>5. QED
  BY <1>4 DEF ArgumentsInv, ArgumentsMatch

LEMMA ArgumentsSteps == ArgumentsInv /\ [ProcessArgs]_consoleVars => ArgumentsInv'
<1> SUFFICES ASSUME ArgumentsInv, [ProcessArgs]_consoleVars PROVE ArgumentsInv'
  OBVIOUS
<1>1. CASE UNCHANGED <<argv, i, pc, arguments, filename>>
  <2>1. SameOptions' = SameOptions /\ Stop' = Stop
    BY <1>1 DEF SameOptions, Stop, IsOption
  <2>2. QED
    BY <1>1, <2>1 DEF ArgumentsInv, ArgumentsMatch, Before
<1>2. CASE pc' = "exited" /\ UNCHANGED argv
  BY <1>2 DEF ArgumentsInv, ArgumentsMatch
<1>3. CASE MakeArguments
  <2>1. CASE pc' = "options"
    <3>1. /\ UNCHANGED <<argv, i, filename>> /\ Before /\ i = 1 /\ i \in 1 .. Len(argv) + 1
          /\ arguments' = SubSeq(argv, Stop[i], Len(argv))
      BY <1>3, <2>1 DEF MakeArguments, Exit, modeVars, ArgumentsInv, Before, AfterScript
    <3>2. Stop' = Stop
      BY <3>1 DEF Stop, IsOption
    <3>3. Before'
      BY <2>1, <3>1, <3>2 DEF Before
    <3>4. QED
      BY <2>1, <3>1, <3>3 DEF ArgumentsInv, ArgumentsMatch
  <2>2. QED
    BY <1>2, <1>3, <2>1 DEF MakeArguments, Exit
<1>4. CASE Setting \/ CompileOnly \/ Interactive \/ ToggleOption \/ SetTimeout \/ NewGlobal
           \/ Evaluate
  <2>1. CASE pc' = "exited"
    BY <1>2, <1>4, <2>1
    DEF Setting, CompileOnly, Interactive, ToggleOption, SetTimeout, NewGlobal, Evaluate, optionVars
  <2>2. CASE pc' # "exited"
    <3>1. pc = "options" /\ pc' = "options" /\ UNCHANGED <<argv, arguments, filename>>
      BY <1>4, <2>2
      DEF Setting, CompileOnly, Interactive, ToggleOption, SetTimeout, NewGlobal, Evaluate,
          At, Advance, Leave, Exit, optionVars, modeVars
    <3>2. CASE Setting
      BY <3>1, <3>2, NextWord
      DEF Setting, At, Advance, HasOperand, IsOption, Skips, Options, Settings
    <3>3. CASE CompileOnly \/ Interactive \/ NewGlobal
      BY <2>2, <3>1, <3>3, NextWord
      DEF CompileOnly, Interactive, NewGlobal, At, Advance, Leave, Exit, IsOption, Skips, Options
    <3>4. CASE ToggleOption
      BY <2>2, <3>1, <3>4, NextWord
      DEF ToggleOption, At, Advance, Leave, Exit, HasOperand
    <3>5. CASE SetTimeout \/ Evaluate
      BY <2>2, <3>1, <3>5, NextWord
      DEF SetTimeout, Evaluate, At, Advance, Leave, Exit, HasOperand, IsOption, Skips, Options
    <3>6. QED
      BY <1>4, <3>2, <3>3, <3>4, <3>5
  <2>3. QED
    BY <2>1, <2>2
<1>5. CASE RunFile
  <2>1. CASE pc' = "exited"
    BY <1>2, <1>5, <2>1 DEF RunFile, optionVars
  <2>2. CASE pc' # "exited"
    BY <1>5, <2>2, NextWord
    DEF RunFile, At, Advance, Leave, Exit, HasOperand, IsOption, Skips, Options, optionVars
  <2>3. QED
    BY <2>1, <2>2
<1>6. CASE PromptForFile
  <2>1. /\ pc = "options" /\ pc' = "-f" /\ argv[i] = "-f" /\ i \in 1 .. Len(argv) - 1
        /\ UNCHANGED <<argv, i, arguments, filename>> /\ Before
    BY <1>6 DEF PromptForFile, ProcessPrompt, At, HasOperand, optionVars, modeVars, ArgumentsInv,
                Before
  <2>2. SameOptions' = SameOptions /\ Stop' = Stop
    BY <2>1 DEF SameOptions, Stop, IsOption
  <2>3. Before'
    BY <2>1, <2>2 DEF Before
  <2>4. QED
    BY <2>1, <2>3 DEF ArgumentsInv, ArgumentsMatch
<1>7. CASE PromptReturns
  <2>1. CASE pc' = "exited"
    BY <1>2, <1>7, <2>1 DEF PromptReturns, optionVars
  <2>2. CASE pc' # "exited"
    <3>1. /\ pc = "-f" /\ pc' = "options" /\ i' = i + 2 /\ UNCHANGED <<argv, arguments, filename>>
      BY <1>7, <2>2 DEF PromptReturns, Leave, Exit, optionVars
    <3>2. argv[i] = "-f" /\ i < Len(argv)
      BY <3>1 DEF ArgumentsInv, Before
    <3>3. QED
      BY <3>1, <3>2, NextWord DEF IsOption, Skips, Options
  <2>3. QED
    BY <2>1, <2>2
<1>8. CASE ScriptFile
  <2>1. /\ pc = "options" /\ pc' = "last" /\ i \in 1 .. Len(argv) /\ ~IsOption(i)
        /\ UNCHANGED <<argv, i, arguments>> /\ Before
    BY <1>8 DEF ScriptFile, optionVars, ArgumentsInv, Before
  <2>2. Stop[i] = i + 1
    <3>1. i \in Places /\ Stop[i] = Onward(Stop, i)
      BY <2>1, StopIs DEF ArgumentsInv, Places
    <3>2. QED
      BY <2>1, <3>1 DEF Onward, ArgumentsInv
  <2>3. ArgumentsMatch'
    BY <2>1, <2>2 DEF ArgumentsMatch, Before, SameOptions
  <2>4. QED
    BY <2>1, <2>3 DEF ArgumentsInv
<1>9. CASE NoMoreOptions
  BY <1>9 DEF NoMoreOptions, optionVars, modeVars, ArgumentsInv, ArgumentsMatch, Before
<1>10. CASE ChunkSizeCrashes \/ Usage \/ RunLast
  BY <1>2, <1>10 DEF ChunkSizeCrashes, Usage, RunLast, Leave, Exit, optionVars
<1>11. CASE PromptLast
  BY <1>11 DEF PromptLast, ProcessPrompt, optionVars, modeVars, ArgumentsInv, ArgumentsMatch
<1>12. CASE AtPrompt \/ UNCHANGED consoleVars
  BY <1>1, <1>12 DEF AtPrompt, consoleVars, optionVars, modeVars
<1>13. QED
  BY <1>3, <1>4, <1>5, <1>6, <1>7, <1>8, <1>9, <1>10, <1>11, <1>12 DEF ProcessArgs

\* For every command line without -o, the arguments a script is given are the
\* words behind its file, though the two passes have the options each in a
\* list of its own.
THEOREM ArgumentsTheorem == CommandLineSpec => []ArgumentsMatch
<1>1. CommandLineInit => ArgumentsInv
  <2> SUFFICES ASSUME CommandLineInit PROVE ArgumentsInv
    OBVIOUS
  <2>1. argv \in Seq(STRING)
    BY CommandLineAssumption DEF CommandLineInit
  <2>2. QED
    BY <2>1, LenProperties DEF CommandLineInit, ArgumentsInv, ArgumentsMatch, Before
<1>2. ArgumentsInv => ArgumentsMatch
  BY DEF ArgumentsInv
<1>3. QED
  BY <1>1, <1>2, ArgumentsSteps, PTL DEF CommandLineSpec

-----------------------------------------------------------------------------
(* fgets.                                                                  *)

\* At most the last byte ends a line.
OneLine(s) == \A k \in DOMAIN s : s[k] = NL => k = Len(s)

LEMMA OneChar ==
  /\ <<>> \in Seq(Char)
  /\ NL \in Char /\ <<NL>> \in Seq(Char) /\ Len(<<NL>>) = 1
  /\ NoBuffer \notin Seq(Char)
<1>1. ASSUME NEW S, NEW c \in S PROVE <<c>> \in Seq(S) /\ Len(<<c>>) = 1
  OBVIOUS
<1>2. NL \in Char /\ "NULL" \notin Char
  BY DEF Char, NL
<1>3. <<>> \in Seq(Char)
  OBVIOUS
<1>4. NoBuffer \notin Seq(Char)
  <2>1. SUFFICES ASSUME NoBuffer \in Seq(Char) PROVE FALSE
    OBVIOUS
  <2>2. Len(NoBuffer) = 1 /\ NoBuffer[1] = "NULL"
    BY DEF NoBuffer
  <2>3. NoBuffer[1] \in Char
    BY <2>1, <2>2, ElementOfSeq
  <2>4. QED
    BY <1>2, <2>2, <2>3
<1>5. QED
  BY <1>1, <1>2, <1>3, <1>4

\* The first bytes of a sequence
LEMMA Prefix ==
  ASSUME NEW s \in Seq(Char), NEW n \in Nat, n <= Len(s)
  PROVE  SubSeq(s, 1, n) \in Seq(Char) /\ Len(SubSeq(s, 1, n)) = n
<1>1. \A k \in 1 .. n : s[k] \in Char
  BY ElementOfSeq
<1>2. QED
  BY <1>1, SubSeqProperties

\* fgets returns what comes next: at most n - 1 bytes, up to the end of the
\* line or of the input.
FgetsReturns(n, got) ==
    /\ got \in Seq(Char) /\ Len(got) <= n - 1 /\ pos + Len(got) <= Len(typed)
    /\ got = SubSeq(typed, pos + 1, pos + Len(got))
    /\ OneLine(got)
    /\ \/ Len(got) # 0 /\ got[Len(got)] = NL
       \/ Len(got) = n - 1
       \/ pos + Len(got) = Len(typed)

LEMMA FgetsIs ==
  ASSUME typed \in Seq(Char), pos \in Nat, pos <= Len(typed), NEW n \in Nat \ {0}
  PROVE  FgetsReturns(n, Fgets(n))
<1> DEFINE N == Len(typed)
           rest == SubSeq(typed, pos + 1, N)
           m == Min({n - 1, Len(rest)})
           most == SubSeq(rest, 1, m)
           ends == {k \in DOMAIN most : most[k] = NL}
<1>1. N \in Nat /\ \A k \in 1 .. N : typed[k] \in Char
  BY LenProperties, ElementOfSeq
<1>2. /\ rest \in Seq(Char) /\ Len(rest) = N - pos
      /\ \A k \in 1 .. N - pos : rest[k] = typed[pos + k]
  <2>1. \A k \in pos + 1 .. N : typed[k] \in Char
    BY <1>1
  <2>2. pos + 1 \in Int /\ N \in Int
    BY <1>1
  <2> HIDE DEF N
  <2>3. /\ rest \in Seq(Char)
        /\ Len(rest) = IF pos + 1 <= N THEN N - (pos + 1) + 1 ELSE 0
        /\ \A k \in 1 .. N - (pos + 1) + 1 : rest[k] = typed[(pos + 1) + k - 1]
    BY <2>1, <2>2, SubSeqProperties
  <2>4. pos <= N
    BY DEF N
  <2> HIDE DEF rest
  <2>5. Len(rest) = N - pos /\ N - (pos + 1) + 1 = N - pos
        /\ \A k \in 1 .. N - pos : (pos + 1) + k - 1 = pos + k
    BY <1>1, <2>3, <2>4
  <2>6. QED
    BY <2>3, <2>5
<1>3. m \in Nat /\ m <= N - pos /\ m <= n - 1 /\ (m = n - 1 \/ m = N - pos)
  <2>1. N - pos \in Nat /\ n - 1 \in Nat
    BY <1>1
  <2>2. m = IF n - 1 <= N - pos THEN n - 1 ELSE N - pos
    <3>1. n - 1 \in Int /\ N - pos \in Int
      BY <2>1
    <3>2. Min({n - 1, N - pos}) = IF n - 1 <= N - pos THEN n - 1 ELSE N - pos
      BY <3>1, MinOfTwo
    <3> HIDE DEF N, rest
    <3>3. QED
      BY <1>2, <3>2
  <2> HIDE DEF m, N
  <2>3. QED
    BY <2>1, <2>2
<1> HIDE DEF m, N, rest
<1>4. ASSUME NEW k \in 0 .. m
      PROVE  LET s == SubSeq(rest, 1, k)
             IN /\ s \in Seq(Char) /\ Len(s) = k /\ k <= N - pos
                /\ \A j \in 1 .. k : s[j] = rest[j]
                /\ s = SubSeq(typed, pos + 1, pos + k)
  <2>1. k \in Nat /\ k <= N - pos
    BY <1>1, <1>3
  <2>2. \A j \in 1 .. k : rest[j] \in Char /\ rest[j] = typed[pos + j]
    BY <1>1, <1>2, <2>1
  <2>3. /\ SubSeq(rest, 1, k) \in Seq(Char) /\ Len(SubSeq(rest, 1, k)) = k
        /\ \A j \in 1 .. k : SubSeq(rest, 1, k)[j] = rest[j]
    BY <2>1, <2>2, SubSeqProperties
  <2>4. /\ SubSeq(typed, pos + 1, pos + k) \in Seq(Char)
        /\ Len(SubSeq(typed, pos + 1, pos + k)) = k
        /\ \A j \in 1 .. k : SubSeq(typed, pos + 1, pos + k)[j] = typed[pos + j]
    <3>1. pos + 1 \in Int /\ pos + k \in Int /\ (pos + k) - (pos + 1) + 1 = k
          /\ (pos + 1 <= pos + k <=> k # 0) /\ \A j \in 1 .. k : (pos + 1) + j - 1 = pos + j
      BY <2>1
    <3>2. \A j \in pos + 1 .. pos + k : typed[j] \in Char
      BY <1>1, <2>1
    <3> DEFINE t == SubSeq(typed, pos + 1, pos + k)
    <3>3. /\ t \in Seq(Char)
          /\ Len(t) = IF pos + 1 <= pos + k THEN (pos + k) - (pos + 1) + 1 ELSE 0
          /\ \A j \in 1 .. (pos + k) - (pos + 1) + 1 : t[j] = typed[(pos + 1) + j - 1]
      BY <3>1, <3>2, SubSeqProperties
    <3> HIDE DEF t
    <3>4. t \in Seq(Char) /\ Len(t) = k /\ \A j \in 1 .. k : t[j] = typed[pos + j]
      BY <2>1, <3>1, <3>3
    <3>5. QED
      BY <3>4 DEF t
  <2> DEFINE s == SubSeq(rest, 1, k)
             t == SubSeq(typed, pos + 1, pos + k)
  <2>5. Len(s) = k /\ Len(t) = k /\ \A j \in 1 .. k : s[j] = t[j]
    BY <2>2, <2>3, <2>4
  <2>6. s \in Seq(Char) /\ t \in Seq(Char)
    BY <2>3, <2>4
  <2> HIDE DEF s, t
  <2>7. s = t
    BY <2>5, <2>6, SeqEqual
  <2>8. QED
    BY <2>1, <2>3, <2>7 DEF s, t
<1>5. /\ most \in Seq(Char) /\ Len(most) = m /\ m <= N - pos
      /\ \A j \in 1 .. m : most[j] = rest[j]
      /\ most = SubSeq(typed, pos + 1, pos + m)
  BY <1>3, <1>4
<1> HIDE DEF most
<1>6. CASE ends = {}
  <2>1. Fgets(n) = most
    BY <1>6 DEF Fgets, rest, most, m, N
  <2>2. OneLine(most)
    BY <1>6 DEF OneLine
  <2>3. Len(most) = n - 1 \/ pos + Len(most) = N
    BY <1>1, <1>3, <1>5
  <2>4. pos + Len(most) <= N /\ Len(most) <= n - 1
    BY <1>1, <1>3, <1>5
  <2>5. QED
    BY <1>5, <2>1, <2>2, <2>3, <2>4 DEF FgetsReturns, N
<1>7. CASE ends # {}
  <2> DEFINE e == Min(ends)
             got == SubSeq(most, 1, e)
  <2>1. DOMAIN most = 1 .. m
    BY <1>5, LenProperties
  <2>2. ends \in SUBSET Nat /\ \A k \in ends : k \in 1 .. m /\ most[k] = NL
    BY <1>3, <2>1
  <2>3. e \in ends /\ \A k \in ends : e <= k
    <3> DEFINE E == ends
    <3>1. E # {} /\ E \in SUBSET Nat
      BY <1>7, <2>2
    <3> HIDE DEF E
    <3>2. Min(E) \in E /\ \A k \in E : Min(E) <= k
      BY <3>1, MinOfNaturals
    <3>3. QED
      BY <3>2 DEF E
  <2>4. Fgets(n) = got
    BY <1>7 DEF Fgets, rest, most, m, N
  <2> HIDE DEF e
  <2>5. e \in 1 .. m /\ most[e] = NL /\ \A k \in 1 .. m : most[k] = NL => e <= k
    BY <2>1, <2>2, <2>3
  <2> HIDE DEF ends
  <2>6. got = SubSeq(rest, 1, e)
    <3>1. 1 \in Int /\ e \in Int /\ e <= m /\ e >= 1 /\ e \in Nat
      BY <1>3, <2>5
    <3>2. \A k \in 1 .. e : most[k] \in Char /\ most[k] = rest[k]
      BY <1>5, <2>1, <3>1, ElementOfSeq
    <3>3. got \in Seq(Char) /\ Len(got) = e /\ \A k \in 1 .. e : got[k] = most[k]
      BY <3>1, <3>2, SubSeqProperties
    <3>4. e \in 0 .. m
      BY <3>1
    <3> DEFINE s == SubSeq(rest, 1, e)
    <3>5. s \in Seq(Char) /\ Len(s) = e /\ \A k \in 1 .. e : s[k] = rest[k]
      BY <1>4, <3>4
    <3>6. \A k \in 1 .. e : got[k] = s[k]
      BY <3>2, <3>3, <3>5
    <3> HIDE DEF s, got
    <3>7. got = s
      BY <3>3, <3>5, <3>6, SeqEqual
    <3>8. QED
      BY <3>7 DEF s
  <2>7. e \in 0 .. m /\ e <= m /\ e >= 1
    BY <1>3, <2>5
  <2>8. /\ got \in Seq(Char) /\ Len(got) = e /\ e <= N - pos
        /\ \A j \in 1 .. e : got[j] = rest[j]
        /\ got = SubSeq(typed, pos + 1, pos + e)
    BY <1>4, <2>6, <2>7
  <2> HIDE DEF got
  <2>9. DOMAIN got = 1 .. e
    BY <2>8, LenProperties
  <2>10. OneLine(got)
    <3>1. \A k \in 1 .. e : k \in 1 .. m /\ most[k] = got[k]
      BY <1>3, <1>5, <2>7, <2>8
    <3>2. \A k \in 1 .. e : got[k] = NL => e <= k
      BY <2>5, <3>1
    <3>3. \A k \in 1 .. e : got[k] = NL => k = e
      BY <2>7, <3>2
    <3>4. QED
      BY <2>8, <2>9, <3>3 DEF OneLine
  <2>11. Len(got) # 0 /\ got[Len(got)] = NL
    <3>1. e \in 1 .. m /\ most[e] = NL
      BY <2>5
    <3>2. e \in 1 .. e /\ e # 0
      BY <2>7, <3>1
    <3>3. \A j \in 1 .. m : most[j] = rest[j]
      BY <1>5
    <3>4. \A j \in 1 .. e : got[j] = rest[j]
      BY <2>8
    <3>5. most[e] = rest[e]
      BY <3>1, <3>3
    <3>6. got[e] = rest[e]
      BY <3>2, <3>4
    <3>7. QED
      BY <2>8, <3>1, <3>2, <3>5, <3>6
  <2>12. pos + Len(got) <= N /\ Len(got) <= n - 1
    BY <1>1, <1>3, <2>7, <2>8
  <2>13. QED
    BY <2>4, <2>8, <2>10, <2>11, <2>12 DEF FgetsReturns, N
<1>8. QED
  BY <1>6, <1>7

-----------------------------------------------------------------------------
(* The buffers.                                                            *)

ReplPlaces == {"off", "prompt", "getline", "fgets", "line", "compile", "run", "readline",
               "gotline", "done"}

ReplTypes ==
    /\ typed \in Seq(Char) /\ pos \in Nat /\ pos <= Len(typed)
    /\ line \in Seq(Char) /\ lineSize \in Nat
    /\ buffer \in Seq(Char) \cup {NoBuffer} /\ size \in Nat /\ len \in Nat
    /\ buffer = NoBuffer => len = 0
    /\ lineno \in Nat /\ startline \in Nat /\ used \in Nat
    /\ buf \in Seq(Char) /\ bufsize \in Nat
    /\ at \in ReplPlaces /\ (at = "off" => pos = 0)

\* There is room for at least one more byte and the NUL.
LineRoom == at = "fgets" => Len(line) + 1 < lineSize

\* The end of the line is counted for the lines that it is stored for: the
\* second and later ones of a statement.
NewlinesCounted ==
    at \in {"getline", "fgets", "line"} =>
        startline <= lineno /\ (len = 0 <=> startline = lineno)

ReplInv == ReplTypes /\ LineRoom /\ NewlinesCounted /\ BuffersFit

\* Process starts and ends with no buffers.
LEMMA ReplStarts ==
  ASSUME line = <<>>, lineSize = 0, buffer = NoBuffer, size = 0, len = 0, used = 0,
         lineno = 1, startline = 1, buf = <<>>, bufsize = 0,
         typed \in Seq(Char), pos = 0, at \in {"off", "prompt"}
  PROVE  ReplInv
<1>1. <<>> \in Seq(Char) /\ Len(typed) \in Nat
  BY OneChar, LenProperties
<1>2. QED
  BY <1>1 DEF ReplInv, ReplTypes, ReplPlaces, LineRoom, NewlinesCounted, BuffersFit

LEMMA LineKeeps ==
  ASSUME ReplInv, Prompt \/ GetLine \/ ReadChunk \/ EndOfFile \/ LineFails
  PROVE  ReplInv'
<1> USE ReplAssumption
    DEF ReplInv, ReplTypes, ReplPlaces, LineRoom, NewlinesCounted, BuffersFit,
        lineVars, bufferVars, readVars, exitVars
<1>1. CASE Prompt
  BY <1>1 DEF Prompt
<1>2. CASE GetLine
  <2>1. line' = <<>> /\ line' \in Seq(Char) /\ Len(line') = 0
    BY <1>2 DEF GetLine
  <2>2. QED
    BY <1>2, <2>1 DEF GetLine
<1>3. CASE ReadChunk
  <2> DEFINE got == Fgets(lineSize - Len(line))
             all == ReadBehind(got)
  <2>1. at = "fgets" /\ lineSize - Len(line) \in Nat \ {0} /\ Len(line) \in Nat
    BY <1>3 DEF ReadChunk
  <2>2. got \in Seq(Char) /\ Len(got) <= lineSize - Len(line) - 1 /\ got # <<>>
        /\ pos + Len(got) <= Len(typed)
    BY <1>3, <2>1, FgetsIs DEF ReadChunk, FgetsReturns
  <2> HIDE DEF got
  <2>3. all \in Seq(Char) /\ Len(all) = Len(line) + Len(got) /\ Len(got) >= 1
    BY <2>2 DEF ReadBehind
  <2>4. /\ pos' = pos + Len(got)
        /\ IF Last(all) = NL
           THEN line' = Front(all) /\ at' = "line" /\ UNCHANGED lineSize
           ELSE /\ line' = all
                /\ lineSize' = IF Len(all) + 1 = lineSize THEN 2 * lineSize ELSE lineSize
                /\ UNCHANGED at
        /\ UNCHANGED <<typed, bufferVars, readVars, startline>>
    BY <1>3 DEF ReadChunk, got
  <2> HIDE DEF all
  <2>5. CASE Last(all) = NL
    <3>1. line' = SubSeq(all, 1, Len(all) - 1) /\ at' = "line" /\ UNCHANGED lineSize
      BY <2>4, <2>5 DEF Front
    <3>2. Len(all) - 1 \in Nat /\ Len(all) - 1 <= Len(all)
      BY <2>1, <2>3
    <3>3. line' \in Seq(Char) /\ Len(line') = Len(all) - 1
      BY <2>3, <3>1, <3>2, Prefix
    <3>4. QED
      BY <2>1, <2>2, <2>3, <2>4, <3>1, <3>3
  <2>6. CASE Last(all) # NL
    <3>1. /\ line' = all /\ at' = "fgets" /\ Len(all) + 1 <= lineSize
          /\ lineSize' = IF Len(all) + 1 = lineSize THEN 2 * lineSize ELSE lineSize
      BY <2>1, <2>2, <2>3, <2>4, <2>6
    <3>2. Len(all) \in Nat /\ Len(all) >= 1 /\ Len(line') = Len(all)
      BY <2>1, <2>3, <3>1
    <3>3. lineSize' \in Nat /\ Len(all) + 1 < lineSize'
      BY <3>1, <3>2
    <3>4. QED
      BY <2>1, <2>2, <2>3, <2>4, <3>1, <3>2, <3>3
  <2>7. QED
    BY <2>5, <2>6
<1>4. CASE EndOfFile
  BY <1>4 DEF EndOfFile
<1>5. CASE LineFails
  BY <1>5 DEF LineFails
<1>6. QED
  BY <1>1, <1>2, <1>3, <1>4, <1>5

\* "len + 1 is required to store '\n' in the end of line"
LEMMA TakeKeeps ==
  ASSUME ReplInv, TakeLine
  PROVE  ReplInv'
<1> USE DEF ReplInv, ReplTypes, LineRoom, NewlinesCounted, BuffersFit,
            lineVars, bufferVars, readVars, exitVars
<1>1. /\ at = "line" /\ lineno' = lineno + 1
      /\ \/ at' = "compile"
         \/ len' > 0 /\ at' = "getline"
      /\ UNCHANGED <<lineVars, readVars, startline>>
  BY DEF TakeLine
<1>2. CASE FirstLine
  BY <1>1, <1>2, OneChar DEF FirstLine, ReplPlaces
<1>3. CASE AppendLine
  <2> DEFINE newlen == Len(line) + (IF len # 0 THEN len + 1 ELSE 0)
             kept == SubSeq(buffer, 1, len)
             ends == IF startline # lineno THEN <<NL>> ELSE <<>>
             text == kept \o ends \o line
  <2>1. len <= Len(buffer)
    BY <1>1, <1>3 DEF AppendLine
  <2>2. kept \in Seq(Char) /\ Len(kept) = len
    BY <2>1, Prefix
  <2>3. ends \in Seq(Char) /\ Len(ends) = IF len # 0 THEN 1 ELSE 0
    BY <1>1, OneChar
  <2>4. buffer' = text /\ len' = newlen /\ size' = Grown(newlen) /\ used' = Len(text) + 1
    BY <1>3 DEF AppendLine
  <2> HIDE DEF kept, ends
  <2>5. text \in Seq(Char) /\ Len(text) = newlen
    <3>1. kept \o ends \in Seq(Char) /\ Len(kept \o ends) = Len(kept) + Len(ends)
      BY <2>2, <2>3, ConcatProperties
    <3>2. text = (kept \o ends) \o line
      OBVIOUS
    <3>3. text \in Seq(Char) /\ Len(text) = Len(kept) + Len(ends) + Len(line)
      BY <3>1, <3>2
    <3>4. QED
      BY <2>2, <2>3, <3>3
  <2> HIDE DEF text
  <2>6. newlen \in Nat
    OBVIOUS
  <2> HIDE DEF newlen
  <2>7. Grown(newlen) \in Nat /\ Grown(newlen) >= newlen + 1
    <3>1. newlen + 1 \in Int /\ 2 * size \in Int
      BY <2>6
    <3>2. Max({newlen + 1, 2 * size}) =
              IF newlen + 1 >= 2 * size THEN newlen + 1 ELSE 2 * size
      BY <3>1, MaxOfTwo
    <3>3. QED
      BY <2>6, <3>1, <3>2 DEF Grown
  <2>8. buffer' \in Seq(Char) /\ buffer' # NoBuffer
    BY <2>4, <2>5, OneChar
  <2>9. QED
    BY <1>1, <2>4, <2>5, <2>6, <2>7, <2>8 DEF ReplPlaces
<1>4. QED
  BY <1>2, <1>3 DEF TakeLine

LEMMA StatementKeeps ==
  ASSUME ReplInv, BufferFails \/ Compile \/ StatementEnds
  PROVE  ReplInv'
<1> USE DEF ReplInv, ReplTypes, ReplPlaces, LineRoom, NewlinesCounted, BuffersFit,
            lineVars, bufferVars, readVars, exitVars
<1>1. CASE BufferFails
  BY <1>1 DEF BufferFails
<1>2. CASE Compile
  BY <1>2 DEF Compile
<1>3. CASE StatementEnds
  <2>1. /\ buffer' = <<>> /\ at' \in {"done", "prompt"}
        /\ UNCHANGED <<lineVars, readVars, size, len, lineno, used, startline>>
    BY <1>3 DEF StatementEnds
  <2>2. buffer' \in Seq(Char) /\ buffer' # NoBuffer
    BY <2>1, OneChar
  <2>3. at # "off" /\ at' # "off"
    BY <1>3, <2>1 DEF StatementEnds
  <2>4. QED
    BY <2>1, <2>2, <2>3
<1>4. QED
  BY <1>1, <1>2, <1>3

LEMMA ReadLineKeeps ==
  ASSUME ReplInv, CallReadLine \/ ReadLineChunk \/ ReadLineEnds \/ ReadLine
  PROVE  ReplInv'
<1> USE ReplAssumption
    DEF ReplInv, ReplTypes, ReplPlaces, LineRoom, NewlinesCounted, BuffersFit,
        lineVars, bufferVars, readVars, exitVars
<1>1. CASE CallReadLine
  <2>1. buf' = <<>> /\ buf' \in Seq(Char) /\ Len(buf') = 0
    BY <1>1 DEF CallReadLine
  <2>2. QED
    BY <1>1, <2>1 DEF CallReadLine
<1>2. CASE ReadLineChunk
  <2> DEFINE got == Fgets(bufsize - Len(buf))
             all == buf \o got
  <2>1. /\ at = "readline" /\ bufsize - Len(buf) \in Nat \ {0} /\ Len(buf) \in Nat
        /\ bufsize \in Nat
    BY <1>2 DEF ReadLineChunk
  <2>2. /\ got \in Seq(Char) /\ Len(got) <= bufsize - Len(buf) - 1
        /\ pos + Len(got) <= Len(typed)
    BY <2>1, FgetsIs DEF FgetsReturns
  <2> HIDE DEF got
  <2>3. all \in Seq(Char) /\ Len(all) = Len(buf) + Len(got)
    BY <2>2
  <2>4. /\ pos' = pos + Len(got) /\ buf' = all
        /\ \/ bufsize' = 2 * bufsize /\ UNCHANGED at
           \/ at' = "gotline" /\ UNCHANGED bufsize
        /\ UNCHANGED <<typed, line, lineSize, bufferVars, startline>>
    BY <1>2 DEF ReadLineChunk, got
  <2> HIDE DEF all
  <2>5. Len(buf') <= bufsize - 1 /\ bufsize' \in Nat /\ bufsize' >= bufsize
    <3>1. 2 * bufsize \in Nat /\ 2 * bufsize >= bufsize
      BY <2>1
    <3>2. QED
      BY <2>1, <2>2, <2>3, <2>4, <3>1
  <2>6. /\ pos' \in Nat /\ buf' \in Seq(Char) /\ Len(buf') + 1 <= bufsize'
        /\ pos' <= Len(typed')
    BY <2>1, <2>2, <2>3, <2>4, <2>5
  <2>7. at = "readline" /\ at' \in {"readline", "gotline"}
    BY <2>1, <2>4
  <2>8. QED
    BY <2>4, <2>5, <2>6, <2>7
<1>3. CASE ReadLineEnds
  BY <1>3 DEF ReadLineEnds
<1>4. CASE ReadLine
  <2>1. at' = "run" /\ buf' = <<>> /\ bufsize' = 0 /\ UNCHANGED <<lineVars, bufferVars, startline>>
    BY <1>4 DEF ReadLine
  <2>2. at \in {"gotline", "readline"}
    BY <1>4 DEF ReadLine
  <2>3. QED
    BY <2>1, <2>2
<1>5. QED
  BY <1>1, <1>2, <1>3, <1>4

LEMMA ReplSteps == Prompting /\ ReplInv /\ [ProcessArgs]_consoleVars => ReplInv'
<1> SUFFICES ASSUME Prompting, ReplInv, [ProcessArgs]_consoleVars PROVE ReplInv'
  OBVIOUS
<1>1. CASE UNCHANGED replVars
  BY <1>1 DEF ReplInv, ReplTypes, LineRoom, NewlinesCounted, BuffersFit,
              replVars, lineVars, bufferVars, readVars
<1>2. CASE Repl
  BY <1>2, LineKeeps, TakeKeeps, StatementKeeps, ReadLineKeeps DEF Repl
<1>3. ASSUME NEW name, NEW force, NEW back, ProcessPrompt(name, force, back), at = "off"
      PROVE  ReplInv'
  <2>1. /\ typed' \in Seq(Char) /\ Len(typed') \in Nat /\ pos = 0 /\ at' = "prompt"
        /\ UNCHANGED <<pos, line, lineSize, bufferVars, readVars, startline>>
    <3>1. typed' \in Seq(Char)
      BY <1>3, ReplAssumption DEF ProcessPrompt
    <3>2. QED
      BY <1>3, <3>1, LenProperties DEF ProcessPrompt, ReplInv, ReplTypes
  <2>2. QED
    BY <2>1 DEF ReplInv, ReplTypes, ReplPlaces, LineRoom, NewlinesCounted, BuffersFit,
                bufferVars, readVars
<1>4. CASE PromptReturns
  <2>1. /\ line' = <<>> /\ lineSize' = 0 /\ buffer' = NoBuffer /\ size' = 0 /\ len' = 0 /\ used' = 0
        /\ lineno' = 1 /\ startline' = 1 /\ buf' = <<>> /\ bufsize' = 0
        /\ typed' = <<>> /\ pos' = 0 /\ at' = "off"
    BY <1>4 DEF PromptReturns
  <2>2. <<>> \in Seq(Char) /\ Len(<<>>) = 0
    BY OneChar
  <2>3. QED
    BY <2>1, <2>2 DEF ReplInv, ReplTypes, ReplPlaces, LineRoom, NewlinesCounted, BuffersFit
<1>5. CASE ProcessArgs
  <2>1. CASE PromptForFile \/ PromptLast
    BY <1>3, <2>1 DEF PromptForFile, PromptLast, At, Prompting
  <2>2. CASE AtPrompt
    BY <1>2, <2>2 DEF AtPrompt
  <2>3. CASE MakeArguments \/ Setting \/ ChunkSizeCrashes \/ Usage \/ CompileOnly \/ Interactive
             \/ ToggleOption \/ SetTimeout \/ NewGlobal
    BY <1>1, <2>3 DEF MakeArguments, Setting, ChunkSizeCrashes, Usage, CompileOnly, Interactive,
                      ToggleOption, SetTimeout, NewGlobal
  <2>4. CASE Evaluate \/ RunFile \/ ScriptFile \/ NoMoreOptions \/ RunLast
    BY <1>1, <2>4 DEF Evaluate, RunFile, ScriptFile, NoMoreOptions, RunLast
  <2>5. QED
    BY <1>4, <1>5, <2>1, <2>2, <2>3, <2>4 DEF ProcessArgs
<1>6. QED
  BY <1>1, <1>5 DEF consoleVars

LEMMA ReplAlways == CommandLineSpec => []ReplInv
<1>1. CommandLineInit => ReplInv
  <2>1. <<>> \in Seq(Char)
    OBVIOUS
  <2>2. QED
    BY <2>1, ReplStarts DEF CommandLineInit, ReplInit
<1>2. StatusInv => Prompting
  BY DEF StatusInv
<1>3. QED
  BY <1>1, <1>2, StatusAlways, ReplSteps, PTL DEF CommandLineSpec

\* Whatever the first sizes of the three buffers and whatever is typed, nothing
\* is written past the end of one.
THEOREM BuffersTheorem == CommandLineSpec => []BuffersFit
<1>1. ReplInv => BuffersFit
  BY DEF ReplInv
<1>2. QED
  BY <1>1, ReplAlways, PTL
-----------------------------------------------------------------------------
(* What is compiled.  At every place the input that was read is what was   *)
(* compiled or returned, the lines of the statement that is being read,    *)
(* and what the two readers hold, in this order.                           *)

\* No byte ends a line.
NoEnd(s) == \A k \in DOMAIN s : s[k] # NL

LEMMA NoNewlines ==
  /\ \A s : NoEnd(s) => Newlines(s) = 0
  /\ Newlines(<<>>) = 0 /\ NoEnd(<<>>)
  /\ Newlines(<<NL>>) = 1
<1>1. ASSUME NEW s, NoEnd(s) PROVE Newlines(s) = 0
  <2>1. {k \in DOMAIN s : s[k] = NL} = {}
    BY <1>1 DEF NoEnd
  <2>2. QED
    BY <2>1, FS_EmptySet DEF Newlines
<1>2. NoEnd(<<>>)
  BY DEF NoEnd
<1>3. {k \in DOMAIN <<NL>> : <<NL>>[k] = NL} = {1}
  OBVIOUS
<1>4. Newlines(<<NL>>) = 1
  BY <1>3, FS_Singleton DEF Newlines
<1>5. QED
  BY <1>1, <1>2, <1>4

LEMMA NewlinesAdd ==
  ASSUME NEW s \in Seq(Char), NEW t \in Seq(Char)
  PROVE  Newlines(s) \in Nat /\ Newlines(s \o t) = Newlines(s) + Newlines(t)
<1> DEFINE m == Len(s)
           n == Len(t)
           both == s \o t
           A == {k \in 1 .. m : s[k] = NL}
           B == {k \in 1 .. n : t[k] = NL}
           C == {k \in 1 .. m + n : both[k] = NL}
           D == {k \in m + 1 .. m + n : both[k] = NL}
<1>1. /\ m \in Nat /\ n \in Nat /\ DOMAIN s = 1 .. m /\ DOMAIN t = 1 .. n
  BY LenProperties
<1>2. /\ both \in Seq(Char) /\ Len(both) = m + n
      /\ \A k \in 1 .. m + n : both[k] = IF k <= m THEN s[k] ELSE t[k - m]
  BY ConcatProperties
<1>3. DOMAIN both = 1 .. m + n
  <2> HIDE DEF both, m, n
  <2>1. QED
    BY <1>2, LenProperties
<1>4. Newlines(s) = Cardinality(A) /\ Newlines(t) = Cardinality(B)
      /\ Newlines(both) = Cardinality(C)
  BY <1>1, <1>3 DEF Newlines
<1> HIDE DEF m, n, both
<1>5. IsFiniteSet(A) /\ IsFiniteSet(B)
  <2>1. IsFiniteSet(1 .. m) /\ IsFiniteSet(1 .. n)
    BY <1>1, FS_Interval
  <2>2. A \in SUBSET (1 .. m) /\ B \in SUBSET (1 .. n)
    OBVIOUS
  <2> HIDE DEF A, B
  <2>3. QED
    BY <2>1, <2>2, FS_Subset
<1>6. C = A \cup D /\ A \cap D = {}
  <2>1. \A k \in 1 .. m : both[k] = s[k] /\ k \in 1 .. m + n
    BY <1>1, <1>2
  <2>2. \A k \in 1 .. m + n : k \in 1 .. m \/ k \in m + 1 .. m + n
    BY <1>1
  <2>3. \A k \in m + 1 .. m + n : k \in 1 .. m + n /\ k \notin 1 .. m
    BY <1>1
  <2>4. C \subseteq A \cup D
    BY <2>1, <2>2
  <2>5. A \subseteq C /\ D \subseteq C
    BY <2>1, <2>3
  <2>6. A \cap D = {}
    BY <2>3
  <2> HIDE DEF A, C, D
  <2>7. QED
    BY <2>4, <2>5, <2>6
<1>7. ExistsBijection(B, D)
  <2> DEFINE f == [k \in B |-> m + k]
  <2>1. \A k \in 1 .. n : m + k \in m + 1 .. m + n /\ both[m + k] = t[k]
    <3> TAKE k \in 1 .. n
    <3>1. m + k \in m + 1 .. m + n /\ m + k \in 1 .. m + n /\ ~(m + k <= m) /\ m + k - m = k
      BY <1>1
    <3>2. \A j \in 1 .. m + n : ~(j <= m) => both[j] = t[j - m]
      BY <1>2
    <3> DEFINE j == m + k
    <3>3. j \in 1 .. m + n /\ ~(j <= m) /\ j - m = k
      BY <1>1, <3>1
    <3> HIDE DEF j
    <3>4. both[j] = t[k]
      BY <3>2, <3>3
    <3>5. QED
      BY <3>1, <3>4 DEF j
  <2>2. f \in [B -> D]
    BY <2>1
  <2>3. \A j, k \in B : f[j] = f[k] => j = k
    BY <1>1
  <2>4. \A d \in D : \E k \in B : f[k] = d
    <3> TAKE d \in D
    <3>1. d - m \in 1 .. n /\ m + (d - m) = d
      BY <1>1
    <3>2. t[d - m] = NL
      BY <2>1, <3>1
    <3>3. d - m \in B
      BY <3>1, <3>2
    <3>4. f[d - m] = d
      BY <3>1, <3>3
    <3>5. QED
      BY <3>3, <3>4
  <2> HIDE DEF f, B, D
  <2>5. QED
    BY <2>2, <2>3, <2>4 DEF ExistsBijection, Bijection, Injection, Surjection, IsInjective
<1> HIDE DEF A, B, C, D
<1>8. IsFiniteSet(D) /\ Cardinality(D) = Cardinality(B)
  BY <1>5, <1>7, FS_Bijection
<1>9. Cardinality(A) \in Nat /\ Cardinality(B) \in Nat
  BY <1>5, FS_CardinalityType
<1>10. Cardinality(C) = Cardinality(A) + Cardinality(D)
  <2>1. Cardinality(C) = Cardinality(A) + Cardinality(D) - Cardinality({})
    BY <1>5, <1>6, <1>8, FS_Union
  <2>2. QED
    BY <1>8, <1>9, <2>1, FS_EmptySet
<1>11. QED
  BY <1>4, <1>8, <1>9, <1>10 DEF both

\* fgets returns at most one line: behind what does not end one yet, it is
\* still one.
LEMMA LineGoesOn ==
  ASSUME NEW s \in Seq(Char), NEW t \in Seq(Char), NoEnd(s), OneLine(t)
  PROVE  OneLine(s \o t)
<1> DEFINE both == s \o t
<1>1. /\ Len(s) \in Nat /\ DOMAIN s = 1 .. Len(s) /\ Len(t) \in Nat /\ DOMAIN t = 1 .. Len(t)
  BY LenProperties
<1>2. /\ both \in Seq(Char) /\ Len(both) = Len(s) + Len(t)
      /\ \A k \in 1 .. Len(s) + Len(t) : both[k] = IF k <= Len(s) THEN s[k] ELSE t[k - Len(s)]
  BY ConcatProperties
<1> HIDE DEF both
<1>3. DOMAIN both = 1 .. Len(s) + Len(t)
  BY <1>2, LenProperties
<1>4. ASSUME NEW k \in 1 .. Len(s) + Len(t), both[k] = NL PROVE k = Len(s) + Len(t)
  <2>1. CASE k <= Len(s)
    <3>1. k \in DOMAIN s /\ s[k] = NL
      BY <1>1, <1>2, <1>4, <2>1
    <3>2. QED
      BY <3>1 DEF NoEnd
  <2>2. CASE ~(k <= Len(s))
    <3>1. k - Len(s) \in 1 .. Len(t) /\ t[k - Len(s)] = NL
      BY <1>1, <1>2, <1>4, <2>2
    <3>2. k - Len(s) = Len(t)
      BY <1>1, <3>1 DEF OneLine
    <3>3. QED
      BY <1>1, <3>2
  <2>3. QED
    BY <2>1, <2>2
<1>5. QED
  BY <1>2, <1>3, <1>4 DEF OneLine, both

\* A line with its end, or without
LEMMA LineEnds ==
  ASSUME NEW s \in Seq(Char), s # <<>>, OneLine(s)
  PROVE  /\ Last(s) = s[Len(s)]
         /\ Last(s) = NL => NoEnd(Front(s)) /\ Front(s) \o <<NL>> = s
         /\ Last(s) # NL => NoEnd(s)
<1> DEFINE n == Len(s)
           f == Front(s)
           all == f \o <<NL>>
<1>1. n \in Nat /\ n # 0 /\ DOMAIN s = 1 .. n /\ Last(s) = s[n]
  BY LenProperties, EmptySeq DEF Last
<1>2. Last(s) # NL => NoEnd(s)
  BY <1>1 DEF OneLine, NoEnd
<1>3. f \in Seq(Char) /\ Len(f) = n - 1 /\ \A k \in 1 .. n - 1 : f[k] = s[k]
  <2>1. n - 1 \in Nat /\ n - 1 <= n
    BY <1>1
  <2>2. \A k \in 1 .. n - 1 : s[k] \in Char
    BY <1>1, ElementOfSeq
  <2> HIDE DEF n
  <2>3. LET g == SubSeq(s, 1, n - 1)
        IN g \in Seq(Char) /\ Len(g) = n - 1 /\ \A k \in 1 .. n - 1 : g[k] = s[k]
    BY <2>1, <2>2, SubSeqProperties
  <2>4. QED
    BY <2>3 DEF Front, n
<1> HIDE DEF f
<1>4. DOMAIN f = 1 .. n - 1
  BY <1>3, LenProperties
<1>5. NoEnd(f)
  BY <1>1, <1>3, <1>4 DEF OneLine, NoEnd
<1>6. ASSUME s[n] = NL PROVE all = s
  <2>1. <<NL>> \in Seq(Char) /\ Len(<<NL>>) = 1
    BY OneChar
  <2>2. <<NL>>[1] = NL
    OBVIOUS
  <2> DEFINE e == <<NL>>
  <2>3. e \in Seq(Char) /\ Len(e) = 1 /\ e[1] = NL
    BY <2>1, <2>2
  <2> HIDE DEF e
  <2>4. /\ f \o e \in Seq(Char) /\ Len(f \o e) = Len(f) + Len(e)
        /\ \A k \in 1 .. Len(f) + Len(e) : (f \o e)[k] = IF k <= Len(f) THEN f[k] ELSE e[k - Len(f)]
    BY <1>3, <2>3, ConcatProperties
  <2> HIDE DEF n
  <2>5. (n - 1) + 1 = n /\ n - (n - 1) = 1 /\ ~(n <= n - 1)
        /\ \A k \in 1 .. n : k = n \/ (k \in 1 .. n - 1 /\ k <= n - 1)
    BY <1>1
  <2>6. ASSUME NEW k \in 1 .. n PROVE (f \o e)[k] = s[k]
    <3>1. (f \o e)[k] = IF k <= n - 1 THEN f[k] ELSE e[k - (n - 1)]
      BY <1>3, <2>3, <2>4, <2>5
    <3>2. CASE k = n
      BY <1>6, <2>3, <2>5, <3>1, <3>2
    <3>3. CASE k \in 1 .. n - 1 /\ k <= n - 1
      BY <1>3, <3>1, <3>3
    <3>4. QED
      BY <2>5, <3>2, <3>3
  <2>7. Len(f \o e) = n
    BY <1>3, <2>3, <2>4, <2>5
  <2>8. f \o e = s
    BY <2>4, <2>6, <2>7, SeqEqual DEF n
  <2>9. QED
    BY <2>8 DEF e
<1>7. QED
  BY <1>1, <1>2, <1>5, <1>6 DEF f
Entries == [by : {"typein", "readline", "lost"}, first : Nat, text : Seq(Char)]

\* What entry e adds to the statements
Stated(e) == IF e.by = "typein" THEN e.text ELSE <<>>

\* One entry more: its text is behind what was used.
LEMMA OneEntryMore ==
  ASSUME NEW c \in Seq(Entries), NEW e \in Entries
  PROVE  /\ Append(c, e) \in Seq(Entries)
         /\ Replay(c) \in Seq(Char) /\ Replay(Append(c, e)) = Replay(c) \o e.text
         /\ Statements(c) \in Seq(Char)
         /\ Statements(Append(c, e)) = Statements(c) \o Stated(e)
<1> DEFINE d == Append(c, e)
           n == Len(c)
<1>1. e.text \in Seq(Char) /\ Stated(e) \in Seq(Char)
  BY OneChar DEF Entries, Stated
<1>2. /\ d \in Seq(Entries) /\ n \in Nat /\ Len(d) = n + 1 /\ DOMAIN c = 1 .. n
      /\ DOMAIN d = 1 .. n + 1 /\ d[n + 1] = e /\ \A k \in 1 .. n : d[k] = c[k]
  BY LenProperties, AppendProperties
<1>3. \A k \in 1 .. n : c[k] \in Entries
  BY ElementOfSeq
<1> HIDE DEF d
<1>4. ASSUME NEW T \in [Entries -> Seq(Char)]
      PROVE  /\ [k \in DOMAIN c |-> T[c[k]]] \in Seq(Seq(Char))
             /\ [k \in DOMAIN d |-> T[d[k]]] = Append([k \in DOMAIN c |-> T[c[k]]], T[e])
  <2> DEFINE f == [k \in 1 .. n |-> T[c[k]]]
             g == [k \in 1 .. n + 1 |-> T[d[k]]]
             w == T[e]
             h == Append(f, w)
  <2>1. f \in Seq(Seq(Char)) /\ Len(f) = n /\ \A k \in 1 .. n : f[k] = T[c[k]]
    <3>1. \A k \in 1 .. n : T[c[k]] \in Seq(Char)
      BY <1>3, <1>4
    <3> HIDE DEF n
    <3>2. QED
      BY <1>2, <3>1, IsASeq
  <2>2. w \in Seq(Char)
    BY <1>4
  <2> HIDE DEF f, w
  <2>3. h \in Seq(Seq(Char)) /\ Len(h) = n + 1 /\ h[n + 1] = w /\ \A k \in 1 .. n : h[k] = f[k]
    BY <2>1, <2>2, AppendProperties
  <2> HIDE DEF h
  <2>4. g \in Seq(Seq(Char)) /\ Len(g) = n + 1
    <3>1. \A k \in 1 .. n + 1 : d[k] \in Entries
      BY <1>2, <1>3
    <3>2. \A k \in 1 .. n + 1 : T[d[k]] \in Seq(Char)
      BY <1>4, <3>1
    <3> DEFINE m == n + 1
    <3>3. m \in Nat /\ g = [k \in 1 .. m |-> T[d[k]]] /\ \A k \in 1 .. m : T[d[k]] \in Seq(Char)
      BY <1>2, <3>2
    <3> HIDE DEF m, g
    <3>4. g \in Seq(Seq(Char)) /\ Len(g) = m
      BY <3>3
    <3>5. QED
      BY <3>4 DEF m
  <2>5. ASSUME NEW k \in 1 .. n + 1 PROVE g[k] = h[k]
    <3>1. CASE k = n + 1
      BY <1>2, <2>3, <3>1 DEF w
    <3>2. CASE k \in 1 .. n
      BY <1>2, <2>1, <2>3, <3>2
    <3>3. QED
      BY <1>2, <3>1, <3>2
  <2> HIDE DEF g
  <2>6. g = h
    BY <2>3, <2>4, <2>5, SeqEqual
  <2>7. QED
    BY <1>2, <2>1, <2>6 DEF f, g, h, w
<1> DEFINE texts(s) == [k \in DOMAIN s |-> s[k].text]
           stated(s) == [k \in DOMAIN s |-> Stated(s[k])]
<1>5. texts(c) \in Seq(Seq(Char)) /\ texts(d) = Append(texts(c), e.text)
  <2> DEFINE T == [x \in Entries |-> x.text]
  <2>1. T \in [Entries -> Seq(Char)]
    BY DEF Entries
  <2>2. (\A k \in DOMAIN c : T[c[k]] = c[k].text) /\ (\A k \in DOMAIN d : T[d[k]] = d[k].text)
        /\ T[e] = e.text
    BY <1>2, <1>3
  <2> HIDE DEF T
  <2>3. QED
    BY <1>4, <2>1, <2>2
<1>6. stated(c) \in Seq(Seq(Char)) /\ stated(d) = Append(stated(c), Stated(e))
  <2> DEFINE T == [x \in Entries |-> Stated(x)]
  <2>1. T \in [Entries -> Seq(Char)]
    BY OneChar DEF Entries, Stated
  <2>2. (\A k \in DOMAIN c : T[c[k]] = Stated(c[k])) /\ (\A k \in DOMAIN d : T[d[k]] = Stated(d[k]))
        /\ T[e] = Stated(e)
    BY <1>2, <1>3
  <2> HIDE DEF T
  <2>3. QED
    BY <1>4, <2>1, <2>2
<1>7. /\ Replay(c) = FlattenSeq(texts(c)) /\ Replay(d) = FlattenSeq(texts(d))
      /\ Statements(c) = FlattenSeq(stated(c)) /\ Statements(d) = FlattenSeq(stated(d))
  BY DEF Replay, Statements, Stated
<1> HIDE DEF texts, stated
<1>8. Replay(c) \in Seq(Char) /\ Replay(d) = Replay(c) \o e.text
  BY <1>1, <1>5, <1>7, FlattenAppend
<1>9. Statements(c) \in Seq(Char) /\ Statements(d) = Statements(c) \o Stated(e)
  BY <1>1, <1>6, <1>7, FlattenAppend
<1>10. QED
  BY <1>2, <1>8, <1>9 DEF d
LEMMA NothingUsed == Replay(<<>>) = <<>> /\ Statements(<<>>) = <<>>
<1>1. ASSUME NEW f, f = <<>> PROVE FlattenSeq(f) = <<>>
  BY <1>1, FlattenEmpty
<1>2. /\ [k \in DOMAIN <<>> |-> <<>>[k].text] = <<>>
      /\ [k \in DOMAIN <<>> |-> IF <<>>[k].by = "typein" THEN <<>>[k].text ELSE <<>>] = <<>>
  OBVIOUS
<1>3. QED
  BY <1>1, <1>2 DEF Replay, Statements

Ended == pos = Len(typed)

\* Entry j of c: a statement has the number of its first line, of the lines of
\* the statements before it, and readline() returned one line or the rest.
EntryRight(c, j) ==
    /\ c[j].by = "typein" => c[j].first = 1 + Newlines(Statements(SubSeq(c, 1, j - 1)))
    /\ c[j].by = "readline" => OneLine(c[j].text) /\ (Last(c[j].text) = NL \/ Ended)

LEMMA EntriesRight ==
  ASSUME NEW c \in Seq(Entries), NEW e \in Entries, \A j \in DOMAIN c : EntryRight(c, j),
         e.by = "typein" => e.first = 1 + Newlines(Statements(c)),
         e.by = "readline" => OneLine(e.text) /\ (Last(e.text) = NL \/ Ended)
  PROVE  \A j \in DOMAIN Append(c, e) : EntryRight(Append(c, e), j)
<1> DEFINE d == Append(c, e)
           n == Len(c)
<1>1. /\ d \in Seq(Entries) /\ n \in Nat /\ DOMAIN c = 1 .. n /\ DOMAIN d = 1 .. n + 1
      /\ d[n + 1] = e /\ Len(d) = n + 1 /\ \A j \in 1 .. n : d[j] = c[j]
  BY LenProperties, AppendProperties
<1>2. \A j \in 1 .. n : c[j] \in Entries
  BY ElementOfSeq
<1> HIDE DEF d, n
<1>3. ASSUME NEW j \in 1 .. n + 1 PROVE SubSeq(d, 1, j - 1) = SubSeq(c, 1, j - 1)
  <2>1. /\ j - 1 \in Int /\ (j - 1) - 1 + 1 = j - 1
        /\ \A k \in 1 .. j - 1 : k \in 1 .. n /\ 1 + k - 1 = k
    BY <1>1
  <2>2. \A k \in 1 .. j - 1 : c[k] \in Entries /\ d[k] = c[k]
    BY <1>1, <1>2, <2>1
  <2> DEFINE m == j - 1
             x == SubSeq(d, 1, m)
             y == SubSeq(c, 1, m)
  <2>3. m \in Int /\ \A k \in 1 .. m : c[k] \in Entries /\ d[k] \in Entries /\ d[k] = c[k]
    BY <2>1, <2>2
  <2> HIDE DEF m
  <2>4. /\ x \in Seq(Entries) /\ Len(x) = IF 1 <= m THEN m - 1 + 1 ELSE 0
        /\ \A k \in 1 .. m - 1 + 1 : x[k] = d[1 + k - 1]
    BY <2>3, SubSeqProperties
  <2>5. /\ y \in Seq(Entries) /\ Len(y) = IF 1 <= m THEN m - 1 + 1 ELSE 0
        /\ \A k \in 1 .. m - 1 + 1 : y[k] = c[1 + k - 1]
    BY <2>3, SubSeqProperties
  <2> HIDE DEF x, y
  <2>6. Len(x) = Len(y) /\ \A k \in 1 .. Len(x) : x[k] = y[k]
    <3>1. Len(x) = IF 1 <= m THEN m ELSE 0
      BY <2>3, <2>4
    <3>2. \A k \in 1 .. m : x[k] = d[k] /\ y[k] = c[k]
      BY <2>3, <2>4, <2>5
    <3>3. QED
      BY <2>3, <2>4, <2>5, <3>1, <3>2
  <2>7. x = y
    BY <2>4, <2>5, <2>6, SeqEqual
  <2>8. QED
    BY <2>7 DEF m, x, y
<1>4. SubSeq(c, 1, n) = c
  BY SubSeqFull DEF n
<1>5. ASSUME NEW j \in 1 .. n + 1 PROVE EntryRight(d, j)
  <2>1. CASE j \in 1 .. n
    <3>1. EntryRight(c, j) /\ d[j] = c[j] /\ SubSeq(d, 1, j - 1) = SubSeq(c, 1, j - 1)
      BY <1>1, <1>3, <2>1
    <3>2. QED
      BY <3>1 DEF EntryRight
  <2>2. CASE j = n + 1
    <3>1. j - 1 = n
      BY <1>1, <2>2
    <3>2. d[j] = e /\ SubSeq(d, 1, j - 1) = c
      BY <1>1, <1>3, <1>4, <2>2, <3>1
    <3>3. QED
      BY <3>2 DEF EntryRight
  <2>3. QED
    BY <1>1, <2>1, <2>2
<1>6. QED
  BY <1>1, <1>5 DEF d

-----------------------------------------------------------------------------
(* The invariant and its steps.                                            *)

\* The input that was read, and that x is all of it: at the end of the input a
\* line may have been given an end it did not have.
WasRead == SubSeq(typed, 1, pos)
IsRead(x) ==
    \/ x = WasRead
    \/ Ended /\ x = WasRead \o <<NL>>

\* The statement as far as it was read, and its lines with their ends
Statement == SubSeq(buffer, 1, len)
Lines == IF startline = lineno THEN <<>> ELSE Statement \o <<NL>>

Taken == Replay(compiled)
Reading == Taken \o Lines
CompiledSoFar ==
    /\ at \in {"prompt", "run"} => IsRead(Taken)
    /\ at = "getline" => IsRead(Reading)
    /\ at = "fgets" =>
          \/ Reading \o line = WasRead
          \/ line = <<>> /\ IsRead(Reading)
    /\ at = "line" => IsRead((Reading \o line) \o <<NL>>)
    /\ at = "compile" => IsRead(Taken \o (Statement \o <<NL>>))
    /\ at = "readline" => Taken \o buf = WasRead \/ (buf = <<>> /\ IsRead(Taken))
    /\ at = "gotline" =>
          /\ Taken \o buf = WasRead
          /\ buf # <<>> /\ OneLine(buf) /\ (Last(buf) = NL \/ Ended)

\* The number of the line behind the statements so far
NextLine == 1 + Newlines(Statements(compiled))
Numbers ==
    /\ at \in {"off", "prompt", "run", "readline", "gotline"} => lineno = NextLine
    /\ at \in {"getline", "fgets", "line", "compile"} => startline = NextLine
    /\ at \in {"getline", "fgets", "line"} => lineno = NextLine + Newlines(Lines)
    /\ at = "compile" => lineno = NextLine + Newlines(Statement \o <<NL>>)

\* With hitEOF the prompt does not come back.
StatementsInv ==
    /\ compiled \in Seq(Entries) /\ hitEOF \in BOOLEAN
    /\ at \in {"off", "prompt", "getline", "fgets", "line"} => ~hitEOF
    /\ at = "off" => compiled = <<>>
    /\ at \in {"fgets", "line"} => NoEnd(line)
    /\ at = "readline" => NoEnd(buf)
    /\ ~hitEOF /\ at # "done" =>
          CompiledSoFar /\ Numbers /\ \A j \in DOMAIN compiled : EntryRight(compiled, j)

LEMMA TextTypes ==
  ASSUME ReplInv, compiled \in Seq(Entries)
  PROVE  /\ WasRead \in Seq(Char) /\ Len(WasRead) = pos
         /\ Taken \in Seq(Char) /\ Statements(compiled) \in Seq(Char)
         /\ NextLine \in Nat
         /\ at \notin {"prompt", "done"} =>
               Statement \in Seq(Char) /\ Lines \in Seq(Char) /\ Reading \in Seq(Char)
<1>1. typed \in Seq(Char) /\ pos \in Nat /\ pos <= Len(typed)
  BY DEF ReplInv, ReplTypes
<1>2. WasRead \in Seq(Char) /\ Len(WasRead) = pos
  BY <1>1, Prefix DEF WasRead
<1>3. Taken \in Seq(Char) /\ Statements(compiled) \in Seq(Char)
  <2> DEFINE e == [by |-> "lost", first |-> 0, text |-> <<>>]
  <2>1. e \in Entries
    BY OneChar DEF Entries
  <2> HIDE DEF e
  <2>2. QED
    BY <2>1, OneEntryMore DEF Taken
<1>4. NextLine \in Nat
  BY <1>3, NewlinesAdd DEF NextLine
<1>5. ASSUME at \notin {"prompt", "done"} PROVE Statement \in Seq(Char)
  <2>1. CASE buffer = NoBuffer
    <3>1. len = 0
      BY <2>1 DEF ReplInv, ReplTypes
    <3>2. Statement = <<>>
      BY <3>1, SubSeqEmpty DEF Statement
    <3>3. QED
      BY <3>2, OneChar
  <2>2. CASE buffer # NoBuffer
    <3>1. buffer \in Seq(Char) /\ len \in Nat /\ len <= Len(buffer)
      BY <1>5, <2>2 DEF ReplInv, ReplTypes, BuffersFit
    <3>2. QED
      BY <3>1, Prefix DEF Statement
  <2>3. QED
    BY <2>1, <2>2
<1>6. ASSUME at \notin {"prompt", "done"}
      PROVE  Statement \in Seq(Char) /\ Lines \in Seq(Char) /\ Reading \in Seq(Char)
  <2>1. Lines \in Seq(Char)
    BY <1>5, <1>6, OneChar, ConcatProperties DEF Lines
  <2>2. QED
    BY <1>3, <1>5, <1>6, <2>1, ConcatProperties DEF Reading
<1>7. QED
  BY <1>2, <1>3, <1>4, <1>6

\* What fgets returned is behind what was read before.
LEMMA ReadMore ==
  ASSUME ReplInv, NEW n, NEW got, FgetsReturns(n, got), got # <<>>,
         pos' = pos + Len(got), typed' = typed
  PROVE  /\ WasRead' = WasRead \o got /\ ~Ended
         /\ got \in Seq(Char) /\ WasRead \in Seq(Char)
<1>1. typed \in Seq(Char) /\ pos \in Nat /\ pos <= Len(typed) /\ Len(typed) \in Nat
  BY LenProperties DEF ReplInv, ReplTypes
<1>2. /\ got \in Seq(Char) /\ Len(got) \in Nat /\ Len(got) # 0 /\ pos + Len(got) <= Len(typed)
      /\ got = SubSeq(typed, pos + 1, pos + Len(got))
  BY LenProperties, EmptySeq DEF FgetsReturns
<1> DEFINE m == pos + Len(got)
<1>3. 1 \in 1 .. Len(typed) + 1 /\ pos \in 1 - 1 .. Len(typed) /\ m \in pos .. Len(typed)
  BY <1>1, <1>2
<1> HIDE DEF m
<1>4. SubSeq(typed, 1, pos) \o SubSeq(typed, pos + 1, m) = SubSeq(typed, 1, m)
  BY <1>1, <1>3, ConcatAdjacentSubSeq
<1>5. WasRead' = SubSeq(typed, 1, m)
  BY DEF WasRead, m
<1>6. WasRead \in Seq(Char)
  BY <1>1, Prefix DEF WasRead
<1>7. ~Ended
  BY <1>1, <1>2 DEF Ended
<1>8. QED
  BY <1>2, <1>4, <1>5, <1>6, <1>7 DEF WasRead, m
\* Steps that leave the input and what was used of it as they are
UseKept == UNCHANGED <<typed, pos, compiled>>

LEMMA UseStays ==
  ASSUME UseKept
  PROVE  /\ WasRead' = WasRead /\ Ended' = Ended /\ Taken' = Taken /\ NextLine' = NextLine
         /\ \A x : IsRead(x)' <=> IsRead(x)
         /\ (\A j \in DOMAIN compiled : EntryRight(compiled, j))' <=>
               \A j \in DOMAIN compiled : EntryRight(compiled, j)
  BY DEF UseKept, WasRead, Ended, Taken, NextLine, IsRead, EntryRight

LEMMA PromptKeepsUse ==
  ASSUME ReplInv, StatementsInv, Prompt \/ GetLine
  PROVE  StatementsInv'
<1>1. UseKept /\ compiled \in Seq(Entries) /\ ~hitEOF
      /\ ~hitEOF' /\ hitEOF' \in BOOLEAN
  BY DEF Prompt, GetLine, UseKept, StatementsInv, lineVars
<1>2. CompiledSoFar /\ Numbers /\ \A j \in DOMAIN compiled : EntryRight(compiled, j)
  BY DEF Prompt, GetLine, StatementsInv
<1>3. Taken \in Seq(Char) /\ NextLine \in Nat
  BY <1>1, TextTypes
<1>4. CASE Prompt
  <2>1. /\ at = "prompt" /\ at' = "getline" /\ startline' = lineno /\ lineno' = lineno
        /\ UNCHANGED <<line, buf>>
    BY <1>4 DEF Prompt, lineVars, readVars
  <2>2. Lines' = <<>>
    BY <2>1 DEF Lines
  <2>3. Taken \o <<>> = Taken
    BY <1>3, ConcatEmptySeq
  <2>4. Reading' = Taken
    BY <1>1, <2>2, <2>3, UseStays DEF Reading
  <2>5. CompiledSoFar'
    BY <1>1, <1>2, <2>1, <2>4, UseStays DEF CompiledSoFar
  <2>6. Numbers'
    BY <1>1, <1>2, <1>3, <2>1, <2>2, UseStays, NoNewlines DEF Numbers
  <2>7. QED
    BY <1>1, <1>2, <2>1, <2>5, <2>6, UseStays DEF StatementsInv, UseKept
<1>5. CASE GetLine
  <2>1. /\ at = "getline" /\ at' = "fgets" /\ line' = <<>>
        /\ UNCHANGED <<startline, lineno, buffer, len, buf>>
    BY <1>5 DEF GetLine, bufferVars, readVars
  <2>2. Lines' = Lines
    BY <2>1 DEF Lines, Statement
  <2>3. Reading' = Reading
    BY <1>1, <2>2, UseStays DEF Reading
  <2>4. CompiledSoFar'
    BY <1>1, <1>2, <2>1, <2>3, UseStays DEF CompiledSoFar
  <2>5. Numbers'
    BY <1>1, <1>2, <2>1, <2>2, UseStays DEF Numbers
  <2>6. QED
    BY <1>1, <1>2, <2>1, <2>4, <2>5, UseStays, NoNewlines DEF StatementsInv, UseKept
<1>6. QED
  BY <1>4, <1>5

LEMMA ReadChunkKeepsUse ==
  ASSUME ReplInv, StatementsInv, ReadChunk
  PROVE  StatementsInv'
<1> DEFINE n == lineSize - Len(line)
           got == Fgets(n)
           all == line \o got
<1>1. /\ at = "fgets" /\ n \in Nat \ {0} /\ line \in Seq(Char)
      /\ typed \in Seq(Char) /\ pos \in Nat /\ pos <= Len(typed)
  BY LenProperties DEF ReadChunk, ReplInv, ReplTypes, LineRoom
<1>2. /\ got # <<>> /\ pos' = pos + Len(got)
      /\ \/ Last(all) = NL /\ line' = Front(all) /\ at' = "line"
         \/ Last(all) # NL /\ line' = all /\ at' = "fgets"
      /\ UNCHANGED <<typed, startline, lineno, buffer, len, buf, compiled, hitEOF>>
  BY <1>1 DEF ReadChunk, ReadBehind, bufferVars, readVars
<1> HIDE DEF n
<1>3. FgetsReturns(n, got)
  BY <1>1, FgetsIs
<1> HIDE DEF got
<1>4. WasRead' = WasRead \o got /\ ~Ended /\ got \in Seq(Char) /\ WasRead \in Seq(Char)
  BY <1>2, <1>3, ReadMore
<1>5. /\ compiled \in Seq(Entries) /\ ~hitEOF /\ NoEnd(line)
      /\ CompiledSoFar /\ Numbers /\ \A j \in DOMAIN compiled : EntryRight(compiled, j)
  BY <1>1 DEF StatementsInv
<1>6. Reading \in Seq(Char)
  BY <1>1, <1>5, TextTypes
<1>7. Reading \o line = WasRead
  <2>1. \/ Reading \o line = WasRead
        \/ line = <<>> /\ Reading = WasRead
    BY <1>1, <1>4, <1>5 DEF CompiledSoFar, IsRead
  <2>2. Reading \o <<>> = Reading
    BY <1>6, ConcatEmptySeq
  <2>3. QED
    BY <2>1, <2>2
<1>8. Reading \o all = WasRead' /\ all \in Seq(Char)
  <2>1. (Reading \o line) \o got = Reading \o all
    <3>1. got \in Seq(Char) /\ line \in Seq(Char)
      BY <1>1, <1>4
    <3>2. QED
      BY <1>6, <3>1, ConcatAssociative
  <2>2. all \in Seq(Char)
    BY <1>1, <1>4, ConcatProperties
  <2>3. QED
    BY <1>4, <1>7, <2>1, <2>2
<1>9. all # <<>>
  BY <1>1, <1>2, <1>4, ConcatEqualIffEmpty
<1>10. OneLine(all)
  BY <1>1, <1>3, <1>4, <1>5, LineGoesOn DEF FgetsReturns
<1> HIDE DEF all
<1>11. /\ Last(all) = NL => NoEnd(Front(all)) /\ Front(all) \o <<NL>> = all
       /\ Last(all) # NL => NoEnd(all)
  BY <1>8, <1>9, <1>10, LineEnds
<1>12. Taken' = Taken /\ NextLine' = NextLine /\ Lines' = Lines /\ Reading' = Reading
  BY <1>2 DEF Taken, NextLine, Reading, Lines, Statement
<1>13. CompiledSoFar' /\ NoEnd(line')
  <2>1. CASE Last(all) = NL /\ line' = Front(all) /\ at' = "line"
    <3>1. Front(all) \in Seq(Char)
      <4>1. line' \in Seq(Char)
        BY LineKeeps DEF ReplInv, ReplTypes
      <4>2. QED
        BY <2>1, <4>1
    <3>2. (Reading \o Front(all)) \o <<NL>> = Reading \o (Front(all) \o <<NL>>)
      BY <1>6, <3>1, OneChar, ConcatAssociative
    <3>3. (Reading' \o line') \o <<NL>> = WasRead'
      BY <1>8, <1>11, <1>12, <2>1, <3>2
    <3>4. QED
      BY <1>11, <2>1, <3>3 DEF CompiledSoFar, IsRead
  <2>2. CASE Last(all) # NL /\ line' = all /\ at' = "fgets"
    BY <1>8, <1>11, <1>12, <2>2 DEF CompiledSoFar
  <2>3. QED
    BY <1>2, <2>1, <2>2
<1>14. Numbers'
  BY <1>1, <1>2, <1>5, <1>12 DEF Numbers
<1>15. \A j \in DOMAIN compiled' : EntryRight(compiled, j)'
  BY <1>2, <1>4, <1>5 DEF EntryRight
<1>16. QED
  BY <1>2, <1>5, <1>13, <1>14, <1>15 DEF StatementsInv

LEMMA EndOfFileKeepsUse ==
  ASSUME ReplInv, StatementsInv, EndOfFile \/ LineFails \/ BufferFails
  PROVE  StatementsInv'
<1>1. compiled \in Seq(Entries) /\ hitEOF \in BOOLEAN /\ compiled' = compiled
  BY DEF StatementsInv, EndOfFile, LineFails, BufferFails
<1>2. CASE LineFails \/ BufferFails
  <2>1. at' = "done" /\ UNCHANGED <<hitEOF, line, buf>>
    BY <1>2 DEF LineFails, BufferFails, lineVars, readVars
  <2>2. QED
    BY <1>1, <2>1 DEF StatementsInv
<1>3. CASE EndOfFile /\ line = <<>>
  <2>1. hitEOF' = TRUE /\ at' \in {"done", "compile"} /\ UNCHANGED <<line, buf>>
    BY <1>3 DEF EndOfFile, lineVars, readVars
  <2>2. QED
    BY <1>1, <2>1 DEF StatementsInv
<1>4. CASE EndOfFile /\ line # <<>>
  <2>1. /\ at = "fgets" /\ at' = "line" /\ Ended /\ UseKept
        /\ UNCHANGED <<line, buf, startline, lineno, buffer, len, hitEOF>>
    BY <1>4 DEF EndOfFile, Ended, UseKept, lineVars, readVars, bufferVars
  <2>2. /\ ~hitEOF /\ NoEnd(line) /\ CompiledSoFar /\ Numbers
        /\ \A j \in DOMAIN compiled : EntryRight(compiled, j)
    BY <2>1 DEF StatementsInv
  <2>3. Reading \o line = WasRead
    BY <1>4, <2>1, <2>2 DEF CompiledSoFar
  <2>4. Lines' = Lines /\ Reading' = Reading
    BY <2>1, UseStays DEF Lines, Statement, Reading
  <2>5. CompiledSoFar'
    <3>1. IsRead((Reading' \o line') \o <<NL>>)
      BY <2>1, <2>3, <2>4 DEF IsRead
    <3>2. WasRead' = WasRead /\ Ended' = Ended
      BY <2>1, UseStays
    <3>3. QED
      BY <2>1, <3>1, <3>2 DEF CompiledSoFar, IsRead
  <2>6. Numbers'
    BY <2>1, <2>2, <2>4, UseStays DEF Numbers
  <2>7. QED
    BY <1>1, <2>1, <2>2, <2>5, <2>6, UseStays DEF StatementsInv, UseKept
<1>5. QED
  BY <1>2, <1>3, <1>4
\* "len + 1 is required to store '\n' in the end of line": the buffer holds the
\* lines before and the one that was read.
LEMMA LineIsAdded ==
  ASSUME ReplInv, TakeLine
  PROVE  Statement' = Lines \o line /\ Lines' = (Lines \o line) \o <<NL>>
<1>1. /\ at = "line" /\ line \in Seq(Char) /\ len \in Nat /\ lineno \in Nat /\ startline \in Nat
      /\ lineno' = lineno + 1 /\ startline' = startline /\ startline <= lineno
      /\ (len = 0 <=> startline = lineno)
  BY DEF TakeLine, ReplInv, ReplTypes, NewlinesCounted
<1>2. len = 0 => Statement = <<>>
  BY SubSeqEmpty DEF Statement
<1>3. Statement' = Lines \o line
  <2>1. CASE FirstLine
    <3>1. buffer' = line /\ len' = Len(line) /\ len = 0
      BY <2>1 DEF FirstLine, ReplInv, ReplTypes
    <3>2. Lines = <<>>
      BY <1>1, <3>1 DEF Lines
    <3>3. SubSeq(line, 1, Len(line)) = line
      BY <1>1, SubSeqFull
    <3>4. <<>> \o line = line
      BY <1>1, ConcatEmptySeq
    <3>5. QED
      BY <3>1, <3>2, <3>3, <3>4 DEF Statement
  <2>2. CASE AppendLine
    <3> DEFINE ends == IF startline # lineno THEN <<NL>> ELSE <<>>
               text == (Statement \o ends) \o line
               newlen == Len(line) + (IF len # 0 THEN len + 1 ELSE 0)
    <3>1. buffer # NoBuffer /\ buffer' = text /\ len' = newlen
      BY <2>2 DEF AppendLine, Statement
    <3>2. Statement \in Seq(Char) /\ Len(Statement) = len
      <4>1. buffer \in Seq(Char) /\ len <= Len(buffer)
        BY <1>1, <3>1 DEF ReplInv, ReplTypes, BuffersFit
      <4>2. QED
        BY <1>1, <4>1, Prefix DEF Statement
    <3>3. ends \in Seq(Char) /\ Len(ends) = IF len # 0 THEN 1 ELSE 0
      BY <1>1, OneChar
    <3>4. Statement \o ends = Lines
      <4>1. CASE startline # lineno
        BY <4>1 DEF Lines
      <4>2. CASE startline = lineno
        <5>1. Statement = <<>> /\ ends = <<>> /\ Lines = <<>>
          BY <1>1, <1>2, <4>2 DEF Lines
        <5>2. Statement \o <<>> = Statement
          BY <3>2, ConcatEmptySeq
        <5>3. QED
          BY <5>1, <5>2
      <4>3. QED
        BY <4>1, <4>2
    <3> HIDE DEF ends
    <3>5. text \in Seq(Char) /\ Len(text) = newlen
      <4> DEFINE s == Statement \o ends
      <4>1. s \in Seq(Char) /\ Len(s) = len + (IF len # 0 THEN 1 ELSE 0)
        <5>1. s \in Seq(Char) /\ Len(s) = Len(Statement) + Len(ends)
          BY <3>2, <3>3, ConcatProperties
        <5> HIDE DEF s
        <5>2. QED
          BY <3>2, <3>3, <5>1
      <4> HIDE DEF s
      <4>2. s \o line \in Seq(Char) /\ Len(s \o line) = Len(s) + Len(line)
        BY <1>1, <4>1, ConcatProperties
      <4>3. Len(line) \in Nat
        BY <1>1, LenProperties
      <4>4. QED
        BY <1>1, <4>1, <4>2, <4>3 DEF s
    <3> HIDE DEF text, newlen
    <3>6. SubSeq(text, 1, newlen) = text
      BY <3>5, SubSeqFull
    <3>7. QED
      BY <3>1, <3>4, <3>6 DEF Statement, text
  <2>3. QED
    BY <2>1, <2>2 DEF TakeLine
<1>4. startline' # lineno'
  BY <1>1
<1>5. QED
  BY <1>3, <1>4 DEF Lines

LEMMA TakeLineKeepsUse ==
  ASSUME ReplInv, StatementsInv, TakeLine
  PROVE  StatementsInv'
<1>1. /\ at = "line" /\ lineno' = lineno + 1 /\ startline' = startline /\ buf' = buf /\ UseKept
      /\ \/ at' = "compile" /\ hitEOF' \in BOOLEAN
         \/ at' = "getline" /\ hitEOF' = hitEOF
  BY DEF TakeLine, lineVars, readVars, UseKept
<1>2. /\ compiled \in Seq(Entries) /\ ~hitEOF /\ NoEnd(line)
      /\ CompiledSoFar /\ Numbers /\ \A j \in DOMAIN compiled : EntryRight(compiled, j)
  BY <1>1 DEF StatementsInv
<1>3. /\ line \in Seq(Char) /\ lineno \in Nat
      /\ Taken \in Seq(Char) /\ Lines \in Seq(Char) /\ NextLine \in Nat
  BY <1>1, <1>2, TextTypes DEF ReplInv, ReplTypes
<1>4. Statement' = Lines \o line /\ Lines' = (Lines \o line) \o <<NL>>
  BY LineIsAdded
<1>5. Lines \o line \in Seq(Char)
  BY <1>3, ConcatProperties
<1>6. Taken \o ((Lines \o line) \o <<NL>>) = (Reading \o line) \o <<NL>>
  <2>1. Taken \o ((Lines \o line) \o <<NL>>) = (Taken \o (Lines \o line)) \o <<NL>>
    BY <1>3, <1>5, OneChar, ConcatAssociative
  <2>2. Taken \o (Lines \o line) = (Taken \o Lines) \o line
    BY <1>3, ConcatAssociative
  <2>3. QED
    BY <2>1, <2>2 DEF Reading
<1>7. IsRead((Reading \o line) \o <<NL>>)
  BY <1>1, <1>2 DEF CompiledSoFar
<1>8. CompiledSoFar'
  <2>1. Taken' = Taken /\ WasRead' = WasRead /\ Ended' = Ended
    BY <1>1, UseStays
  <2>2. /\ Taken' \o Lines' = (Reading \o line) \o <<NL>>
        /\ Taken' \o (Statement' \o <<NL>>) = (Reading \o line) \o <<NL>>
    BY <1>4, <1>6, <2>1
  <2>3. IsRead(Taken \o Lines)' /\ IsRead(Taken \o (Statement \o <<NL>>))'
    BY <1>7, <2>1, <2>2 DEF IsRead
  <2>4. QED
    BY <1>1, <2>3 DEF CompiledSoFar, Reading
<1>9. Newlines((Lines \o line) \o <<NL>>) = Newlines(Lines) + 1 /\ Newlines(Lines) \in Nat
  <2>1. Newlines((Lines \o line) \o <<NL>>) = Newlines(Lines \o line) + Newlines(<<NL>>)
    BY <1>5, OneChar, NewlinesAdd
  <2>2. Newlines(Lines \o line) = Newlines(Lines) + Newlines(line) /\ Newlines(Lines) \in Nat
    BY <1>3, NewlinesAdd
  <2>3. Newlines(line) = 0 /\ Newlines(<<NL>>) = 1
    BY <1>2, NoNewlines
  <2>4. QED
    BY <2>1, <2>2, <2>3
<1>10. Numbers'
  <2>1. NextLine' = NextLine /\ startline = NextLine /\ lineno = NextLine + Newlines(Lines)
    BY <1>1, <1>2, UseStays DEF Numbers
  <2>2. lineno' = NextLine + Newlines((Lines \o line) \o <<NL>>)
    BY <1>1, <1>3, <1>9, <2>1
  <2>3. QED
    BY <1>1, <1>4, <2>1, <2>2 DEF Numbers
<1>11. QED
  BY <1>1, <1>2, <1>8, <1>10, UseStays DEF StatementsInv, UseKept
LEMMA CompileKeepsUse ==
  ASSUME ReplInv, StatementsInv, Compile
  PROVE  StatementsInv'
<1> DEFINE text == Statement \o <<NL>>
           e == [by |-> "typein", first |-> startline, text |-> text]
<1>1. /\ at = "compile" /\ at' = "run" /\ UNCHANGED <<typed, pos, lineno, hitEOF>>
      /\ compiled' = Append(compiled, [by |-> "typein", first |-> startline,
                                       text |-> Append(Statement, NL)])
  BY DEF Compile, lineVars, bufferVars, Statement
<1>2. /\ compiled \in Seq(Entries) /\ hitEOF \in BOOLEAN /\ startline \in Nat /\ lineno \in Nat
  BY DEF StatementsInv, ReplInv, ReplTypes
<1>3. Statement \in Seq(Char) /\ Taken \in Seq(Char) /\ Statements(compiled) \in Seq(Char)
  BY <1>1, <1>2, TextTypes
<1>4. text \in Seq(Char) /\ Append(Statement, NL) = text
  BY <1>3, OneChar, AppendIsConcat, ConcatProperties
<1> HIDE DEF text
<1>5. /\ e \in Entries /\ e.by = "typein" /\ e.first = startline /\ e.text = text
      /\ compiled' = Append(compiled, e)
  BY <1>1, <1>2, <1>4 DEF Entries
<1> HIDE DEF e
<1>6. /\ compiled' \in Seq(Entries) /\ Replay(compiled') = Replay(compiled) \o text
      /\ Statements(compiled') = Statements(compiled) \o text
  BY <1>2, <1>5, OneEntryMore DEF Stated
<1>7. CASE hitEOF
  BY <1>1, <1>2, <1>6, <1>7 DEF StatementsInv
<1>8. CASE ~hitEOF
  <2>1. CompiledSoFar /\ Numbers /\ \A j \in DOMAIN compiled : EntryRight(compiled, j)
    BY <1>1, <1>8 DEF StatementsInv
  <2>2. IsRead(Taken \o text)
    BY <1>1, <2>1 DEF CompiledSoFar, text
  <2>3. CompiledSoFar'
    <3>1. Taken' = Taken \o text /\ WasRead' = WasRead /\ Ended' = Ended
      BY <1>1, <1>6 DEF Taken, WasRead, Ended
    <3>2. QED
      BY <1>1, <2>2, <3>1 DEF CompiledSoFar, IsRead
  <2>4. startline = NextLine /\ lineno = NextLine + Newlines(text)
    BY <1>1, <2>1 DEF Numbers, text
  <2>5. Numbers'
    <3>1. Newlines(Statements(compiled')) = Newlines(Statements(compiled)) + Newlines(text)
          /\ Newlines(Statements(compiled)) \in Nat /\ Newlines(text) \in Nat
      BY <1>3, <1>4, <1>6, NewlinesAdd
    <3>2. NextLine' = NextLine + Newlines(text)
      BY <3>1 DEF NextLine
    <3>3. QED
      BY <1>1, <2>4, <3>2 DEF Numbers
  <2>6. \A j \in DOMAIN Append(compiled, e) : EntryRight(Append(compiled, e), j)
    <3>1. e.by = "typein" => e.first = 1 + Newlines(Statements(compiled))
      BY <1>5, <2>4 DEF NextLine
    <3>2. e.by # "readline"
      BY <1>5
    <3>3. QED
      BY <1>2, <1>5, <2>1, <3>1, <3>2, EntriesRight
  <2>7. Ended' = Ended
    BY <1>1 DEF Ended
  <2>8. \A j \in DOMAIN compiled' : EntryRight(compiled, j)'
    BY <1>5, <2>6, <2>7 DEF EntryRight
  <2>9. QED
    BY <1>1, <1>2, <1>6, <2>3, <2>5, <2>8 DEF StatementsInv
<1>9. QED
  BY <1>2, <1>7, <1>8

LEMMA RunKeepsUse ==
  ASSUME ReplInv, StatementsInv, StatementEnds \/ CallReadLine
  PROVE  StatementsInv'
<1>1. /\ at = "run" /\ UseKept /\ hitEOF' = hitEOF /\ lineno' = lineno
      /\ \/ at' = "done"
         \/ at' = "prompt" /\ ~hitEOF
         \/ at' = "readline" /\ buf' = <<>>
  BY DEF StatementEnds, CallReadLine, lineVars, bufferVars, UseKept
<1>2. compiled \in Seq(Entries) /\ hitEOF \in BOOLEAN /\ compiled' = compiled
  BY <1>1 DEF StatementsInv, UseKept
<1>3. ASSUME ~hitEOF, at' # "done"
      PROVE  CompiledSoFar' /\ Numbers' /\ (\A j \in DOMAIN compiled : EntryRight(compiled, j))'
  <2>1. CompiledSoFar /\ Numbers /\ \A j \in DOMAIN compiled : EntryRight(compiled, j)
    BY <1>1, <1>3 DEF StatementsInv
  <2>2. IsRead(Taken) /\ lineno = NextLine
    BY <1>1, <2>1 DEF CompiledSoFar, Numbers
  <2>3. IsRead(Taken)'
    BY <1>1, <2>2, UseStays DEF IsRead
  <2>4. CompiledSoFar'
    BY <1>1, <1>3, <2>3 DEF CompiledSoFar
  <2>5. Numbers'
    BY <1>1, <1>3, <2>2, UseStays DEF Numbers
  <2>6. QED
    BY <1>1, <2>1, <2>4, <2>5, UseStays
<1>4. QED
  BY <1>1, <1>2, <1>3, NoNewlines DEF StatementsInv

LEMMA ReadLineChunkKeepsUse ==
  ASSUME ReplInv, StatementsInv, ReadLineChunk
  PROVE  StatementsInv'
<1> DEFINE n == bufsize - Len(buf)
           got == Fgets(n)
           all == buf \o got
<1>1. /\ at = "readline" /\ n \in Nat \ {0} /\ buf \in Seq(Char) /\ bufsize \in Nat
      /\ Len(buf) \in Nat
      /\ typed \in Seq(Char) /\ pos \in Nat /\ pos <= Len(typed)
  BY LenProperties DEF ReadLineChunk, ReplInv, ReplTypes, BuffersFit
<1>2. /\ got # <<>> /\ pos' = pos + Len(got) /\ buf' = all
      /\ \/ Last(all) # NL /\ at' = "readline"
         \/ at' = "gotline" /\ (Last(all) = NL \/ ~(Len(all) >= bufsize - 1))
      /\ UNCHANGED <<typed, lineno, compiled, hitEOF>>
  BY <1>1 DEF ReadLineChunk, bufferVars
<1>3. n = bufsize - Len(buf)
  OBVIOUS
<1> HIDE DEF n
<1>4. FgetsReturns(n, got)
  BY <1>1, FgetsIs
<1> HIDE DEF got
<1>5. WasRead' = WasRead \o got /\ ~Ended /\ got \in Seq(Char) /\ WasRead \in Seq(Char)
  BY <1>2, <1>4, ReadMore
<1>6. compiled \in Seq(Entries) /\ hitEOF \in BOOLEAN /\ NoEnd(buf)
  BY <1>1 DEF StatementsInv
<1>7. Taken \in Seq(Char)
  BY <1>6, TextTypes
<1>8. all \in Seq(Char) /\ all # <<>> /\ Len(all) = Len(buf) + Len(got)
  <2>1. got \in Seq(Char) /\ buf \in Seq(Char)
    BY <1>1, <1>5
  <2>2. all \in Seq(Char) /\ Len(all) = Len(buf) + Len(got)
    BY <2>1, ConcatProperties
  <2>3. all # <<>>
    BY <1>2, <2>1, ConcatEqualIffEmpty
  <2>4. QED
    BY <2>2, <2>3
<1>9. OneLine(all)
  BY <1>1, <1>4, <1>5, <1>6, LineGoesOn DEF FgetsReturns
<1>10. ASSUME ~hitEOF
       PROVE  /\ Taken \o all = WasRead' /\ Numbers
              /\ \A j \in DOMAIN compiled : EntryRight(compiled, j)
  <2>1. CompiledSoFar /\ Numbers /\ \A j \in DOMAIN compiled : EntryRight(compiled, j)
    BY <1>1, <1>10 DEF StatementsInv
  <2>2. Taken \o buf = WasRead
    <3>1. Taken \o buf = WasRead \/ (buf = <<>> /\ Taken = WasRead)
      BY <1>1, <1>5, <2>1 DEF CompiledSoFar, IsRead
    <3>2. Taken \o <<>> = Taken
      BY <1>7, ConcatEmptySeq
    <3>3. QED
      BY <3>1, <3>2
  <2>3. (Taken \o buf) \o got = Taken \o all
    <3>1. got \in Seq(Char) /\ buf \in Seq(Char)
      BY <1>1, <1>5
    <3>2. QED
      BY <1>7, <3>1, ConcatAssociative
  <2>4. QED
    BY <1>5, <2>1, <2>2, <2>3
<1>11. /\ Last(all) # NL => NoEnd(all)
  BY <1>8, <1>9, LineEnds
<1>12. at' = "gotline" => Last(all) = NL \/ Ended'
  <2> SUFFICES ASSUME at' = "gotline", Last(all) # NL PROVE Ended'
    OBVIOUS
  <2>1. ~(Len(all) >= bufsize - 1)
    BY <1>2
  <2>2. Len(got) \in Nat
    BY <1>5, LenProperties
  <2>3. Len(got) # n - 1
    BY <1>1, <1>3, <1>8, <2>1, <2>2
  <2>4. ASSUME Len(got) # 0, got[Len(got)] = NL PROVE FALSE
    <3>1. NoEnd(all) /\ DOMAIN all = 1 .. Len(all)
      BY <1>8, <1>11, LenProperties
    <3>2. Len(all) \in DOMAIN all
      BY <1>1, <1>8, <2>2, <2>4, <3>1
    <3>3. all[Len(all)] = got[Len(got)]
      <4> DEFINE a == Len(buf)
                 b == Len(got)
      <4>1. \A k \in 1 .. a + b : all[k] = IF k <= a THEN buf[k] ELSE got[k - a]
        <5>1. got \in Seq(Char) /\ buf \in Seq(Char)
          BY <1>1, <1>5
        <5>2. QED
          BY <5>1, ConcatProperties
      <4>2. a \in Nat /\ b \in Nat /\ b # 0 /\ Len(all) = a + b
        BY <1>1, <1>8, <2>2, <2>4
      <4> HIDE DEF a, b, all
      <4>3. a + b \in 1 .. a + b /\ ~(a + b <= a) /\ (a + b) - a = b
        BY <4>2
      <4>4. all[a + b] = got[b]
        BY <4>1, <4>2, <4>3
      <4>5. QED
        BY <4>2, <4>4 DEF b
    <3>4. QED
      BY <2>4, <3>1, <3>2, <3>3 DEF NoEnd
  <2>5. pos + Len(got) = Len(typed)
    BY <1>4, <2>3, <2>4 DEF FgetsReturns
  <2>6. QED
    BY <1>2, <2>5 DEF Ended
<1> HIDE DEF all
<1>13. ASSUME ~hitEOF
       PROVE  CompiledSoFar' /\ Numbers' /\ \A j \in DOMAIN compiled' : EntryRight(compiled, j)'
  <2>1. Taken' = Taken /\ NextLine' = NextLine
    BY <1>2 DEF Taken, NextLine
  <2>2. CompiledSoFar'
    BY <1>2, <1>8, <1>9, <1>10, <1>12, <1>13, <2>1 DEF CompiledSoFar
  <2>3. Numbers'
    BY <1>1, <1>2, <1>10, <1>13, <2>1 DEF Numbers
  <2>4. \A j \in DOMAIN compiled' : EntryRight(compiled, j)'
    BY <1>2, <1>5, <1>10, <1>13 DEF EntryRight
  <2>5. QED
    BY <2>2, <2>3, <2>4
<1>14. QED
  BY <1>2, <1>6, <1>11, <1>13 DEF StatementsInv
LEMMA ReadLineEndsKeepsUse ==
  ASSUME ReplInv, StatementsInv, ReadLineEnds
  PROVE  StatementsInv'
<1>1. /\ at = "readline" /\ Ended /\ UseKept /\ buf' = buf /\ lineno' = lineno /\ hitEOF' = hitEOF
      /\ \/ buf = <<>> /\ at' = "run"
         \/ buf # <<>> /\ at' = "gotline"
  BY DEF ReadLineEnds, lineVars, bufferVars, UseKept, Ended
<1>2. /\ compiled \in Seq(Entries) /\ hitEOF \in BOOLEAN /\ compiled' = compiled /\ NoEnd(buf)
  BY <1>1 DEF StatementsInv, UseKept
<1>3. Taken \in Seq(Char)
  BY <1>2, TextTypes
<1>4. ASSUME ~hitEOF
      PROVE  CompiledSoFar' /\ Numbers' /\ (\A j \in DOMAIN compiled : EntryRight(compiled, j))'
  <2>1. CompiledSoFar /\ Numbers /\ \A j \in DOMAIN compiled : EntryRight(compiled, j)
    BY <1>1, <1>4 DEF StatementsInv
  <2>2. Taken \o <<>> = Taken
    BY <1>3, ConcatEmptySeq
  <2>3. CASE buf = <<>>
    <3>1. IsRead(Taken)
      BY <1>1, <2>1, <2>2, <2>3 DEF CompiledSoFar, IsRead
    <3>2. IsRead(Taken)'
      BY <1>1, <3>1, UseStays DEF IsRead
    <3>3. CompiledSoFar'
      BY <1>1, <2>3, <3>2 DEF CompiledSoFar
    <3>4. Numbers'
      BY <1>1, <2>1, <2>3, UseStays DEF Numbers
    <3>5. QED
      BY <1>1, <2>1, <3>3, <3>4, UseStays
  <2>4. CASE buf # <<>>
    <3>1. Taken \o buf = WasRead
      BY <1>1, <2>1, <2>4 DEF CompiledSoFar
    <3>2. OneLine(buf)
      BY <1>2 DEF NoEnd, OneLine
    <3>3. Taken' \o buf' = WasRead' /\ Ended'
      BY <1>1, <3>1, UseStays
    <3>4. CompiledSoFar'
      BY <1>1, <2>4, <3>2, <3>3 DEF CompiledSoFar
    <3>5. Numbers'
      BY <1>1, <2>1, <2>4, UseStays DEF Numbers
    <3>6. QED
      BY <1>1, <2>1, <3>4, <3>5, UseStays
  <2>5. QED
    BY <2>3, <2>4
<1>5. QED
  BY <1>1, <1>2, <1>4 DEF StatementsInv

LEMMA ReadLineKeepsUse ==
  ASSUME ReplInv, StatementsInv, ReadLine
  PROVE  StatementsInv'
<1>1. PICK by \in {"readline", "lost"} :
          /\ by = "readline" => at = "gotline"
          /\ compiled' = Append(compiled, [by |-> by, first |-> 0, text |-> buf])
  BY DEF ReadLine
<1>2. /\ at = "gotline" \/ (at = "readline" /\ buf # <<>>)
      /\ at' = "run" /\ UNCHANGED <<typed, pos, lineno, hitEOF>>
  BY DEF ReadLine, lineVars, bufferVars
<1>3. compiled \in Seq(Entries) /\ hitEOF \in BOOLEAN /\ buf \in Seq(Char)
  BY DEF StatementsInv, ReplInv, ReplTypes
<1> DEFINE e == [by |-> by, first |-> 0, text |-> buf]
<1>4. /\ e \in Entries /\ e.by = by /\ e.by # "typein" /\ e.text = buf
      /\ compiled' = Append(compiled, e)
  BY <1>1, <1>3 DEF Entries
<1> HIDE DEF e
<1>5. Taken \in Seq(Char) /\ Statements(compiled) \in Seq(Char)
  BY <1>3, TextTypes
<1>6. compiled' \in Seq(Entries) /\ Taken' = Taken \o buf /\ NextLine' = NextLine
  <2>1. /\ compiled' \in Seq(Entries) /\ Replay(compiled') = Replay(compiled) \o buf
        /\ Statements(compiled') = Statements(compiled) \o <<>>
    BY <1>3, <1>4, OneEntryMore DEF Stated
  <2>2. Statements(compiled) \o <<>> = Statements(compiled)
    BY <1>5, ConcatEmptySeq
  <2>3. QED
    BY <2>1, <2>2 DEF Taken, NextLine
<1>7. WasRead' = WasRead /\ Ended' = Ended
  BY <1>2 DEF WasRead, Ended
<1>8. ASSUME ~hitEOF
      PROVE  CompiledSoFar' /\ Numbers' /\ (\A j \in DOMAIN compiled : EntryRight(compiled, j))'
  <2>1. CompiledSoFar /\ Numbers /\ \A j \in DOMAIN compiled : EntryRight(compiled, j)
    BY <1>2, <1>8 DEF StatementsInv
  <2>2. Taken \o buf = WasRead
    BY <1>2, <2>1 DEF CompiledSoFar
  <2>3. CompiledSoFar'
    BY <1>2, <1>6, <1>7, <2>2 DEF CompiledSoFar, IsRead
  <2>4. Numbers'
    BY <1>2, <1>6, <2>1 DEF Numbers
  <2>5. \A j \in DOMAIN Append(compiled, e) : EntryRight(Append(compiled, e), j)
    <3>1. e.by = "readline" => OneLine(e.text) /\ (Last(e.text) = NL \/ Ended)
      BY <1>1, <1>4, <2>1 DEF CompiledSoFar
    <3>2. QED
      BY <1>3, <1>4, <2>1, <3>1, EntriesRight
  <2>6. (\A j \in DOMAIN compiled : EntryRight(compiled, j))'
    BY <1>4, <1>7, <2>5 DEF EntryRight
  <2>7. QED
    BY <2>3, <2>4, <2>6
<1>9. QED
  BY <1>2, <1>3, <1>6, <1>8 DEF StatementsInv

\* Nothing is read, or Process has not been called.
NothingRead ==
    /\ compiled = <<>> /\ typed \in Seq(Char) /\ pos = 0
    /\ lineno = 1 /\ hitEOF = FALSE /\ at \in {"off", "prompt"}

LEMMA StatementsStart == NothingRead => StatementsInv
<1> SUFFICES ASSUME NothingRead PROVE StatementsInv
  OBVIOUS
<1> USE DEF NothingRead
<1>1. Taken = <<>> /\ NextLine = 1
  BY NothingUsed, NoNewlines DEF Taken, NextLine
<1>2. WasRead = <<>>
  BY SubSeqEmpty DEF WasRead
<1>3. CompiledSoFar
  BY <1>1, <1>2 DEF CompiledSoFar, IsRead
<1>4. Numbers
  BY <1>1 DEF Numbers
<1>5. compiled \in Seq(Entries) /\ DOMAIN compiled = {}
  OBVIOUS
<1>6. QED
  BY <1>3, <1>4, <1>5 DEF StatementsInv

LEMMA StatementsRestart == NothingRead' => StatementsInv'
  BY StatementsStart, PTL

LEMMA UnchangedKeepsUse ==
  ASSUME StatementsInv, UNCHANGED replVars
  PROVE  StatementsInv'
<1>1. /\ UseKept /\ UNCHANGED <<hitEOF, at, line, buf, lineno, startline, buffer, len>>
  BY DEF replVars, lineVars, bufferVars, readVars, UseKept
<1>2. /\ Lines' = Lines /\ Statement' = Statement /\ Reading' = Reading
  BY <1>1, UseStays DEF Lines, Statement, Reading
<1>3. CompiledSoFar => CompiledSoFar'
  BY <1>1, <1>2, UseStays DEF CompiledSoFar, IsRead
<1>4. Numbers => Numbers'
  BY <1>1, <1>2, UseStays DEF Numbers
<1>5. QED
  BY <1>1, <1>3, <1>4, UseStays DEF StatementsInv, UseKept

LEMMA StatementsSteps ==
  Prompting /\ ReplInv /\ StatementsInv /\ [ProcessArgs]_consoleVars => StatementsInv'
<1> SUFFICES ASSUME Prompting, ReplInv, StatementsInv, [ProcessArgs]_consoleVars
             PROVE  StatementsInv'
  OBVIOUS
<1>1. CASE UNCHANGED replVars
  BY <1>1, UnchangedKeepsUse
<1>2. CASE Repl
  BY <1>2, PromptKeepsUse, ReadChunkKeepsUse, EndOfFileKeepsUse, TakeLineKeepsUse,
     CompileKeepsUse, RunKeepsUse, ReadLineChunkKeepsUse, ReadLineEndsKeepsUse, ReadLineKeepsUse
  DEF Repl
<1>3. ASSUME NEW name, NEW force, NEW back, ProcessPrompt(name, force, back), at = "off"
      PROVE  StatementsInv'
  <2>1. compiled = <<>> /\ pos = 0 /\ ~hitEOF /\ hitEOF \in BOOLEAN /\ lineno = NextLine
    BY <1>3 DEF StatementsInv, ReplInv, ReplTypes, Numbers
  <2>2. lineno = 1
    BY <2>1, NothingUsed, NoNewlines DEF NextLine
  <2>3. typed' \in Seq(Char) /\ at' = "prompt" /\ UNCHANGED <<pos, lineno, hitEOF, compiled>>
    BY <1>3, ReplAssumption DEF ProcessPrompt, bufferVars
  <2>4. QED
    BY <2>1, <2>2, <2>3, StatementsRestart DEF NothingRead
<1>4. CASE PromptReturns
  <2>1. /\ compiled' = <<>> /\ typed' = <<>> /\ pos' = 0 /\ lineno' = 1 /\ hitEOF' = FALSE
        /\ at' = "off"
    BY <1>4 DEF PromptReturns
  <2>2. typed' \in Seq(Char)
    BY <2>1, OneChar
  <2>3. QED
    BY <2>1, <2>2, StatementsRestart DEF NothingRead
<1>5. CASE ProcessArgs
  <2>1. CASE PromptForFile \/ PromptLast
    BY <1>3, <2>1 DEF PromptForFile, PromptLast, At, Prompting
  <2>2. CASE AtPrompt
    BY <1>2, <2>2 DEF AtPrompt
  <2>3. CASE MakeArguments \/ Setting \/ ChunkSizeCrashes \/ Usage \/ CompileOnly \/ Interactive
             \/ ToggleOption \/ SetTimeout \/ NewGlobal
    BY <1>1, <2>3 DEF MakeArguments, Setting, ChunkSizeCrashes, Usage, CompileOnly, Interactive,
                      ToggleOption, SetTimeout, NewGlobal
  <2>4. CASE Evaluate \/ RunFile \/ ScriptFile \/ NoMoreOptions \/ RunLast
    BY <1>1, <2>4 DEF Evaluate, RunFile, ScriptFile, NoMoreOptions, RunLast
  <2>5. QED
    BY <1>4, <1>5, <2>1, <2>2, <2>3, <2>4 DEF ProcessArgs
<1>6. QED
  BY <1>1, <1>5 DEF consoleVars

\* Whenever the prompt is back, whatever was typed and however long its lines
\* are: the statements and the lines readline() returned are the input that
\* was read, once and in order, and each statement knows its first line.
THEOREM StatementsTheorem == CommandLineSpec => []StatementsWhole
<1>1. CommandLineInit => StatementsInv
  <2>1. <<>> \in Seq(Char)
    BY OneChar
  <2>2. QED
    BY <2>1, StatementsStart DEF CommandLineInit, ReplInit, NothingRead
<1>2. StatusInv => Prompting
  BY DEF StatusInv
<1>3. CommandLineSpec => []StatementsInv
  BY <1>1, <1>2, StatusAlways, ReplAlways, StatementsSteps, PTL DEF CommandLineSpec
<1>4. ReplInv /\ StatementsInv => StatementsWhole
  <2> SUFFICES ASSUME ReplInv, StatementsInv, at = "prompt" PROVE StatementsWhole
    BY DEF StatementsWhole
  <2>1. /\ compiled \in Seq(Entries) /\ CompiledSoFar
        /\ \A j \in DOMAIN compiled : EntryRight(compiled, j)
    BY DEF StatementsInv
  <2>2. WasRead \in Seq(Char)
    BY <2>1, TextTypes
  <2>3. Append(WasRead, NL) = WasRead \o <<NL>>
    BY <2>2, OneChar, AppendIsConcat
  <2>4. Replay(compiled) \in {SubSeq(typed, 1, pos), Append(SubSeq(typed, 1, pos), NL)}
    BY <2>1, <2>3 DEF CompiledSoFar, IsRead, Taken, WasRead
  <2>5. QED
    BY <2>1, <2>4 DEF StatementsWhole, EntryRight, OneLine, Ended
<1>5. QED
  BY <1>3, <1>4, ReplAlways, PTL
=============================================================================
