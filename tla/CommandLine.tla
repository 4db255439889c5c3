---------------------------- MODULE CommandLine ----------------------------
(***************************************************************************)
(* The command line of the shell: ProcessArgs (js.cpp) goes over the       *)
(* options twice, first to find the script's arguments and then to act,    *)
(* and runs files and the prompt with Process.                             *)
(*                                                                         *)
(* A word of the command line is one of the strings below; what files do   *)
(* when they run is Outcomes of Repl.  The options of special builds (-Z,  *)
(* -T, -k) are left out.                                                   *)
(***************************************************************************)
EXTENDS Repl

CONSTANTS
    Argvs,          \* the command lines considered
    MissingFiles    \* the words that name no file

ASSUME CommandLineAssumption == Argvs \subseteq Seq(STRING)

Stdin == "-"
Settings == {"-s", "-E", "-x", "-j", "-w", "-W"}
Options == Settings \cup {"-c", "-f", "-e", "-v", "-S", "-t", "-o", "-P", "-z",
                          "-C", "-i", "-?"}
OptionNames == {"anonfunfix", "atline", "jit", "relimit", "strict", "werror", "xml"}

VARIABLES
    argv, i,            \* i is the word being looked at, from 1
    pc,                 \* where ProcessArgs is
    arguments,          \* what the script finds in "arguments"
    filename, isInteractive, forceTTY,
    tty,                \* whether standard input is a terminal
    ran,                \* history: what was run, and the code it left
    result              \* what the process exits with

optionVars == <<argv, tty, arguments>>
modeVars == <<filename, isInteractive, forceTTY, compileOnly>>
consoleVars == <<replVars, exitVars, optionVars, modeVars, i, pc, ran, result>>

None == "none"
Running == -1       \* no result yet
Crashed == 139      \* the status of a process that SIGSEGV ended

CommandLineInit ==
    /\ ReplInit
    /\ argv \in Argvs /\ tty \in BOOLEAN
    /\ i = 1 /\ pc = "scan"
    /\ arguments = <<>>
    /\ filename = None /\ isInteractive = TRUE /\ forceTTY = FALSE
    /\ compileOnly = FALSE
    /\ gExitCode = 0 /\ gQuitting = FALSE
    /\ ran = <<>> /\ result = Running

\* '-' alone is the name of standard input.
IsOption(k) == argv[k] \in Options

-----------------------------------------------------------------------------
(* The first pass.                                                         *)

\* A mutant: -S is not known to take an operand.
SkipsFewer(w) == w \in {"-c", "-f", "-e", "-v", "-t"}

\* The options whose operand the first pass skips
Skips(w) == w \in {"-c", "-f", "-e", "-v", "-S", "-t"}

\* Where the first pass stops when it is at word k: behind the script file.
Stop[k \in 1 .. Len(argv) + 2] ==
    IF k > Len(argv) THEN k
    ELSE IF ~IsOption(k) THEN k + 1
    ELSE Stop[IF Skips(argv[k]) THEN k + 2 ELSE k + 1]

AfterScript == Stop[1]

Exit(code) == pc' = "exited" /\ result' = code

\* The array is made and defined, which may fail.
MakeArguments ==
    /\ pc = "scan"
    /\ \/ /\ arguments' = SubSeq(argv, AfterScript, Len(argv))
          /\ pc' = "options"
          /\ UNCHANGED result
       \/ Exit(1) /\ UNCHANGED arguments
    /\ UNCHANGED <<replVars, exitVars, argv, tty, modeVars, i, ran>>

-----------------------------------------------------------------------------
(* The second pass: one action for each kind of option.                    *)

At(options) == pc = "options" /\ i <= Len(argv) /\ argv[i] \in options

HasOperand == i < Len(argv)
Operand == argv[i + 1]

Advance(n) == i' = i + n /\ UNCHANGED <<pc, result>>
Leave(code) == Exit(code) /\ UNCHANGED i

\* Settings of the engine and -w's of the reporter; -v and -S take an operand, and -c one that it does
\* not look for.
Setting ==
    /\ \/ At(Settings) /\ Advance(1)
       \/ At({"-v", "-S", "-c"}) /\ HasOperand /\ Advance(2)
    /\ UNCHANGED <<replVars, exitVars, optionVars, modeVars, ran>>

\* atoi() is given the NULL behind the last word.
ChunkSizeCrashes ==
    /\ At({"-c"}) /\ ~HasOperand
    /\ Leave(Crashed)
    /\ UNCHANGED <<replVars, exitVars, optionVars, modeVars, ran>>

Usage ==
    /\ \/ At({"-v", "-S", "-o", "-t", "-f", "-e"}) /\ ~HasOperand
       \/ At({"-?"})
    /\ Leave(2)
    /\ UNCHANGED <<replVars, exitVars, optionVars, modeVars, ran>>

CompileOnly ==
    /\ At({"-C"})
    /\ compileOnly' = TRUE /\ isInteractive' = FALSE
    /\ Advance(1)
    /\ UNCHANGED <<replVars, exitVars, optionVars, filename, forceTTY, ran>>

Interactive ==
    /\ At({"-i"})
    /\ isInteractive' = TRUE /\ forceTTY' = TRUE
    /\ Advance(1)
    /\ UNCHANGED <<replVars, exitVars, optionVars, filename, compileOnly, ran>>

\* A mutant: the failure is returned as the natives do.
OptionReturnsFalse ==
    /\ At({"-o"}) /\ HasOperand
    /\ IF Operand \in OptionNames
       THEN Advance(2) /\ UNCHANGED gExitCode
       ELSE gExitCode' = EXITCODE_RUNTIME_ERROR /\ Leave(0)
    /\ UNCHANGED <<replVars, gQuitting, optionVars, modeVars, ran>>

\* MapContextOptionNameToFlag reports a name it does not know.
ToggleOption ==
    /\ At({"-o"}) /\ HasOperand
    /\ IF Operand \in OptionNames
       THEN Advance(2) /\ UNCHANGED gExitCode
       ELSE /\ gExitCode' \in {EXITCODE_RUNTIME_ERROR, EXITCODE_OUT_OF_MEMORY}
            /\ Leave(gExitCode')
    /\ UNCHANGED <<replVars, gQuitting, optionVars, modeVars, ran>>

\* SetTimeoutValue reports what it refuses, and JS_FALSE is returned for it.
SetTimeout ==
    /\ At({"-t"}) /\ HasOperand
    /\ \/ Advance(2) /\ UNCHANGED gExitCode
       \/ gExitCode' = EXITCODE_RUNTIME_ERROR /\ Leave(0)
    /\ UNCHANGED <<replVars, gQuitting, optionVars, modeVars, ran>>

\* Another global object: -P may fail as -t does, split_setup with what
\* the error, if any was reported, left.
NewGlobal ==
    /\ At({"-P", "-z"})
    /\ \/ Advance(1) /\ UNCHANGED gExitCode
       \/ /\ gExitCode' \in {gExitCode, EXITCODE_RUNTIME_ERROR}
          /\ Leave(IF argv[i] = "-P" THEN 0 ELSE gExitCode')
    /\ UNCHANGED <<replVars, gQuitting, optionVars, modeVars, ran>>

-----------------------------------------------------------------------------
(* Running.                                                                *)

Ran(how, what) ==
    ran' = Append(ran, [how |-> how, what |-> what, code |-> gExitCode', at |-> i])

\* -e ignores -C.
Evaluate ==
    /\ At({"-e"}) /\ HasOperand
    /\ \E outcome \in Outcomes(TRUE) : Leaves(outcome)
    /\ Ran("-e", Operand)
    /\ isInteractive' = FALSE
    /\ Advance(2)
    /\ UNCHANGED <<replVars, optionVars, filename, forceTTY, compileOnly>>

EXITCODE_FILE_NOT_FOUND == 4

UsesStdin(name, force) == force \/ name \in {None, Stdin}
IsPrompt(name, force) == force \/ (UsesStdin(name, force) /\ tty)

\* Process of what is not a terminal: at once.
ProcessFile(how, name, force) ==
    /\ ~IsPrompt(name, force)
    /\ IF ~UsesStdin(name, force) /\ name \in MissingFiles
       THEN gExitCode' = EXITCODE_FILE_NOT_FOUND /\ UNCHANGED gQuitting
       ELSE \E outcome \in Outcomes(~compileOnly) : Leaves(outcome)
    /\ Ran(how, name)

\* Process of a terminal: the prompt of Repl.
ProcessPrompt(name, force, back) ==
    /\ IsPrompt(name, force)
    /\ typed' \in Inputs
    /\ at' = "prompt"
    /\ pc' = back
    /\ UNCHANGED <<pos, line, lineSize, bufferVars, readVars, startline, hitEOF, compiled>>

\* "if (gExitCode != 0) return gExitCode" after each file
RunFile ==
    /\ At({"-f"}) /\ HasOperand
    /\ ProcessFile("-f", Operand, FALSE)
    /\ IF gExitCode' # 0
       THEN Leave(gExitCode') /\ UNCHANGED isInteractive
       ELSE isInteractive' = FALSE /\ Advance(2)
    /\ UNCHANGED <<replVars, optionVars, filename, forceTTY, compileOnly>>

PromptForFile ==
    /\ At({"-f"}) /\ HasOperand
    /\ ProcessPrompt(Operand, FALSE, "-f")
    /\ UNCHANGED <<exitVars, optionVars, modeVars, i, ran, result>>

\* Process returns: its buffers are freed.
PromptReturns ==
    /\ at = "done"
    /\ at' = "off"
    /\ buffer' = NoBuffer /\ size' = 0 /\ len' = 0 /\ used' = 0
    /\ line' = <<>> /\ lineSize' = 0 /\ buf' = <<>> /\ bufsize' = 0
    /\ lineno' = 1 /\ startline' = 1 /\ hitEOF' = FALSE
    /\ typed' = <<>> /\ pos' = 0 /\ compiled' = <<>>
    /\ UNCHANGED exitVars
    /\ Ran(pc, Stdin)
    /\ IF pc = "-f" /\ gExitCode = 0
       THEN /\ isInteractive' = FALSE
            /\ i' = i + 2
            /\ pc' = "options"
            /\ UNCHANGED result
       ELSE Leave(gExitCode) /\ UNCHANGED isInteractive
    /\ UNCHANGED <<optionVars, filename, forceTTY, compileOnly>>

\* The script file ends the options.
ScriptFile ==
    /\ pc = "options" /\ i <= Len(argv) /\ ~IsOption(i)
    /\ filename' = argv[i] /\ isInteractive' = FALSE
    /\ pc' = "last"
    /\ UNCHANGED <<replVars, exitVars, optionVars, forceTTY, compileOnly,
                   i, ran, result>>

NoMoreOptions ==
    /\ pc = "options" /\ i > Len(argv)
    /\ pc' = "last"
    /\ UNCHANGED <<replVars, exitVars, optionVars, modeVars, i, ran, result>>

RunLast ==
    /\ pc = "last"
    /\ IF filename # None \/ isInteractive
       THEN ProcessFile("last", filename, forceTTY)
       ELSE UNCHANGED <<exitVars, ran>>
    /\ Leave(gExitCode')
    /\ UNCHANGED <<replVars, optionVars, modeVars>>

PromptLast ==
    /\ pc = "last" /\ at = "off"
    /\ filename # None \/ isInteractive
    /\ ProcessPrompt(filename, forceTTY, "last")
    /\ UNCHANGED <<exitVars, optionVars, modeVars, i, ran, result>>

AtPrompt == Repl /\ UNCHANGED <<optionVars, filename, isInteractive, forceTTY,
                                i, pc, ran, result>>

ProcessArgs ==
    \/ MakeArguments
    \/ Setting \/ ChunkSizeCrashes \/ Usage \/ CompileOnly \/ Interactive
    \/ ToggleOption \/ SetTimeout \/ NewGlobal
    \/ Evaluate \/ RunFile \/ PromptForFile \/ ScriptFile \/ NoMoreOptions
    \/ RunLast \/ PromptLast \/ PromptReturns
    \/ AtPrompt

CommandLineSpec == CommandLineInit /\ [][ProcessArgs]_consoleVars

-----------------------------------------------------------------------------
(* Properties.                                                             *)

\* "This requires two passes, and without getopt, we'll have to keep the option
\* logic here and in the second for loop in sync" (js.cpp:634): the arguments a
\* script is given are the words behind its file.  The passes differ on the
\* operand of -o: the claim is made of command lines without one.
ArgumentsMatch ==
    pc = "last" /\ filename # None /\ (\A k \in DOMAIN argv : argv[k] # "-o") =>
        arguments = SubSeq(argv, i + 1, Len(argv))

\* Whoever looks at the exit status of the shell learns of an error reported
\* before it: a status of 0 means that none was, or that a later quit(0) took
\* it back.  The exceptions are the options -t and -P, for which JS_FALSE,
\* that is 0, is returned.  And a file given with -f that fails is the last
\* thing that runs, with its code as the status.  It need not be the file that
\* failed: the code of an earlier -e counts as well.
StatusTells ==
    /\ result = 0 => gExitCode = 0 \/ argv[i] \in {"-t", "-P"}
    /\ \A k \in DOMAIN ran :
           ran[k].how = "-f" /\ ran[k].code # 0 => k = Len(ran) /\ result = ran[k].code
=============================================================================
