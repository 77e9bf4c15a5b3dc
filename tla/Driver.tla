------------------------------- MODULE Driver -------------------------------
(***************************************************************************)
(* One run of the assembler as its user sees it: the command line          *)
(* (src/src/util/argparse.c), main (src/src/main.c), and the driver        *)
(* (src/src/driver.c) that loads, parses, assembles and saves.             *)
(*                                                                         *)
(* Parser and back ends appear only as steps that may report errors; a     *)
(* report (src/src/util/diag.c) is printed and leaves error_count alone.   *)
(***************************************************************************)
EXTENDS Integers, FiniteSets, Sequences

CONSTANTS Args,      \* the command-line arguments there are
          Hyphened,  \* those that begin with a hyphen
          MaxArgs    \* at most so many of them

FormatOpts == {"-f", "--format"}
OutputOpts == {"-o", "--output"}
ColorOpts  == {"--color"}
ValueOpts  == FormatOpts \union OutputOpts \union ColorOpts
Options    == ValueOpts \union {"--help"}

Prefs   == {"never", "auto", "always"}
Formats == [raw |-> "raw", tobj |-> "tobj", obj |-> "tobj"]

ASSUME DriverAssumption ==
  Args \subseteq STRING /\ MaxArgs \in Nat /\ Options \subseteq Hyphened

VARIABLES
  argv,         \* the arguments after the program's name
  i,            \* tasm_parse_args's index
  stage,        \* what main() is at; "exit" at the end
  color,        \* cmdline.color
  format,       \* cmdline.format
  output,       \* cmdline.output
  inputs,       \* number of cmdline.input_files
  tty,          \* what tasm_color_auto(stderr) answers
  ansi,         \* tasm_ansi_enabled
  loaded,       \* the source could be read
  reported,     \* number of errors reported
  error_count,  \* diag.error_count
  image,        \* what the back end returned: "none" at first, then "NULL" or "image"
  file,         \* the output file: "untouched", "written" or, if that failed, "failed"
  status        \* exit status, once exited

cmdline == <<color, format, output, inputs>>
work    == <<loaded, reported, error_count, image, file>>
vars    == <<argv, i, stage, cmdline, tty, ansi, work, status>>

Counted(n) == 0

\* tasm_parse_args leaves color as it is, that is, uninitialised.
Init ==
  /\ argv \in UNION {[1 .. n -> Args] : n \in 0 .. MaxArgs}
  /\ i = 1
  /\ stage = "args"
  /\ color \in Prefs
  /\ format = "raw" /\ output = "NULL" /\ inputs = 0
  /\ tty \in BOOLEAN /\ ansi = tty
  /\ loaded = FALSE /\ reported = 0 /\ error_count = 0
  /\ image = "none" /\ file = "untouched" /\ status = 0

Exit(code) == stage' = "exit" /\ status' = code

-----------------------------------------------------------------------------
(* tasm_parse_args: a step reads one argument, with its value if it has one. *)

Arg(options) == stage = "args" /\ i \in DOMAIN argv /\ argv[i] \in options

\* ADVANCE_ARG finds a value, which may itself look like an option.
HasValue == i + 1 \in DOMAIN argv
Value    == argv[i + 1]

Read(n) == i' = i + n /\ UNCHANGED <<argv, stage, tty, ansi, work, status>>

Refuse(code) == Exit(code) /\ UNCHANGED <<argv, i, cmdline, tty, ansi, work>>

Help == Arg({"--help"}) /\ Refuse(0)

FormatArg ==
  /\ Arg(FormatOpts)
  /\ IF HasValue /\ Value \in DOMAIN Formats
     THEN format' = Formats[Value] /\ Read(2) /\ UNCHANGED <<color, output, inputs>>
     ELSE Refuse(2)

\* Mutation of OutputArg: the value is taken without asking if there is one.
OutputArgUnchecked ==
  /\ Arg(OutputOpts)
  /\ output' = IF HasValue THEN Value ELSE "NULL"
  /\ Read(2) /\ UNCHANGED <<color, format, inputs>>

OutputArg ==
  /\ Arg(OutputOpts)
  /\ IF HasValue
     THEN output' = Value /\ Read(2) /\ UNCHANGED <<color, format, inputs>>
     ELSE Refuse(2)

\* Mutation of ColorArg: the value is looked at without advancing to it.
ColorArgPeek ==
  /\ Arg(ColorOpts)
  /\ IF HasValue /\ Value \in Prefs
     THEN color' = Value /\ Read(1) /\ UNCHANGED <<format, output, inputs>>
     ELSE Refuse(2)

ColorArg ==
  /\ Arg(ColorOpts)
  /\ IF HasValue /\ Value \in Prefs
     THEN color' = Value /\ Read(2) /\ UNCHANGED <<format, output, inputs>>
     ELSE Refuse(2)

UnknownArg == Arg(Hyphened \ Options) /\ Refuse(2)

FileArg ==
  /\ Arg(Args \ Hyphened)
  /\ inputs' = inputs + 1
  /\ Read(1) /\ UNCHANGED <<color, format, output>>

ArgsRead ==
  /\ stage = "args" /\ i \notin DOMAIN argv
  /\ IF inputs = 0 THEN Refuse(2)
     ELSE /\ stage' = "driver"
          /\ ansi' = IF color = "always" THEN TRUE ELSE IF color = "never" THEN FALSE ELSE ansi
          /\ UNCHANGED <<argv, i, cmdline, tty, work, status>>

-----------------------------------------------------------------------------
(* tasm_driver_run *)

\* Mutation of Start: colors are not detected again.
StartKeepingColor ==
  /\ stage = "driver"
  /\ IF inputs # 1 THEN Exit(1) ELSE stage' = "load" /\ UNCHANGED status
  /\ UNCHANGED <<argv, i, cmdline, tty, ansi, work>>

\* Colors are detected once more; one input file, and one only, is accepted.
Start ==
  /\ stage = "driver"
  /\ ansi' = tty
  /\ IF inputs # 1 THEN Exit(1) ELSE stage' = "load" /\ UNCHANGED status
  /\ UNCHANGED <<argv, i, cmdline, tty, work>>

\* The result of tasm_srcdoc_init_from_file is not looked at.
Load ==
  /\ stage = "load"
  /\ loaded' \in BOOLEAN
  /\ stage' = "parse"
  /\ UNCHANGED <<argv, i, cmdline, tty, ansi, reported, error_count, image, file, status>>

Report(n) == /\ reported' = reported + n
             /\ error_count' = error_count + Counted(n)

\* What is parsed when the source was not loaded is whatever is there.
Parse ==
  /\ stage = "parse"
  /\ \E n \in {0, 1} : Report(n)
  /\ stage' = "assemble"
  /\ UNCHANGED <<argv, i, cmdline, tty, ansi, loaded, image, file, status>>

\* tasm_fail on a token that starts no item.
ParseFails ==
  /\ stage = "parse"
  /\ Exit(1)
  /\ UNCHANGED <<argv, i, cmdline, tty, ansi, work>>

\* The exit status a shell shows of a process that touched memory it may not.
Killed == 139

\* There need be nothing at all where the source was not loaded.
ParseCrashes ==
  /\ stage = "parse" /\ ~loaded
  /\ Exit(Killed)
  /\ UNCHANGED <<argv, i, cmdline, tty, ansi, work>>

\* Mutation of Pass1: it is left early for what was reported, counted or not.
Pass1LeavesIfReported ==
  /\ stage = "assemble"
  /\ \E n \in {0, 1} : Report(n)
  /\ IF reported' > 0 THEN image' = "NULL" /\ stage' = "save"
     ELSE UNCHANGED image /\ stage' = "emit"
  /\ UNCHANGED <<argv, i, cmdline, tty, ansi, loaded, file, status>>

\* Both back ends look at error_count after pass 1, and not after the others.
Pass1 ==
  /\ stage = "assemble"
  /\ \E n \in {0, 1} : Report(n)
  /\ IF error_count' > 0 THEN image' = "NULL" /\ stage' = "save"
     ELSE UNCHANGED image /\ stage' = "emit"
  /\ UNCHANGED <<argv, i, cmdline, tty, ansi, loaded, file, status>>

LaterPasses ==
  /\ stage = "emit"
  /\ \E n \in {0, 1} : Report(n)
  /\ image' = "image"
  /\ stage' = "save"
  /\ UNCHANGED <<argv, i, cmdline, tty, ansi, loaded, file, status>>

\* The result of tc48_mem_save is not looked at.
Save ==
  /\ stage = "save"
  /\ file' \in IF error_count = 0 THEN {"written", "failed"} ELSE {file}
  /\ Exit(IF error_count = 0 THEN 0 ELSE 1)
  /\ UNCHANGED <<argv, i, cmdline, tty, ansi, loaded, reported, error_count, image>>

Next ==
  \/ Help \/ FormatArg \/ OutputArg \/ ColorArg \/ UnknownArg \/ FileArg \/ ArgsRead
  \/ Start \/ Load \/ Parse \/ ParseFails \/ ParseCrashes \/ Pass1 \/ LaterPasses \/ Save

Spec == Init /\ [][Next]_vars

-----------------------------------------------------------------------------
(* Properties *)

TypeOK ==
  /\ argv \in Seq(Args) /\ Len(argv) <= MaxArgs /\ i \in 1 .. Len(argv) + 1
  /\ stage \in {"args", "driver", "load", "parse", "assemble", "emit", "save", "exit"}
  /\ color \in Prefs /\ format \in {"raw", "tobj"} /\ output \in Args \union {"NULL"}
  /\ inputs \in 0 .. MaxArgs /\ tty \in BOOLEAN /\ ansi \in BOOLEAN
  /\ loaded \in BOOLEAN /\ reported \in 0 .. 3 /\ error_count \in Nat
  /\ image \in {"none", "NULL", "image"} /\ file \in {"untouched", "written", "failed"}
  /\ status \in {0, 1, 2, Killed}

(***************************************************************************)
(* What a command line means, without reading it from left to right: an    *)
(* argument is a value if the options directly before it that take one are *)
(* odd in number, since every other one of them is itself a value.         *)
(***************************************************************************)
IsRun(args, k, n) ==
  /\ \A j \in k - n .. k - 1 : j \in DOMAIN args /\ args[j] \in ValueOpts
  /\ k - n - 1 \in DOMAIN args => args[k - n - 1] \notin ValueOpts

IsValue(args, k) == \E n \in 1 .. k - 1 : n % 2 = 1 /\ IsRun(args, k, n)

Given(args, options) == {k \in DOMAIN args : args[k] \in options /\ ~IsValue(args, k)}

\* An option that is given several times counts the last time.
LastValue(args, options, default) ==
  LET given == Given(args, options)
      last  == CHOOSE k \in given : \A l \in given : l <= k
  IN  IF given = {} THEN default ELSE args[last + 1]

WellFormed(args) ==
  /\ Given(args, Hyphened \ Options) = {}
  /\ \A k \in Given(args, ValueOpts) : k + 1 \in DOMAIN args
  /\ \A k \in Given(args, FormatOpts) : args[k + 1] \in DOMAIN Formats
  /\ \A k \in Given(args, ColorOpts) : args[k + 1] \in Prefs
  /\ Given(args, Args \ Hyphened) # {}

\* The assembler starts on well-formed command lines only, and with what they
\* mean: every argument is taken for what it is, an option, a value or a file,
\* even where a value looks like an option.  No well-formed one is refused.
CommandLineIsMeant ==
  /\ stage \notin {"args", "exit"} =>
       /\ WellFormed(argv) /\ Given(argv, {"--help"}) = {}
       /\ inputs = Cardinality(Given(argv, Args \ Hyphened))
       /\ format = Formats[LastValue(argv, FormatOpts, "raw")]
       /\ output = LastValue(argv, OutputOpts, "NULL")
       /\ color  = LastValue(argv, ColorOpts, color)
  /\ status = 2 => ~WellFormed(argv)

\* Diagnostics are coloured as the terminal is, unless a preference was given:
\* that cmdline.color has no value then shows nowhere.
DefaultColorIsAuto ==
  /\ stage \in {"load", "parse", "assemble", "emit", "save"}
  /\ LastValue(argv, ColorOpts, "auto") = "auto"
  => ansi = tty

\* The driver decides by error_count whether it has an image to save, and the
\* back end, earlier, whether it makes one: it is never NULL that is saved.
NoNullIsSaved == file # "untouched" => image = "image"

\* "assembly failed with %u errors" (driver.c:74), and the test runner takes a
\* status other than 0 for a failed compilation (e2e-tests/run.c:196): after a
\* reported error the status is not 0.
ErrorsFail == stage = "exit" /\ reported > 0 => status # 0

\* All of the command line was read.
Accepted == i \notin DOMAIN argv

\* "if (ret != 0) return ret;" (e2e-tests/run.c:196), and then the output is
\* loaded (run.c:198) and run: status 0 has it that the source was read and its
\* output is there.
OutputIsCompiledSource ==
  stage = "exit" /\ Accepted /\ status = 0 => loaded /\ file = "written"

\* main.c:18 leaves "auto" alone because "it is already set to auto at the
\* beggining of main()": with always and never, it is the preference that counts.
ColorIsHonoured ==
  stage \in {"parse", "assemble", "emit", "save"} =>
    /\ LastValue(argv, ColorOpts, "auto") = "always" => ansi
    /\ LastValue(argv, ColorOpts, "auto") = "never" => ~ansi
=============================================================================
