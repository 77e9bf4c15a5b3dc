---------------------------- MODULE DriverProofs ----------------------------
(***************************************************************************)
(* Proofs about a run of the assembler, whatever its command line: the     *)
(* states it can be in, that the index-by-index reading of the arguments   *)
(* finds what they mean, that the terminal's colors stand if none were     *)
(* asked for, and that there is an image whenever one is saved.            *)
(***************************************************************************)
EXTENDS Driver, FiniteSetTheorems, TLAPS

-----------------------------------------------------------------------------
(* Options and values *)

\* The argument at k is preceded by an even number of options that take a value.
EvenRun(args, k) == \E n \in 0 .. k - 1 : n % 2 = 0 /\ IsRun(args, k, n)

\* There is only one number of such options before an argument.
LEMMA RunUnique ==
  ASSUME NEW args \in Seq(Args), NEW k \in 1 .. Len(args) + 1,
         NEW m \in 0 .. k - 1, NEW n \in 0 .. k - 1, IsRun(args, k, m), IsRun(args, k, n)
  PROVE  m = n
<1>1. \A p, q \in 0 .. k - 1 : p < q /\ IsRun(args, k, p) => ~IsRun(args, k, q)
  BY DEF IsRun
<1> QED BY <1>1

LEMMA EvenIsNoValue ==
  ASSUME NEW args \in Seq(Args), NEW k \in 1 .. Len(args) + 1, EvenRun(args, k)
  PROVE  ~IsValue(args, k)
<1>1. PICK n \in 0 .. k - 1 : n % 2 = 0 /\ IsRun(args, k, n)
  BY DEF EvenRun
<1>2. ASSUME NEW m \in 1 .. k - 1, m % 2 = 1, IsRun(args, k, m) PROVE FALSE
  <2>1. m = n
    BY <1>1, <1>2, RunUnique
  <2> QED BY <1>1, <1>2, <2>1
<1> QED BY <1>2 DEF IsValue

\* After an argument that takes no value, the count starts anew.
LEMMA AfterNoOption ==
  ASSUME NEW args \in Seq(Args), NEW k \in DOMAIN args, args[k] \notin ValueOpts
  PROVE  EvenRun(args, k + 1)
<1>1. IsRun(args, k + 1, 0)
  BY DEF IsRun
<1>2. 0 \in 0 .. (k + 1) - 1 /\ 0 % 2 = 0
  OBVIOUS
<1> QED BY <1>1, <1>2 DEF EvenRun

\* After an option comes its value, and after that the next argument is none.
LEMMA AfterOption ==
  ASSUME NEW args \in Seq(Args), NEW k \in DOMAIN args, EvenRun(args, k),
         args[k] \in ValueOpts
  PROVE  /\ IsValue(args, k + 1)
         /\ k + 1 \in DOMAIN args => EvenRun(args, k + 2)
<1>1. PICK n \in 0 .. k - 1 : n % 2 = 0 /\ IsRun(args, k, n)
  BY DEF EvenRun
<1>2. IsRun(args, k + 1, n + 1)
  BY <1>1 DEF IsRun
<1>3. IsValue(args, k + 1)
  <2>1. n + 1 \in 1 .. (k + 1) - 1 /\ (n + 1) % 2 = 1
    BY <1>1
  <2> QED BY <1>2, <2>1 DEF IsValue
<1>4. ASSUME k + 1 \in DOMAIN args PROVE EvenRun(args, k + 2)
  <2>1. CASE args[k + 1] \notin ValueOpts
    <3>1. EvenRun(args, (k + 1) + 1)
      BY <1>4, <2>1, AfterNoOption
    <3> QED BY <3>1
  <2>2. CASE args[k + 1] \in ValueOpts
    <3>1. IsRun(args, k + 2, n + 2)
      BY <1>2, <1>4, <2>2 DEF IsRun
    <3>2. n + 2 \in 0 .. (k + 2) - 1 /\ (n + 2) % 2 = 0
      BY <1>1
    <3> QED BY <3>1, <3>2 DEF EvenRun
  <2> QED BY <2>1, <2>2
<1> QED BY <1>3, <1>4

-----------------------------------------------------------------------------
(* What has been read *)

\* Those of the options that are given before the n-th argument.
Seen(args, options, n) == {k \in Given(args, options) : k < n}

\* v is what the options seen before the n-th argument have come to.
Chosen(args, v, options, default, n) ==
  LET seen == Seen(args, options, n)
  IN  \/ seen = {} /\ v = default
      \/ \E k \in seen : v = args[k + 1] /\ \A l \in seen : l <= k

\* The command line is well formed as far as it has been read, and what is in
\* c, f, o and m is what it means so far.
Meant(args, n, c, f, o, m) ==
  /\ EvenRun(args, n)
  /\ Seen(args, (Hyphened \ Options) \union {"--help"}, n) = {}
  /\ \A k \in Seen(args, ValueOpts, n) : k + 1 \in DOMAIN args
  /\ \A k \in Seen(args, FormatOpts, n) : args[k + 1] \in DOMAIN Formats
  /\ \A k \in Seen(args, ColorOpts, n) : args[k + 1] \in Prefs
  /\ m = Cardinality(Seen(args, Args \ Hyphened, n))
  /\ \E v : Chosen(args, v, FormatOpts, "raw", n) /\ f = Formats[v]
  /\ Chosen(args, o, OutputOpts, "NULL", n)
  /\ \E default : Chosen(args, c, ColorOpts, default, n)

\* A file name is one more argument.
LEMMA SeenAfterNoOption ==
  ASSUME NEW args \in Seq(Args), NEW k \in DOMAIN args, EvenRun(args, k),
         NEW options
  PROVE  Seen(args, options, k + 1) =
           IF args[k] \in options THEN Seen(args, options, k) \union {k}
           ELSE Seen(args, options, k)
<1>1. ~IsValue(args, k)
  BY EvenIsNoValue
<1>2. k \in Nat /\ \A j \in DOMAIN args : j < k + 1 <=> j < k \/ j = k
  OBVIOUS
<1> QED BY <1>1, <1>2 DEF Seen, Given

\* An option and its value are one more option.
LEMMA SeenAfterOption ==
  ASSUME NEW args \in Seq(Args), NEW k \in DOMAIN args, EvenRun(args, k),
         args[k] \in ValueOpts, NEW options
  PROVE  Seen(args, options, k + 2) =
           IF args[k] \in options THEN Seen(args, options, k) \union {k}
           ELSE Seen(args, options, k)
<1>1. ~IsValue(args, k) /\ IsValue(args, k + 1)
  BY EvenIsNoValue, AfterOption
<1>2. k \in Nat /\ \A j \in DOMAIN args : j < k + 2 <=> j < k \/ j = k \/ j = k + 1
  OBVIOUS
<1> QED BY <1>1, <1>2 DEF Seen, Given

\* The option read last is the one that counts.
LEMMA ChosenLast ==
  ASSUME NEW args \in Seq(Args), NEW k \in Nat, NEW n, NEW options, NEW default,
         Seen(args, options, n) = Seen(args, options, k) \union {k}
  PROVE  Chosen(args, args[k + 1], options, default, n)
<1>1. \A l \in Seen(args, options, k) : l <= k
  BY DEF Seen, Given
<1> QED BY <1>1 DEF Chosen

\* The options are kinds apart.
LEMMA OptionsApart ==
  /\ FormatOpts \subseteq ValueOpts /\ OutputOpts \subseteq ValueOpts /\ ColorOpts \subseteq ValueOpts
  /\ FormatOpts \intersect OutputOpts = {} /\ FormatOpts \intersect ColorOpts = {}
  /\ OutputOpts \intersect ColorOpts = {}
  /\ ValueOpts \intersect ((Hyphened \ Options) \union {"--help"}) = {}
  /\ ValueOpts \intersect (Args \ Hyphened) = {}
  /\ (Args \ Hyphened) \intersect Options = {}
BY DriverAssumption DEF Options, ValueOpts, FormatOpts, OutputOpts, ColorOpts

\* Nothing has been read.
LEMMA MeantInit ==
  ASSUME NEW args \in Seq(Args), NEW c
  PROVE  Meant(args, 1, c, "raw", "NULL", 0)
<1>1. \A options : Seen(args, options, 1) = {}
  BY DEF Seen, Given
<1>2. EvenRun(args, 1)
  <2>1. IsRun(args, 1, 0)
    BY DEF IsRun
  <2>2. 0 \in 0 .. 1 - 1 /\ 0 % 2 = 0
    OBVIOUS
  <2> QED BY <2>1, <2>2 DEF EvenRun
<1>3. Formats["raw"] = "raw" /\ Cardinality({}) = 0
  BY FS_EmptySet DEF Formats
<1>4. \A v, options : Chosen(args, v, options, v, 1)
  BY <1>1 DEF Chosen
<1> HIDE DEF Formats
<1> QED BY <1>1, <1>2, <1>3, <1>4 DEF Meant

\* Nothing else comes of the options of the other kinds.
LEMMA ChosenStays ==
  ASSUME NEW args, NEW v, NEW options, NEW default, NEW k, NEW n,
         Seen(args, options, n) = Seen(args, options, k)
  PROVE  Chosen(args, v, options, default, k) => Chosen(args, v, options, default, n)
BY DEF Chosen

LEMMA SeenFinite ==
  ASSUME NEW args \in Seq(Args), NEW options, NEW n
  PROVE  IsFiniteSet(Seen(args, options, n))
<1>1. IsFiniteSet(1 .. Len(args))
  BY FS_Interval
<1>2. Seen(args, options, n) \subseteq 1 .. Len(args)
  BY DEF Seen, Given
<1> QED BY <1>1, <1>2, FS_Subset

LEMMA MeantFile ==
  ASSUME NEW args \in Seq(Args), NEW k \in DOMAIN args, NEW c, NEW f, NEW o, NEW m,
         Meant(args, k, c, f, o, m), args[k] \in Args \ Hyphened
  PROVE  Meant(args, k + 1, c, f, o, m + 1)
<1> DEFINE bad == (Hyphened \ Options) \union {"--help"}
           files == Args \ Hyphened
<1>1. EvenRun(args, k) /\ args[k] \notin ValueOpts /\ args[k] \notin bad
  BY OptionsApart, DriverAssumption DEF Meant, Options
<1>2. /\ Seen(args, bad, k + 1) = Seen(args, bad, k)
      /\ Seen(args, ValueOpts, k + 1) = Seen(args, ValueOpts, k)
      /\ Seen(args, FormatOpts, k + 1) = Seen(args, FormatOpts, k)
      /\ Seen(args, OutputOpts, k + 1) = Seen(args, OutputOpts, k)
      /\ Seen(args, ColorOpts, k + 1) = Seen(args, ColorOpts, k)
      /\ Seen(args, files, k + 1) = Seen(args, files, k) \union {k}
  <2> HIDE DEF bad, files
  <2> QED BY <1>1, SeenAfterNoOption, OptionsApart DEF files
<1>3. Cardinality(Seen(args, files, k + 1)) = Cardinality(Seen(args, files, k)) + 1
  <2>1. k \notin Seen(args, files, k)
    BY DEF Seen
  <2> HIDE DEF files
  <2> QED BY <1>2, <2>1, SeenFinite, FS_AddElement
<1>4. EvenRun(args, k + 1)
  BY <1>1, AfterNoOption
<1> HIDE DEF bad, files
<1> QED BY <1>2, <1>3, <1>4, ChosenStays DEF Meant, bad, files

\* An option that takes a value leaves the others' as they were.
LEMMA MeantOption ==
  ASSUME NEW args \in Seq(Args), NEW k \in DOMAIN args, NEW c, NEW f, NEW o, NEW m,
         Meant(args, k, c, f, o, m), args[k] \in ValueOpts, k + 1 \in DOMAIN args,
         args[k] \in FormatOpts => args[k + 1] \in DOMAIN Formats,
         args[k] \in ColorOpts => args[k + 1] \in Prefs
  PROVE  Meant(args, k + 2,
               IF args[k] \in ColorOpts THEN args[k + 1] ELSE c,
               IF args[k] \in FormatOpts THEN Formats[args[k + 1]] ELSE f,
               IF args[k] \in OutputOpts THEN args[k + 1] ELSE o, m)
<1> DEFINE bad == (Hyphened \ Options) \union {"--help"}
           files == Args \ Hyphened
           c2 == IF args[k] \in ColorOpts THEN args[k + 1] ELSE c
           f2 == IF args[k] \in FormatOpts THEN Formats[args[k + 1]] ELSE f
           o2 == IF args[k] \in OutputOpts THEN args[k + 1] ELSE o
           After(options) == IF args[k] \in options THEN Seen(args, options, k) \union {k}
                             ELSE Seen(args, options, k)
<1>1. EvenRun(args, k) /\ args[k] \notin bad /\ args[k] \notin files
  BY OptionsApart DEF Meant
<1>2. EvenRun(args, k + 2)
  BY <1>1, AfterOption
<1>3. \A options : Seen(args, options, k + 2) = After(options)
  BY <1>1, SeenAfterOption
<1>4. Seen(args, bad, k + 2) = Seen(args, bad, k) /\ Seen(args, files, k + 2) = Seen(args, files, k)
  <2> HIDE DEF bad, files
  <2> QED BY <1>1, <1>3
<1>12. \A options, j : j \in Seen(args, options, k + 2) =>
         j \in Seen(args, options, k) \/ (j = k /\ args[k] \in options)
  BY <1>3
<1>5. \A j \in Seen(args, ValueOpts, k + 2) : j + 1 \in DOMAIN args
  <2>1. \A j \in Seen(args, ValueOpts, k) : j + 1 \in DOMAIN args
    BY DEF Meant
  <2> QED BY <1>12, <2>1
<1>6. \A j \in Seen(args, FormatOpts, k + 2) : args[j + 1] \in DOMAIN Formats
  <2>1. \A j \in Seen(args, FormatOpts, k) : args[j + 1] \in DOMAIN Formats
    BY DEF Meant
  <2> QED BY <1>12, <2>1
<1>7. \A j \in Seen(args, ColorOpts, k + 2) : args[j + 1] \in Prefs
  <2>1. \A j \in Seen(args, ColorOpts, k) : args[j + 1] \in Prefs
    BY DEF Meant
  <2> QED BY <1>12, <2>1
<1>8. \E v : Chosen(args, v, FormatOpts, "raw", k + 2) /\ f2 = Formats[v]
  <2>1. CASE args[k] \in FormatOpts
    <3>1. Seen(args, FormatOpts, k + 2) = Seen(args, FormatOpts, k) \union {k}
      BY <1>3, <2>1
    <3>2. k \in Nat
      OBVIOUS
    <3>3. \A default : Chosen(args, args[k + 1], FormatOpts, default, k + 2)
      BY <3>1, <3>2, ChosenLast
    <3> QED BY <2>1, <3>3
  <2>2. CASE args[k] \notin FormatOpts
    BY <1>3, <2>2, ChosenStays DEF Meant
  <2> QED BY <2>1, <2>2
<1>9. Chosen(args, o2, OutputOpts, "NULL", k + 2)
  <2>1. CASE args[k] \in OutputOpts
    <3>1. Seen(args, OutputOpts, k + 2) = Seen(args, OutputOpts, k) \union {k}
      BY <1>3, <2>1
    <3>2. k \in Nat
      OBVIOUS
    <3>3. \A default : Chosen(args, args[k + 1], OutputOpts, default, k + 2)
      BY <3>1, <3>2, ChosenLast
    <3> QED BY <2>1, <3>3
  <2>2. CASE args[k] \notin OutputOpts
    BY <1>3, <2>2, ChosenStays DEF Meant
  <2> QED BY <2>1, <2>2
<1>10. \E default : Chosen(args, c2, ColorOpts, default, k + 2)
  <2>1. CASE args[k] \in ColorOpts
    <3>1. Seen(args, ColorOpts, k + 2) = Seen(args, ColorOpts, k) \union {k}
      BY <1>3, <2>1
    <3>2. k \in Nat
      OBVIOUS
    <3>3. \A default : Chosen(args, args[k + 1], ColorOpts, default, k + 2)
      BY <3>1, <3>2, ChosenLast
    <3> QED BY <2>1, <3>3
  <2>2. CASE args[k] \notin ColorOpts
    <3>1. Seen(args, ColorOpts, k + 2) = Seen(args, ColorOpts, k)
      BY <1>3, <2>2
    <3>2. PICK default : Chosen(args, c, ColorOpts, default, k)
      BY DEF Meant
    <3>3. Chosen(args, c, ColorOpts, default, k + 2)
      BY <3>1, <3>2, ChosenStays
    <3> QED BY <2>2, <3>3
  <2> QED BY <2>1, <2>2
<1> HIDE DEF c2, f2, o2
<1>11. Meant(args, k + 2, c2, f2, o2, m)
  BY <1>2, <1>4, <1>5, <1>6, <1>7, <1>8, <1>9, <1>10 DEF Meant
<1> QED BY <1>11 DEF c2, f2, o2

\* The value that was chosen from all arguments is the option's last one.
LEMMA ChosenIsLastValue ==
  ASSUME NEW args \in Seq(Args), NEW v, NEW options, NEW default,
         Chosen(args, v, options, default, Len(args) + 1)
  PROVE  v = LastValue(args, options, default)
<1> DEFINE given == Given(args, options)
           last == CHOOSE k \in given : \A l \in given : l <= k
<1>1. Seen(args, options, Len(args) + 1) = given /\ given \subseteq Nat
  BY DEF Seen, Given
<1> HIDE DEF given
<1>2. CASE given = {}
  BY <1>1, <1>2 DEF Chosen, LastValue, given
<1>3. CASE given # {}
  <2>1. PICK k \in given : v = args[k + 1] /\ \A l \in given : l <= k
    BY <1>1, <1>3 DEF Chosen
  <2>2. last \in given /\ \A l \in given : l <= last
    BY <2>1
  <2>3. last = k
    <3> HIDE DEF last
    <3>1. last <= k /\ k <= last /\ last \in Nat /\ k \in Nat
      BY <1>1, <2>1, <2>2
    <3> QED BY <3>1
  <2>4. \A d : LastValue(args, options, d) = args[last + 1]
    BY <1>3 DEF LastValue, given
  <2> QED BY <2>1, <2>3, <2>4
<1> QED BY <1>2, <1>3

\* An option that is given has that value whatever is its default.
LEMMA DefaultIsForNone ==
  ASSUME NEW args \in Seq(Args), NEW options, Given(args, options) # {}
  PROVE  \A c, d : LastValue(args, options, c) = LastValue(args, options, d)
BY DEF LastValue

\* When all arguments are read, what is in c, f, o and m is what they mean.
LEMMA MeantEnd ==
  ASSUME NEW args \in Seq(Args), NEW c, NEW f, NEW o, NEW m,
         Meant(args, Len(args) + 1, c, f, o, m)
  PROVE  /\ m # 0 => WellFormed(args)
         /\ m = 0 => ~WellFormed(args)
         /\ Given(args, {"--help"}) = {}
         /\ m = Cardinality(Given(args, Args \ Hyphened))
         /\ f = Formats[LastValue(args, FormatOpts, "raw")]
         /\ o = LastValue(args, OutputOpts, "NULL")
         /\ c = LastValue(args, ColorOpts, c)
<1> DEFINE bad == (Hyphened \ Options) \union {"--help"}
           files == Args \ Hyphened
           n == Len(args) + 1
<1>1. \A options : Seen(args, options, n) = Given(args, options)
  BY DEF Seen, Given
<1>2. /\ Given(args, bad) = {}
      /\ \A k \in Given(args, ValueOpts) : k + 1 \in DOMAIN args
      /\ \A k \in Given(args, FormatOpts) : args[k + 1] \in DOMAIN Formats
      /\ \A k \in Given(args, ColorOpts) : args[k + 1] \in Prefs
      /\ m = Cardinality(Given(args, files))
  BY <1>1 DEF Meant
<1>8. \A v, options, default :
        Chosen(args, v, options, default, n) => v = LastValue(args, options, default)
  BY ChosenIsLastValue
<1>3. Given(args, Hyphened \ Options) = {} /\ Given(args, {"--help"}) = {}
  BY <1>2 DEF Given
<1>4. m = 0 <=> Given(args, files) = {}
  <2>1. IsFiniteSet(Given(args, files))
    BY <1>1, SeenFinite
  <2> HIDE DEF files
  <2> QED BY <1>2, <2>1, FS_EmptySet
<1>5. f = Formats[LastValue(args, FormatOpts, "raw")]
  <2>1. PICK v : Chosen(args, v, FormatOpts, "raw", n) /\ f = Formats[v]
    BY DEF Meant
  <2>2. v = LastValue(args, FormatOpts, "raw")
    BY <1>8, <2>1, Zenon
  <2> QED BY <2>1, <2>2
<1>6. o = LastValue(args, OutputOpts, "NULL")
  BY <1>8, Zenon DEF Meant
<1>7. c = LastValue(args, ColorOpts, c)
  <2>1. PICK default : Chosen(args, c, ColorOpts, default, n)
    BY DEF Meant
  <2>2. Given(args, ColorOpts) # {} => c = LastValue(args, ColorOpts, c)
    BY <1>8, <2>1, DefaultIsForNone
  <2>3. Given(args, ColorOpts) = {} => LastValue(args, ColorOpts, c) = c
    BY DEF LastValue
  <2> QED BY <2>2, <2>3
<1> QED BY <1>2, <1>3, <1>4, <1>5, <1>6, <1>7 DEF WellFormed

-----------------------------------------------------------------------------
(* The invariant *)

\* How many errors may have been reported at a stage: each of Parse, Pass1 and
\* LaterPasses reports once, and none of them runs twice.
Reports(s) == IF s \in {"args", "driver", "load", "parse"} THEN 0
              ELSE IF s = "assemble" THEN 1 ELSE IF s = "emit" THEN 2 ELSE 3

\* No more files are counted than arguments read.
Counts == /\ TypeOK
          /\ inputs < i
          /\ reported <= Reports(stage)

\* While arguments are read, what they mean so far; then, what they mean.
Reading ==
  /\ stage = "args" => Meant(argv, i, color, format, output, inputs)
  /\ stage # "exit" => status = 0

\* What is handed over between back end and driver, and set for diagnostics.
Handing ==
  /\ stage \in {"load", "parse", "assemble", "emit", "save"} => ansi = tty
  /\ stage = "save" => image = "image" \/ error_count # 0
  /\ stage # "exit" => file = "untouched"

IInv == Counts /\ Reading /\ CommandLineIsMeant /\ Handing /\ NoNullIsSaved

LEMMA DriverInit == Init => IInv
<1> SUFFICES ASSUME Init PROVE IInv
  OBVIOUS
<1>1. PICK n \in 0 .. MaxArgs : argv \in [1 .. n -> Args]
  BY DEF Init
<1>2. argv \in Seq(Args) /\ Len(argv) = n /\ n \in Nat /\ n <= MaxArgs
  BY <1>1, DriverAssumption
<1>3. /\ i = 1 /\ stage = "args" /\ format = "raw" /\ output = "NULL" /\ inputs = 0
      /\ reported = 0 /\ error_count = 0 /\ image = "none" /\ file = "untouched" /\ status = 0
      /\ color \in Prefs
  BY DEF Init
<1>4. tty \in BOOLEAN /\ ansi \in BOOLEAN /\ loaded \in BOOLEAN
  BY Zenon DEF Init
<1>5. TypeOK
  BY <1>2, <1>3, <1>4, DriverAssumption DEF TypeOK
<1>6. Counts
  BY <1>3, <1>5 DEF Counts, Reports
<1>7. Meant(argv, i, color, format, output, inputs)
  BY <1>2, <1>3, MeantInit
<1> QED BY <1>3, <1>6, <1>7 DEF IInv, Reading, CommandLineIsMeant, Handing, NoNullIsSaved

\* A step that reads, or refuses, an argument leaves everything else alone.
LEMMA CountsStep == Counts /\ [Next]_vars => Counts'
<1> SUFFICES ASSUME Counts, [Next]_vars PROVE Counts'
  OBVIOUS
<1> USE DriverAssumption DEF Counts, TypeOK, Reports, Counted, cmdline, work, Arg, Exit, Killed
<1>1. CASE Help
  BY <1>1 DEF Help, Refuse
<1>2. CASE FormatArg
  <2>1. CASE HasValue /\ Value \in DOMAIN Formats
    <3>1. Formats[Value] \in {"raw", "tobj"}
      BY <2>1 DEF Formats
    <3> QED BY <1>2, <2>1, <3>1 DEF FormatArg, HasValue, Read
  <2>2. CASE ~(HasValue /\ Value \in DOMAIN Formats)
    BY <1>2, <2>2 DEF FormatArg, Refuse
  <2> QED BY <2>1, <2>2
<1>3. CASE OutputArg
  <2>1. CASE HasValue
    <3>1. Value \in Args
      BY <2>1 DEF HasValue, Value
    <3> QED BY <1>3, <2>1, <3>1 DEF OutputArg, HasValue, Read
  <2>2. CASE ~HasValue
    BY <1>3, <2>2 DEF OutputArg, Refuse
  <2> QED BY <2>1, <2>2
<1>4. CASE ColorArg
  <2>1. CASE HasValue /\ Value \in Prefs
    BY <1>4, <2>1 DEF ColorArg, HasValue, Read
  <2>2. CASE ~(HasValue /\ Value \in Prefs)
    BY <1>4, <2>2 DEF ColorArg, Refuse
  <2> QED BY <2>1, <2>2
<1>5. CASE UnknownArg
  BY <1>5 DEF UnknownArg, Refuse
<1>6. CASE FileArg
  BY <1>6 DEF FileArg, Read
<1>7. CASE ArgsRead
  <2>1. CASE inputs = 0
    BY <1>7, <2>1 DEF ArgsRead, Refuse
  <2>2. CASE inputs # 0
    <3>1. ansi' \in BOOLEAN
      BY <1>7, <2>2, Zenon DEF ArgsRead
    <3>2. /\ stage = "args" /\ stage' = "driver"
          /\ UNCHANGED <<argv, i, cmdline, tty, work, status>>
      BY <1>7, <2>2 DEF ArgsRead
    <3> QED BY <3>1, <3>2
  <2> QED BY <2>1, <2>2
<1>8. CASE Start
  BY <1>8 DEF Start
<1>9. CASE Load
  BY <1>9 DEF Load
<1>10. CASE Parse
  BY <1>10 DEF Parse, Report
<1>11. CASE ParseFails
  BY <1>11 DEF ParseFails
<1>12. CASE ParseCrashes
  BY <1>12 DEF ParseCrashes
<1>13. CASE Pass1
  BY <1>13 DEF Pass1, Report
<1>14. CASE LaterPasses
  BY <1>14 DEF LaterPasses, Report
<1>15. CASE Save
  BY <1>15 DEF Save
<1>16. CASE UNCHANGED vars
  BY <1>16 DEF vars
<1> QED BY <1>1, <1>2, <1>3, <1>4, <1>5, <1>6, <1>7, <1>8, <1>9, <1>10, <1>11,
           <1>12, <1>13, <1>14, <1>15, <1>16 DEF Next

\* A refused command line is not well formed, at the argument it is refused for.
LEMMA RefusedForCause ==
  ASSUME Counts, Reading, stage = "args", i \in DOMAIN argv,
         \/ argv[i] \in Hyphened \ Options
         \/ argv[i] \in ValueOpts /\ i + 1 \notin DOMAIN argv
         \/ argv[i] \in FormatOpts /\ argv[i + 1] \notin DOMAIN Formats
         \/ argv[i] \in ColorOpts /\ argv[i + 1] \notin Prefs
  PROVE  ~WellFormed(argv)
<1>1. argv \in Seq(Args) /\ i \in 1 .. Len(argv) + 1
  BY DEF Counts, TypeOK
<1>2. ~IsValue(argv, i)
  BY <1>1, EvenIsNoValue DEF Reading, Meant
<1>3. \A options : argv[i] \in options => i \in Given(argv, options)
  BY <1>2 DEF Given
<1> QED BY <1>3 DEF WellFormed

\* Reading an argument keeps to what the arguments mean.
LEMMA ReadingStep ==
  ASSUME Counts, Reading, CommandLineIsMeant, [Next]_vars
  PROVE  Reading' /\ CommandLineIsMeant'
<1>1. argv \in Seq(Args) /\ i \in 1 .. Len(argv) + 1 /\ DOMAIN argv = 1 .. Len(argv)
  BY DEF Counts, TypeOK
<1>2. argv' = argv
  BY DEF Next, vars, Help, FormatArg, OutputArg, ColorArg, UnknownArg, FileArg, ArgsRead,
         Start, Load, Parse, ParseFails, ParseCrashes, Pass1, LaterPasses, Save, Read, Refuse
\* The three ways in which a step leaves the command line alone.
<1>3. ASSUME Arg(ValueOpts), i + 1 \in DOMAIN argv, i' = i + 2, UNCHANGED <<stage, inputs, status>>,
             color' = IF argv[i] \in ColorOpts THEN argv[i + 1] ELSE color,
             format' = IF argv[i] \in FormatOpts THEN Formats[argv[i + 1]] ELSE format,
             output' = IF argv[i] \in OutputOpts THEN argv[i + 1] ELSE output,
             argv[i] \in FormatOpts => argv[i + 1] \in DOMAIN Formats,
             argv[i] \in ColorOpts => argv[i + 1] \in Prefs
      PROVE  Reading' /\ CommandLineIsMeant'
  <2>1. i \in DOMAIN argv /\ stage = "args" /\ argv[i] \in ValueOpts
        /\ Meant(argv, i, color, format, output, inputs) /\ status = 0
    BY <1>3 DEF Arg, Reading
  <2>2. Meant(argv, i + 2, color', format', output', inputs)
    BY <1>1, <1>3, <2>1, MeantOption
  <2>3. Meant(argv', i', color', format', output', inputs')
    BY <1>2, <1>3, <2>2
  <2> QED BY <1>3, <2>1, <2>3 DEF Reading, CommandLineIsMeant
<1>4. ASSUME Exit(2), stage = "args", ~WellFormed(argv) PROVE Reading' /\ CommandLineIsMeant'
  BY <1>2, <1>4 DEF Exit, Reading, CommandLineIsMeant
<1>5. ASSUME UNCHANGED cmdline, stage' # "args", stage \notin {"args", "exit"},
             status' # 2, stage' # "exit" => status' = status
      PROVE  Reading' /\ CommandLineIsMeant'
  <2>1. UNCHANGED <<argv, color, format, output, inputs>>
    BY <1>2, <1>5 DEF cmdline
  <2>2. status = 0
    BY <1>5 DEF Reading
  <2> QED BY <1>5, <2>1, <2>2 DEF Reading, CommandLineIsMeant
<1>6. CASE Help
  BY <1>6 DEF Help, Arg, Refuse, Exit, Reading, CommandLineIsMeant
<1>7. CASE FormatArg
  <2>1. Arg(ValueOpts) /\ argv[i] \in FormatOpts /\ argv[i] \notin OutputOpts /\ argv[i] \notin ColorOpts
    BY <1>7, OptionsApart DEF FormatArg, Arg
  <2>2. CASE HasValue /\ Value \in DOMAIN Formats
    <3>1. format' = Formats[argv[i + 1]] /\ Read(2) /\ UNCHANGED <<color, output, inputs>>
      BY <1>7, <2>2 DEF FormatArg, Value
    <3> QED BY <1>3, <2>1, <2>2, <3>1 DEF Read, HasValue, Value
  <2>3. CASE ~(HasValue /\ Value \in DOMAIN Formats)
    <3>1. Refuse(2) /\ stage = "args" /\ i \in DOMAIN argv
      BY <1>7, <2>3 DEF FormatArg, Arg
    <3>2. ~WellFormed(argv)
      BY <2>1, <2>3, <3>1, RefusedForCause DEF HasValue, Value, Arg
    <3> QED BY <1>4, <3>1, <3>2 DEF Refuse
  <2> QED BY <2>2, <2>3
<1>8. CASE OutputArg
  <2>1. Arg(ValueOpts) /\ argv[i] \in OutputOpts /\ argv[i] \notin FormatOpts /\ argv[i] \notin ColorOpts
    BY <1>8, OptionsApart DEF OutputArg, Arg
  <2>2. CASE HasValue
    <3>1. output' = argv[i + 1] /\ Read(2) /\ UNCHANGED <<color, format, inputs>>
      BY <1>8, <2>2 DEF OutputArg, Value
    <3> QED BY <1>3, <2>1, <2>2, <3>1 DEF Read, HasValue
  <2>3. CASE ~HasValue
    <3>1. Refuse(2) /\ stage = "args" /\ i \in DOMAIN argv
      BY <1>8, <2>3 DEF OutputArg, Arg
    <3>2. ~WellFormed(argv)
      BY <2>1, <2>3, <3>1, RefusedForCause DEF HasValue, Arg
    <3> QED BY <1>4, <3>1, <3>2 DEF Refuse
  <2> QED BY <2>2, <2>3
<1>9. CASE ColorArg
  <2>1. Arg(ValueOpts) /\ argv[i] \in ColorOpts /\ argv[i] \notin FormatOpts /\ argv[i] \notin OutputOpts
    BY <1>9, OptionsApart DEF ColorArg, Arg
  <2>2. CASE HasValue /\ Value \in Prefs
    <3>1. color' = argv[i + 1] /\ Read(2) /\ UNCHANGED <<format, output, inputs>>
      BY <1>9, <2>2 DEF ColorArg, Value
    <3> QED BY <1>3, <2>1, <2>2, <3>1 DEF Read, HasValue, Value
  <2>3. CASE ~(HasValue /\ Value \in Prefs)
    <3>1. Refuse(2) /\ stage = "args" /\ i \in DOMAIN argv
      BY <1>9, <2>3 DEF ColorArg, Arg
    <3>2. ~WellFormed(argv)
      BY <2>1, <2>3, <3>1, RefusedForCause DEF HasValue, Value, Arg
    <3> QED BY <1>4, <3>1, <3>2 DEF Refuse
  <2> QED BY <2>2, <2>3
<1>10. CASE UnknownArg
  <2>1. Refuse(2) /\ stage = "args" /\ i \in DOMAIN argv /\ argv[i] \in Hyphened \ Options
    BY <1>10 DEF UnknownArg, Arg
  <2>2. ~WellFormed(argv)
    BY <2>1, RefusedForCause
  <2> QED BY <1>4, <2>1, <2>2 DEF Refuse
<1>11. CASE FileArg
  <2>1. /\ i \in DOMAIN argv /\ stage = "args" /\ argv[i] \in Args \ Hyphened
        /\ inputs' = inputs + 1 /\ i' = i + 1 /\ UNCHANGED <<color, format, output, stage, status>>
    BY <1>11 DEF FileArg, Arg, Read
  <2>2. Meant(argv, i, color, format, output, inputs) /\ status = 0
    BY <2>1 DEF Reading
  <2>3. Meant(argv, i + 1, color, format, output, inputs + 1)
    BY <1>1, <2>1, <2>2, MeantFile
  <2>4. Meant(argv', i', color', format', output', inputs')
    BY <1>2, <2>1, <2>3
  <2> QED BY <2>1, <2>2, <2>4 DEF Reading, CommandLineIsMeant
<1>12. CASE ArgsRead
  <2>1. i = Len(argv) + 1 /\ stage = "args" /\ status = 0
        /\ Meant(argv, Len(argv) + 1, color, format, output, inputs)
    BY <1>1, <1>12 DEF ArgsRead, Reading
  <2>2. /\ inputs # 0 => WellFormed(argv)
        /\ inputs = 0 => ~WellFormed(argv)
        /\ Given(argv, {"--help"}) = {}
        /\ inputs = Cardinality(Given(argv, Args \ Hyphened))
        /\ format = Formats[LastValue(argv, FormatOpts, "raw")]
        /\ output = LastValue(argv, OutputOpts, "NULL")
        /\ color = LastValue(argv, ColorOpts, color)
    BY <1>1, <2>1, MeantEnd
  <2>3. CASE inputs = 0
    BY <1>4, <1>12, <2>1, <2>2, <2>3 DEF ArgsRead, Refuse
  <2>4. CASE inputs # 0
    <3>1. stage' = "driver" /\ UNCHANGED <<argv, color, format, output, inputs, status>>
      BY <1>12, <2>4 DEF ArgsRead, cmdline
    <3> QED BY <2>1, <2>2, <2>4, <3>1 DEF Reading, CommandLineIsMeant
  <2> QED BY <2>3, <2>4
<1>13. status = 0 \/ stage \in {"args", "exit"}
  BY DEF Reading
<1>14. CASE Start
  BY <1>5, <1>13, <1>14 DEF Start, Exit
<1>15. CASE Load
  BY <1>5, <1>13, <1>15 DEF Load
<1>16. CASE Parse
  BY <1>5, <1>13, <1>16 DEF Parse
<1>17. CASE ParseFails
  BY <1>5, <1>13, <1>17 DEF ParseFails, Exit
<1>18. CASE ParseCrashes
  BY <1>5, <1>13, <1>18 DEF ParseCrashes, Exit, Killed
<1>19. CASE Pass1
  BY <1>5, <1>13, <1>19 DEF Pass1
<1>20. CASE LaterPasses
  BY <1>5, <1>13, <1>20 DEF LaterPasses
<1>21. CASE Save
  BY <1>5, <1>13, <1>21 DEF Save, Exit
<1>22. CASE UNCHANGED vars
  BY <1>22 DEF vars, cmdline, Reading, CommandLineIsMeant
<1> QED BY <1>6, <1>7, <1>8, <1>9, <1>10, <1>11, <1>12, <1>14, <1>15, <1>16, <1>17,
           <1>18, <1>19, <1>20, <1>21, <1>22 DEF Next

\* Back end and driver agree on when there is an image.
LEMMA HandingStep ==
  ASSUME Handing, NoNullIsSaved, [Next]_vars
  PROVE  Handing' /\ NoNullIsSaved'
<1> USE DEF Handing, NoNullIsSaved
<1>1. CASE Help \/ FormatArg \/ OutputArg \/ ColorArg \/ UnknownArg \/ FileArg
  <2>1. stage = "args" /\ (stage' = "args" \/ stage' = "exit") /\ UNCHANGED <<image, file>>
    BY <1>1 DEF Help, FormatArg, OutputArg, ColorArg, UnknownArg, FileArg, Arg, Read, Refuse,
                Exit, work
  <2> QED BY <2>1
<1>2. CASE ArgsRead
  BY <1>2 DEF ArgsRead, Refuse, Exit, work
<1>3. CASE Start
  BY <1>3, Zenon DEF Start, Exit, work
<1>4. CASE Load
  BY <1>4, Zenon DEF Load
<1>5. CASE Parse
  BY <1>5, Zenon DEF Parse
<1>6. CASE ParseFails
  BY <1>6 DEF ParseFails, Exit, work
<1>7. CASE ParseCrashes
  BY <1>7 DEF ParseCrashes, Exit, work
<1>8. CASE Pass1
  <2>1. stage = "assemble" /\ UNCHANGED <<tty, ansi, file>> /\ stage' # "exit"
        /\ (stage' = "save" => error_count' > 0)
    BY <1>8 DEF Pass1
  <2>2. error_count' > 0 => error_count' # 0
    OBVIOUS
  <2>3. ansi' = tty' /\ file' = "untouched"
    BY <2>1, Zenon
  <2> QED BY <2>1, <2>2, <2>3, Zenon
<1>9. CASE LaterPasses
  BY <1>9, Zenon DEF LaterPasses
<1>10. CASE Save
  <2>1. stage = "save" /\ stage' = "exit" /\ image' = image
        /\ (error_count # 0 => file' = file)
    BY <1>10 DEF Save, Exit
  <2> QED BY <2>1
<1>11. CASE UNCHANGED vars
  BY <1>11, Zenon DEF vars, work
<1> QED BY <1>1, <1>2, <1>3, <1>4, <1>5, <1>6, <1>7, <1>8, <1>9, <1>10, <1>11 DEF Next

LEMMA DriverStep == IInv /\ [Next]_vars => IInv'
BY CountsStep, ReadingStep, HandingStep DEF IInv

-----------------------------------------------------------------------------
(* Theorems *)

\* The variables keep to their types: among them, the index never leaves the
\* arguments by more than one, so that no argument beyond the last is read.
THEOREM DriverTypeOK == Spec => []TypeOK
<1>1. IInv => TypeOK
  BY DEF IInv, Counts
<1> QED BY <1>1, DriverInit, DriverStep, PTL DEF Spec

\* Whatever the command line, and however long: tasm_parse_args takes every
\* argument for what it is, refuses no well-formed line, and leaves the files,
\* the format, the output and the preference of the last options given.
THEOREM DriverCommandLineIsMeant == Spec => []CommandLineIsMeant
<1>1. IInv => CommandLineIsMeant
  BY DEF IInv
<1> QED BY <1>1, DriverInit, DriverStep, PTL DEF Spec

\* Without a preference, or with auto, the terminal decides about colors,
\* though main() looks at a preference that has no value.
THEOREM DriverDefaultColorIsAuto == Spec => []DefaultColorIsAuto
<1>1. IInv => DefaultColorIsAuto
  BY Zenon DEF IInv, Handing, DefaultColorIsAuto
<1> QED BY <1>1, DriverInit, DriverStep, PTL DEF Spec

\* Whatever is counted when: if the driver saves, the back end has made an image.
THEOREM DriverNoNullIsSaved == Spec => []NoNullIsSaved
<1>1. IInv => NoNullIsSaved
  BY DEF IInv
<1> QED BY <1>1, DriverInit, DriverStep, PTL DEF Spec
=============================================================================
