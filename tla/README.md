# tasm, verified

TLA+ models of the stage 0 TASM assembler (`src/`), the TLC runs that check
them on small programs, and proofs about them for all programs.

Contents: [the system](#the-system) - [the modules](#the-modules) -
[the runs](#the-runs) - [the proofs](#the-proofs) -
[where code and documentation disagree](#where-code-and-documentation-disagree) -
[what is not modelled](#what-is-not-modelled) - [the plan](#the-plan).

## The system

`tasm` reads one assembly file and writes one image: a raw memory image or an
object file for the tc48 machine, whose words are 48 trits (8 trytes of 6
trits). It is a single sequential process. What makes it hard is not
concurrency but that **the same fact is computed in several places, by
separate code, in separate passes, and nothing compares the results**: the
size of an instruction and its encoding, the scope of a local label in pass 1
and in pass 2, the number of a section by its name and by its position, the
offset of an address in an encoding and the encoding. A disagreement does not
crash the assembler. It produces an image that is quietly wrong.

    main -> argparse -> driver -> srcdoc -> lexer -> parser -> ASR buffer
                                                                   |
                             raw back end (2 passes)   <-----------+----> object back end (3 passes)
                                   \                                        /
                                    sema.c (sizes, formats, validation)  lower.c (encoding)
                                                     |
                                                 diag.c

| Component | State it keeps | Operations | Talks to | What is hard | What makes it correct |
|---|---|---|---|---|---|
| Command line (`main.c`, `util/argparse.c`) | the argument vector, the command line record | one turn of the loop per option, `main` | driver | a record of which only some fields are initialised | every argument is taken for what it is; preferences given are the ones used |
| Driver (`driver.c`) | the source document, the ASR buffer, the diagnostics engine | load, parse, `dispatch_compilation`, save | all others, in order | results that nobody looks at; failures in the middle | only images are saved; the status tells whether the output is there (it does not, see below) |
| Diagnostics (`util/diag.c`) | `error_count` | `tasm_report_error`, `tasm_fail` | read by the driver and both back ends | every guard against errors depends on one counter | errors reported are errors counted |
| ASR (`asr/*.h`) | items: labels, instructions, directives | - | produced by the parser, read by all passes | - | - |
| ASR buffer (`asr/buf.c`) | items, length, capacity | init, add, free | filled by the parser, read by the back ends, which index their tables by item id | growth that may fail in the middle of a parse | items stay inside the array, numbered by position, in the order of the source |
| Sema (`asm/sema.c`) | none | validate and inspect, sizes, immediate offset | called by both back ends, in every pass | thirty opcodes in ten formats, widths inferred from operands, sizes computed apart from the encoding | sizes and offsets agree with what lower.c builds; nothing is dropped in silence |
| Lower (`asm/lower.c`) | none | lower an instruction, resolve its operand | called in the last pass of both back ends; the resolver calls back into the back end | one address field, up to two operands that could fill it | every operand reaches its field, whole |
| Raw back end (`asm/backends/raw.c`) | item addresses, symbols, the current scope, the image | pass 1, pass 2, symbol lookup | sema, lower, diagnostics | scopes are tracked twice; `%org`; directives that stop half way | the image RawImage describes |
| Object back end (`asm/backends/tobj.c`) | addresses within sections, section map, symbol map, the object builder | passes 1, 2 and 3, symbol lookup, relocations | sema, lower, the tobj library | sections re-entered, bindings before and after labels, three scans of sections and scopes | linked, it is the raw image; each relocation names the label its operand means |
| Lexer (`lexer/`) | the current location (offset, line, column) | find the next token | called by the parser, two tokens ahead | literals that end at an unescaped quote or at the end of the text; a location counted by hand on every path | longest words, nothing skipped but blanks, true locations |
| Parser (`parser/parser.c`) | two slots of lookahead and their count | parse an item, `expect`, `advance` | lexer, literals, ASR buffer, diagnostics | lookahead that ignores lexer errors; errors without recovery: `expect` leaves the token it complains about | it ends; no token is lost or seen twice; an item is reported exactly when what was read is no sentence that means it |
| Literals (`parser/literals.c`) | none | decode integers, characters, strings, escapes | parser and the back ends | no overflow check; escapes read apart from the lexer, which decides where the literal ends | integers mean their digits; no literal of the lexer fails without a diagnostic |
| Name tables (`parser/*-map.c`) | constant tables | lookup | parser | - | - |
| Source documents (`srcdoc/`) | the text of a file | load, free, views into it | driver, lexer, diagnostics | a failed load is not noticed | - |
| ASR dump, string builder (`asr/dump.c`, `tostr.c`, `sb.c`) | none | formatting | - | - | - |
| End-to-end tests (`e2e-tests/run.c`) | - | runs the assembler on samples | - | - | - |
| strlib, tobj, tc48 | - | submodules, not part of the repository | - | - | - |

The hazards of this code, each at its line and with the properties that would
show it going wrong, are listed in `PROJECT.json`.

## The modules

Data and pure functions, used by everything else:

* **TasmAsr** - operands, opcodes, directives and items as records. Names are
  strings that are only compared. Source spans, predicates and register
  sublanes are left out: they are copied from token to encoding unread.
* **Sema** - `sema.c`: which registers are addresses, width votes and their
  conflicts, the format of an instruction (or `"rejected"` when validation
  reports, `"dropped"` when it returns false in silence), `InstrSize`,
  `ItemSize`, `ImmOffset`. A string's characters are counted the way
  `sema.c` decodes them.
* **Lower** - `lower.c`: the operand that fills the immediate field, the
  register fields, `Encoding`. A tryte is a pair naming what it is part of
  (opcode, register, the k-th tryte of a value), never a number: what the
  properties tell apart is where each tryte stands.
* **Scopes** - the meaning of a label name, said without passes or tables:
  a local label belongs to the last global label before it. Both back ends
  are held to this module; no code of theirs is translated here.

* **Literals** - `literals.c`: the value of an integer, the character or
  characters of a literal, each an operator on the bytes of a lexeme that
  yields a value, a reported error or a silent one. The two moduli at which
  numbers wrap and the table of TSCS characters are parameters. (An `int` that
  overflows is undefined in C; it wraps here, as it does in practice.)

State machines:

* **Lexer** - `lexer.c`, one call of `tasm_lexer_next` a step over a text of
  bytes: `loc` is `current_loc`, `found` remembers each token with its span. The
  code gives `isspace` and its like a plain `char`, which is negative for a byte
  beyond ASCII; the model takes the answer C libraries give, which is no.
* **Parser** - `parser.c`. Every decision of the parse functions looks at the
  next token and takes one at most, so each decision is an action and `at` is the
  place in the code where it is made; before each, `FillLookahead` calls the
  lexer until both slots of `lookahead` are filled. A source is what the lexer answers to
  its calls, failures (`LexError`) included: a failed call leaves its slot as it was.
  `item` is the item being read; `heard` (the tokens taken), `reported` and
  `lost` are history. What an uninitialised token or opcode holds is chosen
  from `Garbage` and `GarbageOpcodes`.
* **AsrBuf** - `buf.c`, the array Parser adds its items to. When it is full
  it may grow or fail to, and a failure drops the item.
* **InstrPath** - one instruction on its way through the passes: `Measure` is
  pass 1 of either back end, then `EmitRaw` or `UndefinedLabel` is pass 2 of
  the raw one and `EmitTObj` pass 3 of the object one. It asks whether sema.c,
  lower.c and the relocation code agree on *one* instruction, so that the back
  end models may be checked with few of them.
* **RawBackend** - `raw.c`, one turn of a loop a step. `prog` is the ASR buffer,
  `i` the loop's index, `scope` is `current_scope_id`, `addr` pass 1's
  `current_addr`, `addrs` is `item_addresses`, `symbols` the symbol table,
  `mem` the memory (a function from the addresses stored to, so that a store
  outside the image is visible instead of being undefined), `diags` how many
  errors were printed for each item. `Pass1Label`, `Pass1Org`, `Pass1Code`
  are the branches of the loop of `pass1()`, `EndPass1` the code between the
  passes, `Pass2*` the branches of `pass2()`.
* **RawMeaning** - what a program means as a raw image, as operators, without
  passes or tables: where its items may be placed (`IsPlacement`: one after
  another, except behind an `%org`), the value an operand stands for
  (`Meaning`, by Scopes), and the image (`Image`: each item's trytes at its
  place, later ones over earlier ones). Neither back end's code is translated
  here; both are held to it.
* **RawImage** - what assembling to a raw image promises, as a state machine of
  two steps: the program is laid out in one of the ways it allows, and becomes
  its image. Placements and images are constants of the module. RawBackend
  implements it; `Promise` is the refinement mapping (`addrs` after pass 1,
  `mem` at the end, with RawMeaning's `IsPlacement` and `Image`).
* **TObjBackend** - `tobj.c`, one turn of a loop a step, in three passes:
  pass 1 gives items a section and an offset and records labels, pass 2 declares
  sections and symbols to the builder and applies bindings, pass 3 writes
  section data and relocations. The builder (`syms`, `secs`, `relocs`) is
  three lists, as `tobj.c` uses it.
* **Driver** - `argparse.c`, `main.c`, `driver.c`: one argument a step, then
  loading, parsing, pass 1, the later passes and saving, with loading and saving that may fail.
  Parser and passes are steps that may report, or end the process: by `tasm_fail`, or, where
  the source could not be read, by touching memory that is not there. `cmdline.color` is any
  preference at first, for nothing initialises it.

Parser ends where the back ends begin: the items it stores are those `prog` of
RawBackend and TObjBackend is a sequence of (with predicates, lanes and the number of their
first token, which the back ends' models have no use for), and the
bound of three operands that InstrPath assumes is part of Parser's `TypeOK`, proved.

The `MC*` modules choose the programs and command lines for TLC. A definition
whose comment says "Mutation of X" is a form X would have if the code had a
plausible bug; no specification uses it, and it documents what each property
is there to find.

`error_count` is a variable of every model that reads it, with the guards of
`raw.c:37`, `tobj.c:633` and `driver.c:71` in place. `Counted(n) == 0` is what
`tasm_report_error` does to it (`diag.c:62-70`), in one definition: when the
code is fixed, that definition changes and the guards come to life.

## The runs

| Run | Question | Instances |
|---|---|---|
| `InstrPath` | Do size, encoding, immediate offset and relocations of an instruction agree? Does validation let an operand get lost, or an instruction vanish in silence? | every opcode, every list of up to three operands of six, three widths |
| `InstrForms`, `InstrJump` | Are the operand forms `instr.h` documents accepted, and is the width rule for `jmp` enforced? | the same; violated, see below |
| `RawBackend` | Does the raw back end deliver RawImage? Are labels resolved in their scope, stores kept in their space, errors reported, once? | every program of up to 5 items out of 5 about scopes, and of up to 3 out of 14 about layout and errors |
| `TObjBackend` | Do the three passes agree on sections, symbols, bindings and scopes? Does linking give the raw image? | up to 4 items about scopes, bindings, sections, and `%org` around relocated fields |
| `TObjInitialValue` | Is the "compiler happy" initial value ever stored? | the same; violated |
| `Driver` | Is every argument taken for what it is? Is an image saved only where one was made? | every command line of up to five out of nine arguments |
| `DriverErrors`, `DriverColor`, `DriverResults` | Do errors make the status non-zero, is `--color` honoured, does status 0 mean that the source was read and the output written? | every command line of up to four; violated |
| `Parser` | Is an item without a diagnostic what its tokens say? Does every source come to an end? Does an error stay on its line? What becomes of lost items? | every source of up to two tokens, and four long statements with any one token replaced, removed or put in, each followed by a second line |
| `Lexer` | Does it find the longest words and true locations? Do literals mean what their bytes say, and does each failure print something? | every text of up to three bytes out of 15, longer ones of the bytes that matter to comments, quotes, numbers, escapes |

What the properties of the passing runs say:

* `ReservedSpaceIsFilled`, `AddressFieldIsWhole`, `OneRelocationPerField`,
  `NoOperandIsLost`, `SilentOnlyForStrings`, `OnlyDocumentedForms` (InstrPath):
  what is written is as long as what was reserved; an address operand is
  encoded with all eight trytes at the offset relocations use; a field that
  stands for a label has one relocation or one report of an undefined symbol, and
  what is relocated is the operand the field came from; every operand is in the
  encoding; only instructions with string operands vanish without a
  diagnostic; and outside loads and stores only documented forms are emitted.
* `LabelsMeanTheirScope`, `ImplementsImage` (RawBackend): pass 2 finds itself in
  the scopes pass 1 recorded; the image is the promised one, under every
  arrangement of labels, duplicates, forward references and local labels
  before any global one.
* `StoresStayInExtent`, `NothingOverwritten`, `StoresFitImage`,
  `GapsAreReported`, `InstrDiagnosedOnce` (RawBackend): a store never leaves
  the space reserved for its item; without `%org` nothing is overwritten;
  without a *backward* `%org` everything falls inside the image (with one, it
  does not: `raw.c` allocates the address pass 1 ends at); a gap has been
  reported, unless its item is an instruction with a string operand, or a data directive
  with a string or a register (`%tryte 1, r0` stops after the first
  element in silence); a `%string` never stops half way in silence; no mistake in an instruction is reported twice (`raw.c:190`).
* `SectionsAgree`, `SectionsOnlyGrow` (TObjBackend): the section an item was
  placed in by number is the one its data goes to, and without `%org` data is appended in
  place, never rewritten.
* `BindingsHold`, `ConflictsAreReported`: a binding directive reaches its label
  from before or after it, from any scope it is visible in, and where two
  directives declare different bindings for a label, something is reported.
* `RelocsNameTheirLabel`, `LabelsRelocatedOrReported`, `LinksToRawImage`: each
  relocation names the label its operand means, and an operand that means none
  is looked up by its bare name: it gets an external, or a label of that name
  it cannot mean (a global one for a local operand, `tobj.c:408`); each label operand gets one or is reported; and applying them to a single
  section placed at 0 gives the image RawImage promises, so the two back ends
  agree with each other. How wide a relocation is, its type says, and the code has one type only, `TOBJ_RELOC_ABS`;
  that the linker, which is not in the repository, patches a whole address for it is assumed.
  Labels in data narrower than that (`%tryte a`) are left out of the comparison: the
  object does not tell how wide their fields are.
* `CommandLineIsMeant` (Driver): the loop over the arguments accepts exactly the
  well-formed command lines and hands over what they mean. The meaning is said without a loop:
  an argument is a value if the options directly before it that take one are odd in number, as
  in `-o --color -f tobj`, where `--color` is a file name and `tobj` a format.
  `DefaultColorIsAuto`: without `--color` diagnostics look as the terminal has it,
  whatever the uninitialised `cmdline.color` holds (only because `driver.c:44` decides anew).
  `NoNullIsSaved`: back end and driver decide apart, by `error_count`, whether
  there is an image and whether to save it; they agree, and would still if errors were counted.
* `NoTokenIsLost` (Parser): the two slots of lookahead neither lose a token nor
  show one twice; where the lexer failed, the parser sees the token before
  again (or, for the first two, memory nobody has written).
* `ReportedIffMalformed`: an item enters the buffer without a diagnostic exactly
  when the tokens taken for it are a sentence of the language that means that very
  item. `Sentences` says what the sentences are, without the parser's decisions.
* `LinesKeepApart`, `ItemsKeepTheirPlace`, `ParseEnds`: a broken statement does
  not run on into the next line, unless that line begins with a comma; items
  are numbered by position and in the order of the source, also
  after others were lost; and parsing ends whatever the source.
* `LongestWords`, `OnlyBlanksBetween`, `LocationsAreTrue` (Lexer): every token is
  the longest word at its place and an error is found only where no word begins;
  nothing but blanks and comments is skipped; line and column, counted byte by byte, are those
  of the offset.
* `IntsMeanTheirDigits`, `CharIsOneCharString`, `NoSilentLiteral` (Literals, on the
  lexemes the Lexer finds): the value of an integer is that of its digits
  modulo the machine word; a character literal decodes exactly when the same
  bytes as a string decode to one character, and to the same one; and a
  literal that does not decode says why, unless it is not UTF-8.

**Bounds, and why they are enough.** A scope is delimited by two global
labels; five items hold two scopes, a local label in each and a use in either,
or a duplicate of any of them, in every order. Layout errors accumulate from
one item to the next, so three items show any disagreement of an item's
extent with the place of its successor; the items cover each branch of
each loop, and each size class. Sections: leaving one and coming back takes
three directives and an item. InstrPath enumerates operand lists as long
as the longest valid one, and its operands represent each operand kind, a
whole and a narrow register and the one register with an extra rule (AZ).
Sources of Parser: two tokens reach every way to begin an item; each decision
depends on one token and the place, and the long statements visit every place,
so that one wrong, missing or extra token there makes every decision go wrong once, with
the rest of the line and another line after it to show how it goes on.
InitialCapacity is 1 instead of 8 so that the buffer grows, or fails to, within
one source. Texts of Lexer: a word's end is decided by two bytes at most, an
escape's inside a literal by six. IntModulus is 1000, small enough for five
digits to wrap; EscapeModulus is 10000, and no escape of the run reaches it.
In Driver five arguments (`MaxArgs`) hold two options with values and a file, or a chain of
four options of which every other one is a value; a step
reports nothing or once: only zero or not matters to the code.

**Fairness.** One liveness property is checked, `ParseEnds` (Parser), under weak
fairness of the whole next-state relation: the assembler is one process that waits for
nothing, so a step that can be taken is taken. No action is given fairness of its own.
That the loops of the passes and of the driver end needs no run: each is a `for` over
an array that nothing in its body makes longer.

**Deadlock** is not checked, since every run of the program ends.

## The proofs

TLAPS checks these for every value of the constants. The assumptions are those
the modules name: programs are sequences of well-typed items, the operands of
`%string` are strings (nothing enforces this: the back ends read the `str`
member of the operand's union without looking at its kind, and what happens
for another kind is undefined, so such programs are outside the models) and
those of `%section` are not (a section may be named by a string, whose text
`get_section_name` then compares; the models know a string by the characters it decodes to, which is not
enough to tell texts apart, so such programs are outside them too), garbage read from an integer member is some number
(`RawAssumption`, `TObjAssumption`); instructions have at most three operands
(the parser stops at three, `parser.c:295`) and a label may stand for at least
one address (`InstrPathAssumption`); a command line has at most `MaxArgs`
arguments, whatever that number is (`DriverAssumption`); a text is a sequence
of strings (`TextsAssumption`), a byte's value is below 256 and that of the backslash is 92, the indexes
of TSCS characters are below `TscsCount`, and the machine word of integers has an even number of values
(`LiteralsAssumption`); `0` is an integer the parser can read, and an opcode
that was not initialised is not called `if`, which no opcode is (`SourcesAssumption`).

* **LowerProofs** - lemmas about single instructions and items: sizes are
  numbers, the width inferred is a width, the immediate operand is an operand
  of the instruction and, but for it, a valid instruction has registers only
  (`OnlyOneIsNoRegister`), and `EncodingLength`: *for every valid instruction,
  the encoding built by lower.c has exactly the length sema.c computes*. The
  argument goes by format: sema.c's size is a sum over format and width,
  lower.c's encoding a concatenation of an opcode, `FieldCount` registers and an
  immediate. `SameEnclosing` turns the comparison of scope ids of both back
  ends into the meaning Scopes gives: two items have the same enclosing label
  exactly if no global label stands between them. `LeastExists` is used where
  the code takes the first of several.
* **InstrPathProofs** - all six invariants of InstrPath, among them
  `InstrPathReservedSpace` and `InstrPathAddressField`. None of them is
  inductive, for they say nothing before code is emitted. `IInv` adds what is known of
  the instruction at each stage: `PassesAgree` (the size measured is `InstrSize`, nothing is
  emitted and at most one error reported before the last pass),
  `EmittedIsEncoding` (what is emitted is the encoding of some value that the
  immediate operand can have, and the relocations and reports of undefined symbols are as many as the label operands)
  and `SilenceHasReason` (what was measured and not emitted was reported or has
  a string operand). The rest are facts about instructions, format by format:
  the position of the immediate in the encoding against `ImmOffset`, one
  operand at most that is not a register, a place for every operand. For
  `InstrPathOneRelocation` that one operand is the immediate (`LabelIsImmediate`), so that there is one
  label operand to relocate or none (`RelocateFacts`).
* **RawBackendProofs** - the raw back end. First its types and stores.
  `RawTypeOK`: every item gets an address, symbols name items, both loops stay inside the buffer and every
  store goes to an address. TypeOK is inductive; what takes work is that sizes
  are numbers (`ItemSizeType`, through the cardinality of the set of a
  string's characters) and that what each branch stores has a length.
  `RawStoresStayInExtent`, an action property, follows
  branch by branch: instructions by `EncodingLength`, data
  and strings because a prefix of the operands takes no more space than all.
  `RawStoresFitImage` and `RawNothingOverwritten` need to know where the extents
  lie. `LayoutInv` says it: every item begins where the one before it ends,
  unless that is a `%org` (`Packed`), and every address stored to is in the extent
  of an item already passed. Where the address never goes backward, the ends of
  the extents ascend (`Ascending`), so that all are inside the image, and
  without a `%org` no two share an address. `RawInstrDiagnosedOnce` comes from
  `DiagsInv`, which counts the reports of each pass apart.
  `RawGapsAreReported`: `GapsInv` says of each item pass 2 has passed that
  its extent is filled or it is `Accounted` for; it holds with a backward `%org` too, a store beyond the image counted as made. Trying to prove the
  property without `HasValuelessOperand` showed the silent gap of `%tryte 1, r0`.

  Then names and the refinement. `RawLabelsMeanTheirScope`: LabelsMeanTheirScope speaks of
  pass 2 only and of the symbol table through a lookup; what makes it true is
  what pass 1 put there. `ScopeInv` says so: both passes are, at every item,
  in the scope of the last global label before it (`ScopeIsTracked`); a symbol
  is a label already passed, under the scope that encloses *it*
  (`SymbolsAreLabels`); every label passed has a symbol (`LabelsAreSymbols`); and
  symbols are in program order (`SymbolsInOrder`), so that the first match is
  the first definition. The proof needs the reset of the scope in `EndPass1`:
  without it, that step fails. `RawImplementsImage`, `Spec => ImplementsImage`:
  the state maps to (`prog`, the addresses once pass 1 is over, the memory once
  pass 2 is). `ImageInv` adds to ScopeInv that the addresses given so far are the
  beginning of a placement (`Placed`) and that the memory is the `Overlay` of what the
  items passed so far mean (`Out`); each branch of pass 2 puts the `Trytes` of its
  item on top, for the value it resolves is the `Meaning` of the operand. The end of pass 1 is then
  a LayOut step, the end of pass 2 an Assemble step, and all others stutter.
* **TObjSectionProofs** - the object back end's sections and types.
  `TObjSectionsAgree`: pass 1 looks sections up by name
  and pass 2 enters them by number; `SectionInv` says that in pass 1 the
  numbers follow the order in which names first appear (`Numbering`), that
  pass 2 has entered a section for each number so far (`Entered`), and that writing data
  changes no section's name. `TObjTypeOK`: `TypeInv` adds the types of places, symbols,
  relocations and reports; that relocations refer to sections in the builder needs
  SectionInv. `TObjSectionsOnlyGrow`, an action property: `LayoutInv` says that without
  `%org` the items of a section lie one after another, however they are mixed
  with those of others (`LaidOut`; in pass 1 `Measured`, because the end of each
  section is kept while it is left), and that pass 3 has filled no section
  beyond an item still to come (`NotBeyond`). `FilledFits` is the counterpart of
  the raw back end's stores: every branch writes at most what was reserved,
  the strings that are written over one another included.
* **TObjProofs**, first half - its names. `ScopesInv`: all three passes track the same
  scopes, the third one only if all labels lie in sections, and the parents recorded are those scopes.
  `SymsInv`: labels and their symbols correspond one to one, at the same places.
  `BindInv`: what is known of a label is what the directives before pass 2's turn
  declare, unless something was reported. `RelocInv`: each relocation refers to
  what its operand means (`AllRefer`), and the label operands of the items passed are relocated or
  reported (`Settled`). From these, `TObjBindingsHold`,
  `TObjConflictsAreReported`, `TObjRelocsNameTheirLabel`,
  `TObjLabelsRelocatedOrReported`. Proving RelocsNameTheirLabel as it was
  first stated failed, and showed that the lookup by bare name finds
  global labels for local operands as well as externals.
* **TObjProofs**, second half - the two back ends against each other.
  `TObjLinksToRawImage`: for every program both accept and mean the same by
  (`Comparable`), the section of the object, linked at 0, is the image. Four
  things come together. Pass 1 puts each item where the one before it ends
  (`FollowInv`), so that in a comparable program no two items share a place
  (`OneAtEachPlace`). What pass 3 writes for an item stays where it was put, and around
  it there is only padding (`DataInv`). Each relocation is in the field of its
  operand (`PlacesInv`), and refers to the label that operand means
  (`AllRefer`). And, item by item, what is written with its labels filled in is what the item
  means (`ItemLinks`; for an instruction the field is found in the middle of
  the encoding, `FieldInEncoding`). The proof does not go through for
  programs in which a `%org` goes back over something: a relocation is patched even
  if its field has been written over since, and TLC finds the four items that show it
  (`word a`, `%org` into it, a string). Nor for a label in a `%tryte`, whose relocation would be
  patched over what follows: a relocated field must be as wide as its relocation
  (`RelocatedIsAddress`). `Comparable` leaves these out, and
  a family of programs with `%org` before and after relocated fields has joined the run.
* **ParserProofs** - for every source, every initial capacity and whatever
  uninitialised memory holds. `ParserTypeOK` (TypeOK strengthened by
  `TypeInv`, which says what operands and items are): no instruction ever has
  more than three operands. `ParserNoTokenIsLost`: NoTokenIsLost is not
  inductive, since a token that is repeated after a lexer error comes from the
  *other* slot; `SlotsOverlap` adds that with a single token in the lookahead
  the second slot still holds the same one. `ParserLinesKeepApart`: the actions are sorted into
  turns that begin an item, continue it, or leave it (`Turns`), each action is
  one of them (`StepIsOfThreeTurns`), and no place where an item has begun
  takes a newline and then goes on without a comma (`PlaceInv`).
  `ParserItemsKeepTheirPlace` (`BufferInv`): the first tokens of items only
  grow, whether or not the buffer finds room.
  `ParserReportedIffMalformed` has two halves. *Nothing wrong passes in silence*: until
  something is reported, what was taken reads as what the item says so far
  (`ReadInv`, one conjunct of `Reads` for each place; what the item cannot say yet is in
  `ItemInv`). *Nothing right is reported*: the grammar is also an automaton
  (`Follow`), which accepts every sentence (`SentencesRun`, by induction over the
  operands); what was taken leads to the state at which the parser stands
  (`Stands`), or, once something was reported, to one that no sentence goes
  through (`Hopeless`). `AutoInv` says so for every opcode the item may still get (`Ops`),
  since in `if (` and `name` the mnemonic is not known yet: where the name turns out to be
  no mnemonic, the opcode is uninitialised, and no sentence with any opcode but the name
  itself goes on from there. Reports come late in two ways. A decision that leaves the token alone, as
  `expect` does, is hopeless only with the token that is seen, which stays where
  it is; and one that looks ahead may pass several places before it takes
  anything, so that a place stands for several states (`NameRead`, `WidthRead`, `MarkRead`).
  The sentences are a recursion over operands: `CountRecursion` gives it values
  (`ListsExists`) and `CountInduction` goes along it.
* **LexerProofs** - for every text. Loops of the code are functions on
  their own earlier values here (`SkipFrom`, the location, the readers of strings and numbers).
  That such a function has values at all is an induction (`RankRecursion` along
  a rank that falls at every step, `CountRecursion` along a count up); both lemmas are about functions and
  sets, so that no operator has to be passed. `LexerInvariant`: the
  lexer stands at a true location where what it found last ends, and all it has found was right,
  with blanks before it and both ends at true locations (`LexerInv`). The proof
  goes by kind of word: `WordsAt` says in terms of the bytes which words can begin at
  a place, and each way to answer is compared with it. For literals,
  `EscapedNext` turns the skip over a byte after a backslash into the
  parity of the backslashes before it, so that the end found by skipping is the
  first quote that `IsQuoted` allows (`QuotedWord`). `LexerLongestWords`,
  `LexerOnlyBlanksBetween` and `LexerLocationsAreTrue` follow at once.
  `LiteralsNoSilentLiteral`: the parser of escapes, which reads several bytes at a step, never
  arrives at the last byte with a backslash. In a lexeme a backslash is last only
  after an odd number of others, and the reader never begins in the middle of an escape (`StringTold`, by
  induction along the string), provided no leading UTF-8 byte takes a backslash with it.
  `LiteralsCharIsOneCharString` goes through what the first character takes (`CharAtOutcomes`).
  `LiteralsIntsMeanTheirDigits`: the code's accumulation from the
  first digit on against place value from the last digit on. What has been accumulated times
  the weight of the rest, plus the value of the rest, is the same modulo
  IntModulus wherever the numeral is cut (`DigitMoved`, `AccumulatedIsValue`).
* **DriverProofs** - `DriverTypeOK`, `DriverCommandLineIsMeant`, `DriverDefaultColorIsAuto`,
  `DriverNoNullIsSaved`. The first half is about command lines without a driver: which
  arguments are values is told by the length of the run of options before them
  (`RunUnique`, `EvenIsNoValue`), so the loop, which skips two arguments at an option, stands at
  an argument that is none (`AfterOption`, `AfterNoOption`), and what it has seen grows by that
  argument alone (`SeenAfterOption`, `SeenAfterNoOption`). `Reading` says that what has been
  read so far is taken for what it means; it is refused only for a cause the whole command line
  then has (`RefusedForCause`). `Handing` is about what follows: the color and the
  image between the stages; `Counts` bounds the reports by the stage reached.

TLC has checked each of these inductive invariants on the instances of the runs before it was proved.

Only model-checked: liveness (`ParseEnds`), which TLAPS does not
prove. Every invariant and every action property of the passing runs is proved.

## Where code and documentation disagree

Each has a run that ends in a violation, whose trace shows it.

1. Errors are never counted (`diag.c:62-70`). The checks of `raw.c:37`,
   `tobj.c:633` and `driver.c:71` never fire: a run that printed errors writes
   its output and exits with 0, and the "assembly failed" message is dead code
   (`DriverErrors`).
2. `--color` is overridden by the driver (`driver.c:44`), so `always` and `never`
   have no effect (`DriverColor`).
3. A data element that is neither a literal nor a label is stored in an object
   as 12345, the value that was to make the compiler happy, without a
   diagnostic (`TObjInitialValue`).
4. `inc` and `dec` with an immediate are documented and rejected, as is a
   store of an immediate to an immediate address (`InstrForms`).
5. `jmp` through a narrow register is accepted and encoded as a whole one,
   although a message says it must not be (`InstrJump`).
6. The results of loading (`driver.c:55`) and of saving (`driver.c:72`) are not looked at:
   a source that could not be read is assembled all the same (`srcdoc.c:73` may have freed its text), and
   the status may be 0 then, as it is when the output could not be written. The test runner takes 0
   for a compiled source and goes on to load the output (`DriverResults`).

The models also show, without a text to hold them against: stores beyond the
image after a backward `%org`; `%org` of a label reads another member of the
operand's union; of two definitions of a label the first counts in silence;
a string that does not decode is reported by both passes; the operands of a
`%string` of several overwrite each other in objects; a relocation stays when
a `%org` back into its field has had it written over; an undefined local name
finds an external or a global label of the same name (`tobj.c:408`); a register
as a data element ends its directive in the raw image, in silence (`raw.c:77`).

Of the front end: a character no token begins with, and a literal without an end, are
never reported; the parser sees the token before once more instead
(`parser.c:18`), so that `a: @` reads as `a::`.
After an invalid mnemonic the opcode is an uninitialised variable
(`parser.c:245`). Predicates with a hyphen in their name (`pred-map.c:11`)
and the width names that are words (`width-map.c`) are in tables the lexer
cannot reach: no identifier holds a hyphen, and a width is looked up by an
integer's lexeme. A string whose bytes are not UTF-8 may
fail to decode in silence (the byte `C3` before two backslashes). The value of
a braced escape wraps at 32 bits. An operand that is missing at the end of a line takes the
newline, and a comma at the beginning of the next line continues the statement.

Of the driver: the usage line (`argparse.c:7`) offers several files, of which
`driver.c:46` refuses all but one, and `srcdoc.c:77` leaves the file open
when it was read.

## What is not modelled

Left out because nothing of the assembler depends on it: the dump and the
string builder (formatting only; `tasm_asr_dump` is called by nobody), the names of token types (`token.c`),
the text of diagnostics, the e2e runner.

Left out because it is input and output of whole files: loading a source
document and saving, except that each may fail without anyone noticing (Driver), and
`tobj_bldr_to_mem`, the final serialisation of an object by a library.

Left out because it is copied unread: source spans; predicates and lanes after
parsing. The tables of names are sets and functions in Parser, of lower-case
names (the tables ignore case; `if` alone is compared as written, `parser.c:229`), without the ones no identifier can be.
`tasm_asr_free` comes when nothing reads the buffer any more, and nobody calls
`tasm_asr_shrink`. Allocations outside the ASR buffer do not fail.
What memory that was read without being text holds is beyond the models; a token or an
opcode that was not initialised holds any value of a set of its type.
Addresses are natural numbers; the code's are machine words. tc48, tobj
and strlib are submodules that are not part of the repository: their effect is
modelled from the calls, and marked external in `PROJECT.json`.

## The plan

In order of importance; all but the last are done.

1. TasmAsr, Sema, Lower, InstrPath with its runs; LowerProofs, InstrPathProofs.
2. Scopes, RawMeaning, RawImage, RawBackend with its runs; RawBackendProofs.
3. TObjBackend with its runs; TObjSectionProofs, TObjProofs.
4. Driver with its runs; DriverProofs.
5. Parser over AsrBuf with its run; ParserProofs.
6. Lexer and Literals with their run; LexerProofs.
