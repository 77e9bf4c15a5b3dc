------------------------------- MODULE Parser -------------------------------
(***************************************************************************)
(* The parser (src/src/parser/parser.c): a recursive descent over tokens   *)
(* with two tokens of lookahead.  One action is one decision of the parse  *)
(* functions, which looks at the lookahead and takes at most one token;    *)
(* `at' is the place in the code where that decision is made.              *)
(*                                                                         *)
(* A source is the sequence of what the lexer finds in a file, a token or  *)
(* LexError for each of its calls, before the end.  tasm_lexer_next leaves *)
(* the caller's token alone when it fails and the parser looks at no       *)
(* result, so after LexError a lookahead slot keeps what it held.          *)
(***************************************************************************)
EXTENDS TasmAsr, AsrBuf, SequencesExt

CONSTANTS
  Sources,        \* the sources to parse
  Garbage,        \* what an uninitialised token may hold
  GarbageOpcodes, \* what an uninitialised opcode may hold
  ValidInts,      \* integer lexemes tasm_parse_lit_int accepts
  ValidChars      \* character lexemes tasm_parse_lit_char accepts

Tok(type, lexeme) == [type |-> type, lexeme |-> lexeme]

Punctuation == {"DOT", "COMMA", "COLON", "LPAREN", "RPAREN", "NEWLINE",
                "EXCLAMATION", "QUESTION", "PERCENT"}
Mark(type)  == Tok(type, "")                \* a token that has no lexeme
Eof         == Mark("EOF")
Ident(name) == Tok("IDENT", name)

Lexed      == {"IDENT", "IMM_INT", "IMM_CHAR", "IMM_STR"}
TokenTypes == Punctuation \union {"EOF"} \union Lexed
Lexeme     == {""} \union STRING
Token      == {Mark(type) : type \in Punctuation \union {"EOF"}}
              \union [type : Lexed, lexeme : Lexeme]
LexError   == Tok("error", "")              \* any result but TASM_LEXRES_OK

ASSUME SourcesAssumption ==
  /\ Sources \subseteq Seq((Token \ {Eof}) \union {LexError})
  /\ Garbage \subseteq Token
  /\ GarbageOpcodes \subseteq STRING \ {"if"}
  /\ "0" \in ValidInts

-----------------------------------------------------------------------------
(***************************************************************************)
(* The names the parser knows, in lower case: the tables of names do not   *)
(* look at the case, only "if" is compared as it is written (IF is an      *)
(* invalid mnemonic to the code, as any other name is here).  Registers    *)
(* and suffixes are some of each sort.  A register may be followed by a    *)
(* width suffix: a letter, and for all but w the number of a lane.         *)
(***************************************************************************)
ShortPreds == {"aw", "eq", "ne", "lt", "gt", "le", "ge", "zr", "nz", "cs", "cc",
               "bs", "bc", "vs", "vc", "vp", "vn"}
\* By name; of the long names, those without a hyphen can be identifiers.
Preds == [p \in ShortPreds \union {"always", "equal", "zero"} |->
            CASE p = "always" -> "aw" [] p = "equal" -> "eq" [] p = "zero" -> "zr" [] OTHER -> p]

Registers == {"rip", "rcf", "rsp", "raz", "r0", "r1"}

\* Widths have names too, but no integer lexeme is one.
WidthNames == [w \in {"6", "12", "24", "48"} |->
                 CASE w = "6" -> 6 [] w = "12" -> 12 [] w = "24" -> 24 [] w = "48" -> 48]

Lanes    == [s \in {"w", "h0", "h1", "q3", "t7"} |->
               CASE s = "w"  -> <<48, 0>> [] s = "h0" -> <<24, 0>> [] s = "h1" -> <<24, 1>>
                 [] s = "q3" -> <<12, 3>> [] s = "t7" -> <<6, 7>>]
BadLanes == [s \in {"w0", "h", "h5"} |-> IF s = "w0" THEN <<48, 0>> ELSE <<24, 0>>]
WholeRegister == <<48, 0>>

Lane(name, part) == [kind |-> "reg", id |-> name, width |-> part[1], lane |-> part[2]]
NoOperand        == Lane("", <<0, 0>>)      \* what "expected operand" yields

Part(suffix) == IF suffix \in DOMAIN Lanes THEN Lanes[suffix]
                ELSE IF suffix \in DOMAIN BadLanes THEN BadLanes[suffix]
                ELSE WholeRegister

NewItem == [kind |-> "none", id |-> 0, first |-> 0, name |-> "", is_local |-> FALSE,
            pred |-> "aw", opcode |-> "", width |-> NoWidth, wcfr |-> "none",
            dir |-> "word", operands |-> <<>>]

MaxOperands == 3
-----------------------------------------------------------------------------
VARIABLES
  source, pos,                    \* the lexer: what it finds, how much it has found
  lookahead, lookahead_count,     \* TasmParser
  at,                             \* where the parse functions are
  item, held,                     \* the item being read, the name it may begin with
  heard,                          \* history: every token taken
  reported                        \* whether the item being read was reported

lexVars == <<source, pos>>
vars    == <<source, pos, lookahead, lookahead_count, at, item, held, heard,
             reported, items, capacity, lost>>

Init ==
  /\ source \in Sources /\ pos = 0
  /\ \E one, two \in Garbage : lookahead = <<one, two>>
  /\ lookahead_count = 0
  /\ at = "item" /\ item = NewItem /\ held = ""
  /\ heard = <<>> /\ reported = FALSE
  /\ BufInit

(***************************************************************************)
(* The lookahead.  Every decision first fills both slots.                  *)
(***************************************************************************)
LexerNext == IF pos = Len(source) THEN Eof ELSE source[pos + 1]

FillLookahead ==
  /\ at \notin {"done", "failed"} /\ lookahead_count < 2
  /\ lookahead' = IF LexerNext = LexError THEN lookahead
                  ELSE [lookahead EXCEPT ![lookahead_count + 1] = LexerNext]
  /\ lookahead_count' = lookahead_count + 1
  /\ pos' = IF pos = Len(source) THEN pos ELSE pos + 1
  /\ UNCHANGED <<source, at, item, held, heard, reported, bufVars>>

Peeked      == lookahead[1]
Sees(types) == Peeked.type \in types

\* Decide at a place of the code, with both slots filled.
At(place) == at = place /\ lookahead_count = 2 /\ UNCHANGED lexVars

\* Mutation of Advance: the count is left alone, the slot refilled too late.
AdvanceWithoutCount ==
  /\ heard' = Append(heard, Peeked)
  /\ lookahead' = <<lookahead[2], lookahead[2]>>
  /\ lookahead_count' = 2

Advance ==
  /\ heard' = Append(heard, Peeked)
  /\ lookahead' = <<lookahead[2], lookahead[2]>>
  /\ lookahead_count' = 1

Stay == UNCHANGED <<heard, lookahead, lookahead_count>>

Goto(place) == at' = place

Report(when) == reported' = (reported \/ when)

\* Mutation of Expect: the token is taken, whatever it is.
ExpectAny(type, rejected) ==
  /\ Advance
  /\ Report(~Sees({type}) \/ rejected)

\* Take the expected token, or report and leave the other one where it is.
Expect(type, rejected) ==
  /\ IF Sees({type}) THEN Advance ELSE Stay
  /\ Report(~Sees({type}) \/ rejected)

Keep == UNCHANGED <<item, held, bufVars>>

-----------------------------------------------------------------------------
(***************************************************************************)
(* tasm_parse and tasm_parser_item.                                        *)
(***************************************************************************)
SkipNewline ==
  /\ At("item") /\ Sees({"NEWLINE"}) /\ Advance
  /\ Keep /\ UNCHANGED <<at, reported>>

\* Mutation of StopAtEof: the loop goes on for another item.
StopAtEofNever ==
  /\ At("item") /\ Sees({"EOF"}) /\ Stay /\ Keep /\ UNCHANGED <<at, reported>>

StopAtEof ==
  /\ At("item") /\ Sees({"EOF"}) /\ Goto("done")
  /\ Stay /\ Keep /\ UNCHANGED reported

\* An item begins with the next token taken.
Begin(kind) == item' = [NewItem EXCEPT !.kind = kind, !.first = Len(heard) + 1]

BeginDirective ==
  /\ At("item") /\ Sees({"PERCENT"}) /\ Advance
  /\ Begin("directive") /\ Goto("directiveName")
  /\ UNCHANGED <<held, reported, bufVars>>

BeginLocalLabel ==
  /\ At("item") /\ Sees({"DOT"}) /\ Advance
  /\ Begin("label") /\ Goto("labelName")
  /\ UNCHANGED <<held, reported, bufVars>>

BeginNamed ==
  /\ At("item") /\ Sees({"IDENT"}) /\ Advance
  /\ Begin("instr") /\ held' = Peeked.lexeme /\ Goto("named")
  /\ UNCHANGED <<reported, bufVars>>

\* tasm_fail: the process exits.
Unimplemented ==
  /\ At("item") /\ ~Sees({"NEWLINE", "EOF", "PERCENT", "DOT", "IDENT"})
  /\ Goto("failed") /\ Stay /\ Keep /\ UNCHANGED reported

LabelName ==
  /\ At("labelName") /\ Expect("IDENT", FALSE)
  /\ item' = [item EXCEPT !.name = Peeked.lexeme, !.is_local = TRUE]
  /\ Goto("labelColon") /\ UNCHANGED <<held, bufVars>>

LabelColon ==
  /\ At("labelColon") /\ Expect("COLON", FALSE) /\ Goto("add") /\ Keep

NamedIsLabel ==
  /\ At("named") /\ Sees({"COLON"}) /\ Advance
  /\ item' = [item EXCEPT !.kind = "label", !.name = held] /\ Goto("add")
  /\ UNCHANGED <<held, reported, bufVars>>
-----------------------------------------------------------------------------
(***************************************************************************)
(* parse_instruction.                                                      *)
(***************************************************************************)
NamedIsIf ==
  /\ At("named") /\ ~Sees({"COLON"}) /\ held = "if" /\ Goto("ifOpen")
  /\ Stay /\ Keep /\ UNCHANGED reported

IfOpen == At("ifOpen") /\ Expect("LPAREN", FALSE) /\ Goto("ifPred") /\ Keep

IfPred ==
  /\ At("ifPred") /\ Expect("IDENT", Peeked.lexeme \notin DOMAIN Preds)
  /\ item' = [item EXCEPT !.pred = IF Peeked.lexeme \in DOMAIN Preds
                                   THEN Preds[Peeked.lexeme] ELSE @]
  /\ Goto("ifClose") /\ UNCHANGED <<held, bufVars>>

IfClose == At("ifClose") /\ Expect("RPAREN", FALSE) /\ Goto("mnemonic") /\ Keep

\* An invalid mnemonic leaves the opcode uninitialised: it is another one, or
\* a number that is no opcode.
SetOpcode(name) ==
  \E op \in IF name \in Opcodes THEN {name} ELSE GarbageOpcodes \ {name} :
    item' = [item EXCEPT !.opcode = op]

NamedIsMnemonic ==
  /\ At("named") /\ ~Sees({"COLON"}) /\ held # "if"
  /\ SetOpcode(held) /\ Report(held \notin Opcodes) /\ Goto("width")
  /\ Stay /\ UNCHANGED <<held, bufVars>>

Mnemonic ==
  /\ At("mnemonic") /\ Expect("IDENT", Peeked.lexeme \notin Opcodes)
  /\ SetOpcode(Peeked.lexeme) /\ Goto("width") /\ UNCHANGED <<held, bufVars>>

HasWidth == Sees({"DOT"}) /\ lookahead[2].type = "IMM_INT"

WidthDot ==
  /\ At("width") /\ HasWidth /\ Advance /\ Goto("widthValue")
  /\ Keep /\ UNCHANGED reported

WidthValue ==
  /\ At("widthValue") /\ Advance /\ Goto("wcfr")
  /\ LET known == Peeked.lexeme \in DOMAIN WidthNames IN
       /\ item' = [item EXCEPT !.width = IF known THEN WidthNames[Peeked.lexeme] ELSE @]
       /\ Report(~known)
  /\ UNCHANGED <<held, bufVars>>

NoWidthGiven ==
  /\ At("width") /\ ~HasWidth /\ Goto("wcfr") /\ Stay /\ Keep /\ UNCHANGED reported

Wcfr ==
  /\ At("wcfr") /\ Goto("first")
  /\ \/ /\ Sees({"QUESTION", "EXCLAMATION"}) /\ Advance
        /\ item' = [item EXCEPT !.wcfr = IF Sees({"QUESTION"}) THEN "stat" ELSE "full"]
     \/ /\ ~Sees({"QUESTION", "EXCLAMATION"}) /\ Stay /\ UNCHANGED item
  /\ UNCHANGED <<held, reported, bufVars>>
-----------------------------------------------------------------------------
(***************************************************************************)
(* parse_directive, and the operands of instructions and directives.       *)
(***************************************************************************)
DirectiveName ==
  /\ At("directiveName") /\ Expect("IDENT", Peeked.lexeme \notin Directives)
  /\ item' = [item EXCEPT !.dir = IF Peeked.lexeme \in Directives THEN Peeked.lexeme ELSE @]
  /\ Goto("first") /\ UNCHANGED <<held, bufVars>>

NoOperands ==
  /\ At("first") /\ Sees({"NEWLINE", "EOF"}) /\ Goto("add")
  /\ Report(item.kind = "directive") /\ Stay /\ Keep

SomeOperands ==
  /\ At("first") /\ ~Sees({"NEWLINE", "EOF"}) /\ Goto("operand")
  /\ Stay /\ Keep /\ UNCHANGED reported

\* Mutation of NoRoom: one operand too many.
NoRoomAboveMax == item.kind = "instr" /\ Len(item.operands) > MaxOperands

NoRoom == item.kind = "instr" /\ Len(item.operands) >= MaxOperands

\* The operand is read; a fourth one of an instruction is read and dropped.
Push(op) ==
  /\ item' = IF NoRoom THEN item ELSE [item EXCEPT !.operands = Append(@, op)]
  /\ Goto("comma") /\ UNCHANGED <<held, bufVars>>

LocalOperand ==
  /\ At("operand") /\ Sees({"DOT"}) /\ Advance /\ Goto("localName")
  /\ Keep /\ UNCHANGED reported

LocalOperandName ==
  /\ At("localName") /\ Expect("IDENT", FALSE) /\ Push(Label(Peeked.lexeme, TRUE))

StringOperand ==
  /\ At("operand") /\ Sees({"IMM_STR"}) /\ Advance
  /\ Push([kind |-> "str", lexeme |-> Peeked.lexeme]) /\ UNCHANGED reported

\* A literal that does not parse is reported and read as 0.
Literal(valid) ==
  /\ Advance /\ Report(Peeked.lexeme \notin valid)
  /\ Push(Imm(IF Peeked.lexeme \in valid THEN Peeked ELSE Tok("IMM_INT", "0")))

IntOperand  == At("operand") /\ Sees({"IMM_INT"}) /\ Literal(ValidInts)
CharOperand == At("operand") /\ Sees({"IMM_CHAR"}) /\ Literal(ValidChars)

LabelOperand ==
  /\ At("operand") /\ Sees({"IDENT"}) /\ Peeked.lexeme \notin Registers /\ Advance
  /\ Push(Label(Peeked.lexeme, FALSE)) /\ UNCHANGED reported

RegisterOperand ==
  /\ At("operand") /\ Sees({"IDENT"}) /\ Peeked.lexeme \in Registers /\ Advance
  /\ held' = Peeked.lexeme /\ Goto("suffix") /\ UNCHANGED <<item, reported, bufVars>>

\* Whatever else is there is taken, a newline and the end of the file too.
ExpectedOperand ==
  /\ At("operand") /\ ~Sees({"DOT", "IMM_STR", "IMM_INT", "IMM_CHAR", "IDENT"})
  /\ Advance /\ Report(TRUE) /\ Push(NoOperand)

NoSuffix ==
  /\ At("suffix") /\ ~Sees({"COLON"}) /\ Stay
  /\ Push(Lane(held, WholeRegister)) /\ UNCHANGED reported

SuffixColon ==
  /\ At("suffix") /\ Sees({"COLON"}) /\ Advance /\ Goto("suffixName")
  /\ Keep /\ UNCHANGED reported

SuffixName ==
  /\ At("suffixName") /\ Expect("IDENT", Peeked.lexeme \notin DOMAIN Lanes)
  /\ Push(Lane(held, Part(Peeked.lexeme)))

\* Mutation of NextOperand: an operand too many is dropped without a word.
NextOperandSilent ==
  /\ At("comma") /\ Sees({"COMMA"}) /\ Advance /\ Goto("operand")
  /\ UNCHANGED reported /\ Keep

NextOperand ==
  /\ At("comma") /\ Sees({"COMMA"}) /\ Advance /\ Goto("operand")
  /\ Report(NoRoom) /\ Keep

LastOperand ==
  /\ At("comma") /\ ~Sees({"COMMA"}) /\ Goto("add") /\ Stay /\ Keep /\ UNCHANGED reported
-----------------------------------------------------------------------------
\* tasm_asr_add, and the next turn of tasm_parse.
AddItem ==
  /\ at = "add" /\ Goto("item")
  /\ AddInPlace(item) \/ AddGrowing(item) \/ AddFails
  /\ item' = NewItem /\ held' = "" /\ reported' = FALSE
  /\ UNCHANGED <<lexVars, lookahead, lookahead_count, heard>>

ParseItem ==
  \/ BeginDirective \/ BeginLocalLabel \/ BeginNamed \/ Unimplemented
  \/ LabelName \/ LabelColon \/ NamedIsLabel
ParseInstruction ==
  \/ NamedIsIf \/ IfOpen \/ IfPred \/ IfClose \/ NamedIsMnemonic \/ Mnemonic
  \/ WidthDot \/ WidthValue \/ NoWidthGiven \/ Wcfr
ParseOperands ==
  \/ DirectiveName \/ NoOperands \/ SomeOperands \/ NextOperand \/ LastOperand
  \/ LocalOperand \/ LocalOperandName \/ StringOperand \/ IntOperand \/ CharOperand
  \/ LabelOperand \/ RegisterOperand \/ ExpectedOperand
  \/ NoSuffix \/ SuffixColon \/ SuffixName

Next == FillLookahead \/ SkipNewline \/ StopAtEof \/ ParseItem \/ ParseInstruction
        \/ ParseOperands \/ AddItem

Spec     == Init /\ [][Next]_vars
\* The parser is one thread that no other one keeps from running.
FairSpec == Spec /\ WF_vars(Next)
-----------------------------------------------------------------------------
Places == {"item", "directiveName", "labelName", "labelColon", "named", "ifOpen",
           "ifPred", "ifClose", "mnemonic", "width", "widthValue", "wcfr", "first",
           "operand", "localName", "suffix", "suffixName", "comma", "add", "done", "failed"}

\* The variables have their types, and no instruction has more operands than
\* the array of TasmInstr has room for.
TypeOK ==
  /\ pos \in 0 .. Len(source)
  /\ lookahead \in Seq(Token) /\ Len(lookahead) = 2 /\ lookahead_count \in 0 .. 2
  /\ at \in Places /\ held \in Lexeme /\ heard \in Seq(Token) /\ reported \in BOOLEAN
  /\ capacity \in Nat /\ lost \in Nat
  /\ DOMAIN item = DOMAIN NewItem /\ item.kind \in {"none", "label", "instr", "directive"}
  /\ item.kind = "instr" => Len(item.operands) <= MaxOperands

\* What the parser has got from the lexer, the lookahead included.
Stream == heard \o SubSeq(lookahead, 1, lookahead_count)

\* The two slots of lookahead neither lose a token nor show one twice: the
\* tokens the parse functions take are the lexer's, in their order, then the
\* end of the file; in the place of a lexer error there is the token before it.
NoTokenIsLost ==
  /\ pos <= Len(Stream)
  /\ \A i \in 1 .. Len(Stream) :
       \/ i > pos /\ pos = Len(source) /\ Stream[i] = Eof
       \/ i <= pos /\ source[i] # LexError /\ Stream[i] = source[i]
       \/ i <= pos /\ source[i] = LexError /\ (i > 2 => Stream[i] = Stream[i - 1])

(***************************************************************************)
(* The language, as the token sequences that read as an item.              *)
(***************************************************************************)
OperandSentences(op) ==
  CASE op.kind = "reg" ->
         {<<Ident(op.id), Mark("COLON"), Ident(s)>> :
            s \in {s \in DOMAIN Lanes : Lanes[s] = <<op.width, op.lane>>}}
         \union IF <<op.width, op.lane>> = WholeRegister THEN {<<Ident(op.id)>>} ELSE {}
    [] op.kind = "imm"   -> {<<op.val>>}
    [] op.kind = "label" -> {IF op.is_local THEN <<Mark("DOT"), Ident(op.name)>>
                             ELSE <<Ident(op.name)>>}
    [] op.kind = "str"   -> {<<Tok("IMM_STR", op.lexeme)>>}

Joined(S, T) == {s \o t : s \in S, t \in T}

\* The sequences of start with operands after them, a comma between any two.
Followed(start, opnds) ==
  LET upTo[k \in 0 .. Len(opnds)] ==
        IF k = 0 THEN start
        ELSE Joined(IF k = 1 THEN start ELSE Joined(upTo[k - 1], {<<Mark("COMMA")>>}),
                    OperandSentences(opnds[k]))
  IN  upTo[Len(opnds)]

Predicated(pred) ==
  {<<Ident("if"), Mark("LPAREN"), Ident(name), Mark("RPAREN")>> :
     name \in {n \in DOMAIN Preds : Preds[n] = pred}}
  \union IF pred = "aw" THEN {<<>>} ELSE {}

Sized(width) ==
  IF width = NoWidth THEN {<<>>}
  ELSE {<<Mark("DOT"), Tok("IMM_INT", w)>> : w \in {w \in DOMAIN WidthNames : WidthNames[w] = width}}

Marked(wcfr) == {CASE wcfr = "none" -> <<>> [] wcfr = "stat" -> <<Mark("QUESTION")>>
                   [] wcfr = "full" -> <<Mark("EXCLAMATION")>>}

\* What comes before the operands.
Beginning(it) ==
  IF it.kind = "directive" THEN {<<Mark("PERCENT"), Ident(it.dir)>>}
  ELSE Joined(Joined(Joined(Predicated(it.pred), {<<Ident(it.opcode)>>}), Sized(it.width)),
              Marked(it.wcfr))

Sentences(it) ==
  CASE it.kind = "label" ->
         {(IF it.is_local THEN <<Mark("DOT")>> ELSE <<>>) \o <<Ident(it.name), Mark("COLON")>>}
    [] it.kind = "directive" /\ it.operands = <<>> -> {}
    [] OTHER -> Followed(Beginning(it), it.operands)

\* An item goes into the buffer unreported exactly when the tokens taken for
\* it are a sentence that means that item: expect() going on without the token
\* it wants, a dropped operand or a defaulted name never pass in silence.
ReportedIffMalformed ==
  at = "add" => (reported <=> SubSeq(heard, item.first, Len(heard)) \notin Sentences(item))

\* A statement that is cut short or wrong does not run on into the next line,
\* although an operand takes whatever token it finds: only a comma at the
\* beginning of that line continues it.
LinesKeepApart ==
  item.kind # "none" =>
    \A i \in item.first .. Len(heard) - 1 :
      heard[i].type = "NEWLINE" => heard[i + 1].type = "COMMA"

\* What is stored stays inside the array, numbered by position and in the
\* order of the source, also after items have been lost to a failed growth.
ItemsKeepTheirPlace ==
  /\ Len(items) <= capacity
  /\ \A i \in DOMAIN items :
       /\ items[i].id = i /\ items[i].first \in 1 .. Len(heard)
       /\ \A j \in 1 .. i - 1 : items[j].first < items[i].first
       /\ item.kind # "none" => items[i].first < item.first

\* However wrong the source, the parser comes to its end or gives up: no loop
\* turns without taking a token, and the end of the file ends them all.
ParseEnds == <>(at \in {"done", "failed"})
=============================================================================
