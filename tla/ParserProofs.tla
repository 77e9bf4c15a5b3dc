---------------------------- MODULE ParserProofs ----------------------------
(***************************************************************************)
(* Proofs about the parser, for every source, every initial capacity of    *)
(* the buffer and whatever uninitialised memory holds: the types of its    *)
(* state, that the lookahead neither loses nor repeats a token, that lines *)
(* are kept apart, that items keep their places in the buffer, and that an *)
(* item is reported if and only if its tokens are no sentence of it.       *)
(***************************************************************************)
EXTENDS Parser, SequenceTheorems, WellFoundedInduction, TLAPS

(***************************************************************************)
(* The types of operands and items, as the parser makes them.              *)
(***************************************************************************)
WholeRegisters == {Lane(name, WholeRegister) : name \in Lexeme}
RegisterParts  == {Lane(name, Part(suffix)) : name, suffix \in Lexeme}
ReadLiterals   == {Imm(tok) : tok \in Token \union {Tok("IMM_INT", "0")}}
ReadLabels     == {Label(name, is_local) : name \in Lexeme, is_local \in BOOLEAN}
ReadStrings    == {[kind |-> "str", lexeme |-> lexeme] : lexeme \in Lexeme}

ReadOperand == WholeRegisters \union RegisterParts \union {NoOperand} \union ReadLiterals
               \union ReadLabels \union ReadStrings

ParsedItem ==
  [kind : {"none", "label", "instr", "directive"}, id : Nat, first : Nat, name : Lexeme,
   is_local : BOOLEAN, pred : {"aw"} \union {Preds[p] : p \in DOMAIN Preds},
   opcode : Lexeme, width : {NoWidth} \union {WidthNames[w] : w \in DOMAIN WidthNames},
   wcfr : {"none", "stat", "full"}, dir : Directives, operands : Seq(ReadOperand)]

\* TypeOK does not say what operands and items are, which keeps it cheap to
\* evaluate; the proof needs it, to count operands and to find items again.
TypeInv ==
  /\ TypeOK
  /\ source \in Sources
  /\ item \in ParsedItem
  /\ items \in Seq(ParsedItem)

-----------------------------------------------------------------------------
\* What a token is.
LEMMA TokenFacts ==
  ASSUME NEW tok \in Token
  PROVE  tok.type \in TokenTypes /\ tok.lexeme \in Lexeme
<1>1. "" \in Lexeme
  BY DEF Lexeme
<1>2. CASE \E type \in Punctuation \union {"EOF"} : tok = Mark(type)
  <2>1. PICK type \in Punctuation \union {"EOF"} : tok = Mark(type)
    BY <1>2
  <2>2. tok.type = type /\ tok.lexeme = ""
    BY <2>1 DEF Mark, Tok
  <2> QED BY <1>1, <2>2 DEF TokenTypes
<1>3. CASE tok \in [type : Lexed, lexeme : Lexeme]
  BY <1>3 DEF TokenTypes
<1> QED BY <1>2, <1>3 DEF Token

\* Both lookahead slots always hold a token, be it garbage.
LEMMA SlotsHoldTokens ==
  ASSUME TypeOK
  PROVE  /\ lookahead[1] \in Token /\ lookahead[2] \in Token
         /\ Peeked \in Token /\ Peeked.lexeme \in Lexeme
         /\ lookahead = <<lookahead[1], lookahead[2]>>
<1>1. lookahead \in Seq(Token) /\ Len(lookahead) = 2
  BY DEF TypeOK
<1>2. lookahead[1] \in Token /\ lookahead[2] \in Token
  BY <1>1
<1>3. lookahead = <<lookahead[1], lookahead[2]>>
  BY <1>1
<1> QED BY <1>2, <1>3, TokenFacts DEF Peeked

\* A lexer error is no token.
LEMMA ErrorIsNoToken == LexError \notin Token /\ Eof \in Token /\ Eof # LexError
<1>1. LexError.type = "error" /\ Eof.type = "EOF" /\ Eof.lexeme = ""
  BY DEF LexError, Eof, Mark, Tok
<1>2. "error" \notin TokenTypes /\ "EOF" \in TokenTypes
  BY DEF TokenTypes, Punctuation, Lexed
<1>3. Eof \in Token
  BY <1>2 DEF Eof, Mark, Tok, Token, Lexeme
<1> QED BY <1>1, <1>2, <1>3, TokenFacts

\* What the lexer finds is a token or an error.
LEMMA LexerNextType ==
  ASSUME source \in Sources, pos \in 0 .. Len(source)
  PROVE  LexerNext \in Token \union {LexError}
<1>1. source \in Seq((Token \ {Eof}) \union {LexError})
  BY SourcesAssumption
<1>2. CASE pos = Len(source)
  BY <1>2, ErrorIsNoToken DEF LexerNext
<1>3. CASE pos # Len(source)
  <2>1. pos + 1 \in 1 .. Len(source)
    BY <1>1, <1>3
  <2>2. source[pos + 1] \in (Token \ {Eof}) \union {LexError}
    BY <1>1, <2>1
  <2> QED BY <1>3, <2>2 DEF LexerNext
<1> QED BY <1>2, <1>3

\* Taking a token, or not, leaves the lookahead and the history well typed.
LEMMA TakingType ==
  ASSUME TypeInv, Advance \/ Stay
  PROVE  /\ lookahead' \in Seq(Token) /\ Len(lookahead') = 2
         /\ lookahead_count' \in 0 .. 2 /\ heard' \in Seq(Token)
<1>1. heard \in Seq(Token) /\ lookahead \in Seq(Token) /\ Len(lookahead) = 2
      /\ lookahead_count \in 0 .. 2
  BY DEF TypeInv, TypeOK
<1>2. CASE Advance
  BY <1>1, <1>2, SlotsHoldTokens DEF Advance, TypeInv
<1>3. CASE Stay
  BY <1>1, <1>3 DEF Stay
<1> QED BY <1>2, <1>3

\* A new item is one.
LEMMA NewItemType == NewItem \in ParsedItem /\ NewItem.kind = "none"
<1>1. <<>> \in Seq(ReadOperand) /\ 0 \in Nat
  OBVIOUS
<1>2. "" \in Lexeme /\ "word" \in Directives
  BY DEF Lexeme, Directives, DataDirs
<1> QED BY <1>1, <1>2 DEF NewItem, ParsedItem

\* Every item has the fields of a new one.
LEMMA ItemFields ==
  ASSUME NEW it \in ParsedItem
  PROVE  DOMAIN it = DOMAIN NewItem
BY DEF NewItem, ParsedItem

-----------------------------------------------------------------------------
(***************************************************************************)
(* Every action but filling the lookahead and storing an item is a         *)
(* decision of the parse functions: it takes a token or none, and leaves   *)
(* the lexer and the buffer alone.                                         *)
(***************************************************************************)
Bounded == item.kind = "instr" => Len(item.operands) <= MaxOperands

Decides ==
  /\ lookahead_count = 2 /\ (Advance \/ Stay)
  /\ UNCHANGED <<source, pos, items, capacity, lost>>
  /\ at' \in Places /\ held' \in Lexeme /\ reported' \in BOOLEAN
  /\ item' \in ParsedItem /\ Bounded'

\* What an action may use of the types.
LEMMA Before ==
  ASSUME TypeInv
  PROVE  /\ item \in ParsedItem /\ Bounded /\ held \in Lexeme /\ reported \in BOOLEAN
         /\ at \in Places /\ heard \in Seq(Token) /\ Len(heard) \in Nat
         /\ Peeked \in Token /\ Peeked.lexeme \in Lexeme
BY SlotsHoldTokens DEF TypeInv, TypeOK, Bounded

\* expect() takes the token it sees or none.
LEMMA ExpectType ==
  ASSUME TypeInv, NEW type, NEW rejected, Expect(type, rejected)
  PROVE  (Advance \/ Stay) /\ reported' \in BOOLEAN
BY DEF Expect, Report

\* tasm_parse and tasm_parser_item decide.
LEMMA ItemDecides ==
  ASSUME TypeInv, SkipNewline \/ StopAtEof \/ ParseItem
  PROVE  Decides
<1> USE Before, NewItemType DEF Decides, Bounded, At, lexVars, bufVars, Keep, Goto, Places
<1>1. CASE SkipNewline
  BY <1>1 DEF SkipNewline
<1>2. CASE StopAtEof
  BY <1>2 DEF StopAtEof
<1>3. ASSUME NEW kind \in {"label", "instr", "directive"}, Begin(kind)
      PROVE  item' \in ParsedItem /\ Len(item'.operands) = 0 /\ item'.kind = kind
  <2>1. Len(heard) + 1 \in Nat
    OBVIOUS
  <2>2. Len(NewItem.operands) = 0
    BY DEF NewItem
  <2> QED BY <1>3, <2>1, <2>2 DEF Begin, ParsedItem
<1>4. CASE BeginDirective
  BY <1>3, <1>4 DEF BeginDirective
<1>5. CASE BeginLocalLabel
  BY <1>3, <1>5 DEF BeginLocalLabel
<1>6. CASE BeginNamed
  BY <1>3, <1>6 DEF BeginNamed, MaxOperands
<1>7. CASE Unimplemented
  BY <1>7 DEF Unimplemented
<1>8. CASE LabelName
  <2>1. item' \in ParsedItem /\ item'.kind = item.kind /\ item'.operands = item.operands
    BY <1>8 DEF LabelName, ParsedItem
  <2> QED BY <1>8, <2>1, ExpectType DEF LabelName
<1>9. CASE LabelColon
  BY <1>9, ExpectType DEF LabelColon
<1>10. CASE NamedIsLabel
  <2>1. item' \in ParsedItem /\ item'.kind = "label"
    BY <1>10 DEF NamedIsLabel, ParsedItem
  <2> QED BY <1>10, <2>1 DEF NamedIsLabel
<1> QED BY <1>1, <1>2, <1>4, <1>5, <1>6, <1>7, <1>8, <1>9, <1>10 DEF ParseItem

\* parse_instruction decides.
LEMMA InstructionDecides ==
  ASSUME TypeInv, ParseInstruction
  PROVE  Decides
<1> USE Before DEF Decides, Bounded, At, lexVars, bufVars, Keep, Goto, Places
<1>1. CASE NamedIsIf
  BY <1>1 DEF NamedIsIf
<1>2. CASE IfOpen
  BY <1>2, ExpectType DEF IfOpen
<1>3. CASE IfPred
  <2>1. item' \in ParsedItem /\ item'.kind = item.kind /\ item'.operands = item.operands
    BY <1>3 DEF IfPred, ParsedItem
  <2> QED BY <1>3, <2>1, ExpectType DEF IfPred
<1>4. CASE IfClose
  BY <1>4, ExpectType DEF IfClose
<1>5. ASSUME NEW name \in Lexeme, SetOpcode(name)
      PROVE  item' \in ParsedItem /\ item'.kind = item.kind /\ item'.operands = item.operands
  <2>1. PICK op \in IF name \in Opcodes THEN {name} ELSE GarbageOpcodes :
             item' = [item EXCEPT !.opcode = op]
    BY <1>5 DEF SetOpcode
  <2>2. op \in Lexeme
    BY SourcesAssumption DEF Lexeme
  <2> QED BY <2>1, <2>2 DEF ParsedItem
<1>6. CASE NamedIsMnemonic
  BY <1>5, <1>6 DEF NamedIsMnemonic, Report
<1>7. CASE Mnemonic
  BY <1>5, <1>7, ExpectType DEF Mnemonic
<1>8. CASE WidthDot
  BY <1>8 DEF WidthDot
<1>9. CASE WidthValue
  <2>1. item' \in ParsedItem /\ item'.kind = item.kind /\ item'.operands = item.operands
    BY <1>9 DEF WidthValue, ParsedItem
  <2> QED BY <1>9, <2>1 DEF WidthValue, Report
<1>10. CASE NoWidthGiven
  BY <1>10 DEF NoWidthGiven
<1>11. CASE Wcfr
  <2>1. item' \in ParsedItem /\ item'.kind = item.kind /\ item'.operands = item.operands
    BY <1>11 DEF Wcfr, ParsedItem
  <2> QED BY <1>11, <2>1 DEF Wcfr
<1> QED BY <1>1, <1>2, <1>3, <1>4, <1>6, <1>7, <1>8, <1>9, <1>10, <1>11 DEF ParseInstruction

\* An operand that is read is stored if there is room, and dropped otherwise.
LEMMA PushType ==
  ASSUME TypeInv, NEW op \in ReadOperand, Push(op)
  PROVE  /\ item' \in ParsedItem /\ Bounded' /\ at' = "comma" /\ held' = held
         /\ item'.kind = item.kind /\ item'.first = item.first
         /\ UNCHANGED <<items, capacity, lost>>
<1> USE Before DEF Bounded
<1>1. item.operands \in Seq(ReadOperand) /\ Len(item.operands) \in Nat
  BY DEF ParsedItem
<1>2. CASE NoRoom
  BY <1>2 DEF Push, Goto, bufVars
<1>3. CASE ~NoRoom
  <2> DEFINE more == Append(item.operands, op)
  <2>1. item' = [item EXCEPT !.operands = more]
    BY <1>3 DEF Push
  <2>2. more \in Seq(ReadOperand) /\ Len(more) = Len(item.operands) + 1
    BY <1>1
  <2>3. item.kind = "instr" => Len(more) <= MaxOperands
    BY <1>1, <1>3, <2>2 DEF NoRoom, MaxOperands
  <2> HIDE DEF more
  <2>4. item' \in ParsedItem /\ item'.operands = more
        /\ item'.kind = item.kind /\ item'.first = item.first
    BY <2>1, <2>2 DEF ParsedItem
  <2> QED BY <2>3, <2>4 DEF Push, Goto, bufVars
<1> QED BY <1>2, <1>3

\* The operands that are read are operands.
LEMMA OperandTypes ==
  /\ \A name \in Lexeme : Lane(name, WholeRegister) \in ReadOperand
  /\ \A name, suffix \in Lexeme : Lane(name, Part(suffix)) \in ReadOperand
  /\ NoOperand \in ReadOperand
  /\ \A tok \in Token \union {Tok("IMM_INT", "0")} : Imm(tok) \in ReadOperand
  /\ \A name \in Lexeme, is_local \in BOOLEAN : Label(name, is_local) \in ReadOperand
  /\ \A lexeme \in Lexeme : [kind |-> "str", lexeme |-> lexeme] \in ReadOperand
BY DEF ReadOperand, WholeRegisters, RegisterParts, ReadLiterals, ReadLabels, ReadStrings

\* parse_directive and parse_operand decide.
LEMMA OperandsDecide ==
  ASSUME TypeInv, ParseOperands
  PROVE  Decides
<1> USE Before DEF Decides, At, lexVars, bufVars, Keep, Goto, Places
<1>1. CASE DirectiveName
  <2>1. item' \in ParsedItem /\ item'.kind = item.kind /\ item'.operands = item.operands
    BY <1>1 DEF DirectiveName, ParsedItem
  <2> QED BY <1>1, <2>1, ExpectType DEF DirectiveName, Bounded
<1>2. CASE NoOperands
  BY <1>2 DEF NoOperands, Report, Bounded
<1>3. CASE SomeOperands
  BY <1>3 DEF SomeOperands, Bounded
<1>4. CASE NextOperand
  BY <1>4 DEF NextOperand, Report, Bounded
<1>5. CASE LastOperand
  BY <1>5 DEF LastOperand, Bounded
<1>6. CASE LocalOperand
  BY <1>6 DEF LocalOperand, Bounded
<1>7. CASE LocalOperandName
  <2>1. Label(Peeked.lexeme, TRUE) \in ReadOperand
    BY OperandTypes
  <2> QED BY <1>7, <2>1, PushType, ExpectType DEF LocalOperandName
<1>8. CASE StringOperand
  <2>1. [kind |-> "str", lexeme |-> Peeked.lexeme] \in ReadOperand
    BY OperandTypes
  <2> QED BY <1>8, <2>1, PushType DEF StringOperand
<1>9. ASSUME NEW valid, Literal(valid), At("operand")
      PROVE  Decides
  <2> DEFINE tok == IF Peeked.lexeme \in valid THEN Peeked ELSE Tok("IMM_INT", "0")
  <2>1. Imm(tok) \in ReadOperand
    BY OperandTypes
  <2>2. Push(Imm(tok)) /\ Advance /\ reported' \in BOOLEAN
    BY <1>9 DEF Literal, Report
  <2> HIDE DEF tok
  <2> QED BY <1>9, <2>1, <2>2, PushType
<1>10. CASE IntOperand
  BY <1>9, <1>10 DEF IntOperand
<1>11. CASE CharOperand
  BY <1>9, <1>11 DEF CharOperand
<1>12. CASE LabelOperand
  <2>1. Label(Peeked.lexeme, FALSE) \in ReadOperand
    BY OperandTypes
  <2> QED BY <1>12, <2>1, PushType DEF LabelOperand
<1>13. CASE RegisterOperand
  BY <1>13 DEF RegisterOperand, Bounded
<1>14. CASE ExpectedOperand
  BY <1>14, OperandTypes, PushType DEF ExpectedOperand, Report
<1>15. CASE NoSuffix
  <2>1. Lane(held, WholeRegister) \in ReadOperand
    BY OperandTypes
  <2> QED BY <1>15, <2>1, PushType DEF NoSuffix
<1>16. CASE SuffixColon
  BY <1>16 DEF SuffixColon, Bounded
<1>17. CASE SuffixName
  <2>1. Lane(held, Part(Peeked.lexeme)) \in ReadOperand
    BY OperandTypes
  <2> QED BY <1>17, <2>1, PushType, ExpectType DEF SuffixName
<1> QED BY <1>1, <1>2, <1>3, <1>4, <1>5, <1>6, <1>7, <1>8, <1>10, <1>11, <1>12, <1>13,
           <1>14, <1>15, <1>16, <1>17 DEF ParseOperands

-----------------------------------------------------------------------------
(***************************************************************************)
(* The types.                                                              *)
(***************************************************************************)

\* The parser starts with well-typed state, whatever its lookahead holds.
LEMMA InitType == Init => TypeInv
<1> SUFFICES ASSUME Init PROVE TypeInv
  OBVIOUS
<1>1. source \in Sources /\ source \in Seq((Token \ {Eof}) \union {LexError}) /\ pos = 0
  BY SourcesAssumption DEF Init
<1>2. pos \in 0 .. Len(source)
  BY <1>1
<1>3. PICK one, two \in Garbage : lookahead = <<one, two>>
  BY DEF Init
<1>4. lookahead \in Seq(Token) /\ Len(lookahead) = 2
  BY <1>3, SourcesAssumption
<1>5. item \in ParsedItem /\ item.kind = "none" /\ DOMAIN item = DOMAIN NewItem
  BY NewItemType DEF Init
<1>6. items \in Seq(ParsedItem) /\ capacity \in Nat /\ lost \in Nat
  <2>1. items = <<>> /\ capacity = 0 /\ lost = 0
    BY DEF Init, BufInit
  <2> QED BY <2>1
<1>7. at \in Places /\ held \in Lexeme /\ heard \in Seq(Token) /\ reported \in BOOLEAN
      /\ lookahead_count \in 0 .. 2
  <2>1. at = "item" /\ held = "" /\ heard = <<>> /\ reported = FALSE /\ lookahead_count = 0
    BY DEF Init
  <2>2. <<>> \in Seq(Token)
    OBVIOUS
  <2>3. at \in Places /\ held \in Lexeme
    BY <2>1 DEF Places, Lexeme
  <2>4. lookahead_count = 0
    BY DEF Init
  <2>5. heard \in Seq(Token) /\ reported \in BOOLEAN
    BY <2>1, <2>2
  <2> QED BY <2>3, <2>4, <2>5
<1> QED BY <1>1, <1>2, <1>4, <1>5, <1>6, <1>7 DEF TypeInv, TypeOK

\* Filling a slot puts a token into it or leaves what is there.
LEMMA FillType == TypeInv /\ FillLookahead => TypeInv'
<1> SUFFICES ASSUME TypeInv, FillLookahead PROVE TypeInv'
  OBVIOUS
<1>1. source \in Seq((Token \ {Eof}) \union {LexError}) /\ Len(source) \in Nat
  BY SourcesAssumption DEF TypeInv
<1>2. pos' \in 0 .. Len(source) /\ lookahead_count' \in 0 .. 2
  BY <1>1 DEF FillLookahead, TypeInv, TypeOK
<1>3. LexerNext \in Token \union {LexError}
  BY LexerNextType DEF TypeInv, TypeOK
<1>4. lookahead' \in Seq(Token) /\ Len(lookahead') = 2
  <2>1. lookahead \in Seq(Token) /\ Len(lookahead) = 2 /\ lookahead_count \in 0 .. 1
    BY DEF FillLookahead, TypeInv, TypeOK
  <2>2. CASE LexerNext = LexError
    BY <2>1, <2>2 DEF FillLookahead
  <2>3. CASE LexerNext # LexError
    <3>1. LexerNext \in Token /\ lookahead_count + 1 \in 1 .. 2
      BY <1>3, <2>1, <2>3
    <3>2. lookahead' = [lookahead EXCEPT ![lookahead_count + 1] = LexerNext]
      BY <2>3 DEF FillLookahead
    <3>3. \A k \in 1 .. 2 : [lookahead EXCEPT ![k] = LexerNext] \in Seq(Token)
                             /\ Len([lookahead EXCEPT ![k] = LexerNext]) = 2
      BY <2>1, <3>1
    <3> QED BY <3>1, <3>2, <3>3
  <2> QED BY <2>2, <2>3
<1> QED BY <1>2, <1>4 DEF FillLookahead, TypeInv, TypeOK, bufVars

\* A decision keeps the types.
LEMMA DecisionType == TypeInv /\ Decides => TypeInv'
<1> SUFFICES ASSUME TypeInv, Decides PROVE TypeInv'
  OBVIOUS
<1>1. DOMAIN item' = DOMAIN NewItem /\ item'.kind \in {"none", "label", "instr", "directive"}
  BY ItemFields DEF Decides, ParsedItem
<1> QED BY <1>1, TakingType DEF Decides, Bounded, TypeInv, TypeOK

\* Storing an item, or failing to, keeps the types.
LEMMA AddType == TypeInv /\ AddItem => TypeInv'
<1> SUFFICES ASSUME TypeInv, AddItem PROVE TypeInv'
  OBVIOUS
<1>1. item' \in ParsedItem /\ DOMAIN item' = DOMAIN NewItem /\ item'.kind = "none"
  BY NewItemType DEF AddItem
<1>2. items' \in Seq(ParsedItem)
  <2>1. items \in Seq(ParsedItem) /\ Len(items) + 1 \in Nat /\ item \in ParsedItem
    BY DEF TypeInv
  <2>2. [item EXCEPT !.id = Len(items) + 1] \in ParsedItem
    BY <2>1 DEF ParsedItem
  <2>3. Append(items, [item EXCEPT !.id = Len(items) + 1]) \in Seq(ParsedItem)
    BY <2>1, <2>2
  <2>4. items' = items \/ Store(item)
    BY DEF AddItem, AddInPlace, AddGrowing, AddFails
  <2> QED BY <2>1, <2>3, <2>4 DEF Store
<1>3. capacity' \in Nat /\ lost' \in Nat
  <2>1. capacity \in Nat /\ lost \in Nat /\ Grown(capacity) \in Nat
    BY InitialCapacityAssumption DEF TypeInv, TypeOK, Grown
  <2>2. capacity' \in {capacity, Grown(capacity)} /\ lost' \in {lost, lost + 1}
    BY DEF AddItem, AddInPlace, AddGrowing, AddFails
  <2> QED BY <2>1, <2>2
<1>4. at' \in Places /\ held' \in Lexeme
  BY DEF AddItem, Goto, Places, Lexeme
<1> QED BY <1>1, <1>2, <1>3, <1>4 DEF AddItem, lexVars, TypeInv, TypeOK

\* Filling, deciding, storing: there is nothing else the parser does.
LEMMA StepIsOfThree ==
  ASSUME TypeInv, [Next]_vars
  PROVE  FillLookahead \/ Decides \/ AddItem \/ UNCHANGED vars
BY ItemDecides, InstructionDecides, OperandsDecide DEF Next

\* A step keeps the types.
LEMMA StepType == TypeInv /\ [Next]_vars => TypeInv'
<1> SUFFICES ASSUME TypeInv, [Next]_vars PROVE TypeInv'
  OBVIOUS
<1>1. CASE UNCHANGED vars
  BY <1>1 DEF vars, TypeInv, TypeOK
<1> QED BY <1>1, StepIsOfThree, FillType, DecisionType, AddType

\* Whatever the source, the parser's variables keep their types; above all, no
\* instruction gets more operands than the array of TasmInstr has room for
\* (parser.c:295).
THEOREM ParserTypeOK == Spec => []TypeOK
<1>1. TypeInv => TypeOK
  BY DEF TypeInv
<1> QED BY <1>1, InitType, StepType, PTL DEF Spec

-----------------------------------------------------------------------------
(***************************************************************************)
(* The lookahead.                                                          *)
(***************************************************************************)

\* After the first token has been taken, one slot at least is filled, and an
\* empty second slot holds a copy of the first: if the lexer then fails, what
\* stays in the slot is the token before.
SlotsOverlap ==
  heard # <<>> => /\ lookahead_count >= 1
                  /\ lookahead_count = 1 => lookahead[2] = lookahead[1]

LookaheadInv == TypeInv /\ NoTokenIsLost /\ SlotsOverlap

\* A history followed by the filled slots, for each number of these.
LEMMA StreamIs ==
  ASSUME NEW h \in Seq(Token), NEW l \in Seq(Token), Len(l) = 2
  PROVE  /\ h \o SubSeq(l, 1, 0) = h
         /\ h \o SubSeq(l, 1, 1) = Append(h, l[1])
         /\ h \o SubSeq(l, 1, 2) = Append(Append(h, l[1]), l[2])
<1> DEFINE one == l[1]
           two == l[2]
<1>0. one \in Token /\ two \in Token
  OBVIOUS
<1>1. l[1] \in Token /\ l[2] \in Token /\ l = <<one, two>>
  <2>1. <<one, two>> \in Seq(Token) /\ Len(<<one, two>>) = 2
        /\ <<one, two>>[1] = one /\ <<one, two>>[2] = two
    BY <1>0
  <2>2. \A i \in 1 .. 2 : i = 1 \/ i = 2
    OBVIOUS
  <2>3. \A i \in 1 .. 2 : l[i] = <<one, two>>[i]
    BY <2>1, <2>2
  <2> QED BY <1>0, <2>1, <2>3, SeqEqual
<1>2. SubSeq(l, 1, 0) = <<>> /\ <<l[1]>> \in Seq(Token) /\ <<l[2]>> \in Seq(Token)
  BY <1>1
<1>3. SubSeq(l, 1, 1) = <<l[1]>>
  <2>1. SubSeq(l, 1, 1) = SubSeq(l, 1, 0) \o <<l[1]>>
    BY 1 - 1 = 0, SubSeqRecursiveSecond
  <2>2. <<>> \o <<l[1]>> = <<l[1]>>
    BY <1>2, ConcatEmptySeq
  <2> QED BY <1>2, <2>1, <2>2
<1>4. SubSeq(l, 1, 2) = l
  BY SubSeqFull
<1>5. h \o <<>> = h
  BY ConcatEmptySeq
<1>6. h \o <<l[1]>> = Append(h, l[1])
  BY <1>1
<1>7. h \o l = Append(Append(h, l[1]), l[2])
  <2> HIDE DEF one, two
  <2>1. h \o <<one, two>> = Append(Append(h, one), two)
    BY <1>0
  <2> QED BY <1>1, <2>1 DEF one, two
<1> QED BY <1>2, <1>3, <1>4, <1>5, <1>6, <1>7

\* What NoTokenIsLost says of a stream.
Follows(stream, src, p) ==
  /\ p <= Len(stream)
  /\ \A i \in 1 .. Len(stream) :
       \/ i > p /\ p = Len(src) /\ stream[i] = Eof
       \/ i <= p /\ src[i] # LexError /\ stream[i] = src[i]
       \/ i <= p /\ src[i] = LexError /\ (i > 2 => stream[i] = stream[i - 1])

\* A stream goes on following the source with the token the lexer finds next,
\* and when it finds none, with the token before.
LEMMA FollowsNext ==
  ASSUME NEW src, Len(src) \in Nat, NEW p \in 0 .. Len(src),
         NEW stream \in Seq(Token), NEW tok \in Token, Follows(stream, src, p),
         NEW q,
         \/ p = Len(src) /\ q = p /\ tok = Eof
         \/ /\ p < Len(src) /\ q = p + 1
            /\ src[q] # LexError => tok = src[q]
            /\ src[q] = LexError /\ Len(stream) >= 2 => tok = stream[Len(stream)]
  PROVE  Follows(Append(stream, tok), src, q)
<1> DEFINE n    == Len(stream)
           more == Append(stream, tok)
<1>1. n \in Nat /\ Len(more) = n + 1 /\ more[n + 1] = tok
      /\ \A i \in 1 .. n : more[i] = stream[i]
  OBVIOUS
<1>2. p <= n /\ \A i \in 1 .. n :
        \/ i > p /\ p = Len(src) /\ stream[i] = Eof
        \/ i <= p /\ src[i] # LexError /\ stream[i] = src[i]
        \/ i <= p /\ src[i] = LexError /\ (i > 2 => stream[i] = stream[i - 1])
  BY DEF Follows
<1> HIDE DEF n, more
<1>3. CASE p = Len(src) /\ q = p /\ tok = Eof
  <2>1. ASSUME NEW i \in 1 .. n
        PROVE  \/ i > q /\ q = Len(src) /\ more[i] = Eof
               \/ i <= q /\ src[i] # LexError /\ more[i] = src[i]
               \/ i <= q /\ src[i] = LexError /\ (i > 2 => more[i] = more[i - 1])
    BY <1>1, <1>2, <1>3
  <2>2. n + 1 > q /\ more[n + 1] = Eof
    BY <1>1, <1>2, <1>3
  <2>3. \A i \in 1 .. n + 1 : i \in 1 .. n \/ i = n + 1
    BY <1>1
  <2>4. q <= Len(more)
    BY <1>1, <1>2, <1>3
  <2> QED BY <1>1, <1>3, <2>1, <2>2, <2>3, <2>4 DEF Follows, more
<1>4. CASE p < Len(src)
  <2>1. n = p
    <3>1. n >= 1 => n <= p
      BY <1>1, <1>2, <1>4
    <3> QED BY <1>1, <1>2, <3>1
  <2>2. q = n + 1 /\ (src[q] # LexError => tok = src[q])
        /\ (src[q] = LexError /\ n >= 2 => tok = stream[n])
    BY <1>1, <1>4, <2>1 DEF n
  <2>3. ASSUME NEW i \in 1 .. n
        PROVE  \/ i <= q /\ src[i] # LexError /\ more[i] = src[i]
               \/ i <= q /\ src[i] = LexError /\ (i > 2 => more[i] = more[i - 1])
    BY <1>1, <1>2, <2>1, <2>2
  <2>4. \/ src[q] # LexError /\ more[q] = src[q]
        \/ src[q] = LexError /\ (q > 2 => more[q] = more[q - 1])
    BY <1>1, <2>2
  <2>5. \A i \in 1 .. n + 1 : i \in 1 .. n \/ i = q
    BY <1>1, <2>2
  <2> QED BY <1>1, <2>2, <2>3, <2>4, <2>5 DEF Follows, more
<1> QED BY <1>3, <1>4

\* At first there is no stream.
LEMMA InitLookahead == Init => LookaheadInv
<1> SUFFICES ASSUME Init PROVE LookaheadInv
  OBVIOUS
<1>1. TypeInv /\ pos = 0 /\ lookahead_count = 0 /\ heard = <<>>
  BY InitType DEF Init
<1>2. Stream = <<>>
  BY <1>1, StreamIs DEF Stream, TypeInv, TypeOK
<1> QED BY <1>1, <1>2 DEF LookaheadInv, SlotsOverlap, NoTokenIsLost

\* Two slots of tokens hold tokens.
LEMMA SlotTokens ==
  ASSUME NEW l \in Seq(Token), Len(l) = 2
  PROVE  l[1] \in Token /\ l[2] \in Token
OBVIOUS

\* Filling a slot puts one token at the end of the stream.
LEMMA FillLookaheadInv == LookaheadInv /\ FillLookahead => LookaheadInv'
<1> SUFFICES ASSUME LookaheadInv, FillLookahead PROVE LookaheadInv'
  OBVIOUS
<1> DEFINE n   == lookahead_count + 1
           tok == lookahead'[n]
<1>1. TypeInv /\ TypeInv' /\ NoTokenIsLost /\ SlotsOverlap
  BY FillType DEF LookaheadInv
<1>2. /\ heard' = heard /\ source' = source /\ lookahead_count' = n
      /\ lookahead_count \in {0, 1} /\ n \in {1, 2}
      /\ heard \in Seq(Token) /\ pos \in 0 .. Len(source)
      /\ lookahead \in Seq(Token) /\ Len(lookahead) = 2
      /\ lookahead' \in Seq(Token) /\ Len(lookahead') = 2
  BY <1>1 DEF FillLookahead, TypeInv, TypeOK
<1>3. tok \in Token /\ (LexerNext # LexError => tok = LexerNext)
  <2>1. lookahead'[1] \in Token /\ lookahead'[2] \in Token
    BY <1>2, SlotTokens
  <2>2. LexerNext # LexError => lookahead' = [lookahead EXCEPT ![n] = LexerNext]
    BY DEF FillLookahead
  <2>3. LexerNext # LexError => lookahead'[n] = LexerNext
    BY <1>2, <2>2
  <2> QED BY <1>2, <2>1, <2>3
<1>4. LexerNext = LexError => lookahead' = lookahead
  BY DEF FillLookahead
<1>5. \A k \in 1 .. 2 : k # n => lookahead'[k] = lookahead[k]
  BY <1>2, <1>4 DEF FillLookahead
<1> HIDE DEF tok
<1>6. Stream' = Append(Stream, tok) /\ Stream \in Seq(Token)
      /\ (lookahead_count = 1 => Len(Stream) >= 1 /\ Stream[Len(Stream)] = lookahead[1])
  <2>1. CASE lookahead_count = 0
    <3>1. Stream = heard /\ Stream' = Append(heard, lookahead'[1])
      BY <1>2, <2>1, StreamIs DEF Stream
    <3> QED BY <1>2, <2>1, <3>1 DEF tok
  <2>2. CASE lookahead_count = 1
    <3>1. Stream = Append(heard, lookahead[1])
          /\ Stream' = Append(Append(heard, lookahead'[1]), lookahead'[2])
      BY <1>2, <2>2, StreamIs DEF Stream
    <3>2. lookahead'[1] = lookahead[1]
      BY <1>2, <1>5, <2>2
    <3>3. lookahead[1] \in Token
      BY <1>2, SlotTokens
    <3> QED BY <1>2, <2>2, <3>1, <3>2, <3>3 DEF tok
  <2> QED BY <1>2, <2>1, <2>2
<1>7. Len(source) \in Nat
  BY <1>1, SourcesAssumption DEF TypeInv
<1>8. Len(Stream) >= 2 /\ LexerNext = LexError => tok = Stream[Len(Stream)]
  <2> SUFFICES ASSUME Len(Stream) >= 2, LexerNext = LexError
               PROVE  tok = Stream[Len(Stream)]
    OBVIOUS
  <2>1. heard # <<>>
    <3>1. heard = <<>> => Len(Stream) <= 1
      <4>1. SubSeq(lookahead, 1, lookahead_count) \in Seq(Token)
            /\ Len(SubSeq(lookahead, 1, lookahead_count)) = lookahead_count
        BY <1>2
      <4>2. Len(Stream) = Len(heard) + lookahead_count
        BY <1>2, <4>1 DEF Stream
      <4> QED BY <1>2, <4>2
    <3> QED BY <3>1
  <2>2. lookahead_count = 1 /\ lookahead[2] = lookahead[1]
    BY <1>1, <1>2, <2>1 DEF SlotsOverlap
  <2>3. tok = lookahead[2]
    BY <1>4, <2>2 DEF tok
  <2> QED BY <1>6, <2>2, <2>3
<1>9. \/ pos = Len(source) /\ pos' = pos /\ tok = Eof
      \/ /\ pos < Len(source) /\ pos' = pos + 1
         /\ source[pos'] # LexError => tok = source[pos']
         /\ source[pos'] = LexError /\ Len(Stream) >= 2 => tok = Stream[Len(Stream)]
  <2>1. CASE pos = Len(source)
    <3>1. LexerNext = Eof /\ LexerNext # LexError
      BY <2>1, ErrorIsNoToken DEF LexerNext
    <3>2. pos' = pos
      BY <2>1 DEF FillLookahead
    <3> QED BY <1>3, <2>1, <3>1, <3>2
  <2>2. CASE pos # Len(source)
    <3>1. pos' = pos + 1
      BY <2>2 DEF FillLookahead
    <3>2. LexerNext = source[pos + 1]
      BY <2>2 DEF LexerNext
    <3>3. pos < Len(source)
      BY <1>2, <1>7, <2>2
    <3> QED BY <1>3, <1>8, <3>1, <3>2, <3>3
  <2> QED BY <2>1, <2>2
<1>10. Follows(Stream', source, pos')
  <2>1. Follows(Stream, source, pos)
    BY <1>1 DEF NoTokenIsLost, Follows
  <2> DEFINE stream == Stream
             src    == source
             p      == pos
             q      == pos'
  <2>2. /\ Len(src) \in Nat /\ p \in 0 .. Len(src) /\ stream \in Seq(Token) /\ tok \in Token
        /\ Follows(stream, src, p)
    BY <1>2, <1>3, <1>6, <1>7, <2>1
  <2>3. \/ p = Len(src) /\ q = p /\ tok = Eof
        \/ /\ p < Len(src) /\ q = p + 1
           /\ src[q] # LexError => tok = src[q]
           /\ src[q] = LexError /\ Len(stream) >= 2 => tok = stream[Len(stream)]
    BY <1>9
  <2>4. Stream' = Append(stream, tok)
    BY <1>6
  <2> HIDE DEF stream, src, p, q
  <2>5. Follows(Append(stream, tok), src, q)
    BY <2>2, <2>3, FollowsNext
  <2> QED BY <2>4, <2>5 DEF src, q
<1>11. NoTokenIsLost'
  BY <1>2, <1>10 DEF NoTokenIsLost, Follows
<1>12. SlotsOverlap'
  BY <1>1, <1>2 DEF SlotsOverlap
<1> QED BY <1>1, <1>11, <1>12 DEF LookaheadInv

\* A decision moves a token from the lookahead to the history, or does not:
\* the stream is the same.
LEMMA DecisionStream ==
  ASSUME TypeInv, Decides
  PROVE  Stream' = Stream /\ UNCHANGED <<source, pos>>
<1>1. /\ heard \in Seq(Token) /\ lookahead \in Seq(Token) /\ Len(lookahead) = 2
      /\ lookahead_count = 2
      /\ lookahead[1] \in Token /\ lookahead[2] \in Token
  BY SlotsHoldTokens DEF TypeInv, TypeOK, Decides
<1>2. CASE Stay
  BY <1>2 DEF Stay, Stream, Decides
<1>3. CASE Advance
  <2>1. /\ heard' = Append(heard, lookahead[1]) /\ heard' \in Seq(Token)
        /\ lookahead' = <<lookahead[2], lookahead[2]>> /\ lookahead_count' = 1
    BY <1>1, <1>3 DEF Advance, Peeked
  <2>2. Stream = Append(Append(heard, lookahead[1]), lookahead[2])
    BY <1>1, StreamIs DEF Stream
  <2>3. lookahead' \in Seq(Token) /\ Len(lookahead') = 2 /\ lookahead'[1] = lookahead[2]
    BY <1>1, <2>1
  <2>4. heard' \o SubSeq(lookahead', 1, 1) = Append(heard', lookahead'[1])
    BY <2>1, <2>3, StreamIs
  <2>5. Stream' = Append(heard', lookahead'[1])
    BY <2>1, <2>4 DEF Stream
  <2> QED BY <2>1, <2>2, <2>3, <2>5 DEF Decides
<1> QED BY <1>2, <1>3 DEF Decides

\* Every step keeps the lookahead right.
LEMMA StepLookahead == LookaheadInv /\ [Next]_vars => LookaheadInv'
<1> SUFFICES ASSUME LookaheadInv, [Next]_vars PROVE LookaheadInv'
  OBVIOUS
<1>1. TypeInv /\ NoTokenIsLost /\ SlotsOverlap /\ TypeInv'
  BY StepType DEF LookaheadInv
<1>2. CASE FillLookahead
  BY <1>2, FillLookaheadInv
<1>3. CASE Decides
  <2>1. NoTokenIsLost'
    BY <1>1, <1>3, DecisionStream DEF NoTokenIsLost
  <2>2. SlotsOverlap'
    <3>1. CASE Advance
      <4>1. lookahead'[1] = lookahead'[2] /\ lookahead_count' = 1
        BY <3>1 DEF Advance
      <4> QED BY <4>1 DEF SlotsOverlap
    <3>2. CASE Stay
      BY <1>1, <3>2 DEF Stay, SlotsOverlap
    <3> QED BY <1>3, <3>1, <3>2 DEF Decides
  <2> QED BY <1>1, <2>1, <2>2 DEF LookaheadInv
<1>4. CASE AddItem \/ UNCHANGED vars
  <2>1. UNCHANGED <<source, pos, lookahead, lookahead_count, heard>>
    BY <1>4 DEF AddItem, lexVars, vars
  <2> QED BY <1>1, <2>1 DEF LookaheadInv, NoTokenIsLost, Stream, SlotsOverlap
<1> QED BY <1>1, <1>2, <1>3, <1>4, StepIsOfThree

\* For every source, what the parse functions take is what the lexer finds, in
\* its order and then the end of the file, each lexer error standing as a
\* repetition of the token before it (parser.c:16-39).
THEOREM ParserNoTokenIsLost == Spec => []NoTokenIsLost
<1>1. LookaheadInv => NoTokenIsLost
  BY DEF LookaheadInv
<1> QED BY <1>1, InitLookahead, StepLookahead, PTL DEF Spec

-----------------------------------------------------------------------------
(***************************************************************************)
(* Lines and places.                                                       *)
(***************************************************************************)

\* Where no item is being read.
Idle == {"item", "done", "failed"}

\* A newline that was taken as an operand is followed by a comma or by the end
\* of the item: the parser is right behind it, where it looks for the comma.
PlaceInv ==
  /\ item.kind = "none" <=> at \in Idle
  /\ item.kind # "none" => item.first \in 1 .. Len(heard)
  /\ at = "widthValue" => lookahead_count >= 1 /\ lookahead[1].type = "IMM_INT"
  /\ item.kind # "none" /\ heard[Len(heard)].type = "NEWLINE" => at \in {"comma", "add"}

\* A decision begins an item, goes on with one, or finds there is none.
Begins ==
  /\ at \in Idle /\ at' \notin Idle \union {"widthValue"}
  /\ Advance /\ ~Sees({"NEWLINE"})
  /\ item'.kind # "none" /\ item'.first = Len(heard) + 1

Continues ==
  /\ at \notin Idle \union {"add"} /\ at' \notin Idle
  /\ item'.kind # "none" /\ item'.first = item.first
  /\ \/ Stay /\ (at = "comma" => at' = "add")
     \/ Advance /\ (Sees({"NEWLINE"}) => at' = "comma") /\ (at = "comma" => Sees({"COMMA"}))
  /\ at' = "widthValue" => Advance /\ lookahead[2].type = "IMM_INT"

Idles == at \in Idle /\ at' \in Idle /\ item' = item

Turns == Begins \/ Continues \/ Idles

\* expect() takes no newline.
LEMMA ExpectTurn ==
  ASSUME NEW type, NEW rejected, Expect(type, rejected), type # "NEWLINE"
  PROVE  Stay \/ (Advance /\ ~Sees({"NEWLINE"}))
BY DEF Expect, Sees

\* An operand that is read leaves the item in its place.
LEMMA PushTurn ==
  ASSUME item \in ParsedItem, NEW op, Push(op)
  PROVE  item'.kind = item.kind /\ item'.first = item.first /\ at' = "comma"
BY DEF Push, Goto, ParsedItem

\* tasm_parser_item begins items.
LEMMA ItemTurns ==
  ASSUME TypeInv, PlaceInv, SkipNewline \/ StopAtEof \/ ParseItem
  PROVE  Turns
<1> USE Before DEF Turns, PlaceInv, At, Keep, Goto, Idle, Sees
<1>1. CASE SkipNewline
  BY <1>1 DEF SkipNewline, Idles
<1>2. CASE StopAtEof
  BY <1>2 DEF StopAtEof, Idles
<1>3. ASSUME NEW kind, Begin(kind)
      PROVE  item'.kind = kind /\ item'.first = Len(heard) + 1
  BY <1>3 DEF Begin, NewItem
<1>4. CASE BeginDirective
  BY <1>3, <1>4 DEF BeginDirective, Begins
<1>5. CASE BeginLocalLabel
  BY <1>3, <1>5 DEF BeginLocalLabel, Begins
<1>6. CASE BeginNamed
  BY <1>3, <1>6 DEF BeginNamed, Begins
<1>7. CASE Unimplemented
  BY <1>7 DEF Unimplemented, Idles
<1>8. CASE LabelName
  <2>1. item'.kind = item.kind /\ item'.first = item.first
    BY <1>8 DEF LabelName, ParsedItem
  <2> QED BY <1>8, <2>1, ExpectTurn DEF LabelName, Continues
<1>9. CASE LabelColon
  BY <1>9, ExpectTurn DEF LabelColon, Continues
<1>10. CASE NamedIsLabel
  <2>1. item'.kind = "label" /\ item'.first = item.first
    BY <1>10 DEF NamedIsLabel, ParsedItem
  <2> QED BY <1>10, <2>1 DEF NamedIsLabel, Continues
<1> QED BY <1>1, <1>2, <1>4, <1>5, <1>6, <1>7, <1>8, <1>9, <1>10 DEF ParseItem

\* parse_instruction goes on with the item.
LEMMA InstructionTurns ==
  ASSUME TypeInv, PlaceInv, ParseInstruction
  PROVE  Turns
<1> USE Before DEF Turns, Continues, PlaceInv, At, Keep, Goto, Idle, Sees
<1>1. CASE NamedIsIf
  BY <1>1 DEF NamedIsIf
<1>2. CASE IfOpen
  BY <1>2, ExpectTurn DEF IfOpen
<1>3. CASE IfPred
  <2>1. item'.kind = item.kind /\ item'.first = item.first
    BY <1>3 DEF IfPred, ParsedItem
  <2> QED BY <1>3, <2>1, ExpectTurn DEF IfPred
<1>4. CASE IfClose
  BY <1>4, ExpectTurn DEF IfClose
<1>5. ASSUME NEW name, SetOpcode(name)
      PROVE  item'.kind = item.kind /\ item'.first = item.first
  BY <1>5 DEF SetOpcode, ParsedItem
<1>6. CASE NamedIsMnemonic
  BY <1>5, <1>6 DEF NamedIsMnemonic
<1>7. CASE Mnemonic
  BY <1>5, <1>7, ExpectTurn DEF Mnemonic
<1>8. CASE WidthDot
  BY <1>8 DEF WidthDot, HasWidth
<1>9. CASE WidthValue
  <2>1. item'.kind = item.kind /\ item'.first = item.first
    BY <1>9 DEF WidthValue, ParsedItem
  <2>2. Peeked.type # "NEWLINE"
    BY <1>9 DEF WidthValue, Peeked
  <2> QED BY <1>9, <2>1, <2>2 DEF WidthValue
<1>10. CASE NoWidthGiven
  BY <1>10 DEF NoWidthGiven
<1>11. CASE Wcfr
  <2>1. item'.kind = item.kind /\ item'.first = item.first
    BY <1>11 DEF Wcfr, ParsedItem
  <2> QED BY <1>11, <2>1 DEF Wcfr
<1> QED BY <1>1, <1>2, <1>3, <1>4, <1>6, <1>7, <1>8, <1>9, <1>10, <1>11 DEF ParseInstruction

\* parse_directive and parse_operand go on with the item; only "expected
\* operand" takes a newline, and the comma is looked for next.
LEMMA OperandsTurn ==
  ASSUME TypeInv, PlaceInv, ParseOperands
  PROVE  Turns
<1> USE Before, PushTurn DEF Turns, Continues, PlaceInv, At, Keep, Goto, Idle, Sees
<1>1. CASE DirectiveName
  <2>1. item'.kind = item.kind /\ item'.first = item.first
    BY <1>1 DEF DirectiveName, ParsedItem
  <2> QED BY <1>1, <2>1, ExpectTurn DEF DirectiveName
<1>2. CASE NoOperands
  BY <1>2 DEF NoOperands
<1>3. CASE SomeOperands
  BY <1>3 DEF SomeOperands
<1>4. CASE NextOperand
  BY <1>4 DEF NextOperand
<1>5. CASE LastOperand
  BY <1>5 DEF LastOperand
<1>6. CASE LocalOperand
  BY <1>6 DEF LocalOperand
<1>7. CASE LocalOperandName
  BY <1>7, ExpectTurn DEF LocalOperandName
<1>8. CASE StringOperand
  BY <1>8 DEF StringOperand
<1>9. CASE IntOperand
  BY <1>9 DEF IntOperand, Literal
<1>10. CASE CharOperand
  BY <1>10 DEF CharOperand, Literal
<1>11. CASE LabelOperand
  BY <1>11 DEF LabelOperand
<1>12. CASE RegisterOperand
  BY <1>12 DEF RegisterOperand
<1>13. CASE ExpectedOperand
  BY <1>13 DEF ExpectedOperand
<1>14. CASE NoSuffix
  BY <1>14 DEF NoSuffix
<1>15. CASE SuffixColon
  BY <1>15 DEF SuffixColon
<1>16. CASE SuffixName
  BY <1>16, ExpectTurn DEF SuffixName
<1> QED BY <1>1, <1>2, <1>3, <1>4, <1>5, <1>6, <1>7, <1>8, <1>9, <1>10, <1>11, <1>12,
           <1>13, <1>14, <1>15, <1>16 DEF ParseOperands

\* The parser fills the lookahead, decides and turns, or stores an item.
LEMMA StepIsOfThreeTurns ==
  ASSUME TypeInv, PlaceInv, [Next]_vars
  PROVE  FillLookahead \/ (Decides /\ Turns) \/ AddItem \/ UNCHANGED vars
BY ItemDecides, InstructionDecides, OperandsDecide, ItemTurns, InstructionTurns, OperandsTurn
   DEF Next

\* What taking a token does to the history.
LEMMA Heard ==
  ASSUME NEW h \in Seq(Token), NEW tok \in Token
  PROVE  /\ Len(h) \in Nat /\ Len(Append(h, tok)) = Len(h) + 1
         /\ Append(h, tok)[Len(h) + 1] = tok
         /\ \A i \in 1 .. Len(h) : Append(h, tok)[i] = h[i]
OBVIOUS

LineInv  == TypeInv /\ PlaceInv /\ LinesKeepApart

\* There is nothing to keep apart at first.
LEMMA InitLine == Init => LineInv
<1> SUFFICES ASSUME Init PROVE LineInv
  OBVIOUS
<1>1. TypeInv /\ at = "item" /\ item.kind = "none"
  BY InitType, NewItemType DEF Init
<1> QED BY <1>1 DEF LineInv, PlaceInv, LinesKeepApart, Idle

\* Taking a token, or none, keeps PlaceInv and LinesKeepApart.
LEMMA TurnLine ==
  ASSUME LineInv, Decides, Turns
  PROVE  PlaceInv' /\ LinesKeepApart'
<1> USE DEF LineInv
<1>1. /\ heard \in Seq(Token) /\ Len(heard) \in Nat /\ Peeked \in Token
      /\ lookahead[1] \in Token /\ lookahead[2] \in Token /\ lookahead_count = 2
      /\ item.first \in Nat /\ item'.first \in Nat
  BY Before, SlotsHoldTokens DEF TypeInv, Decides, ParsedItem
<1>2. Advance => /\ lookahead_count' = 1 /\ lookahead'[1] = lookahead[2]
                 /\ Len(heard') = Len(heard) + 1 /\ heard'[Len(heard) + 1] = Peeked
                 /\ \A i \in 1 .. Len(heard) : heard'[i] = heard[i]
  BY <1>1, Heard DEF Advance
<1>3. Stay => heard' = heard /\ lookahead' = lookahead /\ lookahead_count' = lookahead_count
  BY DEF Stay
<1>4. CASE Begins
  <2>1. Advance /\ item'.first = Len(heard) + 1 /\ Peeked.type # "NEWLINE"
        /\ at' \notin Idle /\ at' # "widthValue" /\ item'.kind # "none"
    BY <1>4 DEF Begins, Sees
  <2>2. PlaceInv'
    BY <1>1, <1>2, <2>1 DEF PlaceInv
  <2>3. LinesKeepApart'
    BY <1>1, <1>2, <2>1 DEF LinesKeepApart
  <2> QED BY <2>2, <2>3
<1>5. CASE Continues /\ Stay
  <2>1. /\ item.kind # "none" /\ item'.kind # "none" /\ item'.first = item.first
        /\ at' \notin Idle /\ at # "add" /\ at' # "widthValue" /\ (at = "comma" => at' = "add")
    BY <1>1, <1>3, <1>5 DEF Continues, PlaceInv, Advance, Idle
  <2>2. PlaceInv'
    BY <1>3, <1>5, <2>1 DEF PlaceInv
  <2>3. LinesKeepApart'
    BY <1>3, <1>5, <2>1 DEF LinesKeepApart
  <2> QED BY <2>2, <2>3
<1>6. CASE Continues /\ Advance
  <2>1. /\ item.kind # "none" /\ item'.kind # "none" /\ item'.first = item.first
        /\ at' \notin Idle /\ at # "add"
        /\ (Peeked.type = "NEWLINE" => at' = "comma")
        /\ (at = "comma" => Peeked.type = "COMMA")
        /\ (at' = "widthValue" => lookahead[2].type = "IMM_INT")
    BY <1>1, <1>6 DEF Continues, PlaceInv, Advance, Stay, Idle, Sees
  <2>2. item.first \in 1 .. Len(heard)
    BY <2>1 DEF PlaceInv
  <2>3. PlaceInv'
    BY <1>1, <1>2, <1>6, <2>1, <2>2 DEF PlaceInv
  <2>4. heard[Len(heard)].type = "NEWLINE" => Peeked.type = "COMMA"
    BY <2>1 DEF PlaceInv
  <2>5. ASSUME NEW i \in item.first .. Len(heard), heard'[i].type = "NEWLINE"
        PROVE  heard'[i + 1].type = "COMMA"
    <3>1. CASE i = Len(heard)
      BY <1>1, <1>2, <1>6, <2>2, <2>4, <2>5, <3>1
    <3>2. CASE i # Len(heard)
      <4>1. i \in 1 .. Len(heard) /\ i + 1 \in 1 .. Len(heard)
            /\ i \in item.first .. Len(heard) - 1
        BY <1>1, <2>2, <3>2
      <4>2. heard[i].type = "NEWLINE" => heard[i + 1].type = "COMMA"
        BY <2>1, <4>1 DEF LinesKeepApart
      <4> QED BY <1>2, <1>6, <2>5, <4>1, <4>2
    <3> QED BY <3>1, <3>2
  <2>6. LinesKeepApart'
    BY <1>1, <1>2, <1>6, <2>1, <2>5 DEF LinesKeepApart
  <2> QED BY <2>3, <2>6
<1>7. CASE Idles
  <2>1. item'.kind = "none" /\ at' \in Idle
    BY <1>7 DEF Idles, PlaceInv
  <2> QED BY <2>1 DEF PlaceInv, LinesKeepApart, Idle
<1> QED BY <1>4, <1>5, <1>6, <1>7 DEF Decides, Turns

\* Every step keeps lines apart.
LEMMA StepLine == LineInv /\ [Next]_vars => LineInv'
<1> SUFFICES ASSUME LineInv, [Next]_vars PROVE LineInv'
  OBVIOUS
<1>1. TypeInv /\ PlaceInv /\ LinesKeepApart /\ TypeInv'
  BY StepType DEF LineInv
<1>2. CASE FillLookahead
  <2>1. UNCHANGED <<at, item, heard>>
    BY <1>2 DEF FillLookahead
  <2>2. at = "widthValue" => lookahead_count' >= 1 /\ lookahead'[1] = lookahead[1]
    <3>1. lookahead_count = 1 =>
            lookahead_count' = 2 /\ (\/ lookahead' = lookahead
                                    \/ lookahead' = [lookahead EXCEPT ![2] = LexerNext])
      BY <1>2 DEF FillLookahead
    <3>2. lookahead_count \in {0, 1} /\ lookahead \in Seq(Token) /\ Len(lookahead) = 2
      BY <1>1, <1>2 DEF FillLookahead, TypeInv, TypeOK
    <3>3. at = "widthValue" => lookahead_count = 1
      BY <1>1, <3>2 DEF PlaceInv
    <3> QED BY <3>1, <3>2, <3>3
  <2> QED BY <1>1, <2>1, <2>2 DEF LineInv, PlaceInv, LinesKeepApart
<1>3. CASE Decides /\ Turns
  BY <1>1, <1>3, TurnLine DEF LineInv
<1>4. CASE AddItem
  <2>1. at' = "item" /\ item'.kind = "none"
    BY <1>4, NewItemType DEF AddItem, Goto
  <2> QED BY <1>1, <2>1 DEF LineInv, PlaceInv, LinesKeepApart, Idle
<1>5. CASE UNCHANGED vars
  BY <1>1, <1>5 DEF vars, LineInv, PlaceInv, LinesKeepApart
<1> QED BY <1>1, <1>2, <1>3, <1>4, <1>5, StepIsOfThreeTurns

\* For every source, an item that takes the newline of its line, which only
\* "expected operand" does (parser.c:220), ends there or goes on with a comma.
THEOREM ParserLinesKeepApart == Spec => []LinesKeepApart
<1>1. LineInv => LinesKeepApart
  BY DEF LineInv
<1> QED BY <1>1, InitLine, StepLine, PTL DEF Spec

-----------------------------------------------------------------------------
(***************************************************************************)
(* The buffer.                                                             *)
(***************************************************************************)
BufferInv == LineInv /\ ItemsKeepTheirPlace

\* The buffer is empty at first.
LEMMA InitBuffer == Init => BufferInv
<1> SUFFICES ASSUME Init PROVE BufferInv
  OBVIOUS
<1>1. items = <<>> /\ capacity = 0
  BY DEF Init, BufInit
<1>2. Len(items) <= capacity /\ DOMAIN items = {}
  BY <1>1
<1> QED BY <1>2, InitLine DEF BufferInv, ItemsKeepTheirPlace

\* A turn adds nothing to the buffer, and an item that begins does so after
\* the stored ones.
LEMMA TurnBuffer ==
  ASSUME BufferInv, Decides, Turns
  PROVE  ItemsKeepTheirPlace'
<1>1. TypeInv /\ PlaceInv /\ ItemsKeepTheirPlace
  BY DEF BufferInv, LineInv
<1>2. /\ heard \in Seq(Token) /\ Len(heard) \in Nat /\ Peeked \in Token
      /\ UNCHANGED <<items, capacity>>
  BY <1>1, Before DEF Decides
<1>3. Len(heard') \in {Len(heard), Len(heard) + 1}
  BY <1>2, Heard DEF Decides, Advance, Stay
<1>4. \A i \in DOMAIN items : items[i].first \in 1 .. Len(heard)
  BY <1>1 DEF ItemsKeepTheirPlace
<1>5. item'.kind # "none" => \/ item'.first = Len(heard) + 1
                             \/ item'.first = item.first /\ item.kind # "none"
  BY <1>1 DEF Turns, Begins, Continues, Idles, PlaceInv
<1>6. \A i \in DOMAIN items :
        /\ items[i].first \in 1 .. Len(heard')
        /\ item'.kind # "none" => items[i].first < item'.first
  BY <1>1, <1>2, <1>3, <1>4, <1>5 DEF ItemsKeepTheirPlace
<1> QED BY <1>1, <1>2, <1>6 DEF ItemsKeepTheirPlace

\* An item that is stored finds its place, behind those before it; one that is
\* lost leaves the others in theirs.
LEMMA AddBuffer ==
  ASSUME BufferInv, AddItem
  PROVE  ItemsKeepTheirPlace'
<1> DEFINE n    == Len(items)
           last == [item EXCEPT !.id = n + 1]
<1>1. TypeInv /\ PlaceInv /\ ItemsKeepTheirPlace
  BY DEF BufferInv, LineInv
<1>2. /\ items \in Seq(ParsedItem) /\ item \in ParsedItem /\ n \in Nat /\ capacity \in Nat
      /\ DOMAIN items = 1 .. n
  BY <1>1 DEF TypeInv, TypeOK
<1>3. item.kind # "none" /\ item.first \in 1 .. Len(heard)
  BY <1>1 DEF AddItem, PlaceInv, Idle
<1>4. heard' = heard /\ item'.kind = "none"
  BY NewItemType DEF AddItem
<1>5. last \in ParsedItem /\ last.id = n + 1 /\ last.first = item.first
  <2>1. \A id \in Nat : LET it == [item EXCEPT !.id = id]
                       IN  it \in ParsedItem /\ it.id = id /\ it.first = item.first
    BY <1>2 DEF ParsedItem
  <2>2. n + 1 \in Nat
    BY <1>2
  <2> HIDE DEF n
  <2> QED BY <2>1, <2>2
<1>6. /\ n <= capacity
      /\ \A i \in 1 .. n : /\ items[i].id = i /\ items[i].first \in 1 .. Len(heard)
                           /\ \A j \in 1 .. i - 1 : items[j].first < items[i].first
                           /\ items[i].first < item.first
  BY <1>1, <1>2, <1>3 DEF ItemsKeepTheirPlace
<1>7. CASE items' = items /\ capacity' = capacity
  BY <1>1, <1>4, <1>7 DEF ItemsKeepTheirPlace
<1>8. CASE items' = Append(items, last) /\ n < capacity'
  <2> HIDE DEF last, n
  <2>1. /\ Len(items') = n + 1 /\ DOMAIN items' = 1 .. n + 1 /\ items'[n + 1] = last
        /\ \A i \in 1 .. n : items'[i] = items[i]
    BY <1>2, <1>5, <1>8 DEF n
  <2>2. capacity' \in Nat
    BY AddType DEF BufferInv, LineInv, TypeInv, TypeOK
  <2>3. Len(items') <= capacity'
    BY <1>2, <1>8, <2>1, <2>2
  <2>4. ASSUME NEW i \in 1 .. n
        PROVE  /\ items'[i].id = i /\ items'[i].first \in 1 .. Len(heard)
               /\ \A j \in 1 .. i - 1 : items'[j].first < items'[i].first
    <3>1. \A j \in 1 .. i - 1 : j \in 1 .. n
      BY <1>2
    <3> QED BY <1>6, <2>1, <3>1
  <2>5. /\ items'[n + 1].id = n + 1 /\ items'[n + 1].first \in 1 .. Len(heard)
        /\ \A j \in 1 .. n : items'[j].first < items'[n + 1].first
    BY <1>3, <1>5, <1>6, <2>1
  <2>6. \A i \in 1 .. n + 1 : i \in 1 .. n \/ i = n + 1
    BY <1>2
  <2>7. (n + 1) - 1 = n
    BY <1>2
  <2> QED BY <1>4, <2>1, <2>3, <2>4, <2>5, <2>6, <2>7 DEF ItemsKeepTheirPlace
<1>9. \/ items' = items /\ capacity' = capacity
      \/ items' = Append(items, last) /\ n < capacity'
  <2>1. CASE AddInPlace(item)
    <3>1. n < capacity
      BY <1>2, <2>1 DEF AddInPlace, IsFull
    <3>2. items' = Append(items, last) /\ capacity' = capacity
      BY <2>1 DEF AddInPlace, Store
    <3> QED BY <3>1, <3>2
  <2>2. CASE AddGrowing(item)
    <3>1. capacity' > capacity
      BY <1>2, <2>2, InitialCapacityAssumption DEF AddGrowing, Grown
    <3>2. n = capacity
      BY <1>2, <1>6, <2>2 DEF AddGrowing, IsFull
    <3> QED BY <2>2, <3>1, <3>2 DEF AddGrowing, Store
  <2>3. CASE AddFails
    BY <2>3 DEF AddFails
  <2> QED BY <2>1, <2>2, <2>3 DEF AddItem
<1> QED BY <1>7, <1>8, <1>9

\* Every step keeps the items in their places.
LEMMA StepBuffer == BufferInv /\ [Next]_vars => BufferInv'
<1> SUFFICES ASSUME BufferInv, [Next]_vars PROVE BufferInv'
  OBVIOUS
<1>1. LineInv /\ LineInv' /\ ItemsKeepTheirPlace /\ TypeInv /\ PlaceInv
  BY StepLine DEF BufferInv, LineInv
<1>2. CASE FillLookahead \/ UNCHANGED vars
  <2>1. UNCHANGED <<item, heard, items, capacity>>
    BY <1>2 DEF FillLookahead, bufVars, vars
  <2> QED BY <1>1, <2>1 DEF BufferInv, ItemsKeepTheirPlace
<1>3. CASE Decides /\ Turns
  BY <1>1, <1>3, TurnBuffer DEF BufferInv
<1>4. CASE AddItem
  BY <1>1, <1>4, AddBuffer DEF BufferInv
<1> QED BY <1>1, <1>2, <1>3, <1>4, StepIsOfThreeTurns

\* For every source and every initial capacity, with allocations failing
\* whenever they may, the buffer is never written past its capacity, and its
\* items are numbered by position and in the order of the source (buf.c:39-51).
THEOREM ParserItemsKeepTheirPlace == Spec => []ItemsKeepTheirPlace
<1>1. BufferInv => ItemsKeepTheirPlace
  BY DEF BufferInv
<1> QED BY <1>1, InitBuffer, StepBuffer, PTL DEF Spec
-----------------------------------------------------------------------------
(***************************************************************************)
(* Lists of operands: Followed is a recursion that counts up, and has      *)
(* values at all by induction on how far it has counted.                   *)
(***************************************************************************)
LEMMA LeastNat ==
  ASSUME NEW S \in SUBSET Nat, S # {}
  PROVE  \E k \in S : \A l \in S : k <= l
<1>1. PICK k \in S : \A l \in S : ~ (<<l, k>> \in OpToRel(<, Nat))
  BY NatLessThanWellFounded, WFMin
<1>2. ASSUME NEW l \in S, l < k PROVE FALSE
  <2>1. <<l, k>> \in Nat \X Nat /\ <<l, k>>[1] < <<l, k>>[2]
    BY <1>2
  <2>2. <<l, k>> \in OpToRel(<, Nat)
    BY <2>1, Zenon DEF OpToRel
  <2> QED BY <1>1, <2>2
<1> QED BY <1>2

\* What 0 has and every next number gets, all numbers up to n have.
LEMMA CountInduction ==
  ASSUME NEW n \in Nat, NEW S, 0 \in S, \A k \in 1 .. n : k - 1 \in S => k \in S
  PROVE  0 .. n \subseteq S
<1> SUFFICES ASSUME NEW bad \in 0 .. n, bad \notin S PROVE FALSE
  OBVIOUS
<1> DEFINE R == {k \in 0 .. n : k \notin S}
<1>1. R \subseteq Nat /\ R # {}
  OBVIOUS
<1>2. PICK k \in R : \A l \in R : k <= l
  <2> HIDE DEF R
  <2> QED BY <1>1, LeastNat
<1>3. k \in 1 .. n /\ k \notin S
  BY <1>2
<1>4. k - 1 \in 0 .. n /\ ~(k <= k - 1)
  BY <1>3
<1>5. k - 1 \in S
  BY <1>2, <1>4
<1> QED BY <1>3, <1>5

\* f starts with first, and each value is combined from the one before.
CountsUp(f, n, first, comb) == f[0] = first /\ \A k \in 1 .. n : f[k] = comb[k][f[k - 1]]

\* A function that is defined by counting up has a value at every count.
LEMMA CountRecursion ==
  ASSUME NEW n \in Nat, NEW V, NEW first \in V, NEW comb \in [1 .. n -> [V -> V]]
  PROVE  \E f \in [0 .. n -> V] : CountsUp(f, n, first, comb)
<1> DEFINE S == {m \in 0 .. n : \E f \in [0 .. m -> V] : CountsUp(f, m, first, comb)}
<1>1. 0 \in S
  <2>1. [k \in 0 .. 0 |-> first] \in [0 .. 0 -> V]
    OBVIOUS
  <2>2. CountsUp([k \in 0 .. 0 |-> first], 0, first, comb)
    BY DEF CountsUp
  <2> QED BY <2>1, <2>2
<1>2. ASSUME NEW m \in 1 .. n, m - 1 \in S PROVE m \in S
  <2>1. PICK f \in [0 .. m - 1 -> V] : CountsUp(f, m - 1, first, comb)
    BY <1>2
  <2> DEFINE g == [k \in 0 .. m |-> IF k = m THEN comb[m][f[m - 1]] ELSE f[k]]
  <2>2. m - 1 \in 0 .. m - 1 /\ f[m - 1] \in V /\ comb[m] \in [V -> V]
    OBVIOUS
  <2>3. comb[m][f[m - 1]] \in V
    BY <2>2
  <2>4. g \in [0 .. m -> V]
    BY <2>3
  <2>5. g[0] = first
    BY <2>1 DEF CountsUp
  <2>6. ASSUME NEW k \in 1 .. m PROVE g[k] = comb[k][g[k - 1]]
    <3>1. CASE k = m
      <4>1. g[m] = comb[m][f[m - 1]] /\ g[m - 1] = f[m - 1]
        OBVIOUS
      <4> QED BY <3>1, <4>1
    <3>2. CASE k # m
      <4>1. k \in 1 .. m - 1 /\ k - 1 \in 0 .. m - 1
        BY <3>2
      <4>2. g[k] = f[k] /\ g[k - 1] = f[k - 1]
        BY <4>1
      <4>3. f[k] = comb[k][f[k - 1]]
        BY <2>1, <4>1 DEF CountsUp
      <4> QED BY <4>2, <4>3
    <3> QED BY <3>1, <3>2
  <2> HIDE DEF g
  <2>7. CountsUp(g, m, first, comb)
    BY <2>5, <2>6 DEF CountsUp
  <2> QED BY <2>4, <2>7
<1>3. 0 .. n \subseteq S
  <2> HIDE DEF S
  <2> QED BY <1>1, <1>2, CountInduction
<1> QED BY <1>3

\* The words of sentences: lexemes, and those the parser knows.
Word == Lexeme \union {"if", "0"} \union DOMAIN Preds \union DOMAIN Lanes
        \union DOMAIN WidthNames \union Directives
Symbol == {Mark(type) : type \in Punctuation \union {"EOF"}} \union [type : Lexed, lexeme : Word]

\* What marks and names are.
LEMMA MarkFacts ==
  /\ \A type \in Punctuation \union {"EOF"} : Mark(type) \in Token
  /\ \A type \in Lexed, lexeme \in Lexeme : Tok(type, lexeme) \in Token
  /\ \A name \in Lexeme : Ident(name) \in Token
  /\ Token \subseteq Symbol
  /\ \A type \in Punctuation \union {"EOF"} : Mark(type) \in Symbol
  /\ \A type \in Lexed, word \in Word : Tok(type, word) \in Symbol
  /\ \A word \in Word : Ident(word) \in Symbol
  /\ \A type, lexeme : Tok(type, lexeme).type = type /\ Tok(type, lexeme).lexeme = lexeme
  /\ \A type : Mark(type).type = type
  /\ \A name : Ident(name).type = "IDENT" /\ Ident(name).lexeme = name
<1>1. \A type \in Punctuation \union {"EOF"} : Mark(type) \in Token
  BY DEF Token
<1>2. ASSUME NEW type \in Lexed, NEW lexeme \in Lexeme PROVE Tok(type, lexeme) \in Token
  BY DEF Token, Tok
<1>3. "IDENT" \in Lexed
  BY DEF Lexed
<1>4. \A type, lexeme : Tok(type, lexeme).type = type /\ Tok(type, lexeme).lexeme = lexeme
  BY DEF Tok
<1>5. Lexeme \subseteq Word
  BY DEF Word
<1>6. Token \subseteq Symbol
  BY <1>5 DEF Token, Symbol
<1>7. \A type \in Punctuation \union {"EOF"} : Mark(type) \in Symbol
  BY DEF Symbol
<1>8. ASSUME NEW type \in Lexed, NEW word \in Word PROVE Tok(type, word) \in Symbol
  BY DEF Symbol, Tok
<1>9. \A word \in Word : Ident(word) \in Symbol
  BY <1>3, <1>8 DEF Ident
<1>10. \A type : Mark(type).type = type
  BY <1>4 DEF Mark
<1>11. \A name : Ident(name).type = "IDENT" /\ Ident(name).lexeme = name
  BY <1>4 DEF Ident
<1>12. \A name \in Lexeme : Ident(name) \in Token
  BY <1>2, <1>3 DEF Ident
<1> QED BY <1>1, <1>2, <1>4, <1>6, <1>7, <1>8, <1>9, <1>10, <1>11, <1>12

\* A token is known by its type, and by its lexeme if that has one.
LEMMA TokenIs ==
  ASSUME NEW x \in Token
  PROVE  /\ x.type \notin Lexed => x = Mark(x.type)
         /\ x.type \in Lexed => x = Tok(x.type, x.lexeme) /\ x.lexeme \in Lexeme
         /\ x.type = "IDENT" => x = Ident(x.lexeme) /\ x.lexeme \in Lexeme
<1>1. CASE \E type \in Punctuation \union {"EOF"} : x = Mark(type)
  <2>1. PICK type \in Punctuation \union {"EOF"} : x = Mark(type)
    BY <1>1
  <2>2. x.type = type /\ type \notin Lexed /\ "IDENT" \in Lexed
    BY <2>1, MarkFacts DEF Punctuation, Lexed
  <2> QED BY <2>1, <2>2
<1>2. CASE x \in [type : Lexed, lexeme : Lexeme]
  <2>1. x = Tok(x.type, x.lexeme) /\ x.type \in Lexed /\ x.lexeme \in Lexeme
    BY <1>2 DEF Tok
  <2> QED BY <2>1 DEF Ident
<1> QED BY <1>1, <1>2 DEF Token

\* Sequences that are joined.
LEMMA ConcatFacts ==
  ASSUME NEW X
  PROVE  /\ <<>> \in Seq(X)
         /\ \A x \in X : <<x>> \in Seq(X)
         /\ \A x, y \in X : <<x, y>> \in Seq(X)
         /\ \A s, t \in Seq(X) : s \o t \in Seq(X)
         /\ \A s \in Seq(X) : s \o <<>> = s /\ <<>> \o s = s
         /\ \A s \in Seq(X), x \in X : s \o <<x>> = Append(s, x)
         /\ \A s, t, u \in Seq(X) : (s \o t) \o u = s \o (t \o u)
<1>1. <<>> \in Seq(X)
  OBVIOUS
<1>2. \A x \in X : <<x>> \in Seq(X)
  OBVIOUS
<1>3. \A x, y \in X : <<x, y>> \in Seq(X)
  OBVIOUS
<1>4. \A s, t \in Seq(X) : s \o t \in Seq(X)
  OBVIOUS
<1>5. \A s \in Seq(X) : s \o <<>> = s /\ <<>> \o s = s
  BY ConcatEmptySeq
<1>6. \A s \in Seq(X), x \in X : s \o <<x>> = Append(s, x)
  OBVIOUS
<1>7. \A s, t, u \in Seq(X) : (s \o t) \o u = s \o (t \o u)
  BY ConcatAssociative
<1> QED BY <1>1, <1>2, <1>3, <1>4, <1>5, <1>6, <1>7

\* Sets of sequences that are joined.
LEMMA JoinedHas ==
  \A S, T : \A s \in S, t \in T : s \o t \in Joined(S, T)
BY DEF Joined

\* What a joined sequence is made of.
LEMMA JoinedIs ==
  \A S, T, u : u \in Joined(S, T) <=> \E s \in S, t \in T : u = s \o t
BY DEF Joined

\* Joined sequences of symbols are sequences of symbols.
LEMMA JoinedType ==
  ASSUME NEW X, NEW S \in SUBSET Seq(X), NEW T \in SUBSET Seq(X)
  PROVE  Joined(S, T) \in SUBSET Seq(X)
<1>1. ASSUME NEW u \in Joined(S, T) PROVE u \in Seq(X)
  <2>1. PICK s \in S, t \in T : u = s \o t
    BY JoinedIs
  <2>2. s \in Seq(X) /\ t \in Seq(X)
    OBVIOUS
  <2> QED BY <2>1, <2>2, ConcatFacts
<1> QED BY <1>1

\* The empty sequence joined changes nothing.
LEMMA JoinedNone ==
  ASSUME NEW X, NEW S \in SUBSET Seq(X)
  PROVE  Joined(S, {<<>>}) = S /\ Joined({<<>>}, S) = S
<1> DEFINE E == {<<>>}
<1>1. \A s \in S : s \o <<>> = s /\ <<>> \o s = s
  BY ConcatFacts
<1>2. <<>> \in E /\ \A e \in E : e = <<>>
  OBVIOUS
<1> HIDE DEF E
<1>3. ASSUME NEW u PROVE u \in Joined(S, E) <=> u \in S
  <2>1. u \in Joined(S, E) <=> \E s \in S, e \in E : u = s \o e
    BY JoinedIs
  <2> QED BY <1>1, <1>2, <2>1
<1>4. ASSUME NEW u PROVE u \in Joined(E, S) <=> u \in S
  <2>1. u \in Joined(E, S) <=> \E e \in E, s \in S : u = e \o s
    BY JoinedIs
  <2> QED BY <1>1, <1>2, <2>1
<1>5. Joined(S, E) = S /\ Joined(E, S) = S
  BY <1>3, <1>4
<1> QED BY <1>5 DEF E

\* Three names in a row.
LEMMA ThreeType ==
  ASSUME NEW X
  PROVE  /\ \A x, y, z \in X : <<x, y, z>> \in Seq(X) /\ <<x, y, z>> = <<x, y>> \o <<z>>
         /\ \A x, y, z, w \in X : <<x, y, z, w>> \in Seq(X)
                                  /\ <<x, y, z, w>> = <<x, y, z>> \o <<w>>
<1>1. \A x, y, z \in X : <<x, y, z>> \in Seq(X) /\ <<x, y, z>> = <<x, y>> \o <<z>>
  OBVIOUS
<1>2. \A x, y, z, w \in X : <<x, y, z, w>> \in Seq(X) /\ <<x, y, z, w>> = <<x, y, z>> \o <<w>>
  OBVIOUS
<1> QED BY <1>1, <1>2

\* What the parser knows, as words; the widths have a width and the lanes are
\* pairs.
LEMMA TableFacts ==
  /\ \A n \in DOMAIN Preds : n \in Word
  /\ \A s \in DOMAIN Lanes : s \in Word /\ Lanes[s] = <<Lanes[s][1], Lanes[s][2]>>
                             /\ Lanes[s] # <<0, 0>>
  /\ \A w \in DOMAIN WidthNames : w \in Word /\ WidthNames[w] # NoWidth
  /\ \A d \in Directives : d \in Word
  /\ \A n \in Lexeme : n \in Word
  /\ "if" \in Word /\ "0" \in Word
<1>1. \A w \in DOMAIN WidthNames : WidthNames[w] # NoWidth
  BY DEF WidthNames, NoWidth
<1>2. ASSUME NEW s \in DOMAIN Lanes
      PROVE  Lanes[s] = <<Lanes[s][1], Lanes[s][2]>> /\ Lanes[s] # <<0, 0>>
  <2>1. Lanes[s] \in {<<48, 0>>, <<24, 0>>, <<24, 1>>, <<12, 3>>, <<6, 7>>}
    BY DEF Lanes
  <2> QED BY <2>1
<1> QED BY <1>1, <1>2 DEF Word

\* What the operands are.
IsOperand(op) ==
  \/ \E name \in Lexeme : op = Lane(name, WholeRegister)
  \/ \E name, suffix \in Lexeme : op = Lane(name, Part(suffix))
  \/ op = Lane("", <<0, 0>>)
  \/ \E tok \in Token \union {Tok("IMM_INT", "0")} : op = Imm(tok)
  \/ \E name \in Lexeme, is_local \in BOOLEAN : op = Label(name, is_local)
  \/ \E lexeme \in Lexeme : op = [kind |-> "str", lexeme |-> lexeme]

\* Every operand that is read is of one of these sorts.
LEMMA OperandIs ==
  ASSUME NEW op \in ReadOperand
  PROVE  IsOperand(op)
<1>1. op \in WholeRegisters => \E name \in Lexeme : op = Lane(name, WholeRegister)
  BY DEF WholeRegisters
<1>2. op \in RegisterParts => \E name, suffix \in Lexeme : op = Lane(name, Part(suffix))
  BY DEF RegisterParts
<1>3. op \in ReadLiterals => \E tok \in Token \union {Tok("IMM_INT", "0")} : op = Imm(tok)
  BY DEF ReadLiterals
<1>4. op \in ReadLabels => \E name \in Lexeme, is_local \in BOOLEAN : op = Label(name, is_local)
  BY DEF ReadLabels
<1>5. op \in ReadStrings => \E lexeme \in Lexeme : op = [kind |-> "str", lexeme |-> lexeme]
  BY DEF ReadStrings
<1> QED BY <1>1, <1>2, <1>3, <1>4, <1>5 DEF ReadOperand, NoOperand, IsOperand

\* An operand's sentences are of symbols.
LEMMA OperandSentencesType ==
  ASSUME NEW op \in ReadOperand
  PROVE  OperandSentences(op) \in SUBSET Seq(Symbol)
<1> USE MarkFacts, TableFacts
<1>1. Mark("COLON") \in Symbol /\ Mark("DOT") \in Symbol
  BY DEF Punctuation
<1>2. ASSUME NEW name \in Lexeme, NEW part, op = Lane(name, part)
      PROVE  OperandSentences(op) \in SUBSET Seq(Symbol)
  <2>1. op.kind = "reg" /\ op.id = name
    BY <1>2 DEF Lane
  <2>2. \A s \in DOMAIN Lanes : <<Ident(name), Mark("COLON"), Ident(s)>> \in Seq(Symbol)
    BY <1>1, ThreeType
  <2>3. <<Ident(name)>> \in Seq(Symbol)
    BY ConcatFacts
  <2> QED BY <2>1, <2>2, <2>3 DEF OperandSentences
<1>3. ASSUME NEW tok \in Token \union {Tok("IMM_INT", "0")}, op = Imm(tok)
      PROVE  OperandSentences(op) \in SUBSET Seq(Symbol)
  <2>1. op.kind = "imm" /\ op.val = tok
    BY <1>3 DEF Imm
  <2>2. tok \in Symbol
    BY DEF Lexed
  <2> QED BY <2>1, <2>2 DEF OperandSentences
<1>4. ASSUME NEW name \in Lexeme, NEW is_local \in BOOLEAN, op = Label(name, is_local)
      PROVE  OperandSentences(op) \in SUBSET Seq(Symbol)
  <2>1. op.kind = "label" /\ op.name = name
    BY <1>4 DEF Label
  <2>2. <<Mark("DOT"), Ident(name)>> \in Seq(Symbol) /\ <<Ident(name)>> \in Seq(Symbol)
    BY <1>1, ConcatFacts
  <2> QED BY <2>1, <2>2 DEF OperandSentences
<1>5. ASSUME NEW lexeme \in Lexeme, op = [kind |-> "str", lexeme |-> lexeme]
      PROVE  OperandSentences(op) \in SUBSET Seq(Symbol)
  <2>1. op.kind = "str" /\ op.lexeme = lexeme
    BY <1>5
  <2>2. Tok("IMM_STR", lexeme) \in Symbol
    BY DEF Lexed
  <2> QED BY <2>1, <2>2 DEF OperandSentences
<1>6. "" \in Lexeme
  BY DEF Lexeme
<1>8. CASE \E name, suffix \in Lexeme : op = Lane(name, Part(suffix))
  <2>1. PICK name \in Lexeme, suffix \in Lexeme : op = Lane(name, Part(suffix))
    BY <1>8
  <2> QED BY <1>2, <2>1
<1>9. IsOperand(op)
  BY OperandIs
<1> QED BY <1>2, <1>3, <1>4, <1>5, <1>6, <1>8, <1>9 DEF IsOperand

\* The parts of a beginning.
Named(it) == Joined(Predicated(it.pred), {<<Ident(it.opcode)>>})

\* The beginning of an item, and its parts, are sequences of symbols.
LEMMA BeginningType ==
  ASSUME NEW it \in ParsedItem
  PROVE  /\ Predicated(it.pred) \in SUBSET Seq(Symbol)
         /\ {<<Ident(it.opcode)>>} \in SUBSET Seq(Symbol)
         /\ Named(it) \in SUBSET Seq(Symbol)
         /\ Sized(it.width) \in SUBSET Seq(Symbol)
         /\ Joined(Named(it), Sized(it.width)) \in SUBSET Seq(Symbol)
         /\ Marked(it.wcfr) \in SUBSET Seq(Symbol)
         /\ Beginning(it) \in SUBSET Seq(Symbol)
<1> USE MarkFacts, TableFacts, ConcatFacts
<1>1. /\ Mark("LPAREN") \in Symbol /\ Mark("RPAREN") \in Symbol /\ Mark("DOT") \in Symbol
      /\ Mark("QUESTION") \in Symbol /\ Mark("EXCLAMATION") \in Symbol
      /\ Mark("PERCENT") \in Symbol
  BY DEF Punctuation
<1>2. /\ it.opcode \in Lexeme /\ it.dir \in Directives /\ it.wcfr \in {"none", "stat", "full"}
  BY DEF ParsedItem
<1>3. Predicated(it.pred) \in SUBSET Seq(Symbol)
  <2>1. \A n \in DOMAIN Preds :
          <<Ident("if"), Mark("LPAREN"), Ident(n), Mark("RPAREN")>> \in Seq(Symbol)
    BY <1>1, ThreeType
  <2>2. <<>> \in Seq(Symbol)
    OBVIOUS
  <2> QED BY ONLY <2>1, <2>2 DEF Predicated
<1>4. {<<Ident(it.opcode)>>} \in SUBSET Seq(Symbol)
  BY <1>2
<1>5. Named(it) \in SUBSET Seq(Symbol)
  BY <1>3, <1>4, JoinedType DEF Named
<1>6. Sized(it.width) \in SUBSET Seq(Symbol)
  <2>1. \A w \in DOMAIN WidthNames : <<Mark("DOT"), Tok("IMM_INT", w)>> \in Seq(Symbol)
    BY <1>1 DEF Lexed
  <2>2. <<>> \in Seq(Symbol)
    OBVIOUS
  <2> QED BY ONLY <2>1, <2>2 DEF Sized
<1>7. Joined(Named(it), Sized(it.width)) \in SUBSET Seq(Symbol)
  BY <1>5, <1>6, JoinedType
<1>8. Marked(it.wcfr) \in SUBSET Seq(Symbol)
  <2>1. Marked(it.wcfr) \in {{<<>>}, {<<Mark("QUESTION")>>}, {<<Mark("EXCLAMATION")>>}}
    BY ONLY <1>2 DEF Marked
  <2>2. <<>> \in Seq(Symbol) /\ <<Mark("QUESTION")>> \in Seq(Symbol)
        /\ <<Mark("EXCLAMATION")>> \in Seq(Symbol)
    BY <1>1
  <2> QED BY ONLY <2>1, <2>2
<1>9. {<<Mark("PERCENT"), Ident(it.dir)>>} \in SUBSET Seq(Symbol)
  BY <1>1, <1>2
<1>10. Joined(Joined(Named(it), Sized(it.width)), Marked(it.wcfr)) \in SUBSET Seq(Symbol)
  BY <1>7, <1>8, JoinedType
<1> QED BY <1>3, <1>4, <1>5, <1>6, <1>7, <1>8, <1>9, <1>10 DEF Beginning, Named

\* What one more operand makes of the sequences with those before it.
Comma == {<<Mark("COMMA")>>}

WithOperand(start, k, before, op) ==
  Joined(IF k = 1 THEN start ELSE Joined(before, Comma), OperandSentences(op))

Lists(f, start, opnds) ==
  f[0] = start /\ \A k \in 1 .. Len(opnds) : f[k] = WithOperand(start, k, f[k - 1], opnds[k])

\* A comma is a symbol.
LEMMA CommaType == Comma \in SUBSET Seq(Symbol)
<1>1. Mark("COMMA") \in Symbol
  BY MarkFacts DEF Punctuation
<1> QED BY <1>1 DEF Comma

\* One operand more, and these are still sequences of symbols.
LEMMA WithOperandType ==
  ASSUME NEW start \in SUBSET Seq(Symbol), NEW k, NEW before \in SUBSET Seq(Symbol),
         NEW op \in ReadOperand
  PROVE  WithOperand(start, k, before, op) \in SUBSET Seq(Symbol)
<1>1. Joined(before, Comma) \in SUBSET Seq(Symbol)
  BY CommaType, JoinedType
<1>2. (IF k = 1 THEN start ELSE Joined(before, Comma)) \in SUBSET Seq(Symbol)
  BY <1>1
<1> QED BY <1>2, OperandSentencesType, JoinedType DEF WithOperand

\* There is a function that lists the operands by counting up.
LEMMA ListsExists ==
  ASSUME NEW start \in SUBSET Seq(Symbol), NEW opnds \in Seq(ReadOperand)
  PROVE  \E f \in [0 .. Len(opnds) -> SUBSET Seq(Symbol)] : Lists(f, start, opnds)
<1> DEFINE V    == SUBSET Seq(Symbol)
           n    == Len(opnds)
           comb == [k \in 1 .. n |-> [v \in V |-> WithOperand(start, k, v, opnds[k])]]
<1>1. n \in Nat /\ \A k \in 1 .. n : opnds[k] \in ReadOperand
  OBVIOUS
<1>2. \A k \in 1 .. n, v \in V : WithOperand(start, k, v, opnds[k]) \in V
  BY <1>1, WithOperandType
<1>3. comb \in [1 .. n -> [V -> V]] /\ start \in V
  BY <1>2
<1>4. \A k \in 1 .. n, v \in V : comb[k][v] = WithOperand(start, k, v, opnds[k])
  OBVIOUS
<1> HIDE DEF V, n, comb
<1>5. PICK f \in [0 .. n -> V] : CountsUp(f, n, start, comb)
  BY <1>1, <1>3, CountRecursion
<1>6. ASSUME NEW k \in 1 .. n PROVE f[k] = WithOperand(start, k, f[k - 1], opnds[k])
  <2>1. k - 1 \in 0 .. n
    BY <1>1
  <2>2. f[k - 1] \in V
    BY <2>1
  <2> QED BY <1>4, <1>5, <2>2 DEF CountsUp
<1>7. Lists(f, start, opnds)
  BY <1>5, <1>6 DEF CountsUp, Lists, n
<1> QED BY <1>7 DEF V, n

\* There is one way to list operands.
LEMMA ListsOne ==
  ASSUME NEW start, NEW opnds, Len(opnds) \in Nat, NEW f, NEW g,
         Lists(f, start, opnds), Lists(g, start, opnds)
  PROVE  f[Len(opnds)] = g[Len(opnds)]
<1> DEFINE n == Len(opnds)
           S == {k \in 0 .. n : f[k] = g[k]}
<1>1. 0 \in S
  BY DEF Lists
<1>2. ASSUME NEW k \in 1 .. n, k - 1 \in S PROVE k \in S
  BY <1>2 DEF Lists
<1>3. 0 .. n \subseteq S
  <2> HIDE DEF S
  <2> QED BY <1>1, <1>2, CountInduction
<1> QED BY <1>3

\* Followed is the last value of any such function.
LEMMA FollowedValue ==
  ASSUME NEW start \in SUBSET Seq(Symbol), NEW opnds \in Seq(ReadOperand), NEW f,
         Lists(f, start, opnds)
  PROVE  Followed(start, opnds) = f[Len(opnds)]
<1> DEFINE n       == Len(opnds)
           E(g, k) == IF k = 0 THEN start
                      ELSE Joined(IF k = 1 THEN start ELSE Joined(g[k - 1], {<<Mark("COMMA")>>}),
                                  OperandSentences(opnds[k]))
           upTo    == CHOOSE g : g = [k \in 0 .. n |-> E(g, k)]
<1>1. Followed(start, opnds) = upTo[n]
  BY DEF Followed
<1>2. PICK h \in [0 .. n -> SUBSET Seq(Symbol)] : Lists(h, start, opnds)
  BY ListsExists
<1>3. h = [k \in 0 .. n |-> E(h, k)]
  <2>1. ASSUME NEW k \in 0 .. n PROVE h[k] = E(h, k)
    <3>1. CASE k = 0
      BY <1>2, <3>1 DEF Lists
    <3>2. CASE k # 0
      <4>1. k \in 1 .. n
        BY <3>2
      <4>2. h[k] = WithOperand(start, k, h[k - 1], opnds[k])
        BY <1>2, <4>1 DEF Lists
      <4> QED BY <3>2, <4>2 DEF WithOperand, Comma
    <3> QED BY <3>1, <3>2
  <2> HIDE DEF E
  <2> QED BY <2>1
<1>4. upTo = [k \in 0 .. n |-> E(upTo, k)]
  <2> HIDE DEF E
  <2> QED BY <1>3
<1> HIDE DEF upTo
<1>5. Lists(upTo, start, opnds)
  <2>1. n \in Nat
    OBVIOUS
  <2>2. upTo[0] = start
    BY <1>4, <2>1
  <2>3. ASSUME NEW k \in 1 .. n PROVE upTo[k] = WithOperand(start, k, upTo[k - 1], opnds[k])
    <3>1. upTo[k] = E(upTo, k) /\ k # 0
      <4> HIDE DEF E
      <4> QED BY <1>4, <2>1
    <3> QED BY <3>1 DEF WithOperand, Comma
  <2> QED BY <2>2, <2>3 DEF Lists
<1> QED BY <1>1, <1>5, ListsOne

\* Without operands there is only the beginning.
LEMMA FollowedNone ==
  ASSUME NEW start \in SUBSET Seq(Symbol)
  PROVE  Followed(start, <<>>) = start
<1>1. <<>> \in Seq(ReadOperand) /\ Len(<<>>) = 0
  OBVIOUS
<1>2. PICK f : Lists(f, start, <<>>)
  BY <1>1, ListsExists
<1> QED BY <1>1, <1>2, FollowedValue DEF Lists

\* One operand more.
LEMMA FollowedAppend ==
  ASSUME NEW start \in SUBSET Seq(Symbol), NEW opnds \in Seq(ReadOperand), NEW op \in ReadOperand
  PROVE  Followed(start, Append(opnds, op))
           = Joined(IF opnds = <<>> THEN start ELSE Joined(Followed(start, opnds), Comma),
                    OperandSentences(op))
<1> DEFINE n    == Len(opnds)
           more == Append(opnds, op)
<1>1. n \in Nat /\ more \in Seq(ReadOperand) /\ Len(more) = n + 1 /\ more[n + 1] = op
      /\ \A k \in 1 .. n : more[k] = opnds[k]
  OBVIOUS
<1>2. opnds = <<>> <=> n + 1 = 1
  OBVIOUS
<1> HIDE DEF n, more
<1>3. PICK f : Lists(f, start, more)
  BY <1>1, ListsExists
<1>4. Lists(f, start, opnds)
  BY <1>1, <1>3 DEF Lists, n
<1>5. Followed(start, opnds) = f[n] /\ Followed(start, more) = f[n + 1]
  BY <1>1, <1>3, <1>4, FollowedValue DEF n
<1>6. f[n + 1] = WithOperand(start, n + 1, f[n + 1 - 1], op)
  BY <1>1, <1>3 DEF Lists
<1>7. n + 1 - 1 = n
  BY <1>1
<1> QED BY <1>2, <1>5, <1>6, <1>7 DEF WithOperand, more

\* A beginning with operands after it is a sequence of symbols.
LEMMA FollowedType ==
  ASSUME NEW start \in SUBSET Seq(Symbol), NEW opnds \in Seq(ReadOperand)
  PROVE  Followed(start, opnds) \in SUBSET Seq(Symbol)
<1>1. PICK f \in [0 .. Len(opnds) -> SUBSET Seq(Symbol)] : Lists(f, start, opnds)
  BY ListsExists
<1>2. Len(opnds) \in 0 .. Len(opnds)
  OBVIOUS
<1> QED BY <1>1, <1>2, FollowedValue
-----------------------------------------------------------------------------
(***************************************************************************)
(* What is known of the item at each place.                                *)
(***************************************************************************)
Unnamed       == {"named", "ifOpen", "ifPred", "ifClose", "mnemonic"}
InstrPlaces   == Unnamed \union {"width", "widthValue", "wcfr"}
OperandPlaces == {"operand", "localName", "suffix", "suffixName"}

\* What the item says where it is being read, and what it cannot say yet.
KindInv ==
  /\ at \in InstrPlaces => item.kind = "instr" /\ item.wcfr = "none"
  /\ at \in InstrPlaces \ {"wcfr"} => item.width = NoWidth
  /\ at \in Unnamed => item.opcode = ""
  /\ at \in {"named", "ifOpen", "ifPred"} => item.pred = "aw"
  /\ at = "directiveName" => item.kind = "directive"
  /\ at \in {"labelName", "labelColon"} => item.kind = "label"
  /\ at = "labelColon" => item.is_local
  /\ at = "named" => ~item.is_local
  /\ at \in OperandPlaces \union {"first", "comma"} => item.kind \in {"instr", "directive"}
  /\ at \in InstrPlaces \union {"directiveName", "first"} => item.operands = <<>>
  /\ at = "comma" => item.operands # <<>>
  /\ at \in {"suffix", "suffixName"} => held \in Registers
  /\ item.opcode # "if"
  /\ at \in Idle => ~reported

\* An operand that was read: a register has a name, and a literal a value.
GoodOperand(op) ==
  /\ op.kind = "reg" => op.id \in Registers \/ op = NoOperand
  /\ op.kind = "imm" => \/ op.val.type = "IMM_INT" /\ op.val.lexeme \in ValidInts
                        \/ op.val.type = "IMM_CHAR" /\ op.val.lexeme \in ValidChars

OperandInv == \A i \in DOMAIN item.operands : GoodOperand(item.operands[i])

ItemInv == KindInv /\ OperandInv

\* No opcode is called "if".
LEMMA IfIsNoOpcode == "if" \notin Opcodes
BY DEF Opcodes, AluOps, UnaryOps, StepOps, PlainOps, LoadOps, StoreOps, PtrInOps, PtrOutOps,
       MoveOps

\* Nothing is in the empty sequence.
LEMMA NothingListed == DOMAIN <<>> = {}
OBVIOUS

\* A new item says nothing.
LEMMA NewItemSays ==
  /\ NewItem.pred = "aw" /\ NewItem.opcode = "" /\ NewItem.width = NoWidth
  /\ NewItem.wcfr = "none" /\ ~NewItem.is_local /\ NewItem.operands = <<>>
BY DEF NewItem

\* tasm_parser_item.
LEMMA ItemSays ==
  ASSUME TypeInv, PlaceInv, ItemInv, SkipNewline \/ StopAtEof \/ ParseItem
  PROVE  ItemInv'
<1> USE Before DEF ItemInv, KindInv, At, Keep, Goto, Idle, Unnamed, InstrPlaces, OperandPlaces
<1>1. CASE SkipNewline
  BY <1>1 DEF SkipNewline, OperandInv
<1>2. CASE StopAtEof
  BY <1>2 DEF StopAtEof, OperandInv
<1>3. ASSUME NEW kind, Begin(kind)
      PROVE  /\ item'.kind = kind /\ item'.pred = "aw" /\ item'.opcode = ""
             /\ item'.width = NoWidth /\ item'.wcfr = "none" /\ ~item'.is_local
             /\ item'.operands = <<>> /\ OperandInv'
  <2>1. /\ item'.kind = kind /\ item'.pred = "aw" /\ item'.opcode = ""
        /\ item'.width = NoWidth /\ item'.wcfr = "none" /\ item'.is_local = FALSE
        /\ item'.operands = <<>>
    BY <1>3 DEF Begin, NewItem
  <2> QED BY <2>1, NothingListed DEF OperandInv
<1>4. CASE BeginDirective
  BY <1>3, <1>4 DEF BeginDirective
<1>5. CASE BeginLocalLabel
  BY <1>3, <1>5 DEF BeginLocalLabel
<1>6. CASE BeginNamed
  BY <1>3, <1>6 DEF BeginNamed
<1>7. CASE Unimplemented
  BY <1>7 DEF Unimplemented, OperandInv
<1>8. CASE LabelName
  <2>1. /\ item'.kind = item.kind /\ item'.opcode = item.opcode /\ item'.is_local = TRUE
        /\ item'.operands = item.operands
    BY <1>8 DEF LabelName, ParsedItem
  <2> QED BY <1>8, <2>1 DEF LabelName, OperandInv
<1>9. CASE LabelColon
  BY <1>9 DEF LabelColon, OperandInv
<1>10. CASE NamedIsLabel
  <2>1. item'.kind = "label" /\ item'.opcode = item.opcode /\ item'.operands = item.operands
    BY <1>10 DEF NamedIsLabel, ParsedItem
  <2> QED BY <1>10, <2>1 DEF NamedIsLabel, OperandInv
<1> QED BY <1>1, <1>2, <1>4, <1>5, <1>6, <1>7, <1>8, <1>9, <1>10 DEF ParseItem

\* parse_instruction.
LEMMA InstructionSays ==
  ASSUME TypeInv, PlaceInv, ItemInv, ParseInstruction
  PROVE  ItemInv'
<1> USE Before DEF ItemInv, KindInv, At, Keep, Goto, Idle, Unnamed, InstrPlaces, OperandPlaces
<1>1. CASE NamedIsIf
  BY <1>1 DEF NamedIsIf, OperandInv
<1>2. CASE IfOpen
  BY <1>2 DEF IfOpen, OperandInv
<1>3. CASE IfPred
  <2>1. /\ item'.kind = item.kind /\ item'.opcode = item.opcode /\ item'.width = item.width
        /\ item'.wcfr = item.wcfr /\ item'.operands = item.operands
    BY <1>3 DEF IfPred, ParsedItem
  <2> QED BY <1>3, <2>1 DEF IfPred, OperandInv
<1>4. CASE IfClose
  BY <1>4 DEF IfClose, OperandInv
<1>5. ASSUME NEW name, SetOpcode(name)
      PROVE  /\ item'.kind = item.kind /\ item'.opcode # "if" /\ item'.width = item.width
             /\ item'.wcfr = item.wcfr /\ item'.operands = item.operands
  <2>1. PICK op : item' = [item EXCEPT !.opcode = op] /\ op # "if"
    BY <1>5, IfIsNoOpcode, SourcesAssumption DEF SetOpcode
  <2> QED BY <2>1 DEF ParsedItem
<1>6. CASE NamedIsMnemonic
  BY <1>5, <1>6 DEF NamedIsMnemonic, OperandInv
<1>7. CASE Mnemonic
  BY <1>5, <1>7 DEF Mnemonic, OperandInv
<1>8. CASE WidthDot
  BY <1>8 DEF WidthDot, OperandInv
<1>9. CASE WidthValue
  <2>1. /\ item'.kind = item.kind /\ item'.opcode = item.opcode
        /\ item'.wcfr = item.wcfr /\ item'.operands = item.operands
    BY <1>9 DEF WidthValue, ParsedItem
  <2> QED BY <1>9, <2>1 DEF WidthValue, OperandInv
<1>10. CASE NoWidthGiven
  BY <1>10 DEF NoWidthGiven, OperandInv
<1>11. CASE Wcfr
  <2>1. item'.kind = item.kind /\ item'.opcode = item.opcode /\ item'.operands = item.operands
    BY <1>11 DEF Wcfr, ParsedItem
  <2> QED BY <1>11, <2>1 DEF Wcfr, OperandInv
<1> QED BY <1>1, <1>2, <1>3, <1>4, <1>6, <1>7, <1>8, <1>9, <1>10, <1>11 DEF ParseInstruction

\* What reading an operand leaves of the item.
LEMMA PushSays ==
  ASSUME TypeInv, NEW op \in ReadOperand, Push(op)
  PROVE  /\ item'.kind = item.kind /\ item'.first = item.first /\ item'.name = item.name
         /\ item'.is_local = item.is_local /\ item'.pred = item.pred
         /\ item'.opcode = item.opcode /\ item'.width = item.width
         /\ item'.wcfr = item.wcfr /\ item'.dir = item.dir
         /\ item'.operands = IF NoRoom THEN item.operands ELSE Append(item.operands, op)
<1> USE Before
<1>1. CASE NoRoom
  BY <1>1 DEF Push
<1>2. CASE ~NoRoom
  <2> DEFINE more == Append(item.operands, op)
  <2>1. item' = [item EXCEPT !.operands = more]
    BY <1>2 DEF Push
  <2> HIDE DEF more
  <2>2. /\ item'.kind = item.kind /\ item'.first = item.first /\ item'.name = item.name
        /\ item'.is_local = item.is_local /\ item'.pred = item.pred
        /\ item'.opcode = item.opcode /\ item'.width = item.width
        /\ item'.wcfr = item.wcfr /\ item'.dir = item.dir
        /\ item'.operands = more
    BY <2>1 DEF ParsedItem
  <2> QED BY <1>2, <2>2 DEF more
<1> QED BY <1>1, <1>2

\* Reading a good operand keeps the item right.
LEMMA PushKeeps ==
  ASSUME TypeInv, ItemInv, NEW op \in ReadOperand, Push(op), GoodOperand(op),
         item.kind \in {"instr", "directive"}
  PROVE  ItemInv'
<1>1. at' = "comma" /\ item'.kind = item.kind /\ item'.opcode = item.opcode
      /\ item'.operands = IF NoRoom THEN item.operands ELSE Append(item.operands, op)
  BY PushSays DEF Push, Goto
<1>2. item.operands \in Seq(ReadOperand)
  BY Before DEF ParsedItem
<1>3. /\ Append(item.operands, op) # <<>>
      /\ DOMAIN Append(item.operands, op) = DOMAIN item.operands \union {Len(item.operands) + 1}
      /\ \A i \in DOMAIN item.operands : Append(item.operands, op)[i] = item.operands[i]
      /\ Append(item.operands, op)[Len(item.operands) + 1] = op
  BY <1>2
<1>4. NoRoom => item.operands # <<>>
  BY <1>2 DEF NoRoom, MaxOperands
<1>5. OperandInv'
  BY <1>1, <1>3 DEF ItemInv, OperandInv
<1>6. item'.operands # <<>> /\ item'.opcode # "if" /\ item'.kind \in {"instr", "directive"}
  BY <1>1, <1>3, <1>4 DEF ItemInv, KindInv
<1> QED BY <1>1, <1>5, <1>6 DEF ItemInv, KindInv, Idle, Unnamed, InstrPlaces, OperandPlaces

\* parse_directive and parse_operand.
LEMMA OperandsSay ==
  ASSUME TypeInv, PlaceInv, ItemInv, ParseOperands
  PROVE  ItemInv'
<1> USE Before, OperandTypes
<1> USE DEF At, Keep, Goto, Idle, Unnamed, InstrPlaces, OperandPlaces
<1>1. CASE DirectiveName
  <2>1. item'.kind = item.kind /\ item'.opcode = item.opcode /\ item'.operands = item.operands
    BY <1>1 DEF DirectiveName, ParsedItem
  <2> QED BY <1>1, <2>1 DEF DirectiveName, ItemInv, KindInv, OperandInv
<1>2. CASE NoOperands
  BY <1>2 DEF NoOperands, ItemInv, KindInv, OperandInv
<1>3. CASE SomeOperands
  BY <1>3 DEF SomeOperands, ItemInv, KindInv, OperandInv
<1>4. CASE NextOperand
  BY <1>4 DEF NextOperand, ItemInv, KindInv, OperandInv
<1>5. CASE LastOperand
  BY <1>5 DEF LastOperand, ItemInv, KindInv, OperandInv
<1>6. CASE LocalOperand
  BY <1>6 DEF LocalOperand, ItemInv, KindInv, OperandInv
<1>7. CASE LocalOperandName
  <2>1. GoodOperand(Label(Peeked.lexeme, TRUE)) /\ item.kind \in {"instr", "directive"}
    BY <1>7 DEF GoodOperand, Label, LocalOperandName, ItemInv, KindInv
  <2> QED BY <1>7, <2>1, PushKeeps DEF LocalOperandName
<1>8. CASE StringOperand
  <2>1. /\ GoodOperand([kind |-> "str", lexeme |-> Peeked.lexeme])
        /\ item.kind \in {"instr", "directive"}
    BY <1>8 DEF GoodOperand, StringOperand, ItemInv, KindInv
  <2> QED BY <1>8, <2>1, PushKeeps DEF StringOperand
<1>9. ASSUME NEW valid, Literal(valid), At("operand"),
             \/ Sees({"IMM_INT"}) /\ valid = ValidInts
             \/ Sees({"IMM_CHAR"}) /\ valid = ValidChars
      PROVE  ItemInv'
  <2> DEFINE tok == IF Peeked.lexeme \in valid THEN Peeked ELSE Tok("IMM_INT", "0")
  <2>1. Imm(tok) \in ReadOperand
    OBVIOUS
  <2>2. GoodOperand(Imm(tok))
    BY <1>9, SourcesAssumption DEF GoodOperand, Imm, Tok, Sees
  <2>3. Push(Imm(tok)) /\ item.kind \in {"instr", "directive"}
    BY <1>9 DEF Literal, ItemInv, KindInv
  <2> HIDE DEF tok
  <2> QED BY <2>1, <2>2, <2>3, PushKeeps
<1>10. CASE IntOperand
  BY <1>9, <1>10 DEF IntOperand
<1>11. CASE CharOperand
  BY <1>9, <1>11 DEF CharOperand
<1>12. CASE LabelOperand
  <2>1. GoodOperand(Label(Peeked.lexeme, FALSE)) /\ item.kind \in {"instr", "directive"}
    BY <1>12 DEF GoodOperand, Label, LabelOperand, ItemInv, KindInv
  <2> QED BY <1>12, <2>1, PushKeeps DEF LabelOperand
<1>13. CASE RegisterOperand
  BY <1>13 DEF RegisterOperand, ItemInv, KindInv, OperandInv
<1>14. CASE ExpectedOperand
  <2>1. GoodOperand(NoOperand) /\ item.kind \in {"instr", "directive"}
    BY <1>14 DEF GoodOperand, NoOperand, Lane, ExpectedOperand, ItemInv, KindInv
  <2> QED BY <1>14, <2>1, PushKeeps DEF ExpectedOperand
<1>15. CASE NoSuffix
  <2>1. GoodOperand(Lane(held, WholeRegister)) /\ item.kind \in {"instr", "directive"}
    BY <1>15 DEF GoodOperand, Lane, NoSuffix, ItemInv, KindInv
  <2> QED BY <1>15, <2>1, PushKeeps DEF NoSuffix
<1>16. CASE SuffixColon
  BY <1>16 DEF SuffixColon, ItemInv, KindInv, OperandInv
<1>17. CASE SuffixName
  <2>1. GoodOperand(Lane(held, Part(Peeked.lexeme))) /\ item.kind \in {"instr", "directive"}
    BY <1>17 DEF GoodOperand, Lane, SuffixName, ItemInv, KindInv
  <2> QED BY <1>17, <2>1, PushKeeps DEF SuffixName
<1> QED BY <1>1, <1>2, <1>3, <1>4, <1>5, <1>6, <1>7, <1>8, <1>10, <1>11, <1>12, <1>13,
           <1>14, <1>15, <1>16, <1>17 DEF ParseOperands

\* What the item says is right at first, and every step keeps it so.
LEMMA InitItem == Init => ItemInv
<1> SUFFICES ASSUME Init PROVE ItemInv
  OBVIOUS
<1>1. at = "item" /\ item = NewItem /\ reported = FALSE
  BY DEF Init
<1>3. OperandInv
  BY <1>1, NothingListed, NewItemSays DEF OperandInv
<1>4. KindInv
  BY <1>1, NewItemSays DEF KindInv, Idle, Unnamed, InstrPlaces, OperandPlaces
<1> QED BY <1>3, <1>4 DEF ItemInv

\* Every step keeps what is known of the item.
LEMMA StepItem == LineInv /\ ItemInv /\ [Next]_vars => ItemInv'
<1> SUFFICES ASSUME LineInv, ItemInv, [Next]_vars PROVE ItemInv'
  OBVIOUS
<1>1. TypeInv /\ PlaceInv
  BY DEF LineInv
<1>2. CASE FillLookahead \/ UNCHANGED vars
  <2>1. UNCHANGED <<at, item, held, reported>>
    BY <1>2 DEF FillLookahead, vars
  <2> QED BY <2>1 DEF ItemInv, KindInv, OperandInv
<1>3. CASE AddItem
  <2>1. at' = "item" /\ item' = NewItem /\ reported' = FALSE
    BY <1>3 DEF AddItem, Goto
  <2>3. OperandInv'
    BY <2>1, NothingListed, NewItemSays DEF OperandInv
  <2>4. KindInv'
    BY <2>1, NewItemSays DEF KindInv, Idle, Unnamed, InstrPlaces, OperandPlaces
  <2> QED BY <2>3, <2>4 DEF ItemInv
<1> QED BY <1>1, <1>2, <1>3, ItemSays, InstructionSays, OperandsSay DEF Next
-----------------------------------------------------------------------------
(***************************************************************************)
(* Of an item nothing was reported about, what was taken reads as what the *)
(* item says so far.                                                       *)
(***************************************************************************)
Taken == SubSeq(heard, item.first, Len(heard))

\* What comes before the next operand.
BeforeOperand(it) ==
  IF it.operands = <<>> THEN Beginning(it) ELSE Joined(Followed(Beginning(it), it.operands), Comma)

Reads ==
  /\ at = "directiveName" => Taken = <<Mark("PERCENT")>>
  /\ at = "labelName"     => Taken = <<Mark("DOT")>>
  /\ at = "labelColon"    => Taken = <<Mark("DOT"), Ident(item.name)>>
  /\ at = "named"         => Taken = <<Ident(held)>>
  /\ at = "ifOpen"        => Taken = <<Ident("if")>>
  /\ at = "ifPred"        => Taken = <<Ident("if"), Mark("LPAREN")>>
  /\ at = "ifClose"       => \E name \in DOMAIN Preds :
                               /\ Preds[name] = item.pred
                               /\ Taken = <<Ident("if"), Mark("LPAREN"), Ident(name)>>
  /\ at = "mnemonic"      => Taken \in Predicated(item.pred)
  /\ at = "width"         => Taken \in Named(item)
  /\ at = "widthValue"    => Taken \in Joined(Named(item), {<<Mark("DOT")>>})
  /\ at = "wcfr"          => Taken \in Joined(Named(item), Sized(item.width))
  /\ at = "first"         => Taken \in Beginning(item)
  /\ at = "operand"       => Taken \in BeforeOperand(item)
  /\ at = "localName"     => Taken \in Joined(BeforeOperand(item), {<<Mark("DOT")>>})
  /\ at = "suffix"        => Taken \in Joined(BeforeOperand(item), {<<Ident(held)>>})
  /\ at = "suffixName"    => Taken \in Joined(BeforeOperand(item), {<<Ident(held), Mark("COLON")>>})
  /\ at = "comma"         => Taken \in Followed(Beginning(item), item.operands)
  /\ at = "add"           => Taken \in Sentences(item)
  /\ at \in OperandPlaces => ~NoRoom

ReadInv == at \notin Idle /\ ~reported => Reads

\* The end of a history that gets longer.
LEMMA TakenGrows ==
  ASSUME NEW h \in Seq(Token), NEW tok \in Token, NEW k \in 1 .. Len(h)
  PROVE  /\ SubSeq(h, k, Len(h)) \in Seq(Token)
         /\ SubSeq(Append(h, tok), k, Len(Append(h, tok))) = SubSeq(h, k, Len(h)) \o <<tok>>
<1> DEFINE n == Len(h)
           more == Append(h, tok)
<1>1. n \in Nat /\ more \in Seq(Token) /\ Len(more) = n + 1 /\ more[n + 1] = tok
      /\ \A i \in 1 .. n : more[i] = h[i]
  OBVIOUS
<1>2. SubSeq(h, k, n) \in Seq(Token) /\ Len(SubSeq(h, k, n)) = n - k + 1
      /\ \A i \in 1 .. n - k + 1 : SubSeq(h, k, n)[i] = h[k + i - 1]
  BY <1>1
<1>3. SubSeq(more, k, n + 1) \in Seq(Token) /\ Len(SubSeq(more, k, n + 1)) = n - k + 2
      /\ \A i \in 1 .. n - k + 2 : SubSeq(more, k, n + 1)[i] = more[k + i - 1]
  <2> HIDE DEF more
  <2> QED BY <1>1
<1> DEFINE s == SubSeq(h, k, n)
           t == SubSeq(more, k, n + 1)
<1>4. s \o <<tok>> \in Seq(Token) /\ Len(s \o <<tok>>) = n - k + 2
      /\ (s \o <<tok>>)[n - k + 2] = tok
      /\ \A i \in 1 .. n - k + 1 : (s \o <<tok>>)[i] = s[i]
  <2>1. s \in Seq(Token) /\ Len(s) = n - k + 1 /\ n - k + 1 \in Nat
    BY <1>1, <1>2
  <2> HIDE DEF s, n
  <2>2. s \o <<tok>> = Append(s, tok) /\ Append(s, tok) \in Seq(Token)
    BY <2>1, ConcatFacts
  <2>3. /\ Len(Append(s, tok)) = Len(s) + 1 /\ Append(s, tok)[Len(s) + 1] = tok
        /\ \A i \in 1 .. Len(s) : Append(s, tok)[i] = s[i]
    BY <2>1, Heard
  <2>4. Len(s) + 1 = n - k + 2
    BY <1>1, <2>1
  <2> QED BY <2>1, <2>2, <2>3, <2>4
<1> HIDE DEF s, t, n, more
<1>5. ASSUME NEW i \in 1 .. n - k + 2 PROVE t[i] = (s \o <<tok>>)[i]
  <2>1. CASE i = n - k + 2
    <3>1. k + i - 1 = n + 1
      BY <1>1, <2>1
    <3> QED BY <1>1, <1>3, <1>4, <2>1, <3>1 DEF t
  <2>2. CASE i # n - k + 2
    <3>1. i \in 1 .. n - k + 1 /\ k + i - 1 \in 1 .. n
      BY <1>1, <2>2 DEF n
    <3> QED BY <1>1, <1>2, <1>3, <1>4, <3>1 DEF s, t
  <2> QED BY <2>1, <2>2
<1>6. t = s \o <<tok>>
  BY <1>3, <1>4, <1>5, SeqEqual DEF t
<1> QED BY <1>1, <1>2, <1>6 DEF s, t, n, more

\* What was taken is one token after the first one.
LEMMA TakenFirst ==
  ASSUME NEW h \in Seq(Token), NEW tok \in Token
  PROVE  SubSeq(Append(h, tok), Len(h) + 1, Len(Append(h, tok))) = <<tok>>
<1> DEFINE n == Len(h)
           more == Append(h, tok)
<1>1. n \in Nat /\ more \in Seq(Token) /\ Len(more) = n + 1 /\ more[n + 1] = tok
  OBVIOUS
<1> HIDE DEF more, n
<1>2. SubSeq(more, n + 1, n + 1) \in Seq(Token) /\ Len(SubSeq(more, n + 1, n + 1)) = 1
      /\ SubSeq(more, n + 1, n + 1)[1] = tok
  BY <1>1
<1>3. <<tok>> \in Seq(Token) /\ Len(<<tok>>) = 1 /\ <<tok>>[1] = tok
  OBVIOUS
<1>4. SubSeq(more, n + 1, n + 1) = <<tok>>
  <2> DEFINE s == SubSeq(more, n + 1, n + 1)
  <2>1. s \in Seq(Token) /\ Len(s) = 1 /\ s[1] = tok
    BY <1>2
  <2> HIDE DEF s
  <2>2. \A i \in 1 .. Len(s) : s[i] = <<tok>>[i]
    BY <1>3, <2>1
  <2>3. s = <<tok>>
    BY <1>3, <2>1, <2>2, SeqEqual
  <2> QED BY <2>3 DEF s
<1> QED BY <1>1, <1>4 DEF more, n

\* What a decision takes for the item.
LEMMA Takes ==
  ASSUME LineInv, Decides
  PROVE  /\ Begins => Taken' = <<Peeked>>
         /\ Continues => /\ Taken \in Seq(Token)
                         /\ Advance => Taken' = Taken \o <<Peeked>>
                         /\ Stay => Taken' = Taken
<1>1. heard \in Seq(Token) /\ Peeked \in Token
  BY Before DEF LineInv
<1>2. Begins => Taken' = <<Peeked>>
  BY <1>1, TakenFirst DEF Begins, Advance, Taken
<1>3. ASSUME Continues
      PROVE  /\ Taken \in Seq(Token)
             /\ Advance => Taken' = Taken \o <<Peeked>>
             /\ Stay => Taken' = Taken
  <2>1. item.first \in 1 .. Len(heard) /\ item'.first = item.first
    BY <1>3 DEF LineInv, PlaceInv, Continues, Idle
  <2>2. Advance => heard' = Append(heard, Peeked)
    BY DEF Advance
  <2>3. Stay => heard' = heard
    BY DEF Stay
  <2> QED BY <1>1, <2>1, <2>2, <2>3, TakenGrows DEF Taken
<1> QED BY <1>2, <1>3

\* What is seen, by its type.
LEMMA SeenIs ==
  ASSUME TypeInv
  PROVE  /\ \A type \in Punctuation \union {"EOF"} : Peeked.type = type => Peeked = Mark(type)
         /\ \A type \in Lexed : Peeked.type = type => Peeked = Tok(type, Peeked.lexeme)
         /\ Peeked.type = "IDENT" => Peeked = Ident(Peeked.lexeme)
         /\ Peeked \in Token /\ Peeked \in Symbol /\ Peeked.lexeme \in Lexeme
<1>1. Peeked \in Token /\ Peeked.lexeme \in Lexeme
  BY Before
<1>2. \A type \in Punctuation \union {"EOF"} : type \notin Lexed
  BY DEF Punctuation, Lexed
<1> QED BY <1>1, <1>2, TokenIs, MarkFacts

\* Short sequences.
LEMMA ShortConcatIn ==
  ASSUME NEW X
  PROVE  /\ \A x, y \in X : <<x, y>> = <<x>> \o <<y>>
         /\ \A x, y, z \in X : <<x, y, z>> = <<x, y>> \o <<z>>
         /\ \A x, y, z, w \in X : <<x, y, z, w>> = <<x, y, z>> \o <<w>>
         /\ \A x \in X : <<x>> = <<>> \o <<x>> /\ <<x>> = <<x>> \o <<>>
         /\ \A x, y \in X : <<x, y>> = <<>> \o <<x, y>>
<1>1. ASSUME NEW x \in X, NEW y \in X PROVE <<x, y>> = <<x>> \o <<y>>
  <2>1. <<x, y>> = Append(<<x>>, y)
    OBVIOUS
  <2>2. <<x>> \in Seq(X)
    OBVIOUS
  <2> QED BY <2>1, <2>2, ConcatFacts
<1>2. \A x, y, z \in X : <<x, y, z>> = <<x, y>> \o <<z>>
  OBVIOUS
<1>3. \A x, y, z, w \in X : <<x, y, z, w>> = <<x, y, z>> \o <<w>>
  OBVIOUS
<1>5. ASSUME NEW s \in Seq(X) PROVE s = <<>> \o s /\ s = s \o <<>>
  BY ConcatFacts
<1>6. \A x, y \in X : <<x>> \in Seq(X) /\ <<x, y>> \in Seq(X)
  OBVIOUS
<1> QED BY <1>1, <1>2, <1>3, <1>5, <1>6

\* Sequences of up to four, by their parts.
LEMMA ShortConcat ==
  \A x, y, z, w :
    /\ <<x>> \o <<y>> = <<x, y>> /\ <<x, y>> \o <<z>> = <<x, y, z>>
    /\ <<x, y, z>> \o <<w>> = <<x, y, z, w>> /\ <<x>> \o <<y, z>> = <<x, y, z>>
    /\ <<>> \o <<x>> = <<x>> /\ <<x>> \o <<>> = <<x>> /\ <<>> \o <<x, y>> = <<x, y>>
<1> TAKE x, y, z, w
<1> DEFINE X == {x, y, z, w}
<1>1. x \in X /\ y \in X /\ z \in X /\ w \in X
  OBVIOUS
<1> HIDE DEF X
<1>2. <<x, y>> = <<x>> \o <<y>>
  BY <1>1, ShortConcatIn
<1>3. <<x, y, z>> = <<x, y>> \o <<z>>
  BY <1>1, ShortConcatIn
<1>6. <<x, y, z>> = <<x>> \o <<y, z>>
  <2>1. <<y, z>> = <<y>> \o <<z>>
    BY <1>1, ShortConcatIn
  <2>2. <<x>> \in Seq(X) /\ <<y>> \in Seq(X) /\ <<z>> \in Seq(X)
    BY <1>1
  <2>3. (<<x>> \o <<y>>) \o <<z>> = <<x>> \o (<<y>> \o <<z>>)
    BY <2>2, ConcatFacts
  <2> QED BY <1>2, <1>3, <2>1, <2>3
<1>4. <<x, y, z, w>> = <<x, y, z>> \o <<w>>
  BY <1>1, ShortConcatIn
<1>5. <<x>> = <<>> \o <<x>> /\ <<x>> = <<x>> \o <<>> /\ <<x, y>> = <<>> \o <<x, y>>
  BY <1>1, ShortConcatIn
<1> QED BY <1>2, <1>3, <1>4, <1>5, <1>6

ReadState == LineInv /\ ItemInv /\ ReadInv

\* tasm_parser_item.
LEMMA ItemReads ==
  ASSUME ReadState, Decides, Turns, SkipNewline \/ StopAtEof \/ ParseItem
  PROVE  ReadInv'
<1> SUFFICES ASSUME at' \notin Idle, ~reported' PROVE Reads'
  BY DEF ReadInv
<1>0. /\ TypeInv /\ LineInv /\ KindInv /\ item \in ParsedItem
      /\ (at \notin Idle /\ ~reported => Reads)
      /\ Begins \/ Continues
  BY Before DEF ReadState, LineInv, ItemInv, ReadInv, Turns, Idles
<1> USE DEF At, Goto, Keep, Report, Sees
<1>1. CASE SkipNewline \/ StopAtEof \/ Unimplemented
  BY <1>1 DEF SkipNewline, StopAtEof, Unimplemented, Idle
<1>2. CASE BeginDirective
  <2>1. at' = "directiveName" /\ Begins /\ Peeked = Mark("PERCENT")
    BY <1>0, <1>2, SeenIs DEF BeginDirective, Continues, Idle, Punctuation
  <2>2. Taken' = <<Mark("PERCENT")>>
    BY <1>0, <2>1, Takes
  <2> QED BY <2>1, <2>2 DEF Reads, OperandPlaces
<1>3. CASE BeginLocalLabel
  <2>1. at' = "labelName" /\ Begins /\ Peeked = Mark("DOT")
    BY <1>0, <1>3, SeenIs DEF BeginLocalLabel, Continues, Idle, Punctuation
  <2>2. Taken' = <<Mark("DOT")>>
    BY <1>0, <2>1, Takes
  <2> QED BY <2>1, <2>2 DEF Reads, OperandPlaces
<1>4. CASE BeginNamed
  <2>1. at' = "named" /\ Begins /\ Peeked = Ident(held')
    BY <1>0, <1>4, SeenIs DEF BeginNamed, Continues, Idle
  <2>2. Taken' = <<Ident(held')>>
    BY <1>0, <2>1, Takes
  <2> QED BY <2>1, <2>2 DEF Reads, OperandPlaces
<1>5. CASE LabelName
  <2>1. /\ at = "labelName" /\ at' = "labelColon" /\ Continues /\ Advance /\ ~reported
        /\ Peeked.type = "IDENT"
    BY <1>0, <1>5 DEF LabelName, Expect, Begins, Idle
  <2>2. item'.name = Peeked.lexeme
    BY <1>0, <1>5 DEF LabelName, ParsedItem
  <2>3. Taken = <<Mark("DOT")>>
    BY <1>0, <2>1 DEF Reads, Idle
  <2>4. Taken' = <<Mark("DOT"), Ident(item'.name)>>
    BY <1>0, <2>1, <2>2, <2>3, Takes, SeenIs, ShortConcat
  <2> QED BY <2>1, <2>4 DEF Reads, OperandPlaces
<1>6. CASE LabelColon
  <2>1. /\ at = "labelColon" /\ at' = "add" /\ Continues /\ Advance /\ ~reported
        /\ item' = item /\ Peeked.type = "COLON"
    BY <1>0, <1>6 DEF LabelColon, Expect, Begins, Idle
  <2>2. Taken = <<Mark("DOT"), Ident(item.name)>> /\ item.kind = "label" /\ item.is_local
    BY <1>0, <2>1 DEF Reads, Idle, KindInv
  <2>3. Taken' = <<Mark("DOT"), Ident(item.name), Mark("COLON")>>
    BY <1>0, <2>1, <2>2, Takes, SeenIs, ShortConcat DEF Punctuation
  <2>4. <<Mark("DOT")>> \o <<Ident(item.name), Mark("COLON")>>
          = <<Mark("DOT"), Ident(item.name), Mark("COLON")>>
    BY ShortConcat
  <2>5. Taken' \in Sentences(item')
    BY <2>1, <2>2, <2>3, <2>4 DEF Sentences
  <2> QED BY <2>1, <2>5 DEF Reads, OperandPlaces
<1>7. CASE NamedIsLabel
  <2>1. /\ at = "named" /\ at' = "add" /\ Continues /\ Advance /\ ~reported
        /\ item' = [item EXCEPT !.kind = "label", !.name = held] /\ Peeked.type = "COLON"
    BY <1>0, <1>7 DEF NamedIsLabel, Begins, Idle
  <2>2. item'.kind = "label" /\ item'.name = held /\ item'.is_local = item.is_local
    BY <1>0, <2>1 DEF ParsedItem
  <2>3. Taken = <<Ident(held)>> /\ ~item.is_local
    BY <1>0, <2>1 DEF Reads, Idle, KindInv
  <2>4. Taken' = <<Ident(held), Mark("COLON")>>
    BY <1>0, <2>1, <2>3, Takes, SeenIs, ShortConcat DEF Punctuation
  <2>5. <<>> \o <<Ident(held), Mark("COLON")>> = <<Ident(held), Mark("COLON")>>
    BY ShortConcat
  <2>6. Taken' \in Sentences(item')
    BY <2>2, <2>3, <2>4, <2>5 DEF Sentences
  <2> QED BY <2>1, <2>6 DEF Reads, OperandPlaces
<1> QED BY <1>1, <1>2, <1>3, <1>4, <1>5, <1>6, <1>7 DEF ParseItem

\* What was joined with one sequence ends with it.
LEMMA JoinedOne ==
  ASSUME NEW S, NEW t, NEW u \in Joined(S, {t})
  PROVE  \E s \in S : u = s \o t
<1> DEFINE T == {t}
<1>1. u \in Joined(S, T) /\ \A v \in T : v = t
  OBVIOUS
<1> HIDE DEF T
<1>2. \E s \in S, v \in T : u = s \o v
  BY <1>1, JoinedIs
<1> QED BY <1>1, <1>2

\* And what ends with it was joined with it.
LEMMA JoinOne ==
  ASSUME NEW S, NEW t, NEW s \in S
  PROVE  s \o t \in Joined(S, {t})
<1> DEFINE T == {t}
<1>1. t \in T
  OBVIOUS
<1> HIDE DEF T
<1>2. s \o t \in Joined(S, T)
  BY <1>1, JoinedHas
<1> QED BY <1>2 DEF T

\* One token more after one, or two, of a sequence.
LEMMA JoinMore ==
  ASSUME NEW S \in SUBSET Seq(Symbol), NEW t \in Seq(Symbol), NEW x \in Symbol,
         NEW u \in Joined(S, {t})
  PROVE  \E s \in S : u = s \o t /\ u \o <<x>> = s \o (t \o <<x>>)
<1>1. PICK s \in S : u = s \o t
  BY JoinedOne
<1>2. s \in Seq(Symbol) /\ <<x>> \in Seq(Symbol)
  OBVIOUS
<1>3. (s \o t) \o <<x>> = s \o (t \o <<x>>)
  BY <1>2, ConcatFacts
<1> QED BY <1>1, <1>3

\* parse_instruction.
LEMMA InstructionReads ==
  ASSUME ReadState, Decides, Turns, ParseInstruction
  PROVE  ReadInv'
<1> SUFFICES ASSUME at' \notin Idle, ~reported' PROVE Reads'
  BY DEF ReadInv
<1>0. /\ TypeInv /\ LineInv /\ KindInv /\ item \in ParsedItem
      /\ (at \notin Idle /\ ~reported => Reads)
      /\ Begins \/ Continues
  BY Before DEF ReadState, LineInv, ItemInv, ReadInv, Turns, Idles
<1> USE DEF At, Goto, Keep, Report, Sees
<1>1. CASE NamedIsIf
  <2>1. at = "named" /\ at' = "ifOpen" /\ Continues /\ Stay /\ ~reported /\ held = "if"
    BY <1>0, <1>1 DEF NamedIsIf, Begins, Idle
  <2>2. Taken' = <<Ident("if")>>
    BY <1>0, <2>1, Takes DEF Reads, Idle
  <2> QED BY <2>1, <2>2 DEF Reads, OperandPlaces
<1>2. CASE IfOpen
  <2>1. /\ at = "ifOpen" /\ at' = "ifPred" /\ Continues /\ Advance /\ ~reported
        /\ Peeked.type = "LPAREN"
    BY <1>0, <1>2 DEF IfOpen, Expect, Begins, Idle
  <2>2. Taken = <<Ident("if")>>
    BY <1>0, <2>1 DEF Reads, Idle
  <2>3. Taken' = <<Ident("if"), Mark("LPAREN")>>
    BY <1>0, <2>1, <2>2, Takes, SeenIs, ShortConcat DEF Punctuation
  <2> QED BY <2>1, <2>3 DEF Reads, OperandPlaces
<1>3. CASE IfPred
  <2>1. /\ at = "ifPred" /\ at' = "ifClose" /\ Continues /\ Advance /\ ~reported
        /\ Peeked.type = "IDENT" /\ Peeked.lexeme \in DOMAIN Preds
    BY <1>0, <1>3 DEF IfPred, Expect, Begins, Idle
  <2>2. item'.pred = Preds[Peeked.lexeme]
    BY <1>0, <1>3, <2>1 DEF IfPred, ParsedItem
  <2>3. Taken = <<Ident("if"), Mark("LPAREN")>>
    BY <1>0, <2>1 DEF Reads, Idle
  <2>4. Taken' = <<Ident("if"), Mark("LPAREN"), Ident(Peeked.lexeme)>>
    BY <1>0, <2>1, <2>3, Takes, SeenIs, ShortConcat
  <2> QED BY <2>1, <2>2, <2>4 DEF Reads, OperandPlaces
<1>4. CASE IfClose
  <2>1. /\ at = "ifClose" /\ at' = "mnemonic" /\ Continues /\ Advance /\ ~reported
        /\ Peeked.type = "RPAREN" /\ item' = item
    BY <1>0, <1>4 DEF IfClose, Expect, Begins, Idle
  <2>2. PICK name \in DOMAIN Preds :
          Preds[name] = item.pred /\ Taken = <<Ident("if"), Mark("LPAREN"), Ident(name)>>
    BY <1>0, <2>1 DEF Reads, Idle
  <2>3. Taken' = <<Ident("if"), Mark("LPAREN"), Ident(name), Mark("RPAREN")>>
    BY <1>0, <2>1, <2>2, Takes, SeenIs, ShortConcat DEF Punctuation
  <2>4. Taken' \in Predicated(item'.pred)
    BY <2>1, <2>2, <2>3 DEF Predicated
  <2> QED BY <2>1, <2>4 DEF Reads, OperandPlaces
<1>5. CASE NamedIsMnemonic
  <2>1. /\ at = "named" /\ at' = "width" /\ Continues /\ Stay /\ ~reported /\ held \in Opcodes
    BY <1>0, <1>5 DEF NamedIsMnemonic, Begins, Idle
  <2>2. item'.opcode = held /\ item'.pred = item.pred
    BY <1>0, <1>5, <2>1 DEF NamedIsMnemonic, SetOpcode, ParsedItem
  <2>3. Taken = <<Ident(held)>> /\ item.pred = "aw"
    BY <1>0, <2>1 DEF Reads, Idle, KindInv
  <2>4. <<>> \in Predicated(item'.pred) /\ <<Ident(held)>> = <<>> \o <<Ident(held)>>
    BY <2>2, <2>3, ShortConcat DEF Predicated
  <2>5. Taken' = Taken
    BY <1>0, <2>1, Takes
  <2>6. Taken' \in Named(item')
    BY <2>2, <2>3, <2>4, <2>5, JoinedIs DEF Named
  <2> QED BY <2>1, <2>6 DEF Reads, OperandPlaces
<1>6. CASE Mnemonic
  <2>1. /\ at = "mnemonic" /\ at' = "width" /\ Continues /\ Advance /\ ~reported
        /\ Peeked.type = "IDENT" /\ Peeked.lexeme \in Opcodes
    BY <1>0, <1>6 DEF Mnemonic, Expect, Begins, Idle
  <2>2. item'.opcode = Peeked.lexeme /\ item'.pred = item.pred
    BY <1>0, <1>6, <2>1 DEF Mnemonic, SetOpcode, ParsedItem
  <2>3. Taken \in Predicated(item.pred)
    BY <1>0, <2>1 DEF Reads, Idle
  <2>4. Taken' = Taken \o <<Ident(item'.opcode)>>
    BY <1>0, <2>1, <2>2, Takes, SeenIs
  <2>5. Taken' \in Named(item')
    BY <2>2, <2>3, <2>4, JoinedIs DEF Named
  <2> QED BY <2>1, <2>5 DEF Reads, OperandPlaces
<1>7. CASE WidthDot
  <2>1. /\ at = "width" /\ at' = "widthValue" /\ Continues /\ Advance /\ ~reported
        /\ Peeked.type = "DOT" /\ item' = item
    BY <1>0, <1>7 DEF WidthDot, HasWidth, Begins, Idle
  <2>2. Taken \in Named(item)
    BY <1>0, <2>1 DEF Reads, Idle
  <2>3. Taken' = Taken \o <<Mark("DOT")>>
    BY <1>0, <2>1, Takes, SeenIs DEF Punctuation
  <2>4. Taken' \in Joined(Named(item'), {<<Mark("DOT")>>})
    BY <2>1, <2>2, <2>3, JoinOne
  <2> QED BY <2>1, <2>4 DEF Reads, OperandPlaces
<1>8. CASE WidthValue
  <2>1. /\ at = "widthValue" /\ at' = "wcfr" /\ Continues /\ Advance /\ ~reported
        /\ Peeked.lexeme \in DOMAIN WidthNames
    BY <1>0, <1>8 DEF WidthValue, Begins, Idle
  <2>2. Peeked = Tok("IMM_INT", Peeked.lexeme)
    <3>1. Peeked.type = "IMM_INT"
      BY <1>0, <2>1 DEF LineInv, PlaceInv, Peeked
    <3> QED BY <1>0, <3>1, SeenIs DEF Lexed
  <2>3. /\ item'.width = WidthNames[Peeked.lexeme] /\ item'.pred = item.pred
        /\ item'.opcode = item.opcode
    BY <1>0, <1>8, <2>1 DEF WidthValue, ParsedItem
  <2>4. Taken \in Joined(Named(item), {<<Mark("DOT")>>})
    BY <1>0, <2>1 DEF Reads, Idle
  <2>5. /\ Named(item) \in SUBSET Seq(Symbol) /\ <<Mark("DOT")>> \in Seq(Symbol)
        /\ Peeked \in Symbol
    BY <1>0, BeginningType, MarkFacts, SeenIs DEF Punctuation
  <2>6. PICK s \in Named(item) : Taken \o <<Peeked>> = s \o (<<Mark("DOT")>> \o <<Peeked>>)
    BY <2>4, <2>5, JoinMore
  <2>7. <<Mark("DOT")>> \o <<Peeked>> = <<Mark("DOT"), Tok("IMM_INT", Peeked.lexeme)>>
    BY <2>2, ShortConcat
  <2>8. Taken' = s \o <<Mark("DOT"), Tok("IMM_INT", Peeked.lexeme)>>
    BY <1>0, <2>1, <2>6, <2>7, Takes
  <2>9. <<Mark("DOT"), Tok("IMM_INT", Peeked.lexeme)>> \in Sized(item'.width)
    BY <2>1, <2>3, TableFacts DEF Sized
  <2>10. s \in Named(item')
    BY <2>3, <2>6 DEF Named
  <2>11. Taken' \in Joined(Named(item'), Sized(item'.width))
    BY <2>8, <2>9, <2>10, JoinedIs
  <2> QED BY <2>1, <2>11 DEF Reads, OperandPlaces
<1>9. CASE NoWidthGiven
  <2>1. /\ at = "width" /\ at' = "wcfr" /\ Continues /\ Stay /\ ~reported /\ item' = item
    BY <1>0, <1>9 DEF NoWidthGiven, Begins, Idle
  <2>2. Taken' \in Named(item) /\ Sized(item.width) = {<<>>}
    BY <1>0, <2>1, Takes DEF Reads, Idle, KindInv, Sized, InstrPlaces
  <2>3. Joined(Named(item), {<<>>}) = Named(item)
    BY <1>0, BeginningType, JoinedNone
  <2> QED BY <2>1, <2>2, <2>3 DEF Reads, OperandPlaces
<1>10. CASE Wcfr
  <2>1. at = "wcfr" /\ at' = "first" /\ Continues /\ ~reported /\ item.kind = "instr"
        /\ item.wcfr = "none"
    BY <1>0, <1>10 DEF Wcfr, Begins, Idle, KindInv, InstrPlaces
  <2>2. Taken \in Joined(Named(item), Sized(item.width)) /\ Taken \in Seq(Token)
    BY <1>0, <2>1, Takes DEF Reads, Idle
  <2>3. \E t \in Marked(item'.wcfr) : Taken' = Taken \o t
    <3>1. CASE Stay
      <4>1. item' = item /\ Taken' = Taken /\ Taken \o <<>> = Taken
        BY <1>0, <1>10, <2>1, <2>2, <3>1, Takes, ConcatFacts DEF Wcfr, Advance, Stay
      <4>2. Marked(item'.wcfr) = {<<>>}
        BY <2>1, <4>1 DEF Marked
      <4> QED BY <4>1, <4>2
    <3>2. CASE Advance
      <4>1. Taken' = Taken \o <<Peeked>>
        BY <1>0, <2>1, <3>2, Takes
      <4>2. \/ Peeked.type = "QUESTION" /\ item'.wcfr = "stat"
            \/ Peeked.type = "EXCLAMATION" /\ item'.wcfr = "full"
        BY <1>0, <1>10, <3>2 DEF Wcfr, Advance, Stay, ParsedItem
      <4>3. <<Peeked>> \in Marked(item'.wcfr)
        BY <1>0, <4>2, SeenIs DEF Marked, Punctuation
      <4> QED BY <4>1, <4>3
    <3> QED BY <3>1, <3>2 DEF Decides
  <2>4. /\ item'.kind = "instr" /\ item'.pred = item.pred /\ item'.opcode = item.opcode
        /\ item'.width = item.width
    BY <1>0, <1>10, <2>1 DEF Wcfr, ParsedItem
  <2>5. Taken' \in Joined(Joined(Named(item'), Sized(item'.width)), Marked(item'.wcfr))
    BY <2>2, <2>3, <2>4, JoinedIs DEF Named
  <2>6. Taken' \in Beginning(item')
    BY <2>4, <2>5 DEF Beginning, Named
  <2> QED BY <2>1, <2>6 DEF Reads, OperandPlaces
<1> QED BY <1>1, <1>2, <1>3, <1>4, <1>5, <1>6, <1>7, <1>8, <1>9, <1>10 DEF ParseInstruction

\* An operand that is read is one more to the operands the item has.
LEMMA PushReads ==
  ASSUME TypeInv, ~NoRoom, NEW op \in ReadOperand, Push(op),
         NEW before \in BeforeOperand(item), NEW said \in OperandSentences(op),
         Taken' = before \o said
  PROVE  Taken' \in Followed(Beginning(item'), item'.operands)
<1>1. item \in ParsedItem /\ item.operands \in Seq(ReadOperand)
  BY Before DEF ParsedItem
<1>2. /\ item'.kind = item.kind /\ item'.dir = item.dir /\ item'.pred = item.pred
      /\ item'.opcode = item.opcode /\ item'.width = item.width /\ item'.wcfr = item.wcfr
      /\ item'.operands = Append(item.operands, op)
  BY PushSays
<1>3. Beginning(item') = Beginning(item)
  BY <1>2 DEF Beginning
<1> DEFINE start == Beginning(item)
           opnds == item.operands
<1>4. start \in SUBSET Seq(Symbol)
  BY <1>1, BeginningType
<1>5. before \in IF opnds = <<>> THEN start ELSE Joined(Followed(start, opnds), Comma)
  BY DEF BeforeOperand
<1>6. opnds \in Seq(ReadOperand)
  BY <1>1
<1> HIDE DEF start, opnds
<1>7. Followed(start, Append(opnds, op))
        = Joined(IF opnds = <<>> THEN start ELSE Joined(Followed(start, opnds), Comma),
                 OperandSentences(op))
  BY <1>4, <1>6, FollowedAppend
<1>8. before \o said \in Followed(start, Append(opnds, op))
  BY <1>5, <1>7, JoinedHas
<1> QED BY <1>2, <1>3, <1>8 DEF start, opnds

\* What comes before an operand is a sequence of symbols.
LEMMA BeforeOperandType ==
  ASSUME NEW it \in ParsedItem
  PROVE  BeforeOperand(it) \in SUBSET Seq(Symbol)
<1>1. it.operands \in Seq(ReadOperand) /\ Beginning(it) \in SUBSET Seq(Symbol)
  BY BeginningType DEF ParsedItem
<1>2. Followed(Beginning(it), it.operands) \in SUBSET Seq(Symbol)
  BY <1>1, FollowedType
<1>3. Joined(Followed(Beginning(it), it.operands), Comma) \in SUBSET Seq(Symbol)
  BY <1>2, CommaType, JoinedType
<1> QED BY <1>1, <1>3 DEF BeforeOperand

\* parse_directive, and the commas.
LEMMA ListReads ==
  ASSUME ReadState, Decides, Turns,
         DirectiveName \/ NoOperands \/ SomeOperands \/ NextOperand \/ LastOperand
  PROVE  ReadInv'
<1> SUFFICES ASSUME at' \notin Idle, ~reported' PROVE Reads'
  BY DEF ReadInv
<1>0. /\ TypeInv /\ LineInv /\ KindInv /\ item \in ParsedItem
      /\ (at \notin Idle /\ ~reported => Reads)
      /\ Begins \/ Continues
  BY Before DEF ReadState, LineInv, ItemInv, ReadInv, Turns, Idles
<1> USE DEF At, Goto, Keep, Report, Sees
<1>1. CASE DirectiveName
  <2>1. /\ at = "directiveName" /\ at' = "first" /\ Continues /\ Advance /\ ~reported
        /\ Peeked.type = "IDENT" /\ Peeked.lexeme \in Directives
    BY <1>0, <1>1 DEF DirectiveName, Expect, Begins, Idle
  <2>2. item'.dir = Peeked.lexeme /\ item'.kind = "directive"
    BY <1>0, <1>1, <2>1 DEF DirectiveName, ParsedItem, KindInv
  <2>3. Taken = <<Mark("PERCENT")>>
    BY <1>0, <2>1 DEF Reads, Idle
  <2>4. Taken' = <<Mark("PERCENT"), Ident(item'.dir)>>
    BY <1>0, <2>1, <2>2, <2>3, Takes, SeenIs, ShortConcat
  <2>5. Taken' \in Beginning(item')
    BY <2>2, <2>4 DEF Beginning
  <2> QED BY <2>1, <2>5 DEF Reads, OperandPlaces
<1>2. CASE NoOperands
  <2>1. /\ at = "first" /\ at' = "add" /\ Continues /\ Stay /\ ~reported
        /\ item' = item /\ item.kind = "instr" /\ item.operands = <<>>
    BY <1>0, <1>2 DEF NoOperands, Begins, Idle, KindInv
  <2>2. Taken' \in Beginning(item)
    BY <1>0, <2>1, Takes DEF Reads, Idle
  <2>3. Followed(Beginning(item), <<>>) = Beginning(item)
    BY <1>0, BeginningType, FollowedNone
  <2>4. Taken' \in Sentences(item')
    BY <2>1, <2>2, <2>3 DEF Sentences
  <2> QED BY <2>1, <2>4 DEF Reads, OperandPlaces
<1>3. CASE SomeOperands
  <2>1. /\ at = "first" /\ at' = "operand" /\ Continues /\ Stay /\ ~reported
        /\ item' = item /\ item.operands = <<>>
    BY <1>0, <1>3 DEF SomeOperands, Begins, Idle, KindInv
  <2>2. Taken' \in Beginning(item)
    BY <1>0, <2>1, Takes DEF Reads, Idle
  <2>3. ~NoRoom
    BY <2>1 DEF NoRoom, MaxOperands
  <2>4. Taken' \in BeforeOperand(item')
    BY <2>1, <2>2 DEF BeforeOperand
  <2> QED BY <2>1, <2>3, <2>4 DEF Reads, OperandPlaces, NoRoom
<1>4. CASE NextOperand
  <2>1. /\ at = "comma" /\ at' = "operand" /\ Continues /\ Advance /\ ~reported /\ ~NoRoom
        /\ item' = item /\ item.operands # <<>> /\ Peeked.type = "COMMA"
    BY <1>0, <1>4 DEF NextOperand, Begins, Idle, KindInv
  <2>2. Taken' = Taken \o <<Mark("COMMA")>>
    BY <1>0, <2>1, Takes, SeenIs DEF Punctuation
  <2>3. Taken \in Followed(Beginning(item), item.operands)
    BY <1>0, <2>1 DEF Reads, Idle
  <2>4. Taken' \in BeforeOperand(item')
    BY <2>1, <2>2, <2>3, JoinedIs DEF BeforeOperand, Comma
  <2> QED BY <2>1, <2>4 DEF Reads, OperandPlaces, NoRoom
<1>5. CASE LastOperand
  <2>1. /\ at = "comma" /\ at' = "add" /\ Continues /\ Stay /\ ~reported
        /\ item' = item /\ item.operands # <<>> /\ item.kind \in {"instr", "directive"}
    BY <1>0, <1>5 DEF LastOperand, Begins, Idle, KindInv
  <2>2. Taken' \in Followed(Beginning(item), item.operands)
    BY <1>0, <2>1, Takes DEF Reads, Idle
  <2>3. Taken' \in Sentences(item')
    BY <2>1, <2>2 DEF Sentences
  <2> QED BY <2>1, <2>3 DEF Reads, OperandPlaces
<1> QED BY <1>1, <1>2, <1>3, <1>4, <1>5

\* parse_operand and parse_register.
LEMMA OperandReads ==
  ASSUME ReadState, Decides, Turns,
         \/ LocalOperand \/ LocalOperandName \/ StringOperand \/ IntOperand \/ CharOperand
         \/ LabelOperand \/ RegisterOperand \/ ExpectedOperand
         \/ NoSuffix \/ SuffixColon \/ SuffixName
  PROVE  ReadInv'
<1> SUFFICES ASSUME at' \notin Idle, ~reported' PROVE Reads'
  BY DEF ReadInv
<1>0. /\ TypeInv /\ LineInv /\ KindInv /\ item \in ParsedItem
      /\ (at \notin Idle /\ ~reported => Reads)
      /\ Begins \/ Continues
      /\ BeforeOperand(item) \in SUBSET Seq(Symbol)
  BY Before, BeforeOperandType DEF ReadState, LineInv, ItemInv, ReadInv, Turns, Idles
<1> USE OperandTypes DEF At, Goto, Keep, Report, Sees
<1>1. ASSUME NEW op \in ReadOperand, Push(op), ~NoRoom,
             \E b \in BeforeOperand(item), s \in OperandSentences(op) : Taken' = b \o s
      PROVE  Reads'
  <2>1. at' = "comma"
    BY <1>1 DEF Push
  <2>2. PICK b \in BeforeOperand(item), s \in OperandSentences(op) : Taken' = b \o s
    BY <1>1
  <2>3. Taken' \in Followed(Beginning(item'), item'.operands)
    BY <1>0, <1>1, <2>2, PushReads
  <2> QED BY <2>1, <2>3 DEF Reads, OperandPlaces
<1>2. at = "operand" /\ Continues /\ Advance /\ ~reported
        => /\ Taken \in BeforeOperand(item) /\ Taken' = Taken \o <<Peeked>> /\ ~NoRoom
  BY <1>0, Takes DEF Reads, Idle, OperandPlaces
<1>3. CASE LocalOperand
  <2>1. /\ at = "operand" /\ at' = "localName" /\ Continues /\ Advance /\ ~reported
        /\ Peeked.type = "DOT" /\ item' = item
    BY <1>0, <1>3 DEF LocalOperand, Begins, Idle
  <2>2. Taken' \in Joined(BeforeOperand(item), {<<Mark("DOT")>>})
    <3>1. Peeked = Mark("DOT")
      BY <1>0, <2>1, SeenIs DEF Punctuation
    <3> QED BY <1>2, <2>1, <3>1, JoinOne
  <2>3. ~NoRoom'
    BY <1>2, <2>1 DEF NoRoom
  <2> QED BY <2>1, <2>2, <2>3 DEF Reads
<1>4. CASE LocalOperandName
  <2>1. /\ at = "localName" /\ Continues /\ Advance /\ ~reported /\ Peeked.type = "IDENT"
        /\ Push(Label(Peeked.lexeme, TRUE))
    BY <1>0, <1>4 DEF LocalOperandName, Expect, Begins, Idle
  <2>2. Taken \in Joined(BeforeOperand(item), {<<Mark("DOT")>>}) /\ ~NoRoom
    BY <1>0, <2>1 DEF Reads, Idle, OperandPlaces
  <2>3. <<Mark("DOT")>> \in Seq(Symbol) /\ Peeked \in Symbol
    BY <1>0, MarkFacts, SeenIs DEF Punctuation
  <2>4. PICK b \in BeforeOperand(item) : Taken \o <<Peeked>> = b \o (<<Mark("DOT")>> \o <<Peeked>>)
    BY <1>0, <2>2, <2>3, JoinMore
  <2>5. <<Mark("DOT")>> \o <<Peeked>> = <<Mark("DOT"), Ident(Peeked.lexeme)>>
    BY <1>0, <2>1, SeenIs, ShortConcat
  <2>6. Taken' = b \o <<Mark("DOT"), Ident(Peeked.lexeme)>>
    BY <1>0, <2>1, <2>4, <2>5, Takes
  <2>7. <<Mark("DOT"), Ident(Peeked.lexeme)>> \in OperandSentences(Label(Peeked.lexeme, TRUE))
    BY DEF OperandSentences, Label
  <2>8. Label(Peeked.lexeme, TRUE) \in ReadOperand
    BY <1>0, SeenIs
  <2> QED BY <1>1, <2>1, <2>2, <2>6, <2>7, <2>8
<1>5. CASE StringOperand
  <2> DEFINE op == [kind |-> "str", lexeme |-> Peeked.lexeme]
  <2>1. /\ at = "operand" /\ Continues /\ Advance /\ ~reported /\ Push(op)
        /\ Peeked.type = "IMM_STR"
    BY <1>0, <1>5 DEF StringOperand, Begins, Idle
  <2>2. op \in ReadOperand /\ Peeked = Tok("IMM_STR", Peeked.lexeme)
    BY <1>0, <2>1, SeenIs DEF Lexed
  <2>3. <<Peeked>> \in OperandSentences(op)
    BY <2>2 DEF OperandSentences
  <2> HIDE DEF op
  <2> QED BY <1>1, <1>2, <2>1, <2>2, <2>3
<1>6. ASSUME NEW valid, Literal(valid), At("operand") PROVE Reads'
  <2>1. /\ at = "operand" /\ Continues /\ Advance /\ ~reported /\ Peeked.lexeme \in valid
        /\ Push(Imm(Peeked))
    BY <1>0, <1>6 DEF Literal, Begins, Idle
  <2>2. Imm(Peeked) \in ReadOperand
    BY <1>0, SeenIs
  <2>3. <<Peeked>> \in OperandSentences(Imm(Peeked))
    BY DEF OperandSentences, Imm
  <2> QED BY <1>1, <1>2, <2>1, <2>2, <2>3
<1>7. CASE IntOperand
  BY <1>6, <1>7 DEF IntOperand
<1>8. CASE CharOperand
  BY <1>6, <1>8 DEF CharOperand
<1>9. CASE LabelOperand
  <2>1. /\ at = "operand" /\ Continues /\ Advance /\ ~reported /\ Peeked.type = "IDENT"
        /\ Push(Label(Peeked.lexeme, FALSE))
    BY <1>0, <1>9 DEF LabelOperand, Begins, Idle
  <2>2. Label(Peeked.lexeme, FALSE) \in ReadOperand /\ Peeked = Ident(Peeked.lexeme)
    BY <1>0, <2>1, SeenIs
  <2>3. <<Peeked>> \in OperandSentences(Label(Peeked.lexeme, FALSE))
    BY <2>2 DEF OperandSentences, Label
  <2> QED BY <1>1, <1>2, <2>1, <2>2, <2>3
<1>10. CASE RegisterOperand
  <2>1. /\ at = "operand" /\ at' = "suffix" /\ Continues /\ Advance /\ ~reported
        /\ Peeked.type = "IDENT" /\ item' = item /\ held' = Peeked.lexeme
    BY <1>0, <1>10 DEF RegisterOperand, Begins, Idle
  <2>2. Taken' \in Joined(BeforeOperand(item), {<<Ident(held')>>})
    <3>1. Peeked = Ident(held')
      BY <1>0, <2>1, SeenIs
    <3> QED BY <1>2, <2>1, <3>1, JoinOne
  <2>3. ~NoRoom'
    BY <1>2, <2>1 DEF NoRoom
  <2> QED BY <2>1, <2>2, <2>3 DEF Reads
<1>11. CASE ExpectedOperand
  BY <1>11 DEF ExpectedOperand
<1>12. CASE NoSuffix
  <2>1. /\ at = "suffix" /\ Continues /\ Stay /\ ~reported /\ Push(Lane(held, WholeRegister))
    BY <1>0, <1>12 DEF NoSuffix, Begins, Idle
  <2>2. Taken \in Joined(BeforeOperand(item), {<<Ident(held)>>}) /\ ~NoRoom
    BY <1>0, <2>1 DEF Reads, Idle, OperandPlaces
  <2>3. \E b \in BeforeOperand(item) : Taken = b \o <<Ident(held)>>
    BY <2>2, JoinedOne
  <2>4. Taken' = Taken
    BY <1>0, <2>1, Takes
  <2>5. <<Ident(held)>> \in OperandSentences(Lane(held, WholeRegister))
    BY DEF OperandSentences, Lane, WholeRegister
  <2>6. Lane(held, WholeRegister) \in ReadOperand
    BY <1>0, Before
  <2> QED BY <1>1, <2>1, <2>2, <2>3, <2>4, <2>5, <2>6
<1>13. CASE SuffixColon
  <2>1. /\ at = "suffix" /\ at' = "suffixName" /\ Continues /\ Advance /\ ~reported
        /\ Peeked.type = "COLON" /\ item' = item /\ held' = held
    BY <1>0, <1>13 DEF SuffixColon, Begins, Idle
  <2>2. Taken \in Joined(BeforeOperand(item), {<<Ident(held)>>}) /\ ~NoRoom
    BY <1>0, <2>1 DEF Reads, Idle, OperandPlaces
  <2>3. <<Ident(held)>> \in Seq(Symbol) /\ Peeked \in Symbol
    BY <1>0, Before, TableFacts, MarkFacts, SeenIs
  <2>4. PICK b \in BeforeOperand(item) : Taken \o <<Peeked>> = b \o (<<Ident(held)>> \o <<Peeked>>)
    BY <1>0, <2>2, <2>3, JoinMore
  <2>5. <<Ident(held)>> \o <<Peeked>> = <<Ident(held), Mark("COLON")>>
    BY <1>0, <2>1, SeenIs, ShortConcat DEF Punctuation
  <2>6. Taken' = b \o <<Ident(held), Mark("COLON")>>
    BY <1>0, <2>1, <2>4, <2>5, Takes
  <2>7. Taken' \in Joined(BeforeOperand(item), {<<Ident(held), Mark("COLON")>>})
    BY <2>6, JoinOne
  <2>8. ~NoRoom'
    BY <2>1, <2>2 DEF NoRoom
  <2> QED BY <2>1, <2>7, <2>8 DEF Reads
<1>14. CASE SuffixName
  <2> DEFINE op == Lane(held, Part(Peeked.lexeme))
  <2>1. /\ at = "suffixName" /\ Continues /\ Advance /\ ~reported /\ Peeked.type = "IDENT"
        /\ Peeked.lexeme \in DOMAIN Lanes /\ Push(op)
    BY <1>0, <1>14 DEF SuffixName, Expect, Begins, Idle
  <2>2. Taken \in Joined(BeforeOperand(item), {<<Ident(held), Mark("COLON")>>}) /\ ~NoRoom
    BY <1>0, <2>1 DEF Reads, Idle, OperandPlaces
  <2>3. <<Ident(held), Mark("COLON")>> \in Seq(Symbol) /\ Peeked \in Symbol
    <3>1. Ident(held) \in Symbol /\ Mark("COLON") \in Symbol
      BY <1>0, Before, TableFacts, MarkFacts DEF Punctuation
    <3> QED BY <1>0, <3>1, SeenIs, ConcatFacts
  <2>4. PICK b \in BeforeOperand(item) :
          Taken \o <<Peeked>> = b \o (<<Ident(held), Mark("COLON")>> \o <<Peeked>>)
    BY <1>0, <2>2, <2>3, JoinMore
  <2>5. <<Ident(held), Mark("COLON")>> \o <<Peeked>>
          = <<Ident(held), Mark("COLON"), Ident(Peeked.lexeme)>>
    BY <1>0, <2>1, SeenIs, ShortConcat
  <2>6. Taken' = b \o <<Ident(held), Mark("COLON"), Ident(Peeked.lexeme)>>
    BY <1>0, <2>1, <2>4, <2>5, Takes
  <2>7. op \in ReadOperand
    BY <1>0, Before, SeenIs
  <2>8. /\ op.kind = "reg" /\ op.id = held
        /\ Lanes[Peeked.lexeme] = <<op.width, op.lane>>
    BY <2>1, TableFacts DEF Lane, Part
  <2>9. <<Ident(held), Mark("COLON"), Ident(Peeked.lexeme)>> \in OperandSentences(op)
    BY <2>1, <2>8 DEF OperandSentences
  <2> HIDE DEF op
  <2> QED BY <1>1, <2>1, <2>2, <2>6, <2>7, <2>9
<1> QED BY <1>3, <1>4, <1>5, <1>7, <1>8, <1>9, <1>10, <1>11, <1>12, <1>13, <1>14

\* Every step reads on.
LEMMA StepRead == ReadState /\ [Next]_vars => ReadInv'
<1> SUFFICES ASSUME ReadState, [Next]_vars PROVE ReadInv'
  OBVIOUS
<1>1. TypeInv /\ PlaceInv /\ ReadInv
  BY DEF ReadState, LineInv
<1>2. CASE FillLookahead \/ UNCHANGED vars
  <2>1. UNCHANGED <<at, item, held, heard, reported>>
    BY <1>2 DEF FillLookahead, vars
  <2>2. Taken' = Taken /\ NoRoom' = NoRoom
    BY <2>1 DEF Taken, NoRoom
  <2> QED BY <1>1, <2>1, <2>2 DEF ReadInv, Reads
<1>3. CASE AddItem
  BY <1>3 DEF AddItem, Goto, ReadInv, Idle
<1>4. CASE SkipNewline \/ StopAtEof \/ ParseItem
  BY <1>1, <1>4, ItemDecides, ItemTurns, ItemReads
<1>5. CASE ParseInstruction
  BY <1>1, <1>5, InstructionDecides, InstructionTurns, InstructionReads
<1>6. CASE ParseOperands
  <2>1. Decides /\ Turns
    BY <1>1, <1>6, OperandsDecide, OperandsTurn
  <2> QED BY <1>6, <2>1, ListReads, OperandReads DEF ParseOperands
<1> QED BY <1>2, <1>3, <1>4, <1>5, <1>6 DEF Next
-----------------------------------------------------------------------------
(***************************************************************************)
(* The grammar as an automaton, which one token takes from state to state: *)
(* a state is a place in a sentence and the number of operands before it,  *)
(* or Many in a directive, which may have any number.  The sentences are   *)
(* those of an item with opcode op.                                        *)
(***************************************************************************)
Many        == -1
More(n)     == IF n = Many THEN Many ELSE n + 1
St(spot, n) == [spot |-> spot, n |-> n]
Start       == St("start", 0)
Dead        == St("dead", 0)
End         == St("end", 0)

If(good, state) == IF good THEN state ELSE Dead

FromOperand(n, x) ==
  CASE x.type = "DOT"      -> St("localName", n)
    [] x.type = "IMM_STR"  -> St("comma", More(n))
    [] x.type = "IMM_INT"  -> If(x.lexeme \in ValidInts, St("comma", More(n)))
    [] x.type = "IMM_CHAR" -> If(x.lexeme \in ValidChars, St("comma", More(n)))
    [] x.type = "IDENT"    -> IF x.lexeme \in Registers THEN St("suffix", n) ELSE St("comma", More(n))
    [] OTHER               -> Dead

FromComma(n, x) == If(x.type = "COMMA" /\ n < MaxOperands, St("operand", n))
FromWcfr(x)     == IF x.type \in {"QUESTION", "EXCLAMATION"} THEN St("first", 0) ELSE FromOperand(0, x)
FromWidth(x)    == IF x.type = "DOT" THEN St("dot", 0) ELSE FromWcfr(x)

FromStart(op, x) ==
  CASE x.type = "PERCENT" -> St("directiveName", Many)
    [] x.type = "DOT"     -> St("labelName", 0)
    [] x.type = "IDENT"   -> IF x.lexeme = "if" THEN St("if", 0)
                             ELSE IF x.lexeme = op THEN St("named", 0) ELSE St("labelColon", 0)
    [] OTHER              -> Dead

Follow(op, q, x) ==
  CASE q.spot = "start"         -> FromStart(op, x)
    [] q.spot = "directiveName" -> If(x.type = "IDENT" /\ x.lexeme \in Directives, St("operand", Many))
    [] q.spot = "labelName"     -> If(x.type = "IDENT", St("labelColon", 0))
    [] q.spot = "labelColon"    -> If(x.type = "COLON", End)
    [] q.spot = "if"            -> IF x.type = "COLON" THEN End ELSE If(x.type = "LPAREN", St("ifPred", 0))
    [] q.spot = "ifPred"        -> If(x.type = "IDENT" /\ x.lexeme \in DOMAIN Preds, St("ifClose", 0))
    [] q.spot = "ifClose"       -> If(x.type = "RPAREN", St("mnemonic", 0))
    [] q.spot = "mnemonic"      -> If(x.type = "IDENT" /\ x.lexeme = op, St("width", 0))
    [] q.spot = "named"         -> IF x.type = "COLON" THEN End ELSE FromWidth(x)
    [] q.spot = "width"         -> FromWidth(x)
    [] q.spot = "dot"           -> IF x.type = "IDENT" THEN St("comma", 1)
                                   ELSE If(x.type = "IMM_INT" /\ x.lexeme \in DOMAIN WidthNames, St("wcfr", 0))
    [] q.spot = "wcfr"          -> FromWcfr(x)
    [] q.spot \in {"first", "operand"} -> FromOperand(q.n, x)
    [] q.spot = "localName"     -> If(x.type = "IDENT", St("comma", More(q.n)))
    [] q.spot = "suffix"        -> IF x.type = "COLON" THEN St("suffixName", q.n) ELSE FromComma(More(q.n), x)
    [] q.spot = "suffixName"    -> If(x.type = "IDENT" /\ x.lexeme \in DOMAIN Lanes, St("comma", More(q.n)))
    [] q.spot = "comma"         -> FromComma(q.n, x)
    [] OTHER                    -> Dead

Accepts(q) == q.spot \in {"end", "named", "width", "wcfr", "first", "suffix", "comma"}

\* The transitions, one by one.
LEMMA FollowDead == \A op, x : Follow(op, Dead, x) = Dead
BY DEF Follow, Dead, St

\* From the start.
LEMMA FollowStart == \A op, x : Follow(op, Start, x) = FromStart(op, x)
BY DEF Follow, Start, St

\* From each place in a sentence.
LEMMA FollowSpots ==
  \A op, n, x :
    /\ Follow(op, St("directiveName", n), x)
         = If(x.type = "IDENT" /\ x.lexeme \in Directives, St("operand", Many))
    /\ Follow(op, St("labelName", n), x) = If(x.type = "IDENT", St("labelColon", 0))
    /\ Follow(op, St("labelColon", n), x) = If(x.type = "COLON", End)
    /\ Follow(op, St("if", n), x)
         = IF x.type = "COLON" THEN End ELSE If(x.type = "LPAREN", St("ifPred", 0))
    /\ Follow(op, St("ifPred", n), x)
         = If(x.type = "IDENT" /\ x.lexeme \in DOMAIN Preds, St("ifClose", 0))
    /\ Follow(op, St("ifClose", n), x) = If(x.type = "RPAREN", St("mnemonic", 0))
    /\ Follow(op, St("mnemonic", n), x) = If(x.type = "IDENT" /\ x.lexeme = op, St("width", 0))
    /\ Follow(op, St("named", n), x) = IF x.type = "COLON" THEN End ELSE FromWidth(x)
    /\ Follow(op, St("width", n), x) = FromWidth(x)
    /\ Follow(op, St("dot", n), x)
         = IF x.type = "IDENT" THEN St("comma", 1)
           ELSE If(x.type = "IMM_INT" /\ x.lexeme \in DOMAIN WidthNames, St("wcfr", 0))
    /\ Follow(op, St("wcfr", n), x) = FromWcfr(x)
    /\ Follow(op, St("first", n), x) = FromOperand(n, x)
    /\ Follow(op, St("operand", n), x) = FromOperand(n, x)
    /\ Follow(op, St("localName", n), x) = If(x.type = "IDENT", St("comma", More(n)))
    /\ Follow(op, St("suffix", n), x)
         = IF x.type = "COLON" THEN St("suffixName", n) ELSE FromComma(More(n), x)
    /\ Follow(op, St("suffixName", n), x)
         = If(x.type = "IDENT" /\ x.lexeme \in DOMAIN Lanes, St("comma", More(n)))
    /\ Follow(op, St("comma", n), x) = FromComma(n, x)
BY DEF Follow, St

(***************************************************************************)
(* Runs of the automaton: from state q the tokens of s lead to state r.    *)
(***************************************************************************)
Leads(f, op, q, s) == f[0] = q /\ \A i \in 1 .. Len(s) : f[i] = Follow(op, f[i - 1], s[i])

Runs(op, q, s, r) == \E f : Leads(f, op, q, s) /\ f[Len(s)] = r

\* A run leads to one state.
LEMMA RunsOne ==
  ASSUME NEW op, NEW q, NEW s, Len(s) \in Nat, NEW r, NEW u, Runs(op, q, s, r), Runs(op, q, s, u)
  PROVE  r = u
<1>1. PICK f : Leads(f, op, q, s) /\ f[Len(s)] = r
  BY DEF Runs
<1>2. PICK g : Leads(g, op, q, s) /\ g[Len(s)] = u
  BY DEF Runs
<1> DEFINE n == Len(s)
           S == {k \in 0 .. n : f[k] = g[k]}
<1>3. 0 \in S
  BY <1>1, <1>2 DEF Leads
<1>4. ASSUME NEW k \in 1 .. n, k - 1 \in S PROVE k \in S
  BY <1>1, <1>2, <1>4 DEF Leads
<1>5. 0 .. n \subseteq S
  <2> HIDE DEF S
  <2> QED BY <1>3, <1>4, CountInduction
<1> QED BY <1>1, <1>2, <1>5

\* No token leads nowhere, and one more token one state further.
LEMMA RunsNone ==
  ASSUME NEW op, NEW q
  PROVE  Runs(op, q, <<>>, q)
<1> DEFINE f == [k \in {0} |-> q]
<1>1. f[0] = q /\ Len(<<>>) = 0
  OBVIOUS
<1> HIDE DEF f
<1>2. Leads(f, op, q, <<>>)
  BY <1>1 DEF Leads
<1> QED BY <1>1, <1>2 DEF Runs

\* One more token leads one state further.
LEMMA RunsMore ==
  ASSUME NEW X, NEW op, NEW q, NEW s \in Seq(X), NEW r, NEW x \in X, Runs(op, q, s, r)
  PROVE  Runs(op, q, s \o <<x>>, Follow(op, r, x))
<1>1. PICK f : Leads(f, op, q, s) /\ f[Len(s)] = r
  BY DEF Runs
<1> DEFINE n == Len(s)
           t == s \o <<x>>
           g == [k \in 0 .. n + 1 |-> IF k = n + 1 THEN Follow(op, r, x) ELSE f[k]]
<1>2. n \in Nat /\ Len(t) = n + 1 /\ t[n + 1] = x /\ \A i \in 1 .. n : t[i] = s[i]
  BY ConcatFacts
<1> HIDE DEF t
<1>3. g[0] = q
  BY <1>1, <1>2 DEF Leads
<1>4. ASSUME NEW k \in 1 .. n + 1 PROVE g[k] = Follow(op, g[k - 1], t[k])
  <2>1. CASE k = n + 1
    <3>1. g[n + 1] = Follow(op, r, x) /\ g[n] = f[n]
      BY <1>2
    <3>2. k - 1 = n
      BY <1>2, <2>1
    <3> QED BY <1>1, <1>2, <2>1, <3>1, <3>2
  <2>2. CASE k # n + 1
    <3>1. k \in 1 .. n /\ k - 1 \in 0 .. n
      BY <1>2, <2>2
    <3>2. g[k] = f[k] /\ g[k - 1] = f[k - 1]
      BY <1>2, <3>1
    <3> QED BY <1>1, <1>2, <3>1, <3>2 DEF Leads
  <2> QED BY <2>1, <2>2
<1>5. g[n + 1] = Follow(op, r, x)
  BY <1>2
<1> HIDE DEF g
<1>6. Leads(g, op, q, t)
  BY <1>2, <1>3, <1>4 DEF Leads
<1> QED BY <1>2, <1>5, <1>6 DEF Runs, t

\* A run goes on from where another one ends.
LEMMA RunsOn ==
  ASSUME NEW X, NEW op, NEW q, NEW s \in Seq(X), NEW r, NEW t \in Seq(X), NEW u,
         Runs(op, q, s, r), Runs(op, r, t, u)
  PROVE  Runs(op, q, s \o t, u)
<1>1. PICK f : Leads(f, op, q, s) /\ f[Len(s)] = r
  BY DEF Runs
<1>2. PICK g : Leads(g, op, r, t) /\ g[Len(t)] = u
  BY DEF Runs
<1> DEFINE m == Len(s)
           n == Len(t)
           w == s \o t
           h == [k \in 0 .. m + n |-> IF k <= m THEN f[k] ELSE g[k - m]]
<1>3. /\ m \in Nat /\ n \in Nat /\ Len(w) = m + n
      /\ \A i \in 1 .. m : w[i] = s[i]
      /\ \A i \in m + 1 .. m + n : w[i] = t[i - m]
  BY ConcatProperties
<1> HIDE DEF w
<1>4. h[0] = q
  BY <1>1, <1>3 DEF Leads
<1>5. ASSUME NEW k \in 1 .. m + n PROVE h[k] = Follow(op, h[k - 1], w[k])
  <2>1. CASE k <= m
    <3>1. k \in 1 .. m /\ h[k] = f[k] /\ h[k - 1] = f[k - 1]
      BY <1>3, <2>1
    <3> QED BY <1>1, <1>3, <3>1 DEF Leads
  <2>2. CASE k = m + 1
    <3>1. h[k] = g[1] /\ h[k - 1] = f[m] /\ k \in m + 1 .. m + n /\ 1 \in 1 .. n /\ k - m = 1
      BY <1>3, <2>2
    <3>2. g[1] = Follow(op, g[0], t[1])
      <4>1. 1 - 1 = 0
        OBVIOUS
      <4> QED BY <1>2, <3>1, <4>1 DEF Leads
    <3> QED BY <1>1, <1>2, <1>3, <3>1, <3>2 DEF Leads
  <2>3. CASE k > m + 1
    <3>1. /\ k \in m + 1 .. m + n /\ k - m \in 1 .. n /\ k - 1 - m = k - m - 1
          /\ h[k] = g[k - m] /\ h[k - 1] = g[k - m - 1]
      BY <1>3, <2>3
    <3>2. g[k - m] = Follow(op, g[k - m - 1], t[k - m])
      BY <1>2, <3>1 DEF Leads
    <3>3. w[k] = t[k - m]
      BY <1>3, <3>1
    <3>4. h[k] = Follow(op, h[k - 1], t[k - m])
      BY <3>1, <3>2, Zenon
    <3> QED BY <3>3, <3>4, Zenon
  <2>4. k <= m \/ k = m + 1 \/ k > m + 1
    <3> HIDE DEF m, n
    <3> QED BY <1>3
  <2> QED BY <2>1, <2>2, <2>3, <2>4, Zenon
<1>6. h[m + n] = u
  <2>1. n = 0 => g[n] = r /\ h[m + n] = f[m]
    BY <1>2, <1>3 DEF Leads
  <2>2. n # 0 => h[m + n] = g[n]
    BY <1>3
  <2> QED BY <1>1, <1>2, <1>3, <2>1, <2>2
<1> HIDE DEF h
<1>7. Leads(h, op, q, w)
  BY <1>3, <1>4, <1>5 DEF Leads
<1> QED BY <1>3, <1>6, <1>7 DEF Runs, w

\* Short runs.
LEMMA RunsShort ==
  ASSUME NEW op, NEW q, NEW x, NEW y, NEW z
  PROVE  /\ Runs(op, q, <<x>>, Follow(op, q, x))
         /\ Runs(op, q, <<x, y>>, Follow(op, Follow(op, q, x), y))
         /\ Runs(op, q, <<x, y, z>>, Follow(op, Follow(op, Follow(op, q, x), y), z))
<1> DEFINE X == {x, y, z}
<1>1. x \in X /\ y \in X /\ z \in X
  OBVIOUS
<1> HIDE DEF X
<1>2. <<>> \in Seq(X) /\ <<x>> \in Seq(X) /\ <<x, y>> \in Seq(X)
  BY <1>1
<1>3. Runs(op, q, <<>>, q)
  BY RunsNone
<1>4. Runs(op, q, <<x>>, Follow(op, q, x))
  <2>1. Runs(op, q, <<>> \o <<x>>, Follow(op, q, x))
    BY <1>1, <1>2, <1>3, RunsMore
  <2>2. <<>> \o <<x>> = <<x>>
    BY ShortConcat
  <2> QED BY <2>1, <2>2
<1>5. Runs(op, q, <<x, y>>, Follow(op, Follow(op, q, x), y))
  <2>1. Runs(op, q, <<x>> \o <<y>>, Follow(op, Follow(op, q, x), y))
    BY <1>1, <1>2, <1>4, RunsMore
  <2>2. <<x>> \o <<y>> = <<x, y>>
    BY ShortConcat
  <2> QED BY <2>1, <2>2
<1>6. Runs(op, q, <<x, y, z>>, Follow(op, Follow(op, Follow(op, q, x), y), z))
  <2>1. Runs(op, q, <<x, y>> \o <<z>>, Follow(op, Follow(op, Follow(op, q, x), y), z))
    BY <1>1, <1>2, <1>5, RunsMore
  <2>2. <<x, y>> \o <<z>> = <<x, y, z>>
    BY ShortConcat
  <2> QED BY <2>1, <2>2
<1> QED BY <1>4, <1>5, <1>6

(***************************************************************************)
(* The automaton accepts every sentence.                                   *)
(***************************************************************************)
AfterName        == {St("named", 0), St("width", 0)}
AfterWidth       == AfterName \union {St("wcfr", 0)}
AfterBeginning   == AfterWidth \union {St("first", 0)}
OperandStart(n)  == {St("operand", n)} \union IF n = 0 THEN AfterBeginning ELSE {}
AfterOperand(n)  == {St("comma", n)} \union {St("suffix", m) : m \in {m \in Nat \union {Many} : More(m) = n}}
Listed(it, k)    == IF it.kind = "directive" THEN Many ELSE k

\* What a sentence may be about.
Sound(it) ==
  /\ it \in ParsedItem /\ it.kind # "none" /\ it.opcode # "if"
  /\ it.kind = "instr" => Len(it.operands) <= MaxOperands
  /\ \A i \in DOMAIN it.operands : GoodOperand(it.operands[i])

\* The predicate and the mnemonic are read.
LEMMA NamedRuns ==
  ASSUME NEW it \in ParsedItem, it.opcode # "if", NEW s \in Named(it)
  PROVE  \E r \in AfterName : Runs(it.opcode, Start, s, r)
<1> DEFINE op == it.opcode
<1>0. op \in Lexeme
  BY DEF ParsedItem
<1>1. PICK t \in Predicated(it.pred) : s = t \o <<Ident(op)>>
  BY JoinedOne DEF Named
<1> HIDE DEF op
<1>2. Ident(op).type = "IDENT" /\ Ident(op).lexeme = op /\ op # "if"
  BY MarkFacts DEF op
<1>3. CASE t = <<>>
  <2>1. s = <<Ident(op)>>
    BY <1>1, <1>3, ShortConcat
  <2>2. Follow(op, Start, Ident(op)) = St("named", 0)
    BY <1>2, FollowStart DEF FromStart
  <2>3. Runs(op, Start, s, St("named", 0))
    BY <2>1, <2>2, RunsShort
  <2> QED BY <2>3 DEF AfterName, op
<1>4. ASSUME NEW n \in DOMAIN Preds,
             t = <<Ident("if"), Mark("LPAREN"), Ident(n), Mark("RPAREN")>>
      PROVE  \E r \in AfterName : Runs(it.opcode, Start, s, r)
  <2>1. Follow(op, Start, Ident("if")) = St("if", 0)
    BY FollowStart, MarkFacts DEF FromStart
  <2>2. Follow(op, St("if", 0), Mark("LPAREN")) = St("ifPred", 0)
    BY FollowSpots, MarkFacts DEF If
  <2>3. Follow(op, St("ifPred", 0), Ident(n)) = St("ifClose", 0)
    BY FollowSpots, MarkFacts DEF If
  <2>4. Follow(op, St("ifClose", 0), Mark("RPAREN")) = St("mnemonic", 0)
    BY FollowSpots, MarkFacts DEF If
  <2>5. Follow(op, St("mnemonic", 0), Ident(op)) = St("width", 0)
    BY <1>2, FollowSpots DEF If
  <2>6. Runs(op, Start, <<Ident("if"), Mark("LPAREN"), Ident(n)>>, St("ifClose", 0))
    BY <2>1, <2>2, <2>3, RunsShort
  <2>7. /\ Ident("if") \in Symbol /\ Mark("LPAREN") \in Symbol /\ Ident(n) \in Symbol
        /\ Mark("RPAREN") \in Symbol /\ Ident(op) \in Symbol
    BY <1>0, MarkFacts, TableFacts DEF Punctuation
  <2>8. <<Ident("if"), Mark("LPAREN"), Ident(n)>> \in Seq(Symbol)
    BY <2>7, ThreeType
  <2>9. t = <<Ident("if"), Mark("LPAREN"), Ident(n)>> \o <<Mark("RPAREN")>>
    BY <1>4, ShortConcat
  <2>10. Runs(op, Start, t, St("mnemonic", 0))
    BY <2>4, <2>6, <2>7, <2>8, <2>9, RunsMore
  <2>11. t \in Seq(Symbol)
    BY <2>7, <2>8, <2>9, ConcatFacts
  <2>12. Runs(op, Start, s, St("width", 0))
    BY <1>1, <2>5, <2>7, <2>10, <2>11, RunsMore
  <2> QED BY <2>12 DEF AfterName, op
<1> QED BY <1>1, <1>3, <1>4 DEF Predicated

\* The width is read.
LEMMA SizedRuns ==
  ASSUME NEW op, NEW q \in AfterName, NEW width, NEW s \in Sized(width)
  PROVE  \E r \in AfterWidth : Runs(op, q, s, r)
<1>1. CASE s = <<>>
  BY <1>1, RunsNone DEF AfterWidth
<1>2. ASSUME NEW w \in DOMAIN WidthNames, s = <<Mark("DOT"), Tok("IMM_INT", w)>>
      PROVE  \E r \in AfterWidth : Runs(op, q, s, r)
  <2>1. Follow(op, q, Mark("DOT")) = St("dot", 0)
    BY FollowSpots, MarkFacts DEF AfterName, FromWidth
  <2>2. Follow(op, St("dot", 0), Tok("IMM_INT", w)) = St("wcfr", 0)
    BY FollowSpots, MarkFacts DEF If
  <2>3. Runs(op, q, s, St("wcfr", 0))
    BY <1>2, <2>1, <2>2, RunsShort
  <2> QED BY <2>3 DEF AfterWidth
<1> QED BY <1>1, <1>2 DEF Sized

\* The mark for the conditions is read.
LEMMA MarkedRuns ==
  ASSUME NEW op, NEW q \in AfterWidth, NEW wcfr \in {"none", "stat", "full"}, NEW s \in Marked(wcfr)
  PROVE  \E r \in AfterBeginning : Runs(op, q, s, r)
<1>1. CASE s = <<>>
  BY <1>1, RunsNone DEF AfterBeginning
<1>2. ASSUME NEW type \in {"QUESTION", "EXCLAMATION"}, s = <<Mark(type)>>
      PROVE  \E r \in AfterBeginning : Runs(op, q, s, r)
  <2>1. Follow(op, q, Mark(type)) = St("first", 0)
    BY FollowSpots, MarkFacts DEF AfterWidth, AfterName, FromWidth, FromWcfr
  <2>2. Runs(op, q, s, St("first", 0))
    BY <1>2, <2>1, RunsShort
  <2> QED BY <2>2 DEF AfterBeginning
<1>3. s = <<>> \/ s = <<Mark("QUESTION")>> \/ s = <<Mark("EXCLAMATION")>>
  BY DEF Marked
<1> QED BY <1>1, <1>2, <1>3

\* All that comes before the operands is read.
LEMMA BeginningRuns ==
  ASSUME NEW it \in ParsedItem, it.opcode # "if", NEW s \in Beginning(it)
  PROVE  \E r \in OperandStart(Listed(it, 0)) \ (IF it.kind = "directive" THEN {} ELSE {St("operand", 0)}) :
           Runs(it.opcode, Start, s, r)
<1>1. CASE it.kind = "directive"
  <2>1. s = <<Mark("PERCENT"), Ident(it.dir)>> /\ it.dir \in Directives
    BY <1>1 DEF Beginning, ParsedItem
  <2>2. Follow(it.opcode, Start, Mark("PERCENT")) = St("directiveName", Many)
    BY FollowStart, MarkFacts DEF FromStart
  <2>3. Follow(it.opcode, St("directiveName", Many), Ident(it.dir)) = St("operand", Many)
    BY <2>1, FollowSpots, MarkFacts DEF If
  <2>4. Runs(it.opcode, Start, s, St("operand", Many))
    BY <2>1, <2>2, <2>3, RunsShort
  <2> QED BY <1>1, <2>4 DEF OperandStart, Listed
<1>2. CASE it.kind # "directive"
  <2>1. s \in Joined(Joined(Named(it), Sized(it.width)), Marked(it.wcfr))
    BY <1>2 DEF Beginning, Named
  <2>2. PICK ab \in Joined(Named(it), Sized(it.width)), c \in Marked(it.wcfr) : s = ab \o c
    BY <2>1, JoinedIs
  <2>3. PICK a \in Named(it), b \in Sized(it.width) : ab = a \o b
    BY <2>2, JoinedIs
  <2>4. /\ a \in Seq(Symbol) /\ b \in Seq(Symbol) /\ c \in Seq(Symbol) /\ ab \in Seq(Symbol)
        /\ it.wcfr \in {"none", "stat", "full"}
    BY <2>2, <2>3, BeginningType DEF ParsedItem
  <2>5. PICK q \in AfterName : Runs(it.opcode, Start, a, q)
    BY NamedRuns
  <2>6. PICK r \in AfterWidth : Runs(it.opcode, q, b, r)
    BY SizedRuns
  <2>7. PICK u \in AfterBeginning : Runs(it.opcode, r, c, u)
    BY <2>4, MarkedRuns
  <2>8. Runs(it.opcode, Start, ab, r)
    BY <2>3, <2>4, <2>5, <2>6, RunsOn
  <2>9. Runs(it.opcode, Start, s, u)
    BY <2>2, <2>4, <2>7, <2>8, RunsOn
  <2>10. u # St("operand", 0) /\ u \in OperandStart(0)
    BY DEF AfterBeginning, AfterWidth, AfterName, St, OperandStart
  <2> QED BY <1>2, <2>9, <2>10 DEF Listed
<1> QED BY <1>1, <1>2

\* An operand is read from each state where one may begin.
LEMMA OperandRuns ==
  ASSUME NEW op, NEW n \in Nat \union {Many}, NEW q \in OperandStart(n),
         NEW opnd \in ReadOperand, GoodOperand(opnd), NEW s \in OperandSentences(opnd)
  PROVE  \E r \in AfterOperand(More(n)) : Runs(op, q, s, r)
<1>1. ASSUME NEW x, x.type \in {"IMM_STR", "IMM_INT", "IMM_CHAR", "IDENT"}
      PROVE  Follow(op, q, x) = FromOperand(n, x)
  BY <1>1, FollowSpots DEF OperandStart, AfterBeginning, AfterWidth, AfterName, FromWidth, FromWcfr
<1>2. ASSUME NEW name
      PROVE  Follow(op, q, Ident(name)) \in {St("suffix", n), St("comma", More(n))}
             /\ (name \in Registers => Follow(op, q, Ident(name)) = St("suffix", n))
  BY <1>1, MarkFacts DEF FromOperand
<1>3. St("suffix", n) \in AfterOperand(More(n)) /\ St("comma", More(n)) \in AfterOperand(More(n))
  BY DEF AfterOperand
<1>4. ASSUME NEW name, s = <<Ident(name)>>
      PROVE  \E r \in AfterOperand(More(n)) : Runs(op, q, s, r)
  <2>1. Runs(op, q, s, Follow(op, q, Ident(name)))
    BY <1>4, RunsShort
  <2> QED BY <1>2, <1>3, <2>1
<1>5. CASE opnd.kind = "reg"
  <2>1. ASSUME NEW suffix \in DOMAIN Lanes, Lanes[suffix] = <<opnd.width, opnd.lane>>,
               s = <<Ident(opnd.id), Mark("COLON"), Ident(suffix)>>
        PROVE  \E r \in AfterOperand(More(n)) : Runs(op, q, s, r)
    <3>1. opnd.id \in Registers
      <4>1. opnd = NoOperand => <<opnd.width, opnd.lane>> = <<0, 0>>
        <5>1. <<0, 0>>[1] = 0 /\ <<0, 0>>[2] = 0
          OBVIOUS
        <5>2. NoOperand.width = 0 /\ NoOperand.lane = 0
          BY <5>1 DEF NoOperand, Lane
        <5> QED BY <5>2
      <4> QED BY <1>5, <2>1, <4>1, TableFacts DEF GoodOperand
    <3>2. Follow(op, q, Ident(opnd.id)) = St("suffix", n)
      BY <1>2, <3>1
    <3>3. Follow(op, St("suffix", n), Mark("COLON")) = St("suffixName", n)
      BY FollowSpots, MarkFacts
    <3>4. Follow(op, St("suffixName", n), Ident(suffix)) = St("comma", More(n))
      BY FollowSpots, MarkFacts DEF If
    <3>5. Runs(op, q, s, St("comma", More(n)))
      BY <2>1, <3>2, <3>3, <3>4, RunsShort
    <3> QED BY <1>3, <3>5
  <2> QED BY <1>4, <1>5, <2>1 DEF OperandSentences
<1>6. CASE opnd.kind = "imm"
  <2>1. s = <<opnd.val>>
    BY <1>6 DEF OperandSentences
  <2>2. Follow(op, q, opnd.val) = St("comma", More(n))
    BY <1>1, <1>6 DEF GoodOperand, FromOperand, If
  <2>3. Runs(op, q, s, St("comma", More(n)))
    BY <2>1, <2>2, RunsShort
  <2> QED BY <1>3, <2>3
<1>7. CASE opnd.kind = "label"
  <2>1. CASE s = <<Mark("DOT"), Ident(opnd.name)>>
    <3>1. Follow(op, q, Mark("DOT")) = St("localName", n)
          \/ (Follow(op, q, Mark("DOT")) = St("dot", 0) /\ n = 0)
      BY FollowSpots, MarkFacts DEF OperandStart, AfterBeginning, AfterWidth, AfterName,
         FromWidth, FromWcfr, FromOperand
    <3>2. Follow(op, St("localName", n), Ident(opnd.name)) = St("comma", More(n))
      BY FollowSpots, MarkFacts DEF If
    <3>3. n = 0 => Follow(op, St("dot", 0), Ident(opnd.name)) = St("comma", More(n))
      BY FollowSpots, MarkFacts DEF More, Many
    <3>4. Runs(op, q, s, St("comma", More(n)))
      BY <2>1, <3>1, <3>2, <3>3, RunsShort
    <3> QED BY <1>3, <3>4
  <2> QED BY <1>4, <1>7, <2>1 DEF OperandSentences
<1>8. CASE opnd.kind = "str"
  <2>1. s = <<Tok("IMM_STR", opnd.lexeme)>>
    BY <1>8 DEF OperandSentences
  <2>2. Follow(op, q, Tok("IMM_STR", opnd.lexeme)) = St("comma", More(n))
    BY <1>1, MarkFacts DEF FromOperand
  <2>3. Runs(op, q, s, St("comma", More(n)))
    BY <2>1, <2>2, RunsShort
  <2> QED BY <1>3, <2>3
<1>9. opnd.kind \in {"reg", "imm", "label", "str"}
  <2>1. IsOperand(opnd)
    BY OperandIs
  <2>2. /\ \A name, part : Lane(name, part).kind = "reg"
        /\ \A tok : Imm(tok).kind = "imm"
        /\ \A name, is_local : Label(name, is_local).kind = "label"
        /\ \A lexeme : [kind |-> "str", lexeme |-> lexeme].kind = "str"
    BY DEF Lane, Imm, Label
  <2> QED BY <2>1, <2>2 DEF IsOperand
<1> QED BY <1>5, <1>6, <1>7, <1>8, <1>9

\* A comma leads on to the next operand, if there may be one.
LEMMA CommaRuns ==
  ASSUME NEW op, NEW n \in Nat \union {Many}, n < MaxOperands, NEW q \in AfterOperand(n)
  PROVE  Runs(op, q, <<Mark("COMMA")>>, St("operand", n))
<1>1. CASE q = St("comma", n)
  <2>1. Follow(op, q, Mark("COMMA")) = St("operand", n)
    BY <1>1, FollowSpots, MarkFacts DEF FromComma, If
  <2> QED BY <2>1, RunsShort
<1>2. ASSUME NEW m, q = St("suffix", m), More(m) = n
      PROVE  Runs(op, q, <<Mark("COMMA")>>, St("operand", n))
  <2>1. Follow(op, q, Mark("COMMA")) = St("operand", n)
    BY <1>2, FollowSpots, MarkFacts DEF FromComma, If
  <2> QED BY <2>1, RunsShort
<1> QED BY <1>1, <1>2 DEF AfterOperand

\* How many operands an item has, before and after one of them.
LEMMA ListedMore ==
  ASSUME NEW it, NEW k \in Nat
  PROVE  /\ Listed(it, k) \in Nat \union {Many}
         /\ More(Listed(it, k)) = Listed(it, k + 1)
         /\ k < MaxOperands \/ it.kind = "directive" => Listed(it, k) < MaxOperands
BY DEF Listed, More, Many, MaxOperands

\* The operands are read one by one.
LEMMA FollowedRuns ==
  ASSUME NEW it, Sound(it), it.kind # "label", NEW s \in Followed(Beginning(it), it.operands)
  PROVE  \/ /\ it.operands = <<>>
            /\ \E r \in OperandStart(Listed(it, 0))
                        \ (IF it.kind = "directive" THEN {} ELSE {St("operand", 0)}) :
                 Runs(it.opcode, Start, s, r)
         \/ \E r \in AfterOperand(Listed(it, Len(it.operands))) : Runs(it.opcode, Start, s, r)
<1> DEFINE start == Beginning(it)
           opnds == it.operands
           op    == it.opcode
           n     == Len(opnds)
<1>1. /\ it \in ParsedItem /\ opnds \in Seq(ReadOperand) /\ start \in SUBSET Seq(Symbol)
      /\ op # "if" /\ n \in Nat /\ (n <= MaxOperands \/ it.kind = "directive")
      /\ \A i \in 1 .. n : opnds[i] \in ReadOperand /\ GoodOperand(opnds[i])
  BY BeginningType DEF Sound, ParsedItem
<1>2. CASE opnds = <<>>
  <2>1. s \in start
    BY <1>1, <1>2, FollowedNone
  <2> QED BY <1>1, <1>2, <2>1, BeginningRuns
<1>3. CASE opnds # <<>>
  <2> HIDE DEF start, opnds, op, n
  <2>1. n >= 1
    BY <1>1, <1>3 DEF n
  <2>2. PICK f \in [0 .. n -> SUBSET Seq(Symbol)] : Lists(f, start, opnds)
    BY <1>1, ListsExists DEF n
  <2>3. s \in f[n]
    BY <1>1, <2>2, FollowedValue DEF start, opnds, n
  <2> DEFINE Good(k) == \A t \in f[k] : \E r \in AfterOperand(Listed(it, k)) : Runs(op, Start, t, r)
             S       == {k \in 0 .. n : k = 0 \/ Good(k)}
  <2>4. ASSUME NEW k \in 1 .. n, NEW q \in OperandStart(Listed(it, k - 1)),
               NEW a \in Seq(Symbol), Runs(op, Start, a, q), NEW b \in OperandSentences(opnds[k])
        PROVE  \E r \in AfterOperand(Listed(it, k)) : Runs(op, Start, a \o b, r)
    <3>1. k - 1 \in Nat /\ k - 1 + 1 = k /\ opnds[k] \in ReadOperand /\ GoodOperand(opnds[k])
      BY <1>1
    <3>2. Listed(it, k - 1) \in Nat \union {Many} /\ More(Listed(it, k - 1)) = Listed(it, k)
      BY <3>1, ListedMore
    <3>3. PICK r \in AfterOperand(Listed(it, k)) : Runs(op, q, b, r)
      BY <3>1, <3>2, OperandRuns
    <3>4. b \in Seq(Symbol)
      BY <3>1, OperandSentencesType
    <3>5. Runs(op, Start, a \o b, r)
      BY <2>4, <3>3, <3>4, RunsOn
    <3> QED BY <3>5
  <2>5. ASSUME NEW k \in 1 .. n, k - 1 \in S PROVE Good(k)
    <3> SUFFICES ASSUME NEW t \in f[k]
                 PROVE  \E r \in AfterOperand(Listed(it, k)) : Runs(op, Start, t, r)
      OBVIOUS
    <3>1. f[k] = WithOperand(start, k, f[k - 1], opnds[k]) /\ k - 1 \in 0 .. n
      BY <1>1, <2>2 DEF Lists, n
    <3>2. CASE k = 1
      <4>1. t \in Joined(start, OperandSentences(opnds[k]))
        BY <3>1, <3>2 DEF WithOperand
      <4>2. PICK a \in start, b \in OperandSentences(opnds[k]) : t = a \o b
        BY <4>1, JoinedIs
      <4>3. PICK q \in OperandStart(Listed(it, 0)) : Runs(op, Start, a, q)
        BY <1>1, <4>2, BeginningRuns DEF start, op
      <4>4. a \in Seq(Symbol) /\ k - 1 = 0
        BY <1>1, <3>2
      <4> QED BY <2>4, <4>2, <4>3, <4>4
    <3>3. CASE k # 1
      <4>1. k - 1 \in 1 .. n /\ k - 1 \in Nat /\ Good(k - 1)
        BY <1>1, <2>5, <3>3
      <4>2. t \in Joined(Joined(f[k - 1], Comma), OperandSentences(opnds[k]))
        BY <3>1, <3>3 DEF WithOperand
      <4> DEFINE commas == Joined(f[k - 1], Comma)
                 last   == OperandSentences(opnds[k])
      <4>a. t \in Joined(commas, last)
        BY <4>2
      <4>3. PICK ac \in commas, b \in last : t = ac \o b
        <5> HIDE DEF commas, last
        <5> QED BY <4>a, JoinedIs
      <4>4. PICK a \in f[k - 1] : ac = a \o <<Mark("COMMA")>>
        BY <4>3, JoinedOne DEF Comma
      <4>5. PICK r \in AfterOperand(Listed(it, k - 1)) : Runs(op, Start, a, r)
        BY <4>1, <4>4
      <4>6. Listed(it, k - 1) \in Nat \union {Many} /\ Listed(it, k - 1) < MaxOperands
        <5>1. k - 1 < MaxOperands \/ it.kind = "directive"
          BY <1>1 DEF MaxOperands
        <5> QED BY <4>1, <5>1, ListedMore
      <4>7. Runs(op, r, <<Mark("COMMA")>>, St("operand", Listed(it, k - 1)))
        BY <4>6, CommaRuns
      <4>8. a \in Seq(Symbol) /\ <<Mark("COMMA")>> \in Seq(Symbol)
        BY <2>2, <3>1, <4>4, CommaType DEF Comma
      <4>9. Runs(op, Start, ac, St("operand", Listed(it, k - 1))) /\ ac \in Seq(Symbol)
        BY <4>4, <4>5, <4>7, <4>8, RunsOn, ConcatFacts
      <4>10. St("operand", Listed(it, k - 1)) \in OperandStart(Listed(it, k - 1))
        BY DEF OperandStart
      <4> QED BY <2>4, <4>3, <4>9, <4>10
    <3> QED BY <3>2, <3>3
  <2>6. 0 .. n \subseteq S
    <3>1. 0 \in S
      BY <1>1
    <3>2. ASSUME NEW k \in 1 .. n, k - 1 \in S PROVE k \in S
      BY <2>5, <3>2
    <3> HIDE DEF S
    <3> QED BY <1>1, <3>1, <3>2, CountInduction
  <2>7. Good(n)
    BY <1>1, <2>1, <2>6
  <2> QED BY <2>3, <2>7 DEF op, opnds, n
<1> QED BY <1>2, <1>3

\* Every sentence leads to a state that accepts.
LEMMA SentencesRun ==
  ASSUME NEW it, Sound(it), NEW s \in Sentences(it)
  PROVE  s \in Seq(Symbol) /\ \E r : Accepts(r) /\ Runs(it.opcode, Start, s, r)
<1>0. it \in ParsedItem /\ it.kind \in {"label", "instr", "directive"} /\ it.name \in Lexeme
      /\ it.operands \in Seq(ReadOperand)
  BY DEF Sound, ParsedItem
<1>1. CASE it.kind = "label"
  <2> DEFINE op == it.opcode
             x  == Ident(it.name)
  <2>0. x \in Symbol /\ Mark("COLON") \in Symbol /\ Mark("DOT") \in Symbol
        /\ x.type = "IDENT"
    BY <1>0, TableFacts, MarkFacts DEF Punctuation
  <2>1. s = (IF it.is_local THEN <<Mark("DOT")>> ELSE <<>>) \o <<x, Mark("COLON")>>
    BY <1>1 DEF Sentences
  <2> HIDE DEF op, x
  <2>2. CASE it.is_local
    <3>1. s = <<Mark("DOT"), x, Mark("COLON")>>
      BY <2>1, <2>2, ShortConcat
    <3>2. Follow(op, Start, Mark("DOT")) = St("labelName", 0)
      BY FollowStart, MarkFacts DEF FromStart
    <3>3. Follow(op, St("labelName", 0), x) = St("labelColon", 0)
      BY <2>0, FollowSpots DEF If
    <3>4. Follow(op, St("labelColon", 0), Mark("COLON")) = End
      BY FollowSpots, MarkFacts DEF If
    <3>5. Runs(op, Start, s, End)
      BY <3>1, <3>2, <3>3, <3>4, RunsShort
    <3>6. s \in Seq(Symbol)
      BY <2>0, <3>1, ThreeType
    <3> QED BY <3>5, <3>6 DEF op, Accepts, End, St
  <2>3. CASE ~it.is_local
    <3>1. s = <<x, Mark("COLON")>>
      BY <2>1, <2>3, ShortConcat
    <3>2. Follow(op, Start, x) \in {St("if", 0), St("named", 0), St("labelColon", 0)}
      BY <2>0, FollowStart DEF FromStart
    <3>3. Follow(op, Follow(op, Start, x), Mark("COLON")) = End
      BY <3>2, FollowSpots, MarkFacts DEF If
    <3>4. Runs(op, Start, s, End)
      BY <3>1, <3>3, RunsShort
    <3>5. s \in Seq(Symbol)
      BY <2>0, <3>1, ConcatFacts
    <3> QED BY <3>4, <3>5 DEF op, Accepts, End, St
  <2> QED BY <2>2, <2>3
<1>2. CASE it.kind # "label"
  <2>1. s \in Followed(Beginning(it), it.operands) /\ ~(it.kind = "directive" /\ it.operands = <<>>)
    BY <1>2 DEF Sentences
  <2>2. s \in Seq(Symbol)
    BY <1>0, <2>1, BeginningType, FollowedType
  <2>3. \A r \in OperandStart(0) \ {St("operand", 0)} : Accepts(r)
    BY DEF OperandStart, AfterBeginning, AfterWidth, AfterName, Accepts, St
  <2>4. \A n : \A r \in AfterOperand(n) : Accepts(r)
    BY DEF AfterOperand, Accepts, St
  <2> QED BY <1>2, <2>1, <2>2, <2>3, <2>4, FollowedRuns DEF Listed
<1> QED BY <1>1, <1>2
-----------------------------------------------------------------------------
(***************************************************************************)
(* What was taken for an item leads to the state at which the parser       *)
(* stands, or, once something was reported, to one that no sentence goes   *)
(* through.  The opcode is not known before the mnemonic has been seen: it *)
(* may still be any name but "if".                                         *)
(***************************************************************************)
Ops    == IF at \in Unnamed THEN Lexeme \ {"if"} ELSE {item.opcode}
Given  == Listed(item, Len(item.operands))
Steady == lookahead_count = 2

\* The mnemonic was read; there is no width, or it was read; there is no mark
\* for the conditions, or it was read.
NameRead(q)  == q = St("width", 0) \/ (q = St("named", 0) /\ Steady /\ ~Sees({"COLON"}))
WidthRead(q) == q = St("wcfr", 0) \/ (NameRead(q) /\ Steady /\ ~HasWidth)
MarkRead(q)  == q = St("first", 0)
                \/ (WidthRead(q) /\ Steady /\ ~Sees({"QUESTION", "EXCLAMATION"}))

Stands(op, q) ==
  /\ at = "directiveName" => q = St("directiveName", Many)
  /\ at \in {"labelName", "labelColon", "ifPred", "ifClose", "mnemonic"} => q = St(at, 0)
  /\ at = "named" => q = IF held = "if" THEN St("if", 0)
                         ELSE IF held = op THEN St("named", 0) ELSE St("labelColon", 0)
  /\ at = "ifOpen"     => q = St("if", 0) /\ Steady /\ ~Sees({"COLON"})
  /\ at = "width"      => NameRead(q)
  /\ at = "widthValue" => q = St("dot", 0)
  /\ at = "wcfr"       => WidthRead(q)
  /\ at = "first"      => IF item.kind = "directive" THEN q = St("operand", Many) ELSE MarkRead(q)
  /\ at = "operand"    => q = St("operand", Given) \/ (Given = 0 /\ MarkRead(q))
  /\ at = "localName"  => \/ q = St("localName", Given)
                          \/ /\ Given = 0 /\ q = St("dot", 0)
                             /\ lookahead_count >= 1 /\ ~Sees({"IMM_INT"})
  /\ at \in {"suffix", "suffixName"} => q = St(at, Given)
  /\ at = "comma" => \/ q = St("comma", Given)
                     \/ /\ Steady /\ ~Sees({"COLON"})
                        /\ \E n : q = St("suffix", n) /\ More(n) = Given
  /\ at = "add"   => Accepts(q)

Hopeless(op, q) == q = Dead \/ (Steady /\ ~Accepts(q) /\ Follow(op, q, Peeked) = Dead)

Fits(op, q) == IF reported THEN Hopeless(op, q) ELSE Stands(op, q)

AutoInv ==
  at \notin Idle => \A op \in Ops : \E q : Runs(op, Start, Taken, q) /\ Fits(op, q)

\* From one state to the next with a decision.
Moves(op, q, r) == (Advance /\ r = Follow(op, q, Peeked)) \/ (Stay /\ r = q)

StandsOn == \A op \in Ops' : \A q, r : Stands(op, q) /\ Moves(op, q, r) => Fits(op, r)'

Goes == Ops' \subseteq Ops /\ (reported => reported') /\ (~reported => StandsOn)

\* No sentence ends at Dead.
LEMMA DeadRefuses == ~Accepts(Dead)
BY DEF Accepts, Dead, St

\* Without hope once, without hope for ever.
LEMMA NoHope ==
  ASSUME Decides, NEW op, NEW q, NEW r, Moves(op, q, r), Hopeless(op, q), reported'
  PROVE  Fits(op, r)'
<1>1. CASE Stay /\ r = q
  <2>1. Steady' = Steady /\ Peeked' = Peeked
    BY <1>1 DEF Stay, Steady, Peeked
  <2>2. Hopeless(op, r)'
    BY <1>1, <2>1 DEF Hopeless
  <2> QED BY <2>2 DEF Fits
<1>2. CASE Advance /\ r = Follow(op, q, Peeked)
  <2>1. r = Dead
    BY <1>2, FollowDead DEF Hopeless
  <2> QED BY <2>1 DEF Fits, Hopeless
<1> QED BY <1>1, <1>2 DEF Moves

\* A token that no sentence has there, reported.
LEMMA Refused ==
  ASSUME Decides, NEW op, NEW q, NEW r, Moves(op, q, r), reported',
         ~Accepts(q), Follow(op, q, Peeked) = Dead
  PROVE  Fits(op, r)'
<1>1. Hopeless(op, q)
  BY DEF Hopeless, Steady, Decides
<1> QED BY <1>1, NoHope

\* The run goes on with an item.
LEMMA GoesOn ==
  ASSUME LineInv, AutoInv, Decides, Continues, Goes
  PROVE  AutoInv'
<1>1. at \notin Idle /\ at' \notin Idle /\ reported \in BOOLEAN /\ Peeked \in Token
  BY Before DEF LineInv, Continues
<1> SUFFICES ASSUME NEW op \in Ops'
             PROVE  \E q : Runs(op, Start, Taken', q) /\ Fits(op, q)'
  BY <1>1 DEF AutoInv
<1>2. PICK q : Runs(op, Start, Taken, q) /\ Fits(op, q)
  BY <1>1 DEF AutoInv, Goes
<1>3. \E r : Moves(op, q, r) /\ Runs(op, Start, Taken', r)
  <2>1. CASE Advance
    <3>1. Taken \in Seq(Token) /\ Taken' = Taken \o <<Peeked>>
      BY <2>1, Takes
    <3>2. Runs(op, Start, Taken \o <<Peeked>>, Follow(op, q, Peeked))
      BY <1>1, <1>2, <3>1, RunsMore
    <3> QED BY <2>1, <3>1, <3>2 DEF Moves
  <2>2. CASE Stay
    <3>1. Taken' = Taken
      BY <2>2, Takes
    <3> QED BY <1>2, <2>2, <3>1 DEF Moves
  <2> QED BY <2>1, <2>2 DEF Decides
<1>4. PICK r : Moves(op, q, r) /\ Runs(op, Start, Taken', r)
  BY <1>3
<1>5. CASE reported
  <2>1. Hopeless(op, q) /\ reported'
    BY <1>2, <1>5 DEF Fits, Goes
  <2> QED BY <1>4, <2>1, NoHope
<1>6. CASE ~reported
  <2>1. Stands(op, q)
    BY <1>2, <1>6 DEF Fits
  <2> QED BY <1>4, <1>6, <2>1 DEF Goes, StandsOn
<1> QED BY <1>5, <1>6

\* The opcodes it may be are fewer and fewer.
LEMMA OpsShrink ==
  ASSUME item' \in ParsedItem, item'.opcode # "if",
         at \in Unnamed \/ (at' \notin Unnamed /\ item'.opcode = item.opcode)
  PROVE  Ops' \subseteq Ops
<1>1. item'.opcode \in Lexeme \ {"if"}
  BY DEF ParsedItem
<1> QED BY <1>1 DEF Ops

\* What the actions may use.
LEMMA Going ==
  ASSUME ReadState, ItemInv', Decides
  PROVE  /\ TypeInv /\ LineInv /\ KindInv /\ item \in ParsedItem
         /\ item' \in ParsedItem /\ item'.opcode # "if" /\ reported \in BOOLEAN
         /\ Steady
BY Before DEF ReadState, LineInv, ItemInv, KindInv, Decides, Steady

\* expect() takes the token it wants or reports.
LEMMA Expected ==
  ASSUME reported \in BOOLEAN, ~reported, NEW type, NEW rejected, Expect(type, rejected)
  PROVE  /\ Peeked.type = type => Advance
         /\ Peeked.type # type => reported'
         /\ rejected => reported'
         /\ Peeked.type = type /\ ~rejected => ~reported'
BY DEF Expect, Report, Sees

\* The same when every token of the type is right.
LEMMA Wanted ==
  ASSUME reported \in BOOLEAN, ~reported, NEW type, Expect(type, FALSE)
  PROVE  IF Peeked.type = type THEN Advance /\ ~reported' ELSE reported'
BY DEF Expect, Report, Sees

\* One thing is done with a token.
LEMMA MovesOne ==
  ASSUME TypeInv, NEW op, NEW q, NEW r, Moves(op, q, r)
  PROVE  /\ Advance => r = Follow(op, q, Peeked)
         /\ Stay => r = q
<1>1. Len(heard) \in Nat /\ heard \in Seq(Token) /\ Peeked \in Token
  BY Before
<1>2. ~(Advance /\ Stay)
  <2>1. Append(heard, Peeked) # heard
    BY <1>1
  <2> QED BY <2>1 DEF Advance, Stay
<1> QED BY <1>2 DEF Moves

\* Where a sentence may end.
LEMMA SpotsAccept ==
  /\ Accepts(End)
  /\ \A n : /\ Accepts(St("named", n)) /\ Accepts(St("width", n)) /\ Accepts(St("wcfr", n))
            /\ Accepts(St("first", n)) /\ Accepts(St("suffix", n)) /\ Accepts(St("comma", n))
            /\ \A spot \in {"directiveName", "labelName", "labelColon", "if", "ifPred", "ifClose",
                            "mnemonic", "dot", "operand", "localName", "suffixName"} :
                 ~Accepts(St(spot, n))
BY DEF Accepts, End, St

\* tasm_parser_item.
LEMMA LabelsGo ==
  ASSUME ReadState, ItemInv', Decides, LabelName \/ LabelColon \/ NamedIsLabel
  PROVE  Goes
<1>0. /\ TypeInv /\ KindInv /\ item \in ParsedItem /\ item' \in ParsedItem /\ item'.opcode # "if"
      /\ reported \in BOOLEAN /\ (reported => reported') /\ Steady
  BY Going DEF Report, LabelName, LabelColon, NamedIsLabel, Expect
<1>1. Ops' \subseteq Ops
  <2>1. at \in Unnamed \/ (at' \notin Unnamed /\ item'.opcode = item.opcode)
    BY <1>0 DEF LabelName, LabelColon, NamedIsLabel, At, Goto, Keep, Unnamed, ParsedItem
  <2> QED BY <1>0, <2>1, OpsShrink
<1> SUFFICES ASSUME ~reported, NEW op \in Ops', NEW q, NEW r, Stands(op, q), Moves(op, q, r)
             PROVE  Fits(op, r)'
  BY <1>0, <1>1 DEF Goes, StandsOn
<1> USE DEF At, Goto, Sees
<1>2. CASE LabelName
  <2>1. at = "labelName" /\ at' = "labelColon" /\ q = St("labelName", 0) /\ Expect("IDENT", FALSE)
    BY <1>2 DEF LabelName, Stands
  <2>2. CASE Peeked.type = "IDENT"
    <3>1. ~reported' /\ r = Follow(op, q, Peeked)
      BY <1>0, <2>1, <2>2, Wanted, MovesOne
    <3>2. Follow(op, q, Peeked) = St("labelColon", 0)
      BY <2>1, <2>2, FollowSpots DEF If
    <3> QED BY <2>1, <3>1, <3>2 DEF Fits, Stands
  <2>3. CASE Peeked.type # "IDENT"
    <3>1. Follow(op, q, Peeked) = Dead
      BY <2>1, <2>3, FollowSpots DEF If
    <3> QED BY <1>0, <2>1, <2>3, <3>1, Wanted, SpotsAccept, Refused
  <2> QED BY <2>2, <2>3
<1>3. CASE LabelColon
  <2>1. at = "labelColon" /\ at' = "add" /\ q = St("labelColon", 0) /\ Expect("COLON", FALSE)
    BY <1>3 DEF LabelColon, Stands
  <2>2. CASE Peeked.type = "COLON"
    <3>1. ~reported' /\ r = Follow(op, q, Peeked)
      BY <1>0, <2>1, <2>2, Wanted, MovesOne
    <3>2. Follow(op, q, Peeked) = End
      BY <2>1, <2>2, FollowSpots DEF If
    <3> QED BY <2>1, <3>1, <3>2, SpotsAccept DEF Fits, Stands
  <2>3. CASE Peeked.type # "COLON"
    <3>1. Follow(op, q, Peeked) = Dead
      BY <2>1, <2>3, FollowSpots DEF If
    <3> QED BY <1>0, <2>1, <2>3, <3>1, Wanted, SpotsAccept, Refused
  <2> QED BY <2>2, <2>3
<1>4. CASE NamedIsLabel
  <2>1. /\ at = "named" /\ at' = "add" /\ Peeked.type = "COLON" /\ Advance /\ ~reported'
        /\ q \in {St("if", 0), St("named", 0), St("labelColon", 0)}
    BY <1>4 DEF NamedIsLabel, Stands
  <2>2. r = End
    BY <1>0, <2>1, MovesOne, FollowSpots DEF If
  <2> QED BY <2>1, <2>2, SpotsAccept DEF Fits, Stands
<1> QED BY <1>2, <1>3, <1>4

\* What was seen stays what is seen.
LEMMA StaySees ==
  ASSUME Decides, Stay, NEW q
  PROVE  /\ Steady /\ Steady' /\ Peeked' = Peeked /\ (HasWidth <=> HasWidth')
         /\ NameRead(q) => NameRead(q)'
         /\ WidthRead(q) => WidthRead(q)'
         /\ MarkRead(q) => MarkRead(q)'
<1>1. Steady /\ Steady' /\ Peeked' = Peeked /\ (HasWidth <=> HasWidth')
  BY DEF Decides, Stay, Steady, Peeked, HasWidth, Sees
<1>2. NameRead(q) => NameRead(q)'
  BY <1>1 DEF NameRead, Sees
<1>3. WidthRead(q) => WidthRead(q)'
  BY <1>1, <1>2 DEF WidthRead
<1> QED BY <1>1, <1>2, <1>3 DEF MarkRead, Sees

\* Where a mnemonic leads to.
LEMMA NameFollow ==
  ASSUME NEW op, NEW q, NameRead(q)
  PROVE  Accepts(q) /\ Follow(op, q, Peeked) = FromWidth(Peeked)
BY SpotsAccept, FollowSpots DEF NameRead, Sees

\* Where the state after the width leads to.
LEMMA WidthFollow ==
  ASSUME NEW op, NEW q, WidthRead(q)
  PROVE  /\ Accepts(q)
         /\ \/ Follow(op, q, Peeked) = FromWcfr(Peeked)
            \/ Sees({"DOT"}) /\ ~HasWidth /\ Follow(op, q, Peeked) = St("dot", 0)
<1>1. CASE q = St("wcfr", 0)
  BY <1>1, SpotsAccept, FollowSpots
<1>2. CASE NameRead(q) /\ ~HasWidth
  BY <1>2, NameFollow DEF FromWidth, Sees
<1> QED BY <1>1, <1>2 DEF WidthRead

\* Where the state before the first operand leads to.
LEMMA MarkFollow ==
  ASSUME NEW op, NEW q, MarkRead(q)
  PROVE  /\ Accepts(q)
         /\ \/ Follow(op, q, Peeked) = FromOperand(0, Peeked)
            \/ Sees({"DOT"}) /\ ~HasWidth /\ Follow(op, q, Peeked) = St("dot", 0)
<1>1. CASE q = St("first", 0)
  BY <1>1, SpotsAccept, FollowSpots
<1>2. CASE WidthRead(q) /\ ~Sees({"QUESTION", "EXCLAMATION"})
  BY <1>2, WidthFollow DEF FromWcfr, Sees
<1> QED BY <1>1, <1>2 DEF MarkRead

\* parse_instruction.
LEMMA InstructionsGo ==
  ASSUME ReadState, ItemInv', Decides, ParseInstruction
  PROVE  Goes
<1>0. /\ TypeInv /\ LineInv /\ KindInv /\ item \in ParsedItem /\ item' \in ParsedItem
      /\ item'.opcode # "if" /\ reported \in BOOLEAN /\ (reported => reported') /\ Steady
  <2>1. reported => reported'
    BY DEF ParseInstruction, NamedIsIf, IfOpen, IfPred, IfClose, NamedIsMnemonic, Mnemonic,
       WidthDot, WidthValue, NoWidthGiven, Wcfr, Expect, Report
  <2> QED BY <2>1, Going
<1>1. Ops' \subseteq Ops
  <2>1. \/ at \in Unnamed
        \/ /\ at \in {"width", "widthValue", "wcfr"} /\ at' \in {"widthValue", "wcfr", "first"}
           /\ item'.opcode = item.opcode
    BY <1>0 DEF ParseInstruction, NamedIsIf, IfOpen, IfPred, IfClose, NamedIsMnemonic, Mnemonic,
       WidthDot, WidthValue, NoWidthGiven, Wcfr, At, Goto, Keep, Unnamed, ParsedItem
  <2>2. at \in Unnamed \/ (at' \notin Unnamed /\ item'.opcode = item.opcode)
    BY <2>1 DEF Unnamed
  <2> QED BY <1>0, <2>2, OpsShrink
<1> SUFFICES ASSUME ~reported, NEW op \in Ops', NEW q, NEW r, Stands(op, q), Moves(op, q, r)
             PROVE  Fits(op, r)'
  BY <1>0, <1>1 DEF Goes, StandsOn
<1> USE DEF At, Goto, Sees
<1>2. CASE NamedIsIf
  <2>1. /\ at = "named" /\ at' = "ifOpen" /\ q = St("if", 0) /\ Peeked.type # "COLON"
        /\ Stay /\ ~reported'
    BY <1>2 DEF NamedIsIf, Stands
  <2>2. r = St("if", 0) /\ Steady' /\ Peeked' = Peeked
    BY <1>0, <2>1, MovesOne, StaySees
  <2> QED BY <2>1, <2>2 DEF Fits, Stands
<1>3. CASE IfOpen
  <2>1. /\ at = "ifOpen" /\ at' = "ifPred" /\ q = St("if", 0) /\ Peeked.type # "COLON"
        /\ Expect("LPAREN", FALSE)
    BY <1>3 DEF IfOpen, Stands
  <2>2. CASE Peeked.type = "LPAREN"
    <3>1. ~reported' /\ r = Follow(op, q, Peeked)
      BY <1>0, <2>1, <2>2, Wanted, MovesOne
    <3>2. Follow(op, q, Peeked) = St("ifPred", 0)
      BY <2>1, <2>2, FollowSpots DEF If
    <3> QED BY <2>1, <3>1, <3>2 DEF Fits, Stands
  <2>3. CASE Peeked.type # "LPAREN"
    <3>1. Follow(op, q, Peeked) = Dead
      BY <2>1, <2>3, FollowSpots DEF If
    <3> QED BY <1>0, <2>1, <2>3, <3>1, Wanted, SpotsAccept, Refused
  <2> QED BY <2>2, <2>3
<1>4. CASE IfPred
  <2>1. /\ at = "ifPred" /\ at' = "ifClose" /\ q = St("ifPred", 0)
        /\ Expect("IDENT", Peeked.lexeme \notin DOMAIN Preds)
    BY <1>4 DEF IfPred, Stands
  <2>2. CASE Peeked.type = "IDENT" /\ Peeked.lexeme \in DOMAIN Preds
    <3>1. ~reported' /\ r = Follow(op, q, Peeked)
      BY <1>0, <2>1, <2>2, Expected, MovesOne
    <3>2. Follow(op, q, Peeked) = St("ifClose", 0)
      BY <2>1, <2>2, FollowSpots DEF If
    <3> QED BY <2>1, <3>1, <3>2 DEF Fits, Stands
  <2>3. CASE ~(Peeked.type = "IDENT" /\ Peeked.lexeme \in DOMAIN Preds)
    <3>1. Follow(op, q, Peeked) = Dead
      BY <2>1, <2>3, FollowSpots DEF If
    <3> QED BY <1>0, <2>1, <2>3, <3>1, Expected, SpotsAccept, Refused
  <2> QED BY <2>2, <2>3
<1>5. CASE IfClose
  <2>1. /\ at = "ifClose" /\ at' = "mnemonic" /\ q = St("ifClose", 0) /\ Expect("RPAREN", FALSE)
    BY <1>5 DEF IfClose, Stands
  <2>2. CASE Peeked.type = "RPAREN"
    <3>1. ~reported' /\ r = Follow(op, q, Peeked)
      BY <1>0, <2>1, <2>2, Wanted, MovesOne
    <3>2. Follow(op, q, Peeked) = St("mnemonic", 0)
      BY <2>1, <2>2, FollowSpots DEF If
    <3> QED BY <2>1, <3>1, <3>2 DEF Fits, Stands
  <2>3. CASE Peeked.type # "RPAREN"
    <3>1. Follow(op, q, Peeked) = Dead
      BY <2>1, <2>3, FollowSpots DEF If
    <3> QED BY <1>0, <2>1, <2>3, <3>1, Wanted, SpotsAccept, Refused
  <2> QED BY <2>2, <2>3
<1>6. CASE NamedIsMnemonic
  <2>1. /\ at = "named" /\ at' = "width" /\ held # "if" /\ Peeked.type # "COLON" /\ Stay
        /\ q = (IF held = op THEN St("named", 0) ELSE St("labelColon", 0))
        /\ SetOpcode(held) /\ (reported' <=> held \notin Opcodes)
    BY <1>0, <1>6 DEF NamedIsMnemonic, Stands, Report
  <2>2. op = item'.opcode
    BY <2>1 DEF Ops, Unnamed
  <2>3. CASE held \in Opcodes
    <3>1. op = held
      BY <1>0, <2>1, <2>2, <2>3 DEF SetOpcode, ParsedItem
    <3>2. r = St("named", 0) /\ Steady' /\ Peeked' = Peeked
      BY <1>0, <2>1, <3>1, MovesOne, StaySees
    <3> QED BY <2>1, <2>3, <3>2 DEF Fits, Stands, NameRead
  <2>4. CASE held \notin Opcodes
    <3>1. op # held
      BY <1>0, <2>1, <2>2, <2>4 DEF SetOpcode, ParsedItem
    <3>2. Follow(op, q, Peeked) = Dead
      BY <2>1, <3>1, FollowSpots DEF If
    <3> QED BY <2>1, <2>4, <3>1, <3>2, SpotsAccept, Refused
  <2> QED BY <2>3, <2>4
<1>7. CASE Mnemonic
  <2>1. /\ at = "mnemonic" /\ at' = "width" /\ q = St("mnemonic", 0)
        /\ Expect("IDENT", Peeked.lexeme \notin Opcodes) /\ SetOpcode(Peeked.lexeme)
    BY <1>7 DEF Mnemonic, Stands
  <2>2. op = item'.opcode
    BY <2>1 DEF Ops, Unnamed
  <2>3. CASE Peeked.type = "IDENT" /\ Peeked.lexeme \in Opcodes
    <3>1. op = Peeked.lexeme
      BY <1>0, <2>1, <2>2, <2>3 DEF SetOpcode, ParsedItem
    <3>2. ~reported' /\ r = Follow(op, q, Peeked)
      BY <1>0, <2>1, <2>3, Expected, MovesOne
    <3>3. Follow(op, q, Peeked) = St("width", 0)
      BY <2>1, <2>3, <3>1, FollowSpots DEF If
    <3> QED BY <2>1, <3>2, <3>3 DEF Fits, Stands, NameRead
  <2>4. CASE ~(Peeked.type = "IDENT" /\ Peeked.lexeme \in Opcodes)
    <3>1. Peeked.lexeme \notin Opcodes => op # Peeked.lexeme
      BY <1>0, <2>1, <2>2 DEF SetOpcode, ParsedItem
    <3>2. Follow(op, q, Peeked) = Dead
      BY <2>1, <2>4, <3>1, FollowSpots DEF If
    <3> QED BY <1>0, <2>1, <2>4, <3>2, Expected, SpotsAccept, Refused
  <2> QED BY <2>3, <2>4
<1>8. CASE WidthDot
  <2>1. /\ at = "width" /\ at' = "widthValue" /\ NameRead(q) /\ Peeked.type = "DOT" /\ Advance
        /\ ~reported'
    BY <1>8 DEF WidthDot, HasWidth, Stands
  <2>2. r = St("dot", 0)
    BY <1>0, <2>1, MovesOne, NameFollow DEF FromWidth
  <2> QED BY <2>1, <2>2 DEF Fits, Stands
<1>9. CASE WidthValue
  <2>1. /\ at = "widthValue" /\ at' = "wcfr" /\ q = St("dot", 0) /\ Advance
        /\ (reported' <=> Peeked.lexeme \notin DOMAIN WidthNames)
    BY <1>0, <1>9 DEF WidthValue, Stands, Report
  <2>2. Peeked.type = "IMM_INT"
    BY <1>0, <2>1 DEF LineInv, PlaceInv, Peeked
  <2>3. CASE Peeked.lexeme \in DOMAIN WidthNames
    <3>1. r = St("wcfr", 0)
      BY <1>0, <2>1, <2>2, <2>3, MovesOne, FollowSpots DEF If
    <3> QED BY <2>1, <2>3, <3>1 DEF Fits, Stands, WidthRead
  <2>4. CASE Peeked.lexeme \notin DOMAIN WidthNames
    <3>1. Follow(op, q, Peeked) = Dead
      BY <2>1, <2>2, <2>4, FollowSpots DEF If
    <3> QED BY <2>1, <2>4, <3>1, SpotsAccept, Refused
  <2> QED BY <2>3, <2>4
<1>10. CASE NoWidthGiven
  <2>1. at = "width" /\ at' = "wcfr" /\ NameRead(q) /\ ~HasWidth /\ Stay /\ ~reported'
    BY <1>10 DEF NoWidthGiven, Stands
  <2>2. WidthRead(r)'
    <3>1. r = q /\ WidthRead(q)
      BY <1>0, <2>1, MovesOne DEF WidthRead
    <3> QED BY <2>1, <3>1, StaySees
  <2> QED BY <2>1, <2>2 DEF Fits, Stands
<1>11. CASE Wcfr
  <2>1. at = "wcfr" /\ at' = "first" /\ WidthRead(q) /\ ~reported' /\ item'.kind = "instr"
    BY <1>0, <1>11 DEF Wcfr, Stands, KindInv, InstrPlaces, ParsedItem
  <2>2. MarkRead(r)'
    <3>1. CASE Peeked.type \in {"QUESTION", "EXCLAMATION"}
      <4>1. Advance
        BY <1>11, <3>1 DEF Wcfr
      <4>2. r = St("first", 0)
        BY <1>0, <2>1, <3>1, <4>1, MovesOne, WidthFollow DEF FromWcfr
      <4> QED BY <4>2 DEF MarkRead
    <3>2. CASE Peeked.type \notin {"QUESTION", "EXCLAMATION"}
      <4>1. Stay
        BY <1>11, <3>2 DEF Wcfr
      <4>2. r = q
        BY <1>0, <4>1, MovesOne
      <4>3. WidthRead(r)' /\ Steady' /\ Peeked' = Peeked
        BY <2>1, <4>1, <4>2, StaySees
      <4> QED BY <3>2, <4>3 DEF MarkRead
    <3> QED BY <3>1, <3>2
  <2> QED BY <2>1, <2>2 DEF Fits, Stands
<1> QED BY <1>2, <1>3, <1>4, <1>5, <1>6, <1>7, <1>8, <1>9, <1>10, <1>11 DEF ParseInstruction

\* Where an operand is read, its first token leads to what it is.
LEMMA OperandFollow ==
  ASSUME NEW op, NEW q, at = "operand", Stands(op, q)
  PROVE  \/ Follow(op, q, Peeked) = FromOperand(Given, Peeked)
         \/ Given = 0 /\ Sees({"DOT"}) /\ ~HasWidth /\ Follow(op, q, Peeked) = St("dot", 0)
<1>1. q = St("operand", Given) \/ (Given = 0 /\ MarkRead(q))
  BY DEF Stands
<1>2. CASE q = St("operand", Given)
  BY <1>2, FollowSpots
<1>3. CASE Given = 0 /\ MarkRead(q)
  BY <1>3, MarkFollow
<1> QED BY <1>1, <1>2, <1>3

\* One more operand.
LEMMA PushGiven ==
  ASSUME TypeInv, ~NoRoom, NEW op \in ReadOperand, Push(op)
  PROVE  at' = "comma" /\ Given' = More(Given)
<1>1. /\ item.operands \in Seq(ReadOperand) /\ item'.kind = item.kind
      /\ item'.operands = Append(item.operands, op)
  BY Before, PushSays DEF ParsedItem
<1>2. Len(item.operands) \in Nat /\ Len(item'.operands) = Len(item.operands) + 1
  BY <1>1
<1>3. at' = "comma"
  BY DEF Push, Goto
<1> QED BY <1>1, <1>2, <1>3, ListedMore DEF Given, Listed

\* A wrong token that was taken.
LEMMA TakenWrong ==
  ASSUME TypeInv, NEW op, NEW q, NEW r, Moves(op, q, r), Advance, reported',
         Follow(op, q, Peeked) = Dead
  PROVE  Fits(op, r)'
<1>1. r = Dead
  BY MovesOne
<1> QED BY <1>1 DEF Fits, Hopeless

\* parse_directive, and the commas.
LEMMA ListsGo ==
  ASSUME ReadState, ItemInv', Decides,
         DirectiveName \/ NoOperands \/ SomeOperands \/ NextOperand \/ LastOperand
  PROVE  Goes
<1>0. /\ TypeInv /\ LineInv /\ KindInv /\ item \in ParsedItem /\ item' \in ParsedItem
      /\ item'.opcode # "if" /\ reported \in BOOLEAN /\ (reported => reported') /\ Steady
  <2>1. reported => reported'
    BY DEF DirectiveName, NoOperands, SomeOperands, NextOperand, LastOperand, Expect, Report
  <2> QED BY <2>1, Going
<1>1. Ops' \subseteq Ops
  <2>1. at' \in {"first", "add", "operand"} /\ item'.opcode = item.opcode
    BY <1>0 DEF DirectiveName, NoOperands, SomeOperands, NextOperand, LastOperand,
       At, Goto, Keep, ParsedItem
  <2>2. at' \notin Unnamed
    BY <2>1 DEF Unnamed
  <2> QED BY <1>0, <2>1, <2>2, OpsShrink
<1> SUFFICES ASSUME ~reported, NEW op \in Ops', NEW q, NEW r, Stands(op, q), Moves(op, q, r)
             PROVE  Fits(op, r)'
  BY <1>0, <1>1 DEF Goes, StandsOn
<1> USE DEF At, Goto, Sees
<1>2. CASE DirectiveName
  <2>1. /\ at = "directiveName" /\ at' = "first" /\ q = St("directiveName", Many)
        /\ Expect("IDENT", Peeked.lexeme \notin Directives) /\ item'.kind = "directive"
    BY <1>0, <1>2 DEF DirectiveName, Stands, KindInv, ParsedItem
  <2>2. CASE Peeked.type = "IDENT" /\ Peeked.lexeme \in Directives
    <3>1. ~reported' /\ r = Follow(op, q, Peeked)
      BY <1>0, <2>1, <2>2, Expected, MovesOne
    <3>2. Follow(op, q, Peeked) = St("operand", Many)
      BY <2>1, <2>2, FollowSpots DEF If
    <3> QED BY <2>1, <3>1, <3>2 DEF Fits, Stands
  <2>3. CASE ~(Peeked.type = "IDENT" /\ Peeked.lexeme \in Directives)
    <3>1. Follow(op, q, Peeked) = Dead
      BY <2>1, <2>3, FollowSpots DEF If
    <3> QED BY <1>0, <2>1, <2>3, <3>1, Expected, SpotsAccept, Refused
  <2> QED BY <2>2, <2>3
<1>3. CASE NoOperands
  <2>1. /\ at = "first" /\ at' = "add" /\ Peeked.type \in {"NEWLINE", "EOF"} /\ Stay
        /\ (reported' <=> item.kind = "directive")
        /\ IF item.kind = "directive" THEN q = St("operand", Many) ELSE MarkRead(q)
    BY <1>0, <1>3 DEF NoOperands, Stands, Report
  <2>2. CASE item.kind = "directive"
    <3>1. Follow(op, q, Peeked) = Dead
      BY <2>1, <2>2, FollowSpots DEF FromOperand
    <3> QED BY <2>1, <2>2, <3>1, SpotsAccept, Refused
  <2>3. CASE item.kind # "directive"
    <3>1. r = q /\ Accepts(q)
      BY <1>0, <2>1, <2>3, MovesOne, MarkFollow
    <3> QED BY <2>1, <2>3, <3>1 DEF Fits, Stands
  <2> QED BY <2>2, <2>3
<1>4. CASE SomeOperands
  <2>1. /\ at = "first" /\ at' = "operand" /\ Stay /\ ~reported' /\ item' = item
        /\ IF item.kind = "directive" THEN q = St("operand", Many) ELSE MarkRead(q)
        /\ item.operands = <<>>
    BY <1>4, <1>0 DEF SomeOperands, Keep, Stands, KindInv
  <2>2. Given' = Given /\ Given = IF item.kind = "directive" THEN Many ELSE 0
    BY <2>1 DEF Given, Listed
  <2>3. r = q /\ (MarkRead(q) => MarkRead(q)')
    BY <1>0, <2>1, MovesOne, StaySees
  <2> QED BY <2>1, <2>2, <2>3 DEF Fits, Stands
<1>5. CASE NextOperand
  <2>1. /\ at = "comma" /\ at' = "operand" /\ Advance /\ item' = item
        /\ (reported' <=> NoRoom) /\ Peeked.type = "COMMA"
        /\ item.kind \in {"instr", "directive"}
    BY <1>0, <1>5 DEF NextOperand, Keep, Report, KindInv, NoRoom
  <2>2. Follow(op, q, Peeked) = FromComma(Given, Peeked)
    BY <2>1, FollowSpots DEF Stands
  <2>3. NoRoom <=> ~(Given < MaxOperands)
    BY <2>1 DEF NoRoom, Given, Listed, Many, MaxOperands
  <2>4. CASE NoRoom
    BY <1>0, <2>1, <2>2, <2>3, <2>4, TakenWrong DEF FromComma, If
  <2>5. CASE ~NoRoom
    <3>1. r = St("operand", Given) /\ Given' = Given
      BY <1>0, <2>1, <2>2, <2>3, <2>5, MovesOne DEF FromComma, If, Given
    <3> QED BY <2>1, <2>5, <3>1 DEF Fits, Stands
  <2> QED BY <2>4, <2>5
<1>6. CASE LastOperand
  <2>1. at = "comma" /\ at' = "add" /\ Stay /\ ~reported'
    BY <1>6 DEF LastOperand
  <2>2. r = q /\ Accepts(q)
    BY <1>0, <2>1, MovesOne, SpotsAccept DEF Stands
  <2> QED BY <2>1, <2>2 DEF Fits, Stands
<1> QED BY <1>2, <1>3, <1>4, <1>5, <1>6

\* parse_operand and parse_register.
LEMMA OperandsGo ==
  ASSUME ReadState, ItemInv', Decides,
         \/ LocalOperand \/ LocalOperandName \/ StringOperand \/ IntOperand \/ CharOperand
         \/ LabelOperand \/ RegisterOperand \/ ExpectedOperand
         \/ NoSuffix \/ SuffixColon \/ SuffixName
  PROVE  Goes
<1>0. /\ TypeInv /\ LineInv /\ KindInv /\ item \in ParsedItem /\ item' \in ParsedItem
      /\ item'.opcode # "if" /\ reported \in BOOLEAN /\ (reported => reported') /\ Steady
  <2>1. reported => reported'
    BY DEF LocalOperand, LocalOperandName, StringOperand, IntOperand, CharOperand, Literal,
       LabelOperand, RegisterOperand, ExpectedOperand, NoSuffix, SuffixColon, SuffixName,
       Expect, Report
  <2> QED BY <2>1, Going
<1>1. Ops' \subseteq Ops
  <2>1. at' \in {"localName", "suffix", "suffixName", "comma"} /\ item'.opcode = item.opcode
    BY <1>0 DEF LocalOperand, LocalOperandName, StringOperand, IntOperand, CharOperand, Literal,
       LabelOperand, RegisterOperand, ExpectedOperand, NoSuffix, SuffixColon, SuffixName,
       Push, At, Goto, Keep, ParsedItem
  <2>2. at' \notin Unnamed
    BY <2>1 DEF Unnamed
  <2> QED BY <1>0, <2>1, <2>2, OpsShrink
<1> SUFFICES ASSUME ~reported, NEW op \in Ops', NEW q, NEW r, Stands(op, q), Moves(op, q, r)
             PROVE  Fits(op, r)'
  BY <1>0, <1>1 DEF Goes, StandsOn
<1> USE OperandTypes DEF At, Goto, Sees
<1>2. at \in OperandPlaces => ~NoRoom
  BY DEF ReadState, ReadInv, Reads, Idle, OperandPlaces
\* An operand of one token.
<1>3. ASSUME NEW o \in ReadOperand, Push(o), at = "operand", Advance, ~reported',
             FromOperand(Given, Peeked) = St("comma", More(Given)), Peeked.type # "DOT"
      PROVE  Fits(op, r)'
  <2>1. at' = "comma" /\ Given' = More(Given)
    BY <1>0, <1>2, <1>3, PushGiven DEF OperandPlaces
  <2>2. r = St("comma", More(Given))
    BY <1>0, <1>3, MovesOne, OperandFollow
  <2> QED BY <1>3, <2>1, <2>2 DEF Fits, Stands
\* One that cannot be.
<1>4. ASSUME at = "operand", Advance, reported', FromOperand(Given, Peeked) = Dead,
             Peeked.type # "DOT"
      PROVE  Fits(op, r)'
  <2>1. Follow(op, q, Peeked) = Dead
    BY <1>4, OperandFollow
  <2> QED BY <1>0, <1>4, <2>1, TakenWrong
<1>5. CASE LocalOperand
  <2>1. /\ at = "operand" /\ at' = "localName" /\ Advance /\ ~reported' /\ item' = item
        /\ Peeked.type = "DOT"
    BY <1>5 DEF LocalOperand, Keep
  <2>2. /\ Given' = Given /\ lookahead_count' = 1
        /\ (~HasWidth => Peeked'.type # "IMM_INT")
    <3>1. lookahead' = <<lookahead[2], lookahead[2]>> /\ lookahead_count' = 1
      BY <2>1 DEF Advance
    <3>2. Peeked' = lookahead[2]
      BY <3>1 DEF Peeked
    <3> QED BY <2>1, <3>1, <3>2 DEF Given, HasWidth
  <2>3. r = St("localName", Given) \/ (Given = 0 /\ ~HasWidth /\ r = St("dot", 0))
    BY <1>0, <2>1, MovesOne, OperandFollow DEF FromOperand
  <2> QED BY <2>1, <2>2, <2>3 DEF Fits, Stands
<1>6. CASE LocalOperandName
  <2> DEFINE o == Label(Peeked.lexeme, TRUE)
  <2>1. at = "localName" /\ Expect("IDENT", FALSE) /\ Push(o) /\ o \in ReadOperand
    BY <1>0, <1>6, SeenIs DEF LocalOperandName
  <2> HIDE DEF o
  <2>2. at' = "comma" /\ Given' = More(Given)
    BY <1>0, <1>2, <2>1, PushGiven DEF OperandPlaces
  <2>3. \/ q = St("localName", Given)
        \/ Given = 0 /\ q = St("dot", 0) /\ Peeked.type # "IMM_INT"
    BY <2>1 DEF Stands
  <2>4. CASE Peeked.type = "IDENT"
    <3>1. ~reported' /\ r = Follow(op, q, Peeked)
      BY <1>0, <2>1, <2>4, Wanted, MovesOne
    <3>2. Follow(op, q, Peeked) = St("comma", More(Given))
      <4>1. More(0) = 1
        BY DEF More, Many
      <4> QED BY <2>3, <2>4, <4>1, FollowSpots DEF If
    <3> QED BY <2>2, <3>1, <3>2 DEF Fits, Stands
  <2>5. CASE Peeked.type # "IDENT"
    <3>1. Follow(op, q, Peeked) = Dead /\ ~Accepts(q)
      BY <2>3, <2>5, FollowSpots, SpotsAccept DEF If
    <3> QED BY <1>0, <2>1, <2>5, <3>1, Wanted, Refused
  <2> QED BY <2>4, <2>5
<1>7. CASE StringOperand
  <2> DEFINE o == [kind |-> "str", lexeme |-> Peeked.lexeme]
  <2>1. /\ at = "operand" /\ Peeked.type = "IMM_STR" /\ Advance /\ ~reported' /\ Push(o)
        /\ o \in ReadOperand
    BY <1>0, <1>7, SeenIs DEF StringOperand
  <2> HIDE DEF o
  <2> QED BY <1>3, <2>1 DEF FromOperand
<1>8. CASE IntOperand
  <2>1. /\ at = "operand" /\ Peeked.type = "IMM_INT" /\ Advance
        /\ (reported' <=> Peeked.lexeme \notin ValidInts)
        /\ (Peeked.lexeme \in ValidInts => Push(Imm(Peeked)))
    BY <1>0, <1>8 DEF IntOperand, Literal, Report
  <2>2. Imm(Peeked) \in ReadOperand
    BY <1>0, SeenIs
  <2>3. CASE Peeked.lexeme \in ValidInts
    BY <1>3, <2>1, <2>2, <2>3 DEF FromOperand, If
  <2>4. CASE Peeked.lexeme \notin ValidInts
    BY <1>4, <2>1, <2>4 DEF FromOperand, If
  <2> QED BY <2>3, <2>4
<1>9. CASE CharOperand
  <2>1. /\ at = "operand" /\ Peeked.type = "IMM_CHAR" /\ Advance
        /\ (reported' <=> Peeked.lexeme \notin ValidChars)
        /\ (Peeked.lexeme \in ValidChars => Push(Imm(Peeked)))
    BY <1>0, <1>9 DEF CharOperand, Literal, Report
  <2>2. Imm(Peeked) \in ReadOperand
    BY <1>0, SeenIs
  <2>3. CASE Peeked.lexeme \in ValidChars
    BY <1>3, <2>1, <2>2, <2>3 DEF FromOperand, If
  <2>4. CASE Peeked.lexeme \notin ValidChars
    BY <1>4, <2>1, <2>4 DEF FromOperand, If
  <2> QED BY <2>3, <2>4
<1>10. CASE LabelOperand
  <2>1. /\ at = "operand" /\ Peeked.type = "IDENT" /\ Peeked.lexeme \notin Registers /\ Advance
        /\ ~reported' /\ Push(Label(Peeked.lexeme, FALSE))
    BY <1>10 DEF LabelOperand
  <2>2. Label(Peeked.lexeme, FALSE) \in ReadOperand
    BY <1>0, SeenIs
  <2> QED BY <1>3, <2>1, <2>2 DEF FromOperand
<1>11. CASE RegisterOperand
  <2>1. /\ at = "operand" /\ at' = "suffix" /\ Peeked.type = "IDENT"
        /\ Peeked.lexeme \in Registers /\ Advance /\ ~reported' /\ item' = item
    BY <1>11 DEF RegisterOperand
  <2>2. r = St("suffix", Given) /\ Given' = Given
    BY <1>0, <2>1, MovesOne, OperandFollow DEF FromOperand, Given
  <2> QED BY <2>1, <2>2 DEF Fits, Stands
<1>12. CASE ExpectedOperand
  <2>1. /\ at = "operand" /\ Advance /\ reported'
        /\ Peeked.type \notin {"DOT", "IMM_STR", "IMM_INT", "IMM_CHAR", "IDENT"}
    BY <1>12 DEF ExpectedOperand, Report
  <2> QED BY <1>4, <2>1 DEF FromOperand
<1>13. CASE NoSuffix
  <2> DEFINE o == Lane(held, WholeRegister)
  <2>1. /\ at = "suffix" /\ Peeked.type # "COLON" /\ Stay /\ ~reported' /\ Push(o)
        /\ o \in ReadOperand /\ q = St("suffix", Given)
    BY <1>0, <1>13, Before DEF NoSuffix, Stands
  <2> HIDE DEF o
  <2>2. at' = "comma" /\ Given' = More(Given)
    BY <1>0, <1>2, <2>1, PushGiven DEF OperandPlaces
  <2>3. r = q /\ Steady' /\ Peeked' = Peeked
    BY <1>0, <2>1, MovesOne, StaySees
  <2>4. \E n : r = St("suffix", n) /\ More(n) = Given'
    BY <2>1, <2>2, <2>3
  <2> QED BY <2>1, <2>2, <2>3, <2>4 DEF Fits, Stands
<1>14. CASE SuffixColon
  <2>1. /\ at = "suffix" /\ at' = "suffixName" /\ Peeked.type = "COLON" /\ Advance /\ ~reported'
        /\ item' = item /\ q = St("suffix", Given)
    BY <1>14 DEF SuffixColon, Keep, Stands
  <2>2. r = St("suffixName", Given) /\ Given' = Given
    BY <1>0, <2>1, MovesOne, FollowSpots DEF Given
  <2> QED BY <2>1, <2>2 DEF Fits, Stands
<1>15. CASE SuffixName
  <2> DEFINE o == Lane(held, Part(Peeked.lexeme))
  <2>1. /\ at = "suffixName" /\ Expect("IDENT", Peeked.lexeme \notin DOMAIN Lanes) /\ Push(o)
        /\ o \in ReadOperand /\ q = St("suffixName", Given)
    BY <1>0, <1>15, Before, SeenIs DEF SuffixName, Stands
  <2> HIDE DEF o
  <2>2. at' = "comma" /\ Given' = More(Given)
    BY <1>0, <1>2, <2>1, PushGiven DEF OperandPlaces
  <2>3. CASE Peeked.type = "IDENT" /\ Peeked.lexeme \in DOMAIN Lanes
    <3>1. ~reported' /\ r = Follow(op, q, Peeked)
      BY <1>0, <2>1, <2>3, Expected, MovesOne
    <3>2. Follow(op, q, Peeked) = St("comma", More(Given))
      BY <2>1, <2>3, FollowSpots DEF If
    <3> QED BY <2>2, <3>1, <3>2 DEF Fits, Stands
  <2>4. CASE ~(Peeked.type = "IDENT" /\ Peeked.lexeme \in DOMAIN Lanes)
    <3>1. Follow(op, q, Peeked) = Dead
      BY <2>1, <2>4, FollowSpots DEF If
    <3> QED BY <1>0, <2>1, <2>4, <3>1, Expected, SpotsAccept, Refused
  <2> QED BY <2>3, <2>4
<1> QED BY <1>5, <1>6, <1>7, <1>8, <1>9, <1>10, <1>11, <1>12, <1>13, <1>14, <1>15

\* An item begins.
LEMMA BeginsFit ==
  ASSUME ReadState, Decides, Begins, SkipNewline \/ StopAtEof \/ ParseItem
  PROVE  AutoInv'
<1>0. TypeInv /\ LineInv /\ KindInv /\ at \in Idle /\ ~reported
  BY DEF ReadState, LineInv, ItemInv, KindInv, Begins
<1>1. BeginDirective \/ BeginLocalLabel \/ BeginNamed
  <2>1. at' \notin Idle
    BY DEF Begins
  <2>2. ~(SkipNewline \/ StopAtEof \/ Unimplemented)
    BY <1>0, <2>1 DEF SkipNewline, StopAtEof, Unimplemented, At, Goto, Idle
  <2>3. ~(LabelName \/ LabelColon \/ NamedIsLabel)
    BY <1>0 DEF LabelName, LabelColon, NamedIsLabel, At, Idle
  <2> QED BY <2>2, <2>3 DEF ParseItem
<1>2. ~reported'
  BY <1>0, <1>1 DEF BeginDirective, BeginLocalLabel, BeginNamed
<1> SUFFICES ASSUME NEW op \in Ops'
             PROVE  \E q : Runs(op, Start, Taken', q) /\ Fits(op, q)'
  BY DEF AutoInv
<1> DEFINE q == FromStart(op, Peeked)
<1>6. Runs(op, Start, Taken', q)
  <2>1. Taken' = <<Peeked>>
    BY <1>0, Takes
  <2> QED BY <2>1, RunsShort, FollowStart
<1> USE DEF At, Goto, Sees
<1>3. CASE BeginDirective
  <2>1. at' = "directiveName" /\ q = St("directiveName", Many)
    BY <1>3 DEF BeginDirective, FromStart
  <2> QED BY <1>2, <1>6, <2>1 DEF Fits, Stands
<1>4. CASE BeginLocalLabel
  <2>1. at' = "labelName" /\ q = St("labelName", 0)
    BY <1>4 DEF BeginLocalLabel, FromStart
  <2> QED BY <1>2, <1>6, <2>1 DEF Fits, Stands
<1>5. CASE BeginNamed
  <2>1. /\ at' = "named"
        /\ q = IF held' = "if" THEN St("if", 0)
               ELSE IF held' = op THEN St("named", 0) ELSE St("labelColon", 0)
    BY <1>5 DEF BeginNamed, FromStart
  <2> QED BY <1>2, <1>6, <2>1 DEF Fits, Stands
<1> QED BY <1>1, <1>3, <1>4, <1>5

\* Filling the lookahead shows nothing new.
LEMMA FillFits ==
  ASSUME TypeInv, AutoInv, FillLookahead \/ UNCHANGED vars
  PROVE  AutoInv'
<1>1. CASE UNCHANGED vars
  <2>1. UNCHANGED <<at, item, held, heard, reported, lookahead, lookahead_count>>
    BY <1>1 DEF vars
  <2>2. /\ Taken' = Taken /\ Ops' = Ops /\ Given' = Given /\ Steady' = Steady
        /\ Peeked' = Peeked /\ HasWidth' = HasWidth
    BY <2>1 DEF Taken, Ops, Given, Steady, Peeked, HasWidth, Sees
  <2> QED BY <2>1, <2>2 DEF AutoInv, Fits, Hopeless, Stands, MarkRead, WidthRead, NameRead, Sees
<1>2. CASE FillLookahead
  <2>1. UNCHANGED <<at, item, held, heard, reported>> /\ ~Steady
    BY <1>2 DEF FillLookahead, Steady
  <2>2. Taken' = Taken /\ Ops' = Ops /\ Given' = Given
    BY <2>1 DEF Taken, Ops, Given
  <2>3. lookahead_count >= 1 => lookahead_count' >= 1 /\ Peeked' = Peeked
    <3>1. /\ lookahead_count \in 0 .. 2 /\ lookahead \in Seq(Token) /\ Len(lookahead) = 2
          /\ lookahead_count < 2 /\ lookahead_count' = lookahead_count + 1
          /\ lookahead' = IF LexerNext = LexError THEN lookahead
                          ELSE [lookahead EXCEPT ![lookahead_count + 1] = LexerNext]
      BY <1>2 DEF TypeInv, TypeOK, FillLookahead
    <3>2. lookahead_count >= 1 => lookahead'[1] = lookahead[1]
      BY <3>1
    <3> QED BY <3>1, <3>2 DEF Peeked
  <2>4. ASSUME NEW op, NEW q, Fits(op, q) PROVE Fits(op, q)'
    <3>1. CASE reported
      BY <2>1, <2>4, <3>1 DEF Fits, Hopeless
    <3>2. CASE ~reported
      <4>1. Stands(op, q)
        BY <2>4, <3>2 DEF Fits
      <4>2. /\ NameRead(q) => NameRead(q)'
            /\ WidthRead(q) => WidthRead(q)'
            /\ MarkRead(q) => MarkRead(q)'
        BY <2>1 DEF NameRead, WidthRead, MarkRead
      <4>3. Stands(op, q)'
        BY <2>1, <2>2, <2>3, <4>1, <4>2 DEF Stands, Sees
      <4> QED BY <2>1, <3>2, <4>3 DEF Fits
    <3> QED BY <3>1, <3>2
  <2> QED BY <2>1, <2>2, <2>4 DEF AutoInv
<1> QED BY <1>1, <1>2

\* Every step fits on.
LEMMA StepAuto == ReadState /\ AutoInv /\ [Next]_vars => AutoInv'
<1> SUFFICES ASSUME ReadState, AutoInv, [Next]_vars PROVE AutoInv'
  OBVIOUS
<1>1. TypeInv /\ PlaceInv /\ LineInv /\ ItemInv'
  BY StepItem DEF ReadState, LineInv
<1>2. CASE FillLookahead \/ UNCHANGED vars
  BY <1>1, <1>2, FillFits
<1>3. CASE AddItem
  BY <1>3 DEF AddItem, Goto, AutoInv, Idle
<1>4. ASSUME Decides, Turns,
             Continues => Goes,
             Begins => SkipNewline \/ StopAtEof \/ ParseItem
      PROVE  AutoInv'
  <2>1. CASE Continues
    BY <1>1, <1>4, <2>1, GoesOn
  <2>2. CASE Begins
    BY <1>4, <2>2, BeginsFit
  <2>3. CASE Idles
    BY <2>3 DEF Idles, AutoInv
  <2> QED BY <1>4, <2>1, <2>2, <2>3 DEF Turns
<1>5. CASE SkipNewline \/ StopAtEof \/ ParseItem
  <2>1. Decides /\ Turns
    BY <1>1, <1>5, ItemDecides, ItemTurns
  <2>2. Continues => LabelName \/ LabelColon \/ NamedIsLabel
    BY <1>5 DEF Continues, Idle, ParseItem, SkipNewline, StopAtEof, BeginDirective,
       BeginLocalLabel, BeginNamed, Unimplemented, At
  <2>3. Continues => Goes
    BY <1>1, <2>1, <2>2, LabelsGo
  <2> QED BY <1>4, <1>5, <2>1, <2>3
<1>6. CASE ParseInstruction
  <2>1. Decides /\ Turns /\ Goes
    BY <1>1, <1>6, InstructionDecides, InstructionTurns, InstructionsGo
  <2>2. ~Begins
    BY <1>6 DEF Begins, Idle, ParseInstruction, NamedIsIf, IfOpen, IfPred, IfClose,
       NamedIsMnemonic, Mnemonic, WidthDot, WidthValue, NoWidthGiven, Wcfr, At
  <2> QED BY <1>4, <2>1, <2>2
<1>7. CASE ParseOperands
  <2>1. Decides /\ Turns
    BY <1>1, <1>7, OperandsDecide, OperandsTurn
  <2>2. Goes
    BY <1>1, <1>7, <2>1, ListsGo, OperandsGo DEF ParseOperands
  <2>3. ~Begins
    BY <1>7 DEF Begins, Idle, ParseOperands, DirectiveName, NoOperands, SomeOperands, NextOperand,
       LastOperand, LocalOperand, LocalOperandName, StringOperand, IntOperand, CharOperand,
       LabelOperand, RegisterOperand, ExpectedOperand, NoSuffix, SuffixColon, SuffixName, At
  <2> QED BY <1>4, <2>1, <2>2, <2>3
<1> QED BY <1>2, <1>3, <1>5, <1>6, <1>7 DEF Next

\* What the buffer gets says what was taken, or was reported.
SayInv == ReadState /\ AutoInv

\* It implies what ReportedIffMalformed states.
LEMMA SayReported == SayInv => ReportedIffMalformed
<1> SUFFICES ASSUME SayInv, at = "add"
             PROVE  reported <=> Taken \notin Sentences(item)
  BY DEF ReportedIffMalformed, Taken
<1>1. /\ TypeInv /\ PlaceInv /\ KindInv /\ OperandInv /\ ReadInv /\ AutoInv
      /\ item \in ParsedItem /\ Bounded /\ reported \in BOOLEAN
  BY Before DEF SayInv, ReadState, LineInv, ItemInv
<1>2. ~reported => Taken \in Sentences(item)
  BY <1>1 DEF ReadInv, Reads, Idle
<1>3. ASSUME reported, Taken \in Sentences(item) PROVE FALSE
  <2>1. Sound(item)
    BY <1>1 DEF Sound, PlaceInv, Idle, KindInv, OperandInv, Bounded
  <2>2. item.opcode \in Ops /\ at \notin Idle
    BY DEF Ops, Unnamed, Idle
  <2>3. PICK q : Runs(item.opcode, Start, Taken, q) /\ Hopeless(item.opcode, q)
    BY <1>1, <1>3, <2>2 DEF AutoInv, Fits
  <2>4. PICK r : Accepts(r) /\ Runs(item.opcode, Start, Taken, r)
    BY <1>3, <2>1, SentencesRun
  <2>5. Len(Taken) \in Nat
    BY <1>3, <2>1, SentencesRun
  <2>6. q = r
    BY <2>3, <2>4, <2>5, RunsOne
  <2> QED BY <2>3, <2>4, <2>6, DeadRefuses DEF Hopeless
<1> QED BY <1>1, <1>2, <1>3

\* Nothing has been said at first.
LEMMA InitSay == Init => SayInv
<1> SUFFICES ASSUME Init PROVE SayInv
  OBVIOUS
<1>1. at = "item"
  BY DEF Init
<1> QED BY <1>1, InitLine, InitItem DEF SayInv, ReadState, ReadInv, AutoInv, Idle

\* Every step keeps all that is said.
LEMMA StepSay == SayInv /\ [Next]_vars => SayInv'
BY StepLine, StepItem, StepRead, StepAuto DEF SayInv, ReadState

\* What goes into the buffer unreported is exactly what reads as an item of
\* the language and means that item: no error passes in silence, and nothing
\* that is right is reported.
THEOREM ParserReportedIffMalformed == Spec => []ReportedIffMalformed
<1>1. SayInv => ReportedIffMalformed
  BY SayReported
<1> QED BY <1>1, InitSay, StepSay, PTL DEF Spec
=============================================================================
