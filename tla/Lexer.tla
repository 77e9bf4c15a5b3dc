-------------------------------- MODULE Lexer -------------------------------
(***************************************************************************)
(* The lexer (src/src/lexer/lexer.c).  A text is a sequence of bytes; an   *)
(* ASCII byte is a string of one character, any other byte and the         *)
(* vertical tab have names of their own.  One action is one call of        *)
(* tasm_lexer_next.                                                        *)
(*                                                                         *)
(* isspace, isdigit and isalpha are given a plain char, which is negative  *)
(* for a byte beyond ASCII; the C library's tables say no for these.       *)
(***************************************************************************)
EXTENDS Integers, Sequences, FiniteSetsExt, SequencesExt

CONSTANT Texts

ASSUME TextsAssumption == Texts \subseteq Seq(STRING)

\* The classes of bytes (isspace but for the newline, isdigit, isalpha).
Spaces     == {" ", "\t", "\r", "\f", "VT"}
Digits     == {"0", "1", "2", "3", "4", "5", "6", "7", "8", "9"}
Letters    == {"a", "b", "c", "d", "e", "f", "g", "h", "i", "j", "k", "l", "m",
               "n", "o", "p", "q", "r", "s", "t", "u", "v", "w", "x", "y", "z",
               "A", "B", "C", "D", "E", "F", "G", "H", "I", "J", "K", "L", "M",
               "N", "O", "P", "Q", "R", "S", "T", "U", "V", "W", "X", "Y", "Z"}
RadixChars == {"t", "n", "s"}
Separators == {"_", "'"}
IdentMarks == {"_", "$"}

DoubleQuote == "\""

Symbols ==
  [b \in {".", ":", ",", "(", ")", "\n", "!", "?", "%"} |->
     CASE b = "." -> "DOT"       [] b = ":"  -> "COLON"   [] b = "," -> "COMMA"
       [] b = "(" -> "LPAREN"    [] b = ")"  -> "RPAREN"  [] b = "\n" -> "NEWLINE"
       [] b = "!" -> "EXCLAMATION" [] b = "?" -> "QUESTION" [] b = "%" -> "PERCENT"]

VARIABLES
  text,       \* the content of the source document
  loc,        \* lexer->current_loc
  found       \* history: what each call found, with its span

vars == <<text, loc, found>>

StartOfText == [line |-> 1, column |-> 1, offset |-> 0]

Init == text \in Texts /\ loc = StartOfText /\ found = <<>>

-----------------------------------------------------------------------------
(***************************************************************************)
(* Offsets count from 0: the byte at offset o is text[o + 1].              *)
(***************************************************************************)
Size      == Len(text)
ByteAt(o) == IF o < Size THEN text[o + 1] ELSE "NUL"

\* Where the loop that takes bytes of S from offset o on stops.
SpanOf(o, S) == CHOOSE e \in o .. Size :
                  /\ \A i \in o .. e - 1 : ByteAt(i) \in S
                  /\ e = Size \/ ByteAt(e) \notin S

\* Mutation of LineEnd: a comment takes its newline with it.
LineEndTaken(o) == CHOOSE e \in o .. Size :
                     /\ \A i \in o .. e - 2 : ByteAt(i) # "\n"
                     /\ e = Size \/ (e > o /\ ByteAt(e - 1) = "\n")

LineEnd(o) == CHOOSE e \in o .. Size :
                /\ \A i \in o .. e - 1 : ByteAt(i) # "\n"
                /\ e = Size \/ ByteAt(e) = "\n"

\* The offset of the first byte from o on that is neither space nor comment.
AfterBlanks ==
  LET skip[o \in 0 .. Size] ==
        IF ByteAt(o) \in Spaces THEN skip[o + 1]
        ELSE IF ByteAt(o) = "/" /\ ByteAt(o + 1) = "/" THEN skip[LineEnd(o + 2)]
        ELSE o
  IN  skip[loc.offset]

\* Mutation of LiteralEnd: a backslash is a character like any other.
LiteralEndUnescaped(o, quote) == CHOOSE e \in o .. Size :
                                   /\ \A i \in o .. e - 1 : ByteAt(i) # quote
                                   /\ e = Size \/ ByteAt(e) = quote

\* Where the loop over the inside of a literal stops: at the quote or the end.
LiteralEnd(o, quote) ==
  LET inside[i \in 0 .. Size + 1] ==
        IF i >= Size THEN Size
        ELSE IF ByteAt(i) = quote THEN i
        ELSE IF ByteAt(i) = "\\" THEN inside[i + 2]
        ELSE inside[i + 1]
  IN  inside[o]

\* Mutation of NextLocation: a newline is counted and the column goes on.
NextLocationSameColumn(l, byte) ==
  [l EXCEPT !.line = IF byte = "\n" THEN @ + 1 ELSE @, !.column = @ + 1, !.offset = @ + 1]

\* next(): the location after one more byte.
NextLocation(l, byte) ==
  IF byte = "\n" THEN [line |-> l.line + 1, column |-> 1, offset |-> l.offset + 1]
  ELSE [l EXCEPT !.column = @ + 1, !.offset = @ + 1]

\* The location at offset o, counted on from the current one.
LocationAt(o) ==
  LET at[k \in loc.offset .. Size] ==
        IF k = loc.offset THEN loc ELSE NextLocation(at[k - 1], ByteAt(k - 1))
  IN  at[o]

\* The call takes the bytes from offset o to e, and answers with kind.
Answer(kind, o, e) ==
  /\ loc' = LocationAt(e)
  /\ found' = Append(found, [kind |-> kind, start |-> LocationAt(o), end |-> loc'])
  /\ UNCHANGED text

AtEnd == found # <<>> /\ Last(found).kind = "EOF"
Start == AfterBlanks
More  == Start < Size

EndOfText == ~AtEnd /\ ~More /\ Answer("EOF", Size, Size)

LoneSlash == More /\ ByteAt(Start) = "/" /\ Answer("unexpected", Start, Start + 1)

Symbol ==
  More /\ ByteAt(Start) \in DOMAIN Symbols /\ Answer(Symbols[ByteAt(Start)], Start, Start + 1)

Quoted(quote, kind) ==
  /\ More /\ ByteAt(Start) = quote
  /\ LET e == LiteralEnd(Start + 1, quote) IN
       \/ e = Size /\ Answer("unterminated", Start, Size)
       \/ e < Size /\ Answer(kind, Start, e + 1)

CharLiteral   == Quoted("'", "IMM_CHAR")
StringLiteral == Quoted(DoubleQuote, "IMM_STR")

HasRadix == ByteAt(Start) = "0" /\ ByteAt(Start + 1) \in RadixChars

\* Mutation of Number: after the radix, digits only.
NumberDigitsOnly ==
  /\ More /\ ByteAt(Start) \in Digits
  /\ \/ HasRadix /\ Answer("IMM_INT", Start, SpanOf(Start + 2, Digits \union Separators))
     \/ ~HasRadix /\ Answer("IMM_INT", Start, SpanOf(Start, Digits \union Separators))

Number ==
  /\ More /\ ByteAt(Start) \in Digits
  /\ \/ /\ HasRadix
        /\ Answer("IMM_INT", Start, SpanOf(Start + 2, Digits \union Letters \union Separators))
     \/ /\ ~HasRadix
        /\ Answer("IMM_INT", Start, SpanOf(Start, Digits \union Separators))

Identifier ==
  /\ More /\ ByteAt(Start) \in Letters \union IdentMarks
  /\ Answer("IDENT", Start, SpanOf(Start, Digits \union Letters \union IdentMarks))

Unexpected ==
  /\ More
  /\ ByteAt(Start) \notin Digits \union Letters \union IdentMarks \union DOMAIN Symbols
                         \union {"/", "'", DoubleQuote}
  /\ Answer("unexpected", Start, Start + 1)

Next == EndOfText \/ LoneSlash \/ Symbol \/ CharLiteral \/ StringLiteral
        \/ Number \/ Identifier \/ Unexpected

Spec == Init /\ [][Next]_vars
-----------------------------------------------------------------------------
(***************************************************************************)
(* What the words of the language are, and that the lexer finds them.      *)
(***************************************************************************)
Errors == {"unexpected", "unterminated"}

\* The text from offset o up to e.
Slice(o, e) == SubSeq(text, o + 1, e)

AllIn(w, first, S) == \A i \in first .. Len(w) : w[i] \in S

\* Whether an odd number of backslashes stands right before w[i], inside the quotes.
Escaped(w, i) ==
  \E k \in 0 .. i - 2 :
    /\ k % 2 = 1 /\ \A j \in i - k .. i - 1 : w[j] = "\\"
    /\ i - k = 2 \/ w[i - k - 1] # "\\"

IsQuoted(w, quote) ==
  /\ Len(w) >= 2 /\ w[1] = quote /\ w[Len(w)] = quote
  /\ \A i \in 2 .. Len(w) : w[i] = quote => (Escaped(w, i) <=> i < Len(w))

IsWord(kind, w) ==
  CASE kind = "IMM_CHAR" -> IsQuoted(w, "'")
    [] kind = "IMM_STR"  -> IsQuoted(w, DoubleQuote)
    [] kind = "IMM_INT"  ->
         \/ Len(w) >= 1 /\ w[1] \in Digits /\ AllIn(w, 2, Digits \union Separators)
         \/ /\ Len(w) >= 2 /\ w[1] = "0" /\ w[2] \in RadixChars
            /\ AllIn(w, 3, Digits \union Letters \union Separators)
    [] kind = "IDENT"    ->
         /\ Len(w) >= 1 /\ w[1] \notin Digits
         /\ AllIn(w, 1, Digits \union Letters \union IdentMarks)
    [] OTHER             -> Len(w) = 1 /\ w[1] \in DOMAIN Symbols /\ Symbols[w[1]] = kind

Kinds == {"IMM_CHAR", "IMM_STR", "IMM_INT", "IDENT"} \union Range(Symbols)

StartsWord(o, e) == \E kind \in Kinds : IsWord(kind, Slice(o, e))

\* The lexer finds the longest word at every place, and fails only where no
\* word begins: there it takes one byte, or all the rest after an open quote.
LongestWords ==
  \A i \in DOMAIN found :
    LET f == found[i]
        o == f.start.offset
        e == f.end.offset
    IN  CASE f.kind = "EOF"          -> o = Size /\ e = Size
          [] f.kind \in Errors       ->
               /\ \A end \in o + 1 .. Size : ~StartsWord(o, end)
               /\ IF f.kind = "unexpected" THEN e = o + 1
                  ELSE e = Size /\ ByteAt(o) \in {"'", DoubleQuote}
          [] OTHER ->
               IsWord(f.kind, Slice(o, e)) /\ \A end \in e + 1 .. Size : ~StartsWord(o, end)

IsBlank(o, e) ==
  \E s \in o .. e :
    /\ \A i \in o .. s - 1 : ByteAt(i) \in Spaces
    /\ \/ s = e
       \/ /\ s + 2 <= e /\ ByteAt(s) = "/" /\ ByteAt(s + 1) = "/"
          /\ \A i \in s .. e - 1 : ByteAt(i) # "\n"
          /\ e = Size \/ ByteAt(e) = "\n"

\* What lies between two things the lexer finds is blank: no byte is skipped
\* that is not in a comment, and none is found twice.
OnlyBlanksBetween ==
  \A i \in DOMAIN found :
    LET before == IF i = 1 THEN 0 ELSE found[i - 1].end.offset
    IN  before <= found[i].start.offset /\ IsBlank(before, found[i].start.offset)

NewlinesBefore(o) == {i \in 0 .. o - 1 : ByteAt(i) = "\n"}

IsTrue(l) ==
  /\ l.line = 1 + Cardinality(NewlinesBefore(l.offset))
  /\ l.column = IF NewlinesBefore(l.offset) = {} THEN l.offset + 1
                ELSE l.offset - Max(NewlinesBefore(l.offset))

\* Line and column, which next() counts byte by byte on every path, are those
\* of the offset, in literals that hold newlines and after comments too.
LocationsAreTrue == \A i \in DOMAIN found : IsTrue(found[i].start) /\ IsTrue(found[i].end)
=============================================================================
