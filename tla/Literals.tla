------------------------------ MODULE Literals ------------------------------
(***************************************************************************)
(* What literals mean (src/src/parser/literals.c), as functions of the     *)
(* bytes of a lexeme, and what they make of the lexemes the lexer finds.   *)
(*                                                                         *)
(* Integers are accumulated in a signed number of IntModulus values (2^128 *)
(* in the code), escapes in an unsigned one of EscapeModulus (2^32), both  *)
(* without a check.  Overflow of the signed one is undefined in C and is   *)
(* the wrap that multiplication gives here.                                *)
(***************************************************************************)
EXTENDS Lexer

CONSTANTS
  ByteValue,      \* the value of every byte
  Tscs,           \* the index of every code point that has one
  TscsCount,      \* how many indexes there are, 444 in the code
  IntModulus, EscapeModulus

ASSUME LiteralsAssumption ==
  /\ IntModulus \in Nat \ {0} /\ IntModulus % 2 = 0 /\ EscapeModulus \in Nat \ {0}
  /\ DOMAIN ByteValue \subseteq STRING /\ \A b \in DOMAIN ByteValue : ByteValue[b] \in 0 .. 255
  /\ "\\" \in DOMAIN ByteValue /\ ByteValue["\\"] = 92
  /\ \A code \in DOMAIN Tscs : Tscs[code] \in 0 .. TscsCount - 1

LowerDigits == <<"0", "1", "2", "3", "4", "5", "6", "7", "8", "9", "a", "b",
                 "c", "d", "e", "f", "g", "h", "i", "j", "k", "l", "m", "n",
                 "o", "p", "q", "r", "s", "t", "u", "v", "w", "x", "y", "z">>
UpperDigits == <<"0", "1", "2", "3", "4", "5", "6", "7", "8", "9", "A", "B",
                 "C", "D", "E", "F", "G", "H", "I", "J", "K", "L", "M", "N",
                 "O", "P", "Q", "R", "S", "T", "U", "V", "W", "X", "Y", "Z">>
DigitOf     == [c \in Range(LowerDigits) \union Range(UpperDigits) |->
                  (CHOOSE i \in 1 .. 36 : c \in {LowerDigits[i], UpperDigits[i]}) - 1]

IsDigitIn(base, c) == c \in DOMAIN DigitOf /\ DigitOf[c] < base

\* Mutation of Accumulate: the digit is added first.
AccumulateEarly(numeral, base, modulus) ==
  LET val[k \in 0 .. Len(numeral)] ==
        IF k = 0 THEN 0
        ELSE IF numeral[k] \in Separators THEN val[k - 1]
        ELSE ((val[k - 1] + DigitOf[numeral[k]]) * base) % modulus
  IN  val[Len(numeral)]

\* An accumulator that wraps round: val * base + digit for every digit.
Accumulate(numeral, base, modulus) ==
  LET val[k \in 0 .. Len(numeral)] ==
        IF k = 0 THEN 0
        ELSE IF numeral[k] \in Separators THEN val[k - 1]
        ELSE (val[k - 1] * base + DigitOf[numeral[k]]) % modulus
  IN  val[Len(numeral)]

Signed(v, modulus) == IF v >= modulus \div 2 THEN v - modulus ELSE v
-----------------------------------------------------------------------------
(***************************************************************************)
(* tasm_parse_lit_int.                                                     *)
(***************************************************************************)
RadixBase == [r \in RadixChars |-> CASE r = "t" -> 3 [] r = "n" -> 9 [] r = "s" -> 27]

HasRadixPrefix(w) == Len(w) >= 2 /\ w[1] = "0" /\ w[2] \in DOMAIN RadixBase
BaseOf(w)         == IF HasRadixPrefix(w) THEN RadixBase[w[2]] ELSE 10
NumeralOf(w)      == IF HasRadixPrefix(w) THEN SubSeq(w, 3, Len(w)) ELSE w

\* The digits of a numeral: separators are passed over.
DigitPlaces(numeral) == {i \in DOMAIN numeral : numeral[i] \notin Separators}

ParseInt(w) ==
  LET numeral == NumeralOf(w) IN
  IF /\ DigitPlaces(numeral) # {}
     /\ \A i \in DigitPlaces(numeral) : IsDigitIn(BaseOf(w), numeral[i])
  THEN [ok |-> TRUE, val |-> Signed(Accumulate(numeral, BaseOf(w), IntModulus), IntModulus)]
  ELSE [ok |-> FALSE, val |-> 0]
-----------------------------------------------------------------------------
(***************************************************************************)
(* Characters: the TSCS index that was read and the bytes taken for it, or *)
(* a failure, and whether the failure was reported.                        *)
(***************************************************************************)
Char(index, taken) == [ok |-> TRUE, told |-> FALSE, index |-> index, taken |-> taken]
Failed(told)       == [ok |-> FALSE, told |-> told, index |-> -1, taken |-> 0]

ReplacementCode == 65533
SequenceLength(lead) ==
  CASE lead < 128          -> 1
    [] lead \in 192 .. 223 -> 2
    [] lead \in 224 .. 239 -> 3
    [] lead \in 240 .. 247 -> 4
    [] OTHER               -> 0

LeadBits(lead, n) == IF n = 1 THEN lead ELSE lead % (2 ^ (7 - n))

\* decode_utf8; what follows a leading byte counts with its low six bits.
DecodeUtf8(data) ==
  LET lead == ByteValue[data[1]]
      n    == SequenceLength(lead)
      code == FoldLeft(LAMBDA c, b : c * 64 + (ByteValue[b] % 64), LeadBits(lead, n),
                       SubSeq(data, 2, n))
  IN  IF n = 0 \/ Len(data) < n \/ code = ReplacementCode \/ code \notin DOMAIN Tscs
      THEN Failed(TRUE) ELSE Char(Tscs[code], n)

NamedEscapes == ("n" :> 4) @@ ("r" :> 5) @@ ("t" :> 3) @@ ("a" :> 1) @@ ("b" :> 2)
                @@ ("e" :> 6) @@ ("0" :> 0)
EscapeBase   == ("u" :> 16) @@ ("s" :> 27) @@ ("c" :> 3)

LBrace == "{"
RBrace == "}"

\* The digits in braces: the loop stops at the first byte that is not one.
BracedEscape(data, base) ==
  LET stop == CHOOSE i \in 4 .. Len(data) + 1 :
                /\ \A j \in 4 .. i - 1 : IsDigitIn(base, data[j])
                /\ i = Len(data) + 1 \/ ~IsDigitIn(base, data[i])
      val  == Accumulate(SubSeq(data, 4, stop - 1), base, EscapeModulus)
  IN  IF stop > Len(data) \/ data[stop] # RBrace \/ stop = 4 THEN Failed(TRUE)
      ELSE IF data[2] = "u"
           THEN IF val \in DOMAIN Tscs THEN Char(Tscs[val], stop) ELSE Failed(TRUE)
           ELSE IF val < TscsCount THEN Char(val, stop) ELSE Failed(TRUE)

ParseEscape(data) ==
  IF Len(data) < 2 THEN Failed(FALSE)
  ELSE IF data[2] \in DOMAIN NamedEscapes THEN Char(NamedEscapes[data[2]], 2)
  ELSE IF data[2] \in {"\\", "'", DoubleQuote} THEN Char(Tscs[ByteValue[data[2]]], 2)
  ELSE IF data[2] \notin DOMAIN EscapeBase THEN Failed(TRUE)
  ELSE IF Len(data) < 4 \/ data[3] # LBrace THEN Failed(TRUE)
  ELSE BracedEscape(data, EscapeBase[data[2]])

FirstChar(data) == IF data[1] = "\\" THEN ParseEscape(data) ELSE DecodeUtf8(data)

\* Mutation of ParseChar: nobody asks whether the character was all there is.
ParseCharPrefix(inner) == IF inner = <<>> THEN Failed(TRUE) ELSE FirstChar(inner)

\* tasm_parse_lit_char, on the bytes between the quotes.
ParseChar(inner) ==
  IF inner = <<>> THEN Failed(TRUE)
  ELSE LET first == FirstChar(inner) IN
       IF first.ok /\ first.taken < Len(inner) THEN Failed(TRUE) ELSE first

\* tasm_parse_lit_string_chars: the characters up to the first failure.
ParseString(inner) ==
  LET from[i \in 1 .. Len(inner) + 1] ==
        IF i > Len(inner) THEN [ok |-> TRUE, told |-> FALSE, chars |-> <<>>]
        ELSE LET first == FirstChar(SubSeq(inner, i, Len(inner))) IN
             IF ~first.ok THEN [ok |-> FALSE, told |-> first.told, chars |-> <<>>]
             ELSE LET rest == from[i + first.taken] IN
                  [rest EXCEPT !.chars = <<first.index>> \o @]
  IN  from[1]
-----------------------------------------------------------------------------
Lexemes(kind) == {Slice(f.start.offset, f.end.offset) : f \in {g \in Range(found) : g.kind = kind}}
Inside(w)     == SubSeq(w, 2, Len(w) - 1)

\* Place by place from the last digit on: each counts base times as much as the
\* next; weight[k] and value[k] are of the last k bytes.
NumeralValue(w) ==
  LET numeral == NumeralOf(w)
      byte(k) == numeral[Len(numeral) - k + 1]
      weight[k \in 0 .. Len(numeral)] ==
        IF k = 0 THEN 1
        ELSE IF byte(k) \in Separators THEN weight[k - 1]
        ELSE weight[k - 1] * BaseOf(w)
      value[k \in 0 .. Len(numeral)] ==
        IF k = 0 THEN 0
        ELSE IF byte(k) \in Separators THEN value[k - 1]
        ELSE value[k - 1] + DigitOf[byte(k)] * weight[k - 1]
  IN  value[Len(numeral)]

\* An integer literal that is accepted has the value of its digits in its
\* radix, separators left out, as far as the accumulator holds it; beyond
\* that it keeps the value modulo the accumulator's size and is not refused.
IntsMeanTheirDigits ==
  \A w \in Lexemes("IMM_INT") :
    ParseInt(w).ok =>
      /\ (ParseInt(w).val - NumeralValue(w)) % IntModulus = 0
      /\ NumeralValue(w) < IntModulus \div 2 => ParseInt(w).val = NumeralValue(w)

\* The two readers of characters agree: what is a character literal is a
\* string literal of one character, the same one, and nothing else is.
CharIsOneCharString ==
  \A w \in Lexemes("IMM_CHAR") :
    LET char   == ParseChar(Inside(w))
        string == ParseString(Inside(w))
    IN  /\ char.ok <=> string.ok /\ Len(string.chars) = 1
        /\ char.ok => string.chars = <<char.index>>

IsUtf8(w) ==
  \A i \in DOMAIN w :
    \A k \in 1 .. SequenceLength(ByteValue[w[i]]) - 1 :
      i + k <= Len(w) => ByteValue[w[i + k]] \in 128 .. 191

\* A literal that cannot be read is reported.  The one silent failure, a
\* backslash with nothing after it, is kept out by the lexer, which ends no
\* literal there, unless bytes that are not UTF-8 set the two out of step.
NoSilentLiteral ==
  /\ \A w \in Lexemes("IMM_CHAR") : ParseChar(Inside(w)).ok \/ ParseChar(Inside(w)).told
  /\ \A w \in Lexemes("IMM_STR") :
       IsUtf8(w) => ParseString(Inside(w)).ok \/ ParseString(Inside(w)).told
=============================================================================
