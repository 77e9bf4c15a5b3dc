------------------------------ MODULE MCParser ------------------------------
(***************************************************************************)
(* Sources for the parser: everything of up to two tokens, and longer      *)
(* statements that use the whole grammar, as they are and with any one     *)
(* token replaced, left out or put in, each with a statement after it.     *)
(***************************************************************************)
EXTENDS Parser

Words == {Ident("if"), Ident("lt"), Ident("equal"), Ident("add"), Ident("word"), Ident("r0"),
          Ident("h1"), Ident("h5"), Ident("a")}

Literals == {Tok("IMM_INT", "24"), Tok("IMM_INT", "0"), Tok("IMM_INT", "0t"),
             Tok("IMM_CHAR", "x"), Tok("IMM_CHAR", "xy"), Tok("IMM_STR", "word")}

Symbols == {Mark(t) : t \in Punctuation} \union Words \union Literals \union {LexError}

Colon == Mark("COLON")
Comma == Mark("COMMA")
Line  == Mark("NEWLINE")

Conditional == <<Ident("if"), Mark("LPAREN"), Ident("lt"), Mark("RPAREN"), Ident("add"),
                 Mark("DOT"), Tok("IMM_INT", "24"), Mark("QUESTION"),
                 Ident("r0"), Colon, Ident("h1")>>
FourOperands == <<Ident("add"), Ident("r0"), Comma, Mark("DOT"), Ident("a"), Comma,
                  Tok("IMM_CHAR", "x"), Comma, Ident("a")>>
Data == <<Ident("a"), Colon, Mark("PERCENT"), Ident("word"), Tok("IMM_INT", "0"), Comma,
          Tok("IMM_STR", "word")>>
Local == <<Mark("DOT"), Ident("a"), Colon, Line, Mark("PERCENT"), Ident("word"), Ident("a")>>

Edited(s) ==
       {s}
  \union {ReplaceAt(s, i, t) : i \in DOMAIN s, t \in Symbols}
  \union {RemoveAt(s, i) : i \in DOMAIN s}
  \union {InsertAt(s, i, t) : i \in DOMAIN s, t \in Symbols}

NextLine == <<Line, Ident("add"), Ident("r0"), Line, Ident("a"), Colon>>

MCSources ==
       UNION {[1 .. n -> Symbols] : n \in 0 .. 2}
  \union {s \o NextLine : s \in UNION {Edited(b) : b \in {Conditional, FourOperands, Data, Local}}}

MCGarbage == {Eof, Ident("add")}
=============================================================================
