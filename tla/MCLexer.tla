------------------------------- MODULE MCLexer ------------------------------
(***************************************************************************)
(* Texts for the lexer and the literals: every text of up to three bytes,  *)
(* and longer ones of the bytes that matter to comments, to the ends of    *)
(* literals, to numbers, and to escapes and UTF-8 in strings.              *)
(***************************************************************************)
EXTENDS Literals

TextsOf(S, n) == UNION {[1 .. m -> S] : m \in 0 .. n}
InQuotes(q, S) == {<<q>> \o w \o <<q>> : w \in S}

Alphabet == {" ", "\n", "/", ".", "'", "\"", "\\", "0", "1", "t", "x", "_", "$", "@", "C3"}

Inner  == TextsOf({"\\", "n", "'", "x", "C3", "A9"}, 3)
Braces == {<<"\\", k, "{">> \o w : k \in {"u", "s", "c"}, w \in TextsOf({"1", "9", "s", "}"}, 4)}

MCTexts ==
       TextsOf(Alphabet, 3)
  \union TextsOf({"/", "\n", "x", " "}, 5)
  \union TextsOf({"'", "\"", "\\", "\n", "x"}, 5)
  \union TextsOf({"0", "t", "1", "_", "'", "$"}, 5)
  \union {<<"0", r>> \o w : r \in RadixChars, w \in TextsOf({"1", "9", "n", "B", "_"}, 4)}
  \union InQuotes("'", Inner \union Braces) \union InQuotes("\"", Inner \union Braces)

MCByteValue ==
  ("C3" :> 195) @@ ("A9" :> 169) @@ (" " :> 32) @@ ("\n" :> 10) @@ ("/" :> 47) @@ ("." :> 46)
  @@ ("'" :> 39) @@ ("\"" :> 34) @@ ("\\" :> 92) @@ ("0" :> 48) @@ ("1" :> 49) @@ ("9" :> 57)
  @@ ("t" :> 116) @@ ("x" :> 120) @@ ("n" :> 110) @@ ("s" :> 115) @@ ("c" :> 99) @@ ("u" :> 117)
  @@ ("_" :> 95) @@ ("$" :> 36) @@ ("@" :> 64) @@ ("{" :> 123) @@ ("}" :> 125)

\* All that is printed, a byte's worth more that \u{..} can name, and U+00E9, U+00DC.
MCTscs == [code \in {17, 25, 32, 34, 36, 39} \union 46 .. 49 \union {64, 92, 95, 110, 115, 116, 120}
                    \union {220, 233} |-> code % 40]
=============================================================================
