----------------------------- MODULE LexerProofs ----------------------------
(***************************************************************************)
(* Proofs about the lexer and the literals.                                *)
(*                                                                         *)
(* Both are scans, written as functions defined on their own earlier       *)
(* values; each is shown to exist first, as an instance of one lemma on    *)
(* recursion that goes down a bounded rank.                                *)
(***************************************************************************)
EXTENDS Literals, TLAPS, FiniteSetTheorems, SequenceTheorems, WellFoundedInduction

-----------------------------------------------------------------------------
(* Recursion and induction along a rank *)

\* A set of natural numbers that is not empty has a least element.
LEMMA LeastNat ==
  ASSUME NEW S \in SUBSET Nat, S # {}
  PROVE  \E k \in S : \A l \in S : k <= l
<1>1. PICK k \in S : \A l \in S : ~ (<<l, k>> \in OpToRel(<, Nat))
  BY NatLessThanWellFounded, WFMin
<1>2. ASSUME NEW l \in S, l < k PROVE FALSE
  <2>1. <<l, k>> \in Nat \X Nat /\ <<l, k>>[1] < <<l, k>>[2]
    BY <1>2
  <2>2. <<l, k>> \in OpToRel(<, Nat)
    BY <2>1, Zenon DEF OpToRel
  <2> QED BY <1>1, <2>2
<1> QED BY <1>2

\* What holds of an element whenever it holds of all of lower rank.
IsHereditary(S, D, rank) ==
  \A x \in D : (\A y \in D : rank[y] < rank[x] => y \in S) => x \in S

LEMMA RankInduction ==
  ASSUME NEW D, NEW rank \in [D -> Nat], NEW S, IsHereditary(S, D, rank)
  PROVE  D \subseteq S
<1> SUFFICES ASSUME NEW bad \in D, bad \notin S PROVE FALSE
  OBVIOUS
<1> DEFINE R == {rank[x] : x \in D \ S}
<1>1. R \in SUBSET Nat /\ R # {}
  OBVIOUS
<1>2. PICK k \in R : \A l \in R : k <= l
  BY <1>1, LeastNat
<1>3. PICK x \in D \ S : rank[x] = k
  BY <1>2
<1>4. ASSUME NEW y \in D, rank[y] < rank[x] PROVE y \in S
  <2> SUFFICES ASSUME y \notin S PROVE FALSE
    OBVIOUS
  <2>1. rank[y] \in R
    OBVIOUS
  <2>2. rank[x] <= rank[y]
    BY <1>2, <1>3, <2>1
  <2>3. rank[x] \in Nat /\ rank[y] \in Nat
    BY <1>3
  <2> QED BY <1>4, <2>2, <2>3
<1> QED BY <1>3, <1>4 DEF IsHereditary

\* A recursion over D with values in V: it stops on some arguments with a value
\* of theirs, and combines what it has at step[x] into its value at any other x.
Descends(D, V, n, rank, stop, base, step, comb) ==
  /\ n \in Nat /\ rank \in [D -> 0 .. n] /\ stop \subseteq D
  /\ base \in [D -> V] /\ step \in [D -> D] /\ comb \in [D -> [V -> V]]
  /\ \A x \in D \ stop : rank[step[x]] < rank[x]

Follows(f, D, stop, base, step, comb) ==
  \A x \in D : f[x] = IF x \in stop THEN base[x] ELSE comb[x][f[step[x]]]

\* A recursion that goes down a bounded rank defines a function.
LEMMA RankRecursion ==
  ASSUME NEW D, NEW V, NEW n, NEW rank, NEW stop, NEW base, NEW step, NEW comb,
         Descends(D, V, n, rank, stop, base, step, comb)
  PROVE  \E f \in [D -> V] : Follows(f, D, stop, base, step, comb)
<1> DEFINE Val(f, x) == IF x \in stop THEN base[x] ELSE comb[x][f[step[x]]]
           Holds(f, k) == \A x \in D : rank[x] < k => f[x] = Val(f, x)
           S == {k \in Nat : \E f \in [D -> V] : Holds(f, k)}
           Id == [k \in Nat |-> k]
<1> USE DEF Descends
<1>1. ASSUME NEW f \in [D -> V], NEW x \in D PROVE Val(f, x) \in V
  BY <1>1
<1>2. ASSUME NEW k \in Nat, \A l \in Nat : l < k => l \in S PROVE k \in S
  <2>1. CASE k = 0
    <3>1. Holds(base, 0)
      OBVIOUS
    <3> QED BY <2>1, <3>1
  <2>2. CASE k # 0
    <3>1. k - 1 \in Nat /\ k - 1 < k
      BY <2>2
    <3>2. PICK f \in [D -> V] : Holds(f, k - 1)
      BY <1>2, <3>1
    <3> DEFINE g == [x \in D |-> Val(f, x)]
    <3>3. g \in [D -> V]
      BY <1>1
    <3>4. ASSUME NEW x \in D, rank[x] < k - 1 PROVE g[x] = f[x]
      BY <3>2, <3>4
    <3>5. ASSUME NEW x \in D, rank[x] < k PROVE g[x] = Val(g, x)
      <4>1. CASE x \in stop
        BY <4>1
      <4>2. CASE x \notin stop
        <5>1. step[x] \in D /\ rank[step[x]] < k - 1
          <6>1. rank[step[x]] < rank[x] /\ step[x] \in D
            BY <4>2
          <6>2. rank[step[x]] \in Nat /\ rank[x] \in Nat
            BY <6>1
          <6> QED BY <3>5, <6>1, <6>2
        <5>2. g[step[x]] = f[step[x]]
          BY <3>4, <5>1
        <5> HIDE DEF g
        <5>3. g[x] = Val(f, x)
          BY DEF g
        <5> QED BY <4>2, <5>2, <5>3
      <4> QED BY <4>1, <4>2
    <3> HIDE DEF g
    <3>6. Holds(g, k)
      BY <3>5
    <3> QED BY <3>3, <3>6
  <2> QED BY <2>1, <2>2
<1>3. Nat \subseteq S
  <2>1. Id \in [Nat -> Nat]
    OBVIOUS
  <2>2. IsHereditary(S, Nat, Id)
    <3> HIDE DEF S
    <3> QED BY <1>2 DEF IsHereditary
  <2> HIDE DEF S, Id
  <2> QED BY <2>1, <2>2, RankInduction
<1>4. PICK f \in [D -> V] : Holds(f, n + 1)
  <2>1. n + 1 \in S
    <3> HIDE DEF S
    <3> QED BY <1>3
  <2> QED BY <2>1
<1>5. ASSUME NEW x \in D PROVE rank[x] < n + 1
  OBVIOUS
<1> QED BY <1>4, <1>5 DEF Follows


-----------------------------------------------------------------------------
(* Bytes, and the scans that stop at the first byte out of a class *)

\* The symbols, and no symbol has the name of another kind of word.
LEMMA SymbolFacts ==
  /\ DOMAIN Symbols = {".", ":", ",", "(", ")", "\n", "!", "?", "%"}
  /\ \A b \in DOMAIN Symbols :
       Symbols[b] \notin {"IMM_CHAR", "IMM_STR", "IMM_INT", "IDENT", "EOF",
                          "unexpected", "unterminated"}
<1>1. DOMAIN Symbols = {".", ":", ",", "(", ")", "\n", "!", "?", "%"}
  BY DEF Symbols
<1>2. /\ Symbols["."] = "DOT" /\ Symbols[":"] = "COLON" /\ Symbols[","] = "COMMA"
      /\ Symbols["("] = "LPAREN" /\ Symbols[")"] = "RPAREN" /\ Symbols["\n"] = "NEWLINE"
      /\ Symbols["!"] = "EXCLAMATION" /\ Symbols["?"] = "QUESTION" /\ Symbols["%"] = "PERCENT"
  BY DEF Symbols
<1>3. ASSUME NEW b \in DOMAIN Symbols
      PROVE  Symbols[b] \notin {"IMM_CHAR", "IMM_STR", "IMM_INT", "IDENT", "EOF",
                                "unexpected", "unterminated"}
  <2>1. Symbols[b] \in {"DOT", "COLON", "COMMA", "LPAREN", "RPAREN", "NEWLINE", "EXCLAMATION",
                        "QUESTION", "PERCENT"}
    BY <1>1, <1>2
  <2> QED BY <2>1
<1> QED BY <1>1, <1>3

\* The quote of a string is a byte of its own.
LEMMA DoubleQuoteFacts ==
  DoubleQuote \notin Digits \union Letters \union IdentMarks \union Spaces \union DOMAIN Symbols
                    \union {"'", "\\", "/", "0", "NUL"}
<1>1. DOMAIN Symbols = {".", ":", ",", "(", ")", "\n", "!", "?", "%"}
  BY SymbolFacts
<1> QED BY <1>1, Zenon DEF DoubleQuote, Digits, Letters, IdentMarks, Spaces

\* No byte belongs to two classes, but for the quote that separates digits.
LEMMA ByteClasses ==
  /\ \A b \in Letters \union IdentMarks : b \notin Digits
  /\ \A b \in DOMAIN Symbols \union {"'"} : b \notin Digits \union Letters \union IdentMarks
<1>1. \A b \in Letters \union IdentMarks : b \notin Digits
  BY ZenonT(60) DEF Letters, IdentMarks, Digits
<1>2. ASSUME NEW b \in DOMAIN Symbols \union {"'"}
      PROVE  b \notin Digits \union Letters \union IdentMarks
  <2>1. b \in {".", ":", ",", "(", ")", "\n", "!", "?", "%", "'"}
    BY SymbolFacts
  <2>2. b \notin Digits /\ b \notin IdentMarks
    BY <2>1 DEF Digits, IdentMarks
  <2>3. b \notin Letters
    BY <2>1, ZenonT(60) DEF Letters
  <2> QED BY <2>2, <2>3
<1> QED BY <1>1, <1>2

\* The text is as long as a number says, and has a byte at every offset before that.
LEMMA ByteFacts ==
  ASSUME text \in Seq(STRING)
  PROVE  /\ Size \in Nat /\ ByteAt(Size) = "NUL" /\ ByteAt(Size + 1) = "NUL"
         /\ \A o \in 0 .. Size - 1 : ByteAt(o) = text[o + 1] /\ text[o + 1] \in STRING
         /\ \A o \in Nat : o >= Size => ByteAt(o) = "NUL"
BY DEF Size, ByteAt

\* From every offset on, there is a first byte out of a class, or the text ends.
LEMMA FirstOutside ==
  ASSUME text \in Seq(STRING), NEW o \in 0 .. Size, NEW S
  PROVE  \E e \in o .. Size : /\ \A i \in o .. e - 1 : ByteAt(i) \in S
                              /\ e = Size \/ ByteAt(e) \notin S
<1> DEFINE R == {e \in o .. Size : e = Size \/ ByteAt(e) \notin S}
<1>1. Size \in Nat
  BY ByteFacts
<1>2. R \in SUBSET Nat /\ Size \in R
  BY <1>1
<1>3. PICK e \in R : \A l \in R : e <= l
  <2> HIDE DEF R
  <2> QED BY <1>2, LeastNat
<1>4. ASSUME NEW i \in o .. e - 1 PROVE ByteAt(i) \in S
  <2>1. i \in o .. Size /\ i < e
    BY <1>1, <1>3
  <2>2. i \notin R
    <3> HIDE DEF R
    <3> QED BY <1>2, <1>3, <2>1
  <2> QED BY <2>1, <2>2
<1> QED BY <1>3, <1>4

LEMMA SpanFacts ==
  ASSUME text \in Seq(STRING), NEW o \in 0 .. Size, NEW S
  PROVE  /\ SpanOf(o, S) \in o .. Size
         /\ \A i \in o .. SpanOf(o, S) - 1 : ByteAt(i) \in S
         /\ SpanOf(o, S) = Size \/ ByteAt(SpanOf(o, S)) \notin S
BY FirstOutside DEF SpanOf

LEMMA LineEndFacts ==
  ASSUME text \in Seq(STRING), NEW o \in 0 .. Size
  PROVE  /\ LineEnd(o) \in o .. Size
         /\ \A i \in o .. LineEnd(o) - 1 : ByteAt(i) # "\n"
         /\ LineEnd(o) = Size \/ ByteAt(LineEnd(o)) = "\n"
<1> DEFINE S == STRING \ {"\n"}
<1>1. PICK e \in o .. Size : /\ \A i \in o .. e - 1 : ByteAt(i) \in S
                             /\ e = Size \/ ByteAt(e) \notin S
  BY FirstOutside
<1>2. \A i \in o .. e - 1 : ByteAt(i) # "\n"
  BY <1>1
<1>3. e = Size \/ ByteAt(e) = "\n"
  <2>1. CASE e # Size
    <3>1. Size \in Nat
      BY ByteFacts
    <3>2. e \in 0 .. Size - 1
      BY <2>1, <3>1
    <3> QED BY <1>1, <2>1, <3>2, ByteFacts
  <2> QED BY <2>1
<1> HIDE DEF S
<1> QED BY <1>2, <1>3 DEF LineEnd

-----------------------------------------------------------------------------
(* Locations *)

Location == [line : Nat, column : Nat, offset : Nat]

\* The function that LocationAt counts with.
LocationFrom ==
  CHOOSE at : at = [k \in loc.offset .. Size |->
                      IF k = loc.offset THEN loc ELSE NextLocation(at[k - 1], ByteAt(k - 1))]

LEMMA LocationAtIs ==
  \A o : LocationAt(o) = LocationFrom[o]
BY Zenon DEF LocationAt, LocationFrom

LEMMA NextLocationType ==
  ASSUME NEW l \in Location, NEW b
  PROVE  NextLocation(l, b) \in Location /\ NextLocation(l, b).offset = l.offset + 1
<1>1. CASE b = "\n"
  BY <1>1 DEF NextLocation, Location
<1>2. CASE b # "\n"
  <2>1. l.column \in Nat /\ l.offset \in Nat /\ l.column + 1 \in Nat /\ l.offset + 1 \in Nat
    BY DEF Location
  <2>2. NextLocation(l, b) = [[l EXCEPT !.column = l.column + 1] EXCEPT !.offset = l.offset + 1]
    BY <1>2 DEF NextLocation, Location
  <2>3. [l EXCEPT !.column = l.column + 1] \in Location
    BY <2>1 DEF Location
  <2> QED BY <2>1, <2>2, <2>3 DEF Location
<1> QED BY <1>1, <1>2

LEMMA LocationFromDef ==
  ASSUME text \in Seq(STRING), loc \in Location, loc.offset <= Size
  PROVE  \A k \in loc.offset .. Size :
           LocationFrom[k] = IF k = loc.offset THEN loc
                             ELSE NextLocation(LocationFrom[k - 1], ByteAt(k - 1))
<1> DEFINE D    == loc.offset .. Size
           rank == [k \in D |-> k - loc.offset]
           base == [k \in D |-> loc]
           step == [k \in D |-> IF k = loc.offset THEN k ELSE k - 1]
           comb == [k \in D |-> [l \in Location |-> NextLocation(l, ByteAt(k - 1))]]
           stop == {loc.offset}
           n    == Size - loc.offset
           Val(f, k) == IF k = loc.offset THEN loc ELSE NextLocation(f[k - 1], ByteAt(k - 1))
<1>1. Size \in Nat /\ loc.offset \in Nat /\ n \in Nat
  BY ByteFacts DEF Location
<1>2. /\ rank \in [D -> 0 .. n] /\ base \in [D -> Location] /\ step \in [D -> D]
      /\ stop \in SUBSET D
  BY <1>1 DEF Location
<1>3. \A k \in D \ stop : rank[step[k]] < rank[k]
  BY <1>1
<1>4. comb \in [D -> [Location -> Location]]
  BY NextLocationType
<1>5. PICK f \in [D -> Location] : Follows(f, D, stop, base, step, comb)
  <2> HIDE DEF D, rank, base, step, comb, n, stop
  <2>1. Descends(D, Location, n, rank, stop, base, step, comb)
    BY <1>1, <1>2, <1>3, <1>4 DEF Descends
  <2> QED BY <2>1, RankRecursion
<1>6. f = [k \in D |-> Val(f, k)]
  <2>1. ASSUME NEW k \in D PROVE f[k] = Val(f, k)
    <3>1. CASE k = loc.offset
      BY <1>5, <3>1 DEF Follows
    <3>2. CASE k # loc.offset
      <4>1. step[k] = k - 1 /\ k - 1 \in D
        BY <1>1, <3>2
      <4>2. f[k - 1] \in Location
        BY <4>1
      <4> QED BY <1>5, <3>2, <4>1, <4>2 DEF Follows
    <3> QED BY <3>1, <3>2
  <2> HIDE DEF D, Val
  <2> QED BY <2>1
<1>7. LocationFrom = [k \in D |-> Val(LocationFrom, k)]
  BY <1>6, Zenon DEF LocationFrom
<1> HIDE DEF LocationFrom
<1> QED BY <1>7

\* The text up to an offset holds a newline more than up to the offset before,
\* or as many.
LEMMA NewlinesGrow ==
  ASSUME NEW o \in Nat
  PROVE  /\ IsFiniteSet(NewlinesBefore(o)) /\ NewlinesBefore(o) \subseteq 0 .. o - 1
         /\ o \notin NewlinesBefore(o)
         /\ NewlinesBefore(o + 1) = IF ByteAt(o) = "\n" THEN NewlinesBefore(o) \union {o}
                                    ELSE NewlinesBefore(o)
<1>1. NewlinesBefore(o) \subseteq 0 .. o - 1
  BY DEF NewlinesBefore
<1>2. IsFiniteSet(NewlinesBefore(o))
  <2>1. IsFiniteSet(0 .. o - 1)
    BY FS_Interval
  <2> QED BY <1>1, <2>1, FS_Subset
<1>3. NewlinesBefore(o + 1) = IF ByteAt(o) = "\n" THEN NewlinesBefore(o) \union {o}
                              ELSE NewlinesBefore(o)
  BY DEF NewlinesBefore
<1> QED BY <1>1, <1>2, <1>3

\* One byte further on, the location that next() makes of a true one is true.
LEMMA NextLocationTrue ==
  ASSUME NEW l \in Location, IsTrue(l)
  PROVE  IsTrue(NextLocation(l, ByteAt(l.offset)))
<1> DEFINE o == l.offset
           m == NextLocation(l, ByteAt(o))
           N == NewlinesBefore(o)
<1>1. o \in Nat /\ l.line \in Nat /\ l.column \in Nat
  BY DEF Location
<1>2. m.offset = o + 1
  BY NextLocationType
<1>3. /\ IsFiniteSet(N) /\ N \subseteq 0 .. o - 1 /\ o \notin N
      /\ NewlinesBefore(o + 1) = IF ByteAt(o) = "\n" THEN N \union {o} ELSE N
  BY <1>1, NewlinesGrow
<1>4. /\ l.line = 1 + Cardinality(N)
      /\ l.column = IF N = {} THEN o + 1 ELSE o - Max(N)
  BY DEF IsTrue
<1>5. CASE ByteAt(o) = "\n"
  <2>1. m.line = l.line + 1 /\ m.column = 1
    BY <1>5 DEF NextLocation
  <2>2. Cardinality(N \union {o}) = Cardinality(N) + 1
    BY <1>3, FS_AddElement
  <2>3. Max(N \union {o}) = o
    <3>1. \A x \in N : x < o /\ x \in Int
      BY <1>1, <1>3
    <3>2. \A x \in N \union {o} : (\A y \in N \union {o} : x >= y) <=> x = o
      BY <1>1, <3>1
    <3> HIDE DEF N, o
    <3> QED BY <1>3, <3>2 DEF Max
  <2>4. Cardinality(N) \in Nat
    BY <1>3, FS_CardinalityType
  <2>5. IsTrue(m)
    <3> HIDE DEF N, o, m
    <3>1. NewlinesBefore(m.offset) = N \union {o} /\ N \union {o} # {}
      BY <1>2, <1>3, <1>5
    <3>2. m.line = 1 + Cardinality(N \union {o})
      BY <1>1, <1>4, <2>1, <2>2, <2>4
    <3>3. m.column = m.offset - Max(N \union {o})
      BY <1>1, <1>2, <2>1, <2>3
    <3> QED BY <3>1, <3>2, <3>3 DEF IsTrue
  <2> QED BY <2>5
<1>6. CASE ByteAt(o) # "\n"
  <2>1. m.line = l.line /\ m.column = l.column + 1
    BY <1>6 DEF NextLocation, Location
  <2>2. N # {} => Max(N) \in Int
    <3>1. ASSUME N # {} PROVE Max(N) \in N
      <4>1. N \subseteq Int
        BY <1>3
      <4> DEFINE R == {o - x : x \in N}
      <4>2. R \in SUBSET Nat /\ R # {}
        BY <1>1, <1>3, <3>1
      <4>3. PICK k \in R : \A r \in R : k <= r
        BY <4>2, LeastNat
      <4>4. PICK x \in N : k = o - x
        BY <4>3
      <4>5. ASSUME NEW y \in N PROVE x >= y
        <5>1. o - y \in R
          OBVIOUS
        <5>2. o - x <= o - y
          BY <4>3, <4>4, <5>1
        <5> QED BY <1>1, <4>1, <5>2
      <4> HIDE DEF N, R
      <4> QED BY <4>5 DEF Max
    <3> QED BY <1>3, <3>1
  <2>3. IsTrue(m)
    <3> HIDE DEF N, o, m
    <3>1. NewlinesBefore(m.offset) = N
      BY <1>2, <1>3, <1>6
    <3>2. m.line = 1 + Cardinality(N)
      BY <1>4, <2>1
    <3>3. m.column = IF N = {} THEN (o + 1) + 1 ELSE (o + 1) - Max(N)
      BY <1>1, <1>4, <2>1, <2>2
    <3> QED BY <1>2, <3>1, <3>2, <3>3 DEF IsTrue
  <2> QED BY <2>3
<1> QED BY <1>5, <1>6

\* From a true location on, the locations that are counted are true.
LEMMA LocationsCounted ==
  ASSUME text \in Seq(STRING), loc \in Location, loc.offset <= Size, IsTrue(loc)
  PROVE  \A o \in loc.offset .. Size :
           /\ LocationAt(o) \in Location /\ LocationAt(o).offset = o
           /\ IsTrue(LocationAt(o))
<1> DEFINE D    == loc.offset .. Size
           rank == [k \in D |-> k - loc.offset]
           Good(k) == /\ LocationFrom[k] \in Location /\ LocationFrom[k].offset = k
                      /\ IsTrue(LocationFrom[k])
           S    == {k \in D : Good(k)}
<1>1. Size \in Nat /\ loc.offset \in Nat
  BY ByteFacts DEF Location
<1>2. rank \in [D -> Nat]
  BY <1>1
<1>3. ASSUME NEW k \in D, \A l \in D : rank[l] < rank[k] => l \in S PROVE k \in S
  <2>1. CASE k = loc.offset
    <3>1. LocationFrom[k] = loc
      BY <2>1, LocationFromDef
    <3> QED BY <2>1, <3>1
  <2>2. CASE k # loc.offset
    <3>1. k - 1 \in D /\ rank[k - 1] < rank[k]
      BY <1>1, <2>2
    <3>2. Good(k - 1)
      BY <1>3, <3>1
    <3>3. LocationFrom[k] = NextLocation(LocationFrom[k - 1], ByteAt(k - 1))
      BY <2>2, LocationFromDef
    <3>4. LocationFrom[k] \in Location /\ LocationFrom[k].offset = (k - 1) + 1
      BY <3>2, <3>3, NextLocationType
    <3>5. IsTrue(LocationFrom[k])
      BY <3>2, <3>3, NextLocationTrue
    <3> QED BY <1>1, <3>4, <3>5
  <2> QED BY <2>1, <2>2
<1>4. D \subseteq S
  <2> HIDE DEF D, S, rank
  <2>1. IsHereditary(S, D, rank)
    BY <1>3 DEF IsHereditary
  <2> QED BY <1>2, <2>1, RankInduction
<1> QED BY <1>4, LocationAtIs

-----------------------------------------------------------------------------
(* What is blank *)

IsComment(o) == ByteAt(o) = "/" /\ ByteAt(o + 1) = "/"

\* The function that AfterBlanks scans with.
SkipFrom ==
  CHOOSE skip : skip = [o \in 0 .. Size |->
                          IF ByteAt(o) \in Spaces THEN skip[o + 1]
                          ELSE IF ByteAt(o) = "/" /\ ByteAt(o + 1) = "/" THEN skip[LineEnd(o + 2)]
                          ELSE o]

LEMMA AfterBlanksIs == AfterBlanks = SkipFrom[loc.offset]
BY Zenon DEF AfterBlanks, SkipFrom

\* What is no space and begins no comment stops the scan.
LEMMA BlankBytes ==
  ASSUME text \in Seq(STRING), NEW o \in 0 .. Size
  PROVE  /\ ByteAt(o) \in Spaces => o < Size /\ o + 1 \in 0 .. Size
         /\ IsComment(o) => /\ o + 2 \in 0 .. Size /\ ByteAt(o) \notin Spaces
                            /\ LineEnd(o + 2) \in o + 2 .. Size
         /\ "NUL" \notin Spaces /\ "\n" \notin Spaces
<1>1. Size \in Nat /\ ByteAt(Size) = "NUL" /\ ByteAt(Size + 1) = "NUL"
  BY ByteFacts
<1>2. "NUL" \notin Spaces /\ "\n" \notin Spaces /\ "/" \notin Spaces
  BY DEF Spaces
<1>3. ByteAt(o) \in Spaces => o < Size /\ o + 1 \in 0 .. Size
  BY <1>1, <1>2
<1>4. ASSUME IsComment(o) PROVE o + 2 \in 0 .. Size /\ ByteAt(o) \notin Spaces
  <2>1. o # Size /\ o + 1 # Size
    BY <1>1, <1>4 DEF IsComment
  <2> QED BY <1>1, <1>2, <1>4, <2>1 DEF IsComment
<1> QED BY <1>2, <1>3, <1>4, LineEndFacts

LEMMA SkipFromDef ==
  ASSUME text \in Seq(STRING)
  PROVE  \A o \in 0 .. Size :
           SkipFrom[o] = IF ByteAt(o) \in Spaces THEN SkipFrom[o + 1]
                         ELSE IF IsComment(o) THEN SkipFrom[LineEnd(o + 2)] ELSE o
<1> DEFINE D    == 0 .. Size
           rank == [o \in D |-> Size - o]
           stop == {o \in D : ByteAt(o) \notin Spaces /\ ~IsComment(o)}
           base == [o \in D |-> o]
           step == [o \in D |-> IF ByteAt(o) \in Spaces THEN o + 1
                                ELSE IF IsComment(o) THEN LineEnd(o + 2) ELSE o]
           comb == [o \in D |-> [v \in D |-> v]]
           Val(f, o) == IF ByteAt(o) \in Spaces THEN f[o + 1]
                        ELSE IF ByteAt(o) = "/" /\ ByteAt(o + 1) = "/" THEN f[LineEnd(o + 2)] ELSE o
<1>1. Size \in Nat
  BY ByteFacts
<1>2. /\ rank \in [D -> 0 .. Size] /\ base \in [D -> D] /\ stop \subseteq D
      /\ comb \in [D -> [D -> D]]
  BY <1>1
<1>3. ASSUME NEW o \in D
      PROVE  step[o] \in D /\ (o \notin stop => rank[step[o]] < rank[o])
  <2>1. CASE ByteAt(o) \in Spaces
    BY <1>1, <2>1, BlankBytes
  <2>2. CASE ByteAt(o) \notin Spaces /\ IsComment(o)
    <3>1. step[o] = LineEnd(o + 2) /\ LineEnd(o + 2) \in o + 2 .. Size
      BY <2>2, BlankBytes
    <3>2. step[o] \in D /\ step[o] > o
      BY <1>1, <3>1
    <3> QED BY <1>1, <3>2
  <2>3. CASE ByteAt(o) \notin Spaces /\ ~IsComment(o)
    BY <2>3
  <2> QED BY <2>1, <2>2, <2>3
<1>4. step \in [D -> D]
  <2>1. \A o \in D : step[o] \in D
    BY <1>3
  <2> QED BY <2>1
<1>5. PICK f \in [D -> D] : Follows(f, D, stop, base, step, comb)
  <2> HIDE DEF D, rank, base, step, comb, stop
  <2>1. Descends(D, D, Size, rank, stop, base, step, comb)
    BY <1>1, <1>2, <1>3, <1>4 DEF Descends
  <2> QED BY <2>1, RankRecursion
<1>6. f = [o \in D |-> Val(f, o)]
  <2>1. ASSUME NEW o \in D PROVE f[o] = Val(f, o)
    <3>1. CASE o \in stop
      <4>1. f[o] = o
        BY <1>5, <3>1 DEF Follows
      <4> QED BY <3>1, <4>1 DEF IsComment
    <3>2. CASE o \notin stop
      <4>1. f[o] = comb[o][f[step[o]]] /\ f[step[o]] \in D
        BY <1>3, <1>5, <3>2 DEF Follows
      <4>2. f[o] = f[step[o]]
        <5> HIDE DEF step
        <5> QED BY <4>1
      <4> QED BY <3>2, <4>2 DEF IsComment
    <3> QED BY <3>1, <3>2
  <2> HIDE DEF D, Val
  <2> QED BY <2>1
<1>7. SkipFrom = [o \in D |-> Val(SkipFrom, o)]
  BY <1>6, Zenon DEF SkipFrom
<1> HIDE DEF SkipFrom
<1> QED BY <1>7 DEF IsComment

\* A space, or a comment up to the end of its line, before what is blank is blank.
LEMMA BlankAfterSpace ==
  ASSUME text \in Seq(STRING), NEW o \in 0 .. Size, NEW e \in 0 .. Size, o + 1 <= e,
         ByteAt(o) \in Spaces, IsBlank(o + 1, e)
  PROVE  IsBlank(o, e)
<1>1. PICK s \in o + 1 .. e :
        /\ \A j \in o + 1 .. s - 1 : ByteAt(j) \in Spaces
        /\ \/ s = e
           \/ /\ s + 2 <= e /\ ByteAt(s) = "/" /\ ByteAt(s + 1) = "/"
              /\ \A j \in s .. e - 1 : ByteAt(j) # "\n"
              /\ e = Size \/ ByteAt(e) = "\n"
  BY DEF IsBlank
<1>2. Size \in Nat
  BY ByteFacts
<1>3. s \in o .. e
  BY <1>2
<1>4. \A j \in o .. s - 1 : ByteAt(j) \in Spaces
  BY <1>1, <1>2
<1> QED BY <1>1, <1>3, <1>4 DEF IsBlank

LEMMA CommentIsBlank ==
  ASSUME text \in Seq(STRING), NEW o \in 0 .. Size, IsComment(o)
  PROVE  IsBlank(o, LineEnd(o + 2))
<1> DEFINE e == LineEnd(o + 2)
<1>1. Size \in Nat /\ o + 2 \in 0 .. Size
  BY ByteFacts, BlankBytes
<1>2. /\ e \in o + 2 .. Size /\ \A i \in o + 2 .. e - 1 : ByteAt(i) # "\n"
      /\ e = Size \/ ByteAt(e) = "\n"
  BY <1>1, LineEndFacts
<1>3. ASSUME NEW i \in o .. e - 1 PROVE ByteAt(i) # "\n"
  <2>1. i = o \/ i = o + 1 \/ i \in o + 2 .. e - 1
    BY <1>1, <1>2
  <2> HIDE DEF e
  <2> QED BY <1>2, <2>1 DEF IsComment
<1>4. o \in o .. e /\ o + 2 <= e
  BY <1>1, <1>2
<1>5. IsBlank(o, e)
  <2> HIDE DEF e
  <2> QED BY <1>2, <1>3, <1>4 DEF IsBlank, IsComment
<1> QED BY <1>5

\* The scan stops where the text goes on, and what it left behind is blank.
LEMMA SkipFacts ==
  ASSUME text \in Seq(STRING)
  PROVE  \A o \in 0 .. Size :
           /\ SkipFrom[o] \in o .. Size /\ IsBlank(o, SkipFrom[o])
           /\ ByteAt(SkipFrom[o]) \notin Spaces /\ ~IsComment(SkipFrom[o])
<1> DEFINE D    == 0 .. Size
           rank == [o \in D |-> Size - o]
           Good(o) == /\ SkipFrom[o] \in o .. Size /\ IsBlank(o, SkipFrom[o])
                      /\ ByteAt(SkipFrom[o]) \notin Spaces /\ ~IsComment(SkipFrom[o])
           S    == {o \in D : Good(o)}
<1>1. Size \in Nat
  BY ByteFacts
<1>2. rank \in [D -> Nat]
  BY <1>1
<1>3. ASSUME NEW o \in D, \A l \in D : rank[l] < rank[o] => l \in S PROVE o \in S
  <2>1. CASE ByteAt(o) \in Spaces
    <3>1. SkipFrom[o] = SkipFrom[o + 1] /\ o + 1 \in D
      BY <2>1, SkipFromDef, BlankBytes
    <3>2. Good(o + 1)
      <4>1. rank[o + 1] < rank[o]
        BY <1>1, <3>1
      <4> QED BY <1>3, <3>1, <4>1
    <3>3. SkipFrom[o] \in o + 1 .. Size /\ o + 1 <= SkipFrom[o]
      BY <1>1, <3>1, <3>2
    <3>4. IsBlank(o, SkipFrom[o])
      BY <1>1, <2>1, <3>1, <3>2, <3>3, BlankAfterSpace
    <3> QED BY <1>1, <3>1, <3>2, <3>3, <3>4
  <2>2. CASE ByteAt(o) \notin Spaces /\ IsComment(o)
    <3> DEFINE e == LineEnd(o + 2)
    <3>1. SkipFrom[o] = SkipFrom[e] /\ e \in o + 2 .. Size /\ o + 2 \in D
      BY <2>2, SkipFromDef, BlankBytes
    <3>2. e \in D /\ e > o /\ (e = Size \/ ByteAt(e) = "\n")
      BY <1>1, <3>1, LineEndFacts
    <3>3. ByteAt(e) \notin Spaces /\ ~IsComment(e)
      BY <3>2, ByteFacts, BlankBytes DEF IsComment
    <3>4. SkipFrom[e] = e
      BY <3>2, <3>3, SkipFromDef
    <3>5. IsBlank(o, e)
      BY <2>2, CommentIsBlank
    <3> HIDE DEF e
    <3> QED BY <1>1, <3>1, <3>2, <3>3, <3>4, <3>5
  <2>3. CASE ByteAt(o) \notin Spaces /\ ~IsComment(o)
    <3>1. SkipFrom[o] = o
      BY <2>3, SkipFromDef
    <3>2. IsBlank(o, o)
      BY <1>1 DEF IsBlank
    <3> QED BY <1>1, <2>3, <3>1, <3>2
  <2> QED BY <2>1, <2>2, <2>3
<1>4. D \subseteq S
  <2> HIDE DEF D, S, rank
  <2>1. IsHereditary(S, D, rank)
    BY <1>3 DEF IsHereditary
  <2> QED BY <1>2, <2>1, RankInduction
<1> QED BY <1>4

-----------------------------------------------------------------------------
(* Backslashes *)

\* What is escaped in a word is settled by what stands before it.
LEMMA EscapedPrefix ==
  ASSUME NEW v, NEW w, NEW i \in Nat, \A j \in 1 .. i - 1 : v[j] = w[j]
  PROVE  Escaped(v, i) <=> Escaped(w, i)
<1>1. ASSUME NEW k \in 0 .. i - 2
      PROVE  /\ \A j \in i - k .. i - 1 : v[j] = w[j]
             /\ i - k = 2 \/ v[i - k - 1] = w[i - k - 1]
  OBVIOUS
<1> QED BY <1>1 DEF Escaped

\* Before every place inside a word there is a run of backslashes, maybe of none.
LEMMA BackslashRun ==
  ASSUME NEW w, NEW i \in Nat, i >= 2
  PROVE  \E m \in 0 .. i - 2 : /\ \A j \in i - m .. i - 1 : w[j] = "\\"
                               /\ i - m = 2 \/ w[i - m - 1] # "\\"
<1> DEFINE R == {k \in 0 .. i - 2 : i - k = 2 \/ w[i - k - 1] # "\\"}
<1>1. R \in SUBSET Nat /\ i - 2 \in R
  OBVIOUS
<1>2. PICK m \in R : \A l \in R : m <= l
  <2> HIDE DEF R
  <2> QED BY <1>1, LeastNat
<1>3. ASSUME NEW j \in i - m .. i - 1 PROVE w[j] = "\\"
  <2>1. m \in 0 .. i - 2
    BY <1>2
  <2>2. i - 1 - j \in 0 .. i - 2 /\ i - 1 - j < m
    BY <2>1
  <2>3. i - 1 - j \notin R
    <3> HIDE DEF R
    <3> QED BY <1>1, <1>2, <2>1, <2>2
  <2>4. w[i - (i - 1 - j) - 1] = "\\"
    BY <2>2, <2>3
  <2>5. i - (i - 1 - j) - 1 = j
    BY <2>1
  <2> QED BY <2>4, <2>5
<1> QED BY <1>2, <1>3

\* There is only one such run.
LEMMA OneBackslashRun ==
  ASSUME NEW w, NEW i \in Nat, NEW k \in 0 .. i - 2, NEW m \in 0 .. i - 2,
         \A j \in i - k .. i - 1 : w[j] = "\\", i - k = 2 \/ w[i - k - 1] # "\\",
         \A j \in i - m .. i - 1 : w[j] = "\\", i - m = 2 \/ w[i - m - 1] # "\\"
  PROVE  k = m
<1>1. ~(k < m)
  <2> SUFFICES ASSUME k < m PROVE FALSE
    OBVIOUS
  <2>1. i - k - 1 \in i - m .. i - 1 /\ i - k # 2
    OBVIOUS
  <2> QED BY <2>1
<1>2. ~(m < k)
  <2> SUFFICES ASSUME m < k PROVE FALSE
    OBVIOUS
  <2>1. i - m - 1 \in i - k .. i - 1 /\ i - m # 2
    OBVIOUS
  <2> QED BY <2>1
<1> QED BY <1>1, <1>2

\* What comes after an opening quote is not escaped, and what comes after any
\* other byte is escaped if that is a backslash that is not.
LEMMA EscapedNext ==
  ASSUME NEW w
  PROVE  /\ ~Escaped(w, 2)
         /\ \A i \in Nat : i >= 2 => (Escaped(w, i + 1) <=> w[i] = "\\" /\ ~Escaped(w, i))
<1>1. ~Escaped(w, 2)
  BY DEF Escaped
<1>2. ASSUME NEW i \in Nat, i >= 2, Escaped(w, i + 1)
      PROVE  w[i] = "\\" /\ ~Escaped(w, i)
  <2>1. PICK k \in 0 .. (i + 1) - 2 :
          /\ k % 2 = 1 /\ \A j \in (i + 1) - k .. (i + 1) - 1 : w[j] = "\\"
          /\ (i + 1) - k = 2 \/ w[(i + 1) - k - 1] # "\\"
    BY <1>2 DEF Escaped
  <2>2. k >= 1 /\ i \in (i + 1) - k .. (i + 1) - 1
    BY <2>1
  <2>3. w[i] = "\\"
    BY <2>1, <2>2
  <2> DEFINE n == k - 1
  <2>4. /\ n \in 0 .. i - 2 /\ i - n = (i + 1) - k /\ i - n - 1 = (i + 1) - k - 1
        /\ n % 2 = 0
    BY <1>2, <2>1, <2>2
  <2>5. /\ \A j \in i - n .. i - 1 : w[j] = "\\"
        /\ i - n = 2 \/ w[i - n - 1] # "\\"
    <3> HIDE DEF n
    <3> QED BY <1>2, <2>1, <2>4
  <2> HIDE DEF n
  <2>6. ASSUME Escaped(w, i) PROVE FALSE
    <3>1. PICK m \in 0 .. i - 2 :
            /\ m % 2 = 1 /\ \A j \in i - m .. i - 1 : w[j] = "\\"
            /\ i - m = 2 \/ w[i - m - 1] # "\\"
      BY <2>6 DEF Escaped
    <3>2. n = m
      BY <2>4, <2>5, <3>1, OneBackslashRun
    <3> QED BY <2>4, <3>1, <3>2
  <2> QED BY <2>3, <2>6
<1>3. ASSUME NEW i \in Nat, i >= 2, w[i] = "\\", ~Escaped(w, i)
      PROVE  Escaped(w, i + 1)
  <2>1. PICK m \in 0 .. i - 2 : /\ \A j \in i - m .. i - 1 : w[j] = "\\"
                                /\ i - m = 2 \/ w[i - m - 1] # "\\"
    BY <1>3, BackslashRun
  <2>2. m % 2 # 1
    BY <1>3, <2>1 DEF Escaped
  <2> DEFINE k == m + 1
  <2>3. /\ k \in 0 .. (i + 1) - 2 /\ k % 2 = 1
        /\ (i + 1) - k = i - m /\ (i + 1) - k - 1 = i - m - 1 /\ (i + 1) - 1 = i
    BY <2>1, <2>2
  <2>4. \A j \in i - m .. i : w[j] = "\\"
    BY <1>3, <2>1
  <2> HIDE DEF k
  <2> QED BY <2>1, <2>3, <2>4 DEF Escaped
<1> QED BY <1>1, <1>2, <1>3

-----------------------------------------------------------------------------
(* The inside of a literal *)

LEMMA SliceFacts ==
  ASSUME text \in Seq(STRING), NEW o \in 0 .. Size, NEW e \in o .. Size
  PROVE  /\ Slice(o, e) \in Seq(STRING) /\ Len(Slice(o, e)) = e - o
         /\ \A i \in 1 .. e - o : Slice(o, e)[i] = ByteAt(o + i - 1)
<1>1. Size \in Nat /\ Size = Len(text)
  BY ByteFacts DEF Size
<1>2. /\ SubSeq(text, o + 1, e) \in Seq(STRING)
      /\ Len(SubSeq(text, o + 1, e)) = e - o
      /\ \A i \in 1 .. e - o : SubSeq(text, o + 1, e)[i] = text[o + i]
  BY <1>1
<1>3. ASSUME NEW i \in 1 .. e - o PROVE text[o + i] = ByteAt(o + i - 1)
  <2>1. o + i - 1 \in 0 .. Size - 1 /\ (o + i - 1) + 1 = o + i
    BY <1>1
  <2> QED BY <2>1, ByteFacts
<1> QED BY <1>2, <1>3 DEF Slice

\* Whether the byte at offset p of the text is escaped in a literal that opens at o.
EscapedAt(o, p) == Escaped(Slice(o, Size), p - o + 1)

LEMMA EscapedAtNext ==
  ASSUME text \in Seq(STRING), NEW o \in 0 .. Size
  PROVE  /\ ~EscapedAt(o, o + 1)
         /\ \A p \in o + 1 .. Size - 1 :
              EscapedAt(o, p + 1) <=> ByteAt(p) = "\\" /\ ~EscapedAt(o, p)
<1> DEFINE w == Slice(o, Size)
<1>1. Size \in Nat /\ \A i \in 1 .. Size - o : w[i] = ByteAt(o + i - 1)
  <2>1. Size \in Nat /\ Size \in o .. Size
    BY ByteFacts
  <2> QED BY <2>1, SliceFacts
<1>2. ~EscapedAt(o, o + 1)
  <2>1. (o + 1) - o + 1 = 2
    OBVIOUS
  <2> QED BY <2>1, EscapedNext DEF EscapedAt
<1>3. ASSUME NEW p \in o + 1 .. Size - 1
      PROVE  EscapedAt(o, p + 1) <=> ByteAt(p) = "\\" /\ ~EscapedAt(o, p)
  <2> DEFINE i == p - o + 1
  <2>1. i \in Nat /\ i >= 2 /\ i \in 1 .. Size - o /\ (p + 1) - o + 1 = i + 1 /\ o + i - 1 = p
    BY <1>1
  <2>2. w[i] = ByteAt(p)
    BY <1>1, <2>1
  <2> HIDE DEF i, w
  <2>3. Escaped(w, i + 1) <=> w[i] = "\\" /\ ~Escaped(w, i)
    BY <2>1, EscapedNext
  <2>4. EscapedAt(o, p + 1) = Escaped(w, i + 1)
    BY <2>1 DEF EscapedAt, w
  <2>5. EscapedAt(o, p) = Escaped(w, i)
    BY DEF EscapedAt, w, i
  <2> QED BY <2>2, <2>3, <2>4, <2>5
<1> QED BY <1>2, <1>3

\* When the text from o to e is a literal in quotes.
LEMMA QuotedSlice ==
  ASSUME text \in Seq(STRING), NEW o \in 0 .. Size, NEW e \in o + 1 .. Size, NEW quote
  PROVE  IsQuoted(Slice(o, e), quote) <=>
           /\ e >= o + 2 /\ ByteAt(o) = quote /\ ByteAt(e - 1) = quote
           /\ \A p \in o + 1 .. e - 1 : ByteAt(p) = quote => (EscapedAt(o, p) <=> p < e - 1)
<1> DEFINE w == Slice(o, e)
           v == Slice(o, Size)
<1>1. Size \in Nat
  BY ByteFacts
<1>2. /\ Len(w) = e - o /\ \A i \in 1 .. e - o : w[i] = ByteAt(o + i - 1)
      /\ \A i \in 1 .. Size - o : v[i] = ByteAt(o + i - 1)
  <2>1. e \in o .. Size /\ Size \in o .. Size
    BY <1>1
  <2> QED BY <2>1, SliceFacts
<1> HIDE DEF w, v
<1>3. w[1] = ByteAt(o) /\ w[e - o] = ByteAt(e - 1)
  <2>1. 1 \in 1 .. e - o /\ e - o \in 1 .. e - o /\ o + 1 - 1 = o /\ o + (e - o) - 1 = e - 1
    BY <1>1
  <2> QED BY <1>2, <2>1
<1>4. ASSUME NEW p \in o + 1 .. e - 1
      PROVE  /\ p - o + 1 \in 2 .. e - o /\ w[p - o + 1] = ByteAt(p)
             /\ Escaped(w, p - o + 1) <=> EscapedAt(o, p)
  <2>1. p - o + 1 \in 2 .. e - o /\ p - o + 1 \in 1 .. e - o /\ o + (p - o + 1) - 1 = p
    BY <1>1
  <2>2. w[p - o + 1] = ByteAt(p)
    BY <1>2, <2>1
  <2>3. \A j \in 1 .. (p - o + 1) - 1 : w[j] = v[j]
    <3>1. ASSUME NEW j \in 1 .. (p - o + 1) - 1 PROVE j \in 1 .. e - o /\ j \in 1 .. Size - o
      BY <1>1
    <3> QED BY <1>2, <3>1
  <2>4. p - o + 1 \in Nat
    BY <2>1
  <2>5. Escaped(w, p - o + 1) <=> Escaped(v, p - o + 1)
    BY <2>3, <2>4, EscapedPrefix
  <2> QED BY <2>1, <2>2, <2>5 DEF EscapedAt, v
<1>5. ASSUME NEW i \in 2 .. e - o
      PROVE  i - 1 + o \in o + 1 .. e - 1 /\ (i - 1 + o) - o + 1 = i
  BY <1>1
<1>6. (\A i \in 2 .. Len(w) : w[i] = quote => (Escaped(w, i) <=> i < Len(w))) <=>
      (\A p \in o + 1 .. e - 1 : ByteAt(p) = quote => (EscapedAt(o, p) <=> p < e - 1))
  <2>1. ASSUME \A i \in 2 .. Len(w) : w[i] = quote => (Escaped(w, i) <=> i < Len(w)),
               NEW p \in o + 1 .. e - 1, ByteAt(p) = quote
        PROVE  EscapedAt(o, p) <=> p < e - 1
    <3>1. p - o + 1 < Len(w) <=> p < e - 1
      BY <1>1, <1>2
    <3>2. Escaped(w, p - o + 1) <=> p - o + 1 < Len(w)
      BY <1>2, <1>4, <2>1
    <3> QED BY <1>4, <3>1, <3>2
  <2>2. ASSUME \A p \in o + 1 .. e - 1 : ByteAt(p) = quote => (EscapedAt(o, p) <=> p < e - 1),
               NEW i \in 2 .. Len(w), w[i] = quote
        PROVE  Escaped(w, i) <=> i < Len(w)
    <3> DEFINE p == i - 1 + o
    <3>1. p \in o + 1 .. e - 1 /\ p - o + 1 = i
      BY <1>2, <1>5
    <3>2. p < e - 1 <=> i < Len(w)
      BY <1>1, <1>2
    <3> HIDE DEF p
    <3>3. ByteAt(p) = quote /\ (Escaped(w, i) <=> EscapedAt(o, p))
      BY <1>4, <2>2, <3>1
    <3> QED BY <2>2, <3>1, <3>2, <3>3
  <2> QED BY <2>1, <2>2
<1>7. Len(w) >= 2 <=> e >= o + 2
  BY <1>1, <1>2
<1>8. IsQuoted(w, quote) <=>
        /\ e >= o + 2 /\ ByteAt(o) = quote /\ ByteAt(e - 1) = quote
        /\ \A p \in o + 1 .. e - 1 : ByteAt(p) = quote => (EscapedAt(o, p) <=> p < e - 1)
  BY <1>2, <1>3, <1>6, <1>7 DEF IsQuoted
<1> QED BY <1>8 DEF w

\* The function that LiteralEnd scans with.
InsideFrom(quote) ==
  CHOOSE inside : inside = [i \in 0 .. Size + 1 |->
                              IF i >= Size THEN Size
                              ELSE IF ByteAt(i) = quote THEN i
                              ELSE IF ByteAt(i) = "\\" THEN inside[i + 2]
                              ELSE inside[i + 1]]

LEMMA LiteralEndIs ==
  \A o, quote : LiteralEnd(o, quote) = InsideFrom(quote)[o]
BY Zenon DEF LiteralEnd, InsideFrom

LEMMA InsideFromDef ==
  ASSUME text \in Seq(STRING), NEW quote
  PROVE  \A i \in 0 .. Size + 1 :
           InsideFrom(quote)[i] = IF i >= Size THEN Size
                                  ELSE IF ByteAt(i) = quote THEN i
                                  ELSE IF ByteAt(i) = "\\" THEN InsideFrom(quote)[i + 2]
                                  ELSE InsideFrom(quote)[i + 1]
<1> DEFINE D    == 0 .. Size + 1
           rank == [i \in D |-> Size + 1 - i]
           stop == {i \in D : i >= Size \/ ByteAt(i) = quote}
           base == [i \in D |-> IF i >= Size THEN Size ELSE i]
           step == [i \in D |-> IF i >= Size THEN i
                                ELSE IF ByteAt(i) = "\\" THEN i + 2 ELSE i + 1]
           comb == [i \in D |-> [v \in D |-> v]]
           Val(f, i) == IF i >= Size THEN Size
                        ELSE IF ByteAt(i) = quote THEN i
                        ELSE IF ByteAt(i) = "\\" THEN f[i + 2]
                        ELSE f[i + 1]
<1>1. Size \in Nat /\ Size + 1 \in Nat
  BY ByteFacts
<1>2. /\ rank \in [D -> 0 .. Size + 1] /\ base \in [D -> D] /\ stop \subseteq D
      /\ comb \in [D -> [D -> D]]
  BY <1>1
<1>3. ASSUME NEW i \in D
      PROVE  step[i] \in D /\ (i \notin stop => rank[step[i]] < rank[i])
  BY <1>1
<1>4. step \in [D -> D]
  <2>1. \A i \in D : step[i] \in D
    BY <1>3
  <2> QED BY <2>1
<1>5. PICK f \in [D -> D] : Follows(f, D, stop, base, step, comb)
  <2> HIDE DEF D, rank, base, step, comb, stop
  <2>1. Descends(D, D, Size + 1, rank, stop, base, step, comb)
    BY <1>1, <1>2, <1>3, <1>4 DEF Descends
  <2> QED BY <2>1, RankRecursion
<1>6. f = [i \in D |-> Val(f, i)]
  <2>1. ASSUME NEW i \in D PROVE f[i] = Val(f, i)
    <3>1. CASE i \in stop
      <4>1. f[i] = base[i]
        BY <1>5, <3>1 DEF Follows
      <4> QED BY <3>1, <4>1
    <3>2. CASE i \notin stop
      <4>1. f[i] = comb[i][f[step[i]]] /\ f[step[i]] \in D
        BY <1>3, <1>5, <3>2 DEF Follows
      <4>2. f[i] = f[step[i]]
        <5> HIDE DEF step
        <5> QED BY <4>1
      <4> QED BY <3>2, <4>2
    <3> QED BY <3>1, <3>2
  <2> HIDE DEF D, Val
  <2> QED BY <2>1
<1>7. InsideFrom(quote) = [i \in D |-> Val(InsideFrom(quote), i)]
  BY <1>6, Zenon DEF InsideFrom
<1> HIDE DEF InsideFrom
<1> QED BY <1>7

\* Where the scan of a literal stops that opened at o: at the first quote that
\* is not escaped, or at the end of the text when there is none.
StopsAt(o, quote, p, e) ==
  /\ e \in o + 1 .. Size /\ (e = Size \/ e >= p)
  /\ e < Size => ByteAt(e) = quote /\ ~EscapedAt(o, e)
  /\ \A j \in p .. e - 1 : ByteAt(j) = quote => EscapedAt(o, j)

LEMMA LiteralScan ==
  ASSUME text \in Seq(STRING), NEW o \in 0 .. Size - 1, NEW quote, quote # "\\"
  PROVE  StopsAt(o, quote, o + 1, LiteralEnd(o + 1, quote))
<1> DEFINE D    == o + 1 .. Size + 1
           rank == [p \in D |-> Size + 1 - p]
           In(p) == InsideFrom(quote)[p]
           S    == {p \in D : (p <= Size => ~EscapedAt(o, p)) => StopsAt(o, quote, p, In(p))}
<1>1. Size \in Nat /\ o \in 0 .. Size
  BY ByteFacts
<1>2. rank \in [D -> Nat]
  BY <1>1
<1>3. ASSUME NEW p \in D, \A l \in D : rank[l] < rank[p] => l \in S PROVE p \in S
  <2> SUFFICES ASSUME p <= Size => ~EscapedAt(o, p) PROVE StopsAt(o, quote, p, In(p))
    OBVIOUS
  <2>1. p \in 0 .. Size + 1
    BY <1>1
  <2>0. In(p) = IF p >= Size THEN Size ELSE IF ByteAt(p) = quote THEN p
                ELSE IF ByteAt(p) = "\\" THEN In(p + 2) ELSE In(p + 1)
    BY <2>1, InsideFromDef
  <2> HIDE DEF In
  <2>2. CASE p >= Size
    <3>1. In(p) = Size
      BY <2>0, <2>2
    <3>2. \A j \in p .. Size - 1 : ByteAt(j) = quote => EscapedAt(o, j)
      BY <1>1, <2>2
    <3> QED BY <1>1, <3>1, <3>2 DEF StopsAt
  <2>3. CASE p < Size /\ ByteAt(p) = quote
    <3>1. In(p) = p
      BY <1>1, <2>0, <2>3
    <3>2. \A j \in p .. p - 1 : ByteAt(j) = quote => EscapedAt(o, j)
      BY <1>1
    <3> QED BY <1>1, <2>3, <3>1, <3>2 DEF StopsAt
  <2>4. CASE p < Size /\ ByteAt(p) # quote /\ ByteAt(p) = "\\"
    <3>1. In(p) = In(p + 2)
      BY <1>1, <2>0, <2>4
    <3>2. EscapedAt(o, p + 1) /\ p + 2 \in D
      BY <1>1, <2>4, EscapedAtNext
    <3>3. p + 2 <= Size => ~EscapedAt(o, p + 2)
      <4>1. ASSUME p + 2 <= Size PROVE p + 1 \in o + 1 .. Size - 1 /\ (p + 1) + 1 = p + 2
        BY <1>1, <4>1
      <4> QED BY <1>1, <3>2, <4>1, EscapedAtNext
    <3>4. StopsAt(o, quote, p + 2, In(p + 2))
      <4>1. rank[p + 2] < rank[p]
        BY <1>1, <3>2
      <4>2. p + 2 \in S
        BY <1>3, <3>2, <4>1
      <4> QED BY <3>3, <4>2 DEF In
    <3>5. ASSUME NEW j \in p .. In(p) - 1, ByteAt(j) = quote PROVE EscapedAt(o, j)
      <4>1. In(p) \in Nat
        BY <1>1, <3>1, <3>4 DEF StopsAt
      <4>2. j = p \/ j = p + 1 \/ j \in p + 2 .. In(p + 2) - 1
        BY <3>1, <4>1
      <4> QED BY <2>4, <3>2, <3>4, <3>5, <4>2 DEF StopsAt
    <3>6. In(p) = Size \/ In(p) >= p
      BY <1>1, <3>1, <3>4 DEF StopsAt
    <3> QED BY <3>1, <3>4, <3>5, <3>6 DEF StopsAt
  <2>5. CASE p < Size /\ ByteAt(p) # quote /\ ByteAt(p) # "\\"
    <3>1. In(p) = In(p + 1)
      BY <1>1, <2>0, <2>5
    <3>2. ~EscapedAt(o, p + 1) /\ p + 1 \in D
      BY <1>1, <2>5, EscapedAtNext
    <3>3. StopsAt(o, quote, p + 1, In(p + 1))
      <4>1. rank[p + 1] < rank[p]
        BY <1>1, <3>2
      <4>2. p + 1 \in S
        BY <1>3, <3>2, <4>1
      <4> QED BY <3>2, <4>2 DEF In
    <3>4. ASSUME NEW j \in p .. In(p) - 1, ByteAt(j) = quote PROVE EscapedAt(o, j)
      <4>1. In(p) \in Nat
        BY <1>1, <3>1, <3>3 DEF StopsAt
      <4>2. j = p \/ j \in p + 1 .. In(p + 1) - 1
        BY <3>1, <4>1
      <4> QED BY <2>5, <3>3, <3>4, <4>2 DEF StopsAt
    <3>5. In(p) = Size \/ In(p) >= p
      BY <1>1, <3>1, <3>3 DEF StopsAt
    <3> QED BY <3>1, <3>3, <3>4, <3>5 DEF StopsAt
  <2> QED BY <1>1, <2>2, <2>3, <2>4, <2>5
<1>4. D \subseteq S
  <2> HIDE DEF D, S, rank
  <2>1. IsHereditary(S, D, rank)
    BY <1>3 DEF IsHereditary
  <2> QED BY <1>2, <2>1, RankInduction
<1>5. o + 1 \in D
  BY <1>1
<1>6. StopsAt(o, quote, o + 1, In(o + 1))
  BY <1>1, <1>4, <1>5, EscapedAtNext
<1> QED BY <1>6, LiteralEndIs

\* What opens with a quote is a literal up to there, and nowhere else.
LEMMA QuotedWord ==
  ASSUME text \in Seq(STRING), NEW o \in 0 .. Size - 1, NEW quote, quote # "\\",
         ByteAt(o) = quote
  PROVE  LET e == LiteralEnd(o + 1, quote)
         IN  /\ e \in o + 1 .. Size
             /\ e < Size => IsQuoted(Slice(o, e + 1), quote)
             /\ e < Size => \A end \in e + 2 .. Size : ~IsQuoted(Slice(o, end), quote)
             /\ e = Size => \A end \in o + 1 .. Size : ~IsQuoted(Slice(o, end), quote)
<1> DEFINE e == LiteralEnd(o + 1, quote)
<1>1. Size \in Nat /\ o \in 0 .. Size
  BY ByteFacts
<1>2. StopsAt(o, quote, o + 1, e)
  BY LiteralScan
<1> HIDE DEF e
<1>3. /\ e \in o + 1 .. Size /\ (e < Size => ByteAt(e) = quote /\ ~EscapedAt(o, e))
      /\ \A j \in o + 1 .. e - 1 : ByteAt(j) = quote => EscapedAt(o, j)
  BY <1>2 DEF StopsAt
<1>4. ASSUME e < Size PROVE IsQuoted(Slice(o, e + 1), quote)
  <2>1. e + 1 \in o + 1 .. Size /\ e + 1 >= o + 2 /\ (e + 1) - 1 = e
    BY <1>1, <1>3, <1>4
  <2>2. ASSUME NEW p \in o + 1 .. e, ByteAt(p) = quote
        PROVE  EscapedAt(o, p) <=> p < e
    <3>1. p = e \/ p \in o + 1 .. e - 1
      BY <1>1, <1>3
    <3> QED BY <1>1, <1>3, <1>4, <2>2, <3>1
  <2> QED BY <1>1, <1>3, <1>4, <2>1, <2>2, QuotedSlice
<1>5. ASSUME e < Size, NEW end \in e + 2 .. Size, IsQuoted(Slice(o, end), quote) PROVE FALSE
  <2>1. end \in o + 1 .. Size /\ e \in o + 1 .. end - 1 /\ e < end - 1
    BY <1>1, <1>3
  <2>2. \A p \in o + 1 .. end - 1 : ByteAt(p) = quote => (EscapedAt(o, p) <=> p < end - 1)
    BY <1>1, <1>5, <2>1, QuotedSlice
  <2> QED BY <1>3, <1>5, <2>1, <2>2
<1>6. ASSUME e = Size, NEW end \in o + 1 .. Size, IsQuoted(Slice(o, end), quote) PROVE FALSE
  <2>1. /\ end >= o + 2 /\ ByteAt(end - 1) = quote
        /\ \A p \in o + 1 .. end - 1 : ByteAt(p) = quote => (EscapedAt(o, p) <=> p < end - 1)
    BY <1>1, <1>6, QuotedSlice
  <2>2. end - 1 \in o + 1 .. end - 1 /\ end - 1 \in o + 1 .. e - 1 /\ ~(end - 1 < end - 1)
    BY <1>1, <1>6, <2>1
  <2> QED BY <1>3, <2>1, <2>2
<1> QED BY <1>3, <1>4, <1>5, <1>6 DEF e

-----------------------------------------------------------------------------
(* Words *)

\* When the text from o to e is a number, and when it is a name.
NumberAt(o, e) ==
  \/ ByteAt(o) \in Digits /\ \A p \in o + 1 .. e - 1 : ByteAt(p) \in Digits \union Separators
  \/ /\ e >= o + 2 /\ ByteAt(o) = "0" /\ ByteAt(o + 1) \in RadixChars
     /\ \A p \in o + 2 .. e - 1 : ByteAt(p) \in Digits \union Letters \union Separators

NameAt(o, e) ==
  /\ ByteAt(o) \notin Digits
  /\ \A p \in o .. e - 1 : ByteAt(p) \in Digits \union Letters \union IdentMarks

\* All of a word's bytes from the first-th on are in a class if the text's are.
LEMMA AllInSlice ==
  ASSUME text \in Seq(STRING), NEW o \in 0 .. Size, NEW e \in o .. Size, NEW first \in Nat \ {0},
         NEW S
  PROVE  AllIn(Slice(o, e), first, S) <=> \A p \in o + first - 1 .. e - 1 : ByteAt(p) \in S
<1> DEFINE w == Slice(o, e)
<1>1. Size \in Nat /\ Len(w) = e - o /\ \A i \in 1 .. e - o : w[i] = ByteAt(o + i - 1)
  BY ByteFacts, SliceFacts
<1> HIDE DEF w
<1>2. ASSUME AllIn(w, first, S), NEW p \in o + first - 1 .. e - 1 PROVE ByteAt(p) \in S
  <2>1. p - o + 1 \in first .. Len(w) /\ p - o + 1 \in 1 .. e - o /\ o + (p - o + 1) - 1 = p
    BY <1>1
  <2>2. w[p - o + 1] \in S
    BY <1>2, <2>1 DEF AllIn
  <2>3. w[p - o + 1] = ByteAt(p)
    BY <1>1, <2>1
  <2> QED BY <2>2, <2>3
<1>3. ASSUME \A p \in o + first - 1 .. e - 1 : ByteAt(p) \in S, NEW i \in first .. Len(w)
      PROVE  w[i] \in S
  <2>1. o + i - 1 \in o + first - 1 .. e - 1 /\ i \in 1 .. e - o
    BY <1>1
  <2> QED BY <1>1, <1>3, <2>1
<1>4. AllIn(w, first, S) <=> \A p \in o + first - 1 .. e - 1 : ByteAt(p) \in S
  BY <1>2, <1>3 DEF AllIn
<1> QED BY <1>4 DEF w

LEMMA NumberSlice ==
  ASSUME text \in Seq(STRING), NEW o \in 0 .. Size, NEW e \in o + 1 .. Size
  PROVE  IsWord("IMM_INT", Slice(o, e)) <=> NumberAt(o, e)
<1> DEFINE w == Slice(o, e)
<1>1. Size \in Nat /\ e \in o .. Size
  BY ByteFacts
<1>2. Len(w) = e - o /\ \A i \in 1 .. e - o : w[i] = ByteAt(o + i - 1)
  BY <1>1, SliceFacts
<1>3. /\ AllIn(w, 2, Digits \union Separators) <=>
           \A p \in o + 1 .. e - 1 : ByteAt(p) \in Digits \union Separators
      /\ AllIn(w, 3, Digits \union Letters \union Separators) <=>
           \A p \in o + 2 .. e - 1 : ByteAt(p) \in Digits \union Letters \union Separators
  <2>1. o + 2 - 1 = o + 1 /\ o + 3 - 1 = o + 2
    BY <1>1
  <2> QED BY <1>1, <2>1, AllInSlice
<1> HIDE DEF w
<1>4. w[1] = ByteAt(o) /\ Len(w) >= 1
  <2>1. 1 \in 1 .. e - o /\ o + 1 - 1 = o
    BY <1>1
  <2> QED BY <1>1, <1>2, <2>1
<1>5. Len(w) >= 2 <=> e >= o + 2
  BY <1>1, <1>2
<1>6. e >= o + 2 => w[2] = ByteAt(o + 1)
  <2>1. ASSUME e >= o + 2 PROVE 2 \in 1 .. e - o /\ o + 2 - 1 = o + 1
    BY <1>1, <2>1
  <2> QED BY <1>2, <2>1
<1>7. IsWord("IMM_INT", w) <=>
        \/ Len(w) >= 1 /\ w[1] \in Digits /\ AllIn(w, 2, Digits \union Separators)
        \/ /\ Len(w) >= 2 /\ w[1] = "0" /\ w[2] \in RadixChars
           /\ AllIn(w, 3, Digits \union Letters \union Separators)
  BY DEF IsWord
<1>8. IsWord("IMM_INT", w) <=> NumberAt(o, e)
  BY <1>3, <1>4, <1>5, <1>6, <1>7, Zenon DEF NumberAt
<1> QED BY <1>8 DEF w

LEMMA NameSlice ==
  ASSUME text \in Seq(STRING), NEW o \in 0 .. Size, NEW e \in o + 1 .. Size
  PROVE  IsWord("IDENT", Slice(o, e)) <=> NameAt(o, e)
<1> DEFINE w == Slice(o, e)
<1>1. Size \in Nat /\ e \in o .. Size
  BY ByteFacts
<1>2. Len(w) = e - o /\ \A i \in 1 .. e - o : w[i] = ByteAt(o + i - 1)
  BY <1>1, SliceFacts
<1>3. AllIn(w, 1, Digits \union Letters \union IdentMarks) <=>
        \A p \in o .. e - 1 : ByteAt(p) \in Digits \union Letters \union IdentMarks
  <2>1. o + 1 - 1 = o
    BY <1>1
  <2> QED BY <1>1, <2>1, AllInSlice
<1> HIDE DEF w
<1>4. w[1] = ByteAt(o) /\ Len(w) >= 1
  <2>1. 1 \in 1 .. e - o /\ o + 1 - 1 = o
    BY <1>1
  <2> QED BY <1>1, <1>2, <2>1
<1>5. IsWord("IDENT", w) <=>
        /\ Len(w) >= 1 /\ w[1] \notin Digits
        /\ AllIn(w, 1, Digits \union Letters \union IdentMarks)
  BY DEF IsWord
<1>6. IsWord("IDENT", w) <=> NameAt(o, e)
  BY <1>3, <1>4, <1>5, Zenon DEF NameAt
<1> QED BY <1>6 DEF w

LEMMA SymbolSlice ==
  ASSUME text \in Seq(STRING), NEW o \in 0 .. Size, NEW e \in o + 1 .. Size,
         NEW kind \in Range(Symbols)
  PROVE  IsWord(kind, Slice(o, e)) <=>
           e = o + 1 /\ ByteAt(o) \in DOMAIN Symbols /\ Symbols[ByteAt(o)] = kind
<1> DEFINE w == Slice(o, e)
<1>1. Size \in Nat /\ e \in o .. Size
  BY ByteFacts
<1>2. Len(w) = e - o /\ \A i \in 1 .. e - o : w[i] = ByteAt(o + i - 1)
  BY <1>1, SliceFacts
<1> HIDE DEF w
<1>3. w[1] = ByteAt(o)
  <2>1. 1 \in 1 .. e - o /\ o + 1 - 1 = o
    BY <1>1
  <2> QED BY <1>1, <1>2, <2>1
<1>4. kind \notin {"IMM_CHAR", "IMM_STR", "IMM_INT", "IDENT"}
  BY SymbolFacts DEF Range
<1>5. IsWord(kind, w) <=> Len(w) = 1 /\ w[1] \in DOMAIN Symbols /\ Symbols[w[1]] = kind
  BY <1>4 DEF IsWord
<1>6. Len(w) = 1 <=> e = o + 1
  BY <1>1, <1>2
<1>7. IsWord(kind, w) <=> e = o + 1 /\ ByteAt(o) \in DOMAIN Symbols /\ Symbols[ByteAt(o)] = kind
  BY <1>3, <1>5, <1>6
<1> QED BY <1>7 DEF w

\* What a word begins with tells its kind.
LEMMA WordsAt ==
  ASSUME text \in Seq(STRING), NEW o \in 0 .. Size, NEW e \in o + 1 .. Size
  PROVE  StartsWord(o, e) <=>
           \/ IsQuoted(Slice(o, e), "'") \/ IsQuoted(Slice(o, e), DoubleQuote)
           \/ NumberAt(o, e) \/ NameAt(o, e)
           \/ e = o + 1 /\ ByteAt(o) \in DOMAIN Symbols
<1> DEFINE w == Slice(o, e)
<1>1. /\ IsWord("IMM_CHAR", w) <=> IsQuoted(w, "'")
      /\ IsWord("IMM_STR", w) <=> IsQuoted(w, DoubleQuote)
  BY DEF IsWord
<1>2. IsWord("IMM_INT", w) <=> NumberAt(o, e)
  BY NumberSlice
<1>3. IsWord("IDENT", w) <=> NameAt(o, e)
  BY NameSlice
<1>4. (\E kind \in Range(Symbols) : IsWord(kind, w)) <=> e = o + 1 /\ ByteAt(o) \in DOMAIN Symbols
  <2>1. ASSUME ByteAt(o) \in DOMAIN Symbols PROVE Symbols[ByteAt(o)] \in Range(Symbols)
    BY <2>1 DEF Range
  <2> HIDE DEF w
  <2>2. \A kind \in Range(Symbols) :
          IsWord(kind, w) <=> e = o + 1 /\ ByteAt(o) \in DOMAIN Symbols /\ Symbols[ByteAt(o)] = kind
    BY SymbolSlice DEF w
  <2> QED BY <2>1, <2>2
<1> HIDE DEF w
<1>5. StartsWord(o, e) <=>
        \/ IsWord("IMM_CHAR", w) \/ IsWord("IMM_STR", w) \/ IsWord("IMM_INT", w)
        \/ IsWord("IDENT", w) \/ \E kind \in Range(Symbols) : IsWord(kind, w)
  BY Zenon DEF StartsWord, Kinds, w
<1> QED BY <1>1, <1>2, <1>3, <1>4, <1>5 DEF w

\* A word in quotes begins with its quote.
LEMMA QuotedFirst ==
  ASSUME text \in Seq(STRING), NEW o \in 0 .. Size, NEW e \in o + 1 .. Size, NEW quote,
         IsQuoted(Slice(o, e), quote)
  PROVE  ByteAt(o) = quote
BY QuotedSlice

-----------------------------------------------------------------------------
(* The longest word *)

\* What LongestWords says of one thing found, from o to e.
FoundRight(kind, o, e) ==
  CASE kind = "EOF"          -> o = Size /\ e = Size
    [] kind \in Errors       ->
         /\ \A end \in o + 1 .. Size : ~StartsWord(o, end)
         /\ IF kind = "unexpected" THEN e = o + 1
            ELSE e = Size /\ ByteAt(o) \in {"'", DoubleQuote}
    [] OTHER ->
         IsWord(kind, Slice(o, e)) /\ \A end \in e + 1 .. Size : ~StartsWord(o, end)

\* A byte that begins no word.
LEMMA NoWordHere ==
  ASSUME text \in Seq(STRING), NEW o \in 0 .. Size - 1,
         ByteAt(o) \notin Digits \union Letters \union IdentMarks \union DOMAIN Symbols
                          \union {"'", DoubleQuote}
  PROVE  FoundRight("unexpected", o, o + 1)
<1>1. Size \in Nat /\ o \in 0 .. Size
  BY ByteFacts
<1>2. ASSUME NEW end \in o + 1 .. Size PROVE ~StartsWord(o, end)
  <2>1. ~IsQuoted(Slice(o, end), "'") /\ ~IsQuoted(Slice(o, end), DoubleQuote)
    BY <1>1, QuotedFirst
  <2>2. ~NumberAt(o, end)
    <3>1. "0" \in Digits
      BY DEF Digits
    <3> QED BY <3>1 DEF NumberAt
  <2>3. ~NameAt(o, end)
    <3>1. o \in o .. end - 1
      BY <1>1
    <3> QED BY <3>1 DEF NameAt
  <2> QED BY <1>1, <2>1, <2>2, <2>3, WordsAt
<1> QED BY <1>2 DEF FoundRight, Errors

LEMMA SymbolRight ==
  ASSUME text \in Seq(STRING), NEW o \in 0 .. Size - 1, ByteAt(o) \in DOMAIN Symbols
  PROVE  FoundRight(Symbols[ByteAt(o)], o, o + 1)
<1>1. Size \in Nat /\ o \in 0 .. Size /\ o + 1 \in o + 1 .. Size
  BY ByteFacts
<1>2. ByteAt(o) \in {".", ":", ",", "(", ")", "\n", "!", "?", "%"}
  BY SymbolFacts
<1>3. ByteAt(o) \notin Digits \union Letters \union IdentMarks \union {"'", DoubleQuote, "0"}
  <2>1. ByteAt(o) # DoubleQuote
    BY DoubleQuoteFacts
  <2> QED BY <1>2, <2>1 DEF Digits, Letters, IdentMarks
<1>4. ASSUME NEW end \in o + 2 .. Size PROVE ~StartsWord(o, end)
  <2>1. end \in o + 1 .. Size /\ end # o + 1 /\ o \in o .. end - 1
    BY <1>1
  <2>2. ~IsQuoted(Slice(o, end), "'") /\ ~IsQuoted(Slice(o, end), DoubleQuote)
    BY <1>1, <1>3, <2>1, QuotedFirst
  <2>3. ~NumberAt(o, end) /\ ~NameAt(o, end)
    BY <1>3, <2>1 DEF NumberAt, NameAt
  <2> QED BY <1>1, <2>1, <2>2, <2>3, WordsAt
<1>5. Symbols[ByteAt(o)] \in Range(Symbols)
  BY DEF Range
<1>6. IsWord(Symbols[ByteAt(o)], Slice(o, o + 1))
  BY <1>1, <1>5, SymbolSlice
<1>7. Symbols[ByteAt(o)] \notin {"EOF", "unexpected", "unterminated"}
  BY SymbolFacts
<1>8. (o + 1) + 1 = o + 2
  BY <1>1
<1> QED BY <1>4, <1>6, <1>7, <1>8 DEF FoundRight, Errors

\* A literal ends at its first quote that is not escaped; without one, none begins.
LEMMA LiteralRight ==
  ASSUME text \in Seq(STRING), NEW o \in 0 .. Size - 1,
         NEW quote, NEW kind,
         \/ quote = "'" /\ kind = "IMM_CHAR"
         \/ quote = DoubleQuote /\ kind = "IMM_STR",
         ByteAt(o) = quote
  PROVE  LET e == LiteralEnd(o + 1, quote)
         IN  /\ e \in o + 1 .. Size
             /\ e = Size => FoundRight("unterminated", o, Size)
             /\ e < Size => FoundRight(kind, o, e + 1)
<1> DEFINE e == LiteralEnd(o + 1, quote)
<1>1. Size \in Nat /\ o \in 0 .. Size /\ quote # "\\"
  BY ByteFacts, DoubleQuoteFacts
<1>2. /\ e \in o + 1 .. Size
      /\ e < Size => IsQuoted(Slice(o, e + 1), quote)
      /\ e < Size => \A end \in e + 2 .. Size : ~IsQuoted(Slice(o, end), quote)
      /\ e = Size => \A end \in o + 1 .. Size : ~IsQuoted(Slice(o, end), quote)
  BY <1>1, QuotedWord
<1> HIDE DEF e
<1>3. quote \notin Digits \union Letters \union IdentMarks \union DOMAIN Symbols
  <2>1. quote \in {"'", DoubleQuote}
    OBVIOUS
  <2>2. "'" \notin DOMAIN Symbols
    BY SymbolFacts
  <2> QED BY <2>1, <2>2, ByteClasses, DoubleQuoteFacts
<1>4. ASSUME NEW end \in o + 1 .. Size, StartsWord(o, end)
      PROVE  IsQuoted(Slice(o, end), quote)
  <2>1. ~NumberAt(o, end) /\ ~NameAt(o, end) /\ ByteAt(o) \notin DOMAIN Symbols
    <3>1. o \in o .. end - 1 /\ "0" \in Digits
      BY <1>1 DEF Digits
    <3> QED BY <1>3, <3>1 DEF NumberAt, NameAt
  <2>2. IsQuoted(Slice(o, end), "'") \/ IsQuoted(Slice(o, end), DoubleQuote)
    BY <1>1, <1>4, <2>1, WordsAt
  <2>3. \A q : IsQuoted(Slice(o, end), q) => q = quote
    BY <1>1, QuotedFirst
  <2> QED BY <2>2, <2>3
<1>5. ASSUME e = Size PROVE FoundRight("unterminated", o, Size)
  BY <1>2, <1>4, <1>5 DEF FoundRight, Errors
<1>6. ASSUME e < Size PROVE FoundRight(kind, o, e + 1)
  <2>1. IsWord(kind, Slice(o, e + 1))
    BY <1>2, <1>6 DEF IsWord
  <2>2. ASSUME NEW end \in (e + 1) + 1 .. Size PROVE ~StartsWord(o, end)
    <3>1. end \in e + 2 .. Size /\ end \in o + 1 .. Size
      BY <1>1, <1>2
    <3> QED BY <1>2, <1>4, <1>6, <3>1
  <2>3. kind \notin {"EOF", "unexpected", "unterminated"}
    OBVIOUS
  <2> QED BY <2>1, <2>2, <2>3 DEF FoundRight, Errors
<1> QED BY <1>2, <1>5, <1>6 DEF e

\* A number is the longest run of bytes that numbers of its radix are made of.
LEMMA NumberRight ==
  ASSUME text \in Seq(STRING), NEW o \in 0 .. Size - 1, ByteAt(o) \in Digits
  PROVE  LET radix == ByteAt(o) = "0" /\ ByteAt(o + 1) \in RadixChars
             long  == SpanOf(o + 2, Digits \union Letters \union Separators)
             short == SpanOf(o, Digits \union Separators)
         IN  /\ radix => long \in o + 1 .. Size /\ FoundRight("IMM_INT", o, long)
             /\ ~radix => short \in o + 1 .. Size /\ FoundRight("IMM_INT", o, short)
<1> DEFINE radix == ByteAt(o) = "0" /\ ByteAt(o + 1) \in RadixChars
           L     == Digits \union Letters \union Separators
           S     == Digits \union Separators
           long  == SpanOf(o + 2, L)
           short == SpanOf(o, S)
<1>1. /\ Size \in Nat /\ o \in 0 .. Size /\ ByteAt(Size) = "NUL"
  BY ByteFacts
<1>2. /\ "NUL" \notin RadixChars /\ "0" \in Digits
      /\ RadixChars \intersect S = {} /\ S \subseteq L
  BY DEF RadixChars, Digits, Separators
<1>3. ByteAt(o) \notin DOMAIN Symbols \union {"'", DoubleQuote}
  BY SymbolFacts, DoubleQuoteFacts DEF Digits
<1>4. ASSUME NEW end \in o + 1 .. Size PROVE StartsWord(o, end) <=> NumberAt(o, end)
  <2>1. ~IsQuoted(Slice(o, end), "'") /\ ~IsQuoted(Slice(o, end), DoubleQuote)
    BY <1>1, <1>3, QuotedFirst
  <2>2. ~NameAt(o, end)
    BY DEF NameAt
  <2> QED BY <1>1, <1>3, <2>1, <2>2, WordsAt
<1>5. ASSUME radix PROVE long \in o + 1 .. Size /\ FoundRight("IMM_INT", o, long)
  <2>1. o + 2 \in 0 .. Size
    <3>1. o + 1 # Size
      BY <1>1, <1>2, <1>5
    <3> QED BY <1>1, <3>1
  <2>2. /\ long \in o + 2 .. Size /\ \A i \in o + 2 .. long - 1 : ByteAt(i) \in L
        /\ long = Size \/ ByteAt(long) \notin L
    BY <2>1, SpanFacts
  <2> HIDE DEF long, L, S
  <2>3. long \in o + 1 .. Size /\ long >= o + 2
    BY <1>1, <2>1, <2>2
  <2>4. NumberAt(o, long)
    BY <1>5, <2>2, <2>3 DEF NumberAt, L
  <2>5. ASSUME NEW end \in long + 1 .. Size, NumberAt(o, end) PROVE FALSE
    <3>1. long \in o + 2 .. end - 1 /\ o + 1 \in o + 1 .. end - 1 /\ long # Size
      BY <1>1, <2>2
    <3>2. ByteAt(long) \notin L /\ ByteAt(o + 1) \notin S
      BY <1>2, <1>5, <2>2, <3>1
    <3> QED BY <2>5, <3>1, <3>2 DEF NumberAt, L, S
  <2>6. ASSUME NEW end \in long + 1 .. Size PROVE ~StartsWord(o, end)
    <3>1. end \in o + 1 .. Size
      BY <1>1, <2>3
    <3> QED BY <1>4, <2>5, <3>1
  <2>7. IsWord("IMM_INT", Slice(o, long))
    BY <1>1, <2>3, <2>4, NumberSlice
  <2> QED BY <2>3, <2>6, <2>7 DEF FoundRight, Errors
<1>6. ASSUME ~radix PROVE short \in o + 1 .. Size /\ FoundRight("IMM_INT", o, short)
  <2>1. /\ short \in o .. Size /\ \A i \in o .. short - 1 : ByteAt(i) \in S
        /\ short = Size \/ ByteAt(short) \notin S
    BY <1>1, SpanFacts
  <2>2. ByteAt(o) \in S
    OBVIOUS
  <2> HIDE DEF short, L, S
  <2>3. short \in o + 1 .. Size
    <3>1. short # o
      BY <1>1, <2>1, <2>2
    <3> QED BY <1>1, <2>1, <3>1
  <2>4. NumberAt(o, short)
    BY <1>1, <2>1 DEF NumberAt, S
  <2>5. ASSUME NEW end \in short + 1 .. Size, NumberAt(o, end) PROVE FALSE
    <3>1. short \in o + 1 .. end - 1 /\ short # Size
      BY <1>1, <2>3
    <3>2. ByteAt(short) \notin S
      BY <2>1, <3>1
    <3> QED BY <1>6, <2>5, <3>1, <3>2 DEF NumberAt, S
  <2>6. ASSUME NEW end \in short + 1 .. Size PROVE ~StartsWord(o, end)
    <3>1. end \in o + 1 .. Size
      BY <1>1, <2>3
    <3> QED BY <1>4, <2>5, <3>1
  <2>7. IsWord("IMM_INT", Slice(o, short))
    BY <1>1, <2>3, <2>4, NumberSlice
  <2> QED BY <2>3, <2>6, <2>7 DEF FoundRight, Errors
<1> QED BY <1>5, <1>6

\* A name is the longest run of bytes that names are made of.
LEMMA NameRight ==
  ASSUME text \in Seq(STRING), NEW o \in 0 .. Size - 1, ByteAt(o) \in Letters \union IdentMarks
  PROVE  LET e == SpanOf(o, Digits \union Letters \union IdentMarks)
         IN  e \in o + 1 .. Size /\ FoundRight("IDENT", o, e)
<1> DEFINE L == Digits \union Letters \union IdentMarks
           e == SpanOf(o, L)
<1>1. Size \in Nat /\ o \in 0 .. Size
  BY ByteFacts
<1>2. ByteAt(o) \notin Digits \union DOMAIN Symbols \union {"'", DoubleQuote, "0"}
  <2>1. "0" \in Digits
    BY DEF Digits
  <2> QED BY <2>1, ByteClasses, DoubleQuoteFacts
<1>3. ASSUME NEW end \in o + 1 .. Size PROVE StartsWord(o, end) <=> NameAt(o, end)
  <2>1. ~IsQuoted(Slice(o, end), "'") /\ ~IsQuoted(Slice(o, end), DoubleQuote)
    BY <1>1, <1>2, QuotedFirst
  <2>2. ~NumberAt(o, end)
    BY <1>2 DEF NumberAt
  <2> QED BY <1>1, <1>2, <2>1, <2>2, WordsAt
<1>4. /\ e \in o .. Size /\ \A i \in o .. e - 1 : ByteAt(i) \in L
      /\ e = Size \/ ByteAt(e) \notin L
  BY <1>1, SpanFacts
<1>5. ByteAt(o) \in L
  OBVIOUS
<1> HIDE DEF e, L
<1>6. e \in o + 1 .. Size
  <2>1. e # o
    BY <1>1, <1>4, <1>5
  <2> QED BY <1>1, <1>4, <2>1
<1>7. NameAt(o, e)
  BY <1>2, <1>4 DEF NameAt, L
<1>8. ASSUME NEW end \in e + 1 .. Size PROVE ~StartsWord(o, end)
  <2>1. end \in o + 1 .. Size /\ e \in o .. end - 1 /\ e # Size
    BY <1>1, <1>6
  <2>2. ByteAt(e) \notin L
    BY <1>4, <2>1
  <2>3. ~NameAt(o, end)
    BY <2>1, <2>2 DEF NameAt, L
  <2> QED BY <1>3, <2>1, <2>3
<1>9. IsWord("IDENT", Slice(o, e))
  BY <1>1, <1>6, <1>7, NameSlice
<1>10. FoundRight("IDENT", o, e)
  BY <1>8, <1>9 DEF FoundRight, Errors
<1> QED BY <1>6, <1>10 DEF e, L

-----------------------------------------------------------------------------
(* The lexer *)

Answers == Kinds \union Errors \union {"EOF"}

LexerTypeOK ==
  /\ text \in Seq(STRING) /\ loc \in Location
  /\ found \in Seq([kind : Answers, start : Location, end : Location])

\* The lexer stands where what it found last ends, at a true location.
Stands ==
  /\ loc.offset <= Size /\ IsTrue(loc)
  /\ loc.offset = IF found = <<>> THEN 0 ELSE found[Len(found)].end.offset

\* The three properties, of a history h.
AllRight(h) ==
  \A i \in DOMAIN h : FoundRight(h[i].kind, h[i].start.offset, h[i].end.offset)

BlanksIn(h) ==
  \A i \in DOMAIN h :
    LET before == IF i = 1 THEN 0 ELSE h[i - 1].end.offset
    IN  before <= h[i].start.offset /\ IsBlank(before, h[i].start.offset)

AllTrue(h) == \A i \in DOMAIN h : IsTrue(h[i].start) /\ IsTrue(h[i].end)

\* Everything found is a stretch of the text.
InText(h) ==
  \A i \in DOMAIN h : /\ h[i].start.offset \in 0 .. Size
                      /\ h[i].end.offset \in h[i].start.offset .. Size

LexerInv ==
  /\ LexerTypeOK /\ Stands
  /\ AllRight(found) /\ BlanksIn(found) /\ AllTrue(found) /\ InText(found)

LEMMA LexerInvProperties ==
  ASSUME LexerInv
  PROVE  LongestWords /\ OnlyBlanksBetween /\ LocationsAreTrue
<1>1. LongestWords
  BY Zenon DEF LexerInv, AllRight, FoundRight, LongestWords
<1>2. OnlyBlanksBetween
  BY Zenon DEF LexerInv, BlanksIn, OnlyBlanksBetween
<1>3. LocationsAreTrue
  BY Zenon DEF LexerInv, AllTrue, LocationsAreTrue
<1> QED BY <1>1, <1>2, <1>3

\* Where the next thing begins.
LEMMA StartFacts ==
  ASSUME LexerTypeOK, Stands
  PROVE  /\ Size \in Nat /\ loc.offset \in 0 .. Size /\ Start \in loc.offset .. Size
         /\ IsBlank(loc.offset, Start)
         /\ ByteAt(Start) \notin Spaces /\ ~IsComment(Start)
<1>1. Size \in Nat /\ loc.offset \in 0 .. Size
  BY ByteFacts, SMTT(30) DEF LexerTypeOK, Stands, Location
<1>2. Start = SkipFrom[loc.offset]
  BY AfterBlanksIs DEF Start
<1> QED BY <1>1, <1>2, SkipFacts DEF LexerTypeOK

\* Whatever is found is found right, after what is blank.
LEMMA NextAnswers ==
  ASSUME LexerTypeOK, Stands, Next
  PROVE  \E kind \in Answers : \E e \in Start .. Size :
           Answer(kind, Start, e) /\ FoundRight(kind, Start, e)
<1> DEFINE o == Start
<1>1. /\ Size \in Nat /\ loc.offset \in 0 .. Size /\ o \in loc.offset .. Size
      /\ ByteAt(o) \notin Spaces /\ ~IsComment(o) /\ text \in Seq(STRING)
  BY StartFacts DEF LexerTypeOK
<1>2. More => o \in 0 .. Size - 1 /\ o \in 0 .. Size /\ o + 1 \in o .. Size
  BY <1>1 DEF More
<1>3. CASE EndOfText
  <2>1. o = Size
    BY <1>1, <1>3 DEF EndOfText, More
  <2>2. Answer("EOF", o, Size) /\ Size \in o .. Size
    BY <1>1, <1>3, <2>1 DEF EndOfText
  <2> HIDE DEF o
  <2>3. FoundRight("EOF", o, Size) /\ "EOF" \in Answers
    BY <2>1 DEF FoundRight, Answers, Errors
  <2>4. \E kind \in Answers : \E e \in o .. Size : Answer(kind, o, e) /\ FoundRight(kind, o, e)
    BY <2>2, <2>3
  <2> QED BY <2>4 DEF o
<1>4. CASE LoneSlash
  <2>1. More /\ ByteAt(o) = "/" /\ Answer("unexpected", o, o + 1)
    BY <1>4 DEF LoneSlash
  <2>2. ByteAt(o) \notin Digits \union Letters \union IdentMarks \union DOMAIN Symbols
                         \union {"'", DoubleQuote}
    BY <2>1, SymbolFacts, DoubleQuoteFacts DEF Digits, Letters, IdentMarks
  <2> HIDE DEF o
  <2>3. FoundRight("unexpected", o, o + 1) /\ "unexpected" \in Answers
    BY <1>1, <1>2, <2>1, <2>2, NoWordHere DEF Answers, Errors
  <2>4. \E kind \in Answers : \E e \in o .. Size : Answer(kind, o, e) /\ FoundRight(kind, o, e)
    BY <1>2, <2>1, <2>3
  <2> QED BY <2>4 DEF o
<1>5. CASE Symbol
  <2>1. More /\ ByteAt(o) \in DOMAIN Symbols /\ Answer(Symbols[ByteAt(o)], o, o + 1)
    BY <1>5 DEF Symbol
  <2> HIDE DEF o
  <2>2. FoundRight(Symbols[ByteAt(o)], o, o + 1)
    BY <1>1, <1>2, <2>1, SymbolRight
  <2>3. Symbols[ByteAt(o)] \in Answers
    BY <2>1 DEF Answers, Kinds, Range
  <2>4. \E kind \in Answers : \E e \in o .. Size : Answer(kind, o, e) /\ FoundRight(kind, o, e)
    BY <1>2, <2>1, <2>2, <2>3
  <2> QED BY <2>4 DEF o
<1>6. ASSUME NEW quote, NEW kind, Quoted(quote, kind),
             \/ quote = "'" /\ kind = "IMM_CHAR"
             \/ quote = DoubleQuote /\ kind = "IMM_STR"
      PROVE  \E k \in Answers : \E e \in o .. Size : Answer(k, o, e) /\ FoundRight(k, o, e)
  <2> DEFINE q == LiteralEnd(o + 1, quote)
  <2>1. /\ More /\ ByteAt(o) = quote
        /\ \/ q = Size /\ Answer("unterminated", o, Size)
           \/ q < Size /\ Answer(kind, o, q + 1)
    BY <1>6 DEF Quoted
  <2> HIDE DEF o
  <2>2. /\ q \in o + 1 .. Size
        /\ q = Size => FoundRight("unterminated", o, Size)
        /\ q < Size => FoundRight(kind, o, q + 1)
    BY <1>1, <1>2, <1>6, <2>1, LiteralRight
  <2> HIDE DEF q
  <2>3. "unterminated" \in Answers /\ kind \in Answers
    BY <1>6 DEF Answers, Errors, Kinds
  <2>4. Size \in o .. Size /\ (q < Size => q + 1 \in o .. Size)
    BY <1>1, <2>2
  <2> QED BY <2>1, <2>2, <2>3, <2>4
<1>7. CASE Number
  <2> DEFINE radix == ByteAt(o) = "0" /\ ByteAt(o + 1) \in RadixChars
             long  == SpanOf(o + 2, Digits \union Letters \union Separators)
             short == SpanOf(o, Digits \union Separators)
  <2>1. /\ More /\ ByteAt(o) \in Digits
        /\ \/ radix /\ Answer("IMM_INT", o, long)
           \/ ~radix /\ Answer("IMM_INT", o, short)
    BY <1>7 DEF Number, HasRadix
  <2> HIDE DEF o
  <2>2. /\ radix => long \in o + 1 .. Size /\ FoundRight("IMM_INT", o, long)
        /\ ~radix => short \in o + 1 .. Size /\ FoundRight("IMM_INT", o, short)
    BY <1>1, <1>2, <2>1, NumberRight
  <2> HIDE DEF radix, long, short
  <2>3. "IMM_INT" \in Answers /\ \A e \in o + 1 .. Size : e \in o .. Size
    BY <1>1 DEF Answers, Kinds
  <2>4. \E kind \in Answers : \E e \in o .. Size : Answer(kind, o, e) /\ FoundRight(kind, o, e)
    BY <2>1, <2>2, <2>3
  <2> QED BY <2>4 DEF o
<1>8. CASE Identifier
  <2> DEFINE span == SpanOf(o, Digits \union Letters \union IdentMarks)
  <2>1. More /\ ByteAt(o) \in Letters \union IdentMarks /\ Answer("IDENT", o, span)
    BY <1>8 DEF Identifier
  <2> HIDE DEF o
  <2>2. span \in o + 1 .. Size /\ FoundRight("IDENT", o, span)
    BY <1>1, <1>2, <2>1, NameRight
  <2> HIDE DEF span
  <2>3. "IDENT" \in Answers /\ span \in o .. Size
    BY <1>1, <2>2 DEF Answers, Kinds
  <2>4. \E kind \in Answers : \E e \in o .. Size : Answer(kind, o, e) /\ FoundRight(kind, o, e)
    BY <2>1, <2>2, <2>3
  <2> QED BY <2>4 DEF o
<1>9. CASE Unexpected
  <2>1. /\ More /\ Answer("unexpected", o, o + 1)
        /\ ByteAt(o) \notin Digits \union Letters \union IdentMarks \union DOMAIN Symbols
                            \union {"/", "'", DoubleQuote}
    BY <1>9 DEF Unexpected
  <2> HIDE DEF o
  <2>2. FoundRight("unexpected", o, o + 1) /\ "unexpected" \in Answers
    BY <1>1, <1>2, <2>1, NoWordHere DEF Answers, Errors
  <2>3. \E kind \in Answers : \E e \in o .. Size : Answer(kind, o, e) /\ FoundRight(kind, o, e)
    BY <1>2, <2>1, <2>2
  <2> QED BY <2>3 DEF o
<1>10. CASE CharLiteral \/ StringLiteral
  BY <1>6, <1>10 DEF CharLiteral, StringLiteral
<1> QED BY <1>3, <1>4, <1>5, <1>7, <1>8, <1>9, <1>10 DEF Next

\* What is said of the text is said of it after a call too, which leaves it alone.
LEMMA SameText ==
  ASSUME text' = text
  PROVE  /\ Size' = Size /\ \A o : ByteAt(o)' = ByteAt(o)
         /\ \A o, e : Slice(o, e)' = Slice(o, e)
         /\ \A o, e : StartsWord(o, e)' <=> StartsWord(o, e)
         /\ \A o, e : IsBlank(o, e)' <=> IsBlank(o, e)
         /\ \A l : IsTrue(l)' <=> IsTrue(l)
         /\ \A h : AllRight(h)' <=> AllRight(h)
         /\ \A h : BlanksIn(h)' <=> BlanksIn(h)
         /\ \A h : AllTrue(h)' <=> AllTrue(h)
         /\ \A h : InText(h)' <=> InText(h)
<1>1. Size' = Size
  BY DEF Size
<1>2. \A o : ByteAt(o)' = ByteAt(o)
  BY <1>1 DEF ByteAt
<1>3. \A o, e : Slice(o, e)' = Slice(o, e)
  BY DEF Slice
<1>4. \A o, e : StartsWord(o, e)' <=> StartsWord(o, e)
  BY <1>3 DEF StartsWord
<1>5. \A o, e : IsBlank(o, e)' <=> IsBlank(o, e)
  BY <1>1, <1>2 DEF IsBlank
<1>6. \A o : NewlinesBefore(o)' = NewlinesBefore(o)
  BY <1>2 DEF NewlinesBefore
<1>7. \A l : IsTrue(l)' <=> IsTrue(l)
  BY <1>6 DEF IsTrue
<1>8. \A kind, o, e : FoundRight(kind, o, e)' <=> FoundRight(kind, o, e)
  BY <1>1, <1>2, <1>3, <1>4 DEF FoundRight
<1>9. /\ \A h : AllRight(h)' <=> AllRight(h)
      /\ \A h : BlanksIn(h)' <=> BlanksIn(h)
      /\ \A h : AllTrue(h)' <=> AllTrue(h)
      /\ \A h : InText(h)' <=> InText(h)
  BY <1>1, <1>5, <1>7, <1>8 DEF AllRight, BlanksIn, AllTrue, InText
<1> QED BY <1>1, <1>2, <1>3, <1>4, <1>5, <1>7, <1>9

\* A call that finds what it should keeps all that holds of what was found before.
LEMMA AnswerKeepsInv ==
  ASSUME LexerInv, NEW kind \in Answers, NEW e \in Start .. Size,
         Answer(kind, Start, e), FoundRight(kind, Start, e)
  PROVE  LexerInv'
<1> DEFINE o == Start
           f == [kind |-> kind, start |-> LocationAt(o), end |-> LocationAt(e)]
           n == Len(found)
           Find == [kind : Answers, start : Location, end : Location]
<1>1. LexerTypeOK /\ Stands /\ text \in Seq(STRING) /\ loc \in Location /\ found \in Seq(Find)
  BY DEF LexerInv, LexerTypeOK
<1>2. /\ Size \in Nat /\ loc.offset \in 0 .. Size /\ o \in loc.offset .. Size
      /\ IsBlank(loc.offset, o)
  BY <1>1, StartFacts
<1>3. e \in loc.offset .. Size
  BY <1>2
<1>4. loc' = LocationAt(e) /\ found' = Append(found, f) /\ text' = text
  BY DEF Answer
<1>5. /\ LocationAt(o) \in Location /\ LocationAt(o).offset = o /\ IsTrue(LocationAt(o))
      /\ LocationAt(e) \in Location /\ LocationAt(e).offset = e /\ IsTrue(LocationAt(e))
  BY <1>1, <1>2, <1>3, LocationsCounted DEF Stands
<1> HIDE DEF o
<1>6. f \in Find /\ f.kind = kind /\ f.start = LocationAt(o) /\ f.end = LocationAt(e)
  BY <1>5
<1> HIDE DEF f, Find
<1>7. /\ n \in Nat /\ found' \in Seq(Find) /\ Len(found') = n + 1 /\ DOMAIN found' = 1 .. n + 1
      /\ found'[n + 1] = f /\ \A i \in 1 .. n : found'[i] = found[i]
      /\ DOMAIN found = 1 .. n /\ found' # <<>>
  BY <1>1, <1>4, <1>6
<1>8. LexerTypeOK'
  BY <1>1, <1>4, <1>5, <1>7 DEF LexerTypeOK, Find
<1>9. Stands'
  <2>1. Size' = Size /\ loc'.offset = e
    BY <1>4, <1>5, SameText
  <2>2. IsTrue(loc)'
    BY <1>4, <1>5, SameText
  <2>3. found'[Len(found')].end.offset = e
    BY <1>5, <1>6, <1>7
  <2> QED BY <1>2, <1>7, <2>1, <2>2, <2>3 DEF Stands
<1>10. AllRight(found)'
  <2>1. ASSUME NEW i \in DOMAIN found'
        PROVE  FoundRight(found'[i].kind, found'[i].start.offset, found'[i].end.offset)
    <3>1. CASE i = n + 1
      <4>1. found'[i].kind = kind /\ found'[i].start.offset = o /\ found'[i].end.offset = e
        BY <1>5, <1>6, <1>7, <3>1
      <4> QED BY <4>1 DEF o
    <3>2. CASE i \in 1 .. n
      <4>1. FoundRight(found[i].kind, found[i].start.offset, found[i].end.offset)
        BY <1>7, <3>2 DEF LexerInv, AllRight
      <4> QED BY <1>7, <3>2, <4>1
    <3> QED BY <1>7, <3>1, <3>2
  <2> QED BY <1>4, <2>1, SameText DEF AllRight
<1>11. BlanksIn(found)'
  <2>1. ASSUME NEW i \in DOMAIN found'
        PROVE  LET before == IF i = 1 THEN 0 ELSE found'[i - 1].end.offset
               IN  before <= found'[i].start.offset /\ IsBlank(before, found'[i].start.offset)
    <3>1. CASE i = n + 1
      <4>1. (IF i = 1 THEN 0 ELSE found'[i - 1].end.offset) = loc.offset
        <5>1. CASE n = 0
          BY <1>1, <1>7, <3>1, <5>1 DEF Stands
        <5>2. CASE n # 0
          <6>1. n \in 1 .. n /\ i - 1 = n /\ i # 1
            BY <1>7, <3>1, <5>2
          <6>2. found # <<>> /\ found'[i - 1] = found[n]
            BY <1>7, <6>1
          <6> QED BY <1>1, <6>1, <6>2 DEF Stands
        <5> QED BY <5>1, <5>2
      <4>2. found'[i].start.offset = o
        BY <1>5, <1>6, <1>7, <3>1
      <4> QED BY <1>2, <4>1, <4>2
    <3>2. CASE i \in 1 .. n
      <4>1. found'[i] = found[i] /\ (i # 1 => found'[i - 1] = found[i - 1])
        BY <1>7, <3>2
      <4>2. LET before == IF i = 1 THEN 0 ELSE found[i - 1].end.offset
            IN  before <= found[i].start.offset /\ IsBlank(before, found[i].start.offset)
        BY <1>7, <3>2 DEF LexerInv, BlanksIn
      <4> QED BY <4>1, <4>2
    <3> QED BY <1>7, <3>1, <3>2
  <2> QED BY <1>4, <2>1, SameText DEF BlanksIn
<1>12. AllTrue(found)'
  <2>1. ASSUME NEW i \in DOMAIN found' PROVE IsTrue(found'[i].start) /\ IsTrue(found'[i].end)
    <3>1. CASE i = n + 1
      BY <1>5, <1>6, <1>7, <3>1
    <3>2. CASE i \in 1 .. n
      BY <1>7, <3>2 DEF LexerInv, AllTrue
    <3> QED BY <1>7, <3>1, <3>2
  <2> QED BY <1>4, <2>1, SameText DEF AllTrue
<1>13. InText(found)'
  <2>1. ASSUME NEW i \in DOMAIN found'
        PROVE  /\ found'[i].start.offset \in 0 .. Size
               /\ found'[i].end.offset \in found'[i].start.offset .. Size
    <3>1. CASE i = n + 1
      <4>1. o \in 0 .. Size /\ e \in o .. Size
        BY <1>2 DEF o
      <4> QED BY <1>5, <1>6, <1>7, <3>1, <4>1
    <3>2. CASE i \in 1 .. n
      BY <1>7, <3>2 DEF LexerInv, InText
    <3> QED BY <1>7, <3>1, <3>2
  <2> QED BY <1>4, <2>1, SameText DEF InText
<1> QED BY <1>8, <1>9, <1>10, <1>11, <1>12, <1>13 DEF LexerInv

LEMMA LexerInvStutters ==
  ASSUME LexerInv, UNCHANGED vars
  PROVE  LexerInv'
<1>1. text' = text /\ loc' = loc /\ found' = found
  BY DEF vars
<1>2. LexerTypeOK'
  BY <1>1 DEF LexerInv, LexerTypeOK
<1>3. Stands'
  BY <1>1, SameText DEF LexerInv, Stands
<1>4. AllRight(found)' /\ BlanksIn(found)' /\ AllTrue(found)' /\ InText(found)'
  BY <1>1, SameText DEF LexerInv
<1> QED BY <1>2, <1>3, <1>4 DEF LexerInv

LEMMA LexerInvStarts ==
  ASSUME Init
  PROVE  LexerInv
<1>1. text \in Seq(STRING) /\ loc = StartOfText /\ found = <<>> /\ DOMAIN found = {}
  BY TextsAssumption DEF Init
<1>2. Size \in Nat /\ NewlinesBefore(0) = {}
  BY <1>1, ByteFacts DEF NewlinesBefore
<1>3. loc \in Location /\ loc.offset = 0 /\ loc.line = 1 /\ loc.column = 1
  BY <1>1 DEF StartOfText, Location
<1>4. LexerTypeOK
  BY <1>1, <1>3 DEF LexerTypeOK
<1>5. IsTrue(loc)
  BY <1>2, <1>3, FS_EmptySet DEF IsTrue
<1>6. Stands
  BY <1>1, <1>2, <1>3, <1>5 DEF Stands
<1>7. AllRight(found) /\ BlanksIn(found) /\ AllTrue(found) /\ InText(found)
  BY <1>1 DEF AllRight, BlanksIn, AllTrue, InText
<1> QED BY <1>4, <1>6, <1>7 DEF LexerInv

\* The invariant that the properties of the lexer follow from: it stands at a
\* true location of the text, where what it found last ends, and all it found so
\* far was right (tasm_lexer_next, called again and again).
THEOREM LexerInvariant == Spec => []LexerInv
<1>1. Init => LexerInv
  BY LexerInvStarts
<1>2. LexerInv /\ [Next]_vars => LexerInv'
  <2> SUFFICES ASSUME LexerInv, [Next]_vars PROVE LexerInv'
    OBVIOUS
  <2>1. CASE Next
    <3>1. PICK kind \in Answers, e \in Start .. Size :
            Answer(kind, Start, e) /\ FoundRight(kind, Start, e)
      BY <2>1, NextAnswers DEF LexerInv
    <3> QED BY <3>1, AnswerKeepsInv
  <2>2. CASE UNCHANGED vars
    BY <2>2, LexerInvStutters
  <2> QED BY <2>1, <2>2
<1> QED BY <1>1, <1>2, PTL DEF Spec

\* Every call finds the longest word where it stands, and reports a failure
\* only where no word begins (tasm_lexer_next).
THEOREM LexerLongestWords == Spec => []LongestWords
<1>1. LexerInv => LongestWords
  BY LexerInvProperties
<1> QED BY <1>1, LexerInvariant, PTL

\* Between two things found there are spaces and comments only.
THEOREM LexerOnlyBlanksBetween == Spec => []OnlyBlanksBetween
<1>1. LexerInv => OnlyBlanksBetween
  BY LexerInvProperties
<1> QED BY <1>1, LexerInvariant, PTL

\* Every location reported is the line and the column of its offset.
THEOREM LexerLocationsAreTrue == Spec => []LocationsAreTrue
<1>1. LexerInv => LocationsAreTrue
  BY LexerInvProperties
<1> QED BY <1>1, LexerInvariant, PTL

-----------------------------------------------------------------------------
(* Characters *)

LEMMA BraceFacts == RBrace # "\\"
BY Zenon DEF RBrace

\* A result that is a character has what it was made with, and a failure is one.
LEMMA CharFacts ==
  /\ \A index, taken : /\ Char(index, taken).ok = TRUE /\ Char(index, taken).told = FALSE
                       /\ Char(index, taken).index = index /\ Char(index, taken).taken = taken
  /\ \A told : Failed(told).ok = FALSE /\ Failed(told).told = told
BY DEF Char, Failed

\* A braced escape is reported, or is a character that ends with the brace.
LEMMA BracedTaken ==
  ASSUME NEW data \in Seq(STRING), Len(data) >= 4, NEW base
  PROVE  \/ BracedEscape(data, base) = Failed(TRUE)
         \/ \E index : \E taken \in 5 .. Len(data) :
              /\ BracedEscape(data, base) = Char(index, taken)
              /\ data[taken] = RBrace
<1> DEFINE P(i) == /\ \A j \in 4 .. i - 1 : IsDigitIn(base, data[j])
                   /\ i = Len(data) + 1 \/ ~IsDigitIn(base, data[i])
           stop == CHOOSE i \in 4 .. Len(data) + 1 : P(i)
           val  == Accumulate(SubSeq(data, 4, stop - 1), base, EscapeModulus)
<1>1. \E i \in 4 .. Len(data) + 1 : P(i)
  <2> DEFINE R == {i \in 4 .. Len(data) + 1 : i = Len(data) + 1 \/ ~IsDigitIn(base, data[i])}
  <2>1. R \in SUBSET Nat /\ Len(data) + 1 \in R
    OBVIOUS
  <2>2. PICK i \in R : \A l \in R : i <= l
    <3> HIDE DEF R
    <3> QED BY <2>1, LeastNat
  <2>3. ASSUME NEW j \in 4 .. i - 1 PROVE IsDigitIn(base, data[j])
    <3>1. i \in 4 .. Len(data) + 1
      BY <2>2
    <3>2. j \in 4 .. Len(data) + 1 /\ j < i
      BY <3>1
    <3>3. j \notin R
      <4> HIDE DEF R
      <4> QED BY <2>1, <2>2, <3>1, <3>2
    <3> QED BY <3>2, <3>3
  <2> QED BY <2>2, <2>3
<1>2. stop \in 4 .. Len(data) + 1
  <2> HIDE DEF P
  <2> QED BY <1>1
<1> DEFINE b == BracedEscape(data, base)
<1>3. b = IF stop > Len(data) \/ data[stop] # RBrace \/ stop = 4 THEN Failed(TRUE)
          ELSE IF data[2] = "u"
               THEN IF val \in DOMAIN Tscs THEN Char(Tscs[val], stop) ELSE Failed(TRUE)
               ELSE IF val < TscsCount THEN Char(val, stop) ELSE Failed(TRUE)
  BY Zenon DEF BracedEscape
<1> HIDE DEF stop, val, b
<1>4. CASE stop > Len(data) \/ data[stop] # RBrace \/ stop = 4
  <2>1. b = Failed(TRUE)
    BY <1>3, <1>4
  <2> QED BY <2>1 DEF b
<1>5. CASE ~(stop > Len(data) \/ data[stop] # RBrace \/ stop = 4)
  <2>1. b \in {Failed(TRUE), Char(Tscs[val], stop), Char(val, stop)}
    BY <1>3, <1>5
  <2>2. stop \in 5 .. Len(data) /\ data[stop] = RBrace
    BY <1>2, <1>5
  <2> QED BY <2>1, <2>2 DEF b
<1> QED BY <1>4, <1>5

LEMMA SequenceLengthType ==
  \A lead : SequenceLength(lead) \in 0 .. 4
BY DEF SequenceLength

\* What a character can be: some bytes of UTF-8 that do not start with a
\* backslash, a backslash and a byte, or an escape in braces; reading it fails
\* in silence only on a backslash with nothing after it.
IsCharOf(data, c) ==
  \/ c = Failed(TRUE)
  \/ c = Failed(FALSE) /\ Len(data) = 1 /\ data[1] = "\\"
  \/ \E index : \E taken \in 1 .. Len(data) :
       /\ c = Char(index, taken)
       /\ \/ data[1] # "\\" /\ taken = SequenceLength(ByteValue[data[1]])
          \/ data[1] = "\\" /\ taken = 2
          \/ data[1] = "\\" /\ taken > 2 /\ data[taken] = RBrace

LEMMA FirstCharFacts ==
  ASSUME NEW data \in Seq(STRING), data # <<>>
  PROVE  IsCharOf(data, FirstChar(data))
<1>1. Len(data) \in Nat /\ Len(data) >= 1
  OBVIOUS
<1> DEFINE c == FirstChar(data)
<1>2. CASE data[1] # "\\"
  <2> DEFINE n == SequenceLength(ByteValue[data[1]])
             code == FoldLeft(LAMBDA cd, b : cd * 64 + (ByteValue[b] % 64),
                              LeadBits(ByteValue[data[1]], n), SubSeq(data, 2, n))
  <2>1. c = IF n = 0 \/ Len(data) < n \/ code = ReplacementCode \/ code \notin DOMAIN Tscs
            THEN Failed(TRUE) ELSE Char(Tscs[code], n)
    BY <1>2, Zenon DEF FirstChar, DecodeUtf8
  <2>2. n \in Nat
    BY SequenceLengthType
  <2> HIDE DEF n, code, c
  <2>3. CASE n = 0 \/ Len(data) < n \/ code = ReplacementCode \/ code \notin DOMAIN Tscs
    <3>1. c = Failed(TRUE)
      BY <2>1, <2>3
    <3> QED BY <3>1 DEF c, IsCharOf
  <2>4. CASE ~(n = 0 \/ Len(data) < n \/ code = ReplacementCode \/ code \notin DOMAIN Tscs)
    <3>1. c = Char(Tscs[code], n)
      BY <2>1, <2>4
    <3>2. n \in 1 .. Len(data)
      BY <1>1, <2>2, <2>4
    <3> QED BY <1>2, <3>1, <3>2 DEF c, n, IsCharOf
  <2> QED BY <2>3, <2>4
<1>3. CASE data[1] = "\\"
  <2>1. c = ParseEscape(data)
    BY <1>3, Zenon DEF FirstChar
  <2> HIDE DEF c
  <2>2. CASE Len(data) < 2
    <3>1. c = Failed(FALSE)
      BY <2>1, <2>2 DEF ParseEscape
    <3>2. Len(data) = 1
      <4>1. \A n \in Nat : n >= 1 /\ n < 2 => n = 1
        OBVIOUS
      <4> QED BY <1>1, <2>2, <4>1, Zenon
    <3> QED BY <1>3, <3>1, <3>2, Zenon DEF c, IsCharOf
  <2>3. CASE Len(data) >= 2
    <3>1. \/ c \in {Char(NamedEscapes[data[2]], 2), Char(Tscs[ByteValue[data[2]]], 2),
                    Failed(TRUE)}
          \/ Len(data) >= 4 /\ c = BracedEscape(data, EscapeBase[data[2]])
      <4>1. ~(Len(data) < 2)
        BY <1>1, <2>3
      <4>2. Len(data) >= 4 <=> ~(Len(data) < 4)
        BY <1>1
      <4> QED BY <2>1, <4>1, <4>2, Zenon DEF ParseEscape
    <3>2. 2 \in 1 .. Len(data)
      BY <1>1, <2>3
    <3>3. CASE c \in {Char(NamedEscapes[data[2]], 2), Char(Tscs[ByteValue[data[2]]], 2),
                      Failed(TRUE)}
      BY <1>3, <3>2, <3>3 DEF c, IsCharOf
    <3>4. CASE Len(data) >= 4 /\ c = BracedEscape(data, EscapeBase[data[2]])
      <4>1. CASE c = Failed(TRUE)
        BY <4>1 DEF c, IsCharOf
      <4>2. ASSUME NEW index, NEW taken \in 5 .. Len(data), c = Char(index, taken),
                   data[taken] = RBrace
            PROVE  IsCharOf(data, c)
        <5>1. taken \in 1 .. Len(data) /\ taken > 2
          OBVIOUS
        <5> QED BY <1>3, <4>2, <5>1 DEF IsCharOf
      <4> QED BY <3>4, <4>1, <4>2, BracedTaken DEF c
    <3> QED BY <3>1, <3>3, <3>4
  <2> QED BY <1>1, <2>2, <2>3
<1> QED BY <1>2, <1>3
-----------------------------------------------------------------------------
(* Strings *)

\* The character that begins at the i-th byte of the inside of a literal.
CharAt(inner, i) == FirstChar(SubSeq(inner, i, Len(inner)))

LEMMA CharAtFacts ==
  ASSUME NEW inner \in Seq(STRING), NEW i \in 1 .. Len(inner)
  PROVE  /\ SubSeq(inner, i, Len(inner)) \in Seq(STRING)
         /\ Len(SubSeq(inner, i, Len(inner))) = Len(inner) - i + 1
         /\ \A k \in 1 .. Len(inner) - i + 1 : SubSeq(inner, i, Len(inner))[k] = inner[i + k - 1]
         /\ IsCharOf(SubSeq(inner, i, Len(inner)), CharAt(inner, i))
<1>1. /\ SubSeq(inner, i, Len(inner)) \in Seq(STRING)
      /\ Len(SubSeq(inner, i, Len(inner))) = Len(inner) - i + 1
      /\ \A k \in 1 .. Len(inner) - i + 1 : SubSeq(inner, i, Len(inner))[k] = inner[i + k - 1]
  OBVIOUS
<1>2. SubSeq(inner, i, Len(inner)) # <<>>
  <2>1. Len(inner) - i + 1 # 0
    OBVIOUS
  <2> QED BY <1>1, <2>1
<1> QED BY <1>1, <1>2, FirstCharFacts DEF CharAt

\* A character that is read ends where the next one can begin.
LEMMA CharAtOutcomes ==
  ASSUME NEW inner \in Seq(STRING), NEW i \in 1 .. Len(inner)
  PROVE  /\ CharAt(inner, i).ok \in BOOLEAN /\ CharAt(inner, i).told \in BOOLEAN
         /\ CharAt(inner, i).ok => /\ CharAt(inner, i).taken \in 1 .. Len(inner) - i + 1
                                   /\ ~CharAt(inner, i).told
<1> DEFINE data == SubSeq(inner, i, Len(inner))
           c    == CharAt(inner, i)
<1>1. Len(data) = Len(inner) - i + 1 /\ IsCharOf(data, c)
  BY CharAtFacts
<1> HIDE DEF data, c
<1>2. \/ c = Failed(TRUE) \/ c = Failed(FALSE)
      \/ \E index : \E taken \in 1 .. Len(data) : c = Char(index, taken)
  BY <1>1, Zenon DEF IsCharOf
<1>3. c.ok \in BOOLEAN /\ c.told \in BOOLEAN /\ (c.ok => c.taken \in 1 .. Len(data) /\ ~c.told)
  <2>1. CASE c = Failed(TRUE) \/ c = Failed(FALSE)
    <3>1. c.ok = FALSE /\ c.told \in BOOLEAN
      BY <2>1, CharFacts, Zenon
    <3> QED BY <3>1
  <2>2. CASE \E index : \E taken \in 1 .. Len(data) : c = Char(index, taken)
    <3>1. PICK taken \in 1 .. Len(data) : \E index : c = Char(index, taken)
      BY <2>2
    <3>2. PICK index : c = Char(index, taken)
      BY <3>1
    <3>3. c.ok = TRUE /\ c.told = FALSE /\ c.taken = taken
      BY <3>2, CharFacts, Zenon
    <3> QED BY <3>3
  <2> QED BY <1>2, <2>1, <2>2
<1> QED BY <1>1, <1>3 DEF c

StringFrom(inner) ==
  CHOOSE from :
    from = [i \in 1 .. Len(inner) + 1 |->
              IF i > Len(inner) THEN [ok |-> TRUE, told |-> FALSE, chars |-> <<>>]
              ELSE LET first == FirstChar(SubSeq(inner, i, Len(inner))) IN
                   IF ~first.ok THEN [ok |-> FALSE, told |-> first.told, chars |-> <<>>]
                   ELSE LET rest == from[i + first.taken] IN
                        [rest EXCEPT !.chars = <<first.index>> \o @]]

LEMMA ParseStringIs ==
  \A inner : ParseString(inner) = StringFrom(inner)[1]
BY Zenon DEF ParseString, StringFrom

\* What reading the characters of a string can come to.
StringResults(inner) ==
  [ok : BOOLEAN, told : BOOLEAN,
   chars : Seq({CharAt(inner, i).index : i \in 1 .. Len(inner)})]

LEMMA StringFromDef ==
  ASSUME NEW inner \in Seq(STRING)
  PROVE  \A i \in 1 .. Len(inner) + 1 :
           /\ StringFrom(inner)[i] \in StringResults(inner)
           /\ StringFrom(inner)[i] =
                IF i > Len(inner) THEN [ok |-> TRUE, told |-> FALSE, chars |-> <<>>]
                ELSE IF ~CharAt(inner, i).ok
                THEN [ok |-> FALSE, told |-> CharAt(inner, i).told, chars |-> <<>>]
                ELSE [StringFrom(inner)[i + CharAt(inner, i).taken]
                        EXCEPT !.chars = <<CharAt(inner, i).index>> \o @]
<1> DEFINE n    == Len(inner)
           D    == 1 .. n + 1
           V    == StringResults(inner)
           C(i) == CharAt(inner, i)
           Add(i, v) == [v EXCEPT !.chars = <<C(i).index>> \o @]
           End(i) == IF i > n THEN [ok |-> TRUE, told |-> FALSE, chars |-> <<>>]
                     ELSE [ok |-> FALSE, told |-> C(i).told, chars |-> <<>>]
           rank == [i \in D |-> n + 1 - i]
           stop == {i \in D : i > n \/ ~C(i).ok}
           base == [i \in D |-> IF i \in stop THEN End(i)
                                ELSE [ok |-> TRUE, told |-> FALSE, chars |-> <<>>]]
           step == [i \in D |-> IF i \in stop THEN i ELSE i + C(i).taken]
           comb == [i \in D |-> [v \in V |-> IF i \in stop THEN v ELSE Add(i, v)]]
           Val(f, i) == IF i > n THEN [ok |-> TRUE, told |-> FALSE, chars |-> <<>>]
                        ELSE IF ~C(i).ok
                        THEN [ok |-> FALSE, told |-> C(i).told, chars |-> <<>>]
                        ELSE Add(i, f[i + C(i).taken])
<1>1. n \in Nat /\ n + 1 \in Nat
  OBVIOUS
<1>2. \A i \in D : i <= n => /\ C(i).ok \in BOOLEAN /\ C(i).told \in BOOLEAN
                             /\ C(i).ok => C(i).taken \in 1 .. n - i + 1
  <2> SUFFICES ASSUME NEW i \in D, i <= n
               PROVE  /\ C(i).ok \in BOOLEAN /\ C(i).told \in BOOLEAN
                      /\ C(i).ok => C(i).taken \in 1 .. n - i + 1
    OBVIOUS
  <2>1. i \in 1 .. Len(inner)
    BY <1>1
  <2> QED BY <2>1, CharAtOutcomes
<1>3. \A i \in 1 .. n : C(i).index \in {C(j).index : j \in 1 .. n}
  OBVIOUS
<1> HIDE DEF C
<1>4. rank \in [D -> 0 .. n + 1] /\ stop \subseteq D
  BY <1>1
<1>5. \A i \in D : End(i) \in V \/ i \notin stop
  <2> SUFFICES ASSUME NEW i \in D, i \in stop PROVE End(i) \in V
    OBVIOUS
  <2>1. i > n \/ C(i).told \in BOOLEAN
    BY <1>1, <1>2
  <2> QED BY <2>1 DEF StringResults
<1>6. base \in [D -> V]
  <2>1. [ok |-> TRUE, told |-> FALSE, chars |-> <<>>] \in V
    BY DEF StringResults
  <2> HIDE DEF V, D, End, stop
  <2> QED BY <1>5, <2>1
<1>7. ASSUME NEW i \in D PROVE step[i] \in D /\ (i \notin stop => rank[step[i]] < rank[i])
  <2>1. CASE i \in stop
    BY <2>1
  <2>2. CASE i \notin stop
    <3>1. i <= n /\ C(i).ok /\ step[i] = i + C(i).taken
      BY <1>1, <2>2
    <3>2. C(i).taken \in 1 .. n - i + 1
      BY <1>2, <3>1
    <3> QED BY <1>1, <3>1, <3>2
  <2> QED BY <2>1, <2>2
<1>8. step \in [D -> D]
  <2> HIDE DEF D, stop
  <2>1. \A i \in D : step[i] \in D
    BY <1>7
  <2> QED BY <2>1
<1>9. comb \in [D -> [V -> V]]
  <2>1. ASSUME NEW i \in D, i \notin stop, NEW v \in V PROVE Add(i, v) \in V
    <3>1. i \in 1 .. n
      BY <1>1, <2>1
    <3>2. C(i).index \in {C(j).index : j \in 1 .. n}
      BY <1>3, <3>1
    <3>3. v.chars \in Seq({C(j).index : j \in 1 .. n}) /\ v.ok \in BOOLEAN /\ v.told \in BOOLEAN
      BY DEF StringResults, C
    <3>4. <<C(i).index>> \o v.chars \in Seq({C(j).index : j \in 1 .. n})
      BY <3>2, <3>3, SMTT(30)
    <3>5. V = [ok : BOOLEAN, told : BOOLEAN, chars : Seq({C(j).index : j \in 1 .. n})]
      BY Zenon DEF StringResults, C
    <3> QED BY <3>4, <3>5
  <2> HIDE DEF V, D, stop, Add
  <2> QED BY <2>1
<1>10. PICK f \in [D -> V] : Follows(f, D, stop, base, step, comb)
  <2> HIDE DEF D, V, rank, base, step, comb, stop
  <2>1. Descends(D, V, n + 1, rank, stop, base, step, comb)
    BY <1>1, <1>4, <1>6, <1>7, <1>8, <1>9 DEF Descends
  <2> QED BY <2>1, RankRecursion
<1>11. f = [i \in D |-> Val(f, i)]
  <2>1. ASSUME NEW i \in D PROVE f[i] = Val(f, i)
    <3>1. CASE i \in stop
      <4>1. f[i] = base[i]
        BY <1>10, <3>1 DEF Follows
      <4>2. base[i] = End(i)
        <5> HIDE DEF End, stop, D
        <5> QED BY <3>1
      <4>3. i > n \/ ~C(i).ok
        BY <3>1
      <4> QED BY <4>1, <4>2, <4>3
    <3>2. CASE i \notin stop
      <4>1. f[i] = comb[i][f[step[i]]] /\ f[step[i]] \in V
        BY <1>7, <1>10, <3>2 DEF Follows
      <4>2. f[i] = Add(i, f[step[i]])
        <5> HIDE DEF step, Add, stop, D, V
        <5> QED BY <3>2, <4>1
      <4>3. step[i] = i + C(i).taken /\ ~(i > n) /\ C(i).ok
        BY <1>1, <3>2
      <4> HIDE DEF Add, step
      <4> QED BY <4>2, <4>3
    <3> QED BY <3>1, <3>2
  <2> HIDE DEF D, Val
  <2> QED BY <2>1
<1> DEFINE g == StringFrom(inner)
<1>12. g = [i \in D |-> Val(g, i)]
  BY <1>11, Zenon DEF StringFrom, CharAt, C
<1> HIDE DEF g
<1>13. ASSUME NEW i \in D PROVE g[i] = Val(g, i)
  <2> HIDE DEF Val, D
  <2> QED BY <1>12
<1> DEFINE S == {i \in D : g[i] \in V}
<1>14. ASSUME NEW i \in D, \A j \in D : rank[j] < rank[i] => j \in S PROVE i \in S
  <2>1. CASE i \in stop
    <3>1. g[i] = End(i)
      <4>1. i > n \/ ~C(i).ok
        BY <2>1
      <4> QED BY <1>13, <4>1
    <3> QED BY <1>5, <2>1, <3>1
  <2>2. CASE i \notin stop
    <3>1. ~(i > n) /\ C(i).ok /\ step[i] = i + C(i).taken
      BY <1>1, <2>2
    <3>2. g[i] = Add(i, g[step[i]])
      <4> HIDE DEF Add, step
      <4> QED BY <1>13, <3>1
    <3>3. step[i] \in S
      <4> HIDE DEF step, rank, S, stop
      <4> QED BY <1>7, <1>14, <2>2
    <3>4. comb[i] \in [V -> V] /\ comb[i][g[step[i]]] = Add(i, g[step[i]])
      <4> HIDE DEF Add, step, V, D, stop
      <4> QED BY <1>9, <2>2, <3>3
    <3> HIDE DEF comb, Add, V, step
    <3> QED BY <3>2, <3>3, <3>4
  <2> QED BY <2>1, <2>2
<1>15. D \subseteq S
  <2> HIDE DEF D, S, rank
  <2>1. IsHereditary(S, D, rank)
    BY <1>14 DEF IsHereditary
  <2>2. rank \in [D -> Nat]
    BY <1>1, <1>4
  <2> QED BY <2>1, <2>2, RankInduction
<1>16. \A i \in D : g[i] \in V /\ g[i] = Val(g, i)
  <2> HIDE DEF D, V, Val, g
  <2> QED BY <1>13, <1>15
<1> QED BY <1>16, Zenon DEF g, C

\* One step of reading a string: the first failure is that of the string, and a
\* character goes before what is read after it.
ReadsOn(F, c, i, n) ==
  /\ ~c.ok => F[i].ok = FALSE /\ F[i].told = c.told
  /\ c.ok => /\ i + c.taken \in i + 1 .. n + 1
             /\ F[i].ok = F[i + c.taken].ok /\ F[i].told = F[i + c.taken].told
             /\ Len(F[i + c.taken].chars) \in Nat
             /\ Len(F[i].chars) = 1 + Len(F[i + c.taken].chars)
             /\ Len(F[i + c.taken].chars) = 0 => F[i].chars = <<c.index>>

LEMMA StringStep ==
  ASSUME NEW inner \in Seq(STRING), NEW i \in 1 .. Len(inner)
  PROVE  ReadsOn(StringFrom(inner), CharAt(inner, i), i, Len(inner))
<1> DEFINE c    == CharAt(inner, i)
           F    == StringFrom(inner)
           W    == {CharAt(inner, j).index : j \in 1 .. Len(inner)}
<1>1. Len(inner) \in Nat /\ i \in 1 .. Len(inner) + 1 /\ ~(i > Len(inner))
  OBVIOUS
<1>2. F[i] = IF ~c.ok THEN [ok |-> FALSE, told |-> c.told, chars |-> <<>>]
             ELSE [F[i + c.taken] EXCEPT !.chars = <<c.index>> \o @]
  <2>1. F[i] = IF i > Len(inner) THEN [ok |-> TRUE, told |-> FALSE, chars |-> <<>>]
               ELSE IF ~c.ok
               THEN [ok |-> FALSE, told |-> c.told, chars |-> <<>>]
               ELSE [F[i + c.taken] EXCEPT !.chars = <<c.index>> \o @]
    BY <1>1, StringFromDef, Zenon
  <2> HIDE DEF F, c
  <2> QED BY <1>1, <2>1
<1>3. ASSUME c.ok PROVE i + c.taken \in i + 1 .. Len(inner) + 1
  <2>1. c.taken \in 1 .. Len(inner) - i + 1
    BY <1>3, CharAtOutcomes
  <2> HIDE DEF c
  <2> QED BY <1>1, <2>1
<1>4. ASSUME c.ok
      PROVE  /\ F[i] = [ok |-> F[i + c.taken].ok, told |-> F[i + c.taken].told,
                        chars |-> <<c.index>> \o F[i + c.taken].chars]
             /\ F[i + c.taken].chars \in Seq(W)
  <2>1. F[i + c.taken] \in StringResults(inner)
    <3>1. i + c.taken \in 1 .. Len(inner) + 1
      <4> HIDE DEF c
      <4> QED BY <1>1, <1>3, <1>4
    <3> QED BY <3>1, StringFromDef, Zenon
  <2>2. F[i + c.taken] \in [ok : BOOLEAN, told : BOOLEAN, chars : Seq(W)]
    BY <2>1, Zenon DEF StringResults
  <2> HIDE DEF c, F, W
  <2> QED BY <1>2, <1>4, <2>2
<1>5. c.index \in W
  OBVIOUS
<1> DEFINE rest == F[i + c.taken].chars
<1>6. ASSUME c.ok
      PROVE  /\ Len(<<c.index>> \o rest) = 1 + Len(rest) /\ Len(rest) \in Nat
             /\ Len(rest) = 0 => <<c.index>> \o rest = <<c.index>>
  <2>1. \A x \in W : \A s \in Seq(W) : /\ Len(<<x>> \o s) = 1 + Len(s) /\ Len(s) \in Nat
                                       /\ Len(s) = 0 => s = <<>>
    <3> HIDE DEF W
    <3> QED OBVIOUS
  <2>2. \A x : <<x>> \o <<>> = <<x>>
    OBVIOUS
  <2>3. rest \in Seq(W)
    BY <1>4, <1>6
  <2> HIDE DEF c, rest, W
  <2> QED BY <1>5, <2>1, <2>2, <2>3, Zenon
<1>7. c.ok => F[i].chars = <<c.index>> \o rest
  <2> HIDE DEF c, F
  <2> QED BY <1>4
<1>8. /\ ~c.ok => F[i].ok = FALSE /\ F[i].told = c.told
      /\ c.ok => F[i].ok = F[i + c.taken].ok /\ F[i].told = F[i + c.taken].told
  <2> DEFINE ok == F[i + c.taken].ok   told == F[i + c.taken].told
  <2>1. c.ok => F[i] = [ok |-> ok, told |-> told, chars |-> <<c.index>> \o rest]
    BY <1>4
  <2>2. ~c.ok => F[i] = [ok |-> FALSE, told |-> c.told, chars |-> <<>>]
    BY <1>2
  <2> DEFINE chars == <<c.index>> \o rest
  <2> HIDE DEF c, F, ok, told, chars
  <2>3. c.ok => F[i].ok = ok /\ F[i].told = told
    BY <2>1 DEF chars
  <2>4. ~c.ok => F[i].ok = FALSE /\ F[i].told = c.told
    BY <2>2
  <2> QED BY <2>3, <2>4 DEF ok, told
<1> HIDE DEF c, F
<1>9. ReadsOn(F, c, i, Len(inner))
  BY <1>3, <1>6, <1>7, <1>8 DEF ReadsOn
<1> QED BY <1>9 DEF c, F

LEMMA StringEnds ==
  ASSUME NEW inner \in Seq(STRING), NEW i, i = Len(inner) + 1
  PROVE  StringFrom(inner)[i] = [ok |-> TRUE, told |-> FALSE, chars |-> <<>>]
<1>1. i \in 1 .. Len(inner) + 1 /\ i > Len(inner)
  OBVIOUS
<1> QED BY <1>1, StringFromDef

-----------------------------------------------------------------------------
(* Literals *)

\* A lexeme is bytes of the text, and a word of its kind.
LEMMA LexemeFacts ==
  ASSUME LexerInv, NEW kind \in {"IMM_CHAR", "IMM_STR", "IMM_INT"}, NEW w \in Lexemes(kind)
  PROVE  w \in Seq(STRING) /\ IsWord(kind, w)
<1>1. PICK i \in DOMAIN found :
        found[i].kind = kind /\ w = Slice(found[i].start.offset, found[i].end.offset)
  BY DEF Lexemes, Range
<1>2. w \in Seq(STRING)
  BY <1>1, SliceFacts DEF LexerInv, LexerTypeOK, InText
<1>3. FoundRight(kind, found[i].start.offset, found[i].end.offset)
  BY <1>1 DEF LexerInv, AllRight
<1>4. IsWord(kind, w)
  BY <1>1, <1>3 DEF FoundRight, Errors
<1> QED BY <1>2, <1>4

LEMMA InsideFacts ==
  ASSUME NEW w \in Seq(STRING), Len(w) >= 2
  PROVE  /\ Inside(w) \in Seq(STRING) /\ Len(Inside(w)) = Len(w) - 2
         /\ \A i \in 1 .. Len(w) - 2 : Inside(w)[i] = w[i + 1]
<1> DEFINE n == Len(w) - 1
<1>1. Len(w) \in Nat /\ 2 \in Int /\ n \in Int /\ n - 2 + 1 = Len(w) - 2
  OBVIOUS
<1>2. \A i \in 2 .. n : w[i] \in STRING
  OBVIOUS
<1>3. Inside(w) = SubSeq(w, 2, n)
  BY DEF Inside
<1> HIDE DEF n
<1>4. /\ SubSeq(w, 2, n) \in Seq(STRING) /\ Len(SubSeq(w, 2, n)) = IF 2 <= n THEN n - 2 + 1 ELSE 0
      /\ \A i \in 1 .. n - 2 + 1 : SubSeq(w, 2, n)[i] = w[2 + i - 1]
  BY <1>1, <1>2, SubSeqProperties
<1>5. Len(SubSeq(w, 2, n)) = Len(w) - 2
  BY <1>1, <1>4
<1>6. ASSUME NEW i \in 1 .. Len(w) - 2 PROVE SubSeq(w, 2, n)[i] = w[i + 1]
  <2>1. i \in 1 .. n - 2 + 1 /\ 2 + i - 1 = i + 1
    BY <1>1
  <2> QED BY <1>4, <2>1
<1> QED BY <1>3, <1>4, <1>5, <1>6

\* Read as a string, what is read as a character is that character, and nothing
\* that is not one is a string of one character.
LEMMA CharAsString ==
  ASSUME NEW inner \in Seq(STRING)
  PROVE  LET char   == ParseChar(inner)
             string == ParseString(inner)
         IN  /\ char.ok <=> string.ok /\ Len(string.chars) = 1
             /\ char.ok => string.chars = <<char.index>>
<1> DEFINE n == Len(inner)
           F == StringFrom(inner)
           c == CharAt(inner, 1)
<1>1. n \in Nat /\ ParseString(inner) = F[1]
  BY ParseStringIs
<1>2. CASE inner = <<>>
  <2>1. F[1] = [ok |-> TRUE, told |-> FALSE, chars |-> <<>>]
    <3>1. 1 = n + 1
      BY <1>2
    <3> QED BY <3>1, StringEnds
  <2>2. ParseChar(inner) = Failed(TRUE)
    BY <1>2 DEF ParseChar
  <2>3. F[1].ok = TRUE /\ Len(F[1].chars) = 0
    <3> HIDE DEF F
    <3> QED BY <2>1
  <2>4. ParseChar(inner).ok = FALSE
    BY <2>2, CharFacts
  <2> HIDE DEF F
  <2> QED BY <1>1, <2>3, <2>4
<1>3. CASE inner # <<>>
  <2>1. 1 \in 1 .. n
    BY <1>1, <1>3
  <2>2. FirstChar(inner) = c
    <3>1. SubSeq(inner, 1, n) = inner
      OBVIOUS
    <3> QED BY <3>1, Zenon DEF CharAt
  <2>3. ParseChar(inner) = IF c.ok /\ c.taken < n THEN Failed(TRUE) ELSE c
    BY <1>3, <2>2, Zenon DEF ParseChar
  <2>4. c.ok \in BOOLEAN /\ (c.ok => c.taken \in 1 .. n)
    <3>1. c.ok \in BOOLEAN /\ (c.ok => c.taken \in 1 .. n - 1 + 1)
      BY <2>1, CharAtOutcomes
    <3>2. n - 1 + 1 = n
      BY <1>1
    <3> QED BY <3>1, <3>2
  <2>5. /\ ~c.ok => F[1].ok = FALSE
        /\ c.ok => /\ 1 + c.taken \in 2 .. n + 1
                   /\ F[1].ok = F[1 + c.taken].ok
                   /\ Len(F[1].chars) = 1 + Len(F[1 + c.taken].chars)
                   /\ Len(F[1 + c.taken].chars) \in Nat
                   /\ Len(F[1 + c.taken].chars) = 0 => F[1].chars = <<c.index>>
    <3>1. ReadsOn(F, c, 1, n)
      BY <2>1, StringStep
    <3> HIDE DEF F, c
    <3> QED BY <3>1 DEF ReadsOn
  <2>6. ASSUME c.ok, 1 + c.taken \in 1 .. n, F[1 + c.taken].ok
        PROVE  Len(F[1 + c.taken].chars) # 0
    <3> DEFINE i  == 1 + c.taken
               c2 == CharAt(inner, i)
    <3>1. i \in 1 .. n /\ F[i].ok
      BY <2>6
    <3> HIDE DEF i
    <3>2. ReadsOn(F, c2, i, n) /\ c2.ok \in BOOLEAN
      BY <3>1, StringStep, CharAtOutcomes
    <3> HIDE DEF F, c2
    <3>3. Len(F[i].chars) # 0
      <4> DEFINE m == Len(F[i + c2.taken].chars)
      <4>1. c2.ok
        BY <3>1, <3>2 DEF ReadsOn
      <4>2. m \in Nat /\ Len(F[i].chars) = 1 + m
        BY <3>2, <4>1 DEF ReadsOn
      <4> HIDE DEF m
      <4> QED BY <4>2
    <3> QED BY <3>3 DEF i
  <2>7. ASSUME c.ok, 1 + c.taken = n + 1
        PROVE  F[1 + c.taken] = [ok |-> TRUE, told |-> FALSE, chars |-> <<>>]
    BY <2>7, StringEnds
  <2> HIDE DEF c, F
  <2>8. CASE ~c.ok
    BY <1>1, <2>3, <2>5, <2>8
  <2>9. CASE c.ok /\ c.taken < n
    <3>1. 1 + c.taken \in 1 .. n
      <4> DEFINE t == c.taken
      <4>1. t \in 1 .. n /\ t < n
        BY <2>4, <2>9
      <4> HIDE DEF t
      <4>2. 1 + t \in 1 .. n
        BY <1>1, <4>1
      <4> QED BY <4>2 DEF t
    <3>2. ~(F[1].ok /\ Len(F[1].chars) = 1)
      <4> DEFINE m == Len(F[1 + c.taken].chars)
      <4>1. m \in Nat /\ Len(F[1].chars) = 1 + m /\ (F[1].ok => m # 0)
        BY <2>5, <2>6, <2>9, <3>1
      <4> HIDE DEF m
      <4> QED BY <4>1
    <3>3. ParseChar(inner).ok = FALSE
      BY <2>3, <2>9, CharFacts
    <3> QED BY <1>1, <3>2, <3>3
  <2>10. CASE c.ok /\ ~(c.taken < n)
    <3>1. 1 + c.taken = n + 1
      <4> DEFINE t == c.taken
      <4>1. t \in 1 .. n /\ ~(t < n)
        BY <2>4, <2>10
      <4> HIDE DEF t
      <4>2. 1 + t = n + 1
        BY <1>1, <4>1
      <4> QED BY <4>2 DEF t
    <3>2. F[1].ok = TRUE /\ Len(F[1].chars) = 1 /\ F[1].chars = <<c.index>>
      <4>1. F[1 + c.taken].ok = TRUE /\ Len(F[1 + c.taken].chars) = 0
        BY <2>7, <2>10, <3>1
      <4> QED BY <2>5, <2>10, <4>1
    <3>3. ParseChar(inner) = c
      BY <2>3, <2>10
    <3> QED BY <1>1, <2>10, <3>2, <3>3
  <2> QED BY <2>8, <2>9, <2>10
<1> QED BY <1>2, <1>3

\* A character literal that is accepted is a string literal of that one
\* character, and no other is (tasm_parse_lit_char, tasm_parse_lit_string_chars).
THEOREM LiteralsCharIsOneCharString == Spec => []CharIsOneCharString
<1>1. LexerInv => CharIsOneCharString
  <2> SUFFICES ASSUME LexerInv, NEW w \in Lexemes("IMM_CHAR")
               PROVE  LET char   == ParseChar(Inside(w))
                          string == ParseString(Inside(w))
                      IN  /\ char.ok <=> string.ok /\ Len(string.chars) = 1
                          /\ char.ok => string.chars = <<char.index>>
    BY DEF CharIsOneCharString
  <2>1. w \in Seq(STRING) /\ IsWord("IMM_CHAR", w)
    BY LexemeFacts
  <2>2. Inside(w) \in Seq(STRING)
    BY <2>1, InsideFacts DEF IsWord, IsQuoted
  <2> QED BY <2>2, CharAsString
<1> QED BY <1>1, LexerInvariant, PTL

\* Reading what is between the quotes of a word fails in silence neither for a
\* character nor, as long as the bytes are UTF-8, for a string.
LEMMA CharTold ==
  ASSUME NEW w \in Seq(STRING), IsQuoted(w, "'")
  PROVE  ParseChar(Inside(w)).ok \/ ParseChar(Inside(w)).told
<1> DEFINE inner == Inside(w)
           c     == FirstChar(inner)
<1>1. Len(w) \in Nat /\ Len(w) >= 2 /\ w[Len(w)] = "'"
  BY DEF IsQuoted
<1>2. /\ inner \in Seq(STRING) /\ Len(inner) = Len(w) - 2
      /\ \A i \in 1 .. Len(w) - 2 : inner[i] = w[i + 1]
  BY <1>1, InsideFacts
<1> HIDE DEF inner
<1>3. CASE inner = <<>>
  <2>1. ParseChar(inner) = Failed(TRUE)
    BY <1>3 DEF ParseChar
  <2> QED BY <2>1, CharFacts DEF inner
<1>4. CASE inner # <<>>
  <2>1. ParseChar(inner) = IF c.ok /\ c.taken < Len(inner) THEN Failed(TRUE) ELSE c
    BY <1>4, Zenon DEF ParseChar
  <2>2. IsCharOf(inner, c)
    BY <1>2, <1>4, FirstCharFacts
  <2>3. ~(Len(inner) = 1 /\ inner[1] = "\\")
    <3> SUFFICES ASSUME Len(inner) = 1, inner[1] = "\\" PROVE FALSE
      OBVIOUS
    <3>1. Len(w) = 3 /\ w[2] = "\\" /\ w[3] = "'"
      <4>1. Len(w) = 3
        <5>1. \A l \in Nat : l - 2 = 1 => l = 3
          OBVIOUS
        <5> QED BY <1>1, <1>2, <5>1, Zenon
      <4>2. 1 \in 1 .. Len(w) - 2 /\ 1 + 1 = 2
        BY <4>1
      <4>3. inner[1] = w[2]
        BY <1>2, <4>2
      <4> QED BY <1>1, <4>1, <4>3
    <3>2. ~Escaped(w, 2) /\ (Escaped(w, 2 + 1) <=> w[2] = "\\" /\ ~Escaped(w, 2))
      BY EscapedNext
    <3>3. Escaped(w, 3)
      BY <3>1, <3>2
    <3> QED BY <3>1, <3>3 DEF IsQuoted
  <2> HIDE DEF c
  <2>4. c = Failed(TRUE) \/ \E index, taken : c = Char(index, taken)
    BY <2>2, <2>3, Zenon DEF IsCharOf
  <2>5. c.ok \/ c.told
    BY <2>4, CharFacts, ZenonT(40)
  <2>6. CASE c.ok /\ c.taken < Len(inner)
    BY <2>1, <2>6, CharFacts DEF inner
  <2>7. CASE ~(c.ok /\ c.taken < Len(inner))
    <3>1. ParseChar(inner) = c
      BY <2>1, <2>7
    <3> QED BY <2>5, <3>1 DEF inner
  <2> QED BY <2>6, <2>7
<1> QED BY <1>3, <1>4

\* Where a character ends that does not begin at an escaped byte, the next byte
\* is not an escaped one either.
LEMMA CharEndsFree ==
  ASSUME NEW w \in Seq(STRING), Len(w) >= 2, IsUtf8(w),
         NEW i \in 1 .. Len(w) - 2, ~Escaped(w, i + 1),
         NEW index, NEW taken \in 1 .. Len(w) - 1 - i,
         CharAt(Inside(w), i) = Char(index, taken)
  PROVE  ~Escaped(w, i + taken + 1)
<1> DEFINE inner == Inside(w)
           data  == SubSeq(inner, i, Len(inner))
<1>1. Len(w) \in Nat /\ i \in Nat /\ taken \in Nat /\ i + taken <= Len(w) - 1
  OBVIOUS
<1>2. inner \in Seq(STRING) /\ Len(inner) = Len(w) - 2 /\ i \in 1 .. Len(inner)
  BY InsideFacts
<1>3. ASSUME NEW k \in 1 .. taken PROVE data[k] = w[i + k]
  <2>1. i + k - 1 \in 1 .. Len(w) - 2 /\ (i + k - 1) + 1 = i + k
    BY <1>1
  <2>2. inner[i + k - 1] = w[i + k]
    BY <2>1, InsideFacts
  <2>3. k \in 1 .. Len(inner) - i + 1
    BY <1>1, <1>2
  <2>4. data[k] = inner[i + k - 1]
    BY <1>2, <2>3, CharAtFacts
  <2> QED BY <2>2, <2>4
<1>4. IsCharOf(data, Char(index, taken))
  <2>1. IsCharOf(data, CharAt(inner, i))
    BY <1>2, CharAtFacts
  <2> QED BY <2>1
<1> HIDE DEF data, inner
<1>5. \/ data[1] # "\\" /\ taken = SequenceLength(ByteValue[data[1]])
      \/ data[1] = "\\" /\ taken = 2
      \/ data[1] = "\\" /\ taken > 2 /\ data[taken] = RBrace
  <2>1. Char(index, taken) # Failed(TRUE) /\ Char(index, taken) # Failed(FALSE)
    BY CharFacts, ZenonT(40)
  <2>2. PICK x : \E t \in 1 .. Len(data) :
          /\ Char(index, taken) = Char(x, t)
          /\ \/ data[1] # "\\" /\ t = SequenceLength(ByteValue[data[1]])
             \/ data[1] = "\\" /\ t = 2
             \/ data[1] = "\\" /\ t > 2 /\ data[t] = RBrace
    <3> DEFINE made == Char(index, taken)
    <3>1. IsCharOf(data, made) /\ made # Failed(TRUE) /\ made # Failed(FALSE)
      BY <1>4, <2>1
    <3> HIDE DEF made
    <3>2. \E x : \E t \in 1 .. Len(data) :
            /\ made = Char(x, t)
            /\ \/ data[1] # "\\" /\ t = SequenceLength(ByteValue[data[1]])
               \/ data[1] = "\\" /\ t = 2
               \/ data[1] = "\\" /\ t > 2 /\ data[t] = RBrace
      BY <3>1 DEF IsCharOf
    <3> QED BY <3>2 DEF made
  <2>3. \A t : Char(index, taken) = Char(x, t) => t = taken
    <3>1. \A t : Char(index, taken).taken = taken /\ Char(x, t).taken = t
      BY CharFacts
    <3> QED BY <3>1
  <2> QED BY <2>2, <2>3
<1>6. data[1] = w[i + 1] /\ data[taken] = w[i + taken]
  BY <1>1, <1>3
<1>7. \A j \in Nat : j >= 2 => (Escaped(w, j + 1) <=> w[j] = "\\" /\ ~Escaped(w, j))
  BY EscapedNext
<1>8. CASE w[i + taken] # "\\" /\ i + taken >= 2
  <2>1. i + taken \in Nat
    BY <1>1
  <2> QED BY <1>7, <1>8, <2>1
<1>9. CASE data[1] = "\\" /\ taken = 2
  <2>1. w[i + 1] = "\\" /\ i + 1 \in Nat /\ i + 1 >= 2
    BY <1>1, <1>6, <1>9
  <2>2. Escaped(w, (i + 1) + 1)
    BY <1>7, <2>1
  <2>3. (i + 1) + 1 \in Nat /\ (i + 1) + 1 >= 2 /\ (i + 1) + 1 = i + taken
    BY <1>1, <1>9
  <2>4. ~Escaped(w, ((i + 1) + 1) + 1)
    BY <1>7, <2>2, <2>3
  <2> QED BY <2>3, <2>4
<1>10. CASE data[1] = "\\" /\ taken > 2 /\ data[taken] = RBrace
  BY <1>1, <1>6, <1>8, <1>10, BraceFacts
<1>11. CASE data[1] # "\\" /\ taken = SequenceLength(ByteValue[data[1]])
  <2>1. CASE taken = 1
    BY <1>1, <1>6, <1>8, <1>11, <2>1
  <2>2. CASE taken # 1
    <3>1. i + 1 \in DOMAIN w /\ taken - 1 \in 1 .. taken - 1 /\ (i + 1) + (taken - 1) = i + taken
          /\ i + taken <= Len(w)
      BY <1>1, <2>2
    <3>2. taken = SequenceLength(ByteValue[w[i + 1]])
      BY <1>6, <1>11
    <3>3. ByteValue[w[(i + 1) + (taken - 1)]] \in 128 .. 191
      BY <3>1, <3>2 DEF IsUtf8
    <3>4. w[i + taken] # "\\"
      <4>1. ByteValue["\\"] = 92
        BY LiteralsAssumption, Zenon
      <4>2. 92 \notin 128 .. 191
        OBVIOUS
      <4> QED BY <3>1, <3>3, <4>1, <4>2, Zenon
    <3> QED BY <1>1, <1>8, <3>4
  <2> QED BY <2>1, <2>2
<1> QED BY <1>5, <1>9, <1>10, <1>11

LEMMA StringTold ==
  ASSUME NEW w \in Seq(STRING), NEW quote, IsQuoted(w, quote), quote # "\\", IsUtf8(w)
  PROVE  ParseString(Inside(w)).ok \/ ParseString(Inside(w)).told
<1> DEFINE inner == Inside(w)
           n     == Len(inner)
           F     == StringFrom(inner)
           D     == 1 .. n + 1
           rank  == [i \in D |-> n + 1 - i]
           S     == {i \in D : (i <= n => ~Escaped(w, i + 1)) => F[i].ok \/ F[i].told}
<1>1. /\ Len(w) \in Nat /\ Len(w) >= 2 /\ w[Len(w)] = quote
      /\ ~Escaped(w, Len(w))
  BY DEF IsQuoted
<1>2. /\ inner \in Seq(STRING) /\ n = Len(w) - 2 /\ n \in Nat
      /\ \A i \in 1 .. Len(w) - 2 : inner[i] = w[i + 1]
  BY <1>1, InsideFacts
<1>3. rank \in [D -> Nat]
  BY <1>2
<1>4. ASSUME NEW i \in D, \A j \in D : rank[j] < rank[i] => j \in S PROVE i \in S
  <2> SUFFICES ASSUME i <= n => ~Escaped(w, i + 1) PROVE F[i].ok \/ F[i].told
    OBVIOUS
  <2>1. CASE i = n + 1
    <3>1. F[i] = [ok |-> TRUE, told |-> FALSE, chars |-> <<>>]
      BY <1>2, <2>1, StringEnds
    <3> HIDE DEF F
    <3> QED BY <3>1
  <2>2. CASE i # n + 1
    <3> DEFINE c == CharAt(inner, i)
               data == SubSeq(inner, i, n)
    <3>1. i \in 1 .. n /\ i \in 1 .. Len(w) - 2 /\ ~Escaped(w, i + 1)
      BY <1>2, <2>2
    <3>2. ReadsOn(F, c, i, n)
      BY <1>2, <3>1, StringStep
    <3>3. IsCharOf(data, c) /\ Len(data) = n - i + 1 /\ \A k \in 1 .. n - i + 1 : data[k] = inner[i + k - 1]
      BY <1>2, <3>1, CharAtFacts
    <3> HIDE DEF data
    <3>4. CASE c = Failed(TRUE)
      <4> HIDE DEF c, F
      <4>1. F[i].told = TRUE
        BY <3>2, <3>4, CharFacts DEF ReadsOn
      <4> QED BY <4>1
    <3>5. ~(Len(data) = 1 /\ data[1] = "\\")
      <4> SUFFICES ASSUME Len(data) = 1, data[1] = "\\" PROVE FALSE
        OBVIOUS
      <4>1. i = n /\ (i + 1) + 1 = Len(w) /\ i + 1 \in Nat /\ i + 1 >= 2
        <5>1. \A l, m \in Nat : \A j \in 1 .. m :
                m = l - 2 /\ m - j + 1 = 1 => j = m /\ (j + 1) + 1 = l /\ j + 1 \in Nat /\ j + 1 >= 2
          OBVIOUS
        <5> QED BY <1>1, <1>2, <3>1, <3>3, <5>1, Zenon
      <4>2. data[1] = inner[i + 1 - 1] /\ i + 1 - 1 = i
        BY <3>1, <3>3, <4>1
      <4>3. w[i + 1] = "\\"
        BY <1>2, <3>1, <4>2
      <4>4. Escaped(w, (i + 1) + 1)
        BY <3>1, <4>1, <4>3, EscapedNext
      <4> QED BY <1>1, <4>1, <4>4
    <3>6. ASSUME NEW index, NEW taken \in 1 .. Len(data), c = Char(index, taken)
          PROVE  F[i].ok \/ F[i].told
      <4>1. c.ok = TRUE /\ c.taken = taken
        BY <3>6, CharFacts
      <4>2. taken \in 1 .. n - i + 1 /\ taken \in 1 .. Len(w) - 1 - i
        BY <1>1, <1>2, <3>1, <3>3
      <4>3. ~Escaped(w, i + taken + 1)
        <5> HIDE DEF c
        <5>1. CharAt(Inside(w), i) = Char(index, taken)
          BY <3>6 DEF c
        <5> QED BY <1>1, <3>1, <4>2, <5>1, CharEndsFree
      <4>4. i + taken \in D /\ rank[i + taken] < rank[i]
        BY <1>2, <3>1, <4>2
      <4>5. i + taken \in S
        <5> HIDE DEF D, S, rank
        <5> QED BY <1>4, <4>4
      <4>6. F[i + taken].ok \/ F[i + taken].told
        <5> HIDE DEF F
        <5> QED BY <4>3, <4>5
      <4>7. F[i].ok = F[i + taken].ok /\ F[i].told = F[i + taken].told
        <5> HIDE DEF F, c
        <5> QED BY <3>2, <4>1 DEF ReadsOn
      <4> HIDE DEF F
      <4> QED BY <4>6, <4>7
    <3> HIDE DEF c, F
    <3> QED BY <3>3, <3>4, <3>5, <3>6, Zenon DEF IsCharOf
  <2> QED BY <2>1, <2>2
<1>5. D \subseteq S
  <2> HIDE DEF D, S, rank
  <2>1. IsHereditary(S, D, rank)
    BY <1>4 DEF IsHereditary
  <2> QED BY <1>3, <2>1, RankInduction
<1>6. 1 \in S
  <2>1. 1 \in D
    BY <1>2
  <2> HIDE DEF D, S
  <2> QED BY <1>5, <2>1
<1>7. ~Escaped(w, 1 + 1)
  BY EscapedNext
<1>8. F[1].ok \/ F[1].told
  <2> HIDE DEF F
  <2> QED BY <1>6, <1>7
<1> QED BY <1>8, ParseStringIs

\* A literal that cannot be read is reported: the scan of the lexer and the
\* parsing of escapes agree on which quote ends it, so that no backslash is
\* left with nothing after it (tasm_parse_escape fails there in silence).
THEOREM LiteralsNoSilentLiteral == Spec => []NoSilentLiteral
<1>1. LexerInv => NoSilentLiteral
  <2> SUFFICES ASSUME LexerInv PROVE NoSilentLiteral
    OBVIOUS
  <2>1. ASSUME NEW w \in Lexemes("IMM_CHAR")
        PROVE  ParseChar(Inside(w)).ok \/ ParseChar(Inside(w)).told
    <3>1. w \in Seq(STRING) /\ IsQuoted(w, "'")
      BY LexemeFacts DEF IsWord
    <3> QED BY <3>1, CharTold
  <2>2. ASSUME NEW w \in Lexemes("IMM_STR"), IsUtf8(w)
        PROVE  ParseString(Inside(w)).ok \/ ParseString(Inside(w)).told
    <3>1. w \in Seq(STRING) /\ IsQuoted(w, DoubleQuote)
      BY LexemeFacts DEF IsWord
    <3> QED BY <2>2, <3>1, StringTold, DoubleQuoteFacts
  <2> QED BY <2>1, <2>2 DEF NoSilentLiteral
<1> QED BY <1>1, LexerInvariant, PTL
-----------------------------------------------------------------------------
(* Numbers *)

LEMMA DigitFacts ==
  /\ \A c \in DOMAIN DigitOf : DigitOf[c] \in Nat
  /\ DOMAIN RadixBase = RadixChars /\ \A r \in RadixChars : RadixBase[r] \in Nat \ {0}
<1>1. DOMAIN LowerDigits = 1 .. 36 /\ DOMAIN UpperDigits = 1 .. 36
  BY DEF LowerDigits, UpperDigits
<1>2. ASSUME NEW c \in DOMAIN DigitOf PROVE DigitOf[c] \in Nat
  <2> DEFINE place == CHOOSE i \in 1 .. 36 : c \in {LowerDigits[i], UpperDigits[i]}
  <2>1. c \in Range(LowerDigits) \union Range(UpperDigits) /\ DigitOf[c] = place - 1
    BY DEF DigitOf
  <2>2. \E i \in 1 .. 36 : c \in {LowerDigits[i], UpperDigits[i]}
    BY <1>1, <2>1 DEF Range
  <2>3. place \in 1 .. 36
    BY <2>2, Zenon
  <2> HIDE DEF place
  <2> QED BY <2>1, <2>3
<1>3. DOMAIN RadixBase = RadixChars /\ \A r \in RadixChars : RadixBase[r] \in Nat \ {0}
  BY DEF RadixBase, RadixChars
<1> QED BY <1>2, <1>3

LEMMA BaseFacts == \A w : BaseOf(w) \in Nat \ {0}
BY DigitFacts DEF BaseOf, HasRadixPrefix

\* What % leaves: a remainder, and nothing of a multiple.
LEMMA ModFacts ==
  ASSUME NEW m \in Nat \ {0}
  PROVE  /\ \A a \in Int : a % m \in 0 .. m - 1 /\ \E q \in Int : a = (a % m) + q * m
         /\ \A q \in Int : (q * m) % m = 0
<1>1. ASSUME NEW a \in Int PROVE a % m \in 0 .. m - 1 /\ \E q \in Int : a = (a % m) + q * m
  <2>1. a = m * (a \div m) + (a % m) /\ a \div m \in Int /\ a % m \in 0 .. m - 1
    OBVIOUS
  <2>2. a = (a % m) + (a \div m) * m
    BY <2>1
  <2> QED BY <2>1, <2>2
<1>2. ASSUME NEW q \in Int PROVE (q * m) % m = 0
  <2> DEFINE a == q * m
             r == a % m
  <2>1. a \in Int
    OBVIOUS
  <2>2. r \in 0 .. m - 1 /\ \E p \in Int : a = r + p * m
    <3> HIDE DEF a
    <3> QED BY <1>1, <2>1
  <2> HIDE DEF r
  <2> PICK p \in Int : a = r + p * m
    BY <2>2
  <2>3. r = (q - p) * m
    BY <2>2
  <2>4. q - p \in Int /\ ~(q - p >= 1) /\ ~(q - p <= -1)
    <3>1. ASSUME NEW d \in Int, d >= 1 PROVE d * m >= m
      BY <3>1
    <3>2. ASSUME NEW d \in Int, d <= -1 PROVE d * m <= -m
      BY <3>2
    <3> QED BY <2>2, <2>3, <3>1, <3>2
  <2>5. q - p = 0
    BY <2>4
  <2>6. r = 0
    BY <2>3, <2>5
  <2> QED BY <2>6 DEF r
<1> QED BY <1>1, <1>2

\* Induction and recursion that count up to n.
LEMMA CountInduction ==
  ASSUME NEW n \in Nat, NEW S, 0 \in S, \A k \in 1 .. n : k - 1 \in S => k \in S
  PROVE  0 .. n \subseteq S
<1> DEFINE D    == 0 .. n
           rank == [k \in D |-> k]
<1>1. rank \in [D -> Nat]
  OBVIOUS
<1>2. ASSUME NEW k \in D, \A j \in D : rank[j] < rank[k] => j \in S PROVE k \in S
  <2>1. CASE k = 0
    BY <2>1
  <2>2. CASE k # 0
    <3>1. k - 1 \in D /\ rank[k - 1] < rank[k] /\ k \in 1 .. n
      BY <2>2
    <3> HIDE DEF rank, D
    <3> QED BY <1>2, <3>1
  <2> QED BY <2>1, <2>2
<1>3. D \subseteq S
  <2> HIDE DEF D, rank
  <2>1. IsHereditary(S, D, rank)
    BY <1>2 DEF IsHereditary
  <2> QED BY <1>1, <2>1, RankInduction
<1> QED BY <1>3

Counts(n, V, first, comb) == n \in Nat /\ first \in V /\ comb \in [1 .. n -> [V -> V]]

CountsUp(f, n, first, comb) == f[0] = first /\ \A k \in 1 .. n : f[k] = comb[k][f[k - 1]]

LEMMA CountRecursion ==
  ASSUME NEW n, NEW V, NEW first, NEW comb, Counts(n, V, first, comb)
  PROVE  \E f \in [0 .. n -> V] : CountsUp(f, n, first, comb)
<1> DEFINE D    == 0 .. n
           rank == [k \in D |-> k]
           base == [k \in D |-> first]
           step == [k \in D |-> IF k = 0 THEN 0 ELSE k - 1]
           all  == [k \in D |-> IF k = 0 THEN [v \in V |-> v] ELSE comb[k]]
<1> USE DEF Counts
<1>1. rank \in [D -> 0 .. n] /\ base \in [D -> V] /\ step \in [D -> D] /\ {0} \subseteq D
  OBVIOUS
<1>2. all \in [D -> [V -> V]]
  <2>1. ASSUME NEW k \in D, k # 0 PROVE comb[k] \in [V -> V]
    BY <2>1
  <2> HIDE DEF D
  <2> QED BY <2>1
<1>3. \A k \in D \ {0} : rank[step[k]] < rank[k]
  OBVIOUS
<1>4. PICK f \in [D -> V] : Follows(f, D, {0}, base, step, all)
  <2> HIDE DEF D, rank, base, step, all
  <2>1. Descends(D, V, n, rank, {0}, base, step, all)
    BY <1>1, <1>2, <1>3 DEF Descends
  <2> QED BY <2>1, RankRecursion
<1>5. f[0] = first
  BY <1>4 DEF Follows
<1>6. ASSUME NEW k \in 1 .. n PROVE f[k] = comb[k][f[k - 1]]
  <2>1. k \in D /\ k \notin {0} /\ step[k] = k - 1 /\ all[k] = comb[k]
    OBVIOUS
  <2> HIDE DEF D, step, all
  <2> QED BY <1>4, <2>1 DEF Follows
<1> QED BY <1>4, <1>5, <1>6 DEF CountsUp

\* The three recursions over a numeral, one step at a time.
IsNumeral(numeral) ==
  numeral \in Seq(STRING) /\ \A i \in DigitPlaces(numeral) : numeral[i] \in DOMAIN DigitOf

LEMMA NumeralFacts ==
  ASSUME NEW numeral, IsNumeral(numeral)
  PROVE  /\ Len(numeral) \in Nat
         /\ \A k \in 1 .. Len(numeral) :
              numeral[k] \in Separators \/ DigitOf[numeral[k]] \in Nat
<1>1. Len(numeral) \in Nat /\ DOMAIN numeral = 1 .. Len(numeral)
  BY DEF IsNumeral
<1>2. ASSUME NEW k \in 1 .. Len(numeral), numeral[k] \notin Separators
      PROVE  DigitOf[numeral[k]] \in Nat
  <2>1. numeral[k] \in DOMAIN DigitOf
    BY <1>1, <1>2 DEF IsNumeral, DigitPlaces
  <2> QED BY <2>1, DigitFacts
<1> QED BY <1>1, <1>2

AccFrom(numeral, base, modulus) ==
  CHOOSE val : val = [k \in 0 .. Len(numeral) |->
                        IF k = 0 THEN 0
                        ELSE IF numeral[k] \in Separators THEN val[k - 1]
                        ELSE (val[k - 1] * base + DigitOf[numeral[k]]) % modulus]

LEMMA AccumulateIs ==
  \A numeral, base, modulus :
    Accumulate(numeral, base, modulus) = AccFrom(numeral, base, modulus)[Len(numeral)]
BY Zenon DEF Accumulate, AccFrom

LEMMA AccFromDef ==
  ASSUME NEW numeral, IsNumeral(numeral), NEW base \in Nat, NEW modulus \in Nat \ {0}
  PROVE  LET acc == AccFrom(numeral, base, modulus)
         IN  /\ acc[0] = 0 /\ \A k \in 0 .. Len(numeral) : acc[k] \in 0 .. modulus - 1
             /\ \A k \in 1 .. Len(numeral) :
                  acc[k] = IF numeral[k] \in Separators THEN acc[k - 1]
                           ELSE (acc[k - 1] * base + DigitOf[numeral[k]]) % modulus
<1> DEFINE n    == Len(numeral)
           V    == 0 .. modulus - 1
           Step(k, v) == IF numeral[k] \in Separators THEN v
                         ELSE (v * base + DigitOf[numeral[k]]) % modulus
           comb == [k \in 1 .. n |-> [v \in V |-> Step(k, v)]]
           Val(f, k) == IF k = 0 THEN 0
                        ELSE IF numeral[k] \in Separators THEN f[k - 1]
                        ELSE (f[k - 1] * base + DigitOf[numeral[k]]) % modulus
           acc  == AccFrom(numeral, base, modulus)
<1>1. n \in Nat /\ 0 \in V
  BY NumeralFacts
<1>2. ASSUME NEW k \in 1 .. n, NEW v \in V PROVE Step(k, v) \in V
  <2>1. CASE numeral[k] \in Separators
    BY <2>1
  <2>2. CASE numeral[k] \notin Separators
    <3>1. DigitOf[numeral[k]] \in Nat
      BY <2>2, NumeralFacts
    <3>2. v * base + DigitOf[numeral[k]] \in Int
      BY <3>1
    <3>3. (v * base + DigitOf[numeral[k]]) % modulus \in V
      BY <3>2, ModFacts
    <3> QED BY <2>2, <3>3
  <2> QED BY <2>1, <2>2
<1>3. comb \in [1 .. n -> [V -> V]]
  <2> HIDE DEF V, Step, n
  <2> QED BY <1>2
<1>4. PICK f \in [0 .. n -> V] : CountsUp(f, n, 0, comb)
  <2> HIDE DEF V, comb, n
  <2>1. Counts(n, V, 0, comb)
    BY <1>1, <1>3 DEF Counts
  <2> QED BY <2>1, CountRecursion
<1>5. f = [k \in 0 .. n |-> Val(f, k)]
  <2>1. ASSUME NEW k \in 0 .. n PROVE f[k] = Val(f, k)
    <3>1. CASE k = 0
      BY <1>4, <3>1 DEF CountsUp
    <3>2. CASE k # 0
      <4>1. k \in 1 .. n /\ k - 1 \in 0 .. n
        BY <1>1, <3>2
      <4>2. f[k - 1] \in V /\ f[k] = comb[k][f[k - 1]]
        <5> HIDE DEF V, comb, n
        <5> QED BY <1>4, <4>1 DEF CountsUp
      <4>3. f[k] = Step(k, f[k - 1])
        <5> HIDE DEF V, Step, n
        <5> QED BY <4>1, <4>2
      <4> QED BY <3>2, <4>3
    <3> QED BY <3>1, <3>2
  <2> HIDE DEF Val, n, V
  <2> QED BY <2>1
<1>6. acc = [k \in 0 .. n |-> Val(acc, k)]
  BY <1>5, Zenon DEF AccFrom
<1> HIDE DEF acc
<1>7. ASSUME NEW k \in 0 .. n PROVE acc[k] = Val(acc, k)
  <2> HIDE DEF Val, n
  <2> QED BY <1>6
<1>8. acc[0] = 0
  BY <1>1, <1>7
<1>9. ASSUME NEW k \in 1 .. n PROVE acc[k] = Step(k, acc[k - 1])
  <2>1. k \in 0 .. n /\ k # 0
    BY <1>1
  <2> QED BY <1>7, <2>1
<1> DEFINE S == {k \in 0 .. n : acc[k] \in V}
<1>10. 0 .. n \subseteq S
  <2>1. 0 \in S
    BY <1>1, <1>8
  <2>2. ASSUME NEW k \in 1 .. n, k - 1 \in S PROVE k \in S
    <3>1. acc[k - 1] \in V /\ k \in 0 .. n
      BY <1>1, <2>2
    <3>2. acc[k] \in V
      <4> HIDE DEF V, Step, n
      <4> QED BY <1>2, <1>9, <3>1
    <3> HIDE DEF V, n
    <3> QED BY <3>1, <3>2
  <2> HIDE DEF S, n
  <2> QED BY <1>1, <2>1, <2>2, CountInduction
<1>11. \A k \in 0 .. n : acc[k] \in V
  <2> HIDE DEF n, V
  <2> QED BY <1>10
<1> QED BY <1>8, <1>9, <1>11 DEF acc

ByteFromEnd(w, k) == NumeralOf(w)[Len(NumeralOf(w)) - k + 1]

WeightFrom(w) ==
  CHOOSE weight : weight = [k \in 0 .. Len(NumeralOf(w)) |->
                              IF k = 0 THEN 1
                              ELSE IF ByteFromEnd(w, k) \in Separators THEN weight[k - 1]
                              ELSE weight[k - 1] * BaseOf(w)]

ValueFrom(w) ==
  CHOOSE value : value = [k \in 0 .. Len(NumeralOf(w)) |->
                            IF k = 0 THEN 0
                            ELSE IF ByteFromEnd(w, k) \in Separators THEN value[k - 1]
                            ELSE value[k - 1] + DigitOf[ByteFromEnd(w, k)] * WeightFrom(w)[k - 1]]

LEMMA NumeralValueIs ==
  \A w : NumeralValue(w) = ValueFrom(w)[Len(NumeralOf(w))]
BY Zenon DEF NumeralValue, ValueFrom, WeightFrom, ByteFromEnd

LEMMA ByteFromEndFacts ==
  ASSUME NEW w, IsNumeral(NumeralOf(w)), NEW k \in 1 .. Len(NumeralOf(w))
  PROVE  ByteFromEnd(w, k) \in Separators \/ DigitOf[ByteFromEnd(w, k)] \in Nat
<1>1. Len(NumeralOf(w)) - k + 1 \in 1 .. Len(NumeralOf(w))
  BY NumeralFacts
<1> QED BY <1>1, NumeralFacts DEF ByteFromEnd

LEMMA WeightFromDef ==
  ASSUME NEW w, IsNumeral(NumeralOf(w))
  PROVE  LET weight == WeightFrom(w)
             n      == Len(NumeralOf(w))
         IN  /\ weight[0] = 1 /\ \A k \in 0 .. n : weight[k] \in Nat
             /\ \A k \in 1 .. n :
                  weight[k] = IF ByteFromEnd(w, k) \in Separators THEN weight[k - 1]
                              ELSE weight[k - 1] * BaseOf(w)
<1> DEFINE n    == Len(NumeralOf(w))
           base == BaseOf(w)
           Byte(k) == ByteFromEnd(w, k)
           Step(k, v) == IF Byte(k) \in Separators THEN v ELSE v * base
           comb == [k \in 1 .. n |-> [v \in Nat |-> Step(k, v)]]
           Val(f, k) == IF k = 0 THEN 1
                        ELSE IF Byte(k) \in Separators THEN f[k - 1] ELSE f[k - 1] * base
           weight == WeightFrom(w)
<1>1. n \in Nat /\ base \in Nat
  BY NumeralFacts, BaseFacts
<1> HIDE DEF Byte, base, n
<1>2. ASSUME NEW k \in 1 .. n, NEW v \in Nat PROVE Step(k, v) \in Nat
  BY <1>1
<1>3. comb \in [1 .. n -> [Nat -> Nat]]
  <2> HIDE DEF Step
  <2> QED BY <1>2
<1>4. PICK f \in [0 .. n -> Nat] : CountsUp(f, n, 1, comb)
  <2> HIDE DEF comb
  <2>1. Counts(n, Nat, 1, comb)
    BY <1>1, <1>3 DEF Counts
  <2> QED BY <2>1, CountRecursion
<1>5. f = [k \in 0 .. n |-> Val(f, k)]
  <2>1. ASSUME NEW k \in 0 .. n PROVE f[k] = Val(f, k)
    <3>1. CASE k = 0
      BY <1>4, <3>1 DEF CountsUp
    <3>2. CASE k # 0
      <4>1. k \in 1 .. n /\ k - 1 \in 0 .. n
        BY <1>1, <3>2
      <4>2. f[k - 1] \in Nat /\ f[k] = comb[k][f[k - 1]]
        <5> HIDE DEF comb
        <5> QED BY <1>4, <4>1 DEF CountsUp
      <4>3. f[k] = Step(k, f[k - 1])
        <5> HIDE DEF Step
        <5> QED BY <4>1, <4>2
      <4> QED BY <3>2, <4>3
    <3> QED BY <3>1, <3>2
  <2> HIDE DEF Val
  <2> QED BY <2>1
<1>6. weight = [k \in 0 .. n |-> Val(weight, k)]
  BY <1>5, Zenon DEF WeightFrom, Byte, base, n
<1> HIDE DEF weight
<1>7. ASSUME NEW k \in 0 .. n PROVE weight[k] = Val(weight, k)
  <2> HIDE DEF Val
  <2> QED BY <1>6
<1>8. weight[0] = 1
  BY <1>1, <1>7
<1>9. ASSUME NEW k \in 1 .. n PROVE weight[k] = Step(k, weight[k - 1])
  <2>1. k \in 0 .. n /\ k # 0
    BY <1>1
  <2> QED BY <1>7, <2>1
<1> DEFINE S == {k \in 0 .. n : weight[k] \in Nat}
<1>10. 0 .. n \subseteq S
  <2>1. 0 \in S
    BY <1>1, <1>8
  <2>2. ASSUME NEW k \in 1 .. n, k - 1 \in S PROVE k \in S
    <3>1. weight[k - 1] \in Nat /\ k \in 0 .. n
      BY <1>1, <2>2
    <3>2. weight[k] \in Nat
      <4> HIDE DEF Step
      <4> QED BY <1>2, <1>9, <3>1
    <3> QED BY <3>1, <3>2
  <2> HIDE DEF S
  <2> QED BY <1>1, <2>1, <2>2, CountInduction
<1>11. \A k \in 0 .. n : weight[k] \in Nat
  BY <1>10
<1> QED BY <1>8, <1>9, <1>11 DEF weight, Byte, base, n

LEMMA ValueFromDef ==
  ASSUME NEW w, IsNumeral(NumeralOf(w))
  PROVE  LET value == ValueFrom(w)
             n     == Len(NumeralOf(w))
         IN  /\ value[0] = 0 /\ \A k \in 0 .. n : value[k] \in Nat
             /\ \A k \in 1 .. n :
                  value[k] =
                    IF ByteFromEnd(w, k) \in Separators THEN value[k - 1]
                    ELSE value[k - 1] + DigitOf[ByteFromEnd(w, k)] * WeightFrom(w)[k - 1]
<1> DEFINE n    == Len(NumeralOf(w))
           Byte(k) == ByteFromEnd(w, k)
           Term(k) == DigitOf[ByteFromEnd(w, k)] * WeightFrom(w)[k - 1]
           Step(k, v) == IF Byte(k) \in Separators THEN v ELSE v + Term(k)
           comb == [k \in 1 .. n |-> [v \in Nat |-> Step(k, v)]]
           Val(f, k) == IF k = 0 THEN 0
                        ELSE IF Byte(k) \in Separators THEN f[k - 1] ELSE f[k - 1] + Term(k)
           value == ValueFrom(w)
<1>1. n \in Nat
  BY NumeralFacts
<1>2. ASSUME NEW k \in 1 .. n, Byte(k) \notin Separators PROVE Term(k) \in Nat
  <2>1. DigitOf[ByteFromEnd(w, k)] \in Nat
    BY <1>2, ByteFromEndFacts
  <2>2. k - 1 \in 0 .. n
    BY <1>1
  <2>3. WeightFrom(w)[k - 1] \in Nat
    BY <2>2, WeightFromDef
  <2> QED BY <2>1, <2>3
<1> HIDE DEF Byte, Term, n
<1>3. ASSUME NEW k \in 1 .. n, NEW v \in Nat PROVE Step(k, v) \in Nat
  BY <1>2
<1>4. comb \in [1 .. n -> [Nat -> Nat]]
  <2> HIDE DEF Step
  <2> QED BY <1>3
<1>5. PICK f \in [0 .. n -> Nat] : CountsUp(f, n, 0, comb)
  <2> HIDE DEF comb
  <2>1. Counts(n, Nat, 0, comb)
    BY <1>1, <1>4 DEF Counts
  <2> QED BY <2>1, CountRecursion
<1>6. f = [k \in 0 .. n |-> Val(f, k)]
  <2>1. ASSUME NEW k \in 0 .. n PROVE f[k] = Val(f, k)
    <3>1. CASE k = 0
      BY <1>5, <3>1 DEF CountsUp
    <3>2. CASE k # 0
      <4>1. k \in 1 .. n /\ k - 1 \in 0 .. n
        BY <1>1, <3>2
      <4>2. f[k - 1] \in Nat /\ f[k] = comb[k][f[k - 1]]
        <5> HIDE DEF comb
        <5> QED BY <1>5, <4>1 DEF CountsUp
      <4>3. f[k] = Step(k, f[k - 1])
        <5> HIDE DEF Step
        <5> QED BY <4>1, <4>2
      <4> QED BY <3>2, <4>3
    <3> QED BY <3>1, <3>2
  <2> HIDE DEF Val
  <2> QED BY <2>1
<1>7. value = [k \in 0 .. n |-> Val(value, k)]
  BY <1>6, Zenon DEF ValueFrom, Byte, Term, n
<1> HIDE DEF value
<1>8. ASSUME NEW k \in 0 .. n PROVE value[k] = Val(value, k)
  <2> HIDE DEF Val
  <2> QED BY <1>7
<1>9. value[0] = 0
  BY <1>1, <1>8
<1>10. ASSUME NEW k \in 1 .. n PROVE value[k] = Step(k, value[k - 1])
  <2>1. k \in 0 .. n /\ k # 0
    BY <1>1
  <2> QED BY <1>8, <2>1
<1> DEFINE S == {k \in 0 .. n : value[k] \in Nat}
<1>11. 0 .. n \subseteq S
  <2>1. 0 \in S
    BY <1>1, <1>9
  <2>2. ASSUME NEW k \in 1 .. n, k - 1 \in S PROVE k \in S
    <3>1. value[k - 1] \in Nat /\ k \in 0 .. n
      BY <1>1, <2>2
    <3>2. value[k] \in Nat
      <4> HIDE DEF Step
      <4> QED BY <1>3, <1>10, <3>1
    <3> QED BY <3>1, <3>2
  <2> HIDE DEF S
  <2> QED BY <1>1, <2>1, <2>2, CountInduction
<1>12. \A k \in 0 .. n : value[k] \in Nat
  BY <1>11
<1> QED BY <1>9, <1>10, <1>12 DEF value, Byte, Term, n

\* A digit moved from what is accumulated to what is counted place by place.
Moves(a, b, d, r, p, m, weight, v, z, q) ==
  /\ a \in Int /\ b \in Int /\ d \in Int /\ r \in Int /\ p \in Int
  /\ m \in Int /\ weight \in Int /\ v \in Int /\ z \in Int /\ q \in Int
  /\ a * b + d = r + p * m /\ r * weight + v = z + q * m

LEMMA DigitMoved ==
  ASSUME NEW a, NEW b, NEW d, NEW r, NEW p, NEW m, NEW weight, NEW v, NEW z, NEW q,
         Moves(a, b, d, r, p, m, weight, v, z, q)
  PROVE  a * (weight * b) + (v + d * weight) = z + (q + p * weight) * m
<1> USE DEF Moves
<1>1. a * (weight * b) + d * weight = (a * b + d) * weight
  OBVIOUS
<1>2. (a * b + d) * weight = r * weight + (p * weight) * m
  <2>1. (r + p * m) * weight = r * weight + (p * weight) * m
    OBVIOUS
  <2> QED BY <2>1
<1>3. (q + p * weight) * m = q * m + (p * weight) * m
  OBVIOUS
<1> DEFINE A == a * (weight * b)   B == d * weight   C == (p * weight) * m
           R == r * weight         Q == q * m        E == (a * b + d) * weight
           F == (q + p * weight) * m
<1>4. /\ A \in Int /\ B \in Int /\ C \in Int /\ R \in Int /\ Q \in Int /\ E \in Int /\ F \in Int
      /\ A + B = E /\ E = R + C /\ F = Q + C /\ R + v = z + Q
  BY <1>1, <1>2, <1>3
<1> HIDE DEF A, B, C, R, Q, E, F
<1>5. A + (v + B) = z + F
  BY <1>4
<1> QED BY <1>5 DEF A, B, F

\* What is accumulated is the value of the numeral, but for a multiple of the modulus.
LEMMA AccumulatedIsValue ==
  ASSUME NEW w, IsNumeral(NumeralOf(w)), NEW m \in Nat \ {0}
  PROVE  /\ Accumulate(NumeralOf(w), BaseOf(w), m) \in 0 .. m - 1
         /\ NumeralValue(w) \in Nat
         /\ \E q \in Int : NumeralValue(w) = Accumulate(NumeralOf(w), BaseOf(w), m) + q * m
<1> DEFINE numeral == NumeralOf(w)
           n       == Len(numeral)
           b       == BaseOf(w)
           acc     == AccFrom(numeral, b, m)
           weight  == WeightFrom(w)
           value   == ValueFrom(w)
           Byte(k) == ByteFromEnd(w, k)
           d(k)    == DigitOf[Byte(k)]
           S == {k \in 0 .. n : \E q \in Int : acc[n - k] * weight[k] + value[k] = acc[n] + q * m}
<1>1. n \in Nat /\ b \in Nat /\ IsNumeral(numeral)
  BY NumeralFacts, BaseFacts
<1>2. /\ acc[0] = 0 /\ \A k \in 0 .. n : acc[k] \in 0 .. m - 1
      /\ \A k \in 1 .. n : acc[k] = IF numeral[k] \in Separators THEN acc[k - 1]
                                    ELSE (acc[k - 1] * b + DigitOf[numeral[k]]) % m
  BY <1>1, AccFromDef
<1>3. /\ weight[0] = 1 /\ \A k \in 0 .. n : weight[k] \in Nat
      /\ \A k \in 1 .. n : weight[k] = IF Byte(k) \in Separators THEN weight[k - 1]
                                       ELSE weight[k - 1] * b
  BY WeightFromDef
<1>4. /\ value[0] = 0 /\ \A k \in 0 .. n : value[k] \in Nat
      /\ \A k \in 1 .. n : value[k] = IF Byte(k) \in Separators THEN value[k - 1]
                                      ELSE value[k - 1] + d(k) * weight[k - 1]
  BY ValueFromDef
<1>5. \A k \in 1 .. n : Byte(k) = numeral[n - k + 1] /\ (Byte(k) \in Separators \/ d(k) \in Nat)
  BY ByteFromEndFacts DEF ByteFromEnd
<1> HIDE DEF acc, weight, value, Byte, numeral, b, n
<1>6. 0 \in S
  <2>1. n - 0 = n /\ acc[n] \in Int
    BY <1>1, <1>2
  <2>2. acc[n - 0] * weight[0] + value[0] = acc[n] + 0 * m
    BY <1>3, <1>4, <2>1
  <2> QED BY <1>1, <2>2
<1>7. ASSUME NEW k \in 1 .. n, k - 1 \in S PROVE k \in S
  <2> DEFINE j == n - k + 1
  <2>1. j \in 1 .. n /\ j \in 0 .. n /\ j - 1 \in 0 .. n /\ k - 1 \in 0 .. n /\ k \in 0 .. n
        /\ n - (k - 1) = j /\ n - k = j - 1 /\ n \in 0 .. n
    BY <1>1
  <2>2. PICK q \in Int : acc[j] * weight[k - 1] + value[k - 1] = acc[n] + q * m
    BY <1>7, <2>1
  <2>3. Byte(k) = numeral[j]
    BY <1>5
  <2> HIDE DEF j
  <2>4. CASE Byte(k) \in Separators
    <3>1. acc[j] = acc[j - 1] /\ weight[k] = weight[k - 1] /\ value[k] = value[k - 1]
      BY <1>2, <1>3, <1>4, <2>1, <2>3, <2>4
    <3>2. acc[n - k] * weight[k] + value[k] = acc[n] + q * m
      BY <2>1, <2>2, <3>1
    <3> QED BY <2>1, <3>2
  <2>5. CASE Byte(k) \notin Separators
    <3> DEFINE a == acc[j - 1]
    <3>1. /\ acc[j] = (a * b + d(k)) % m
          /\ weight[k] = weight[k - 1] * b /\ value[k] = value[k - 1] + d(k) * weight[k - 1]
      BY <1>2, <1>3, <1>4, <2>1, <2>3, <2>5
    <3>2. /\ a \in Int /\ d(k) \in Int /\ weight[k - 1] \in Int /\ value[k - 1] \in Int
          /\ acc[j] \in Int /\ acc[n] \in Int /\ b \in Int /\ m \in Int
      BY <1>1, <1>2, <1>3, <1>4, <1>5, <2>1, <2>5
    <3> HIDE DEF a, d
    <3>3. PICK p \in Int : a * b + d(k) = acc[j] + p * m
      <4> DEFINE x == a * b + d(k)
      <4>1. x \in Int
        BY <3>2
      <4>2. \E p \in Int : x = (x % m) + p * m
        <5> HIDE DEF x
        <5> QED BY <4>1, ModFacts
      <4> QED BY <3>1, <4>2
    <3>4. a * (weight[k - 1] * b) + (value[k - 1] + d(k) * weight[k - 1])
          = acc[n] + (q + p * weight[k - 1]) * m
      <4>1. Moves(a, b, d(k), acc[j], p, m, weight[k - 1], value[k - 1], acc[n], q)
        BY <2>2, <3>2, <3>3 DEF Moves
      <4> QED BY <4>1, DigitMoved
    <3> DEFINE e == q + p * weight[k - 1]
    <3>5. e \in Int
      BY <3>2
    <3> HIDE DEF e
    <3>6. acc[n - k] * weight[k] + value[k] = acc[n] + e * m
      BY <2>1, <3>1, <3>4 DEF a, e
    <3> QED BY <2>1, <3>5, <3>6
  <2> QED BY <2>4, <2>5
<1>8. n \in S
  <2> HIDE DEF S
  <2>1. 0 .. n \subseteq S
    BY <1>1, <1>6, <1>7, CountInduction
  <2>2. n \in 0 .. n
    BY <1>1
  <2> QED BY <2>1, <2>2
<1>9. PICK q \in Int : value[n] = acc[n] + q * m
  <2>1. PICK q \in Int : acc[n - n] * weight[n] + value[n] = acc[n] + q * m
    BY <1>8
  <2>2. acc[n - n] * weight[n] = 0 /\ value[n] \in Nat
    <3>1. n - n = 0 /\ n \in 0 .. n /\ weight[n] \in Nat /\ value[n] \in Nat
      BY <1>1, <1>3, <1>4
    <3>2. acc[n - n] = 0
      BY <1>2, <3>1
    <3> QED BY <3>1, <3>2
  <2>3. value[n] = acc[n] + q * m
    <3> DEFINE x == acc[n - n] * weight[n]
               v == value[n]
               z == acc[n] + q * m
    <3>1. x = 0 /\ v \in Nat /\ x + v = z
      BY <2>1, <2>2
    <3> HIDE DEF x, v, z
    <3>2. v = z
      BY <3>1
    <3> QED BY <3>2 DEF v, z
  <2> QED BY <2>3
<1>10. acc[n] \in 0 .. m - 1 /\ value[n] \in Nat
  BY <1>1, <1>2, <1>4
<1>11. NumeralValue(w) = value[n] /\ Accumulate(NumeralOf(w), BaseOf(w), m) = acc[n]
  BY AccumulateIs, NumeralValueIs, Zenon DEF value, acc, numeral, b, n
<1> QED BY <1>9, <1>10, <1>11

\* Read as a signed number, it is the value if there is room for it.
LEMMA SignedFacts ==
  ASSUME NEW m \in Nat \ {0}, m % 2 = 0, NEW a \in 0 .. m - 1, NEW v \in Nat,
         NEW q \in Int, v = a + q * m
  PROVE  /\ (Signed(a, m) - v) % m = 0
         /\ v < m \div 2 => Signed(a, m) = v
<1>1. Signed(a, m) - v = (-q) * m \/ Signed(a, m) - v = (-q - 1) * m
  <2>1. (-q) * m = -(q * m) /\ (-q - 1) * m = -(q * m) - m
    OBVIOUS
  <2> DEFINE x == q * m
  <2>2. x \in Int /\ v = a + x /\ (-q) * m = -x /\ (-q - 1) * m = -x - m
    BY <2>1
  <2> HIDE DEF x
  <2> QED BY <2>2 DEF Signed
<1>2. (Signed(a, m) - v) % m = 0
  <2>1. -q \in Int /\ -q - 1 \in Int
    OBVIOUS
  <2>2. \A e \in Int : (e * m) % m = 0
    BY ModFacts
  <2> QED BY <1>1, <2>1, <2>2
<1>3. ASSUME v < m \div 2 PROVE Signed(a, m) = v
  <2>1. m \div 2 \in Nat /\ m \div 2 < m
    OBVIOUS
  <2>2. q = 0
    <3>1. ASSUME q >= 1 PROVE q * m >= m
      BY <3>1
    <3>2. ASSUME q <= -1 PROVE q * m <= -m
      BY <3>2
    <3> DEFINE x == q * m
    <3>3. x \in Int /\ (q >= 1 => x >= m) /\ (q <= -1 => x <= -m) /\ v = a + x
      BY <3>1, <3>2
    <3> HIDE DEF x
    <3> QED BY <1>3, <2>1, <3>3
  <2>3. v = a
    BY <2>2
  <2> QED BY <1>3, <2>1, <2>3 DEF Signed
<1> QED BY <1>2, <1>3

\* An integer literal that is accepted has the value of its digits in its radix,
\* modulo what the accumulator holds, and exactly when that holds it
\* (tasm_parse_lit_int).
THEOREM LiteralsIntsMeanTheirDigits == Spec => []IntsMeanTheirDigits
<1>1. LexerInv => IntsMeanTheirDigits
  <2> SUFFICES ASSUME LexerInv, NEW w \in Lexemes("IMM_INT"), ParseInt(w).ok
               PROVE  /\ (ParseInt(w).val - NumeralValue(w)) % IntModulus = 0
                      /\ NumeralValue(w) < IntModulus \div 2 => ParseInt(w).val = NumeralValue(w)
    BY DEF IntsMeanTheirDigits
  <2> DEFINE numeral == NumeralOf(w)
             a == Accumulate(numeral, BaseOf(w), IntModulus)
             Accepts == /\ DigitPlaces(numeral) # {}
                        /\ \A i \in DigitPlaces(numeral) : IsDigitIn(BaseOf(w), numeral[i])
  <2>1. w \in Seq(STRING)
    BY LexemeFacts
  <2>2. numeral \in Seq(STRING)
    <3>1. Len(w) >= 2 => SubSeq(w, 3, Len(w)) \in Seq(STRING)
      BY <2>1
    <3> QED BY <2>1, <3>1, Zenon DEF NumeralOf, HasRadixPrefix
  <2>3. ParseInt(w) = IF Accepts THEN [ok |-> TRUE, val |-> Signed(a, IntModulus)]
                      ELSE [ok |-> FALSE, val |-> 0]
    BY Zenon DEF ParseInt
  <2> HIDE DEF a
  <2>4. Accepts /\ ParseInt(w).val = Signed(a, IntModulus)
    <3> HIDE DEF Accepts
    <3> QED BY <2>3
  <2>5. IsNumeral(numeral)
    BY <2>2, <2>4 DEF IsNumeral, IsDigitIn
  <2>6. IntModulus \in Nat \ {0} /\ IntModulus % 2 = 0
    BY LiteralsAssumption, Zenon
  <2>7. /\ a \in 0 .. IntModulus - 1 /\ NumeralValue(w) \in Nat
        /\ \E q \in Int : NumeralValue(w) = a + q * IntModulus
    BY <2>5, <2>6, AccumulatedIsValue DEF a
  <2> QED BY <2>4, <2>6, <2>7, SignedFacts
<1> QED BY <1>1, LexerInvariant, PTL

=============================================================================
