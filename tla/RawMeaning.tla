----------------------------- MODULE RawMeaning -----------------------------
(***************************************************************************)
(* What a program means as a raw image, without passes, symbol tables or a *)
(* current scope: where its items may be placed, which value an operand    *)
(* stands for, and which trytes an item puts at its place, later items     *)
(* over earlier ones.                                                      *)
(***************************************************************************)
EXTENDS Lower, Scopes

CONSTANT Garbage  \* what reading the .imm of an operand that is no literal may give

-----------------------------------------------------------------------------
(* Placement *)

\* Where the item after this one may go.
Follows(item, at) ==
  IF ~IsDir(item, {"org"}) THEN {at + ItemSize(item)}
  ELSE IF Len(item.operands) # 1 THEN {at}
  ELSE IF IsImm(item.operands[1]) THEN {item.operands[1].val}
  ELSE Garbage

IsPlacement(p, f) ==
  /\ DOMAIN f = DOMAIN p
  /\ \A j \in DOMAIN p : IF j = 1 THEN f[j] = 0 ELSE f[j] \in Follows(p[j - 1], f[j - 1])

-----------------------------------------------------------------------------
(* Names *)

\* The value of an operand of item j, in a set that is empty if it has none.
Meaning(p, f, j, op) ==
  IF IsImm(op) THEN {op.val}
  ELSE IF IsLabel(op)
       THEN {f[d] : d \in {c \in DOMAIN p : IsMeant(p, j, op.name, op.is_local, c)}}
  ELSE {}

-----------------------------------------------------------------------------
(* The image *)

The(S) == CHOOSE x \in S : TRUE

\* The values of the elements of item j, up to the first that has none.
Elements(p, f, j) ==
  LET ops == p[j].operands
  IN  [k \in {n \in DOMAIN ops : \A l \in 1 .. n : Meaning(p, f, j, ops[l]) # {}} |->
         The(Meaning(p, f, j, ops[k]))]

\* The strings before the first that does not decode.
Strings(ops) == {k \in DOMAIN ops : \A l \in 1 .. k : ops[l].good}

Trytes(p, f, j) ==
  LET item == p[j]
      op   == ImmOperand(item)
  IN  CASE item.kind = "instr" ->
             IF ~IsValid(item) THEN <<>>
             ELSE IF op = NoOperand THEN Encoding(item, StepImmediate)
             ELSE IF Meaning(p, f, j, op) # {}
                  THEN Encoding(item, The(Meaning(p, f, j, op)))
             ELSE <<>>
        [] IsDir(item, DataDirs) -> DataTrytes(ElementSize(item.dir), Elements(p, f, j))
        [] IsDir(item, {"string"}) ->
             StringTrytes(item.operands, Cardinality(Strings(item.operands)))
        [] OTHER -> <<>>

\* At each address, the tryte of the last item that puts one there, if item j
\* puts out[j] at f[j].
Overlay(f, out) ==
  LET writers(x) == {j \in DOMAIN out : x - f[j] + 1 \in DOMAIN out[j]}
      used       == UNION {{f[j] + k - 1 : k \in DOMAIN out[j]} : j \in DOMAIN out}
  IN  [x \in used |->
         LET j == CHOOSE w \in writers(x) : \A v \in writers(x) : v <= w
         IN  out[j][x - f[j] + 1]]

Image(p, f) == Overlay(f, [j \in DOMAIN p |-> Trytes(p, f, j)])
=============================================================================
