-------------------------- MODULE RawBackendProofs --------------------------
(***************************************************************************)
(* Proofs about the raw back end, for every program: the types of its      *)
(* state; that pass 2 stores into the space pass 1 has reserved for the    *)
(* item at hand and nowhere else; that nothing is therefore stored over    *)
(* anything or outside the image, unless %org goes back; that it reports   *)
(* no instruction twice; and that it leaves out nothing without a report.  *)
(*                                                                         *)
(* And that it resolves labels by scope and implements RawImage: pass 2    *)
(* finds for a label operand the label item it means, the first of its     *)
(* name in the scope of the operand, wherever that item is, and finds none *)
(* exactly if there is none; the addresses of pass 1 are a placement of    *)
(* the items; and what pass 2 leaves in memory is the image the program    *)
(* means when it is laid out so.                                           *)
(***************************************************************************)
EXTENDS RawBackend, LowerProofs

-----------------------------------------------------------------------------
(* What is at hand *)

\* A loop over operands that stops at a bad one has passed over some of them.
LEMMA BeforeType ==
  ASSUME NEW ops \in Seq(Operand), NEW bad \in SUBSET DOMAIN ops
  PROVE  Before(ops, bad) \in 0 .. Len(ops)
<1>1. DOMAIN ops = 1 .. Len(ops) /\ Len(ops) \in Nat
  OBVIOUS
<1>2. CASE bad = {}
  BY <1>1, <1>2 DEF Before
<1>3. CASE bad # {}
  <2>1. bad \in SUBSET Nat
    BY <1>1
  <2> DEFINE m == CHOOSE k \in bad : \A l \in bad : k <= l
  <2>2. m \in bad
    BY <1>3, <2>1, LeastExists
  <2>3. m \in 1 .. Len(ops)
    BY <1>1, <2>2
  <2>4. Before(ops, bad) = m - 1
    BY <1>3 DEF Before
  <2> HIDE DEF m
  <2> QED BY <1>1, <2>3, <2>4
<1> QED BY <1>2, <1>3

\* Stores at an address in memory stay in memory.
LEMMA StoreDomain ==
  ASSUME NEW m, DOMAIN m \subseteq Nat, NEW a \in Nat, NEW trytes, Len(trytes) \in Nat
  PROVE  DOMAIN Store(m, a, trytes) \subseteq Nat
BY DEF Store

-----------------------------------------------------------------------------
(* Types *)

\* The item at hand.
LEMMA ItemAtHand ==
  ASSUME TypeOK, i \in DOMAIN prog
  PROVE  /\ prog[i] \in Item
         /\ i \in 1 .. Len(prog) /\ Len(prog) \in Nat /\ i + 1 \in 1 .. Len(prog) + 1
         /\ addrs[i] \in Nat /\ diags[i] \in Nat
         /\ prog[i].kind # "label" => prog[i].operands \in Seq(Operand)
<1>1. /\ prog[i] \in Item
      /\ i \in 1 .. Len(prog) /\ Len(prog) \in Nat /\ i + 1 \in 1 .. Len(prog) + 1
      /\ addrs[i] \in Nat /\ diags[i] \in Nat
  BY DEF TypeOK
<1> QED BY <1>1, ItemFacts

\* The strings that do not decode are operands, and can be counted.
LEMMA BadStringsType ==
  ASSUME NEW item \in Item, item.kind # "label"
  PROVE  /\ BadStrings(item) \in SUBSET DOMAIN item.operands
         /\ Cardinality(BadStrings(item)) \in Nat
<1>1. item.operands \in Seq(Operand)
  BY ItemFacts
<1>2. BadStrings(item) \in SUBSET (1 .. Len(item.operands)) /\ Len(item.operands) \in Nat
  BY <1>1 DEF BadStrings
<1>3. IsFiniteSet(1 .. Len(item.operands))
  BY <1>2, FS_Interval
<1>4. IsFiniteSet(BadStrings(item))
  BY <1>2, <1>3, FS_Subset
<1> QED BY <1>1, <1>2, <1>4, FS_CardinalityType

\* Measuring an item reports a number of errors.
LEMMA MeasuringErrorsType ==
  ASSUME NEW item \in Item, item.kind # "label"
  PROVE  MeasuringErrors(item) \in Nat
BY BadStringsType DEF MeasuringErrors

\* A turn of pass 2 that stores a sequence of trytes keeps the types.
LEMMA EmitTypeOK ==
  ASSUME TypeOK, i \in DOMAIN prog,
         NEW trytes, Len(trytes) \in Nat, NEW n \in Nat, Emit(trytes, n)
  PROVE  TypeOK'
<1>1. i' \in 1 .. Len(prog) + 1
  BY ItemAtHand DEF Emit
<1>2. DOMAIN mem' \subseteq Nat
  BY ItemAtHand, StoreDomain DEF Emit, TypeOK
<1>3. diags' \in [DOMAIN prog -> Nat] /\ error_count' \in Nat
  BY DEF Emit, Report, Counted, TypeOK
<1> QED BY <1>1, <1>2, <1>3 DEF Emit, TypeOK

\* A turn of pass 1 that only gives the item its address keeps the types.
LEMMA PlaceTypeOK ==
  ASSUME TypeOK, i \in DOMAIN prog, UNCHANGED <<scope, symbols>>,
         NEW next \in Nat, NEW n \in Nat, Place(next), Report(n)
  PROVE  TypeOK'
<1>1. i' \in 1 .. Len(prog) + 1
  BY ItemAtHand DEF Place
<1>2. addr' \in Nat /\ addrs' \in [DOMAIN prog -> Nat]
  BY DEF Place, TypeOK
<1>3. diags' \in [DOMAIN prog -> Nat] /\ error_count' \in Nat
  BY DEF Report, Counted, TypeOK
<1> QED BY <1>1, <1>2, <1>3 DEF Place, TypeOK

\* The back end starts with the types it keeps.
LEMMA InitTypeOK == Init => TypeOK
<1> SUFFICES ASSUME Init PROVE TypeOK
  OBVIOUS
<1>1. prog \in Seq(Item)
  BY RawAssumption DEF Init
<1>2. symbols \in Seq(Symbol)
  BY DEF Init
<1>3. i \in 1 .. Len(prog) + 1 /\ scope \in 0 .. Len(prog)
  BY <1>1 DEF Init, NoItem
<1>4. DOMAIN mem \subseteq Nat
  BY DEF Init
<1> QED BY <1>1, <1>2, <1>3, <1>4 DEF Init, TypeOK

\* Every turn of the two loops keeps the types.
LEMMA NextTypeOK == TypeOK /\ [Next]_vars => TypeOK'
<1> SUFFICES ASSUME TypeOK, [Next]_vars PROVE TypeOK'
  OBVIOUS
<1>1. CASE Pass1Label
  <2>1. i \in DOMAIN prog /\ prog[i].kind = "label"
    BY <1>1 DEF Pass1Label, At
  <2>2. /\ prog[i].name \in STRING /\ prog[i].is_local \in BOOLEAN
        /\ i \in 1 .. Len(prog) /\ i + 1 \in 1 .. Len(prog) + 1
    BY <2>1, ItemAtHand, ItemFacts
  <2>3. scope \in 0 .. Len(prog) /\ scope' \in 0 .. Len(prog)
    BY <1>1, <2>2 DEF TypeOK, Pass1Label
  <2>4. symbols' \in Seq(Symbol)
    <3> DEFINE s == [name |-> prog[i].name, id |-> i, is_local |-> prog[i].is_local,
                     parent |-> IF prog[i].is_local THEN scope ELSE NoItem]
    <3>1. s \in Symbol
      BY <2>2, <2>3 DEF Symbol, NoItem
    <3>2. symbols' = Append(symbols, s)
      BY <1>1 DEF Pass1Label
    <3> HIDE DEF s
    <3> QED BY <3>1, <3>2, AppendProperties DEF TypeOK
  <2> QED BY <1>1, <2>2, <2>3, <2>4 DEF Pass1Label, Place, TypeOK
<1>2. CASE Pass1Org
  <2>1. i \in DOMAIN prog /\ prog[i].kind = "directive"
    BY <1>2 DEF Pass1Org, At, IsDir
  <2>2. CASE Len(prog[i].operands) = 1
    <3>1. prog[i].operands[1] \in Operand
      BY <2>1, <2>2, ItemAtHand
    <3>2. OrgTargets(prog[i].operands[1]) \subseteq Nat
      BY <3>1, OperandFacts, RawAssumption DEF OrgTargets, IsImm
    <3>3. PICK next \in Nat : Place(next) /\ Report(0)
      BY <1>2, <2>2, <3>2 DEF Pass1Org
    <3> QED BY <1>2, <2>1, <3>3, PlaceTypeOK DEF Pass1Org
  <2>3. CASE Len(prog[i].operands) # 1
    <3>1. Place(addr) /\ Report(1) /\ addr \in Nat
      BY <1>2, <2>3 DEF Pass1Org, TypeOK
    <3> QED BY <1>2, <2>1, <3>1, PlaceTypeOK DEF Pass1Org
  <2> QED BY <2>2, <2>3
<1>3. CASE Pass1Code
  <2>1. i \in DOMAIN prog /\ prog[i].kind # "label"
    BY <1>3 DEF Pass1Code, At, IsDir
  <2>2. ItemSize(prog[i]) \in Nat /\ MeasuringErrors(prog[i]) \in Nat
    BY <2>1, ItemAtHand, ItemSizeType, MeasuringErrorsType
  <2>3. addr + ItemSize(prog[i]) \in Nat
    BY <2>2 DEF TypeOK
  <2> QED BY <1>3, <2>1, <2>2, <2>3, PlaceTypeOK DEF Pass1Code
<1>4. CASE EndPass1
  BY <1>4 DEF EndPass1, TypeOK, NoItem
<1>5. CASE Pass2Skip
  <2>1. i \in DOMAIN prog
    BY <1>5 DEF Pass2Skip, At
  <2>2. i \in 1 .. Len(prog) /\ i + 1 \in 1 .. Len(prog) + 1
    BY <2>1, ItemAtHand
  <2> QED BY <1>5, <2>2 DEF Pass2Skip, TypeOK
<1>6. CASE Pass2Instr
  <2>1. i \in DOMAIN prog /\ prog[i].kind = "instr"
    BY <1>6 DEF Pass2Instr, At
  <2>2. prog[i] \in InstrItem
    BY <2>1, ItemAtHand, ItemFacts
  <2>3. ASSUME NEW v, IsValid(prog[i]) PROVE Len(Encoding(prog[i], v)) \in Nat
    BY <2>2, <2>3, EncodingLength, InstrSizeType
  <2>4. Len(<<>>) \in Nat
    OBVIOUS
  <2> DEFINE op == ImmOperand(prog[i])
  <2>5. CASE ~IsValid(prog[i])
    <3>1. Emit(<<>>, 0)
      BY <1>6, <2>5 DEF Pass2Instr
    <3> QED BY <2>1, <2>4, <3>1, EmitTypeOK
  <2>6. CASE IsValid(prog[i]) /\ op = NoOperand
    <3>1. Emit(Encoding(prog[i], StepImmediate), 0)
      BY <1>6, <2>6 DEF Pass2Instr
    <3>2. Len(Encoding(prog[i], StepImmediate)) \in Nat
      BY <2>3, <2>6
    <3> QED BY <2>1, <3>1, <3>2, EmitTypeOK
  <2>7. CASE IsValid(prog[i]) /\ op # NoOperand /\ Resolves(op)
    <3>1. Emit(Encoding(prog[i], ValueOf(op)), 0)
      BY <1>6, <2>7 DEF Pass2Instr
    <3>2. Len(Encoding(prog[i], ValueOf(op))) \in Nat
      BY <2>3, <2>7
    <3> QED BY <2>1, <3>1, <3>2, EmitTypeOK
  <2>8. CASE IsValid(prog[i]) /\ op # NoOperand /\ ~Resolves(op)
    <3>1. Emit(<<>>, 0) \/ Emit(<<>>, 1)
      BY <1>6, <2>8 DEF Pass2Instr
    <3> QED BY <2>1, <2>4, <3>1, EmitTypeOK
  <2> QED BY <2>5, <2>6, <2>7, <2>8
<1>7. CASE Pass2Data
  <2> DEFINE ops  == prog[i].operands
             bad  == {k \in DOMAIN ops : ~Resolves(ops[k])}
             n    == Before(ops, bad)
             vals == [k \in 1 .. n |-> ValueOf(ops[k])]
             trytes == DataTrytes(ElementSize(prog[i].dir), vals)
  <2>1. i \in DOMAIN prog /\ prog[i].kind = "directive" /\ prog[i].dir \in DataDirs
    BY <1>7 DEF Pass2Data, At, IsDir
  <2>2. ops \in Seq(Operand)
    BY <2>1, ItemAtHand
  <2>3. n \in Nat
    BY <2>2, BeforeType
  <2>4. Len(trytes) \in Nat
    BY <2>1, <2>3, ElementSizeType, DataTrytesLength
  <2>5. \E e \in {0, 1} : Emit(trytes, e)
    BY <1>7 DEF Pass2Data
  <2> QED BY <2>1, <2>4, <2>5, EmitTypeOK
<1>8. CASE Pass2String
  <2> DEFINE ops == prog[i].operands
             n   == Before(ops, BadStrings(prog[i]))
  <2>1. i \in DOMAIN prog /\ prog[i].kind = "directive"
    BY <1>8 DEF Pass2String, At, IsDir
  <2>2. ops \in Seq(Operand) /\ BadStrings(prog[i]) \in SUBSET DOMAIN ops
    BY <2>1, ItemAtHand, BadStringsType
  <2>3. Len(StringTrytes(ops, n)) \in Nat
    BY <2>2, BeforeType, StringTrytesLength
  <2>4. \E e \in {0, 1} : Emit(StringTrytes(ops, n), e)
    BY <1>8 DEF Pass2String
  <2> QED BY <2>1, <2>3, <2>4, EmitTypeOK
<1>9. CASE Pass2Unsupported
  <2>1. i \in DOMAIN prog /\ Emit(<<>>, 1)
    BY <1>9 DEF Pass2Unsupported, At
  <2>2. Len(<<>>) \in Nat
    OBVIOUS
  <2> QED BY <2>1, <2>2, EmitTypeOK
<1>10. CASE EndPass2
  BY <1>10 DEF EndPass2, TypeOK
<1>11. CASE UNCHANGED vars
  BY <1>11 DEF vars, TypeOK
<1> QED BY <1>1, <1>2, <1>3, <1>4, <1>5, <1>6, <1>7, <1>8, <1>9, <1>10, <1>11 DEF Next

\* The types of the raw back end's state: whatever the program, what pass 2
\* stores goes to an address and what it reads was set by pass 1.
THEOREM RawTypeOK == Spec => []TypeOK
BY InitTypeOK, NextTypeOK, PTL DEF Spec

-----------------------------------------------------------------------------
(* Stores *)

\* Elements before the first that does not resolve fit the space of all.
LEMMA DataFits ==
  ASSUME NEW item \in Item, IsDir(item, DataDirs), NEW n \in 0 .. Len(item.operands)
  PROVE  ElementSize(item.dir) * n <= ItemSize(item)
<1>1. Len(item.operands) \in Nat /\ item.dir \in DataDirs /\ item.kind = "directive"
  BY ItemFacts DEF IsDir
<1>2. ItemSize(item) = ElementSize(item.dir) * Len(item.operands)
  BY <1>1 DEF ItemSize, DirSize
<1>3. ElementSize(item.dir) \in {1, 2, 4, 8}
  BY <1>1, ElementSizeType
<1> QED BY <1>1, <1>2, <1>3

\* Strings before the first that does not decode fit the space of all.
LEMMA StringsFit ==
  ASSUME NEW item \in Item, IsDir(item, {"string"}), NEW n \in 0 .. Len(item.operands)
  PROVE  StringStart(item.operands, n + 1) <= ItemSize(item)
<1>1. item.operands \in Seq(Operand) /\ item.dir = "string" /\ item.kind = "directive"
  BY ItemFacts DEF IsDir
<1>2. n + 1 \in 1 .. Len(item.operands) + 1
  BY <1>1
<1>3. ItemSize(item) = StringStart(item.operands, Len(item.operands) + 1)
  BY <1>1 DEF ItemSize, DirSize, DataDirs
<1> QED BY <1>1, <1>2, <1>3, StringStartMonotone

\* What StoresStayInExtent says of a step.
StaysInExtent ==
  \A x \in DOMAIN mem' : x \in Extent(i) \/ (x \in DOMAIN mem /\ mem'[x] = mem[x])

\* A turn of pass 2 stays in the space of its item if what it stores is not longer.
LEMMA EmitStays ==
  ASSUME TypeOK, i \in DOMAIN prog, NEW trytes, NEW n, Emit(trytes, n),
         Len(trytes) \in Nat, Len(trytes) <= ItemSize(prog[i])
  PROVE  StaysInExtent
<1> DEFINE a == addrs[i]
           w == a .. a + Len(trytes) - 1
<1>1. a \in Nat /\ ItemSize(prog[i]) \in Nat
  BY ItemAtHand, ItemSizeType
<1>2. w \subseteq Extent(i)
  BY <1>1 DEF Extent
<1>3. mem' = [x \in DOMAIN mem \union w |-> IF x \in w THEN trytes[x - a + 1] ELSE mem[x]]
  BY DEF Emit, Store
<1> HIDE DEF a, w
<1> QED BY <1>2, <1>3 DEF StaysInExtent

\* Every branch of pass 2 stores no more than pass 1 has reserved.
LEMMA NextStays ==
  ASSUME TypeOK, Next, phase = "pass2", mem' # mem
  PROVE  StaysInExtent
<1>1. CASE Pass2Instr
  <2>1. i \in DOMAIN prog /\ prog[i].kind = "instr"
    BY <1>1 DEF Pass2Instr, At
  <2>2. prog[i] \in InstrItem /\ ItemSize(prog[i]) = InstrSize(prog[i])
    BY <2>1, ItemAtHand, ItemFacts DEF ItemSize
  <2>3. InstrSize(prog[i]) \in Nat
    BY <2>2, InstrSizeType
  <2>4. ASSUME NEW v, IsValid(prog[i])
        PROVE  /\ Len(Encoding(prog[i], v)) \in Nat
               /\ Len(Encoding(prog[i], v)) <= ItemSize(prog[i])
    BY <2>2, <2>3, <2>4, EncodingLength
  <2>5. Len(<<>>) \in Nat /\ Len(<<>>) <= ItemSize(prog[i])
    BY <2>2, <2>3
  <2> DEFINE op == ImmOperand(prog[i])
  <2>6. \/ Emit(<<>>, 0) \/ Emit(<<>>, 1)
        \/ IsValid(prog[i]) /\ Emit(Encoding(prog[i], StepImmediate), 0)
        \/ IsValid(prog[i]) /\ Emit(Encoding(prog[i], ValueOf(op)), 0)
    BY <1>1 DEF Pass2Instr
  <2>7. CASE Emit(<<>>, 0) \/ Emit(<<>>, 1)
    BY <2>1, <2>5, <2>7, EmitStays
  <2>8. CASE IsValid(prog[i]) /\ Emit(Encoding(prog[i], StepImmediate), 0)
    <3>1. /\ Len(Encoding(prog[i], StepImmediate)) \in Nat
          /\ Len(Encoding(prog[i], StepImmediate)) <= ItemSize(prog[i])
      BY <2>4, <2>8
    <3> QED BY <2>1, <2>8, <3>1, EmitStays
  <2>9. CASE IsValid(prog[i]) /\ Emit(Encoding(prog[i], ValueOf(op)), 0)
    <3>1. /\ Len(Encoding(prog[i], ValueOf(op))) \in Nat
          /\ Len(Encoding(prog[i], ValueOf(op))) <= ItemSize(prog[i])
      BY <2>4, <2>9
    <3> QED BY <2>1, <2>9, <3>1, EmitStays
  <2> QED BY <2>6, <2>7, <2>8, <2>9
<1>2. CASE Pass2Data
  <2> DEFINE ops  == prog[i].operands
             bad  == {k \in DOMAIN ops : ~Resolves(ops[k])}
             n    == Before(ops, bad)
             vals == [k \in 1 .. n |-> ValueOf(ops[k])]
             trytes == DataTrytes(ElementSize(prog[i].dir), vals)
  <2>1. i \in DOMAIN prog /\ prog[i].kind = "directive" /\ prog[i].dir \in DataDirs
    BY <1>2 DEF Pass2Data, At, IsDir
  <2>2. prog[i] \in Item /\ ops \in Seq(Operand)
    BY <2>1, ItemAtHand
  <2>3. n \in 0 .. Len(ops) /\ n \in Nat
    BY <2>2, BeforeType
  <2>4. Len(trytes) = ElementSize(prog[i].dir) * n /\ Len(trytes) \in Nat
    <3>1. vals = [k \in 1 .. n |-> vals[k]]
      OBVIOUS
    <3>2. ElementSize(prog[i].dir) \in {1, 2, 4, 8}
      BY <2>1, ElementSizeType
    <3> HIDE DEF n, vals
    <3> QED BY <2>3, <3>1, <3>2, DataTrytesLength
  <2>5. Len(trytes) <= ItemSize(prog[i])
    BY <2>1, <2>2, <2>3, <2>4, DataFits DEF IsDir
  <2>6. \E e \in {0, 1} : Emit(trytes, e)
    BY <1>2 DEF Pass2Data
  <2> QED BY <2>1, <2>4, <2>5, <2>6, EmitStays
<1>3. CASE Pass2String
  <2> DEFINE ops == prog[i].operands
             n   == Before(ops, BadStrings(prog[i]))
  <2>1. i \in DOMAIN prog /\ IsDir(prog[i], {"string"}) /\ prog[i].kind = "directive"
    BY <1>3 DEF Pass2String, At, IsDir
  <2>2. /\ prog[i] \in Item /\ ops \in Seq(Operand)
        /\ BadStrings(prog[i]) \in SUBSET DOMAIN ops
    BY <2>1, ItemAtHand, BadStringsType
  <2>3. n \in 0 .. Len(ops)
    BY <2>2, BeforeType
  <2>4. /\ Len(StringTrytes(ops, n)) \in Nat
        /\ Len(StringTrytes(ops, n)) <= ItemSize(prog[i])
    BY <2>1, <2>2, <2>3, StringTrytesLength, StringsFit
  <2>5. \E e \in {0, 1} : Emit(StringTrytes(ops, n), e)
    BY <1>3 DEF Pass2String
  <2> QED BY <2>1, <2>4, <2>5, EmitStays
<1>4. CASE Pass2Unsupported
  <2>1. i \in DOMAIN prog /\ Emit(<<>>, 1)
    BY <1>4 DEF Pass2Unsupported, At
  <2>2. ItemSize(prog[i]) \in Nat
    BY <2>1, ItemAtHand, ItemSizeType
  <2>3. Len(<<>>) \in Nat /\ Len(<<>>) <= ItemSize(prog[i])
    BY <2>2
  <2> QED BY <2>1, <2>3, EmitStays
<1>5. CASE Pass2Skip \/ EndPass2
  BY <1>5 DEF Pass2Skip, EndPass2
<1>6. CASE Pass1Label \/ Pass1Org \/ Pass1Code \/ EndPass1
  BY <1>6 DEF Pass1Label, Pass1Org, Pass1Code, EndPass1, At
<1> QED BY <1>1, <1>2, <1>3, <1>4, <1>5, <1>6 DEF Next

\* No store of pass 2 leaves the space pass 1 has reserved for its item: an
\* instruction, element or string never runs into what follows it.
THEOREM RawStoresStayInExtent == Spec => StoresStayInExtent
<1>1. TypeOK /\ [Next]_vars =>
        [phase = "pass2" /\ mem' # mem =>
           \A x \in DOMAIN mem' :
             x \in Extent(i) \/ (x \in DOMAIN mem /\ mem'[x] = mem[x])]_vars
  BY NextStays DEF StaysInExtent
<1> QED BY <1>1, RawTypeOK, PTL DEF Spec, StoresStayInExtent
-----------------------------------------------------------------------------
(* Layout *)

\* The first n items lie one after another, and end is where the last one
\* ends, except that what follows an %org may lie anywhere.
Packed(p, f, n, end) ==
  \A j \in 1 .. n :
    ~IsDir(p[j], {"org"}) => f[j] + ItemSize(p[j]) = IF j = n THEN end ELSE f[j + 1]

\* The items that pass 2 has been at.
Emitted == IF phase = "pass1" THEN 0 ELSE i - 1

LayoutInv ==
  /\ TypeOK
  /\ phase = "pass1" => Packed(prog, addrs, i - 1, addr)
  /\ phase \in {"pass2", "done"} => Packed(prog, addrs, Len(prog), size)
  /\ \A x \in DOMAIN mem : \E j \in 1 .. Emitted : x \in Extent(j)

\* A function that does not decrease from one argument to the next does not
\* decrease.
LEMMA Ascending ==
  ASSUME NEW n \in Nat, NEW f, \A j \in 1 .. n + 1 : f[j] \in Nat,
         NEW from \in 1 .. n + 1, \A j \in from .. n : f[j] <= f[j + 1]
  PROVE  \A k \in from .. n + 1 : f[from] <= f[k]
<1> DEFINE S == {k \in from .. n + 1 : ~(f[from] <= f[k])}
<1> SUFFICES ASSUME S # {} PROVE FALSE
  OBVIOUS
<1>1. S \in SUBSET Nat
  OBVIOUS
<1>2. PICK k \in S : \A l \in S : k <= l
  <2> HIDE DEF S
  <2> QED BY <1>1, LeastExists
<1>3. k \in from .. n + 1 /\ k # from /\ ~(f[from] <= f[k])
  BY <1>2
<1>4. k - 1 \in from .. n /\ (k - 1) + 1 = k
  BY <1>3
<1>5. k - 1 \notin S
  <2> HIDE DEF S
  <2> QED BY <1>2, <1>4
<1>6. f[from] <= f[k - 1] /\ f[k - 1] <= f[k]
  BY <1>4, <1>5
<1> QED BY <1>3, <1>4, <1>6

\* An %org takes no space itself.
LEMMA OrgIsEmpty ==
  ASSUME NEW item, IsDir(item, {"org"})
  PROVE  ItemSize(item) = 0
BY DEF IsDir, ItemSize, DirSize, DataDirs

\* Whatever lies in packed order and never goes backward ends before the image does.
LEMMA ExtentsFit ==
  ASSUME TypeOK, Packed(prog, addrs, Len(prog), size), NeverBackward, NEW j \in DOMAIN prog
  PROVE  Extent(j) \subseteq 0 .. size - 1
<1> DEFINE n == Len(prog)
           f == [k \in 1 .. n + 1 |-> IF k = n + 1 THEN size ELSE addrs[k]]
<1>1. n \in Nat /\ DOMAIN prog = 1 .. n /\ size \in Nat /\ \A k \in 1 .. n : addrs[k] \in Nat
  BY DEF TypeOK
<1>2. (\A k \in 1 .. n : f[k] = addrs[k]) /\ f[n + 1] = size
  BY <1>1
<1> HIDE DEF f
<1>3. \A k \in 1 .. n + 1 : f[k] \in Nat
  BY <1>1, <1>2
<1>4. \A k \in 1 .. n : f[k] <= f[k + 1]
  <2>1. ASSUME NEW k \in 1 .. n PROVE f[k] <= f[k + 1]
    <3>1. addrs[k] <= IF k = n THEN size ELSE addrs[k + 1]
      BY <1>1 DEF NeverBackward
    <3>2. k # n => k + 1 \in 1 .. n
      <4>1. n \in Nat
        BY <1>1
      <4> HIDE DEF n
      <4> QED BY <2>1, <4>1
    <3> QED BY <3>1, <3>2, <1>2
  <2> QED BY <2>1
<1>5. j \in 1 .. n /\ ItemSize(prog[j]) \in Nat
  BY <1>1, ItemSizeType DEF TypeOK
<1>6. f[j] + ItemSize(prog[j]) <= f[j + 1]
  <2>1. CASE IsDir(prog[j], {"org"})
    <3>1. ItemSize(prog[j]) = 0 /\ f[j] \in Nat /\ f[j] <= f[j + 1]
      BY <2>1, <1>1, <1>3, <1>4, <1>5, OrgIsEmpty
    <3> QED BY <3>1
  <2>2. CASE ~IsDir(prog[j], {"org"})
    <3>1. addrs[j] + ItemSize(prog[j]) = IF j = n THEN size ELSE addrs[j + 1]
      BY <2>2, <1>5 DEF Packed
    <3>2. j # n => j + 1 \in 1 .. n
      BY <1>1, <1>5
    <3>3. f[j] + ItemSize(prog[j]) = f[j + 1]
      BY <3>1, <3>2, <1>2, <1>5
    <3>4. f[j + 1] \in Nat
      BY <1>1, <1>3, <1>5
    <3> QED BY <3>3, <3>4
  <2> QED BY <2>1, <2>2
<1>7. f[j + 1] <= size
  <2>1. j + 1 \in 1 .. n + 1 /\ n + 1 \in j + 1 .. n + 1 /\ \A k \in j + 1 .. n : f[k] <= f[k + 1]
    BY <1>1, <1>4, <1>5
  <2>2. \A k \in j + 1 .. n + 1 : f[j + 1] <= f[k]
    BY <1>1, <1>3, <2>1, Ascending
  <2> QED BY <2>1, <2>2, <1>2
<1>8. addrs[j] \in Nat /\ f[j] = addrs[j] /\ f[j + 1] \in Nat
  BY <1>1, <1>2, <1>3, <1>5
<1> QED BY <1>1, <1>5, <1>6, <1>7, <1>8 DEF Extent

\* Without %org, an item starts behind the space of every earlier one.
LEMMA ExtentsApart ==
  ASSUME TypeOK, Packed(prog, addrs, Len(prog), size),
         \A k \in DOMAIN prog : ~IsDir(prog[k], {"org"}),
         NEW j \in DOMAIN prog, NEW k \in DOMAIN prog, j < k
  PROVE  Extent(j) \cap Extent(k) = {}
<1> DEFINE n == Len(prog)
           ends(l) == addrs[l] + ItemSize(prog[l])
<1>1. n \in Nat /\ DOMAIN prog = 1 .. n
  BY DEF TypeOK
<1>2. ASSUME NEW l \in 1 .. n
      PROVE  addrs[l] \in Nat /\ ItemSize(prog[l]) \in Nat /\ (l # n => ends(l) = addrs[l + 1])
  <2>1. addrs[l] \in Nat /\ prog[l] \in Item
    <3>1. l \in DOMAIN prog
      BY <1>1, <1>2
    <3> QED BY <3>1 DEF TypeOK
  <2>2. ItemSize(prog[l]) \in Nat
    BY <2>1, ItemSizeType
  <2>3. l # n => ends(l) = addrs[l + 1]
    BY <1>1, <1>2 DEF Packed
  <2> QED BY <2>1, <2>2, <2>3
<1> HIDE DEF n
<1>3. ASSUME NEW l \in 1 .. n - 1 PROVE addrs[l] <= addrs[l + 1]
  <2>1. l \in 1 .. n /\ l # n
    BY <1>1
  <2> QED BY <2>1, <1>2
<1>4. j \in 1 .. n /\ k \in 1 .. n /\ j # n /\ j + 1 \in 1 .. n /\ k \in j + 1 .. n
  BY <1>1
<1>5. addrs[j + 1] <= addrs[k]
  <2> DEFINE m == n - 1
  <2>1. m \in Nat /\ m + 1 = n
    BY <1>1, <1>4
  <2>2. \A l \in 1 .. m + 1 : addrs[l] \in Nat
    BY <2>1, <1>2
  <2>3. \A l \in j + 1 .. m : addrs[l] <= addrs[l + 1]
    BY <1>3, <1>4
  <2> HIDE DEF m
  <2>4. \A l \in j + 1 .. m + 1 : addrs[j + 1] <= addrs[l]
    BY <1>4, <2>1, <2>2, <2>3, Ascending
  <2> QED BY <2>1, <2>4, <1>4
<1>6. addrs[j] + ItemSize(prog[j]) = addrs[j + 1]
  BY <1>2, <1>4
<1>7. /\ addrs[j] \in Nat /\ addrs[j + 1] \in Nat /\ addrs[k] \in Nat
      /\ ItemSize(prog[j]) \in Nat /\ ItemSize(prog[k]) \in Nat
  BY <1>2, <1>4
<1> QED BY <1>5, <1>6, <1>7, SMTT(30) DEF Extent

\* Stores are added to what has been stored.
LEMMA EmitAdds ==
  ASSUME NEW trytes, NEW n, Emit(trytes, n)
  PROVE  DOMAIN mem \subseteq DOMAIN mem'
BY DEF Emit, Store

LEMMA InitLayout == Init => LayoutInv
<1> SUFFICES ASSUME Init PROVE LayoutInv
  OBVIOUS
<1>1. DOMAIN mem = {} /\ Packed(prog, addrs, 0, 0) /\ i = 1 /\ addr = 0 /\ phase = "pass1"
  BY DEF Init, Packed
<1> QED BY <1>1, InitTypeOK DEF LayoutInv

\* A turn of pass 1 packs one more item, if next is where the item ends.
LEMMA PlaceLayout ==
  ASSUME LayoutInv, TypeOK', At("pass1"), NEW next, Place(next),
         ~IsDir(prog[i], {"org"}) => next = addr + ItemSize(prog[i])
  PROVE  LayoutInv'
<1>1. /\ i \in DOMAIN prog /\ phase = "pass1" /\ Packed(prog, addrs, i - 1, addr)
      /\ Emitted = 0 /\ Emitted' = 0 /\ i' = i + 1
      /\ UNCHANGED <<prog, phase, size, mem>>
      /\ addrs' = [addrs EXCEPT ![i] = addr] /\ addr' = next
  BY DEF LayoutInv, At, Place, Emitted
<1>2. i \in 1 .. Len(prog) /\ Len(prog) \in Nat /\ DOMAIN addrs = 1 .. Len(prog)
  <2>1. prog \in Seq(Item) /\ addrs \in [DOMAIN prog -> Nat]
    BY DEF LayoutInv, TypeOK
  <2>2. DOMAIN prog = 1 .. Len(prog) /\ Len(prog) \in Nat
    BY <2>1
  <2> QED BY <2>1, <2>2, <1>1
<1>3. DOMAIN mem = {}
  BY <1>1 DEF LayoutInv
<1>4. Packed(prog, addrs', i, next)
  <2> SUFFICES ASSUME NEW j \in 1 .. i, ~IsDir(prog[j], {"org"})
               PROVE  addrs'[j] + ItemSize(prog[j]) = IF j = i THEN next ELSE addrs'[j + 1]
    BY DEF Packed
  <2>1. CASE j = i
    BY <1>1, <1>2, <2>1
  <2>2. CASE j # i
    <3>1. j \in 1 .. i - 1
      BY <1>2, <2>2
    <3>2. addrs[j] + ItemSize(prog[j]) = IF j = i - 1 THEN addr ELSE addrs[j + 1]
      BY <1>1, <3>1 DEF Packed
    <3>3. addrs'[j] = addrs[j] /\ addrs'[j + 1] = IF j = i - 1 THEN addr ELSE addrs[j + 1]
      BY <1>1, <1>2, <3>1
    <3> QED BY <2>2, <3>2, <3>3
  <2> QED BY <2>1, <2>2
<1>5. i' - 1 = i
  BY <1>1, <1>2
<1> QED BY <1>1, <1>3, <1>4, <1>5 DEF LayoutInv

\* A turn of pass 2 stores in the space of one more item.
LEMMA StoreLayout ==
  ASSUME LayoutInv, TypeOK', phase = "pass2", i \in DOMAIN prog, i' = i + 1,
         UNCHANGED <<prog, phase, addrs, size>>, StaysInExtent
  PROVE  LayoutInv'
<1>1. i \in 1 .. Len(prog) /\ Emitted = i - 1 /\ Emitted' = i
  <2>1. prog \in Seq(Item)
    BY DEF LayoutInv, TypeOK
  <2>2. i \in 1 .. Len(prog) /\ Len(prog) \in Nat
    BY <2>1
  <2>3. Emitted = i - 1 /\ Emitted' = i' - 1
    BY DEF Emitted
  <2> QED BY <2>2, <2>3
<1>2. \A j : Extent(j)' = Extent(j)
  BY DEF Extent
<1>3. ASSUME NEW x \in DOMAIN mem' PROVE \E j \in 1 .. Emitted' : x \in Extent(j)'
  <2>1. CASE x \in Extent(i)
    BY <1>1, <1>2, <2>1
  <2>2. CASE x \in DOMAIN mem
    <3>1. PICK j \in 1 .. Emitted : x \in Extent(j)
      BY <2>2 DEF LayoutInv
    <3> QED BY <1>1, <1>2, <3>1
  <2> QED BY <2>1, <2>2 DEF StaysInExtent
<1> QED BY <1>3 DEF LayoutInv

LEMMA StepLayout == LayoutInv /\ [Next]_vars => LayoutInv'
<1> SUFFICES ASSUME LayoutInv, [Next]_vars PROVE LayoutInv'
  OBVIOUS
<1>1. TypeOK /\ TypeOK'
  BY NextTypeOK DEF LayoutInv
<1>2. CASE Pass1Label
  <2>1. At("pass1") /\ Place(addr) /\ prog[i].kind = "label" /\ addr \in Nat
    BY <1>1, <1>2 DEF Pass1Label, TypeOK
  <2>2. ItemSize(prog[i]) = 0
    BY <2>1 DEF ItemSize
  <2> QED BY <1>1, <2>1, <2>2, PlaceLayout
<1>3. CASE Pass1Org
  <2>1. At("pass1") /\ IsDir(prog[i], {"org"}) /\ \E next : Place(next)
    BY <1>3 DEF Pass1Org
  <2> QED BY <1>1, <2>1, PlaceLayout
<1>4. CASE Pass1Code
  BY <1>1, <1>4, PlaceLayout DEF Pass1Code
<1>5. CASE EndPass1
  <2>1. /\ phase = "pass1" /\ phase' \in {"pass2", "failed"} /\ i = Len(prog) + 1 /\ i' = 1
        /\ Len(prog) \in Nat /\ size' = addr /\ UNCHANGED <<prog, addrs, mem>>
    BY <1>1, <1>5 DEF EndPass1, TypeOK
  <2>2. Packed(prog, addrs, Len(prog), addr)
    BY <2>1, i - 1 = Len(prog) DEF LayoutInv
  <2>3. DOMAIN mem = {}
    <3>1. Emitted = 0
      BY <2>1 DEF Emitted
    <3> QED BY <3>1 DEF LayoutInv
  <2> QED BY <1>1, <2>1, <2>2, <2>3 DEF LayoutInv
<1>6. CASE Pass2Skip \/ Pass2Instr \/ Pass2Data \/ Pass2String \/ Pass2Unsupported
  <2>1. /\ phase = "pass2" /\ i \in DOMAIN prog /\ i' = i + 1
        /\ UNCHANGED <<prog, phase, addrs, size>>
    BY <1>6 DEF Pass2Skip, Pass2Instr, Pass2Data, Pass2String, Pass2Unsupported, Emit, At
  <2>2. StaysInExtent
    <3>1. CASE mem' = mem
      BY <3>1 DEF StaysInExtent
    <3>2. CASE mem' # mem
      BY <1>1, <1>6, <2>1, <3>2, NextStays DEF Next
    <3> QED BY <3>1, <3>2
  <2> QED BY <1>1, <2>1, <2>2, StoreLayout
<1>7. CASE EndPass2
  BY <1>1, <1>7 DEF EndPass2, LayoutInv, Emitted, Extent
<1>8. CASE UNCHANGED vars
  BY <1>1, <1>8 DEF vars, LayoutInv, Emitted, Extent
<1> QED BY <1>2, <1>3, <1>4, <1>5, <1>6, <1>7, <1>8 DEF Next

\* What has been stored lies in the extents of items, which all lie in an image
\* that only grew while it was laid out.
THEOREM RawStoresFitImage == Spec => []StoresFitImage
<1>1. LayoutInv => StoresFitImage
  <2> SUFFICES ASSUME LayoutInv, phase \in {"pass2", "done"}, NeverBackward, NEW x \in DOMAIN mem
               PROVE  x \in 0 .. size - 1
    BY DEF StoresFitImage
  <2>1. PICK j \in 1 .. Emitted : x \in Extent(j)
    BY DEF LayoutInv
  <2>2. j \in DOMAIN prog
    BY DEF LayoutInv, TypeOK, Emitted
  <2> QED BY <2>1, <2>2, ExtentsFit DEF LayoutInv
<1> QED BY <1>1, InitLayout, StepLayout, PTL DEF Spec

\* Without %org the extents of items lie apart, so that a store that stays in
\* its own never meets another.
THEOREM RawNothingOverwritten == Spec => NothingOverwritten
<1>1. ASSUME LayoutInv, [Next]_vars, \A j \in DOMAIN prog : ~IsDir(prog[j], {"org"}),
             NEW x \in DOMAIN mem
      PROVE  x \in DOMAIN mem' /\ mem'[x] = mem[x]
  <2>1. CASE mem' = mem
    BY <2>1
  <2>2. CASE mem' # mem
    <3>1. Next /\ phase = "pass2" /\ i \in DOMAIN prog /\ DOMAIN mem \subseteq DOMAIN mem'
      <4>1. CASE Pass2Instr \/ Pass2Data \/ Pass2String \/ Pass2Unsupported
        <5>1. \E trytes, n : Emit(trytes, n)
          BY <4>1 DEF Pass2Instr, Pass2Data, Pass2String, Pass2Unsupported
        <5> QED BY <4>1, <5>1, EmitAdds
                DEF Next, Pass2Instr, Pass2Data, Pass2String, Pass2Unsupported, At
      <4> QED BY <1>1, <2>2, <4>1
              DEF Next, Pass1Label, Pass1Org, Pass1Code, EndPass1, Pass2Skip, EndPass2, Place, vars
    <3>2. x \in Extent(i) \/ mem'[x] = mem[x]
      BY <1>1, <2>2, <3>1, NextStays DEF LayoutInv, StaysInExtent
    <3>3. PICK j \in 1 .. i - 1 : x \in Extent(j)
      BY <1>1, <3>1 DEF LayoutInv, Emitted
    <3>4. j \in DOMAIN prog /\ j < i
      BY <1>1, <3>1 DEF LayoutInv, TypeOK
    <3>5. Extent(j) \cap Extent(i) = {}
      BY <1>1, <3>1, <3>4, ExtentsApart DEF LayoutInv
    <3> QED BY <3>1, <3>2, <3>3, <3>5
  <2> QED BY <2>1, <2>2
<1>2. LayoutInv /\ [Next]_vars =>
        [(\A j \in DOMAIN prog : ~IsDir(prog[j], {"org"})) =>
           \A x \in DOMAIN mem : x \in DOMAIN mem' /\ mem'[x] = mem[x]]_vars
  BY <1>1
<1> QED BY <1>2, InitLayout, StepLayout, PTL DEF Spec, NothingOverwritten

-----------------------------------------------------------------------------
(* Diagnostics *)

\* What pass 1 reports of an instruction, once it has been there.
Rejections(item) == IF InstrFormat(item) = "rejected" THEN 1 ELSE 0

DiagsInv ==
  /\ TypeOK
  /\ \A j \in DOMAIN prog : prog[j].kind = "instr" =>
       /\ phase = "pass1" => diags[j] = IF j < i THEN Rejections(prog[j]) ELSE 0
       /\ phase = "pass2" /\ j >= i => diags[j] = Rejections(prog[j])
       /\ diags[j] <= 1

LEMMA InitDiags == Init => DiagsInv
<1> SUFFICES ASSUME Init PROVE DiagsInv
  OBVIOUS
<1>1. TypeOK
  BY InitTypeOK
<1>2. \A j \in DOMAIN prog : diags[j] = 0 /\ ~(j < 1)
  BY <1>1 DEF Init, TypeOK
<1> QED BY <1>1, <1>2 DEF Init, DiagsInv

\* A turn reports of its own item only: it keeps DiagsInv if it does for that one.
LEMMA TurnDiags ==
  ASSUME DiagsInv, TypeOK', i \in DOMAIN prog, i' = i + 1, UNCHANGED <<prog, phase>>,
         phase \in {"pass1", "pass2"}, NEW n \in Nat,
         (n = 0 /\ diags' = diags) \/ diags' = [diags EXCEPT ![i] = @ + n],
         prog[i].kind = "instr" => IF phase = "pass1" THEN n = Rejections(prog[i])
                                   ELSE Rejections(prog[i]) + n <= 1
  PROVE  DiagsInv'
<1> SUFFICES ASSUME NEW j \in DOMAIN prog, prog[j].kind = "instr"
             PROVE  /\ phase = "pass1" => diags'[j] = IF j < i + 1 THEN Rejections(prog[j]) ELSE 0
                    /\ phase = "pass2" /\ j >= i + 1 => diags'[j] = Rejections(prog[j])
                    /\ diags'[j] <= 1
  BY DEF DiagsInv
<1>1. i \in Nat /\ j \in Nat /\ diags[j] \in Nat /\ DOMAIN diags = DOMAIN prog
      /\ Rejections(prog[j]) \in {0, 1}
  <2>1. prog \in Seq(Item) /\ diags \in [DOMAIN prog -> Nat]
    BY DEF DiagsInv, TypeOK
  <2>2. DOMAIN prog \subseteq Nat
    BY <2>1
  <2> QED BY <2>1, <2>2 DEF Rejections
<1>2. /\ phase = "pass1" => diags[j] = IF j < i THEN Rejections(prog[j]) ELSE 0
      /\ phase = "pass2" /\ j >= i => diags[j] = Rejections(prog[j])
      /\ diags[j] <= 1
  BY DEF DiagsInv
<1>3. CASE j = i
  <2>1. diags'[j] = diags[j] + n
    BY <1>1, <1>3
  <2> QED BY <1>1, <1>2, <1>3, <2>1
<1>4. CASE j # i
  <2>1. diags'[j] = diags[j]
    BY <1>1, <1>4
  <2>2. (j < i + 1 <=> j < i) /\ (j >= i + 1 => j >= i)
    BY <1>1, <1>4
  <2> QED BY <1>2, <2>1, <2>2
<1> QED BY <1>3, <1>4

LEMMA StepDiags == DiagsInv /\ [Next]_vars => DiagsInv'
<1> SUFFICES ASSUME DiagsInv, [Next]_vars PROVE DiagsInv'
  OBVIOUS
<1>1. TypeOK /\ TypeOK'
  BY NextTypeOK DEF DiagsInv
<1>2. CASE Pass1Label
  <2>1. /\ phase = "pass1" /\ i \in DOMAIN prog /\ prog[i].kind = "label"
        /\ i' = i + 1 /\ UNCHANGED <<prog, phase, diags>>
    BY <1>2 DEF Pass1Label, Place, At
  <2> QED BY <1>1, <2>1, TurnDiags
<1>3. CASE Pass1Org
  <2>1. /\ phase = "pass1" /\ i \in DOMAIN prog /\ prog[i].kind # "instr"
        /\ i' = i + 1 /\ UNCHANGED <<prog, phase>>
        /\ \E n \in {0, 1} : diags' = [diags EXCEPT ![i] = @ + n]
    BY <1>3 DEF Pass1Org, Place, At, IsDir, Report
  <2> QED BY <1>1, <2>1, TurnDiags
<1>4. CASE Pass1Code
  <2>1. /\ phase = "pass1" /\ i \in DOMAIN prog /\ prog[i].kind # "label"
        /\ i' = i + 1 /\ UNCHANGED <<prog, phase>>
        /\ diags' = [diags EXCEPT ![i] = @ + MeasuringErrors(prog[i])]
    BY <1>4 DEF Pass1Code, Place, At, IsDir, Report
  <2>2. MeasuringErrors(prog[i]) \in Nat
    BY <1>1, <2>1, ItemAtHand, MeasuringErrorsType
  <2>3. prog[i].kind = "instr" => MeasuringErrors(prog[i]) = Rejections(prog[i])
    BY DEF MeasuringErrors, Rejections
  <2> QED BY <1>1, <2>1, <2>2, <2>3, TurnDiags
<1>5. CASE EndPass1
  <2>1. /\ phase = "pass1" /\ phase' \in {"pass2", "failed"} /\ i \notin DOMAIN prog /\ i' = 1
        /\ UNCHANGED <<prog, diags>>
    BY <1>5 DEF EndPass1
  <2>2. \A j \in DOMAIN prog : j < i
    BY <1>1, <2>1, SMTT(30) DEF TypeOK
  <2> QED BY <1>1, <2>1, <2>2 DEF DiagsInv
<1>6. CASE Pass2Skip
  <2>1. /\ phase = "pass2" /\ i \in DOMAIN prog /\ prog[i].kind # "instr"
        /\ i' = i + 1 /\ UNCHANGED <<prog, phase, diags>>
    BY <1>6 DEF Pass2Skip, At, IsDir
  <2> QED BY <1>1, <2>1, TurnDiags
<1>7. CASE Pass2Data \/ Pass2String \/ Pass2Unsupported
  <2>1. /\ phase = "pass2" /\ i \in DOMAIN prog /\ prog[i].kind # "instr"
        /\ i' = i + 1 /\ UNCHANGED <<prog, phase>>
        /\ \E n \in {0, 1} : diags' = [diags EXCEPT ![i] = @ + n]
    BY <1>7 DEF Pass2Data, Pass2String, Pass2Unsupported, Emit, At, IsDir, Report
  <2> QED BY <1>1, <2>1, TurnDiags
<1>8. CASE Pass2Instr
  <2>1. /\ phase = "pass2" /\ i \in DOMAIN prog
        /\ i' = i + 1 /\ UNCHANGED <<prog, phase>>
        /\ \E n \in {0, 1} : /\ diags' = [diags EXCEPT ![i] = @ + n]
                             /\ n = 0 \/ IsValid(prog[i])
    BY <1>8 DEF Pass2Instr, Emit, At, Report
  <2>2. Rejections(prog[i]) \in {0, 1} /\ (IsValid(prog[i]) => Rejections(prog[i]) = 0)
    BY DEF IsValid, Rejections, Formats
  <2>3. PICK n \in {0, 1} : diags' = [diags EXCEPT ![i] = @ + n] /\ (n = 0 \/ IsValid(prog[i]))
    BY <2>1
  <2>4. n \in Nat /\ Rejections(prog[i]) + n <= 1 /\ phase # "pass1" /\ phase \in {"pass1", "pass2"}
    BY <2>1, <2>2, <2>3
  <2> QED BY <1>1, <2>1, <2>3, <2>4, TurnDiags
<1>9. CASE EndPass2
  BY <1>1, <1>9 DEF EndPass2, DiagsInv
<1>10. CASE UNCHANGED vars
  BY <1>1, <1>10 DEF vars, DiagsInv
<1> QED BY <1>2, <1>3, <1>4, <1>5, <1>6, <1>7, <1>8, <1>9, <1>10 DEF Next

\* An instruction that validation rejects is reported by pass 1 and skipped by
\* pass 2; of any other, only a label that is not found is reported.
THEOREM RawInstrDiagnosedOnce == Spec => []InstrDiagnosedOnce
<1>1. DiagsInv => InstrDiagnosedOnce
  BY DEF DiagsInv, InstrDiagnosedOnce
<1> QED BY <1>1, InitDiags, StepDiags, PTL DEF Spec

-----------------------------------------------------------------------------
(* Gaps *)

\* The space of an item is filled, or there is a reason for the gap.
Accounted(j) ==
  Extent(j) \subseteq DOMAIN mem \/ diags[j] > 0 \/ HasValuelessOperand(prog[j])

\* Pass 2 can account for the items it has been at.
GapsInv ==
  /\ TypeOK
  /\ phase = "pass2" => \A j \in DOMAIN prog : j < i => Accounted(j)
  /\ phase = "done" => \A j \in DOMAIN prog : Accounted(j)

\* Errors are only ever added.
LEMMA ReportAdds ==
  ASSUME TypeOK, NEW n \in Nat, diags' = [diags EXCEPT ![i] = @ + n],
         NEW j \in DOMAIN prog
  PROVE  /\ diags'[j] >= diags[j]
         /\ j = i => diags'[j] >= n
<1>1. DOMAIN diags = DOMAIN prog /\ diags[j] \in Nat
  BY DEF TypeOK
<1>2. CASE j = i
  BY <1>1, <1>2
<1>3. CASE j # i
  BY <1>1, <1>3
<1> QED BY <1>2, <1>3

\* A turn of pass 2 accounts for its item if it fills its space or reports it.
LEMMA EmitAccounts ==
  ASSUME GapsInv, TypeOK', At("pass2"), NEW trytes, Len(trytes) \in Nat, NEW n \in Nat,
         Emit(trytes, n),
         Len(trytes) = ItemSize(prog[i]) \/ n > 0 \/ HasValuelessOperand(prog[i])
  PROVE  GapsInv'
<1>1. /\ phase = "pass2" /\ i \in DOMAIN prog /\ i' = i + 1 /\ UNCHANGED <<prog, phase, addrs>>
      /\ diags' = [diags EXCEPT ![i] = @ + n]
      /\ mem' = Store(mem, addrs[i], trytes)
  BY DEF At, Emit, Report
<1>2. DOMAIN mem' = DOMAIN mem \union (addrs[i] .. addrs[i] + Len(trytes) - 1)
  BY <1>1 DEF Store
<1>3. ASSUME NEW j \in DOMAIN prog, j < i + 1
      PROVE  \/ addrs[j] .. addrs[j] + ItemSize(prog[j]) - 1 \subseteq DOMAIN mem'
             \/ diags'[j] > 0 \/ HasValuelessOperand(prog[j])
  <2>1. diags'[j] >= diags[j] /\ (j = i => diags'[j] >= n)
    BY <1>1, ReportAdds DEF GapsInv
  <2>2. diags[j] \in Nat /\ diags'[j] \in Nat
    BY <1>1 DEF GapsInv, TypeOK
  <2>3. CASE j = i
    <3>1. CASE Len(trytes) = ItemSize(prog[i])
      BY <1>2, <2>3, <3>1
    <3>2. CASE n > 0
      BY <2>1, <2>2, <2>3, <3>2
    <3> QED BY <2>3, <3>1, <3>2
  <2>4. CASE j # i
    <3>1. j < i
      <4>1. prog \in Seq(Item)
        BY DEF GapsInv, TypeOK
      <4>2. i \in Nat /\ j \in Nat
        BY <1>1, <4>1
      <4> QED BY <1>3, <2>4, <4>2
    <3>2. Accounted(j)
      BY <1>1, <3>1 DEF GapsInv
    <3> QED BY <1>2, <2>1, <2>2, <3>2 DEF Accounted, Extent
  <2> QED BY <2>3, <2>4
<1> QED BY <1>1, <1>3 DEF GapsInv, Accounted, Extent

\* A gap of an instruction: it was rejected or dropped, and takes no space, its
\* label was not found, or its immediate operand is a string.
LEMMA InstrAccounts ==
  ASSUME GapsInv, TypeOK', Pass2Instr
  PROVE  GapsInv'
<1> DEFINE item == prog[i]
           op == ImmOperand(item)
<1>1. At("pass2") /\ i \in DOMAIN prog /\ item.kind = "instr"
  BY DEF Pass2Instr, At
<1>2. item \in InstrItem /\ item.operands \in Seq(Operand)
      /\ ItemSize(item) = InstrSize(item) /\ InstrSize(item) \in Nat
  <2>1. item \in InstrItem /\ item.operands \in Seq(Operand)
    BY <1>1, ItemAtHand, ItemFacts DEF GapsInv
  <2>2. ItemSize(item) = InstrSize(item)
    BY <1>1 DEF ItemSize
  <2> QED BY <2>1, <2>2, InstrSizeType
<1>3. Len(<<>>) = 0 /\ 0 \in Nat /\ 1 \in Nat /\ 1 > 0
  OBVIOUS
<1>4. ASSUME NEW v, IsValid(item), Emit(Encoding(item, v), 0) PROVE GapsInv'
  <2>1. Len(Encoding(item, v)) = ItemSize(item) /\ Len(Encoding(item, v)) \in Nat
    BY <1>2, <1>4, EncodingLength
  <2> QED BY <1>1, <1>3, <1>4, <2>1, EmitAccounts
<1>5. CASE ~IsValid(item)
  <2>1. ItemSize(item) = 0
    BY <1>2, <1>5 DEF InstrSize, IsValid, Formats
  <2>2. Emit(<<>>, 0)
    BY <1>5 DEF Pass2Instr
  <2> QED BY <1>1, <1>3, <2>1, <2>2, EmitAccounts
<1>6. CASE IsValid(item) /\ op = NoOperand
  <2>1. Emit(Encoding(item, StepImmediate), 0)
    BY <1>6 DEF Pass2Instr
  <2> QED BY <1>4, <1>6, <2>1
<1>7. CASE IsValid(item) /\ op # NoOperand /\ Resolves(op)
  <2>1. Emit(Encoding(item, ValueOf(op)), 0)
    BY <1>7 DEF Pass2Instr
  <2> QED BY <1>4, <1>7, <2>1
<1>8. CASE IsValid(item) /\ op # NoOperand /\ ~Resolves(op)
  <2>1. CASE IsUndefined(op)
    <3>1. Emit(<<>>, 1)
      BY <1>8, <2>1 DEF Pass2Instr
    <3> QED BY <1>1, <1>3, <3>1, EmitAccounts
  <2>2. CASE ~IsUndefined(op)
    <3>1. Emit(<<>>, 0)
      BY <1>8, <2>2 DEF Pass2Instr
    <3>2. ~IsImm(op) /\ ~IsLabel(op)
      BY <1>8, <2>2 DEF Resolves
    <3>3. PICK k \in DOMAIN item.operands : op = item.operands[k] /\ ~IsReg(op)
      <4> DEFINE ops == item.operands
                 others == {k \in DOMAIN ops : ~IsReg(ops[k])}
      <4>1. \E k \in DOMAIN ops : others = {k} /\ op = ops[k]
        BY <1>2, <1>8, OnlyOneIsNoRegister
      <4>2. PICK k \in DOMAIN ops : others = {k} /\ op = ops[k]
        BY <4>1
      <4>3. k \in others
        BY <4>2
      <4> QED BY <4>2, <4>3
    <3>4. op.kind = "str"
      <4>1. op \in Operand
        BY <1>2, <3>3
      <4> QED BY <3>2, <3>3, <4>1, OperandFacts DEF IsReg, IsImm, IsLabel
    <3>5. HasValuelessOperand(item)
      BY <1>1, <3>3, <3>4 DEF HasValuelessOperand, IsDir
    <3> QED BY <1>1, <1>3, <3>1, <3>5, EmitAccounts
  <2> QED BY <2>1, <2>2
<1> QED BY <1>5, <1>6, <1>7, <1>8

\* A loop over operands that stops early has stopped at a bad one.
LEMMA StopsAtBad ==
  ASSUME NEW ops \in Seq(Operand), NEW bad \in SUBSET DOMAIN ops,
         Before(ops, bad) # Len(ops)
  PROVE  Before(ops, bad) < Len(ops) /\ Before(ops, bad) + 1 \in bad
<1> DEFINE m == CHOOSE k \in bad : \A l \in bad : k <= l
<1>1. DOMAIN ops = 1 .. Len(ops) /\ Len(ops) \in Nat
  OBVIOUS
<1>2. bad # {}
  BY DEF Before
<1>3. bad \in SUBSET Nat
  BY <1>1
<1>4. m \in bad
  BY <1>2, <1>3, LeastExists
<1>5. Before(ops, bad) = m - 1
  BY <1>2 DEF Before
<1> HIDE DEF m
<1> QED BY <1>1, <1>4, <1>5

\* A gap of a data directive: the label it stopped at was reported, or it
\* stopped at an operand that is no value.
LEMMA DataAccounts ==
  ASSUME GapsInv, TypeOK', Pass2Data
  PROVE  GapsInv'
<1> DEFINE item == prog[i]
           ops  == item.operands
           bad  == {k \in DOMAIN ops : ~Resolves(ops[k])}
           n    == Before(ops, bad)
           vals == [k \in 1 .. n |-> ValueOf(ops[k])]
           trytes == DataTrytes(ElementSize(item.dir), vals)
           e    == IF n < Len(ops) /\ IsUndefined(ops[n + 1]) THEN 1 ELSE 0
<1>1. /\ At("pass2") /\ i \in DOMAIN prog /\ item.kind = "directive" /\ item.dir \in DataDirs
      /\ IsDir(item, DataDirs)
  BY DEF Pass2Data, At, IsDir
<1>2. ops \in Seq(Operand) /\ Len(ops) \in Nat /\ bad \in SUBSET DOMAIN ops
  <2>1. ops \in Seq(Operand)
    BY <1>1, ItemAtHand DEF GapsInv
  <2> QED BY <2>1
<1>3. n \in 0 .. Len(ops) /\ n \in Nat
  BY <1>2, BeforeType
<1>4. Len(trytes) = ElementSize(item.dir) * n /\ Len(trytes) \in Nat
  <2>1. vals = [k \in 1 .. n |-> vals[k]]
    OBVIOUS
  <2>2. ElementSize(item.dir) \in {1, 2, 4, 8}
    BY <1>1, ElementSizeType
  <2> HIDE DEF n, vals
  <2> QED BY <1>3, <2>1, <2>2, DataTrytesLength
<1>5. Emit(trytes, e) /\ e \in Nat
  BY DEF Pass2Data
<1>6. CASE n = Len(ops)
  <2>1. ItemSize(item) = ElementSize(item.dir) * Len(ops)
    BY <1>1 DEF ItemSize, DirSize
  <2> HIDE DEF n, e, trytes
  <2>2. Len(trytes) = ItemSize(item)
    BY <1>4, <1>6, <2>1
  <2> QED BY <1>1, <1>4, <1>5, <2>2, EmitAccounts
<1>7. CASE n # Len(ops)
  <2>1. n < Len(ops) /\ n + 1 \in bad
    BY <1>2, <1>7, StopsAtBad
  <2>2. n + 1 \in DOMAIN ops /\ ~Resolves(ops[n + 1])
    BY <2>1
  <2>3. e > 0 \/ HasValuelessOperand(item)
    <3>0. ~IsDir(item, {"string"})
      BY <1>1 DEF IsDir, DataDirs
    <3>1. CASE IsUndefined(ops[n + 1])
      BY <2>1, <3>1
    <3>2. CASE ~IsUndefined(ops[n + 1])
      <4>1. ~IsImm(ops[n + 1]) /\ ~IsLabel(ops[n + 1])
        BY <2>2, <3>2 DEF Resolves
      <4> HIDE DEF n
      <4>2. ops[n + 1] \in Operand
        BY <1>2, <2>2
      <4> QED BY <1>1, <2>2, <3>0, <4>1, <4>2, OperandFacts
              DEF HasValuelessOperand, IsReg, IsImm, IsLabel
    <3> QED BY <3>1, <3>2
  <2> HIDE DEF n, e, trytes
  <2> QED BY <1>1, <1>4, <1>5, <2>3, EmitAccounts
<1> QED BY <1>6, <1>7

\* A gap of a %string: the string it stopped at was reported.
LEMMA StringAccounts ==
  ASSUME GapsInv, TypeOK', Pass2String
  PROVE  GapsInv'
<1> DEFINE item == prog[i]
           ops  == item.operands
           n    == Before(ops, BadStrings(item))
           trytes == StringTrytes(ops, n)
           e    == IF n < Len(ops) THEN 1 ELSE 0
<1>1. /\ At("pass2") /\ i \in DOMAIN prog /\ item.kind = "directive" /\ item.dir = "string"
  BY DEF Pass2String, At, IsDir
<1>2. ops \in Seq(Operand) /\ Len(ops) \in Nat /\ BadStrings(item) \in SUBSET DOMAIN ops
  <2>1. ops \in Seq(Operand) /\ BadStrings(item) \in SUBSET DOMAIN ops
    BY <1>1, ItemAtHand, BadStringsType DEF GapsInv
  <2> QED BY <2>1
<1>3. n \in 0 .. Len(ops)
  BY <1>2, BeforeType
<1>4. Len(trytes) = StringStart(ops, n + 1) /\ Len(trytes) \in Nat
  BY <1>2, <1>3, StringTrytesLength
<1>5. Emit(trytes, e) /\ e \in Nat
  BY DEF Pass2String
<1>6. Len(trytes) = ItemSize(item) \/ e > 0
  <2>1. CASE n = Len(ops)
    <3>1. ItemSize(item) = StringStart(ops, Len(ops) + 1)
      BY <1>1 DEF ItemSize, DirSize, DataDirs
    <3> HIDE DEF n, e, trytes
    <3> QED BY <1>4, <2>1, <3>1
  <2>2. CASE n # Len(ops)
    <3> HIDE DEF n, trytes
    <3> QED BY <1>2, <1>3, <2>2
  <2> QED BY <2>1, <2>2
<1> HIDE DEF n, e, trytes
<1> QED BY <1>1, <1>4, <1>5, <1>6, EmitAccounts

\* Every turn of pass 2 can account for its item.
LEMMA StepGaps == GapsInv /\ [Next]_vars => GapsInv'
<1> SUFFICES ASSUME GapsInv, [Next]_vars PROVE GapsInv'
  OBVIOUS
<1>1. TypeOK /\ TypeOK'
  BY NextTypeOK DEF GapsInv
<1>2. CASE Pass1Label \/ Pass1Org \/ Pass1Code
  <2>1. phase' = "pass1"
    BY <1>2 DEF Pass1Label, Pass1Org, Pass1Code, Place, At
  <2> QED BY <1>1, <2>1 DEF GapsInv
<1>3. CASE EndPass1
  <2>1. phase' # "done" /\ i' = 1 /\ prog' = prog
    BY <1>3 DEF EndPass1
  <2>2. \A j \in DOMAIN prog : ~(j < 1)
    BY <1>1, SMTT(30) DEF TypeOK
  <2> QED BY <1>1, <2>1, <2>2 DEF GapsInv
<1>4. CASE Pass2Skip
  <2>1. /\ phase = "pass2" /\ i \in DOMAIN prog /\ i' = i + 1
        /\ UNCHANGED <<prog, phase, addrs, mem, diags>>
        /\ prog[i].kind = "label" \/ IsDir(prog[i], {"org"})
    BY <1>4 DEF Pass2Skip, At
  <2>2. ItemSize(prog[i]) = 0
    BY <2>1, OrgIsEmpty DEF ItemSize
  <2>3. Extent(i) = {}
    <3>1. addrs[i] \in Nat
      BY <1>1, <2>1, ItemAtHand
    <3> QED BY <2>2, <3>1 DEF Extent
  <2>4. ASSUME NEW j \in DOMAIN prog, j < i + 1 PROVE Accounted(j)
    <3>1. i \in Nat /\ j \in Nat
      BY <1>1, <2>1, SMTT(30) DEF TypeOK
    <3>2. CASE j < i
      BY <2>1, <3>2 DEF GapsInv
    <3>3. CASE j = i
      BY <2>3, <3>3 DEF Accounted
    <3> QED BY <2>4, <3>1, <3>2, <3>3
  <2> QED BY <1>1, <2>1, <2>4 DEF GapsInv, Accounted, Extent
<1>5. CASE Pass2Instr
  BY <1>1, <1>5, InstrAccounts
<1>6. CASE Pass2Data
  BY <1>1, <1>6, DataAccounts
<1>7. CASE Pass2String
  BY <1>1, <1>7, StringAccounts
<1>8. CASE Pass2Unsupported
  <2>1. At("pass2") /\ Emit(<<>>, 1)
    BY <1>8 DEF Pass2Unsupported
  <2>2. Len(<<>>) \in Nat /\ 1 \in Nat /\ 1 > 0
    OBVIOUS
  <2> QED BY <1>1, <2>1, <2>2, EmitAccounts
<1>9. CASE EndPass2
  <2>1. /\ phase = "pass2" /\ phase' = "done" /\ i \notin DOMAIN prog
        /\ UNCHANGED <<prog, addrs, mem, diags>>
    BY <1>9 DEF EndPass2
  <2>2. \A j \in DOMAIN prog : j < i
    BY <1>1, <2>1, SMTT(30) DEF TypeOK
  <2>3. \A j \in DOMAIN prog : Accounted(j)
    BY <2>1, <2>2 DEF GapsInv
  <2> QED BY <1>1, <2>1, <2>3 DEF GapsInv, Accounted, Extent
<1>10. CASE UNCHANGED vars
  BY <1>1, <1>10 DEF vars, GapsInv, Accounted, Extent
<1> QED BY <1>2, <1>3, <1>4, <1>5, <1>6, <1>7, <1>8, <1>9, <1>10 DEF Next

\* For every program: when assembling is done, an item that does not fill its
\* space was reported in one of the passes, or is an instruction with a string
\* operand or a data directive with a string or a register, the operands
\* raw.c's resolvers skip without a word.  (After a backward %org a store may
\* fall beyond the image, see StoresFitImage; it counts as made.)
THEOREM RawGapsAreReported == Spec => []GapsAreReported
<1>1. Init => GapsInv
  BY InitTypeOK DEF Init, GapsInv
<1>2. GapsInv => GapsAreReported
  BY DEF GapsInv, GapsAreReported, Accounted
<1> QED BY <1>1, <1>2, StepGaps, PTL DEF Spec

-----------------------------------------------------------------------------
(* Scopes and symbols *)

\* Both passes keep track of the scope they are in.
ScopeIsTracked ==
  phase \in {"pass1", "pass2"} => Encloses(prog, i, scope)

\* A symbol is a label item pass 1 has seen, under the scope it stands in.
SymbolsAreLabels ==
  \A k \in DOMAIN symbols :
    LET s == symbols[k]
    IN  /\ s.id \in DOMAIN prog /\ prog[s.id].kind = "label"
        /\ phase = "pass1" => s.id < i
        /\ s.name = prog[s.id].name /\ s.is_local = prog[s.id].is_local
        /\ s.is_local => Encloses(prog, s.id, s.parent)

\* Every label item pass 1 has seen is a symbol.
LabelsAreSymbols ==
  \A d \in DOMAIN prog :
    prog[d].kind = "label" /\ (phase = "pass1" => d < i) =>
      \E k \in DOMAIN symbols : symbols[k].id = d

\* Symbols are in the order of the program.
SymbolsInOrder ==
  \A k, l \in DOMAIN symbols : k < l => symbols[k].id < symbols[l].id

ScopeInv ==
  TypeOK /\ ScopeIsTracked /\ SymbolsAreLabels /\ LabelsAreSymbols /\ SymbolsInOrder

-----------------------------------------------------------------------------
(* The invariant *)

LEMMA InitScopeInv == Init => ScopeInv
<1> SUFFICES ASSUME Init PROVE ScopeInv
  OBVIOUS
<1>1. TypeOK
  BY InitTypeOK
<1>2. ScopeIsTracked
  BY <1>1, EnclosesFirst DEF Init, TypeOK, ScopeIsTracked
<1>3. symbols = <<>> /\ i = 1 /\ phase = "pass1"
  BY DEF Init
<1>4. DOMAIN prog \subseteq Nat \ {0}
  BY <1>1 DEF TypeOK
<1>5. SymbolsAreLabels /\ SymbolsInOrder
  BY <1>3 DEF SymbolsAreLabels, SymbolsInOrder
<1>6. LabelsAreSymbols
  BY <1>3, <1>4 DEF LabelsAreSymbols
<1> QED BY <1>1, <1>2, <1>5, <1>6 DEF ScopeInv

\* A step that leaves the symbols alone, and passes over an item that is no
\* label of either kind or is in pass 2.
LEMMA SymbolsKept ==
  ASSUME ScopeInv, UNCHANGED <<prog, symbols>>, i \in DOMAIN prog,
         phase' = phase, i' = i + 1, phase = "pass1" => prog[i].kind # "label"
  PROVE  SymbolsAreLabels' /\ LabelsAreSymbols' /\ SymbolsInOrder'
<1>1. prog \in Seq(Item) /\ DOMAIN prog \subseteq Nat
  BY DEF ScopeInv, TypeOK
<1>2. SymbolsAreLabels'
  BY <1>1 DEF ScopeInv, SymbolsAreLabels, Encloses
<1>3. LabelsAreSymbols'
  BY <1>1 DEF ScopeInv, LabelsAreSymbols
<1>4. SymbolsInOrder'
  BY DEF ScopeInv, SymbolsInOrder
<1> QED BY <1>2, <1>3, <1>4

\* The same for a step that leaves the loop as well.
LEMMA SymbolsDone ==
  ASSUME ScopeInv, UNCHANGED <<prog, symbols>>, i \notin DOMAIN prog, phase' # "pass1"
  PROVE  SymbolsAreLabels' /\ LabelsAreSymbols' /\ SymbolsInOrder'
<1>1. prog \in Seq(Item) /\ DOMAIN prog \subseteq Nat /\ \A d \in DOMAIN prog : d < i
  BY DEF ScopeInv, TypeOK
<1>2. SymbolsAreLabels'
  BY DEF ScopeInv, SymbolsAreLabels, Encloses
<1>3. LabelsAreSymbols'
  BY <1>1 DEF ScopeInv, LabelsAreSymbols
<1>4. SymbolsInOrder'
  BY DEF ScopeInv, SymbolsInOrder
<1> QED BY <1>2, <1>3, <1>4

\* Pass 1 enters a label under the scope it is in, and behind all others.
LEMMA LabelEntered ==
  ASSUME ScopeInv, Pass1Label
  PROVE  SymbolsAreLabels' /\ LabelsAreSymbols' /\ SymbolsInOrder' /\ ScopeIsTracked'
<1> DEFINE s == [name |-> prog[i].name, id |-> i, is_local |-> prog[i].is_local,
                 parent |-> IF prog[i].is_local THEN scope ELSE NoItem]
           n == Len(symbols)
<1>1. /\ i \in DOMAIN prog /\ prog[i].kind = "label" /\ phase = "pass1"
      /\ prog' = prog /\ phase' = phase /\ i' = i + 1
      /\ symbols' = Append(symbols, s)
      /\ scope' = IF prog[i].is_local THEN scope ELSE i
  BY DEF Pass1Label, Place, At
<1>2. /\ prog \in Seq(Item) /\ DOMAIN prog \subseteq Nat
      /\ symbols \in Seq(Symbol) /\ n \in Nat
      /\ Encloses(prog, i, scope)
  BY <1>1 DEF ScopeInv, TypeOK, ScopeIsTracked
<1>3. /\ s.name = prog[i].name /\ s.id = i /\ s.is_local = prog[i].is_local
      /\ prog[i].is_local => s.parent = scope
  OBVIOUS
<1> HIDE DEF s
<1>4. /\ DOMAIN symbols = 1 .. n /\ DOMAIN symbols' = 1 .. n + 1
      /\ symbols'[n + 1] = s
      /\ \A k \in 1 .. n : symbols'[k] = symbols[k]
  BY <1>1, <1>2
<1> HIDE DEF n
<1>5. SymbolsAreLabels'
  <2> SUFFICES ASSUME NEW k \in DOMAIN symbols'
               PROVE  LET t == symbols'[k]
                      IN  /\ t.id \in DOMAIN prog /\ prog[t.id].kind = "label"
                          /\ t.id < i + 1
                          /\ t.name = prog[t.id].name /\ t.is_local = prog[t.id].is_local
                          /\ t.is_local => Encloses(prog, t.id, t.parent)
    BY <1>1 DEF SymbolsAreLabels, Encloses
  <2>1. CASE k = n + 1
    BY <2>1, <1>1, <1>2, <1>3, <1>4
  <2>2. CASE k # n + 1
    <3>1. k \in DOMAIN symbols /\ symbols'[k] = symbols[k]
      BY <2>2, <1>2, <1>4
    <3> QED BY <3>1, <1>1, <1>2 DEF ScopeInv, SymbolsAreLabels
  <2> QED BY <2>1, <2>2
<1>6. LabelsAreSymbols'
  <2> SUFFICES ASSUME NEW d \in DOMAIN prog, prog[d].kind = "label", d < i + 1
               PROVE  \E k \in DOMAIN symbols' : symbols'[k].id = d
    BY <1>1 DEF LabelsAreSymbols
  <2>1. CASE d = i
    BY <2>1, <1>2, <1>3, <1>4
  <2>2. CASE d # i
    <3>1. d < i
      BY <2>2, <1>1, <1>2
    <3>2. PICK k \in DOMAIN symbols : symbols[k].id = d
      BY <3>1 DEF ScopeInv, LabelsAreSymbols
    <3> QED BY <3>2, <1>2, <1>4
  <2> QED BY <2>1, <2>2
<1>7. SymbolsInOrder'
  <2> SUFFICES ASSUME NEW k \in DOMAIN symbols', NEW l \in DOMAIN symbols', k < l
               PROVE  symbols'[k].id < symbols'[l].id
    BY DEF SymbolsInOrder
  <2>1. k \in DOMAIN symbols /\ symbols'[k] = symbols[k]
    BY <1>2, <1>4
  <2>2. CASE l = n + 1
    BY <2>1, <2>2, <1>1, <1>3, <1>4 DEF ScopeInv, SymbolsAreLabels
  <2>3. CASE l # n + 1
    BY <2>1, <2>3, <1>2, <1>4 DEF ScopeInv, SymbolsInOrder
  <2> QED BY <2>2, <2>3
<1>8. ScopeIsTracked'
  BY <1>1, <1>2, EnclosesNext DEF ScopeIsTracked, IsGlobalLabel, Encloses
<1> QED BY <1>5, <1>6, <1>7, <1>8

\* A turn of a loop that is not at a label, whatever else it does.
LEMMA PassedOver ==
  ASSUME ScopeInv, UNCHANGED <<prog, symbols, scope, phase>>, i' = i + 1,
         i \in DOMAIN prog, prog[i].kind # "label"
  PROVE  SymbolsAreLabels' /\ LabelsAreSymbols' /\ SymbolsInOrder' /\ ScopeIsTracked'
<1>1. prog \in Seq(Item) /\ ~IsGlobalLabel(prog[i])
  BY DEF ScopeInv, TypeOK, IsGlobalLabel
<1>2. ScopeIsTracked'
  BY <1>1, EnclosesNext DEF ScopeInv, ScopeIsTracked, Encloses
<1> QED BY <1>2, SymbolsKept

\* Every turn of the two loops keeps the scopes and the symbol table right.
LEMMA NextScopeInv == ScopeInv /\ [Next]_vars => ScopeInv'
<1> SUFFICES ASSUME ScopeInv, [Next]_vars PROVE ScopeInv'
  OBVIOUS
<1>1. TypeOK'
  BY NextTypeOK DEF ScopeInv
<1>2. CASE Pass1Label
  BY <1>1, <1>2, LabelEntered DEF ScopeInv
<1>3. CASE Pass1Org \/ Pass1Code
  <2>1. /\ UNCHANGED <<prog, symbols, scope, phase>> /\ i' = i + 1
        /\ i \in DOMAIN prog /\ prog[i].kind # "label"
    BY <1>3 DEF Pass1Org, Pass1Code, Place, At, IsDir
  <2> QED BY <1>1, <2>1, PassedOver DEF ScopeInv
<1>4. CASE EndPass1
  <2>1. /\ UNCHANGED <<prog, symbols>> /\ i \notin DOMAIN prog /\ phase' # "pass1"
        /\ i' = 1 /\ scope' = NoItem
    BY <1>4 DEF EndPass1
  <2>2. ScopeIsTracked'
    BY <2>1, EnclosesFirst DEF ScopeInv, TypeOK, ScopeIsTracked, Encloses
  <2> QED BY <1>1, <2>1, <2>2, SymbolsDone DEF ScopeInv
<1>5. CASE Pass2Skip
  <2>1. /\ UNCHANGED <<prog, symbols, phase>> /\ i' = i + 1 /\ phase = "pass2"
        /\ i \in DOMAIN prog /\ scope' = IF IsGlobalLabel(prog[i]) THEN i ELSE scope
    BY <1>5 DEF Pass2Skip, At
  <2>2. prog \in Seq(Item) /\ Encloses(prog, i, scope)
    BY <2>1 DEF ScopeInv, TypeOK, ScopeIsTracked
  <2>3. ScopeIsTracked'
    BY <2>1, <2>2, EnclosesNext DEF ScopeIsTracked, Encloses
  <2> QED BY <1>1, <2>1, <2>3, SymbolsKept DEF ScopeInv
<1>6. CASE Pass2Instr \/ Pass2Data \/ Pass2String \/ Pass2Unsupported
  <2>1. /\ UNCHANGED <<prog, symbols, scope, phase>> /\ i' = i + 1
        /\ i \in DOMAIN prog /\ prog[i].kind # "label"
    <3>1. CASE Pass2Instr
      BY <3>1 DEF Pass2Instr, Emit, At
    <3>2. CASE Pass2Data
      BY <3>2 DEF Pass2Data, Emit, At, IsDir
    <3>3. CASE Pass2String
      BY <3>3 DEF Pass2String, Emit, At, IsDir
    <3>4. CASE Pass2Unsupported
      BY <3>4 DEF Pass2Unsupported, Emit, At, IsDir
    <3> QED BY <1>6, <3>1, <3>2, <3>3, <3>4
  <2> QED BY <1>1, <2>1, PassedOver DEF ScopeInv
<1>7. CASE EndPass2
  <2>1. /\ UNCHANGED <<prog, symbols>> /\ i \notin DOMAIN prog /\ phase' = "done"
    BY <1>7 DEF EndPass2
  <2>2. ScopeIsTracked'
    BY <2>1 DEF ScopeIsTracked
  <2> QED BY <1>1, <2>1, <2>2, SymbolsDone DEF ScopeInv
<1>8. CASE UNCHANGED vars
  BY <1>1, <1>8 DEF vars, ScopeInv, ScopeIsTracked, SymbolsAreLabels, LabelsAreSymbols,
                    SymbolsInOrder, Encloses
<1> QED BY <1>2, <1>3, <1>4, <1>5, <1>6, <1>7, <1>8 DEF Next

-----------------------------------------------------------------------------
(* What it means for a label operand *)

\* In pass 2 a symbol matches exactly if it is for a label that can be meant.
LEMMA MatchesAreCandidates ==
  ASSUME ScopeInv, phase = "pass2", i \in DOMAIN prog, NEW name, NEW is_local \in BOOLEAN,
         NEW k \in DOMAIN symbols
  PROVE  SymbolMatches(symbols[k], name, is_local)
           <=> symbols[k].id \in Candidates(prog, i, name, is_local)
<1> DEFINE s == symbols[k]
<1>1. prog \in Seq(Item) /\ Encloses(prog, i, scope)
  BY DEF ScopeInv, TypeOK, ScopeIsTracked
<1>2. /\ s.id \in DOMAIN prog /\ prog[s.id].kind = "label"
      /\ s.name = prog[s.id].name /\ s.is_local = prog[s.id].is_local
      /\ s.is_local => Encloses(prog, s.id, s.parent)
  BY DEF ScopeInv, SymbolsAreLabels
<1>3. s.is_local => (SameScope(prog, s.id, i) <=> s.parent = scope)
  BY <1>1, <1>2, SameEnclosing
<1> QED BY <1>2, <1>3 DEF SymbolMatches, Candidates

\* Symbol lookup finds what the name means.
LEMMA LookupFindsMeaning ==
  ASSUME ScopeInv, phase = "pass2", i \in DOMAIN prog, NEW name, NEW is_local \in BOOLEAN
  PROVE  LET d == FindSymbol(name, is_local)
         IN  IF d = NoItem THEN Candidates(prog, i, name, is_local) = {}
             ELSE IsMeant(prog, i, name, is_local, d)
<1> DEFINE hits == {k \in DOMAIN symbols : SymbolMatches(symbols[k], name, is_local)}
           C == Candidates(prog, i, name, is_local)
           m == CHOOSE k \in hits : \A l \in hits : k <= l
<1>1. /\ DOMAIN symbols \in SUBSET Nat /\ DOMAIN prog \subseteq Nat \ {0}
  BY DEF ScopeInv, TypeOK
<1>2. \A k \in DOMAIN symbols : k \in hits <=> symbols[k].id \in C
  BY MatchesAreCandidates
<1>3. \A e \in C : \E k \in hits : symbols[k].id = e
  <2> SUFFICES ASSUME NEW e \in C PROVE \E k \in hits : symbols[k].id = e
    OBVIOUS
  <2>1. e \in DOMAIN prog /\ prog[e].kind = "label"
    BY DEF Candidates
  <2>2. PICK k \in DOMAIN symbols : symbols[k].id = e
    BY <2>1 DEF ScopeInv, LabelsAreSymbols
  <2> QED BY <1>2, <2>2
<1>4. CASE hits = {}
  <2>1. FindSymbol(name, is_local) = NoItem
    BY <1>4 DEF FindSymbol
  <2>2. C = {}
    BY <1>3, <1>4
  <2> QED BY <2>1, <2>2
<1>5. CASE hits # {}
  <2>1. hits \in SUBSET Nat
    BY <1>1
  <2>2. m \in hits /\ \A l \in hits : m <= l
    BY <1>5, <2>1, LeastExists
  <2>3. FindSymbol(name, is_local) = symbols[m].id
    BY <1>5 DEF FindSymbol
  <2> HIDE DEF m, hits, C
  <2>4. symbols[m].id \in C /\ symbols[m].id \in DOMAIN prog
    BY <1>2, <2>2 DEF hits, C, Candidates
  <2>5. ASSUME NEW e \in C PROVE symbols[m].id <= e
    <3>1. PICK l \in hits : symbols[l].id = e
      BY <1>3
    <3>2. l \in DOMAIN symbols /\ m \in DOMAIN symbols /\ m <= l /\ symbols[l].id \in DOMAIN prog
      BY <2>2, <3>1 DEF hits, C, Candidates
    <3>3. m = l \/ m < l
      BY <1>1, <3>2
    <3>4. m < l => symbols[m].id < symbols[l].id
      BY <3>2 DEF ScopeInv, SymbolsInOrder
    <3> QED BY <1>1, <2>4, <3>1, <3>2, <3>3, <3>4
  <2>6. symbols[m].id # NoItem
    BY <1>1, <2>4 DEF NoItem
  <2>7. IsMeant(prog, i, name, is_local, symbols[m].id)
    BY <2>4, <2>5 DEF IsMeant, C
  <2> QED BY <2>3, <2>6, <2>7
<1> QED BY <1>4, <1>5

\* Pass 2 resolves every label operand to the label it means, in every program:
\* forward references, duplicates and local labels before the first global one
\* included.
THEOREM RawLabelsMeanTheirScope == Spec => []LabelsMeanTheirScope
<1>1. ScopeInv => LabelsMeanTheirScope
  <2> SUFFICES ASSUME ScopeInv, At("pass2"), prog[i].kind # "label",
                      NEW k \in DOMAIN prog[i].operands, IsLabel(prog[i].operands[k])
               PROVE  LET op == prog[i].operands[k]
                          d == FindSymbol(op.name, op.is_local)
                      IN  IF d = NoItem
                          THEN Candidates(prog, i, op.name, op.is_local) = {}
                          ELSE IsMeant(prog, i, op.name, op.is_local, d)
    BY DEF LabelsMeanTheirScope
  <2>1. phase = "pass2" /\ i \in DOMAIN prog
    BY DEF At
  <2>2. prog[i].operands[k] \in Operand
    BY <2>1, ItemAtHand DEF ScopeInv
  <2>3. prog[i].operands[k].is_local \in BOOLEAN
    BY <2>2, OperandFacts DEF IsLabel
  <2> QED BY <2>1, <2>3, LookupFindsMeaning
<1> QED BY <1>1, InitScopeInv, NextScopeInv, PTL DEF Spec


-----------------------------------------------------------------------------
(* Placement *)

\* The first n items are placed one after another, and the next may go to at.
Placed(p, f, n, at) ==
  \A j \in 1 .. n + 1 :
    LET a == IF j = n + 1 THEN at ELSE f[j]
    IN  IF j = 1 THEN a = 0 ELSE a \in Follows(p[j - 1], f[j - 1])

LEMMA PlacedNext ==
  ASSUME NEW p, NEW N \in Nat, NEW f, DOMAIN f = 1 .. N, NEW n \in Nat, n < N, NEW at,
         Placed(p, f, n, at), NEW next \in Follows(p[n + 1], at)
  PROVE  Placed(p, [f EXCEPT ![n + 1] = at], n + 1, next)
<1> DEFINE g == [f EXCEPT ![n + 1] = at]
<1>1. g[n + 1] = at /\ \A j \in 1 .. n : g[j] = f[j]
  OBVIOUS
<1> HIDE DEF g
<1> SUFFICES ASSUME NEW j \in 1 .. n + 2
             PROVE  LET a == IF j = n + 2 THEN next ELSE g[j]
                    IN  IF j = 1 THEN a = 0 ELSE a \in Follows(p[j - 1], g[j - 1])
  <2>1. (n + 1) + 1 = n + 2
    OBVIOUS
  <2> QED BY <2>1 DEF Placed, g
<1>2. CASE j = n + 2
  <2>1. j - 1 = n + 1 /\ j # 1
    BY <1>2
  <2> QED BY <1>1, <1>2, <2>1
<1>3. CASE j # n + 2
  <2>1. j \in 1 .. n + 1 /\ g[j] = IF j = n + 1 THEN at ELSE f[j]
    BY <1>1, <1>3
  <2>2. j # 1 => j - 1 \in 1 .. n /\ g[j - 1] = f[j - 1]
    BY <1>1, <2>1
  <2> QED BY <1>3, <2>1, <2>2 DEF Placed
<1> QED BY <1>2, <1>3

LEMMA PlacedIsPlacement ==
  ASSUME NEW p, NEW n \in Nat, DOMAIN p = 1 .. n, NEW f, DOMAIN f = 1 .. n,
         NEW at, Placed(p, f, n, at)
  PROVE  IsPlacement(p, f)
<1> SUFFICES ASSUME NEW j \in 1 .. n
             PROVE  IF j = 1 THEN f[j] = 0 ELSE f[j] \in Follows(p[j - 1], f[j - 1])
  BY DEF IsPlacement
<1>1. j \in 1 .. n + 1 /\ j # n + 1
  OBVIOUS
<1> QED BY <1>1 DEF Placed

-----------------------------------------------------------------------------
(* The image *)

\* The greatest of finitely many numbers.
LEMMA GreatestExists ==
  ASSUME NEW n \in Nat, NEW S \in SUBSET (1 .. n), S # {}
  PROVE  \E w \in S : \A v \in S : v <= w
<1> DEFINE T == {n - s : s \in S}
<1>1. T \in SUBSET Nat /\ T # {}
  <2>1. \A s \in S : n - s \in Nat
    OBVIOUS
  <2> QED BY <2>1
<1>2. PICK k \in T : \A l \in T : k <= l
  BY <1>1, LeastExists
<1>3. PICK w \in S : k = n - w
  BY <1>2
<1>4. ASSUME NEW v \in S PROVE v <= w
  <2>1. n - w <= n - v
    BY <1>2, <1>3
  <2> QED BY <2>1
<1> QED BY <1>4

\* One more item is laid over the others by storing its trytes.
LEMMA OverlayNext ==
  ASSUME NEW n \in Nat, NEW f, \A j \in 1 .. n + 1 : f[j] \in Nat,
         NEW out, DOMAIN out = 1 .. n + 1, \A j \in 1 .. n : DOMAIN out[j] \subseteq Nat,
         DOMAIN out[n + 1] = 1 .. Len(out[n + 1]), Len(out[n + 1]) \in Nat,
         NEW prev, prev = [j \in 1 .. n |-> out[j]]
  PROVE  Overlay(f, out) = Store(Overlay(f, prev), f[n + 1], out[n + 1])
<1> DEFINE W(x) == {j \in DOMAIN out : x - f[j] + 1 \in DOMAIN out[j]}
           V(x) == {j \in DOMAIN prev : x - f[j] + 1 \in DOMAIN prev[j]}
           Top(S) == CHOOSE w \in S : \A v \in S : v <= w
           U == UNION {{f[j] + k - 1 : k \in DOMAIN out[j]} : j \in DOMAIN out}
           P == UNION {{f[j] + k - 1 : k \in DOMAIN prev[j]} : j \in DOMAIN prev}
           t == out[n + 1]
           a == f[n + 1]
           R == a .. a + Len(t) - 1
           m == Overlay(f, prev)
<1>1. Overlay(f, out) = [x \in U |-> out[Top(W(x))][x - f[Top(W(x))] + 1]]
  BY DEF Overlay
<1>2. m = [x \in P |-> prev[Top(V(x))][x - f[Top(V(x))] + 1]]
  BY DEF Overlay
<1>3. DOMAIN prev = 1 .. n /\ \A j \in 1 .. n : prev[j] = out[j]
  OBVIOUS
<1>4. a \in Nat /\ DOMAIN t = 1 .. Len(t) /\ Len(t) \in Nat
  OBVIOUS
<1>5. U = P \union R
  <2>1. U = P \union {a + k - 1 : k \in DOMAIN t}
    <3> DEFINE C(j) == {f[j] + k - 1 : k \in DOMAIN out[j]}
    <3>1. 1 .. n + 1 = (1 .. n) \union {n + 1}
      OBVIOUS
    <3>2. U = UNION {C(j) : j \in 1 .. n + 1}
      OBVIOUS
    <3>3. P = UNION {C(j) : j \in 1 .. n}
      <4>1. \A j \in 1 .. n : {f[j] + k - 1 : k \in DOMAIN prev[j]} = C(j)
        BY <1>3
      <4> QED BY <1>3, <4>1
    <3>4. C(n + 1) = {a + k - 1 : k \in DOMAIN t}
      OBVIOUS
    <3> HIDE DEF C, U, P
    <3> QED BY <3>1, <3>2, <3>3, <3>4
  <2>2. {a + k - 1 : k \in DOMAIN t} = R
    <3> HIDE DEF a, t
    <3>1. ASSUME NEW x \in R PROVE x - a + 1 \in 1 .. Len(t) /\ x = a + (x - a + 1) - 1
      BY <1>4
    <3>2. ASSUME NEW k \in 1 .. Len(t) PROVE a + k - 1 \in R
      BY <1>4
    <3> QED BY <1>4, <3>1, <3>2
  <2> QED BY <2>1, <2>2
<1>6. ASSUME NEW x \in R
      PROVE  out[Top(W(x))][x - f[Top(W(x))] + 1] = t[x - a + 1]
  <2>1. n + 1 \in W(x)
    <3>1. x - a + 1 \in DOMAIN t
      BY <1>4
    <3>2. n + 1 \in DOMAIN out
      OBVIOUS
    <3> QED BY <3>1, <3>2
  <2>2. \A v \in W(x) : v \in 1 .. n + 1
    OBVIOUS
  <2> DEFINE w == Top(W(x))
  <2>3. w \in W(x) /\ \A v \in W(x) : v <= w
    <3>1. \A v \in W(x) : v <= n + 1
      BY <2>2
    <3> HIDE DEF W
    <3> QED BY <2>1, <3>1
  <2>4. w = n + 1
    <3> HIDE DEF w, W
    <3>1. w \in 1 .. n + 1 /\ n + 1 <= w
      BY <2>1, <2>2, <2>3
    <3> QED BY <3>1
  <2> QED BY <2>4
<1>7. ASSUME NEW x \in P, x \notin R
      PROVE  out[Top(W(x))][x - f[Top(W(x))] + 1] = m[x]
  <2>1. W(x) = V(x)
    <3>1. x - a + 1 \notin DOMAIN t
      <4>1. PICK j \in 1 .. n : \E k \in DOMAIN out[j] : x = f[j] + k - 1
        BY <1>3
      <4>2. f[j] \in Nat /\ DOMAIN out[j] \subseteq Nat
        OBVIOUS
      <4>3. x \in Int
        BY <4>1, <4>2
      <4> HIDE DEF a, t
      <4> QED BY <1>4, <1>7, <4>3
    <3>2. 1 .. n + 1 = (1 .. n) \union {n + 1}
      OBVIOUS
    <3> QED BY <1>3, <3>1, <3>2
  <2>2. V(x) # {}
    <3>1. PICK j \in 1 .. n : \E k \in DOMAIN out[j] : x = f[j] + k - 1
      BY <1>3
    <3>2. f[j] \in Nat /\ DOMAIN out[j] \subseteq Nat
      OBVIOUS
    <3>3. PICK k \in DOMAIN out[j] : x = f[j] + k - 1
      BY <3>1
    <3>4. f[j] \in Nat /\ k \in Nat
      BY <3>2, <3>3
    <3>5. x - f[j] + 1 = k
      <4> HIDE DEF P, R, U, V, W, t, a, m
      <4> QED BY <3>3, <3>4
    <3> QED BY <1>3, <3>3, <3>5
  <2>3. V(x) \in SUBSET (1 .. n)
    BY <1>3
  <2> DEFINE w == Top(V(x))
  <2>4. w \in V(x)
    <3> HIDE DEF V
    <3> QED BY <2>2, <2>3, GreatestExists
  <2>5. prev[w] = out[w]
    <3> HIDE DEF w
    <3> QED BY <1>3, <2>3, <2>4
  <2>6. m[x] = prev[w][x - f[w] + 1]
    <3> HIDE DEF w, m
    <3> QED BY <1>2 DEF w
  <2>7. Top(W(x)) = w
    BY <2>1
  <2> HIDE DEF w, W
  <2> QED BY <2>5, <2>6, <2>7
<1> DEFINE s == Store(m, a, t)
<1>8. s = [x \in P \union R |-> IF x \in R THEN t[x - a + 1] ELSE m[x]]
  <2>1. DOMAIN m = P
    <3> HIDE DEF P, m, V
    <3> QED BY <1>2
  <2> HIDE DEF m, a, t
  <2> QED BY <2>1 DEF Store
<1> HIDE DEF U, P, R, W, V, m, s, a, t
<1>9. \A x \in U : out[Top(W(x))][x - f[Top(W(x))] + 1] = IF x \in R THEN t[x - a + 1] ELSE m[x]
  BY <1>5, <1>6, <1>7
<1>10. Overlay(f, out) = s
  <2> DEFINE F(x) == out[Top(W(x))][x - f[Top(W(x))] + 1]
             G(x) == IF x \in R THEN t[x - a + 1] ELSE m[x]
  <2>1. Overlay(f, out) = [x \in U |-> F(x)] /\ s = [x \in U |-> G(x)]
    BY <1>1, <1>5, <1>8
  <2>2. \A x \in U : F(x) = G(x)
    BY <1>9
  <2> HIDE DEF F, G
  <2> QED BY <2>1, <2>2
<1> QED BY <1>10 DEF s, m, a, t

-----------------------------------------------------------------------------
(* Operands and their meaning *)

\* In pass 2 the operands that resolve are those that have a meaning, and they
\* resolve to it.
LEMMA ResolvesToMeaning ==
  ASSUME ScopeInv, phase = "pass2", i \in DOMAIN prog, NEW op \in Operand
  PROVE  /\ Resolves(op) <=> Meaning(prog, addrs, i, op) # {}
         /\ Resolves(op) => The(Meaning(prog, addrs, i, op)) = ValueOf(op)
<1>1. CASE IsImm(op)
  BY <1>1 DEF Resolves, Meaning, The, ValueOf
<1>2. CASE ~IsImm(op) /\ ~IsLabel(op)
  BY <1>2 DEF Resolves, Meaning
<1>3. CASE ~IsImm(op) /\ IsLabel(op)
  <2> DEFINE d == FindSymbol(op.name, op.is_local)
             C == Candidates(prog, i, op.name, op.is_local)
             D == {c \in DOMAIN prog : IsMeant(prog, i, op.name, op.is_local, c)}
  <2>1. op.is_local \in BOOLEAN
    BY <1>3, OperandFacts DEF IsLabel
  <2>2. IF d = NoItem THEN C = {} ELSE IsMeant(prog, i, op.name, op.is_local, d)
    BY <2>1, LookupFindsMeaning
  <2>3. Meaning(prog, addrs, i, op) = {addrs[c] : c \in D}
    BY <1>3 DEF Meaning
  <2>4. Resolves(op) <=> d # NoItem
    BY <1>3 DEF Resolves, IsUndefined
  <2>5. CASE d = NoItem
    <3>1. D = {}
      BY <2>2, <2>5 DEF IsMeant
    <3> QED BY <2>3, <2>4, <2>5, <3>1
  <2>6. CASE d # NoItem
    <3>1. DOMAIN prog \subseteq Nat
      BY DEF ScopeInv, TypeOK
    <3>2. D = {d}
      <4>1. d \in D
        BY <2>2, <2>6 DEF IsMeant, Candidates
      <4>2. ASSUME NEW c \in D PROVE c = d
        <5>1. c \in C /\ d \in C /\ c <= d /\ d <= c
          BY <2>2, <2>6 DEF IsMeant
        <5>2. c \in Nat /\ d \in Nat
          BY <3>1, <4>1
        <5> QED BY <5>1, <5>2
      <4> QED BY <4>1, <4>2
    <3>3. Meaning(prog, addrs, i, op) = {addrs[d]}
      BY <2>3, <3>2
    <3>4. ValueOf(op) = addrs[d]
      BY <1>3 DEF ValueOf
    <3> QED BY <2>4, <2>6, <3>3, <3>4 DEF The
  <2> QED BY <2>5, <2>6
<1> QED BY <1>1, <1>2, <1>3

\* Stopping at the first bad operand and taking those with none before them
\* comes to the same.
LEMMA BeforeIsPrefix ==
  ASSUME NEW ops \in Seq(Operand), NEW bad \in SUBSET DOMAIN ops
  PROVE  {k \in DOMAIN ops : \A l \in 1 .. k : l \notin bad} = 1 .. Before(ops, bad)
<1> DEFINE n == Before(ops, bad)
           m == CHOOSE k \in bad : \A l \in bad : k <= l
<1>1. DOMAIN ops = 1 .. Len(ops) /\ Len(ops) \in Nat
  OBVIOUS
<1>2. CASE bad = {}
  BY <1>1, <1>2 DEF Before
<1>3. CASE bad # {}
  <2>1. bad \in SUBSET Nat
    BY <1>1
  <2>2. m \in bad /\ \A l \in bad : m <= l
    BY <1>3, <2>1, LeastExists
  <2>3. n = m - 1
    BY <1>3 DEF Before
  <2> HIDE DEF m, n
  <2>4. m \in 1 .. Len(ops)
    BY <1>1, <2>2
  <2>5. ASSUME NEW k \in DOMAIN ops, \A l \in 1 .. k : l \notin bad PROVE k \in 1 .. n
    BY <1>1, <2>2, <2>3, <2>4, <2>5
  <2>6. ASSUME NEW k \in 1 .. n PROVE k \in DOMAIN ops /\ \A l \in 1 .. k : l \notin bad
    BY <1>1, <2>1, <2>2, <2>3, <2>4
  <2> QED BY <2>5, <2>6 DEF n
<1> QED BY <1>2, <1>3

-----------------------------------------------------------------------------
(* The invariant *)

\* What the first n items mean.
Out(p, f, n) == [j \in 1 .. n |-> Trytes(p, f, j)]

\* So far pass 1 has placed the items and pass 2 has laid what they mean over
\* one another.
ImageInv ==
  /\ ScopeInv
  /\ phase = "pass1" => mem = <<>> /\ Placed(prog, addrs, i - 1, addr)
  /\ phase = "pass2" => /\ mem = Overlay(addrs, Out(prog, addrs, i - 1))
                        /\ \A j \in 1 .. i - 1 : DOMAIN Trytes(prog, addrs, j) \subseteq Nat

LEMMA InitImage == Init => ImageInv
<1> SUFFICES ASSUME Init PROVE ImageInv
  OBVIOUS
<1>1. phase = "pass1" /\ mem = <<>> /\ i = 1 /\ addr = 0
  BY DEF Init
<1>2. Placed(prog, addrs, 0, 0)
  BY DEF Placed
<1> QED BY <1>1, <1>2, InitScopeInv DEF ImageInv

\* A turn of pass 1 places one more item.
LEMMA PlaceImage ==
  ASSUME ImageInv, ScopeInv', At("pass1"), NEW next, Place(next), next \in Follows(prog[i], addr)
  PROVE  ImageInv'
<1>1. /\ i \in DOMAIN prog /\ phase = "pass1" /\ mem = <<>> /\ Placed(prog, addrs, i - 1, addr)
      /\ i' = i + 1 /\ addr' = next /\ UNCHANGED <<prog, phase, mem>>
      /\ addrs' = [addrs EXCEPT ![i] = addr]
  BY DEF ImageInv, At, Place
<1>2. prog \in Seq(Item) /\ addrs \in [DOMAIN prog -> Nat]
  BY DEF ImageInv, ScopeInv, TypeOK
<1>3. /\ Len(prog) \in Nat /\ DOMAIN addrs = 1 .. Len(prog)
      /\ i - 1 \in Nat /\ i - 1 < Len(prog) /\ (i - 1) + 1 = i /\ i' - 1 = i
  BY <1>1, <1>2
<1>4. next \in Follows(prog[(i - 1) + 1], addr)
  BY <1>3
<1>5. Placed(prog, [addrs EXCEPT ![(i - 1) + 1] = addr], (i - 1) + 1, next)
  BY <1>1, <1>3, <1>4, PlacedNext
<1>6. Placed(prog, addrs', i, next)
  BY <1>1, <1>3, <1>5
<1> QED BY <1>1, <1>3, <1>6 DEF ImageInv

\* A turn of pass 2 that stores what its item means.
LEMMA EmitImage ==
  ASSUME ImageInv, ScopeInv', At("pass2"), i' = i + 1, UNCHANGED <<prog, phase, addrs>>,
         NEW t, t = Trytes(prog, addrs, i), DOMAIN t = 1 .. Len(t), Len(t) \in Nat,
         mem' = Store(mem, addrs[i], t)
  PROVE  ImageInv'
<1> DEFINE n == i - 1
<1>1. /\ i \in DOMAIN prog /\ phase = "pass2"
      /\ mem = Overlay(addrs, Out(prog, addrs, n))
      /\ \A j \in 1 .. n : DOMAIN Trytes(prog, addrs, j) \subseteq Nat
  BY DEF ImageInv, At
<1>2. prog \in Seq(Item) /\ addrs \in [DOMAIN prog -> Nat]
  BY DEF ImageInv, ScopeInv, TypeOK
<1>3. n \in Nat /\ n + 1 = i /\ i' - 1 = i /\ i \in 1 .. Len(prog) /\ \A j \in 1 .. i : addrs[j] \in Nat
  BY <1>1, <1>2
<1> HIDE DEF n
<1> DEFINE out == Out(prog, addrs, n + 1)
<1>4. /\ DOMAIN out = 1 .. n + 1 /\ out[n + 1] = t
      /\ \A j \in 1 .. n : out[j] = Trytes(prog, addrs, j)
      /\ Out(prog, addrs, n) = [j \in 1 .. n |-> out[j]]
  BY <1>3 DEF Out
<1>5. \A j \in 1 .. n : DOMAIN out[j] \subseteq Nat
  BY <1>1, <1>4
<1> HIDE DEF out
<1>6. /\ DOMAIN out[n + 1] = 1 .. Len(out[n + 1]) /\ Len(out[n + 1]) \in Nat
      /\ \A j \in 1 .. n + 1 : addrs[j] \in Nat
  BY <1>3, <1>4
<1>7. Overlay(addrs, out) = Store(Overlay(addrs, Out(prog, addrs, n)), addrs[n + 1], out[n + 1])
  <2> DEFINE prev == Out(prog, addrs, n)
  <2>1. n \in Nat /\ DOMAIN out = 1 .. n + 1 /\ prev = [j \in 1 .. n |-> out[j]]
    BY <1>3, <1>4
  <2> HIDE DEF prev
  <2>2. Overlay(addrs, out) = Store(Overlay(addrs, prev), addrs[n + 1], out[n + 1])
    BY <2>1, <1>5, <1>6, OverlayNext
  <2> QED BY <2>2 DEF prev
<1>8. mem' = Overlay(addrs, Out(prog, addrs, i))
  BY <1>1, <1>3, <1>4, <1>7 DEF out
<1>9. ASSUME NEW j \in 1 .. i PROVE DOMAIN Trytes(prog, addrs, j) \subseteq Nat
  <2>1. CASE j = i
    BY <2>1
  <2>2. CASE j # i
    BY <1>1, <1>3, <2>2
  <2> QED BY <2>1, <2>2
<1> QED BY <1>1, <1>3, <1>8, <1>9 DEF ImageInv

\* A turn of pass 2 that stores nothing, at an item that means nothing.
LEMMA NoTrytes ==
  ASSUME TypeOK, i \in DOMAIN prog,
         prog[i].kind = "label" \/ IsDir(prog[i], Directives \ (DataDirs \union {"string"}))
  PROVE  Trytes(prog, addrs, i) = <<>>
<1>1. /\ prog[i].kind # "instr"
      /\ ~IsDir(prog[i], DataDirs) /\ ~IsDir(prog[i], {"string"})
  BY DEF IsDir
<1> QED BY <1>1 DEF Trytes

LEMMA DataTrytesAt ==
  ASSUME IsDir(prog[i], DataDirs)
  PROVE  Trytes(prog, addrs, i)
           = DataTrytes(ElementSize(prog[i].dir), Elements(prog, addrs, i))
<1>1. prog[i].kind # "instr" /\ ~IsDir(prog[i], {"string"})
  BY DEF IsDir, DataDirs
<1> QED BY <1>1 DEF Trytes

LEMMA StoreNothing ==
  ASSUME NEW m, m = [x \in DOMAIN m |-> m[x]], NEW a \in Nat
  PROVE  Store(m, a, <<>>) = m
<1>1. Len(<<>>) = 0
  OBVIOUS
<1>2. a .. a + Len(<<>>) - 1 = {}
  BY <1>1
<1> QED BY <1>2 DEF Store

\* Pass 2 stores what an instruction means.
LEMMA InstrImage ==
  ASSUME ImageInv, ScopeInv', Pass2Instr
  PROVE  ImageInv'
<1> DEFINE item == prog[i]
           op == ImmOperand(item)
           M == Meaning(prog, addrs, i, op)
           t == Trytes(prog, addrs, i)
<1>1. At("pass2") /\ phase = "pass2" /\ i \in DOMAIN prog /\ item.kind = "instr"
  BY DEF Pass2Instr, At
<1>2. item \in InstrItem /\ ScopeInv
  BY <1>1, ItemAtHand, ItemFacts DEF ImageInv, ScopeInv
<1>3. t = IF ~IsValid(item) THEN <<>>
          ELSE IF op = NoOperand THEN Encoding(item, StepImmediate)
          ELSE IF M # {} THEN Encoding(item, The(M))
          ELSE <<>>
  BY <1>1 DEF Trytes, IsDir
<1>4. ASSUME IsValid(item), op # NoOperand
      PROVE  (Resolves(op) <=> M # {}) /\ (Resolves(op) => The(M) = ValueOf(op))
  <2>1. op \in Operand
    BY <1>2, <1>4, ImmOperandIsOperand
  <2> QED BY <1>1, <1>2, <2>1, ResolvesToMeaning
<1>5. \E e : Emit(t, e)
  <2>1. CASE ~IsValid(item)
    BY <1>3, <2>1 DEF Pass2Instr
  <2>2. CASE IsValid(item) /\ op = NoOperand
    BY <1>3, <2>2 DEF Pass2Instr
  <2>3. CASE IsValid(item) /\ op # NoOperand /\ Resolves(op)
    <3>1. t = Encoding(item, ValueOf(op))
      BY <1>3, <1>4, <2>3
    <3>2. Emit(Encoding(item, ValueOf(op)), 0)
      BY <2>3 DEF Pass2Instr
    <3> QED BY <3>1, <3>2
  <2>4. CASE IsValid(item) /\ op # NoOperand /\ ~Resolves(op)
    <3>1. t = <<>>
      BY <1>3, <1>4, <2>4
    <3>2. Emit(<<>>, 0) \/ Emit(<<>>, 1)
      BY <2>4 DEF Pass2Instr
    <3> QED BY <3>1, <3>2
  <2> QED BY <2>1, <2>2, <2>3, <2>4
<1>6. DOMAIN t = 1 .. Len(t) /\ Len(t) \in Nat
  <2>1. t = <<>> \/ (IsValid(item) /\ \E v : t = Encoding(item, v))
    BY <1>3
  <2>2. \E S : t \in Seq(S)
    <3>1. CASE t = <<>>
      <4>1. t \in Seq({})
        BY <3>1
      <4> QED BY <4>1
    <3>2. CASE IsValid(item) /\ \E v : t = Encoding(item, v)
      BY <1>2, <3>2, EncodingLength
    <3> QED BY <2>1, <3>1, <3>2
  <2> HIDE DEF t
  <2> QED BY <2>2
<1> HIDE DEF t
<1>7. i' = i + 1 /\ UNCHANGED <<prog, phase, addrs>> /\ mem' = Store(mem, addrs[i], t)
  BY <1>5 DEF Emit
<1>8. t = Trytes(prog, addrs, i)
  BY DEF t
<1> QED BY <1>1, <1>6, <1>7, <1>8, EmitImage

\* Pass 2 stores the elements of a data directive up to the first that means
\* nothing.
LEMMA DataImage ==
  ASSUME ImageInv, ScopeInv', Pass2Data
  PROVE  ImageInv'
<1> DEFINE item == prog[i]
           ops  == item.operands
           bad  == {k \in DOMAIN ops : ~Resolves(ops[k])}
           n    == Before(ops, bad)
           vals == [k \in 1 .. n |-> ValueOf(ops[k])]
           t    == DataTrytes(ElementSize(item.dir), vals)
           M(k) == Meaning(prog, addrs, i, ops[k])
<1>1. /\ At("pass2") /\ phase = "pass2" /\ i \in DOMAIN prog
      /\ IsDir(item, DataDirs) /\ item.kind = "directive" /\ item.dir \in DataDirs
  BY DEF Pass2Data, At, IsDir
<1>2. ScopeInv /\ ops \in Seq(Operand) /\ DOMAIN ops = 1 .. Len(ops) /\ Len(ops) \in Nat
  <2>1. ops \in Seq(Operand)
    BY <1>1, ItemAtHand DEF ImageInv, ScopeInv
  <2> QED BY <2>1 DEF ImageInv
<1>3. ASSUME NEW k \in DOMAIN ops
      PROVE  (k \notin bad <=> M(k) # {}) /\ (k \notin bad => The(M(k)) = ValueOf(ops[k]))
  <2>1. ops[k] \in Operand
    BY <1>2
  <2> QED BY <1>1, <1>2, <2>1, ResolvesToMeaning
<1>4. n \in 0 .. Len(ops) /\ {k \in DOMAIN ops : \A l \in 1 .. k : l \notin bad} = 1 .. n
  <2> HIDE DEF n
  <2>1. bad \in SUBSET DOMAIN ops
    OBVIOUS
  <2> QED BY <1>2, <2>1, BeforeType, BeforeIsPrefix DEF n
<1>5. {k \in DOMAIN ops : \A l \in 1 .. k : M(l) # {}} = 1 .. n
  <2>1. ASSUME NEW k \in DOMAIN ops, NEW l \in 1 .. k PROVE l \notin bad <=> M(l) # {}
    <3>1. l \in DOMAIN ops
      BY <1>2
    <3> QED BY <1>3, <3>1
  <2> HIDE DEF bad, n, M
  <2> QED BY <1>4, <2>1
<1>6. Trytes(prog, addrs, i) = t
  <2>1. \A k \in 1 .. n : The(M(k)) = ValueOf(ops[k])
    <3>1. ASSUME NEW k \in 1 .. n PROVE k \in DOMAIN ops /\ k \notin bad
      <4> HIDE DEF n, bad
      <4>1. k \in DOMAIN ops /\ \A l \in 1 .. k : l \notin bad
        BY <1>4
      <4>2. k \in 1 .. k
        BY <1>4
      <4> QED BY <4>1, <4>2
    <3> QED BY <1>3, <3>1
  <2>2. Elements(prog, addrs, i) = vals
    <3>1. Elements(prog, addrs, i)
            = [k \in {k \in DOMAIN ops : \A l \in 1 .. k : M(l) # {}} |-> The(M(k))]
      BY DEF Elements
    <3> HIDE DEF n, M
    <3> QED BY <1>5, <2>1, <3>1
  <2>3. Trytes(prog, addrs, i) = DataTrytes(ElementSize(item.dir), Elements(prog, addrs, i))
    BY <1>1, DataTrytesAt
  <2> HIDE DEF vals
  <2> QED BY <2>2, <2>3
<1>7. DOMAIN t = 1 .. Len(t) /\ Len(t) \in Nat
  <2>1. n \in Nat
    BY <1>2, <1>4
  <2>2. ElementSize(item.dir) * n \in Nat /\ Len(t) = ElementSize(item.dir) * n
    <3> HIDE DEF n
    <3> QED BY <1>1, <2>1, ElementSizeType, DataTrytesLength
  <2>3. DOMAIN t = 1 .. ElementSize(item.dir) * n
    <3>1. Len(vals) = n
      <4> HIDE DEF n
      <4> QED BY <2>1
    <3> HIDE DEF n, vals
    <3> QED BY <3>1 DEF DataTrytes
  <2> QED BY <2>2, <2>3
<1>8. i' = i + 1 /\ UNCHANGED <<prog, phase, addrs>> /\ mem' = Store(mem, addrs[i], t)
  BY DEF Pass2Data, Emit
<1> HIDE DEF t
<1> QED BY <1>1, <1>6, <1>7, <1>8, EmitImage

\* Pass 2 stores the strings of a %string up to the first that does not decode.
LEMMA StringImage ==
  ASSUME ImageInv, ScopeInv', Pass2String
  PROVE  ImageInv'
<1> DEFINE item == prog[i]
           ops  == item.operands
           bad  == BadStrings(item)
           n    == Before(ops, bad)
           t    == StringTrytes(ops, n)
<1>1. /\ At("pass2") /\ phase = "pass2" /\ i \in DOMAIN prog
      /\ IsDir(item, {"string"}) /\ item.kind = "directive" /\ ~IsDir(item, DataDirs)
  BY DEF Pass2String, At, IsDir, DataDirs
<1>2. ops \in Seq(Operand) /\ DOMAIN ops = 1 .. Len(ops) /\ Len(ops) \in Nat
      /\ bad \in SUBSET DOMAIN ops
  <2>1. ops \in Seq(Operand) /\ bad \in SUBSET DOMAIN ops
    BY <1>1, ItemAtHand, BadStringsType DEF ImageInv, ScopeInv
  <2> QED BY <2>1
<1>3. n \in 0 .. Len(ops) /\ {k \in DOMAIN ops : \A l \in 1 .. k : l \notin bad} = 1 .. n
  BY <1>2, BeforeType, BeforeIsPrefix
<1>4. {k \in DOMAIN ops : \A l \in 1 .. k : ops[l].good} = 1 .. n
  <2>1. ASSUME NEW k \in DOMAIN ops, NEW l \in 1 .. k PROVE l \notin bad <=> ops[l].good
    <3>1. l \in DOMAIN ops
      BY <1>2
    <3> QED BY <3>1 DEF BadStrings
  <2> HIDE DEF bad, n
  <2> QED BY <1>3, <2>1
<1>5. Cardinality(1 .. n) = n
  <2> HIDE DEF n
  <2> QED BY <1>2, <1>3, FS_Interval
<1>6. Trytes(prog, addrs, i) = t
  <2>1. Trytes(prog, addrs, i) = StringTrytes(ops, Cardinality(Strings(ops)))
    BY <1>1 DEF Trytes
  <2>2. Strings(ops) = 1 .. n
    BY <1>4 DEF Strings
  <2> HIDE DEF n
  <2> QED BY <1>5, <2>1, <2>2
<1>7. DOMAIN t = 1 .. Len(t) /\ Len(t) \in Nat
  <2>1. Len(t) = StringStart(ops, n + 1) /\ StringStart(ops, n + 1) \in Nat
    <3> HIDE DEF n
    <3> QED BY <1>2, <1>3, StringTrytesLength
  <2>2. DOMAIN t = 1 .. StringStart(ops, n + 1)
    BY DEF StringTrytes
  <2> QED BY <2>1, <2>2
<1>8. i' = i + 1 /\ UNCHANGED <<prog, phase, addrs>> /\ mem' = Store(mem, addrs[i], t)
  BY DEF Pass2String, Emit
<1> HIDE DEF t
<1> QED BY <1>1, <1>6, <1>7, <1>8, EmitImage

\* Between the passes nothing has been laid over anything.
LEMMA NothingLaid ==
  ASSUME NEW p, NEW f
  PROVE  Overlay(f, Out(p, f, 0)) = <<>>
<1> DEFINE out == Out(p, f, 0)
<1>1. DOMAIN out = {}
  BY DEF Out
<1> HIDE DEF out
<1>2. {{f[j] + k - 1 : k \in DOMAIN out[j]} : j \in DOMAIN out} = {}
  BY <1>1
<1>3. DOMAIN Overlay(f, out) = {} /\ Overlay(f, out) = [x \in {} |-> Overlay(f, out)[x]]
  BY <1>2 DEF Overlay
<1> QED BY <1>3 DEF out

\* Every turn of the two loops keeps to the placement and to the image.
LEMMA NextImage == ImageInv /\ [Next]_vars => ImageInv'
<1> SUFFICES ASSUME ImageInv, [Next]_vars PROVE ImageInv'
  OBVIOUS
<1>1. ScopeInv /\ ScopeInv' /\ TypeOK
  BY NextScopeInv DEF ImageInv, ScopeInv
<1>2. CASE Pass1Label
  <2>1. At("pass1") /\ Place(addr) /\ prog[i].kind = "label"
    BY <1>2 DEF Pass1Label
  <2>2. addr \in Nat /\ addr + 0 = addr
    BY <1>1 DEF TypeOK
  <2>3. addr \in Follows(prog[i], addr)
    BY <2>1, <2>2 DEF Follows, IsDir, ItemSize
  <2> QED BY <1>1, <2>1, <2>3, PlaceImage
<1>3. CASE Pass1Org
  <2>1. At("pass1") /\ IsDir(prog[i], {"org"})
    BY <1>3 DEF Pass1Org
  <2>2. \E next \in Follows(prog[i], addr) : Place(next)
    BY <1>3, <2>1 DEF Pass1Org, Follows, OrgTargets
  <2> QED BY <1>1, <2>1, <2>2, PlaceImage
<1>4. CASE Pass1Code
  <2>1. At("pass1") /\ Place(addr + ItemSize(prog[i])) /\ ~IsDir(prog[i], {"org"})
    BY <1>4 DEF Pass1Code, IsDir
  <2>2. addr + ItemSize(prog[i]) \in Follows(prog[i], addr)
    BY <2>1 DEF Follows
  <2> QED BY <1>1, <2>1, <2>2, PlaceImage
<1>5. CASE EndPass1
  <2>1. /\ phase = "pass1" /\ phase' # "pass1" /\ i' = 1 /\ mem' = mem
        /\ UNCHANGED <<prog, addrs>>
    BY <1>5 DEF EndPass1
  <2>2. mem' = Overlay(addrs, Out(prog, addrs, 0))
    BY <2>1, NothingLaid DEF ImageInv
  <2>3. i' - 1 = 0 /\ 1 .. 0 = {}
    BY <2>1
  <2> QED BY <1>1, <2>1, <2>2, <2>3 DEF ImageInv
<1>6. CASE Pass2Skip
  <2>1. /\ At("pass2") /\ phase = "pass2" /\ i \in DOMAIN prog /\ i' = i + 1
        /\ UNCHANGED <<prog, phase, addrs, mem>>
        /\ prog[i].kind = "label" \/ IsDir(prog[i], {"org"})
    BY <1>6 DEF Pass2Skip, At
  <2>2. prog[i].kind = "label" \/ IsDir(prog[i], Directives \ (DataDirs \union {"string"}))
    BY <2>1 DEF IsDir, Directives, DataDirs
  <2>3. Trytes(prog, addrs, i) = <<>>
    BY <1>1, <2>1, <2>2, NoTrytes
  <2>4. mem = [x \in DOMAIN mem |-> mem[x]]
    <3>1. mem = Overlay(addrs, Out(prog, addrs, i - 1))
      BY <2>1 DEF ImageInv
    <3> QED BY <3>1 DEF Overlay
  <2>5. addrs[i] \in Nat
    BY <1>1, <2>1 DEF TypeOK
  <2>6. mem' = Store(mem, addrs[i], <<>>)
    BY <2>1, <2>4, <2>5, StoreNothing
  <2>7. DOMAIN <<>> = 1 .. Len(<<>>) /\ Len(<<>>) \in Nat
    OBVIOUS
  <2> QED BY <1>1, <2>1, <2>3, <2>6, <2>7, EmitImage
<1>7. CASE Pass2Instr
  BY <1>1, <1>7, InstrImage
<1>8. CASE Pass2Data
  BY <1>1, <1>8, DataImage
<1>9. CASE Pass2String
  BY <1>1, <1>9, StringImage
<1>10. CASE Pass2Unsupported
  <2>1. /\ At("pass2") /\ i \in DOMAIN prog /\ i' = i + 1 /\ UNCHANGED <<prog, phase, addrs>>
        /\ mem' = Store(mem, addrs[i], <<>>)
        /\ IsDir(prog[i], BindingDirs \union {"extern", "section"})
    BY <1>10 DEF Pass2Unsupported, At, Emit
  <2>2. IsDir(prog[i], Directives \ (DataDirs \union {"string"}))
    BY <2>1 DEF IsDir, Directives, DataDirs, BindingDirs
  <2>3. Trytes(prog, addrs, i) = <<>>
    BY <1>1, <2>1, <2>2, NoTrytes
  <2>4. DOMAIN <<>> = 1 .. Len(<<>>) /\ Len(<<>>) \in Nat
    OBVIOUS
  <2> QED BY <1>1, <2>1, <2>3, <2>4, EmitImage
<1>11. CASE EndPass2
  <2>1. phase' = "done"
    BY <1>11 DEF EndPass2
  <2> QED BY <1>1, <2>1 DEF ImageInv
<1>12. CASE UNCHANGED vars
  <2>1. UNCHANGED <<prog, phase, i, addr, addrs, mem>>
    BY <1>12 DEF vars
  <2> QED BY <1>1, <2>1 DEF ImageInv, Placed
<1> QED BY <1>2, <1>3, <1>4, <1>5, <1>6, <1>7, <1>8, <1>9, <1>10, <1>11, <1>12 DEF Next

-----------------------------------------------------------------------------
(* Steps of the back end are steps of the promise *)

\* Assembling starts with a program that is neither laid out nor assembled.
LEMMA InitPromise == Init => Promise!ImageInit
BY DEF Init, Promise!ImageInit

\* Ending pass 1 lays the program out.
LEMMA LaysOut ==
  ASSUME ImageInv, EndPass1
  PROVE  Promise!LayOut
<1>1. /\ phase = "pass1" /\ phase' \in {"pass2", "failed"} /\ i \notin DOMAIN prog
      /\ UNCHANGED <<prog, addrs>>
  BY DEF EndPass1
<1>2. Placed(prog, addrs, i - 1, addr)
  BY <1>1 DEF ImageInv
<1>3. prog \in Seq(Item) /\ i \in 1 .. Len(prog) + 1 /\ addrs \in [DOMAIN prog -> Nat]
  BY DEF ImageInv, ScopeInv, TypeOK
<1>4. Len(prog) \in Nat /\ DOMAIN prog = 1 .. Len(prog) /\ i - 1 = Len(prog)
  BY <1>1, <1>3
<1>5. DOMAIN addrs = 1 .. Len(prog)
  BY <1>3, <1>4
<1>6. Placed(prog, addrs, Len(prog), addr)
  BY <1>2, <1>4
<1>7. IsPlacement(prog, addrs)
  BY <1>4, <1>5, <1>6, PlacedIsPlacement
<1> QED BY <1>1, <1>7 DEF Promise!LayOut

\* Ending pass 2 assembles it, if that leaves anything in memory.
LEMMA Assembles ==
  ASSUME ImageInv, EndPass2
  PROVE  Promise!Assemble \/ UNCHANGED Promise!ImageVars
<1>1. /\ phase = "pass2" /\ phase' = "done" /\ i \notin DOMAIN prog
      /\ UNCHANGED <<prog, addrs, mem>>
  BY DEF EndPass2
<1>2. mem = Overlay(addrs, Out(prog, addrs, i - 1))
  BY <1>1 DEF ImageInv
<1>3. prog \in Seq(Item) /\ i \in 1 .. Len(prog) + 1 /\ addrs \in [DOMAIN prog -> Nat]
  BY DEF ImageInv, ScopeInv, TypeOK
<1>4. Len(prog) \in Nat /\ DOMAIN prog = 1 .. Len(prog) /\ i - 1 = Len(prog)
      /\ DOMAIN addrs = DOMAIN prog
  BY <1>1, <1>3
<1>5. mem = Image(prog, addrs)
  BY <1>2, <1>4 DEF Out, Image
<1> QED BY <1>1, <1>4, <1>5 DEF Promise!Assemble, Promise!ImageVars

\* All the other steps are seen by nobody.
LEMMA StepPromise ==
  ASSUME ImageInv, [Next]_vars
  PROVE  [Promise!LayOut \/ Promise!Assemble]_Promise!ImageVars
<1>1. CASE EndPass1
  BY <1>1, LaysOut
<1>2. CASE EndPass2
  BY <1>2, Assembles
<1>3. CASE Pass1Label \/ Pass1Org \/ Pass1Code
  <2>1. phase = "pass1" /\ UNCHANGED <<prog, phase>>
    BY <1>3 DEF Pass1Label, Pass1Org, Pass1Code, Place, At
  <2> QED BY <2>1 DEF Promise!ImageVars
<1>4. CASE Pass2Skip \/ Pass2Instr \/ Pass2Data \/ Pass2String \/ Pass2Unsupported
  <2>1. phase = "pass2" /\ UNCHANGED <<prog, phase, addrs>>
    BY <1>4 DEF Pass2Skip, Pass2Instr, Pass2Data, Pass2String, Pass2Unsupported, Emit, At
  <2> QED BY <2>1 DEF Promise!ImageVars
<1>5. CASE UNCHANGED vars
  <2>1. UNCHANGED <<prog, phase, addrs, mem>>
    BY <1>5 DEF vars
  <2> QED BY <2>1 DEF Promise!ImageVars
<1> QED BY <1>1, <1>2, <1>3, <1>4, <1>5 DEF Next

\* The raw back end keeps the promise of RawImage: whatever the program, its
\* addresses are a placement of it and its memory, when assembling is done, is
\* the image it means there.  Two passes, the symbol table and the current
\* scope are only a way to get to it.
THEOREM RawImplementsImage == Spec => ImplementsImage
<1>1. ImageInv /\ [Next]_vars => [Promise!LayOut \/ Promise!Assemble]_Promise!ImageVars
  BY StepPromise
<1> QED BY <1>1, InitImage, NextImage, InitPromise, PTL
        DEF Spec, ImplementsImage, Promise!ImageSpec
=============================================================================
