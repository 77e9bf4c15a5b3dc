----------------------------- MODULE RawBackend -----------------------------
(***************************************************************************)
(* The raw back end (src/src/asm/backends/raw.c): two passes over the ASR  *)
(* buffer.  Pass 1 gives every item its address and collects the labels,   *)
(* pass 2 encodes instructions and data into the memory image.  Both       *)
(* passes track the scope of local labels, the last global label, anew.    *)
(*                                                                         *)
(* A step handles one item, as one turn of the loop of pass1() or pass2(). *)
(***************************************************************************)
EXTENDS RawMeaning

CONSTANT Programs  \* the programs that may be assembled

ASSUME RawAssumption ==
  /\ Programs \subseteq Seq(Item)
  /\ \A p \in Programs : \A j \in DOMAIN p : IsDir(p[j], {"string"}) =>
       \A k \in DOMAIN p[j].operands : p[j].operands[k].kind = "str"
  /\ Garbage \subseteq Nat

VARIABLES
  prog,         \* asr->items
  phase,        \* "pass1", "pass2", "done", or "failed" when NULL is returned
  i,            \* the item the loop is at
  scope,        \* as->current_scope_id
  addr,         \* pass 1's current_addr
  addrs,        \* as->item_addresses
  symbols,      \* as->symbols
  size,         \* the size the image is allocated with
  mem,          \* the trytes written, by address
  diags,        \* how many errors have been reported for each item
  error_count   \* diag->error_count

vars == <<prog, phase, i, scope, addr, addrs, symbols, size, mem, diags, error_count>>

\* tasm_report_error prints, and leaves error_count as it is.
Counted(n) == 0

Init ==
  /\ prog \in Programs
  /\ phase = "pass1"
  /\ i = 1
  /\ scope = NoItem
  /\ addr = 0
  /\ addrs = [j \in DOMAIN prog |-> 0]
  /\ symbols = <<>>
  /\ size = 0
  /\ mem = <<>>
  /\ diags = [j \in DOMAIN prog |-> 0]
  /\ error_count = 0

At(p) == phase = p /\ i \in DOMAIN prog

Report(n) == /\ diags' = [diags EXCEPT ![i] = @ + n]
             /\ error_count' = error_count + Counted(n)

-----------------------------------------------------------------------------
(* Pass 1. *)

\* Mutation of Place: the address is appended to the array already allocated.
PlaceAppended(next) ==
  /\ addrs' = Append(addrs, addr)
  /\ addr' = next
  /\ i' = i + 1
  /\ UNCHANGED <<prog, phase, size, mem>>

\* Every turn of the loop records the item's address; next is where it ends.
Place(next) ==
  /\ addrs' = [addrs EXCEPT ![i] = addr]
  /\ addr' = next
  /\ i' = i + 1
  /\ UNCHANGED <<prog, phase, size, mem>>

Pass1Label ==
  /\ At("pass1") /\ prog[i].kind = "label"
  /\ scope' = IF prog[i].is_local THEN scope ELSE i
  /\ symbols' = Append(symbols,
       [name |-> prog[i].name, id |-> i, is_local |-> prog[i].is_local,
        parent |-> IF prog[i].is_local THEN scope ELSE NoItem])
  /\ Place(addr)
  /\ UNCHANGED <<diags, error_count>>

\* The operand is taken as an integer whatever its kind.
OrgTargets(op) == IF IsImm(op) THEN {op.val} ELSE Garbage

Pass1Org ==
  /\ At("pass1") /\ IsDir(prog[i], {"org"})
  /\ IF Len(prog[i].operands) = 1
     THEN /\ \E target \in OrgTargets(prog[i].operands[1]) : Place(target)
          /\ Report(0)
     ELSE Place(addr) /\ Report(1)
  /\ UNCHANGED <<scope, symbols>>

\* A string that does not decode is reported while its directive is measured.
BadStrings(item) == {k \in DOMAIN item.operands : ~item.operands[k].good}

MeasuringErrors(item) ==
  IF item.kind = "instr"
  THEN IF InstrFormat(item) = "rejected" THEN 1 ELSE 0
  ELSE IF item.dir = "string" THEN Cardinality(BadStrings(item)) ELSE 0

Pass1Code ==
  /\ At("pass1")
  /\ prog[i].kind = "instr" \/ IsDir(prog[i], Directives \ {"org"})
  /\ Place(addr + ItemSize(prog[i]))
  /\ Report(MeasuringErrors(prog[i]))
  /\ UNCHANGED <<scope, symbols>>

\* Mutation of EndPass1: the scope pass 1 ends in is the one pass 2 starts in.
EndPass1KeepsScope ==
  /\ phase = "pass1" /\ i \notin DOMAIN prog
  /\ phase' = IF error_count > 0 THEN "failed" ELSE "pass2"
  /\ size' = addr
  /\ i' = 1
  /\ UNCHANGED <<prog, scope, addr, addrs, symbols, mem, diags, error_count>>

\* Mutation of EndPass1: the last item is left out of the size.
EndPass1BeforeLast ==
  /\ phase = "pass1" /\ i \notin DOMAIN prog
  /\ phase' = IF error_count > 0 THEN "failed" ELSE "pass2"
  /\ size' = IF prog = <<>> THEN 0 ELSE addrs[Len(prog)]
  /\ i' = 1
  /\ scope' = NoItem
  /\ UNCHANGED <<prog, addr, addrs, symbols, mem, diags, error_count>>

\* Between the passes: give up on errors, else allocate the image.
EndPass1 ==
  /\ phase = "pass1" /\ i \notin DOMAIN prog
  /\ phase' = IF error_count > 0 THEN "failed" ELSE "pass2"
  /\ size' = addr
  /\ i' = 1
  /\ scope' = NoItem
  /\ UNCHANGED <<prog, addr, addrs, symbols, mem, diags, error_count>>

-----------------------------------------------------------------------------
(* Resolving operands. *)

\* Mutation of SymbolMatches: local labels are looked up whatever their scope.
SymbolMatchesAnywhere(s, name, is_local) == s.name = name /\ s.is_local = is_local

SymbolMatches(s, name, is_local) ==
  /\ s.name = name
  /\ s.is_local = is_local
  /\ is_local => s.parent = scope

\* The item that defines a label, as seen from the current scope: the first
\* symbol that matches.
FindSymbol(name, is_local) ==
  LET hits == {k \in DOMAIN symbols : SymbolMatches(symbols[k], name, is_local)}
  IN  IF hits = {} THEN NoItem
      ELSE symbols[CHOOSE k \in hits : \A l \in hits : k <= l].id

IsUndefined(op) == IsLabel(op) /\ FindSymbol(op.name, op.is_local) = NoItem

Resolves(op) == IsImm(op) \/ (IsLabel(op) /\ ~IsUndefined(op))

ValueOf(op) == IF IsImm(op) THEN op.val ELSE addrs[FindSymbol(op.name, op.is_local)]

-----------------------------------------------------------------------------
(* Pass 2. *)

\* Trytes stored from address a on.
Store(m, a, trytes) ==
  [x \in DOMAIN m \union (a .. a + Len(trytes) - 1) |->
     IF x \in a .. a + Len(trytes) - 1 THEN trytes[x - a + 1] ELSE m[x]]

\* Every turn of the loop stores what the item comes to.
Emit(trytes, errors) ==
  /\ mem' = Store(mem, addrs[i], trytes)
  /\ Report(errors)
  /\ i' = i + 1
  /\ UNCHANGED <<prog, phase, scope, addr, addrs, symbols, size>>

Pass2Skip ==
  /\ At("pass2")
  /\ prog[i].kind = "label" \/ IsDir(prog[i], {"org"})
  /\ scope' = IF IsGlobalLabel(prog[i]) THEN i ELSE scope
  /\ i' = i + 1
  /\ UNCHANGED <<prog, phase, addr, addrs, symbols, size, mem, diags, error_count>>

\* Mutation of Pass2Instr: validation is given the diagnostics engine again.
Pass2InstrReporting ==
  /\ At("pass2") /\ prog[i].kind = "instr"
  /\ LET op == ImmOperand(prog[i])
     IN  IF ~IsValid(prog[i])
         THEN Emit(<<>>, IF InstrFormat(prog[i]) = "rejected" THEN 1 ELSE 0)
         ELSE IF op = NoOperand THEN Emit(Encoding(prog[i], StepImmediate), 0)
         ELSE IF Resolves(op) THEN Emit(Encoding(prog[i], ValueOf(op)), 0)
         ELSE Emit(<<>>, IF IsUndefined(op) THEN 1 ELSE 0)

\* Validation is silent this time; only the resolver reports.
Pass2Instr ==
  /\ At("pass2") /\ prog[i].kind = "instr"
  /\ LET op == ImmOperand(prog[i])
     IN  IF ~IsValid(prog[i]) THEN Emit(<<>>, 0)
         ELSE IF op = NoOperand THEN Emit(Encoding(prog[i], StepImmediate), 0)
         ELSE IF Resolves(op) THEN Emit(Encoding(prog[i], ValueOf(op)), 0)
         ELSE Emit(<<>>, IF IsUndefined(op) THEN 1 ELSE 0)

\* How many operands come before the first one that is in bad.
Before(ops, bad) ==
  IF bad = {} THEN Len(ops) ELSE (CHOOSE k \in bad : \A l \in bad : k <= l) - 1

\* Elements are stored up to the first that does not resolve.
Pass2Data ==
  /\ At("pass2") /\ IsDir(prog[i], DataDirs)
  /\ LET ops  == prog[i].operands
         bad  == {k \in DOMAIN ops : ~Resolves(ops[k])}
         n    == Before(ops, bad)
         vals == [k \in 1 .. n |-> ValueOf(ops[k])]
     IN  Emit(DataTrytes(ElementSize(prog[i].dir), vals),
              IF n < Len(ops) /\ IsUndefined(ops[n + 1]) THEN 1 ELSE 0)

\* Mutation of Pass2String: the loop ends one string early.
Pass2StringButLast ==
  /\ At("pass2") /\ IsDir(prog[i], {"string"})
  /\ LET ops == prog[i].operands
         n   == Before(ops, BadStrings(prog[i]) \union {Len(ops)})
     IN  Emit(StringTrytes(ops, n), IF n + 1 \in BadStrings(prog[i]) THEN 1 ELSE 0)

\* Strings are stored up to the first that does not decode, which is reported again.
Pass2String ==
  /\ At("pass2") /\ IsDir(prog[i], {"string"})
  /\ LET n == Before(prog[i].operands, BadStrings(prog[i]))
     IN  Emit(StringTrytes(prog[i].operands, n),
              IF n < Len(prog[i].operands) THEN 1 ELSE 0)

\* "directive unsupported in raw mode"
Pass2Unsupported ==
  /\ At("pass2") /\ IsDir(prog[i], BindingDirs \union {"extern", "section"})
  /\ Emit(<<>>, 1)

EndPass2 ==
  /\ phase = "pass2" /\ i \notin DOMAIN prog
  /\ phase' = "done"
  /\ UNCHANGED <<prog, i, scope, addr, addrs, symbols, size, mem, diags, error_count>>

Next ==
  \/ Pass1Label \/ Pass1Org \/ Pass1Code \/ EndPass1
  \/ Pass2Skip \/ Pass2Instr \/ Pass2Data \/ Pass2String \/ Pass2Unsupported
  \/ EndPass2

Spec == Init /\ [][Next]_vars

-----------------------------------------------------------------------------
(* Properties *)

Symbol == [name : STRING, id : Nat, is_local : BOOLEAN, parent : Nat]

TypeOK ==
  /\ prog \in Seq(Item)
  /\ phase \in {"pass1", "pass2", "done", "failed"}
  /\ i \in 1 .. Len(prog) + 1
  /\ scope \in 0 .. Len(prog)
  /\ addr \in Nat
  /\ addrs \in [DOMAIN prog -> Nat]
  /\ symbols \in Seq(Symbol)
  /\ size \in Nat
  /\ DOMAIN mem \subseteq Nat
  /\ diags \in [DOMAIN prog -> Nat]
  /\ error_count \in Nat

\* The two passes and the symbol table deliver what RawImage promises: at the
\* end, the image of the program, laid out as pass 1 did.
Promise == INSTANCE RawImage WITH
             place <- IF phase = "pass1" THEN <<>> ELSE addrs,
             image <- IF phase = "done" THEN mem ELSE <<>>

ImplementsImage == Promise!ImageSpec

\* In pass 2 a label operand of the item at hand is resolved to the label it
\* means: pass 2 finds itself in the scope pass 1 recorded the symbols under,
\* forward references included, and reports as undefined exactly the labels
\* that mean nothing.
LabelsMeanTheirScope ==
  At("pass2") /\ prog[i].kind # "label" =>
    \A k \in DOMAIN prog[i].operands :
      LET op == prog[i].operands[k]
      IN  IsLabel(op) =>
            LET d == FindSymbol(op.name, op.is_local)
            IN  IF d = NoItem THEN Candidates(prog, i, op.name, op.is_local) = {}
                ELSE IsMeant(prog, i, op.name, op.is_local, d)

\* Pass 2 stores only into the space pass 1 reserved for the item at hand:
\* string operands that do not decode, unresolved elements and rejected
\* instructions may leave it unfilled but never make it overflow.
Extent(j) == addrs[j] .. addrs[j] + ItemSize(prog[j]) - 1

StoresStayInExtent ==
  [][phase = "pass2" /\ mem' # mem =>
       \A x \in DOMAIN mem' : x \in Extent(i) \/ (x \in DOMAIN mem /\ mem'[x] = mem[x])]_vars

\* Without %org no tryte is ever stored over another.
NothingOverwritten ==
  [][(\A j \in DOMAIN prog : ~IsDir(prog[j], {"org"})) =>
       \A x \in DOMAIN mem : x \in DOMAIN mem' /\ mem'[x] = mem[x]]_vars

\* If no %org goes backward, all stores fall inside the image.  (pass1 returns
\* the address it ends at as the size, not the highest one it has seen, so
\* with a backward %org this does not hold.)
NeverBackward ==
  \A j \in DOMAIN prog : addrs[j] <= IF j = Len(prog) THEN size ELSE addrs[j + 1]

StoresFitImage ==
  phase \in {"pass2", "done"} /\ NeverBackward => DOMAIN mem \subseteq 0 .. size - 1

\* One mistake in an instruction, one diagnostic over both passes (raw.c:190:
\* "passing NULL here fixes double-diagnostics problem").
InstrDiagnosedOnce ==
  \A j \in DOMAIN prog : prog[j].kind = "instr" => diags[j] <= 1

\* Operands that no resolver makes a value of and none reports: a string outside
\* %string, and a register where data is wanted.
HasValuelessOperand(item) ==
  \E k \in DOMAIN item.operands :
    \/ item.operands[k].kind = "str" /\ ~IsDir(item, {"string"})
    \/ IsReg(item.operands[k]) /\ IsDir(item, DataDirs)

\* A gap in the image has been reported: an item whose whole extent was not
\* stored has a diagnostic of its own, or it is an instruction or a data
\* directive with an operand without a value.  A %string, and a data directive
\* of labels, never stops half way in silence.
\* (A store beyond the image, after a backward %org, counts as made.)
GapsAreReported ==
  phase = "done" =>
    \A j \in DOMAIN prog :
      Extent(j) \subseteq DOMAIN mem \/ diags[j] > 0 \/ HasValuelessOperand(prog[j])
=============================================================================
