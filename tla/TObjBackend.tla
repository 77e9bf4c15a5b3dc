---------------------------- MODULE TObjBackend ----------------------------
(***************************************************************************)
(* The object back end (src/src/asm/backends/tobj.c): three passes over    *)
(* the ASR buffer.  Pass 1 places every item in a section and records the  *)
(* scope of local labels, pass 2 enters sections and symbols into the      *)
(* object builder and applies binding directives, pass 3 fills the         *)
(* sections and records relocations.  The object builder (tobj) is an      *)
(* external library: three lists that are appended to.                     *)
(*                                                                         *)
(* A step handles one item, as one turn of the loop of a pass.             *)
(***************************************************************************)
EXTENDS RawMeaning

CONSTANT Programs  \* the programs that may be assembled

ASSUME TObjAssumption ==
  /\ Programs \subseteq Seq(Item)
  /\ \A p \in Programs : \A j \in DOMAIN p : p[j].kind = "directive" =>
       \A k \in DOMAIN p[j].operands :
         /\ p[j].dir = "string"  => p[j].operands[k].kind = "str"
         /\ p[j].dir = "section" => p[j].operands[k].kind # "str"
  /\ Garbage \subseteq Nat

\* SENTINEL, for section and symbol indices, which count from 1 here.
None == 0

VARIABLES
  prog,         \* asr->items
  phase,        \* "pass1", "pass2", "pass3", "done" or "failed"
  i,            \* the item the loop is at
  section,      \* as->current_section_idx
  global,       \* as->current_global_idx
  offset,       \* pass 1's current_offset
  ends,         \* pass 1's section_offsets, by section; its length is section_count
  addrs,        \* as->item_addrs: section and offset
  sec_map,      \* as->sec_map: the section a %section item selects
  sym_map,      \* as->sym_map: what is known of each label item
  secs,         \* bldr.sections: name and data
  syms,         \* bldr.symbols: name, place, binding
  relocs,       \* bldr.relocs
  diags,        \* how many errors have been reported for each item
  error_count   \* diag->error_count

pass1vars == <<offset, ends, addrs, sec_map>>
vars == <<prog, phase, i, section, global, offset, ends, addrs, sec_map,
          sym_map, secs, syms, relocs, diags, error_count>>

\* tasm_report_error prints, and leaves error_count as it is.
Counted(n) == 0

Init ==
  /\ prog \in Programs
  /\ phase = "pass1"
  /\ i = 1
  /\ section = None /\ global = NoItem /\ offset = 0
  /\ ends = <<>>
  /\ addrs = [j \in DOMAIN prog |-> [section |-> None, offset |-> 0]]
  /\ sec_map = [j \in DOMAIN prog |-> None]
  /\ sym_map = [j \in DOMAIN prog |-> [sym |-> None, parent |-> NoItem,
                                       specified |-> FALSE, binding |-> "local"]]
  /\ secs = <<>> /\ syms = <<>> /\ relocs = <<>>
  /\ diags = [j \in DOMAIN prog |-> 0]
  /\ error_count = 0

At(p) == phase = p /\ i \in DOMAIN prog

\* Mutation of Report: the diagnostics engine is not at hand.
ReportNothing(n) == UNCHANGED <<diags, error_count>>

Report(n) == /\ diags' = [diags EXCEPT ![i] = @ + n]
             /\ error_count' = error_count + Counted(n)

\* The turn is over.
Advance == i' = i + 1 /\ UNCHANGED <<prog, phase>>

\* Mutation of StartPass: the loop counts from one too low.
StartPassTooLow(p) ==
  /\ phase' = p /\ i' = 0
  /\ global' = NoItem
  /\ UNCHANGED <<prog, pass1vars, sym_map, secs, syms, relocs, diags, error_count>>

\* The pass is over; the next one starts again from the first item, in no scope.
StartPass(p) ==
  /\ phase' = p /\ i' = 1
  /\ global' = NoItem
  /\ UNCHANGED <<prog, pass1vars, sym_map, secs, syms, relocs, diags, error_count>>

-----------------------------------------------------------------------------
(* Pass 1: places. *)

SectionName(item) ==
  IF item.operands # <<>> /\ IsLabel(item.operands[1]) THEN item.operands[1].name
  ELSE ".data"

IsSection(j) == IsDir(prog[j], {"section"})

\* The item lies at offset at of section sec and the next one at next; what
\* comes before any section is placed nowhere.
Place(sec, at, next) ==
  /\ section' = sec
  /\ addrs' = [addrs EXCEPT ![i] = [section |-> sec, offset |-> at]]
  /\ offset' = next
  /\ ends' = IF sec = None THEN ends
             ELSE [s \in DOMAIN ends \union {sec} |-> IF s = sec THEN next ELSE ends[s]]
  /\ Advance
  /\ UNCHANGED <<secs, syms, relocs>>

\* Mutation of NamedSection: every %section opens a new section.
FreshSection == Len(ends) + 1

First(S) == CHOOSE j \in S : \A k \in S : j <= k

\* The section that the %section at hand names: the earlier one of that name or a new one.
NamedSection ==
  LET same == {j \in 1 .. i - 1 :
                 IsSection(j) /\ SectionName(prog[j]) = SectionName(prog[i])}
  IN  IF same = {} THEN Len(ends) + 1 ELSE sec_map[First(same)]

\* Mutation of LeftOff: a section taken up again starts anew.
NeverLeftOff(sec) == 0

\* %section takes up where an earlier one of the same name has left off.
LeftOff(sec) == IF sec \in DOMAIN ends THEN ends[sec] ELSE 0

Pass1Section ==
  /\ At("pass1") /\ IsSection(i)
  /\ sec_map' = [sec_map EXCEPT ![i] = NamedSection]
  /\ Place(NamedSection, LeftOff(NamedSection), LeftOff(NamedSection))
  /\ UNCHANGED <<global, sym_map, diags, error_count>>

Pass1Label ==
  /\ At("pass1") /\ prog[i].kind = "label"
  /\ IF prog[i].is_local
     THEN /\ sym_map' = [sym_map EXCEPT ![i].parent = global]
          /\ UNCHANGED global
     ELSE global' = i /\ UNCHANGED sym_map
  /\ Place(section, offset, offset)
  /\ UNCHANGED <<sec_map, diags, error_count>>

\* "instruction or data directive used before %section"
OutsideErrors == IF section = None THEN 1 ELSE 0

\* The operand is taken as an integer whatever its kind.
OrgTargets(op) == IF IsImm(op) THEN {op.val} ELSE Garbage

Pass1Org ==
  /\ At("pass1") /\ IsDir(prog[i], {"org"})
  /\ IF Len(prog[i].operands) = 1
     THEN /\ \E at \in OrgTargets(prog[i].operands[1]) : Place(section, at, at)
          /\ Report(OutsideErrors)
     ELSE Place(section, offset, offset) /\ Report(OutsideErrors + 1)
  /\ UNCHANGED <<global, sec_map, sym_map>>

BadStrings(item) == {k \in DOMAIN item.operands : ~item.operands[k].good}
NonLabels(item)  == {k \in DOMAIN item.operands : ~IsLabel(item.operands[k])}

Pass1Errors(item) ==
  IF item.kind = "instr"
    THEN OutsideErrors + IF InstrFormat(item) = "rejected" THEN 1 ELSE 0
  ELSE IF item.dir \in DataDirs THEN OutsideErrors
  ELSE IF item.dir = "string" THEN OutsideErrors + Cardinality(BadStrings(item))
  ELSE IF item.dir \in BindingDirs THEN Cardinality(NonLabels(item))
  ELSE 0

Pass1Code ==
  /\ At("pass1")
  /\ prog[i].kind = "instr" \/ IsDir(prog[i], Directives \ {"org", "section"})
  /\ Place(section, offset, offset + ItemSize(prog[i]))
  /\ Report(Pass1Errors(prog[i]))
  /\ UNCHANGED <<global, sec_map, sym_map>>

EndPass1 ==
  /\ phase = "pass1" /\ i \notin DOMAIN prog
  /\ StartPass(IF error_count > 0 THEN "failed" ELSE "pass2")
  /\ section' = None

-----------------------------------------------------------------------------
(* Pass 2: sections, symbols and bindings. *)

\* A section is entered into the builder at its first %section.
Pass2Section ==
  /\ At("pass2") /\ IsSection(i)
  /\ section' = sec_map[i]
  /\ secs' = IF \E j \in 1 .. i - 1 : IsSection(j) /\ sec_map[j] = sec_map[i] THEN secs
             ELSE Append(secs, [name |-> SectionName(prog[i]), data |-> <<>>])
  /\ Advance
  /\ UNCHANGED <<global, pass1vars, sym_map, syms, relocs, diags, error_count>>

\* The symbol of a local label is named after its global label.
SymbolName(label, parent) ==
  IF ~label.is_local \/ parent = NoItem THEN <<label.name>>
  ELSE <<prog[parent].name, label.name>>

Pass2Label ==
  /\ At("pass2") /\ prog[i].kind = "label"
  /\ global' = IF prog[i].is_local THEN global ELSE i
  /\ LET parent  == IF prog[i].is_local THEN global ELSE NoItem
         binding == IF sym_map[i].specified THEN sym_map[i].binding ELSE "local"
     IN  IF addrs[i].section = None
         THEN Report(1) /\ UNCHANGED <<syms, sym_map>>
         ELSE /\ syms' = Append(syms,
                   [name |-> SymbolName(prog[i], parent), section |-> addrs[i].section,
                    offset |-> addrs[i].offset, binding |-> binding])
              /\ sym_map' = [sym_map EXCEPT ![i] =
                   [sym |-> Len(syms) + 1, parent |-> parent,
                    specified |-> @.specified, binding |-> binding]]
              /\ Report(0)
  /\ Advance
  /\ UNCHANGED <<section, pass1vars, secs, relocs>>

LabelIndices(item) == {k \in DOMAIN item.operands : IsLabel(item.operands[k])}

\* The r-th of a set of operands, as a loop over all of them comes by it.
Nth(K, r) == CHOOSE k \in K : Cardinality({l \in K : l < k}) = r - 1

Pass2Extern ==
  /\ At("pass2") /\ IsDir(prog[i], {"extern"})
  /\ LET labels == LabelIndices(prog[i])
     IN  syms' = syms \o [r \in 1 .. Cardinality(labels) |->
                   [name |-> <<prog[i].operands[Nth(labels, r)].name>>, section |-> None,
                    offset |-> 0, binding |-> "global"]]
  /\ Advance
  /\ UNCHANGED <<section, global, pass1vars, sym_map, secs, relocs, diags, error_count>>

\* Mutation of LabelItems: the scope is not asked for.
LabelItemsAnywhere(name, is_local) ==
  {j \in DOMAIN prog : prog[j].kind = "label" /\ prog[j].name = name /\ prog[j].is_local = is_local}

\* The label items of this name that are in the current scope.
LabelItems(name, is_local) ==
  {j \in DOMAIN prog : /\ prog[j].kind = "label"
                       /\ prog[j].name = name
                       /\ prog[j].is_local = is_local
                       /\ is_local => sym_map[j].parent = global}

\* Mutation of Contradicts: the last directive wins.
LastOneWins(m, binding) == FALSE

\* The label of which m is known has been given another binding before.
Contradicts(m, binding) == m.specified /\ m.binding # binding

\* update_symbol_binding for each operand: the first label item of the name is
\* bound, and its symbol too if it has one already; a name that is not defined
\* is passed over.
Pass2Binding ==
  /\ At("pass2") /\ IsDir(prog[i], BindingDirs)
  /\ LET binding == prog[i].dir
         ops     == prog[i].operands
         target(k) == LabelItems(ops[k].name, ops[k].is_local)
         found   == {k \in LabelIndices(prog[i]) : target(k) # {}}
         clash   == {k \in found : Contradicts(sym_map[First(target(k))], binding)}
         bound   == {First(target(k)) : k \in found \ clash}
     IN  /\ sym_map' = [j \in DOMAIN sym_map |->
               IF j \in bound THEN [sym_map[j] EXCEPT !.specified = TRUE, !.binding = binding]
               ELSE sym_map[j]]
         /\ syms' = [s \in DOMAIN syms |->
               IF \E j \in bound : sym_map[j].sym = s
               THEN [syms[s] EXCEPT !.binding = binding] ELSE syms[s]]
         /\ Report(Cardinality(clash))
  /\ Advance
  /\ UNCHANGED <<section, global, pass1vars, secs, relocs>>

Pass2Skip ==
  /\ At("pass2")
  /\ prog[i].kind = "instr" \/ IsDir(prog[i], DataDirs \union {"string", "org"})
  /\ Advance
  /\ UNCHANGED <<section, global, pass1vars, sym_map, secs, syms, relocs, diags, error_count>>

EndPass2 ==
  /\ phase = "pass2" /\ i \notin DOMAIN prog
  /\ StartPass("pass3")
  /\ UNCHANGED section

-----------------------------------------------------------------------------
(* Pass 3: data and relocations. *)

\* Mutation of FindSymbol: symbols are found by name alone.
FindSymbolByName(name, is_local) ==
  LET named == {s \in DOMAIN syms : syms[s].name = <<name>>}
  IN  IF named # {} THEN First(named) ELSE None

\* find_symbol_index: the symbol of the first label item that matches, or else,
\* the item's scope notwithstanding, any symbol of that name.
FindSymbol(name, is_local) ==
  LET items == LabelItems(name, is_local)
      named == {s \in DOMAIN syms : syms[s].name = <<name>>}
  IN  IF items # {} THEN sym_map[First(items)].sym
      ELSE IF named # {} THEN First(named) ELSE None

\* The trytes from offset at on are replaced, and the section padded up to there.
Write(data, at, trytes) ==
  LET end == at + Len(trytes)
  IN  [x \in 1 .. (IF Len(data) > end THEN Len(data) ELSE end) |->
         IF at < x /\ x <= end THEN trytes[x - at]
         ELSE IF x <= Len(data) THEN data[x] ELSE [pad |-> 0]]

\* The item at hand writes trytes, and the operands in labels, label operands all,
\* are relocated at the given distances from its start, all of them by the type
\* TOBJ_RELOC_ABS.  The object's record is section, offset, sym and type; item and
\* operand are history, for the properties, and linking does not look at them.
Fill(trytes, labels, distance) ==
  LET a == addrs[i]
      sym(k) == FindSymbol(prog[i].operands[k].name, prog[i].operands[k].is_local)
      known == {k \in labels : sym(k) # None}
      reloc(k) == [section |-> a.section, offset |-> a.offset + distance[k],
                   sym |-> sym(k), type |-> "abs", item |-> i, operand |-> k]
  IN  /\ secs' = [secs EXCEPT ![a.section].data = Write(@, a.offset, trytes)]
      /\ relocs' = relocs \o [r \in 1 .. Cardinality(known) |-> reloc(Nth(known, r))]
      /\ Report(Cardinality(labels \ known))

Filled == Advance /\ UNCHANGED <<section, global, pass1vars, sym_map, syms>>

\* What lies outside all sections is left out, its scopes included.
Pass3Outside ==
  /\ At("pass3") /\ addrs[i].section = None
  /\ Filled /\ UNCHANGED <<secs, relocs, diags, error_count>>

In(kind) == At("pass3") /\ addrs[i].section # None /\ prog[i].kind = kind

Pass3Label ==
  /\ In("label")
  /\ global' = IF prog[i].is_local THEN global ELSE i
  /\ Advance
  /\ UNCHANGED <<section, pass1vars, sym_map, secs, syms, relocs, diags, error_count>>

\* Labels are encoded as 0; every label operand gets a relocation.
Pass3Instr ==
  /\ In("instr")
  /\ LET op == ImmOperand(prog[i])
         resolves == op = NoOperand \/ IsImm(op) \/ IsLabel(op)
         val == IF op = NoOperand THEN StepImmediate ELSE IF IsImm(op) THEN op.val ELSE 0
     IN  IF IsValid(prog[i]) /\ resolves
         THEN Fill(Encoding(prog[i], val), LabelIndices(prog[i]),
                   [k \in DOMAIN prog[i].operands |-> ImmOffset(prog[i])])
         ELSE UNCHANGED <<secs, relocs, diags, error_count>>
  /\ Filled

\* An element that is neither literal nor label is stored as 12345.
DataWords(item) ==
  LET n == ElementSize(item.dir)
      op(k) == item.operands[k]
  IN  [c \in 1 .. n * Len(item.operands) |->
         LET k == ((c - 1) \div n) + 1
             t == ((c - 1) % n) + 1
         IN  IF IsLabel(op(k)) THEN [placeholder |-> n, k |-> t]
             ELSE [val |-> IF IsImm(op(k)) THEN op(k).val ELSE 12345, k |-> t]]

Pass3Data ==
  /\ In("directive") /\ prog[i].dir \in DataDirs
  /\ Fill(DataWords(prog[i]), LabelIndices(prog[i]),
          [k \in DOMAIN prog[i].operands |-> (k - 1) * ElementSize(prog[i].dir)])
  /\ Filled

\* All operands of a %string are written from the item's start, up to the
\* first that does not decode.
Pass3String ==
  /\ In("directive") /\ prog[i].dir = "string"
  /\ LET ops  == prog[i].operands
         bad  == BadStrings(prog[i])
         n    == IF bad = {} THEN Len(ops) ELSE First(bad) - 1
         a    == addrs[i]
         last(c) == CHOOSE k \in 1 .. n : /\ c <= Len(ops[k].chars)
                                          /\ \A l \in k + 1 .. n : Len(ops[l].chars) < c
         covered == UNION {1 .. Len(ops[k].chars) : k \in 1 .. n}
         trytes  == [c \in 1 .. Cardinality(covered) |->
                       [val |-> ops[last(c)].chars[c], k |-> 1]]
     IN  /\ secs' = [secs EXCEPT ![a.section].data = Write(@, a.offset, trytes)]
         /\ Report(IF bad = {} THEN 0 ELSE 1)
  /\ Filled /\ UNCHANGED relocs

\* The other directives only pad their section up to where they stand.
Pass3Pad ==
  /\ In("directive") /\ prog[i].dir \in Directives \ (DataDirs \union {"string"})
  /\ Fill(<<>>, {}, <<>>)
  /\ Filled

EndPass3 ==
  /\ phase = "pass3" /\ i \notin DOMAIN prog
  /\ phase' = "done"
  /\ UNCHANGED <<prog, i, section, global, pass1vars, sym_map, secs, syms, relocs,
                 diags, error_count>>

Next ==
  \/ Pass1Section \/ Pass1Label \/ Pass1Org \/ Pass1Code \/ EndPass1
  \/ Pass2Section \/ Pass2Label \/ Pass2Extern \/ Pass2Binding \/ Pass2Skip \/ EndPass2
  \/ Pass3Outside \/ Pass3Label \/ Pass3Instr \/ Pass3Data \/ Pass3String \/ Pass3Pad
  \/ EndPass3

Spec == Init /\ [][Next]_vars

-----------------------------------------------------------------------------
(* Properties *)

Placement == [section : Nat, offset : Nat]
Symbol    == [name : Seq(STRING), section : Nat, offset : Nat, binding : BindingDirs]
Reloc     == [section : Nat, offset : Nat, sym : Nat, type : {"abs"},
              item : Nat, operand : Nat]

TypeOK ==
  /\ prog \in Seq(Item)
  /\ phase \in {"pass1", "pass2", "pass3", "done", "failed"}
  /\ i \in 1 .. Len(prog) + 1
  /\ section \in 0 .. Len(ends) /\ global \in 0 .. Len(prog) /\ offset \in Nat
  /\ ends \in Seq(Nat)
  /\ addrs \in [DOMAIN prog -> Placement]
  /\ sec_map \in [DOMAIN prog -> 0 .. Len(ends)]
  /\ sym_map \in [DOMAIN prog -> [sym : 0 .. Len(syms), parent : 0 .. Len(prog),
                                  specified : BOOLEAN, binding : BindingDirs]]
  /\ Len(secs) <= Len(ends)
  /\ syms \in Seq(Symbol) /\ relocs \in Seq(Reloc)
  /\ \A r \in DOMAIN relocs : /\ relocs[r].section \in DOMAIN secs
                              /\ relocs[r].sym \in DOMAIN syms
  /\ diags \in [DOMAIN prog -> Nat] /\ error_count \in Nat

HasOrg == \E j \in DOMAIN prog : IsDir(prog[j], {"org"})

\* The section numbers pass 1 hands out by name are the positions at which
\* pass 2, which compares numbers, enters the sections into the builder: what
\* pass 3 addresses as section s is the section that was placed as s.
SectionsAgree ==
  \A j \in DOMAIN prog :
    IsSection(j) /\ ((phase = "pass2" /\ j < i) \/ phase \in {"pass3", "done"}) =>
      /\ sec_map[j] \in DOMAIN secs
      /\ \A s \in DOMAIN secs : secs[s].name = SectionName(prog[j]) <=> s = sec_map[j]

\* A section that is left and taken up again continues where it was: pass 3
\* only ever extends a section's data, unless %org moves it back.
SectionsOnlyGrow ==
  [][~HasOrg => \A s \in DOMAIN secs :
       /\ s \in DOMAIN secs'
       /\ SubSeq(secs'[s].data, 1, Len(secs[s].data)) = secs[s].data]_vars

\* The bindings that directives anywhere in the program declare for label item d.
Declared(d) ==
  {prog[j].dir : j \in {k \in DOMAIN prog :
     /\ IsDir(prog[k], BindingDirs)
     /\ \E n \in DOMAIN prog[k].operands :
          LET op == prog[k].operands[n]
          IN  IsLabel(op) /\ IsMeant(prog, k, op.name, op.is_local, d)}}

\* A symbol has the binding its directive declares, before or after the
\* definition, in whichever section; it is local if there is none.
BindingsHold ==
  phase = "done" =>
    \A d \in DOMAIN prog :
      sym_map[d].sym # None =>
        /\ Declared(d) = {} => syms[sym_map[d].sym].binding = "local"
        /\ \A b \in BindingDirs : Declared(d) = {b} => syms[sym_map[d].sym].binding = b

\* Contradicting directives are reported.
ConflictsAreReported ==
  phase = "done" =>
    \A d \in DOMAIN prog, b, c \in BindingDirs :
      {b, c} \subseteq Declared(d) /\ b # c => \E j \in DOMAIN prog : diags[j] > 0

RelocatedOperand(r) == prog[relocs[r].item].operands[relocs[r].operand]

\* In a section, every label is known to pass 3 as a scope.
LabelsInSections ==
  \A j \in DOMAIN prog : prog[j].kind = "label" => addrs[j].section # None

\* A relocation refers to the symbol of the label its operand means, at the
\* place of that label.  Only an operand that means nothing in the program is
\* looked up by its bare name, and then finds an %extern, or a label it cannot
\* mean: a local one before the first global one, or for a local name a global
\* one.  (Labels before the first %section are reported.)
RelocsNameTheirLabel ==
  phase \in {"pass3", "done"} /\ LabelsInSections =>
    \A r \in DOMAIN relocs :
      LET op == RelocatedOperand(r)
          s  == syms[relocs[r].sym]
          C  == Candidates(prog, relocs[r].item, op.name, op.is_local)
      IN  IF C # {}
          THEN /\ relocs[r].sym = sym_map[First(C)].sym
               /\ s.section = addrs[First(C)].section
               /\ s.offset = addrs[First(C)].offset
          ELSE /\ s.name = <<op.name>>
               /\ s.section # None =>
                    \E d \in DOMAIN prog :
                      /\ sym_map[d].sym = relocs[r].sym
                      /\ IF prog[d].is_local THEN sym_map[d].parent = NoItem ELSE op.is_local

\* Every label operand that makes it into a section is relocated or reported.
LabelsRelocatedOrReported ==
  phase = "done" =>
    \A j \in DOMAIN prog :
      /\ addrs[j].section # None
      /\ \/ prog[j].kind = "instr" /\ IsValid(prog[j])
         \/ IsDir(prog[j], DataDirs)
      => \A k \in LabelIndices(prog[j]) :
           \/ \E r \in DOMAIN relocs : relocs[r].item = j /\ relocs[r].operand = k
           \/ diags[j] > 0

(***************************************************************************)
(* Linking a single section at address 0, with nothing but what the object *)
(* says: every relocation is patched with the offset of its symbol, as     *)
(* wide as its type has it.  The linker is not part of this repository;    *)
(* that it takes an absolute relocation for a whole address is assumed.    *)
(***************************************************************************)
PatchLength(type) == IF type = "abs" THEN ADDR_SIZE ELSE 0

FieldLength(r) == PatchLength(relocs[r].type)

Patched(x) ==
  LET here == {r \in DOMAIN relocs : x - relocs[r].offset \in 1 .. FieldLength(r)}
      r    == First(here)
  IN  IF here = {} THEN secs[1].data[x]
      ELSE ValueTrytes(syms[relocs[r].sym].offset, FieldLength(r))[x - relocs[r].offset]

\* Programs both back ends accept and mean the same by: one section, entered
\* first, nothing external, no error, and none of what they treat differently:
\* several strings in one %string, data elements that have no value, labels in
\* data elements narrower than an address, of which the object does not tell how
\* wide they are, and an %org that goes back over something: what is written
\* over a relocated field is patched all the same.
Comparable ==
  /\ Len(secs) = 1 /\ IsSection(1)
  /\ \A j \in DOMAIN prog :
       /\ diags[j] = 0
       /\ ~IsDir(prog[j], {"extern"})
       /\ IsDir(prog[j], {"string"}) => Len(prog[j].operands) = 1
       /\ IsDir(prog[j], DataDirs) => \A k \in DOMAIN prog[j].operands :
            \/ IsImm(prog[j].operands[k])
            \/ IsLabel(prog[j].operands[k]) /\ prog[j].dir = "word"
       /\ IsDir(prog[j], {"org"}) /\ j > 1 =>
            addrs[j - 1].offset + ItemSize(prog[j - 1]) <= addrs[j].offset
  /\ \A r \in DOMAIN relocs :
       LET op == RelocatedOperand(r)
       IN  Candidates(prog, relocs[r].item, op.name, op.is_local) # {}

\* Outside the image there is only padding.
LinkedIs(image) ==
  \A x \in DOMAIN secs[1].data :
    Patched(x) = IF x - 1 \in DOMAIN image THEN image[x - 1] ELSE [pad |-> 0]

\* The two back ends agree: linked at 0, the object's section is the raw image
\* of the same program.
LinksToRawImage ==
  phase = "done" /\ secs # <<>> /\ Comparable =>
    LinkedIs(Image(prog, [j \in DOMAIN prog |-> addrs[j].offset]))

\* "initialization to make the compiler happy" (tobj.c:581): the value is never
\* the one that is stored, unless the program has it as a literal.
InitialValueIsNotStored ==
  \A s \in DOMAIN secs : \A x \in DOMAIN secs[s].data :
    secs[s].data[x] # [val |-> 12345, k |-> 1]
=============================================================================
