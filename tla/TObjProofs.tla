----------------------------- MODULE TObjProofs -----------------------------
(***************************************************************************)
(* The object back end treats labels as the rules of scope say, for every  *)
(* program: a symbol gets the binding that a directive declares for its    *)
(* label, contradicting directives are reported, and every label operand   *)
(* is relocated against the symbol of the label it means, or reported.     *)
(*                                                                         *)
(* And the two back ends agree, for every program both accept and mean the *)
(* same by: linked at 0, the section that the object back end has filled   *)
(* is the image that RawMeaning gives the program.  This takes where pass  *)
(* 1 puts items, what pass 3 leaves at every place, where its relocations  *)
(* are, and that an item with its labels filled in is what the item means. *)
(***************************************************************************)
EXTENDS TObjSectionProofs

-----------------------------------------------------------------------------
(***************************************************************************)
(* Scopes.  The two searches for labels compare scopes that were recorded  *)
(* with the one the loop is in; both are what encloses the item.  Pass 3   *)
(* sees only the labels that lie in sections.                              *)
(***************************************************************************)
IsLocalLabel(item) == item.kind = "label" /\ item.is_local

Scoped == phase \in {"pass1", "pass2"} \/ (phase = "pass3" /\ LabelsInSections)

ScopesInv ==
  /\ Scoped => Encloses(prog, i, global)
  /\ \A j \in DOMAIN prog :
       IsLocalLabel(prog[j]) /\ (phase = "pass1" => j < i) => Encloses(prog, j, sym_map[j].parent)

(***************************************************************************)
(* Symbols.  Pass 2 has dealt with the items before its turn; each label   *)
(* among them that lies in a section has a symbol of its own, and only     *)
(* they have.                                                              *)
(***************************************************************************)
Turn == IF phase = "pass1" THEN 1 ELSE IF phase = "pass2" THEN i ELSE Len(prog) + 1

IsSymbolOf(s, d) ==
  /\ prog[d].kind = "label" /\ d < Turn /\ addrs[d].section # None
  /\ syms[s].section = addrs[d].section /\ syms[s].offset = addrs[d].offset
  /\ syms[s].name = SymbolName(prog[d], sym_map[d].parent)
  /\ syms[s].binding = sym_map[d].binding

SymsInv ==
  /\ \A d \in DOMAIN prog : sym_map[d].sym # None => IsSymbolOf(sym_map[d].sym, d)
  /\ \A d, e \in DOMAIN prog : sym_map[d].sym = sym_map[e].sym /\ sym_map[d].sym # None => d = e
  /\ \A s \in DOMAIN syms :
       syms[s].section # None => \E d \in DOMAIN prog : sym_map[d].sym = s
  /\ \A d \in DOMAIN prog :
       prog[d].kind = "label" /\ d < Turn /\ addrs[d].section # None => sym_map[d].sym # None

(***************************************************************************)
(* Bindings.  What the directives before pass 2's turn declare is what is  *)
(* known of a label, unless they contradict each other.                    *)
(***************************************************************************)
Declares(j, d) ==
  /\ IsDir(prog[j], BindingDirs)
  /\ \E k \in DOMAIN prog[j].operands :
       LET op == prog[j].operands[k]
       IN  IsLabel(op) /\ IsMeant(prog, j, op.name, op.is_local, d)

DeclaredBefore(d, n) == {prog[j].dir : j \in {k \in DOMAIN prog : k < n /\ Declares(k, d)}}

SomethingReported == \E j \in DOMAIN prog : diags[j] > 0

BindInv ==
  \A d \in DOMAIN prog :
    LET before == DeclaredBefore(d, Turn)
    IN  /\ IF sym_map[d].specified THEN sym_map[d].binding \in before
           ELSE before = {} /\ sym_map[d].binding = "local"
        /\ before \subseteq {sym_map[d].binding} \/ before = {} \/ SomethingReported

(***************************************************************************)
(* Relocations.  Each refers to the label its operand means, and the items *)
(* that pass 3 has been at are settled: every operand is dealt with.       *)
(***************************************************************************)
\* What a relocation against symbol t says when operand op of item j is looked
\* up and t found: the label that op means, or one of that name and no other.
Refers(j, op, t) ==
  LET s == syms[t]
      C == Candidates(prog, j, op.name, op.is_local)
  IN  IF C # {}
      THEN /\ t = sym_map[First(C)].sym
           /\ s.section = addrs[First(C)].section
           /\ s.offset = addrs[First(C)].offset
      ELSE /\ s.name = <<op.name>>
           /\ s.section # None =>
                \E d \in DOMAIN prog :
                  /\ sym_map[d].sym = t
                  /\ IF prog[d].is_local THEN sym_map[d].parent = NoItem ELSE op.is_local

\* Every relocation refers to the label of the operand it is of.
AllRefer ==
  LabelsInSections =>
    \A r \in DOMAIN relocs : Refers(relocs[r].item, RelocatedOperand(r), relocs[r].sym)

Settled(j) ==
  addrs[j].section # None /\ Relocating(prog[j]) =>
    \A k \in LabelIndices(prog[j]) :
      \/ \E r \in DOMAIN relocs : relocs[r].item = j /\ relocs[r].operand = k
      \/ diags[j] > 0

RelocInv ==
  /\ \A r \in DOMAIN relocs : relocs[r].item \in DOMAIN prog
  /\ phase \in {"pass3", "done"} => AllRefer
  /\ \A j \in DOMAIN prog : phase = "done" \/ (phase = "pass3" /\ j < i) => Settled(j)

Inv == TypeInv /\ ScopesInv /\ SymsInv /\ BindInv /\ RelocInv
LEMMA InitScopes == Init => ScopesInv
<1> SUFFICES ASSUME Init PROVE ScopesInv
  OBVIOUS
<1>1. prog \in Seq(Item)
  BY InitTypeInv DEF TypeInv, SectionInv
<1>2. i = 1 /\ global = NoItem /\ phase = "pass1"
  BY DEF Init
<1>3. Encloses(prog, i, global)
  BY <1>1, <1>2, EnclosesFirst
<1>4. \A j \in DOMAIN prog : ~(j < i)
  BY <1>1, <1>2
<1> QED BY <1>2, <1>3, <1>4 DEF ScopesInv

\* The turn at an item that is a label or is none.
LEMMA ScopeAdvances ==
  ASSUME TypeInv, Scoped, ScopesInv, i \in DOMAIN prog,
         global' = IF IsGlobalLabel(prog[i]) THEN i ELSE global,
         prog' = prog, i' = i + 1
  PROVE  Encloses(prog, i, global) /\ Encloses(prog', i', global')
<1>1. prog \in Seq(Item) /\ Encloses(prog, i, global)
  BY DEF TypeInv, SectionInv, ScopesInv
<1> QED BY <1>1, EnclosesNext

\* The recorded scopes that were right remain so, and one is added.
LEMMA ParentsKept ==
  ASSUME TypeInv, ScopesInv, phase # "pass1", prog' = prog, phase' # "pass1",
         \A j \in DOMAIN prog : sym_map'[j].parent = sym_map[j].parent
  PROVE  \A j \in DOMAIN prog' :
           IsLocalLabel(prog'[j]) /\ (phase' = "pass1" => j < i') =>
             Encloses(prog', j, sym_map'[j].parent)
BY DEF ScopesInv

LEMMA ParentAdded ==
  ASSUME TypeInv, ScopesInv, phase = "pass1", i \in DOMAIN prog,
         prog' = prog, phase' = phase, i' = i + 1,
         \A j \in DOMAIN prog : j # i => sym_map'[j].parent = sym_map[j].parent,
         IsLocalLabel(prog[i]) => sym_map'[i].parent = global
  PROVE  \A j \in DOMAIN prog' :
           IsLocalLabel(prog'[j]) /\ (phase' = "pass1" => j < i') =>
             Encloses(prog', j, sym_map'[j].parent)
<1> SUFFICES ASSUME NEW j \in DOMAIN prog, IsLocalLabel(prog[j]), j < i + 1
             PROVE  Encloses(prog, j, sym_map'[j].parent)
  OBVIOUS
<1>1. CASE j = i
  BY <1>1 DEF ScopesInv, Scoped
<1>2. CASE j # i
  <2>1. j < i
    BY <1>2 DEF TypeInv, SectionInv
  <2> QED BY <1>2, <2>1 DEF ScopesInv
<1> QED BY <1>1, <1>2

\* A turn of pass 2 or 3 that is not at a label leaves the scopes.
LEMMA ScopesPassed ==
  ASSUME TypeInv, ScopesInv, i \in DOMAIN prog, prog[i].kind # "label",
         phase \in {"pass2", "pass3"}, Advance, UNCHANGED <<global, addrs>>,
         \A j \in DOMAIN prog : sym_map'[j].parent = sym_map[j].parent
  PROVE  ScopesInv'
<1>1. prog' = prog /\ phase' = phase /\ i' = i + 1
  BY DEF Advance
<1>2. ~IsGlobalLabel(prog[i])
  BY DEF IsGlobalLabel
<1>3. Scoped' => Scoped
  BY <1>1 DEF Scoped, LabelsInSections
<1>4. Scoped' => Encloses(prog', i', global')
  BY <1>1, <1>2, <1>3, ScopeAdvances
<1> QED BY <1>1, <1>4, ParentsKept DEF ScopesInv

LEMMA BindingKeepsParents ==
  ASSUME TypeInv, Pass2Binding
  PROVE  \A j \in DOMAIN prog : /\ sym_map'[j].parent = sym_map[j].parent
                                /\ sym_map'[j].sym = sym_map[j].sym
<1> SUFFICES ASSUME NEW j \in DOMAIN prog
             PROVE  sym_map'[j].parent = sym_map[j].parent /\ sym_map'[j].sym = sym_map[j].sym
  OBVIOUS
<1>1. sym_map[j] \in [sym : 0 .. Len(syms), parent : 0 .. Len(prog),
                      specified : BOOLEAN, binding : BindingDirs]
  BY DEF TypeInv, SymbolsTyped
<1>2. \/ sym_map'[j] = sym_map[j]
      \/ sym_map'[j] = [sym_map[j] EXCEPT !.specified = TRUE, !.binding = prog[i].dir]
  BY BindingBinds
<1> QED BY <1>1, <1>2

LEMMA StepScopes == TypeInv /\ ScopesInv /\ [Next]_vars => ScopesInv'
<1> SUFFICES ASSUME TypeInv, ScopesInv, [Next]_vars PROVE ScopesInv'
  OBVIOUS
<1>1. prog \in Seq(Item) /\ DOMAIN prog = 1 .. Len(prog) /\ Len(prog) \in Nat
      /\ i \in 1 .. Len(prog) + 1
  BY DEF TypeInv, SectionInv
<1>2. CASE Pass1Section \/ Pass1Org \/ Pass1Code
  <2>1. /\ i \in DOMAIN prog /\ phase = "pass1" /\ prog[i].kind # "label"
        /\ UNCHANGED <<global, sym_map>> /\ prog' = prog /\ phase' = phase /\ i' = i + 1
    BY <1>2 DEF Pass1Section, Pass1Org, Pass1Code, IsSection, IsDir, At, Place, Advance
  <2>2. ~IsGlobalLabel(prog[i]) /\ ~IsLocalLabel(prog[i]) /\ Scoped
    BY <2>1 DEF IsGlobalLabel, IsLocalLabel, Scoped
  <2>3. Encloses(prog', i', global')
    BY <2>1, <2>2, ScopeAdvances
  <2> QED BY <2>1, <2>2, <2>3, ParentAdded DEF ScopesInv
<1>3. CASE Pass1Label
  <2>1. /\ i \in DOMAIN prog /\ phase = "pass1" /\ prog[i].kind = "label"
        /\ prog' = prog /\ phase' = phase /\ i' = i + 1
        /\ IF prog[i].is_local
           THEN sym_map' = [sym_map EXCEPT ![i].parent = global] /\ global' = global
           ELSE global' = i /\ sym_map' = sym_map
    BY <1>3 DEF Pass1Label, At, Place, Advance
  <2>2. Scoped /\ global' = IF IsGlobalLabel(prog[i]) THEN i ELSE global
    BY <2>1 DEF Scoped, IsGlobalLabel
  <2>3. Encloses(prog', i', global')
    BY <2>1, <2>2, ScopeAdvances
  <2>4. sym_map \in [DOMAIN prog -> [sym : 0 .. Len(syms), parent : 0 .. Len(prog),
                                    specified : BOOLEAN, binding : BindingDirs]]
    BY DEF TypeInv, SymbolsTyped
  <2>5. \A j \in DOMAIN prog : j # i => sym_map'[j].parent = sym_map[j].parent
    BY <2>1, <2>4
  <2>6. IsLocalLabel(prog[i]) => sym_map'[i].parent = global
    BY <2>1, <2>4 DEF IsLocalLabel
  <2> QED BY <2>1, <2>3, <2>5, <2>6, ParentAdded DEF ScopesInv
<1>4. ASSUME phase \in {"pass1", "pass2"}, i \notin DOMAIN prog, phase' # "pass1",
             i' = 1, global' = NoItem, prog' = prog, sym_map' = sym_map
      PROVE  ScopesInv'
  <2>1. Encloses(prog', i', global')
    BY <1>1, <1>4, EnclosesFirst
  <2>2. \A j \in DOMAIN prog : j < i
    BY <1>1, <1>4
  <2> QED BY <1>4, <2>1, <2>2 DEF ScopesInv
<1>5. CASE EndPass1
  BY <1>4, <1>5 DEF EndPass1, StartPass
<1>6. CASE EndPass2
  BY <1>4, <1>6 DEF EndPass2, StartPass
<1>7. CASE EndPass3
  <2>1. phase = "pass3" /\ phase' = "done" /\ UNCHANGED <<prog, sym_map>>
    BY <1>7 DEF EndPass3
  <2>2. ~Scoped'
    BY <2>1 DEF Scoped
  <2> QED BY <2>1, <2>2, ParentsKept DEF ScopesInv
<1>8. CASE Pass2Section \/ Pass2Extern \/ Pass2Skip
  <2>1. /\ i \in DOMAIN prog /\ phase = "pass2" /\ prog[i].kind # "label"
        /\ Advance /\ UNCHANGED <<global, addrs, sym_map>>
    BY <1>8 DEF Pass2Section, Pass2Extern, Pass2Skip, IsSection, IsDir, At, pass1vars
  <2> QED BY <2>1, ScopesPassed
<1>9. CASE Pass2Binding
  <2>1. /\ i \in DOMAIN prog /\ phase = "pass2" /\ prog[i].kind # "label"
        /\ Advance /\ UNCHANGED <<global, addrs>>
    BY <1>9 DEF Pass2Binding, IsDir, At, pass1vars
  <2> QED BY <1>9, <2>1, BindingKeepsParents, ScopesPassed
<1>10. CASE Pass3Instr \/ Pass3Data \/ Pass3String \/ Pass3Pad
  <2>1. /\ i \in DOMAIN prog /\ phase = "pass3" /\ prog[i].kind # "label"
        /\ Advance /\ UNCHANGED <<global, addrs, sym_map>>
    BY <1>10, FilledActions DEF Filled, At, pass1vars
  <2> QED BY <2>1, ScopesPassed
<1>11. CASE Pass2Label \/ Pass3Label
  <2>1. /\ i \in DOMAIN prog /\ phase \in {"pass2", "pass3"} /\ prog[i].kind = "label"
        /\ prog' = prog /\ phase' = phase /\ i' = i + 1 /\ addrs' = addrs
        /\ global' = IF prog[i].is_local THEN global ELSE i
    BY <1>11 DEF Pass2Label, Pass3Label, In, At, Advance, pass1vars
  <2>2. global' = IF IsGlobalLabel(prog[i]) THEN i ELSE global
    BY <2>1 DEF IsGlobalLabel
  <2>3. Scoped' => Scoped
    BY <2>1 DEF Scoped, LabelsInSections
  <2>4. Scoped' => Encloses(prog', i', global')
    BY <2>1, <2>2, <2>3, ScopeAdvances
  <2>5. CASE sym_map' = sym_map
    BY <2>1, <2>4, <2>5, ParentsKept DEF ScopesInv
  <2>6. CASE sym_map' # sym_map
    <3> DEFINE par == IF prog[i].is_local THEN global ELSE NoItem
    <3>1. phase = "pass2" /\ sym_map'[i].parent = par
          /\ \A j \in DOMAIN prog : j # i => sym_map'[j] = sym_map[j]
      <4>1. Pass2Label
        BY <1>11, <2>6 DEF Pass3Label
      <4>2. EntersSymbol(par, IF sym_map[i].specified THEN sym_map[i].binding ELSE "local")
        BY <2>6, <4>1, LabelEntersSymbol
      <4>3. DOMAIN sym_map = DOMAIN prog
        BY DEF TypeInv, SymbolsTyped
      <4> QED BY <2>1, <4>1, <4>2, <4>3 DEF EntersSymbol, Pass2Label, At
    <3>2. ASSUME NEW j \in DOMAIN prog, IsLocalLabel(prog[j])
          PROVE  Encloses(prog, j, sym_map'[j].parent)
      <4>1. CASE j = i
        BY <3>1, <3>2, <4>1 DEF IsLocalLabel, ScopesInv, Scoped
      <4>2. CASE j # i
        BY <3>1, <3>2, <4>2 DEF ScopesInv
      <4> QED BY <4>1, <4>2
    <3> QED BY <2>1, <2>4, <3>2 DEF ScopesInv
  <2> QED BY <2>5, <2>6
<1>12. CASE Pass3Outside
  <2>1. /\ i \in DOMAIN prog /\ phase = "pass3" /\ addrs[i].section = None
        /\ Advance /\ UNCHANGED <<global, addrs, sym_map>>
    BY <1>12 DEF Pass3Outside, Filled, At, pass1vars
  <2>2. CASE prog[i].kind = "label"
    <3>1. ~Scoped' /\ phase' = phase /\ prog' = prog
      BY <2>1, <2>2 DEF Scoped, LabelsInSections, Advance
    <3> QED BY <2>1, <3>1, ParentsKept DEF ScopesInv
  <2>3. CASE prog[i].kind # "label"
    BY <2>1, <2>3, ScopesPassed
  <2> QED BY <2>2, <2>3
<1>13. CASE UNCHANGED vars
  BY <1>13 DEF vars, pass1vars, ScopesInv, Scoped, LabelsInSections
<1> QED BY <1>2, <1>3, <1>5, <1>6, <1>7, <1>8, <1>9, <1>10, <1>11, <1>12, <1>13 DEF Next

\* What the search through the label items finds is what the operand can mean.
LEMMA LabelItemsAreMeant ==
  ASSUME TypeInv, ScopesInv, Scoped, phase # "pass1", i \in DOMAIN prog,
         NEW name, NEW is_local \in BOOLEAN
  PROVE  LabelItems(name, is_local) = Candidates(prog, i, name, is_local)
<1>1. prog \in Seq(Item) /\ Encloses(prog, i, global)
  BY DEF TypeInv, SectionInv, ScopesInv
<1>2. ASSUME NEW d \in DOMAIN prog, IsLocalLabel(prog[d])
      PROVE  SameScope(prog, d, i) <=> sym_map[d].parent = global
  <2>1. Encloses(prog, d, sym_map[d].parent)
    BY <1>2 DEF ScopesInv
  <2> QED BY <1>1, <2>1, SameEnclosing
<1>3. CASE is_local = FALSE
  BY <1>3 DEF LabelItems, Candidates
<1>4. CASE is_local = TRUE
  <2>1. ASSUME NEW d \in DOMAIN prog, prog[d].kind = "label", prog[d].is_local = TRUE
        PROVE  IsLocalLabel(prog[d])
    BY <2>1 DEF IsLocalLabel
  <2>2. ASSUME NEW d \in DOMAIN prog
        PROVE  d \in LabelItems(name, TRUE) <=> d \in Candidates(prog, i, name, TRUE)
    BY <1>2, <2>1 DEF LabelItems, Candidates
  <2> QED BY <1>4, <2>2 DEF LabelItems, Candidates
<1> QED BY <1>3, <1>4
-----------------------------------------------------------------------------
(* Symbols *)

LEMMA InitSyms == Init => SymsInv
<1> SUFFICES ASSUME Init PROVE SymsInv
  OBVIOUS
<1>1. DOMAIN prog = 1 .. Len(prog) /\ Turn = 1
  BY InitTypeInv DEF TypeInv, SectionInv, Init, Turn
<1>2. \A d \in DOMAIN prog : sym_map[d].sym = None /\ ~(d < Turn)
  BY <1>1 DEF Init
<1>3. syms = <<>>
  BY DEF Init
<1> QED BY <1>2, <1>3 DEF SymsInv

\* Until pass 2 is at it, a label has no symbol.
LEMMA NoSymbolYet ==
  ASSUME TypeInv, SymsInv, NEW d \in DOMAIN prog, ~(d < Turn)
  PROVE  sym_map[d].sym = None
BY DEF SymsInv, IsSymbolOf

\* Nothing changes as long as pass 2 has no label to deal with.
LEMMA SymsKept ==
  ASSUME TypeInv, SymsInv, prog' = prog, syms' = syms, sym_map' = sym_map,
         \A d \in DOMAIN prog : d < Turn => addrs'[d] = addrs[d],
         \A d \in DOMAIN prog : d < Turn => d < Turn',
         \A d \in DOMAIN prog : d < Turn' => d < Turn \/ prog[d].kind # "label"
                                                  \/ addrs'[d].section = None
  PROVE  SymsInv'
<1>1. ASSUME NEW d \in DOMAIN prog, sym_map[d].sym # None PROVE IsSymbolOf(sym_map[d].sym, d)'
  <2>1. IsSymbolOf(sym_map[d].sym, d) /\ d < Turn /\ d < Turn' /\ addrs'[d] = addrs[d]
    BY <1>1 DEF SymsInv, IsSymbolOf
  <2> QED BY <2>1 DEF IsSymbolOf, SymbolName
<1>2. ASSUME NEW d \in DOMAIN prog, prog[d].kind = "label", d < Turn', addrs'[d].section # None
      PROVE  sym_map[d].sym # None
  <2>1. d < Turn /\ addrs'[d] = addrs[d]
    BY <1>2
  <2> QED BY <1>2, <2>1 DEF SymsInv
<1>3. /\ \A d, e \in DOMAIN prog : sym_map[d].sym = sym_map[e].sym /\ sym_map[d].sym # None => d = e
      /\ \A s \in DOMAIN syms :
           syms[s].section # None => \E d \in DOMAIN prog : sym_map[d].sym = s
  BY DEF SymsInv
<1> QED BY <1>1, <1>2, <1>3 DEF SymsInv

LEMMA LabelSyms == TypeInv /\ SymsInv /\ Pass2Label => SymsInv'
<1> SUFFICES ASSUME TypeInv, SymsInv, Pass2Label PROVE SymsInv'
  OBVIOUS
<1> DEFINE par == IF prog[i].is_local THEN global ELSE NoItem
           bind == IF sym_map[i].specified THEN sym_map[i].binding ELSE "local"
<1>1. /\ i \in DOMAIN prog /\ prog[i].kind = "label" /\ phase = "pass2"
      /\ prog' = prog /\ phase' = phase /\ i' = i + 1 /\ addrs' = addrs
  BY DEF Pass2Label, At, Advance, pass1vars
<1>2. Turn = i /\ Turn' = i + 1 /\ DOMAIN prog \subseteq Nat /\ i \in Nat
  BY <1>1 DEF Turn, TypeInv, SectionInv
<1>3. \A d \in DOMAIN prog : d < Turn' <=> d < Turn \/ d = i
  BY <1>2
<1>4. /\ par \in {global, NoItem} /\ bind \in BindingDirs
      /\ IF addrs[i].section = None THEN UNCHANGED <<syms, sym_map>> ELSE EntersSymbol(par, bind)
  BY LabelEntersSymbol
<1>5. CASE addrs[i].section = None
  BY <1>1, <1>3, <1>4, <1>5, SymsKept
<1>6. CASE addrs[i].section # None
  <2> HIDE DEF par, bind
  <2> DEFINE n == Len(syms)
             new == [name |-> SymbolName(prog[i], par), section |-> addrs[i].section,
                     offset |-> addrs[i].offset, binding |-> bind]
  <2>1. /\ syms' \in Seq(Symbol) /\ n \in Nat /\ Len(syms') = n + 1
        /\ syms' = Append(syms, new) /\ syms \in Seq(Symbol)
    BY <1>1, <1>4, <1>6, EntersTyped DEF EntersSymbol, TypeInv, SymbolsTyped
  <2>2. /\ \A s \in DOMAIN syms : s \in DOMAIN syms' /\ syms'[s] = syms[s]
        /\ syms'[n + 1] = new /\ n + 1 \in DOMAIN syms' /\ n + 1 \notin DOMAIN syms
        /\ \A s \in DOMAIN syms' : s \in DOMAIN syms \/ s = n + 1
    <3> HIDE DEF new
    <3> QED BY <2>1
  <2>3. /\ \A d \in DOMAIN prog : sym_map[d].sym \in 0 .. n
        /\ DOMAIN sym_map = DOMAIN prog /\ DOMAIN syms = 1 .. n
    BY <2>1 DEF TypeInv, SymbolsTyped
  <2>4. /\ \A d \in DOMAIN prog : d # i => sym_map'[d] = sym_map[d]
        /\ sym_map'[i].sym = n + 1 /\ sym_map'[i].parent = par /\ sym_map'[i].binding = bind
    BY <1>1, <1>4, <1>6, <2>3 DEF EntersSymbol
  <2>5. n + 1 # None /\ \A s \in 0 .. n : s # None => s \in DOMAIN syms
    BY <2>1, <2>3 DEF None
  <2>6. ASSUME NEW d \in DOMAIN prog, d = i PROVE IsSymbolOf(sym_map[d].sym, d)'
    <3> DEFINE x == syms'[sym_map'[d].sym]
    <3>1. x.section = addrs[d].section /\ x.offset = addrs[d].offset
          /\ x.name = SymbolName(prog[d], par) /\ x.binding = bind
      BY <2>2, <2>4, <2>6
    <3>2. SymbolName(prog[d], sym_map[d].parent)' = SymbolName(prog[d], par)
      BY <1>1, <2>4, <2>6 DEF SymbolName
    <3>3. prog'[d].kind = "label" /\ d < Turn' /\ addrs'[d].section # None /\ addrs'[d] = addrs[d]
      BY <1>1, <1>3, <1>6, <2>6
    <3>4. sym_map'[d].binding = bind
      BY <2>4, <2>6
    <3> HIDE DEF n, new
    <3> QED BY <3>1, <3>2, <3>3, <3>4 DEF IsSymbolOf
  <2>7. ASSUME NEW d \in DOMAIN prog, d # i, sym_map[d].sym # None
        PROVE  IsSymbolOf(sym_map[d].sym, d)'
    <3>1. IsSymbolOf(sym_map[d].sym, d)
      BY <2>7 DEF SymsInv
    <3>2. syms'[sym_map[d].sym] = syms[sym_map[d].sym] /\ sym_map'[d] = sym_map[d]
      BY <2>2, <2>3, <2>4, <2>5, <2>7
    <3> QED BY <1>1, <1>3, <3>1, <3>2 DEF IsSymbolOf, SymbolName
  <2>8. ASSUME NEW d \in DOMAIN prog, sym_map'[d].sym # None
        PROVE  IsSymbolOf(sym_map[d].sym, d)'
    <3> HIDE DEF n, new
    <3>1. CASE d = i
      BY <2>6, <3>1
    <3>2. CASE d # i
      BY <2>4, <2>7, <2>8, <3>2
    <3> QED BY <3>1, <3>2
  <2>9. ASSUME NEW d \in DOMAIN prog, NEW e \in DOMAIN prog,
               sym_map'[d].sym = sym_map'[e].sym, sym_map'[d].sym # None
        PROVE  d = e
    <3> HIDE DEF n, new
    <3>1. n + 1 \notin 0 .. n
      BY <2>1
    <3> QED BY <2>3, <2>4, <2>9, <3>1 DEF SymsInv
  <2>10. ASSUME NEW s \in DOMAIN syms', syms'[s].section # None
         PROVE  \E d \in DOMAIN prog : sym_map'[d].sym = s
    <3>1. CASE s = n + 1
      BY <1>1, <2>4, <3>1
    <3>2. CASE s \in DOMAIN syms
      <4>1. PICK d \in DOMAIN prog : sym_map[d].sym = s
        BY <2>2, <2>10, <3>2 DEF SymsInv
      <4>2. d # i
        <5>1. sym_map[i].sym = None
          BY <1>1, <1>2, NoSymbolYet
        <5>2. s # None
          BY <2>3, <3>2 DEF None
        <5> QED BY <4>1, <5>1, <5>2
      <4> QED BY <2>4, <4>1, <4>2
    <3> QED BY <2>2, <2>10, <3>1, <3>2
  <2>11. ASSUME NEW d \in DOMAIN prog, prog[d].kind = "label", d < Turn', addrs[d].section # None
         PROVE  sym_map'[d].sym # None
    <3> HIDE DEF n, new
    <3>1. CASE d = i
      BY <2>4, <2>5, <3>1
    <3>2. CASE d # i
      BY <1>3, <2>4, <2>11, <3>2 DEF SymsInv
    <3> QED BY <3>1, <3>2
  <2> HIDE DEF n, new
  <2> QED BY <1>1, <2>8, <2>9, <2>10, <2>11 DEF SymsInv
<1> QED BY <1>5, <1>6
\* What %extern adds belongs to no label item.
LEMMA ExternSyms == TypeInv /\ SymsInv /\ Pass2Extern => SymsInv'
<1> SUFFICES ASSUME TypeInv, SymsInv, Pass2Extern PROVE SymsInv'
  OBVIOUS
<1>1. /\ i \in DOMAIN prog /\ prog[i].kind # "label" /\ phase = "pass2"
      /\ prog' = prog /\ phase' = phase /\ i' = i + 1 /\ addrs' = addrs /\ sym_map' = sym_map
  BY DEF Pass2Extern, IsDir, At, Advance, pass1vars
<1>2. Turn = i /\ Turn' = i + 1 /\ DOMAIN prog \subseteq Nat /\ i \in Nat
  BY <1>1 DEF Turn, TypeInv, SectionInv
<1>3. \A d \in DOMAIN prog : d < Turn' <=> d < Turn \/ d = i
  BY <1>2
<1>4. /\ \A s \in DOMAIN syms : s \in DOMAIN syms' /\ syms'[s] = syms[s]
      /\ \A s \in DOMAIN syms' : s \in DOMAIN syms \/ syms'[s].section = None
  <2> DEFINE labels == LabelIndices(prog[i])
             n == Cardinality(labels)
             f == [r \in 1 .. n |-> ExternSymbol(Nth(labels, r))]
  <2>1. Extends(syms', syms, n, f)
    BY ExternExtends
  <2>2. \A r \in 1 .. n : f[r].section = None
    BY DEF ExternSymbol
  <2> HIDE DEF f, n
  <2> QED BY <2>1, <2>2 DEF Extends
<1>5. \A d \in DOMAIN prog : sym_map[d].sym # None => sym_map[d].sym \in DOMAIN syms
  BY DEF TypeInv, SymbolsTyped, None
<1>6. ASSUME NEW d \in DOMAIN prog, sym_map[d].sym # None PROVE IsSymbolOf(sym_map[d].sym, d)'
  <2>1. IsSymbolOf(sym_map[d].sym, d)
    BY <1>6 DEF SymsInv
  <2> QED BY <1>1, <1>3, <1>4, <1>5, <1>6, <2>1 DEF IsSymbolOf, SymbolName
<1>7. ASSUME NEW s \in DOMAIN syms', syms'[s].section # None
      PROVE  \E d \in DOMAIN prog : sym_map[d].sym = s
  BY <1>4, <1>7 DEF SymsInv
<1>8. ASSUME NEW d \in DOMAIN prog, prog[d].kind = "label", d < Turn', addrs[d].section # None
      PROVE  sym_map[d].sym # None
  BY <1>1, <1>3, <1>8 DEF SymsInv
<1>9. \A d, e \in DOMAIN prog : sym_map[d].sym = sym_map[e].sym /\ sym_map[d].sym # None => d = e
  BY DEF SymsInv
<1> QED BY <1>1, <1>6, <1>7, <1>8, <1>9 DEF SymsInv

\* A binding directive changes labels and their symbols alike.
LEMMA BindingSyms == TypeInv /\ SymsInv /\ Pass2Binding => SymsInv'
<1> SUFFICES ASSUME TypeInv, SymsInv, Pass2Binding PROVE SymsInv'
  OBVIOUS
<1>1. /\ i \in DOMAIN prog /\ prog[i].kind # "label" /\ phase = "pass2"
      /\ prog' = prog /\ phase' = phase /\ i' = i + 1 /\ addrs' = addrs
  BY DEF Pass2Binding, IsDir, At, Advance, pass1vars
<1>2. Turn = i /\ Turn' = i + 1 /\ DOMAIN prog \subseteq Nat /\ i \in Nat
  BY <1>1 DEF Turn, TypeInv, SectionInv
<1>3. \A d \in DOMAIN prog : d < Turn' <=> d < Turn \/ d = i
  BY <1>2
<1> DEFINE touched(s) == \E j \in Bound : sym_map[j].sym = s
<1>4. /\ \A j \in DOMAIN prog : sym_map'[j] =
             IF j \in Bound THEN [sym_map[j] EXCEPT !.specified = TRUE, !.binding = prog[i].dir]
             ELSE sym_map[j]
      /\ DOMAIN syms' = DOMAIN syms
      /\ \A s \in DOMAIN syms : syms'[s] =
             IF touched(s) THEN [syms[s] EXCEPT !.binding = prog[i].dir] ELSE syms[s]
  BY BindingBinds
<1>5. \A j \in DOMAIN prog : sym_map'[j].sym = sym_map[j].sym /\ sym_map'[j].parent = sym_map[j].parent
  BY BindingKeepsParents
<1>6. Bound \subseteq DOMAIN prog
  BY BoundToLabels DEF Bound
<1>7. \A d \in DOMAIN prog : sym_map[d].sym # None => sym_map[d].sym \in DOMAIN syms
  BY DEF TypeInv, SymbolsTyped, None
<1>8. ASSUME NEW s \in DOMAIN syms
      PROVE  /\ syms'[s].section = syms[s].section /\ syms'[s].offset = syms[s].offset
             /\ syms'[s].name = syms[s].name
             /\ syms'[s].binding = IF touched(s) THEN prog[i].dir ELSE syms[s].binding
  <2>1. syms[s] \in Symbol
    BY DEF TypeInv, SymbolsTyped
  <2> HIDE DEF touched
  <2> QED BY <1>4, <2>1 DEF Symbol
<1>9. ASSUME NEW d \in DOMAIN prog
      PROVE  sym_map'[d].binding = IF d \in Bound THEN prog[i].dir ELSE sym_map[d].binding
  <2>1. sym_map[d] \in [sym : 0 .. Len(syms), parent : 0 .. Len(prog),
                        specified : BOOLEAN, binding : BindingDirs]
    BY DEF TypeInv, SymbolsTyped
  <2> QED BY <1>4, <2>1
<1>10. ASSUME NEW d \in DOMAIN prog, sym_map[d].sym # None PROVE IsSymbolOf(sym_map[d].sym, d)'
  <2> DEFINE s == sym_map[d].sym
  <2>1. IsSymbolOf(s, d) /\ s \in DOMAIN syms
    BY <1>7, <1>10 DEF SymsInv
  <2>2. touched(s) <=> d \in Bound
    BY <1>6, <1>10 DEF SymsInv
  <2>3. syms'[s].binding = sym_map'[d].binding
    <3>1. syms[s].binding = sym_map[d].binding
      BY <2>1 DEF IsSymbolOf
    <3> HIDE DEF s, touched
    <3> QED BY <1>8, <1>9, <2>1, <2>2, <3>1
  <2>4. /\ syms'[s].section = addrs[d].section /\ syms'[s].offset = addrs[d].offset
        /\ syms'[s].name = SymbolName(prog[d], sym_map[d].parent)
    BY <1>8, <2>1 DEF IsSymbolOf
  <2>5. SymbolName(prog[d], sym_map[d].parent)' = SymbolName(prog[d], sym_map[d].parent)
    BY <1>1, <1>5 DEF SymbolName
  <2>6. prog'[d].kind = "label" /\ d < Turn' /\ addrs'[d].section # None /\ addrs'[d] = addrs[d]
    BY <1>1, <1>3, <2>1 DEF IsSymbolOf
  <2>7. sym_map'[d].sym = s
    BY <1>5
  <2> HIDE DEF s
  <2> QED BY <2>3, <2>4, <2>5, <2>6, <2>7 DEF IsSymbolOf
<1>11. ASSUME NEW s \in DOMAIN syms', syms'[s].section # None
       PROVE  \E d \in DOMAIN prog : sym_map'[d].sym = s
  <2>1. s \in DOMAIN syms
    BY <1>4, <1>11
  <2>2. syms[s].section # None
    BY <1>8, <1>11, <2>1
  <2>3. PICK d \in DOMAIN prog : sym_map[d].sym = s
    BY <2>1, <2>2 DEF SymsInv
  <2> QED BY <1>5, <2>3
<1>12. ASSUME NEW d \in DOMAIN prog, prog[d].kind = "label", d < Turn', addrs[d].section # None
       PROVE  sym_map'[d].sym # None
  BY <1>1, <1>3, <1>5, <1>12 DEF SymsInv
<1>13. \A d, e \in DOMAIN prog :
         sym_map'[d].sym = sym_map'[e].sym /\ sym_map'[d].sym # None => d = e
  BY <1>5 DEF SymsInv
<1>14. \A d \in DOMAIN prog : sym_map'[d].sym # None => IsSymbolOf(sym_map[d].sym, d)'
  BY <1>5, <1>10
<1> QED BY <1>1, <1>11, <1>12, <1>13, <1>14 DEF SymsInv

LEMMA StepSyms == TypeInv /\ SymsInv /\ [Next]_vars => SymsInv'
<1> SUFFICES ASSUME TypeInv, SymsInv, [Next]_vars PROVE SymsInv'
  OBVIOUS
<1>1. DOMAIN prog = 1 .. Len(prog) /\ Len(prog) \in Nat /\ i \in 1 .. Len(prog) + 1
      /\ error_count = 0
  BY DEF TypeInv, SectionInv, ReportsTyped
<1>2. CASE Pass1Section \/ Pass1Label \/ Pass1Org \/ Pass1Code
  <2>1. phase = "pass1" /\ phase' = phase /\ UNCHANGED <<prog, syms>>
    BY <1>2 DEF Pass1Section, Pass1Label, Pass1Org, Pass1Code, At, Place, Advance
  <2>2. \A d \in DOMAIN prog : ~(d < Turn) /\ ~(d < Turn')
    BY <1>1, <2>1 DEF Turn
  <2>3. \A d \in DOMAIN prog : sym_map[d].sym = None
    BY <2>2, NoSymbolYet
  <2>4. \A d \in DOMAIN prog : sym_map'[d].sym = sym_map[d].sym
    <3>1. sym_map \in [DOMAIN prog -> [sym : 0 .. Len(syms), parent : 0 .. Len(prog),
                                      specified : BOOLEAN, binding : BindingDirs]]
      BY DEF TypeInv, SymbolsTyped
    <3>2. sym_map' = sym_map \/ sym_map' = [sym_map EXCEPT ![i].parent = global]
      BY <1>2 DEF Pass1Section, Pass1Label, Pass1Org, Pass1Code
    <3> QED BY <3>1, <3>2, ZenonT(60)
  <2>5. \A s \in DOMAIN syms : syms[s].section # None => \E d \in DOMAIN prog : sym_map[d].sym = s
    BY DEF SymsInv
  <2> QED BY <2>1, <2>2, <2>3, <2>4, <2>5 DEF SymsInv
<1>3. ASSUME UNCHANGED <<prog, syms, sym_map, addrs>>,
             \A d \in DOMAIN prog : d < Turn' <=> d < Turn \/ (d = i /\ prog[i].kind # "label" /\ Turn = i)
      PROVE  SymsInv'
  BY <1>3, SymsKept
<1>4. CASE EndPass1 \/ EndPass2 \/ EndPass3
  <2>1. /\ UNCHANGED <<prog, syms, sym_map, addrs>> /\ i \notin DOMAIN prog
        /\ \/ phase = "pass1" /\ phase' = "pass2" /\ i' = 1
           \/ phase = "pass2" /\ phase' = "pass3"
           \/ phase = "pass3" /\ phase' = "done"
    BY <1>1, <1>4 DEF EndPass1, EndPass2, EndPass3, StartPass, pass1vars
  <2>2. Turn' = Turn
    BY <1>1, <2>1 DEF Turn
  <2> QED BY <1>1, <1>3, <2>1, <2>2
<1>5. CASE Pass2Section \/ Pass2Skip
  <2>1. /\ UNCHANGED <<prog, syms, sym_map, addrs>> /\ i \in DOMAIN prog
        /\ phase = "pass2" /\ phase' = phase /\ i' = i + 1 /\ prog[i].kind # "label"
    BY <1>5 DEF Pass2Section, Pass2Skip, IsSection, IsDir, At, Advance, pass1vars
  <2>2. Turn = i /\ Turn' = i + 1
    BY <2>1 DEF Turn
  <2>3. \A d \in DOMAIN prog : d < Turn' <=> d < Turn \/ d = i
    BY <1>1, <2>2
  <2> QED BY <1>3, <2>1, <2>2, <2>3
<1>6. CASE Pass3Outside \/ Pass3Label \/ Pass3Instr \/ Pass3Data \/ Pass3String \/ Pass3Pad
  <2>1. UNCHANGED <<prog, syms, sym_map, addrs>> /\ phase = "pass3" /\ phase' = phase
    <3>1. CASE Pass3Outside \/ Pass3Label
      BY <3>1 DEF Pass3Outside, Pass3Label, In, At, Filled, Advance, pass1vars
    <3>2. CASE Pass3Instr \/ Pass3Data \/ Pass3String \/ Pass3Pad
      BY <3>2, FilledActions DEF At, Filled, Advance, pass1vars
    <3> QED BY <1>6, <3>1, <3>2
  <2>2. Turn' = Turn /\ Turn = Len(prog) + 1
    BY <2>1 DEF Turn
  <2>3. \A d \in DOMAIN prog : d < Turn
    BY <1>1, <2>2
  <2> QED BY <1>3, <2>1, <2>2, <2>3
<1>7. CASE UNCHANGED vars
  <2>1. UNCHANGED <<prog, syms, sym_map, addrs, phase, i>>
    BY <1>7 DEF vars, pass1vars
  <2>2. Turn' = Turn
    BY <2>1 DEF Turn
  <2>3. \A d \in DOMAIN prog : prog[i].kind # "label" /\ Turn = i /\ d = i => ~(d < Turn)
    BY <1>1
  <2> QED BY <2>1, <2>2, SymsKept
<1> QED BY <1>2, <1>4, <1>5, <1>6, <1>7, LabelSyms, ExternSyms, BindingSyms DEF Next
-----------------------------------------------------------------------------
(* Bindings *)

LEMMA InitBind == Init => BindInv
<1> SUFFICES ASSUME Init, NEW d \in DOMAIN prog PROVE
       LET before == DeclaredBefore(d, Turn)
       IN  /\ IF sym_map[d].specified THEN sym_map[d].binding \in before
              ELSE before = {} /\ sym_map[d].binding = "local"
           /\ before \subseteq {sym_map[d].binding} \/ before = {} \/ SomethingReported
  BY DEF BindInv
<1>1. DOMAIN prog = 1 .. Len(prog) /\ Turn = 1
  BY InitTypeInv DEF TypeInv, SectionInv, Init, Turn
<1>2. DeclaredBefore(d, Turn) = {}
  BY <1>1 DEF DeclaredBefore
<1>3. sym_map[d].specified = FALSE /\ sym_map[d].binding = "local"
  BY DEF Init
<1> QED BY <1>2, <1>3

\* One more item adds its binding to those declared, or nothing.
LEMMA DeclaredNext ==
  ASSUME TypeInv, i \in DOMAIN prog, NEW d
  PROVE  DeclaredBefore(d, i + 1) =
           DeclaredBefore(d, i) \union (IF Declares(i, d) THEN {prog[i].dir} ELSE {})
<1>1. \A k \in DOMAIN prog : k < i + 1 <=> k < i \/ k = i
  BY DEF TypeInv, SectionInv
<1> QED BY <1>1 DEF DeclaredBefore

\* Nothing changes as long as pass 2 comes by no binding directive.
LEMMA BindKept ==
  ASSUME TypeInv, BindInv, [Next]_vars, prog' = prog,
         \A d \in DOMAIN prog : /\ sym_map'[d].specified = sym_map[d].specified
                                /\ sym_map'[d].binding = sym_map[d].binding
                                /\ DeclaredBefore(d, Turn)' = DeclaredBefore(d, Turn)
  PROVE  BindInv'
<1>1. SomethingReported => SomethingReported'
  BY ReportsStay DEF SomethingReported
<1> QED BY <1>1 DEF BindInv

\* The label a binding directive's operand means is the one that is bound.
LEMMA DeclaresIsBinding ==
  ASSUME TypeInv, ScopesInv, Pass2Binding, NEW d \in DOMAIN prog
  PROVE  /\ Declares(i, d) <=> \E k \in Named : First(BoundTo(k)) = d
         /\ Declares(i, d) /\ d \notin Bound => Contradicts(sym_map[d], prog[i].dir)
                                               /\ Clashing # {}
         /\ d \in Bound => Declares(i, d) /\ ~Contradicts(sym_map[d], prog[i].dir)
<1>1. i \in DOMAIN prog /\ phase = "pass2" /\ IsDir(prog[i], BindingDirs) /\ DOMAIN prog \subseteq Nat
  <2>1. i \in DOMAIN prog /\ phase = "pass2" /\ IsDir(prog[i], BindingDirs)
    BY DEF Pass2Binding, At
  <2>2. DOMAIN prog = 1 .. Len(prog)
    BY DEF TypeInv, SectionInv
  <2> QED BY <2>1, <2>2
<1>2. ASSUME NEW k \in LabelIndices(prog[i])
      PROVE  LET op == prog[i].operands[k]
             IN  BoundTo(k) = Candidates(prog, i, op.name, op.is_local)
  <2>1. prog[i].operands[k] \in Operand /\ IsLabel(prog[i].operands[k])
    BY <1>1, ItemAt DEF LabelIndices, IsDir
  <2>2. prog[i].operands[k].is_local \in BOOLEAN
    BY <2>1, OperandFacts DEF IsLabel
  <2> QED BY <1>1, <2>2, LabelItemsAreMeant DEF BoundTo, Scoped
<1>3. ASSUME NEW k \in LabelIndices(prog[i]), NEW op, op = prog[i].operands[k]
      PROVE  IsMeant(prog, i, op.name, op.is_local, d) <=> k \in Named /\ First(BoundTo(k)) = d
  <2>1. BoundTo(k) = Candidates(prog, i, op.name, op.is_local)
    BY <1>2, <1>3
  <2>2. ASSUME IsMeant(prog, i, op.name, op.is_local, d)
        PROVE  k \in Named /\ First(BoundTo(k)) = d
    <3>1. d \in BoundTo(k) /\ \A e \in BoundTo(k) : d <= e
      BY <2>1, <2>2 DEF IsMeant
    <3>2. k \in Named
      BY <3>1 DEF Named
    <3>3. First(BoundTo(k)) \in BoundTo(k) /\ First(BoundTo(k)) \in DOMAIN prog
          /\ First(BoundTo(k)) <= d
      BY <3>1, <3>2, BoundToLabels
    <3> QED BY <1>1, <3>1, <3>2, <3>3
  <2>3. ASSUME k \in Named, First(BoundTo(k)) = d
        PROVE  IsMeant(prog, i, op.name, op.is_local, d)
    BY <2>1, <2>3, BoundToLabels DEF IsMeant
  <2> QED BY <2>2, <2>3
<1>4. Declares(i, d) <=> \E k \in Named : First(BoundTo(k)) = d
  <2>1. Named \subseteq LabelIndices(prog[i])
    BY DEF Named
  <2>2. ASSUME Declares(i, d) PROVE \E k \in Named : First(BoundTo(k)) = d
    <3>1. PICK k \in DOMAIN prog[i].operands :
            LET op == prog[i].operands[k]
            IN  IsLabel(op) /\ IsMeant(prog, i, op.name, op.is_local, d)
      BY <2>2 DEF Declares
    <3>2. k \in LabelIndices(prog[i])
      BY <3>1 DEF LabelIndices
    <3> QED BY <1>3, <3>1, <3>2
  <2>3. ASSUME NEW k \in Named, First(BoundTo(k)) = d PROVE Declares(i, d)
    <3>1. k \in DOMAIN prog[i].operands /\ IsLabel(prog[i].operands[k])
      BY <2>1 DEF LabelIndices
    <3>2. LET op == prog[i].operands[k] IN IsMeant(prog, i, op.name, op.is_local, d)
      BY <1>3, <2>1, <2>3
    <3> QED BY <1>1, <3>1, <3>2 DEF Declares
  <2> QED BY <2>2, <2>3
<1>5. ASSUME Declares(i, d), d \notin Bound
      PROVE  Contradicts(sym_map[d], prog[i].dir) /\ Clashing # {}
  <2>1. PICK k \in Named : First(BoundTo(k)) = d
    BY <1>4, <1>5
  <2>2. k \in Clashing
    BY <1>5, <2>1 DEF Bound
  <2> QED BY <2>1, <2>2 DEF Clashing
<1>6. ASSUME d \in Bound PROVE Declares(i, d) /\ ~Contradicts(sym_map[d], prog[i].dir)
  <2>1. PICK k \in Named : k \notin Clashing /\ First(BoundTo(k)) = d
    BY <1>6 DEF Bound
  <2> QED BY <1>4, <2>1 DEF Clashing
<1> QED BY <1>4, <1>5, <1>6

LEMMA BindingBind == TypeInv /\ ScopesInv /\ BindInv /\ Pass2Binding => BindInv'
<1> SUFFICES ASSUME TypeInv, ScopesInv, BindInv, Pass2Binding PROVE BindInv'
  OBVIOUS
<1>0. [Next]_vars
  BY DEF Next
<1>1. /\ i \in DOMAIN prog /\ phase = "pass2" /\ prog[i].kind # "label"
      /\ prog' = prog /\ phase' = phase /\ i' = i + 1
  BY DEF Pass2Binding, IsDir, At, Advance
<1>2. Turn = i /\ Turn' = i + 1
  BY <1>1 DEF Turn
<1>3. SomethingReported => SomethingReported'
  BY <1>0, <1>1, ReportsStay DEF SomethingReported
<1>4. ASSUME Clashing # {} PROVE SomethingReported'
  <2>1. prog[i].operands \in Seq(Operand) /\ Clashing \in SUBSET DOMAIN prog[i].operands
    BY <1>1, ItemAt DEF Clashing, Named, LabelIndices
  <2>2. Cardinality(Clashing) \in Nat /\ Cardinality(Clashing) > 0
    <3>1. IsFiniteSet(Clashing) /\ Cardinality(Clashing) \in Nat
      BY <2>1, CountOfOperands
    <3> QED BY <1>4, <3>1, FS_EmptySet
  <2>3. diags \in [DOMAIN prog -> Nat] /\ diags' = [diags EXCEPT ![i] = @ + Cardinality(Clashing)]
    BY BindingBinds DEF Report, TypeInv, ReportsTyped
  <2>4. diags'[i] > 0
    BY <1>1, <2>2, <2>3
  <2> QED BY <1>1, <2>4 DEF SomethingReported
<1>5. ASSUME NEW d \in DOMAIN prog
      PROVE  LET after == DeclaredBefore(d, i + 1)
             IN  /\ IF sym_map'[d].specified THEN sym_map'[d].binding \in after
                    ELSE after = {} /\ sym_map'[d].binding = "local"
                 /\ after \subseteq {sym_map'[d].binding} \/ after = {} \/ SomethingReported'
  <2> DEFINE before == DeclaredBefore(d, i)
             after  == DeclaredBefore(d, i + 1)
             dir    == prog[i].dir
             old    == sym_map[d]
             new    == sym_map'[d]
  <2>1. after = before \union (IF Declares(i, d) THEN {dir} ELSE {})
    BY <1>1, DeclaredNext
  <2>2. /\ IF old.specified THEN old.binding \in before ELSE before = {} /\ old.binding = "local"
        /\ before \subseteq {old.binding} \/ before = {} \/ SomethingReported
    BY <1>2 DEF BindInv
  <2>3. old \in [sym : 0 .. Len(syms), parent : 0 .. Len(prog),
                 specified : BOOLEAN, binding : BindingDirs]
    BY DEF TypeInv, SymbolsTyped
  <2>4. CASE d \in Bound
    <3>1. Declares(i, d) /\ ~Contradicts(old, dir)
      BY <2>4, DeclaresIsBinding
    <3>2. new.specified = TRUE /\ new.binding = dir
      <4>1. new = [old EXCEPT !.specified = TRUE, !.binding = dir]
        BY <2>4, BindingBinds
      <4> HIDE DEF old, new, dir
      <4> QED BY <2>3, <4>1
    <3>3. after = before \union {dir}
      BY <2>1, <3>1
    <3>4. before \subseteq {dir} \/ SomethingReported
      BY <2>2, <2>3, <3>1 DEF Contradicts
    <3> HIDE DEF before, after, dir, old, new
    <3> QED BY <1>3, <3>2, <3>3, <3>4 DEF after, new
  <2>5. CASE d \notin Bound
    <3>1. new = old
      BY <2>5, BindingBinds
    <3>2. CASE Declares(i, d)
      <4>1. Contradicts(old, dir) /\ SomethingReported'
        BY <1>4, <2>5, <3>2, DeclaresIsBinding
      <4>2. old.binding \in after /\ old.specified = TRUE
        BY <2>1, <2>2, <2>3, <4>1 DEF Contradicts
      <4> HIDE DEF before, after, dir, old, new
      <4> QED BY <3>1, <4>1, <4>2 DEF after, new
    <3>3. CASE ~Declares(i, d)
      <4>1. after = before
        BY <2>1, <3>3
      <4> HIDE DEF before, after, dir, old, new
      <4> QED BY <1>3, <2>2, <3>1, <4>1 DEF after, new
    <3> QED BY <3>2, <3>3
  <2> QED BY <2>4, <2>5
<1>6. ASSUME NEW d \in DOMAIN prog PROVE DeclaredBefore(d, Turn)' = DeclaredBefore(d, i + 1)
  BY <1>1, <1>2 DEF DeclaredBefore, Declares
<1> QED BY <1>1, <1>5, <1>6 DEF BindInv
\* Items that pass 2 passes over without looking at bindings.
LEMMA PassTwoTurns ==
  ASSUME TypeInv, Pass2Section \/ Pass2Label \/ Pass2Extern \/ Pass2Skip
  PROVE  /\ i \in DOMAIN prog /\ prog' = prog /\ Turn = i /\ Turn' = i + 1
         /\ ~IsDir(prog[i], BindingDirs)
<1>1. i \in DOMAIN prog /\ phase = "pass2" /\ Advance
  BY DEF Pass2Section, Pass2Label, Pass2Extern, Pass2Skip, At
<1>2. prog' = prog /\ Turn = i /\ Turn' = i + 1
  BY <1>1 DEF Advance, Turn
<1>3. ASSUME Pass2Section PROVE ~IsDir(prog[i], BindingDirs)
  BY <1>3 DEF Pass2Section, IsSection, IsDir, BindingDirs
<1>4. ASSUME Pass2Label PROVE ~IsDir(prog[i], BindingDirs)
  BY <1>4 DEF Pass2Label, IsDir
<1>5. ASSUME Pass2Extern PROVE ~IsDir(prog[i], BindingDirs)
  BY <1>5 DEF Pass2Extern, IsDir, BindingDirs
<1>6. ASSUME Pass2Skip PROVE ~IsDir(prog[i], BindingDirs)
  BY <1>6 DEF Pass2Skip, IsDir, BindingDirs, DataDirs
<1>7. ~IsDir(prog[i], BindingDirs)
  BY <1>3, <1>4, <1>5, <1>6
<1> QED BY <1>1, <1>2, <1>7

LEMMA StepBind == TypeInv /\ ScopesInv /\ BindInv /\ [Next]_vars => BindInv'
<1> SUFFICES ASSUME TypeInv, ScopesInv, BindInv, [Next]_vars PROVE BindInv'
  OBVIOUS
<1> DEFINE Info == [sym : 0 .. Len(syms), parent : 0 .. Len(prog),
                    specified : BOOLEAN, binding : BindingDirs]
<1>1. sym_map \in [DOMAIN prog -> Info] /\ error_count = 0
  BY DEF TypeInv, SymbolsTyped, ReportsTyped
<1>2. DOMAIN prog = 1 .. Len(prog) /\ Len(prog) \in Nat /\ i \in 1 .. Len(prog) + 1
  BY DEF TypeInv, SectionInv
<1>3. ASSUME prog' = prog, Turn' = Turn
      PROVE  \A d \in DOMAIN prog : DeclaredBefore(d, Turn)' = DeclaredBefore(d, Turn)
  BY <1>3 DEF DeclaredBefore, Declares
<1>4. ASSUME Pass2Section \/ Pass2Label \/ Pass2Extern \/ Pass2Skip
      PROVE  \A d \in DOMAIN prog : DeclaredBefore(d, Turn)' = DeclaredBefore(d, Turn)
  <2> SUFFICES ASSUME NEW d \in DOMAIN prog
               PROVE  DeclaredBefore(d, Turn)' = DeclaredBefore(d, Turn)
    OBVIOUS
  <2>1. /\ i \in DOMAIN prog /\ prog' = prog /\ Turn = i /\ Turn' = i + 1
        /\ ~IsDir(prog[i], BindingDirs)
    BY <1>4, PassTwoTurns
  <2>2. DeclaredBefore(d, Turn)' = DeclaredBefore(d, i + 1)
    BY <2>1 DEF DeclaredBefore, Declares
  <2>3. DeclaredBefore(d, i + 1) = DeclaredBefore(d, i)
    BY <2>1, DeclaredNext DEF Declares
  <2> QED BY <2>1, <2>2, <2>3
<1>5. CASE Pass1Section \/ Pass1Label \/ Pass1Org \/ Pass1Code
  <2>1. phase = "pass1" /\ phase' = phase /\ prog' = prog
    BY <1>5 DEF Pass1Section, Pass1Label, Pass1Org, Pass1Code, At, Place, Advance
  <2>2. sym_map' = sym_map \/ sym_map' = [sym_map EXCEPT ![i].parent = global]
    BY <1>5 DEF Pass1Section, Pass1Label, Pass1Org, Pass1Code
  <2>3. Turn' = Turn
    BY <2>1 DEF Turn
  <2>4. \A d \in DOMAIN prog : /\ sym_map'[d].specified = sym_map[d].specified
                               /\ sym_map'[d].binding = sym_map[d].binding
    BY <1>1, <2>2, SMTT(30)
  <2> QED BY <1>3, <2>1, <2>3, <2>4, BindKept
<1>6. CASE EndPass1 \/ EndPass2 \/ EndPass3
  <2>1. /\ UNCHANGED <<prog, sym_map>> /\ i \notin DOMAIN prog
        /\ \/ phase = "pass1" /\ phase' = "pass2" /\ i' = 1
           \/ phase = "pass2" /\ phase' = "pass3"
           \/ phase = "pass3" /\ phase' = "done"
    BY <1>1, <1>6 DEF EndPass1, EndPass2, EndPass3, StartPass
  <2>2. Turn' = Turn
    BY <1>2, <2>1 DEF Turn
  <2> QED BY <1>3, <2>1, <2>2, BindKept
<1>7. CASE Pass2Section \/ Pass2Extern \/ Pass2Skip
  <2>1. UNCHANGED <<prog, sym_map>>
    BY <1>7 DEF Pass2Section, Pass2Extern, Pass2Skip, Advance
  <2> QED BY <1>4, <1>7, <2>1, BindKept
<1>8. CASE Pass2Label
  <2> DEFINE par == IF prog[i].is_local THEN global ELSE NoItem
             bind == IF sym_map[i].specified THEN sym_map[i].binding ELSE "local"
  <2>1. i \in DOMAIN prog /\ prog' = prog
    BY <1>8 DEF Pass2Label, At, Advance
  <2>2. sym_map' = sym_map \/ EntersSymbol(par, bind)
    BY <1>8, LabelEntersSymbol
  <2>3. bind = sym_map[i].binding
    BY <2>1 DEF BindInv
  <2> HIDE DEF par, bind
  <2>4. ASSUME EntersSymbol(par, bind)
        PROVE  /\ sym_map'[i].specified = sym_map[i].specified
               /\ sym_map'[i].binding = sym_map[i].binding
               /\ \A d \in DOMAIN prog : d # i => sym_map'[d] = sym_map[d]
    <3>1. sym_map' = [sym_map EXCEPT ![i] = [sym |-> Len(syms) + 1, parent |-> par,
                                             specified |-> sym_map[i].specified,
                                             binding |-> bind]]
      BY <2>4 DEF EntersSymbol
    <3> QED BY <1>1, <2>1, <2>3, <3>1
  <2>5. \A d \in DOMAIN prog : /\ sym_map'[d].specified = sym_map[d].specified
                               /\ sym_map'[d].binding = sym_map[d].binding
    BY <2>2, <2>4
  <2> QED BY <1>4, <1>8, <2>1, <2>5, BindKept
<1>9. CASE Pass3Outside \/ Pass3Label \/ Pass3Instr \/ Pass3Data \/ Pass3String \/ Pass3Pad
  <2>1. UNCHANGED <<prog, sym_map>> /\ phase = "pass3" /\ phase' = phase
    <3>1. CASE Pass3Outside \/ Pass3Label
      BY <3>1 DEF Pass3Outside, Pass3Label, In, At, Filled, Advance
    <3>2. CASE Pass3Instr \/ Pass3Data \/ Pass3String \/ Pass3Pad
      BY <3>2, FilledActions DEF At, Filled, Advance
    <3> QED BY <1>9, <3>1, <3>2
  <2>2. Turn' = Turn
    BY <2>1 DEF Turn
  <2> QED BY <1>3, <2>1, <2>2, BindKept
<1>10. CASE UNCHANGED vars
  <2>1. UNCHANGED <<prog, sym_map, phase, i>>
    BY <1>10 DEF vars
  <2>2. Turn' = Turn
    BY <2>1 DEF Turn
  <2> QED BY <1>3, <2>1, <2>2, BindKept
<1> QED BY <1>5, <1>6, <1>7, <1>8, <1>9, <1>10, BindingBind DEF Next

-----------------------------------------------------------------------------
(* Relocations *)

LEMMA InitRelocs == Init => RelocInv
BY DEF Init, RelocInv, AllRefer
LEMMA FoundRefers ==
  ASSUME TypeInv, ScopesInv, SymsInv, phase = "pass3", LabelsInSections, i \in DOMAIN prog,
         prog[i].kind # "label", NEW k \in LabelIndices(prog[i]), SymOf(k) # None
  PROVE  Refers(i, prog[i].operands[k], SymOf(k))
<1> DEFINE op == prog[i].operands[k]
           t == SymOf(k)
           C == Candidates(prog, i, op.name, op.is_local)
           named == {s \in DOMAIN syms : syms[s].name = <<op.name>>}
<1>1. op \in Operand /\ IsLabel(op)
  BY ItemAt DEF LabelIndices
<1>2. op.is_local \in BOOLEAN /\ op.name \in STRING
  BY <1>1, OperandFacts DEF IsLabel
<1>3. LabelItems(op.name, op.is_local) = C
  BY <1>2, LabelItemsAreMeant DEF Scoped
<1>4. t = IF C # {} THEN sym_map[First(C)].sym ELSE IF named # {} THEN First(named) ELSE None
  BY <1>3 DEF SymOf, FindSymbol
<1>5. CASE C # {}
  <2>1. C \subseteq DOMAIN prog /\ DOMAIN prog = 1 .. Len(prog)
    BY DEF Candidates, TypeInv, SectionInv
  <2>2. C \in SUBSET Nat
    BY <2>1
  <2>3. First(C) \in C
    <3> HIDE DEF C
    <3> QED BY <1>5, <2>2, FirstIsFirst
  <2>4. First(C) \in DOMAIN prog /\ t = sym_map[First(C)].sym
    BY <1>4, <1>5, <2>1, <2>3
  <2>5. IsSymbolOf(t, First(C))
    BY <2>4 DEF SymsInv
  <2> QED BY <1>5, <2>4, <2>5 DEF Refers, IsSymbolOf
<1>6. CASE C = {}
  <2>1. named # {} /\ t = First(named)
    BY <1>4, <1>6
  <2>2. named \in SUBSET Nat
    BY DEF TypeInv, SymbolsTyped
  <2>3. t \in named
    <3> HIDE DEF named, t
    <3> QED BY <2>1, <2>2, FirstIsFirst
  <2>4. t \in DOMAIN syms /\ syms[t].name = <<op.name>>
    BY <2>3
  <2>5. ASSUME syms[t].section # None
        PROVE  \E d \in DOMAIN prog :
                 /\ sym_map[d].sym = t
                 /\ IF prog[d].is_local THEN sym_map[d].parent = NoItem ELSE op.is_local
    <3>1. PICK d \in DOMAIN prog : sym_map[d].sym = t
      <4> HIDE DEF t
      <4> QED BY <2>4, <2>5 DEF SymsInv
    <3>2. IsSymbolOf(t, d)
      BY <3>1 DEF SymsInv
    <3>3. SymbolName(prog[d], sym_map[d].parent) = <<op.name>> /\ prog[d].kind = "label"
      BY <2>4, <3>2 DEF IsSymbolOf
    <3>4. ASSUME prog[d].is_local, sym_map[d].parent # NoItem PROVE FALSE
      <4>1. <<prog[sym_map[d].parent].name, prog[d].name>> = <<op.name>>
        BY <3>3, <3>4 DEF SymbolName
      <4>2. Len(<<prog[sym_map[d].parent].name, prog[d].name>>) = 2 /\ Len(<<op.name>>) = 1
        OBVIOUS
      <4> QED BY <4>1, <4>2
    <3>5. ASSUME ~prog[d].is_local, ~op.is_local PROVE FALSE
      <4>1. <<prog[d].name>> = <<op.name>>
        BY <3>3, <3>5 DEF SymbolName
      <4>2. prog[d].name = op.name
        BY <4>1
      <4>3. prog[d].is_local = FALSE /\ op.is_local = FALSE
        <5>1. prog[d] \in Item
          BY DEF TypeInv, SectionInv
        <5> QED BY <1>2, <3>3, <3>5, <5>1, ItemFacts
      <4>4. d \in C
        BY <3>3, <4>2, <4>3 DEF Candidates
      <4> QED BY <1>6, <4>4
    <3> QED BY <3>1, <3>4, <3>5
  <2> QED BY <1>6, <2>4, <2>5 DEF Refers
<1> QED BY <1>5, <1>6
LEMMA NamingIsReferring ==
  RelocsNameTheirLabel <=> (phase \in {"pass3", "done"} => AllRefer)
BY DEF RelocsNameTheirLabel, AllRefer, Refers

\* Pass 3 changes nothing that the meaning of a relocation depends on.
LEMMA RefersStays ==
  ASSUME NEW j, NEW op, NEW t, UNCHANGED <<prog, addrs, sym_map, syms>>, Refers(j, op, t)
  PROVE  Refers(j, op, t)'
BY DEF Refers

LEMMA SettledStays ==
  ASSUME TypeInv, [Next]_vars, UNCHANGED <<prog, addrs>>, NEW j \in DOMAIN prog, Settled(j),
         \A r \in DOMAIN relocs : r \in DOMAIN relocs' /\ relocs'[r] = relocs[r]
  PROVE  Settled(j)'
<1> SUFFICES ASSUME addrs[j].section # None, Relocating(prog[j]), NEW k \in LabelIndices(prog[j])
             PROVE  \/ \E r \in DOMAIN relocs' : relocs'[r].item = j /\ relocs'[r].operand = k
                    \/ diags'[j] > 0
  BY DEF Settled
<1>1. CASE diags[j] > 0
  BY <1>1, ReportsStay
<1>2. ASSUME NEW r \in DOMAIN relocs, relocs[r].item = j, relocs[r].operand = k
      PROVE  \E q \in DOMAIN relocs' : relocs'[q].item = j /\ relocs'[q].operand = k
  BY <1>2
<1> QED BY <1>1, <1>2 DEF Settled

\* A turn of pass 3 that adds no relocation, because none is due.
LEMMA RelocsKept ==
  ASSUME TypeInv, RelocInv, [Next]_vars, phase = "pass3", i \in DOMAIN prog, Advance,
         UNCHANGED <<addrs, sym_map, syms, relocs>>,
         \/ addrs[i].section = None
         \/ Relocating(prog[i]) => LabelIndices(prog[i]) = {}
  PROVE  RelocInv'
<1>1. prog' = prog /\ phase' = phase /\ i' = i + 1 /\ DOMAIN prog \subseteq Nat /\ i \in Nat
  <2>1. DOMAIN prog = 1 .. Len(prog)
    BY DEF TypeInv, SectionInv
  <2> QED BY <2>1 DEF Advance
<1>2. AllRefer'
  <2>1. AllRefer
    BY DEF RelocInv
  <2> QED BY <1>1, <2>1, RefersStays DEF AllRefer, LabelsInSections, RelocatedOperand
<1>3. ASSUME NEW j \in DOMAIN prog, j < i + 1 PROVE Settled(j)'
  <2>1. Settled(j)
    <3>1. CASE j = i
      BY <3>1 DEF Settled
    <3>2. CASE j # i
      <4>1. j < i
        BY <1>1, <1>3, <3>2
      <4> QED BY <4>1 DEF RelocInv
    <3> QED BY <3>1, <3>2
  <2> QED BY <1>1, <2>1, SettledStays
<1>4. \A r \in DOMAIN relocs : relocs[r].item \in DOMAIN prog
  BY DEF RelocInv
<1>5. phase' # "done"
  BY <1>1
<1>6. /\ \A r \in DOMAIN relocs' : relocs'[r].item \in DOMAIN prog'
      /\ \A j \in DOMAIN prog' : phase' = "done" \/ (phase' = "pass3" /\ j < i') => Settled(j)'
  BY <1>1, <1>3, <1>4, <1>5
<1> QED BY <1>1, <1>2, <1>6 DEF RelocInv

\* A turn that relocates label operands.
LEMMA RelocsAdded ==
  ASSUME TypeInv, ScopesInv, SymsInv, RelocInv, [Next]_vars, phase = "pass3", i \in DOMAIN prog,
         Advance, prog[i].kind # "label", UNCHANGED <<addrs, sym_map, syms>>,
         NEW distance, NEW labels \in SUBSET LabelIndices(prog[i]),
         Relocates(labels, distance),
         Relocating(prog[i]) => labels = LabelIndices(prog[i])
  PROVE  RelocInv'
<1>1. prog' = prog /\ phase' = phase /\ i' = i + 1 /\ DOMAIN prog \subseteq Nat /\ i \in Nat
  <2>1. DOMAIN prog = 1 .. Len(prog)
    BY DEF TypeInv, SectionInv
  <2> QED BY <2>1 DEF Advance
<1>2. /\ \A r \in DOMAIN relocs : r \in DOMAIN relocs' /\ relocs'[r] = relocs[r]
      /\ \A r \in DOMAIN relocs' :
           \/ r \in DOMAIN relocs
           \/ \E k \in labels : SymOf(k) # None /\ relocs'[r] = NewReloc(k, distance)
      /\ \A k \in labels : SymOf(k) # None =>
           \E r \in DOMAIN relocs' : relocs'[r] = NewReloc(k, distance)
      /\ \E n \in Nat : Report(n) /\ ((\E k \in labels : SymOf(k) = None) => n > 0)
  BY DEF Relocates
<1>3. \A k : NewReloc(k, distance).item = i /\ NewReloc(k, distance).operand = k
             /\ NewReloc(k, distance).sym = SymOf(k)
  BY DEF NewReloc
<1>4. \A r \in DOMAIN relocs' : relocs'[r].item \in DOMAIN prog
  BY <1>2, <1>3 DEF RelocInv
<1>5. ASSUME LabelsInSections, NEW r \in DOMAIN relocs'
      PROVE  Refers(relocs'[r].item, prog[relocs'[r].item].operands[relocs'[r].operand], relocs'[r].sym)
  <2>1. CASE r \in DOMAIN relocs
    <3>1. Refers(relocs[r].item, RelocatedOperand(r), relocs[r].sym)
      BY <1>5, <2>1 DEF RelocInv, AllRefer
    <3> QED BY <1>2, <2>1, <3>1 DEF RelocatedOperand
  <2>2. ASSUME NEW k \in labels, SymOf(k) # None, relocs'[r] = NewReloc(k, distance)
        PROVE  Refers(relocs'[r].item, prog[relocs'[r].item].operands[relocs'[r].operand], relocs'[r].sym)
    <3>1. Refers(i, prog[i].operands[k], SymOf(k))
      BY <1>5, <2>2, FoundRefers
    <3>2. relocs'[r].item = i /\ relocs'[r].operand = k /\ relocs'[r].sym = SymOf(k)
      BY <1>3, <2>2
    <3> QED BY <3>1, <3>2
  <2> QED BY <1>2, <2>1, <2>2
<1>6. AllRefer'
  <2> SUFFICES ASSUME LabelsInSections, NEW r \in DOMAIN relocs'
               PROVE  Refers(relocs[r].item, RelocatedOperand(r), relocs[r].sym)'
    BY <1>1 DEF AllRefer, LabelsInSections
  <2> DEFINE x == relocs'[r]
             op == prog[x.item].operands[x.operand]
  <2>1. Refers(x.item, op, x.sym)
    BY <1>5
  <2>2. PICK j, o, t : j = x.item /\ o = op /\ t = x.sym
    OBVIOUS
  <2>3. Refers(j, o, t)
    BY <2>1, <2>2
  <2>4. Refers(j, o, t)'
    BY <1>1, <2>3, RefersStays
  <2>5. RelocatedOperand(r)' = op
    BY <1>1 DEF RelocatedOperand
  <2> QED BY <2>2, <2>4, <2>5 DEF Refers
<1>7. ASSUME NEW j \in DOMAIN prog, j < i + 1 PROVE Settled(j)'
  <2>1. CASE j = i
    <3> SUFFICES ASSUME Relocating(prog[j]), NEW k \in LabelIndices(prog[j])
                 PROVE  \/ \E r \in DOMAIN relocs' : relocs'[r].item = j /\ relocs'[r].operand = k
                        \/ diags'[j] > 0
      BY <1>1 DEF Settled
    <3>1. k \in labels
      BY <2>1
    <3>2. CASE SymOf(k) # None
      BY <1>2, <1>3, <2>1, <3>1, <3>2
    <3>3. CASE SymOf(k) = None
      <4>1. PICK n \in Nat : Report(n) /\ n > 0
        BY <1>2, <3>1, <3>3
      <4>2. diags' = [diags EXCEPT ![i] = @ + n] /\ diags \in [DOMAIN prog -> Nat]
        BY <4>1 DEF Report, TypeInv, ReportsTyped
      <4> QED BY <2>1, <4>1, <4>2
    <3> QED BY <3>2, <3>3
  <2>2. CASE j # i
    <3>1. j < i
      BY <1>1, <1>7, <2>2
    <3>2. Settled(j)
      BY <3>1 DEF RelocInv
    <3> QED BY <1>1, <1>2, <3>2, SettledStays
  <2> QED BY <2>1, <2>2
<1>8. /\ \A r \in DOMAIN relocs' : relocs'[r].item \in DOMAIN prog'
      /\ \A j \in DOMAIN prog' : phase' = "done" \/ (phase' = "pass3" /\ j < i') => Settled(j)'
  BY <1>1, <1>4, <1>7
<1> QED BY <1>1, <1>6, <1>8 DEF RelocInv
LEMMA StepRelocInv ==
  TypeInv /\ ScopesInv /\ SymsInv /\ RelocInv /\ [Next]_vars => RelocInv'
<1> SUFFICES ASSUME TypeInv, ScopesInv, SymsInv, RelocInv, [Next]_vars PROVE RelocInv'
  OBVIOUS
<1>1. /\ phase \notin {"pass3", "done"} => relocs = <<>>
      /\ DOMAIN prog = 1 .. Len(prog) /\ Len(prog) \in Nat /\ i \in 1 .. Len(prog) + 1
      /\ error_count = 0
  BY DEF TypeInv, RelocsTyped, SectionInv, ReportsTyped
<1>2. CASE \/ Pass1Section \/ Pass1Label \/ Pass1Org \/ Pass1Code \/ EndPass1
           \/ Pass2Section \/ Pass2Label \/ Pass2Extern \/ Pass2Binding \/ Pass2Skip
  <2>1. phase \in {"pass1", "pass2"} /\ phase' \in {"pass1", "pass2"} /\ relocs' = relocs
    <3>1. CASE Pass1Section \/ Pass1Label \/ Pass1Org \/ Pass1Code
      BY <3>1 DEF Pass1Section, Pass1Label, Pass1Org, Pass1Code, Place, Advance, At
    <3>2. CASE EndPass1
      BY <1>1, <3>2 DEF EndPass1, StartPass
    <3>3. CASE Pass2Section \/ Pass2Label \/ Pass2Extern \/ Pass2Binding \/ Pass2Skip
      BY <3>3 DEF Pass2Section, Pass2Label, Pass2Extern, Pass2Binding, Pass2Skip, Advance, At
    <3> QED BY <1>2, <3>1, <3>2, <3>3
  <2>2. relocs' = <<>>
    BY <1>1, <2>1
  <2> QED BY <2>1, <2>2 DEF RelocInv
<1>3. CASE EndPass2
  <2>1. phase = "pass2" /\ phase' = "pass3" /\ i' = 1 /\ prog' = prog /\ relocs' = relocs
    BY <1>3 DEF EndPass2, StartPass
  <2>2. relocs' = <<>> /\ \A j \in DOMAIN prog : ~(j < i')
    BY <1>1, <2>1
  <2> QED BY <2>1, <2>2 DEF RelocInv, AllRefer
<1>4. CASE EndPass3
  <2>1. /\ phase = "pass3" /\ i \notin DOMAIN prog /\ phase' = "done"
        /\ UNCHANGED <<prog, addrs, sym_map, syms, relocs, diags>>
    BY <1>4 DEF EndPass3, pass1vars
  <2>2. \A j \in DOMAIN prog : j < i
    BY <1>1, <2>1
  <2>3. /\ \A j \in DOMAIN prog : Settled(j)
        /\ AllRefer /\ \A r \in DOMAIN relocs : relocs[r].item \in DOMAIN prog
    BY <2>1, <2>2 DEF RelocInv
  <2>4. AllRefer'
    BY <2>1, <2>3, RefersStays DEF AllRefer, LabelsInSections, RelocatedOperand
  <2>5. \A j \in DOMAIN prog : Settled(j)'
    BY <2>1, <2>3 DEF Settled
  <2> QED BY <2>1, <2>3, <2>4, <2>5 DEF RelocInv
<1>5. CASE Pass3Outside
  <2>1. /\ phase = "pass3" /\ i \in DOMAIN prog /\ Advance /\ addrs[i].section = None
        /\ UNCHANGED <<addrs, sym_map, syms, relocs>>
    BY <1>5 DEF Pass3Outside, At, Filled, pass1vars
  <2> QED BY <2>1, RelocsKept
<1>6. CASE Pass3Label
  <2>1. /\ phase = "pass3" /\ i \in DOMAIN prog /\ Advance /\ prog[i].kind = "label"
        /\ UNCHANGED <<addrs, sym_map, syms, relocs>>
    BY <1>6 DEF Pass3Label, In, At, pass1vars
  <2>2. ~Relocating(prog[i])
    BY <2>1 DEF Relocating, IsDir
  <2> QED BY <2>1, <2>2, RelocsKept
<1>7. ASSUME Pass3Instr \/ Pass3Data \/ Pass3String \/ Pass3Pad
      PROVE  /\ phase = "pass3" /\ i \in DOMAIN prog /\ Advance /\ prog[i].kind # "label"
             /\ UNCHANGED <<addrs, sym_map, syms>>
  BY <1>7, FilledActions DEF Filled, At, pass1vars
<1>8. CASE Pass3String
  <2>1. prog[i].kind = "directive" /\ prog[i].dir = "string" /\ relocs' = relocs
    BY <1>8 DEF Pass3String, In
  <2>2. ~Relocating(prog[i])
    BY <2>1 DEF Relocating, IsDir, DataDirs
  <2> QED BY <1>7, <1>8, <2>1, <2>2, RelocsKept
<1>9. CASE Pass3Instr \/ Pass3Data \/ Pass3Pad
  <2>1. CASE /\ UNCHANGED <<relocs, diags, error_count>>
             /\ Relocating(prog[i]) => LabelIndices(prog[i]) = {}
    BY <1>7, <1>9, <2>1, RelocsKept
  <2>2. ASSUME NEW distance, NEW labels \in SUBSET LabelIndices(prog[i]),
               Relocates(labels, distance),
               Relocating(prog[i]) => labels = LabelIndices(prog[i])
        PROVE  RelocInv'
    BY <1>7, <1>9, <2>2, RelocsAdded
  <2> QED BY <1>9, <2>1, <2>2, PassThreeFills
<1>10. CASE UNCHANGED vars
  <2>1. UNCHANGED <<prog, i, phase, addrs, sym_map, syms, relocs, diags>>
    BY <1>10 DEF vars, pass1vars
  <2>2. AllRefer => AllRefer'
    BY <2>1 DEF AllRefer, Refers, LabelsInSections, RelocatedOperand
  <2>3. \A j \in DOMAIN prog : Settled(j) => Settled(j)'
    BY <2>1 DEF Settled
  <2> QED BY <2>1, <2>2, <2>3 DEF RelocInv
<1> QED BY <1>2, <1>3, <1>4, <1>5, <1>6, <1>8, <1>9, <1>10 DEF Next

-----------------------------------------------------------------------------
(* The theorems *)

LEMMA InitInv == Init => Inv
BY InitTypeInv, InitScopes, InitSyms, InitBind, InitRelocs DEF Inv

LEMMA StepInv == Inv /\ [Next]_vars => Inv'
BY StepTypeInv, StepScopes, StepSyms, StepBind, StepRelocInv DEF Inv

LEMMA SpecInv == Spec => []Inv
BY InitInv, StepInv, PTL DEF Spec

\* When pass 2 is over, every directive of the program has been applied.
LEMMA AllDeclared ==
  ASSUME TypeInv, phase = "done", NEW d
  PROVE  DeclaredBefore(d, Turn) = Declared(d)
<1>1. \A k \in DOMAIN prog : k < Turn
  <2>1. DOMAIN prog = 1 .. Len(prog) /\ Len(prog) \in Nat
    BY DEF TypeInv, SectionInv
  <2> QED BY <2>1 DEF Turn
<1> QED BY <1>1 DEF DeclaredBefore, Declared, Declares

LEMMA InvBindingsHold == Inv => BindingsHold
<1> SUFFICES ASSUME Inv, phase = "done", NEW d \in DOMAIN prog, sym_map[d].sym # None
             PROVE  /\ Declared(d) = {} => syms[sym_map[d].sym].binding = "local"
                    /\ \A b \in BindingDirs :
                         Declared(d) = {b} => syms[sym_map[d].sym].binding = b
  BY DEF BindingsHold
<1>1. syms[sym_map[d].sym].binding = sym_map[d].binding
  BY DEF Inv, SymsInv, IsSymbolOf
<1>2. DeclaredBefore(d, Turn) = Declared(d)
  BY AllDeclared DEF Inv
<1>3. IF sym_map[d].specified THEN sym_map[d].binding \in Declared(d)
      ELSE Declared(d) = {} /\ sym_map[d].binding = "local"
  BY <1>2 DEF Inv, BindInv
<1> QED BY <1>1, <1>3

LEMMA InvConflictsReported == Inv => ConflictsAreReported
<1> SUFFICES ASSUME Inv, phase = "done", NEW d \in DOMAIN prog,
                    NEW b \in BindingDirs, NEW c \in BindingDirs,
                    {b, c} \subseteq Declared(d), b # c
             PROVE  \E j \in DOMAIN prog : diags[j] > 0
  BY DEF ConflictsAreReported
<1>1. DeclaredBefore(d, Turn) = Declared(d)
  BY AllDeclared DEF Inv
<1>2. Declared(d) \subseteq {sym_map[d].binding} \/ Declared(d) = {} \/ SomethingReported
  BY <1>1 DEF Inv, BindInv
<1> QED BY <1>2 DEF SomethingReported

LEMMA InvLabelsReported == Inv => LabelsRelocatedOrReported
<1> SUFFICES ASSUME Inv, phase = "done", NEW j \in DOMAIN prog, addrs[j].section # None,
                    \/ prog[j].kind = "instr" /\ IsValid(prog[j])
                    \/ IsDir(prog[j], DataDirs),
                    NEW k \in LabelIndices(prog[j])
             PROVE  \/ \E r \in DOMAIN relocs : relocs[r].item = j /\ relocs[r].operand = k
                    \/ diags[j] > 0
  BY DEF LabelsRelocatedOrReported
<1>1. Settled(j)
  BY DEF Inv, RelocInv
<1> QED BY <1>1 DEF Settled, Relocating

\* A symbol gets the binding that a directive anywhere in the program declares
\* for its label, although directives are applied as pass 2 comes by them, before
\* the label or after it.
THEOREM TObjBindingsHold == Spec => []BindingsHold
BY SpecInv, InvBindingsHold, PTL

\* Two directives that declare different bindings for a label do not both go
\* through in silence, wherever they stand.
THEOREM TObjConflictsAreReported == Spec => []ConflictsAreReported
BY SpecInv, InvConflictsReported, PTL

\* A relocation refers to the symbol of the label that its operand means by the
\* rules of scope, although pass 3 looks it up among the symbols of pass 2; an
\* operand that means nothing finds a symbol of its bare name at most.
THEOREM TObjRelocsNameTheirLabel == Spec => []RelocsNameTheirLabel
<1>1. Inv => RelocsNameTheirLabel
  BY NamingIsReferring DEF Inv, RelocInv
<1> QED BY <1>1, SpecInv, PTL

\* No label operand of what is assembled into a section is left without both a
\* relocation and an error.
THEOREM TObjLabelsRelocatedOrReported == Spec => []LabelsRelocatedOrReported
BY SpecInv, InvLabelsReported, PTL
-----------------------------------------------------------------------------
(***************************************************************************)
(* Where things are: invariants for the agreement of the back ends.        *)
(***************************************************************************)
\* Pass 1 has been at item j.
PlacedBefore(j) == phase = "pass1" => j < i

\* An item goes where the one before it ends, if that is in the same section;
\* with a %section first, all are in one.
FollowInv ==
  /\ phase = "pass1" =>
       /\ section # None => ends[section] = offset
       /\ i > 1 => section = addrs[i - 1].section /\ (section # None => offset = EndOf(i - 1))
  /\ \A j \in 2 .. Len(prog) :
       /\ PlacedBefore(j)
       /\ addrs[j].section # None /\ addrs[j - 1].section = addrs[j].section
       /\ ~IsDir(prog[j], {"org"})
       => addrs[j].offset = EndOf(j - 1)
  /\ \A j \in DOMAIN prog : IsSection(1) /\ PlacedBefore(j) => addrs[j].section # None

\* Pass 3 has been at item j.
FilledBefore(j) == phase = "done" \/ (phase = "pass3" /\ j < i)

\* Place x of section s is in what is written for item j.
Covers(j, s, x) ==
  addrs[j].section = s /\ x - addrs[j].offset \in 1 .. Len(Written(prog[j]))

\* What pass 3 has written is still there, and there is nothing else but padding.
DataInv ==
  phase \in {"pass3", "done"} /\ LaidOut(Len(prog)) =>
    \A s \in DOMAIN secs :
      /\ \A j \in DOMAIN prog : FilledBefore(j) /\ addrs[j].section = s =>
           \A t \in 1 .. Len(Written(prog[j])) :
             /\ addrs[j].offset + t \in DOMAIN secs[s].data
             /\ secs[s].data[addrs[j].offset + t] = Written(prog[j])[t]
      /\ \A x \in DOMAIN secs[s].data :
           \/ secs[s].data[x] = [pad |-> 0]
           \/ \E j \in DOMAIN prog : FilledBefore(j) /\ Covers(j, s, x)

\* A relocation is where its operand is in its item.
RelocatesOperand(r) ==
  LET j == relocs[r].item
      k == relocs[r].operand
  IN  /\ j \in DOMAIN prog /\ addrs[j].section # None
      /\ Relocating(prog[j]) /\ k \in LabelIndices(prog[j])
      /\ relocs[r].section = addrs[j].section
      /\ relocs[r].offset = addrs[j].offset + Distance(prog[j], k)

PlacesInv == \A r \in DOMAIN relocs : RelocatesOperand(r)

-----------------------------------------------------------------------------
(* Where pass 1 puts items *)

LEMMA InitFollow == Init => FollowInv
<1> SUFFICES ASSUME Init PROVE FollowInv
  OBVIOUS
<1>1. phase = "pass1" /\ i = 1 /\ section = None
  BY DEF Init
<1>2. prog \in Seq(Item)
  BY TObjAssumption DEF Init
<1>3. \A j \in DOMAIN prog : ~(j < i)
  BY <1>1, <1>2
<1>4. \A j \in 2 .. Len(prog) : ~(j < i)
  BY <1>1
<1> QED BY <1>1, <1>3, <1>4 DEF FollowInv, PlacedBefore

\* A turn of pass 1 that puts its item where its section has got to.
LEMMA PlaceFollows ==
  ASSUME TypeInv, FollowInv, At("pass1"),
         NEW sec \in 0 .. Len(ends) + 1, NEW at \in Nat, NEW next \in Nat,
         Place(sec, at, next), next = at + ItemSize(prog[i]),
         sec = section /\ sec # None /\ ~IsDir(prog[i], {"org"}) => at = offset,
         IF IsSection(i) THEN sec # None ELSE sec = section
  PROVE  FollowInv'
<1>1. /\ i \in 1 .. Len(prog) /\ Len(prog) \in Nat /\ DOMAIN prog = 1 .. Len(prog)
      /\ i \in DOMAIN prog
  BY ItemAt DEF At
<1>2. /\ UNCHANGED <<prog, phase>> /\ phase = "pass1" /\ i' = i + 1
      /\ section' = sec /\ offset' = next
      /\ addrs' = [addrs EXCEPT ![i] = [section |-> sec, offset |-> at]]
  BY DEF Place, Advance, At
<1>3. /\ addrs'[i].section = sec /\ addrs'[i].offset = at
      /\ \A j \in DOMAIN prog : j # i => addrs'[j] = addrs[j]
  BY <1>1, <1>2 DEF TypeInv, PlacesTyped
<1>4. sec # None => ends'[sec] = next
  BY DEF Place
<1> DEFINE E(j) == addrs[j].offset + ItemSize(prog[j])
           F(j) == addrs'[j].offset + ItemSize(prog[j])
<1>5. section # None => ends[section] = offset
  BY <1>2 DEF FollowInv
<1>6. i > 1 => section = addrs[i - 1].section /\ (section # None => offset = E(i - 1))
  BY <1>2 DEF FollowInv, EndOf
<1>7. F(i) = next
  BY <1>3
<1>8. \A j \in DOMAIN prog : j # i => F(j) = E(j)
  BY <1>3
<1> HIDE DEF E, F
<1>9. i' - 1 = i
  BY <1>1, <1>2
<1>10. ASSUME NEW j \in 2 .. Len(prog), j < i + 1,
              addrs'[j].section # None, addrs'[j - 1].section = addrs'[j].section,
              ~IsDir(prog[j], {"org"})
       PROVE  addrs'[j].offset = F(j - 1)
  <2>1. j \in DOMAIN prog /\ j - 1 \in DOMAIN prog /\ j - 1 # i
    BY <1>1, <1>10
  <2>2. addrs'[j - 1] = addrs[j - 1] /\ F(j - 1) = E(j - 1)
    BY <1>3, <1>8, <2>1
  <2>3. CASE j = i
    <3>1. i > 1 /\ addrs[i - 1].section = sec /\ sec # None
      BY <1>3, <1>10, <2>2, <2>3
    <3> QED BY <1>3, <1>6, <1>10, <2>2, <2>3, <3>1
  <2>4. CASE j # i
    <3>1. j < i /\ addrs'[j] = addrs[j]
      BY <1>1, <1>3, <1>10, <2>1, <2>4
    <3> QED BY <1>10, <2>2, <3>1 DEF FollowInv, PlacedBefore, EndOf, E
  <2> QED BY <2>3, <2>4
<1>11. ASSUME NEW j \in DOMAIN prog, IsSection(1), j < i + 1
       PROVE  addrs'[j].section # None
  <2>1. CASE j = i
    <3>1. CASE IsSection(i)
      BY <1>3, <2>1, <3>1
    <3>2. CASE ~IsSection(i)
      <4>1. i > 1 /\ i - 1 \in DOMAIN prog /\ i - 1 < i
        BY <1>1, <1>11, <3>2
      <4>2. addrs[i - 1].section # None
        BY <1>11, <4>1 DEF FollowInv, PlacedBefore
      <4> QED BY <1>3, <1>6, <2>1, <3>2, <4>1, <4>2
    <3> QED BY <3>1, <3>2
  <2>2. CASE j # i
    <3>1. j < i
      BY <1>1, <1>11, <2>2
    <3> QED BY <1>3, <1>11, <2>2, <3>1 DEF FollowInv, PlacedBefore
  <2> QED BY <2>1, <2>2
<1>12. section' # None => ends'[section'] = offset'
  BY <1>2, <1>4
<1>13. /\ section' = addrs'[i].section
       /\ section' # None => offset' = F(i)
  BY <1>2, <1>3, <1>7
<1> QED BY <1>2, <1>9, <1>10, <1>11, <1>12, <1>13 DEF FollowInv, PlacedBefore, EndOf, IsSection, F

LEMMA StepFollow == TypeInv /\ FollowInv /\ [Next]_vars => FollowInv'
<1> SUFFICES ASSUME TypeInv, FollowInv, [Next]_vars PROVE FollowInv'
  OBVIOUS
<1>1. /\ section \in 0 .. Len(ends) /\ offset \in Nat /\ ends \in Seq(Nat) /\ Len(ends) \in Nat
      /\ section \in 0 .. Len(ends) + 1
      /\ i \in 1 .. Len(prog) + 1 /\ Len(prog) \in Nat /\ DOMAIN prog = 1 .. Len(prog)
  <2>1. section \in 0 .. Len(ends) /\ offset \in Nat /\ ends \in Seq(Nat) /\ Len(ends) \in Nat
    BY DEF TypeInv, PlacesTyped
  <2>2. i \in 1 .. Len(prog) + 1 /\ Len(prog) \in Nat /\ DOMAIN prog = 1 .. Len(prog)
    BY DEF TypeInv, SectionInv
  <2> QED BY <2>1, <2>2
<1>2. ASSUME At("pass1")
      PROVE  /\ phase = "pass1" /\ i \in DOMAIN prog /\ ItemSize(prog[i]) \in Nat
             /\ section # None => ends[section] = offset
  BY <1>2, ItemAt, ItemSizeType DEF At, FollowInv
<1>3. CASE Pass1Section
  <2> DEFINE s  == NamedSection
             at == LeftOff(NamedSection)
  <2>1. IsSection(i) /\ Place(s, at, at) /\ At("pass1")
    BY <1>3 DEF Pass1Section
  <2>2. s \in 1 .. Len(ends) + 1 /\ at \in Nat
    BY <1>1, <1>2, <2>1, NamedSectionIs DEF TypeInv, LeftOff
  <2>3. ItemSize(prog[i]) = 0
    BY <2>1 DEF IsSection, IsDir, ItemSize, DirSize, DataDirs
  <2>4. at = at + ItemSize(prog[i])
    BY <2>2, <2>3
  <2>5. s = section /\ s # None => at = offset
    <3>1. s = section /\ s # None => section \in DOMAIN ends
      BY <1>1 DEF None
    <3> QED BY <1>2, <2>1, <3>1 DEF LeftOff
  <2>6. s # None /\ s \in 0 .. Len(ends) + 1
    BY <1>1, <2>2 DEF None
  <2> HIDE DEF s, at
  <2> QED BY <2>1, <2>2, <2>4, <2>5, <2>6, PlaceFollows
<1>4. ASSUME At("pass1"), ~IsSection(i), NEW at \in Nat, NEW next \in Nat,
             Place(section, at, next), next = at + ItemSize(prog[i]),
             ~IsDir(prog[i], {"org"}) => at = offset
      PROVE  FollowInv'
  BY <1>1, <1>4, PlaceFollows
<1>5. CASE Pass1Label
  <2>1. At("pass1") /\ prog[i].kind = "label" /\ Place(section, offset, offset)
    BY <1>5 DEF Pass1Label
  <2>2. ~IsSection(i) /\ offset = offset + ItemSize(prog[i])
    BY <1>1, <2>1 DEF ItemSize, IsSection, IsDir
  <2> QED BY <1>1, <1>4, <2>1, <2>2
<1>6. CASE Pass1Org
  <2>1. At("pass1") /\ IsDir(prog[i], {"org"}) /\ i \in DOMAIN prog
    BY <1>6 DEF Pass1Org, At
  <2>2. ~IsSection(i) /\ ItemSize(prog[i]) = 0
    BY <2>1 DEF IsSection, IsDir, ItemSize, DirSize, DataDirs
  <2>3. ASSUME NEW at \in Nat, Place(section, at, at) PROVE FollowInv'
    BY <1>4, <2>1, <2>2, <2>3, at = at + 0
  <2>4. CASE Len(prog[i].operands) = 1
    <3>1. PICK at \in OrgTargets(prog[i].operands[1]) : Place(section, at, at)
      BY <1>6, <2>4 DEF Pass1Org
    <3>2. at \in Nat
      <4>1. prog[i].operands \in Seq(Operand)
        BY <2>1, ItemAt DEF IsDir
      <4>2. prog[i].operands[1] \in Operand
        BY <2>4, <4>1
      <4> QED BY <4>2, <3>1, OperandFacts, TObjAssumption DEF OrgTargets, IsImm
    <3> QED BY <2>3, <3>1, <3>2
  <2>5. CASE Len(prog[i].operands) # 1
    BY <1>1, <1>6, <2>3, <2>5 DEF Pass1Org
  <2> QED BY <2>4, <2>5
<1>7. CASE Pass1Code
  <2>1. /\ At("pass1") /\ Place(section, offset, offset + ItemSize(prog[i]))
        /\ prog[i].kind = "instr" \/ IsDir(prog[i], Directives \ {"org", "section"})
    BY <1>7 DEF Pass1Code
  <2>2. ~IsSection(i)
    BY <2>1 DEF IsSection, IsDir
  <2>3. offset + ItemSize(prog[i]) \in Nat
    BY <1>1, <1>2, <2>1
  <2> QED BY <1>1, <1>4, <2>1, <2>2, <2>3
<1>8. ASSUME UNCHANGED <<prog, addrs>>, phase' # "pass1",
             phase = "pass1" => i = Len(prog) + 1
      PROVE  FollowInv'
  <2>1. \A j \in 1 .. Len(prog) : PlacedBefore(j)
    BY <1>1, <1>8 DEF PlacedBefore
  <2>2. \A j \in 2 .. Len(prog) : j \in 1 .. Len(prog)
    BY <1>1
  <2> QED BY <1>1, <1>8, <2>1, <2>2 DEF FollowInv, EndOf, IsSection
<1>9. CASE EndPass1
  BY <1>1, <1>8, <1>9 DEF EndPass1, StartPass, pass1vars
<1>10. CASE Pass2Section \/ Pass2Label \/ Pass2Extern \/ Pass2Binding \/ Pass2Skip \/ EndPass2
  BY <1>8, <1>10 DEF Pass2Section, Pass2Label, Pass2Extern, Pass2Binding, Pass2Skip, EndPass2,
     StartPass, At, Advance, pass1vars
<1>11. CASE Pass3Outside \/ Pass3Label \/ EndPass3
  BY <1>8, <1>11 DEF Pass3Outside, Pass3Label, EndPass3, Filled, Advance, In, At, pass1vars
<1>12. CASE Pass3Instr \/ Pass3Data \/ Pass3String \/ Pass3Pad
  <2>1. Filled /\ At("pass3")
    BY <1>12, FilledActions
  <2> QED BY <1>8, <2>1 DEF Filled, At, Advance, pass1vars
<1>13. CASE UNCHANGED vars
  BY <1>13 DEF vars, pass1vars, FollowInv, PlacedBefore, EndOf, IsSection
<1> QED BY <1>3, <1>5, <1>6, <1>7, <1>9, <1>10, <1>11, <1>12, <1>13 DEF Next

-----------------------------------------------------------------------------
(* What pass 3 leaves in a section *)

\* A write puts its trytes where they belong, and leaves or pads what is around.
LEMMA WritePlaces ==
  ASSUME NEW data, IsSequence(data), NEW at \in Nat, NEW trytes, Len(trytes) \in Nat
  PROVE  LET w == Write(data, at, trytes)
         IN  /\ \A t \in 1 .. Len(trytes) : at + t \in DOMAIN w /\ w[at + t] = trytes[t]
             /\ \A x \in DOMAIN data : x \in DOMAIN w /\ (x <= at => w[x] = data[x])
             /\ \A x \in DOMAIN w : \/ x - at \in 1 .. Len(trytes)
                                    \/ x \in DOMAIN data /\ w[x] = data[x]
                                    \/ w[x] = [pad |-> 0]
<1> DEFINE end == at + Len(trytes)
           n == IF Len(data) > end THEN Len(data) ELSE end
           w == Write(data, at, trytes)
           f(x) == IF at < x /\ x <= end THEN trytes[x - at]
                   ELSE IF x <= Len(data) THEN data[x] ELSE [pad |-> 0]
<1>1. /\ Len(data) \in Nat /\ end \in Nat /\ n \in Nat /\ Len(data) <= n /\ end <= n
      /\ end = at + Len(trytes)
  BY DEF IsSequence
<1>2. DOMAIN data = 1 .. Len(data)
  BY DEF IsSequence
<1>3. w = [x \in 1 .. n |-> f(x)]
  BY DEF Write
<1> HIDE DEF w, n, end
<1>4. ASSUME NEW t \in 1 .. Len(trytes)
      PROVE  at + t \in DOMAIN w /\ w[at + t] = trytes[t]
  <2>1. at + t \in 1 .. n /\ at < at + t /\ at + t <= end /\ (at + t) - at = t
    BY <1>1
  <2> QED BY <1>3, <2>1
<1>5. ASSUME NEW x \in DOMAIN data
      PROVE  x \in DOMAIN w /\ (x <= at => w[x] = data[x])
  <2>1. x \in 1 .. n /\ x <= Len(data) /\ (x <= at => ~(at < x))
    BY <1>1, <1>2
  <2> QED BY <1>3, <2>1
<1>6. ASSUME NEW x \in DOMAIN w
      PROVE  \/ x - at \in 1 .. Len(trytes)
             \/ x \in DOMAIN data /\ w[x] = data[x]
             \/ w[x] = [pad |-> 0]
  <2>1. x \in 1 .. n /\ w[x] = f(x)
    BY <1>3
  <2>2. CASE at < x /\ x <= end
    BY <1>1, <2>1, <2>2
  <2>3. CASE ~(at < x /\ x <= end) /\ x <= Len(data)
    BY <1>1, <1>2, <2>1, <2>3
  <2>4. CASE ~(at < x /\ x <= end) /\ ~(x <= Len(data))
    BY <2>1, <2>4
  <2> QED BY <2>2, <2>3, <2>4
<1> QED BY <1>4, <1>5, <1>6 DEF w

\* Items take the space that they write.
LEMMA WrittenEnds ==
  ASSUME TypeInv, LayoutInv, NEW j \in DOMAIN prog, NEW t \in 1 .. Len(Written(prog[j]))
  PROVE  /\ IsSequence(Written(prog[j])) /\ t \in Nat /\ t >= 1
         /\ addrs[j].offset \in Nat /\ EndOf(j) \in Nat
         /\ addrs[j].offset + t <= EndOf(j)
<1>1. prog[j] \in Item /\ addrs[j] \in [section : 0 .. Len(ends), offset : Nat]
  BY DEF TypeInv, SectionInv, PlacesTyped
<1>2. IsSequence(Written(prog[j])) /\ Len(Written(prog[j])) <= ItemSize(prog[j])
  BY <1>1, WrittenFits, StringsAreStrings DEF LayoutInv
<1>3. ItemSize(prog[j]) \in Nat /\ addrs[j].offset \in Nat
  BY <1>1, ItemSizeType
<1>4. Len(Written(prog[j])) \in Nat
  BY <1>2 DEF IsSequence
<1> QED BY <1>2, <1>3, <1>4 DEF EndOf

\* A turn of pass 3 that writes nothing.
LEMMA DataKept ==
  ASSUME TypeInv, DataInv, phase = "pass3", i \in DOMAIN prog, Advance, UNCHANGED <<addrs, secs>>,
         addrs[i].section = None \/ Written(prog[i]) = <<>>
  PROVE  DataInv'
<1>1. UNCHANGED <<prog, phase>> /\ i' = i + 1 /\ i \in Nat /\ DOMAIN prog \subseteq Nat
  <2>1. i \in 1 .. Len(prog) /\ Len(prog) \in Nat /\ DOMAIN prog = 1 .. Len(prog)
    BY ItemAt
  <2> QED BY <2>1 DEF Advance
<1>2. \A j \in DOMAIN prog : FilledBefore(j)' <=> FilledBefore(j) \/ j = i
  BY <1>1 DEF FilledBefore
<1>3. ASSUME NEW s \in DOMAIN secs, addrs[i].section = s PROVE 1 .. Len(Written(prog[i])) = {}
  <2>1. s # None
    BY EnteredAll DEF None
  <2>2. Written(prog[i]) = <<>>
    BY <1>3, <2>1
  <2> QED BY <2>2
<1>4. LaidOut(Len(prog))' => LaidOut(Len(prog))
  BY <1>1 DEF LaidOut, EndOf
<1>5. \A j, s, x : Covers(j, s, x)' <=> Covers(j, s, x)
  BY <1>1 DEF Covers
<1> SUFFICES ASSUME LaidOut(Len(prog)), NEW s \in DOMAIN secs
             PROVE  /\ \A j \in DOMAIN prog : FilledBefore(j)' /\ addrs[j].section = s =>
                         \A t \in 1 .. Len(Written(prog[j])) :
                           /\ addrs[j].offset + t \in DOMAIN secs[s].data
                           /\ secs[s].data[addrs[j].offset + t] = Written(prog[j])[t]
                    /\ \A x \in DOMAIN secs[s].data :
                         \/ secs[s].data[x] = [pad |-> 0]
                         \/ \E j \in DOMAIN prog : FilledBefore(j)' /\ Covers(j, s, x)
  BY <1>1, <1>4, <1>5 DEF DataInv
<1> QED BY <1>2, <1>3 DEF DataInv

\* A turn of pass 3 that writes its item.
LEMMA DataWritten ==
  ASSUME TypeInv, LayoutInv, DataInv, phase = "pass3", i \in DOMAIN prog, Advance,
         UNCHANGED addrs, addrs[i].section # None,
         Writes(Written(prog[i])), Fits(Written(prog[i]))
  PROVE  DataInv'
<1> DEFINE here == addrs[i].section
           at   == addrs[i].offset
           W(j) == Written(prog[j])
           d(s) == secs[s].data
           e(s) == secs'[s].data
<1>1. /\ UNCHANGED <<prog, phase>> /\ i' = i + 1
      /\ i \in 1 .. Len(prog) /\ Len(prog) \in Nat /\ DOMAIN prog = 1 .. Len(prog)
  BY ItemAt DEF Advance
<1>2. \A j \in DOMAIN prog : FilledBefore(j)' <=> j < i \/ j = i
  BY <1>1 DEF FilledBefore
<1>3. \A j \in DOMAIN prog : j < i => FilledBefore(j)
  BY DEF FilledBefore
<1>4. /\ DOMAIN secs' = DOMAIN secs /\ here \in DOMAIN secs
      /\ \A s \in DOMAIN secs : s # here => e(s) = d(s)
      /\ e(here) = Write(d(here), at, W(i))
  BY WritesGrow
<1>5. LaidOut(Len(prog))' => LaidOut(Len(prog))
  BY <1>1 DEF LaidOut, EndOf
<1>6. \A j, s, x : Covers(j, s, x)' <=> addrs[j].section = s /\ x - addrs[j].offset \in 1 .. Len(W(j))
  BY <1>1 DEF Covers
<1>7. IsSequence(d(here)) /\ at \in Nat /\ Len(W(i)) \in Nat
  <2>1. IsSequence(d(here))
    BY <1>4 DEF LayoutInv
  <2>2. addrs[i] \in [section : 0 .. Len(ends), offset : Nat]
    BY DEF TypeInv, PlacesTyped
  <2> QED BY <2>1, <2>2 DEF Fits
<1>8. /\ \A t \in 1 .. Len(W(i)) : at + t \in DOMAIN e(here) /\ e(here)[at + t] = W(i)[t]
      /\ \A x \in DOMAIN d(here) : x \in DOMAIN e(here) /\ (x <= at => e(here)[x] = d(here)[x])
      /\ \A x \in DOMAIN e(here) : \/ x - at \in 1 .. Len(W(i))
                                   \/ x \in DOMAIN d(here) /\ e(here)[x] = d(here)[x]
                                   \/ e(here)[x] = [pad |-> 0]
  <2> HIDE DEF here, at, W, d, e
  <2> QED BY <1>4, <1>7, WritePlaces
<1> SUFFICES ASSUME LaidOut(Len(prog)), NEW s \in DOMAIN secs
             PROVE  /\ \A j \in DOMAIN prog : (j < i \/ j = i) /\ addrs[j].section = s =>
                         \A t \in 1 .. Len(W(j)) :
                           /\ addrs[j].offset + t \in DOMAIN e(s)
                           /\ e(s)[addrs[j].offset + t] = W(j)[t]
                    /\ \A x \in DOMAIN e(s) :
                         \/ e(s)[x] = [pad |-> 0]
                         \/ \E j \in DOMAIN prog : /\ j < i \/ j = i
                                                   /\ addrs[j].section = s
                                                   /\ x - addrs[j].offset \in 1 .. Len(W(j))
  BY <1>1, <1>2, <1>4, <1>5, <1>6 DEF DataInv
<1>9. ASSUME NEW j \in DOMAIN prog, j < i, addrs[j].section = s, NEW t \in 1 .. Len(W(j))
      PROVE  /\ addrs[j].offset + t \in DOMAIN e(s)
             /\ e(s)[addrs[j].offset + t] = W(j)[t]
  <2>1. addrs[j].offset + t \in DOMAIN d(s) /\ d(s)[addrs[j].offset + t] = W(j)[t]
    BY <1>3, <1>9 DEF DataInv
  <2>2. CASE s = here
    <3>1. EndOf(j) <= at
      BY <1>1, <1>9, <2>2 DEF LaidOut
    <3>2. /\ addrs[j].offset + t <= EndOf(j) /\ EndOf(j) \in Nat
          /\ addrs[j].offset \in Nat /\ t \in Nat
      BY WrittenEnds
    <3>3. addrs[j].offset + t <= at
      BY <1>7, <3>1, <3>2, SMTT(30)
    <3> QED BY <1>8, <2>1, <2>2, <3>3
  <2>3. CASE s # here
    BY <1>4, <2>1, <2>3
  <2> QED BY <2>2, <2>3
<1>10. ASSUME addrs[i].section = s, NEW t \in 1 .. Len(W(i))
       PROVE  at + t \in DOMAIN e(s) /\ e(s)[at + t] = W(i)[t]
  BY <1>8, <1>10
<1>11. ASSUME NEW x \in DOMAIN d(s)
       PROVE  \/ d(s)[x] = [pad |-> 0]
              \/ \E j \in DOMAIN prog : /\ j < i /\ addrs[j].section = s
                                        /\ x - addrs[j].offset \in 1 .. Len(W(j))
  BY <1>11 DEF DataInv, FilledBefore, Covers
<1>12. ASSUME NEW x \in DOMAIN e(s)
       PROVE  \/ e(s)[x] = [pad |-> 0]
              \/ \E j \in DOMAIN prog : /\ j < i \/ j = i
                                        /\ addrs[j].section = s
                                        /\ x - addrs[j].offset \in 1 .. Len(W(j))
  <2>1. CASE s = here
    BY <1>8, <1>11, <1>12, <2>1
  <2>2. CASE s # here
    BY <1>4, <1>11, <1>12, <2>2
  <2> QED BY <2>1, <2>2
<1> QED BY <1>9, <1>10, <1>12

LEMMA InitData == Init => DataInv
BY DEF Init, DataInv

LEMMA StepData == TypeInv /\ LayoutInv /\ DataInv /\ [Next]_vars => DataInv'
<1> SUFFICES ASSUME TypeInv, LayoutInv, DataInv, [Next]_vars PROVE DataInv'
  OBVIOUS
<1>1. /\ i \in 1 .. Len(prog) + 1 /\ Len(prog) \in Nat /\ DOMAIN prog = 1 .. Len(prog)
      /\ prog \in Programs /\ error_count = 0
  BY DEF TypeInv, SectionInv, ReportsTyped, LayoutInv
<1>2. CASE Pass1Section \/ Pass1Label \/ Pass1Org \/ Pass1Code
  <2>1. phase' = "pass1"
    BY <1>2 DEF Pass1Section, Pass1Label, Pass1Org, Pass1Code, Place, Advance, At
  <2> QED BY <2>1 DEF DataInv
<1>3. CASE EndPass1
  <2>1. phase' = "pass2"
    BY <1>1, <1>3 DEF EndPass1, StartPass
  <2> QED BY <2>1 DEF DataInv
<1>4. CASE Pass2Section \/ Pass2Label \/ Pass2Extern \/ Pass2Binding \/ Pass2Skip
  <2>1. phase' = "pass2"
    BY <1>4 DEF Pass2Section, Pass2Label, Pass2Extern, Pass2Binding, Pass2Skip, Advance, At
  <2> QED BY <2>1 DEF DataInv
<1>5. CASE EndPass2
  <2>1. UNCHANGED <<prog, secs>> /\ phase = "pass2" /\ phase' = "pass3" /\ i' = 1
    BY <1>5 DEF EndPass2, StartPass
  <2>2. \A s \in DOMAIN secs : DOMAIN secs[s].data = {}
    BY <2>1 DEF LayoutInv
  <2>3. \A j \in DOMAIN prog : ~FilledBefore(j)'
    BY <1>1, <2>1 DEF FilledBefore
  <2> QED BY <2>1, <2>2, <2>3 DEF DataInv
<1>6. CASE EndPass3
  <2>1. /\ UNCHANGED <<prog, addrs, secs>> /\ phase = "pass3" /\ phase' = "done"
        /\ i = Len(prog) + 1
    BY <1>1, <1>6 DEF EndPass3, pass1vars
  <2>2. \A j \in DOMAIN prog : FilledBefore(j)
    BY <1>1, <2>1 DEF FilledBefore
  <2>3. \A j, s, x : Covers(j, s, x)' <=> Covers(j, s, x)
    BY <2>1 DEF Covers
  <2>4. \A j : FilledBefore(j)'
    BY <2>1 DEF FilledBefore
  <2>5. LaidOut(Len(prog))' => LaidOut(Len(prog))
    BY <2>1 DEF LaidOut, EndOf
  <2> QED BY <2>1, <2>2, <2>3, <2>4, <2>5 DEF DataInv
<1>7. CASE Pass3Outside \/ Pass3Label
  <2>1. /\ phase = "pass3" /\ i \in DOMAIN prog /\ Advance /\ UNCHANGED <<addrs, secs>>
        /\ addrs[i].section = None \/ prog[i].kind = "label"
    BY <1>7 DEF Pass3Outside, Pass3Label, In, Filled, At, pass1vars
  <2>2. prog[i].kind = "label" => Written(prog[i]) = <<>>
    BY DEF Written, IsDir
  <2> QED BY <2>1, <2>2, DataKept
<1>8. CASE Pass3Instr \/ Pass3Data \/ Pass3String \/ Pass3Pad
  <2>1. /\ phase = "pass3" /\ i \in DOMAIN prog /\ addrs[i].section # None
        /\ Advance /\ UNCHANGED addrs
    BY <1>8, FilledActions DEF Filled, At, pass1vars
  <2> QED BY <1>1, <1>8, <2>1, FilledFits, DataKept, DataWritten
<1>9. CASE UNCHANGED vars
  BY <1>9 DEF vars, pass1vars, DataInv, LaidOut, EndOf, FilledBefore, Covers
<1> QED BY <1>2, <1>3, <1>4, <1>5, <1>6, <1>7, <1>8, <1>9 DEF Next

-----------------------------------------------------------------------------
(* Where relocations are *)

LEMMA InitPlaces == Init => PlacesInv
BY DEF Init, PlacesInv

LEMMA StepPlacesInv == TypeInv /\ PlacesInv /\ [Next]_vars => PlacesInv'
<1> SUFFICES ASSUME TypeInv, PlacesInv, [Next]_vars PROVE PlacesInv'
  OBVIOUS
<1>1. phase \notin {"pass3", "done"} => relocs = <<>>
  BY DEF TypeInv, RelocsTyped
<1>2. ASSUME UNCHANGED <<prog, addrs>>, NEW r \in DOMAIN relocs, NEW q, relocs'[q] = relocs[r]
      PROVE  RelocatesOperand(q)'
  <2>1. RelocatesOperand(r)
    BY DEF PlacesInv
  <2> QED BY <1>2, <2>1 DEF RelocatesOperand
<1>3. ASSUME UNCHANGED <<prog, addrs, relocs>> PROVE PlacesInv'
  BY <1>2, <1>3 DEF PlacesInv
<1>4. CASE \/ Pass1Section \/ Pass1Label \/ Pass1Org \/ Pass1Code
  <2>1. phase = "pass1" /\ relocs' = relocs
    BY <1>4 DEF Pass1Section, Pass1Label, Pass1Org, Pass1Code, Place, At
  <2>2. DOMAIN relocs' = {}
    BY <1>1, <2>1
  <2> QED BY <2>2 DEF PlacesInv
<1>5. CASE \/ EndPass1 \/ Pass2Section \/ Pass2Label \/ Pass2Extern \/ Pass2Binding
           \/ Pass2Skip \/ EndPass2
  BY <1>3, <1>5 DEF EndPass1, Pass2Section, Pass2Label, Pass2Extern, Pass2Binding, Pass2Skip,
     EndPass2, StartPass, Advance, pass1vars
<1>6. CASE Pass3Outside \/ Pass3Label \/ Pass3String \/ EndPass3
  BY <1>3, <1>6 DEF Pass3Outside, Pass3Label, Pass3String, EndPass3, Filled, Advance, pass1vars
<1>7. CASE Pass3Instr \/ Pass3Data \/ Pass3Pad
  <2>1. UNCHANGED <<prog, addrs>> /\ i \in DOMAIN prog /\ addrs[i].section # None
    BY <1>7, FilledActions DEF Filled, Advance, At, pass1vars
  <2>2. CASE relocs' = relocs
    BY <1>3, <2>1, <2>2
  <2>3. ASSUME NEW distance, NEW labels \in SUBSET LabelIndices(prog[i]),
               Relocates(labels, distance),
               \A k \in labels : Relocating(prog[i]) /\ distance[k] = Distance(prog[i], k)
        PROVE  PlacesInv'
    <3> SUFFICES ASSUME NEW q \in DOMAIN relocs' PROVE RelocatesOperand(q)'
      BY DEF PlacesInv
    <3>1. \/ q \in DOMAIN relocs /\ relocs'[q] = relocs[q]
          \/ \E k \in labels : relocs'[q] = NewReloc(k, distance)
      BY <2>3 DEF Relocates
    <3>2. ASSUME NEW k \in labels, relocs'[q] = NewReloc(k, distance) PROVE RelocatesOperand(q)'
      <4>1. /\ relocs'[q].item = i /\ relocs'[q].operand = k
            /\ relocs'[q].section = addrs[i].section
            /\ relocs'[q].offset = addrs[i].offset + Distance(prog[i], k)
        BY <2>3, <3>2 DEF NewReloc
      <4>2. k \in LabelIndices(prog[i]) /\ Relocating(prog[i])
        BY <2>3
      <4> QED BY <2>1, <4>1, <4>2 DEF RelocatesOperand
    <3> QED BY <1>2, <2>1, <3>1, <3>2
  <2> QED BY <1>7, <2>2, <2>3, PassThreeFills
<1>8. CASE UNCHANGED vars
  BY <1>3, <1>8 DEF vars, pass1vars
<1> QED BY <1>4, <1>5, <1>6, <1>7, <1>8 DEF Next

-----------------------------------------------------------------------------
(***************************************************************************)
(* What items mean, and what is written for them                           *)
(***************************************************************************)
\* The elements of three sequences put together.
LEMMA ThreeParts ==
  ASSUME NEW W, NEW s \in Seq(W), NEW t \in Seq(W), NEW u \in Seq(W)
  PROVE  \A x \in 1 .. Len(s) + Len(t) + Len(u) :
           (s \o (t \o u))[x] = IF x <= Len(s) THEN s[x]
                                ELSE IF x <= Len(s) + Len(t) THEN t[x - Len(s)]
                                ELSE u[x - Len(s) - Len(t)]
<1> DEFINE d == t \o u
<1>1. /\ d \in Seq(W) /\ Len(d) = Len(t) + Len(u)
      /\ \A x \in 1 .. Len(t) + Len(u) : d[x] = IF x <= Len(t) THEN t[x] ELSE u[x - Len(t)]
  BY ConcatProperties
<1> HIDE DEF d
<1>2. \A x \in 1 .. Len(s) + Len(d) : (s \o d)[x] = IF x <= Len(s) THEN s[x] ELSE d[x - Len(s)]
  BY <1>1, ConcatProperties
<1>3. Len(s) \in Nat /\ Len(t) \in Nat /\ Len(u) \in Nat
  OBVIOUS
<1> SUFFICES ASSUME NEW x \in 1 .. Len(s) + Len(t) + Len(u)
             PROVE  (s \o d)[x] = IF x <= Len(s) THEN s[x]
                                  ELSE IF x <= Len(s) + Len(t) THEN t[x - Len(s)]
                                  ELSE u[x - Len(s) - Len(t)]
  BY DEF d
<1>4. (s \o d)[x] = IF x <= Len(s) THEN s[x] ELSE d[x - Len(s)]
  BY <1>1, <1>2, <1>3
<1>5. CASE x <= Len(s)
  BY <1>4, <1>5
<1>6. CASE ~(x <= Len(s))
  <2>1. x - Len(s) \in 1 .. Len(t) + Len(u) /\ (x - Len(s) <= Len(t) <=> x <= Len(s) + Len(t))
        /\ x - Len(s) - Len(t) = (x - Len(s)) - Len(t)
    BY <1>3, <1>6
  <2> QED BY <1>1, <1>4, <1>6, <2>1
<1> QED BY <1>5, <1>6

HasField(ins) == InstrFormat(ins) \in {"ri", "ir", "rri", "irr", "rra"}

\* The value of an instruction's field is in its field, and nowhere else in the
\* encoding.
LEMMA FieldInEncoding ==
  ASSUME NEW ins \in InstrItem, IsValid(ins), HasField(ins), NEW v, NEW w
  PROVE  LET n == FieldSize(ins)
             o == ImmOffset(ins)
         IN  /\ n \in Nat /\ o \in Nat /\ o + n <= InstrSize(ins) /\ InstrSize(ins) \in Nat
             /\ \A t \in 1 .. InstrSize(ins) :
                  Encoding(ins, v)[t] = IF t - o \in 1 .. n THEN ValueTrytes(v, n)[t - o]
                                        ELSE Encoding(ins, w)[t]
<1> DEFINE fmt  == InstrFormat(ins)
           r    == Len(RegFields(ins))
           n    == FieldSize(ins)
           o    == ImmOffset(ins)
           head == Header(ins)
           regs == RegTrytes(RegFields(ins))
           Front(x, t) == IF t <= 2 THEN head[t] ELSE IF t <= 2 + n THEN ValueTrytes(x, n)[t - 2]
                          ELSE regs[t - 2 - n]
           Back(x, t) == IF t <= 2 THEN head[t] ELSE IF t <= 2 + r THEN regs[t - 2]
                         ELSE ValueTrytes(x, n)[t - 2 - r]
<1>1. r \in Nat /\ r = FieldCount(fmt)
  BY RegFieldsLength DEF FieldCount, HasField
<1>2. ImmSize(OperandWidth(ins)) \in Nat
  BY ValidWidth, ImmSizeType DEF HasField
<1>3. n \in Nat
  BY <1>2 DEF FieldSize, ADDR_SIZE
<1>4. 2 + r + n = InstrSize(ins)
  BY <1>1, <1>2 DEF FieldSize, FieldCount, InstrSize, HEADER_SIZE, ADDR_SIZE, HasField
<1>5. o = IF fmt \in {"ir", "irr"} THEN 2 ELSE 2 + r
  BY <1>1 DEF ImmOffset, FieldCount, HEADER_SIZE, HasField
<1>6. ASSUME NEW x, NEW t \in 1 .. 2 + r + n
      PROVE  Encoding(ins, x)[t] = IF fmt \in {"ir", "irr"} THEN Front(x, t) ELSE Back(x, t)
  <2> DEFINE imm == ValueTrytes(x, n)
             W   == {head[k] : k \in 1 .. 2} \union {regs[k] : k \in 1 .. r}
                    \union {imm[k] : k \in 1 .. n}
  <2>1. head \in Seq(W) /\ Len(head) = 2
    BY DEF Header, HEADER_SIZE
  <2>2. regs \in Seq(W) /\ Len(regs) = r
    BY <1>1 DEF RegTrytes
  <2>3. imm \in Seq(W) /\ Len(imm) = n
    BY <1>3 DEF ValueTrytes
  <2>4. Encoding(ins, x) = head \o (IF fmt \in {"ir", "irr"} THEN imm \o regs ELSE regs \o imm)
    BY DEF Encoding
  <2> HIDE DEF head, regs, imm, W, r, n
  <2>5. CASE fmt \in {"ir", "irr"}
    <3>1. t \in 1 .. Len(head) + Len(imm) + Len(regs)
      BY <1>1, <1>3, <2>1, <2>2, <2>3
    <3>2. \A y \in 1 .. Len(head) + Len(imm) + Len(regs) :
            (head \o (imm \o regs))[y] = IF y <= Len(head) THEN head[y]
                                       ELSE IF y <= Len(head) + Len(imm) THEN imm[y - Len(head)]
                                       ELSE regs[y - Len(head) - Len(imm)]
      <4>1. head \in Seq(W) /\ imm \in Seq(W) /\ regs \in Seq(W)
        BY <2>1, <2>2, <2>3
      <4> QED BY <4>1, ThreeParts, ZenonT(40)
    <3>3. Encoding(ins, x) = head \o (imm \o regs)
      BY <2>4, <2>5
    <3>4. Encoding(ins, x)[t] = IF t <= Len(head) THEN head[t]
                                ELSE IF t <= Len(head) + Len(imm) THEN imm[t - Len(head)]
                                ELSE regs[t - Len(head) - Len(imm)]
      BY <3>1, <3>2, <3>3
    <3> QED BY <2>1, <2>2, <2>3, <2>5, <3>4 DEF imm
  <2>6. CASE fmt \notin {"ir", "irr"}
    <3>1. t \in 1 .. Len(head) + Len(regs) + Len(imm)
      BY <1>1, <1>3, <2>1, <2>2, <2>3
    <3>2. \A y \in 1 .. Len(head) + Len(regs) + Len(imm) :
            (head \o (regs \o imm))[y] = IF y <= Len(head) THEN head[y]
                                       ELSE IF y <= Len(head) + Len(regs) THEN regs[y - Len(head)]
                                       ELSE imm[y - Len(head) - Len(regs)]
      <4>1. head \in Seq(W) /\ imm \in Seq(W) /\ regs \in Seq(W)
        BY <2>1, <2>2, <2>3
      <4> QED BY <4>1, ThreeParts, ZenonT(40)
    <3>3. Encoding(ins, x) = head \o (regs \o imm)
      BY <2>4, <2>6
    <3>4. Encoding(ins, x)[t] = IF t <= Len(head) THEN head[t]
                                ELSE IF t <= Len(head) + Len(regs) THEN regs[t - Len(head)]
                                ELSE imm[t - Len(head) - Len(regs)]
      BY <3>1, <3>2, <3>3
    <3> QED BY <2>1, <2>2, <2>3, <2>6, <3>4 DEF imm
  <2> QED BY <2>5, <2>6
<1> HIDE DEF head, regs, r, n, o, fmt
<1>7. o \in Nat /\ o + n <= 2 + r + n
  BY <1>1, <1>3, <1>5
<1>8. ASSUME NEW t \in 1 .. 2 + r + n
      PROVE  Encoding(ins, v)[t] = IF t - o \in 1 .. n THEN ValueTrytes(v, n)[t - o]
                                   ELSE Encoding(ins, w)[t]
  <2>1. CASE fmt \in {"ir", "irr"}
    <3>1. Encoding(ins, v)[t] = Front(v, t) /\ Encoding(ins, w)[t] = Front(w, t)
      BY <1>6, <2>1
    <3>2. t - o \in 1 .. n <=> ~(t <= 2) /\ t <= 2 + n
      BY <1>1, <1>3, <1>5, <2>1
    <3> QED BY <1>5, <2>1, <3>1, <3>2
  <2>2. CASE fmt \notin {"ir", "irr"}
    <3>1. Encoding(ins, v)[t] = Back(v, t) /\ Encoding(ins, w)[t] = Back(w, t)
      BY <1>6, <2>2
    <3>2. t - o \in 1 .. n <=> ~(t <= 2) /\ ~(t <= 2 + r)
      BY <1>1, <1>3, <1>5, <2>2
    <3>3. t - o = t - 2 - r
      BY <1>1, <1>5, <2>2
    <3> QED BY <2>2, <3>1, <3>2, <3>3
  <2> QED BY <2>1, <2>2
<1>9. InstrSize(ins) \in Nat
  BY <1>1, <1>3, <1>4
<1> QED BY <1>3, <1>4, <1>7, <1>8, <1>9 DEF n, o

\* In which element of a data directive a tryte is, and which of its trytes.
LEMMA ElementAt ==
  ASSUME NEW n \in {1, 2, 4, 8}, NEW m \in Nat
  PROVE  /\ \A t \in 1 .. n * m :
              LET q == ((t - 1) \div n) + 1
              IN  q \in 1 .. m /\ t - (q - 1) * n \in 1 .. n /\ ((t - 1) % n) + 1 = t - (q - 1) * n
         /\ \A k \in 1 .. m : \A t \in Int : t - (k - 1) * n \in 1 .. n =>
              t \in 1 .. n * m /\ k = ((t - 1) \div n) + 1
<1>1. CASE n = 1
  BY <1>1
<1>2. CASE n = 2
  BY <1>2
<1>3. CASE n = 4
  BY <1>3
<1>4. CASE n = 8
  BY <1>4
<1> QED BY <1>1, <1>2, <1>3, <1>4

\* The label operands of an item that are relocated.
Linked(item) == IF Relocating(item) THEN LabelIndices(item) ELSE {}

\* How many trytes of an item a label takes, and whether its k-th operand, a
\* label, takes the t-th.
FieldLen(item) == IF item.kind = "instr" THEN FieldSize(item) ELSE ElementSize(item.dir)

InField(item, k, t) == t - Distance(item, k) \in 1 .. FieldLen(item)

\* What the k-th operand of item j can mean, and the place of the label it
\* does mean, if the items are placed at f.
MeantBy(j, k) ==
  Candidates(prog, j, prog[j].operands[k].name, prog[j].operands[k].is_local)

LabelPlace(f, j, k) == f[First(MeantBy(j, k))]

\* With its labels filled in, what is written for item j is what it means.
LinksTo(f, j) ==
  LET item == prog[j]
      out  == Trytes(prog, f, j)
      W    == Written(item)
  IN  /\ DOMAIN out = 1 .. Len(W)
      /\ \A k \in Linked(item) : \A t \in Int : InField(item, k, t) =>
           /\ t \in 1 .. Len(W)
           /\ out[t] = ValueTrytes(LabelPlace(f, j, k), FieldLen(item))[t - Distance(item, k)]
      /\ \A t \in 1 .. Len(W) : (\A k \in Linked(item) : ~InField(item, k, t)) => out[t] = W[t]

\* What the items mean that do not depend on labels.
LEMMA SameLinks ==
  ASSUME NEW f, NEW j, Trytes(prog, f, j) = Written(prog[j]), IsSequence(Written(prog[j])),
         Linked(prog[j]) = {}
  PROVE  LinksTo(f, j)
BY DEF LinksTo, IsSequence

\* A label operand means the place of the first item it can mean.
LEMMA LabelMeans ==
  ASSUME prog \in Seq(Item), NEW f, NEW j, NEW k,
         IsLabel(prog[j].operands[k]), MeantBy(j, k) # {}
  PROVE  /\ Meaning(prog, f, j, prog[j].operands[k]) # {}
         /\ The(Meaning(prog, f, j, prog[j].operands[k])) = LabelPlace(f, j, k)
<1> DEFINE op == prog[j].operands[k]
           C == MeantBy(j, k)
           D == {c \in DOMAIN prog : IsMeant(prog, j, op.name, op.is_local, c)}
<1>1. C \in SUBSET DOMAIN prog /\ DOMAIN prog \in SUBSET Nat
  BY DEF MeantBy, Candidates
<1>2. First(C) \in C /\ \A e \in C : First(C) <= e
  <2>1. C # {} /\ C \in SUBSET Nat
    BY <1>1
  <2> HIDE DEF C
  <2> QED BY <2>1, FirstIsFirst
<1>3. ASSUME NEW c \in DOMAIN prog
      PROVE  IsMeant(prog, j, op.name, op.is_local, c) <=> c \in C /\ \A e \in C : c <= e
  BY DEF IsMeant, MeantBy
<1> HIDE DEF C
<1>4. D = {First(C)}
  <2>1. First(C) \in D
    BY <1>1, <1>2, <1>3
  <2>2. ASSUME NEW c \in D PROVE c = First(C)
    <3>1. c \in C /\ (\A e \in C : c <= e) /\ c \in Nat /\ First(C) \in Nat
      BY <1>1, <1>2, <1>3
    <3>2. c <= First(C) /\ First(C) <= c
      BY <1>2, <3>1
    <3> QED BY <3>1, <3>2
  <2> HIDE DEF D
  <2> QED BY <2>1, <2>2
<1>5. Meaning(prog, f, j, op) = {f[d] : d \in D}
  BY DEF Meaning, IsImm, IsLabel
<1> HIDE DEF D, op
<1>6. Meaning(prog, f, j, op) = {f[First(C)]}
  BY <1>4, <1>5
<1> QED BY <1>6 DEF The, LabelPlace, C, op

\* Operands of the other kinds mean their value, or nothing.
LEMMA OthersMean ==
  ASSUME NEW f, NEW j, NEW op
  PROVE  /\ IsImm(op) => /\ Meaning(prog, f, j, op) # {}
                         /\ The(Meaning(prog, f, j, op)) = op.val
         /\ ~IsImm(op) /\ ~IsLabel(op) => Meaning(prog, f, j, op) = {}
BY DEF Meaning, The

LEMMA InstrLinks ==
  ASSUME prog \in Seq(Item), NEW j \in DOMAIN prog, prog[j].kind = "instr", NEW f,
         \A k \in Linked(prog[j]) : MeantBy(j, k) # {}
  PROVE  LinksTo(f, j)
<1> DEFINE item == prog[j]
           ops == item.operands
           others == {k \in DOMAIN ops : ~IsReg(ops[k])}
           op == ImmOperand(item)
           M == Meaning(prog, f, j, op)
<1>1. item \in InstrItem
  <2>1. item \in Item
    OBVIOUS
  <2> QED BY <2>1, ItemFacts
<1>2. IsSequence(Written(item))
  <2>1. item \in Item /\ ~IsDir(item, {"string"})
    BY DEF IsDir
  <2> QED BY <2>1, WrittenFits
<1>3. /\ Trytes(prog, f, j) = IF ~IsValid(item) THEN <<>>
                              ELSE IF op = NoOperand THEN Encoding(item, StepImmediate)
                              ELSE IF M # {} THEN Encoding(item, The(M)) ELSE <<>>
      /\ Written(item) = IF IsValid(item) /\ Resolves(op) THEN Encoding(item, FieldValue(op))
                         ELSE <<>>
  BY DEF Trytes, Written, IsDir
<1>4. Linked(item) = IF IsValid(item) THEN LabelIndices(item) ELSE {}
  BY DEF Linked, Relocating, IsDir
<1>5. LabelIndices(item) = {k \in others : IsLabel(ops[k])}
  BY DEF LabelIndices, IsLabel, IsReg
<1> HIDE DEF M, op, others
<1>6. CASE ~IsValid(item)
  BY <1>2, <1>3, <1>4, <1>6, SameLinks
<1>7. CASE IsValid(item) /\ others = {} /\ op = NoOperand
  <2>1. Linked(item) = {}
    BY <1>4, <1>5, <1>7
  <2>2. Trytes(prog, f, j) = Written(item)
    BY <1>3, <1>7 DEF Resolves, FieldValue
  <2> QED BY <1>2, <2>1, <2>2, SameLinks
<1>8. ASSUME IsValid(item), NEW k \in DOMAIN ops, others = {k}, op = ops[k], ops[k] # NoOperand,
             HasField(item)
      PROVE  LinksTo(f, j)
  <2>1. CASE ~IsLabel(op)
    <3>1. Linked(item) = {}
      BY <1>4, <1>5, <1>8, <2>1
    <3>2. Trytes(prog, f, j) = Written(item)
      <4>1. CASE IsImm(op)
        BY <1>3, <1>8, <4>1, OthersMean DEF Resolves, FieldValue, M
      <4>2. CASE ~IsImm(op)
        BY <1>3, <1>8, <2>1, <4>2, OthersMean DEF Resolves, M
      <4> QED BY <4>1, <4>2
    <3> QED BY <1>2, <3>1, <3>2, SameLinks
  <2>2. CASE IsLabel(op)
    <3> DEFINE v == LabelPlace(f, j, k)
               n == FieldSize(item)
               o == ImmOffset(item)
               E == Encoding(item, v)
               W == Encoding(item, 0)
    <3>1. Linked(item) = {k}
      BY <1>4, <1>5, <1>8, <2>2
    <3>2. M # {} /\ The(M) = v
      BY <1>8, <2>2, <3>1, LabelMeans DEF M
    <3>3. Trytes(prog, f, j) = E
      BY <1>3, <1>8, <3>2
    <3>4. Written(item) = W
      <4>1. ~IsImm(op)
        BY <2>2 DEF IsImm, IsLabel
      <4> QED BY <1>3, <1>8, <2>2, <4>1 DEF Resolves, FieldValue
    <3>5. /\ n \in Nat /\ o \in Nat /\ o + n <= InstrSize(item) /\ InstrSize(item) \in Nat
          /\ \A t \in 1 .. InstrSize(item) :
               E[t] = IF t - o \in 1 .. n THEN ValueTrytes(v, n)[t - o] ELSE W[t]
      BY <1>1, <1>8, FieldInEncoding
    <3>6. /\ Len(E) = InstrSize(item) /\ Len(W) = InstrSize(item)
          /\ \E S : E \in Seq(S)
      BY <1>1, <1>8, EncodingLength
    <3>7. DOMAIN E = 1 .. Len(W)
      <4>1. \A S : \A e \in Seq(S) : DOMAIN e = 1 .. Len(e)
        OBVIOUS
      <4> QED BY <3>6, <4>1
    <3>8. FieldLen(item) = n /\ Distance(item, k) = o
      BY DEF FieldLen, Distance
    <3>9. \A t \in Int : t - o \in 1 .. n => t \in 1 .. InstrSize(item)
      <4> HIDE DEF n, o
      <4> QED BY <3>5
    <3> HIDE DEF v, n, o, E, W
    <3> QED BY <3>1, <3>3, <3>4, <3>5, <3>6, <3>7, <3>8, <3>9 DEF LinksTo, InField, v
  <2> QED BY <2>1, <2>2
<1> QED BY <1>1, <1>6, <1>7, <1>8, OnlyOneIsNoRegister DEF HasField, op, others

LEMMA DataLinks ==
  ASSUME prog \in Seq(Item), NEW j \in DOMAIN prog, IsDir(prog[j], DataDirs), NEW f,
         \A k \in DOMAIN prog[j].operands :
           IsImm(prog[j].operands[k]) \/ IsLabel(prog[j].operands[k]),
         \A k \in Linked(prog[j]) : MeantBy(j, k) # {}
  PROVE  LinksTo(f, j)
<1> DEFINE item == prog[j]
           ops == item.operands
           n == ElementSize(item.dir)
           m == Len(ops)
           el(t) == ((t - 1) \div n) + 1
           nth(t) == ((t - 1) % n) + 1
           V(k) == The(Meaning(prog, f, j, ops[k]))
           out == Trytes(prog, f, j)
           W == Written(item)
<1>1. /\ item \in Item /\ item.kind = "directive" /\ item.dir \in DataDirs
      /\ ops \in Seq(Operand) /\ m \in Nat /\ DOMAIN ops = 1 .. m
  <2>1. item \in Item /\ item.kind = "directive" /\ item.dir \in DataDirs
    BY DEF IsDir
  <2>2. ops \in Seq(Operand)
    BY <2>1, ItemFacts
  <2> QED BY <2>1, <2>2
<1>2. n \in {1, 2, 4, 8} /\ n * m \in Nat
  <2>1. n \in {1, 2, 4, 8}
    BY <1>1, ElementSizeType
  <2> HIDE DEF n, m
  <2> QED BY <1>1, <2>1
<1>3. /\ \A t \in 1 .. n * m : el(t) \in 1 .. m /\ t - (el(t) - 1) * n \in 1 .. n
                               /\ nth(t) = t - (el(t) - 1) * n
      /\ \A k \in 1 .. m : \A t \in Int :
           t - (k - 1) * n \in 1 .. n => t \in 1 .. n * m /\ k = el(t)
  <2> HIDE DEF n, m
  <2> QED BY <1>1, <1>2, ElementAt
<1>4. Linked(item) = {k \in 1 .. m : IsLabel(ops[k])}
  BY <1>1 DEF Linked, Relocating, LabelIndices, IsDir
<1>5. FieldLen(item) = n /\ \A k : Distance(item, k) = (k - 1) * n
  BY <1>1 DEF FieldLen, Distance
<1>6. W = [c \in 1 .. n * m |->
             IF IsLabel(ops[el(c)]) THEN [placeholder |-> n, k |-> nth(c)]
             ELSE [val |-> IF IsImm(ops[el(c)]) THEN ops[el(c)].val ELSE 12345, k |-> nth(c)]]
  <2>1. item.kind # "instr" /\ IsDir(item, DataDirs) /\ ~IsDir(item, {"string"})
    BY <1>1 DEF IsDir, DataDirs
  <2> QED BY <2>1 DEF Written, DataWords
<1>7. \A k \in 1 .. m :
        /\ Meaning(prog, f, j, ops[k]) # {}
        /\ IsLabel(ops[k]) => V(k) = LabelPlace(f, j, k)
        /\ ~IsLabel(ops[k]) => V(k) = ops[k].val
  <2> SUFFICES ASSUME NEW k \in 1 .. m
               PROVE  /\ Meaning(prog, f, j, ops[k]) # {}
                      /\ IsLabel(ops[k]) => V(k) = LabelPlace(f, j, k)
                      /\ ~IsLabel(ops[k]) => V(k) = ops[k].val
    OBVIOUS
  <2>1. CASE IsLabel(ops[k])
    BY <1>4, <2>1, LabelMeans
  <2>2. CASE ~IsLabel(ops[k])
    <3>1. IsImm(ops[k])
      BY <1>1, <2>2
    <3> QED BY <2>2, <3>1, OthersMean
  <2> QED BY <2>1, <2>2
<1>8. out = [c \in 1 .. n * m |-> [val |-> V(el(c)), k |-> nth(c)]]
  <2> DEFINE vals == Elements(prog, f, j)
  <2>1. vals = [k \in 1 .. m |-> V(k)]
    <3>1. {q \in DOMAIN ops : \A l \in 1 .. q : Meaning(prog, f, j, ops[l]) # {}} = 1 .. m
      BY <1>1, <1>7
    <3> QED BY <3>1 DEF Elements
  <2>2. Len(vals) = m /\ \A k \in 1 .. m : vals[k] = V(k)
    BY <1>1, <2>1
  <2> HIDE DEF vals
  <2>3. out = DataTrytes(n, vals)
    <3>1. item.kind # "instr" /\ IsDir(item, DataDirs) /\ ~IsDir(item, {"string"})
      BY <1>1 DEF IsDir, DataDirs
    <3> QED BY <3>1 DEF Trytes, vals
  <2>4. out = [c \in 1 .. n * m |-> [val |-> vals[el(c)], k |-> nth(c)]]
    BY <2>2, <2>3 DEF DataTrytes
  <2> HIDE DEF n, m, el, nth, V
  <2> QED BY <1>3, <2>2, <2>4
<1> HIDE DEF out, W, V, el, nth, n, m, ops
<1>9. Len(W) = n * m
  BY <1>2, <1>6
<1>10. DOMAIN out = 1 .. Len(W)
  BY <1>8, <1>9
<1>11. ASSUME NEW k \in Linked(item), NEW t \in Int, InField(item, k, t)
       PROVE  /\ t \in 1 .. Len(W)
              /\ out[t] = ValueTrytes(LabelPlace(f, j, k), FieldLen(item))[t - Distance(item, k)]
  <2>1. k \in 1 .. m /\ IsLabel(ops[k])
    BY <1>4, <1>11
  <2> DEFINE u == t - (k - 1) * n
  <2>2. u \in 1 .. n
    BY <1>5, <1>11 DEF InField
  <2>3. t \in 1 .. n * m /\ k = el(t)
    BY <1>3, <2>1, <2>2
  <2>4. nth(t) = u
    BY <1>3, <2>3
  <2>5. out[t] = [val |-> V(k), k |-> u]
    BY <1>8, <2>3, <2>4
  <2>6. V(k) = LabelPlace(f, j, k)
    BY <1>7, <2>1
  <2>7. ValueTrytes(LabelPlace(f, j, k), n)[u] = [val |-> LabelPlace(f, j, k), k |-> u]
    <3> HIDE DEF u
    <3> QED BY <2>2 DEF ValueTrytes
  <2> QED BY <1>5, <1>9, <2>3, <2>5, <2>6, <2>7
<1>12. ASSUME NEW t \in 1 .. Len(W), \A k \in Linked(item) : ~InField(item, k, t)
       PROVE  out[t] = W[t]
  <2>1. t \in 1 .. n * m
    BY <1>9
  <2>2. el(t) \in 1 .. m /\ t - (el(t) - 1) * n \in 1 .. n
    BY <1>3, <2>1
  <2>3. ~IsLabel(ops[el(t)])
    BY <1>4, <1>5, <1>12, <2>2 DEF InField
  <2>4. IsImm(ops[el(t)])
    BY <1>1, <2>2, <2>3 DEF ops
  <2>5. V(el(t)) = ops[el(t)].val
    BY <1>7, <2>2, <2>3
  <2> QED BY <1>6, <1>8, <2>1, <2>3, <2>4, <2>5
<1> QED BY <1>10, <1>11, <1>12 DEF LinksTo, out, W

\* Where the characters of a single string start and end.
LEMMA OneString ==
  ASSUME NEW ops \in Seq(Operand), Len(ops) = 1
  PROVE  StringStart(ops, 1) = 0 /\ StringStart(ops, 2) = CharCount(ops[1])
<1> DEFINE n == CharCount(ops[1])
           Chars(k) == {k} \X (1 .. CharCount(ops[k]))
<1>1. n \in Nat
  <2>1. ops[1] \in Operand
    OBVIOUS
  <2> QED BY <2>1, CharCountType
<1>2. StringStart(ops, 1) = 0
  <2>1. UNION {Chars(k) : k \in 1 .. 1 - 1} = {}
    OBVIOUS
  <2> QED BY <2>1, FS_EmptySet DEF StringStart
<1>3. StringStart(ops, 2) = Cardinality({1} \X (1 .. n))
  <2>1. UNION {Chars(k) : k \in 1 .. 2 - 1} = Chars(1)
    <3>1. 1 .. 2 - 1 = {1}
      OBVIOUS
    <3> HIDE DEF Chars
    <3>2. {Chars(k) : k \in {1}} = {Chars(1)}
      OBVIOUS
    <3>3. UNION {Chars(1)} = Chars(1)
      BY Zenon
    <3> QED BY <3>1, <3>2, <3>3
  <2>2. StringStart(ops, 2) = Cardinality(UNION {Chars(k) : k \in 1 .. 2 - 1})
    BY DEF StringStart
  <2> QED BY <2>1, <2>2
<1> HIDE DEF n
<1>4. /\ IsFiniteSet({1}) /\ Cardinality({1}) = 1
      /\ IsFiniteSet(1 .. n) /\ Cardinality(1 .. n) = n
  <2>1. IsFiniteSet({1}) /\ Cardinality({1}) = 1
    BY FS_Singleton, Zenon
  <2>2. IsFiniteSet(1 .. n) /\ Cardinality(1 .. n) = n
    BY <1>1, FS_Interval
  <2> QED BY <2>1, <2>2
<1>5. Cardinality({1} \X (1 .. n)) = Cardinality({1}) * Cardinality(1 .. n)
  BY <1>4, FS_Product, Zenon
<1> QED BY <1>1, <1>2, <1>3, <1>4, <1>5 DEF n

LEMMA StringLinks ==
  ASSUME prog \in Seq(Item), NEW j \in DOMAIN prog, IsDir(prog[j], {"string"}), NEW f,
         Len(prog[j].operands) = 1, prog[j].operands[1].kind = "str"
  PROVE  LinksTo(f, j)
<1> DEFINE item == prog[j]
           ops == item.operands
           chars == ops[1].chars
           L == Len(chars)
<1>1. item \in Item /\ ops \in Seq(Operand) /\ DOMAIN ops = {1}
  <2>1. item \in Item /\ item.kind = "directive"
    BY DEF IsDir
  <2>2. ops \in Seq(Operand)
    BY <2>1, ItemFacts
  <2>3. 1 .. 1 = {1}
    OBVIOUS
  <2> QED BY <2>1, <2>2, <2>3
<1>2. L \in Nat /\ ops[1].good \in BOOLEAN
  <2>1. ops[1] \in Operand
    BY <1>1
  <2>2. chars \in Seq(Nat) /\ ops[1].good \in BOOLEAN
    BY <2>1, OperandFacts
  <2> QED BY <2>2
<1>3. item.kind # "instr" /\ ~IsDir(item, DataDirs) /\ IsDir(item, {"string"})
  BY DEF IsDir, DataDirs
<1>4. Linked(item) = {}
  BY <1>3 DEF Linked, Relocating
<1>5. IsSequence(Written(item))
  BY <1>1, WrittenFits
<1>6. Trytes(prog, f, j) = StringTrytes(ops, Cardinality(Strings(ops)))
  BY <1>3 DEF Trytes
<1>7. Written(item) = StringsWritten(item)
  BY <1>3 DEF Written
<1>8. CASE ops[1].good
  <2>1. Strings(ops) = {1} /\ Cardinality(Strings(ops)) = 1
    <3>1. Strings(ops) = {1}
      BY <1>1, <1>8 DEF Strings
    <3> QED BY <3>1, FS_Singleton
  <2>2. StringStart(ops, 1) = 0 /\ StringStart(ops, 1 + 1) = L
    BY <1>1, <1>8, OneString DEF CharCount
  <2>3. StringTrytes(ops, 1) = [c \in 1 .. L |-> [val |-> chars[c], k |-> 1]]
    <3> DEFINE at(c) == CHOOSE k \in 1 .. 1 : StringStart(ops, k) < c /\ c <= StringStart(ops, k + 1)
    <3>1. ASSUME NEW c \in 1 .. L PROVE at(c) = 1 /\ c - StringStart(ops, 1) = c
      <4>1. \E k \in 1 .. 1 : StringStart(ops, k) < c /\ c <= StringStart(ops, k + 1)
        BY <1>2, <2>2
      <4>2. at(c) \in 1 .. 1
        BY <4>1
      <4> QED BY <2>2, <4>2
    <3>2. StringTrytes(ops, 1) =
            [c \in 1 .. L |-> [val |-> ops[at(c)].chars[c - StringStart(ops, at(c))], k |-> 1]]
      BY <2>2 DEF StringTrytes
    <3> HIDE DEF at
    <3> QED BY <3>1, <3>2
  <2>4. BadStrings(item) = {} /\ StringEnd(item) = 1
    <3>1. BadStrings(item) = {}
      BY <1>1, <1>8 DEF BadStrings
    <3> QED BY <3>1 DEF StringEnd
  <2>5. Covered(item) = 1 .. L
    <3> DEFINE part(k) == 1 .. Len(ops[k].chars)
    <3>1. 1 .. 1 = {1}
      OBVIOUS
    <3>2. Covered(item) = UNION {part(k) : k \in {1}}
      BY <2>4, <3>1 DEF Covered
    <3>3. part(1) = 1 .. L
      OBVIOUS
    <3> HIDE DEF part
    <3>4. UNION {part(k) : k \in {1}} = part(1)
      BY Zenon
    <3> QED BY <3>2, <3>3, <3>4
  <2>6. Cardinality(Covered(item)) = L
    BY <1>2, <2>5, FS_Interval
  <2>7. ASSUME NEW c \in 1 .. L PROVE LastString(item, c) = 1
    <3>1. /\ 1 \in 1 .. StringEnd(item) /\ c <= Len(ops[1].chars)
          /\ \A l \in 1 + 1 .. StringEnd(item) : Len(ops[l].chars) < c
      BY <2>4
    <3>2. LastString(item, c) \in 1 .. StringEnd(item)
      BY <3>1 DEF LastString
    <3> QED BY <2>4, <3>2
  <2>8. Written(item) = [c \in 1 .. L |-> [val |-> chars[c], k |-> 1]]
    BY <1>7, <2>6, <2>7 DEF StringsWritten
  <2>9. Trytes(prog, f, j) = Written(item)
    BY <1>6, <2>1, <2>3, <2>8
  <2> QED BY <1>4, <1>5, <2>9, SameLinks
<1>9. CASE ~ops[1].good
  <2>1. Strings(ops) = {} /\ Cardinality(Strings(ops)) = 0
    <3>1. Strings(ops) = {}
      BY <1>1, <1>9 DEF Strings
    <3> QED BY <3>1, FS_EmptySet
  <2>2. Trytes(prog, f, j) = <<>>
    <3>1. StringStart(ops, 0 + 1) = 0
      BY <1>1, OneString
    <3>2. StringTrytes(ops, 0) = <<>>
      BY <3>1 DEF StringTrytes
    <3> QED BY <1>6, <2>1, <3>2
  <2>3. BadStrings(item) = {1}
    BY <1>1, <1>9 DEF BadStrings
  <2>4. StringEnd(item) = 0
    <3>1. First({1}) = 1
      BY FirstIsFirst
    <3> QED BY <2>3, <3>1 DEF StringEnd
  <2>5. Covered(item) = {} /\ Cardinality(Covered(item)) = 0
    <3>1. Covered(item) = {}
      BY <2>4 DEF Covered
    <3> QED BY <3>1, FS_EmptySet
  <2>6. Written(item) = <<>>
    BY <1>7, <2>5 DEF StringsWritten
  <2> QED BY <1>4, <1>5, <2>2, <2>6, SameLinks
<1> QED BY <1>2, <1>8, <1>9

LEMMA OthersLink ==
  ASSUME prog \in Seq(Item), NEW j \in DOMAIN prog, prog[j].kind # "instr", NEW f,
         ~IsDir(prog[j], DataDirs), ~IsDir(prog[j], {"string"})
  PROVE  LinksTo(f, j)
<1>1. Trytes(prog, f, j) = <<>> /\ Written(prog[j]) = <<>>
  BY DEF Trytes, Written
<1>2. Linked(prog[j]) = {}
  BY DEF Linked, Relocating
<1> QED BY <1>1, <1>2, EmptyIsSequence, SameLinks

\* Linking the trytes written for an item, of a program as Comparable has it,
\* makes of them what the item means.
LEMMA ItemLinks ==
  ASSUME prog \in Programs, prog \in Seq(Item), NEW j \in DOMAIN prog, NEW f,
         IsDir(prog[j], {"string"}) => Len(prog[j].operands) = 1,
         IsDir(prog[j], DataDirs) => \A k \in DOMAIN prog[j].operands :
           IsImm(prog[j].operands[k]) \/ IsLabel(prog[j].operands[k]),
         \A k \in Linked(prog[j]) : MeantBy(j, k) # {}
  PROVE  LinksTo(f, j)
<1>1. CASE prog[j].kind = "instr"
  BY <1>1, InstrLinks
<1>2. CASE IsDir(prog[j], DataDirs)
  BY <1>2, DataLinks
<1>3. CASE IsDir(prog[j], {"string"})
  <2>1. 1 \in DOMAIN prog[j].operands
    <3>1. prog[j] \in Item /\ prog[j].kind = "directive"
      BY <1>3 DEF IsDir
    <3>2. prog[j].operands \in Seq(Operand)
      BY <3>1, ItemFacts
    <3> QED BY <1>3, <3>2
  <2> QED BY <1>3, <2>1, StringsAreStrings, StringLinks
<1>4. CASE prog[j].kind # "instr" /\ ~IsDir(prog[j], DataDirs) /\ ~IsDir(prog[j], {"string"})
  BY <1>4, OthersLink
<1> QED BY <1>1, <1>2, <1>3, <1>4

-----------------------------------------------------------------------------
(* The section is the image *)

\* With all of a comparable program done, everything is in its only section.
LEMMA OneSection ==
  ASSUME TypeInv, FollowInv, phase = "done", Comparable
  PROVE  \A j \in DOMAIN prog : addrs[j].section = 1
<1> SUFFICES ASSUME NEW j \in DOMAIN prog PROVE addrs[j].section = 1
  OBVIOUS
<1>1. addrs[j].section # None /\ addrs[j].section \in 0 .. Len(ends) /\ Len(ends) \in Nat
  BY DEF TypeInv, PlacesTyped, FollowInv, PlacedBefore, Comparable
<1>2. addrs[j].section \in 1 .. Len(ends)
  BY <1>1 DEF None
<1>3. addrs[j].section \in DOMAIN secs
  BY <1>2, EnteredAll
<1>4. DOMAIN secs = 1 .. Len(secs) /\ Len(secs) = 1
  BY DEF TypeInv, SectionInv, Entered, AreSections, IsSequence, Comparable
<1> QED BY <1>3, <1>4

\* One item there comes after the other, over any distance.
LEMMA OneAfterAnother ==
  ASSUME TypeInv, FollowInv, phase = "done", Comparable
  PROVE  LaidOut(Len(prog))
<1>1. Len(prog) \in Nat /\ DOMAIN prog = 1 .. Len(prog)
  BY DEF TypeInv, SectionInv
<1>2. \A j \in DOMAIN prog : /\ addrs[j].offset \in Nat /\ EndOf(j) \in Nat
                             /\ addrs[j].offset <= EndOf(j)
  <2> SUFFICES ASSUME NEW j \in DOMAIN prog
               PROVE  /\ addrs[j].offset \in Nat /\ EndOf(j) \in Nat
                      /\ addrs[j].offset <= EndOf(j)
    OBVIOUS
  <2>1. addrs[j].offset \in Nat /\ prog[j] \in Item
    BY DEF TypeInv, SectionInv, PlacesTyped
  <2>2. ItemSize(prog[j]) \in Nat
    BY <2>1, ItemSizeType
  <2> QED BY <2>1, <2>2 DEF EndOf
<1>3. \A j \in 2 .. Len(prog) : EndOf(j - 1) <= addrs[j].offset
  <2> SUFFICES ASSUME NEW j \in 2 .. Len(prog) PROVE EndOf(j - 1) <= addrs[j].offset
    OBVIOUS
  <2>1. j \in DOMAIN prog /\ j - 1 \in DOMAIN prog /\ j > 1
    BY <1>1
  <2>2. CASE IsDir(prog[j], {"org"})
    BY <2>1, <2>2 DEF Comparable, EndOf
  <2>3. CASE ~IsDir(prog[j], {"org"})
    <3>1. addrs[j].section = 1 /\ addrs[j - 1].section = 1
      BY <2>1, OneSection
    <3>2. addrs[j].offset = EndOf(j - 1)
      BY <2>3, <3>1 DEF FollowInv, PlacedBefore, None
    <3> QED BY <1>2, <2>1, <3>2
  <2> QED BY <2>2, <2>3
<1> SUFFICES ASSUME NEW j \in DOMAIN prog, NEW k \in DOMAIN prog, j < k
             PROVE  EndOf(j) <= addrs[k].offset
  BY <1>1 DEF LaidOut
<1> DEFINE Early == {l \in j + 1 .. Len(prog) : ~(EndOf(j) <= addrs[l].offset)}
<1>4. Early \in SUBSET Nat
  BY <1>1
<1>5. ASSUME Early # {} PROVE FALSE
  <2>1. PICK l \in Early : \A m \in Early : l <= m
    BY <1>4, <1>5, LeastExists
  <2>2. l \in 2 .. Len(prog) /\ l - 1 \in DOMAIN prog /\ j < l /\ l \in DOMAIN prog
    BY <1>1, <2>1
  <2>3. CASE l - 1 = j
    BY <1>3, <2>1, <2>2, <2>3
  <2>4. CASE l - 1 # j
    <3>1. l - 1 \in j + 1 .. Len(prog) /\ l - 1 \notin Early
      BY <1>1, <2>1, <2>2, <2>4
    <3>2. EndOf(j) <= addrs[l - 1].offset
      BY <3>1
    <3>3. addrs[l - 1].offset <= EndOf(l - 1) /\ EndOf(l - 1) <= addrs[l].offset
      BY <1>2, <1>3, <2>2
    <3>4. ~(EndOf(j) <= addrs[l].offset)
      BY <2>1
    <3>5. /\ EndOf(j) \in Nat /\ EndOf(l - 1) \in Nat
          /\ addrs[l - 1].offset \in Nat /\ addrs[l].offset \in Nat
      BY <1>2, <2>2
    <3> QED BY <3>2, <3>3, <3>4, <3>5, SMTT(30)
  <2> QED BY <2>3, <2>4
<1>6. k \in j + 1 .. Len(prog)
  BY <1>1
<1> QED BY <1>5, <1>6

\* So at every place there is at most one of them.
LEMMA OneAtEachPlace ==
  ASSUME TypeInv, LayoutInv, FollowInv, phase = "done", Comparable,
         NEW j \in DOMAIN prog, NEW k \in DOMAIN prog,
         NEW t \in 1 .. Len(Written(prog[j])), NEW u \in 1 .. Len(Written(prog[k])),
         addrs[j].offset + t = addrs[k].offset + u
  PROVE  j = k
<1>1. /\ t \in Nat /\ t >= 1 /\ addrs[j].offset \in Nat /\ EndOf(j) \in Nat
      /\ addrs[j].offset + t <= EndOf(j)
  BY WrittenEnds
<1>2. /\ u \in Nat /\ u >= 1 /\ addrs[k].offset \in Nat /\ EndOf(k) \in Nat
      /\ addrs[k].offset + u <= EndOf(k)
  BY WrittenEnds
<1>3. DOMAIN prog = 1 .. Len(prog) /\ Len(prog) \in Nat
  BY DEF TypeInv, SectionInv
<1>4. addrs[j].section = 1 /\ addrs[k].section = 1
  BY OneSection
<1>5. /\ j < k => EndOf(j) <= addrs[k].offset
      /\ k < j => EndOf(k) <= addrs[j].offset
  BY <1>3, <1>4, OneAfterAnother DEF LaidOut, None
<1>6. ~(j < k)
  BY <1>1, <1>2, <1>5
<1>7. ~(k < j)
  BY <1>1, <1>2, <1>5
<1>8. j \in Int /\ k \in Int
  BY <1>3
<1> QED BY <1>6, <1>7, <1>8

\* Where only one item writes, the image has what that one writes.
LEMMA OverlaidAlone ==
  ASSUME NEW f, NEW out, NEW j \in DOMAIN out, NEW x \in Int, f[j] \in Int,
         x - f[j] + 1 \in DOMAIN out[j],
         \A v \in DOMAIN out : x - f[v] + 1 \in DOMAIN out[v] => v = j,
         j <= j
  PROVE  x \in DOMAIN Overlay(f, out) /\ Overlay(f, out)[x] = out[j][x - f[j] + 1]
<1> DEFINE writers == {v \in DOMAIN out : x - f[v] + 1 \in DOMAIN out[v]}
           used == UNION {{f[v] + k - 1 : k \in DOMAIN out[v]} : v \in DOMAIN out}
           last == CHOOSE w \in writers : \A v \in writers : v <= w
<1>1. writers = {j}
  OBVIOUS
<1>2. last = j
  BY <1>1
<1>3. x \in used
  <2>1. x = f[j] + (x - f[j] + 1) - 1
    OBVIOUS
  <2>2. x \in {f[j] + k - 1 : k \in DOMAIN out[j]}
    BY <2>1
  <2> QED BY <2>2
<1>4. /\ DOMAIN Overlay(f, out) = used
      /\ Overlay(f, out)[x] = out[last][x - f[last] + 1]
  BY <1>3 DEF Overlay
<1> QED BY <1>2, <1>3, <1>4

\* And it has nothing where none does.
LEMMA OverlaidBySome ==
  ASSUME NEW f, NEW out, \A j \in DOMAIN out : f[j] \in Int /\ DOMAIN out[j] \subseteq Int,
         NEW x \in DOMAIN Overlay(f, out)
  PROVE  \E j \in DOMAIN out : x - f[j] + 1 \in DOMAIN out[j]
<1>1. x \in UNION {{f[j] + k - 1 : k \in DOMAIN out[j]} : j \in DOMAIN out}
  BY DEF Overlay
<1>2. PICK j \in DOMAIN out : x \in {f[j] + k - 1 : k \in DOMAIN out[j]}
  BY <1>1
<1>3. PICK k \in DOMAIN out[j] : x = f[j] + k - 1
  BY <1>2
<1>4. x - f[j] + 1 = k
  BY <1>3
<1> QED BY <1>3, <1>4

\* Pass 3 has a relocation for each label that is to be filled in, which means
\* something.
LEMMA LinkedIsRelocated ==
  ASSUME Inv, FollowInv, PlacesInv, phase = "done", Comparable,
         NEW j \in DOMAIN prog, NEW k \in Linked(prog[j])
  PROVE  /\ MeantBy(j, k) # {}
         /\ \E r \in DOMAIN relocs : relocs[r].item = j /\ relocs[r].operand = k
<1>1. Relocating(prog[j]) /\ k \in LabelIndices(prog[j])
  BY DEF Linked
<1>2. addrs[j].section # None
  BY OneSection DEF Inv, None
<1>3. diags[j] = 0 /\ Settled(j)
  BY DEF Inv, RelocInv, Comparable
<1>4. PICK r \in DOMAIN relocs : relocs[r].item = j /\ relocs[r].operand = k
  BY <1>1, <1>2, <1>3 DEF Settled
<1>5. MeantBy(j, k) # {}
  BY <1>4 DEF Comparable, MeantBy, RelocatedOperand
<1> QED BY <1>4, <1>5

\* A label in an instruction has the field of a whole address, whatever the
\* width of the instruction.
LEMMA LabelTakesAddress ==
  ASSUME NEW ins \in InstrItem, IsValid(ins), NEW k \in LabelIndices(ins)
  PROVE  FieldSize(ins) = ADDR_SIZE
<1> DEFINE ops == ins.operands
           others == {j \in DOMAIN ops : ~IsReg(ops[j])}
<1>1. k \in others /\ IsLabel(ops[k])
  BY DEF LabelIndices, IsLabel, IsReg
<1>2. \E j \in DOMAIN ops :
        /\ others = {j}
        /\ InstrFormat(ins) \in {"ri", "ir", "rri", "irr", "rra"}
        /\ InstrFormat(ins) # "rra" /\ IsLabel(ops[j]) => OperandWidth(ins) = 48
  BY <1>1, OnlyOneIsNoRegister
<1>3. /\ InstrFormat(ins) \in {"ri", "ir", "rri", "irr", "rra"}
      /\ InstrFormat(ins) # "rra" => OperandWidth(ins) = 48
  BY <1>1, <1>2
<1> QED BY <1>3 DEF FieldSize, ImmSize, ADDR_SIZE

\* So what the type of a relocation says of its width is so of every field that
\* a comparable program has relocated.
LEMMA RelocatedIsAddress ==
  ASSUME Inv, Comparable, NEW r \in DOMAIN relocs, NEW j \in DOMAIN prog,
         Relocating(prog[j]), NEW k \in LabelIndices(prog[j])
  PROVE  FieldLength(r) = FieldLen(prog[j])
<1>1. FieldLength(r) = ADDR_SIZE
  <2>1. relocs \in Seq(Reloc)
    BY DEF Inv, TypeInv, RelocsTyped
  <2>2. relocs[r] \in Reloc
    BY <2>1
  <2>3. relocs[r].type = "abs"
    BY <2>2 DEF Reloc
  <2> QED BY <2>3 DEF FieldLength, PatchLength
<1>2. prog[j] \in Item
  BY DEF Inv, TypeInv, SectionInv
<1>3. CASE prog[j].kind = "instr"
  <2>1. prog[j] \in InstrItem /\ IsValid(prog[j])
    BY <1>2, <1>3, ItemFacts DEF Relocating, IsDir
  <2>2. FieldSize(prog[j]) = ADDR_SIZE
    BY <2>1, LabelTakesAddress
  <2> QED BY <1>1, <1>3, <2>2 DEF FieldLen
<1>4. CASE prog[j].kind # "instr"
  <2>1. IsDir(prog[j], DataDirs) /\ k \in DOMAIN prog[j].operands /\ IsLabel(prog[j].operands[k])
    BY <1>4 DEF Relocating, LabelIndices
  <2>2. prog[j].dir = "word"
    BY <2>1 DEF Comparable, IsLabel, IsImm
  <2> QED BY <1>1, <1>4, <2>2 DEF FieldLen, ElementSize, ADDR_SIZE
<1> QED BY <1>3, <1>4

\* Where a relocation patches its section: in the field of its operand, with
\* the place of the label that the operand means.
LEMMA PatchesField ==
  ASSUME Inv, FollowInv, PlacesInv, phase = "done", Comparable, NEW r \in DOMAIN relocs,
         NEW f, f = [j \in DOMAIN prog |-> addrs[j].offset], NEW x \in Int
  PROVE  LET j == relocs[r].item
             k == relocs[r].operand
             t == x - addrs[j].offset
         IN  /\ j \in DOMAIN prog /\ k \in Linked(prog[j]) /\ t \in Int
             /\ x - relocs[r].offset = t - Distance(prog[j], k)
             /\ FieldLength(r) = FieldLen(prog[j])
             /\ syms[relocs[r].sym].offset = LabelPlace(f, j, k)
<1> DEFINE j == relocs[r].item
           k == relocs[r].operand
           t == x - addrs[j].offset
           C == MeantBy(j, k)
<1>1. /\ j \in DOMAIN prog /\ Relocating(prog[j]) /\ k \in LabelIndices(prog[j])
      /\ relocs[r].offset = addrs[j].offset + Distance(prog[j], k)
  BY DEF PlacesInv, RelocatesOperand
<1>2. k \in Linked(prog[j])
  BY <1>1 DEF Linked
<1>3. Distance(prog[j], k) \in Int /\ addrs[j].offset \in Int
  <2>1. addrs[j].offset \in Nat /\ prog[j] \in Item
    BY <1>1 DEF Inv, TypeInv, SectionInv, PlacesTyped
  <2>2. CASE prog[j].kind = "instr"
    <3>1. ImmOffset(prog[j]) \in Nat
      BY DEF ImmOffset, HEADER_SIZE
    <3> QED BY <2>1, <2>2, <3>1 DEF Distance
  <2>3. CASE prog[j].kind # "instr"
    <3>1. prog[j].kind = "directive" /\ prog[j].dir \in DataDirs
      BY <1>1, <2>3 DEF Relocating, IsDir
    <3>2. ElementSize(prog[j].dir) \in {1, 2, 4, 8}
      BY <3>1, ElementSizeType
    <3>3. prog[j].operands \in Seq(Operand)
      BY <2>1, <3>1, ItemFacts
    <3>4. k \in Int
      BY <1>1, <3>3 DEF LabelIndices
    <3> QED BY <2>1, <2>3, <3>2, <3>4 DEF Distance
  <2> QED BY <2>2, <2>3
<1>4. t \in Int /\ x - relocs[r].offset = t - Distance(prog[j], k)
  <2> HIDE DEF j, k
  <2> QED BY <1>1, <1>3
<1>5. FieldLength(r) = FieldLen(prog[j])
  BY <1>1, RelocatedIsAddress
<1>6. C # {} /\ C \in SUBSET DOMAIN prog
  BY <1>1, <1>2, LinkedIsRelocated DEF MeantBy, Candidates
<1>7. First(C) \in DOMAIN prog
  <2>1. DOMAIN prog \in SUBSET Nat
    BY DEF Inv, TypeInv, SectionInv
  <2> HIDE DEF C
  <2> QED BY <1>6, <2>1, FirstIsFirst
<1>8. LabelsInSections
  <2>1. \A d \in DOMAIN prog : addrs[d].section = 1
    BY OneSection DEF Inv
  <2> QED BY <2>1 DEF LabelsInSections, None
<1>9. Refers(j, RelocatedOperand(r), relocs[r].sym)
  BY <1>8 DEF Inv, RelocInv, AllRefer
<1>10. syms[relocs[r].sym].offset = addrs[First(C)].offset
  BY <1>6, <1>9 DEF Refers, MeantBy, RelocatedOperand
<1>11. LabelPlace(f, j, k) = addrs[First(C)].offset
  BY <1>7 DEF LabelPlace
<1> HIDE DEF C
<1> QED BY <1>1, <1>2, <1>4, <1>5, <1>10, <1>11

LEMMA ComparableLinks ==
  ASSUME Inv, LayoutInv, FollowInv, DataInv, PlacesInv, phase = "done", Comparable
  PROVE  LinkedIs(Image(prog, [j \in DOMAIN prog |-> addrs[j].offset]))
<1> DEFINE f == [j \in DOMAIN prog |-> addrs[j].offset]
           out == [j \in DOMAIN prog |-> Trytes(prog, f, j)]
           image == Overlay(f, out)
           W(j) == Written(prog[j])
           data == secs[1].data
<1>1. /\ TypeInv /\ prog \in Programs /\ prog \in Seq(Item)
      /\ DOMAIN prog = 1 .. Len(prog) /\ Len(prog) \in Nat /\ DOMAIN relocs \subseteq Nat
      /\ 1 \in DOMAIN secs
  <2>1. TypeInv /\ prog \in Programs
    BY DEF Inv, LayoutInv
  <2>2. DOMAIN secs = 1 .. Len(secs) /\ Len(secs) = 1
    BY <2>1 DEF TypeInv, SectionInv, Entered, AreSections, IsSequence, Comparable
  <2> QED BY <2>1, <2>2 DEF TypeInv, SectionInv, RelocsTyped
<1>2. \A j \in DOMAIN prog : f[j] = addrs[j].offset /\ addrs[j].offset \in Nat
                             /\ addrs[j].section = 1
  BY <1>1, OneSection DEF TypeInv, PlacesTyped
<1>3. \A j \in DOMAIN prog : LinksTo(f, j)
  <2> HIDE DEF f
  <2> SUFFICES ASSUME NEW j \in DOMAIN prog PROVE LinksTo(f, j)
    OBVIOUS
  <2>1. /\ IsDir(prog[j], {"string"}) => Len(prog[j].operands) = 1
        /\ IsDir(prog[j], DataDirs) => \A k \in DOMAIN prog[j].operands :
             IsImm(prog[j].operands[k]) \/ IsLabel(prog[j].operands[k])
    BY DEF Comparable
  <2>2. \A k \in Linked(prog[j]) : MeantBy(j, k) # {}
    BY LinkedIsRelocated
  <2> QED BY <1>1, <2>1, <2>2, ItemLinks
<1>4. \A j \in DOMAIN prog : out[j] = Trytes(prog, f, j) /\ DOMAIN out[j] = 1 .. Len(W(j))
  BY <1>3 DEF LinksTo
<1>5. Image(prog, f) = image
  BY DEF Image
<1>6. DOMAIN out = DOMAIN prog
  OBVIOUS
<1> HIDE DEF f, out
\* What the image has at the place of an item's t-th tryte.
<1>7. ASSUME NEW x \in Int, NEW j \in DOMAIN prog, x - addrs[j].offset \in 1 .. Len(W(j))
      PROVE  x - 1 \in DOMAIN image /\ image[x - 1] = out[j][x - addrs[j].offset]
  <2>1. \A v \in DOMAIN prog : (x - 1) - f[v] + 1 = x - addrs[v].offset
    BY <1>2
  <2>2. ASSUME NEW v \in DOMAIN prog, x - addrs[v].offset \in 1 .. Len(W(v)) PROVE v = j
    <3>1. addrs[v].offset + (x - addrs[v].offset) = addrs[j].offset + (x - addrs[j].offset)
      BY <1>2
    <3> QED BY <1>1, <1>7, <2>2, <3>1, OneAtEachPlace
  <2>3. /\ (x - 1) - f[j] + 1 \in DOMAIN out[j]
        /\ \A v \in DOMAIN out : (x - 1) - f[v] + 1 \in DOMAIN out[v] => v = j
    BY <1>4, <1>6, <1>7, <2>1, <2>2
  <2>4. j \in DOMAIN out /\ f[j] \in Int /\ x - 1 \in Int /\ j <= j
    BY <1>1, <1>2, <1>6
  <2>5. x - 1 \in DOMAIN image /\ image[x - 1] = out[j][(x - 1) - f[j] + 1]
    BY <2>3, <2>4, OverlaidAlone
  <2> QED BY <2>1, <2>5
<1>8. ASSUME NEW x \in Int, x - 1 \in DOMAIN image
      PROVE  \E j \in DOMAIN prog : x - addrs[j].offset \in 1 .. Len(W(j))
  <2>1. \A j \in DOMAIN out : f[j] \in Int /\ DOMAIN out[j] \subseteq Int
    BY <1>2, <1>4, <1>6
  <2>2. PICK j \in DOMAIN out : (x - 1) - f[j] + 1 \in DOMAIN out[j]
    BY <1>8, <2>1, OverlaidBySome
  <2>3. (x - 1) - f[j] + 1 = x - addrs[j].offset
    BY <1>2, <1>6, <2>2
  <2> QED BY <1>4, <1>6, <2>2, <2>3
<1> SUFFICES ASSUME NEW x \in DOMAIN data
             PROVE  Patched(x) = IF x - 1 \in DOMAIN image THEN image[x - 1] ELSE [pad |-> 0]
  BY <1>5 DEF LinkedIs, f
<1>9. x \in Int
  BY <1>1 DEF LayoutInv, IsSequence
<1> DEFINE here == {r \in DOMAIN relocs : x - relocs[r].offset \in 1 .. FieldLength(r)}
<1>10. ASSUME here # {}
       PROVE  /\ x - 1 \in DOMAIN image
              /\ Patched(x) = image[x - 1]
  <2> DEFINE r == First(here)
             j == relocs[r].item
             k == relocs[r].operand
             t == x - addrs[j].offset
  <2>1. r \in DOMAIN relocs /\ x - relocs[r].offset \in 1 .. FieldLength(r)
    <3>1. here \in SUBSET Nat
      BY <1>1
    <3>2. r \in here
      <4> HIDE DEF here
      <4> QED BY <1>10, <3>1, FirstIsFirst
    <3> QED BY <3>2
  <2>2. Patched(x) = ValueTrytes(syms[relocs[r].sym].offset, FieldLength(r))[x - relocs[r].offset]
    BY <1>10 DEF Patched
  <2> HIDE DEF here, r
  <2>3. /\ j \in DOMAIN prog /\ k \in Linked(prog[j]) /\ t \in Int
        /\ x - relocs[r].offset = t - Distance(prog[j], k)
        /\ FieldLength(r) = FieldLen(prog[j])
        /\ syms[relocs[r].sym].offset = LabelPlace(f, j, k)
    BY <1>9, <2>1, PatchesField DEF f
  <2> HIDE DEF j, k
  <2>4. InField(prog[j], k, t)
    BY <2>1, <2>3 DEF InField
  <2>5. /\ t \in 1 .. Len(W(j))
        /\ out[j][t] = ValueTrytes(LabelPlace(f, j, k), FieldLen(prog[j]))[t - Distance(prog[j], k)]
    BY <1>3, <1>4, <2>3, <2>4 DEF LinksTo
  <2>6. x - 1 \in DOMAIN image /\ image[x - 1] = out[j][t]
    BY <1>7, <1>9, <2>3, <2>5
  <2> QED BY <2>2, <2>3, <2>5, <2>6
<1>11. ASSUME here = {}, NEW j \in DOMAIN prog, x - addrs[j].offset \in 1 .. Len(W(j))
       PROVE  /\ x - 1 \in DOMAIN image
              /\ Patched(x) = image[x - 1]
  <2> DEFINE t == x - addrs[j].offset
  <2>1. Patched(x) = data[x]
    BY <1>11 DEF Patched
  <2>2. ASSUME NEW k \in Linked(prog[j]), InField(prog[j], k, t) PROVE FALSE
    <3>1. PICK r \in DOMAIN relocs : relocs[r].item = j /\ relocs[r].operand = k
      BY LinkedIsRelocated
    <3>2. /\ x - relocs[r].offset = t - Distance(prog[j], k)
          /\ FieldLength(r) = FieldLen(prog[j])
      BY <1>9, <3>1, PatchesField DEF f
    <3>3. r \in here
      BY <2>2, <3>1, <3>2 DEF InField
    <3> QED BY <1>11, <3>3
  <2>3. out[j][t] = W(j)[t]
    BY <1>3, <1>4, <1>11, <2>2 DEF LinksTo
  <2>4. data[addrs[j].offset + t] = W(j)[t]
    BY <1>1, <1>2, <1>11, OneAfterAnother DEF DataInv, FilledBefore
  <2>5. addrs[j].offset + t = x
    BY <1>2, <1>9
  <2>6. x - 1 \in DOMAIN image /\ image[x - 1] = out[j][t]
    BY <1>7, <1>9, <1>11
  <2> QED BY <2>1, <2>3, <2>4, <2>5, <2>6
<1>12. ASSUME here = {}, \A j \in DOMAIN prog : x - addrs[j].offset \notin 1 .. Len(W(j))
       PROVE  x - 1 \notin DOMAIN image /\ Patched(x) = [pad |-> 0]
  <2>1. Patched(x) = data[x]
    BY <1>12 DEF Patched
  <2>2. data[x] = [pad |-> 0]
    BY <1>1, <1>12, OneAfterAnother DEF DataInv, Covers
  <2> QED BY <1>8, <1>9, <1>12, <2>1, <2>2
<1> QED BY <1>10, <1>11, <1>12

\* The two back ends agree on every program that both accept and mean the same
\* by, which excludes labels in data narrower than an address, since the
\* relocations do not say how wide a field is: patch the relocations of the only section (tobj.c, pass 3) with the
\* offsets of their symbols, and it is the image that the raw back end (raw.c)
\* makes of the program, with nothing but padding around it.
THEOREM TObjLinksToRawImage == Spec => []LinksToRawImage
<1> DEFINE All == Inv /\ LayoutInv /\ FollowInv /\ DataInv /\ PlacesInv
<1>1. Init => All
  BY InitInv, InitLayout, InitFollow, InitData, InitPlaces
<1>2. All /\ [Next]_vars => All'
  BY StepInv, StepLayout, StepFollow, StepData, StepPlacesInv DEF Inv
<1>3. All => LinksToRawImage
  BY ComparableLinks DEF LinksToRawImage
<1> QED BY <1>1, <1>2, <1>3, PTL DEF Spec
=============================================================================
