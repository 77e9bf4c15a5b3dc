-------------------------- MODULE TObjSectionProofs --------------------------
(***************************************************************************)
(* The object back end agrees with itself about sections, for every        *)
(* program: the number pass 1 gives a section, looking its name up among   *)
(* the items before, is the position at which pass 2, which never looks at *)
(* a name, enters it into the object builder; and what pass 3 writes to a  *)
(* section goes where pass 1 has reserved space for it.  Between the two,  *)
(* the types of the whole back end, which TObjProofs builds on.            *)
(***************************************************************************)
EXTENDS TObjBackend, LowerProofs

SectionsUpTo(p, n) == {j \in 1 .. n : IsDir(p[j], {"section"})}

\* The sections among the first n items of p are numbered from 1 to m by name,
\* and a number is in use before the next one is.
Numbering(p, map, n, m) ==
  /\ \A j \in SectionsUpTo(p, n) :
       /\ map[j] \in 1 .. m
       /\ \A s \in 1 .. map[j] : \E k \in SectionsUpTo(p, j) : map[k] = s
  /\ \A j, k \in SectionsUpTo(p, n) : map[j] = map[k] <=> SectionName(p[j]) = SectionName(p[k])
  /\ \A s \in 1 .. m : \E k \in SectionsUpTo(p, n) : map[k] = s

\* f is a sequence, whatever its elements are.
IsSequence(f) == Len(f) \in Nat /\ f = [x \in 1 .. Len(f) |-> f[x]]

AreSections(s) ==
  /\ IsSequence(s)
  /\ \A x \in DOMAIN s : s[x] = [name |-> s[x].name, data |-> s[x].data]

\* The list s holds the sections of the first n items and no other, each with
\* its name, at its number.
Entered(p, map, n, s) ==
  /\ AreSections(s)
  /\ \A k \in SectionsUpTo(p, n) : map[k] \in DOMAIN s
  /\ \A x \in DOMAIN s : \E k \in SectionsUpTo(p, n) : map[k] = x /\ s[x].name = SectionName(p[k])

SectionInv ==
  /\ prog \in Seq(Item) /\ i \in 1 .. Len(prog) + 1
  /\ phase \in {"pass1", "pass2", "pass3", "done", "failed"}
  /\ sec_map = [j \in DOMAIN prog |-> sec_map[j]]
  /\ IsSequence(ends)
  /\ phase = "pass1" =>
       /\ section \in 0 .. Len(ends)
       /\ Numbering(prog, sec_map, i - 1, Len(ends))
       /\ secs = <<>>
  /\ phase \in {"pass2", "pass3", "done"} => Numbering(prog, sec_map, Len(prog), Len(ends))
  /\ phase = "pass2" => Entered(prog, sec_map, i - 1, secs)
  /\ phase \in {"pass3", "done"} => Entered(prog, sec_map, Len(prog), secs)

-----------------------------------------------------------------------------
(***************************************************************************)
(* Sequences and sections, apart from the state.                           *)
(***************************************************************************)
LEMMA FunctionIsSequence ==
  ASSUME NEW n \in Nat, NEW f, f = [x \in 1 .. n |-> f[x]]
  PROVE  Len(f) = n /\ IsSequence(f) /\ f \in Seq({f[x] : x \in 1 .. n})
<1>1. f \in [1 .. n -> {f[x] : x \in 1 .. n}]
  OBVIOUS
<1>2. f \in Seq({f[x] : x \in 1 .. n})
  BY <1>1
<1>3. Len(f) = n
  BY <1>1, <1>2
<1> QED BY <1>2, <1>3 DEF IsSequence

LEMMA EmptyIsSequence == IsSequence(<<>>) /\ AreSections(<<>>) /\ Len(<<>>) = 0
BY DEF IsSequence, AreSections

LEMMA AppendIs ==
  ASSUME NEW s, IsSequence(s), NEW e
  PROVE  /\ Len(s) \in Nat /\ DOMAIN s = 1 .. Len(s)
         /\ Append(s, e) \in Seq({s[x] : x \in 1 .. Len(s)} \union {e})
         /\ Len(Append(s, e)) = Len(s) + 1 /\ DOMAIN Append(s, e) = 1 .. Len(s) + 1
         /\ Append(s, e)[Len(s) + 1] = e
         /\ \A x \in 1 .. Len(s) : Append(s, e)[x] = s[x]
<1>1. s \in Seq({s[x] : x \in 1 .. Len(s)}) /\ Len(s) \in Nat /\ DOMAIN s = 1 .. Len(s)
  BY FunctionIsSequence DEF IsSequence
<1>2. Append(s, e) \in Seq({s[x] : x \in 1 .. Len(s)} \union {e})
  BY <1>1
<1> QED BY <1>1, <1>2

\* The first of a set of items is one of them, and none comes before it.
LEMMA FirstIsFirst ==
  ASSUME NEW S \in SUBSET Nat, S # {}
  PROVE  First(S) \in S /\ \A k \in S : First(S) <= k
BY LeastExists DEF First

\* Numbers are handed out by name: a name seen before keeps its number, a new
\* one gets the next.
LEMMA NextNumber ==
  ASSUME NEW p, NEW map, NEW n \in Nat, NEW m \in Nat, NEW map2, NEW new \in Nat,
         Numbering(p, map, n, m),
         IsDir(p[n + 1], {"section"}),
         \A j \in 1 .. n : map2[j] = map[j],
         map2[n + 1] = new,
         \/ new = m + 1 /\ \A j \in SectionsUpTo(p, n) : SectionName(p[j]) # SectionName(p[n + 1])
         \/ \E j \in SectionsUpTo(p, n) : new = map[j] /\ SectionName(p[j]) = SectionName(p[n + 1])
  PROVE  Numbering(p, map2, n + 1, IF new = m + 1 THEN m + 1 ELSE m)
<1> DEFINE m2 == IF new = m + 1 THEN m + 1 ELSE m
<1>1. SectionsUpTo(p, n + 1) = SectionsUpTo(p, n) \union {n + 1}
  BY DEF SectionsUpTo
<1>2. /\ \A j \in SectionsUpTo(p, n) : j \in 1 .. n /\ map2[j] = map[j] /\ map[j] \in 1 .. m
      /\ \A j \in SectionsUpTo(p, n) : SectionsUpTo(p, j) \subseteq SectionsUpTo(p, n)
  BY DEF Numbering, SectionsUpTo
<1>3. new \in 1 .. m2 /\ m2 \in Nat /\ m <= m2
  BY <1>2
<1>4. \A s \in 1 .. m : \E k \in SectionsUpTo(p, n) : map2[k] = s
  BY <1>2 DEF Numbering
<1>5. \A s \in 1 .. m2 : \E k \in SectionsUpTo(p, n + 1) : map2[k] = s
  BY <1>1, <1>4
<1>6. ASSUME NEW j \in SectionsUpTo(p, n + 1)
      PROVE  /\ map2[j] \in 1 .. m2
             /\ \A s \in 1 .. map2[j] : \E k \in SectionsUpTo(p, j) : map2[k] = s
  <2>1. CASE j = n + 1
    BY <2>1, <1>3, <1>5
  <2>2. CASE j \in SectionsUpTo(p, n)
    <3>1. map2[j] = map[j] /\ map[j] \in 1 .. m /\ SectionsUpTo(p, j) \subseteq SectionsUpTo(p, n)
      BY <2>2, <1>2
    <3>2. \A s \in 1 .. map[j] : \E k \in SectionsUpTo(p, j) : map[k] = s
      BY <2>2 DEF Numbering
    <3>3. \A k \in SectionsUpTo(p, j) : map2[k] = map[k]
      BY <3>1, <1>2
    <3>4. map2[j] \in 1 .. m2
      BY <3>1, <1>3
    <3> QED BY <3>1, <3>2, <3>3, <3>4
  <2> QED BY <2>1, <2>2, <1>1
<1>7. ASSUME NEW j \in SectionsUpTo(p, n + 1), NEW k \in SectionsUpTo(p, n + 1)
      PROVE  map2[j] = map2[k] <=> SectionName(p[j]) = SectionName(p[k])
  <2>1. \A x, y \in SectionsUpTo(p, n) : map[x] = map[y] <=> SectionName(p[x]) = SectionName(p[y])
    BY DEF Numbering
  <2>2. \A x \in SectionsUpTo(p, n) : map[x] = new <=> SectionName(p[x]) = SectionName(p[n + 1])
    BY <2>1, <1>2
  <2> QED BY <2>1, <2>2, <1>1, <1>2
<1> QED BY <1>5, <1>6, <1>7 DEF Numbering

\* Numbering says nothing of items that are no sections.
LEMMA NoNumber ==
  ASSUME NEW p, NEW map, NEW n \in Nat, NEW m, Numbering(p, map, n, m),
         ~IsDir(p[n + 1], {"section"})
  PROVE  Numbering(p, map, n + 1, m)
<1>1. SectionsUpTo(p, n + 1) = SectionsUpTo(p, n)
  BY DEF SectionsUpTo
<1> QED BY <1>1 DEF Numbering

\* Entering the next section where its number has not been seen puts it at its number.
LEMMA EnterNext ==
  ASSUME NEW p, NEW map, NEW N \in Nat, NEW m \in Nat, Numbering(p, map, N, m),
         NEW n \in Nat, n < N, NEW s, Entered(p, map, n, s),
         IsDir(p[n + 1], {"section"}),
         ~\E j \in SectionsUpTo(p, n) : map[j] = map[n + 1]
  PROVE  Entered(p, map, n + 1, Append(s, [name |-> SectionName(p[n + 1]), data |-> <<>>]))
<1> DEFINE new == [name |-> SectionName(p[n + 1]), data |-> <<>>]
           t   == Append(s, new)
<1>1. IsSequence(s) /\ Len(s) \in Nat /\ DOMAIN s = 1 .. Len(s)
  BY DEF Entered, AreSections, IsSequence
<1>2. t \in Seq({s[x] : x \in 1 .. Len(s)} \union {new})
  BY <1>1, AppendIs
<1>3. Len(t) = Len(s) + 1 /\ t[Len(s) + 1] = new /\ (\A x \in 1 .. Len(s) : t[x] = s[x])
      /\ DOMAIN t = 1 .. Len(s) + 1
  BY <1>1, AppendIs
<1>4. t = [x \in 1 .. Len(t) |-> t[x]]
  BY <1>2, <1>3
<1>5. AreSections(t)
  <2>1. IsSequence(t)
    BY <1>1, <1>3, <1>4 DEF IsSequence
  <2>2. new = [name |-> new.name, data |-> new.data]
    OBVIOUS
  <2>3. \A x \in 1 .. Len(s) : s[x] = [name |-> s[x].name, data |-> s[x].data]
    BY <1>1 DEF Entered, AreSections
  <2> QED BY <2>1, <2>2, <2>3, <1>1, <1>3 DEF AreSections
<1>6. SectionsUpTo(p, n + 1) = SectionsUpTo(p, n) \union {n + 1} /\ n + 1 \in SectionsUpTo(p, N)
      /\ n + 1 \notin SectionsUpTo(p, n)
  BY DEF SectionsUpTo
<1>7. map[n + 1] = Len(s) + 1
  <2>1. map[n + 1] \in 1 .. m
    BY <1>6 DEF Numbering
  <2>2. map[n + 1] \notin 1 .. Len(s)
    BY <1>1 DEF Entered
  <2>3. ASSUME Len(s) + 1 < map[n + 1] PROVE FALSE
    <3>1. Len(s) + 1 \in 1 .. map[n + 1]
      BY <2>1, <2>3, <1>1
    <3>2. PICK k \in SectionsUpTo(p, n + 1) : map[k] = Len(s) + 1
      BY <3>1, <1>6 DEF Numbering
    <3>3. k \in SectionsUpTo(p, n)
      BY <3>2, <2>1, <2>3, <1>1, <1>6
    <3> QED BY <3>2, <3>3, <1>1 DEF Entered
  <2> QED BY <2>1, <2>2, <2>3, <1>1
<1>8. ASSUME NEW k \in SectionsUpTo(p, n + 1) PROVE map[k] \in DOMAIN t
  BY <1>1, <1>3, <1>6, <1>7 DEF Entered
<1>9. ASSUME NEW x \in DOMAIN t
      PROVE  \E k \in SectionsUpTo(p, n + 1) : map[k] = x /\ t[x].name = SectionName(p[k])
  BY <1>1, <1>3, <1>6, <1>7 DEF Entered
<1>10. Entered(p, map, n + 1, t)
  <2> HIDE DEF t
  <2> QED BY <1>5, <1>8, <1>9 DEF Entered
<1> QED BY <1>10

\* A %section whose number has been seen, and any other item, enters nothing.
LEMMA EnterNothing ==
  ASSUME NEW p, NEW map, NEW N \in Nat, NEW m, Numbering(p, map, N, m),
         NEW n \in Nat, n < N, NEW s, Entered(p, map, n, s),
         IsDir(p[n + 1], {"section"}) => \E j \in SectionsUpTo(p, n) : map[j] = map[n + 1]
  PROVE  Entered(p, map, n + 1, s)
<1>1. SectionsUpTo(p, n + 1) = SectionsUpTo(p, n) \union
        (IF IsDir(p[n + 1], {"section"}) THEN {n + 1} ELSE {})
  BY DEF SectionsUpTo
<1>2. \A k \in SectionsUpTo(p, n + 1) : map[k] \in DOMAIN s
  BY <1>1 DEF Entered
<1> QED BY <1>1, <1>2 DEF Entered

\* Writing data leaves the names where they are.
LEMMA DataKeepsEntered ==
  ASSUME NEW p, NEW map, NEW n, NEW s, NEW x, NEW v, Entered(p, map, n, s)
  PROVE  Entered(p, map, n, [s EXCEPT ![x].data = v])
<1> DEFINE t == [s EXCEPT ![x].data = v]
<1>1. IsSequence(s) /\ DOMAIN s = 1 .. Len(s) /\ Len(s) \in Nat
  BY DEF Entered, AreSections, IsSequence
<1>2. \A y \in DOMAIN s : s[y] = [name |-> s[y].name, data |-> s[y].data]
  BY DEF Entered, AreSections
<1>3. DOMAIN t = DOMAIN s /\ t = [y \in DOMAIN s |-> t[y]]
  BY <1>1
<1>4. ASSUME NEW y \in DOMAIN s
      PROVE  t[y] = [name |-> t[y].name, data |-> t[y].data] /\ t[y].name = s[y].name
  <2>1. CASE y # x
    BY <2>1, <1>2
  <2>2. CASE y = x
    <3>1. t[y] = [s[y] EXCEPT !.data = v]
      BY <2>2
    <3>2. t[y] = [name |-> s[y].name, data |-> v]
      BY <3>1, <1>2
    <3> QED BY <3>2
  <2> QED BY <2>1, <2>2
<1>5. IsSequence(t)
  BY <1>1, <1>3, FunctionIsSequence
<1> HIDE DEF t
<1>6. AreSections(t)
  BY <1>3, <1>4, <1>5 DEF AreSections
<1>7. Entered(p, map, n, t)
  BY <1>3, <1>4, <1>6 DEF Entered
<1> QED BY <1>7 DEF t

-----------------------------------------------------------------------------
(***************************************************************************)
(* The passes.                                                             *)
(***************************************************************************)
LEMMA InitSections == Init => SectionInv
<1> SUFFICES ASSUME Init PROVE SectionInv
  OBVIOUS
<1>1. prog \in Seq(Item) /\ Len(prog) \in Nat
  BY TObjAssumption DEF Init
<1>2. SectionsUpTo(prog, 0) = {}
  BY DEF SectionsUpTo
<1>3. Numbering(prog, sec_map, 0, 0)
  BY <1>2 DEF Numbering
<1> QED BY <1>1, <1>3, EmptyIsSequence DEF Init, SectionInv, None

\* What a turn of pass 1 does to the sections, whichever the item is placed in.
LEMMA PlaceFacts ==
  ASSUME IsSequence(ends), NEW sec \in 0 .. Len(ends) + 1, NEW at, NEW next,
         Place(sec, at, next)
  PROVE  /\ IsSequence(ends)'
         /\ Len(ends') = IF sec = Len(ends) + 1 THEN Len(ends) + 1 ELSE Len(ends)
         /\ section' = sec /\ i' = i + 1
         /\ UNCHANGED <<prog, phase, secs>>
<1> DEFINE n == IF sec = Len(ends) + 1 THEN Len(ends) + 1 ELSE Len(ends)
<1>1. DOMAIN ends = 1 .. Len(ends) /\ Len(ends) \in Nat
  BY DEF IsSequence
<1>2. IsSequence(ends') /\ Len(ends') = n
  <2>1. CASE sec = None
    <3>1. ends' = ends
      BY <2>1 DEF Place
    <3>2. n = Len(ends)
      <4>1. sec = 0 /\ Len(ends) \in Nat
        BY <2>1, <1>1 DEF None
      <4> QED BY <4>1
    <3> HIDE DEF n
    <3> QED BY <3>1, <3>2
  <2>2. CASE sec # None
    <3>1. DOMAIN ends \union {sec} = 1 .. n /\ n \in Nat
      BY <2>2, <1>1 DEF None
    <3>2. ends' = [s \in 1 .. n |-> IF s = sec THEN next ELSE ends[s]]
      BY <2>2, <3>1 DEF Place
    <3>3. ends' = [s \in 1 .. n |-> ends'[s]]
      BY <3>2
    <3> HIDE DEF n
    <3> QED BY <3>1, <3>3, FunctionIsSequence
  <2> QED BY <2>1, <2>2
<1> QED BY <1>2 DEF Place, Advance

LEMMA PlaceElsewhere ==
  ASSUME SectionInv, At("pass1"), ~IsSection(i), UNCHANGED sec_map,
         NEW at, NEW next, Place(section, at, next)
  PROVE  SectionInv'
<1>1. /\ IsSequence(ends)' /\ Len(ends') = Len(ends)
      /\ section' = section /\ i' = i + 1 /\ UNCHANGED <<prog, phase, secs>>
  BY PlaceFacts, SMTT(30) DEF SectionInv, At, IsSequence
<1>2. i \in 1 .. Len(prog) /\ Len(prog) \in Nat
  BY DEF SectionInv, At
<1>3. Numbering(prog, sec_map, i - 1, Len(ends)) /\ secs = <<>> /\ section \in 0 .. Len(ends)
      /\ phase = "pass1"
  BY DEF SectionInv, At
<1>4. Numbering(prog, sec_map, i, Len(ends))
  BY <1>2, <1>3, NoNumber, i - 1 \in Nat, (i - 1) + 1 = i DEF IsSection
<1> QED BY <1>1, <1>2, <1>3, <1>4 DEF SectionInv

\* The number a %section gets is that of an earlier one of its name, or the next.
LEMMA NamedSectionIs ==
  ASSUME SectionInv, phase = "pass1", i \in DOMAIN prog, IsSection(i)
  PROVE  /\ NamedSection \in 1 .. Len(ends) + 1
         /\ \/ /\ NamedSection = Len(ends) + 1
               /\ \A j \in SectionsUpTo(prog, i - 1) : SectionName(prog[j]) # SectionName(prog[i])
            \/ \E j \in SectionsUpTo(prog, i - 1) :
                 NamedSection = sec_map[j] /\ SectionName(prog[j]) = SectionName(prog[i])
<1> DEFINE n    == i - 1
           same == {j \in 1 .. n : IsSection(j) /\ SectionName(prog[j]) = SectionName(prog[i])}
           m    == Len(ends)
<1>1. n \in Nat /\ m \in Nat /\ Numbering(prog, sec_map, n, m)
  BY DEF SectionInv, IsSequence
<1>3. same \subseteq SectionsUpTo(prog, n)
  BY DEF SectionsUpTo, IsSection
<1>4. \/ NamedSection = m + 1 /\ \A j \in SectionsUpTo(prog, n) : SectionName(prog[j]) # SectionName(prog[i])
      \/ \E j \in SectionsUpTo(prog, n) :
           NamedSection = sec_map[j] /\ SectionName(prog[j]) = SectionName(prog[i])
  <2>1. CASE same = {}
    BY <2>1 DEF NamedSection, SectionsUpTo, IsSection
  <2>2. CASE same # {}
    <3>1. First(same) \in same
      <4>1. same \in SUBSET Nat
        BY <1>1
      <4> HIDE DEF same
      <4> QED BY <2>2, <4>1, FirstIsFirst
    <3>2. NamedSection = sec_map[First(same)]
      BY <2>2 DEF NamedSection
    <3> HIDE DEF same
    <3>3. PICK j \in same : j = First(same)
      BY <3>1
    <3> QED BY <3>2, <3>3, <1>3 DEF same
  <2> QED BY <2>1, <2>2
<1>5. NamedSection \in 1 .. m + 1
  BY <1>1, <1>4 DEF Numbering
<1> QED BY <1>4, <1>5

LEMMA PlaceSection == SectionInv /\ Pass1Section => SectionInv'
<1> SUFFICES ASSUME SectionInv, Pass1Section PROVE SectionInv'
  OBVIOUS
<1> DEFINE n    == i - 1
           m    == Len(ends)
<1>1. /\ i \in 1 .. Len(prog) /\ Len(prog) \in Nat /\ n \in Nat /\ n + 1 = i
      /\ m \in Nat /\ IsSection(i) /\ phase = "pass1" /\ secs = <<>>
      /\ DOMAIN prog = 1 .. Len(prog)
  BY DEF SectionInv, Pass1Section, At, IsSequence
<1>2. Numbering(prog, sec_map, n, m)
  BY DEF SectionInv, Pass1Section, At
<1>4. \/ NamedSection = m + 1 /\ \A j \in SectionsUpTo(prog, n) : SectionName(prog[j]) # SectionName(prog[i])
      \/ \E j \in SectionsUpTo(prog, n) :
           NamedSection = sec_map[j] /\ SectionName(prog[j]) = SectionName(prog[i])
  BY <1>1, NamedSectionIs
<1>5. NamedSection \in 0 .. m + 1 /\ NamedSection \in Nat
  BY <1>1, NamedSectionIs
<1>6. /\ IsSequence(ends)'
      /\ Len(ends') = IF NamedSection = m + 1 THEN m + 1 ELSE m
      /\ section' = NamedSection /\ i' = i + 1 /\ UNCHANGED <<prog, phase, secs>>
  BY <1>5, PlaceFacts DEF Pass1Section, SectionInv
<1>7. sec_map = [j \in DOMAIN prog |-> sec_map[j]] /\ sec_map' = [sec_map EXCEPT ![i] = NamedSection]
  BY DEF Pass1Section, SectionInv
<1>8. (\A j \in 1 .. n : sec_map'[j] = sec_map[j]) /\ sec_map'[n + 1] = NamedSection
      /\ sec_map' = [j \in DOMAIN prog |-> sec_map'[j]]
  <2>1. DOMAIN sec_map = DOMAIN prog
    BY <1>7
  <2>2. sec_map' = [j \in DOMAIN prog |-> sec_map'[j]]
    BY <2>1, <1>7
  <2>3. \A j \in DOMAIN prog : sec_map'[j] = IF j = i THEN NamedSection ELSE sec_map[j]
    BY <2>1, <1>7
  <2> QED BY <2>2, <2>3, <1>1
<1>9. Numbering(prog, sec_map', n + 1, IF NamedSection = m + 1 THEN m + 1 ELSE m)
  <2>1. IsDir(prog[n + 1], {"section"})
    BY <1>1 DEF IsSection
  <2>2. \/ /\ NamedSection = m + 1
           /\ \A j \in SectionsUpTo(prog, n) : SectionName(prog[j]) # SectionName(prog[n + 1])
        \/ \E j \in SectionsUpTo(prog, n) :
             NamedSection = sec_map[j] /\ SectionName(prog[j]) = SectionName(prog[n + 1])
    BY <1>1, <1>4
  <2>3. n \in Nat /\ m \in Nat /\ NamedSection \in Nat
    BY <1>1, <1>5
  <2>4. (\A j \in 1 .. n : sec_map'[j] = sec_map[j]) /\ sec_map'[n + 1] = NamedSection
    BY <1>8
  <2> DEFINE new == NamedSection
  <2> HIDE DEF n, m, new
  <2> QED BY <2>1, <2>2, <2>3, <2>4, <1>2, NextNumber
<1> QED BY <1>1, <1>5, <1>6, <1>8, <1>9, DOMAIN prog' = DOMAIN prog DEF SectionInv

LEMMA PassOneSections ==
  SectionInv /\ (Pass1Section \/ Pass1Label \/ Pass1Org \/ Pass1Code \/ EndPass1) => SectionInv'
<1> SUFFICES ASSUME SectionInv PROVE (Pass1Section \/ Pass1Label \/ Pass1Org \/ Pass1Code \/ EndPass1) => SectionInv'
  OBVIOUS
<1>1. ASSUME Pass1Label PROVE SectionInv'
  <2>1. At("pass1") /\ ~IsSection(i) /\ UNCHANGED sec_map /\ Place(section, offset, offset)
    BY <1>1 DEF Pass1Label, IsSection, IsDir
  <2> QED BY <2>1, PlaceElsewhere
<1>2. ASSUME Pass1Org PROVE SectionInv'
  <2>1. At("pass1") /\ ~IsSection(i) /\ UNCHANGED sec_map
    BY <1>2 DEF Pass1Org, IsSection, IsDir
  <2>2. \E at, next : Place(section, at, next)
    BY <1>2 DEF Pass1Org
  <2> QED BY <2>1, <2>2, PlaceElsewhere
<1>3. ASSUME Pass1Code PROVE SectionInv'
  <2>1. At("pass1") /\ ~IsSection(i) /\ UNCHANGED sec_map
        /\ Place(section, offset, offset + ItemSize(prog[i]))
    BY <1>3 DEF Pass1Code, IsSection, IsDir
  <2> QED BY <2>1, PlaceElsewhere
<1>4. ASSUME EndPass1 PROVE SectionInv'
  <2>1. /\ phase = "pass1" /\ i = Len(prog) + 1 /\ Len(prog) \in Nat
        /\ phase' \in {"failed", "pass2"} /\ i' = 1 /\ UNCHANGED <<prog, ends, sec_map, secs>>
    BY <1>4 DEF EndPass1, StartPass, SectionInv, pass1vars
  <2>2. Numbering(prog, sec_map, Len(prog), Len(ends)) /\ secs = <<>>
    BY <2>1, (Len(prog) + 1) - 1 = Len(prog) DEF SectionInv
  <2>3. SectionsUpTo(prog, 0) = {}
    BY DEF SectionsUpTo
  <2>4. Entered(prog, sec_map, 0, <<>>)
    BY <2>3, EmptyIsSequence DEF Entered
  <2>5. i' \in 1 .. Len(prog) + 1 /\ i' - 1 = 0
    BY <2>1
  <2> QED BY <2>1, <2>2, <2>4, <2>5, IsSequence(ends)' DEF SectionInv, IsSequence
<1> QED BY <1>1, <1>2, <1>3, <1>4, PlaceSection

\* A turn of pass 2 that enters no section.
LEMMA NotEntering ==
  ASSUME SectionInv, At("pass2"), Advance, UNCHANGED <<pass1vars, secs>>,
         IsSection(i) => \E k \in 1 .. i - 1 : IsSection(k) /\ sec_map[k] = sec_map[i]
  PROVE  SectionInv'
<1> DEFINE n == i - 1
<1>1. /\ i \in 1 .. Len(prog) /\ Len(prog) \in Nat /\ n \in Nat /\ n + 1 = i /\ n < Len(prog)
      /\ Numbering(prog, sec_map, Len(prog), Len(ends)) /\ Entered(prog, sec_map, n, secs)
  BY DEF SectionInv, At
<1>2. IsDir(prog[n + 1], {"section"}) =>
        \E k \in SectionsUpTo(prog, n) : sec_map[k] = sec_map[n + 1]
  BY <1>1 DEF SectionsUpTo, IsSection
<1>3. Entered(prog, sec_map, n + 1, secs)
  <2> HIDE DEF n
  <2> QED BY <1>1, <1>2, EnterNothing
<1>4. /\ i' = i + 1 /\ i' - 1 = n + 1 /\ i' \in 1 .. Len(prog) + 1
      /\ UNCHANGED <<prog, phase, ends, sec_map, secs>> /\ phase = "pass2"
  BY <1>1 DEF Advance, pass1vars, At
<1>5. IsSequence(ends) /\ sec_map = [k \in DOMAIN prog |-> sec_map[k]] /\ prog \in Seq(Item)
  BY DEF SectionInv
<1> HIDE DEF n
<1> QED BY <1>1, <1>3, <1>4, <1>5 DEF SectionInv, IsSequence

LEMMA Entering == SectionInv /\ Pass2Section => SectionInv'
<1> SUFFICES ASSUME SectionInv, Pass2Section PROVE SectionInv'
  OBVIOUS
<1> DEFINE n == i - 1
<1>1. CASE \E k \in 1 .. i - 1 : IsSection(k) /\ sec_map[k] = sec_map[i]
  <2>1. secs' = secs
    BY <1>1 DEF Pass2Section
  <2> QED BY <1>1, <2>1, NotEntering DEF Pass2Section
<1>2. CASE ~\E k \in 1 .. i - 1 : IsSection(k) /\ sec_map[k] = sec_map[i]
  <2>1. /\ i \in 1 .. Len(prog) /\ Len(prog) \in Nat /\ n \in Nat /\ n + 1 = i /\ n < Len(prog)
        /\ Numbering(prog, sec_map, Len(prog), Len(ends)) /\ Entered(prog, sec_map, n, secs)
        /\ Len(ends) \in Nat
    BY DEF SectionInv, Pass2Section, At, IsSequence
  <2>2. IsDir(prog[n + 1], {"section"}) /\ ~\E k \in SectionsUpTo(prog, n) : sec_map[k] = sec_map[n + 1]
    BY <1>2, <2>1 DEF Pass2Section, SectionsUpTo, IsSection
  <2>3. secs' = Append(secs, [name |-> SectionName(prog[n + 1]), data |-> <<>>])
    BY <1>2, <2>1 DEF Pass2Section
  <2>4. Entered(prog, sec_map, n + 1, secs')
    <3> HIDE DEF n
    <3> QED BY <2>1, <2>2, <2>3, EnterNext
  <2>5. /\ i' = i + 1 /\ i' - 1 = n + 1 /\ i' \in 1 .. Len(prog) + 1
        /\ UNCHANGED <<prog, phase, ends, sec_map>> /\ phase = "pass2"
    BY <2>1 DEF Pass2Section, Advance, pass1vars, At
  <2>6. IsSequence(ends) /\ sec_map = [k \in DOMAIN prog |-> sec_map[k]] /\ prog \in Seq(Item)
    BY DEF SectionInv
  <2> HIDE DEF n
  <2> QED BY <2>1, <2>4, <2>5, <2>6 DEF SectionInv, IsSequence
<1> QED BY <1>1, <1>2

LEMMA PassTwoSections ==
  SectionInv /\ (Pass2Section \/ Pass2Label \/ Pass2Extern \/ Pass2Binding \/ Pass2Skip \/ EndPass2)
    => SectionInv'
<1> SUFFICES ASSUME SectionInv
             PROVE  Pass2Section \/ Pass2Label \/ Pass2Extern \/ Pass2Binding \/ Pass2Skip \/ EndPass2
                      => SectionInv'
  OBVIOUS
<1>1. ASSUME Pass2Label \/ Pass2Extern \/ Pass2Binding \/ Pass2Skip PROVE SectionInv'
  <2>1. At("pass2") /\ Advance /\ UNCHANGED <<pass1vars, secs>>
    BY <1>1 DEF Pass2Label, Pass2Extern, Pass2Binding, Pass2Skip
  <2>2. ~IsSection(i)
    BY <1>1 DEF Pass2Label, Pass2Extern, Pass2Binding, Pass2Skip, IsSection, IsDir, BindingDirs, DataDirs
  <2> QED BY <2>1, <2>2, NotEntering
<1>2. ASSUME EndPass2 PROVE SectionInv'
  <2>1. /\ phase = "pass2" /\ i = Len(prog) + 1 /\ Len(prog) \in Nat /\ prog \in Seq(Item)
        /\ phase' = "pass3" /\ i' = 1 /\ UNCHANGED <<prog, ends, sec_map, secs>>
    BY <1>2 DEF EndPass2, StartPass, SectionInv, pass1vars
  <2>2. Numbering(prog, sec_map, Len(prog), Len(ends)) /\ Entered(prog, sec_map, Len(prog), secs)
    BY <2>1, (Len(prog) + 1) - 1 = Len(prog) DEF SectionInv
  <2>3. IsSequence(ends) /\ sec_map = [k \in DOMAIN prog |-> sec_map[k]] /\ i' \in 1 .. Len(prog) + 1
    BY <2>1 DEF SectionInv
  <2> QED BY <2>1, <2>2, <2>3 DEF SectionInv, IsSequence
<1> QED BY <1>1, <1>2, Entering

PassThree == Pass3Outside \/ Pass3Label \/ Pass3Instr \/ Pass3Data \/ Pass3String \/ Pass3Pad \/ EndPass3

\* Pass 3 changes nothing but the data of one section.
LEMMA PassThreeWrites ==
  ASSUME SectionInv, PassThree
  PROVE  /\ phase = "pass3" /\ phase' \in {"pass3", "done"}
         /\ i' \in 1 .. Len(prog) + 1 /\ UNCHANGED <<prog, ends, sec_map>>
         /\ secs' = secs \/ \E x, v : secs' = [secs EXCEPT ![x].data = v]
<1>1. /\ phase = "pass3" /\ phase' \in {"pass3", "done"} /\ UNCHANGED <<prog, ends, sec_map>>
      /\ i' = i \/ (i \in DOMAIN prog /\ i' = i + 1)
  <2>1. CASE Pass3Outside
    BY <2>1 DEF Pass3Outside, Filled, Advance, At, pass1vars
  <2>2. CASE Pass3Label
    BY <2>2 DEF Pass3Label, Advance, In, At, pass1vars
  <2>3. CASE Pass3Instr \/ Pass3Data \/ Pass3String \/ Pass3Pad
    <3>1. At("pass3") /\ Filled
      <4>1. CASE Pass3Instr
        BY <4>1 DEF Pass3Instr, In
      <4>2. CASE Pass3Data
        BY <4>2 DEF Pass3Data, In
      <4>3. CASE Pass3String
        BY <4>3 DEF Pass3String, In
      <4>4. CASE Pass3Pad
        BY <4>4 DEF Pass3Pad, In
      <4> QED BY <2>3, <4>1, <4>2, <4>3, <4>4
    <3> QED BY <3>1 DEF Filled, Advance, At, pass1vars
  <2>4. CASE EndPass3
    BY <2>4 DEF EndPass3, pass1vars
  <2> QED BY <2>1, <2>2, <2>3, <2>4 DEF PassThree
<1>2. i' \in 1 .. Len(prog) + 1
  BY <1>1 DEF SectionInv
<1>3. ASSUME NEW trytes, NEW labels, NEW distance, Fill(trytes, labels, distance)
      PROVE  \E x, v : secs' = [secs EXCEPT ![x].data = v]
  <2> DEFINE v == Write(secs[addrs[i].section].data, addrs[i].offset, trytes)
  <2>1. secs' = [secs EXCEPT ![addrs[i].section].data = v]
    BY <1>3 DEF Fill
  <2> HIDE DEF v
  <2> QED BY <2>1
<1>4. secs' = secs \/ \E x, v : secs' = [secs EXCEPT ![x].data = v]
  <2>1. CASE Pass3Outside \/ Pass3Label \/ EndPass3
    BY <2>1 DEF Pass3Outside, Pass3Label, EndPass3
  <2>2. CASE Pass3Instr
    BY <2>2, <1>3 DEF Pass3Instr
  <2>3. CASE Pass3Data
    <3>1. \E trytes, labels, distance : Fill(trytes, labels, distance)
      BY <2>3 DEF Pass3Data
    <3> QED BY <3>1, <1>3
  <2>4. CASE Pass3String
    BY <2>4 DEF Pass3String
  <2>5. CASE Pass3Pad
    BY <2>5, <1>3 DEF Pass3Pad
  <2> QED BY <2>1, <2>2, <2>3, <2>4, <2>5 DEF PassThree
<1> QED BY <1>1, <1>2, <1>4

LEMMA PassThreeSections == SectionInv /\ PassThree => SectionInv'
<1> SUFFICES ASSUME SectionInv, PassThree PROVE SectionInv'
  OBVIOUS
<1>1. /\ phase = "pass3" /\ phase' \in {"pass3", "done"}
      /\ i' \in 1 .. Len(prog) + 1 /\ UNCHANGED <<prog, ends, sec_map>>
      /\ secs' = secs \/ \E x, v : secs' = [secs EXCEPT ![x].data = v]
  BY PassThreeWrites
<1>2. Numbering(prog, sec_map, Len(prog), Len(ends)) /\ Entered(prog, sec_map, Len(prog), secs)
  BY <1>1 DEF SectionInv
<1>3. Entered(prog, sec_map, Len(prog), secs')
  <2>1. CASE secs' = secs
    BY <2>1, <1>2
  <2>2. ASSUME NEW x, NEW v, secs' = [secs EXCEPT ![x].data = v]
        PROVE  Entered(prog, sec_map, Len(prog), secs')
    BY <2>2, <1>2, DataKeepsEntered, Zenon
  <2> QED BY <2>1, <2>2, <1>1
<1>4. IsSequence(ends) /\ sec_map = [k \in DOMAIN prog |-> sec_map[k]] /\ prog \in Seq(Item)
  BY DEF SectionInv
<1> QED BY <1>1, <1>2, <1>3, <1>4 DEF SectionInv, IsSequence

LEMMA StepSections == SectionInv /\ [Next]_vars => SectionInv'
<1>1. ASSUME SectionInv, UNCHANGED vars PROVE SectionInv'
  BY <1>1 DEF vars, pass1vars, SectionInv, IsSequence
<1>2. Next => \/ Pass1Section \/ Pass1Label \/ Pass1Org \/ Pass1Code \/ EndPass1
              \/ Pass2Section \/ Pass2Label \/ Pass2Extern \/ Pass2Binding \/ Pass2Skip \/ EndPass2
              \/ PassThree
  BY DEF Next, PassThree
<1> QED BY <1>1, <1>2, PassOneSections, PassTwoSections, PassThreeSections

\* What has been numbered by name and entered by number agrees.
LEMMA EnteredAgrees ==
  ASSUME NEW p, NEW map, NEW N \in Nat, NEW m, NEW n \in 0 .. N, NEW s,
         Numbering(p, map, N, m), Entered(p, map, n, s), NEW j \in SectionsUpTo(p, n)
  PROVE  /\ map[j] \in DOMAIN s
         /\ \A x \in DOMAIN s : s[x].name = SectionName(p[j]) <=> x = map[j]
<1>1. SectionsUpTo(p, n) \subseteq SectionsUpTo(p, N)
  BY DEF SectionsUpTo
<1> QED BY <1>1 DEF Numbering, Entered

LEMMA SectionsDoAgree == SectionInv => SectionsAgree
<1> SUFFICES ASSUME SectionInv, NEW j \in DOMAIN prog, IsSection(j),
                    (phase = "pass2" /\ j < i) \/ phase \in {"pass3", "done"}
             PROVE  /\ sec_map[j] \in DOMAIN secs
                    /\ \A s \in DOMAIN secs : secs[s].name = SectionName(prog[j]) <=> s = sec_map[j]
  BY DEF SectionsAgree
<1>1. j \in 1 .. Len(prog) /\ Len(prog) \in Nat /\ i \in 1 .. Len(prog) + 1
      /\ Numbering(prog, sec_map, Len(prog), Len(ends))
  BY DEF SectionInv
<1>2. CASE phase = "pass2" /\ j < i
  <2>1. i - 1 \in 0 .. Len(prog) /\ j \in SectionsUpTo(prog, i - 1)
        /\ Entered(prog, sec_map, i - 1, secs)
    BY <1>1, <1>2 DEF SectionInv, SectionsUpTo, IsSection
  <2> QED BY <1>1, <2>1, EnteredAgrees
<1>3. CASE phase \in {"pass3", "done"}
  <2>1. j \in SectionsUpTo(prog, Len(prog)) /\ Entered(prog, sec_map, Len(prog), secs)
        /\ Len(prog) \in 0 .. Len(prog)
    BY <1>1, <1>3 DEF SectionInv, SectionsUpTo, IsSection
  <2> QED BY <1>1, <2>1, EnteredAgrees
<1> QED BY <1>2, <1>3

\* For every program, whatever sections it leaves and takes up again: the data
\* of the items placed in a section by name (tobj.c, pass 1) goes to the section of that
\* name in the builder (passes 2 and 3), and to no other.
THEOREM TObjSectionsAgree == Spec => []SectionsAgree
<1>1. Init => SectionInv
  BY InitSections
<1>2. SectionInv /\ [Next]_vars => SectionInv'
  BY StepSections
<1>3. SectionInv => SectionsAgree
  BY SectionsDoAgree
<1> QED BY <1>1, <1>2, <1>3, PTL DEF Spec


-----------------------------------------------------------------------------
(* Types *)

PlacesTyped ==
  /\ section \in 0 .. Len(ends) /\ offset \in Nat /\ ends \in Seq(Nat)
  /\ addrs \in [DOMAIN prog -> [section : 0 .. Len(ends), offset : Nat]]
  /\ sec_map \in [DOMAIN prog -> 0 .. Len(ends)]

SymbolsTyped ==
  /\ global \in 0 .. Len(prog)
  /\ global # NoItem => IsGlobalLabel(prog[global])
  /\ syms \in Seq(Symbol)
  /\ sym_map \in [DOMAIN prog -> [sym : 0 .. Len(syms), parent : 0 .. Len(prog),
                                  specified : BOOLEAN, binding : BindingDirs]]

\* Relocations are made in pass 3 only, each from a section to a symbol.
RelocsTyped ==
  /\ relocs \in Seq(Reloc)
  /\ phase \notin {"pass3", "done"} => relocs = <<>>
  /\ \A r \in DOMAIN relocs : /\ relocs[r].section \in 1 .. Len(ends)
                              /\ relocs[r].sym \in 1 .. Len(syms)

\* No error is counted, and so no pass is ever the last one before its time.
ReportsTyped ==
  diags \in [DOMAIN prog -> Nat] /\ error_count = 0 /\ phase # "failed"

TypeInv == SectionInv /\ PlacesTyped /\ SymbolsTyped /\ RelocsTyped /\ ReportsTyped

LEMMA InitTypeInv == Init => TypeInv
<1> SUFFICES ASSUME Init PROVE TypeInv
  OBVIOUS
<1>1. SectionInv
  BY InitSections
<1>2. prog \in Seq(Item) /\ Len(prog) \in Nat /\ DOMAIN prog = 1 .. Len(prog)
  BY <1>1 DEF SectionInv
<1>3. ends = <<>> /\ syms = <<>> /\ relocs = <<>> /\ Len(<<>>) = 0
  BY DEF Init
<1>4. PlacesTyped
  BY <1>2, <1>3 DEF Init, PlacesTyped, None
<1>5. SymbolsTyped
  BY <1>2, <1>3 DEF Init, SymbolsTyped, None, NoItem, BindingDirs
<1>6. RelocsTyped
  BY <1>3 DEF RelocsTyped
<1>7. ReportsTyped
  BY DEF Init, ReportsTyped
<1> QED BY <1>1, <1>4, <1>5, <1>6, <1>7 DEF TypeInv

\* The item at hand.
LEMMA ItemAt ==
  ASSUME TypeInv, i \in DOMAIN prog
  PROVE  /\ prog[i] \in Item /\ i \in 1 .. Len(prog) /\ Len(prog) \in Nat
         /\ DOMAIN prog = 1 .. Len(prog)
         /\ prog[i].kind # "label" =>
              /\ prog[i].operands \in Seq(Operand)
              /\ \A k \in DOMAIN prog[i].operands : prog[i].operands[k] \in Operand
<1>1. prog[i] \in Item /\ i \in 1 .. Len(prog) /\ Len(prog) \in Nat /\ DOMAIN prog = 1 .. Len(prog)
  BY DEF TypeInv, SectionInv
<1>2. prog[i].kind # "label" => prog[i].operands \in Seq(Operand)
  BY <1>1, ItemFacts
<1> QED BY <1>1, <1>2

\* Operands can be counted, whichever are.
LEMMA CountOfOperands ==
  ASSUME NEW ops \in Seq(Operand), NEW K \in SUBSET DOMAIN ops
  PROVE  IsFiniteSet(K) /\ Cardinality(K) \in Nat
<1>1. DOMAIN ops = 1 .. Len(ops) /\ Len(ops) \in Nat
  OBVIOUS
<1>2. IsFiniteSet(1 .. Len(ops))
  BY <1>1, FS_Interval
<1> QED BY <1>1, <1>2, FS_Subset, FS_CardinalityType

-----------------------------------------------------------------------------
(* Places *)

\* What a turn of pass 1 does to the places, whichever section the item is in.
LEMMA PlaceTyped ==
  ASSUME SectionInv, PlacesTyped, i \in DOMAIN prog,
         NEW sec \in 0 .. Len(ends) + 1, NEW at \in Nat, NEW next \in Nat,
         Place(sec, at, next)
  PROVE  /\ section' \in 0 .. Len(ends') /\ offset' \in Nat /\ ends' \in Seq(Nat)
         /\ addrs' \in [DOMAIN prog -> [section : 0 .. Len(ends'), offset : Nat]]
         /\ Len(ends) \in Nat /\ Len(ends') \in Nat /\ Len(ends) <= Len(ends')
         /\ sec <= Len(ends') /\ prog' = prog
<1> DEFINE n == Len(ends)
           m == IF sec = n + 1 THEN n + 1 ELSE n
<1>1. n \in Nat /\ DOMAIN ends = 1 .. n
  BY DEF PlacesTyped
<1>2. Len(ends') = m /\ prog' = prog /\ section' = sec
  BY PlaceFacts DEF SectionInv
<1>3. m \in Nat /\ n <= m /\ sec <= m /\ sec \in 0 .. m
  BY <1>1
<1>4. ends' \in Seq(Nat)
  <2>1. CASE sec = None
    BY <2>1 DEF Place, PlacesTyped
  <2>2. CASE sec # None
    <3>1. DOMAIN ends \union {sec} = 1 .. m
      BY <2>2, <1>1 DEF None
    <3>2. ends' = [s \in 1 .. m |-> IF s = sec THEN next ELSE ends[s]]
      BY <2>2, <3>1 DEF Place
    <3>3. \A s \in 1 .. m : s # sec => ends[s] \in Nat
      BY <1>1 DEF PlacesTyped
    <3> HIDE DEF m
    <3>4. ends' \in [1 .. m -> Nat]
      BY <3>2, <3>3
    <3> QED BY <3>4, <1>3
  <2> QED BY <2>1, <2>2
<1>5. offset' \in Nat
  BY DEF Place
<1>6. addrs' \in [DOMAIN prog -> [section : 0 .. m, offset : Nat]]
  <2>1. 0 .. n \subseteq 0 .. m
    BY <1>1, <1>3
  <2>2. [section |-> sec, offset |-> at] \in [section : 0 .. m, offset : Nat]
    BY <1>3
  <2>3. addrs' = [addrs EXCEPT ![i] = [section |-> sec, offset |-> at]]
    BY DEF Place
  <2>4. addrs \in [DOMAIN prog -> [section : 0 .. n, offset : Nat]]
    BY DEF PlacesTyped
  <2>5. [section : 0 .. n, offset : Nat] \subseteq [section : 0 .. m, offset : Nat]
    BY <2>1
  <2> HIDE DEF m, n
  <2> QED BY <2>2, <2>3, <2>4, <2>5
<1> HIDE DEF m
<1> QED BY <1>1, <1>2, <1>3, <1>4, <1>5, <1>6

\* The same for the actions that place an item, the section map aside.
LEMMA PlacesKept ==
  ASSUME SectionInv, PlacesTyped, i \in DOMAIN prog,
         NEW sec \in 0 .. Len(ends) + 1, NEW at \in Nat, NEW next \in Nat,
         Place(sec, at, next),
         \/ sec_map' = sec_map
         \/ sec_map' = [sec_map EXCEPT ![i] = sec]
  PROVE  PlacesTyped'
<1>1. /\ section' \in 0 .. Len(ends') /\ offset' \in Nat /\ ends' \in Seq(Nat)
      /\ addrs' \in [DOMAIN prog -> [section : 0 .. Len(ends'), offset : Nat]]
      /\ Len(ends) \in Nat /\ Len(ends') \in Nat /\ Len(ends) <= Len(ends')
      /\ sec <= Len(ends') /\ prog' = prog
  BY PlaceTyped
<1>2. sec \in 0 .. Len(ends') /\ 0 .. Len(ends) \subseteq 0 .. Len(ends')
  BY <1>1
<1>3. sec_map' \in [DOMAIN prog -> 0 .. Len(ends')]
  BY <1>2 DEF PlacesTyped
<1> QED BY <1>1, <1>3 DEF PlacesTyped

\* The actions of pass 3 that write data.
LEMMA FilledActions ==
  ASSUME Pass3Instr \/ Pass3Data \/ Pass3String \/ Pass3Pad
  PROVE  /\ Filled /\ At("pass3") /\ addrs[i].section # None
         /\ prog[i].kind \in {"instr", "directive"}
<1>1. CASE Pass3Instr
  BY <1>1 DEF Pass3Instr, In
<1>2. CASE Pass3Data
  <2>1. In("directive") /\ Filled
    BY <1>2 DEF Pass3Data
  <2> QED BY <2>1 DEF In
<1>3. CASE Pass3String
  BY <1>3 DEF Pass3String, In
<1>4. CASE Pass3Pad
  BY <1>4 DEF Pass3Pad, In
<1> QED BY <1>1, <1>2, <1>3, <1>4

LEMMA StepPlaces == TypeInv /\ [Next]_vars => PlacesTyped'
<1> SUFFICES ASSUME TypeInv, [Next]_vars PROVE PlacesTyped'
  OBVIOUS
<1>1. SectionInv /\ PlacesTyped /\ section \in 0 .. Len(ends) /\ offset \in Nat /\ Len(ends) \in Nat
  BY DEF TypeInv, PlacesTyped
<1>2. section \in 0 .. Len(ends) + 1
  BY <1>1
<1>3. CASE Pass1Section
  <2>1. i \in DOMAIN prog /\ IsSection(i) /\ phase = "pass1"
        /\ sec_map' = [sec_map EXCEPT ![i] = NamedSection]
        /\ Place(NamedSection, LeftOff(NamedSection), LeftOff(NamedSection))
    BY <1>3 DEF Pass1Section, At
  <2>2. NamedSection \in 0 .. Len(ends) + 1
    BY <1>1, <2>1, NamedSectionIs
  <2>3. LeftOff(NamedSection) \in Nat
    BY DEF LeftOff, TypeInv, PlacesTyped
  <2> DEFINE s == NamedSection
             at == LeftOff(NamedSection)
  <2> HIDE DEF s, at
  <2> QED BY <1>1, <2>1, <2>2, <2>3, PlacesKept DEF s, at
<1>4. CASE Pass1Label
  BY <1>1, <1>2, <1>4, PlacesKept DEF Pass1Label, At
<1>5. CASE Pass1Org
  <2>1. i \in DOMAIN prog /\ IsDir(prog[i], {"org"}) /\ sec_map' = sec_map
    BY <1>5 DEF Pass1Org, At
  <2>2. CASE Len(prog[i].operands) = 1
    <3>1. PICK at \in OrgTargets(prog[i].operands[1]) : Place(section, at, at)
      BY <1>5, <2>2 DEF Pass1Org
    <3>2. at \in Nat
      <4>1. prog[i].operands \in Seq(Operand)
        BY <2>1, ItemAt DEF IsDir
      <4>2. prog[i].operands[1] \in Operand
        BY <2>2, <4>1
      <4> QED BY <4>2, <3>1, OperandFacts, TObjAssumption DEF OrgTargets, IsImm
    <3> QED BY <1>1, <1>2, <2>1, <3>1, <3>2, PlacesKept
  <2>3. CASE Len(prog[i].operands) # 1
    <3>1. Place(section, offset, offset)
      BY <1>5, <2>3 DEF Pass1Org
    <3> QED BY <1>1, <1>2, <2>1, <3>1, PlacesKept
  <2> QED BY <2>2, <2>3
<1>6. CASE Pass1Code
  <2>1. i \in DOMAIN prog /\ sec_map' = sec_map /\ Place(section, offset, offset + ItemSize(prog[i]))
    BY <1>6 DEF Pass1Code, At
  <2>2. ItemSize(prog[i]) \in Nat
    BY <2>1, ItemAt, ItemSizeType
  <2>3. offset + ItemSize(prog[i]) \in Nat
    BY <1>1, <2>2
  <2> DEFINE next == offset + ItemSize(prog[i])
  <2> HIDE DEF next
  <2> QED BY <1>1, <1>2, <2>1, <2>3, PlacesKept DEF next
<1>7. CASE EndPass1
  BY <1>1, <1>7 DEF EndPass1, StartPass, pass1vars, PlacesTyped, None
<1>8. CASE Pass2Section
  <2>1. i \in DOMAIN prog /\ section' = sec_map[i] /\ UNCHANGED <<prog, pass1vars>>
    BY <1>8 DEF Pass2Section, At, Advance
  <2> QED BY <1>1, <2>1 DEF pass1vars, PlacesTyped
<1>9. ASSUME UNCHANGED <<prog, section, pass1vars>> PROVE PlacesTyped'
  BY <1>1, <1>9 DEF pass1vars, PlacesTyped
<1>10. CASE Pass2Label \/ Pass2Extern \/ Pass2Binding \/ Pass2Skip
  <2>1. UNCHANGED <<prog, section, pass1vars>>
    BY <1>10 DEF Pass2Label, Pass2Extern, Pass2Binding, Pass2Skip, Advance
  <2> QED BY <2>1, <1>9
<1>11. CASE EndPass2 \/ EndPass3
  <2>1. UNCHANGED <<prog, section, pass1vars>>
    BY <1>11 DEF EndPass2, EndPass3, StartPass
  <2> QED BY <2>1, <1>9
<1>12. CASE Pass3Outside \/ Pass3Label \/ Pass3Instr \/ Pass3Data \/ Pass3String \/ Pass3Pad
  <2>1. UNCHANGED <<prog, section, pass1vars>>
    BY <1>12 DEF Pass3Outside, Pass3Label, Pass3Instr, Pass3Data, Pass3String, Pass3Pad,
                 Filled, Advance
  <2> QED BY <2>1, <1>9
<1>13. CASE UNCHANGED vars
  BY <1>9, <1>13 DEF vars, pass1vars
<1> QED BY <1>3, <1>4, <1>5, <1>6, <1>7, <1>8, <1>10, <1>11, <1>12, <1>13 DEF Next

-----------------------------------------------------------------------------
(* Loops over a set of operands *)

Below(K, k) == {l \in K : l < k}

LEMMA BelowCount ==
  ASSUME NEW K \in SUBSET Nat, IsFiniteSet(K), NEW k \in K
  PROVE  /\ Cardinality(Below(K, k)) \in Nat
         /\ Cardinality(Below(K, k) \union {k}) = Cardinality(Below(K, k)) + 1
         /\ Cardinality(Below(K, k)) < Cardinality(K)
         /\ Cardinality(K) \in Nat
<1>1. IsFiniteSet(Below(K, k)) /\ k \notin Below(K, k)
  BY FS_Subset DEF Below
<1>2. Below(K, k) \union {k} \subseteq K
  BY DEF Below
<1>3. Cardinality(Below(K, k) \union {k}) = Cardinality(Below(K, k)) + 1
  BY <1>1, FS_AddElement
<1>4. Cardinality(Below(K, k) \union {k}) <= Cardinality(K)
  BY <1>2, FS_Subset
<1>5. Cardinality(Below(K, k)) \in Nat /\ Cardinality(K) \in Nat
  BY <1>1, FS_CardinalityType
<1> QED BY <1>3, <1>4, <1>5

\* Every turn of such a loop is at one of the operands.
LEMMA NthIsIn ==
  ASSUME NEW K \in SUBSET Nat, IsFiniteSet(K), NEW r \in 1 .. Cardinality(K)
  PROVE  Nth(K, r) \in K /\ Cardinality(Below(K, Nth(K, r))) = r - 1
<1> DEFINE missing == {t \in 1 .. Cardinality(K) : ~\E k \in K : Cardinality(Below(K, k)) = t - 1}
<1>0. \A l \in K : l \in Nat
  OBVIOUS
<1>1. Cardinality(K) \in Nat
  BY FS_CardinalityType
<1>2. missing \in SUBSET Nat
  OBVIOUS
<1>3. ASSUME missing # {} PROVE FALSE
  <2>1. PICK t \in missing : \A s \in missing : t <= s
    <3> HIDE DEF missing
    <3> QED BY <1>2, <1>3, LeastExists
  <2>2. t \in 1 .. Cardinality(K) /\ \A k \in K : Cardinality(Below(K, k)) # t - 1
    OBVIOUS
  <2>3. CASE t = 1
    <3>1. K # {}
      BY <1>1, <2>2, FS_EmptySet
    <3>2. PICK k \in K : \A l \in K : k <= l
      BY <3>1, LeastExists
    <3>3. Below(K, k) = {}
      <4>1. \A l \in K : ~(l < k)
        BY <1>0, <3>2
      <4> QED BY <4>1 DEF Below
    <3> QED BY <2>2, <2>3, <3>3, FS_EmptySet
  <2>4. CASE t # 1
    <3>1. t - 1 \in 1 .. Cardinality(K) /\ ~(t <= t - 1)
      BY <1>1, <2>2, <2>4
    <3>2. PICK k \in K : Cardinality(Below(K, k)) = (t - 1) - 1
      BY <2>1, <3>1
    <3> DEFINE R == {l \in K : k < l}
               done == Below(K, k) \union {k}
    <3>3. Cardinality(done) = t - 1
      BY <1>1, <2>2, <3>2, BelowCount
    <3>4. K = done \union R
      <4>1. \A l \in K : l < k \/ l = k \/ k < l
        BY <1>0
      <4> QED BY <4>1 DEF Below
    <3>5. R # {}
      <4>1. ASSUME R = {} PROVE FALSE
        <5>1. K = done
          BY <3>4, <4>1
        <5> HIDE DEF done
        <5> QED BY <1>1, <2>2, <3>3, <5>1
      <4> QED BY <4>1
    <3>6. PICK m \in R : \A l \in R : m <= l
      <4>1. R \in SUBSET Nat
        OBVIOUS
      <4> HIDE DEF R
      <4> QED BY <3>5, <4>1, LeastExists
    <3>7. Below(K, m) = done
      <4>1. ASSUME NEW l \in K PROVE l < m <=> l < k \/ l = k
        <5>1. l \in Nat /\ m \in Nat /\ k \in Nat /\ k < m
          BY <1>0
        <5>2. k < l => m <= l
          BY <3>6
        <5> QED BY <5>1, <5>2
      <4> QED BY <4>1 DEF Below
    <3> HIDE DEF done
    <3> QED BY <2>2, <3>3, <3>6, <3>7
  <2> QED BY <2>3, <2>4
<1>4. \E k \in K : Cardinality(Below(K, k)) = r - 1
  BY <1>3
<1> QED BY <1>4 DEF Nth, Below

\* And it comes by each of them.
LEMMA EachIsNth ==
  ASSUME NEW K \in SUBSET Nat, IsFiniteSet(K), NEW k \in K
  PROVE  \E r \in 1 .. Cardinality(K) : Nth(K, r) = k
<1> DEFINE r == Cardinality(Below(K, k)) + 1
<1>0. \A l \in K : /\ l \in Nat /\ Cardinality(Below(K, l)) \in Nat
                   /\ Cardinality(Below(K, l) \union {l}) = Cardinality(Below(K, l)) + 1
  BY BelowCount
<1>1. r \in 1 .. Cardinality(K) /\ r - 1 = Cardinality(Below(K, k))
  <2>1. /\ Cardinality(Below(K, k)) \in Nat /\ Cardinality(K) \in Nat
        /\ Cardinality(Below(K, k)) < Cardinality(K)
    BY BelowCount
  <2> QED BY <2>1
<1>2. Nth(K, r) \in K /\ Cardinality(Below(K, Nth(K, r))) = r - 1
  <2> HIDE DEF r
  <2> QED BY <1>1, NthIsIn
<1>3. ASSUME NEW a \in K, NEW b \in K, a < b
      PROVE  Cardinality(Below(K, a)) < Cardinality(Below(K, b))
  <2>1. Below(K, a) \union {a} \subseteq Below(K, b) /\ IsFiniteSet(Below(K, b))
    <3>1. a \in Nat /\ b \in Nat /\ \A l \in K : l < a => l < b
      BY <1>0, <1>3
    <3>2. Below(K, b) \subseteq K
      BY DEF Below
    <3> QED BY <1>3, <3>1, <3>2, FS_Subset DEF Below
  <2>2. Cardinality(Below(K, a) \union {a}) <= Cardinality(Below(K, b))
    BY <2>1, FS_Subset
  <2>3. /\ Cardinality(Below(K, a)) \in Nat /\ Cardinality(Below(K, b)) \in Nat
        /\ Cardinality(Below(K, a) \union {a}) = Cardinality(Below(K, a)) + 1
    BY <1>0
  <2> QED BY <2>2, <2>3
<1> HIDE DEF r
<1>4. Nth(K, r) \in Nat /\ k \in Nat
  BY <1>2
<1>5. /\ Cardinality(Below(K, k)) \in Nat
      /\ Cardinality(Below(K, Nth(K, r))) = Cardinality(Below(K, k))
  BY <1>0, <1>1, <1>2
<1>6. ~(Nth(K, r) < k) /\ ~(k < Nth(K, r))
  <2>1. ASSUME Nth(K, r) < k PROVE FALSE
    <3>1. Cardinality(Below(K, Nth(K, r))) < Cardinality(Below(K, k))
      BY <1>2, <1>3, <2>1
    <3> QED BY <1>5, <3>1
  <2>2. ASSUME k < Nth(K, r) PROVE FALSE
    <3>1. Cardinality(Below(K, k)) < Cardinality(Below(K, Nth(K, r)))
      BY <1>2, <1>3, <2>2
    <3> QED BY <1>5, <3>1
  <2> QED BY <2>1, <2>2
<1>7. Nth(K, r) = k
  BY <1>4, <1>6
<1> QED BY <1>1, <1>7

-----------------------------------------------------------------------------
(* Lists that are appended to *)

\* t is s and behind it what f maps 1 to n to.
Extends(t, s, n, f) ==
  /\ Len(t) = Len(s) + n
  /\ \A x \in DOMAIN s : x \in DOMAIN t /\ t[x] = s[x]
  /\ \A x \in 1 .. n : Len(s) + x \in DOMAIN t /\ t[Len(s) + x] = f[x]
  /\ \A x \in DOMAIN t : x \in DOMAIN s \/ \E y \in 1 .. n : x = Len(s) + y

LEMMA ConcatExtends ==
  ASSUME NEW S, NEW s \in Seq(S), NEW n \in Nat, NEW f \in [1 .. n -> S]
  PROVE  s \o f \in Seq(S) /\ Extends(s \o f, s, n, f)
<1> DEFINE t == s \o f
<1>1. f \in Seq(S) /\ Len(f) = n /\ Len(s) \in Nat
  OBVIOUS
<1>2. t \in Seq(S) /\ Len(t) = Len(s) + n /\ DOMAIN t = 1 .. Len(s) + n /\ DOMAIN s = 1 .. Len(s)
  BY <1>1
<1>3. (\A x \in 1 .. Len(s) : t[x] = s[x]) /\ (\A x \in 1 .. n : t[Len(s) + x] = f[x])
  BY <1>1
<1> HIDE DEF t
<1>4. \A x \in DOMAIN t : x \in DOMAIN s \/ \E y \in 1 .. n : x = Len(s) + y
  <2>1. ASSUME NEW x \in 1 .. Len(s) + n, x \notin 1 .. Len(s)
        PROVE  x - Len(s) \in 1 .. n /\ x = Len(s) + (x - Len(s))
    BY <1>1, <2>1
  <2> QED BY <1>2, <2>1
<1>5. \A x \in 1 .. n : Len(s) + x \in DOMAIN t
  BY <1>1, <1>2
<1>6. \A x \in DOMAIN s : x \in DOMAIN t
  BY <1>1, <1>2
<1> QED BY <1>2, <1>3, <1>4, <1>5, <1>6 DEF Extends, t

LEMMA AppendExtends ==
  ASSUME NEW S, NEW s \in Seq(S), NEW e \in S
  PROVE  /\ Append(s, e) \in Seq(S) /\ Len(Append(s, e)) = Len(s) + 1 /\ Len(s) \in Nat
         /\ \A x \in DOMAIN s : x \in DOMAIN Append(s, e) /\ Append(s, e)[x] = s[x]
         /\ Len(s) + 1 \in DOMAIN Append(s, e) /\ Append(s, e)[Len(s) + 1] = e
         /\ \A x \in DOMAIN Append(s, e) : x \in DOMAIN s \/ x = Len(s) + 1
OBVIOUS

-----------------------------------------------------------------------------
(* Types of symbols *)

\* The name of the symbol of a label, in the scope of a global label or in none.
LEMMA SymbolNameType ==
  ASSUME TypeInv, i \in DOMAIN prog, prog[i].kind = "label", NEW parent \in {global, NoItem}
  PROVE  SymbolName(prog[i], parent) \in Seq(STRING)
<1>1. prog[i].name \in STRING
  BY ItemAt, ItemFacts
<1>2. parent # NoItem => prog[parent].name \in STRING
  <2> SUFFICES ASSUME parent # NoItem PROVE prog[global].name \in STRING
    OBVIOUS
  <2>1. global \in 1 .. Len(prog) /\ prog[global].kind = "label" /\ prog \in Seq(Item)
    BY DEF TypeInv, SectionInv, SymbolsTyped, NoItem, IsGlobalLabel
  <2>2. prog[global] \in Item
    BY <2>1
  <2> QED BY <2>1, <2>2, ItemFacts
<1>3. \/ SymbolName(prog[i], parent) = <<prog[i].name>>
      \/ parent # NoItem /\ SymbolName(prog[i], parent) = <<prog[parent].name, prog[i].name>>
  BY DEF SymbolName
<1>4. <<prog[i].name>> \in Seq(STRING)
  BY <1>1
<1>5. ASSUME parent # NoItem PROVE <<prog[parent].name, prog[i].name>> \in Seq(STRING)
  <2>1. prog[parent].name \in STRING
    BY <1>2, <1>5
  <2> QED BY <1>1, <2>1
<1> QED BY <1>3, <1>4, <1>5

\* What pass 2 does at a label that lies in a section.
EntersSymbol(parent, binding) ==
  /\ syms' = Append(syms, [name |-> SymbolName(prog[i], parent), section |-> addrs[i].section,
                           offset |-> addrs[i].offset, binding |-> binding])
  /\ sym_map' = [sym_map EXCEPT ![i] =
                   [sym |-> Len(syms) + 1, parent |-> parent,
                    specified |-> sym_map[i].specified, binding |-> binding]]

LEMMA LabelEntersSymbol ==
  ASSUME TypeInv, Pass2Label
  PROVE  LET parent  == IF prog[i].is_local THEN global ELSE NoItem
             binding == IF sym_map[i].specified THEN sym_map[i].binding ELSE "local"
         IN  /\ parent \in {global, NoItem} /\ binding \in BindingDirs
             /\ IF addrs[i].section = None THEN UNCHANGED <<syms, sym_map>>
                ELSE EntersSymbol(parent, binding)
<1>1. i \in DOMAIN prog
  BY DEF Pass2Label, At
<1>2. sym_map[i].binding \in BindingDirs
  BY <1>1 DEF TypeInv, SymbolsTyped
<1>3. addrs[i].section = None => UNCHANGED <<syms, sym_map>>
  BY DEF Pass2Label
<1>4. ASSUME addrs[i].section # None
      PROVE  EntersSymbol(IF prog[i].is_local THEN global ELSE NoItem,
                          IF sym_map[i].specified THEN sym_map[i].binding ELSE "local")
  BY <1>1, <1>4 DEF Pass2Label, EntersSymbol, TypeInv, SymbolsTyped
<1> QED BY <1>2, <1>3, <1>4 DEF BindingDirs

LEMMA EntersTyped ==
  ASSUME TypeInv, i \in DOMAIN prog, prog[i].kind = "label", addrs[i].section # None,
         NEW parent \in {global, NoItem}, NEW binding \in BindingDirs,
         EntersSymbol(parent, binding)
  PROVE  /\ syms' \in Seq(Symbol) /\ Len(syms) \in Nat /\ Len(syms') = Len(syms) + 1
         /\ sym_map' \in [DOMAIN prog -> [sym : 0 .. Len(syms'), parent : 0 .. Len(prog),
                                          specified : BOOLEAN, binding : BindingDirs]]
<1> DEFINE new == [name |-> SymbolName(prog[i], parent), section |-> addrs[i].section,
                   offset |-> addrs[i].offset, binding |-> binding]
           n == Len(syms)
           Info(m) == [sym : 0 .. m, parent : 0 .. Len(prog),
                       specified : BOOLEAN, binding : BindingDirs]
<1>1. addrs[i] \in [section : 0 .. Len(ends), offset : Nat] /\ Len(ends) \in Nat
  BY DEF TypeInv, PlacesTyped
<1>2. new \in Symbol
  BY <1>1, SymbolNameType DEF Symbol
<1>3. syms \in Seq(Symbol) /\ syms' = Append(syms, new)
  BY DEF EntersSymbol, TypeInv, SymbolsTyped
<1>4. syms' \in Seq(Symbol) /\ n \in Nat /\ Len(syms') = n + 1
  <2> HIDE DEF new
  <2> QED BY <1>2, <1>3, AppendExtends
<1>5. sym_map \in [DOMAIN prog -> Info(n)]
  BY DEF TypeInv, SymbolsTyped
<1>6. Info(n) \subseteq Info(n + 1)
  BY <1>4
<1>7. [sym |-> n + 1, parent |-> parent, specified |-> sym_map[i].specified,
       binding |-> binding] \in Info(n + 1)
  <2>1. parent \in 0 .. Len(prog)
    BY DEF TypeInv, SymbolsTyped, SectionInv, NoItem
  <2>2. sym_map[i].specified \in BOOLEAN
    BY <1>5
  <2>3. n + 1 \in 0 .. n + 1
    BY <1>4
  <2> QED BY <2>1, <2>2, <2>3
<1> HIDE DEF Info, n
<1>8. sym_map' \in [DOMAIN prog -> Info(n + 1)]
  BY <1>5, <1>6, <1>7 DEF EntersSymbol, n
<1> QED BY <1>4, <1>8 DEF Info, n

\* The symbols a directive declares to be external, one for each name.
ExternSymbol(k) == [name |-> <<prog[i].operands[k].name>>, section |-> None, offset |-> 0,
                    binding |-> "global"]

LEMMA ExternExtends ==
  ASSUME TypeInv, Pass2Extern
  PROVE  LET labels == LabelIndices(prog[i])
             n == Cardinality(labels)
         IN  /\ n \in Nat /\ syms' \in Seq(Symbol)
             /\ Extends(syms', syms, n, [r \in 1 .. n |-> ExternSymbol(Nth(labels, r))])
             /\ \A k \in labels : ExternSymbol(k) \in Symbol
<1> DEFINE labels == LabelIndices(prog[i])
           n == Cardinality(labels)
           f == [r \in 1 .. n |-> ExternSymbol(Nth(labels, r))]
<1>1. i \in DOMAIN prog /\ prog[i].kind = "directive" /\ syms' = syms \o f
  BY DEF Pass2Extern, At, IsDir, ExternSymbol
<1>2. prog[i].operands \in Seq(Operand) /\ DOMAIN prog[i].operands \subseteq Nat
  BY <1>1, ItemAt
<1>3. labels \in SUBSET DOMAIN prog[i].operands /\ labels \in SUBSET Nat
  BY <1>2 DEF LabelIndices
<1>4. IsFiniteSet(labels) /\ n \in Nat
  BY <1>2, <1>3, CountOfOperands
<1>5. \A k \in labels : ExternSymbol(k) \in Symbol
  <2> SUFFICES ASSUME NEW k \in labels PROVE ExternSymbol(k) \in Symbol
    OBVIOUS
  <2>1. prog[i].operands[k] \in Operand /\ IsLabel(prog[i].operands[k])
    BY <1>1, ItemAt DEF LabelIndices
  <2>2. prog[i].operands[k].name \in STRING
    BY <2>1, OperandFacts DEF IsLabel
  <2>3. <<prog[i].operands[k].name>> \in Seq(STRING)
    BY <2>2
  <2> QED BY <2>3 DEF ExternSymbol, Symbol, None, BindingDirs
<1> HIDE DEF labels, n
<1>6. ASSUME NEW r \in 1 .. n PROVE Nth(labels, r) \in labels
  BY <1>3, <1>4, NthIsIn DEF n
<1>7. f \in [1 .. n -> Symbol]
  BY <1>5, <1>6
<1>8. syms \in Seq(Symbol)
  BY DEF TypeInv, SymbolsTyped
<1> HIDE DEF f
<1> QED BY <1>1, <1>4, <1>5, <1>7, <1>8, ConcatExtends DEF labels, n, f

\* What a binding directive says of the label items.
BoundTo(k) == LabelItems(prog[i].operands[k].name, prog[i].operands[k].is_local)

Named == {k \in LabelIndices(prog[i]) : BoundTo(k) # {}}

Clashing == {k \in Named : Contradicts(sym_map[First(BoundTo(k))], prog[i].dir)}

Bound == {First(BoundTo(k)) : k \in Named \ Clashing}

LEMMA BindingBinds ==
  ASSUME TypeInv, Pass2Binding
  PROVE  /\ sym_map' = [j \in DOMAIN prog |->
               IF j \in Bound
               THEN [sym_map[j] EXCEPT !.specified = TRUE, !.binding = prog[i].dir]
               ELSE sym_map[j]]
         /\ syms' = [s \in DOMAIN syms |->
               IF \E j \in Bound : sym_map[j].sym = s
               THEN [syms[s] EXCEPT !.binding = prog[i].dir] ELSE syms[s]]
         /\ Report(Cardinality(Clashing))
         /\ DOMAIN sym_map = DOMAIN prog
         /\ prog[i].dir \in BindingDirs
<1>1. DOMAIN sym_map = DOMAIN prog
  BY DEF TypeInv, SymbolsTyped
<1>2. prog[i].dir \in BindingDirs
  BY DEF Pass2Binding, IsDir
<1> QED BY <1>1, <1>2 DEF Pass2Binding, BoundTo, Named, Clashing, Bound

\* Only label items are bound.
LEMMA BoundToLabels ==
  ASSUME TypeInv, NEW k \in Named
  PROVE  /\ First(BoundTo(k)) \in BoundTo(k) /\ First(BoundTo(k)) \in DOMAIN prog
         /\ prog[First(BoundTo(k))].kind = "label"
         /\ \A j \in BoundTo(k) : First(BoundTo(k)) <= j
<1>1. BoundTo(k) # {} /\ BoundTo(k) \subseteq DOMAIN prog
  BY DEF Named, BoundTo, LabelItems
<1>2. BoundTo(k) \in SUBSET Nat
  BY <1>1 DEF TypeInv, SectionInv
<1>3. First(BoundTo(k)) \in BoundTo(k) /\ \A j \in BoundTo(k) : First(BoundTo(k)) <= j
  BY <1>1, <1>2, FirstIsFirst
<1> QED BY <1>1, <1>3 DEF BoundTo, LabelItems

LEMMA BindingTyped ==
  ASSUME TypeInv, Pass2Binding
  PROVE  /\ syms' \in Seq(Symbol) /\ Len(syms') = Len(syms)
         /\ sym_map' \in [DOMAIN prog -> [sym : 0 .. Len(syms), parent : 0 .. Len(prog),
                                          specified : BOOLEAN, binding : BindingDirs]]
<1> DEFINE n == Len(syms)
           dir == prog[i].dir
           Info == [sym : 0 .. n, parent : 0 .. Len(prog),
                    specified : BOOLEAN, binding : BindingDirs]
<1>1. /\ syms \in Seq(Symbol) /\ n \in Nat /\ DOMAIN syms = 1 .. n
      /\ sym_map \in [DOMAIN prog -> Info] /\ dir \in BindingDirs
  <2>1. syms \in Seq(Symbol) /\ sym_map \in [DOMAIN prog -> Info]
    BY DEF TypeInv, SymbolsTyped
  <2>2. dir \in BindingDirs
    BY BindingBinds
  <2> HIDE DEF Info, dir
  <2> QED BY <2>1, <2>2
<1>2. ASSUME NEW m \in Info PROVE [m EXCEPT !.specified = TRUE, !.binding = dir] \in Info
  BY <1>1
<1>3. ASSUME NEW s \in Symbol PROVE [s EXCEPT !.binding = dir] \in Symbol
  BY <1>1 DEF Symbol
<1> HIDE DEF Info, n, dir
<1>4. sym_map' \in [DOMAIN prog -> Info]
  <2> DEFINE g(j) == IF j \in Bound
                     THEN [sym_map[j] EXCEPT !.specified = TRUE, !.binding = dir]
                     ELSE sym_map[j]
  <2>1. sym_map' = [j \in DOMAIN prog |-> g(j)]
    BY BindingBinds DEF dir
  <2>2. \A j \in DOMAIN prog : g(j) \in Info
    BY <1>1, <1>2
  <2> HIDE DEF g
  <2> QED BY <2>1, <2>2
<1>5. syms' \in [1 .. n -> Symbol]
  <2> DEFINE g(s) == IF \E j \in Bound : sym_map[j].sym = s
                     THEN [syms[s] EXCEPT !.binding = dir] ELSE syms[s]
  <2>1. syms' = [s \in 1 .. n |-> g(s)]
    BY <1>1, BindingBinds DEF dir
  <2>2. \A s \in 1 .. n : syms[s] \in Symbol
    BY <1>1
  <2>3. \A s \in 1 .. n : g(s) \in Symbol
    BY <2>2, <1>3
  <2> HIDE DEF g
  <2> QED BY <2>1, <2>3
<1>6. syms' \in Seq(Symbol) /\ Len(syms') = n
  BY <1>1, <1>5
<1> QED BY <1>4, <1>6 DEF Info, n

LEMMA StepSymbols == TypeInv /\ [Next]_vars => SymbolsTyped'
<1> SUFFICES ASSUME TypeInv, [Next]_vars PROVE SymbolsTyped'
  OBVIOUS
<1> DEFINE Info(m) == [sym : 0 .. m, parent : 0 .. Len(prog),
                       specified : BOOLEAN, binding : BindingDirs]
<1>1. /\ global \in 0 .. Len(prog) /\ (global # NoItem => IsGlobalLabel(prog[global]))
      /\ syms \in Seq(Symbol) /\ Len(syms) \in Nat
      /\ sym_map \in [DOMAIN prog -> Info(Len(syms))]
  BY DEF TypeInv, SymbolsTyped
<1>2. Len(prog) \in Nat /\ NoItem \in 0 .. Len(prog)
  BY DEF TypeInv, SectionInv, NoItem
<1>3. ASSUME prog' = prog, global' \in {global, NoItem}, UNCHANGED <<syms, sym_map>>
      PROVE  SymbolsTyped'
  BY <1>1, <1>2, <1>3 DEF SymbolsTyped
<1>4. CASE Pass1Section \/ Pass1Org \/ Pass1Code
  <2>1. UNCHANGED <<prog, global, syms, sym_map>>
    BY <1>4 DEF Pass1Section, Pass1Org, Pass1Code, Place, Advance
  <2> QED BY <2>1, <1>3
<1>5. CASE EndPass1 \/ EndPass2 \/ EndPass3
  <2>1. UNCHANGED <<prog, syms, sym_map>> /\ global' \in {global, NoItem}
    BY <1>5 DEF EndPass1, EndPass2, EndPass3, StartPass
  <2> QED BY <2>1, <1>3
<1>6. CASE Pass2Section \/ Pass2Skip \/ Pass3Outside
  <2>1. UNCHANGED <<prog, global, syms, sym_map>>
    BY <1>6 DEF Pass2Section, Pass2Skip, Pass3Outside, Filled, Advance
  <2> QED BY <2>1, <1>3
<1>7. CASE Pass3Instr \/ Pass3Data \/ Pass3String \/ Pass3Pad
  <2>1. Filled
    BY <1>7, FilledActions
  <2>2. UNCHANGED <<prog, global, syms, sym_map>>
    BY <2>1 DEF Filled, Advance
  <2> QED BY <2>2, <1>3
<1>8. CASE UNCHANGED vars
  BY <1>3, <1>8 DEF vars
<1>9. ASSUME i \in DOMAIN prog, prog[i].kind = "label",
             global' = IF prog[i].is_local THEN global ELSE i
      PROVE  global' \in 0 .. Len(prog) /\ (global' # NoItem => IsGlobalLabel(prog[global']))
  <2>1. i \in 1 .. Len(prog)
    BY <1>9, ItemAt
  <2> QED BY <1>1, <1>2, <1>9, <2>1 DEF IsGlobalLabel
<1>10. CASE Pass1Label
  <2>1. i \in DOMAIN prog /\ prog[i].kind = "label" /\ UNCHANGED <<prog, syms>>
    BY <1>10 DEF Pass1Label, At, Place, Advance
  <2>2. global' = IF prog[i].is_local THEN global ELSE i
    BY <1>10 DEF Pass1Label
  <2>3. \/ sym_map' = sym_map
        \/ sym_map' = [sym_map EXCEPT ![i].parent = global]
    BY <1>10 DEF Pass1Label
  <2>4. ASSUME NEW m \in Info(Len(syms)) PROVE [m EXCEPT !.parent = global] \in Info(Len(syms))
    BY <1>1
  <2>5. sym_map' \in [DOMAIN prog -> Info(Len(syms))]
    <3> HIDE DEF Info
    <3>1. CASE sym_map' = sym_map
      BY <1>1, <3>1
    <3>2. CASE sym_map' = [sym_map EXCEPT ![i].parent = global]
      <4>1. sym_map' = [sym_map EXCEPT ![i] = [sym_map[i] EXCEPT !.parent = global]]
        BY <1>1, <2>1, <3>2
      <4>2. sym_map[i] \in Info(Len(syms))
        BY <1>1, <2>1
      <4> QED BY <1>1, <2>4, <4>1, <4>2
    <3> QED BY <2>3, <3>1, <3>2
  <2>6. global' \in 0 .. Len(prog) /\ (global' # NoItem => IsGlobalLabel(prog[global']))
    BY <1>9, <2>1, <2>2
  <2> QED BY <1>1, <2>1, <2>5, <2>6 DEF SymbolsTyped
<1>11. CASE Pass2Label
  <2>1. i \in DOMAIN prog /\ prog[i].kind = "label" /\ prog' = prog
        /\ global' = IF prog[i].is_local THEN global ELSE i
    BY <1>11 DEF Pass2Label, At, Advance
  <2>2. global' \in 0 .. Len(prog) /\ (global' # NoItem => IsGlobalLabel(prog[global']))
    BY <1>9, <2>1
  <2>3. syms' \in Seq(Symbol) /\ sym_map' \in [DOMAIN prog -> Info(Len(syms'))]
    <3> DEFINE par == IF prog[i].is_local THEN global ELSE NoItem
               bind == IF sym_map[i].specified THEN sym_map[i].binding ELSE "local"
    <3>1. /\ par \in {global, NoItem} /\ bind \in BindingDirs
          /\ IF addrs[i].section = None THEN UNCHANGED <<syms, sym_map>>
             ELSE EntersSymbol(par, bind)
      BY <1>11, LabelEntersSymbol
    <3> HIDE DEF par, bind
    <3>2. CASE addrs[i].section = None
      BY <1>1, <3>1, <3>2
    <3>3. CASE addrs[i].section # None
      BY <2>1, <3>1, <3>3, EntersTyped
    <3> QED BY <3>2, <3>3
  <2> QED BY <2>1, <2>2, <2>3 DEF SymbolsTyped
<1>12. CASE Pass2Extern
  <2>1. UNCHANGED <<prog, global, sym_map>>
    BY <1>12 DEF Pass2Extern, Advance
  <2>2. syms' \in Seq(Symbol) /\ Len(syms') \in Nat /\ Len(syms) <= Len(syms')
    BY <1>1, <1>12, ExternExtends DEF Extends
  <2>3. Info(Len(syms)) \subseteq Info(Len(syms'))
    BY <1>1, <2>2
  <2>4. sym_map' \in [DOMAIN prog -> Info(Len(syms'))]
    <3> HIDE DEF Info
    <3> QED BY <1>1, <2>1, <2>3
  <2> QED BY <1>1, <2>1, <2>2, <2>4 DEF SymbolsTyped
<1>13. CASE Pass2Binding
  <2>1. UNCHANGED <<prog, global>>
    BY <1>13 DEF Pass2Binding, Advance
  <2> QED BY <1>1, <1>13, <2>1, BindingTyped DEF SymbolsTyped
<1>14. CASE Pass3Label
  <2>1. i \in DOMAIN prog /\ prog[i].kind = "label" /\ UNCHANGED <<prog, syms, sym_map>>
        /\ global' = IF prog[i].is_local THEN global ELSE i
    BY <1>14 DEF Pass3Label, In, At, Advance
  <2>2. global' \in 0 .. Len(prog) /\ (global' # NoItem => IsGlobalLabel(prog[global']))
    BY <1>9, <2>1
  <2> QED BY <1>1, <2>1, <2>2 DEF SymbolsTyped
<1> QED BY <1>4, <1>5, <1>6, <1>7, <1>8, <1>10, <1>11, <1>12, <1>13, <1>14 DEF Next

-----------------------------------------------------------------------------
(* Types of relocations and reports *)

\* What pass 3 finds for a label operand of the item at hand.
SymOf(k) == FindSymbol(prog[i].operands[k].name, prog[i].operands[k].is_local)

NewReloc(k, distance) ==
  [section |-> addrs[i].section, offset |-> addrs[i].offset + distance[k],
   sym |-> SymOf(k), type |-> "abs", item |-> i, operand |-> k]

FoundIn(labels) == {k \in labels : SymOf(k) # None}

LEMMA FindSymbolType ==
  ASSUME TypeInv, NEW name, NEW is_local
  PROVE  FindSymbol(name, is_local) \in 0 .. Len(syms)
<1> DEFINE items == LabelItems(name, is_local)
           named == {s \in DOMAIN syms : syms[s].name = <<name>>}
<1>1. syms \in Seq(Symbol) /\ Len(syms) \in Nat /\ DOMAIN syms = 1 .. Len(syms)
  BY DEF TypeInv, SymbolsTyped
<1>2. \A j \in DOMAIN prog : sym_map[j].sym \in 0 .. Len(syms)
  BY DEF TypeInv, SymbolsTyped
<1>3. items # {} => First(items) \in DOMAIN prog
  <2>1. items \subseteq DOMAIN prog
    BY DEF LabelItems
  <2>2. items \in SUBSET Nat
    BY <2>1 DEF TypeInv, SectionInv
  <2> HIDE DEF items
  <2> QED BY <2>1, <2>2, FirstIsFirst
<1>4. named # {} => First(named) \in 1 .. Len(syms)
  <2>1. named \in SUBSET (1 .. Len(syms)) /\ named \in SUBSET Nat
    BY <1>1
  <2> HIDE DEF named
  <2> QED BY <2>1, FirstIsFirst
<1>5. FindSymbol(name, is_local) = IF items # {} THEN sym_map[First(items)].sym
                                   ELSE IF named # {} THEN First(named) ELSE None
  BY DEF FindSymbol
<1> HIDE DEF items, named
<1>6. None \in 0 .. Len(syms) /\ 1 .. Len(syms) \subseteq 0 .. Len(syms)
  BY <1>1 DEF None
<1> QED BY <1>2, <1>3, <1>4, <1>5, <1>6

LEMMA FillFacts ==
  ASSUME TypeInv, i \in DOMAIN prog, prog[i].kind # "label", addrs[i].section # None,
         NEW trytes, NEW labels \in SUBSET LabelIndices(prog[i]), NEW distance,
         \A k \in labels : distance[k] \in Nat,
         Fill(trytes, labels, distance)
  PROVE  LET known == FoundIn(labels)
             n == Cardinality(known)
         IN  /\ relocs' \in Seq(Reloc) /\ n \in Nat
             /\ Extends(relocs', relocs, n, [r \in 1 .. n |-> NewReloc(Nth(known, r), distance)])
             /\ \A r \in 1 .. n : Nth(known, r) \in known
             /\ \A k \in known : \E r \in 1 .. n : Nth(known, r) = k
             /\ Report(Cardinality(labels \ known)) /\ Cardinality(labels \ known) \in Nat
             /\ labels # known => Cardinality(labels \ known) > 0
<1> DEFINE known == FoundIn(labels)
           n == Cardinality(known)
           f == [r \in 1 .. n |-> NewReloc(Nth(known, r), distance)]
<1>1. relocs' = relocs \o f /\ Report(Cardinality(labels \ known))
  BY DEF Fill, FoundIn, SymOf, NewReloc
<1>2. /\ prog[i].operands \in Seq(Operand)
      /\ DOMAIN prog[i].operands = 1 .. Len(prog[i].operands)
      /\ i \in 1 .. Len(prog)
  BY ItemAt
<1>3. labels \in SUBSET DOMAIN prog[i].operands /\ labels \in SUBSET Nat
  BY <1>2 DEF LabelIndices
<1>4. known \subseteq labels
  BY DEF FoundIn
<1>5. IsFiniteSet(known) /\ n \in Nat /\ Cardinality(labels \ known) \in Nat
      /\ IsFiniteSet(labels \ known) /\ known \in SUBSET Nat
  BY <1>2, <1>3, <1>4, CountOfOperands
<1>6. labels # known => Cardinality(labels \ known) > 0
  <2>1. labels # known => labels \ known # {}
    BY <1>4
  <2> HIDE DEF known
  <2> QED BY <1>5, <2>1, FS_EmptySet
<1>7. \A k \in known : NewReloc(k, distance) \in Reloc
  <2> SUFFICES ASSUME NEW k \in known PROVE NewReloc(k, distance) \in Reloc
    OBVIOUS
  <2>1. addrs[i] \in [section : 0 .. Len(ends), offset : Nat] /\ Len(ends) \in Nat
        /\ Len(syms) \in Nat /\ Len(prog) \in Nat
    BY DEF TypeInv, PlacesTyped, SymbolsTyped, SectionInv
  <2>2. addrs[i].section \in Nat /\ addrs[i].offset \in Nat /\ distance[k] \in Nat /\ k \in Nat
    <3>1. addrs[i].section \in Nat /\ addrs[i].offset \in Nat
      BY <2>1
    <3>2. k \in labels
      BY <1>4
    <3> HIDE DEF known
    <3> QED BY <1>3, <3>1, <3>2
  <2>3. SymOf(k) \in Nat
    <3>1. SymOf(k) \in 0 .. Len(syms)
      BY FindSymbolType DEF SymOf
    <3> QED BY <2>1, <3>1
  <2>4. addrs[i].offset + distance[k] \in Nat /\ i \in Nat
    BY <1>2, <2>2
  <2> QED BY <2>2, <2>3, <2>4 DEF NewReloc, Reloc
<1> HIDE DEF known, n
<1>8. \A r \in 1 .. n : Nth(known, r) \in known
  BY <1>5, NthIsIn DEF n
<1>9. \A k \in known : \E r \in 1 .. n : Nth(known, r) = k
  BY <1>5, EachIsNth DEF n
<1>10. f \in [1 .. n -> Reloc]
  BY <1>7, <1>8
<1>11. relocs \in Seq(Reloc)
  BY DEF TypeInv, RelocsTyped
<1>12. relocs' \in Seq(Reloc) /\ Extends(relocs', relocs, n, f)
  <2> HIDE DEF f
  <2> QED BY <1>1, <1>5, <1>10, <1>11, ConcatExtends
<1> QED BY <1>1, <1>5, <1>6, <1>8, <1>9, <1>12 DEF known, n

\* The label operands of the item at hand for which a symbol is found get
\* relocations behind the earlier ones; the others are reported.
Relocates(labels, distance) ==
  /\ relocs' \in Seq(Reloc)
  /\ \A r \in DOMAIN relocs : r \in DOMAIN relocs' /\ relocs'[r] = relocs[r]
  /\ \A r \in DOMAIN relocs' :
       \/ r \in DOMAIN relocs
       \/ \E k \in labels : SymOf(k) # None /\ relocs'[r] = NewReloc(k, distance)
  /\ \A k \in labels : SymOf(k) # None =>
       \E r \in DOMAIN relocs' : relocs'[r] = NewReloc(k, distance)
  /\ \E n \in Nat : Report(n) /\ ((\E k \in labels : SymOf(k) = None) => n > 0)

LEMMA FillRelocates ==
  ASSUME TypeInv, i \in DOMAIN prog, prog[i].kind # "label", addrs[i].section # None,
         NEW trytes, NEW labels \in SUBSET LabelIndices(prog[i]), NEW distance,
         \A k \in labels : distance[k] \in Nat,
         Fill(trytes, labels, distance)
  PROVE  Relocates(labels, distance)
<1> DEFINE known == FoundIn(labels)
           n == Cardinality(known)
           f == [r \in 1 .. n |-> NewReloc(Nth(known, r), distance)]
<1>1. /\ relocs' \in Seq(Reloc) /\ n \in Nat
      /\ Extends(relocs', relocs, n, f)
      /\ \A r \in 1 .. n : Nth(known, r) \in known
      /\ \A k \in known : \E r \in 1 .. n : Nth(known, r) = k
      /\ Report(Cardinality(labels \ known)) /\ Cardinality(labels \ known) \in Nat
      /\ labels # known => Cardinality(labels \ known) > 0
  BY FillFacts
<1>2. \A k \in labels : k \in known <=> SymOf(k) # None
  BY DEF FoundIn
<1>3. known \subseteq labels
  BY DEF FoundIn
<1> HIDE DEF known, n
<1>4. ASSUME NEW r \in DOMAIN relocs', r \notin DOMAIN relocs
      PROVE  \E k \in labels : SymOf(k) # None /\ relocs'[r] = NewReloc(k, distance)
  <2>1. PICK y \in 1 .. n : r = Len(relocs) + y
    BY <1>1, <1>4 DEF Extends
  <2>2. relocs'[r] = f[y]
    BY <1>1, <2>1 DEF Extends
  <2>3. f[y] = NewReloc(Nth(known, y), distance)
    OBVIOUS
  <2> QED BY <1>1, <1>2, <1>3, <2>2, <2>3
<1>5. ASSUME NEW k \in labels, SymOf(k) # None
      PROVE  \E r \in DOMAIN relocs' : relocs'[r] = NewReloc(k, distance)
  <2>1. PICK y \in 1 .. n : Nth(known, y) = k
    BY <1>1, <1>2, <1>5
  <2>2. Len(relocs) + y \in DOMAIN relocs' /\ relocs'[Len(relocs) + y] = f[y]
    BY <1>1 DEF Extends
  <2>3. f[y] = NewReloc(k, distance)
    BY <2>1
  <2> QED BY <2>2, <2>3
<1>6. \E m \in Nat : Report(m) /\ ((\E k \in labels : SymOf(k) = None) => m > 0)
  BY <1>1, <1>2
<1>7. \A r \in DOMAIN relocs : r \in DOMAIN relocs' /\ relocs'[r] = relocs[r]
  BY <1>1 DEF Extends
<1> QED BY <1>1, <1>4, <1>5, <1>6, <1>7 DEF Relocates

\* The items whose label operands are to be relocated.
Relocating(item) == (item.kind = "instr" /\ IsValid(item)) \/ IsDir(item, DataDirs)

\* Where in an item the trytes of its k-th operand are.
Distance(item, k) ==
  IF item.kind = "instr" THEN ImmOffset(item) ELSE (k - 1) * ElementSize(item.dir)

\* What a valid instruction with a label operand has in its field is that label.
LEMMA LabelResolves ==
  ASSUME NEW instr \in InstrItem, IsValid(instr), LabelIndices(instr) # {}
  PROVE  IsLabel(ImmOperand(instr))
<1> DEFINE ops == instr.operands
           others == {k \in DOMAIN ops : ~IsReg(ops[k])}
<1>1. \/ others = {} /\ ImmOperand(instr) = NoOperand
      \/ \E k \in DOMAIN ops : others = {k} /\ ImmOperand(instr) = ops[k]
  BY OnlyOneIsNoRegister
<1>2. PICK l \in DOMAIN ops : IsLabel(ops[l])
  BY DEF LabelIndices
<1>3. l \in others
  BY <1>2 DEF IsLabel, IsReg
<1> HIDE DEF others, ops
<1>4. ImmOperand(instr) = ops[l]
  BY <1>1, <1>3
<1> QED BY <1>2, <1>4

LEMMA PassThreeFills ==
  ASSUME TypeInv, Pass3Instr \/ Pass3Data \/ Pass3Pad
  PROVE  \/ /\ UNCHANGED <<relocs, diags, error_count>>
            /\ Relocating(prog[i]) => LabelIndices(prog[i]) = {}
         \/ \E distance : \E labels \in SUBSET LabelIndices(prog[i]) :
              /\ Relocates(labels, distance)
              /\ Relocating(prog[i]) => labels = LabelIndices(prog[i])
              /\ \A k \in labels : Relocating(prog[i]) /\ distance[k] = Distance(prog[i], k)
<1>0. /\ i \in DOMAIN prog /\ addrs[i].section # None
      /\ prog[i].kind \in {"instr", "directive"} /\ prog[i].kind # "label"
  BY FilledActions DEF At
<1> DEFINE Goal == \E distance : \E labels \in SUBSET LabelIndices(prog[i]) :
                      /\ Relocates(labels, distance)
                      /\ Relocating(prog[i]) => labels = LabelIndices(prog[i])
                      /\ \A k \in labels :
                           Relocating(prog[i]) /\ distance[k] = Distance(prog[i], k)
<1>4. ASSUME NEW trytes, NEW distance, NEW labels \in SUBSET LabelIndices(prog[i]),
             \A k \in labels : distance[k] \in Nat,
             Fill(trytes, labels, distance),
             Relocating(prog[i]) => labels = LabelIndices(prog[i]),
             \A k \in labels : Relocating(prog[i]) /\ distance[k] = Distance(prog[i], k)
      PROVE  Goal
  <2>1. Relocates(labels, distance)
    BY <1>0, <1>4, FillRelocates
  <2> QED BY <1>4, <2>1
<1>1. CASE Pass3Instr
  <2>1. prog[i] \in InstrItem /\ prog[i].kind = "instr"
    <3>1. prog[i].kind = "instr"
      BY <1>1 DEF Pass3Instr, In
    <3> QED BY <1>0, <3>1, ItemAt, ItemFacts
  <2> DEFINE op == ImmOperand(prog[i])
             resolves == op = NoOperand \/ IsImm(op) \/ IsLabel(op)
             distance == [k \in DOMAIN prog[i].operands |-> ImmOffset(prog[i])]
  <2>2. CASE IsValid(prog[i]) /\ resolves
    <3>1. \E trytes : Fill(trytes, LabelIndices(prog[i]), distance)
      BY <1>1, <2>2 DEF Pass3Instr
    <3>2. ImmOffset(prog[i]) \in Nat
      BY DEF ImmOffset, HEADER_SIZE
    <3>3. \A k \in LabelIndices(prog[i]) : distance[k] \in Nat
      BY <3>2 DEF LabelIndices
    <3>4. \A k \in LabelIndices(prog[i]) :
            Relocating(prog[i]) /\ distance[k] = Distance(prog[i], k)
      BY <2>1, <2>2 DEF LabelIndices, Relocating, Distance
    <3> HIDE DEF distance, Goal
    <3> QED BY <3>1, <3>3, <3>4, <1>4 DEF Goal
  <2>3. CASE ~(IsValid(prog[i]) /\ resolves)
    <3>1. UNCHANGED <<relocs, diags, error_count>>
      BY <1>1, <2>3 DEF Pass3Instr
    <3>2. ASSUME Relocating(prog[i]) PROVE LabelIndices(prog[i]) = {}
      <4>1. IsValid(prog[i]) /\ ~IsLabel(op)
        BY <2>1, <2>3, <3>2 DEF Relocating, IsDir
      <4> HIDE DEF op
      <4> QED BY <2>1, <4>1, LabelResolves DEF op
    <3> QED BY <3>1, <3>2
  <2> QED BY <2>2, <2>3
<1>2. CASE Pass3Data
  <2> DEFINE n == ElementSize(prog[i].dir)
             distance == [k \in DOMAIN prog[i].operands |-> (k - 1) * n]
  <2>1. /\ prog[i].dir \in DataDirs
        /\ \E trytes : Fill(trytes, LabelIndices(prog[i]), distance)
    BY <1>2 DEF Pass3Data
  <2>2. n \in {1, 2, 4, 8}
    BY <2>1, ElementSizeType
  <2>3. DOMAIN prog[i].operands = 1 .. Len(prog[i].operands) /\ Len(prog[i].operands) \in Nat
    BY <1>0, ItemAt
  <2>4. \A k \in DOMAIN prog[i].operands : distance[k] \in Nat
    <3> HIDE DEF n
    <3>1. \A k \in DOMAIN prog[i].operands : k - 1 \in Nat
      BY <2>3
    <3>2. \A k \in DOMAIN prog[i].operands : (k - 1) * n \in Nat
      BY <2>2, <3>1
    <3> QED BY <3>2
  <2>5. \A k \in LabelIndices(prog[i]) : distance[k] \in Nat
    BY <2>4 DEF LabelIndices
  <2>6. Relocating(prog[i]) /\ prog[i].kind = "directive"
    BY <1>2 DEF Pass3Data, In, Relocating, IsDir
  <2>7. \A k \in LabelIndices(prog[i]) : distance[k] = Distance(prog[i], k)
    BY <2>6 DEF LabelIndices, Distance
  <2> HIDE DEF distance, Goal
  <2> QED BY <2>1, <2>5, <2>6, <2>7, <1>4 DEF Goal
<1>3. CASE Pass3Pad
  <2>1. /\ prog[i].kind = "directive" /\ prog[i].dir \notin DataDirs
        /\ Fill(<<>>, {}, <<>>)
    BY <1>3 DEF Pass3Pad, In
  <2>2. ~Relocating(prog[i])
    BY <2>1 DEF Relocating, IsDir
  <2> HIDE DEF Goal
  <2> QED BY <2>1, <2>2, <1>4 DEF Goal
<1> QED BY <1>1, <1>2, <1>3

LEMMA StepRelocs == TypeInv /\ [Next]_vars => RelocsTyped'
<1> SUFFICES ASSUME TypeInv, [Next]_vars PROVE RelocsTyped'
  OBVIOUS
<1>1. /\ relocs \in Seq(Reloc) /\ (phase \notin {"pass3", "done"} => relocs = <<>>)
      /\ \A r \in DOMAIN relocs : /\ relocs[r].section \in 1 .. Len(ends)
                                  /\ relocs[r].sym \in 1 .. Len(syms)
      /\ Len(syms) \in Nat /\ Len(ends) \in Nat
  BY DEF TypeInv, RelocsTyped, SymbolsTyped, PlacesTyped
<1>2. CASE Pass1Section \/ Pass1Label \/ Pass1Org \/ Pass1Code
  <2>1. phase = "pass1" /\ phase' = phase /\ relocs' = relocs
    BY <1>2 DEF Pass1Section, Pass1Label, Pass1Org, Pass1Code, Place, Advance, At
  <2>2. relocs' = <<>>
    BY <1>1, <2>1
  <2> QED BY <2>1, <2>2 DEF RelocsTyped
<1>3. CASE Pass2Section \/ Pass2Label \/ Pass2Extern \/ Pass2Binding \/ Pass2Skip
  <2>1. phase = "pass2" /\ phase' = phase /\ relocs' = relocs
    BY <1>3 DEF Pass2Section, Pass2Label, Pass2Extern, Pass2Binding, Pass2Skip, Advance, At
  <2>2. relocs' = <<>>
    BY <1>1, <2>1
  <2> QED BY <2>1, <2>2 DEF RelocsTyped
<1>4. CASE EndPass1 \/ EndPass2
  <2>1. phase \in {"pass1", "pass2"} /\ relocs' = relocs
    BY <1>4 DEF EndPass1, EndPass2, StartPass
  <2>2. relocs' = <<>>
    BY <1>1, <2>1
  <2> QED BY <2>2 DEF RelocsTyped
<1>5. ASSUME phase = "pass3", UNCHANGED <<relocs, syms, ends>>, phase' \in {"pass3", "done"}
      PROVE  RelocsTyped'
  BY <1>1, <1>5 DEF RelocsTyped
<1>6. CASE Pass3Outside \/ Pass3Label \/ Pass3String \/ EndPass3
  <2>1. phase = "pass3" /\ UNCHANGED <<relocs, syms, ends>> /\ phase' \in {"pass3", "done"}
    BY <1>6 DEF Pass3Outside, Pass3Label, Pass3String, EndPass3, Filled, Advance, In, At, pass1vars
  <2> QED BY <2>1, <1>5
<1>7. CASE Pass3Instr \/ Pass3Data \/ Pass3Pad
  <2>1. Filled /\ At("pass3") /\ addrs[i].section # None /\ prog[i].kind # "label"
    BY <1>7, FilledActions
  <2>2. /\ phase = "pass3" /\ phase' = phase /\ UNCHANGED <<syms, ends>> /\ i \in DOMAIN prog
    BY <2>1 DEF Filled, Advance, At, pass1vars
  <2>3. addrs[i].section \in 1 .. Len(ends)
    BY <2>1, <2>2 DEF TypeInv, PlacesTyped, None
  <2>4. CASE relocs' = relocs
    BY <1>5, <2>2, <2>4
  <2>5. ASSUME NEW distance, NEW labels \in SUBSET LabelIndices(prog[i]),
               Relocates(labels, distance)
        PROVE  RelocsTyped'
    <3>1. /\ relocs' \in Seq(Reloc)
          /\ \A r \in DOMAIN relocs : r \in DOMAIN relocs' /\ relocs'[r] = relocs[r]
          /\ \A r \in DOMAIN relocs' :
               \/ r \in DOMAIN relocs
               \/ \E k \in labels : SymOf(k) # None /\ relocs'[r] = NewReloc(k, distance)
      BY <2>5 DEF Relocates
    <3>2. ASSUME NEW k \in labels, SymOf(k) # None
          PROVE  /\ NewReloc(k, distance).section \in 1 .. Len(ends)
                 /\ NewReloc(k, distance).sym \in 1 .. Len(syms)
      <4>1. SymOf(k) \in 0 .. Len(syms)
        BY FindSymbolType DEF SymOf
      <4>2. SymOf(k) \in 1 .. Len(syms)
        BY <1>1, <3>2, <4>1 DEF None
      <4> QED BY <2>3, <4>2 DEF NewReloc
    <3>3. ASSUME NEW r \in DOMAIN relocs'
          PROVE  relocs'[r].section \in 1 .. Len(ends) /\ relocs'[r].sym \in 1 .. Len(syms)
      BY <1>1, <3>1, <3>2
    <3> QED BY <2>2, <3>1, <3>3 DEF RelocsTyped
  <2> QED BY <1>7, <2>4, <2>5, PassThreeFills
<1>8. CASE UNCHANGED vars
  <2>1. UNCHANGED <<relocs, syms, ends, phase>>
    BY <1>8 DEF vars, pass1vars
  <2> QED BY <1>1, <2>1 DEF RelocsTyped
<1> QED BY <1>2, <1>3, <1>4, <1>6, <1>7, <1>8 DEF Next

LEMMA Pass1ErrorsType ==
  ASSUME TypeInv, i \in DOMAIN prog, prog[i].kind # "label"
  PROVE  Pass1Errors(prog[i]) \in Nat
<1>1. prog[i].operands \in Seq(Operand)
  BY ItemAt
<1>2. BadStrings(prog[i]) \in SUBSET DOMAIN prog[i].operands
  BY DEF BadStrings
<1>3. NonLabels(prog[i]) \in SUBSET DOMAIN prog[i].operands
  BY DEF NonLabels
<1>4. Cardinality(BadStrings(prog[i])) \in Nat /\ Cardinality(NonLabels(prog[i])) \in Nat
  BY <1>1, <1>2, <1>3, CountOfOperands
<1>5. OutsideErrors \in Nat
  BY DEF OutsideErrors
<1> QED BY <1>4, <1>5 DEF Pass1Errors

\* What a step may do to the reports: an item is at hand, and some are added to its.
Reporting ==
  /\ prog' = prog /\ phase' # "failed"
  /\ \/ UNCHANGED <<diags, error_count>>
     \/ i \in DOMAIN prog /\ \E n \in Nat : Report(n)

LEMMA StepReporting == TypeInv /\ [Next]_vars => Reporting
<1> SUFFICES ASSUME TypeInv, [Next]_vars PROVE Reporting
  OBVIOUS
<1>1. error_count = 0 /\ phase # "failed"
  BY DEF TypeInv, ReportsTyped
<1>2. ASSUME UNCHANGED <<prog, diags, error_count>>, phase' # "failed" PROVE Reporting
  BY <1>2 DEF Reporting
<1>0. ASSUME i \in DOMAIN prog, UNCHANGED <<prog, phase>>, NEW n \in Nat, Report(n) PROVE Reporting
  BY <1>0, <1>1 DEF Reporting
<1>3. CASE Pass1Section \/ Pass1Label
  <2>1. UNCHANGED <<prog, phase, diags, error_count>>
    BY <1>3 DEF Pass1Section, Pass1Label, Place, Advance
  <2> QED BY <1>1, <1>2, <2>1
<1>4. CASE Pass1Org
  <2>1. i \in DOMAIN prog /\ UNCHANGED <<prog, phase>>
    BY <1>4 DEF Pass1Org, At, Place, Advance
  <2>2. Report(OutsideErrors) \/ Report(OutsideErrors + 1)
    BY <1>4 DEF Pass1Org
  <2>3. OutsideErrors \in Nat /\ OutsideErrors + 1 \in Nat
    BY DEF OutsideErrors
  <2> QED BY <2>1, <2>2, <2>3, <1>0
<1>5. CASE Pass1Code
  <2>1. i \in DOMAIN prog /\ UNCHANGED <<prog, phase>> /\ Report(Pass1Errors(prog[i]))
    BY <1>5 DEF Pass1Code, At, Place, Advance
  <2>2. prog[i].kind # "label"
    BY <1>5 DEF Pass1Code, IsDir
  <2> QED BY <2>1, <2>2, Pass1ErrorsType, <1>0
<1>6. CASE EndPass1 \/ EndPass2 \/ EndPass3
  <2>1. UNCHANGED <<prog, diags, error_count>> /\ phase' # "failed"
    BY <1>1, <1>6 DEF EndPass1, EndPass2, EndPass3, StartPass
  <2> QED BY <1>2, <2>1
<1>7. CASE Pass2Section \/ Pass2Extern \/ Pass2Skip \/ Pass3Outside \/ Pass3Label
  <2>1. UNCHANGED <<prog, phase, diags, error_count>>
    BY <1>7 DEF Pass2Section, Pass2Extern, Pass2Skip, Pass3Outside, Pass3Label, Filled, Advance
  <2> QED BY <1>1, <1>2, <2>1
<1>8. CASE Pass2Label
  <2>1. i \in DOMAIN prog /\ UNCHANGED <<prog, phase>> /\ (Report(1) \/ Report(0))
    BY <1>8 DEF Pass2Label, At, Advance
  <2> QED BY <2>1, <1>0
<1>9. CASE Pass2Binding
  <2>1. i \in DOMAIN prog /\ UNCHANGED <<prog, phase>> /\ prog[i].kind # "label"
    BY <1>9 DEF Pass2Binding, At, IsDir, Advance
  <2>2. Clashing \in SUBSET DOMAIN prog[i].operands
    BY DEF Clashing, Named, LabelIndices
  <2>3. prog[i].operands \in Seq(Operand)
    BY <2>1, ItemAt
  <2>4. Cardinality(Clashing) \in Nat
    BY <2>2, <2>3, CountOfOperands
  <2> QED BY <1>9, <2>1, <2>4, BindingBinds, <1>0
<1>10. CASE Pass3Instr \/ Pass3Data \/ Pass3Pad
  <2>1. i \in DOMAIN prog /\ UNCHANGED <<prog, phase>>
    BY <1>10, FilledActions DEF Filled, At, Advance
  <2>2. \/ UNCHANGED <<diags, error_count>>
        \/ \E n \in Nat : Report(n)
    BY <1>10, PassThreeFills DEF Relocates
  <2> QED BY <1>1, <1>2, <2>1, <2>2, <1>0
<1>11. CASE Pass3String
  <2>1. i \in DOMAIN prog /\ UNCHANGED <<prog, phase>>
    BY <1>11, FilledActions DEF Filled, At, Advance
  <2>2. Report(0) \/ Report(1)
    BY <1>11 DEF Pass3String
  <2> QED BY <2>1, <2>2, <1>0
<1>12. CASE UNCHANGED vars
  BY <1>1, <1>2, <1>12 DEF vars
<1> QED BY <1>3, <1>4, <1>5, <1>6, <1>7, <1>8, <1>9, <1>10, <1>11, <1>12 DEF Next

\* No error is counted, so pass 1 is always followed by pass 2.
LEMMA StepReports == TypeInv /\ [Next]_vars => ReportsTyped'
<1> SUFFICES ASSUME TypeInv, Reporting PROVE ReportsTyped'
  BY StepReporting
<1>1. diags \in [DOMAIN prog -> Nat] /\ error_count = 0
  BY DEF TypeInv, ReportsTyped
<1>2. ASSUME i \in DOMAIN prog, NEW n \in Nat, Report(n)
      PROVE  diags' \in [DOMAIN prog -> Nat] /\ error_count' = 0
  <2>1. diags' = [diags EXCEPT ![i] = @ + n] /\ error_count' = error_count + 0
    BY <1>2 DEF Report, Counted
  <2>2. diags[i] + n \in Nat
    BY <1>1, <1>2
  <2>3. diags' = [diags EXCEPT ![i] = diags[i] + n]
    BY <1>1, <2>1
  <2>4. diags' \in [DOMAIN prog -> Nat]
    BY <1>1, <2>2, <2>3
  <2>5. error_count' = 0
    BY <1>1, <2>1
  <2> QED BY <2>4, <2>5
<1> QED BY <1>1, <1>2 DEF Reporting, ReportsTyped

\* What has been reported stays so.
LEMMA ReportsStay ==
  ASSUME TypeInv, [Next]_vars, NEW j \in DOMAIN prog, diags[j] > 0
  PROVE  diags'[j] > 0
<1>1. Reporting /\ diags \in [DOMAIN prog -> Nat]
  BY StepReporting DEF TypeInv, ReportsTyped
<1>2. ASSUME NEW n \in Nat, Report(n) PROVE diags'[j] = diags[j] \/ diags'[j] = diags[j] + n
  BY <1>1, <1>2 DEF Report
<1> QED BY <1>1, <1>2 DEF Reporting

LEMMA StepTypeInv == TypeInv /\ [Next]_vars => TypeInv'
BY StepSections, StepPlaces, StepSymbols, StepRelocs, StepReports DEF TypeInv

\* In pass 3 every section that was placed has been entered, and no other one.
LEMMA EnteredAll ==
  ASSUME TypeInv
  PROVE  /\ Len(secs) \in Nat /\ Len(secs) <= Len(ends)
         /\ phase \in {"pass3", "done"} => 1 .. Len(ends) \subseteq DOMAIN secs
<1>1. /\ Len(ends) \in Nat /\ Len(prog) \in Nat /\ i \in 1 .. Len(prog) + 1
      /\ phase \in {"pass1", "pass2", "pass3", "done"}
  BY DEF TypeInv, SectionInv, PlacesTyped, ReportsTyped
<1>2. CASE phase = "pass1"
  <2>1. secs = <<>>
    BY <1>2 DEF TypeInv, SectionInv
  <2>2. Len(secs) = 0
    BY <2>1
  <2> QED BY <1>1, <1>2, <2>2
<1>3. ASSUME NEW n \in 0 .. Len(prog), Entered(prog, sec_map, n, secs),
             Numbering(prog, sec_map, Len(prog), Len(ends))
      PROVE  Len(secs) \in Nat /\ Len(secs) <= Len(ends)
  <2>1. Len(secs) \in Nat /\ DOMAIN secs = 1 .. Len(secs)
    BY <1>3 DEF Entered, AreSections, IsSequence
  <2>2. \A k \in SectionsUpTo(prog, n) : sec_map[k] \in 1 .. Len(ends)
    <3>1. SectionsUpTo(prog, n) \subseteq SectionsUpTo(prog, Len(prog))
      BY <1>1 DEF SectionsUpTo
    <3> QED BY <1>3, <3>1 DEF Numbering
  <2>3. \A x \in 1 .. Len(secs) : x \in 1 .. Len(ends)
    BY <1>3, <2>1, <2>2 DEF Entered
  <2> QED BY <1>1, <2>1, <2>3
<1>4. CASE phase = "pass2"
  <2>1. i - 1 \in 0 .. Len(prog)
    BY <1>1
  <2>2. Entered(prog, sec_map, i - 1, secs) /\ Numbering(prog, sec_map, Len(prog), Len(ends))
    BY <1>4 DEF TypeInv, SectionInv
  <2> QED BY <1>3, <1>4, <2>1, <2>2
<1>5. CASE phase \in {"pass3", "done"}
  <2>1. Entered(prog, sec_map, Len(prog), secs) /\ Numbering(prog, sec_map, Len(prog), Len(ends))
    BY <1>5 DEF TypeInv, SectionInv
  <2>2. Len(prog) \in 0 .. Len(prog)
    BY <1>1
  <2>3. ASSUME NEW x \in 1 .. Len(ends) PROVE x \in DOMAIN secs
    BY <2>1 DEF Numbering, Entered
  <2> QED BY <1>3, <2>1, <2>2, <2>3
<1> QED BY <1>1, <1>2, <1>4, <1>5

LEMMA InvTypeOK == TypeInv => TypeOK
<1> SUFFICES ASSUME TypeInv PROVE TypeOK
  OBVIOUS
<1>1. /\ prog \in Seq(Item) /\ i \in 1 .. Len(prog) + 1
      /\ phase \in {"pass1", "pass2", "pass3", "done", "failed"}
  BY DEF TypeInv, SectionInv
<1>2. /\ section \in 0 .. Len(ends) /\ offset \in Nat /\ ends \in Seq(Nat)
      /\ sec_map \in [DOMAIN prog -> 0 .. Len(ends)]
  BY DEF TypeInv, PlacesTyped
<1>3. addrs \in [DOMAIN prog -> Placement]
  <2>1. addrs \in [DOMAIN prog -> [section : 0 .. Len(ends), offset : Nat]] /\ Len(ends) \in Nat
    BY DEF TypeInv, PlacesTyped
  <2>2. [section : 0 .. Len(ends), offset : Nat] \subseteq Placement
    BY <2>1 DEF Placement
  <2> QED BY <2>1, <2>2
<1>4. /\ global \in 0 .. Len(prog) /\ syms \in Seq(Symbol)
      /\ sym_map \in [DOMAIN prog -> [sym : 0 .. Len(syms), parent : 0 .. Len(prog),
                                      specified : BOOLEAN, binding : BindingDirs]]
  BY DEF TypeInv, SymbolsTyped
<1>5. Len(secs) <= Len(ends)
  BY EnteredAll
<1>6. relocs \in Seq(Reloc)
  BY DEF TypeInv, RelocsTyped
<1>7. ASSUME NEW r \in DOMAIN relocs
      PROVE  relocs[r].section \in DOMAIN secs /\ relocs[r].sym \in DOMAIN syms
  <2>1. relocs[r].section \in 1 .. Len(ends) /\ relocs[r].sym \in 1 .. Len(syms)
    BY DEF TypeInv, RelocsTyped
  <2>2. phase \in {"pass3", "done"}
    <3>1. phase \notin {"pass3", "done"} => relocs = <<>>
      BY DEF TypeInv, RelocsTyped
    <3> QED BY <3>1
  <2> QED BY <1>4, <2>1, <2>2, EnteredAll
<1>8. diags \in [DOMAIN prog -> Nat] /\ error_count \in Nat
  BY DEF TypeInv, ReportsTyped
<1> HIDE DEF TypeInv
<1> QED BY <1>1, <1>2, <1>3, <1>4, <1>5, <1>6, <1>7, <1>8 DEF TypeOK

LEMMA SpecTypeInv == Spec => []TypeInv
BY InitTypeInv, StepTypeInv, PTL DEF Spec

\* The three passes keep the tables of the back end in their bounds: every
\* place lies in a section that was counted, every relocation is of a section
\* that exists and to a symbol that exists.
THEOREM TObjTypeOK == Spec => []TypeOK
BY SpecTypeInv, InvTypeOK, PTL

-----------------------------------------------------------------------------
(* Layout *)

\* Where the space of an item ends.
EndOf(j) == addrs[j].offset + ItemSize(prog[j])

\* The first n items lie one after another in their sections.
LaidOut(n) ==
  \A j, k \in 1 .. n :
    j < k /\ addrs[j].section = addrs[k].section /\ addrs[j].section # None =>
      EndOf(j) <= addrs[k].offset

\* Pass 1 knows where each section has got to, whichever it is in: at the end
\* of its last item.
Measured ==
  /\ section # None => offset = ends[section]
  /\ \A j \in 1 .. i - 1 : addrs[j].section # None => EndOf(j) <= ends[addrs[j].section]
  /\ LaidOut(i - 1)

\* Pass 3 has not filled a section beyond any item that is still to come.
NotBeyond ==
  \A j \in i .. Len(prog) :
    addrs[j].section # None => Len(secs[addrs[j].section].data) <= addrs[j].offset

LayoutInv ==
  /\ prog \in Programs
  /\ \A x \in DOMAIN secs : IsSequence(secs[x].data)
  /\ phase = "pass2" => \A x \in DOMAIN secs : secs[x].data = <<>>
  /\ ~HasOrg =>
       /\ phase = "pass1" => Measured
       /\ phase \in {"pass2", "pass3"} => LaidOut(Len(prog))
       /\ phase = "pass3" => NotBeyond

\* What SectionsOnlyGrow says of a section's data d that becomes e.
Grows(d, e) == SubSeq(e, 1, Len(d)) = d

LEMMA PrefixGrows ==
  ASSUME NEW d, IsSequence(d), NEW e, \A x \in 1 .. Len(d) : e[x] = d[x]
  PROVE  Grows(d, e)
<1> DEFINE n == Len(d)
           S == {d[x] : x \in 1 .. n}
<1>1. n \in Nat /\ d = [x \in 1 .. n |-> d[x]]
  BY DEF IsSequence
<1>2. \A x \in 1 .. n : d[x] \in S
  OBVIOUS
<1>3. d \in Seq(S)
  <2> HIDE DEF n, S
  <2>1. [x \in 1 .. n |-> d[x]] \in Seq(S)
    BY <1>1, <1>2
  <2> QED BY <1>1, <2>1, Zenon
<1>4. \A x \in 1 .. n : e[x] \in S
  BY <1>2
<1> HIDE DEF S
<1>5. /\ SubSeq(e, 1, n) \in Seq(S)
      /\ Len(SubSeq(e, 1, n)) = IF 1 <= n THEN n - 1 + 1 ELSE 0
      /\ \A x \in 1 .. n - 1 + 1 : SubSeq(e, 1, n)[x] = e[1 + x - 1]
  BY <1>1, <1>4, SubSeqProperties, 1 \in Int, n \in Int
<1>6. Len(SubSeq(e, 1, n)) = n /\ \A x \in 1 .. n : SubSeq(e, 1, n)[x] = d[x]
  BY <1>1, <1>5
<1>7. SubSeq(e, 1, n) = d
  <2> DEFINE sub == SubSeq(e, 1, n)
  <2> HIDE DEF sub, n
  <2>1. sub \in Seq(S) /\ Len(sub) = n /\ \A x \in 1 .. n : sub[x] = d[x]
    BY <1>5, <1>6 DEF sub
  <2>2. sub = [x \in 1 .. n |-> sub[x]]
    BY <2>1
  <2>3. [x \in 1 .. n |-> sub[x]] = [x \in 1 .. n |-> d[x]]
    BY <2>1
  <2> QED BY <1>1, <2>2, <2>3 DEF sub
<1> QED BY <1>7 DEF Grows

\* Writing pads a section up to an offset, and writes from there on.
LEMMA WriteIs ==
  ASSUME NEW data, IsSequence(data), NEW at \in Nat, NEW trytes, Len(trytes) \in Nat
  PROVE  /\ IsSequence(Write(data, at, trytes))
         /\ Len(data) <= at => /\ Len(Write(data, at, trytes)) = at + Len(trytes)
                               /\ Grows(data, Write(data, at, trytes))
<1> DEFINE end == at + Len(trytes)
           n == IF Len(data) > end THEN Len(data) ELSE end
           w == Write(data, at, trytes)
           f(x) == IF at < x /\ x <= end THEN trytes[x - at]
                   ELSE IF x <= Len(data) THEN data[x] ELSE [pad |-> 0]
<1>1. Len(data) \in Nat /\ end \in Nat /\ n \in Nat /\ at <= end
  BY DEF IsSequence
<1>2. w = [x \in 1 .. n |-> f(x)]
  BY DEF Write
<1> HIDE DEF w
<1>3. w = [x \in 1 .. n |-> w[x]]
  BY <1>2
<1>4. IsSequence(w) /\ Len(w) = n
  <2> HIDE DEF n
  <2> QED BY <1>1, <1>3, FunctionIsSequence
<1>5. ASSUME Len(data) <= at PROVE Len(w) = end /\ Grows(data, w)
  <2>1. n = end
    BY <1>1, <1>5
  <2>2. ASSUME NEW x \in 1 .. Len(data) PROVE w[x] = data[x]
    <3>1. x \in 1 .. n /\ ~(at < x) /\ x <= Len(data)
      BY <1>1, <1>5
    <3>2. f(x) = data[x]
      BY <3>1
    <3> HIDE DEF n
    <3> QED BY <1>2, <3>1, <3>2
  <2> QED BY <1>4, <2>1, <2>2, PrefixGrows
<1> QED BY <1>4, <1>5 DEF w

\* The strings that are written over one another end where the longest does,
\* not after the space of all.
LEMMA CoveredFits ==
  ASSUME NEW ops \in Seq(Operand), NEW n \in 0 .. Len(ops),
         \A k \in 1 .. n : ops[k].kind = "str" /\ ops[k].good
  PROVE  LET covered == UNION {1 .. Len(ops[k].chars) : k \in 1 .. n}
         IN  /\ Cardinality(covered) \in Nat
             /\ Cardinality(covered) <= StringStart(ops, Len(ops) + 1)
<1> DEFINE covered == UNION {1 .. Len(ops[k].chars) : k \in 1 .. n}
           all == UNION {{j} \X (1 .. CharCount(ops[j])) : j \in 1 .. (n + 1) - 1}
           f == [p \in all |-> p[2]]
<1>1. n \in Nat /\ n + 1 \in 1 .. Len(ops) + 1 /\ (n + 1) - 1 = n
  OBVIOUS
<1>2. IsFiniteSet(all) /\ StringStart(ops, n + 1) = Cardinality(all)
  BY <1>1, StringCharsFinite DEF StringStart
<1>3. \A k \in 1 .. n : CharCount(ops[k]) = Len(ops[k].chars)
  BY DEF CharCount
<1>4. f \in Surjection(all, covered)
  <2>1. ASSUME NEW p \in all PROVE p[2] \in covered
    <3>1. PICK j \in 1 .. n : p \in {j} \X (1 .. CharCount(ops[j]))
      BY <1>1
    <3>2. p[2] \in 1 .. Len(ops[j].chars)
      BY <1>3, <3>1
    <3> QED BY <3>2
  <2>2. ASSUME NEW c \in covered PROVE \E p \in all : f[p] = c
    <3>1. PICK k \in 1 .. n : c \in 1 .. Len(ops[k].chars)
      OBVIOUS
    <3>2. <<k, c>> \in {k} \X (1 .. CharCount(ops[k]))
      BY <1>3, <3>1
    <3>3. <<k, c>> \in all
      BY <1>1, <3>2
    <3>4. f[<<k, c>>] = c
      BY <3>3
    <3> QED BY <3>3, <3>4
  <2> HIDE DEF all, covered
  <2>3. f \in [all -> covered]
    BY <2>1
  <2> QED BY <2>2, <2>3 DEF Surjection
<1> HIDE DEF all, covered, f
<1>5. IsFiniteSet(covered) /\ Cardinality(covered) <= Cardinality(all)
  BY <1>2, <1>4, FS_Surjection
<1>6. Cardinality(covered) \in Nat /\ Cardinality(all) \in Nat
  BY <1>2, <1>5, FS_CardinalityType
<1>7. StringStart(ops, n + 1) <= StringStart(ops, Len(ops) + 1)
  BY <1>1, StringStartMonotone
<1>8. StringStart(ops, Len(ops) + 1) \in Nat
  BY StringStartType
<1> QED BY <1>2, <1>5, <1>6, <1>7, <1>8 DEF covered

\* How many operands of a %string come before the first that does not decode,
\* how many trytes these cover, and what is left of them, one over another.
StringEnd(item) ==
  IF BadStrings(item) = {} THEN Len(item.operands) ELSE First(BadStrings(item)) - 1

Covered(item) == UNION {1 .. Len(item.operands[k].chars) : k \in 1 .. StringEnd(item)}

LastString(item, c) ==
  CHOOSE k \in 1 .. StringEnd(item) :
    /\ c <= Len(item.operands[k].chars)
    /\ \A l \in k + 1 .. StringEnd(item) : Len(item.operands[l].chars) < c

StringsWritten(item) ==
  [c \in 1 .. Cardinality(Covered(item)) |->
     [val |-> item.operands[LastString(item, c)].chars[c], k |-> 1]]

\* An instruction's field is filled from this operand, and with this value.
Resolves(op) == op = NoOperand \/ IsImm(op) \/ IsLabel(op)

FieldValue(op) == IF op = NoOperand THEN StepImmediate ELSE IF IsImm(op) THEN op.val ELSE 0

\* What pass 3 writes for an item.
Written(item) ==
  CASE item.kind = "instr" ->
         IF IsValid(item) /\ Resolves(ImmOperand(item))
         THEN Encoding(item, FieldValue(ImmOperand(item))) ELSE <<>>
    [] IsDir(item, DataDirs) -> DataWords(item)
    [] IsDir(item, {"string"}) -> StringsWritten(item)
    [] OTHER -> <<>>

\* No branch of pass 3 writes more than pass 1 has reserved.
LEMMA WrittenFits ==
  ASSUME NEW item \in Item,
         IsDir(item, {"string"}) =>
           \A k \in DOMAIN item.operands : item.operands[k].kind = "str"
  PROVE  IsSequence(Written(item)) /\ Len(Written(item)) <= ItemSize(item)
<1>1. ItemSize(item) \in Nat
  BY ItemSizeType
<1>2. CASE item.kind = "instr"
  <2>1. item \in InstrItem /\ ItemSize(item) = InstrSize(item)
    BY <1>2, ItemFacts DEF ItemSize
  <2>2. Written(item) = IF IsValid(item) /\ Resolves(ImmOperand(item))
                        THEN Encoding(item, FieldValue(ImmOperand(item))) ELSE <<>>
    BY <1>2 DEF Written, IsDir
  <2>3. ASSUME IsValid(item), NEW val
        PROVE  IsSequence(Encoding(item, val)) /\ Len(Encoding(item, val)) = InstrSize(item)
    <3>1. PICK S : Encoding(item, val) \in Seq(S)
      BY <2>1, <2>3, EncodingLength
    <3>2. Len(Encoding(item, val)) = InstrSize(item)
      BY <2>1, <2>3, EncodingLength
    <3>3. \A e \in Seq(S) : Len(e) \in Nat /\ e = [x \in 1 .. Len(e) |-> e[x]]
      OBVIOUS
    <3> QED BY <3>1, <3>2, <3>3 DEF IsSequence
  <2> QED BY <1>1, <2>1, <2>2, <2>3, EmptyIsSequence
<1>3. CASE IsDir(item, DataDirs)
  <2> DEFINE n == ElementSize(item.dir) * Len(item.operands)
  <2>1. Written(item) = DataWords(item) /\ ItemSize(item) = n
    BY <1>3 DEF Written, IsDir, ItemSize, DirSize, DataDirs
  <2>2. DataWords(item) = [c \in 1 .. n |-> DataWords(item)[c]]
    BY DEF DataWords
  <2> HIDE DEF n
  <2>3. IsSequence(DataWords(item)) /\ Len(DataWords(item)) = n
    BY <1>1, <2>1, <2>2, FunctionIsSequence
  <2> QED BY <1>1, <2>1, <2>3
<1>4. CASE IsDir(item, {"string"})
  <2> DEFINE ops == item.operands
             bad == BadStrings(item)
             n   == StringEnd(item)
  <2>1. /\ Written(item) = StringsWritten(item)
        /\ ItemSize(item) = StringStart(ops, Len(ops) + 1)
    BY <1>4 DEF Written, IsDir, DataDirs, ItemSize, DirSize
  <2>2. ops \in Seq(Operand) /\ DOMAIN ops = 1 .. Len(ops) /\ Len(ops) \in Nat
    <3>1. ops \in Seq(Operand)
      BY <1>4, ItemFacts DEF IsDir
    <3> QED BY <3>1
  <2>3. n \in 0 .. Len(ops) /\ \A k \in 1 .. n : ops[k].good
    <3>1. CASE bad = {}
      BY <2>2, <3>1 DEF BadStrings, StringEnd
    <3>2. CASE bad # {}
      <4>1. bad \in SUBSET Nat /\ bad \in SUBSET DOMAIN ops
        BY <2>2 DEF BadStrings
      <4>2. First(bad) \in bad /\ \A k \in bad : First(bad) <= k
        <5> HIDE DEF bad
        <5> QED BY <3>2, <4>1, FirstIsFirst
      <4>3. \A k \in DOMAIN ops : k \notin bad => ops[k].good
        BY DEF BadStrings
      <4>4. n = First(bad) - 1
        BY <3>2 DEF StringEnd
      <4> HIDE DEF bad, ops, n
      <4>5. First(bad) \in 1 .. Len(ops)
        BY <2>2, <4>1, <4>2
      <4>6. ASSUME NEW k \in 1 .. n PROVE ops[k].good
        <5>1. k \in DOMAIN ops /\ k < First(bad)
          BY <2>2, <4>4, <4>5
        <5>2. k \notin bad
          BY <4>2, <4>5, <5>1
        <5> QED BY <4>3, <5>1, <5>2
      <4> QED BY <2>2, <4>4, <4>5, <4>6
    <3> QED BY <3>1, <3>2
  <2>4. \A k \in 1 .. n : ops[k].kind = "str"
    BY <1>4, <2>2, <2>3
  <2>5. /\ Cardinality(Covered(item)) \in Nat
        /\ Cardinality(Covered(item)) <= StringStart(ops, Len(ops) + 1)
    <3>1. Covered(item) = UNION {1 .. Len(ops[k].chars) : k \in 1 .. n}
      BY DEF Covered
    <3> HIDE DEF n, ops, bad
    <3> QED BY <2>2, <2>3, <2>4, <3>1, CoveredFits
  <2>6. StringsWritten(item) = [c \in 1 .. Cardinality(Covered(item)) |-> StringsWritten(item)[c]]
    BY DEF StringsWritten
  <2> QED BY <2>1, <2>5, <2>6, FunctionIsSequence
<1>5. CASE item.kind # "instr" /\ ~IsDir(item, DataDirs) /\ ~IsDir(item, {"string"})
  <2>1. Written(item) = <<>>
    BY <1>5 DEF Written
  <2> QED BY <1>1, <2>1, EmptyIsSequence
<1> QED BY <1>2, <1>3, <1>4, <1>5

\* The item at hand writes these trytes at its place.
Writes(trytes) ==
  secs' = [secs EXCEPT ![addrs[i].section].data =
             Write(secs[addrs[i].section].data, addrs[i].offset, trytes)]

\* They take no more than the space pass 1 has reserved for it.
Fits(trytes) == Len(trytes) \in Nat /\ Len(trytes) <= ItemSize(prog[i])

\* Operands of a %string are strings.
LEMMA StringsAreStrings ==
  ASSUME prog \in Programs, NEW j \in DOMAIN prog
  PROVE  IsDir(prog[j], {"string"}) =>
           \A k \in DOMAIN prog[j].operands : prog[j].operands[k].kind = "str"
BY TObjAssumption DEF IsDir

\* What any branch of pass 3 writes fits its item.
LEMMA FilledFits ==
  ASSUME TypeInv, prog \in Programs, Pass3Instr \/ Pass3Data \/ Pass3String \/ Pass3Pad
  PROVE  \/ secs' = secs /\ Written(prog[i]) = <<>>
         \/ Writes(Written(prog[i])) /\ Fits(Written(prog[i]))
<1>1. i \in DOMAIN prog /\ prog[i].kind \in {"instr", "directive"} /\ prog[i].kind # "label"
  BY FilledActions DEF At
<1>2. Fits(Written(prog[i]))
  <2>1. prog[i] \in Item
    BY <1>1, ItemAt
  <2>2. IsSequence(Written(prog[i])) /\ Len(Written(prog[i])) <= ItemSize(prog[i])
    BY <1>1, <2>1, StringsAreStrings, WrittenFits
  <2> QED BY <2>2 DEF Fits, IsSequence
<1>3. ASSUME NEW trytes, NEW labels, NEW distance, Fill(trytes, labels, distance)
      PROVE  Writes(trytes)
  BY <1>3 DEF Fill, Writes
<1>4. CASE Pass3Instr
  <2> DEFINE op == ImmOperand(prog[i])
  <2>1. prog[i].kind = "instr"
    BY <1>4 DEF Pass3Instr, In
  <2>2. CASE IsValid(prog[i]) /\ Resolves(op)
    <3>1. \E labels, distance : Fill(Encoding(prog[i], FieldValue(op)), labels, distance)
      BY <1>4, <2>2 DEF Pass3Instr, Resolves, FieldValue
    <3>2. Written(prog[i]) = Encoding(prog[i], FieldValue(op))
      BY <2>1, <2>2 DEF Written, IsDir
    <3> QED BY <1>2, <1>3, <3>1, <3>2
  <2>3. CASE ~(IsValid(prog[i]) /\ Resolves(op))
    <3>1. secs' = secs
      BY <1>4, <2>3 DEF Pass3Instr, Resolves
    <3>2. Written(prog[i]) = <<>>
      BY <2>1, <2>3 DEF Written, IsDir
    <3> QED BY <3>1, <3>2
  <2> QED BY <2>2, <2>3
<1>5. CASE Pass3Data
  <2>1. /\ IsDir(prog[i], DataDirs) /\ prog[i].kind # "instr"
        /\ \E labels, distance : Fill(DataWords(prog[i]), labels, distance)
    BY <1>5 DEF Pass3Data, In, IsDir
  <2>2. Written(prog[i]) = DataWords(prog[i])
    BY <2>1 DEF Written, IsDir, DataDirs
  <2> QED BY <1>2, <1>3, <2>1, <2>2
<1>6. CASE Pass3String
  <2>1. /\ prog[i].kind = "directive" /\ prog[i].dir = "string"
        /\ Writes(StringsWritten(prog[i]))
    BY <1>6 DEF Pass3String, In, Writes, StringsWritten, LastString, Covered, StringEnd
  <2>2. Written(prog[i]) = StringsWritten(prog[i])
    BY <2>1 DEF Written, IsDir, DataDirs
  <2> QED BY <1>2, <2>1, <2>2
<1>7. CASE Pass3Pad
  <2>1. Writes(<<>>)
    BY <1>3, <1>7 DEF Pass3Pad
  <2>2. Written(prog[i]) = <<>>
    BY <1>7 DEF Pass3Pad, In, Written, IsDir
  <2> QED BY <1>2, <2>1, <2>2
<1> QED BY <1>4, <1>5, <1>6, <1>7

\* A write changes the data of one section, and without %org extends it up to
\* where the item ends.
LEMMA WritesGrow ==
  ASSUME TypeInv, LayoutInv, phase = "pass3", i \in DOMAIN prog, addrs[i].section # None,
         NEW trytes, Writes(trytes), Fits(trytes)
  PROVE  /\ DOMAIN secs' = DOMAIN secs /\ addrs[i].section \in DOMAIN secs
         /\ \A x \in DOMAIN secs : IsSequence(secs'[x].data)
         /\ \A x \in DOMAIN secs : x # addrs[i].section => secs'[x].data = secs[x].data
         /\ secs'[addrs[i].section].data =
              Write(secs[addrs[i].section].data, addrs[i].offset, trytes)
         /\ ~HasOrg => /\ Len(secs'[addrs[i].section].data) <= EndOf(i)
                       /\ Grows(secs[addrs[i].section].data, secs'[addrs[i].section].data)
<1> DEFINE s == addrs[i].section
           at == addrs[i].offset
           d == secs[s].data
           w == Write(d, at, trytes)
<1>1. s \in DOMAIN secs /\ at \in Nat /\ i \in 1 .. Len(prog) /\ Len(prog) \in Nat
  <2>1. addrs[i] \in [section : 0 .. Len(ends), offset : Nat] /\ Len(ends) \in Nat
    BY DEF TypeInv, PlacesTyped
  <2>2. s \in 1 .. Len(ends) /\ at \in Nat
    BY <2>1 DEF None
  <2> QED BY <2>2, EnteredAll, ItemAt
<1>2. \A x \in DOMAIN secs : secs[x] = [name |-> secs[x].name, data |-> secs[x].data]
  BY DEF TypeInv, SectionInv, Entered, AreSections
<1>3. secs' = [secs EXCEPT ![s].data = w]
  BY DEF Writes
<1>4. IsSequence(d) /\ Len(trytes) \in Nat /\ Len(d) \in Nat
  BY <1>1 DEF LayoutInv, Fits, IsSequence
<1>5. /\ IsSequence(w)
      /\ Len(d) <= at => Len(w) = at + Len(trytes) /\ Grows(d, w)
  <2> HIDE DEF d, at
  <2> QED BY <1>1, <1>4, WriteIs
<1>6. ~HasOrg => Len(d) <= at
  BY <1>1 DEF LayoutInv, NotBeyond
<1>7. Len(trytes) <= ItemSize(prog[i]) /\ ItemSize(prog[i]) \in Nat
  BY ItemAt, ItemSizeType DEF Fits
<1>8. ~HasOrg => Len(w) <= EndOf(i)
  <2> HIDE DEF w, d
  <2> QED BY <1>1, <1>4, <1>5, <1>6, <1>7 DEF EndOf
<1>9. DOMAIN secs' = DOMAIN secs /\ secs'[s].data = w
      /\ \A x \in DOMAIN secs : x # s => secs'[x].data = secs[x].data
  <2> HIDE DEF w, s
  <2>1. secs'[s] = [secs[s] EXCEPT !.data = w]
    BY <1>1, <1>3
  <2>2. secs'[s].data = w
    BY <1>1, <1>2, <2>1
  <2> QED BY <1>3, <2>2
<1>10. \A x \in DOMAIN secs : IsSequence(secs'[x].data)
  BY <1>1, <1>5, <1>9 DEF LayoutInv
<1>11. secs'[s].data = Write(d, at, trytes)
  BY <1>9
<1> HIDE DEF w
<1> QED BY <1>1, <1>5, <1>6, <1>8, <1>9, <1>10, <1>11

LEMMA InitLayout == Init => LayoutInv
<1> SUFFICES ASSUME Init PROVE LayoutInv
  OBVIOUS
<1>1. prog \in Programs /\ secs = <<>> /\ phase = "pass1" /\ i = 1 /\ section = None
  BY DEF Init
<1>2. DOMAIN secs = {} /\ 1 .. i - 1 = {}
  BY <1>1
<1>3. Measured
  BY <1>1, <1>2 DEF Measured, LaidOut
<1> QED BY <1>1, <1>2, <1>3 DEF LayoutInv

\* A turn of pass 1 that is no %org puts its item where its section has got to.
LEMMA PlaceLayout ==
  ASSUME TypeInv, LayoutInv, At("pass1"),
         NEW sec \in 0 .. Len(ends) + 1, NEW at \in Nat, NEW next \in Nat,
         Place(sec, at, next), next = at + ItemSize(prog[i]),
         sec # None => at = LeftOff(sec)
  PROVE  LayoutInv'
<1>1. /\ i \in 1 .. Len(prog) /\ Len(prog) \in Nat /\ phase = "pass1" /\ secs = <<>>
      /\ DOMAIN prog = 1 .. Len(prog) /\ ItemSize(prog[i]) \in Nat
  BY ItemAt, ItemSizeType DEF At, TypeInv, SectionInv
<1>2. /\ UNCHANGED <<prog, phase, secs>> /\ i' = i + 1 /\ section' = sec /\ offset' = next
      /\ addrs' = [addrs EXCEPT ![i] = [section |-> sec, offset |-> at]]
  BY DEF Place, Advance
<1>3. /\ addrs \in [DOMAIN prog -> [section : 0 .. Len(ends), offset : Nat]]
      /\ ends \in Seq(Nat) /\ Len(ends) \in Nat /\ DOMAIN ends = 1 .. Len(ends)
  BY DEF TypeInv, PlacesTyped
<1>4. /\ addrs'[i].section = sec /\ addrs'[i].offset = at
      /\ \A j \in DOMAIN prog : j # i => addrs'[j] = addrs[j]
  BY <1>1, <1>2, <1>3
<1>5. ASSUME sec # None
      PROVE  /\ ends'[sec] = next
             /\ \A s \in DOMAIN ends : s # sec => ends'[s] = ends[s]
             /\ sec \in DOMAIN ends => at = ends[sec]
  <2>1. ends' = [s \in DOMAIN ends \union {sec} |-> IF s = sec THEN next ELSE ends[s]]
    BY <1>5 DEF Place
  <2> QED BY <2>1, <1>5 DEF LeftOff
<1>6. ASSUME sec = None PROVE ends' = ends
  BY <1>6 DEF Place
<1>7. ASSUME Measured PROVE Measured'
  <2> DEFINE E(j) == addrs[j].offset + ItemSize(prog[j])
             F(j) == addrs'[j].offset + ItemSize(prog[j])
             n == i - 1
  <2>0. n \in Nat /\ i' - 1 = i /\ 1 .. n \subseteq DOMAIN prog /\ i \notin 1 .. n
        /\ \A j \in 1 .. i : j \in 1 .. n \/ j = i
    BY <1>1, <1>2
  <2>1. \A j \in 1 .. n : /\ addrs'[j] = addrs[j] /\ F(j) = E(j)
                          /\ addrs[j].section \in 0 .. Len(ends)
                          /\ E(j) \in Nat /\ addrs[j].offset \in Nat
    <3> SUFFICES ASSUME NEW j \in 1 .. n
                 PROVE  /\ addrs'[j] = addrs[j] /\ F(j) = E(j)
                        /\ addrs[j].section \in 0 .. Len(ends)
                        /\ E(j) \in Nat /\ addrs[j].offset \in Nat
      OBVIOUS
    <3>1. j \in DOMAIN prog /\ j # i
      BY <2>0
    <3>2. addrs'[j] = addrs[j] /\ addrs[j] \in [section : 0 .. Len(ends), offset : Nat]
      BY <1>3, <1>4, <3>1
    <3>3. prog[j] \in Item
      BY <3>1 DEF TypeInv, SectionInv
    <3>4. ItemSize(prog[j]) \in Nat
      BY <3>3, ItemSizeType
    <3> QED BY <3>2, <3>4
  <2>2. F(i) = next
    BY <1>4
  <2>3. \A j \in 1 .. n : addrs[j].section # None => E(j) <= ends[addrs[j].section]
    BY <1>7 DEF Measured, EndOf
  <2>4. \A j, k \in 1 .. n : j < k /\ addrs[j].section = addrs[k].section /\ addrs[j].section # None
                              => E(j) <= addrs[k].offset
    BY <1>7 DEF Measured, LaidOut, EndOf
  <2>5. at <= next /\ next <= next
    BY <1>1
  <2> HIDE DEF E, F, n
  <2>6. ASSUME NEW j \in 1 .. i, addrs'[j].section # None
        PROVE  F(j) <= ends'[addrs'[j].section]
    <3>1. CASE j = i
      BY <1>4, <1>5, <2>2, <2>5, <2>6, <3>1
    <3>2. CASE j \in 1 .. n
      <4> DEFINE s == addrs[j].section
      <4>1. s \in 1 .. Len(ends) /\ addrs'[j].section = s /\ F(j) = E(j) /\ E(j) <= ends[s]
            /\ E(j) \in Nat
        BY <2>1, <2>3, <2>6, <3>2 DEF None
      <4>2. CASE s = sec
        <5>1. at = ends[s] /\ ends'[s] = next /\ sec # None
          BY <1>3, <1>5, <2>6, <4>1, <4>2
        <5> QED BY <2>5, <4>1, <5>1
      <4>3. CASE s # sec
        <5>1. ends'[s] = ends[s]
          BY <1>3, <1>5, <1>6, <4>1, <4>3
        <5> QED BY <4>1, <5>1
      <4> QED BY <4>2, <4>3
    <3> QED BY <2>0, <3>1, <3>2
  <2>7. ASSUME NEW j \in 1 .. i, NEW k \in 1 .. i, j < k,
               addrs'[j].section = addrs'[k].section, addrs'[j].section # None
        PROVE  F(j) <= addrs'[k].offset
    <3>1. j \in 1 .. n
      BY <1>1, <2>7 DEF n
    <3>2. CASE k = i
      <4>1. addrs[j].section = sec /\ sec # None /\ sec \in DOMAIN ends
        <5>1. addrs'[j] = addrs[j] /\ addrs[j].section \in 0 .. Len(ends)
          BY <2>1, <3>1
        <5>2. addrs[j].section = sec /\ sec # None
          BY <1>4, <2>7, <3>2, <5>1
        <5> QED BY <1>3, <5>1, <5>2 DEF None
      <4> QED BY <1>4, <1>5, <2>1, <2>3, <3>1, <3>2, <4>1
    <3>3. CASE k \in 1 .. n
      BY <2>1, <2>4, <2>7, <3>1, <3>3
    <3> QED BY <2>0, <3>2, <3>3
  <2>8. sec # None => next = ends'[sec]
    BY <1>5
  <2> QED BY <1>2, <2>0, <2>6, <2>7, <2>8 DEF Measured, LaidOut, EndOf, F
<1>8. HasOrg' <=> HasOrg
  BY <1>2 DEF HasOrg
<1> QED BY <1>1, <1>2, <1>7, <1>8 DEF LayoutInv

LEMMA PassOneLayout ==
  ASSUME TypeInv, LayoutInv, Pass1Section \/ Pass1Label \/ Pass1Code
  PROVE  LayoutInv'
<1>1. At("pass1") /\ i \in DOMAIN prog
  BY DEF Pass1Section, Pass1Label, Pass1Code, At
<1>2. /\ section \in 0 .. Len(ends) /\ offset \in Nat /\ ends \in Seq(Nat) /\ Len(ends) \in Nat
      /\ ItemSize(prog[i]) \in Nat
  BY <1>1, ItemAt, ItemSizeType DEF TypeInv, PlacesTyped
<1>3. section \in 0 .. Len(ends) + 1
  BY <1>2
<1>4. CASE Pass1Section
  <2> DEFINE s  == NamedSection
             at == LeftOff(NamedSection)
  <2>1. IsSection(i) /\ Place(s, at, at)
    BY <1>4 DEF Pass1Section
  <2>2. s \in 0 .. Len(ends) + 1 /\ at \in Nat
    BY <1>1, <1>2, <2>1, NamedSectionIs DEF TypeInv, LeftOff, At
  <2>3. ItemSize(prog[i]) = 0
    BY <2>1 DEF IsSection, IsDir, ItemSize, DirSize, DataDirs
  <2>4. at = at + ItemSize(prog[i])
    BY <2>2, <2>3
  <2>5. s # None => at = LeftOff(s)
    OBVIOUS
  <2> HIDE DEF s, at
  <2> QED BY <1>1, <2>1, <2>2, <2>4, <2>5, PlaceLayout
<1>5. ASSUME ~HasOrg PROVE section # None => offset = LeftOff(section)
  <2>1. section # None => offset = ends[section] /\ section \in DOMAIN ends
    BY <1>1, <1>2, <1>5 DEF LayoutInv, Measured, At, None
  <2> QED BY <2>1 DEF LeftOff
<1>6. ASSUME Place(section, offset, offset + ItemSize(prog[i])) PROVE LayoutInv'
  <2>1. CASE ~HasOrg
    <3> DEFINE next == offset + ItemSize(prog[i])
    <3>1. next \in Nat /\ next = offset + ItemSize(prog[i]) /\ Place(section, offset, next)
      BY <1>2, <1>6
    <3> HIDE DEF next
    <3> QED BY <1>1, <1>2, <1>3, <1>5, <2>1, <3>1, PlaceLayout
  <2>2. CASE HasOrg
    <3>1. UNCHANGED <<prog, phase, secs>> /\ phase = "pass1"
      BY <1>1, <1>6 DEF Place, Advance, At
    <3>2. HasOrg'
      BY <2>2, <3>1 DEF HasOrg
    <3> QED BY <3>1, <3>2 DEF LayoutInv
  <2> QED BY <2>1, <2>2
<1>7. CASE Pass1Label
  <2>1. ItemSize(prog[i]) = 0 /\ Place(section, offset, offset)
    BY <1>7 DEF Pass1Label, ItemSize
  <2>2. offset = offset + ItemSize(prog[i])
    BY <1>2, <2>1
  <2> QED BY <1>6, <2>1, <2>2
<1>8. CASE Pass1Code
  BY <1>6, <1>8 DEF Pass1Code
<1> QED BY <1>4, <1>7, <1>8

\* A step that writes data fills a section up to its item, and so no further
\* than the items still to come.
LEMMA PassThreeLayout ==
  ASSUME TypeInv, LayoutInv, phase = "pass3", i \in DOMAIN prog, addrs[i].section # None,
         Advance, UNCHANGED addrs, NEW trytes, Writes(trytes), Fits(trytes)
  PROVE  LayoutInv'
<1>1. /\ i \in 1 .. Len(prog) /\ Len(prog) \in Nat /\ DOMAIN prog = 1 .. Len(prog)
  BY ItemAt
<1>2. UNCHANGED <<prog, phase>> /\ i' = i + 1
  BY DEF Advance
<1> DEFINE s == addrs[i].section
<1>3. /\ DOMAIN secs' = DOMAIN secs /\ s \in DOMAIN secs
      /\ \A x \in DOMAIN secs : IsSequence(secs'[x].data)
      /\ \A x \in DOMAIN secs : x # s => secs'[x].data = secs[x].data
      /\ ~HasOrg => Len(secs'[s].data) <= EndOf(i)
  BY WritesGrow
<1>4. ASSUME ~HasOrg, NEW j \in i + 1 .. Len(prog), addrs[j].section # None
      PROVE  Len(secs'[addrs[j].section].data) <= addrs[j].offset
  <2>1. j \in i .. Len(prog) /\ j \in 1 .. Len(prog) /\ i < j
    BY <1>1
  <2>2. addrs[j] \in [section : 0 .. Len(ends), offset : Nat] /\ Len(ends) \in Nat
        /\ addrs[i].offset \in Nat
    BY <1>1, <2>1, SMTT(30) DEF TypeInv, PlacesTyped
  <2>3. addrs[j].section \in DOMAIN secs /\ addrs[j].offset \in Nat
    <3>1. addrs[j].section \in 1 .. Len(ends)
      BY <1>4, <2>2 DEF None
    <3> QED BY <2>2, <3>1, EnteredAll
  <2>4. CASE addrs[j].section = s
    <3>1. EndOf(i) <= addrs[j].offset
      BY <1>1, <1>4, <2>1, <2>4 DEF LayoutInv, LaidOut
    <3>2. EndOf(i) \in Nat
      BY <2>2, ItemAt, ItemSizeType DEF EndOf
    <3>3. Len(secs'[s].data) \in Nat
      BY <1>3 DEF IsSequence
    <3> QED BY <1>3, <1>4, <2>3, <2>4, <3>1, <3>2, <3>3
  <2>5. CASE addrs[j].section # s
    <3>1. secs'[addrs[j].section].data = secs[addrs[j].section].data
      BY <1>3, <2>3, <2>5
    <3> QED BY <1>4, <2>1, <3>1 DEF LayoutInv, NotBeyond
  <2> QED BY <2>4, <2>5
<1>5. ~HasOrg => NotBeyond'
  BY <1>2, <1>4 DEF NotBeyond
<1>6. ~HasOrg => LaidOut(Len(prog))'
  BY <1>2 DEF LayoutInv, LaidOut, EndOf
<1>7. HasOrg' <=> HasOrg
  BY <1>2 DEF HasOrg
<1> QED BY <1>2, <1>3, <1>5, <1>6, <1>7 DEF LayoutInv

LEMMA StepLayout == TypeInv /\ LayoutInv /\ [Next]_vars => LayoutInv'
<1> SUFFICES ASSUME TypeInv, LayoutInv, [Next]_vars PROVE LayoutInv'
  OBVIOUS
<1>1. /\ prog \in Programs /\ phase # "failed" /\ i \in 1 .. Len(prog) + 1 /\ Len(prog) \in Nat
      /\ phase = "pass1" => secs = <<>>
  BY DEF TypeInv, SectionInv, ReportsTyped, LayoutInv
<1>2. CASE Pass1Section \/ Pass1Label \/ Pass1Code
  BY <1>2, PassOneLayout
<1>3. CASE Pass1Org
  <2>1. HasOrg /\ UNCHANGED <<prog, phase, secs>> /\ phase = "pass1"
    BY <1>3 DEF Pass1Org, At, HasOrg, Place, Advance
  <2>2. HasOrg'
    BY <2>1 DEF HasOrg
  <2> QED BY <2>1, <2>2 DEF LayoutInv
<1>4. CASE EndPass1
  <2>1. /\ UNCHANGED <<prog, secs, addrs>> /\ phase = "pass1" /\ secs = <<>>
        /\ i = Len(prog) + 1 /\ phase' \in {"failed", "pass2"}
    BY <1>1, <1>4 DEF EndPass1, StartPass, pass1vars
  <2>2. i - 1 = Len(prog)
    BY <1>1, <2>1
  <2>3. ~HasOrg => LaidOut(Len(prog))
    BY <2>1, <2>2 DEF LayoutInv, Measured
  <2>4. ~HasOrg => LaidOut(Len(prog))'
    BY <2>1, <2>3 DEF LaidOut, EndOf
  <2>5. HasOrg' <=> HasOrg
    BY <2>1 DEF HasOrg
  <2>6. DOMAIN secs' = {}
    BY <2>1
  <2> QED BY <1>1, <2>1, <2>4, <2>5, <2>6 DEF LayoutInv
<1>5. ASSUME UNCHANGED <<prog, addrs, ends>>, phase = "pass2", phase' \in {"pass2", "pass3"},
             \A x \in DOMAIN secs' : secs'[x].data = <<>>,
             phase' = "pass3" => secs' = secs
      PROVE  LayoutInv'
  <2>1. ~HasOrg => LaidOut(Len(prog))'
    BY <1>5 DEF LayoutInv, LaidOut, EndOf
  <2>2. HasOrg' <=> HasOrg
    BY <1>5 DEF HasOrg
  <2>3. \A x \in DOMAIN secs' : IsSequence(secs'[x].data)
    BY <1>5, EmptyIsSequence
  <2>4. phase' = "pass3" => NotBeyond'
    <3> SUFFICES ASSUME phase' = "pass3", NEW j \in (i .. Len(prog))', addrs[j].section # None
                 PROVE  Len(secs[addrs[j].section].data) <= addrs[j].offset
      BY <1>5 DEF NotBeyond
    <3>0. i' \in 1 .. Len(prog) + 1
      BY <1>5, StepSections DEF TypeInv, SectionInv
    <3>1. j \in 1 .. Len(prog) /\ j \in DOMAIN prog
      BY <1>1, <1>5, <3>0 DEF TypeInv, SectionInv
    <3>2. addrs[j] \in [section : 0 .. Len(ends), offset : Nat] /\ Len(ends) \in Nat
      BY <3>1 DEF TypeInv, PlacesTyped
    <3>3. addrs[j].section \in 1 .. Len(ends) /\ addrs[j].offset \in Nat
      BY <3>2 DEF None
    <3>4. addrs[j].section \in DOMAIN secs
      <4>1. TypeInv'
        BY StepTypeInv
      <4>2. Entered(prog, sec_map, Len(prog), secs)' /\ Numbering(prog, sec_map, Len(prog), Len(ends))'
        BY <4>1 DEF TypeInv, SectionInv
      <4>3. UNCHANGED <<ends, secs>>
        BY <1>5
      <4> QED BY <3>3, <4>2, <4>3 DEF Numbering, Entered
    <3>5. secs[addrs[j].section].data = <<>>
      BY <1>5, <3>4
    <3> QED BY <3>3, <3>5
  <2> QED BY <1>1, <1>5, <2>1, <2>2, <2>3, <2>4 DEF LayoutInv
<1>6. CASE Pass2Section
  <2>1. /\ UNCHANGED <<prog, addrs, ends, phase>> /\ phase = "pass2"
        /\ \/ secs' = secs
           \/ secs' = Append(secs, [name |-> SectionName(prog[i]), data |-> <<>>])
    BY <1>6 DEF Pass2Section, At, Advance, pass1vars
  <2>2. \A x \in DOMAIN secs : secs[x].data = <<>>
    BY <2>1 DEF LayoutInv
  <2>3. ASSUME NEW r, r.data = <<>>, secs' = Append(secs, r)
        PROVE  \A x \in DOMAIN secs' : secs'[x].data = <<>>
    <3>1. IsSequence(secs)
      BY <2>1 DEF TypeInv, SectionInv, Entered, AreSections
    <3>2. /\ Len(secs) \in Nat /\ DOMAIN secs = 1 .. Len(secs) /\ DOMAIN secs' = 1 .. Len(secs) + 1
          /\ secs'[Len(secs) + 1] = r /\ \A x \in 1 .. Len(secs) : secs'[x] = secs[x]
      BY <2>3, <3>1, AppendIs
    <3> QED BY <2>2, <2>3, <3>2
  <2>4. \A x \in DOMAIN secs' : secs'[x].data = <<>>
    BY <2>1, <2>2, <2>3
  <2> QED BY <1>5, <2>1, <2>4
<1>7. CASE Pass2Label \/ Pass2Extern \/ Pass2Binding \/ Pass2Skip \/ EndPass2
  <2>1. /\ UNCHANGED <<prog, addrs, ends, secs>> /\ phase = "pass2"
        /\ phase' \in {"pass2", "pass3"}
    BY <1>7 DEF Pass2Label, Pass2Extern, Pass2Binding, Pass2Skip, EndPass2, StartPass, At, Advance,
                pass1vars
  <2>2. \A x \in DOMAIN secs : secs[x].data = <<>>
    BY <2>1 DEF LayoutInv
  <2> QED BY <1>5, <2>1, <2>2
<1>8. ASSUME UNCHANGED <<prog, addrs, secs>>, phase = "pass3", phase' \in {"pass3", "done"},
             i' \in {i, i + 1}
      PROVE  LayoutInv'
  <2>1. ~HasOrg => LaidOut(Len(prog))'
    BY <1>8 DEF LayoutInv, LaidOut, EndOf
  <2>2. HasOrg' <=> HasOrg
    BY <1>8 DEF HasOrg
  <2>3. i' .. Len(prog) \subseteq i .. Len(prog)
    BY <1>1, <1>8
  <2>4. ~HasOrg => NotBeyond'
    BY <1>8, <2>3 DEF LayoutInv, NotBeyond
  <2> QED BY <1>1, <1>8, <2>1, <2>2, <2>4 DEF LayoutInv
<1>9. CASE Pass3Outside \/ Pass3Label \/ EndPass3
  <2>1. UNCHANGED <<prog, addrs, secs>> /\ phase = "pass3" /\ phase' \in {"pass3", "done"}
        /\ i' \in {i, i + 1}
    BY <1>9 DEF Pass3Outside, Pass3Label, EndPass3, Filled, Advance, In, At, pass1vars
  <2> QED BY <1>8, <2>1
<1>10. CASE Pass3Instr \/ Pass3Data \/ Pass3String \/ Pass3Pad
  <2>1. /\ phase = "pass3" /\ phase' = phase /\ i \in DOMAIN prog /\ addrs[i].section # None
        /\ Advance /\ UNCHANGED addrs
    BY <1>10, FilledActions DEF Filled, Advance, At, pass1vars
  <2>2. secs' = secs \/ \E trytes : Writes(trytes) /\ Fits(trytes)
    BY <1>1, <1>10, FilledFits
  <2>3. CASE secs' = secs
    <3>1. prog' = prog /\ i' = i + 1
      BY <2>1 DEF Advance
    <3> QED BY <1>8, <2>1, <2>3, <3>1
  <2>4. ASSUME NEW trytes, Writes(trytes), Fits(trytes) PROVE LayoutInv'
    BY <2>1, <2>4, PassThreeLayout
  <2> QED BY <2>2, <2>3, <2>4
<1>11. CASE UNCHANGED vars
  BY <1>11 DEF vars, pass1vars, LayoutInv, Measured, LaidOut, NotBeyond, EndOf, HasOrg
<1> QED BY <1>2, <1>3, <1>4, <1>6, <1>7, <1>9, <1>10, <1>11 DEF Next

\* What SectionsOnlyGrow says of a step.
OnlyGrow ==
  ~HasOrg => \A s \in DOMAIN secs :
    s \in DOMAIN secs' /\ SubSeq(secs'[s].data, 1, Len(secs[s].data)) = secs[s].data

LEMMA StepGrows == TypeInv /\ LayoutInv /\ [Next]_vars => OnlyGrow
<1> SUFFICES ASSUME TypeInv, LayoutInv, [Next]_vars, ~HasOrg PROVE OnlyGrow
  BY DEF OnlyGrow
<1>1. \A s \in DOMAIN secs : IsSequence(secs[s].data)
  BY DEF LayoutInv
<1>2. \A s \in DOMAIN secs : Grows(secs[s].data, secs[s].data)
  BY <1>1, PrefixGrows
<1>3. ASSUME \A s \in DOMAIN secs : s \in DOMAIN secs' /\ secs'[s] = secs[s] PROVE OnlyGrow
  BY <1>2, <1>3 DEF OnlyGrow, Grows
<1>4. CASE Pass2Section
  <2>1. phase = "pass2" /\ \/ secs' = secs
                           \/ secs' = Append(secs, [name |-> SectionName(prog[i]), data |-> <<>>])
    BY <1>4 DEF Pass2Section, At
  <2>2. IsSequence(secs)
    BY <2>1 DEF TypeInv, SectionInv, Entered, AreSections
  <2>3. ASSUME NEW r, secs' = Append(secs, r)
        PROVE  \A s \in DOMAIN secs : s \in DOMAIN secs' /\ secs'[s] = secs[s]
    <3> QED BY <2>2, <2>3, AppendIs
  <2> QED BY <1>3, <2>1, <2>3
<1>5. CASE Pass3Instr \/ Pass3Data \/ Pass3String \/ Pass3Pad
  <2>1. phase = "pass3" /\ i \in DOMAIN prog /\ addrs[i].section # None
    BY <1>5, FilledActions DEF At
  <2>2. secs' = secs \/ \E trytes : Writes(trytes) /\ Fits(trytes)
    BY <1>5, FilledFits DEF LayoutInv
  <2>3. CASE secs' = secs
    BY <1>3, <2>3
  <2>4. ASSUME NEW trytes, Writes(trytes), Fits(trytes) PROVE OnlyGrow
    <3>1. /\ DOMAIN secs' = DOMAIN secs
          /\ \A s \in DOMAIN secs : s # addrs[i].section => secs'[s].data = secs[s].data
          /\ Grows(secs[addrs[i].section].data, secs'[addrs[i].section].data)
      BY <2>1, <2>4, WritesGrow
    <3> QED BY <1>2, <3>1 DEF OnlyGrow, Grows
  <2> QED BY <2>2, <2>3, <2>4
<1>6. CASE ~Pass2Section /\ ~(Pass3Instr \/ Pass3Data \/ Pass3String \/ Pass3Pad)
  <2>1. secs' = secs
    BY <1>6 DEF Next, vars, Pass1Section, Pass1Label, Pass1Org, Pass1Code, EndPass1, Place,
       Pass2Label, Pass2Extern, Pass2Binding, Pass2Skip, EndPass2, StartPass,
       Pass3Outside, Pass3Label, EndPass3
  <2> QED BY <1>3, <2>1
<1> QED BY <1>4, <1>5, <1>6

\* In a program without %org, however often it leaves a section and takes it up
\* again, what pass 3 (tobj.c) has written to a section stays as it is: no item
\* runs into the space that pass 1 gave to another.
THEOREM TObjSectionsOnlyGrow == Spec => SectionsOnlyGrow
<1>1. TypeInv /\ LayoutInv /\ [Next]_vars =>
        [~HasOrg => \A s \in DOMAIN secs :
           /\ s \in DOMAIN secs'
           /\ SubSeq(secs'[s].data, 1, Len(secs[s].data)) = secs[s].data]_vars
  BY StepGrows DEF OnlyGrow
<1> QED BY <1>1, InitLayout, StepLayout, SpecTypeInv, PTL DEF Spec, SectionsOnlyGrow
=============================================================================
