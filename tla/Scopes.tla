------------------------------- MODULE Scopes -------------------------------
(***************************************************************************)
(* Label names, said without passes or symbol tables: which label items a  *)
(* label operand can mean, from where it stands in the program.  Both back *)
(* ends are held to this reading of local labels.                          *)
(***************************************************************************)
EXTENDS TasmAsr

\* Two items have the same enclosing global label: no global label stands
\* between them.  (A global label is the last item of the scope before it.)
SameScope(p, j, k) ==
  \A h \in DOMAIN p : IsGlobalLabel(p[h]) => (h < j <=> h < k)

\* The label items that an operand of item j, a label of this name, can mean.
Candidates(p, j, name, is_local) ==
  {d \in DOMAIN p : /\ p[d].kind = "label"
                    /\ p[d].name = name
                    /\ p[d].is_local = is_local
                    /\ is_local => SameScope(p, d, j)}

\* The first of several definitions counts.
IsMeant(p, j, name, is_local, d) ==
  /\ d \in Candidates(p, j, name, is_local)
  /\ \A e \in Candidates(p, j, name, is_local) : d <= e
=============================================================================
