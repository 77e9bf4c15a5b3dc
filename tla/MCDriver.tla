------------------------------ MODULE MCDriver ------------------------------
(***************************************************************************)
(* Command lines of up to five arguments, some of which begin with a       *)
(* hyphen.                                                                 *)
(***************************************************************************)
EXTENDS Driver

MCArgs == {"a.tasm", "-f", "tobj", "-o", "--color", "always", "auto", "--help", "-x"}

MCHyphened == Options \union {"-x"}
=============================================================================
