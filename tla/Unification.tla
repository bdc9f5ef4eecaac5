---------------------------- MODULE Unification -----------------------------
(***************************************************************************)
(* Terms and their unification: graph_relations.ts has its own, the        *)
(* Datalog engine takes pmatcher's, and both do the same on flat terms.    *)
(* Nested terms, as a pattern object with variables for some attributes of *)
(* a node, are left out.                                                   *)
(***************************************************************************)
EXTENDS Naturals, Sequences, SequencesExt

Var(n)    == [var |-> n]
IsVar(t)  == DOMAIN t = {"var"}
Atom(x)   == [atom |-> x]

\* (faulty variant: a chain of variables is followed for one step)
ResolveOnce(term, subst) == IF IsVar(term) /\ term.var \in DOMAIN subst THEN subst[term.var] ELSE term

\* A chain of variables is followed to its end.
Bound(term, subst) == IsVar(term) /\ term.var \in DOMAIN subst

resolve_var(term, subst) ==
  LET end[v \in DOMAIN subst] == IF Bound(subst[v], subst) THEN end[subst[v].var] ELSE subst[v]
  IN  IF Bound(term, subst) THEN end[term.var] ELSE term

bind_var(v, value, subst) ==
  [n \in DOMAIN subst \cup {v.var} |-> IF n = v.var THEN value ELSE subst[n]]

\* The substitutions, none or one, under which the two terms are the same.
unify(left, right, subst) ==
  LET a == resolve_var(left, subst)
      b == resolve_var(right, subst)
  IN  IF a = b THEN {subst}
      ELSE IF IsVar(a) THEN {bind_var(a, b, subst)}
      ELSE IF IsVar(b) THEN {bind_var(b, a, subst)}
      ELSE {}

\* The substitutions under which a row of terms is a row of atoms.
UnifyRow(terms, row, subst) ==
  LET under[i \in 0..Len(terms)] ==
        IF i = 0 THEN {subst} ELSE UNION {unify(terms[i], row[i], s) : s \in under[i - 1]}
  IN  IF Len(terms) = Len(row) THEN under[Len(terms)] ELSE {}
=============================================================================
