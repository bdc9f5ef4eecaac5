------------------------------- MODULE Scopes -------------------------------
(***************************************************************************)
(* One name in nested environments (compiler/env/env.ts, selector.ts) and  *)
(* its definitions by the incremental compiler.  Environment 1 is the      *)
(* innermost; the root above the outermost holds nothing.                  *)
(*                                                                         *)
(* All cells that are bound to the name in one environment are kept in     *)
(* step by the dictionary, and are one here.  A lookup from an environment *)
(* makes a result cell per level, told of the leftmost usable of the       *)
(* level's own cell and the result of the level above.                     *)
(***************************************************************************)
EXTENDS Naturals, FiniteSets

CONSTANTS Depth, Source,
          MaxDefinitions  \* bound; definitions are numbered

Env == 1..Depth

VARIABLES
  cells,    \* what the name's cell in each environment holds
  result,   \* what the result cells of each lookup hold, level by level
  cached,   \* environments with a lookup in the cache
  due,      \* p_pioritize_leftmost to run: the lookup and the level
  stamp,    \* the last timestamp each source compiled with
  made,     \* definitions so far
  growing   \* one source only, each time with a later timestamp

vars == <<cells, result, cached, due, stamp, made, growing>>

\* Of two definitions from one source the older is dropped; of different
\* sources, or equally old, they contradict each other.
merge(held, d) ==
  IF \E e \in held : e.by = d.by /\ e.at > d.at THEN held
  ELSE {e \in held : e.by # d.by \/ e.at = d.at} \union {d}

is_unusable_value(held) == Cardinality(held) # 1

Init ==
  /\ cells  = [e \in Env |-> {}]
  /\ result = [l \in Env |-> [e \in Env |-> {}]]
  /\ cached = {} /\ due = {}
  /\ stamp = [s \in Source |-> 0] /\ made = 0 /\ growing = TRUE

\* (network name ...) and (-> name): the name is bound in the environment of the
\* expression, whatever it means further out.
define(e, s, t) ==
  /\ made < MaxDefinitions /\ t \in {stamp[s], stamp[s] + 1}
  /\ made' = made + 1
  /\ stamp' = [stamp EXCEPT ![s] = t]
  /\ growing' = (growing /\ t > stamp[s] /\ \A u \in Source \ {s} : stamp[u] = 0)
  /\ cells' = [cells EXCEPT ![e] = merge(@, [by |-> s, at |-> t, is |-> made'])]
  /\ due' = IF cells' = cells THEN due ELSE due \union {<<l, e>> : l \in {x \in cached : x <= e}}
  /\ UNCHANGED <<result, cached>>

\* ce_cached_lexical_lookup: a symbol compiled a second time is the same cell.
ce_lexical_lookup(l) ==
  /\ l \notin cached
  /\ cached' = cached \union {l}
  /\ due' = due \union {<<l, e>> : e \in l..Depth}
  /\ UNCHANGED <<cells, result, stamp, made, growing>>

\* Faulty variant: the outer meaning comes first.
select_rightmost(own, parent) == IF is_unusable_value(parent) THEN own ELSE parent

select_cell_has_value(own, parent) == IF is_unusable_value(own) THEN parent ELSE own

Parent(l, e) == IF e = Depth THEN {} ELSE result[l][e + 1]

\* What is unusable at both is not passed on, and what was passed on before stays.
p_pioritize_leftmost(l, e) ==
  LET chosen == select_cell_has_value(cells[e], Parent(l, e))
      told   == IF is_unusable_value(chosen) THEN result[l][e]
                ELSE merge(result[l][e], CHOOSE d \in chosen : TRUE)
  IN  /\ <<l, e>> \in due
      /\ result' = [result EXCEPT ![l][e] = told]
      /\ due' = (due \ {<<l, e>>}) \union
                (IF told # result[l][e] /\ e > l THEN {<<l, e - 1>>} ELSE {})
      /\ UNCHANGED <<cells, cached, stamp, made, growing>>

Next ==
  \/ \E e \in Env, s \in Source, t \in 0..MaxDefinitions : define(e, s, t)
  \/ \E l \in Env : ce_lexical_lookup(l) \/ \E e \in Env : p_pioritize_leftmost(l, e)

-----------------------------------------------------------------------------
\* The definition in the innermost environment that has one.
Means(l) ==
  LET binding == {e \in l..Depth : cells[e] # {}}
  IN  IF binding = {} THEN {} ELSE cells[CHOOSE e \in binding : \A f \in binding : e <= f]

\* A name means what lexical scope says, whether it was looked up before or
\* after it was defined, shadowed or redefined, as long as one source defines
\* with growing timestamps; and a name that only one environment defines means
\* that, whoever defines it (p_lexical_lookup, p_pioritize_leftmost,
\* ce_cached_lexical_lookup).
NamesMeanTheirScope ==
  \A l \in cached :
    /\ \A e \in Env : <<l, e>> \notin due
    /\ \/ growing
       \/ /\ Cardinality({e \in l..Depth : cells[e] # {}}) = 1
          /\ ~is_unusable_value(Means(l))
    => result[l][l] = Means(l)
=============================================================================
