------------------------------ MODULE Datalog -------------------------------
(***************************************************************************)
(* The Datalog of compiler/datalog, as functions of facts: the evaluator   *)
(* of LogicProgram.ts with its extended premises, the programs over the    *)
(* topology of the network and over traced graphs, and the way back from   *)
(* answers to a graph. Facts are tuples that start with a predicate; the   *)
(* order of facts is left out.                                             *)
(***************************************************************************)
EXTENDS Unification, Integers, FiniteSets

\* Premises and rules. A database premise and a head are rows of terms.
atom(pred, args)   == [is |-> "atom", terms |-> <<Atom(pred)>> \o args]
Eq(a, b)           == [is |-> "eq", terms |-> <<a, b>>]
Neq(a, b)          == [is |-> "neq", terms |-> <<a, b>>]
Or(branches)       == [is |-> "or", branches |-> branches]
And(premises)      == [is |-> "and", premises |-> premises]
StartsWith(v, p)   == [is |-> "starts", terms |-> <<v>>, arg |-> p]
NegFact(pred, args) == [is |-> "neg", terms |-> <<Atom(pred)>> \o args]
rule(head, body)   == [head |-> head.terms, body |-> body]
program(strategy, rules) == [strategy |-> strategy, rules |-> rules]
compose_programs(a, b)   == [strategy |-> a.strategy, rules |-> a.rules \o b.rules]

Substitute(terms, dict) == [i \in DOMAIN terms |-> resolve_var(terms[i], dict)]
is_ground(terms)        == \A i \in DOMAIN terms : ~IsVar(terms[i])
FactOf(terms)           == [i \in DOMAIN terms |-> terms[i].atom]
RowOf(fact)             == [i \in DOMAIN fact |-> Atom(fact[i])]
-----------------------------------------------------------------------------
(* The evaluator *)

\* Eq may bind variables. Neq and NegFact fail on what is not ground, and a
\* built-in predicate fails on a variable that is not yet bound.
RECURSIVE resolve_extended(_, _, _)
Premise(p, facts, dict) ==
  CASE p.is = "atom" -> UNION {UnifyRow(p.terms, RowOf(f), dict) : f \in facts}
    [] p.is = "eq"   -> unify(p.terms[1], p.terms[2], dict)
    [] p.is = "or"   -> UNION {resolve_extended(p.branches[i], facts, {dict}) : i \in DOMAIN p.branches}
    [] p.is = "and"  -> resolve_extended(p.premises, facts, {dict})
    [] OTHER ->
       LET t == Substitute(p.terms, dict)
           holds == /\ is_ground(t)
                    /\ CASE p.is = "neq"    -> t[1] # t[2]
                         [] p.is = "neg"    -> FactOf(t) \notin facts
                         [] p.is = "starts" -> IsPrefix(p.arg, t[1].atom)
       IN  IF holds THEN {dict} ELSE {}

\* The premises thread the bindings from left to right.
resolve_extended(premises, facts, dicts) ==
  FoldLeft(LAMBDA ds, p : UNION {Premise(p, facts, d) : d \in ds}, dicts, premises)

\* A head that is not ground derives nothing.
Derived(r, facts) ==
  {FactOf(h) : h \in {g \in {Substitute(r.head, d) : d \in resolve_extended(r.body, facts, {<<>>})}
                      : is_ground(g)}}

\* One round of the naive evaluator: each rule sees what the ones before it in
\* the program have just derived.
Round(rules, facts) == FoldLeft(LAMBDA fs, r : fs \cup Derived(r, fs), facts, rules)

RECURSIVE evaluate_extended_naive(_, _)
evaluate_extended_naive(rules, facts) ==
  LET more == Round(rules, facts)
  IN  IF more = facts THEN facts ELSE evaluate_extended_naive(rules, more)

\* MiniDatalog's engine: the least set closed under the rules.
RECURSIVE semi_naive_datalog(_, _)
semi_naive_datalog(rules, facts) ==
  LET more == facts \cup UNION {Derived(rules[i], facts) : i \in DOMAIN rules}
  IN  IF more = facts THEN facts ELSE semi_naive_datalog(rules, more)

RECURSIVE body_atom_requires_extended(_)
body_atom_requires_extended(p) ==
  \/ p.is \in {"starts", "neg"}
  \/ p.is = "or"  /\ \E i \in DOMAIN p.branches : \E j \in DOMAIN p.branches[i] :
                       body_atom_requires_extended(p.branches[i][j])
  \/ p.is = "and" /\ \E i \in DOMAIN p.premises : body_atom_requires_extended(p.premises[i])

evaluate_program(prog, edb) ==
  IF \/ prog.strategy = "incremental"
     \/ \E i \in DOMAIN prog.rules : \E j \in DOMAIN prog.rules[i].body :
          body_atom_requires_extended(prog.rules[i].body[j])
  THEN evaluate_extended_naive(prog.rules, edb)
  ELSE semi_naive_datalog(prog.rules, edb)

\* query and ground: the instances of a pattern among the facts.
query(pattern, facts) == Derived(rule(pattern, <<pattern>>), facts)
-----------------------------------------------------------------------------
(* Programs over the topology of the network *)

vA == Var("A")
vB == Var("B")
vC == Var("C")
vD == Var("D")
vP == Var("P")
vQ == Var("Q")
vR == Var("R")

\* (faulty variant: reading and writing change places)
FlowsBackRule == rule(atom("flows_to", <<vA, vB>>), <<atom("writes", <<vP, vA>>), atom("reads", <<vP, vB>>)>>)

flows_to_rule == rule(atom("flows_to", <<vA, vB>>), <<atom("reads", <<vP, vA>>), atom("writes", <<vP, vB>>)>>)
topology_reachability_program(strategy) ==
  program(strategy,
    <<flows_to_rule,
      rule(atom("reachable", <<vA, vB>>), <<atom("flows_to", <<vA, vB>>)>>),
      rule(atom("reachable", <<vA, vC>>), <<atom("reachable", <<vA, vB>>), atom("flows_to", <<vB, vC>>)>>)>>)

connected_to_program(source, strategy) ==
  compose_programs(topology_reachability_program(strategy),
    program(strategy, <<rule(atom("reachable_from", <<vB>>), <<atom("reachable", <<Atom(source), vB>>)>>)>>))

cell_namespace_program(prefix, strategy) ==
  program(strategy,
    <<rule(atom("ns_match", <<vA>>), <<atom("kind", <<vA, vB>>), atom("namespace", <<vA, vC>>), StartsWith(vC, prefix)>>)>>)
cell_kind_program(kind, strategy) ==
  program(strategy, <<rule(atom("kind_match", <<vA>>), <<atom("kind", <<vA, Atom(kind)>>)>>)>>)
cell_level_program(level, strategy) ==
  program(strategy, <<rule(atom("level_match", <<vA>>), <<atom("level", <<vA, Atom(level)>>)>>)>>)

topology_hop_program ==
  program("semi-naive", <<rule(atom("hop", <<vA, vP, vB>>), <<atom("reads", <<vP, vA>>), atom("writes", <<vP, vB>>)>>)>>)
topology_path2_program ==
  compose_programs(topology_hop_program,
    program("semi-naive", <<rule(atom("path2", <<vA, vP, vB, vQ, vC>>),
                                 <<atom("hop", <<vA, vP, vB>>), atom("hop", <<vB, vQ, vC>>)>>)>>))
topology_path3_program ==
  compose_programs(topology_path2_program,
    program("semi-naive", <<rule(atom("path3", <<vA, vP, vB, vQ, vC, vR, vD>>),
                                 <<atom("hop", <<vA, vP, vB>>), atom("hop", <<vB, vQ, vC>>), atom("hop", <<vC, vR, vD>>)>>)>>))

topology_mutual_reach_program(strategy) ==
  compose_programs(topology_reachability_program(strategy),
    program(strategy, <<rule(atom("mutual_reach", <<vA, vB>>),
                             <<atom("reachable", <<vA, vB>>), atom("reachable", <<vB, vA>>)>>)>>))

directed(a, b, c)   == <<<<a, b>>, <<b, a>>, <<a, c>>, <<c, a>>, <<b, c>>, <<c, b>>>>
Pair(pred, x, y)    == atom(pred, <<Atom(x), Atom(y)>>)
topology_triad_surface_program(a, b, c, strategy) ==
  LET dir == [i \in 1..6 |-> LET d == directed(a, b, c)[i]
                             IN  rule(Pair("surface_dir", d[1], d[2]), <<Pair("reachable", d[1], d[2])>>)]
      und == <<<<a, b>>, <<a, c>>, <<b, c>>>>
      mut == [i \in 1..3 |-> rule(Pair("surface_mutual", und[i][1], und[i][2]), <<Pair("mutual_reach", und[i][1], und[i][2])>>)]
      rev == [i \in 1..3 |-> rule(Pair("surface_mutual", und[i][2], und[i][1]), <<Pair("mutual_reach", und[i][1], und[i][2])>>)]
  IN  compose_programs(topology_mutual_reach_program(strategy), program(strategy, dir \o mut \o rev))

\* The second stage over facts in which reachable is already closed.
topology_triad_one_way_surface_program(a, b, c, strategy) ==
  program(strategy,
    [i \in 1..6 |-> LET d == directed(a, b, c)[i]
                    IN  rule(Pair("surface_one_way", d[1], d[2]),
                             <<Pair("reachable", d[1], d[2]), NegFact("reachable", <<Atom(d[2]), Atom(d[1])>>)>>)])
-----------------------------------------------------------------------------
(* From a network to facts and from answers back to a network. A network is  *)
(* [cell, prop, reads, writes, space, level, label, value].                  *)

Attributes(net, n, tag, kind) ==
  {<<tag, n, net.label[n]>>, <<"kind", n, kind>>, <<"namespace", n, net.space[n]>>,
   <<"level", n, net.level[n]>>, <<"label", n, net.label[n]>>}

\* A value that cannot be shown as a string is skipped: value has those that can.
snapshot_topology_facts(net) ==
  UNION {Attributes(net, c, "cell", "cell") : c \in net.cell}
    \cup {<<"value", c, net.value[c]>> : c \in net.cell \cap DOMAIN net.value}
    \cup UNION {Attributes(net, p, "propagator", "prop") : p \in net.prop}
    \cup {<<"reads", p, c>> : <<p, c>> \in {r \in net.reads : r[1] \in net.prop}}
    \cup {<<"writes", p, c>> : <<p, c>> \in {w \in net.writes : w[1] \in net.prop}}

\* A q_row carries the predicate of the pattern and the instance's arguments.
q_rows(pattern, facts)      == {<<"q_row">> \o f : f \in query(pattern, facts)}
decode_q_row(f)             == [pred |-> f[2], args |-> {f[i] : i \in 3..Len(f)}]
entity_ids_from_q_row_facts(facts) ==
  UNION {decode_q_row(f).args : f \in {g \in facts : Len(g) >= 2 /\ g[1] = "q_row"}}
entity_ids_from_q_rows_matching(facts, pred) ==
  entity_ids_from_q_row_facts({f \in facts : Len(f) >= 2 /\ f[2] = pred})

resolve_network_ids(ids, net) ==
  [cells |-> ids \cap net.cell, propagators |-> (ids \cap net.prop) \ net.cell,
   unresolved |-> ids \ (net.cell \cup net.prop)]

\* The graph on the nodes that are kept. A node no fact speaks of is a cell of
\* an unknown namespace. Reading is an edge into the propagator.
graphology_from_topology_facts(facts, keep) ==
  LET about(tag, n) == {f[3] : f \in {g \in facts : g[1] = tag /\ g[2] = n}}
      kind(n) == IF "prop" \in about("kind", n) THEN "propagator" ELSE "cell"
      space(n) == IF about("namespace", n) = {} THEN <<"unknown">> ELSE CHOOSE s \in about("namespace", n) : TRUE
  IN  [node |-> keep, kind |-> [n \in keep |-> kind(n)], space |-> [n \in keep |-> space(n)],
       edge |-> {e \in {<<f[3], f[2]>> : f \in {g \in facts : g[1] = "reads"}}
                       \cup {<<f[2], f[3]>> : f \in {g \in facts : g[1] = "writes"}} : {e[1], e[2]} \subseteq keep}]
-----------------------------------------------------------------------------
(* Traced graphs *)

\* A graph is [node, edge], with attributes as in the network's records.
traced_graph_to_facts(graph, attr) ==
  {<<"g_node", n>> : n \in graph.node} \cup {<<"g_edge", e[1], e[2]>> : e \in graph.edge}
    \cup UNION {{<<"g_kind", n, attr.kind[n]>>, <<"g_namespace", n, attr.space[n]>>, <<"g_level", n, attr.level[n]>>,
                 <<"g_label", n, attr.label[n]>>} : n \in graph.node}
    \cup {<<"g_value", n, attr.value[n]>> : n \in graph.node \cap DOMAIN attr.value}

trace_pair_membership_facts(up, down) ==
  {<<"trace_mem", "up", n>> : n \in up.node} \cup {<<"trace_mem", "down", n>> : n \in down.node}

traced_namespace_program(prefix) ==
  program("semi-naive", <<rule(atom("ns_match", <<vA>>), <<atom("g_namespace", <<vA, vB>>), StartsWith(vB, prefix)>>)>>)
traced_card_slot_cell_program ==
  program("semi-naive", <<rule(atom("card_cell", <<vA>>),
    <<atom("g_kind", <<vA, Atom("cell")>>), atom("g_namespace", <<vA, vB>>), StartsWith(vB, <<":", ":">>)>>)>>)
traced_kind_program(kind) ==
  program("semi-naive", <<rule(atom("kind_match", <<vA>>), <<atom("g_kind", <<vA, Atom(kind)>>)>>)>>)
traced_level_program(level) ==
  program("semi-naive", <<rule(atom("level_match", <<vA>>), <<atom("g_level", <<vA, Atom(level)>>)>>)>>)
traced_cell_at_level_program(level) ==
  program("semi-naive", <<rule(atom("level_cell", <<vA>>),
    <<atom("g_kind", <<vA, Atom("cell")>>), atom("g_level", <<vA, Atom(level)>>)>>)>>)
traced_trace_pair_program ==
  LET mem(side) == atom("trace_mem", <<Atom(side), vA>>)
  IN  program("semi-naive", <<rule(atom("union_node", <<vA>>), <<mem("up")>>),
                              rule(atom("union_node", <<vA>>), <<mem("down")>>),
                              rule(atom("both_node", <<vA>>), <<mem("up"), mem("down")>>)>>)

node_ids_from_facts(facts, pred) == {f[2] : f \in {g \in facts : Len(g) >= 2 /\ g[1] = pred}}
evaluate_traced_program(graph, attr, prog) == evaluate_program(prog, traced_graph_to_facts(graph, attr))
evaluate_trace_pair_program(up, down, prog) == evaluate_program(prog, trace_pair_membership_facts(up, down))
=============================================================================
