--------------------------- MODULE GraphRelations ---------------------------
(***************************************************************************)
(* A traced graph as relations: the goals of graph_relations.ts and the    *)
(* questions it asks with them, the other combinators of                   *)
(* graph_combinators.ts and the label queries of graph_queries.ts. Card    *)
(* ids are sequences of tokens, as labels and namespaces are. The order of *)
(* answers is left out.                                                    *)
(***************************************************************************)
EXTENDS Unification, GraphSearch, Integers

CONSTANTS
  Level,       \* of each node: relation level
  Value,       \* of the cells that have one
  Live         \* the cells that find_cell_by_id still finds

ASSUME AttributeAssumption ==
  /\ DOMAIN Level = Id /\ Live \subseteq Id /\ DOMAIN Value \subseteq Id

reverse_graph(graph) == [graph EXCEPT !.edge = {<<e[2], e[1]>> : e \in @}]
-----------------------------------------------------------------------------
(* Goals *)

\* A goal maps a state to states. The relational goals walk through the rows of
\* a relation and unify their terms with each row, one after the other.
Rows(rows, terms, state) ==
  {[state EXCEPT !.subst = s] : s \in UNION {UnifyRow(terms, row, state.subst) : row \in rows}}

node_fact(graph)       == {<<Atom(n), Atom(<<Kind[n], Space[n], Level[n], Label[n]>>)>> : n \in graph.node}
edge_fact(graph)       == {<<Atom(e[1]), Atom(e[2])>> : e \in graph.edge}
attr_fact(graph, attr) == {<<Atom(n), Atom(attr[n])>> : n \in graph.node}
reachable(graph)       == {<<Atom(e[1]), Atom(e[2])>> : e \in enumerate_reachable_pairs(graph)}

Includes(needle, text)   == needle = <<>> \/ \E i \in 1..Len(text) : IsPrefix(needle, SubSeq(text, i, Len(text)))

\* label_prefix and label_contains resolve their argument when the goal runs:
\* one that is not yet a string has no answers.
Labelled(graph, clause, state) ==
  LET t == resolve_var(clause.terms[2], state.subst)
      has(n) == IF clause.op = "label_prefix" THEN StartsWith(t.atom, Label[n])
                ELSE Includes(t.atom, Label[n])
  IN  IF IsVar(t) THEN {}
      ELSE Rows({<<Atom(n)>> : n \in {m \in graph.node : has(m)}}, <<clause.terms[1]>>, state)

goal_equal(terms, state) ==
  {[state EXCEPT !.subst = s] : s \in unify(terms[1], terms[2], state.subst)}

\* run_goal starts numbering fresh variables after those the query has made.
\* fresh takes the state's counter for its variable, and moves it on.
empty_goal_state(made) == [subst |-> <<>>, counter |-> made]
fresh(state) == <<Var(state.counter), [state EXCEPT !.counter = @ + 1]>>

\* The goals of a list run one after the other, each in every state so far.
goal_and(Goal(_, _), clauses, states) ==
  LET upto[i \in 0..Len(clauses)] ==
        IF i = 0 THEN states ELSE UNION {Goal(clauses[i], s) : s \in upto[i - 1]}
  IN  upto[Len(clauses)]

Projected(select, states) == {[i \in DOMAIN select |-> resolve_var(select[i], s.subst)] : s \in states}
-----------------------------------------------------------------------------
(* Clauses: [op, terms] *)

\* A text with a question mark in front names a variable, the same wherever it
\* occurs in the query; any other term stands for itself.
Asks(name) == [ask |-> name]
IsAsked(t) == DOMAIN t = {"ask"}
Asked(terms) == {t.ask : t \in {u \in Range(terms) : IsAsked(u)}}
logic_query_term(t)   == IF IsAsked(t) THEN Var(t.ask) ELSE t
logic_query_terms(ts) == [i \in DOMAIN ts |-> logic_query_term(ts[i])]

Known == {"equal", "node", "edge", "kind", "namespace", "level", "label", "value", "content", "label_prefix",
          "label_contains", "reachable", "downstream_of", "upstream_of", "join_through"}

join_through(graph, terms, state) ==
  UNION {Rows(edge_fact(graph), <<terms[2], terms[3]>>, s)
         : s \in Rows(edge_fact(graph), <<terms[1], terms[2]>>, state)}

\* clause_goal, for a clause that is not a group.
relation_goal(graph, clause, state) ==
  LET c == [clause EXCEPT !.terms = logic_query_terms(@)] IN
  CASE c.op = "equal"          -> goal_equal(c.terms, state)
    [] c.op = "node"           -> Rows(node_fact(graph), c.terms, state)
    [] c.op = "edge"           -> Rows(edge_fact(graph), c.terms, state)
    [] c.op = "kind"           -> Rows(attr_fact(graph, Kind), c.terms, state)
    [] c.op = "namespace"      -> Rows(attr_fact(graph, Space), c.terms, state)
    [] c.op = "level"          -> Rows(attr_fact(graph, Level), c.terms, state)
    [] c.op = "label"          -> Rows(attr_fact(graph, Label), c.terms, state)
    [] c.op = "value"          -> Rows({<<Atom(n), Atom(Value[n])>> : n \in graph.node \cap DOMAIN Value},
                                       c.terms, state)
    [] c.op = "content"        -> {}   \* a traced graph carries none
    [] c.op \in {"label_prefix", "label_contains"}
                               -> Labelled(graph, c, state)
    [] c.op \in {"reachable", "downstream_of"}
                               -> Rows(reachable(graph), c.terms, state)
    [] c.op = "upstream_of"    -> Rows(reachable(reverse_graph(graph)), c.terms, state)
    [] c.op = "join_through"   -> join_through(graph, c.terms, state)

default_projection(names) == [n \in names |-> Var(n)]

Variables(where) == UNION {Asked(c.terms) : c \in Range(where)}

\* What a list of such clauses answers of its variables.
run_clauses(graph, where) ==
  Projected(default_projection(Variables(where)),
            goal_and(LAMBDA c, s : relation_goal(graph, c, s), where, {empty_goal_state(0)}))
-----------------------------------------------------------------------------
(* Questions *)

\* query_node_ids asks for q0, query_edges for q0 and q1. They are given the
\* states their goal leads to from where these are taken, and keep the answers
\* that are strings: an unbound variable is left out.
q0 == Var(0)
q1 == Var(1)
asking_one == empty_goal_state(1)
asking_two == empty_goal_state(2)

query_node_ids(states) ==
  LET answers == {resolve_var(q0, s.subst) : s \in states}
  IN  {t.atom : t \in {u \in answers : ~IsVar(u)}}

graph_rel_node_ids(graph) ==
  LET attrs == fresh(asking_one)
  IN  query_node_ids(Rows(node_fact(graph), <<q0, attrs[1]>>, attrs[2]))

query_nodes_by_kind(graph, k) ==
  query_node_ids(Rows(attr_fact(graph, Kind), <<q0, Atom(k)>>, asking_one))
query_nodes_by_namespace(graph, ns) ==
  query_node_ids(Rows(attr_fact(graph, Space), <<q0, Atom(ns)>>, asking_one))
query_nodes_by_level(graph, l) ==
  query_node_ids(Rows(attr_fact(graph, Level), <<q0, Atom(l)>>, asking_one))

query_edges(states) ==
  LET answers == {<<resolve_var(q0, s.subst), resolve_var(q1, s.subst)>> : s \in states}
  IN  {<<t[1].atom, t[2].atom>> : t \in {p \in answers : ~IsVar(p[1]) /\ ~IsVar(p[2])}}

graph_rel_edges(graph) == query_edges(Rows(edge_fact(graph), <<q0, q1>>, asking_two))

\* One pair is asked for.
graph_query_reachable(graph, source, target) ==
  query_edges(UNION {UNION {goal_equal(<<q1, Atom(target)>>, s2) : s2 \in goal_equal(<<q0, Atom(source)>>, s)}
                     : s \in Rows(reachable(graph), <<q0, q1>>, asking_two)}) # {}

graph_query_upstream_of(graph, id) ==
  induced_subgraph_from_ids(graph, query_node_ids(
    goal_equal(<<q0, Atom(id)>>, asking_one)
      \cup Rows(reachable(reverse_graph(graph)), <<q0, Atom(id)>>, asking_one)))

graph_query_downstream_of(graph, id) ==
  induced_subgraph_from_ids(graph, query_node_ids(
    goal_equal(<<q0, Atom(id)>>, asking_one)
      \cup Rows(reachable(graph), <<Atom(id), q0>>, asking_one)))
-----------------------------------------------------------------------------
(* Combinators *)

subgraph_by_kind(graph, k)  == induced_subgraph_by_node_predicate(graph, [n \in Id |-> Kind[n] = k])
subgraph_by_level(graph, l) == induced_subgraph_by_node_predicate(graph, [n \in Id |-> Level[n] = l])
intersect_graphs(a, b) == induced_subgraph_from_ids(a, b.node)
union_graphs(a, b)     == [node |-> a.node \cup b.node, edge |-> a.edge \cup b.edge]

graph_query_call_graph(graph) == subgraph_by_kind(graph, "propagator")
graph_query_primitive_direct(graph) == subgraph_by_kind(collapse_accessor_paths(graph), "propagator")

graph_query_inspect_values(graph) == {n \in graph.node : Kind[n] = "cell" /\ n \in DOMAIN Value}

\* annotate_cell_content adds a content to the cells that are still found; the
\* rows graph_query_inspect_content shows are those.
annotate_cell_content(graph) == {n \in graph.node : Kind[n] = "cell" /\ n \in Live}
-----------------------------------------------------------------------------
(* Labels *)

\* graph_query_card_network's prefix has no separator after the card id.
graph_query_card_network(graph, card) ==
  connected_component(graph,
    query_node_ids(
      Labelled(graph, [op |-> "label_prefix", terms |-> <<q0, Atom(<<"CARD", "|">> \o card)>>],
               asking_one)))

CardPrefix(card) == <<"CARD", "|">> \o card \o <<"|">>
find_cells_by_card(graph, card)      == {n \in graph.node : Includes(CardPrefix(card), Label[n])}
get_subgraph_by_card(graph, card)    == induced_subgraph_from_ids(graph, find_cells_by_card(graph, card))
find_cells_by_label_prefix(graph, p) == {n \in graph.node : StartsWith(p, Label[n])}
get_subgraph_by_label_prefix(graph, p) ==
  induced_subgraph_from_ids(graph, find_cells_by_label_prefix(graph, p))
get_subgraph_by_name(graph, name) ==
  induced_subgraph_by_node_predicate(graph, [n \in Id |-> Includes(name, Label[n])])

\* bidirectional: a shortest path along the edges' direction, or none.
Shortest(graph, a, b) ==
  LET paths(k) == {p \in [1..k -> graph.node] :
                     p[1] = a /\ p[k] = b /\ \A i \in 1..(k - 1) : <<p[i], p[i + 1]>> \in graph.edge}
      lens == {k \in 1..Cardinality(graph.node) : paths(k) # {}}
  IN  IF lens = {} THEN {} ELSE Range(CHOOSE p \in paths(Min(lens)) : TRUE)

\* (faulty variant: the nodes on the paths are left out)
EndsOnly(graph, order, prefix) == get_subgraph_by_label_prefix(graph, prefix)

\* The nodes come in the order in which the graph was built; a pair is joined
\* from the earlier to the later one only.
get_connected_subgraph_by_label_prefix(graph, order, prefix) ==
  LET found == find_cells_by_label_prefix(graph, prefix)
      pair  == {ij \in (1..Len(order)) \X (1..Len(order)) :
                  ij[1] < ij[2] /\ {order[ij[1]], order[ij[2]]} \subseteq found}
  IN  induced_subgraph_from_ids(graph,
        found \cup UNION {Shortest(graph, order[ij[1]], order[ij[2]]) : ij \in pair})
=============================================================================
