---------------------------- MODULE TracedGraphs ----------------------------
(***************************************************************************)
(* Every traced graph there is: it grows edge by edge, as a trace does,    *)
(* and an edge goes from a cell to a propagator or back. The searches and  *)
(* the combinators of GraphSearch, and the questions of GraphRelations,    *)
(* are held against what a path is.                                        *)
(***************************************************************************)
EXTENDS GraphRelations

CONSTANTS
  Spaces, Titles, Cards,   \* the namespaces, label prefixes and card ids asked for
  Queries,                 \* lists of clauses
  Order                      \* the order in which the nodes came to be

ASSUME OrderAssumption ==
  /\ Order \in Seq(Id) /\ Range(Order) = Id
  /\ \A i, j \in 1..Len(Order) : i # j => Order[i] # Order[j]

ASSUME AskedAssumption ==
  /\ \A n \in Id : Space[n] \in Seq(Range(Space[n])) /\ Label[n] \in Seq(Range(Label[n]))
  /\ \A card \in Cards : card \in Seq(Range(card))

\* In each of these places stands a node.
NodeAt(op) == CASE op \in {"edge", "reachable", "downstream_of", "upstream_of"} -> {1, 2}
                [] op = "join_through" -> {1, 2, 3}
                [] op = "equal"        -> {}
                [] OTHER               -> {1}

\* A clause has its terms; where no node stands, it has something that does.
IsClause(c) ==
  /\ c = [op |-> c.op, terms |-> c.terms] /\ c.op \in Known \ {"node", "content"}
  /\ c.terms \in Seq(Range(c.terms))
  /\ Len(c.terms) = IF c.op = "join_through" THEN 3 ELSE 2
  /\ \A i \in 1..Len(c.terms) :
       LET t == c.terms[i]
       IN  IF IsAsked(t) THEN t = Asks(t.ask) /\ (i \in NodeAt(c.op) \/ c.op = "equal") ELSE t = Atom(t.atom)

\* Every variable stands for a node somewhere in its query.
ASSUME QueryAssumption ==
  \A where \in Queries :
    /\ where \in Seq(Range(where)) /\ \A c \in Range(where) : IsClause(c)
    /\ \A c \in Range(where) : \A t \in Range(c.terms) : IsAsked(t) =>
         \E d \in Range(where) : \E i \in NodeAt(d.op) : d.terms[i] = t

VARIABLE traced

Steps == {e \in Id \X Id : {Kind[e[1]], Kind[e[2]]} = {"cell", "propagator"}}

NoEdges == traced = [node |-> Id, edge |-> {}]

AddEdge(e) == e \notin traced.edge /\ traced' = [traced EXCEPT !.edge = @ \cup {e}]

Grow  == \E e \in Steps : AddEdge(e)
Drawn == NoEdges /\ [][Grow]_traced
-----------------------------------------------------------------------------
(* Paths *)

\* The nodes at the end of a path of at least one edge: those in every set that
\* holds the successors of n and is closed under edges.
After(g, n) == {m \in g.node : \A S \in SUBSET g.node :
                  (/\ outNeighbors(g, n) \subseteq S
                   /\ \A e \in g.edge : e[1] \in S => e[2] \in S) => m \in S}
Paths(g) == [n \in Id |-> After(g, n)]
Inside(g, N) == [node |-> g.node \cap N, edge |-> {e \in g.edge : e[1] \in N /\ e[2] \in N}]
Both(g) == [node |-> g.node, edge |-> g.edge \cup {<<e[2], e[1]>> : e \in g.edge}]

\* Searching answers what paths do, forwards and to both sides; the filter that
\* keeps what is connected to a namespace cuts no path into it or out of it, and
\* collapsing accessors keeps the paths between the other nodes and makes no new
\* ones, whatever cycles there are (enumerate_reachable_pairs,
\* connected_component, subgraph_by_namespace_connected, collapse_accessor_paths).
SearchesFollowPaths ==
  LET after == Paths(traced)
  IN  /\ enumerate_reachable_pairs(traced) = {p \in Id \X Id : p[2] \in after[p[1]]}
      /\ \A n \in Id :
           connected_component(traced, {n}) = Inside(traced, {n} \cup After(Both(traced), n))
      /\ \A ns \in Spaces :
           LET near == Paths(subgraph_by_namespace_connected(traced, ns))
           IN  \A n \in subgraph_by_namespace(traced, ns).node, m \in Id :
                 /\ m \in after[n] <=> m \in near[n]
                 /\ n \in after[m] <=> n \in near[m]
      /\ LET short == collapse_accessor_paths(traced)
             beyond == Paths(short)
         IN  \A n, m \in short.node : n # m => (m \in after[n] <=> m \in beyond[n])

\* Whether a clause holds of the nodes that are put for its variables.
Means(c, node, after) ==
  LET at(i) == IF IsAsked(c.terms[i]) THEN node[c.terms[i].ask] ELSE c.terms[i].atom
  IN  CASE c.op = "equal"          -> at(1) = at(2)
        [] c.op = "edge"           -> <<at(1), at(2)>> \in traced.edge
        [] c.op = "kind"           -> at(1) \in Id /\ Kind[at(1)] = at(2)
        [] c.op = "namespace"      -> at(1) \in Id /\ Space[at(1)] = at(2)
        [] c.op = "level"          -> at(1) \in Id /\ Level[at(1)] = at(2)
        [] c.op = "label"          -> at(1) \in Id /\ Label[at(1)] = at(2)
        [] c.op = "value"          -> at(1) \in DOMAIN Value /\ Value[at(1)] = at(2)
        [] c.op = "label_prefix"   -> at(1) \in Id /\ StartsWith(at(2), Label[at(1)])
        [] c.op = "label_contains" -> at(1) \in Id /\ Includes(at(2), Label[at(1)])
        [] c.op = "upstream_of"    -> at(2) \in Id /\ at(1) \in after[at(2)]
        [] c.op = "join_through"   -> {<<at(1), at(2)>>, <<at(2), at(3)>>} \subseteq traced.edge
        [] OTHER                   -> at(1) \in Id /\ at(2) \in after[at(1)]

\* Asking the relations of a graph answers what the graph, its paths and what its
\* nodes carry say: a list of clauses, whatever their order and their variables in
\* common, is answered by just the nodes for which every clause holds; a question
\* for a kind and one for a level have in common what both filters keep, and a
\* namespace asked for is one that the filter keeps.
\* graph_query_upstream_of asks from which nodes one comes to n against the
\* edges: that is what n leads to along them, so it answers what
\* graph_query_downstream_of does (see UpstreamIsWhatFeeds)
\* (graph_rel_run_query, unify, graph_rel_node_ids, graph_rel_edges, graph_query_downstream_of,
\* graph_query_upstream_of, graph_query_reachable, query_nodes_by_kind,
\* query_nodes_by_level, query_nodes_by_namespace).
QueriesMean ==
  LET after == Paths(traced)
  IN  /\ graph_rel_node_ids(traced) = traced.node
      /\ graph_rel_edges(traced) = traced.edge
      /\ \A n \in Id :
           /\ graph_query_downstream_of(traced, n) = Inside(traced, {n} \cup after[n])
           /\ graph_query_upstream_of(traced, n) = graph_query_downstream_of(traced, n)
           /\ \A m \in Id : graph_query_reachable(traced, n, m) <=> m \in after[n]
      /\ \A k \in Range(Kind), l \in Range(Level) :
           query_nodes_by_kind(traced, k) \cap query_nodes_by_level(traced, l)
             = intersect_graphs(subgraph_by_level(traced, l), subgraph_by_kind(traced, k)).node
      /\ \A where \in Queries :
           run_clauses(traced, where)
             = {[v \in Variables(where) |-> Atom(node[v])] : node \in
                  {n \in [Variables(where) -> Id] : \A c \in Range(where) : Means(c, n, after)}}
      /\ \A ns \in Spaces : query_nodes_by_namespace(traced, ns)
                              = {n \in subgraph_by_namespace(traced, ns).node : Space[n] = ns}

\* "what is upstream (what feeds it) and downstream (what it feeds)"
\* (docs/reference/propagation-tracing.md:175): m is upstream of n just when n is
\* downstream of m, whichever way a tracer draws its edges
\* (graph_query_upstream_of, graph_query_downstream_of).
UpstreamIsWhatFeeds ==
  \A n, m \in Id : m \in graph_query_upstream_of(traced, n).node <=> n \in graph_query_downstream_of(traced, m).node

\* What is shown of a graph keeps what it is about: of two labelled nodes the
\* later is still reached from the earlier one, and what is kept besides lies
\* between two of them; an accessor is left out where it led on, and nothing else;
\* a card's network is all that is connected to its cells, and to those of the
\* cards whose id begins with its own (get_connected_subgraph_by_label_prefix,
\* graph_query_primitive_direct, graph_query_card_network, get_subgraph_by_card).
\* Of labelled nodes this is the directed sense, which is what the search does;
\* the comment of get_connected_subgraph_by_label_prefix promises the undirected
\* one (see BetweenEitherWay, which claim_between shows to fail).
FiltersKeepPaths ==
  LET after  == Paths(traced)
      short  == collapse_accessor_paths(traced)
      around == Paths(Both(traced))
      accessors == {n \in Id : default_is_accessor(n)}
  IN  /\ \A p \in Titles :
           LET labelled == find_cells_by_label_prefix(traced, p)
               shown    == get_connected_subgraph_by_label_prefix(traced, Order, p)
               kept     == Paths(shown)
           IN  /\ labelled \subseteq shown.node
               /\ \A i, j \in 1..Len(Order) :
                    i < j /\ {Order[i], Order[j]} \subseteq labelled
                      => (Order[j] \in after[Order[i]] <=> Order[j] \in kept[Order[i]])
               /\ \A n \in shown.node \ labelled :
                    \E a, b \in labelled : n \in after[a] /\ b \in after[n]
      /\ short.edge = {e \in short.node \X short.node :
                         e[1] # e[2] /\ e[2] \in After(Inside(traced, {e[1], e[2]} \cup accessors), e[1])}
      /\ graph_query_primitive_direct(traced) = Inside(short, {n \in Id : Kind[n] = "propagator"})
      /\ \A card \in Cards :
           LET network == graph_query_card_network(traced, card)
               start   == find_cells_by_label_prefix(traced, <<"CARD", "|">> \o card)
           IN  /\ network = Inside(traced, start \cup UNION {around[n] : n \in start})
               /\ find_cells_by_label_prefix(traced, CardPrefix(card)) \subseteq get_subgraph_by_card(traced, card).node
               /\ \A other \in Cards :
                    IsPrefix(card, other)
                      => find_cells_by_label_prefix(traced, CardPrefix(other)) \subseteq network.node

\* The intermediate nodes that connect labelled nodes are kept, "via shortest
\* paths in the undirected sense, so it finds 'between' even if direction flips"
\* (graph_queries.ts:58): labelled nodes that hang together still do in what is
\* shown (get_connected_subgraph_by_label_prefix).
BetweenEitherWay ==
  LET around == Paths(Both(traced))
  IN  \A p \in Titles :
        LET labelled == find_cells_by_label_prefix(traced, p)
            kept     == Paths(Both(get_connected_subgraph_by_label_prefix(traced, Order, p)))
        IN  \A n, m \in labelled : n # m /\ m \in around[n] => m \in kept[n]
=============================================================================
