---------------------------- MODULE GraphSearch ----------------------------
(***************************************************************************)
(* Searching a traced graph: the breadth-first searches, and the           *)
(* combinators that keep or shorten its paths (graph_relations.ts,         *)
(* graph_combinators.ts). A graph is [node, edge]; what a node carries is  *)
(* fixed by its identity. Labels and namespaces are sequences of tokens,   *)
(* so that "starts with" means what it does on strings.                    *)
(***************************************************************************)
EXTENDS Sequences, SequencesExt, FiniteSets

CONSTANTS
  Id,                  \* node identities
  Kind, Space, Label   \* of each: cell or propagator, namespace, label

ASSUME GraphAssumption ==
  /\ IsFiniteSet(Id) /\ Kind \in [Id -> {"cell", "propagator"}]
  /\ DOMAIN Space = Id /\ DOMAIN Label = Id

outNeighbors(graph, n) == {e[2] : e \in {d \in graph.edge : d[1] = n}}
inNeighbors(graph, n)  == {e[1] : e \in {d \in graph.edge : d[2] = n}}
-----------------------------------------------------------------------------
(* Searches *)

Outbound(graph) == [n \in Id |-> outNeighbors(graph, n)]
Inbound(graph)  == [n \in Id |-> inNeighbors(graph, n)]

\* A breadth-first search: visit what is queued unless it was visited, and go
\* on to the nodes next to it.
SearchState == [queue : SUBSET Id, visited : SUBSET Id]

SearchStep(s, next) ==
  LET n == CHOOSE m \in s.queue \ s.visited : TRUE
  IN  [queue |-> (s.queue \ {n}) \cup next[n], visited |-> s.visited \cup {n}]

bfs(queue, visited, next) ==
  LET run[s \in SearchState] == IF s.queue \subseteq s.visited THEN s ELSE run[SearchStep(s, next)]
  IN  run[[queue |-> queue, visited |-> visited]].visited

\* (faulty variant: the search does not come back to its source)
PairsApart(graph) ==
  UNION {{<<source, n>> : n \in bfs(Outbound(graph)[source], {source}, Outbound(graph)) \ {source}}
         : source \in graph.node}

\* enumerate_reachable_pairs: the search of a source starts at its neighbours
\* with nothing visited, so a node is reachable from itself around a cycle.
enumerate_reachable_pairs(graph) ==
  UNION {{<<source, n>> : n \in bfs(Outbound(graph)[source], {}, Outbound(graph))} : source \in graph.node}

induced_subgraph_from_ids(graph, ids) ==
  [node |-> graph.node \cap ids, edge |-> graph.edge \cap (ids \X ids)]

connected_component(graph, seeds) ==
  induced_subgraph_from_ids(graph,
    bfs(seeds \cap graph.node, {}, [n \in Id |-> Inbound(graph)[n] \cup Outbound(graph)[n]]))
-----------------------------------------------------------------------------
(* Combinators *)

StartsWith(prefix, text) == IsPrefix(prefix, text)

induced_subgraph_by_node_predicate(graph, keep) ==
  LET drop_ids == {n \in graph.node : ~keep[n]}
  IN  induced_subgraph_from_ids(graph, graph.node \ drop_ids)

subgraph_by_namespace(graph, ns) == induced_subgraph_by_node_predicate(graph, [n \in Id |-> StartsWith(ns, Space[n])])

\* bfsFromNode visits the seed itself first.
collect_reachable_from_anchors(graph, anchors, mode) ==
  bfs(anchors, {}, IF mode = "outbound" THEN Outbound(graph) ELSE Inbound(graph))

subgraph_by_namespace_connected(graph, ns) ==
  LET anchors == {n \in graph.node : StartsWith(ns, Space[n])}
      kept    == collect_reachable_from_anchors(graph, anchors, "outbound")
                   \cup collect_reachable_from_anchors(graph, anchors, "inbound")
  IN  induced_subgraph_by_node_predicate(graph, [n \in Id |-> n \in kept])

default_is_accessor(n) == StartsWith(<<"Core", "|", "accessor">>, Label[n])

\* The first nodes that are not accessors: the search goes on through accessors
\* only, and what it stops at is kept; the source counts as visited.
reach_non_accessor(graph, source) ==
  LET on   == [n \in Id |-> IF default_is_accessor(n) THEN outNeighbors(graph, n) ELSE {}]
      seen == bfs(outNeighbors(graph, source), {source}, on)
  IN  {n \in seen \ {source} : ~default_is_accessor(n)}

collapse_accessor_paths(graph) ==
  LET kept == {n \in graph.node : ~default_is_accessor(n)}
  IN  [node |-> kept,
       edge |-> UNION {{<<n, m>> : m \in reach_non_accessor(graph, n) \cap kept} : n \in kept}]
=============================================================================
