--------------------------- MODULE MCGraphQueries ---------------------------
(***************************************************************************)
(* Every traced graph over three cells and two propagators, and what       *)
(* GraphQueries and Datalog answer about it, held against definitions by   *)
(* paths and sets.                                                         *)
(***************************************************************************)
EXTENDS GraphQueries, TracedGraphs, TLC

D == INSTANCE Datalog

MCId    == {"c1", "c2", "c3", "p1", "p2"}
MCKind  == [n \in MCId |-> IF n \in {"p1", "p2"} THEN "propagator" ELSE "cell"]
MCSpace == "c1" :> <<":", ":">> @@ "c2" :> <<":", ":", "k">> @@ "c3" :> <<"u">>
             @@ "p1" :> <<"Core">> @@ "p2" :> <<"Core">>
MCLevel == [n \in MCId |-> IF n \in {"c1", "p1"} THEN 0 ELSE 1]
\* Two cards, the id of one the beginning of the other's; an accessor among the
\* cells and one among the propagators.
MCLabel == "c1" :> <<"CARD", "|", "k", "1", "|", "this">> @@ "c2" :> <<"CARD", "|", "k", "1", "2", "|", "this">>
             @@ "c3" :> <<"Core", "|", "accessor", "x">> @@ "p1" :> <<"Core", "|", "accessor">>
             @@ "p2" :> <<"Core", "|", "+">>
MCValue == "c1" :> "v"
MCLive  == {"c1", "c3"}
MCSpaces == {<<":", ":">>, <<"Core">>}
MCTitles == {<<"CARD">>, <<"Core", "|", "accessor">>}
MCCards  == {<<"k", "1">>, <<"k", "1", "2">>}
MCOrder  == <<"c1", "c2", "c3", "p1", "p2">>
Cells(g) == {n \in g.node : Kind[n] = "cell"}

-----------------------------------------------------------------------------
x == Asks("x")
y == Asks("y")
z == Asks("z")
Clause(op, terms) == [op |-> op, terms |-> terms]
SomeNode(t) == Clause("label_prefix", <<t, Atom(<<>>)>>)
Flat == {Clause("edge", <<x, y>>), Clause("upstream_of", <<x, y>>), Clause("label_prefix", <<y, Atom(<<"Core">>)>>),
         Clause("equal", <<x, y>>), Clause("equal", <<y, Atom("p1")>>), Clause("join_through", <<x, y, x>>),
         Clause("level", <<y, Atom(0)>>)}
MCQueries == {<<c, d, SomeNode(x), SomeNode(y)>> : c \in Flat, d \in {e \in Flat : e.op \in {"edge", "equal"}}}
               \cup {<<Clause("reachable", <<x, x>>)>>,
                     <<Clause("equal", <<x, z>>), Clause("edge", <<x, y>>), Clause("reachable", <<y, z>>)>>}

\* Groups of clauses: what makes no goal is as if it were not there, one of two
\* may hold, and what is selected is answered.
Group(op, clauses) == [op |-> op, clauses |-> clauses]
GroupsMean ==
  LET after == Paths(traced)
      either == Group("or", <<Clause("level", <<y, Atom(0)>>), Clause("oops", <<x>>), Group("and", <<Clause("edge", <<y, x>>)>>)>>)
      ask(c) == graph_rel_run_query(traced, [where |-> <<c, Clause("oops", <<>>), either, [junk |-> 0],
                                                         Clause("node", <<x, Asks("ax")>>), Clause("node", <<y, Asks("ay")>>)>>,
                                             select |-> <<x, y>>])
  IN  /\ ~graph_rel_exists_query(traced, [where |-> <<Clause("oops", <<x>>), Group("or", <<>>)>>])
      /\ graph_rel_run_query(traced, [where |-> <<Group("and", <<Clause("edge", <<x, y>>), SomeNode(x)>>)>>])
           = run_clauses(traced, <<Clause("edge", <<x, y>>)>>)
      /\ \A c \in Flat :
           ask(c) = {<<Atom(p[1]), Atom(p[2])>> :
                       p \in {q \in Id \X Id : /\ Means(c, [x |-> q[1], y |-> q[2]], after)
                                              /\ (Level[q[2]] = 0 \/ <<q[2], q[1]>> \in traced.edge)}}

\* What Datalog derives from a network or a traced graph is what searching and
\* filtering the graph answer; answers lead back to the part of the graph they
\* speak of (the programs "mirror" the queries, TracedGraphDatalog.ts:8-16).
attr == [kind |-> Kind, space |-> Space, level |-> Level, label |-> Label, value |-> Value]
net  == [cell |-> Cells(traced), prop |-> traced.node \ Cells(traced),
         reads  |-> {<<e[2], e[1]>> : e \in {f \in traced.edge : Kind[f[1]] = "cell"}},
         writes |-> {e \in traced.edge : Kind[e[1]] = "propagator"},
         space |-> Space, level |-> Level, label |-> Label, value |-> Value]
Topology == D!snapshot_topology_facts(net)
Ids(prog, pred) == D!node_ids_from_facts(D!evaluate_traced_program(traced, attr, prog), pred)
Pairs(facts, pred) == {<<f[2], f[3]>> : f \in {g \in facts : g[1] = pred}}

DatalogAgreesWithSearch ==
  LET flow    == D!evaluate_program(D!topology_mutual_reach_program("semi-naive"), {f \in Topology : f[1] \in {"reads", "writes"}})
      pairs   == enumerate_reachable_pairs(traced) \cap (Cells(traced) \X Cells(traced))
      triad   == D!evaluate_program(D!topology_triad_one_way_surface_program("c1", "c2", "c3", "semi-naive"),
                                    {f \in flow : f[1] = "reachable"})
      rows    == D!q_rows(D!atom("reachable", <<Atom("c1"), Var("y")>>), flow)
      keep    == D!entity_ids_from_q_row_facts(rows)
      shown   == D!graphology_from_topology_facts(Topology, keep \cup {"p1", "p2"})
      up      == Inside(traced, {"c1"} \cup {n \in Id : <<n, "c1">> \in enumerate_reachable_pairs(traced)})
      down    == graph_query_downstream_of(traced, "c1")
      traces  == D!evaluate_trace_pair_program(up, down, D!traced_trace_pair_program)
  IN  /\ Pairs(flow, "reachable") = pairs
      /\ Pairs(flow, "mutual_reach") = {p \in pairs : <<p[2], p[1]>> \in pairs}
      /\ Pairs(triad, "surface_one_way") = {p \in pairs : p[1] # p[2] /\ <<p[2], p[1]>> \notin pairs}
      /\ keep = (IF rows = {} THEN {} ELSE {"c1"}) \cup {p[2] : p \in {q \in pairs : q[1] = "c1"}}
      /\ [node |-> shown.node, edge |-> shown.edge] = Inside(traced, keep \cup {"p1", "p2"})
      /\ \A n \in shown.node : shown.kind[n] = Kind[n] /\ shown.space[n] = Space[n]
      /\ D!node_ids_from_facts(traces, "union_node") = union_graphs(up, down).node
      /\ D!node_ids_from_facts(traces, "both_node") = intersect_graphs(up, down).node
      /\ Ids(D!traced_card_slot_cell_program, "card_cell")
           = intersect_graphs(subgraph_by_namespace(traced, <<":", ":">>), subgraph_by_kind(traced, "cell")).node
      /\ Ids(D!traced_cell_at_level_program(1), "level_cell")
           = intersect_graphs(subgraph_by_level(traced, 1), subgraph_by_kind(traced, "cell")).node

\* A query with groups, and a Datalog program, answer what searching the graph and
\* filtering it does (graph_rel_run_query, graph_rel_exists_query,
\* evaluate_traced_program, evaluate_trace_pair_program, node_ids_from_facts).
LogicAgreesWithSearch == GroupsMean /\ DatalogAgreesWithSearch
=============================================================================
