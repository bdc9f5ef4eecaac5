---------------------------- MODULE GraphQueries ----------------------------
(***************************************************************************)
(* The query language of graph_relations.ts: groups of clauses, and what   *)
(* they make of the goals of GraphRelations.                               *)
(***************************************************************************)
EXTENDS GraphRelations

\* A group of clauses is [op, clauses].
Compound == {"and", "or"}

\* What is in the place of a clause and has no operation is dropped; text that
\* is not a query is none.
NoQuery == [where |-> <<>>]
to_logic_query_spec(input) ==
  IF "where" \notin DOMAIN input THEN NoQuery
  ELSE [input EXCEPT !.where = SelectSeq(@, LAMBDA c : "op" \in DOMAIN c)]

\* clause_goal gives no goal for an unknown operation, and none for an "or" with
\* no goals left; the caller leaves such a clause out.
RECURSIVE HasGoal(_)
HasGoal(c) == \/ c.op \in Known \cup {"and"}
              \/ c.op = "or" /\ \E i \in DOMAIN c.clauses : HasGoal(c.clauses[i])
Goals(clauses) == SelectSeq(clauses, HasGoal)

RECURSIVE clause_goal(_, _, _)
goal_or(graph, clauses, state) ==
  UNION {clause_goal(graph, c, state) : c \in Range(Goals(clauses))}

clause_goal(graph, clause, state) ==
  CASE clause.op = "and" -> goal_and(LAMBDA c, s : clause_goal(graph, c, s), Goals(clause.clauses), {state})
    [] clause.op = "or"  -> goal_or(graph, clause.clauses, state)
    [] OTHER             -> relation_goal(graph, clause, state)

\* The variables of the clauses that make a goal, under their names.
RECURSIVE Named(_)
Named(c) == IF c.op \in Compound THEN UNION {Named(c.clauses[i]) : i \in DOMAIN c.clauses}
            ELSE IF ~HasGoal(c) THEN {}
            ELSE Asked(c.terms)

\* graph_rel_run_query: the answers are the values of the selected terms, or of
\* all variables. Their number may be limited; that is left out.
graph_rel_run_query(graph, input) ==
  LET query  == to_logic_query_spec(input)
      where  == Goals(query.where)
      select == IF "select" \in DOMAIN query THEN logic_query_terms(query.select)
                ELSE default_projection(UNION {Named(c) : c \in Range(query.where)})
  IN  IF where = <<>> THEN {}
      ELSE Projected(select, goal_and(LAMBDA c, s : clause_goal(graph, c, s), where, {empty_goal_state(0)}))

graph_rel_exists_query(graph, input) == graph_rel_run_query(graph, input) # {}
=============================================================================
