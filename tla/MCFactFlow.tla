----------------------------- MODULE MCFactFlow -----------------------------
(***************************************************************************)
(* FactFlow over two propagators, from a to b and back, with the programs  *)
(* of Datalog. A third cell of the triad is isolated.                      *)
(***************************************************************************)
EXTENDS FactFlow

D == INSTANCE Datalog

MCNode == {"ab", "ba"}
MCBase(n) == IF n = "ab" THEN {<<"reads", n, "a">>, <<"writes", n, "b">>}
                         ELSE {<<"reads", n, "b">>, <<"writes", n, "a">>}

MCRules == {"reachability", "flows"}
MCProg  == "reachability"
RulesOf(r) == IF r = "reachability" THEN D!topology_reachability_program("semi-naive").rules
                                    ELSE <<D!flows_to_rule>>
MCFact == MCBase("ab") \cup MCBase("ba") \cup {<<"flows_to", "a", "b">>, <<"flows_to", "b", "a">>}
            \cup {<<"reachable", x, y>> : x, y \in {"a", "b"}}

\* What the programs derive over two cells, and that the evaluator derives just
\* this from every set of facts.
FlowsIn(S) == {<<f[2], f[3]>> : f \in {g \in S : g[1] = "flows_to"}}
                \cup {<<f[3], g[3]>> : <<f, g>> \in {h \in S \X S : /\ h[1][1] = "reads" /\ h[2][1] = "writes"
                                                                /\ h[1][2] = h[2][2]}}
Then(R, F) == R \cup {<<e[1], g[2]>> : <<e, g>> \in {h \in R \X F : h[1][2] = h[2][1]}}
ReachIn(S) == LET F == FlowsIn(S)
                  R == F \cup {<<f[2], f[3]>> : f \in {g \in S : g[1] = "reachable"}}
              IN  Then(Then(R, F), F)
MCEval(r, S) ==
  S \cup {<<"flows_to">> \o e : e \in FlowsIn(S)}
    \cup (IF r = "flows" THEN {} ELSE {<<"reachable">> \o e : e \in ReachIn(S)})
MCOnce(r, S) ==
  {<<"flows_to">> \o e : e \in FlowsIn(S)}
    \cup (IF r = "flows" THEN {}
          ELSE LET F == {<<f[2], f[3]>> : f \in {g \in S : g[1] = "flows_to"}}
                   R == {<<f[2], f[3]>> : f \in {g \in S : g[1] = "reachable"}}
               IN  {<<"reachable">> \o e : e \in F \cup Then(R, F)})
MCIdb(r, S)  == {f \in S : f[1] = "flows_to" \/ (r = "reachability" /\ f[1] = "reachable")}
MCStage(S) ==
  S \cup {<<"surface_one_way", x, y>> : <<x, y>> \in
           {e \in {<<"a", "b">>, <<"b", "a">>} : <<"reachable">> \o e \in S /\ <<"reachable", e[2], e[1]>> \notin S}}

ASSUME ProgramsAssumption ==
  \A S \in SUBSET MCFact :
    /\ \A r \in MCRules :
         /\ MCEval(r, S) = D!evaluate_program(D!program("semi-naive", RulesOf(r)), S)
         /\ S \cup MCOnce(r, S) = S \cup UNION {D!Derived(RulesOf(r)[i], S) : i \in DOMAIN RulesOf(r)}
    /\ MCStage(S) = D!evaluate_program(D!topology_triad_one_way_surface_program("a", "b", "c", "semi-naive"), S)

MCClaim == MCFact \cup {<<"surface_one_way", x, y>> : x, y \in {"a", "b"}}

MCAnswer(S) == {<<"q_row">> \o f : f \in {g \in S : g[1] = "reachable" /\ g[2] = "a"}}
MCGraph(S, rows) == {f \in S : f[1] \in {"reads", "writes"} /\ \E row \in rows : f[3] \in {row[3], row[4]}}


\* What can be reached from a cell, and what flows into one.
MCPattern == {"from a", "into b"}
MCMatch(p, S) == {f \in S : IF p = "from a" THEN f[1] = "reachable" /\ f[2] = "a"
                                           ELSE f[1] = "flows_to" /\ f[3] = "b"}

MCWirings == {Programs, Asking, Deriving, OwnEngine}

\* What a snapshot has of a propagator gets to the end of the line, through the
\* incremental engine as well, also when that was built after the snapshot
\* (construct_kiroshi_propagator, KiroshiPropagator.ts:154-200).
FactsArrive ==
  /\ (<<"writes", "ab", "b">> \in topoFacts /\ "union" \in wiring)
       ~> <<"reachable", "a", "b">> \in FactsOf(joined)
  /\ (<<"writes", "ab", "b">> \in topoFacts /\ wired # Nothing)
       ~> <<"flows_to", "a", "b">> \in FactsOf(out)
=============================================================================
