--------------------------- MODULE FactFlow_proofs ---------------------------
(***************************************************************************)
(* Proofs about FactFlow, for any rules, facts and observed network: its   *)
(* types, that facts only accumulate, what the pipeline and the two ways   *)
(* of deriving show once nothing is queued, and that every conclusion of   *)
(* the second program has been true of the snapshots of some moment.       *)
(***************************************************************************)
EXTENDS FactFlow, SequenceTheorems, TLAPS

-----------------------------------------------------------------------------
(* What a step does to the queue and the cells.                            *)

\* Who is in the queue stays there until its own run.
LEMMA OnlyOwnRuns ==
  ASSUME [Next]_vars
  PROVE  /\ "snapshot" \in queue \ queue' => topology_snapshot
         /\ "derive" \in queue \ queue' => run_program
         /\ "stage" \in queue \ queue' => wire_sequential_programs
         /\ "union" \in queue \ queue' => p_datalog_union
         /\ "query" \in queue \ queue' => construct_grounded_query_propagator
         /\ "filter" \in queue \ queue' => construct_topology_filtered_graph_propagator
         /\ "batch" \in queue \ queue' => p_datalog_derive
         /\ "match" \in queue \ queue' => p_datalog_query
         /\ "bridge" \in queue \ queue' => bridge
         /\ "infer" \in queue \ queue' => infer
         /\ "forward" \in queue \ queue' => forward
         /\ "topology" \in queue \ queue' => p_kiroshi_topology
<1>1. CASE UNCHANGED vars BY <1>1 DEF vars
<1>2. CASE \E n \in Node : construct_propagator(n) \/ dispose_propagator(n)
  BY <1>2 DEF construct_propagator, dispose_propagator
<1>3. CASE update_trigger BY <1>3 DEF update_trigger
<1>4. CASE \E r \in Rules : update_rules(r) BY <1>4 DEF update_rules
<1>5. CASE \E p \in Pattern : ask(p) BY <1>5 DEF ask
<1>6. ASSUME Run, NEW q \in {"snapshot", "derive", "stage", "union", "query", "filter", "batch", "match",
                            "bridge", "infer", "forward", "topology"},
             q \in queue \ queue'
      PROVE  \/ q = "snapshot" /\ topology_snapshot
             \/ q = "derive" /\ run_program
             \/ q = "stage" /\ wire_sequential_programs
             \/ q = "union" /\ p_datalog_union
             \/ q = "query" /\ construct_grounded_query_propagator
             \/ q = "filter" /\ construct_topology_filtered_graph_propagator
             \/ q = "batch" /\ p_datalog_derive
             \/ q = "match" /\ p_datalog_query
             \/ q = "bridge" /\ bridge
             \/ q = "infer" /\ infer
             \/ q = "forward" /\ forward
             \/ q = "topology" /\ p_kiroshi_topology
  <2>1. ASSUME NEW s, NEW C, Ran(s, C) PROVE q = s
    BY <1>6, <2>1 DEF Ran
  <2>2. CASE topology_snapshot BY <2>1, <2>2 DEF topology_snapshot
  <2>3. CASE run_program BY <2>1, <2>3 DEF run_program
  <2>4. CASE wire_sequential_programs BY <2>1, <2>4 DEF wire_sequential_programs
  <2>5. CASE p_datalog_union BY <2>1, <2>5 DEF p_datalog_union
  <2>6. CASE construct_grounded_query_propagator
    BY <2>1, <2>6 DEF construct_grounded_query_propagator
  <2>7. CASE construct_topology_filtered_graph_propagator
    BY <2>1, <2>7 DEF construct_topology_filtered_graph_propagator
  <2>8. CASE p_datalog_derive BY <2>1, <2>8 DEF p_datalog_derive
  <2>9. CASE p_datalog_query BY <2>1, <2>9 DEF p_datalog_query
  <2>10. CASE bridge BY <2>1, <2>10 DEF bridge
  <2>11. CASE infer BY <2>1, <2>11 DEF infer
  <2>12. CASE forward BY <2>1, <2>12 DEF forward
  <2>13. CASE p_kiroshi_derive BY <1>6, <2>13 DEF p_kiroshi_derive
  <2>14. CASE p_kiroshi_topology BY <1>6, <2>14 DEF p_kiroshi_topology
  <2> QED BY <1>6, <2>2, <2>3, <2>4, <2>5, <2>6, <2>7, <2>8, <2>9, <2>10, <2>11, <2>12, <2>13, <2>14 DEF Run
<1>7. CASE Run BY <1>6, <1>7
<1> QED BY <1>1, <1>2, <1>3, <1>4, <1>5, <1>7 DEF Next

\* A cell changes when its own propagator runs.
LEMMA OnlyOwnCells ==
  ASSUME [Next]_vars
  PROVE  /\ wiring' = wiring
         /\ topo' = topo \/ topology_snapshot
         /\ derived' = derived \/ run_program
         /\ staged' = staged \/ wire_sequential_programs
         /\ joined' = joined \/ p_datalog_union
         /\ answers' = answers \/ construct_grounded_query_propagator
         /\ shown' = shown \/ construct_topology_filtered_graph_propagator
         /\ batch' = batch \/ p_datalog_derive
         /\ matched' = matched \/ p_datalog_query
         /\ engine' = engine \/ bridge \/ infer
         /\ seen_counts' = seen_counts \/ bridge
         /\ out' = out \/ forward
         /\ wired' = wired \/ p_kiroshi_derive \/ p_kiroshi_topology
         /\ UNCHANGED <<rules, given>> \/ \E r \in Rules : update_rules(r)
         /\ pattern' = pattern \/ \E p \in Pattern : ask(p)
<1>1. CASE UNCHANGED vars BY <1>1 DEF vars, pipeline, primitives, queried
<1>2. CASE \E n \in Node : construct_propagator(n) \/ dispose_propagator(n)
  BY <1>2 DEF construct_propagator, dispose_propagator, pipeline, primitives, queried
<1>3. CASE update_trigger BY <1>3 DEF update_trigger, pipeline, primitives, queried
<1>4. CASE \E r \in Rules : update_rules(r) BY <1>4 DEF update_rules, pipeline, queried
<1>5. CASE \E p \in Pattern : ask(p) BY <1>5 DEF ask, pipeline, primitives
<1>6. CASE topology_snapshot BY <1>6 DEF topology_snapshot, pipeline, primitives, queried
<1>7. CASE run_program BY <1>7 DEF run_program, primitives, queried
<1>8. CASE wire_sequential_programs BY <1>8 DEF wire_sequential_programs, primitives, queried
<1>9. CASE p_datalog_union BY <1>9 DEF p_datalog_union, primitives, queried
<1>10. CASE construct_grounded_query_propagator
  BY <1>10 DEF construct_grounded_query_propagator, primitives, queried
<1>11. CASE construct_topology_filtered_graph_propagator
  BY <1>11 DEF construct_topology_filtered_graph_propagator, primitives, queried
<1>12. CASE p_datalog_derive BY <1>12 DEF p_datalog_derive, pipeline, queried
<1>13. CASE p_datalog_query BY <1>13 DEF p_datalog_query, pipeline, primitives
<1>14. CASE p_kiroshi_derive BY <1>14 DEF p_kiroshi_derive, pipeline, queried
<1>15. CASE p_kiroshi_topology BY <1>15 DEF p_kiroshi_topology, pipeline, queried
<1>16. CASE bridge BY <1>16 DEF bridge, pipeline, queried
<1>17. CASE infer BY <1>17 DEF infer, pipeline, queried
<1>18. CASE forward BY <1>18 DEF forward, pipeline, queried
<1> QED
  BY <1>1, <1>2, <1>3, <1>4, <1>5, <1>6, <1>7, <1>8, <1>9, <1>10, <1>11, <1>12, <1>13, <1>14, <1>15, <1>16,
     <1>17, <1>18 DEF Next, Run

\* A cell that changed has its readers queued.
LEMMA Announced ==
  ASSUME [Next]_vars
  PROVE  /\ topo' # topo => Readers("topo") \subseteq queue'
         /\ derived' # derived => Readers("derived") \subseteq queue'
         /\ staged' # staged => Readers("staged") \subseteq queue'
         /\ answers' # answers => Readers("answers") \subseteq queue'
         /\ engine' # engine => Readers("engine") \subseteq queue'
         /\ rules' # rules => Readers("rules") \subseteq queue'
         /\ pattern' # pattern => Readers("pattern") \subseteq queue'
<1>1. ASSUME NEW q, NEW c, NEW old, NEW new, Ran(q, Alerts(c, old, new)), new # old
      PROVE  Readers(c) \subseteq queue'
  BY <1>1 DEF Ran, Alerts
<1>2. topo' # topo => Readers("topo") \subseteq queue'
  BY <1>1, OnlyOwnCells DEF topology_snapshot
<1>3. derived' # derived => Readers("derived") \subseteq queue'
  BY <1>1, OnlyOwnCells DEF run_program
<1>4. staged' # staged => Readers("staged") \subseteq queue'
  BY <1>1, OnlyOwnCells DEF wire_sequential_programs
<1>5. answers' # answers => Readers("answers") \subseteq queue'
  BY <1>1, OnlyOwnCells DEF construct_grounded_query_propagator
<1>6. engine' # engine => Readers("engine") \subseteq queue'
  BY <1>1, OnlyOwnCells DEF bridge, infer
<1>7. rules' # rules => Readers("rules") \subseteq queue'
  BY OnlyOwnCells DEF update_rules
<1>8. pattern' # pattern => Readers("pattern") \subseteq queue'
  BY OnlyOwnCells DEF ask
<1> QED BY <1>2, <1>3, <1>4, <1>5, <1>6, <1>7, <1>8

\* Who reads which cell.
LEMMA ReadersOf ==
  /\ Readers("topo") = wiring \cap ({"derive", "filter", "batch", "setup"} \cup {q \in {"bridge"} : wired # Nothing})
  /\ Readers("derived") = wiring \cap {"stage", "query", "union", "match"}
  /\ Readers("pattern") = wiring \cap {"match"}
  /\ Readers("answers") = wiring \cap {"filter"}
  /\ Readers("rules") = wiring \cap {"batch", "setup"}
  /\ Readers("engine") = wiring \cap {"infer", "forward"}
  /\ Readers("staged") = wiring \cap {"union"}
BY DEF Readers

-----------------------------------------------------------------------------
(* The cell of the topology.                                               *)

\* All that was ever snapshot is a set of facts.
LEMMA UptoType ==
  ASSUME TypeOK
  PROVE  /\ Upto(0) = {}
         /\ Len(topo) \in Nat
         /\ \A k \in 0..Len(topo) : Upto(k) \subseteq topoFacts
         /\ topoFacts \in SUBSET Fact
<1>1. Len(topo) \in Nat /\ \A i \in 1..Len(topo) : topo[i] \subseteq Fact
  BY DEF TypeOK
<1> QED BY <1>1 DEF Upto, topoFacts

\* A snapshot adds what is new at the end and leaves what was there in place.
LEMMA TopoGrows ==
  ASSUME TypeOK, [Next]_vars
  PROVE  /\ topo' \in Seq(SUBSET Fact)
         /\ Len(topo) <= Len(topo')
         /\ \A i \in 1..Len(topo) : topo'[i] = topo[i]
         /\ \A k \in 0..Len(topo) : Upto(k)' = Upto(k)
         /\ topoFacts \subseteq topoFacts'
         /\ topo # <<>> => topo' # <<>>
         /\ topology_snapshot => topo' # <<>>
<1>1. CASE topology_snapshot /\ topo' # topo
  <2> DEFINE facts == UNION {Base(n) : n \in live}
  <2>1. topo' = Append(topo, facts \ topoFacts)
    BY <1>1 DEF topology_snapshot, Appended
  <2>2. facts \ topoFacts \in SUBSET Fact
    BY FlowAssumption DEF TypeOK
  <2>3. /\ topo' \in Seq(SUBSET Fact) /\ Len(topo') = Len(topo) + 1 /\ Len(topo) \in Nat
        /\ \A i \in 1..Len(topo) : topo'[i] = topo[i]
    BY <2>1, <2>2, AppendProperties DEF TypeOK
  <2>4. \A k \in 0..Len(topo) : Upto(k)' = Upto(k)
    BY <2>3 DEF Upto
  <2>5. topo' # <<>>
    BY <2>3
  <2>6. topoFacts \subseteq topoFacts'
    BY <2>3 DEF topoFacts, Upto
  <2> QED BY <2>3, <2>4, <2>5, <2>6
<1>2. CASE topo' = topo
  <2>1. topology_snapshot => topo' # <<>>
    <3> DEFINE added == UNION {Base(n) : n \in live} \ topoFacts
    <3>1. Append(topo, added) # <<>>
      BY AppendProperties, FlowAssumption DEF TypeOK
    <3> QED BY <1>2, <3>1 DEF topology_snapshot, Appended
  <2> QED BY <1>2, <2>1, UptoType DEF TypeOK, Upto, topoFacts
<1> QED BY <1>1, <1>2, OnlyOwnCells

-----------------------------------------------------------------------------
(* Types, and that nothing is retracted.                                   *)

\* The readers of a cell are propagators of the circuit.
LEMMA ReadersWired == \A c : Readers(c) \subseteq wiring
BY DEF Readers

\* Until there are rules for it the engine is empty and nothing of it runs.
Unwired == wired = Nothing =>
  /\ engine = {} /\ out = Nothing /\ seen_counts = 0
  /\ queue \cap {"bridge", "infer", "forward"} = {}

LEMMA UnwiredStep ==
  ASSUME Unwired, [Next]_vars
  PROVE  Unwired'
<1> SUFFICES ASSUME wired' = Nothing
             PROVE  /\ engine' = {} /\ out' = Nothing /\ seen_counts' = 0
                    /\ queue' \cap {"bridge", "infer", "forward"} = {}
  BY DEF Unwired
<1>1. wired = Nothing
  BY OnlyOwnCells DEF p_kiroshi_derive, p_kiroshi_topology
<1>2. ~bridge /\ ~infer /\ ~forward
  BY <1>1 DEF Unwired, bridge, infer, forward
<1>3. engine' = {} /\ out' = Nothing /\ seen_counts' = 0
  BY <1>1, <1>2, OnlyOwnCells DEF Unwired
<1>4. ASSUME NEW q \in {"bridge", "infer", "forward"}, q \in queue' PROVE FALSE
  <2>1. q \notin queue
    BY <1>1, <1>4 DEF Unwired
  <2>2. ASSUME NEW c \in {"trigger", "topo", "derived", "pattern", "answers", "rules", "staged", "batch"}
        PROVE  q \notin Readers(c)
    BY <1>1, <1>4, <2>2 DEF Readers
  <2>3. ASSUME NEW s, NEW c \in {"topo", "derived", "answers", "staged", "batch"}, NEW old, NEW new
        PROVE  ~Ran(s, Alerts(c, old, new)) /\ ~Ran(s, {})
    BY <1>4, <2>1, <2>2, <2>3 DEF Ran, Alerts
  <2>4. CASE UNCHANGED vars BY <1>4, <2>1, <2>4 DEF vars
  <2>5. CASE \E n \in Node : construct_propagator(n) \/ dispose_propagator(n)
    BY <1>4, <2>1, <2>5 DEF construct_propagator, dispose_propagator
  <2>6. CASE update_trigger BY <1>4, <2>1, <2>2, <2>6 DEF update_trigger
  <2>7. CASE \E r \in Rules : update_rules(r) BY <1>4, <2>1, <2>2, <2>7 DEF update_rules
  <2>8. CASE \E p \in Pattern : ask(p) BY <1>4, <2>1, <2>2, <2>8 DEF ask
  <2>9. CASE topology_snapshot BY <2>3, <2>9 DEF topology_snapshot
  <2>10. CASE run_program BY <2>3, <2>10 DEF run_program
  <2>11. CASE wire_sequential_programs BY <2>3, <2>11 DEF wire_sequential_programs
  <2>12. CASE p_datalog_union BY <2>3, <2>12 DEF p_datalog_union
  <2>13. CASE construct_grounded_query_propagator BY <2>3, <2>13 DEF construct_grounded_query_propagator
  <2>14. CASE construct_topology_filtered_graph_propagator
    BY <2>3, <2>14 DEF construct_topology_filtered_graph_propagator
  <2>15. CASE p_datalog_derive BY <2>3, <2>15 DEF p_datalog_derive
  <2>16. CASE p_datalog_query BY <2>3, <2>16 DEF p_datalog_query
  <2>17. CASE p_kiroshi_derive BY <1>1, <1>4, <2>1, <2>17 DEF p_kiroshi_derive
  <2>18. CASE p_kiroshi_topology BY <1>1, <1>4, <2>1, <2>18 DEF p_kiroshi_topology
  <2> QED
    BY <1>2, <2>4, <2>5, <2>6, <2>7, <2>8, <2>9, <2>10, <2>11, <2>12, <2>13, <2>14, <2>15, <2>16, <2>17, <2>18
       DEF Next, Run
<1> QED BY <1>3, <1>4

\* What a run adds to a cell of facts is a set of facts, or of claims.
LEMMA Merges ==
  ASSUME TypeOK, Unwired, [Next]_vars
  PROVE  /\ derived' = derived \/ \E S \in SUBSET Fact : derived' = merge_fact_sets(derived, S)
         /\ batch' = batch \/ \E S \in SUBSET Fact : batch' = merge_fact_sets(batch, S)
         /\ matched' = matched \/ \E S \in SUBSET Fact : matched' = merge_fact_sets(matched, S)
         /\ out' = out \/ \E S \in SUBSET Fact : out' = merge_fact_sets(out, S)
         /\ engine' = engine \/ \E S \in SUBSET Fact : engine' = engine \cup S
         /\ staged' = staged \/ \E S \in SUBSET Claim : staged' = merge_fact_sets(staged, S)
         /\ joined' = joined \/ \E S \in SUBSET Claim : joined' = merge_fact_sets(joined, S)
<1>1. run_program => Eval(Prog, topoFacts) \in SUBSET Fact
  BY UptoType, FlowAssumption, ClosureAssumption
<1>2. p_datalog_derive /\ batch' # batch => Eval(rules, topoFacts) \in SUBSET Fact
  BY UptoType, ClosureAssumption DEF TypeOK, p_datalog_derive
<1>3. p_datalog_query /\ matched' # matched =>
        /\ Match(pattern, derived) \in SUBSET Fact
        /\ matched' = merge_fact_sets(matched, Match(pattern, derived))
  BY QueryAssumption DEF TypeOK, p_datalog_query, Cell, is_fact_set
<1>4. forward => Idb(wired, engine) \in SUBSET Fact
  <2>1. forward => wired \in Rules
    BY DEF TypeOK, Unwired, forward
  <2> QED BY <2>1, ClosureAssumption DEF TypeOK
<1>5. bridge => NewFacts \in SUBSET Fact
  BY DEF TypeOK, NewFacts
<1>6. infer => Once(wired, engine) \in SUBSET Fact
  <2>1. infer => wired \in Rules
    BY DEF TypeOK, Unwired, infer
  <2> QED BY <2>1, ClosureAssumption DEF TypeOK
<1>7. FactsOf(derived) \in SUBSET Fact
  BY DEF TypeOK, Cell, FactsOf, is_fact_set
<1>8. Stage(FactsOf(derived)) \in SUBSET Claim
  BY <1>7, QueryAssumption
<1>9. FactsOf(derived) \cup FactsOf(staged) \in SUBSET Claim
  BY <1>7, FlowAssumption DEF TypeOK, FactsOf, is_fact_set
<1>10. derived' = derived \/ \E S \in SUBSET Fact : derived' = merge_fact_sets(derived, S)
  BY <1>1, OnlyOwnCells DEF run_program
<1>11. batch' = batch \/ \E S \in SUBSET Fact : batch' = merge_fact_sets(batch, S)
  BY <1>2, OnlyOwnCells DEF p_datalog_derive
<1>12. matched' = matched \/ \E S \in SUBSET Fact : matched' = merge_fact_sets(matched, S)
  BY <1>3, OnlyOwnCells
<1>13. out' = out \/ \E S \in SUBSET Fact : out' = merge_fact_sets(out, S)
  BY <1>4, OnlyOwnCells DEF forward
<1>14. engine' = engine \/ \E S \in SUBSET Fact : engine' = engine \cup S
  BY <1>5, <1>6, OnlyOwnCells DEF bridge, infer, fact_array_merge
<1>15. staged' = staged \/ \E S \in SUBSET Claim : staged' = merge_fact_sets(staged, S)
  BY <1>8, OnlyOwnCells DEF wire_sequential_programs
<1>16. joined' = joined \/ \E S \in SUBSET Claim : joined' = merge_fact_sets(joined, S)
  BY <1>9, OnlyOwnCells DEF p_datalog_union
<1> QED BY <1>10, <1>11, <1>12, <1>13, <1>14, <1>15, <1>16

\* Merging into a cell of claims, or of facts, gives one that has lost nothing.
LEMMA Merged ==
  /\ \A c \in Cell, S \in SUBSET Fact : merge_fact_sets(c, S) \in Cell
  /\ \A c \in {Nothing} \cup SUBSET Claim, S \in SUBSET Claim :
       /\ merge_fact_sets(c, S) \in SUBSET Claim
       /\ FactsOf(merge_fact_sets(c, S)) = FactsOf(c) \cup S
  /\ Cell \subseteq {Nothing} \cup SUBSET Claim
BY FlowAssumption DEF Cell, FactsOf, is_fact_set, merge_fact_sets

\* Every step keeps every type.
LEMMA TypeStep ==
  ASSUME TypeOK, Unwired, [Next]_vars
  PROVE  TypeOK'
<1>1. queue' \subseteq wiring' /\ wiring' = wiring
  <2>1. wiring' = wiring /\ queue \subseteq wiring
    BY OnlyOwnCells DEF TypeOK
  <2>2. ASSUME NEW q, NEW C, Ran(q, C) PROVE queue' \subseteq wiring
    BY <2>1, <2>2, ReadersWired DEF Ran
  <2>3. CASE UNCHANGED vars BY <2>1, <2>3 DEF vars
  <2>4. CASE \E n \in Node : construct_propagator(n) \/ dispose_propagator(n)
    BY <2>1, <2>4 DEF construct_propagator, dispose_propagator
  <2>5. CASE update_trigger BY <2>1, <2>5, ReadersWired DEF update_trigger
  <2>6. CASE \E r \in Rules : update_rules(r) BY <2>1, <2>6, ReadersWired DEF update_rules
  <2>7. CASE \E p \in Pattern : ask(p) BY <2>1, <2>7, ReadersWired DEF ask
  <2>8. CASE topology_snapshot BY <2>1, <2>2, <2>8 DEF topology_snapshot
  <2>9. CASE run_program BY <2>1, <2>2, <2>9 DEF run_program
  <2>10. CASE wire_sequential_programs BY <2>1, <2>2, <2>10 DEF wire_sequential_programs
  <2>11. CASE p_datalog_union BY <2>1, <2>2, <2>11 DEF p_datalog_union
  <2>12. CASE construct_grounded_query_propagator
    BY <2>1, <2>2, <2>12 DEF construct_grounded_query_propagator
  <2>13. CASE construct_topology_filtered_graph_propagator
    BY <2>1, <2>2, <2>13 DEF construct_topology_filtered_graph_propagator
  <2>14. CASE p_datalog_derive BY <2>1, <2>2, <2>14 DEF p_datalog_derive
  <2>15. CASE p_datalog_query BY <2>1, <2>2, <2>15 DEF p_datalog_query
  <2>16. CASE bridge BY <2>1, <2>2, <2>16 DEF bridge
  <2>17. CASE infer BY <2>1, <2>2, <2>17 DEF infer
  <2>18. CASE forward BY <2>1, <2>2, <2>18 DEF forward
  <2>19. CASE p_kiroshi_derive BY <2>1, <2>19 DEF p_kiroshi_derive, Built
  <2>20. CASE p_kiroshi_topology
    <3>1. "topology" \in wiring
      BY <2>1, <2>20 DEF p_kiroshi_topology
    <3>2. "snapshot" \in wiring
      BY <3>1, FlowAssumption DEF TypeOK, Programs, Asking, Deriving, OwnEngine
    <3> QED BY <2>1, <2>20, <3>2 DEF p_kiroshi_topology, Built, construct_kiroshi_topology_propagator
  <2> QED
    BY <2>1, <2>3, <2>4, <2>5, <2>6, <2>7, <2>8, <2>9, <2>10, <2>11, <2>12, <2>13, <2>14, <2>15, <2>16, <2>17,
       <2>18, <2>19, <2>20 DEF Next, Run
<1>2. live' \subseteq Node
  BY DEF TypeOK, Next, vars, construct_propagator, dispose_propagator, update_trigger, update_rules, ask, Run,
         topology_snapshot, run_program, wire_sequential_programs, construct_grounded_query_propagator,
         construct_topology_filtered_graph_propagator, p_datalog_derive, p_kiroshi_derive, bridge, infer, forward,
         p_datalog_union, p_kiroshi_topology, p_datalog_query
<1>3. topo' \in Seq(SUBSET Fact) /\ seen_counts' \in 0..Len(topo')
  <2>1. seen_counts' \in 0..Len(topo)
    BY OnlyOwnCells DEF TypeOK, bridge
  <2> QED BY <2>1, TopoGrows DEF TypeOK
<1>4. /\ derived' \in Cell /\ batch' \in Cell /\ matched' \in Cell /\ out' \in Cell
      /\ staged' \in {Nothing} \cup SUBSET Claim /\ joined' \in {Nothing} \cup SUBSET Claim
      /\ engine' \subseteq Fact
  <2>1. ASSUME NEW c \in Cell, NEW c1, c1 = c \/ \E S \in SUBSET Fact : c1 = merge_fact_sets(c, S)
        PROVE  c1 \in Cell
    BY <2>1, Merged
  <2>2. ASSUME NEW c \in {Nothing} \cup SUBSET Claim, NEW c1,
               c1 = c \/ \E S \in SUBSET Claim : c1 = merge_fact_sets(c, S)
        PROVE  c1 \in {Nothing} \cup SUBSET Claim
    <3>1. \A S \in SUBSET Claim : merge_fact_sets(c, S) \in SUBSET Claim
      BY Merged
    <3> QED BY <2>2, <3>1
  <2>3. derived' \in Cell BY <2>1, Merges DEF TypeOK
  <2>4. batch' \in Cell BY <2>1, Merges DEF TypeOK
  <2>5. matched' \in Cell BY <2>1, Merges DEF TypeOK
  <2>6. out' \in Cell BY <2>1, Merges DEF TypeOK
  <2>7. staged' \in {Nothing} \cup SUBSET Claim BY <2>2, Merges DEF TypeOK
  <2>8. joined' \in {Nothing} \cup SUBSET Claim BY <2>2, Merges DEF TypeOK
  <2>9. engine' \subseteq Fact BY Merges DEF TypeOK
  <2> QED BY <2>3, <2>4, <2>5, <2>6, <2>7, <2>8, <2>9
<1>5. rules' \in Rules \cup {Nothing} /\ given' \subseteq Rules /\ pattern' \in Pattern \cup {Nothing}
  BY OnlyOwnCells DEF TypeOK, update_rules, ask
<1>6. wired' \in Rules \cup {Nothing}
  BY OnlyOwnCells, FlowAssumption DEF TypeOK, p_kiroshi_derive, p_kiroshi_topology
<1> QED BY <1>1, <1>2, <1>3, <1>4, <1>5, <1>6 DEF TypeOK

\* No cell of facts loses one.
LEMMA NothingLost ==
  ASSUME TypeOK, Unwired, [Next]_vars
  PROVE  /\ topoFacts \subseteq topoFacts' /\ engine \subseteq engine'
         /\ FactsOf(derived) \subseteq FactsOf(derived)' /\ FactsOf(staged) \subseteq FactsOf(staged)'
         /\ FactsOf(out) \subseteq FactsOf(out)' /\ FactsOf(joined) \subseteq FactsOf(joined)'
         /\ FactsOf(matched) \subseteq FactsOf(matched)'
<1>1. ASSUME NEW c \in {Nothing} \cup SUBSET Claim, NEW c1,
             c1 = c \/ \E S \in SUBSET Claim : c1 = merge_fact_sets(c, S)
      PROVE  FactsOf(c) \subseteq FactsOf(c1)
  BY <1>1, Merged
<1>2. /\ FactsOf(derived)' = FactsOf(derived') /\ FactsOf(staged)' = FactsOf(staged')
      /\ FactsOf(out)' = FactsOf(out') /\ FactsOf(joined)' = FactsOf(joined')
      /\ FactsOf(matched)' = FactsOf(matched')
  BY DEF FactsOf, is_fact_set
<1>3. \A S \in SUBSET Fact : S \in SUBSET Claim
  BY FlowAssumption
<1>4. /\ derived \in {Nothing} \cup SUBSET Claim /\ out \in {Nothing} \cup SUBSET Claim
      /\ matched \in {Nothing} \cup SUBSET Claim
      /\ staged \in {Nothing} \cup SUBSET Claim /\ joined \in {Nothing} \cup SUBSET Claim
  BY Merged DEF TypeOK
<1>5. FactsOf(derived) \subseteq FactsOf(derived') BY <1>1, <1>3, <1>4, Merges
<1>6. FactsOf(out) \subseteq FactsOf(out') BY <1>1, <1>3, <1>4, Merges
<1>7. FactsOf(matched) \subseteq FactsOf(matched') BY <1>1, <1>3, <1>4, Merges
<1>8. FactsOf(staged) \subseteq FactsOf(staged') BY <1>1, <1>4, Merges
<1>9. FactsOf(joined) \subseteq FactsOf(joined') BY <1>1, <1>4, Merges
<1>10. engine \subseteq engine' BY Merges
<1> QED BY <1>2, <1>5, <1>6, <1>7, <1>8, <1>9, <1>10, TopoGrows

-----------------------------------------------------------------------------
(* The pipeline. A propagator that is wired and not queued has seen what   *)
(* its cells hold.                                                         *)

Idle(q) == q \in wiring \ queue

\* What is derived is the closure of what was snapshot up to some moment, and
\* of all of it once the program is idle.
DerivedInv ==
  /\ is_fact_set(derived) => \E k \in 0..Len(topo) : derived = Eval(Prog, Upto(k))
  /\ Idle("derive") => derived = Eval(Prog, topoFacts)

StagedInv ==
  /\ ClaimsWereTrue
  /\ Idle("stage") => is_fact_set(staged) /\ Stage(FactsOf(derived)) \subseteq staged

\* The rows are answers, all of them once the query is idle.
AnswersInv ==
  /\ is_fact_set(answers) => is_fact_set(derived) /\ answers \subseteq Answer(derived)
  /\ Idle("query") /\ is_fact_set(derived) => answers = Answer(derived)

JoinedInv ==
  /\ FactsOf(joined) \subseteq FactsOf(derived) \cup FactsOf(staged)
  /\ Idle("union") => FactsOf(joined) = FactsOf(derived) \cup FactsOf(staged)

ShownInv ==
  Idle("filter") /\ topo # <<>> /\ is_fact_set(answers) => shown = Graph(topoFacts, answers)

MatchedInv ==
  Idle("match") /\ pattern # Nothing /\ is_fact_set(derived) => Match(pattern, derived) \subseteq FactsOf(matched)

\* Closures of snapshots grow with the snapshots.
LEMMA Closures ==
  ASSUME TypeOK, NEW r \in Rules
  PROVE  /\ \A k \in 0..Len(topo) : Upto(k) \in SUBSET Fact /\ Eval(r, Upto(k)) \subseteq Eval(r, topoFacts)
         /\ Eval(r, topoFacts) \in SUBSET Fact
         /\ Eval(r, Upto(0)) = {}
         /\ Upto(Len(topo)) = topoFacts /\ Len(topo) \in 0..Len(topo) /\ 0 \in 0..Len(topo)
<1>1. topoFacts \in SUBSET Fact /\ Len(topo) \in Nat /\ Upto(0) = {}
  BY UptoType
<1>2. \A k \in 0..Len(topo) : Upto(k) \subseteq topoFacts
  BY UptoType
<1>3. \A S \in SUBSET Fact :
        /\ Eval(r, S) \in SUBSET Fact /\ Eval(r, {}) = {}
        /\ \A T \in SUBSET S : Eval(r, T) \subseteq Eval(r, S)
  BY ClosureAssumption
<1>4. \A k \in 0..Len(topo) : Upto(k) \in SUBSET Fact /\ Eval(r, Upto(k)) \subseteq Eval(r, topoFacts)
  BY <1>1, <1>2, <1>3
<1> QED BY <1>1, <1>3, <1>4 DEF topoFacts

LEMMA DerivedStep ==
  ASSUME TypeOK, Unwired, DerivedInv, [Next]_vars
  PROVE  DerivedInv'
<1>1. CASE run_program
  <2>1. topo' = topo /\ topoFacts' = topoFacts /\ Len(topo') = Len(topo) /\ \A k \in 0..Len(topo) : Upto(k)' = Upto(k)
    BY <1>1 DEF run_program, topoFacts, Upto
  <2>2. FactsOf(derived) \subseteq Eval(Prog, topoFacts)
    BY Closures, FlowAssumption DEF DerivedInv, FactsOf
  <2>3. derived' = Eval(Prog, topoFacts)
    BY <1>1, <2>2 DEF run_program, merge_fact_sets
  <2>4. \E k \in 0..Len(topo) : derived' = Eval(Prog, Upto(k))
    BY <2>3, Closures, FlowAssumption
  <2> QED BY <2>1, <2>3, <2>4 DEF DerivedInv
<1>2. CASE ~run_program
  <2>1. derived' = derived /\ wiring' = wiring
    BY <1>2, OnlyOwnCells
  <2>2. is_fact_set(derived)' => \E k \in 0..Len(topo') : derived' = Eval(Prog, Upto(k)')
    <3>1. SUFFICES ASSUME is_fact_set(derived) PROVE \E k \in 0..Len(topo') : derived = Eval(Prog, Upto(k)')
      BY <2>1 DEF is_fact_set
    <3>2. PICK k \in 0..Len(topo) : derived = Eval(Prog, Upto(k))
      BY <3>1 DEF DerivedInv
    <3>3. k \in 0..Len(topo') /\ Upto(k)' = Upto(k)
      BY UptoType, TopoGrows DEF TypeOK
    <3> QED BY <3>2, <3>3
  <2>3. Idle("derive")' => Idle("derive") /\ topo' = topo
    BY <1>2, <2>1, OnlyOwnRuns, Announced, ReadersOf DEF Idle
  <2>4. topo' = topo => topoFacts' = topoFacts
    BY DEF topoFacts, Upto
  <2> QED BY <2>1, <2>2, <2>3, <2>4 DEF DerivedInv
<1> QED BY <1>1, <1>2

LEMMA StagedStep ==
  ASSUME TypeOK, Unwired, DerivedInv, StagedInv, [Next]_vars
  PROVE  StagedInv'
<1>1. ASSUME NEW f, \E k \in 0..Len(topo) : f \in Stage(Eval(Prog, Upto(k)))
      PROVE  \E k \in 0..Len(topo') : f \in Stage(Eval(Prog, Upto(k)'))
  <2>1. PICK k \in 0..Len(topo) : f \in Stage(Eval(Prog, Upto(k)))
    BY <1>1
  <2>2. k \in 0..Len(topo') /\ Upto(k)' = Upto(k)
    BY UptoType, TopoGrows DEF TypeOK
  <2> QED BY <2>1, <2>2
<1>2. CASE wire_sequential_programs
  <2>1. staged' = FactsOf(staged) \cup Stage(FactsOf(derived)) /\ derived' = derived
    BY <1>2 DEF wire_sequential_programs, merge_fact_sets
  <2>2. is_fact_set(staged)' /\ FactsOf(staged)' = staged' /\ FactsOf(derived)' = FactsOf(derived)
    <3>0. FactsOf(derived) \in SUBSET Fact
      BY DEF TypeOK, Cell, FactsOf, is_fact_set
    <3>1. staged' \in SUBSET Claim
      BY <2>1, <3>0, QueryAssumption DEF TypeOK, FactsOf, is_fact_set
    <3> QED BY <2>1, <3>1, FlowAssumption DEF FactsOf, is_fact_set
  <2>3. \E k \in 0..Len(topo) : FactsOf(derived) = Eval(Prog, Upto(k))
    BY Closures, FlowAssumption DEF DerivedInv, FactsOf
  <2>4. \A f \in staged' : \E k \in 0..Len(topo) : f \in Stage(Eval(Prog, Upto(k)))
    BY <2>1, <2>3 DEF StagedInv, ClaimsWereTrue
  <2> QED BY <1>1, <2>1, <2>2, <2>4 DEF StagedInv, ClaimsWereTrue
<1>3. CASE ~wire_sequential_programs
  <2>1. staged' = staged /\ wiring' = wiring
    BY <1>3, OnlyOwnCells
  <2>2. ClaimsWereTrue'
    BY <1>1, <2>1 DEF StagedInv, ClaimsWereTrue, FactsOf, is_fact_set
  <2>3. Idle("stage")' => Idle("stage") /\ derived' = derived
    BY <1>3, <2>1, OnlyOwnRuns, Announced, ReadersOf DEF Idle
  <2> QED BY <2>1, <2>2, <2>3 DEF StagedInv, FactsOf, is_fact_set
<1> QED BY <1>2, <1>3

LEMMA AnswersStep ==
  ASSUME TypeOK, Unwired, DerivedInv, AnswersInv, [Next]_vars
  PROVE  AnswersInv'
<1>1. wiring' = wiring
  BY OnlyOwnCells
<1>2. CASE construct_grounded_query_propagator /\ is_fact_set(derived)
  <2>1. derived' = derived /\ answers' = FactsOf(answers) \cup Answer(derived)
    BY <1>2 DEF construct_grounded_query_propagator, merge_fact_sets
  <2>2. answers' = Answer(derived)
    BY <2>1 DEF AnswersInv, FactsOf
  <2> QED BY <1>2, <2>1, <2>2 DEF AnswersInv, is_fact_set
<1>3. CASE construct_grounded_query_propagator /\ ~is_fact_set(derived)
  BY <1>3 DEF construct_grounded_query_propagator, AnswersInv, is_fact_set
<1>4. CASE ~construct_grounded_query_propagator
  <2>1. answers' = answers
    BY <1>4, OnlyOwnCells
  <2>2. Idle("query")' => Idle("query") /\ derived' = derived
    BY <1>1, <1>4, OnlyOwnRuns, Announced, ReadersOf DEF Idle
  <2>3. is_fact_set(answers) => is_fact_set(derived)' /\ answers \subseteq Answer(derived')
    <3>1. SUFFICES ASSUME is_fact_set(answers), derived' # derived
                   PROVE  is_fact_set(derived)' /\ answers \subseteq Answer(derived')
      BY DEF AnswersInv, is_fact_set
    <3>2. is_fact_set(derived) /\ answers \subseteq Answer(derived)
      BY <3>1 DEF AnswersInv
    <3>3. derived' = FactsOf(derived) \cup Eval(Prog, topoFacts) /\ Eval(Prog, topoFacts) \in SUBSET Fact
      BY <3>1, OnlyOwnCells, Closures, FlowAssumption DEF run_program, merge_fact_sets
    <3>4. derived \in SUBSET derived' /\ derived' \in SUBSET Fact
      BY <3>2, <3>3 DEF TypeOK, Cell, FactsOf, is_fact_set
    <3>5. derived' # Nothing
      BY <3>4, FlowAssumption
    <3>6. Answer(derived) \subseteq Answer(derived')
      BY <3>4, QueryAssumption
    <3> QED BY <3>2, <3>5, <3>6 DEF is_fact_set
  <2> QED BY <2>1, <2>2, <2>3 DEF AnswersInv, is_fact_set
<1> QED BY <1>2, <1>3, <1>4

LEMMA JoinedStep ==
  ASSUME TypeOK, Unwired, JoinedInv, [Next]_vars
  PROVE  JoinedInv'
<1> DEFINE both == FactsOf(derived) \cup FactsOf(staged)
<1>1. wiring' = wiring
  BY OnlyOwnCells
<1>2. CASE p_datalog_union
  <2>1. derived' = derived /\ staged' = staged
    BY <1>2 DEF p_datalog_union
  <2>2. FactsOf(joined)' = FactsOf(joined) \cup both
    <3>1. both \in SUBSET Claim
      BY Merged DEF TypeOK, FactsOf, is_fact_set
    <3>2. FactsOf(merge_fact_sets(joined, both)) = FactsOf(joined) \cup both
      BY <3>1, Merged DEF TypeOK
    <3> QED BY <1>2, <3>2 DEF p_datalog_union, FactsOf, is_fact_set
  <2>3. both' = both
    BY <2>1 DEF FactsOf, is_fact_set
  <2> QED BY <2>2, <2>3 DEF JoinedInv
<1>3. CASE ~p_datalog_union
  <2>1. FactsOf(joined)' = FactsOf(joined)
    BY <1>3, OnlyOwnCells DEF FactsOf, is_fact_set
  <2>2. both \subseteq both'
    BY NothingLost
  <2>3. Idle("union")' => Idle("union") /\ derived' = derived /\ staged' = staged
    BY <1>1, <1>3, OnlyOwnRuns, Announced, ReadersOf DEF Idle
  <2>4. derived' = derived /\ staged' = staged => both' = both
    BY DEF FactsOf, is_fact_set
  <2> QED BY <2>1, <2>2, <2>3, <2>4 DEF JoinedInv
<1> QED BY <1>2, <1>3

LEMMA ShownStep ==
  ASSUME TypeOK, ShownInv, [Next]_vars
  PROVE  ShownInv'
<1>1. wiring' = wiring
  BY OnlyOwnCells
<1>2. CASE construct_topology_filtered_graph_propagator
  <2>1. topo' = topo /\ topoFacts' = topoFacts /\ answers' = answers
    BY <1>2 DEF construct_topology_filtered_graph_propagator, topoFacts, Upto
  <2> QED BY <1>2, <2>1 DEF ShownInv, construct_topology_filtered_graph_propagator, is_fact_set
<1>3. CASE ~construct_topology_filtered_graph_propagator
  <2>1. shown' = shown
    BY <1>3, OnlyOwnCells
  <2>2. Idle("filter")' => Idle("filter") /\ topo' = topo /\ answers' = answers
    BY <1>1, <1>3, OnlyOwnRuns, Announced, ReadersOf DEF Idle
  <2>3. topo' = topo => topoFacts' = topoFacts
    BY DEF topoFacts, Upto
  <2> QED BY <2>1, <2>2, <2>3 DEF ShownInv, is_fact_set
<1> QED BY <1>2, <1>3

LEMMA MatchedStep ==
  ASSUME TypeOK, Unwired, MatchedInv, [Next]_vars
  PROVE  MatchedInv'
<1>1. wiring' = wiring
  BY OnlyOwnCells
<1>2. CASE p_datalog_query
  <2>1. derived' = derived /\ pattern' = pattern
    BY <1>2 DEF p_datalog_query, pipeline
  <2>2. ASSUME pattern # Nothing, is_fact_set(derived)
        PROVE  Match(pattern, derived) \subseteq FactsOf(matched)'
    <3>1. CASE Match(pattern, derived) = {} BY <3>1
    <3>2. CASE Match(pattern, derived) # {}
      <4>1. matched' = merge_fact_sets(matched, Match(pattern, derived))
        BY <1>2, <2>2, <3>2 DEF p_datalog_query
      <4>2. Match(pattern, derived) \in SUBSET Claim
        BY <2>2, QueryAssumption, FlowAssumption DEF TypeOK, Cell, is_fact_set
      <4>3. matched \in {Nothing} \cup SUBSET Claim
        BY Merged DEF TypeOK
      <4>4. FactsOf(matched') = FactsOf(matched) \cup Match(pattern, derived)
        BY <4>1, <4>2, <4>3, Merged
      <4> QED BY <4>4 DEF FactsOf, is_fact_set
    <3> QED BY <3>1, <3>2
  <2> QED BY <2>1, <2>2 DEF MatchedInv, is_fact_set
<1>3. CASE ~p_datalog_query
  <2>1. matched' = matched
    BY <1>3, OnlyOwnCells
  <2>2. Idle("match")' => Idle("match") /\ derived' = derived /\ pattern' = pattern
    BY <1>1, <1>3, OnlyOwnRuns, Announced, ReadersOf DEF Idle
  <2> QED BY <2>1, <2>2 DEF MatchedInv, FactsOf, is_fact_set
<1> QED BY <1>2, <1>3

-----------------------------------------------------------------------------
(* The two ways of deriving.                                               *)

\* What datalog:derive holds follows from the snapshots by some rules it was
\* given; when idle it has applied the rules it has now.
BatchInv ==
  /\ rules \in given \cup {Nothing} /\ (rules = Nothing => given = {})
  /\ \A f \in FactsOf(batch) : \E r \in given : f \in Eval(r, topoFacts)
  /\ Idle("snapshot") /\ "topology" \notin wiring => topo # <<>>
  /\ Idle("batch") /\ topo # <<>> /\ rules # Nothing => Eval(rules, topoFacts) \subseteq FactsOf(batch)

\* The engine holds nothing but what follows, all that the bridge has counted,
\* and, where a propagator of it is idle, what that would contribute.
EngineInv ==
  /\ "topology" \in wiring => wired \in {Nothing, Prog} /\ (Idle("topology") => wired = Prog)
  /\ wired # Nothing => engine \subseteq Eval(wired, topoFacts) /\ FactsOf(out) \subseteq Idb(wired, engine)
  /\ Upto(seen_counts) \subseteq engine
  /\ wired # Nothing /\ Idle("bridge") => seen_counts = Len(topo)
  /\ wired # Nothing /\ Idle("infer") => Once(wired, engine) \subseteq engine
  /\ wired # Nothing /\ Idle("forward") => FactsOf(out) = Idb(wired, engine)

LEMMA BatchStep ==
  ASSUME TypeOK, Unwired, BatchInv, [Next]_vars
  PROVE  BatchInv'
<1>1. wiring' = wiring /\ topoFacts \subseteq topoFacts' /\ given \subseteq given'
  BY OnlyOwnCells, TopoGrows DEF update_rules
<1>2. rules' \in given' \cup {Nothing} /\ (rules' = Nothing => given' = {})
  BY OnlyOwnCells, FlowAssumption DEF BatchInv, update_rules
<1>3. ASSUME NEW f, \E r \in given : f \in Eval(r, topoFacts)
      PROVE  \E r \in given' : f \in Eval(r, topoFacts')
  <2>1. PICK r \in given : f \in Eval(r, topoFacts)
    BY <1>3
  <2>2. topoFacts' \in SUBSET Fact
    BY TopoGrows DEF topoFacts, Upto
  <2>3. Eval(r, topoFacts) \subseteq Eval(r, topoFacts')
    BY <1>1, <2>2, ClosureAssumption DEF TypeOK
  <2> QED BY <1>1, <2>1, <2>3
<1>4. Idle("snapshot")' /\ "topology" \notin wiring => topo' # <<>>
  <2>1. Idle("snapshot")' => Idle("snapshot") \/ topology_snapshot
    BY <1>1, OnlyOwnRuns DEF Idle
  <2> QED BY <2>1, TopoGrows DEF BatchInv
<1>5. CASE p_datalog_derive /\ topo # <<>> /\ rules # Nothing
  <2>1. /\ topo' = topo /\ topoFacts' = topoFacts /\ rules' = rules /\ given' = given
        /\ batch' = merge_fact_sets(batch, Eval(rules, topoFacts))
    BY <1>5 DEF p_datalog_derive, topoFacts, Upto
  <2>2. rules \in given /\ rules \in Rules
    BY <1>5 DEF BatchInv, TypeOK
  <2>3. Eval(rules, topoFacts) \in SUBSET Claim /\ batch \in {Nothing} \cup SUBSET Claim
    BY <2>2, Closures, Merged, FlowAssumption DEF TypeOK
  <2>4. FactsOf(batch') = FactsOf(batch) \cup Eval(rules, topoFacts) /\ FactsOf(batch)' = FactsOf(batch')
    BY <2>1, <2>3, Merged DEF FactsOf, is_fact_set
  <2> QED BY <1>2, <1>4, <1>1, <2>1, <2>2, <2>4 DEF BatchInv
<1>6. CASE ~(p_datalog_derive /\ topo # <<>> /\ rules # Nothing)
  <2>1. FactsOf(batch)' = FactsOf(batch)
    BY <1>6, OnlyOwnCells DEF p_datalog_derive, FactsOf, is_fact_set
  <2>2. Idle("batch")' => p_datalog_derive \/ (Idle("batch") /\ topo' = topo /\ rules' = rules)
    BY <1>1, OnlyOwnRuns, Announced, ReadersOf DEF Idle
  <2>3. topo' = topo => topoFacts' = topoFacts
    BY DEF topoFacts, Upto
  <2>4. p_datalog_derive => topo' = topo /\ rules' = rules
    BY DEF p_datalog_derive
  <2>5. Idle("batch")' /\ topo' # <<>> /\ rules' # Nothing => Eval(rules', topoFacts') \subseteq FactsOf(batch)'
    BY <1>6, <2>1, <2>2, <2>3, <2>4 DEF BatchInv
  <2>6. \A f \in FactsOf(batch)' : \E r \in given' : f \in Eval(r, topoFacts')
    BY <1>3, <2>1 DEF BatchInv
  <2> QED BY <1>1, <1>2, <1>4, <2>5, <2>6 DEF BatchInv
<1> QED BY <1>5, <1>6

LEMMA EngineStep ==
  ASSUME TypeOK, Unwired, EngineInv, [Next]_vars
  PROVE  EngineInv'
<1>1. wiring' = wiring
  BY OnlyOwnCells
<1>2. "topology" \in wiring => wired' \in {Nothing, Prog} /\ (Idle("topology")' => wired' = Prog)
  <2>1. p_kiroshi_derive => "setup" \in wiring
    BY DEF p_kiroshi_derive, TypeOK
  <2>2. ~("setup" \in wiring /\ "topology" \in wiring)
    BY FlowAssumption DEF TypeOK, Programs, Asking, Deriving, OwnEngine
  <2>3. "topology" \in wiring => wired' = wired \/ p_kiroshi_topology
    BY <2>1, <2>2, OnlyOwnCells
  <2>4. Idle("topology")' => Idle("topology") \/ p_kiroshi_topology
    BY <1>1, OnlyOwnRuns DEF Idle
  <2>5. "topology" \in wiring /\ p_kiroshi_topology => wired' = Prog
    BY FlowAssumption DEF p_kiroshi_topology, EngineInv
  <2> QED BY <2>3, <2>4, <2>5 DEF EngineInv
<1>3. CASE wired' # wired
  <2>1. wired = Nothing /\ Built \subseteq queue' /\ seen_counts' = seen_counts /\ engine' = engine /\ out' = out
    BY <1>3, OnlyOwnCells
       DEF p_kiroshi_derive, p_kiroshi_topology, construct_kiroshi_topology_propagator, primitives
  <2>2. engine' = {} /\ FactsOf(out)' = {} /\ seen_counts' = 0
    BY <2>1 DEF Unwired, FactsOf, is_fact_set
  <2>3. ~Idle("bridge")' /\ ~Idle("infer")' /\ ~Idle("forward")'
    BY <1>1, <2>1 DEF Built, Idle
  <2>4. Upto(seen_counts)' = {}
    BY <2>2 DEF Upto
  <2> QED BY <1>1, <1>2, <2>2, <2>3, <2>4 DEF EngineInv
<1>4. CASE wired' = wired /\ wired = Nothing
  <2>1. engine' = {} /\ seen_counts' = 0
    BY <1>4, UnwiredStep DEF Unwired
  <2>2. Upto(seen_counts)' = {}
    BY <2>1 DEF Upto
  <2> QED BY <1>1, <1>2, <1>4, <2>2 DEF EngineInv
<1>5. CASE wired' = wired /\ wired # Nothing
  <2>1. wired \in Rules /\ topoFacts \in SUBSET Fact /\ topoFacts' \in SUBSET Fact /\ topoFacts \subseteq topoFacts'
    BY <1>5, UptoType, TopoGrows DEF TypeOK, topoFacts, Upto
  <2>2. engine \subseteq Fact /\ engine' \subseteq Fact /\ engine \subseteq engine'
    BY TypeStep, NothingLost DEF TypeOK
  <2>3. engine' \subseteq Eval(wired, topoFacts')
    <3>1. Eval(wired, topoFacts) \subseteq Eval(wired, topoFacts')
      BY <2>1, ClosureAssumption
    <3>2. bridge => engine' \subseteq Eval(wired, topoFacts)
      <4>1. NewFacts \subseteq topoFacts
        BY DEF NewFacts, topoFacts, Upto, TypeOK
      <4>2. topoFacts \subseteq Eval(wired, topoFacts)
        BY <2>1, ClosureAssumption
      <4> QED BY <1>5, <4>1, <4>2 DEF EngineInv, bridge, fact_array_merge
    <3>3. infer => engine' \subseteq Eval(wired, topoFacts)
      <4>1. Eval(wired, topoFacts) \in SUBSET Fact
        BY <2>1, ClosureAssumption
      <4>2. Eval(wired, engine) \subseteq Eval(wired, Eval(wired, topoFacts))
        BY <1>5, <2>1, <4>1, ClosureAssumption DEF EngineInv
      <4>3. Once(wired, engine) \subseteq Eval(wired, topoFacts)
        BY <2>1, <2>2, <4>2, ClosureAssumption
      <4> QED BY <1>5, <4>3 DEF EngineInv, infer, fact_array_merge
    <3> QED BY <1>5, <3>1, <3>2, <3>3, OnlyOwnCells DEF EngineInv
  <2>4. Upto(seen_counts)' \subseteq engine'
    <3>1. CASE bridge
      <4>1. seen_counts' = Len(topo) /\ topo' = topo /\ engine' = engine \cup NewFacts
        BY <3>1 DEF bridge, fact_array_merge
      <4>2. Upto(seen_counts)' \subseteq Upto(seen_counts) \cup NewFacts
        BY <4>1 DEF Upto, NewFacts, TypeOK
      <4> QED BY <4>1, <4>2 DEF EngineInv
    <3>2. CASE ~bridge
      <4>1. seen_counts' = seen_counts /\ seen_counts \in 0..Len(topo)
        BY <3>2, OnlyOwnCells DEF TypeOK
      <4>2. Upto(seen_counts)' = Upto(seen_counts)
        <5>1. \A i \in 1..seen_counts : topo'[i] = topo[i]
          BY <4>1, TopoGrows DEF TypeOK
        <5> QED BY <4>1, <5>1 DEF Upto
      <4> QED BY <2>2, <4>2 DEF EngineInv
    <3> QED BY <3>1, <3>2
  <2>5. Idle("bridge")' => seen_counts' = Len(topo')
    <3>1. Idle("bridge")' => bridge \/ (Idle("bridge") /\ topo' = topo)
      BY <1>1, <1>5, OnlyOwnRuns, Announced, ReadersOf DEF Idle
    <3>2. bridge => seen_counts' = Len(topo')
      BY DEF bridge
    <3>3. Idle("bridge") /\ topo' = topo => seen_counts' = Len(topo')
      BY <1>5, <3>2, OnlyOwnCells DEF EngineInv
    <3> QED BY <3>1, <3>2, <3>3
  <2>6. Idle("infer")' => Once(wired, engine') \subseteq engine'
    <3>1. Idle("infer")' => engine' = engine
      BY <1>1, Announced, ReadersOf DEF Idle
    <3>2. Idle("infer")' => infer \/ Idle("infer")
      BY <1>1, OnlyOwnRuns DEF Idle
    <3>3. infer => Once(wired, engine) \subseteq engine'
      BY DEF infer, fact_array_merge
    <3> QED BY <1>5, <3>1, <3>2, <3>3 DEF EngineInv
  <2>7. /\ FactsOf(out)' \subseteq Idb(wired, engine')
        /\ Idle("forward")' => FactsOf(out)' = Idb(wired, engine')
    <3>1. Idb(wired, engine) \subseteq Idb(wired, engine')
      BY <2>1, <2>2, ClosureAssumption
    <3>2. CASE forward
      <4>1. FactsOf(out)' = FactsOf(out) \cup Idb(wired, engine) /\ engine' = engine
        <5>1. Idb(wired, engine) \in SUBSET Claim /\ out \in {Nothing} \cup SUBSET Claim
          BY <2>1, <2>2, Merged, ClosureAssumption, FlowAssumption DEF TypeOK
        <5>2. FactsOf(merge_fact_sets(out, Idb(wired, engine))) = FactsOf(out) \cup Idb(wired, engine)
          BY <5>1, Merged
        <5> QED BY <3>2, <5>2 DEF forward, FactsOf, is_fact_set
      <4> QED BY <1>5, <4>1 DEF EngineInv
    <3>3. CASE ~forward
      <4>1. FactsOf(out)' = FactsOf(out)
        BY <3>3, OnlyOwnCells DEF FactsOf, is_fact_set
      <4>2. Idle("forward")' => Idle("forward") /\ engine' = engine
        BY <1>1, <3>3, OnlyOwnRuns, Announced, ReadersOf DEF Idle
      <4> QED BY <1>5, <3>1, <4>1, <4>2 DEF EngineInv
    <3> QED BY <3>2, <3>3
  <2> QED BY <1>1, <1>2, <1>5, <2>3, <2>4, <2>5, <2>6, <2>7 DEF EngineInv
<1> QED BY <1>3, <1>4, <1>5

-----------------------------------------------------------------------------
(* The specification.                                                      *)

IInv == /\ TypeOK /\ Unwired
        /\ DerivedInv /\ StagedInv /\ AnswersInv /\ JoinedInv /\ ShownInv /\ MatchedInv
        /\ BatchInv /\ EngineInv

\* A circuit has either the programs, the question, the two derivations or the
\* engine of the topology.
LEMMA Circuits ==
  ASSUME wiring \in Wirings
  PROVE  /\ "stage" \in wiring => {"derive", "union", "query", "filter"} \subseteq wiring
         /\ "match" \in wiring => "derive" \in wiring
         /\ "batch" \in wiring => {"snapshot", "bridge", "infer", "forward"} \subseteq wiring /\ "topology" \notin wiring
         /\ "topology" \in wiring => {"bridge", "infer", "forward"} \subseteq wiring /\ "batch" \notin wiring
         /\ "topology" \notin wiring => "snapshot" \in wiring
BY FlowAssumption DEF Programs, Asking, Deriving, OwnEngine

\* At first what is wired is queued, but for what has to be set up.
LEMMA InitInv == Init => IInv
<1> SUFFICES ASSUME Init PROVE IInv
  OBVIOUS
<1> USE DEF Init
<1>1. TypeOK
  BY DEF TypeOK, Cell
<1>2. Unwired
  BY DEF Unwired
<1>3. \A q \in {"derive", "stage", "query", "union", "filter", "match", "batch", "topology"} : ~Idle(q)
  BY DEF Idle
<1>4. "topology" \notin wiring => ~Idle("snapshot")
  BY DEF Idle
<1>5. DerivedInv /\ StagedInv /\ AnswersInv /\ JoinedInv /\ ShownInv /\ MatchedInv
  BY <1>3 DEF DerivedInv, StagedInv, ClaimsWereTrue, AnswersInv, JoinedInv, ShownInv, MatchedInv, FactsOf, is_fact_set
<1>6. BatchInv
  BY <1>3, <1>4 DEF BatchInv, FactsOf, is_fact_set
<1>7. EngineInv
  BY <1>3 DEF EngineInv, Upto
<1> QED BY <1>1, <1>2, <1>5, <1>6, <1>7 DEF IInv

LEMMA StepInv == IInv /\ [Next]_vars => IInv'
BY TypeStep, UnwiredStep, DerivedStep, StagedStep, AnswersStep, JoinedStep, ShownStep, MatchedStep, BatchStep,
   EngineStep DEF IInv

LEMMA Inductive == Spec => []IInv
BY InitInv, StepInv, PTL DEF Spec

\* Every cell holds what its type says, and only what is wired is queued
\* (is_fact_set, merge_fact_sets).
THEOREM TypeCorrect == Spec => []TypeOK
<1>1. IInv => TypeOK
  BY DEF IInv
<1> QED BY <1>1, Inductive, PTL

\* No cell of facts ever loses one.
THEOREM FactsStay == Spec => NothingRetracted
<1> DEFINE Grows ==
      /\ topoFacts \subseteq topoFacts' /\ engine \subseteq engine'
      /\ FactsOf(derived) \subseteq FactsOf(derived)' /\ FactsOf(staged) \subseteq FactsOf(staged)'
      /\ FactsOf(out) \subseteq FactsOf(out)' /\ FactsOf(joined) \subseteq FactsOf(joined)'
      /\ FactsOf(matched) \subseteq FactsOf(matched)'
<1>1. IInv /\ [Next]_vars => [Grows]_vars
  BY NothingLost DEF IInv
<1>2. Spec => [][Grows]_vars
  BY <1>1, Inductive, PTL DEF Spec
<1> QED BY <1>2 DEF NothingRetracted

\* What the second program concludes has been so after one of the snapshots.
THEOREM OnlyPastTruths == Spec => []ClaimsWereTrue
<1>1. IInv => ClaimsWereTrue
  BY DEF IInv, StagedInv
<1> QED BY <1>1, Inductive, PTL

\* The pipeline at rest shows what follows from all the snapshots.
THEOREM PipelineSettles == Spec => []PipelineAtRest
<1>1. IInv => PipelineAtRest
  <2>1. SUFFICES ASSUME IInv, queue = {} PROVE PipelineAtRest
    BY DEF PipelineAtRest
  <2>2. \A q \in wiring : Idle(q)
    BY <2>1 DEF Idle
  <2>3. "derive" \in wiring => derived = Eval(Prog, topoFacts) /\ is_fact_set(derived) /\ FactsOf(derived) = derived
    <3>1. Eval(Prog, topoFacts) \in SUBSET Fact
      BY <2>1, Closures, FlowAssumption DEF IInv
    <3>2. "derive" \in wiring => derived = Eval(Prog, topoFacts)
      BY <2>1, <2>2 DEF IInv, DerivedInv
    <3> QED BY <3>1, <3>2, FlowAssumption DEF FactsOf, is_fact_set
  <2>4. ASSUME "stage" \in wiring
        PROVE  /\ Stage(derived) \subseteq staged
               /\ answers = Answer(derived)
               /\ FactsOf(joined) = derived \cup staged
               /\ topo # <<>> => shown = Graph(topoFacts, answers)
    <3>1. {"derive", "union", "query", "filter"} \subseteq wiring
      BY <2>1, <2>4, Circuits DEF IInv, TypeOK
    <3>2. is_fact_set(staged) /\ Stage(derived) \subseteq staged /\ FactsOf(staged) = staged
      BY <2>1, <2>2, <2>3, <2>4, <3>1 DEF IInv, StagedInv, FactsOf
    <3>3. answers = Answer(derived) /\ is_fact_set(answers)
      BY <2>1, <2>2, <2>3, <3>1, QueryAssumption DEF IInv, AnswersInv, TypeOK, Cell, is_fact_set
    <3>4. FactsOf(joined) = derived \cup staged
      BY <2>1, <2>2, <2>3, <3>1, <3>2 DEF IInv, JoinedInv
    <3>5. topo # <<>> => shown = Graph(topoFacts, answers)
      BY <2>1, <2>2, <3>1, <3>3 DEF IInv, ShownInv
    <3> QED BY <3>2, <3>3, <3>4, <3>5
  <2>5. "match" \in wiring /\ pattern # Nothing => Match(pattern, derived) \subseteq FactsOf(matched)
    <3>1. "match" \in wiring => "derive" \in wiring
      BY <2>1, Circuits DEF IInv, TypeOK
    <3> QED BY <2>1, <2>2, <2>3, <3>1 DEF IInv, MatchedInv
  <2> QED BY <2>3, <2>4, <2>5 DEF PipelineAtRest
<1> QED BY <1>1, Inductive, PTL

\* An engine at rest holds the closure of all it was told.
LEMMA EngineAtRest ==
  ASSUME IInv, queue = {}, wired # Nothing, {"bridge", "infer", "forward"} \subseteq wiring
  PROVE  FactsOf(out) = Idb(wired, Eval(wired, topoFacts))
<1>1. Idle("bridge") /\ Idle("infer") /\ Idle("forward")
  BY DEF Idle
<1>2. wired \in Rules /\ topoFacts \in SUBSET Fact /\ engine \in SUBSET Fact
  BY UptoType DEF IInv, TypeOK
<1>3. topoFacts \subseteq engine
  BY <1>1 DEF IInv, EngineInv, topoFacts
<1>4. Eval(wired, engine) = engine
  BY <1>1, <1>2, ClosureAssumption DEF IInv, EngineInv
<1>5. Eval(wired, topoFacts) \subseteq engine
  BY <1>2, <1>3, <1>4, ClosureAssumption
<1>6. engine = Eval(wired, topoFacts)
  BY <1>5 DEF IInv, EngineInv
<1> QED BY <1>1, <1>6 DEF IInv, EngineInv

\* Deriving incrementally comes to what deriving from scratch comes to.
THEOREM IncrementalDerives == Spec => []IncrementalIsBatch
<1>1. IInv => IncrementalIsBatch
  <2>1. SUFFICES ASSUME IInv, queue = {} PROVE IncrementalIsBatch
    BY DEF IncrementalIsBatch
  <2>2. \A q \in wiring : Idle(q)
    BY <2>1 DEF Idle
  <2>3. ASSUME "batch" \in wiring, given = {wired}
        PROVE  FactsOf(out) = Idb(wired, FactsOf(batch))
    <3>1. {"snapshot", "bridge", "infer", "forward"} \subseteq wiring /\ "topology" \notin wiring
      BY <2>1, <2>3, Circuits DEF IInv, TypeOK
    <3>2. wired \in Rules /\ wired # Nothing
      BY <2>1, <2>3, FlowAssumption DEF IInv, TypeOK
    <3>3. rules = wired
      BY <2>1, <2>3 DEF IInv, BatchInv
    <3>4. topo # <<>>
      BY <2>1, <2>2, <3>1 DEF IInv, BatchInv
    <3>5. Eval(wired, topoFacts) \subseteq FactsOf(batch)
      BY <2>1, <2>2, <2>3, <3>2, <3>3, <3>4 DEF IInv, BatchInv
    <3>6. FactsOf(batch) \subseteq Eval(wired, topoFacts)
      BY <2>1, <2>3 DEF IInv, BatchInv
    <3>7. FactsOf(batch) = Eval(wired, topoFacts)
      BY <3>5, <3>6
    <3> QED BY <2>1, <3>1, <3>2, <3>7, EngineAtRest
  <2>4. "topology" \in wiring => FactsOf(out) = Idb(Prog, Eval(Prog, topoFacts))
    <3>1. "topology" \in wiring => wired = Prog /\ wired # Nothing /\ {"bridge", "infer", "forward"} \subseteq wiring
      BY <2>1, <2>2, Circuits, FlowAssumption DEF IInv, EngineInv, TypeOK
    <3> QED BY <2>1, <3>1, EngineAtRest
  <2> QED BY <2>3, <2>4 DEF IncrementalIsBatch
<1> QED BY <1>1, Inductive, PTL
=============================================================================
