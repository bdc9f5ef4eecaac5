------------------------------ MODULE FactFlow ------------------------------
(***************************************************************************)
(* Facts on their way through a network of cells: the topology of the      *)
(* network itself is snapshot into a cell of facts whenever a trigger      *)
(* changes, a program derives from it, a second program and a query read   *)
(* what was derived, and a graph of the answers is built                   *)
(* (DatalogPropagator.ts, NetworkDatalogPipeline.ts,                       *)
(* NetworkTopologyGraphology.ts). Beside it the primitives datalog:derive  *)
(* and datalog:reactive:derive work on the same facts, the one from        *)
(* scratch, the other through the incremental engine of kiroshi,           *)
(* datalog:reactive:topology takes its own snapshots into such an engine,  *)
(* and datalog:query looks for a pattern (primitive/stdlib/datalog.ts,     *)
(* KiroshiPropagator.ts). Cells of facts only grow. A propagator is queued *)
(* when it is built and when one of its cells changes; the scheduler runs  *)
(* the queued ones in any order.                                           *)
(***************************************************************************)
EXTENDS Integers, Sequences, FiniteSets

CONSTANTS
  Node,          \* propagators of the network that is observed
  Base(_),       \* the facts a snapshot has of one of them
  Rules, Prog,   \* rule sets, and the one of the pipeline
  Eval(_, _),    \* rules, facts |-> the facts with all that follows
  Once(_, _),    \* rules, facts |-> what follows in one step
  Idb(_, _),     \* rules, facts |-> those whose predicate is derived
  Stage(_),      \* the second program, which may negate
  Answer(_),     \* the query's rows
  Pattern,       \* what may be asked for
  Match(_, _),   \* pattern, facts |-> the facts it matches
  Graph(_, _),   \* facts, rows |-> the graph of the answers
  Fact, Claim,   \* facts, and what Stage may conclude from them
  Wirings,       \* the circuits that may have been wired up
  Nothing        \* what a cell holds before its first value

Programs  == {"snapshot", "derive", "stage", "union", "query", "filter"}
Asking    == {"snapshot", "derive", "match"}
Deriving  == {"snapshot", "batch", "setup", "bridge", "infer", "forward"}
OwnEngine == {"topology", "snapshot", "bridge", "infer", "forward"}

ASSUME FlowAssumption ==
  /\ Wirings \subseteq {Programs, Asking, Deriving, OwnEngine}
  /\ Prog \in Rules /\ Nothing \notin Rules /\ Nothing \notin Pattern
  /\ Fact \subseteq Claim /\ \A C \in SUBSET Claim : C # Nothing
  /\ \A n \in Node : Base(n) \subseteq Fact

\* Queries are positive, a negating program concludes what it may.
ASSUME QueryAssumption ==
  \A S \in SUBSET Fact :
    /\ \A p \in Pattern : Match(p, S) \subseteq S
    /\ Stage(S) \subseteq Claim
    /\ Answer(S) # Nothing /\ \A T \in SUBSET S : Answer(T) \subseteq Answer(S)

\* The rules are Horn rules with bodies: Eval is their closure, Once a step
\* towards it.
ASSUME ClosureAssumption ==
  \A r \in Rules, S \in SUBSET Fact :
    /\ Eval(r, {}) = {}
    /\ S \subseteq Eval(r, S) /\ Eval(r, S) \subseteq Fact
    /\ Eval(r, Eval(r, S)) = Eval(r, S)
    /\ Once(r, S) \subseteq Eval(r, S)
    /\ Once(r, S) \subseteq S => Eval(r, S) = S
    /\ Idb(r, S) \subseteq S
    /\ \A T \in SUBSET S : Eval(r, T) \subseteq Eval(r, S) /\ Idb(r, T) \subseteq Idb(r, S)

VARIABLES
  wiring,    \* the propagators of this network of cells
  live,      \* the registered propagators of the observed network
  topo,      \* the cell of topology facts: the increments merged into it
  derived, staged, joined, answers, shown,    \* the pipeline's cells
  rules, batch, out,                 \* the primitives' cells
  pattern, matched,                  \* datalog:query's cells
  wired,     \* the rules the engine was built for
  engine,    \* kiroshi's stores
  seen_counts, \* the bridge: how much of topo it has asserted
  given,     \* history: the rules the cell rules has held
  queue      \* the propagators to run

pipeline   == <<derived, staged, joined, answers, shown>>
primitives == <<rules, batch, out, wired, engine, seen_counts, given>>
queried    == <<pattern, matched>>
vars == <<wiring, live, topo, pipeline, primitives, queried, queue>>

is_fact_set(cell) == cell # Nothing
FactsOf(cell)     == IF is_fact_set(cell) THEN cell ELSE {}
Upto(k)           == UNION {topo[i] : i \in 1..k}
topoFacts         == Upto(Len(topo))

\* The readers of each cell that exist. What is behind the setup of the
\* reactive primitive exists once that has run.
Readers(cell) == wiring \cap
  CASE cell = "trigger" -> {"topology"} \cup {q \in {"snapshot"} : "topology" \in wiring => wired # Nothing}
    [] cell = "topo"    -> {"derive", "filter", "batch", "setup"} \cup {q \in {"bridge"} : wired # Nothing}
    [] cell = "derived" -> {"stage", "query", "union", "match"}
    [] cell = "pattern" -> {"match"}
    [] cell = "answers" -> {"filter"}
    [] cell = "rules"   -> {"batch", "setup"}
    [] cell = "engine"  -> {"infer", "forward"}
    [] cell = "staged"  -> {"union"}
    [] cell = "batch"   -> {}

Init ==
  /\ wiring \in Wirings
  /\ live = {} /\ topo = <<>> /\ engine = {} /\ seen_counts = 0 /\ given = {}
  /\ derived = Nothing /\ staged = Nothing /\ answers = Nothing /\ shown = Nothing
  /\ rules = Nothing /\ batch = Nothing /\ out = Nothing
  /\ joined = Nothing /\ wired = Nothing /\ pattern = Nothing /\ matched = Nothing
  /\ queue = wiring \ ({"bridge", "infer", "forward"} \cup {q \in {"snapshot"} : "topology" \in wiring})

\* A propagator leaves the queue as it runs; readers of what changed join it.
Ran(q, changed) == queue' = (queue \ {q}) \cup UNION {Readers(c) : c \in changed}
\* (faulty variants: the increment replaces the content; only a first value is
\* announced; an increment goes in front; the first of the new facts is skipped;
\* a propagator is not run when it is built)
Replaced(cell, increment) == increment
AlertsFirst(name, old, new) == IF is_fact_set(old) THEN {} ELSE {name}
Prepended(increment) == <<increment \ topoFacts>> \o topo
SkippedFacts == UNION {topo[i] : i \in (seen_counts + 2)..Len(topo)}
BuiltAsleep  == {}

merge_fact_sets(cell, increment) == FactsOf(cell) \cup increment
\* Content that merges to an equal set alerts no one.
Alerts(name, old, new) == IF old = new THEN {} ELSE {name}
-----------------------------------------------------------------------------
(* The observed network and its user *)

construct_propagator(n) ==
  /\ n \in Node \ live
  /\ live' = live \cup {n}
  /\ UNCHANGED <<wiring, topo, pipeline, primitives, queried, queue>>

dispose_propagator(n) ==
  /\ n \in live
  /\ live' = live \ {n}
  /\ UNCHANGED <<wiring, topo, pipeline, primitives, queried, queue>>

update_trigger ==
  /\ queue' = queue \cup Readers("trigger")
  /\ UNCHANGED <<wiring, live, topo, pipeline, primitives, queried>>

update_rules(r) ==
  /\ "setup" \in wiring /\ r \in Rules \ {rules}
  /\ rules' = r /\ given' = given \cup {r}
  /\ queue' = queue \cup Readers("rules")
  /\ UNCHANGED <<wiring, live, topo, pipeline, batch, out, wired, engine, seen_counts, queried>>
ask(p) ==
  /\ "match" \in wiring /\ p \in Pattern \ {pattern}
  /\ pattern' = p
  /\ queue' = queue \cup Readers("pattern")
  /\ UNCHANGED <<wiring, live, topo, pipeline, primitives, matched>>
-----------------------------------------------------------------------------
(* The pipeline *)

\* What merge_fact_sets leaves of an increment goes to the end.
Appended(increment) == Append(topo, increment \ topoFacts)

topology_snapshot ==
  LET facts == UNION {Base(n) : n \in live}
  IN  /\ "snapshot" \in queue
      /\ topo' = IF topo # <<>> /\ facts \subseteq topoFacts THEN topo ELSE Appended(facts)
      /\ Ran("snapshot", Alerts("topo", topo, topo'))
      /\ UNCHANGED <<wiring, live, pipeline, primitives, queried>>

run_program ==
  /\ "derive" \in queue
  /\ derived' = merge_fact_sets(derived, Eval(Prog, topoFacts))
  /\ Ran("derive", Alerts("derived", derived, derived'))
  /\ UNCHANGED <<wiring, live, topo, staged, joined, answers, shown, primitives, queried>>

\* The second of two programs wired in sequence takes what the first derived.
wire_sequential_programs ==
  /\ "stage" \in queue
  /\ staged' = merge_fact_sets(staged, Stage(FactsOf(derived)))
  /\ Ran("stage", Alerts("staged", staged, staged'))
  /\ UNCHANGED <<wiring, live, topo, derived, joined, answers, shown, primitives, queried>>

p_datalog_union ==
  LET both == FactsOf(derived) \cup FactsOf(staged)
  IN  /\ "union" \in queue
      /\ joined' = IF both = {} THEN joined ELSE merge_fact_sets(joined, both)
      /\ Ran("union", {})
      /\ UNCHANGED <<wiring, live, topo, derived, staged, answers, shown, primitives, queried>>

construct_grounded_query_propagator ==
  /\ "query" \in queue
  /\ answers' = IF is_fact_set(derived) THEN merge_fact_sets(answers, Answer(derived)) ELSE answers
  /\ Ran("query", Alerts("answers", answers, answers'))
  /\ UNCHANGED <<wiring, live, topo, derived, staged, joined, shown, primitives, queried>>

\* The graph replaces the last one.
construct_topology_filtered_graph_propagator ==
  /\ "filter" \in queue
  /\ shown' = IF topo # <<>> /\ is_fact_set(answers) THEN Graph(topoFacts, answers) ELSE shown
  /\ Ran("filter", {})
  /\ UNCHANGED <<wiring, live, topo, derived, staged, joined, answers, primitives, queried>>
-----------------------------------------------------------------------------
(* The primitives *)

p_datalog_derive ==
  /\ "batch" \in queue
  /\ batch' = IF topo # <<>> /\ rules # Nothing THEN merge_fact_sets(batch, Eval(rules, topoFacts)) ELSE batch
  /\ Ran("batch", Alerts("batch", batch, batch'))
  /\ UNCHANGED <<wiring, live, topo, pipeline, rules, out, wired, engine, seen_counts, given, queried>>

\* What matched an earlier pattern stays.
p_datalog_query ==
  LET found == IF is_fact_set(derived) /\ pattern # Nothing THEN Match(pattern, derived) ELSE {}
  IN  /\ "match" \in queue
      /\ matched' = IF found = {} THEN matched ELSE merge_fact_sets(matched, found)
      /\ Ran("match", {})
      /\ UNCHANGED <<wiring, live, topo, pipeline, primitives, pattern>>

\* p_kiroshi_derive builds the engine when there are rules, once.
Built == wiring \cap {"bridge", "infer", "forward"}
p_kiroshi_derive ==
  /\ "setup" \in queue
  /\ wired' = IF wired = Nothing THEN rules ELSE wired
  /\ queue' = (queue \ {"setup"})
                \cup (IF wired = wired' THEN {} ELSE Built)
  /\ UNCHANGED <<wiring, live, topo, pipeline, rules, batch, out, engine, seen_counts, given, queried>>

construct_kiroshi_topology_propagator == Built \cup {"snapshot"}

\* The first run builds the engine and what takes the snapshots for it.
p_kiroshi_topology ==
  /\ "topology" \in queue
  /\ wired' = IF wired = Nothing THEN Prog ELSE wired
  /\ queue' = (queue \ {"topology"})
                \cup (IF wired = wired' THEN {} ELSE construct_kiroshi_topology_propagator)
  /\ UNCHANGED <<wiring, live, topo, pipeline, rules, batch, out, engine, seen_counts, given, queried>>

\* A store of the engine takes in what it does not have.
fact_array_merge(content, increment) == content \cup increment

\* The bridge asserts what came after the facts it has counted.
NewFacts == UNION {topo[i] : i \in (seen_counts + 1)..Len(topo)}
bridge ==
  /\ "bridge" \in queue
  /\ engine' = fact_array_merge(engine, NewFacts)
  /\ seen_counts' = Len(topo)
  /\ Ran("bridge", Alerts("engine", engine, engine'))
  /\ UNCHANGED <<wiring, live, topo, pipeline, rules, batch, out, wired, given, queried>>

infer ==
  /\ "infer" \in queue
  /\ engine' = fact_array_merge(engine, Once(wired, engine))
  /\ Ran("infer", Alerts("engine", engine, engine'))
  /\ UNCHANGED <<wiring, live, topo, pipeline, rules, batch, out, wired, seen_counts, given, queried>>

\* Only facts of derived predicates leave the engine, and never none. The cell
\* between the engine and the primitive's output is left out.
forward ==
  /\ "forward" \in queue
  /\ out' = IF Idb(wired, engine) = {} THEN out ELSE merge_fact_sets(out, Idb(wired, engine))
  /\ Ran("forward", {})
  /\ UNCHANGED <<wiring, live, topo, pipeline, rules, batch, wired, engine, seen_counts, given, queried>>

-----------------------------------------------------------------------------
Run == \/ topology_snapshot \/ run_program \/ wire_sequential_programs
       \/ construct_grounded_query_propagator \/ construct_topology_filtered_graph_propagator
       \/ p_datalog_derive \/ p_kiroshi_derive \/ bridge \/ infer \/ forward \/ p_datalog_union
       \/ p_kiroshi_topology \/ p_datalog_query

Next == \/ \E n \in Node : construct_propagator(n) \/ dispose_propagator(n)
        \/ update_trigger
        \/ \E r \in Rules : update_rules(r)
        \/ \E p \in Pattern : ask(p)
        \/ Run

\* The scheduler drains its queue.
Fairness == /\ WF_vars(run_program) /\ WF_vars(p_kiroshi_derive)
            /\ WF_vars(bridge) /\ WF_vars(infer) /\ WF_vars(forward)
            /\ WF_vars(p_datalog_union) /\ WF_vars(p_datalog_query)
Spec == Init /\ [][Next]_vars /\ Fairness
-----------------------------------------------------------------------------
(* Properties *)

Cell == {Nothing} \cup SUBSET Fact

\* Every cell holds nothing yet or facts, the bridge has counted no more than
\* there is, and only what is wired is queued.
TypeOK ==
  /\ wiring \in Wirings /\ live \subseteq Node /\ topo \in Seq(SUBSET Fact) /\ queue \subseteq wiring
  /\ derived \in Cell /\ batch \in Cell /\ out \in Cell
  /\ rules \in Rules \cup {Nothing} /\ wired \in Rules \cup {Nothing} /\ given \subseteq Rules
  /\ pattern \in Pattern \cup {Nothing} /\ matched \in Cell
  /\ staged \in {Nothing} \cup SUBSET Claim /\ joined \in {Nothing} \cup SUBSET Claim
  /\ engine \subseteq Fact /\ seen_counts \in 0..Len(topo)

\* With an empty queue the pipeline shows what follows from all snapshots, from
\* the first cell to the graph, and what was asked for is found in it, whatever
\* order the propagators ran in and the questions came
\* (re-derivation on every change, DatalogPropagator.ts:105).
PipelineAtRest ==
  queue = {} =>
    /\ "derive" \in wiring => derived = Eval(Prog, topoFacts)
    /\ "stage" \in wiring =>
         /\ Stage(derived) \subseteq staged
         /\ answers = Answer(derived)
         /\ FactsOf(joined) = derived \cup staged
         /\ topo # <<>> => shown = Graph(topoFacts, answers)
    /\ ("match" \in wiring /\ pattern # Nothing) =>
         Match(pattern, derived) \subseteq FactsOf(matched)

\* With an empty queue the incremental engine has derived what deriving from
\* scratch does, as long as the rules were never replaced: afterwards one keeps
\* the first rules and the other adds up the answers of all. The topology's own
\* engine has derived what follows from every snapshot it took
\* (KiroshiPropagator.ts:1-14, datalog.ts:90-115, 232-256, 274-302).
IncrementalIsBatch ==
  queue = {} =>
    /\ ("batch" \in wiring /\ given = {wired}) => FactsOf(out) = Idb(wired, FactsOf(batch))
    /\ "topology" \in wiring => FactsOf(out) = Idb(Prog, Eval(Prog, topoFacts))

\* The second program may deny what a later snapshot brings, and its conclusion
\* stays (the merge is additive); but whatever it concludes has been so after
\* one of the snapshots: it never sees a half-closed set, nor facts of one
\* snapshot without those of an earlier one
\* (topology_triad_one_way_surface_program, wire_sequential_programs).
ClaimsWereTrue ==
  \A f \in FactsOf(staged) :
    \E k \in 0..Len(topo) : f \in Stage(Eval(Prog, Upto(k)))

\* No cell of facts ever loses one (facts are never retracted,
\* DatalogPropagator.ts:113).
NothingRetracted ==
  [][/\ topoFacts \subseteq topoFacts' /\ engine \subseteq engine'
     /\ FactsOf(derived) \subseteq FactsOf(derived)' /\ FactsOf(staged) \subseteq FactsOf(staged)'
     /\ FactsOf(out) \subseteq FactsOf(out)' /\ FactsOf(joined) \subseteq FactsOf(joined)'
     /\ FactsOf(matched) \subseteq FactsOf(matched)']_vars

=============================================================================
