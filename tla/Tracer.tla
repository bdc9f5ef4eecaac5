------------------------------- MODULE Tracer -------------------------------
(***************************************************************************)
(* The tracers: a propagator that keeps a picture of the network upstream  *)
(* of a root cell in a gatherer cell, while the network is rewired, its    *)
(* cells change, and the picture itself may feed back into what is traced. *)
(*   reactive, periodic    trace_upstream_reactively/_periodically         *)
(*   trace, once, timed    trace, trace_once, trace_periodic               *)
(* A cell's value is the stamp of the newest write it has seen; the        *)
(* scheduler and the propagators of the network are the library's.         *)
(***************************************************************************)
EXTENDS Integers, Sequences, FiniteSets, SequencesExt, Helpers

CONSTANTS
  Cell, Prop,       \* the cells and the propagators there may be
  Passing,          \* those that may be disposed again
  Ins, Out,         \* the input cells (a sequence) and the output of each
  Root, Gatherer,   \* the cell traced and the cell that gets the graph
  Self,             \* the tracer's own propagator, Root -> Gatherer
  Named,            \* propagators of the network with "tracer" in their name
  Kinds,            \* which of the five tracers
  MaxNodes,         \* option maxNodes
  MaxRebuilds,      \* option maxRebuilds
  MaxWrite,         \* bound: stamps of outside writes
  MaxClock          \* bound: stamps of all writes, for each kind

ASSUME TracerAssumption ==
  /\ IsFiniteSet(Cell) /\ IsFiniteSet(Prop)
  /\ Root \in Cell /\ Gatherer \in Cell /\ Root # Gatherer
  /\ Passing \subseteq Prop /\ Named \subseteq Prop /\ Prop \cap Cell = {} /\ Self \notin Cell \cup Prop
  /\ Ins \in [Prop -> Seq(Cell)] /\ Out \in [Prop -> Cell]
  /\ Kinds \subseteq {"reactive", "periodic", "trace", "once", "timed"}
  /\ {MaxNodes, MaxRebuilds, MaxWrite} \subseteq Nat
  /\ MaxClock \in [Kinds -> Nat] /\ \A k \in Kinds : MaxWrite <= MaxClock[k]

VARIABLES
  kind,
  wired, gone,     \* the propagators attached, in order; those disposed
  value, clock,    \* the stamp of each cell, the newest stamp
  due,             \* alerted propagators, Self among them
  attached,        \* the tracer is a neighbour of Root
  started,         \* initialized, or the interval runs
  tapped, taps,    \* cells ever given a tap; those whose tap is there
  fired,           \* those whose tap is alerted
  tasks,           \* queued microtasks, by the tap that queued them
  rebuilds,        \* rebuild_count
  graph,           \* the graph object the tracer rebuilds
  seen             \* the graph the gatherer got last; NoGraph before

network == <<wired, gone, value, clock, due>>
tracer  == <<attached, started, tapped, taps, fired, tasks, rebuilds, graph, seen>>
vars    == <<kind, network, tracer>>

NoGraph    == [node |-> {}, edge |-> {}]
Item       == Cell \cup Prop \cup {Self}
Careful    == kind \in {"reactive", "periodic"}

Inputs(p)  == IF p = Self THEN <<Root>> ELSE Ins[p]
Output(p)  == IF p = Self THEN Gatherer ELSE Out[p]

\* cell_dependents: the attached propagators that write c, oldest first.
Writers(c) == Without(wired, {p \in ToSet(wired) : Output(p) # c})
-----------------------------------------------------------------------------
\* upstream_bfs is two loops: over the queue, and over the links that lead to the
\* cell it is at. A propagator on a new link counts once; the inputs it brings
\* into the graph are not counted until the search visits them.
Search == [queue : Seq(Cell), at : Cell, links : Seq(Prop \cup {Self}),
           cells : SUBSET Cell, props : SUBSET Prop, count : Nat, cut : BOOLEAN,
           graph : [node : SUBSET Item, edge : SUBSET (Item \X Item)]]

NoRoomTooLate(s, p, cap) == p \notin s.props /\ s.count > cap
NoRoom(s, p, cap) == p \notin s.props /\ s.count >= cap

\* The tracer is left out of its own picture, and what is named like it.
is_tracer_propagator(p) == p \in {Self} \cup Named

Follow(s, p, cap) ==
  IF is_tracer_propagator(p) THEN s
  ELSE IF NoRoom(s, p, cap) THEN [s EXCEPT !.cut = TRUE]
  ELSE [s EXCEPT
    !.props = @ \cup {p},
    !.count = @ + (IF p \in s.props THEN 0 ELSE 1),
    !.queue = @ \o Without(Inputs(p), s.cells),
    !.graph = [node |-> @.node \cup {p} \cup ToSet(Inputs(p)),
               edge |-> @.edge \cup {<<p, s.at>>} \cup {<<i, p>> : i \in ToSet(Inputs(p))}]]

Visit(s, c, cap) ==
  IF c \in s.cells THEN s
  ELSE IF s.count >= cap THEN [s EXCEPT !.cut = TRUE]
  ELSE [s EXCEPT !.cells = @ \cup {c}, !.count = @ + 1, !.graph.node = @ \cup {c},
                 !.at = c, !.links = Writers(c)]

BFSDone(s) == s.cut \/ (s.links = <<>> /\ s.queue = <<>>)
BFSStep(s, cap) ==
  IF s.links # <<>> THEN Follow([s EXCEPT !.links = Tail(@)], Head(s.links), cap)
                    ELSE Visit([s EXCEPT !.queue = Tail(@)], Head(s.queue), cap)

\* graph.clear(): the graph object is the one of the last rebuild.
ClearForgotten == graph
Clear == NoGraph

UpstreamBFS(cap) ==
  LET run[s \in Search] == IF BFSDone(s) THEN s ELSE run[BFSStep(s, cap)]
  IN  run[[queue |-> <<Root>>, at |-> Root, links |-> <<>>, cells |-> {}, props |-> {},
           count |-> 0, cut |-> FALSE, graph |-> Clear]]

\* get_dependents, of a cell and of a propagator.
Walk(x) == IF x \in Cell THEN Writers(x) ELSE Inputs(x)

\* traverse with graph_step and cyclic_prevention_walk: nothing is removed from
\* the graph it starts from, and the tracer itself is a node like any other.
Walked == [queue : Seq(Item), walked : SUBSET Item,
           graph : [node : SUBSET Item, edge : SUBSET (Item \X Item)]]

WalkStep(s) ==
  LET x == Head(s.queue)
  IN  [queue  |-> Tail(s.queue) \o (IF x \in s.walked THEN <<>> ELSE Walk(x)),
       walked |-> s.walked \cup {x},
       graph  |-> [node |-> s.graph.node \cup {x} \cup ToSet(Walk(x)),
                   edge |-> s.graph.edge \cup {<<x, y>> : y \in ToSet(Walk(x))}]]

Traverse(start) ==
  LET run[s \in Walked] == IF s.queue = <<>> THEN s ELSE run[WalkStep(s)]
  IN  run[[queue |-> <<Root>>, walked |-> {}, graph |-> start]]
-----------------------------------------------------------------------------
Init ==
  /\ kind \in Kinds
  /\ wired = <<Self>> /\ gone = {}
  /\ value = [c \in Cell |-> 0] /\ clock = 0
  /\ due = {Self} /\ attached = TRUE /\ started = FALSE
  /\ tapped = {} /\ taps = {} /\ fired = {} /\ tasks = {} /\ rebuilds = 0
  /\ graph = NoGraph /\ seen = NoGraph

\* A cell that changed alerts the propagators that read it, and its tap.
ReadersOf(c) == {p \in ToSet(wired) : c \in ToSet(Inputs(p))}

\* construct_propagator attaches p and alerts it; dispose_propagator undoes it.
Wire(p) ==
  /\ p \notin ToSet(wired) \cup gone
  /\ wired' = Append(wired, p) /\ due' = due \cup {p}
  /\ UNCHANGED <<kind, gone, value, clock, tracer>>

Unwire(p) ==
  /\ p \in ToSet(wired) \cap Passing
  /\ wired' = Without(wired, {p})
  /\ gone' = gone \cup {p} /\ due' = due \ {p}
  /\ UNCHANGED <<kind, value, clock, tracer>>

UserWrite(c) ==
  /\ clock < MaxWrite /\ c # Gatherer
  /\ clock' = clock + 1 /\ value' = [value EXCEPT ![c] = clock + 1]
  /\ due' = due \cup ReadersOf(c) /\ fired' = fired \cup (taps \cap {c})
  /\ UNCHANGED <<kind, wired, gone, attached, started, tapped, taps, tasks, rebuilds, graph, seen>>

\* A propagator of the network passes on the newest of what it reads.
Run(p) ==
  /\ p \in due
  /\ LET new == Max({value[c] : c \in ToSet(Ins[p])} \cup {value[Out[p]]})
         up  == IF new > value[Out[p]] THEN {Out[p]} ELSE {}
     IN  /\ value' = [value EXCEPT ![Out[p]] = new]
         /\ due' = (due \ {p}) \cup UNION {ReadersOf(c) : c \in up}
         /\ fired' = fired \cup (taps \cap up)
  /\ UNCHANGED <<kind, wired, gone, clock, attached, started, tapped, taps, tasks, rebuilds, graph, seen>>
-----------------------------------------------------------------------------
\* guard_active; what it runs when the reactive tracer is not active; the end
\* of the rebuilds.
Active == attached

DisposeTaps == tapped' = {} /\ taps' = {} /\ fired' = {}

SpentAtOnce == rebuilds >= 1
Spent       == rebuilds >= MaxRebuilds

\* update_specialized_reactive_value(gatherer, ..., graph), by a tracer that has
\* left the propagators `left` due and just put taps on `new`: a fresh tap is
\* alerted once, as every new propagator is.
Emit(g, new, left) ==
  /\ clock < MaxClock[kind]
  /\ seen' = g /\ clock' = clock + 1
  /\ value' = [value EXCEPT ![Gatherer] = clock + 1]
  /\ due' = left \cup ReadersOf(Gatherer)
  /\ fired' = fired \cup new \cup (taps \cap {Gatherer})

ChangedAlways(g) == TRUE
Changed(g) == g # seen

\* rebuild_core: emit_if_changed compares with the signature emitted last.
RebuildCore(left) ==
  LET b   == UpstreamBFS(MaxNodes)
      new == IF kind = "reactive" THEN b.cells \ (tapped \cup {Gatherer}) ELSE {}
  IN  /\ graph' = b.graph
      /\ tapped' = tapped \cup new /\ taps' = taps \cup new
      /\ IF Changed(b.graph) THEN Emit(b.graph, new, left)
         ELSE /\ fired' = fired \cup new
              /\ due' = left
              /\ UNCHANGED <<value, clock, seen>>

\* The other tracers write the gatherer at every rebuild; trace goes on with the
\* graph object of the last one, and taps the cells the walk came by.
RebuildAll(left) ==
  LET t   == Traverse(IF kind = "trace" THEN graph ELSE NoGraph)
      new == IF kind = "trace" THEN (t.walked \cap Cell) \ tapped ELSE {}
  IN  /\ graph' = t.graph /\ tapped' = tapped \cup new /\ taps' = taps \cup new
      /\ Emit(t.graph, new, left)

Rebuild(left) == IF Careful THEN RebuildCore(left) ELSE RebuildAll(left)

\* The tracer's own activation, alerted when it is made and when Root changes.
ActivateReactive ==
  /\ Self \in due /\ kind = "reactive" /\ ~started
  /\ tasks' = {Self} /\ started' = TRUE /\ due' = due \ {Self}
  /\ UNCHANGED <<kind, wired, gone, value, clock, attached, tapped, taps, fired, rebuilds, graph, seen>>

\* periodic and timed draw a first picture and start their interval.
ActivateTimed ==
  /\ Self \in due /\ kind \in {"periodic", "timed"} /\ ~started
  /\ Rebuild(due \ {Self}) /\ started' = TRUE
  /\ UNCHANGED <<kind, wired, gone, attached, tasks, rebuilds>>

ActivateTrace ==
  /\ Self \in due /\ kind = "trace" /\ ~started
  /\ Rebuild(due \ {Self}) /\ started' = TRUE
  /\ UNCHANGED <<kind, wired, gone, attached, tasks, rebuilds>>

ActivateOnce ==
  /\ Self \in due /\ kind = "once"
  /\ Rebuild(due \ {Self})
  /\ UNCHANGED <<kind, wired, gone, attached, started, tasks, rebuilds>>

AlreadyStarted ==
  /\ Self \in due /\ started
  /\ due' = due \ {Self}
  /\ UNCHANGED <<kind, wired, gone, value, clock, tracer>>

Activate == ActivateReactive \/ ActivateTimed \/ ActivateTrace \/ ActivateOnce \/ AlreadyStarted

\* A tap fires. In the reactive tracer a tap that finds the tracer detached
\* disposes every tap, and one microtask is pending at a time.
FireTap(c) ==
  /\ c \in fired
  /\ IF kind = "reactive" /\ ~Active
     THEN DisposeTaps /\ UNCHANGED tasks
     ELSE /\ fired' = fired \ {c} /\ UNCHANGED <<tapped, taps>>
          /\ tasks' = IF kind = "trace" THEN tasks \cup {c}
                      ELSE IF tasks # {} \/ Spent THEN tasks ELSE {Self}
  /\ UNCHANGED <<kind, network, attached, started, rebuilds, graph, seen>>

\* The pending microtask of the reactive tracer.
MicrotaskReactive ==
  /\ tasks = {Self}
  /\ tasks' = {}
  /\ IF Active
     THEN Rebuild(due) /\ rebuilds' = rebuilds + 1
     ELSE DisposeTaps /\ UNCHANGED <<value, clock, due, rebuilds, graph, seen>>
  /\ UNCHANGED <<kind, wired, gone, attached, started>>

\* A microtask of trace does not look whether the tracer is still attached.
MicrotaskTrace(c) ==
  /\ c \in tasks
  /\ tasks' = tasks \ {c} /\ Rebuild(due)
  /\ UNCHANGED <<kind, wired, gone, attached, started, rebuilds>>

Microtask == MicrotaskReactive \/ \E c \in Cell : MicrotaskTrace(c)

\* The interval; it is cleared by the tick that finds the tracer detached.
Tick ==
  /\ kind \in {"periodic", "timed"} /\ started
  /\ IF Active
     THEN Rebuild(due) /\ UNCHANGED started
     ELSE started' = FALSE /\ UNCHANGED <<value, clock, due, tapped, taps, fired, graph, seen>>
  /\ UNCHANGED <<kind, wired, gone, attached, tasks, rebuilds>>

\* The tracer's propagator is disposed (its card is taken down, or init_system
\* runs). trace made its taps children of the tracer, so they go with it.
Detach ==
  /\ attached
  /\ attached' = FALSE
  /\ wired' = Without(wired, {Self}) /\ due' = due \ {Self}
  /\ IF kind = "trace" THEN taps' = {} /\ fired' = {} ELSE UNCHANGED <<taps, fired>>
  /\ UNCHANGED <<kind, gone, value, clock, started, tapped, tasks, rebuilds, graph, seen>>

Next ==
  \/ \E p \in Prop : Wire(p) \/ Unwire(p) \/ Run(p)
  \/ \E c \in Cell : UserWrite(c) \/ FireTap(c)
  \/ Microtask \/ Activate \/ Tick \/ Detach

Spec == Init /\ [][Next]_vars

\* Whatever is alerted or queued, something of it is done: the scheduler is
\* flushed and the event loop takes its microtasks, in an order of their own.
\* Nothing obliges anyone to write, rewire or detach.
EventLoop ==
  \/ \E p \in Prop : Run(p)
  \/ \E c \in Cell : FireTap(c)
  \/ Microtask \/ Activate

FairSpec == Spec /\ WF_vars(EventLoop)
-----------------------------------------------------------------------------
\* What the picture is of: every cell and propagator from which a path of
\* attached propagators not named like a tracer leads to the root.
Pictured == {p \in ToSet(wired) : ~is_tracer_propagator(p)}
Above(X) == X \cup UNION {ToSet(Inputs(p)) : p \in {q \in Pictured : Output(q) \in X}}
UpstreamCells == {c \in Cell : \A X \in SUBSET Cell : Root \in X /\ Above(X) \subseteq X => c \in X}
Upstream ==
  LET cells == UpstreamCells
      props == {p \in Pictured : Output(p) \in cells}
  IN  [node |-> cells \cup props,
       edge |-> {<<p, Output(p)>> : p \in props} \cup UNION {{<<i, p>> : i \in ToSet(Inputs(p))} : p \in props}]

\* upstream_bfs says so when its picture is not the whole upstream, at whatever
\* number of nodes it is cut off and in whatever order the network was wired.
\* (Every network there can be is one the periodic tracer may start from.)
CutIsReported ==
  kind = "periodic" /\ ~started /\ clock = 0 =>
    \A cap \in 0..Cardinality(Item) :
      LET b == UpstreamBFS(cap)
      IN  /\ b.cut \/ b.graph = Upstream
          /\ b.graph.node \subseteq Upstream.node /\ b.graph.edge \subseteq Upstream.edge
          /\ b.count <= cap

\* Whatever microtask or interval is pending, a tracer writes the gatherer only
\* while it is attached, and no picture with a link of a propagator that was gone
\* when it looked; but for trace, which does not look whether it was disposed and
\* whose graph object is never cleared (tracer.ts, generalized_tracer.ts).
NoGhosts ==
  [][seen' # seen /\ kind # "trace" =>
       attached /\ \A e \in seen'.edge : gone \cap {e[1], e[2]} = {}]_vars

\* The reactive tracer comes to rest although its own picture feeds back into
\* the cells it taps: a rebuild that changes nothing is not written.
ComesToRest == kind = "reactive" => <>[](tasks = {} /\ fired = {} /\ due = {})

\* A tap that fires is answered: there comes a moment at which the gatherer's
\* graph is that of the network as it then is, unless the tracer is detached
\* or has used up its rebuilds.
TapIsAnswered ==
  fired # {} /\ kind = "reactive" ~>
    seen = Upstream \/ ~attached \/ rebuilds = MaxRebuilds
=============================================================================
