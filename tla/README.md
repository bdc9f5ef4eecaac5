# lain-lang in TLA+

lain-lang is a live-coding language on top of a propagator network
(TypeScript, Bun). A browser shows *cards*; a Connect server keeps a session
per tab, a table of cards and the links between neighbouring cards, compiles a
card's code into propagators, and streams the values that come out back to the
tab. Peers share cells over Gun. This directory holds TLA+ models of the parts
whose correctness depends on the order in which things happen, TLC
configurations that check them on small instances, and TLAPS proofs.

Paths are relative to the repository root; `grpc/` stands for `src/grpc/`.

Contents: [the system](#the-system) · [what is modelled](#what-is-modelled) ·
[the runs](#the-runs) · [the proofs](#the-proofs) ·
[where code and words disagree](#where-code-and-words-disagree) ·
[what is not modelled](#what-is-not-modelled) · [the plan](#the-plan)

## The system

### Inventory

| Part | State | Operations | Hard because | Correct when |
|---|---|---|---|---|
| Slot maps (`grpc/delta/`) | none (pure) | apply a delta, declare edges, diff two maps into card events | events depend on each other; a pair of cards may be declared from either side | the events lead from what the old map declares to what the new one does, each applicable when its turn comes |
| Card table (`grpc/card/card_metadata.ts`, `card_lifecycle.ts`, `card_api.ts`) | `card_metadata_storage`, `connector_links`, updater and `::this` cells | add, remove, connect, detach, update, build | each link is in two tables; nothing is rolled back when an event throws; `::this` lags its updater by a scheduler period | links can always be reached from both cards; cards show and compile the code last sent |
| Request handlers (`grpc/connect_server.ts`) | one slot map per session | OpenSession (setup), PushDeltas, CardBuild | all sessions share one card table; sessions appear and vanish between requests | the table mirrors the slot maps; requests do not fail half-way |
| Session streams (`grpc/session/`, `grpc/bridge/card_runtime_events.ts`) | queue, `resolveWait`, subscribers of card outputs, store entry | subscribe, push, wait with timeout, drain, end | continuations run in later microtasks; a client may stop reading at any yield; one waiter per session, not per stream | every output handed over once and in order; no lost wake-up; an aborted stream ends and unsubscribes |
| Cells shared over Gun (`DB/serialize/gun_cell.ts`, `gun_state.ts`, `compiler/sync_to_gun.ts`) | the graph node of a cell, listeners, neighbour snapshots | publish, merge an increment, compute and store the strongest value, announce and learn neighbours, dispose | every listener awaits a decode between hearing and acting; announcements come back | peers end up with the host's value; what is stored is the strongest of what was heard; announcements do not echo |
| Gun encoding and resolution (`DB/serialize/encode.ts`, `decode.ts`, `schemas/`, `gun_resolve.ts`) | a visited set per resolution | encode, decode, resolve nested references | kinds are told apart by shape; one visited set for all branches; a read that is late resolves to null | a value comes back, or with holes that have a reason, never as another |
| P2P start-up (`src/p2p/`) | configuration, timers | set up a node, start the synchronisation | fixed delays stand in for events | no update is lost during start-up |
| Reactive values (`grpc/better_runtime/`) | wall times and vector clocks of the sources of a cell | strongest value of the contents of a cell | equal times contradict; the set is reduced in the order of its elements | latest source wins, whatever the order of arrival |
| Closure store (`compiler/closure/hash.ts`) | weak references by hash | store, look up, collect | the finalizer of an old value runs after a new one is stored | a live closure is found under its hash |
| Closure application (`closure/unfold.ts`, `application.ts`) | the unfolding of each call site | unfold, dispose, swap, merge unfoldings | swapping a closure under a running network | a call site shows what the current definition makes of the current operand; no network is left behind |
| Environments (`compiler/env/`, `selector.ts`) | cells by name, parent links, cached lookups | define, look up through parents | a name may be defined, shadowed or redefined after it was looked up | the nearest definition wins |
| Compilers and REPLs (`compiler/incremental_compiler.ts`, `compiler/init.ts`, `repl.ts`, `worker/`) | environment cells; the scheduler's timer | compile, recompile, flush every 10 ms | the flush interleaves with requests | (the networks are ppropogator's) |
| Push-to-iterable bridge, NetworkStream (`grpc/util/`, `grpc/handlers/`) | queue, closed flag, one waiter | push, close, next | a push races the consumer's wait | every value handed over once, the iteration ends |
| Runtime output bridge (`grpc/bridge/connect_bridge_minireactor.ts`) | last value of each outbox | forward unless equal | guards against echo loops | no output echoed, none lost |
| Wire codec (`grpc/codec/`) | none | protobuf to slot map and back | texts are read as numbers and literals | a stream is told what the card shows |
| CLI peers (`src/cli/`) | running peers, current peer | new, use, close, exec, exit | commands await between reading and writing the table | ids and ports are unique; the current peer runs |
| Tracer (`compiler/tracer/`) | taps, microtasks, intervals, the graph drawn last | attach, tap, rebuild, detach; combine and query graphs | rebuilds run in microtasks; the picture feeds back into what is traced; cycles | pictures show what is there or say they are cut; no rebuild loop; queries agree with their relational definitions |
| Datalog (`compiler/datalog/`, `compiler/primitive/stdlib/datalog.ts`) | cells of facts, an incremental engine | snapshot, derive, stage, query, filter | propagators in any order over growing facts; negation; an engine that is fed by position | at rest the cells hold what follows from all facts; nothing is claimed that was never so |
| core-02 prototype (`core-02/`) | cells, nodes | update | - | - |

ppropogator (cells, propagators, scheduler), Gun, MiniReactor, MiniDatalog,
kiroshi, graphology and Connect are libraries outside the repository. They are
modelled, where they matter, by how the code uses them.

### How the parts interact

- A tab calls OpenSession (a server stream), PushDeltas and CardBuild. All
  three find or create the session in `session_store` by id, transform its slot
  map, and apply the difference to the card table, which is global.
- Applying an event changes the card table and writes cells. The scheduler
  runs what those writes alert, in a 10 ms timer or inside an operation that
  calls it, and what comes out of a card's `::this` is handed to
  every subscriber of card outputs: one per OpenSession stream.
- A value a client sends is decoded, written to the updater of a card, shown in
  `::this` after the flush, emitted to every stream and encoded again.
- The compiler binds names in environments and unfolds closures at call sites;
  redefinitions swap the networks that run there.
- Tracers and Datalog snapshots read the network's own registry
  of propagators and write what they find into cells of the same network.
- A subscriber pushes to the queue of its session's state and wakes the one
  stream that waits on it; the stream yields what it finds.
- A host cell is published by a propagator on it. Peers set increments and
  announce neighbours in the same graph node, and the host's listeners merge
  them, which alerts the publishing propagator again.

The server has one JavaScript thread: code between two awaits is atomic. The
interleavings are those of requests with each other and with the scheduler's
timer, of the suspensions of the stream generators, and of the decodes of Gun
listeners.

## What is modelled

| Module | Role |
|---|---|
| `SlotMaps` | slot maps, deltas, the edges a map declares, the card events between two maps (pure) |
| `CardSync` | the card table, the requests that change it, the scheduler's flush |
| `CarefulClient` | `CardSync` driven by clients of three kinds: any, careful ones that respect what the server takes for granted, patient ones |
| `CardOutput` | from a client's value to what every stream is told: codec, updater, `::this`, emission (uses `SlotMaps`) |
| `EventStream` | abstract: what OpenSession promises a client |
| `SessionStream` | session store, subscriptions, the stream's wait-and-yield loop |
| `NetworkStream` | the push-to-iterable bridge and the heartbeat stream over it |
| `GunSync` | one cell shared by a host and its peers over Gun |
| `GunInstance` | a cell that lives in Gun and computes its own strongest value |
| `GunCodec`, `GunResolve` | encoding and decoding of values (pure); resolution of nested references |
| `LatestWins` | cells of reactive values that pass what they show on to each other |
| `Scopes` | one name in nested environments: definitions, cached lookups |
| `ClosureSites` | call sites, the networks they unfold, the store closures are compared through |
| `PeerTable` | the CLI's peers, its commands, their set-up and its failures |
| `Tracer` | the five tracers over a network that is rewired while they run |
| `GraphSearch`, `TracedGraphs` | the searches of a traced graph, and the combinators about its paths (pure); every graph they may be asked of |
| `Unification`, `Datalog` | logic terms, the Datalog programs (pure) |
| `GraphRelations`, `GraphQueries` | goals over a traced graph's relations, the questions asked with them, the other combinators and label queries; the query language with its groups of clauses (pure) |
| `FactFlow` | the propagators that carry facts: pipeline, primitives, incremental engine |
| `Parts` | the machines `ClosureSites` to `CardOutput` side by side: their constants, with what is assumed of them, their variables, one specification |
| `Helpers` | sequences without some of their elements |
| `MCCardSync`, `MCSessionStream`, `MCGunSync`, `MCTracerStreams`, `MCGraphQueries`, `MCFactFlow`, `MCParts` | instances for TLC |
| `CardSync_proofs` (with `CarefulClient`), `SessionStream_proofs`, `GunSync_proofs`, `FactFlow_proofs`, `Tracer_proofs` (with `TracedGraphs`) | theorems of one module |
| `ServerParts_proofs` (`NetworkStream`, `PeerTable`, `CardOutput`, `GunInstance`, `GunResolve`, `GunCodec`), `CompilerParts_proofs` (`ClosureSites`, `Scopes`, `LatestWins`) | theorems of the machines of `Parts` |
| `Helpers_proofs` | lemmas on numbers and sequences |

`CardSync` extends `SlotMaps`; `CarefulClient` extends `CardSync`;
`SessionStream` instantiates `EventStream` under a refinement mapping;
`GraphRelations` extends `Unification`, which `Datalog` shares, and `GraphSearch`;
`TracedGraphs` and `GraphQueries` extend it; `Parts` instantiates its
machines and the Gun encoding, which has no steps: a behaviour of part "none" has one of the
values and keeps it. `MCTracerStreams` puts two machines whose properties need fairness side by
side, the tracers and two streams of one session. `MCFactFlow` gives `FactFlow` the
programs of `Datalog`, and checks on every set of facts that its short definitions of
them are what `Datalog`'s evaluator derives (`ProgramsAssumption`). Some definitions
are preceded by a *faulty variant*: the same code with a plausible mistake,
which shows what each property would catch.

### Card table: `SlotMaps`, `CardSync`, `CarefulClient`

State. `slotMap` is `SessionState.slotMap`, a function on the keys present
(`"c1::right"` is `<<c1, "right">>`). `stored` is the domain of
`card_metadata_storage`; since metadata is replaced rather than changed when a
card is added again, `inc[c]` names the instance. `conn[a][b]` is what `a` keeps
under the key `"a->b"` in `connector_links`; `live` is the set of links whose
source cells still point at the slots of both cards, which no table of the
program records, since a replaced metadata takes its table with it. `updater`
and `this` are a card's two cells, `dirty` the updaters the scheduler has not
run yet, `compiled` the source of the card's compiled network.

Actions. A request (`OpenSession`, `PushDeltas`) runs to its reply without an
await, but event by event, and any event may throw: `serving` and `todo` let
each event be a step (`ApplyDetach`, `ApplyRemove`, `ApplyAdd`, `ApplyConnect`,
`ApplyUpdate`), ended by `Commit` or `Throw`, with no other request in
between. `CardBuild` (one step: nothing can stop it half-way), `CloseSession`
(the stream's `remove_session`) and `Flush` (the 10 ms timer of
`compiler/init.ts`) happen between requests.

Abstractions. `::this` is written through the updater alone; what linked neighbours and
compiled code write into it in the program is ppropogator's propagation and is left out (a
compiled network's own writes are in `CardOutput`), as are
the reactive recompilations of a compiled network after its construction. The claims about
`::this` (`CardsShowTheirCode`, `PatientBuilds`) are therefore about what clients send.
A card's compound propagators are built in one go. `bind_context_slots_io` is
a stub that does nothing. Card ids are naturals, ordered as the id strings are. The empty session id is a legal
argument of CardBuild only.

`CarefulClient` states what clients must respect and the server never checks:
sessions describe disjoint cards, each neighbour named has keys of its own, and no
two cards are connected on two sides at once (`WellFormed`). The variable `client` says of
which kind the clients of a behaviour are: `"any"` ones push and open whatever there is,
`"careful"` ones respect this, and `"patient"` ones also wait for the flush before they push
again. Each property says for whom it holds: `TypeOK` and `LinksStayReachable` for any,
`Mirror` and `NoRequestThrows` for careful, the other two for patient clients. The
requests of others that throw half-way (a pair connected on two sides, a card that is only pointed at, a card added
again) are taken by the first kind, and what they leave behind is what `LinksStayReachable` is checked on.

### Streams: `SessionStream` implementing `EventStream`

State. `entry` is `session_store`; a `SessionState` object is a number, with its
`queue` and `waiter` (whose `resolveWait` it holds). Each OpenSession call is a
`Stream` with the state it works on (`obj`: it keeps the object, not the id), its
suspension point (`pc`), what its wait resolved to (`has`), whether its client
aborted, and whether it is among the `subscribed`. An action is what runs
between two suspensions.

Actions. `Open` and `OpenThrows` (setup), `Resume` (the consumer asks for the next
message: abort check, drain, or wait), `Timeout`, `Continue` (the continuation of
the await, in its own microtask), `Return`, `Abort`, and the emissions:
`PushDeltas` (which finds or creates a state) and `Emit` (CardBuild, the timer).
`Close` is the finally block.

Abstraction. What a slot map holds is `CardSync`'s subject; heartbeats carry
nothing and are not recorded; a request emits at most one output.

`MayShare` says whether a client may open a session that another stream still
serves. The server does not forbid it. What holds only without sharing is
checked and proved under `~MayShare`, and what sharing breaks is shown.

The refinement maps `pending` to the queue of the state a live stream works on,
and leaves `subscribed` and `got` as they are: sessions, waiters, timers and
states disappear.

### Cells over Gun: `GunSync`

State. `items`, `puts`, `announced` are the graph node: the increments set under
`content`, the values put at `cell_strongest`, and how often each process set each
neighbour. The host has the increments it is decoding, the merged content, what
`cell_neighbor_delta` remembers and whether its publishing propagator is alerted.
Each process has the propagators it knows, the neighbour entries it has heard of
and those it is decoding. Each peer has the puts that reached it, those it is
decoding, the snapshot it shows, the interests of its neighbours, and what its own
propagators last ran on.

Actions. One to hear and one to act for each listener (`HearItem` /
`contentListener`, `HearNeighbor` / `neighborsListener` or
`setup_neighbors_listener`, `HearStrongest` / `setup_strongest_listener`), since
each awaits its decode in between; `cell_to_gun_cell` is the publishing propagator,
`Construct` a propagator constructed on the cell, `OtherCellPublishes` the neighbour
map shared by all published cells, `initialize_neighbors` the receiver's start-up,
`dispose` the end of the listeners of a process.

Abstractions. Values are the sets of increments merged into them. Gun is
external: a listener is called at most once per entry and with newer strongest
values only, possibly skipping some. Decoding is a delay of unknown length.
Decodes finish in any order, since each awaits Gun reads of its own number: `overtaken[r]`
says that the value a peer decoded last is older than one decoded before it, which
`setup_strongest_listener` stores all the same.

### What streams are told: `CardOutput`

State. For each session its `slotMap`; the `subscribed` sessions; for each card what its
updater will be (`pending`), what `this` shows, the code it `compiled`, and
whether a card of that id was replaced (`orphaned`). `told[s][c]` is the last message
a stream had of a card, `since[s]` the cards written or computed since it began.

Actions. `OpenSession`, `PushDeltas`, `CardBuild`, `EndStream`, `Flush`, `Computes`
(a compiled network writes `::this`) and `OrphanComputes` (so does one whose
metadata was replaced). A request decodes, diffs and applies in one step; an
event that throws leaves those before it applied.

Abstractions. Slot maps have code slots only, deltas one key; a session has one
stream. Links are `CardSync`'s subject, queues `SessionStream`'s. A text is its
sequence of tokens where it is parsed.

What follows from the code and may surprise: a code slot holding `"42"` arrives as a
number, for which CardBuild replies with success and compiles nothing; an
infinite number is encoded as null; a card id with a `::slot` in it is parsed as
another key; adding a card that is stored replaces its metadata without
disposing the old network, which goes on emitting under its id
(`OrphanComputes`), so `StreamsAreCurrent` leaves those cards out.

### The computing instance: `GunInstance`

State. Increments in Gun; for each of the two content listeners what it has
heard and is decoding; the snapshots `content` and `shown`; the strongest node
(`stored`), whether Gun still has to call its listener (`unheard`) and what that one is
decoding (`echoes`); a reader on its way to become a neighbour.

Actions. One to hear and one to act per listener, `ComesToNothing` for a decode
that yields no value, `RunNeighbor` for the scheduler, `initialize_neighbors`
for the start-up, which puts an empty map in place of what was heard until
then, and `dispose`.

Abstractions. Increments are numbered by strength; content is a set (the code
pushes each increment twice to an array). There is one instance per cell; other
machines hold receivers (`gun_cell.ts:493-497`).

Noticed: a stale echo is shown until the next increment; a neighbour
forgotten at start-up is never alerted again; a reader attached and not yet
heard back from Gun misses changes (`missed`).

### Values in Gun: `GunCodec`, `GunResolve`

`GunCodec` has one operator for each schema's encoder and decoder; like the schemas, they
are passed the function that encodes or decodes what they hold, and `encode` and `decode` are
the functions that pass themselves. `Values` and `Encoded` hold, with a value or a code, everything in
it, and `Rank` says how deep it is nested: what a program can build is nested finitely deep. What the round
trip loses is defined (`Carried`): a map key or set member named `type`, plain objects
and list elements (nothing comes back), all but the first expression of a closure's
body, layers the decoder does not know. On the way back `gun_resolve` drops every entry and
member named `_` outside of texts, which is where Gun keeps its own (`resolve`). It also takes an object
whose only key is `#` for a reference; no encoded object is one, as each has a `type`. An unknown primitive throws, which ends the
decoding of everything around it up to the nearest value that is stored as a text.
`ComesBack` says, of what `resolve` leaves of a value: if everything in it is carried it comes back as it was; any other is
nothing, or each of its parts is what that part alone would be (`Remains`), with one
exception; and only an unknown primitive throws. The exception (`Garbled`): a map with
entries named `type` and `value` is taken for a plain value, and when the latter entry is
a layered value, a closure or a neighbor, its JSON comes back in place of the map.

`GunResolve`: state is the graph, the souls `visited`, those being read, those that
timed out, and what each place of the result holds. Actions: `gun_resolve`,
`Answer` (the node arrives and its own references are asked for in the order of its
keys), `TimeOut`, and `Put` by somebody else while the resolution runs.
The root's soul is not among the visited, so a node that refers back to it stands
once more in the result. `NullsHaveReasons` says, whatever is written meanwhile: a
node stands at one place at most, all hang on the object asked for, and a null
has a reason. The depth limit counts literal
nesting only, which references do not add to, and is left out, as are
`is_gun_graph` and `resolve_gun_graph`, which no data reaches.

### Reactive values: `LatestWins`

State. What each cell was told, in order; which cells have news to pass on; the
clock and the time of each write. Actions: a source writes at the present tick,
a cell passes on what it shows, the clock ticks. The merge by vector clocks of
ppropogator is modelled as the code relies on it; each source writes to one cell.
Clocks of different processes are not compared.

`CellsShowTheLatest` is stated for at most two writes on a tick, and its claim
about the clock for one. The reason is in the code: a value that does not supersede a
contradiction leaves nothing in its clock (`strongest_value.ts:85-90`). Of three
writes on a tick the third may be such a value; its source finds its channel
missing in what the cell shows, begins it anew at 0, and the merge drops the new
value as one that is known already, however late it is. TLC shows this with five
writes when the condition is left out.

### Names and closures: `Scopes`, `ClosureSites`

`Scopes`: state is what the name's cell holds in each environment, and for each
lookup the result cell of each level. `define` is `(network name ...)` and
`(-> name)` with the compiler's timestamp; `ce_lexical_lookup` makes the
cells of a lookup once; `p_pioritize_leftmost` runs one level of one lookup.
Definitions of different sources may contradict each other (`env.ts:96-101`), and
a contradictory inner definition lets the outer show (`selector.ts:15`): the property
covers one source with growing timestamps, and names only one environment
defines. The name `env` and the operator forms `>::`, `?` and `??` are left out.

`ClosureSites`: state is the closure in the name's cell, for each site its operand, its
alert and the network it has unfolded, all networks with whether they
live, the cell of `merge_closure_incremental`, and the four parts of the store (two
maps, registrations, finalizers to run). A plain template that meets layered content throws before
anything is done, and is no step. Actions: `Define`, `SetOperand`,
`ce_apply_closure`, `RunNetwork`, the merges, `Contradict`, `Collect` (garbage collection
at any time), `Finalize`. A network is what its closure makes of an input. Hashes are
computed, in 32 bits, from character codes: `Ab` and `BA` collide. The properties speak of the
texts: `SitesShowTheDefinition` is what the comment of the compiler promises, and fails for such a pair
(claim_definition); `SitesApplyTheDefinition` says that nothing else goes wrong, that is, while no
closure constructed so far has another text of the definition's hash (`HashIsUnique`).
Equal texts from different environments do as well. `unregister` finds
no token, so it removes nothing; `get_object_by_hash` and `deleteByHash` have no
callers, so what a finalizer deletes too much is seen by nobody. A plain merge
disposes nothing, and a contradiction leaves networks running.

### Streams and peers: `NetworkStream`, `PeerTable`

`NetworkStream`: the queue, the waiter and the closed flag of the bridge, the
generator's suspension point, the interval. Actions: `Beat`, `next`, `Pull`, `Wake`
(the continuation, in its own microtask), `Return` (which an async generator
queues while it is running), `Abort`, and `EndOfCall` for the gRPC variant.
A signal aborted before the generator listens is never heard; a queued `undefined`
would be dropped.

`PeerTable`: the table, the current peer, the creation whose questions are open
(its lines are answers, not commands), and the set-ups in progress with their
phases. Actions: the commands, each phase of `setupPeer`, `Created`, `Failed` (whatever a
set-up throws is caught, and the creation given up, at any phase; a server that listens already is closed by nobody:
`stray`), and the end of input. The id of a peer is fixed before a set-up of seconds, so that two that
overlap share it (`alone` says that none did). A port in use ends the process.

### Tracing: `Tracer`

State. The propagators attached, in order; the stamp of each cell; what is due;
the tracer's taps, pending microtasks, interval, number of rebuilds, its graph
object and what the gatherer got last. Actions: a user's write, wiring and
unwiring, running a propagator, the tracer's activation, a tap that fires,
a microtask, a tick of the interval, and the disposal of the tracer. The
network's propagators and scheduler are the library's; a cell's value is the
stamp of the newest write it has seen. `upstream_bfs` and `traverse` are
functions that take one step of the loop and call themselves (`BFSStep`,
`WalkStep`), so that theorems may speak of them; `CutIsReported` compares the
first with the least set closed under the links. `upstream_bfs` leaves out every propagator whose
name contains "tracer": the tracer's own, and any other so named (`Named`).

Noticed: after its disposal a queued microtask of `trace` still writes and taps, and
its graph object is never cleared; a graph may have more than `maxNodes` nodes, since
inputs count only when they are visited (which is what `CutIsReported`'s `count` counts);
a reactive tracer does not see a new propagator that changes no value it taps; with
its rebuilds used up it is stale for good.

### Queries: `GraphSearch`, `GraphRelations`, `TracedGraphs`, `Unification`, `Datalog`, `GraphQueries`

`TracedGraphs` draws a graph edge by edge, from a cell to a propagator or back, as the
tracers do (`graph_step`, `upstream_bfs`): every state is a graph the searches may be asked
of. The rest are operators, translated function by function: goals as maps from states to sets
of states, clauses, the breadth-first searches, the combinators,
the label queries, the programs over topology and traced graphs, and the ways from
graphs to facts and back. The order of answers, and limits on their number, are
left out. Labels and namespaces are sequences of tokens, so that "starts with"
means what it does on strings. Groups of clauses call themselves, so they stand in a
module of their own, `GraphQueries`; all that `GraphRelations` defines can be proved about.
Terms nested in terms, and attributes matched against a pattern object, are left out.
graphology's traversals and MiniDatalog's
semi-naive engine are external, by how they are used.

### Facts on the move: `FactFlow`

State. `wiring` says which circuit was built: the pipeline of
`NetworkDatalogPipeline.ts` with its stages, a query primitive, batch and
incremental derivation side by side, or the topology's own engine. Each cell of
facts is a variable; the topology cell is the sequence of the increments merged
into it, since the bridge to the engine counts them (`seen_counts`).

Actions. `construct_propagator`, `dispose_propagator`, `update_trigger`,
`update_rules` and `ask` are the environment; one action per propagator, taken
when it is queued, reads its cells as they are at that moment and queues the
readers of the cells it changed. The programs are constants: any Horn rules with
bodies (`ClosureAssumption`), any positive query, any second program.

Noticed: an engine keeps the rules it was set up with; `datalog:query` keeps the
matches of earlier patterns; `p_datalog_assert` is in no table of primitives.

## The runs

Run `tlc -config X.cfg M` in this directory. Deadlock is not checked in any
run: the bounds on requests, outputs, states or increments let the system
stop, and a server nobody calls does too.

| Run | Configuration | Checks | Shows | States |
|---|---|---|---|---|
| card_sync | `CardSync.cfg` | `TypeOK`, `LinksStayReachable`, `Mirror`, `NoRequestThrows`, `CardsShowTheirCode`, `PatientBuilds` | Whatever clients push, in whatever order, and wherever a request fails: a link between two current cards is in the tables of both, so removing or detaching either cuts it. Two careful tabs: after every single event, cards and links are those between the old slot map and the new, and no event throws. If they let the scheduler run between pushes: cards show, and builds compile, the code last sent. | 1.4 M |
| sole_streams | `SoleStreams.cfg` | `TypeOK`, `NoLostWakeup`, `StreamServesItsSession`, `DeliversWhatIsPublished` | Without shared sessions: nobody sleeps on a full queue, pushes reach the state the stream reads, and the server implements `EventStream`. | 1.4 M |
| gun_sync | `GunSync.cfg` | `TypeOK`, `PeersAgree`, `AnnouncedOnce`, `ReachesPeers` | In whatever order decodes finish: a peer ends up with the host's value unless an older one was decoded after it, what it sets is shown in the end, with the same exception, and announcements do not echo. | 1.1 M |
| tracer_and_streams | `TracerStreams.cfg` | `CutIsReported`, `NoGhosts`, `ComesToRest`, `TapIsAnswered`; `WaiterSleeps`, `AbortEndsStream`, `QueueDrains` | A picture is the whole upstream or says it is cut; a detached tracer is silent; the reactive tracer answers its taps and comes to rest although its picture feeds back. Two streams of one session steal each other's wake-ups, yet the timers keep both going. | 162 k |
| graph_queries | `GraphQueries.cfg` | `SearchesFollowPaths`, `QueriesMean`, `LogicAgreesWithSearch`, `FiltersKeepPaths` | Over every graph: searches, relational goals, groups of clauses, combinators and Datalog programs answer what definitions by paths and sets say, and one another. | 4 096 |
| fact_flow | `FactFlow.cfg` | `PipelineAtRest`, `IncrementalIsBatch`, `ClaimsWereTrue`, `NothingRetracted`, `FactsArrive` | In whatever order propagators run: at rest all cells hold what follows from all snapshots, the incremental engine agrees with the batch, what negation concluded was so at some moment, and facts arrive. | 167 k |
| parts | `Parts.cfg` | `SitesApplyTheDefinition`, `NoStrayNetworks`, `NullsHaveReasons`, `CommandsReachAPeer`, `CellsShowTheLatest`, `StoredIsStrongest`, `NothingLostNothingLeft`, `NamesMeanTheirScope`, `ComesBack`, `StreamsAreCurrent` | The smaller machines, each by itself (`part` says which); what each property says is at the end of its module. | 0.8 M |
| claim_build_code, claim_peer_runs, claim_upstream, claim_between, claim_definition | `Claim*.cfg` | `BuildSeesCode`, `PropagatorsAlerted`, `UpstreamIsWhatFeeds`, `BetweenEitherWay`, `SitesShowTheDefinition` | [where code and words disagree](#where-code-and-words-disagree) | |

States of `parts` by machine: `ClosureSites` 303 k, `LatestWins` 153 k,
`CardOutput` 138 k, `PeerTable` 103 k, `GunInstance` 59 k, `Scopes` 47 k, `GunResolve` 7 k,
`GunCodec` 4 k (one per value), `NetworkStream` 359. The machines do not interact
in this run: the sum is explored, not the product.

### Bounds, and why they are enough

- *Cards* (`MCCardSync`): three cards, because the interesting conflicts are
  between a pair of cards and a third that must stay untouched; two
  sessions; `MaxRequests = 5`, which allows open, push, close, reopen over live
  metadata, push again, and builds in between. Clients are of each of the three kinds (`Clients`), those who
  say anything with deltas from `Anything`. The deltas are an alphabet and
  not every function: `AnyDeltas` has one-sided neighbours, cards dropped
  while others name them, two sides of one pair, and moves; `CanvasDeltas` what a
  canvas sends when a card is added, edited, blanked, placed, parted and
  dropped with its surroundings. Values are two sources, a value that is no
  string, and a blank string, the four cases a build tells apart.
- *Outputs* (`CardOutput` in `parts`): two cards of which the id of one is the key of
  the other's code, two sessions, four requests (open, push, build, reopen), a text, a
  numeral and a computed graph.
- *Streams* (`MCSessionStream`): `sole_streams` has three calls, two of which
  name the same session one after the other (a reconnect), and another tab;
  `MaxStates = 4` leaves room for states that PushDeltas creates with no
  stream. Two outputs are the least with an order. `tracer_and_streams` has two
  calls of one session (`MayShare = TRUE`, `MaxStates = 3`), the least with a contested `resolveWait`. The network stream
  has four beats, enough to queue two behind one taken and go on after the end.
- *Gun* (`MCGunSync`): two increments, without which the cell is unusable
  (`JustNothing`), one peer, and two propagators, one on each side, of
  which the host's also reads another cell. The peers of a cell do not read each
  other's state, and a further one adds another listener of the same node. The
  theorems cover any number, and contradicting increments. One process is disposed
  of (`MaxDisposed`): what one disposal does to the other is the same whether or not the first
  is still there. The computing
  instance has two increments, so that an echo overtakes another; a third makes 1.7 M states
of the 59 k and finds nothing more, and `StrongestIsStored` covers any number.
- *Values in Gun*: some 4 250 values nested three deep, among them every schema in every
  other, the names `type`, `value` and `_` as keys or members, unknown primitives and layers. Twelve
  graphs of three nodes with two fields, with cycles, shared nodes and a root that
  names itself, and one write during the resolution.
- *Reactive values*: two cells, three sources, four writes on four ticks: two that
  contradict, one later, and one at the time of any of them.
- *Names*: two environments, two sources, three definitions: shadowing in either
  order and a redefinition. *Closures*: three closures of which two collide, one
  site, three networks: the first, its replacement, and what is merged.
- *Peers*: four creations, three of which may overlap, and two ports, of which one is
  a default.
- *Tracer*: three cells and three propagators besides the tracer, with two cycles through the root,
  and a path from the gatherer back to it. Stamps reach 5, which is as
  far as the reactive tracer's go under any bound (2 for `trace`, whose graph never stops
  feeding back). `MaxRebuilds = 20` and `MaxNodes = 20` are not reached, so `ComesToRest`
  does not rest on them; `CutIsReported` tries every limit by itself. One of the propagators
  has a name like a tracer's (`Named`).
- *Graphs*: three cells and two propagators with every set of edges between them;
  of them two cards, one id the beginning of the other's, and an accessor of each kind. The
  lists of clauses asked (`MCQueries`) have variables in common, chains of equal variables,
  and cycles.
- *Facts* (`MCFactFlow`): two observed propagators, built and disposed of in any
  order, two sets of rules, two patterns, all four circuits. Snapshots need no bound: one
  that adds no fact changes nothing.

### Fairness

- `CardSync`, `CarefulClient` and the machines of `parts`: none; only safety is claimed.
- `SessionStream!FairSpec`: a timer that was set fires (`Timeout`), a microtask
  that is due runs (`Continue`), both by the JavaScript runtime, and a consumer reads on
  or ends the iteration (`Resume \/ Return`), which Connect's handler does for a
  stream whose connection is open or closed. Weak fairness of each, per
  stream. No fairness for opening, emitting or aborting.
- `GunSync!FairSpec`: Gun calls a listener with what was set, decodes finish,
  and the scheduler runs the alerted propagator. Nothing is assumed of
  users, of new propagators, of start-up or of disposal. Deliveries of
  neighbours are not assumed either: the liveness properties do not need them.
- `Tracer!FairSpec`: the event loop runs what is queued: alerted propagators, fired taps,
  microtasks, activations (`EventLoop`). Nothing is assumed of writes, wiring,
  disposal, or the interval.
- `FactFlow!Fairness`: the scheduler drains its queue, so a queued propagator runs; weak
  fairness of the propagators on the way that `FactsArrive` speaks of. Nothing is
  assumed of the trigger, of rules, questions, or of the observed network.

## The proofs

`tlapm M_proofs.tla` checks them. Each holds for every value of the constants,
for any number of cards, sessions, peers, sites, sources, nodes and writes, under
the named assumptions of the modules, which TLC evaluates on the instances it runs:

- the constants' types (`CardAssumption`, `CardSyncAssumption`, `StreamAssumption`,
  `GunSyncAssumption`, `FlowAssumption`, and `NamesAssumption`, that environments are
  counted), that sessions own disjoint cards (`OwnAssumption`), the kinds of clients
  (`ClientsAssumption`), and of the programs
  of `FactFlow` that queries are positive (`QueryAssumption`) and `Eval` is a closure that
  `Once` is a step of (`ClosureAssumption`);
- `TracerAssumption`: cells and propagators are finite and none is both, the root is
  not the gatherer, the tracer's own propagator is none of the others; a traced graph has finitely
  many nodes (`GraphAssumption`). Finiteness is what makes the searches end;
- of what is asked of a traced graph: its nodes came to be one after the other
  (`OrderAssumption`); labels, namespaces and card ids are sequences
  (`AskedAssumption`); a query is a list of clauses of any of the operations but `node`,
  whose attributes are an object, and `content`, which has no rows, with their terms, and every
  variable stands where a node does in some clause (`QueryAssumption`): what an
  answer binds is then a node. Queries that ask for an attribute by a variable are left to the code;
- of the machines of `Parts`: the merging cell is at no call site
  (`SitesAssumption`); the object to resolve is no node, neither is null, keys have an
  order, and graphs hold nodes, plain values or null (`ResolveAssumption`); ports are
  numbers and no id is the value for none (`TableAssumption`); a contradiction is no
  write, each source has a cell, and at most two cells are tied together
  (`LatestAssumption`); card ids differ, hold no `::slot`, and what a client sends is
  decoded to something (`OutputAssumption`); a value and a code are made of others that are
  nested less deep, set members go by different keys, and no layer is named `base` or `type`
  (`CodecAssumption`). The assumption on ids is not enforced by the
  server: a card id with a `::slot` in it is taken apart as another key.

| Theorem | Statement | Argument |
|---|---|---|
| `TypeCorrect` | `Spec => []TypeOK` (CardSync) | by operation on the table, then by step. An update must come from a map that has the card's code: `UpdatesHaveCode` is carried along. |
| `LinksReachable` | `Spec => []LinksStayReachable` | needs that no link names an instance not yet constructed (`LinksAreOld`), or a re-added card could meet a link older than itself. |
| `TableMirrorsSlotMaps` | `ClientSpec => []Mirror` | `CarefulInv`, below |
| `CarefulRequestsSucceed` | `ClientSpec => []NoRequestThrows` | follows from `CarefulInv` |
| `PatientCardsShowTheirCode`, `PatientBuildsSeeCode` | `ClientSpec => []CardsShowTheirCode`, `ClientSpec => PatientBuilds` | `PatientInv`, below |
| `StreamTypesCorrect`, `WaitersSleep`, `SubscribersAreLive` | for any sharing | one invariant, `Common`: types, subscribers, waiters, and that live streams work on states that exist |
| `WakeupsAreNotLost`, `SessionsStaySole` | `~MayShare` assumed | one invariant, `Sole`, on top of `Common` |
| `StreamsDeliver` | `Spec => DeliversWhatIsPublished`, `~MayShare` assumed | refinement, below |
| `TypesCorrect` | `Spec => []TypeOK` (GunSync) | by step |
| `NoEcho` | `Spec => []AnnouncedOnce` | `Announcing`: what was announced is remembered, by the host in `last`, by a peer in `knows` |
| `PeersConverge` | `Spec => []PeersAgree` | `FollowingInv`, below |
| `StreamsLoseNothing` | `Spec => []NothingLostNothingLeft` (NetworkStream) | `StreamInv`: what was taken and what is queued are the beats, in their order; a consumer waits on nothing only; the interval runs while the generator does |
| `PeersAreReached` | `Spec => []CommandsReachAPeer` (PeerTable) | `TableInv`, below |
| `StreamsHearTheCards` | `Spec => []StreamsAreCurrent` (CardOutput) | `OutputInv`, below |
| `StrongestIsStored` | `Spec => []StoredIsStrongest` (GunInstance) | `InstanceInv`, below |
| `ResolutionHasReasons` | `Spec => []NullsHaveReasons` (GunResolve) | `ResolveInv`, below |
| `ValuesComeBack` | `Spec => []ComesBack` (GunCodec) | the codec's functions exist, then kind by kind, below |
| `DefinitionsAreApplied`, `NetworksAreHeld` | `Spec => []SitesApplyTheDefinition`, `Spec => []NoStrayNetworks` (ClosureSites) | `SitesInv` and `Built`, below |
| `ScopesAreLexical` | `Spec => []NamesMeanTheirScope` (Scopes) | `NamesInv`, below |
| `CellsAgreeOnTheLatest` | `Spec => [](Latest!AtMost(1) => CellsShowTheLatest)` (LatestWins) | `LatestInv`, below |
| `PicturesAreWhole` | `Spec => []CutIsReported` (Tracer) | the loop of `upstream_bfs`, below |
| `PicturesShowNoGhosts` | `Spec => NoGhosts` (Tracer) | `TracerInv`, below |
| `SearchesAreRight` | `Drawn => []SearchesFollowPaths` (TracedGraphs) | a search visits the least set with its start that no edge leads out of, below |
| `QuestionsAreAnswered` | `Drawn => []QueriesMean` (TracedGraphs) | a substitution stands for the values that respect it, below |
| `FiltersAreRight` | `Drawn => []FiltersKeepPaths` (TracedGraphs) | shortest ways, and the least sets of the searches, below |
| `TypeCorrect`, `FactsStay` | `Spec => []TypeOK`, `Spec => NothingRetracted` (FactFlow) | by step; every write to a cell of facts is a union or a closure of what is there |
| `PipelineSettles`, `IncrementalDerives` | `Spec => []PipelineAtRest`, `Spec => []IncrementalIsBatch` | `IInv` of FactFlow, below |
| `OnlyPastTruths` | `Spec => []ClaimsWereTrue` | `derived` is always the closure of a prefix of the snapshots |

**The mirror.** `Mirror` is not inductive. `CarefulInv` adds that the events still
to be applied fit the target (`TodoFits`: a card to be connected is not
waiting to be added, what is removed is not in the target), that a session has
only its own cards, tidily connected (`SessionsTidy`: at most one connection per
pair, because links are keyed by pairs), that every slot map is in its session's
scope, and that an entry of a table is a link between the cards of its key
(`EntriesMatch`). One lemma per operation says what it does to *any* set of cards
and the connections among them; it is used once for the session that is served
and once, for sets it does not reach, for every other session. That the
events come in their order is used where a detach must find its link, and a
connect its cards.

**Patience.** `PatientInv` adds to `CarefulInv` that `::this` and updater agree on every
card the scheduler has caught up with (`Synced`), that the updater of a card
holds the code of its session's map, except for the cards the request being served
has still to update (`Written`), and that none of those waits for the scheduler
(`Untouched`). The last is where an impatient client fails: its second push
compares the code with a `::this` that an earlier push is about to change.

**The streams.** Without sharing, two live streams have different sessions
and so, since a stored state is that of one session, different states: a queue has
one listener and one reader. `Sole` says so (`SidsDistinct`, `EntriesDistinct`),
and that the queue of a state no live stream reads is empty
(`UnreadQueuesEmpty`), so that a stream that opens over a state a PushDeltas
created starts with nothing to deliver. `StreamsDeliver` then maps each step: an emission
to `Publish`, `Open` to `Subscribe`, the shift before a yield to `Deliver`, the
finally block to `Close`, everything else to a stutter. An entry removed by a
stream that ends is that stream's own.

**Gun.** Puts only grow, as sets of increments, and the last is the host's
content whenever it has run and the content is usable (`Publishing`); a peer whose newest put is
decoded shows it, unless the decode of an older one finished after it (`Following`). No
order of the decodes is assumed: what they may spoil is named, and that nothing else does is proved.

**The instance.** What is shown may be stale, so `stored` cannot be compared with it.
`InstanceInv` says that everything kept is an increment (`Increments`), that what Gun
holds is at least everything shown, echoing (`KeptValues`) or computed with
(`ComputedWith`), and that with no decode overtaken the last echo is what Gun
holds (`InStep`). A computation takes the maximum of all that is kept: it either
stores it, which is no less than anything before, or finds it shown, and
then Gun holds no less. That a maximum exists is derived from the well-founded order
of the naturals.

**The peers.** `TableInv`: `Reached` says that what is current is an active peer whenever there is
one: a creation makes its peer current, a close passes on to the first that is
left. An id is fixed when a creation begins and used when it ends, so that ids are
unique is not inductive: `Positions` says that without overlap at most one creation is
on its way, asking or being set up, and its id is one more than the peers there are.

**The cards and their streams.** `StreamsAreCurrent` is inductive once it is known that
slot maps hold the code of cards and nothing else (`Codes`). Most of the proof is about
the data on the way: a card's key is taken apart into the card and its slot again
(`KeyTakenApart`, where the assumption on ids is used), and the events between two
such maps add, update or remove exactly the cards in which they differ.

**Resolution.** What stands at a place is the reference that was seen there or null, and
what was seen has been asked for (`FromSeen`); a node stands at one place (`OnePlace`);
nothing is seen of a node that was not asked for (`AskedOnce`). That all hang on
the object is not implied by these, as two nodes might stand at each other's places
only: `Hanging` says that every set of standing nodes is entered from outside. The
order of the keys decides which of two equal references is resolved, so the answer of
one node is followed key by key.

**The codec.** `encode`, `decode` and `Within` call themselves on what a value or a code is
made of. That there are such functions (`RecursionExists`) follows from the nesting: one step looks at
parts only (`OneStepIsLocal`); functions that are right below some depth agree there
(`RightOnesAgree`), and there is one for each depth (`RightOnesExist`, a least
counterexample); together they give one that is right everywhere. With the equations, each kind of value has a
lemma that says what it comes back as; the decoder tries its handlers in turn, so
each needs that no other tag fits (`DecodingBy`). The parts of `ComesBack` go from a value's parts to the value,
and from there to all values by the least nested exception (`LeastNested`).

**Call sites.** A live network is the one its site unfolded last, or held by the merging
cell (`OneEach`, `MixedHolds`); a site that is not alerted has unfolded what its
name's cell defines, or what the store takes for it (`UpToDate`); a
network that need not run was the last to write its site's output (`HasWritten`).
Closures are compared through hashes, so `UpToDate` says that the two have one hash,
not that they are one. Every network is of a closure that was constructed (`Built`), so
that where no other closure has the hash, the one that runs has the text of the definition.

**Scopes.** `Settled` says that a level that is not alerted has passed on what it
reads; `Covered`, that what a level holds was defined that far out or further;
`Growth`, that while one source defines with growing timestamps, no level holds anything
newer than it reads. The theorem then goes outwards from the innermost level that defines the name, over
the levels of the lookup: a least counterexample takes the place of the induction.

**The latest value.** Cells that reduce different sequences cannot be compared step by
step. `LatestInv` says instead that *some* history of numbered writes explains them all
(`Explains`): a vector clock stands for the writes it knows of (`Events`), one clock is
before another exactly when it knows of less (`Knowing`), each datum is the last of
the writes its clock knows of (`Sane`), and a cell shows the last of those it heard of with all
of them in its clock (`ShownIs`, from `StrongestSums`, which follows the reduction).
Three facts make it inductive: a source's writes are known to its own cell, so that its
channel never begins anew; of what one cell holds the other knows either everything it
stands on or not even the write, so that no two data carry one write; a cell with nothing
to pass on knows of nothing the other does not. A history is not part of the state: it
is chosen anew in each step, longer by one when a source writes.

**The tracer's pictures.** A loop is a function that calls itself until it is done.
`LoopExists` shows that there is such a function for any step, and `LoopEnds` that if
a measure falls with every step the function's value is a state that is done and that steps
lead to: what a step keeps, the value has. The measure of `upstream_bfs` is the room left under the
limit, then the number of links at hand, then the length of the queue; that of
`traverse`, which has no limit, the items not yet walked, then the queue. Its loop invariant says that what is in the graph is upstream of the root, that
it is counted, and that a visited cell's writers are visited or at hand; when the
loop ends uncut nothing is at hand and the visited cells are closed under the links.
`TracerInv` says that the tracer's own propagator is attached exactly while the tracer is, is
alerted only then, and that nothing disposed of is attached; the writers the search meets are
the attached ones, so a picture has no link of a propagator that is gone.

**Searches and paths.** `bfs` is a loop too; its measure is the number of nodes not visited.
Its invariant (`Searched`) says that what is next to a visited node is visited or queued, and that both
are in every set that holds the start and what is next to its members (`Holds`): it
ends with the least such set (`SearchIs`). The ends of the paths from a node are the least set with
its neighbours that no edge leads out of (`AfterIs`), so two searches, or a search and a filter,
are compared by giving one's answer to the other as such a set. For the connected filter
that is what the anchors reach, or what does not reach them; for collapsing
accessors, the kept nodes that are reached together with all that each reaches through accessors.

**Unification.** What `resolve_var` does depends on there being an end to every chain of variables,
so a substitution is `Fine` if its variables have ranks that fall along it: then
`resolve_var` exists and ends at an atom or a free variable (`ResolveIs`), and binding a free variable
to a resolved term leaves the substitution fine (`BindIs`). A substitution stands for the values
that respect it (`Meets`); `unify` answers one that stands for just those of them under which
both terms have one value, and none if there are none (`UnifyIs`). Through a row this goes term by
term (`RowIs`), through a relation row by row (`RowsAre`), so a clause leads to states
that stand for just the values for which it holds, and in each its nodes are settled
(`Opens`, `ClausesOpen`, by operation); for a list of clauses the invariant is the
same for the clauses so far (`ListsOpen`). As every variable is settled somewhere, the answers are
those values (`ListsAnswer`). The single questions are lists of one or two.

**Filters.** A way from one node to another that passes a node twice can be cut there
(`WaysAreCut`), so the shortest has no more nodes than the graph (`ShortestIs`) and is among
those the search for it looks at; along it each node is reached from those before (`WaysLead`).
An edge of the graph without accessors is a path through accessors only (`ShortEdgesAre`):
what accessors lead to is the least set again, and so are the ends of paths inside them. A card's network is
the component its cells are in (`NetworkStarts`), and an id that begins with
another makes a label that begins with the other's (`CardPrefixesAre`).

**Facts at rest.** Each cell is described by what its propagator would write now,
unless that propagator is queued (`DerivedInv`, `StagedInv`, `JoinedInv`, `ShownInv`,
`MatchedInv`, `BatchInv`): a cell that changed queues its readers, and what runs
leaves its cell up to date. The invariant of the engine (`EngineInv`) also places what the
bridge has counted: the facts up to `seen_counts` are in the engine, the rest is
asserted at its next run. Closed under one step of the rules, the engine is closed
under all (`ClosureAssumption`), which makes it equal to the batch.

Only model-checked:

- the liveness properties (`AbortEndsStream`, `QueueDrains`, `ReachesPeers`,
  `ComesToRest`, `TapIsAnswered`, `FactsArrive`): fairness needs ENABLED, which is
  out of TLAPS' reach;
- `LogicAgreesWithSearch`: groups of clauses and the Datalog evaluator are
  RECURSIVE operators, which TLAPS cannot use, and what they compute is an induction over
  data. So is that `Datalog`'s evaluator satisfies `ClosureAssumption`, which TLC
  evaluates. That a list of clauses that are not groups is answered rightly is proved;
- `CellsShowTheLatest` when two writes fall on one tick. The history argument needs
  the times of writes to differ: with a tie what a cell shows depends on the order of
  what it heard, and a contradiction need not know of everything the cell was told.

Every other invariant and action property of a passing run is a theorem.

## Where code and words disagree

Each is a run that fails: the property is the sentence, the trace is the code.

- **claim_build_code** (`grpc/card/card_metadata.ts:244`). A code edit is compared
  with `::this`, which lags the updater by up to a scheduler period. With A flushed,
  B pushed and A pushed again within 10 ms, the second A is dropped: the card shows,
  and the build compiles, B. The comment at `grpc/connect_server.ts:280` says the
  build "sees current content".
- **claim_peer_runs** (`DB/serialize/gun_cell.ts:225`). A peer's own propagator, once
  announced back by the host, is entered as `remote` and not alerted again.
  `test/gun_cell_bridge.test.ts:13` says such propagators "are alerted and run".

- **claim_upstream** (`compiler/tracer/graph_relations.ts:686`). `graph_query_upstream_of` asks
  which nodes reach `node_id` in the reversed graph: those that `node_id` leads to, which is what
  `graph_query_downstream_of` answers (`QueriesMean` says so, and is proved). So
  `graph:upstream-of` and `graph:downstream-of` show the same graph, whichever way a tracer draws its
  edges. `docs/reference/propagation-tracing.md:175` tells "upstream (what feeds it)"
  from "downstream (what it feeds)"; no test asks for either.

- **claim_between** (`compiler/tracer/graph_queries.ts:86`). The graph connected by a label prefix keeps
  the nodes on a path from the earlier of two labelled nodes to the later, along the edges (graphology's
  `bidirectional` on a `DirectedGraph`). The comment of the function (lines 54-60) says "shortest paths in the
  *undirected* sense, so it finds 'between' even if direction flips"; in a graph of two edges TLC finds
  labelled nodes that hang together and are shown apart. `FiltersKeepPaths` states, and `FiltersAreRight`
  proves, what the code does.
- **claim_definition** (`compiler/closure/hash.ts:23`). Texts are compared through a hash of 32 bits: `Ab`
  redefined as `BA` is taken for the same closure, and the call site keeps running the old network.
  `compiler/incremental_compiler.ts:36-40` says that changes of definitions "propagate through the network
  and trigger automatic re-compilation and hot-swapping".

Noticed while modelling, without a run of its own:

- `grpc/card/card_metadata.ts:260-261`: "Clear any previous connection on this
  slot pair"; links are keyed by the pair of *cards*, so connecting A::below to
  B::above also cuts A::right to B::left, and detaching both afterwards throws.
- `docs/protocol/CONNECT-PROTOCOL.md:113`: an update of a missing card is "skipped
  and traced"; it throws (`card_lifecycle.ts:32`) and the events after it are
  not applied. Line 108 says the backend ensures both endpoints of a connection
  exist, line 64 that CardBuild ensures its card exists; both throw as well.
- Lines 110-112 there: code-only updates do not update runtime card values and `::this`
  deltas do; the only updates the diff produces are those of code slots (the call of
  `sync_this_slots` is commented out, `card_slot_sync.ts:235`).
- Lines 117-123 there: outputs go through a MiniReactor bridge with loop guards;
  streams subscribe to the outputs directly (`session_combinator.ts:114-117`).
- `grpc/session/session_store.ts:54`: session_push is to "wake any waiter"; with two
  streams of one session the later wait takes the place of the earlier.
- `graph_query_card_network`'s prefix has no separator: asked for card `k1` it answers for
  `k12` as well, and it never matches labels that start with `CELL`.
- A comment in `compiler/tracer/tracer.test.ts` (505-531) says that without `maxRebuilds` the tracer would
  hang on a picture that feeds back; `ComesToRest` holds without reaching the limit.
- `no_echo_card_io` computes which cards to emit and nobody reads it
  (`card_metadata.ts:158-162`); `host.ts` stores a `_cleanup` that nobody calls.

## What is not modelled

- *Propagation*, *Gun*, *MiniDatalog*, *kiroshi*, *MiniReactor*, *graphology*: libraries;
  of what cards compute with them, that values travel between the slots of
  linked cards. MiniReactor is an empty submodule.
- *Runtime output bridge*: nothing constructs it. *Compile and bidirectional Session
  handlers*: the Connect router answers them with stubs; the compile handler of
  `grpc/server.ts` is a single reply. `card/runtime.ts` and `card/graph.ts` are older
  copies of the card table; `bind_context_slots_io` and `compile_for_viz` are stubs.
- *Parser, dispatch over the forms of expressions, REPL input and output, rendering,
  naming, arithmetic and layout primitives*: no state whose order matters.
- *Diagnostics*: `gun_access_old_values.ts` is imported by nobody,
  `gun_vector_clock_utils.ts` is commented out. `compiler_worker` is used in a test only.
- *Unused*: `apply_closure`, `apply_closure_symlink`, `dynamic_propagator`, the receiver's
  list of increments, the chain helper of `resolve.ts`.
- *core-02 prototype, generated and retired code*: not imported by the program.

Hazards that no property covers, each of them modelled and none of them forbidden by the code:

- a session's queue has no limit, so a client that stops reading lets it grow (there is no bound to state);
- `cell_neighbor_delta` keeps one map for all cells, so a propagator that reads two cells is
  announced for one (`ReadsMore`, `OtherCellPublishes` in `GunSync`);
- of two streams of one session the one that ends removes the entry the other works on:
  `StreamServesItsSession` is stated for sessions that are not shared;
- `initialize_neighbors` drops the neighbours it hears of while it awaits, and a listener that is decoding
  when its cell is disposed of still stores: `StoredIsStrongest` does not speak of a neighbour that was dropped
  (`missed`) nor of when a value is stored.

Where a property names a case it leaves out, the hazard is there in the program and the property
says that nothing else goes wrong: an older value decoded last (`PeersAgree`, and `StoredIsStrongest` for what is
shown), creations of peers that overlap (`CommandsReachAPeer` says of those that some active peer is
reached, not which), three writes on a tick (`CellsShowTheLatest`), the networks of replaced cards
(`StreamsAreCurrent`), sessions opened twice (`NoLostWakeup`, `StreamServesItsSession`,
`DeliversWhatIsPublished`; what holds of those are the three properties about streams in tracer_and_streams).

## The plan

Done, in this order: `SlotMaps`, `CardSync`, `CarefulClient` and their proofs (the
server's core); `EventStream`, `SessionStream`, the refinement and its proof;
`GunSync` and its proofs; the smaller machines (`LatestWins`, `ClosureSites`,
`GunResolve`, `GunCodec`, `PeerTable`, `NetworkStream`, `GunInstance`, `Scopes`,
`CardOutput`); `Tracer` and the queries; `FactFlow` and its proof; the proofs of the
smaller machines, of the Gun encoding and of `Tracer`; the proofs about traced graphs:
searches, questions, filters.

Left, in the order of what it would add:

1. that `diff_slot_maps_to_card_api_events` followed by its events is the new map's
   declaration, as a refinement of an abstract table that jumps from map to map;
2. `ConnectServer`, which composes `SessionStream` with `CardOutput`: the slot
   map a push transforms is that of the state the stream reads, and what the stream
   was told reaches the client;
3. the latest value with two writes on a tick;
4. `GunSync` for several cells, with the start-up delays of `src/p2p/`.
