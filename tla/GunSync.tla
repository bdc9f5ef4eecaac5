------------------------------ MODULE GunSync ------------------------------
(***************************************************************************)
(* One cell shared by a host and its peers over Gun                        *)
(* (compiler/sync_to_gun.ts, DB/serialize/gun_cell.ts).                    *)
(*                                                                         *)
(* The host owns the cell.  A propagator on it publishes its strongest     *)
(* value and its neighbours; two listeners merge the increments peers set  *)
(* under "content" and take in the neighbours they announce.  A peer holds *)
(* a receiver: it sets increments, announces the propagators constructed   *)
(* on it, and listens for the strongest value and the neighbours.          *)
(*                                                                         *)
(* Every listener decodes what it is called with before it acts on it, and *)
(* decoding is an await of its own length: hearing and acting are two      *)
(* actions.  Values are named by the increments merged into them.  The     *)
(* receiver's own list of increments, which nothing on a peer reads, is    *)
(* left out.                                                               *)
(***************************************************************************)
EXTENDS Naturals, Sequences, FiniteSets

CONSTANTS
  Item,        \* increments
  Peer,        \* processes with a receiver for the cell
  Host,        \* the process that owns the cell
  Prop,        \* propagators that read the cell
  Home,        \* the process each is constructed in
  ReadsMore,   \* those on the host that read another published cell too
  Unusable,    \* contents without a value to publish: nothing, contradictions
  MaxDisposed  \* bound on the processes that dispose the cell

Process == Peer \union {Host}

ASSUME GunSyncAssumption ==
  /\ Host \notin Peer
  /\ Home \in [Prop -> Process]
  /\ ReadsMore \subseteq { p \in Prop : Home[p] = Host }
  /\ Unusable \subseteq SUBSET Item /\ {} \in Unusable
  /\ MaxDisposed \in Nat

VARIABLES
  \* the Gun graph under the cell's id
  items,       \* increments set under "content"
  puts,        \* values put at "cell_strongest", the current one last
  announced,   \* how often each process set each neighbour under "neighbors"
  \* the host
  merging,     \* increments heard and being decoded
  done,        \* increments decoded
  merged,      \* the content of the cell
  last,        \* neighbours cell_neighbor_delta remembers
  alerted,     \* the publishing propagator is due to run
  \* all processes
  knows,       \* propagators in the propagator_snapshot of each process
  heard,       \* neighbours each process's listener was called with
  meeting,     \* those among them it is decoding
  disposed,    \* processes that disposed the cell's listeners
  \* the peers
  hears,       \* how many of the puts reached each peer
  reading,     \* those it is decoding
  shown,       \* snapshots.strongest
  overtaken,   \* what it shows was decoded after the newest value heard was
  neighbors,   \* snapshots.neighbors: what each is interested in
  starting,    \* peers whose initialize_neighbors has not finished
  saw          \* the value each peer's propagator last ran on

gun       == <<items, puts, announced>>
host      == <<merging, done, merged, last, alerted>>
processes == <<knows, heard, meeting, disposed>>
peers     == <<hears, reading, shown, overtaken, neighbors, starting, saw>>
vars      == <<gun, host, processes, peers>>

\* A neighbour entry: who announced which propagator.  Its home announces it
\* as interested in updates, the others as remote.
Entry == Process \X Prop

\* Faulty variant: the interest is read from the field of the old format.
interest_of_old_format(n) == "undefined"

InterestOf(n) == IF Home[n[2]] = n[1] THEN "updated" ELSE "remote"
NobodyYet == [p \in Prop |-> "unknown"]

Init ==
  /\ items = {} /\ puts = <<>>
  /\ announced = [l \in Process |-> [p \in Prop |-> 0]]
  /\ merging = {} /\ done = {} /\ merged = {} /\ last = {}
  /\ alerted = TRUE
  /\ knows    = [l \in Process |-> {}]
  /\ heard    = [l \in Process |-> {}]
  /\ meeting  = [l \in Process |-> {}]
  /\ disposed = {}
  /\ hears     = [r \in Peer |-> 0]
  /\ reading   = [r \in Peer |-> {}]
  /\ shown     = [r \in Peer |-> {}]
  /\ overtaken = [r \in Peer |-> FALSE]
  /\ neighbors = [r \in Peer |-> NobodyYet]
  /\ starting  = Peer
  /\ saw       = [p \in Prop |-> {}]

-----------------------------------------------------------------------------
(* Increments.                                                             *)

\* The cell alerts its neighbours when its strongest value changes.
update(x) ==
  /\ merged'  = merged \union {x}
  /\ alerted' = (alerted \/ x \notin merged)

\* A receiver's update sets the increment in the graph and no more.
PeerUpdate(x) ==
  /\ x \notin items
  /\ items' = items \union {x}
  /\ UNCHANGED <<puts, announced, host, processes, peers>>

HostUpdate(x) ==
  /\ x \notin merged
  /\ update(x)
  /\ UNCHANGED <<gun, merging, done, last, processes, peers>>

HearItem(x) ==
  /\ x \in items \ (merging \union done) /\ Host \notin disposed
  /\ merging' = merging \union {x}
  /\ UNCHANGED <<gun, done, merged, last, alerted, processes, peers>>

\* Faulty variant: only the first increment is taken in.
content_listener_once(x) ==
  /\ x \in merging
  /\ merging' = merging \ {x}
  /\ done'    = done \union {x}
  /\ IF merged = {} THEN update(x) ELSE UNCHANGED <<merged, alerted>>
  /\ UNCHANGED <<gun, last, processes, peers>>

\* After its await the listener no longer asks whether it was disposed.
contentListener(x) ==
  /\ x \in merging
  /\ merging' = merging \ {x}
  /\ done'    = done \union {x}
  /\ update(x)
  /\ UNCHANGED <<gun, last, processes, peers>>

-----------------------------------------------------------------------------
(* The host publishes (the body of cell_to_gun_representation).            *)

Usable == merged \notin Unusable

Announce(l, P) ==
  announced' = [announced EXCEPT ![l] = [p \in Prop |-> IF p \in P THEN @[p] + 1 ELSE @[p]]]

\* Faulty variant: the delta forgets what it returned.
publish_all_neighbors ==
  /\ alerted /\ Host \notin disposed
  /\ puts' = IF Usable THEN Append(puts, merged) ELSE puts
  /\ Announce(Host, knows[Host])
  /\ alerted' = FALSE
  /\ UNCHANGED <<items, merging, done, merged, last, processes, peers>>
cell_to_gun_cell ==
  /\ alerted /\ Host \notin disposed
  /\ puts' = IF Usable THEN Append(puts, merged) ELSE puts
  /\ Announce(Host, knows[Host] \ last)
  /\ last' = last \union knows[Host]
  /\ alerted' = FALSE
  /\ UNCHANGED <<items, merging, done, merged, processes, peers>>

\* cell_neighbor_delta keeps one map for all cells: what another cell
\* published first counts as published.
OtherCellPublishes(p) ==
  /\ p \in ReadsMore \intersect knows[Host] /\ p \notin last
  /\ last' = last \union {p}
  /\ UNCHANGED <<gun, merging, done, merged, alerted, processes, peers>>

-----------------------------------------------------------------------------
(* Propagators on the cell.                                                *)

\* A propagator enters a process, by construction or by decoding a reference
\* to one it does not have, and becomes a neighbour of the cell there.  A
\* receiver announces its neighbours at once, the host when it runs.
addNeighbor(l, p) ==
  /\ knows' = [knows EXCEPT ![l] = @ \union {p}]
  /\ IF l = Host THEN UNCHANGED announced ELSE Announce(l, {p})

\* A new propagator runs once.
Construct(p) ==
  LET l == Home[p] IN
  /\ p \notin knows[l]
  /\ addNeighbor(l, p)
  /\ saw' = IF l = Host THEN saw ELSE [saw EXCEPT ![p] = shown[l]]
  /\ UNCHANGED <<items, puts, host, heard, meeting, disposed,
                 hears, reading, shown, overtaken, neighbors, starting>>

\* The host has nothing to learn from an entry on a propagator it knows.
Interesting(l, n) ==
  /\ announced[n[1]][n[2]] > 0 /\ n \notin heard[l] /\ l \notin disposed
  /\ l = Host => n[2] \notin knows[Host]

HearNeighbor(l, n) ==
  /\ Interesting(l, n)
  /\ heard'   = [heard EXCEPT ![l] = @ \union {n}]
  /\ meeting' = [meeting EXCEPT ![l] = @ \union {n}]
  /\ UNCHANGED <<gun, host, knows, disposed, peers>>

\* A reference to a propagator the process does not have constructs one.
decode_propagator_reference(l, p) ==
  IF p \in knows[l] THEN UNCHANGED <<knows, announced>> ELSE addNeighbor(l, p)

\* The host adds whom it does not have yet, which constructing did already.
neighborsListener(n) ==
  /\ n \in meeting[Host]
  /\ meeting' = [meeting EXCEPT ![Host] = @ \ {n}]
  /\ decode_propagator_reference(Host, n[2])
  /\ UNCHANGED <<items, puts, host, heard, disposed, peers>>

\* On a peer the entry decoded last decides what the neighbour is told.
setup_neighbors_listener(r, n) ==
  /\ n \in meeting[r]
  /\ meeting'   = [meeting EXCEPT ![r] = @ \ {n}]
  /\ neighbors' = [neighbors EXCEPT ![r][n[2]] = InterestOf(n)]
  /\ decode_propagator_reference(r, n[2])
  /\ UNCHANGED <<items, puts, host, heard, disposed, hears, reading, shown, overtaken, starting, saw>>

\* What initialize_neighbors decodes is the node, not its data: the map it
\* ends up storing is empty.
initialize_neighbors(r) ==
  /\ r \in starting
  /\ starting'  = starting \ {r}
  /\ neighbors' = [neighbors EXCEPT ![r] = NobodyYet]
  /\ UNCHANGED <<gun, host, processes, hears, reading, shown, overtaken, saw>>

-----------------------------------------------------------------------------
(* Strongest values.                                                       *)

\* Gun calls the listener with a value that is newer than the last.
HearStrongest(r, i) ==
  /\ i \in (hears[r] + 1)..Len(puts) /\ r \notin disposed
  /\ hears'   = [hears EXCEPT ![r] = i]
  /\ reading' = [reading EXCEPT ![r] = @ \union {i}]
  /\ UNCHANGED <<gun, host, processes, shown, overtaken, neighbors, starting, saw>>

\* resolve_and_alert_interested_propagators
Alerted(r) == { p \in Prop : Home[p] = r /\ neighbors[r][p] = "updated" }

\* The values heard are decoded each in its own time, and the newest may be
\* done before an older one.
Decoded(r, i) ==
  /\ i \in reading[r]
  /\ reading'   = [reading EXCEPT ![r] = @ \ {i}]
  /\ overtaken' = [overtaken EXCEPT ![r] = hears[r] \notin reading[r]]

\* Faulty variant: a peer keeps the first value it is shown.
keep_first_value(r, i) ==
  /\ Decoded(r, i)
  /\ shown' = [shown EXCEPT ![r] = IF @ = {} THEN puts[i] ELSE @]
  /\ saw'   = [p \in Prop |-> IF p \in Alerted(r) THEN puts[i] ELSE saw[p]]
  /\ UNCHANGED <<gun, host, processes, hears, neighbors, starting>>

setup_strongest_listener(r, i) ==
  /\ Decoded(r, i)
  /\ shown' = [shown EXCEPT ![r] = puts[i]]
  /\ saw'   = [p \in Prop |-> IF p \in Alerted(r) THEN puts[i] ELSE saw[p]]
  /\ UNCHANGED <<gun, host, processes, hears, neighbors, starting>>

-----------------------------------------------------------------------------
\* Gun calls no listener any more; those that are decoding finish.
dispose(l) ==
  /\ l \notin disposed /\ Cardinality(disposed) < MaxDisposed
  /\ disposed' = disposed \union {l}
  /\ UNCHANGED <<gun, host, knows, heard, meeting, peers>>

Next ==
  \/ \E x \in Item : PeerUpdate(x) \/ HostUpdate(x) \/ HearItem(x) \/ contentListener(x)
  \/ cell_to_gun_cell
  \/ \E p \in Prop : Construct(p) \/ OtherCellPublishes(p)
  \/ \E l \in Process : dispose(l)
  \/ \E n \in Entry : \/ neighborsListener(n)
                     \/ \E l \in Process : HearNeighbor(l, n)
                     \/ \E r \in Peer : setup_neighbors_listener(r, n)
  \/ \E r \in Peer : initialize_neighbors(r)
  \/ \E r \in Peer, i \in 1..Len(puts) : HearStrongest(r, i) \/ setup_strongest_listener(r, i)

Spec == Init /\ [][Next]_vars

\* Gun delivers, decodes finish, the scheduler runs what is alerted.
Fairness ==
  /\ \A x \in Item : WF_vars(HearItem(x)) /\ WF_vars(contentListener(x))
  /\ WF_vars(cell_to_gun_cell)
  /\ \A r \in Peer : /\ WF_vars(\E i \in 1..Len(puts) : HearStrongest(r, i))
                     /\ WF_vars(\E i \in 1..Len(puts) : setup_strongest_listener(r, i))

FairSpec == Spec /\ Fairness
-----------------------------------------------------------------------------
(* Properties.                                                             *)

TypeOK ==
  /\ items \subseteq Item /\ puts \in Seq(SUBSET Item)
  /\ announced \in [Process -> [Prop -> Nat]]
  /\ merging \subseteq Item /\ done \subseteq Item /\ merged \subseteq Item
  /\ last \subseteq Prop /\ alerted \in BOOLEAN
  /\ knows \in [Process -> SUBSET Prop]
  /\ heard \in [Process -> SUBSET Entry] /\ meeting \in [Process -> SUBSET Entry]
  /\ disposed \subseteq Process
  /\ hears \in [Peer -> Nat] /\ reading \in [Peer -> SUBSET Nat]
  /\ shown \in [Peer -> SUBSET Item] /\ overtaken \in [Peer -> BOOLEAN]
  /\ neighbors \in [Peer -> [Prop -> {"unknown", "updated", "remote"}]]
  /\ starting \subseteq Peer
  /\ saw \in [Prop -> SUBSET Item]

\* Nothing is on its way between the host and peer r.
Settled(r) ==
  /\ ~alerted
  /\ items \subseteq done
  /\ hears[r] = Len(puts) /\ reading[r] = {}

\* Once everything has arrived, the host's value has every increment anyone set
\* merged into it, and a peer shows that value, in whatever order the decodes
\* finished; unless the one that finished last was of a value older than the
\* newest, which was decoded before it (cell_to_gun_cell,
\* setup_strongest_listener, which overwrites and compares nothing).
PeersAgree ==
  \A r \in Peer : Settled(r) /\ Usable =>
    items \subseteq merged /\ (shown[r] = merged \/ overtaken[r])

\* Announcements do not echo between processes: hearing of a propagator makes
\* each process announce it at most once, however often it is announced
\* (cell_neighbor_delta, decode_propagator_reference, addNeighbor).
AnnouncedOnce == \A l \in Process, p \in Prop : announced[l][p] <= 1

\* What a peer sets is shown on every peer in the end, unless the cell becomes
\* contradictory or is disposed, or the peer stays with a value whose decode
\* was overtaken.
ReachesPeers ==
  \A x \in Item, r \in Peer :
    x \in items ~> \/ x \in shown[r] \/ ~Usable
                   \/ disposed \intersect {Host, r} # {} \/ []overtaken[r]

\* "peer's local propagators are alerted and run via scheduler" (the test of
\* the bridge): whenever the value of a receiver changes, those among its
\* neighbours that live in the peer run on it.
PropagatorsAlerted ==
  [][\A r \in Peer, p \in Prop :
       /\ Home[p] = r /\ neighbors[r][p] # "unknown"
       /\ shown'[r] # shown[r]
       => saw'[p] = shown'[r]]_vars
=============================================================================
