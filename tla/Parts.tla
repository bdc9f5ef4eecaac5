------------------------------- MODULE Parts -------------------------------
(***************************************************************************)
(* The smaller machines of the project, each by itself.  A behaviour is    *)
(* one of part, the others stay in their initial states; where a machine   *)
(* starts in many states, it does so only when it is the part.             *)
(***************************************************************************)
EXTENDS Naturals, Sequences, FiniteSets

CONSTANTS Unusable, None, Idle

VARIABLE part
-----------------------------------------------------------------------------
CONSTANTS Site, Lambda, TextOf, Operand, MaxNets
VARIABLES defined, used, operand, siteDue, nets, unfolded, out, siteContent, ref, hash,
          finalizers, cleanups
Sites == INSTANCE ClosureSites WITH Closure <- Lambda, Value <- Operand, due <- siteDue, content <- siteContent

\* The cell that merges templates is not at a call site; an output that was told
\* of a closure and an operand was told of something.
ASSUME SitesAssumption == Sites!Mixed \notin Site /\ None \notin Lambda \X Operand

CONSTANTS Node, Root, Asked, Field, Plain, Null, Graphs, MaxPuts
VARIABLES graph, puts, visited, reading, late, seen, result
Resolve == INSTANCE GunResolve WITH Object <- Asked

\* The object that is handed over is no node, and neither is null; the keys of an
\* object have an order.
ASSUME ResolveAssumption ==
  /\ Root \in Node /\ Asked \notin Node /\ Null \notin Node /\ Field \subseteq Nat
  /\ Graphs \subseteq [Node -> [Field -> Node \cup {Plain, Null}]]

CONSTANTS Port, FirstPort, MaxPeers, NoPeer
VARIABLES peers, current, asking, setups, stray, began, alone, process
Table == INSTANCE PeerTable

\* Ports are numbers, and no id is the value for none.
ASSUME TableAssumption == Port \subseteq Nat /\ FirstPort \in Nat /\ NoPeer \notin Nat \ {0}

CONSTANTS Cell, Writer, Writes, Contradiction, MaxWrites
VARIABLES cellContent, pending, now, writtenAt
Latest == INSTANCE LatestWins WITH Source <- Writer, content <- cellContent

\* Two cells at most are tied to each other, and a contradiction is no write.
ASSUME LatestAssumption ==
  /\ Writes \in [Writer -> Cell] /\ Contradiction \notin Nat \ {0}
  /\ \A c, d, e \in Cell : c = d \/ c = e \/ d = e

CONSTANTS MaxIncrements
VARIABLES increments, heard, decoding, computed, snapshot, shown, stored, unheard, echoes, inOrder,
          readers, read, neighbor, missed, initialized, disposed
Instance == INSTANCE GunInstance WITH content <- snapshot, due <- readers

CONSTANTS MaxBeats
VARIABLES mode, interval, beats, queue, closed, waiter, generator, returning, aborted, listened,
          taken, ended
Stream == INSTANCE NetworkStream

CONSTANTS Depth, Source, MaxDefinitions
VARIABLES cells, lookups, cached, lookupDue, stamp, made, growing
Names == INSTANCE Scopes WITH result <- lookups, due <- lookupDue

\* Environments are counted from the innermost outwards.
ASSUME NamesAssumption == Depth \in Nat

CONSTANTS Card, Name, Session, Sent, Computed, Numerals, Blank, MaxRequests
VARIABLES slotMap, subscribed, table, this, writes, compiled, orphaned, told, since, requests
Output == INSTANCE CardOutput WITH stored <- table, pending <- writes

\* No two cards have one id and no id holds the name of a slot; what a client
\* sends is decoded to something.
ASSUME OutputAssumption ==
  /\ Name \in [Card -> Seq(STRING)]
  /\ \A c, d \in Card : Name[c] = Name[d] => c = d
  /\ \A c \in Card : \A i \in DOMAIN Name[c] : ~Output!StartsSlot(Name[c][i])
  /\ \A v \in Sent : Output!decode_card_ref_value(v) \notin {None, Output!Nothing}

CONSTANTS KnownPrimitives, Values, Encoded, Rank
VARIABLE value
Codec == INSTANCE GunCodec

\* Values are built from values that are nested less deep, and so is what they
\* are stored as.
ASSUME CodecAssumption == Codec!AreValues(Values) /\ Codec!AreCodes(Encoded)
-----------------------------------------------------------------------------
\* "none" leaves all of them where they begin; then it is the value that differs.
Machines == {"sites", "resolve", "table", "latest", "instance", "stream", "names", "output", "none"}

Init ==
  /\ part \in Machines
  /\ Sites!Init /\ Resolve!Init /\ Table!Init /\ Latest!Init /\ Instance!Init /\ Stream!Init /\ Names!Init
  /\ Output!Init
  /\ part # "resolve" => graph = CHOOSE g \in Graphs : TRUE
  /\ value \in Values /\ (part # "none" => value = CHOOSE v \in Values : TRUE)

sitesVars    == <<defined, used, operand, siteDue, nets, unfolded, out, siteContent, ref, hash, finalizers, cleanups>>
resolveVars  == <<graph, puts, visited, reading, late, seen, result>>
tableVars    == <<peers, current, asking, setups, stray, began, alone, process>>
latestVars   == <<cellContent, pending, now, writtenAt>>
instanceVars == <<increments, heard, decoding, computed, snapshot, shown, stored, unheard, echoes, inOrder,
                   readers, read, neighbor, missed, initialized, disposed>>
streamVars   == <<mode, interval, beats, queue, closed, waiter, generator, returning, aborted, listened, taken,
                   ended>>
namesVars    == <<cells, lookups, cached, lookupDue, stamp, made, growing>>
outputVars   == <<slotMap, subscribed, table, this, writes, compiled, orphaned, told, since, requests>>

Next ==
  \/ part = "sites" /\ Sites!Next
     /\ UNCHANGED <<part, value, resolveVars, tableVars, latestVars, instanceVars, streamVars, namesVars, outputVars>>
  \/ part = "resolve" /\ Resolve!Next
     /\ UNCHANGED <<part, value, sitesVars, tableVars, latestVars, instanceVars, streamVars, namesVars, outputVars>>
  \/ part = "table" /\ Table!Next
     /\ UNCHANGED <<part, value, sitesVars, resolveVars, latestVars, instanceVars, streamVars, namesVars, outputVars>>
  \/ part = "latest" /\ Latest!Next
     /\ UNCHANGED <<part, value, sitesVars, resolveVars, tableVars, instanceVars, streamVars, namesVars, outputVars>>
  \/ part = "instance" /\ Instance!Next
     /\ UNCHANGED <<part, value, sitesVars, resolveVars, tableVars, latestVars, streamVars, namesVars, outputVars>>
  \/ part = "stream" /\ Stream!Next
     /\ UNCHANGED <<part, value, sitesVars, resolveVars, tableVars, latestVars, instanceVars, namesVars, outputVars>>
  \/ part = "names" /\ Names!Next
     /\ UNCHANGED <<part, value, sitesVars, resolveVars, tableVars, latestVars, instanceVars, streamVars, outputVars>>
  \/ part = "output" /\ Output!Next
     /\ UNCHANGED <<part, value, sitesVars, resolveVars, tableVars, latestVars, instanceVars, streamVars, namesVars>>

Vars == <<part, value, sitesVars, resolveVars, tableVars, latestVars, instanceVars, streamVars, namesVars, outputVars>>
Spec == Init /\ [][Next]_Vars
-----------------------------------------------------------------------------
(* The claims are stated with the machines. *)

\* Every call site applies the definition it sees, unless another has its hash
\* (ClosureSites).
SitesApplyTheDefinition == Sites!SitesApplyTheDefinition
\* Every call site applies the definition it sees (incremental_compiler.ts:38).
SitesShowTheDefinition == Sites!SitesShowTheDefinition
\* No network outlives its closure's turn at a site (ClosureSites).
NoStrayNetworks == Sites!NoStrayNetworks
\* A place is null for one of three reasons (GunResolve).
NullsHaveReasons == Resolve!NullsHaveReasons
\* A command ends at a running peer (PeerTable).
CommandsReachAPeer == Table!CommandsReachAPeer
\* Every cell shows the latest write (LatestWins).
CellsShowTheLatest == Latest!CellsShowTheLatest
\* The stored strongest value is that of all increments (GunInstance).
StoredIsStrongest == Instance!StoredIsStrongest
\* A stream ends without losing an update or leaving a timer (NetworkStream).
NothingLostNothingLeft == Stream!NothingLostNothingLeft
\* A name means what its scope says (Scopes).
NamesMeanTheirScope == Names!NamesMeanTheirScope
\* An encoded value comes back (GunCodec).
ComesBack == Codec!ComesBack(value)
\* A stream was told what a card shows (CardOutput).
StreamsAreCurrent == Output!StreamsAreCurrent
=============================================================================
