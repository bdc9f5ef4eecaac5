-------------------------- MODULE CardSync_proofs ---------------------------
(***************************************************************************)
(* Proofs about the card table for every set of cards, sessions, deltas    *)
(* and initial maps: its type invariant, and that a link between two       *)
(* current cards can always be found again in both of their tables.  Of    *)
(* careful clients, that the table mirrors their slot maps and that none   *)
(* of their requests ends in an exception.  Of patient clients, which let  *)
(* the scheduler run between two of their pushes, that cards show the code *)
(* last sent and that builds compile it.                                   *)
(***************************************************************************)
EXTENDS CarefulClient, TLAPS

-----------------------------------------------------------------------------
(* Slot maps and the events between them.                                  *)

\* The empty slot map is a slot map (create_session_state).
LEMMA EmptyMapIsSlotMap == IsSlotMap(EmptyMap)
BY DEF IsSlotMap, EmptyMap

\* Applying a delta to a slot map gives a slot map
\* (apply_cards_delta_to_slot_map).
LEMMA DeltaKeepsSlotMap ==
  ASSUME NEW d, NEW m, IsDelta(d), IsSlotMap(m)
  PROVE  IsSlotMap(apply_cards_delta_to_slot_map(d, m))
<1> DEFINE n == apply_cards_delta_to_slot_map(d, m)
           D == (DOMAIN m \ d.remove) \union DOMAIN d.slots
<1>1. n = [k \in D |-> IF k \in DOMAIN d.slots THEN d.slots[k] ELSE m[k]]
  BY DEF apply_cards_delta_to_slot_map
<1>2. DOMAIN n = D /\ D \subseteq Key
  BY <1>1 DEF IsDelta, IsSlotMap
<1>3. \A k \in D : n[k] \in IF k[2] \in Direction THEN Card ELSE Value
  BY <1>1 DEF IsDelta, IsSlotMap
<1> HIDE DEF n
<1>4. n = [k \in DOMAIN n |-> n[k]]
  BY <1>1
<1> QED
  BY <1>2, <1>3, <1>4 DEF IsSlotMap, n

\* Every edge of a slot map is an edge between cards (collect_edges).
LEMMA EdgesAreEdges ==
  ASSUME NEW m, IsSlotMap(m)
  PROVE  collect_edges(m) \subseteq Edge
<1> SUFFICES ASSUME NEW k \in DOMAIN m, k[2] \in Direction
             PROVE  Canonical(DeclaredEdge(m, k)) \in Edge
  BY DEF collect_edges
<1>1. k[1] \in Card /\ m[k] \in Card
  BY DEF IsSlotMap, Key
<1>2. inverse_slot(k[2]) \in Direction
  BY DEF inverse_slot, Direction
<1>3. DeclaredEdge(m, k) \in Edge
  BY <1>1, <1>2 DEF DeclaredEdge, Edge
<1>4. Reverse(DeclaredEdge(m, k)) \in Edge
  BY <1>3 DEF Reverse, Edge
<1> QED
  BY <1>3, <1>4 DEF Canonical

\* The cards of a slot map are cards (collect_card_ids).
LEMMA IdsAreCards ==
  ASSUME NEW m, IsSlotMap(m)
  PROVE  collect_card_ids(m) \subseteq Card
BY DEF IsSlotMap, collect_card_ids, Key

\* The difference of two slot maps is a set of events
\* (diff_slot_maps_to_card_api_events).
LEMMA DiffIsEvents ==
  ASSUME NEW p, NEW n, IsSlotMap(p), IsSlotMap(n)
  PROVE  diff_slot_maps_to_card_api_events(p, n) \in Events
<1>1. collect_edges(p) \in SUBSET Edge /\ collect_edges(n) \in SUBSET Edge
  BY EdgesAreEdges
<1>2. collect_card_ids(p) \in SUBSET Card /\ collect_card_ids(n) \in SUBSET Card
  BY IdsAreCards
<1>3. sync_code_slots(p, n) \in SUBSET Card
  BY <1>2 DEF sync_code_slots
<1> QED
  BY <1>1, <1>2, <1>3 DEF diff_slot_maps_to_card_api_events, Events

\* Nothing to do is a set of events.
LEMMA NoEventsIsEvents == NoEvents \in Events
BY DEF NoEvents, Events

\* The code slot of a card holds a value.
LEMMA CodeIsValue ==
  ASSUME NEW m, IsSlotMap(m), NEW c, HasCode(m, c)
  PROVE  CodeOf(m, c) \in Value
BY DEF IsSlotMap, HasCode, CodeOf, Direction

-----------------------------------------------------------------------------
(* Type correctness.                                                       *)

\* The type of everything but the request in progress.
CardsOK ==
  /\ stored \subseteq Card
  /\ inc \in [Card -> Nat]
  /\ conn \in [Card -> [Card -> Link \union {NoLink}]]
  /\ live \subseteq Link
  /\ updater \in [Card -> Value \union {Nothing}]
  /\ this \in [Card -> Value \union {Nothing}]
  /\ dirty \subseteq Card
  /\ compiled \in [Card -> Source \union {Nothing}]

\* A new link joins the current instances of its two cards
\* (card_metadata_connect).
LEMMA LinkOfType ==
  ASSUME inc \in [Card -> Nat], NEW e \in Edge
  PROVE  LinkOf(e) \in Link
BY DEF LinkOf, Link, Edge

\* A pair of entries in the two tables keeps the type of the tables.
LEMMA PairedType ==
  ASSUME conn \in [Card -> [Card -> Link \union {NoLink}]],
         NEW a \in Card, NEW b \in Card, NEW l \in Link \union {NoLink}
  PROVE  Paired(a, b, l) \in [Card -> [Card -> Link \union {NoLink}]]
BY DEF Paired

\* Flushing the scheduler gives every ::this cell a value or leaves it empty.
LEMMA FlushedType ==
  ASSUME CardsOK, NEW C
  PROVE  Flushed(C) \in [Card -> Value \union {Nothing}]
BY DEF CardsOK, Flushed

\* Each operation on the card table keeps its type (card_metadata.ts).
LEMMA TableOpsType ==
  ASSUME CardsOK
  PROVE  /\ \A e \in Edge : card_metadata_detach(e) => CardsOK'
         /\ \A c \in Card : card_metadata_remove(c) => CardsOK'
         /\ \A c \in Card : construct_card_metadata(c) => CardsOK'
         /\ \A e \in Edge : card_metadata_connect(e) => CardsOK'
         /\ \A c \in Card, v \in Value : card_metadata_update(c, v) => CardsOK'
<1>1. ASSUME NEW e \in Edge, card_metadata_detach(e)  PROVE CardsOK'
  <2>1. e.from \in Card /\ e.to \in Card
    BY DEF Edge
  <2>2. conn' \in [Card -> [Card -> Link \union {NoLink}]]
    BY <1>1, <2>1, PairedType DEF card_metadata_detach, CardsOK
  <2> QED
    BY <1>1, <2>2 DEF card_metadata_detach, CardsOK
<1>2. ASSUME NEW c \in Card, card_metadata_remove(c)  PROVE CardsOK'
  BY <1>2 DEF card_metadata_remove, CardsOK
<1>3. ASSUME NEW c \in Card, construct_card_metadata(c)  PROVE CardsOK'
  <2>1. this' \in [Card -> Value \union {Nothing}]
    BY <1>3, FlushedType DEF construct_card_metadata
  <2>2. conn' \in [Card -> [Card -> Link \union {NoLink}]]
    BY <1>3 DEF construct_card_metadata, CardsOK
  <2>3. inc' \in [Card -> Nat] /\ stored' \subseteq Card
    BY <1>3 DEF construct_card_metadata, CardsOK
  <2>4. /\ updater' \in [Card -> Value \union {Nothing}]
        /\ compiled' \in [Card -> Source \union {Nothing}]
    BY <1>3 DEF construct_card_metadata, CardsOK
  <2> QED
    BY <1>3, <2>1, <2>2, <2>3, <2>4 DEF construct_card_metadata, CardsOK
<1>4. ASSUME NEW e \in Edge, card_metadata_connect(e)  PROVE CardsOK'
  <2>1. e.from \in Card /\ e.to \in Card /\ LinkOf(e) \in Link
    BY LinkOfType DEF Edge, CardsOK
  <2>2. conn' \in [Card -> [Card -> Link \union {NoLink}]]
    BY <1>4, <2>1, PairedType DEF card_metadata_connect, CardsOK
  <2> QED
    BY <1>4, <2>1, <2>2 DEF card_metadata_connect, CardsOK
<1>5. ASSUME NEW c \in Card, NEW v \in Value, card_metadata_update(c, v)
      PROVE  CardsOK'
  BY <1>5 DEF card_metadata_update, CardsOK
<1> QED
  BY <1>1, <1>2, <1>3, <1>4, <1>5

\* Building a card keeps the type of the card table (card_build_apply_io).
LEMMA BuildType ==
  ASSUME TypeOK, NEW s \in Session \union {NoSession}, NEW c \in Card, BuildCard(s, c)
  PROVE  CardsOK'
<1>1. CodeToApply(s, c) => CodeOf(slotMap[s], c) \in Value
  BY CodeIsValue DEF TypeOK, CodeToApply
<1>2. updater' \in [Card -> Value \union {Nothing}]
  BY <1>1 DEF BuildCard, UpdaterAtBuild, TypeOK
<1>3. this' \in [Card -> Value \union {Nothing}]
  BY <1>2 DEF BuildCard, TypeOK
<1>4. compiled' \in [Card -> Source \union {Nothing}]
  BY DEF BuildCard, TypeOK
<1> QED
  BY <1>2, <1>3, <1>4 DEF BuildCard, TypeOK, CardsOK

\* The type of the request in progress and of the sessions.
RequestsOK ==
  /\ open \subseteq Session
  /\ DOMAIN slotMap = Session /\ \A s \in Session : IsSlotMap(slotMap[s])
  /\ serving \in Session \union {NoSession}
  /\ IsSlotMap(target)
  /\ todo \in Events
  /\ Idle => todo = NoEvents
  /\ reply \in {"none", "ok", "error", "refused"}
  /\ requests \in 0..MaxRequests

\* The type invariant in its two halves.
LEMMA TypeHalves == TypeOK <=> CardsOK /\ RequestsOK
BY DEF TypeOK, CardsOK, RequestsOK

\* A request that starts leaves well-typed state (Serve).
LEMMA ServeType ==
  ASSUME RequestsOK, Idle, requests < MaxRequests,
         NEW s \in Session, NEW n, IsSlotMap(n), NEW ev \in Events,
         Serve(s, n, ev), open' = open \union {s},
         DOMAIN slotMap' = Session, \A t \in Session : IsSlotMap(slotMap'[t])
  PROVE  RequestsOK'
<1>1. IsSlotMap(target') /\ todo' \in Events /\ reply' = "none" /\ serving' = s
  BY DEF Serve
<1>2. requests' \in 0..MaxRequests
  BY CardSyncAssumption DEF Serve, RequestsOK
<1>3. ~Idle'
  BY <1>1, CardSyncAssumption DEF Idle
<1>4. (\A t \in Session : IsSlotMap(slotMap[t]))'
  BY DEF IsSlotMap
<1>5. IsSlotMap(target)'
  BY <1>1 DEF IsSlotMap
<1> QED
  BY <1>1, <1>2, <1>3, <1>4, <1>5 DEF RequestsOK

\* Taking one event off the list leaves the rest of the request as it is.
LEMMA EventStepType ==
  ASSUME RequestsOK, ~Idle, StillServing,
         \/ \E e \in Edge : \/ todo' = [todo EXCEPT !.detach = @ \ {e}]
                            \/ todo' = [todo EXCEPT !.connect = @ \ {e}]
         \/ \E c \in Card : \/ todo' = [todo EXCEPT !.remove = @ \ {c}]
                            \/ todo' = [todo EXCEPT !.add = @ \ {c}]
                            \/ todo' = [todo EXCEPT !.update = @ \ {c}]
  PROVE  RequestsOK'
<1>1. todo' \in Events
  BY DEF RequestsOK, Events
<1> QED
  BY <1>1 DEF RequestsOK, StillServing, Idle, IsSlotMap

\* Giving one session another slot map keeps all of them slot maps.
LEMMA SlotMapsType ==
  ASSUME RequestsOK, NEW s \in Session, NEW m, IsSlotMap(m),
         slotMap' = [slotMap EXCEPT ![s] = m]
  PROVE  DOMAIN slotMap' = Session /\ \A t \in Session : IsSlotMap(slotMap'[t])
<1>1. DOMAIN slotMap' = Session
  BY DEF RequestsOK
<1>2. ASSUME NEW t \in Session  PROVE IsSlotMap(slotMap'[t])
  <2>1. CASE t = s
    <3>1. slotMap'[t] = m
      BY <2>1 DEF RequestsOK
    <3> QED
      BY <3>1
  <2>2. CASE t # s
    <3>1. slotMap'[t] = slotMap[t]
      BY <2>2 DEF RequestsOK
    <3> QED
      BY <3>1 DEF RequestsOK
  <2> QED
    BY <2>1, <2>2
<1> QED
  BY <1>1, <1>2

\* The types hold at the start.
LEMMA InitType == Init => TypeOK
<1> SUFFICES ASSUME Init PROVE TypeOK
  OBVIOUS
<1>1. CardsOK
  BY DEF Init, CardsOK
<1>2. (\A s \in Session : IsSlotMap(slotMap[s])) /\ IsSlotMap(target)
  BY EmptyMapIsSlotMap DEF Init
<1>3. RequestsOK
  BY <1>2, NoEventsIsEvents, CardSyncAssumption DEF Init, RequestsOK, Idle
<1> QED
  BY <1>1, <1>3, TypeHalves

\* An update still to be applied has its code in the target: without this an
\* update could write anything at all (sync_code_slots).
UpdatesHaveCode == \A c \in todo.update : HasCode(target, c)

\* Every step keeps that.
LEMMA NextUpdatesHaveCode ==
  ASSUME RequestsOK, UpdatesHaveCode, [Next]_vars  PROVE UpdatesHaveCode'
<1>1. ASSUME NEW s \in Session, NEW p, NEW n,
             \/ Serve(s, n, NoEvents)
             \/ Serve(s, n, diff_slot_maps_to_card_api_events(p, n))
      PROVE  UpdatesHaveCode'
  <2>1. todo'.update = {} \/ todo'.update = sync_code_slots(p, n)
    BY <1>1 DEF Serve, NoEvents, diff_slot_maps_to_card_api_events
  <2>2. \A c \in sync_code_slots(p, n) : HasCode(n, c)
    BY DEF sync_code_slots
  <2>3. target' = n
    BY <1>1 DEF Serve
  <2> QED
    BY <2>1, <2>2, <2>3 DEF UpdatesHaveCode, HasCode
<1>2. ASSUME NEW s \in Session, NEW m \in InitialMaps, OpenSession(s, m)
      PROVE  UpdatesHaveCode'
  BY <1>1, <1>2 DEF OpenSession
<1>3. ASSUME NEW s \in Session, NEW d \in Deltas, PushDeltas(s, d)
      PROVE  UpdatesHaveCode'
  BY <1>1, <1>3 DEF PushDeltas
<1>4. ASSUME UNCHANGED target, todo' \in Events, todo'.update \subseteq todo.update
      PROVE  UpdatesHaveCode'
  BY <1>4 DEF UpdatesHaveCode, HasCode
<1>5. CASE ApplyEvent
  <2>1. /\ UNCHANGED target
        /\ todo' \in Events
        /\ todo'.update \subseteq todo.update
    BY <1>5 DEF ApplyEvent, ApplyDetach, ApplyRemove, ApplyAdd, ApplyConnect,
                ApplyUpdate, StillServing, RequestsOK, Events
  <2> QED
    BY <2>1, <1>4
<1>6. CASE Commit \/ Throw
  BY <1>6 DEF Commit, Throw, NoEvents, UpdatesHaveCode
<1>7. CASE UNCHANGED <<target, todo>>
  BY <1>7 DEF UpdatesHaveCode, HasCode
<1> QED
  BY <1>2, <1>3, <1>5, <1>6, <1>7
     DEF Next, CloseSession, CardBuild, Flush, requestVars, vars

\* Every step keeps the types.
LEMMA NextType ==
  TypeOK /\ UpdatesHaveCode /\ [Next]_vars => TypeOK' /\ UpdatesHaveCode'
<1> SUFFICES ASSUME TypeOK, UpdatesHaveCode, [Next]_vars
             PROVE  CardsOK' /\ RequestsOK'
  BY NextUpdatesHaveCode DEF TypeOK, CardsOK, RequestsOK, IsSlotMap, Idle
<1>0. CardsOK /\ RequestsOK
  BY TypeHalves
<1>1. ASSUME NEW s \in Session, NEW m \in InitialMaps, OpenSession(s, m)
      PROVE  CardsOK' /\ RequestsOK'
  <2>1. CardsOK'
    BY <1>0, <1>1 DEF OpenSession, cardVars, CardsOK
  <2>2. DOMAIN slotMap' = Session /\ \A t \in Session : IsSlotMap(slotMap'[t])
    <3>1. IsSlotMap(m)
      BY CardSyncAssumption
    <3>2. CASE s \in open
      BY <3>2, <1>0, <1>1 DEF OpenSession, RequestsOK
    <3>3. CASE s \notin open
      BY <3>1, <3>3, <1>0, <1>1, SlotMapsType DEF OpenSession
    <3> QED
      BY <3>2, <3>3
  <2>3. PICK ev : /\ ev = (IF m = EmptyMap THEN NoEvents
                           ELSE diff_slot_maps_to_card_api_events(EmptyMap, slotMap'[s]))
                  /\ Serve(s, slotMap'[s], ev)
    BY <1>1 DEF OpenSession
  <2>4. ev \in Events
    BY <2>2, <2>3, EmptyMapIsSlotMap, DiffIsEvents, NoEventsIsEvents
  <2>5. IsSlotMap(slotMap'[s])
    BY <2>2
  <2>6. Idle /\ requests < MaxRequests /\ open' = open \union {s}
    BY <1>1 DEF OpenSession
  <2>7. Serve(s, slotMap'[s], ev)
    BY <2>3
  <2> HIDE <2>3
  <2>8. RequestsOK'
    BY <1>0, <2>2, <2>4, <2>5, <2>6, <2>7, ServeType
  <2> QED
    BY <2>1, <2>8
<1>2. ASSUME NEW s \in Session, NEW d \in Deltas, PushDeltas(s, d)
      PROVE  CardsOK' /\ RequestsOK'
  <2>1. CardsOK'
    BY <1>0, <1>2 DEF PushDeltas, cardVars, CardsOK
  <2> DEFINE n == apply_cards_delta_to_slot_map(d, slotMap[s])
             ev == diff_slot_maps_to_card_api_events(slotMap[s], n)
  <2>2. IsSlotMap(slotMap[s])
    BY <1>0 DEF RequestsOK
  <2>3. IsSlotMap(n)
    BY <2>2, CardSyncAssumption, DeltaKeepsSlotMap
  <2>4. ev \in Events
    BY <2>2, <2>3, DiffIsEvents
  <2>5. Idle /\ requests < MaxRequests /\ open' = open \union {s} /\ Serve(s, n, ev)
    BY <1>2 DEF PushDeltas
  <2>6. DOMAIN slotMap' = Session /\ \A t \in Session : IsSlotMap(slotMap'[t])
    BY <1>0, <1>2 DEF PushDeltas, RequestsOK
  <2> HIDE DEF n, ev
  <2>7. RequestsOK'
    BY <1>0, <2>3, <2>4, <2>5, <2>6, ServeType
  <2> QED
    BY <2>1, <2>7
<1>3. ASSUME NEW s \in Session, CloseSession(s)
      PROVE  CardsOK' /\ RequestsOK'
  <2>1. CardsOK'
    BY <1>0, <1>3 DEF CloseSession, cardVars, CardsOK
  <2>2. DOMAIN slotMap' = Session /\ \A t \in Session : IsSlotMap(slotMap'[t])
    BY <1>0, <1>3, SlotMapsType, EmptyMapIsSlotMap DEF CloseSession
  <2>3. RequestsOK'
    BY <1>0, <1>3, <2>2 DEF CloseSession, requestVars, RequestsOK, Idle, IsSlotMap
  <2> QED
    BY <2>1, <2>3
<1>4. ASSUME NEW s \in Session \union {NoSession}, NEW c \in Card, CardBuild(s, c)
      PROVE  CardsOK' /\ RequestsOK'
  <2>1. CardsOK'
    BY <1>0, <1>4, BuildType DEF CardBuild, cardVars, CardsOK
  <2>2. reply' \in {"none", "ok", "error", "refused"}
    BY <1>4 DEF CardBuild, BuildCard
  <2>3. requests' \in 0..MaxRequests
    BY <1>0, <1>4, CardSyncAssumption DEF CardBuild, RequestsOK
  <2>4. RequestsOK'
    BY <1>0, <1>4, <2>2, <2>3 DEF CardBuild, RequestsOK, Idle, IsSlotMap
  <2> QED
    BY <2>1, <2>4
<1>5. CASE ApplyEvent
  <2>0. \/ \E e \in Edge : ApplyDetach(e) \/ ApplyConnect(e)
        \/ \E c \in Card : ApplyRemove(c) \/ ApplyAdd(c) \/ ApplyUpdate(c)
    BY <1>0, <1>5 DEF ApplyEvent, RequestsOK, Events
  <2>1. CASE \E e \in Edge : ApplyDetach(e) \/ ApplyConnect(e)
    <3>1. CardsOK'
      BY <1>0, <2>1, TableOpsType DEF ApplyDetach, ApplyConnect
    <3>2. RequestsOK'
      BY <1>0, <2>1, EventStepType DEF ApplyDetach, ApplyConnect, InDetach, InConnect
    <3> QED
      BY <3>1, <3>2
  <2>2. CASE \E c \in Card : ApplyRemove(c) \/ ApplyAdd(c)
    <3>1. CardsOK'
      BY <1>0, <2>2, TableOpsType DEF ApplyRemove, ApplyAdd
    <3>2. RequestsOK'
      BY <1>0, <2>2, EventStepType DEF ApplyRemove, ApplyAdd, InRemove, InAdd
    <3> QED
      BY <3>1, <3>2
  <2>3. ASSUME NEW c \in Card, ApplyUpdate(c)  PROVE CardsOK' /\ RequestsOK'
    <3>1. HasCode(target, c)
      BY <2>3 DEF ApplyUpdate, UpdatesHaveCode
    <3>2. CodeOf(target, c) \in Value
      BY <3>1, <1>0, CodeIsValue DEF RequestsOK
    <3>3. CardsOK'
      BY <3>2, <1>0, <2>3, TableOpsType DEF ApplyUpdate
    <3>4. RequestsOK'
      BY <1>0, <2>3, EventStepType DEF ApplyUpdate, InUpdate
    <3> QED
      BY <3>3, <3>4
  <2> QED
    BY <2>0, <2>1, <2>2, <2>3
<1>6. CASE Commit
  <2>1. CardsOK'
    BY <1>0, <1>6 DEF Commit, cardVars, CardsOK
  <2>2. DOMAIN slotMap' = Session /\ \A t \in Session : IsSlotMap(slotMap'[t])
    <3>1. serving \in Session /\ IsSlotMap(target)
      BY <1>0, <1>6 DEF Commit, Idle, RequestsOK
    <3> QED
      BY <1>0, <1>6, <3>1, SlotMapsType DEF Commit
  <2>3. IsSlotMap(target')
    BY <1>6, EmptyMapIsSlotMap DEF Commit
  <2>4. RequestsOK'
    BY <1>0, <1>6, <2>2, <2>3 DEF Commit, RequestsOK, Idle, IsSlotMap
  <2> QED
    BY <2>1, <2>4
<1>7. CASE Throw
  <2>1. CardsOK'
    BY <1>0, <1>7 DEF Throw, cardVars, CardsOK
  <2>2. IsSlotMap(target')
    BY <1>7, EmptyMapIsSlotMap DEF Throw
  <2>3. RequestsOK'
    BY <1>0, <1>7, <2>2, NoEventsIsEvents DEF Throw, RequestsOK, Idle, IsSlotMap
  <2> QED
    BY <2>1, <2>3
<1>8. CASE Flush
  <2>1. this' \in [Card -> Value \union {Nothing}]
    BY <1>0, <1>8, FlushedType DEF Flush
  <2>2. CardsOK'
    BY <1>0, <1>8, <2>1 DEF Flush, CardsOK
  <2>3. RequestsOK'
    BY <1>0, <1>8 DEF Flush, requestVars, RequestsOK, Idle, IsSlotMap
  <2> QED
    BY <2>2, <2>3
<1>9. CASE UNCHANGED vars
  BY <1>0, <1>9 DEF vars, cardVars, requestVars, CardsOK, RequestsOK, Idle, IsSlotMap
<1> QED
  BY <1>1, <1>2, <1>3, <1>4, <1>5, <1>6, <1>7, <1>8, <1>9 DEF Next

\* Every reachable state has its types: for every set of cards, sessions,
\* deltas and initial maps.
THEOREM TypeCorrect == Spec => []TypeOK
<1>1. Init => UpdatesHaveCode
  <2>1. NoEvents.update = {}
    BY DEF NoEvents
  <2> QED
    BY <2>1 DEF Init, UpdatesHaveCode
<1>2. Spec => [](TypeOK /\ UpdatesHaveCode)
  BY <1>1, InitType, NextType, PTL DEF Spec
<1> QED
  BY <1>2, PTL

-----------------------------------------------------------------------------
(* Links.                                                                  *)

\* No link names an instance of metadata that has not been constructed yet:
\* a new instance of a card therefore starts without links, whatever its
\* predecessor was connected to.
LinksAreOld ==
  \A l \in live : l.from_inc <= inc[l.edge.from] /\ l.to_inc <= inc[l.edge.to]

LinksInv == LinksStayReachable /\ LinksAreOld

\* Each operation on the card table keeps links reachable: it writes both
\* tables of a pair, or the whole table of the card it removes or replaces.
LEMMA TableOpsLinks ==
  ASSUME CardsOK, LinksInv
  PROVE  /\ \A e \in Edge : card_metadata_detach(e) => LinksInv'
         /\ \A c \in Card : card_metadata_remove(c) => LinksInv'
         /\ \A c \in Card : construct_card_metadata(c) => LinksInv'
         /\ \A e \in Edge : CanConnect(e) /\ card_metadata_connect(e) => LinksInv'
<1>0. \A l \in live : /\ l.edge.from \in Card /\ l.edge.to \in Card
                      /\ l.from_inc \in Nat /\ l.to_inc \in Nat
  BY DEF CardsOK, Link, Edge
<1>1. ASSUME NEW e \in Edge, card_metadata_detach(e)  PROVE LinksInv'
  <2>0. e.from \in Card /\ e.to \in Card
    BY DEF Edge
  <2>1. LinksAreOld'
    BY <1>1 DEF card_metadata_detach, LinksInv, LinksAreOld
  <2>2. ASSUME NEW l \in live', Current(l)'
        PROVE  /\ {l.edge.from, l.edge.to} \subseteq stored'
               /\ conn'[l.edge.from][l.edge.to] = l
               /\ conn'[l.edge.to][l.edge.from] = l
    <3>1. l \in live /\ l # conn[e.from][e.to] /\ Current(l)
      BY <1>1, <2>2 DEF card_metadata_detach, Current
    <3>2. /\ {l.edge.from, l.edge.to} \subseteq stored
          /\ conn[l.edge.from][l.edge.to] = l
          /\ conn[l.edge.to][l.edge.from] = l
      BY <3>1 DEF LinksInv, LinksStayReachable
    <3>3. /\ ~(l.edge.from = e.from /\ l.edge.to = e.to)
          /\ ~(l.edge.from = e.to /\ l.edge.to = e.from)
      BY <3>1, <3>2
    <3>4. \A a, b \in Card :
            ~(a = e.from /\ b = e.to) /\ ~(a = e.to /\ b = e.from)
              => conn'[a][b] = conn[a][b]
      BY <1>1, <2>0 DEF card_metadata_detach, Paired, CardsOK
    <3> QED
      BY <1>0, <1>1, <3>1, <3>2, <3>3, <3>4 DEF card_metadata_detach
  <2> QED
    BY <2>1, <2>2 DEF LinksInv, LinksStayReachable, Current
<1>2. ASSUME NEW c \in Card, card_metadata_remove(c)  PROVE LinksInv'
  <2>1. LinksAreOld'
    BY <1>2 DEF card_metadata_remove, LinksInv, LinksAreOld
  <2>2. ASSUME NEW l \in live', Current(l)'
        PROVE  /\ {l.edge.from, l.edge.to} \subseteq stored'
               /\ conn'[l.edge.from][l.edge.to] = l
               /\ conn'[l.edge.to][l.edge.from] = l
    <3>1. l \in live /\ (\A b \in Card : l # conn[c][b]) /\ Current(l)
      BY <1>2, <2>2 DEF card_metadata_remove, Current
    <3>2. /\ {l.edge.from, l.edge.to} \subseteq stored
          /\ conn[l.edge.from][l.edge.to] = l
          /\ conn[l.edge.to][l.edge.from] = l
      BY <3>1 DEF LinksInv, LinksStayReachable
    <3>3. l.edge.from # c /\ l.edge.to # c
      BY <1>0, <3>1, <3>2
    <3>4. \A a \in Card : a # c => conn'[a] = conn[a]
      BY <1>2 DEF card_metadata_remove, CardsOK
    <3> QED
      BY <1>0, <1>2, <3>1, <3>2, <3>3, <3>4 DEF card_metadata_remove
  <2> QED
    BY <2>1, <2>2 DEF LinksInv, LinksStayReachable, Current
<1>3. ASSUME NEW c \in Card, construct_card_metadata(c)  PROVE LinksInv'
  <2>0. /\ inc'[c] = inc[c] + 1 /\ inc[c] \in Nat
        /\ \A d \in Card : d # c => inc'[d] = inc[d]
        /\ \A d \in Card : inc[d] \in Nat
    BY <1>3 DEF construct_card_metadata, CardsOK
  <2>1. LinksAreOld'
    <3>1. ASSUME NEW l \in live
          PROVE  l.from_inc <= inc'[l.edge.from] /\ l.to_inc <= inc'[l.edge.to]
      <4>1. l.from_inc <= inc[l.edge.from] /\ l.to_inc <= inc[l.edge.to]
        BY DEF LinksInv, LinksAreOld
      <4>2. \A d \in Card : inc[d] <= inc'[d] /\ inc'[d] \in Nat
        BY <2>0
      <4> QED
        BY <1>0, <2>0, <4>1, <4>2
    <3> QED
      BY <1>3, <3>1 DEF construct_card_metadata, LinksAreOld
  <2>2. ASSUME NEW l \in live', Current(l)'
        PROVE  /\ {l.edge.from, l.edge.to} \subseteq stored'
               /\ conn'[l.edge.from][l.edge.to] = l
               /\ conn'[l.edge.to][l.edge.from] = l
    <3>1. l \in live
      BY <1>3 DEF construct_card_metadata
    <3>2. l.from_inc <= inc[l.edge.from] /\ l.to_inc <= inc[l.edge.to]
      BY <3>1 DEF LinksInv, LinksAreOld
    <3>3. l.from_inc = inc'[l.edge.from] /\ l.to_inc = inc'[l.edge.to]
      BY <2>2 DEF Current
    <3>4. l.edge.from # c /\ l.edge.to # c
      BY <1>0, <2>0, <3>1, <3>2, <3>3
    <3>5. Current(l)
      BY <1>0, <2>0, <3>1, <3>3, <3>4 DEF Current
    <3>6. /\ {l.edge.from, l.edge.to} \subseteq stored
          /\ conn[l.edge.from][l.edge.to] = l
          /\ conn[l.edge.to][l.edge.from] = l
      BY <3>1, <3>5 DEF LinksInv, LinksStayReachable
    <3>7. \A a \in Card : a # c => conn'[a] = conn[a]
      BY <1>3 DEF construct_card_metadata, CardsOK
    <3> QED
      BY <1>0, <1>3, <3>1, <3>4, <3>6, <3>7 DEF construct_card_metadata
  <2> QED
    BY <2>1, <2>2 DEF LinksInv, LinksStayReachable, Current
<1>4. ASSUME NEW e \in Edge, CanConnect(e), card_metadata_connect(e)  PROVE LinksInv'
  <2>0. /\ e.from \in Card /\ e.to \in Card
        /\ LinkOf(e).edge = e
        /\ LinkOf(e).from_inc = inc[e.from] /\ LinkOf(e).to_inc = inc[e.to]
        /\ inc[e.from] \in Nat /\ inc[e.to] \in Nat
    BY DEF Edge, LinkOf, CardsOK
  <2>1. LinksAreOld'
    <3>1. inc[e.from] <= inc[e.from] /\ inc[e.to] <= inc[e.to]
      BY <2>0
    <3> QED
      BY <1>4, <2>0, <3>1 DEF card_metadata_connect, LinksInv, LinksAreOld
  <2>2. ASSUME NEW l \in live', Current(l)'
        PROVE  /\ {l.edge.from, l.edge.to} \subseteq stored'
               /\ conn'[l.edge.from][l.edge.to] = l
               /\ conn'[l.edge.to][l.edge.from] = l
    <3>0. \A a, b \in Card :
            ~(a = e.from /\ b = e.to) /\ ~(a = e.to /\ b = e.from)
              => conn'[a][b] = conn[a][b]
      BY <1>4, <2>0 DEF card_metadata_connect, Paired, CardsOK
    <3>1. conn'[e.from][e.to] = LinkOf(e) /\ conn'[e.to][e.from] = LinkOf(e)
      BY <1>4, <2>0 DEF card_metadata_connect, Paired, CardsOK
    <3>2. CASE l = LinkOf(e)
      BY <1>4, <2>0, <3>1, <3>2 DEF card_metadata_connect, CanConnect
    <3>3. CASE l # LinkOf(e)
      <4>1. l \in live /\ l # conn[e.from][e.to] /\ Current(l)
        BY <1>4, <2>2, <3>3 DEF card_metadata_connect, Current
      <4>2. /\ {l.edge.from, l.edge.to} \subseteq stored
            /\ conn[l.edge.from][l.edge.to] = l
            /\ conn[l.edge.to][l.edge.from] = l
        BY <4>1 DEF LinksInv, LinksStayReachable
      <4>3. /\ ~(l.edge.from = e.from /\ l.edge.to = e.to)
            /\ ~(l.edge.from = e.to /\ l.edge.to = e.from)
        BY <4>1, <4>2
      <4> QED
        BY <1>0, <1>4, <3>0, <4>1, <4>2, <4>3 DEF card_metadata_connect
    <3> QED
      BY <3>2, <3>3
  <2> QED
    BY <2>1, <2>2 DEF LinksInv, LinksStayReachable, Current
<1> QED
  BY <1>1, <1>2, <1>3, <1>4

\* Every step keeps links reachable.
LEMMA NextLinks == TypeOK /\ LinksInv /\ [Next]_vars => LinksInv'
<1> SUFFICES ASSUME TypeOK, LinksInv, [Next]_vars  PROVE LinksInv'
  OBVIOUS
<1>0. CardsOK /\ RequestsOK
  BY TypeHalves
<1>1. ASSUME UNCHANGED <<stored, inc, conn, live>>  PROVE LinksInv'
  BY <1>1 DEF LinksInv, LinksStayReachable, LinksAreOld, Current
<1>2. CASE ApplyEvent
  <2>0. \/ \E e \in Edge : ApplyDetach(e) \/ ApplyConnect(e)
        \/ \E c \in Card : ApplyRemove(c) \/ ApplyAdd(c) \/ ApplyUpdate(c)
    BY <1>0, <1>2 DEF ApplyEvent, RequestsOK, Events
  <2>1. CASE \E e \in Edge : ApplyDetach(e) \/ ApplyConnect(e)
    BY <1>0, <2>1, TableOpsLinks DEF ApplyDetach, ApplyConnect
  <2>2. CASE \E c \in Card : ApplyRemove(c) \/ ApplyAdd(c)
    BY <1>0, <2>2, TableOpsLinks DEF ApplyRemove, ApplyAdd
  <2>3. CASE \E c \in Card : ApplyUpdate(c)
    BY <1>1, <2>3 DEF ApplyUpdate, card_metadata_update
  <2> QED
    BY <2>0, <2>1, <2>2, <2>3
<1>3. CASE ~ApplyEvent
  BY <1>1, <1>3 DEF Next, vars, cardVars, OpenSession, PushDeltas, CloseSession,
                    CardBuild, BuildCard, Commit, Throw, Flush
<1> QED
  BY <1>2, <1>3

\* Whatever clients push, and wherever a request fails: a link between two
\* current cards is found in both of their tables.
THEOREM LinksReachable == Spec => []LinksStayReachable
<1>1. Init => LinksInv
  BY DEF Init, LinksInv, LinksStayReachable, LinksAreOld
<1>2. LinksInv => LinksStayReachable
  BY DEF LinksInv
<1> QED
  BY <1>1, <1>2, TypeCorrect, NextLinks, PTL DEF Spec

-----------------------------------------------------------------------------
(* The inductive invariant for careful clients.                            *)

\* An entry of the link tables is a link between the two cards of its key.
EntriesMatch ==
  \A a, b \in Card : conn[a][b] # NoLink =>
    LET e == conn[a][b].edge
    IN  (e.from = a /\ e.to = b) \/ (e.from = b /\ e.to = a)

\* The links that reach a set M of cards are those of a set N of connections,
\* each in both tables.
Reflects(M, N) ==
  /\ M \subseteq stored
  /\ { l \in live : \E c \in M : Touches(l, c) } = { LinkOf(e) : e \in N }
  /\ \A e \in N : conn[e.from][e.to] = LinkOf(e) /\ conn[e.to][e.from] = LinkOf(e)

\* Connections among the cards of M, at most one per pair of cards, each
\* written in its canonical direction.
Tidy(M, N) ==
  /\ \A e \in N : e \in Edge /\ e.from \in M /\ e.to \in M /\ e.from <= e.to
  /\ \A e, f \in N : e.from = f.from /\ e.to = f.to => e = f

\* What a session has in the table are cards of its own, tidily connected.
SessionsTidy ==
  \A s \in Session :
    Managed(s) \subseteq Own[s] /\ Tidy(Managed(s), Connected(s))

\* Clients only reach slot maps in their scope.
MapsInScope ==
  /\ \A s \in Session : InScope(s, slotMap[s])
  /\ ~Idle => InScope(serving, target)

\* The events ev lead from a part of n to n.
Fits(n, ev) ==
  /\ ev.add \subseteq collect_card_ids(n)
  /\ ev.connect \subseteq collect_edges(n)
  /\ ev.update \subseteq collect_card_ids(n)
  /\ ev.remove \intersect collect_card_ids(n) = {}
  /\ ev.detach \intersect collect_edges(n) = {}
  /\ \A e \in collect_edges(n) \ ev.connect :
       e.from \notin ev.add /\ e.to \notin ev.add

TodoFits == ~Idle => Fits(target, todo)

\* Each of these is needed for the next step of another: an event is applied
\* to a card that is there because the events left fit the target, and leaves
\* the other sessions alone because each has cards of its own.
CarefulInv ==
  /\ TypeOK /\ UpdatesHaveCode /\ LinksInv
  /\ EntriesMatch
  /\ MapsInScope /\ SessionsTidy /\ TodoFits
  /\ Mirrored

-----------------------------------------------------------------------------
(* Slot maps.                                                              *)

\* An edge is written with the smaller card first (collect_edges).
LEMMA EdgesAreOrdered ==
  ASSUME NEW m, IsSlotMap(m)
  PROVE  \A e \in collect_edges(m) : e.from <= e.to
<1> SUFFICES ASSUME NEW k \in DOMAIN m, k[2] \in Direction
             PROVE  Canonical(DeclaredEdge(m, k)).from <= Canonical(DeclaredEdge(m, k)).to
  BY DEF collect_edges
<1>1. k[1] \in Nat /\ m[k] \in Nat
  BY CardAssumption DEF IsSlotMap, Key
<1> QED
  BY <1>1 DEF Canonical, DeclaredEdge, Reverse

\* The edges of a well-formed slot map are tidy among its cards.
LEMMA WellFormedIsTidy ==
  ASSUME NEW m, IsSlotMap(m), WellFormed(m)
  PROVE  Tidy(collect_card_ids(m), collect_edges(m))
BY EdgesAreEdges, EdgesAreOrdered DEF Tidy, WellFormed

\* The empty slot map declares nothing.
LEMMA EmptyMapDeclares == collect_card_ids(EmptyMap) = {} /\ collect_edges(EmptyMap) = {}
BY DEF collect_card_ids, collect_edges, EmptyMap

\* The empty slot map is in everyone's scope.
LEMMA EmptyMapInScope == ASSUME NEW s PROVE InScope(s, EmptyMap)
BY EmptyMapDeclares DEF InScope, WellFormed

-----------------------------------------------------------------------------
(* What each operation on the card table does to a set of cards M and the  *)
(* connections N among them.                                               *)

\* A tidy pair of sets is determined by its pairs of cards: two connections
\* of one pair, whichever direction they are asked in, are the same.
LEMMA TidyPairs ==
  ASSUME CardAssumption, NEW M \in SUBSET Card, NEW N, Tidy(M, N),
         NEW e \in N, NEW f \in N,
         (e.from = f.from /\ e.to = f.to) \/ (e.from = f.to /\ e.to = f.from)
  PROVE  e = f
<1>1. /\ e.from \in Nat /\ e.to \in Nat /\ f.from \in Nat /\ f.to \in Nat
      /\ e.from <= e.to /\ f.from <= f.to
  BY DEF Tidy
<1>2. e.from = f.from /\ e.to = f.to
  BY <1>1
<1> QED
  BY <1>2 DEF Tidy

\* Links are compared by their connection.
LEMMA LinkOfEdge == \A e : LinkOf(e).edge = e
BY DEF LinkOf

\* Which entries a pair of writes leaves alone.
LEMMA PairedEntries ==
  ASSUME CardsOK, NEW a \in Card, NEW b \in Card, NEW l, conn' = Paired(a, b, l)
  PROVE  /\ conn'[a][b] = l /\ conn'[b][a] = l
         /\ \A x, y \in Card : ~(x = a /\ y = b) /\ ~(x = b /\ y = a)
              => conn'[x][y] = conn[x][y]
BY DEF Paired, CardsOK

\* The link that detaching or connecting e cuts joins the two cards of e.
LEMMA CutLinkMatches ==
  ASSUME CardsOK, EntriesMatch, NEW a \in Card, NEW b \in Card,
         NEW l \in live, l = conn[a][b]
  PROVE  (l.edge.from = a /\ l.edge.to = b) \/ (l.edge.from = b /\ l.edge.to = a)
<1>1. l # NoLink
  BY CardSyncAssumption DEF CardsOK
<1> QED
  BY <1>1 DEF EntriesMatch

\* Detaching a connection of N takes it out of N (card_metadata_detach).
LEMMA DetachOwn ==
  ASSUME CardsOK, EntriesMatch, NEW M \in SUBSET Card, NEW N, Tidy(M, N),
         Reflects(M, N), NEW e \in N, card_metadata_detach(e)
  PROVE  Reflects(M, N \ {e})'
<1>1. /\ e.from \in Card /\ e.to \in Card
      /\ conn[e.from][e.to] = LinkOf(e)
      /\ UNCHANGED <<stored, inc>>
      /\ live' = live \ {LinkOf(e)}
  BY DEF Tidy, Reflects, card_metadata_detach
<1>2. \A f : LinkOf(f)' = LinkOf(f)
  BY <1>1 DEF LinkOf
<1>3. \A l, c : Touches(l, c)' <=> Touches(l, c)
  BY <1>1 DEF Touches
<1>4. { l \in live' : \E c \in M : Touches(l, c) } = { LinkOf(f) : f \in N \ {e} }
  <2>1. { l \in live : \E c \in M : Touches(l, c) } = { LinkOf(f) : f \in N }
    BY DEF Reflects
  <2> QED
    BY <1>1, <2>1, LinkOfEdge
<1>5. ASSUME NEW f \in N \ {e}
      PROVE  conn'[f.from][f.to] = LinkOf(f) /\ conn'[f.to][f.from] = LinkOf(f)
  <2>1. ~(e.from = f.from /\ e.to = f.to) /\ ~(e.from = f.to /\ e.to = f.from)
    BY <1>5, TidyPairs, CardAssumption
  <2>2. f.from \in Card /\ f.to \in Card
    BY DEF Tidy
  <2>3. conn[f.from][f.to] = LinkOf(f) /\ conn[f.to][f.from] = LinkOf(f)
    BY DEF Reflects
  <2>4. \A x, y \in Card : ~(x = e.from /\ y = e.to) /\ ~(x = e.to /\ y = e.from)
          => conn'[x][y] = conn[x][y]
    BY <1>1, PairedEntries DEF card_metadata_detach
  <2> QED
    BY <2>1, <2>2, <2>3, <2>4
<1>6. M \subseteq stored'
  BY <1>1 DEF Reflects
<1>7. { l \in live' : \E c \in M : Touches(l, c)' } = { LinkOf(f)' : f \in N \ {e} }
  BY <1>2, <1>3, <1>4
<1>8. \A f \in N \ {e} : conn'[f.from][f.to] = LinkOf(f)' /\ conn'[f.to][f.from] = LinkOf(f)'
  BY <1>2, <1>5
<1> QED
  BY <1>6, <1>7, <1>8 DEF Reflects

\* A step that changes nothing about the cards of M, the links at them and
\* the entries between them still reflects N.
LEMMA Unreached ==
  ASSUME CardsOK, NEW M \in SUBSET Card, NEW N, Tidy(M, N), Reflects(M, N),
         M \subseteq stored',
         \A c \in M : inc'[c] = inc[c],
         \A a, b \in M : conn'[a][b] = conn[a][b],
         \A l : \A c \in M : Touches(l, c) => (l \in live' <=> l \in live)
  PROVE  Reflects(M, N)'
<1>1. \A l : \A c \in M : Touches(l, c)' <=> Touches(l, c)
  BY DEF Touches
<1>2. \A f \in N : LinkOf(f)' = LinkOf(f)
  BY DEF LinkOf, Tidy
<1>4. { l \in live' : \E c \in M : Touches(l, c)' }
        = { l \in live : \E c \in M : Touches(l, c) }
  BY <1>1
<1>5. { LinkOf(f)' : f \in N } = { LinkOf(f) : f \in N }
  BY <1>2
<1>6. \A f \in N : conn'[f.from][f.to] = LinkOf(f)' /\ conn'[f.to][f.from] = LinkOf(f)'
  BY <1>2 DEF Reflects, Tidy
<1>7. { l \in live : \E c \in M : Touches(l, c) } = { LinkOf(f) : f \in N }
  BY DEF Reflects
<1> QED
  BY <1>4, <1>5, <1>6, <1>7 DEF Reflects

\* Detaching or connecting two cards outside M leaves M alone.
LEMMA PairElsewhere ==
  ASSUME CardsOK, EntriesMatch, NEW M \in SUBSET Card, NEW N, Tidy(M, N),
         Reflects(M, N), NEW e \in Edge, e.from \notin M, e.to \notin M,
         card_metadata_detach(e) \/ card_metadata_connect(e)
  PROVE  Reflects(M, N)'
<1>1. e.from \in Card /\ e.to \in Card
  BY DEF Edge
<1>2. UNCHANGED <<stored, inc>>
  BY DEF card_metadata_detach, card_metadata_connect
<1>3. \A a, b \in M : conn'[a][b] = conn[a][b]
  <2>1. PICK l : conn' = Paired(e.from, e.to, l)
    BY DEF card_metadata_detach, card_metadata_connect
  <2> QED
    BY <1>1, <2>1, PairedEntries
<1>4. ASSUME NEW l, NEW c \in M, Touches(l, c)
      PROVE  l \in live' <=> l \in live
  <2>1. l # LinkOf(e)
    BY <1>4, LinkOfEdge DEF Touches
  <2>2. l \in live => l # conn[e.from][e.to]
    BY <1>1, <1>4, CutLinkMatches DEF Touches
  <2> QED
    BY <2>1, <2>2 DEF card_metadata_detach, card_metadata_connect
<1>5. M \subseteq stored'
  BY <1>2 DEF Reflects
<1> QED
  BY <1>2, <1>3, <1>4, <1>5, Unreached

\* Removing a card without connections takes it out of M, and leaves every
\* set of cards without it alone (card_metadata_remove).
LEMMA RemoveCard ==
  ASSUME CardsOK, EntriesMatch, NEW M \in SUBSET Card, NEW N,
         NEW c \in Card, Tidy(M \ {c}, N), Reflects(M, N), card_metadata_remove(c)
  PROVE  Reflects(M \ {c}, N)'
<1>1. Reflects(M \ {c}, N)
  <2>1. { l \in live : \E d \in M : Touches(l, d) } = { LinkOf(f) : f \in N }
    BY DEF Reflects
  <2>2. \A f \in N : f.from \in M \ {c} /\ Touches(LinkOf(f), f.from)
    BY DEF Tidy, Touches, LinkOf
  <2>3. { l \in live : \E d \in M \ {c} : Touches(l, d) } = { LinkOf(f) : f \in N }
    BY <2>1, <2>2
  <2> QED
    BY <2>3 DEF Reflects
<1>2. M \ {c} \subseteq stored'
  BY DEF card_metadata_remove, Reflects
<1>3. \A a \in Card : a # c => conn'[a] = conn[a]
  BY DEF card_metadata_remove, CardsOK
<1>4. ASSUME NEW l, NEW d \in M \ {c}, Touches(l, d)
      PROVE  l \in live' <=> l \in live
  <2>1. CASE l \in live
    <3>1. PICK f \in N : l = LinkOf(f)
      BY <1>1, <1>4, <2>1 DEF Reflects
    <3>2. l.edge.from # c /\ l.edge.to # c
      BY <3>1, LinkOfEdge DEF Tidy
    <3>3. \A b \in Card : l # conn[c][b]
      BY <2>1, <3>2, CutLinkMatches
    <3> QED
      BY <2>1, <3>3 DEF card_metadata_remove
  <2>2. CASE l \notin live
    BY <2>2 DEF card_metadata_remove
  <2> QED
    BY <2>1, <2>2
<1> QED
  BY <1>1, <1>2, <1>3, <1>4, Unreached DEF card_metadata_remove

\* A card that is constructed starts without connections, whatever was stored
\* under its id, and joins M if wanted; the rest of M is left alone
\* (construct_card_metadata).
LEMMA AddCard ==
  ASSUME CardsOK, LinksAreOld, NEW M \in SUBSET Card, NEW N, Tidy(M, N),
         Reflects(M, N), NEW c \in Card, c \notin M, construct_card_metadata(c)
  PROVE  Reflects(M, N)' /\ Reflects(M \union {c}, N)'
<1>1. inc'[c] = inc[c] + 1 /\ inc[c] \in Nat /\ UNCHANGED live
  BY DEF construct_card_metadata, CardsOK
<1>2. \A d \in M : inc'[d] = inc[d]
  BY DEF construct_card_metadata, CardsOK
<1>3. \A a, b \in M : conn'[a][b] = conn[a][b]
  BY DEF construct_card_metadata, CardsOK
<1>4. M \subseteq stored' /\ c \in stored'
  BY DEF construct_card_metadata, Reflects
<1>5. Reflects(M, N)'
  BY <1>1, <1>2, <1>3, <1>4, Unreached
<1>6. ASSUME NEW l \in live  PROVE ~Touches(l, c)'
  <2>1. l.from_inc \in Nat /\ l.to_inc \in Nat
    BY DEF CardsOK, Link
  <2>2. /\ l.edge.from = c => l.from_inc <= inc[c]
        /\ l.edge.to = c => l.to_inc <= inc[c]
    BY DEF LinksAreOld
  <2> QED
    BY <1>1, <2>1, <2>2 DEF Touches
<1>7. { l \in live' : \E d \in M \union {c} : Touches(l, d)' }
        = { l \in live' : \E d \in M : Touches(l, d)' }
  BY <1>1, <1>6
<1> QED
  BY <1>4, <1>5, <1>7 DEF Reflects

\* Connecting two cards of M that N does not connect adds that connection
\* (card_metadata_connect).
LEMMA ConnectOwn ==
  ASSUME CardsOK, EntriesMatch, NEW M \in SUBSET Card, NEW N, NEW e \in Edge,
         Tidy(M, N \union {e}), Reflects(M, N), e \notin N, card_metadata_connect(e)
  PROVE  Reflects(M, N \union {e})'
<1>1. e.from \in M /\ e.to \in M /\ e.from \in Card /\ e.to \in Card
  BY DEF Tidy
<1>2. UNCHANGED <<stored, inc>>
  BY DEF card_metadata_connect
<1>3. \A f : LinkOf(f)' = LinkOf(f)
  BY <1>2 DEF LinkOf
<1>4. \A l, c : Touches(l, c)' <=> Touches(l, c)
  BY <1>2 DEF Touches
<1>5. \A f \in N : ~(e.from = f.from /\ e.to = f.to) /\ ~(e.from = f.to /\ e.to = f.from)
  BY TidyPairs, CardAssumption
<1>6. \A f \in N : LinkOf(f) \in live /\ LinkOf(f) # conn[e.from][e.to]
  <2>1. \A f \in N : LinkOf(f) \in live
    BY DEF Reflects
  <2> QED
    BY <1>1, <1>5, <2>1, LinkOfEdge, CutLinkMatches
<1>7. { l \in live' : \E c \in M : Touches(l, c) } = { LinkOf(f) : f \in N \union {e} }
  <2>1. { l \in live : \E c \in M : Touches(l, c) } = { LinkOf(f) : f \in N }
    BY DEF Reflects
  <2>2. Touches(LinkOf(e), e.from)
    BY DEF Touches, LinkOf
  <2> QED
    BY <1>1, <1>6, <2>1, <2>2 DEF card_metadata_connect
<1>8. /\ conn'[e.from][e.to] = LinkOf(e) /\ conn'[e.to][e.from] = LinkOf(e)
      /\ \A x, y \in Card : ~(x = e.from /\ y = e.to) /\ ~(x = e.to /\ y = e.from)
           => conn'[x][y] = conn[x][y]
  BY <1>1, PairedEntries DEF card_metadata_connect
<1>9. \A f \in N \union {e} :
        conn'[f.from][f.to] = LinkOf(f)' /\ conn'[f.to][f.from] = LinkOf(f)'
  BY <1>3, <1>5, <1>8 DEF Tidy, Reflects
<1>10. { l \in live' : \E c \in M : Touches(l, c)' }
         = { LinkOf(f)' : f \in N \union {e} }
  BY <1>3, <1>4, <1>7
<1> QED
  BY <1>2, <1>9, <1>10 DEF Reflects

-----------------------------------------------------------------------------
(* Steps.                                                                  *)

\* A careful step is a step of the server.
LEMMA CarefulNextIsNext == [CarefulNext]_vars => [Next]_vars
BY DEF CarefulNext, OtherStep, Request, CarefulOpen, CarefulPush, Next

\* Entries keep matching their keys, whoever pushes what.
LEMMA NextEntriesMatch ==
  ASSUME TypeOK, EntriesMatch, [Next]_vars  PROVE EntriesMatch'
<1>0. CardsOK /\ RequestsOK
  BY TypeHalves
<1>1. ASSUME UNCHANGED conn  PROVE EntriesMatch'
  BY <1>1 DEF EntriesMatch
<1>2. CASE ApplyEvent
  <2>0. \/ \E e \in Edge : ApplyDetach(e) \/ ApplyConnect(e)
        \/ \E c \in Card : ApplyRemove(c) \/ ApplyAdd(c) \/ ApplyUpdate(c)
    BY <1>0, <1>2 DEF ApplyEvent, RequestsOK, Events
  <2>1. ASSUME NEW e \in Edge, ApplyDetach(e)  PROVE EntriesMatch'
    <3>1. e.from \in Card /\ e.to \in Card /\ conn' = Paired(e.from, e.to, NoLink)
      BY <2>1 DEF ApplyDetach, card_metadata_detach, Edge
    <3> QED
      BY <1>0, <3>1, PairedEntries DEF EntriesMatch
  <2>2. ASSUME NEW e \in Edge, ApplyConnect(e)  PROVE EntriesMatch'
    <3>1. e.from \in Card /\ e.to \in Card /\ conn' = Paired(e.from, e.to, LinkOf(e))
      BY <2>2 DEF ApplyConnect, card_metadata_connect, Edge
    <3> QED
      BY <1>0, <3>1, PairedEntries, LinkOfEdge DEF EntriesMatch
  <2>3. ASSUME NEW c \in Card, ApplyRemove(c) \/ ApplyAdd(c)  PROVE EntriesMatch'
    <3>1. conn' = [conn EXCEPT ![c] = [b \in Card |-> NoLink]]
      BY <2>3 DEF ApplyRemove, ApplyAdd, card_metadata_remove, construct_card_metadata
    <3>2. \A a, b \in Card : conn'[a][b] = IF a = c THEN NoLink ELSE conn[a][b]
      BY <1>0, <3>1 DEF CardsOK
    <3> QED
      BY <3>2 DEF EntriesMatch
  <2>4. CASE \E c \in Card : ApplyUpdate(c)
    BY <1>1, <2>4 DEF ApplyUpdate, card_metadata_update
  <2> QED
    BY <2>0, <2>1, <2>2, <2>3, <2>4
<1>3. CASE ~ApplyEvent
  BY <1>1, <1>3 DEF Next, vars, cardVars, OpenSession, PushDeltas, CloseSession,
                    CardBuild, BuildCard, Commit, Throw, Flush
<1> QED
  BY <1>2, <1>3

\* What a session x has is as it should be.
SessionOK(x) ==
  /\ Managed(x) \subseteq Own[x]
  /\ Tidy(Managed(x), Connected(x))
  /\ Reflects(Managed(x), Connected(x))

\* The session half of the invariant.
LEMMA SessionsOK == SessionsTidy /\ Mirrored <=> \A x \in Session : SessionOK(x)
BY DEF SessionsTidy, Mirrored, SessionOK, Reflects

\* To know the session after a step, name its cards and connections.
LEMMA SessionAfter ==
  ASSUME NEW x \in Session, NEW M, NEW N, Managed(x)' = M, Connected(x)' = N,
         M \subseteq Own[x], Tidy(M, N), Reflects(M, N)'
  PROVE  SessionOK(x)'
BY DEF SessionOK, Reflects

\* Steps that change neither cards nor links.
LEMMA SameTable ==
  ASSUME NEW M, NEW N, Reflects(M, N), UNCHANGED <<stored, inc, conn, live>>
  PROVE  Reflects(M, N)'
BY DEF Reflects, Touches, LinkOf

\* Nothing is reflected by nothing.
LEMMA NothingReflected == Tidy({}, {}) /\ Reflects({}, {}) /\ Reflects({}, {})'
BY DEF Tidy, Reflects

\* A session that is not being served keeps what it has while its slot map
\* and the table stay as they are.
LEMMA SessionSame ==
  ASSUME NEW x \in Session, SessionOK(x), UNCHANGED <<stored, inc, conn, live>>,
         slotMap'[x] = slotMap[x],
         \/ x # serving /\ x # serving'
         \/ UNCHANGED <<serving, target, todo>>
  PROVE  SessionOK(x)'
<1>1. PICK M, N : M = Managed(x) /\ N = Connected(x)
  OBVIOUS
<1>2. Managed(x)' = M /\ Connected(x)' = N
  BY <1>1 DEF Managed, Connected
<1>3. M \subseteq Own[x] /\ Tidy(M, N) /\ Reflects(M, N)
  BY <1>1 DEF SessionOK
<1> QED
  BY <1>2, <1>3, SameTable, SessionAfter

\* What the invariant says of the session being served, while events of a
\* kind are left: the cards the event needs are there, and so is its link.
LEMMA ServedSession ==
  ASSUME CarefulInv, ~Idle
  PROVE  /\ serving \in Session /\ SessionOK(serving)
         /\ Managed(serving) = (collect_card_ids(target) \ todo.add) \union todo.remove
         /\ Connected(serving) = (collect_edges(target) \ todo.connect) \union todo.detach
         /\ Fits(target, todo)
         /\ Tidy(collect_card_ids(target), collect_edges(target))
         /\ Managed(serving) \in SUBSET Card
BY TypeHalves, SessionsOK, WellFormedIsTidy, OwnAssumption, IdsAreCards
   DEF CarefulInv, RequestsOK, Idle, Managed, Connected, TodoFits, MapsInScope,
       InScope, SessionOK

\* The invariant rules exceptions out.
LEMMA InvNoThrow == CarefulInv => NothingThrows
<1> SUFFICES ASSUME CarefulInv  PROVE NothingThrows
  OBVIOUS
<1>0. CardsOK /\ RequestsOK
  BY TypeHalves DEF CarefulInv
<1> DEFINE M == Managed(serving)
           N == Connected(serving)
<1>1. ~Idle => M \subseteq stored
  BY ServedSession DEF SessionOK, Reflects
<1>2. ASSUME InDetach, NEW e \in todo.detach  PROVE CanDetach(e)
  <2>1. ~Idle /\ e \in N
    BY <1>2, ServedSession DEF InDetach
  <2>2. /\ e \in Edge /\ e.from \in M /\ e.to \in M
        /\ conn[e.from][e.to] = LinkOf(e)
    BY <2>1, ServedSession DEF SessionOK, Tidy, Reflects
  <2>3. LinkOf(e) # NoLink
    BY <1>0, <2>2, LinkOfType, CardSyncAssumption DEF CardsOK
  <2> QED
    BY <1>1, <2>1, <2>2, <2>3 DEF CanDetach
<1>3. ASSUME InRemove, NEW c \in todo.remove  PROVE CanRemove(c)
  BY <1>1, <1>3, ServedSession DEF InRemove, CanRemove
<1>4. ASSUME InConnect, NEW e \in todo.connect  PROVE CanConnect(e)
  <2>1. ~Idle /\ M = collect_card_ids(target) /\ e \in collect_edges(target)
    BY <1>4, ServedSession DEF InConnect, Fits
  <2> QED
    BY <1>1, <2>1, ServedSession DEF Tidy, CanConnect
<1>5. ASSUME InUpdate, NEW c \in todo.update  PROVE CanUpdate(c)
  <2>1. ~Idle /\ M = collect_card_ids(target) /\ c \in collect_card_ids(target)
    BY <1>5, ServedSession DEF InUpdate, Fits
  <2> QED
    BY <1>1, <2>1 DEF CanUpdate
<1> QED
  BY <1>2, <1>3, <1>4, <1>5 DEF NothingThrows

\* Applying an event keeps every session as it should be.
LEMMA EventSessions ==
  ASSUME CarefulInv, ApplyEvent
  PROVE  \A x \in Session : SessionOK(x)'
<1>0. CardsOK /\ RequestsOK /\ EntriesMatch /\ LinksAreOld
  BY TypeHalves DEF CarefulInv, LinksInv
<1>1. ~Idle /\ StillServing
  BY DEF ApplyEvent, ApplyDetach, ApplyRemove, ApplyAdd, ApplyConnect, ApplyUpdate,
         InDetach, InRemove, InAdd, InConnect, InUpdate
<1>2. PICK s, M, N : s = serving /\ M = Managed(serving) /\ N = Connected(serving)
  OBVIOUS
<1>3. /\ s \in Session /\ s = serving
      /\ M \subseteq Own[s] /\ Tidy(M, N) /\ Reflects(M, N)
      /\ M = (collect_card_ids(target) \ todo.add) \union todo.remove
      /\ N = (collect_edges(target) \ todo.connect) \union todo.detach
      /\ Fits(target, todo) /\ M \in SUBSET Card
      /\ Tidy(collect_card_ids(target), collect_edges(target))
  BY <1>1, <1>2, ServedSession DEF SessionOK
<1>4. collect_card_ids(target) \subseteq Own[s]
  BY <1>1, <1>3 DEF CarefulInv, MapsInScope, InScope
<1>5. /\ Managed(s)' = (collect_card_ids(target) \ todo'.add) \union todo'.remove
      /\ Connected(s)' = (collect_edges(target) \ todo'.connect) \union todo'.detach
  BY <1>1, <1>3 DEF StillServing, Managed, Connected
<1>6. /\ todo \in Events
      /\ \A x \in Session : \A c \in Own[x] : x # s => c \notin Own[s]
  BY <1>0, <1>3, OwnAssumption DEF RequestsOK
\* Another session is not reached by an event on cards of this one.
<1>7. ASSUME NEW x \in Session, x # s,
             \A A, B : /\ A \subseteq Card /\ Tidy(A, B) /\ Reflects(A, B)
                       /\ A \intersect Own[s] = {}
                       => Reflects(A, B)'
      PROVE  SessionOK(x)'
  <2>1. PICK A, B : A = Managed(x) /\ B = Connected(x)
    OBVIOUS
  <2>2. Managed(x)' = A /\ Connected(x)' = B
    BY <1>1, <1>3, <1>7, <2>1 DEF StillServing, Managed, Connected
  <2>3. A \subseteq Own[x] /\ Tidy(A, B) /\ Reflects(A, B)
    BY <2>1, SessionsOK DEF CarefulInv, SessionOK
  <2>4. A \subseteq Card /\ A \intersect Own[s] = {}
    BY <1>3, <1>6, <1>7, <2>3, OwnAssumption
  <2>5. Reflects(A, B)'
    BY <1>7, <2>3, <2>4
  <2> QED
    BY <2>2, <2>3, <2>5, SessionAfter
<1>8. ASSUME NEW e \in todo.detach, ApplyDetach(e)
      PROVE  \A x \in Session : SessionOK(x)'
  <2>1. e \in N /\ e \in Edge /\ card_metadata_detach(e)
    BY <1>3, <1>8 DEF ApplyDetach, Tidy
  <2>2. Managed(s)' = M /\ Connected(s)' = N \ {e}
    BY <1>3, <1>5, <1>6, <1>8 DEF ApplyDetach, Fits, Events
  <2>3. Tidy(M, N \ {e})
    BY <1>3 DEF Tidy
  <2>4. Reflects(M, N \ {e})'
    BY <1>0, <1>3, <2>1, DetachOwn
  <2>5. SessionOK(s)'
    BY <1>3, <2>2, <2>3, <2>4, SessionAfter
  <2>6. e.from \in Own[s] /\ e.to \in Own[s]
    BY <1>3, <2>1 DEF Tidy
  <2>7. ASSUME NEW x \in Session, x # s  PROVE SessionOK(x)'
    <3>1. ASSUME NEW A, NEW B, A \subseteq Card, Tidy(A, B), Reflects(A, B),
                 A \intersect Own[s] = {}
          PROVE  Reflects(A, B)'
      BY <1>0, <2>1, <2>6, <3>1, PairElsewhere
    <3> QED
      BY <1>7, <2>7, <3>1
  <2> QED
    BY <2>5, <2>7
<1>9. ASSUME NEW c \in todo.remove, ApplyRemove(c)
      PROVE  \A x \in Session : SessionOK(x)'
  <2>1. c \in M /\ c \in Card /\ card_metadata_remove(c) /\ c \in Own[s]
    BY <1>3, <1>9 DEF ApplyRemove
  <2>2. Managed(s)' = M \ {c} /\ Connected(s)' = N
    BY <1>3, <1>5, <1>6, <1>9 DEF ApplyRemove, Fits, Events
  <2>3. Tidy(M \ {c}, N)
    <3>1. \A f \in N : f \in collect_edges(target)
      BY <1>3, <1>9 DEF ApplyRemove, InRemove
    <3> QED
      BY <1>3, <1>9, <3>1 DEF Tidy, Fits
  <2>4. Reflects(M \ {c}, N)'
    BY <1>0, <1>3, <2>1, <2>3, RemoveCard
  <2>5. SessionOK(s)'
    BY <1>3, <2>2, <2>3, <2>4, SessionAfter
  <2>6. ASSUME NEW x \in Session, x # s  PROVE SessionOK(x)'
    <3>1. ASSUME NEW A, NEW B, A \subseteq Card, Tidy(A, B), Reflects(A, B),
                 A \intersect Own[s] = {}
          PROVE  Reflects(A, B)'
      <4>1. A \ {c} = A
        BY <2>1, <3>1
      <4> QED
        BY <1>0, <2>1, <3>1, <4>1, RemoveCard
    <3> QED
      BY <1>7, <2>6, <3>1
  <2> QED
    BY <2>5, <2>6
<1>10. ASSUME NEW c \in todo.add, ApplyAdd(c)
       PROVE  \A x \in Session : SessionOK(x)'
  <2>1. /\ c \notin M /\ c \in Card /\ construct_card_metadata(c) /\ c \in Own[s]
        /\ c \in collect_card_ids(target)
    BY <1>3, <1>4, <1>6, <1>10 DEF ApplyAdd, InAdd, Fits, Events
  <2>2. Managed(s)' = M \union {c} /\ Connected(s)' = N
    BY <1>3, <1>5, <1>6, <1>10, <2>1 DEF ApplyAdd, Events
  <2>3. Tidy(M \union {c}, N)
    BY <1>3 DEF Tidy
  <2>4. Reflects(M \union {c}, N)'
    BY <1>0, <1>3, <2>1, AddCard
  <2>5. SessionOK(s)'
    BY <1>3, <2>1, <2>2, <2>3, <2>4, SessionAfter
  <2>6. ASSUME NEW x \in Session, x # s  PROVE SessionOK(x)'
    <3>1. ASSUME NEW A, NEW B, A \subseteq Card, Tidy(A, B), Reflects(A, B),
                 A \intersect Own[s] = {}
          PROVE  Reflects(A, B)'
      BY <1>0, <2>1, <3>1, AddCard
    <3> QED
      BY <1>7, <2>6, <3>1
  <2> QED
    BY <2>5, <2>6
<1>11. ASSUME NEW e \in todo.connect, ApplyConnect(e)
       PROVE  \A x \in Session : SessionOK(x)'
  <2>0. M = collect_card_ids(target) /\ N = collect_edges(target) \ todo.connect
    BY <1>3, <1>11 DEF ApplyConnect, InConnect
  <2>1. e \in collect_edges(target) /\ e \notin N /\ e \in Edge /\ card_metadata_connect(e)
    BY <1>3, <1>11, <2>0 DEF ApplyConnect, Fits, Tidy
  <2>2. Managed(s)' = M /\ Connected(s)' = N \union {e}
    BY <1>3, <1>5, <1>6, <1>11, <2>0, <2>1 DEF ApplyConnect, InConnect, Events
  <2>3. Tidy(M, N \union {e})
    BY <1>3, <2>0, <2>1 DEF Tidy
  <2>4. Reflects(M, N \union {e})'
    BY <1>0, <1>3, <2>1, <2>3, ConnectOwn
  <2>5. SessionOK(s)'
    BY <1>3, <2>2, <2>3, <2>4, SessionAfter
  <2>6. e.from \in Own[s] /\ e.to \in Own[s]
    BY <1>3, <2>3 DEF Tidy
  <2>7. ASSUME NEW x \in Session, x # s  PROVE SessionOK(x)'
    <3>1. ASSUME NEW A, NEW B, A \subseteq Card, Tidy(A, B), Reflects(A, B),
                 A \intersect Own[s] = {}
          PROVE  Reflects(A, B)'
      BY <1>0, <2>1, <2>6, <3>1, PairElsewhere
    <3> QED
      BY <1>7, <2>7, <3>1
  <2> QED
    BY <2>5, <2>7
<1>12. ASSUME NEW c \in todo.update, ApplyUpdate(c)
       PROVE  \A x \in Session : SessionOK(x)'
  <2>1. UNCHANGED <<stored, inc, conn, live>>
    BY <1>12 DEF ApplyUpdate, card_metadata_update
  <2>2. Managed(s)' = M /\ Connected(s)' = N
    BY <1>3, <1>5, <1>6, <1>12 DEF ApplyUpdate, Events
  <2>3. SessionOK(s)'
    BY <1>3, <2>1, <2>2, SameTable, SessionAfter
  <2>4. ASSUME NEW x \in Session, x # s  PROVE SessionOK(x)'
    BY <1>7, <2>1, <2>4, SameTable
  <2> QED
    BY <2>3, <2>4
<1> QED
  BY <1>8, <1>9, <1>10, <1>11, <1>12 DEF ApplyEvent

\* The difference from a well-formed slot map to another fits that one, and
\* leads there from all the cards and edges of the first.
LEMMA DiffFits ==
  ASSUME NEW p, NEW n, WellFormed(p)
  PROVE  LET ev == diff_slot_maps_to_card_api_events(p, n)
         IN  /\ Fits(n, ev)
             /\ (collect_card_ids(n) \ ev.add) \union ev.remove = collect_card_ids(p)
             /\ (collect_edges(n) \ ev.connect) \union ev.detach = collect_edges(p)
<1>1. \A e \in collect_edges(p) : e.from \in collect_card_ids(p) /\ e.to \in collect_card_ids(p)
  BY DEF WellFormed
<1>2. sync_code_slots(p, n) \subseteq collect_card_ids(n)
  BY DEF sync_code_slots
<1> QED
  BY <1>1, <1>2 DEF Fits, diff_slot_maps_to_card_api_events

\* Having nothing to do fits every slot map.
LEMMA NoEventsFit ==
  ASSUME NEW n
  PROVE  /\ Fits(n, NoEvents)
         /\ (collect_card_ids(n) \ NoEvents.add) \union NoEvents.remove = collect_card_ids(n)
         /\ (collect_edges(n) \ NoEvents.connect) \union NoEvents.detach = collect_edges(n)
BY DEF Fits, NoEvents

\* A request that starts from q, the slot map of its session or the empty
\* one, keeps every session as it should be.
LEMMA StartSessions ==
  ASSUME CarefulInv, Idle, NEW s \in Session, NEW n, NEW ev, NEW q,
         Serve(s, n, ev), UNCHANGED cardVars,
         \A x \in Session : x # s => slotMap'[x] = slotMap[x],
         q = slotMap[s] \/ q = EmptyMap,
         (collect_card_ids(n) \ ev.add) \union ev.remove = collect_card_ids(q),
         (collect_edges(n) \ ev.connect) \union ev.detach = collect_edges(q)
  PROVE  \A x \in Session : SessionOK(x)'
<1>0. /\ \A x \in Session : SessionOK(x)
      /\ UNCHANGED <<stored, inc, conn, live>>
      /\ serving = NoSession /\ NoSession \notin Session
      /\ serving' = s /\ target' = n /\ todo' = ev
  BY SessionsOK, CardSyncAssumption DEF CarefulInv, cardVars, Serve, Idle
<1>1. ASSUME NEW x \in Session, x # s  PROVE SessionOK(x)'
  BY <1>0, <1>1, SessionSame
<1>2. PICK M, N : M = collect_card_ids(q) /\ N = collect_edges(q)
  OBVIOUS
<1>3. Managed(s)' = M /\ Connected(s)' = N
  BY <1>0, <1>2 DEF Managed, Connected
<1>4. M \subseteq Own[s] /\ Tidy(M, N) /\ Reflects(M, N)
  <2>1. CASE q = slotMap[s]
    BY <1>0, <1>2, <2>1 DEF SessionOK, Managed, Connected
  <2>2. CASE q = EmptyMap
    BY <1>2, <2>2, EmptyMapDeclares, NothingReflected
  <2> QED
    BY <2>1, <2>2
<1>5. SessionOK(s)'
  BY <1>0, <1>3, <1>4, SameTable, SessionAfter
<1> QED
  BY <1>1, <1>5

\* A request of a careful client: what holds once it has started.
LEMMA RequestStarts ==
  ASSUME CarefulInv, NEW s \in Session, Request(s)
  PROVE  MapsInScope' /\ TodoFits' /\ \A x \in Session : SessionOK(x)'
<1>0. /\ CardsOK /\ RequestsOK
      /\ \A x \in Session : InScope(x, slotMap[x])
      /\ DOMAIN slotMap = Session
  BY TypeHalves DEF CarefulInv, MapsInScope, RequestsOK
<1>1. ASSUME NEW n, NEW ev, Serve(s, n, ev), Fits(n, ev), InScope(s, n),
             \A x \in Session : InScope(x, slotMap'[x])
      PROVE  MapsInScope' /\ TodoFits'
  BY <1>1 DEF Serve, MapsInScope, TodoFits, Idle, InScope, WellFormed, Fits,
              collect_card_ids, collect_edges
<1>2. ASSUME NEW m \in InitialMaps, CarefulOpen(s, m)
      PROVE  MapsInScope' /\ TodoFits' /\ \A x \in Session : SessionOK(x)'
  <2>0. Idle /\ UNCHANGED cardVars /\ InScope(s, m)
    BY <1>2 DEF CarefulOpen, OpenSession
  <2>1. PICK n : n = slotMap'[s]
    OBVIOUS
  <2>2. /\ \A x \in Session : x # s => slotMap'[x] = slotMap[x]
        /\ n = slotMap[s] \/ n = m
        /\ m = EmptyMap => n = slotMap[s] \/ n = EmptyMap
    BY <1>0, <1>2, <2>1 DEF CarefulOpen, OpenSession
  <2>3. InScope(s, n)
    BY <1>0, <2>0, <2>2
  <2>4. \A x \in Session : InScope(x, slotMap'[x])
    BY <1>0, <2>1, <2>2, <2>3
  <2>5. CASE m = EmptyMap
    <3>1. Serve(s, n, NoEvents)
      BY <1>2, <2>1, <2>5 DEF CarefulOpen, OpenSession
    <3>2. MapsInScope' /\ TodoFits'
      BY <1>1, <2>3, <2>4, <3>1, NoEventsFit
    <3>3. \A x \in Session : SessionOK(x)'
      BY <2>0, <2>2, <2>5, <3>1, NoEventsFit, StartSessions
    <3> QED
      BY <3>2, <3>3
  <2>6. CASE m # EmptyMap
    <3>0. PICK ev : ev = diff_slot_maps_to_card_api_events(EmptyMap, n)
      OBVIOUS
    <3>1. Serve(s, n, ev)
      BY <1>2, <2>1, <2>6, <3>0 DEF CarefulOpen, OpenSession
    <3>2. WellFormed(EmptyMap)
      BY EmptyMapInScope DEF InScope
    <3>3. /\ Fits(n, ev)
          /\ (collect_card_ids(n) \ ev.add) \union ev.remove = collect_card_ids(EmptyMap)
          /\ (collect_edges(n) \ ev.connect) \union ev.detach = collect_edges(EmptyMap)
      BY <3>0, <3>2, DiffFits
    <3>4. MapsInScope' /\ TodoFits'
      BY <1>1, <2>3, <2>4, <3>1, <3>3
    <3>5. \A x \in Session : SessionOK(x)'
      BY <2>0, <2>2, <3>1, <3>3, StartSessions
    <3> QED
      BY <3>4, <3>5
  <2> QED
    BY <2>5, <2>6
<1>3. ASSUME NEW d \in Deltas, CarefulPush(s, d)
      PROVE  MapsInScope' /\ TodoFits' /\ \A x \in Session : SessionOK(x)'
  <2>1. PICK n, p, ev : /\ n = apply_cards_delta_to_slot_map(d, slotMap[s])
                        /\ p = slotMap[s]
                        /\ ev = diff_slot_maps_to_card_api_events(p, n)
    OBVIOUS
  <2>2. /\ Idle /\ UNCHANGED <<slotMap, cardVars>> /\ InScope(s, n) /\ Serve(s, n, ev)
    BY <1>3, <2>1 DEF CarefulPush, PushDeltas
  <2>3. WellFormed(p)
    BY <1>0, <2>1 DEF InScope
  <2>4. /\ Fits(n, ev)
        /\ (collect_card_ids(n) \ ev.add) \union ev.remove = collect_card_ids(p)
        /\ (collect_edges(n) \ ev.connect) \union ev.detach = collect_edges(p)
    BY <2>1, <2>3, DiffFits
  <2>5. MapsInScope' /\ TodoFits'
    BY <1>0, <1>1, <2>2, <2>4
  <2>6. UNCHANGED cardVars /\ \A x \in Session : slotMap'[x] = slotMap[x]
    BY <2>2
  <2>7. \A x \in Session : SessionOK(x)'
    BY <2>1, <2>2, <2>4, <2>6, StartSessions
  <2> QED
    BY <2>5, <2>7
<1> QED
  BY <1>2, <1>3 DEF Request

\* Every other step keeps the scope of the slot maps, the fit of the events
\* left and what the sessions have.
LEMMA OtherSteps ==
  ASSUME CarefulInv, OtherStep
  PROVE  MapsInScope' /\ TodoFits' /\ \A x \in Session : SessionOK(x)'
<1>0. /\ CardsOK /\ RequestsOK /\ MapsInScope /\ TodoFits
      /\ \A x \in Session : SessionOK(x)
  BY TypeHalves, SessionsOK DEF CarefulInv
<1>1. ASSUME UNCHANGED <<slotMap, serving, target, todo>>
      PROVE  MapsInScope' /\ TodoFits'
  BY <1>0, <1>1 DEF MapsInScope, TodoFits, Idle, InScope, WellFormed, Fits,
                    collect_card_ids, collect_edges
<1>2. ASSUME UNCHANGED <<slotMap, serving, target, todo, stored, inc, conn, live>>
      PROVE  \A x \in Session : SessionOK(x)'
  BY <1>0, <1>2, SessionSame
<1>3. ASSUME NEW s \in Session, CloseSession(s)
      PROVE  MapsInScope' /\ TodoFits' /\ \A x \in Session : SessionOK(x)'
  <2>0. /\ Idle /\ UNCHANGED <<serving, target, todo, stored, inc, conn, live>>
        /\ slotMap'[s] = EmptyMap
        /\ \A x \in Session : x # s => slotMap'[x] = slotMap[x]
        /\ s # serving
    BY <1>0, <1>3, CardSyncAssumption
       DEF CloseSession, cardVars, requestVars, RequestsOK, Idle
  <2>1. \A x \in Session : InScope(x, slotMap'[x])
    BY <1>0, <2>0, EmptyMapInScope DEF MapsInScope
  <2>2. MapsInScope' /\ TodoFits'
    BY <2>0, <2>1 DEF MapsInScope, TodoFits, Idle, InScope, WellFormed,
                      collect_card_ids, collect_edges
  <2>3. ASSUME NEW x \in Session, x # s  PROVE SessionOK(x)'
    BY <1>0, <2>0, <2>3, SessionSame
  <2>4. Managed(s)' = {} /\ Connected(s)' = {}
    BY <2>0, EmptyMapDeclares DEF Managed, Connected
  <2>5. SessionOK(s)'
    BY <2>4, NothingReflected, SessionAfter
  <2> QED
    BY <2>2, <2>3, <2>5
<1>4. ASSUME NEW s \in Session \union {NoSession}, NEW c \in Card, CardBuild(s, c)
      PROVE  MapsInScope' /\ TodoFits' /\ \A x \in Session : SessionOK(x)'
  <2>1. UNCHANGED <<slotMap, serving, target, todo, stored, inc, conn, live>>
    BY <1>4 DEF CardBuild, BuildCard, cardVars
  <2> QED
    BY <1>1, <1>2, <2>1
<1>5. CASE Flush
  <2>1. UNCHANGED <<slotMap, serving, target, todo, stored, inc, conn, live>>
    BY <1>5 DEF Flush, requestVars
  <2> QED
    BY <1>1, <1>2, <2>1
<1>6. CASE Throw
  BY <1>6, InvNoThrow DEF Throw, NothingThrows
<1>7. CASE Commit
  <2>1. PICK s : s = serving
    OBVIOUS
  <2>2. /\ ~Idle /\ s \in Session /\ s = serving /\ todo = NoEvents
        /\ slotMap'[s] = target
        /\ \A x \in Session : x # s => slotMap'[x] = slotMap[x]
        /\ serving' = NoSession /\ NoSession \notin Session
        /\ UNCHANGED <<stored, inc, conn, live>>
    BY <1>0, <1>7, <2>1, CardSyncAssumption
       DEF Commit, RequestsOK, Idle, cardVars
  <2>3. \A x \in Session : InScope(x, slotMap'[x])
    BY <1>0, <2>2 DEF MapsInScope
  <2>4. MapsInScope' /\ TodoFits'
    BY <2>2, <2>3 DEF MapsInScope, TodoFits, Idle, InScope, WellFormed,
                      collect_card_ids, collect_edges
  <2>5. ASSUME NEW x \in Session, x # s  PROVE SessionOK(x)'
    BY <1>0, <2>2, <2>5, SessionSame
  <2>6. PICK M, N : M = Managed(s) /\ N = Connected(s)
    OBVIOUS
  <2>7. Managed(s)' = M /\ Connected(s)' = N
    BY <2>2, <2>6, NoEventsFit DEF Managed, Connected
  <2>8. SessionOK(s)'
    BY <1>0, <2>2, <2>6, <2>7, SameTable, SessionAfter DEF SessionOK
  <2> QED
    BY <2>4, <2>5, <2>8
<1>8. CASE ApplyEvent
  <2>0. /\ ~Idle /\ StillServing
        /\ todo \in Events /\ todo' \in Events
        /\ todo'.detach \subseteq todo.detach /\ todo'.remove \subseteq todo.remove
        /\ todo'.add \subseteq todo.add /\ todo'.update \subseteq todo.update
        /\ todo'.connect \subseteq todo.connect
        /\ todo'.connect = todo.connect \/ todo.add = {}
    BY <1>0, <1>8
       DEF ApplyEvent, ApplyDetach, ApplyRemove, ApplyAdd, ApplyConnect, ApplyUpdate,
           InDetach, InRemove, InAdd, InConnect, InUpdate, RequestsOK, Events
  <2>1. MapsInScope'
    BY <1>0, <2>0 DEF StillServing, MapsInScope, Idle, InScope, WellFormed,
                      collect_card_ids, collect_edges
  <2>2. Fits(target, todo)
    BY <1>0, <2>0 DEF TodoFits
  <2>3. Fits(target, todo')
    BY <2>0, <2>2 DEF Fits
  <2>4. TodoFits'
    BY <2>0, <2>3 DEF StillServing, TodoFits, Fits, collect_card_ids, collect_edges
  <2>5. \A x \in Session : SessionOK(x)'
    BY <1>8, EventSessions
  <2> QED
    BY <2>1, <2>4, <2>5
<1> QED
  BY <1>3, <1>4, <1>5, <1>6, <1>7, <1>8 DEF OtherStep

\* The invariant holds at the start.
LEMMA InitCareful == Init => CarefulInv
<1> SUFFICES ASSUME Init  PROVE CarefulInv
  OBVIOUS
<1>1. TypeOK /\ UpdatesHaveCode
  <2>1. NoEvents.update = {}
    BY DEF NoEvents
  <2> QED
    BY <2>1, InitType DEF Init, UpdatesHaveCode
<1>2. LinksInv /\ EntriesMatch
  BY DEF Init, LinksInv, LinksStayReachable, LinksAreOld, EntriesMatch
<1>3. Idle
  BY DEF Init, Idle
<1>4. MapsInScope /\ TodoFits
  BY <1>3, EmptyMapInScope DEF Init, MapsInScope, TodoFits
<1>5. ASSUME NEW x \in Session  PROVE SessionOK(x)
  <2>1. Managed(x) = {} /\ Connected(x) = {}
    BY <1>3, EmptyMapDeclares, CardSyncAssumption DEF Init, Idle, Managed, Connected
  <2> QED
    BY <2>1, NothingReflected DEF SessionOK
<1> QED
  BY <1>1, <1>2, <1>4, <1>5, SessionsOK DEF CarefulInv

\* Every careful step keeps the invariant.
LEMMA NextCareful == CarefulInv /\ [CarefulNext]_vars => CarefulInv'
<1> SUFFICES ASSUME CarefulInv, [CarefulNext]_vars  PROVE CarefulInv'
  OBVIOUS
<1>1. TypeOK' /\ UpdatesHaveCode' /\ LinksInv' /\ EntriesMatch'
  BY CarefulNextIsNext, NextType, NextLinks, NextEntriesMatch DEF CarefulInv
<1>2. MapsInScope' /\ TodoFits' /\ \A x \in Session : SessionOK(x)'
  <2>1. CASE \E s \in Session : Request(s)
    BY <2>1, RequestStarts
  <2>2. CASE OtherStep
    BY <2>2, OtherSteps
  <2>3. CASE UNCHANGED vars
    <3>1. \A x \in Session : SessionOK(x)'
      BY <2>3, SessionsOK, SessionSame DEF CarefulInv, vars, cardVars, requestVars
    <3>2. MapsInScope' /\ TodoFits'
      BY <2>3 DEF CarefulInv, vars, requestVars, MapsInScope, TodoFits, Idle, InScope,
                  WellFormed, Fits, collect_card_ids, collect_edges
    <3> QED
      BY <3>1, <3>2
  <2> QED
    BY <2>1, <2>2, <2>3 DEF CarefulNext
<1>3. SessionsTidy' /\ Mirrored'
  BY <1>2 DEF SessionsTidy, Mirrored, SessionOK, Reflects
<1> QED
  BY <1>1, <1>2, <1>3 DEF CarefulInv

\* A step of the clients is one of their kind.  Patient ones are careful too.
LEMMA PatientNextIsCareful == [PatientNext]_vars => [CarefulNext]_vars
BY DEF PatientNext, CarefulNext

LEMMA ClientsAreCareful ==
  /\ Init => (client # "any" => CarefulInv)
  /\ (client # "any" => CarefulInv) /\ [ClientNext /\ UNCHANGED client]_<<vars, client>>
       => (client # "any" => CarefulInv)'
<1>1. ASSUME client # "any" => CarefulInv,
             [ClientNext /\ UNCHANGED client]_<<vars, client>>, client' # "any"
      PROVE  CarefulInv'
  <2>1. client # "any" /\ CarefulInv
    BY <1>1
  <2>2. [CarefulNext]_vars
    BY <1>1, <2>1, PatientNextIsCareful DEF ClientNext
  <2> QED
    BY <2>1, <2>2, NextCareful
<1> QED
  BY <1>1, InitCareful

\* The card table mirrors the slot maps of careful clients.
THEOREM TableMirrorsSlotMaps == ClientSpec => []Mirror
<1>1. (client # "any" => CarefulInv) => Mirror
  BY DEF CarefulInv, Mirror
<1> QED
  BY <1>1, ClientsAreCareful, PTL DEF ClientSpec, ClientInit

\* No request of a careful client ends in an exception.
THEOREM CarefulRequestsSucceed == ClientSpec => []NoRequestThrows
<1>1. (client # "any" => CarefulInv) => NoRequestThrows
  BY InvNoThrow DEF NoRequestThrows
<1> QED
  BY <1>1, ClientsAreCareful, PTL DEF ClientSpec, ClientInit

-----------------------------------------------------------------------------
(* Clients that let the scheduler run between two of their pushes: cards   *)
(* show the code last sent, and builds compile it.                         *)

\* The slot map a session is on, or on its way to, and the cards whose code
\* has still to be written on that way.
InHand(s) == IF s = serving THEN target ELSE slotMap[s]
Left(s)   == IF s = serving THEN todo.update ELSE {}

\* ::this differs from the updater for as long as the scheduler has not run.
Synced == \A c \in Card \ dirty : this[c] = updater[c]

\* The updater of a card holds the code of its session.
CodeWritten(m, P) ==
  \A c \in collect_card_ids(m) \ P : HasCode(m, c) => updater[c] = CodeOf(m, c)
Written == \A s \in Session : CodeWritten(InHand(s), Left(s))

\* A card whose code is compared with ::this is not waiting for the scheduler:
\* this is what patience is for.
Untouched == todo.update \intersect dirty = {}

\* A card that is added gets its code in the same request.
AddedAreUpdated == \A c \in todo.add : HasCode(target, c) => c \in todo.update

Patience   == Synced /\ Written /\ Untouched /\ AddedAreUpdated
PatientInv == CarefulInv /\ Patience

-----------------------------------------------------------------------------

\* Patient clients are careful.
\* What the proofs below use of CarefulInv: the cards of a session are its
\* own, and so are those a request adds, removes or updates.
LEMMA OwnCards ==
  ASSUME CarefulInv
  PROVE  /\ CardsOK /\ RequestsOK
         /\ \A s \in Session : collect_card_ids(InHand(s)) \subseteq Own[s]
         /\ ~Idle => /\ serving \in Session
                     /\ todo.add \union todo.remove \union todo.update \subseteq Own[serving]
                     /\ todo.remove \intersect collect_card_ids(target) = {}
<1>1. CardsOK /\ RequestsOK
  BY TypeHalves DEF CarefulInv
<1>2. \A s \in Session : collect_card_ids(InHand(s)) \subseteq Own[s]
  BY CardSyncAssumption DEF CarefulInv, MapsInScope, InScope, InHand, Idle
<1>3. ASSUME ~Idle
      PROVE  /\ serving \in Session
             /\ todo.add \union todo.remove \union todo.update \subseteq Own[serving]
             /\ todo.remove \intersect collect_card_ids(target) = {}
  <2>1. /\ serving \in Session /\ Fits(target, todo)
        /\ Managed(serving) = (collect_card_ids(target) \ todo.add) \union todo.remove
    BY <1>3, ServedSession
  <2>2. Managed(serving) \subseteq Own[serving]
    BY <2>1 DEF CarefulInv, SessionsTidy
  <2>3. collect_card_ids(target) \subseteq Own[serving]
    BY <1>2, <2>1 DEF InHand
  <2> QED
    BY <2>1, <2>2, <2>3 DEF Fits
<1> QED
  BY <1>1, <1>2, <1>3

\* Writing to the updaters of the cards of one session concerns no other.
LEMMA WrittenElsewhere ==
  ASSUME CarefulInv, Written, NEW s \in Session, NEW x \in Session, x # s,
         NEW C, C \subseteq Own[s],
         InHand(x)' = InHand(x), Left(x)' = Left(x),
         \A c \in Card \ C : updater'[c] = updater[c]
  PROVE  CodeWritten(InHand(x), Left(x))'
<1>1. PICK m, P : m = InHand(x) /\ P = Left(x)
  OBVIOUS
<1>2. CodeWritten(m, P)
  BY <1>1 DEF Written
<1>3. collect_card_ids(m) \subseteq Own[x]
  BY <1>1, OwnCards
<1>4. \A c \in collect_card_ids(m) : c \in Card /\ c \notin C
  BY <1>3, OwnAssumption
<1>5. \A c \in collect_card_ids(m) \ P : HasCode(m, c) => updater'[c] = CodeOf(m, c)
  BY <1>2, <1>4 DEF CodeWritten
<1> QED
  BY <1>1, <1>5 DEF CodeWritten

\* Steps that write to no updater.
LEMMA WrittenSame ==
  ASSUME Written, NEW x \in Session, UNCHANGED updater,
         InHand(x)' = InHand(x), Left(x)' = Left(x)
  PROVE  CodeWritten(InHand(x), Left(x))'
<1>1. PICK m, P : m = InHand(x) /\ P = Left(x)
  OBVIOUS
<1>2. CodeWritten(m, P)
  BY <1>1 DEF Written
<1> QED
  BY <1>1, <1>2 DEF CodeWritten

\* A request starts on a table that has the code of the map it starts from;
\* what differs is to be updated (sync_code_slots).
LEMMA DiffLeavesWritten ==
  ASSUME NEW p, NEW n, CodeWritten(p, {})
  PROVE  LET ev == diff_slot_maps_to_card_api_events(p, n)
         IN  /\ CodeWritten(n, ev.update)
             /\ \A c \in ev.add : HasCode(n, c) => c \in ev.update
<1>1. \A c \in collect_card_ids(n) \ sync_code_slots(p, n) :
        HasCode(n, c) => /\ c \in collect_card_ids(p)
                         /\ HasCode(p, c) /\ CodeOf(p, c) = CodeOf(n, c)
  BY DEF sync_code_slots, HasCode, collect_card_ids
<1>2. CodeWritten(n, sync_code_slots(p, n))
  BY <1>1 DEF CodeWritten
<1>3. \A c \in collect_card_ids(n) \ collect_card_ids(p) :
        HasCode(n, c) => c \in sync_code_slots(p, n)
  BY <1>1
<1> QED
  BY <1>2, <1>3 DEF diff_slot_maps_to_card_api_events

\* The empty map has no code to write.
LEMMA EmptyMapWritten == \A P : CodeWritten(EmptyMap, P)
BY EmptyMapDeclares DEF CodeWritten

-----------------------------------------------------------------------------
(* The invariant is kept.                                                  *)

\* A patient request: the scheduler has run, so nothing it is to update is
\* waiting.
LEMMA RequestKeepsPatience ==
  ASSUME PatientInv, NEW s \in Session, dirty = {}, Request(s)
  PROVE  Patience'
<1>0. /\ Idle /\ serving = NoSession /\ NoSession \notin Session
      /\ UNCHANGED cardVars /\ DOMAIN slotMap = Session
  BY OwnCards, CardSyncAssumption
     DEF PatientInv, Request, CarefulOpen, CarefulPush, OpenSession, PushDeltas,
         Idle, RequestsOK
<1>1. ASSUME NEW p, NEW n, NEW ev, Serve(s, n, ev), CodeWritten(p, {}),
             \/ ev = NoEvents /\ p = n
             \/ ev = diff_slot_maps_to_card_api_events(p, n),
             \A x \in Session : x # s => slotMap'[x] = slotMap[x]
      PROVE  Patience'
  <2>1. serving' = s /\ target' = n /\ todo' = ev /\ UNCHANGED <<updater, this, dirty>>
    BY <1>0, <1>1 DEF Serve, cardVars
  <2>2. CodeWritten(n, ev.update) /\ \A c \in ev.add : HasCode(n, c) => c \in ev.update
    BY <1>1, DiffLeavesWritten DEF NoEvents
  <2>3. Synced' /\ Untouched'
    BY <2>1 DEF PatientInv, Patience, Synced, Untouched
  <2>4. AddedAreUpdated'
    BY <2>1, <2>2 DEF AddedAreUpdated, HasCode
  <2>5. ASSUME NEW x \in Session, x # s  PROVE CodeWritten(InHand(x), Left(x))'
    <3>1. InHand(x)' = InHand(x) /\ Left(x)' = Left(x)
      BY <1>0, <1>1, <2>1, <2>5 DEF InHand, Left
    <3> QED
      BY <2>1, <3>1, WrittenSame DEF PatientInv, Patience
  <2>6. CodeWritten(InHand(s), Left(s))'
    <3>1. InHand(s)' = n /\ Left(s)' = ev.update
      BY <2>1 DEF InHand, Left
    <3> QED
      BY <2>1, <2>2, <3>1 DEF CodeWritten
  <2> QED
    BY <2>3, <2>4, <2>5, <2>6 DEF Patience, Written
<1>2. \A x \in Session : CodeWritten(slotMap[x], {})
  BY <1>0 DEF PatientInv, Patience, Written, InHand, Left
<1>3. ASSUME NEW m \in InitialMaps, CarefulOpen(s, m)  PROVE Patience'
  <2>1. PICK n : n = slotMap'[s]
    OBVIOUS
  <2>2. /\ \A x \in Session : x # s => slotMap'[x] = slotMap[x]
        /\ n = slotMap[s] \/ n = m
    BY <1>0, <1>3, <2>1 DEF CarefulOpen, OpenSession
  <2>3. CASE m = EmptyMap
    <3>1. Serve(s, n, NoEvents) /\ CodeWritten(n, {})
      BY <1>2, <1>3, <2>1, <2>2, <2>3, EmptyMapWritten DEF CarefulOpen, OpenSession
    <3> QED
      BY <1>1, <2>2, <3>1
  <2>4. CASE m # EmptyMap
    <3>1. Serve(s, n, diff_slot_maps_to_card_api_events(EmptyMap, n))
      BY <1>3, <2>1, <2>4 DEF CarefulOpen, OpenSession
    <3> QED
      BY <1>1, <2>2, <3>1, EmptyMapWritten
  <2> QED
    BY <2>3, <2>4
<1>4. ASSUME NEW d \in Deltas, CarefulPush(s, d)  PROVE Patience'
  <2>1. PICK n : n = apply_cards_delta_to_slot_map(d, slotMap[s])
    OBVIOUS
  <2>2. /\ Serve(s, n, diff_slot_maps_to_card_api_events(slotMap[s], n))
        /\ UNCHANGED slotMap
    BY <1>4, <2>1 DEF CarefulPush, PushDeltas
  <2> QED
    BY <1>1, <1>2, <2>2
<1> QED
  BY <1>3, <1>4 DEF Request

\* Applying an event.  Only adding and updating write to the updaters that
\* matter: the one leaves the card's code to be updated, the other writes it.
LEMMA EventKeepsPatience ==
  ASSUME PatientInv, ApplyEvent
  PROVE  Patience'
<1>0. /\ CardsOK /\ RequestsOK /\ ~Idle /\ StillServing
      /\ serving \in Session /\ serving' = serving /\ target' = target
      /\ \A s \in Session : collect_card_ids(InHand(s)) \subseteq Own[s]
      /\ Synced /\ Written /\ Untouched /\ AddedAreUpdated
      /\ CodeWritten(target, todo.update)
  BY OwnCards
     DEF PatientInv, Patience, Written, InHand, Left, ApplyEvent, ApplyDetach, ApplyRemove,
         ApplyAdd, ApplyConnect, ApplyUpdate, InDetach, InRemove, InAdd, InConnect, InUpdate,
         StillServing
<1>1. ASSUME NEW C, C \subseteq Own[serving],
             \A c \in Card \ C : updater'[c] = updater[c],
             CodeWritten(target, todo.update)'
      PROVE  Written'
  <2>1. ASSUME NEW x \in Session, x # serving  PROVE CodeWritten(InHand(x), Left(x))'
    <3>1. InHand(x)' = InHand(x) /\ Left(x)' = Left(x)
      BY <1>0, <2>1 DEF InHand, Left, StillServing
    <3> QED
      BY <1>0, <1>1, <2>1, <3>1, WrittenElsewhere DEF PatientInv
  <2>2. CodeWritten(InHand(serving), Left(serving))'
    BY <1>0, <1>1 DEF InHand, Left
  <2> QED
    BY <1>0, <2>1, <2>2 DEF Written, InHand, Left
<1>2. ASSUME NEW e \in todo.detach, ApplyDetach(e)  PROVE Patience'
  <2>1. UNCHANGED <<updater, this, dirty, todo.add, todo.update>>
    BY <1>2, <1>0 DEF ApplyDetach, card_metadata_detach, RequestsOK, Events
  <2>2. Written'
    BY <1>0, <1>1, <2>1 DEF CodeWritten
  <2> QED
    BY <1>0, <2>1, <2>2 DEF Patience, Synced, Untouched, AddedAreUpdated, HasCode
<1>3. ASSUME NEW c \in todo.remove, ApplyRemove(c)  PROVE Patience'
  <2>0. c \in Card /\ c \in Own[serving] /\ c \notin collect_card_ids(target)
    BY <1>0, <1>3, OwnCards DEF PatientInv, RequestsOK, Events
  <2>1. /\ UNCHANGED <<todo.add, todo.update>>
        /\ updater' = [updater EXCEPT ![c] = Nothing]
        /\ this' = [this EXCEPT ![c] = Nothing]
        /\ dirty' = dirty \ {c}
    BY <1>3, <1>0 DEF ApplyRemove, card_metadata_remove, RequestsOK, Events
  <2>2. Synced'
    BY <1>0, <2>0, <2>1 DEF Synced, CardsOK
  <2>3. CodeWritten(target, todo.update)'
    BY <1>0, <2>0, <2>1 DEF CodeWritten, CardsOK
  <2>4. Written'
    BY <1>0, <1>1, <2>0, <2>1, <2>3 DEF CardsOK
  <2> QED
    BY <1>0, <2>1, <2>2, <2>4 DEF Patience, Untouched, AddedAreUpdated, HasCode
<1>4. ASSUME NEW c \in todo.add, ApplyAdd(c)  PROVE Patience'
  <2>0. c \in Card /\ c \in Own[serving]
    BY <1>0, <1>4, OwnCards DEF PatientInv, RequestsOK, Events
  <2>1. /\ todo'.add = todo.add \ {c} /\ todo'.update = todo.update
        /\ updater' = [updater EXCEPT ![c] = Nothing]
        /\ this' = [Flushed({c}) EXCEPT ![c] = Nothing]
        /\ dirty' = {}
    BY <1>4, <1>0 DEF ApplyAdd, construct_card_metadata, RequestsOK, Events
  <2>2. Synced'
    BY <1>0, <2>0, <2>1 DEF Synced, Flushed, CardsOK
  <2>3. CodeWritten(target, todo.update)'
    BY <1>0, <1>4, <2>0, <2>1 DEF CodeWritten, AddedAreUpdated, CardsOK
  <2>4. Written'
    BY <1>0, <1>1, <2>0, <2>1, <2>3 DEF CardsOK
  <2> QED
    BY <1>0, <2>1, <2>2, <2>4 DEF Patience, Untouched, AddedAreUpdated, HasCode
<1>5. ASSUME NEW e \in todo.connect, ApplyConnect(e)  PROVE Patience'
  <2>1. UNCHANGED <<updater, this, dirty, todo.add, todo.update>>
    BY <1>5, <1>0 DEF ApplyConnect, card_metadata_connect, RequestsOK, Events
  <2>2. Written'
    BY <1>0, <1>1, <2>1 DEF CodeWritten
  <2> QED
    BY <1>0, <2>1, <2>2 DEF Patience, Synced, Untouched, AddedAreUpdated, HasCode
<1>6. ASSUME NEW c \in todo.update, ApplyUpdate(c)  PROVE Patience'
  <2>0. c \in Card /\ c \in Own[serving] /\ c \notin dirty /\ this[c] = updater[c]
    BY <1>0, <1>6, OwnCards DEF PatientInv, RequestsOK, Events, Untouched, Synced
  <2>1. /\ todo'.add = todo.add /\ todo'.update = todo.update \ {c}
        /\ card_metadata_update(c, CodeOf(target, c))
    BY <1>6, <1>0 DEF ApplyUpdate, RequestsOK, Events
  <2>2. /\ updater' = [updater EXCEPT ![c] = CodeOf(target, c)]
        /\ this' = this /\ dirty \subseteq dirty' /\ dirty' \subseteq dirty \union {c}
        /\ c \notin dirty' => this[c] = CodeOf(target, c)
    <3>1. this[c] = CodeOf(target, c) => updater = [updater EXCEPT ![c] = CodeOf(target, c)]
      BY <1>0, <2>0 DEF CardsOK
    <3> QED
      BY <2>1, <3>1 DEF card_metadata_update
  <2>3. Synced'
    BY <1>0, <2>0, <2>2 DEF Synced, CardsOK
  <2>4. CodeWritten(target, todo.update)'
    BY <1>0, <2>0, <2>1, <2>2 DEF CodeWritten, CardsOK
  <2>5. Written'
    BY <1>0, <1>1, <2>0, <2>2, <2>4 DEF CardsOK
  <2>6. todo.add = {}
    BY <1>6 DEF ApplyUpdate, InUpdate
  <2> QED
    BY <1>0, <2>1, <2>2, <2>3, <2>5, <2>6 DEF Patience, Untouched, AddedAreUpdated
<1> QED
  BY <1>2, <1>3, <1>4, <1>5, <1>6 DEF ApplyEvent

\* A build writes the code of its session to a card of that session, and runs
\* the scheduler.
LEMMA BuildKeepsPatience ==
  ASSUME PatientInv, NEW s \in Session \union {NoSession}, NEW c \in Card, CardBuild(s, c)
  PROVE  Patience'
<1>0. /\ CardsOK /\ RequestsOK /\ Idle /\ NoSession \notin Session
      /\ \A x \in Session : collect_card_ids(slotMap[x]) \subseteq Own[x]
      /\ \A x \in Session : CodeWritten(slotMap[x], {})
      /\ Synced /\ todo = NoEvents
      /\ UNCHANGED <<slotMap, serving, target, todo>>
  BY OwnCards, CardSyncAssumption
     DEF PatientInv, Patience, CardBuild, Idle, InHand, Left, Written, RequestsOK
<1>1. ASSUME dirty' \in SUBSET Card, Synced',
             \A x \in Session : \A d \in collect_card_ids(slotMap[x]) :
               HasCode(slotMap[x], d) => updater'[d] = CodeOf(slotMap[x], d)
      PROVE  Patience'
  <2>1. Written'
    BY <1>0, <1>1 DEF Written, CodeWritten, InHand, Left, Idle, HasCode, CodeOf, collect_card_ids
  <2>2. Untouched' /\ AddedAreUpdated'
    BY <1>0 DEF NoEvents, Untouched, AddedAreUpdated
  <2> QED
    BY <1>1, <2>1, <2>2 DEF Patience
<1>2. CASE UNCHANGED cardVars
  BY <1>0, <1>1, <1>2 DEF cardVars, CodeWritten, Synced, CardsOK
<1>3. CASE BuildCard(s, c)
  <2>1. /\ updater' = UpdaterAtBuild(s, c) /\ dirty' = {}
        /\ this' = [d \in Card |-> IF d \in DirtyAtBuild(s, c)
                                   THEN UpdaterAtBuild(s, c)[d] ELSE this[d]]
    BY <1>3 DEF BuildCard
  <2>2. CASE CodeToApply(s, c) /\ CodeOf(slotMap[s], c) # this[c]
    <3>1. /\ updater' = [updater EXCEPT ![c] = CodeOf(slotMap[s], c)]
          /\ DirtyAtBuild(s, c) = dirty \union {c}
      BY <2>1, <2>2 DEF UpdaterAtBuild, DirtyAtBuild
    <3>2. Synced'
      BY <1>0, <2>1, <3>1 DEF Synced, CardsOK
    <3>3. s \in Session /\ c \in collect_card_ids(slotMap[s])
      <4>1. s \in Session /\ <<c, "code">> \in DOMAIN slotMap[s]
        BY <2>2 DEF CodeToApply, HasCode
      <4>2. <<c, "code">>[1] = c
        OBVIOUS
      <4> QED
        BY <4>1, <4>2 DEF collect_card_ids
    <3>4. \A x \in Session : x # s => c \notin collect_card_ids(slotMap[x])
      BY <1>0, <3>3, OwnAssumption
    <3>5. ASSUME NEW x \in Session, NEW d \in collect_card_ids(slotMap[x]),
                 HasCode(slotMap[x], d)
          PROVE  updater'[d] = CodeOf(slotMap[x], d)
      BY <1>0, <3>1, <3>3, <3>4, <3>5, OwnAssumption DEF CodeWritten, CardsOK
    <3> QED
      BY <1>1, <2>1, <3>2, <3>5
  <2>3. CASE ~(CodeToApply(s, c) /\ CodeOf(slotMap[s], c) # this[c])
    <3>1. updater' = updater /\ DirtyAtBuild(s, c) = dirty
      BY <2>1, <2>3 DEF UpdaterAtBuild, DirtyAtBuild
    <3>2. Synced'
      BY <1>0, <2>1, <3>1 DEF Synced, CardsOK
    <3> QED
      BY <1>0, <1>1, <2>1, <3>1, <3>2 DEF CodeWritten
  <2> QED
    BY <2>2, <2>3
<1> QED
  BY <1>2, <1>3 DEF CardBuild

\* The other steps write nothing.
LEMMA OthersKeepPatience ==
  ASSUME PatientInv,
         \/ \E s \in Session : CloseSession(s)
         \/ Commit \/ Throw \/ Flush \/ UNCHANGED vars
  PROVE  Patience'
<1>0. CardsOK /\ RequestsOK /\ Synced /\ Written /\ Untouched /\ AddedAreUpdated
      /\ NoSession \notin Session
  BY OwnCards, CardSyncAssumption DEF PatientInv, Patience
<1>1. ASSUME NEW s \in Session, CloseSession(s)  PROVE Patience'
  <2>1. /\ UNCHANGED <<updater, this, dirty, serving, target, todo>> /\ Idle
        /\ slotMap' = [slotMap EXCEPT ![s] = EmptyMap]
    BY <1>1 DEF CloseSession, cardVars, requestVars
  <2>2. ASSUME NEW x \in Session, x # s  PROVE CodeWritten(InHand(x), Left(x))'
    <3>1. InHand(x)' = InHand(x) /\ Left(x)' = Left(x)
      BY <1>0, <2>1, <2>2 DEF InHand, Left, RequestsOK
    <3> QED
      BY <1>0, <2>1, <3>1, WrittenSame
  <2>3. CodeWritten(InHand(s), Left(s))'
    <3>1. InHand(s)' = EmptyMap
      BY <1>0, <2>1 DEF InHand, Idle, RequestsOK
    <3> QED
      BY <3>1, EmptyMapDeclares DEF CodeWritten
  <2> QED
    BY <1>0, <2>1, <2>2, <2>3 DEF Patience, Synced, Written, Untouched, AddedAreUpdated, HasCode
<1>2. CASE Commit
  <2>1. /\ UNCHANGED <<updater, this, dirty, todo>> /\ todo = NoEvents
        /\ ~Idle /\ serving' = NoSession /\ slotMap' = [slotMap EXCEPT ![serving] = target]
    BY <1>2 DEF Commit, cardVars
  <2>2. ASSUME NEW x \in Session  PROVE CodeWritten(InHand(x), Left(x))'
    <3>1. InHand(x)' = InHand(x) /\ Left(x)' = Left(x)
      BY <1>0, <2>1 DEF InHand, Left, RequestsOK, NoEvents
    <3> QED
      BY <1>0, <2>1, <3>1, WrittenSame
  <2> QED
    BY <1>0, <2>1, <2>2 DEF Patience, Synced, Written, Untouched, AddedAreUpdated, NoEvents
<1>3. CASE Throw
  BY <1>3, InvNoThrow DEF PatientInv, Throw, NothingThrows
<1>4. CASE Flush
  <2>1. /\ UNCHANGED <<slotMap, updater, serving, target, todo>>
        /\ this' = Flushed({}) /\ dirty' = {} /\ Idle
    BY <1>4 DEF Flush, requestVars
  <2>2. Synced'
    BY <1>0, <2>1 DEF Synced, Flushed, CardsOK
  <2>3. ASSUME NEW x \in Session  PROVE CodeWritten(InHand(x), Left(x))'
    <3>1. InHand(x)' = InHand(x) /\ Left(x)' = Left(x)
      BY <2>1 DEF InHand, Left
    <3> QED
      BY <1>0, <2>1, <3>1, WrittenSame
  <2> QED
    BY <1>0, <2>1, <2>2, <2>3 DEF Patience, Written, Untouched, AddedAreUpdated, HasCode
<1>5. CASE UNCHANGED vars
  BY <1>0, <1>5 DEF vars, cardVars, requestVars, Patience, Synced, Written, CodeWritten, InHand,
                    Left, Untouched, AddedAreUpdated, HasCode, CodeOf, collect_card_ids
<1> QED
  BY <1>1, <1>2, <1>3, <1>4, <1>5

\* Every patient step keeps the invariant.
LEMMA NextPatient == PatientInv /\ [PatientNext]_vars => PatientInv'
<1> SUFFICES ASSUME PatientInv, [PatientNext]_vars  PROVE PatientInv'
  OBVIOUS
<1>1. CarefulInv'
  BY PatientNextIsCareful, NextCareful DEF PatientInv
<1>2. Patience'
  BY RequestKeepsPatience, EventKeepsPatience, BuildKeepsPatience, OthersKeepPatience
     DEF PatientNext, OtherStep
<1> QED
  BY <1>1, <1>2 DEF PatientInv

\* The invariant holds at the start: no card has content, no session a map.
LEMMA InitPatient == Init => PatientInv
<1> SUFFICES ASSUME Init  PROVE PatientInv
  OBVIOUS
<1>1. \A s \in Session : InHand(s) = EmptyMap
  BY DEF Init, InHand
<1>2. Written
  BY <1>1, EmptyMapWritten DEF Written
<1>3. Synced /\ Untouched /\ AddedAreUpdated
  BY DEF Init, Synced, Untouched, AddedAreUpdated, NoEvents
<1> QED
  BY <1>2, <1>3, InitCareful DEF PatientInv, Patience

-----------------------------------------------------------------------------

LEMMA ClientsArePatient ==
  /\ Init => (client = "patient" => PatientInv)
  /\ (client = "patient" => PatientInv) /\ [ClientNext /\ UNCHANGED client]_<<vars, client>>
       => (client = "patient" => PatientInv)'
<1>1. ASSUME client = "patient" => PatientInv,
             [ClientNext /\ UNCHANGED client]_<<vars, client>>, client' = "patient"
      PROVE  PatientInv'
  <2>1. client = "patient" /\ PatientInv
    BY <1>1
  <2>2. [PatientNext]_vars
    BY <1>1, <2>1 DEF ClientNext
  <2> QED
    BY <2>1, <2>2, NextPatient
<1> QED
  BY <1>1, InitPatient

\* Once the scheduler has run, a card shows the code its client last sent.
THEOREM PatientCardsShowTheirCode == ClientSpec => []CardsShowTheirCode
<1>1. PatientInv => CodeIsShown
  <2> SUFFICES ASSUME PatientInv, NEW s \in Session \ {serving},
                      NEW c \in collect_card_ids(slotMap[s]) \ dirty, HasCode(slotMap[s], c)
               PROVE  this[c] = CodeOf(slotMap[s], c)
    BY DEF CodeIsShown
  <2>1. InHand(s) = slotMap[s] /\ Left(s) = {}
    BY DEF InHand, Left
  <2>2. c \in Card
    BY <2>1, OwnCards, OwnAssumption DEF PatientInv
  <2>3. updater[c] = CodeOf(slotMap[s], c)
    BY <2>1 DEF PatientInv, Patience, Written, CodeWritten
  <2> QED
    BY <2>2, <2>3 DEF PatientInv, Patience, Synced
<1>2. (client = "patient" => PatientInv) => CardsShowTheirCode
  BY <1>1 DEF CardsShowTheirCode
<1> QED
  BY <1>2, ClientsArePatient, PTL DEF ClientSpec, ClientInit

\* A build compiles the code in the session's slot map, not an older one.
THEOREM PatientBuildsSeeCode == ClientSpec => PatientBuilds
<1>1. ASSUME PatientInv, NEW s \in Session, NEW c \in Card,
             CardBuild(s, c), reply' = "ok", CodeToApply(s, c), CodeOf(slotMap[s], c) \in Source
      PROVE  compiled'[c] = CodeOf(slotMap[s], c)
  <2>1. /\ CardsOK /\ Synced
        /\ CodeWritten(slotMap[s], {})
    BY <1>1, OwnCards, CardSyncAssumption
       DEF PatientInv, Patience, CardBuild, Idle, Written, InHand, Left
  <2>2. BuildCard(s, c)
    BY <1>1 DEF CardBuild
  <2>3. updater[c] = CodeOf(slotMap[s], c)
    <3>1. <<c, "code">> \in DOMAIN slotMap[s] /\ <<c, "code">>[1] = c
      BY <1>1 DEF CodeToApply, HasCode
    <3> QED
      BY <2>1, <3>1 DEF CodeWritten, collect_card_ids, HasCode
  <2>4. this'[c] = CodeOf(slotMap[s], c)
    BY <1>1, <2>1, <2>2, <2>3 DEF BuildCard, UpdaterAtBuild, DirtyAtBuild, CardsOK
  <2>5. compiled' = [compiled EXCEPT ![c] = IF this'[c] \in Source THEN this'[c] ELSE Nothing]
    BY <2>2 DEF BuildCard
  <2> QED
    BY <1>1, <2>1, <2>4, <2>5 DEF CardsOK
<1>2. (client = "patient" => PatientInv)
        => [client = "patient" => CompilesTheCodeSent]_vars
  BY <1>1 DEF CompilesTheCodeSent
<1> QED
  BY <1>2, ClientsArePatient, PTL DEF ClientSpec, ClientInit, PatientBuilds
=============================================================================
