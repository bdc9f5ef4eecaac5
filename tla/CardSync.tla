------------------------------ MODULE CardSync ------------------------------
(***************************************************************************)
(* The card table of the Connect server and the requests that change it.   *)
(*                                                                         *)
(* OpenSession, PushDeltas and CardBuild run on one JavaScript thread, each *)
(* from its first line to its reply without an await, so a request owns    *)
(* the table while it is served: `serving' is the session being served and *)
(* `todo' the card events it still has to apply, in the order             *)
(*   detach, remove, add, connect, update.                                 *)
(* An event that throws ends the request with an error.  Nothing is rolled *)
(* back: the events applied so far stay applied, and the slot map of the   *)
(* session is not advanced.                                                *)
(*                                                                         *)
(* Between requests the scheduler's 10 ms timer flushes the propagators,   *)
(* which is when a value written to a card's updater reaches its ::this.   *)
(***************************************************************************)
EXTENDS SlotMaps

CONSTANTS
  Session,        \* session ids
  NoSession,      \* no request is being served / the empty session id
  Text,           \* values that are strings
  Source,         \* strings that are not blank: what a card can be compiled from
  Nothing,        \* the_nothing, the content of a fresh cell
  NoLink,         \* no entry in connector_links
  Deltas,         \* the deltas clients push
  InitialMaps,    \* the initial slot maps clients open a session with
  MaxRequests     \* bound on the requests served

\* A link joins two instances of card metadata, named by their cards' inc.
Link == [edge : Edge, from_inc : Nat, to_inc : Nat]

ASSUME CardSyncAssumption ==
  /\ Source \subseteq Text /\ Text \subseteq Value
  /\ Nothing \notin Value
  /\ NoSession \notin Session
  /\ NoLink \notin Link
  /\ \A d \in Deltas : IsDelta(d)
  /\ \A m \in InitialMaps : IsSlotMap(m)
  /\ MaxRequests \in Nat

VARIABLES
  open,       \* sessions with an entry in the session store
  slotMap,    \* SessionState.slotMap of each session
  stored,     \* cards with an entry in card_metadata_storage
  inc,        \* how often metadata was constructed for a card: names the instance
  conn,       \* connector_links: conn[a][b] is the link a keeps under "a->b"
  live,       \* links whose cells still point at the two cards' slots
  updater,    \* latest value written to the card's updater cell
  this,       \* base value of the card's ::this cell
  dirty,      \* cards whose updater has a write the scheduler has not run yet
  compiled,   \* source the card's compiled network was built from
  serving, target, todo,   \* the request being served
  reply,      \* how the last request ended
  requests    \* requests served so far

cardVars    == <<stored, inc, conn, live, updater, this, dirty, compiled>>
requestVars == <<serving, target, todo, reply, requests>>
vars        == <<open, slotMap, cardVars, requestVars>>

LinkOf(e) == [edge |-> e, from_inc |-> inc[e.from], to_inc |-> inc[e.to]]

\* The link reaches into the metadata now stored (or last stored) for c.
Touches(l, c) ==
  \/ l.edge.from = c /\ l.from_inc = inc[c]
  \/ l.edge.to = c /\ l.to_inc = inc[c]

Idle == serving = NoSession

Init ==
  /\ open     = {}
  /\ slotMap  = [s \in Session |-> EmptyMap]
  /\ stored   = {}
  /\ inc      = [c \in Card |-> 0]
  /\ conn     = [a \in Card |-> [b \in Card |-> NoLink]]
  /\ live     = {}
  /\ updater  = [c \in Card |-> Nothing]
  /\ this     = [c \in Card |-> Nothing]
  /\ dirty    = {}
  /\ compiled = [c \in Card |-> Nothing]
  /\ serving  = NoSession
  /\ target   = EmptyMap
  /\ todo     = NoEvents
  /\ reply    = "none"
  /\ requests = 0

-----------------------------------------------------------------------------
(* The card table (src/grpc/card/card_metadata.ts).                        *)

\* What ::this holds once the scheduler has run, leaving out the cards in C.
Flushed(C) == [c \in Card |-> IF c \in dirty \ C THEN updater[c] ELSE this[c]]

\* guarantee_get_card_metadata throws for a card that is not stored, and
\* detach throws when the first card has no link to the second.
CanDetach(e)  == {e.from, e.to} \subseteq stored /\ conn[e.from][e.to] # NoLink
CanRemove(c)  == c \in stored
CanConnect(e) == {e.from, e.to} \subseteq stored
CanUpdate(c)  == c \in stored

\* The two entries of a pair, both set to l.
Paired(a, b, l) == [conn EXCEPT ![a][b] = l, ![b][a] = l]

card_metadata_detach(e) ==
  /\ live' = live \ {conn[e.from][e.to]}
  /\ conn' = Paired(e.from, e.to, NoLink)
  /\ UNCHANGED <<stored, inc, updater, this, dirty, compiled>>

\* All links in the card's own table are cut.  The entries its neighbours
\* keep for it stay behind.
card_metadata_remove(c) ==
  /\ live'     = live \ { conn[c][b] : b \in Card }
  /\ conn'     = [conn EXCEPT ![c] = [b \in Card |-> NoLink]]
  /\ stored'   = stored \ {c}
  /\ updater'  = [updater EXCEPT ![c] = Nothing]
  /\ this'     = [this EXCEPT ![c] = Nothing]
  /\ compiled' = [compiled EXCEPT ![c] = Nothing]
  /\ dirty'    = dirty \ {c}
  /\ UNCHANGED inc

\* A new instance replaces whatever was stored under the id, whose links and
\* propagators nobody disposes.  Constructing it runs the scheduler.
construct_card_metadata(c) ==
  /\ stored'   = stored \union {c}
  /\ inc'      = [inc EXCEPT ![c] = @ + 1]
  /\ conn'     = [conn EXCEPT ![c] = [b \in Card |-> NoLink]]
  /\ updater'  = [updater EXCEPT ![c] = Nothing]
  /\ this'     = [Flushed({c}) EXCEPT ![c] = Nothing]
  /\ compiled' = [compiled EXCEPT ![c] = Nothing]
  /\ dirty'    = {}
  /\ UNCHANGED live

\* Faulty variant: only the first card records the link.
connect_one_sided(e) ==
  /\ live' = (live \ {conn[e.from][e.to]}) \union {LinkOf(e)}
  /\ conn' = [conn EXCEPT ![e.from][e.to] = LinkOf(e)]
  /\ UNCHANGED <<stored, inc, updater, this, dirty, compiled>>

\* A previous link of the pair is cut first, whichever slots it joined.
card_metadata_connect(e) ==
  /\ live' = (live \ {conn[e.from][e.to]}) \union {LinkOf(e)}
  /\ conn' = Paired(e.from, e.to, LinkOf(e))
  /\ UNCHANGED <<stored, inc, updater, this, dirty, compiled>>

\* The new value is compared with ::this, not with the updater.
card_metadata_update(c, v) ==
  /\ updater' = IF this[c] = v THEN updater ELSE [updater EXCEPT ![c] = v]
  /\ dirty'   = IF this[c] = v THEN dirty ELSE dirty \union {c}
  /\ UNCHANGED <<stored, inc, conn, live, this, compiled>>

-----------------------------------------------------------------------------
(* A request starts.                                                       *)

Serve(s, next, events) ==
  /\ serving'  = s
  /\ target'   = next
  /\ todo'     = events
  /\ reply'    = "none"
  /\ requests' = requests + 1

\* OpenSession with an initial map.  A session that exists keeps its own slot
\* map and applies that one again; one opened with an empty map applies none.
OpenSession(s, m) ==
  /\ Idle /\ requests < MaxRequests
  /\ open' = open \union {s}
  /\ slotMap' = IF s \in open THEN slotMap ELSE [slotMap EXCEPT ![s] = m]
  /\ LET map == slotMap'[s]
     IN  Serve(s, map, IF m = EmptyMap THEN NoEvents
                       ELSE diff_slot_maps_to_card_api_events(EmptyMap, map))
  /\ UNCHANGED cardVars

\* PushDeltas; a session that does not exist is created with an empty map.
PushDeltas(s, d) ==
  /\ Idle /\ requests < MaxRequests
  /\ open' = open \union {s}
  /\ LET next == apply_cards_delta_to_slot_map(d, slotMap[s])
     IN  Serve(s, next, diff_slot_maps_to_card_api_events(slotMap[s], next))
  /\ UNCHANGED <<slotMap, cardVars>>

\* The stream of the session ends: remove_session.  The cards stay.
CloseSession(s) ==
  /\ Idle /\ s \in open
  /\ open' = open \ {s}
  /\ slotMap' = [slotMap EXCEPT ![s] = EmptyMap]
  /\ UNCHANGED <<cardVars, requestVars>>

-----------------------------------------------------------------------------
(* apply_card_api_events_io: one event at a time, kind after kind.         *)

\* Faulty variant: a card is removed before it is detached.
RemoveBeforeDetach == ~Idle /\ todo.remove # {}

InDetach  == ~Idle /\ todo.detach # {}
InRemove  == ~Idle /\ todo.detach = {} /\ todo.remove # {}
InAdd     == ~Idle /\ todo.detach = {} /\ todo.remove = {} /\ todo.add # {}
InConnect == ~Idle /\ todo.detach = {} /\ todo.remove = {} /\ todo.add = {}
             /\ todo.connect # {}
InUpdate  == ~Idle /\ todo.detach = {} /\ todo.remove = {} /\ todo.add = {}
             /\ todo.connect = {} /\ todo.update # {}

StillServing == UNCHANGED <<open, slotMap, serving, target, reply, requests>>

ApplyDetach(e) ==
  /\ InDetach /\ e \in todo.detach /\ CanDetach(e)
  /\ card_metadata_detach(e)
  /\ todo' = [todo EXCEPT !.detach = @ \ {e}]
  /\ StillServing

ApplyRemove(c) ==
  /\ InRemove /\ c \in todo.remove /\ CanRemove(c)
  /\ card_metadata_remove(c)
  /\ todo' = [todo EXCEPT !.remove = @ \ {c}]
  /\ StillServing

\* Added cards are sorted by id.
ApplyAdd(c) ==
  /\ InAdd /\ c \in todo.add
  /\ \A d \in todo.add : c <= d
  /\ construct_card_metadata(c)
  /\ todo' = [todo EXCEPT !.add = @ \ {c}]
  /\ StillServing

ApplyConnect(e) ==
  /\ InConnect /\ e \in todo.connect /\ CanConnect(e)
  /\ card_metadata_connect(e)
  /\ todo' = [todo EXCEPT !.connect = @ \ {e}]
  /\ StillServing

ApplyUpdate(c) ==
  /\ InUpdate /\ c \in todo.update /\ CanUpdate(c)
  /\ card_metadata_update(c, CodeOf(target, c))
  /\ todo' = [todo EXCEPT !.update = @ \ {c}]
  /\ StillServing

\* All events applied: the slot map advances and the request is answered.
Commit ==
  /\ ~Idle /\ todo = NoEvents
  /\ slotMap' = [slotMap EXCEPT ![serving] = target]
  /\ serving' = NoSession
  /\ target'  = EmptyMap
  /\ reply'   = "ok"
  /\ UNCHANGED <<open, cardVars, todo, requests>>

\* The next event cannot be applied: its exception ends the request.
Throw ==
  /\ \/ InDetach  /\ \E e \in todo.detach  : ~CanDetach(e)
     \/ InRemove  /\ \E c \in todo.remove  : ~CanRemove(c)
     \/ InConnect /\ \E e \in todo.connect : ~CanConnect(e)
     \/ InUpdate  /\ \E c \in todo.update  : ~CanUpdate(c)
  /\ serving' = NoSession
  /\ target'  = EmptyMap
  /\ todo'    = NoEvents
  /\ reply'   = "error"
  /\ UNCHANGED <<open, slotMap, cardVars, requests>>

-----------------------------------------------------------------------------
(* CardBuild, with or without a session id.                                *)

Unanswered(s) == s # NoSession /\ s \notin open

\* The session's code slot, when it holds a string, is written to the card
\* before the build; the build ends with a scheduler run.
CodeToApply(s, c) ==
  s # NoSession /\ HasCode(slotMap[s], c) /\ CodeOf(slotMap[s], c) \in Text

UpdaterAtBuild(s, c) ==
  IF CodeToApply(s, c) /\ CodeOf(slotMap[s], c) # this[c]
  THEN [updater EXCEPT ![c] = CodeOf(slotMap[s], c)] ELSE updater
DirtyAtBuild(s, c) ==
  IF CodeToApply(s, c) /\ CodeOf(slotMap[s], c) # this[c]
  THEN dirty \union {c} ELSE dirty

\* Faulty variants: the card is compiled from whatever content it has; from
\* the content it had before the scheduler ran.
BuildFromAnything(s, c) ==
  /\ updater'  = UpdaterAtBuild(s, c)
  /\ this'     = [d \in Card |-> IF d \in DirtyAtBuild(s, c)
                                 THEN UpdaterAtBuild(s, c)[d] ELSE this[d]]
  /\ dirty'    = {}
  /\ compiled' = [compiled EXCEPT ![c] = this'[c]]
  /\ reply'    = "ok"
  /\ UNCHANGED <<stored, inc, conn, live>>
BuildFromOldContent(s, c) ==
  /\ updater'  = UpdaterAtBuild(s, c)
  /\ this'     = [d \in Card |-> IF d \in DirtyAtBuild(s, c)
                                 THEN UpdaterAtBuild(s, c)[d] ELSE this[d]]
  /\ dirty'    = {}
  /\ compiled' = [compiled EXCEPT ![c] = IF this[c] \in Source THEN this[c] ELSE Nothing]
  /\ reply'    = "ok"
  /\ UNCHANGED <<stored, inc, conn, live>>

\* Code is pushed through the updater only: what compiled networks and linked
\* neighbours write into ::this is left out here (CardOutput has it).
BuildCard(s, c) ==
  /\ updater'  = UpdaterAtBuild(s, c)
  /\ this'     = [d \in Card |-> IF d \in DirtyAtBuild(s, c)
                                 THEN UpdaterAtBuild(s, c)[d] ELSE this[d]]
  /\ dirty'    = {}
  /\ compiled' = [compiled EXCEPT ![c] = IF this'[c] \in Source THEN this'[c] ELSE Nothing]
  /\ reply'    = "ok"
  /\ UNCHANGED <<stored, inc, conn, live>>

CardBuild(s, c) ==
  /\ Idle /\ requests < MaxRequests
  /\ requests' = requests + 1
  /\ \/ Unanswered(s) /\ reply' = "refused" /\ UNCHANGED cardVars
     \/ ~Unanswered(s) /\ c \notin stored /\ reply' = "error" /\ UNCHANGED cardVars
     \/ ~Unanswered(s) /\ c \in stored /\ BuildCard(s, c)
  /\ UNCHANGED <<open, slotMap, serving, target, todo>>

\* The periodic scheduler flush (compiler/init.ts).
Flush ==
  /\ Idle /\ dirty # {}
  /\ this'  = Flushed({})
  /\ dirty' = {}
  /\ UNCHANGED <<open, slotMap, stored, inc, conn, live, updater, compiled, requestVars>>

-----------------------------------------------------------------------------
ApplyEvent ==
  \/ \E e \in todo.detach  : ApplyDetach(e)
  \/ \E c \in todo.remove  : ApplyRemove(c)
  \/ \E c \in todo.add     : ApplyAdd(c)
  \/ \E e \in todo.connect : ApplyConnect(e)
  \/ \E c \in todo.update  : ApplyUpdate(c)

Next ==
  \/ \E s \in Session, m \in InitialMaps : OpenSession(s, m)
  \/ \E s \in Session, d \in Deltas : PushDeltas(s, d)
  \/ \E s \in Session : CloseSession(s)
  \/ \E s \in Session \union {NoSession}, c \in Card : CardBuild(s, c)
  \/ ApplyEvent
  \/ Commit
  \/ Throw
  \/ Flush

Spec == Init /\ [][Next]_vars
-----------------------------------------------------------------------------
(* Properties.                                                             *)

\* Every part of the state has its type; an idle server has nothing to do.
TypeOK ==
  /\ open \subseteq Session
  /\ DOMAIN slotMap = Session /\ \A s \in Session : IsSlotMap(slotMap[s])
  /\ stored \subseteq Card
  /\ inc \in [Card -> Nat]
  /\ conn \in [Card -> [Card -> Link \union {NoLink}]]
  /\ live \subseteq Link
  /\ updater \in [Card -> Value \union {Nothing}]
  /\ this \in [Card -> Value \union {Nothing}]
  /\ dirty \subseteq Card
  /\ compiled \in [Card -> Source \union {Nothing}]
  /\ serving \in Session \union {NoSession}
  /\ IsSlotMap(target)
  /\ todo \in Events
  /\ Idle => todo = NoEvents
  /\ reply \in {"none", "ok", "error", "refused"}
  /\ requests \in 0..MaxRequests

Current(l) ==
  l.from_inc = inc[l.edge.from] /\ l.to_inc = inc[l.edge.to]

\* Whatever clients push and wherever a request fails: a link that still
\* joins two current cards belongs to stored cards and is found in the tables
\* of both, so that detaching or removing either end cuts it
\* (card_metadata_connect / _detach / _remove keep the two tables paired).
LinksStayReachable ==
  \A l \in live : Current(l) =>
    /\ {l.edge.from, l.edge.to} \subseteq stored
    /\ conn[l.edge.from][l.edge.to] = l
    /\ conn[l.edge.to][l.edge.from] = l
=============================================================================
