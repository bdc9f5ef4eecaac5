--------------------------- MODULE CarefulClient ----------------------------
(***************************************************************************)
(* CardSync driven by clients of one kind or another.  Some say anything.  *)
(* Careful ones respect what the server takes for granted and never        *)
(* checks: each session describes cards of its own, and every slot map it  *)
(* reaches is well formed.  For them the card table is a mirror of the     *)
(* slot maps.  Patient ones also let the scheduler run between two pushes. *)
(***************************************************************************)
EXTENDS CardSync

CONSTANTS
  Own,        \* the cards each session describes
  Clients,    \* the kinds of clients there may be
  Anything    \* the deltas that clients send who say anything

ASSUME OwnAssumption ==
  /\ Own \in [Session -> SUBSET Card]
  /\ \A s, t \in Session : s # t => Own[s] \intersect Own[t] = {}

ASSUME ClientsAssumption ==
  Clients \subseteq {"any", "careful", "patient"} /\ Anything \subseteq Deltas

VARIABLE client    \* the kind they are

InScope(s, m) == WellFormed(m) /\ collect_card_ids(m) \subseteq Own[s]

CarefulOpen(s, m) == InScope(s, m) /\ OpenSession(s, m)

CarefulPush(s, d) ==
  /\ InScope(s, apply_cards_delta_to_slot_map(d, slotMap[s]))
  /\ PushDeltas(s, d)

Request(s) ==
  \/ \E m \in InitialMaps : CarefulOpen(s, m)
  \/ \E d \in Deltas : CarefulPush(s, d)

\* Everything that is not a slot map coming in.
OtherStep ==
  \/ \E s \in Session : CloseSession(s)
  \/ \E s \in Session \union {NoSession}, c \in Card : CardBuild(s, c)
  \/ ApplyEvent
  \/ Commit
  \/ Throw
  \/ Flush

AnyRequest(s) ==
  \/ \E m \in InitialMaps : OpenSession(s, m)
  \/ \E d \in Anything : PushDeltas(s, d)

AnyNext     == (\E s \in Session : AnyRequest(s)) \/ OtherStep
CarefulNext == (\E s \in Session : Request(s)) \/ OtherStep
PatientNext == (\E s \in Session : dirty = {} /\ Request(s)) \/ OtherStep

ClientNext ==
  \/ client = "any" /\ AnyNext
  \/ client = "careful" /\ CarefulNext
  \/ client = "patient" /\ PatientNext

\* Clients do not change their kind.
ClientInit == Init /\ client \in Clients
ClientSpec == ClientInit /\ [][ClientNext /\ UNCHANGED client]_<<vars, client>>
-----------------------------------------------------------------------------
(* The cards and connections a session has in the card table right now.    *)
(* While it is being served these are on their way from the old slot map   *)
(* to the target; cards still to be added are not its own yet.             *)

Managed(s) ==
  IF s = serving THEN (collect_card_ids(target) \ todo.add) \union todo.remove
  ELSE collect_card_ids(slotMap[s])

Connected(s) ==
  IF s = serving THEN (collect_edges(target) \ todo.connect) \union todo.detach
  ELSE collect_edges(slotMap[s])

Mirrored ==
  \A s \in Session :
    /\ Managed(s) \subseteq stored
    /\ { l \in live : \E c \in Managed(s) : Touches(l, c) }
         = { LinkOf(e) : e \in Connected(s) }
    /\ \A e \in Connected(s) :
         conn[e.from][e.to] = LinkOf(e) /\ conn[e.to][e.from] = LinkOf(e)

NothingThrows ==
  ~ \/ InDetach  /\ \E e \in todo.detach  : ~CanDetach(e)
    \/ InRemove  /\ \E c \in todo.remove  : ~CanRemove(c)
    \/ InConnect /\ \E e \in todo.connect : ~CanConnect(e)
    \/ InUpdate  /\ \E c \in todo.update  : ~CanUpdate(c)

CodeIsShown ==
  \A s \in Session \ {serving} : \A c \in collect_card_ids(slotMap[s]) \ dirty :
    HasCode(slotMap[s], c) => this[c] = CodeOf(slotMap[s], c)

CompilesTheCodeSent ==
  \A s \in Session, c \in Card :
    CardBuild(s, c) /\ reply' = "ok" /\ CodeToApply(s, c)
      /\ CodeOf(slotMap[s], c) \in Source
      => compiled'[c] = CodeOf(slotMap[s], c)

-----------------------------------------------------------------------------
(* Properties.                                                             *)

\* A careful client's cards are all in the table, and the links that reach them
\* are exactly the connections its slot map declares, each in both tables
\* (diff_slot_maps_to_card_api_events and apply_card_api_events_io).
Mirror == client # "any" => Mirrored

\* No request of a careful client ends in an exception half-way
\* (apply_card_api_events_io, card_metadata_detach, card_metadata_connect).
NoRequestThrows == client # "any" => NothingThrows

\* Once the scheduler has run, a card shows the code its patient client last
\* sent (card_metadata_update compares with ::this, which lags the updater).
CardsShowTheirCode == client = "patient" => CodeIsShown

\* A build compiles the code in the slot map of a patient client, not an older
\* one (card_build_apply_io writes it to ::this before build_card).
PatientBuilds == [][client = "patient" => CompilesTheCodeSent]_vars

\* "Apply code to ::this before build so compile_card_internal_code sees current
\* content" (src/grpc/connect_server.ts:280), whoever the client is: a build
\* compiles the code in the session's slot map.
BuildSeesCode == [][CompilesTheCodeSent]_vars
=============================================================================
