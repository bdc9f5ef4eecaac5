----------------------------- MODULE CardOutput -----------------------------
(***************************************************************************)
(* What the streams are told of the cards.  A value that a client sends in *)
(* a code slot is decoded (codec/decode.ts), written to the card's updater *)
(* and, when the scheduler next runs, is the content of its ::this; every  *)
(* change of ::this, whoever made it, is emitted to all streams that are   *)
(* subscribed (card/schema.ts, bridge/card_runtime_events.ts) and encoded  *)
(* for the wire (codec/session_encode.ts).  Values that a compiled card    *)
(* computes are emitted in the same way.                                   *)
(*                                                                         *)
(* Slot maps have code slots only; the table's links are in CardSync, the  *)
(* queues between what is pushed to a stream and the client in             *)
(* SessionStream.  A string is its sequence of tokens where it is parsed.  *)
(***************************************************************************)
EXTENDS Naturals, Sequences, FiniteSets

CONSTANTS
  Card, Name,     \* cards, and the tokens of their ids
  Session,
  Sent, Computed, \* what clients put in a code slot, and what cards compute
  Numerals, Blank, \* texts that read as numbers, texts of white space
  MaxRequests,    \* bound
  None

-----------------------------------------------------------------------------
(* The wire.                                                               *)

Text(t)    == [kind |-> "text", of |-> t]
Number(t)  == [kind |-> "number", of |-> t]
Bool(b)    == [kind |-> "boolean", of |-> b]
Layered(b) == [kind |-> "layered", base |-> b]
GraphOf(ns, es) == [kind |-> "graph", nodes |-> ns, edges |-> es]
Undefined  == [kind |-> "undefined"]
Nothing    == [kind |-> "nothing"]
NoBytes    == [kind |-> "no bytes"]

Literal(v) == IF v = Text("#t") THEN Bool(TRUE) ELSE IF v = Text("#f") THEN Bool(FALSE) ELSE v

\* A base is only looked at for the two literals, a text for numbers, too.
normalize_decoded_value(v) ==
  CASE v.kind = "layered" -> [v EXCEPT !.base = Literal(@)]
    [] v.kind = "text" /\ v.of \in Numerals -> Number(v.of)
    [] OTHER -> Literal(v)

decode_card_ref_value(bytes) == IF bytes = NoBytes THEN Undefined ELSE normalize_decoded_value(bytes)

to_compile_request_data(data) == [k \in DOMAIN data |-> decode_card_ref_value(data[k])]

to_cards_delta_data(delta) ==
  [slots |-> to_compile_request_data(delta.slots), remove |-> delta.remove]

\* A node without a label is labelled with its id.
graphology_graph_to_graph_data(g) ==
  [kind  |-> "graph data", links |-> g.edges,
   nodes |-> {[id |-> n, label |-> IF g.nodes[n] = None THEN n ELSE g.nodes[n]] : n \in DOMAIN g.nodes}]

Json(v) == CASE v.kind = "graph" -> graphology_graph_to_graph_data(v)
             [] v.kind = "undefined" -> NoBytes
             [] OTHER -> v

encode_value(v) == IF v.kind = "layered" THEN Layered(Json(v.base)) ELSE Json(v)

StartsSlot(token) == token \in {"::this", "::left", "::right", "::above", "::below"}
key_to_card_and_slot(key) ==
  LET starts == {i \in DOMAIN key : StartsSlot(key[i])}
      first  == CHOOSE i \in starts : \A j \in starts : i <= j
  IN  IF key # <<>> /\ key[Len(key)] = "code"
      THEN [card_id |-> SubSeq(key, 1, Len(key) - 1), slot |-> <<"code">>]
      ELSE IF starts = {} THEN [card_id |-> key, slot |-> <<>>]
      ELSE [card_id |-> SubSeq(key, 1, first - 1), slot |-> SubSeq(key, first, Len(key))]

\* to_card_update_message: the client files what it is told under card and slot.
to_card_update_message(key, value) ==
  LET k == key_to_card_and_slot(key)
  IN  [card_id |-> k.card_id, slot |-> k.slot, ref |-> encode_value(value)]

-----------------------------------------------------------------------------
VARIABLES
  slotMap,      \* SessionState.slotMap of the sessions in the store
  subscribed,   \* sessions with a stream
  stored, this, \* the card table and the base values of ::this
  pending,      \* what was written to an updater and has not reached ::this
  compiled,     \* cards with a running network
  orphaned,     \* cards with a running network of metadata that was replaced
  told,         \* the latest value each stream was pushed of each card
  since,        \* history: the cards that changed or were written since a stream began
  requests

vars == <<slotMap, subscribed, stored, this, pending, compiled, orphaned, told, since, requests>>

Maps == INSTANCE SlotMaps WITH Value <- Sent

InitialMaps == UNION {[{<<c, "code">> : c \in C} -> Sent] : C \in SUBSET Card}

Init ==
  /\ slotMap = [s \in {} |-> Maps!EmptyMap] /\ subscribed = {}
  /\ stored = {} /\ this = [c \in Card |-> Nothing] /\ pending = [c \in Card |-> None]
  /\ compiled = {} /\ orphaned = {}
  /\ told = [s \in Session |-> [c \in Card |-> None]]
  /\ since = [s \in Session |-> {}]
  /\ requests = 0

-----------------------------------------------------------------------------
(* The scheduler.                                                          *)

Written == {c \in Card : pending[c] # None}

\* Every updater's value is in ::this, and no two changes of one card are told
\* apart by what reads it.
no_echo_card_io == [c \in Card |-> IF c \in Written THEN pending[c] ELSE this[c]]

\* p_emit_card_internal_updates_to_runtime, for the cards in C with these values.
emit_runtime_card_output_io(C, values) ==
  [s \in Session |-> [c \in Card |->
     LET about == {d \in C : LET m == to_card_update_message(Append(Name[d], "::this"), Layered(values[d]))
                             IN  m.card_id = Name[c] /\ m.slot = <<"::this">>}
     IN  IF s \in subscribed /\ about # {}
         THEN encode_value(Layered(values[CHOOSE d \in about : TRUE])) ELSE told[s][c]]]

\* Every subscribed stream is to hear of the cards in C, and of those in D no more.
Concerns(C, D) == [s \in Session |-> IF s \in subscribed THEN (since[s] \ D) \union C ELSE {}]

Flush ==
  /\ Written # {}
  /\ this' = no_echo_card_io /\ told' = emit_runtime_card_output_io(Written, no_echo_card_io)
  /\ pending' = [c \in Card |-> None]
  /\ UNCHANGED <<slotMap, subscribed, stored, compiled, orphaned, since, requests>>

\* A compiled network writes to ::this, in a run of its own.
Computes(c, v) ==
  /\ c \in compiled /\ this[c] # v
  /\ this' = [this EXCEPT ![c] = v]
  /\ told' = emit_runtime_card_output_io({c}, this')
  /\ since' = Concerns({c}, {})
  /\ UNCHANGED <<slotMap, subscribed, stored, pending, compiled, orphaned, requests>>

\* The network of replaced metadata speaks for the card all the same.
OrphanComputes(c, v) ==
  /\ c \in orphaned
  /\ told' = emit_runtime_card_output_io({c}, [this EXCEPT ![c] = v])
  /\ UNCHANGED <<slotMap, subscribed, stored, this, pending, compiled, orphaned, since, requests>>

-----------------------------------------------------------------------------
(* Requests.                                                               *)

CodeOf(map, c) == map[<<c, "code">>]

\* card_metadata_update compares with ::this.
Updated(c, v, ts, ps) == IF ts[c] = v THEN ps[c] ELSE v

\* Faulty variant: each card is added and updated before the next is added.
apply_card_by_card(ev, map) ==
  LET last == CHOOSE c \in ev.update : \A d \in ev.update : d <= c
      new  == [c \in Card |-> IF c \in ev.add THEN Nothing ELSE no_echo_card_io[c]]
  IN  [this    |-> [c \in Card |-> IF c \in ev.update /\ c # last THEN CodeOf(map, c) ELSE new[c]],
       pending |-> [c \in Card |-> IF c \in ev.update /\ c = last THEN CodeOf(map, c) ELSE None],
       told    |-> emit_runtime_card_output_io(Written, no_echo_card_io)]

\* Removals, additions, updates. Metadata that is constructed runs the
\* scheduler, once more for each card that is added; an update does not.
apply_card_api_events_io(ev, map) ==
  LET runs == ev.add # {}
      ts   == [c \in Card |-> IF c \in ev.add \union ev.remove THEN Nothing
                              ELSE IF runs THEN no_echo_card_io[c] ELSE this[c]]
      ps   == [c \in Card |-> IF runs \/ c \in ev.remove THEN None ELSE pending[c]]
  IN  [this    |-> ts,
       pending |-> [c \in Card |-> IF c \in ev.update THEN Updated(c, CodeOf(map, c), ts, ps) ELSE ps[c]],
       told    |-> IF runs THEN emit_runtime_card_output_io(Written \ ev.remove, no_echo_card_io) ELSE told]

Applied(ev, map) ==
  LET done == apply_card_api_events_io(ev, map)
  IN  /\ this' = done.this /\ pending' = done.pending /\ told' = done.told
      /\ stored'   = (stored \ ev.remove) \union ev.add
      /\ compiled' = compiled \ (ev.remove \union ev.add)
      /\ orphaned' = orphaned \union (compiled \intersect ev.add)

Request == requests < MaxRequests /\ requests' = requests + 1

MapOf(s) == IF s \in DOMAIN slotMap THEN slotMap[s] ELSE Maps!EmptyMap

\* The session is made when it is not in the store yet.
SetSlotMap(s, map) ==
  slotMap' = [t \in DOMAIN slotMap \union {s} |-> IF t = s THEN map ELSE slotMap[t]]

\* The cards are applied first and the stream subscribes next, in one go; the
\* stream is new and has been told nothing.
OpenSession(s, m) ==
  /\ Request /\ s \notin subscribed
  /\ LET map == IF s \in DOMAIN slotMap THEN slotMap[s] ELSE to_compile_request_data(m)
         ev  == IF m = Maps!EmptyMap THEN Maps!NoEvents
                ELSE Maps!diff_slot_maps_to_card_api_events(Maps!EmptyMap, map)
     IN  /\ Applied(ev, map)
         /\ SetSlotMap(s, map)
         /\ subscribed' = subscribed \union {s}
         /\ since' = [Concerns(ev.update, ev.add) EXCEPT ![s] = ev.update \union {c \in Card : pending'[c] # None}]

\* A card that is not stored cannot be removed or updated: the request fails.
\* What a client pushes is one slot, so nothing was applied before.
PushDeltas(s, d) ==
  /\ Request
  /\ LET next == Maps!apply_cards_delta_to_slot_map(to_cards_delta_data(d), MapOf(s))
         ev   == Maps!diff_slot_maps_to_card_api_events(MapOf(s), next)
     IN  IF ev.remove \union ev.update \subseteq stored \union ev.add
         THEN /\ Applied(ev, next)
              /\ SetSlotMap(s, next)
              /\ since' = Concerns({c \in ev.update : pending'[c] # None}, ev.add \union ev.remove)
              /\ UNCHANGED subscribed
         ELSE /\ SetSlotMap(s, MapOf(s))
              /\ UNCHANGED <<subscribed, stored, this, pending, compiled, orphaned, told, since>>

\* compile_card_internal_code: text that is not blank is compiled.
Compiles(code) == code.kind = "text" /\ code.of \notin Blank

\* The old network is gone by then; the new one is there when its code compiles.
compile_internal_network_precise(c, code) ==
  IF Compiles(code) THEN compiled \union {c} ELSE compiled \ {c}

\* The session's code is applied when it is text, then the card is built anew
\* and the scheduler runs.
CardBuild(s, c) ==
  /\ Request /\ s \in DOMAIN slotMap /\ c \in stored
  /\ LET code == MapOf(s)[<<c, "code">>]
         ps   == IF <<c, "code">> \in DOMAIN MapOf(s) /\ code.kind = "text"
                 THEN [pending EXCEPT ![c] = Updated(c, code, this, pending)] ELSE pending
         C    == {e \in Card : ps[e] # None}
     IN  /\ this' = [e \in Card |-> IF e \in C THEN ps[e] ELSE this[e]]
         /\ told' = emit_runtime_card_output_io(C, this')
         /\ since' = Concerns(C, {})
  /\ pending'  = [e \in Card |-> None]
  /\ compiled' = compile_internal_network_precise(c, this'[c])
  /\ UNCHANGED <<slotMap, subscribed, stored, orphaned>>

\* The stream's end takes the session with it; the cards stay.
EndStream(s) ==
  /\ s \in subscribed
  /\ subscribed' = subscribed \ {s}
  /\ slotMap' = [t \in DOMAIN slotMap \ {s} |-> slotMap[t]]
  /\ told' = [told EXCEPT ![s] = [c \in Card |-> None]] /\ since' = [since EXCEPT ![s] = {}]
  /\ UNCHANGED <<stored, this, pending, compiled, orphaned, requests>>

Deltas == {[slots |-> [k \in {<<c, "code">>} |-> v], remove |-> {}] : c \in Card, v \in Sent}
            \union {[slots |-> Maps!EmptyMap, remove |-> {<<c, "code">>}] : c \in Card}

Next ==
  \/ Flush
  \/ \E c \in Card, v \in Computed : Computes(c, v) \/ OrphanComputes(c, v)
  \/ \E s \in Session : \/ \E m \in InitialMaps : OpenSession(s, m)
                        \/ \E d \in Deltas : PushDeltas(s, d)
                        \/ \E c \in Card : CardBuild(s, c)
                        \/ EndStream(s)

-----------------------------------------------------------------------------
\* What a stream was last told of a card is what the card shows, for every card
\* written or computed since the stream began and for those it began with:
\* applying those cards before subscribing loses none of what they emit, for
\* nothing runs the scheduler in between. Only the network of a card that was
\* added twice is not held to it (open_session_handler,
\* p_emit_card_internal_updates_to_runtime, to_card_update_message).
StreamsAreCurrent ==
  \A s \in subscribed, c \in stored \ orphaned :
    c \in since[s] /\ pending[c] = None => told[s][c] = encode_value(Layered(this[c]))
=============================================================================
