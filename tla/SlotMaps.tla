------------------------------ MODULE SlotMaps ------------------------------
(***************************************************************************)
(* The pure half of the session protocol: slot maps, the deltas a client   *)
(* pushes, the neighbour graph a slot map declares, and the card events    *)
(* that lead from one slot map to the next                                 *)
(* (src/grpc/delta/cards_delta_apply.ts, src/grpc/delta/card_slot_sync.ts).*)
(*                                                                         *)
(* A slot map is a function whose domain is the set of keys present.  A    *)
(* key "c1::right" is the pair <<c1, "right">>, a key "c1code" the pair    *)
(* <<c1, "code">>.  A directional slot holds the id its CardRef names, the *)
(* other slots hold a value.                                               *)
(***************************************************************************)
EXTENDS Naturals

CONSTANTS
  Card,       \* card ids: naturals, in the order of the id strings
  Value       \* what a code or ::this slot may hold

ASSUME CardAssumption == Card \subseteq Nat

Direction == {"left", "right", "above", "below"}
Slot      == Direction \union {"code", "this"}
Key       == Card \X Slot

IsSlotMap(m) ==
  /\ DOMAIN m \subseteq Key
  /\ m = [k \in DOMAIN m |-> m[k]]
  /\ \A k \in DOMAIN m : m[k] \in IF k[2] \in Direction THEN Card ELSE Value

EmptyMap == [k \in {} |-> k]

IsDelta(d) ==
  /\ d = [slots |-> d.slots, remove |-> d.remove]
  /\ IsSlotMap(d.slots)
  /\ d.remove \subseteq Key

\* Removals first, then assignments: a key in both ends up set.
apply_cards_delta_to_slot_map(delta, map) ==
  LET kept == DOMAIN map \ delta.remove
  IN  [k \in kept \union DOMAIN delta.slots |->
         IF k \in DOMAIN delta.slots THEN delta.slots[k] ELSE map[k]]

-----------------------------------------------------------------------------
(* The graph a slot map declares.                                          *)

Edge == [from : Card, from_slot : Direction, to : Card, to_slot : Direction]

inverse_slot(slot) ==
  CASE slot = "left"  -> "right" [] slot = "right" -> "left"
    [] slot = "above" -> "below" [] slot = "below" -> "above"

Reverse(e) == [from |-> e.to, from_slot |-> e.to_slot,
               to |-> e.from, to_slot |-> e.from_slot]

\* An edge and its reverse are one connection, written in the direction whose
\* "from|from_slot|to|to_slot" key is the smaller string.
Canonical(e) ==
  IF e.from < e.to \/ (e.from = e.to /\ e.from_slot \in {"above", "left"})
  THEN e ELSE Reverse(e)

DeclaredEdge(m, k) ==
  [from |-> k[1], from_slot |-> k[2], to |-> m[k], to_slot |-> inverse_slot(k[2])]

collect_edges(m) ==
  { Canonical(DeclaredEdge(m, k)) : k \in { k \in DOMAIN m : k[2] \in Direction } }

\* Only keys make a card known: a card that is merely pointed at is not here.
collect_card_ids(m) == { k[1] : k \in DOMAIN m }

HasCode(m, c) == <<c, "code">> \in DOMAIN m
CodeOf(m, c)  == m[<<c, "code">>]

\* Faulty variant: code that was edited does not count as changed.
sync_only_new_code_slots(prev, next) ==
  { c \in collect_card_ids(next) : HasCode(next, c) /\ ~HasCode(prev, c) }

sync_code_slots(prev, next) ==
  { c \in collect_card_ids(next) :
      /\ HasCode(next, c)
      /\ ~(HasCode(prev, c) /\ CodeOf(prev, c) = CodeOf(next, c)) }

-----------------------------------------------------------------------------
(* The events that lead from prev to next, one set per kind.  The list the *)
(* code builds has them in this order: every detach, then every remove,    *)
(* add, connect and update.                                                *)

Events == [detach : SUBSET Edge, remove : SUBSET Card, add : SUBSET Card,
           connect : SUBSET Edge, update : SUBSET Card]

NoEvents == [detach |-> {}, remove |-> {}, add |-> {}, connect |-> {}, update |-> {}]

\* Faulty variant: connections that disappear are not detached.
diff_without_detach(prev, next) ==
  [NoEvents EXCEPT
     !.remove  = collect_card_ids(prev) \ collect_card_ids(next),
     !.add     = collect_card_ids(next) \ collect_card_ids(prev),
     !.connect = collect_edges(next) \ collect_edges(prev),
     !.update  = sync_code_slots(prev, next)]

diff_slot_maps_to_card_api_events(prev, next) ==
  [detach  |-> collect_edges(prev) \ collect_edges(next),
   remove  |-> collect_card_ids(prev) \ collect_card_ids(next),
   add     |-> collect_card_ids(next) \ collect_card_ids(prev),
   connect |-> collect_edges(next) \ collect_edges(prev),
   update  |-> sync_code_slots(prev, next)]

-----------------------------------------------------------------------------
(* What a client has to respect for the card table to follow its slot map  *)
(* (not checked by the server): every neighbour it names has keys of its   *)
(* own, and no two cards are connected on two sides at once.               *)
WellFormed(m) ==
  /\ \A e \in collect_edges(m) : {e.from, e.to} \subseteq collect_card_ids(m)
  /\ \A e, f \in collect_edges(m) : e.from = f.from /\ e.to = f.to => e = f
=============================================================================
