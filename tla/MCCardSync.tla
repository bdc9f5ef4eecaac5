----------------------------- MODULE MCCardSync -----------------------------
(* Instances of CardSync and CarefulClient for TLC: three cards, the deltas
   a canvas client sends when cards are added, edited, dropped and moved. *)
EXTENDS CarefulClient, TLC

CONSTANTS s1, s2, va, vb, num, blank

MCSession == {s1, s2}
MCCard    == {1, 2, 3}
MCValue   == {va, vb, num, blank}
MCText    == {va, vb, blank}
MCSource  == {va, vb}

Code(c, v)     == <<c, "code">> :> v
Side(a, d, b)  == <<a, d>> :> b
Facing(a, d, b) == Side(a, d, b) @@ Side(b, inverse_slot(d), a)
Sides(C)       == C \X Direction
Set(m)         == [slots |-> m, remove |-> {}]
Move(m, K)     == [slots |-> m, remove |-> K]

Edit(c, v)      == Set(Code(c, v))
Place(a, d, b)  == Move(Facing(a, d, b), {<<a, inverse_slot(d)>>, <<b, d>>})
Part(a, d, b)   == Move(EmptyMap, {<<a, d>>, <<b, inverse_slot(d)>>})
Drop(c)         == Move(EmptyMap, {c} \X Slot)
DropAround(c)   == Move(EmptyMap, ({c} \X Slot) \union ((MCCard \ {c}) \X Direction))

Pair == Code(1, va) @@ Code(2, va) @@ Facing(1, "right", 2)
Solo == Code(3, num)

\* A client that says anything: one-sided neighbours, cards dropped while
\* their neighbours still name them, two sides of a pair at once.
AnyDeltas ==
  { Edit(1, vb), Set(Code(2, num) @@ Side(2, "left", 1)), Drop(1), Drop(2),
    Place(1, "right", 2), Set(Side(1, "below", 2)), Part(1, "right", 2) }
Maps == {EmptyMap, Pair}

\* The canvas client: both sides of every pair, neighbours dropped together.
CanvasDeltas ==
  { Edit(1, va), Edit(1, vb), Set(Code(2, num) @@ Code(3, vb)), Edit(3, blank),
    Place(1, "right", 2), Place(2, "right", 1), Place(2, "below", 3),
    Part(1, "right", 2), DropAround(2), DropAround(1) }

\* Both kinds of deltas, of which clients that take care send some.
AllDeltas == AnyDeltas \union CanvasDeltas

\* One browser tab owns every card; two tabs own disjoint cards.
OneOwner  == [s \in MCSession |-> IF s = s1 THEN MCCard ELSE {}]
TwoOwners == [s \in MCSession |-> IF s = s1 THEN {1, 2} ELSE {3}]
=============================================================================
