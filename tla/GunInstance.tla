----------------------------- MODULE GunInstance -----------------------------
(***************************************************************************)
(* A cell that lives in Gun (create_gun_cell in DB/serialize/gun_cell.ts,  *)
(* on nodes of gun_state.ts).  Increments are members of a set in Gun; the *)
(* instance hears of each of them twice, once to keep it and once to       *)
(* compute, computes the strongest value, stores it and hears of it again. *)
(*                                                                         *)
(* Whatever is heard is decoded first, which takes as long as the reads    *)
(* that it needs, and some decodings come to nothing.  Increments are      *)
(* numbered; a later one is stronger.  0 stands for nothing.               *)
(***************************************************************************)
EXTENDS Naturals, Sequences, FiniteSets, FiniteSetsExt, SequencesExt

CONSTANTS MaxIncrements  \* bound

Listener == {"keep", "compute"}

VARIABLES
  increments, \* members of the content node
  heard,      \* by each listener
  decoding,   \* by each listener
  computed,   \* those from which the strongest value was computed
  content,    \* snapshots.content
  shown,      \* snapshots.strongest
  stored,     \* the strongest node
  unheard,    \* whether Gun still has to call the strongest listener
  echoes,     \* what that listener is decoding, oldest first
  inOrder,    \* no echo was overtaken by a later one or came to nothing
  due, read,  \* a propagator that reads the cell: alerted, and what it read
  neighbor,   \* how far it has come in becoming a neighbour
  missed,     \* it was no neighbour at the last change
  initialized, \* whether the neighbours of the start are in place
  disposed

vars == <<increments, heard, decoding, computed, content, shown, stored, unheard,
          echoes, inOrder, due, read, neighbor, missed, initialized, disposed>>

inputs == <<increments, heard, decoding>>
neighbors == <<neighbor, initialized>>
reader == <<due, read, missed, neighbors>>
gun    == <<stored, unheard>>

Init ==
  /\ increments = 0
  /\ heard    = [l \in Listener |-> {}]
  /\ decoding = [l \in Listener |-> {}]
  /\ computed = {} /\ content = {}
  /\ shown = 0 /\ stored = 0 /\ unheard = FALSE
  /\ echoes = <<>> /\ inOrder = TRUE
  /\ due = FALSE /\ read = 0 /\ disposed = FALSE
  /\ neighbor = "none" /\ missed = FALSE /\ initialized = FALSE

\* update, here or at a receiver: nothing but a new member in Gun.
update ==
  /\ increments < MaxIncrements
  /\ increments' = increments + 1
  /\ UNCHANGED <<heard, decoding, computed, content, shown, gun, echoes, inOrder, reader, disposed>>

\* Gun calls a map listener for each member, unless the cell is disposed.
Hear(l, i) ==
  /\ ~disposed /\ i \notin heard[l]
  /\ heard'    = [heard EXCEPT ![l] = @ \union {i}]
  /\ decoding' = [decoding EXCEPT ![l] = @ \union {i}]
  /\ UNCHANGED <<increments, computed, content, shown, gun, echoes, inOrder, reader, disposed>>

Decoded(l, i) ==
  /\ i \in decoding[l]
  /\ decoding' = [decoding EXCEPT ![l] = @ \ {i}]
  /\ UNCHANGED <<increments, heard, inOrder, read, neighbors, disposed, echoes>>

ComesToNothing(l, i) ==
  /\ Decoded(l, i)
  /\ UNCHANGED <<computed, content, shown, gun, due, missed>>

setup_content_listener(i) ==
  /\ Decoded("keep", i)
  /\ content' = content \union {i}
  /\ UNCHANGED <<computed, shown, gun, due, missed>>

strongest_value(c) == IF c = {} THEN 0 ELSE Max(c)

resolve_and_alert_interested_propagators ==
  /\ due'    = (due \/ neighbor = "known")
  /\ missed' = (neighbor # "known")

set_strongest(v) ==
  /\ shown' = v /\ stored' = v /\ unheard' = TRUE
  /\ resolve_and_alert_interested_propagators

\* Faulty variant: the strongest value of what there was before.
compute_before_push(i) ==
  LET new == strongest_value(content)
  IN  /\ Decoded("compute", i)
      /\ content'  = content \union {i}
      /\ computed' = computed \union {i}
      /\ IF new # shown THEN set_strongest(new) ELSE UNCHANGED <<shown, gun, due, missed>>

\* The content is an array that the increment joins a second time; only what is
\* in it matters.
setup_computation(i) ==
  LET new == strongest_value(content \union {i})
  IN  /\ Decoded("compute", i)
      /\ content'  = content \union {i}
      /\ computed' = computed \union {i}
      /\ IF new # shown THEN set_strongest(new) ELSE UNCHANGED <<shown, gun, due, missed>>

\* Gun calls the listener of the strongest node with what the node then holds;
\* the listener is not wrapped, but taken off when the cell is disposed.
HearStrongest ==
  /\ unheard /\ ~disposed
  /\ unheard' = FALSE /\ echoes' = Append(echoes, stored)
  /\ UNCHANGED <<inputs, computed, content, shown, stored, inOrder, reader, disposed>>

setup_strongest_listener(k, nothing) ==
  /\ echoes'  = RemoveAt(echoes, k)
  /\ inOrder' = (inOrder /\ k = 1 /\ ~nothing)
  /\ IF nothing THEN UNCHANGED <<shown, due, missed>>
     ELSE shown' = echoes[k] /\ resolve_and_alert_interested_propagators
  /\ UNCHANGED <<inputs, computed, content, gun, read, neighbors, disposed>>

\* The microtask that a change of the cell's node queues, or any other flush.
RunNeighbor ==
  /\ due
  /\ due' = FALSE /\ read' = shown /\ missed' = FALSE
  /\ UNCHANGED <<inputs, computed, content, shown, gun, echoes, inOrder, neighbors, disposed>>

Keeps == UNCHANGED <<inputs, computed, content, shown, gun, echoes, inOrder, read, missed, disposed>>

\* A new reader is run once, but is a neighbour only when Gun has said so.
addNeighbor ==
  /\ neighbor = "none"
  /\ neighbor' = "stored" /\ due' = TRUE
  /\ Keeps /\ UNCHANGED initialized

setup_neighbors_listener(nothing) ==
  /\ neighbor = "stored"
  /\ neighbor' = IF nothing THEN "forgotten" ELSE "known"
  /\ Keeps /\ UNCHANGED <<due, initialized>>

\* What the cell starts with is decoded, too. A set of Gun does not decode to a
\* map, so an empty one is put in the place of what was heard until then.
initialize_neighbors ==
  /\ ~initialized
  /\ initialized' = TRUE
  /\ neighbor' = IF neighbor = "known" THEN "forgotten" ELSE neighbor
  /\ Keeps /\ UNCHANGED due

dispose ==
  /\ ~disposed
  /\ disposed' = TRUE
  /\ UNCHANGED <<inputs, computed, content, shown, gun, echoes, inOrder, reader>>

Next ==
  \/ update
  \/ \E i \in 1..increments :
       \/ \E l \in Listener : Hear(l, i) \/ ComesToNothing(l, i)
       \/ setup_content_listener(i) \/ setup_computation(i)
  \/ HearStrongest
  \/ \E k \in DOMAIN echoes, nothing \in BOOLEAN : setup_strongest_listener(k, nothing)
  \/ RunNeighbor \/ addNeighbor \/ initialize_neighbors
  \/ \E nothing \in BOOLEAN : setup_neighbors_listener(nothing)
  \/ dispose

Spec == Init /\ [][Next]_vars

-----------------------------------------------------------------------------
\* Gun never holds less than the strongest of the increments that were computed
\* with, nor anything the instance has not kept, although what the instance
\* shows may be an old value that came back late and the next computation is
\* compared with that; once its own values have come back, none overtaken, it
\* shows what Gun holds. A reader that Gun made a neighbour in time and that was
\* not forgotten has read what is shown (setup_computation,
\* setup_strongest_listener, create_set_strongest, initialize_neighbors).
StoredIsStrongest ==
  /\ computed # {} => stored >= Max(computed)
  /\ {stored, shown} \subseteq content \union {0}
  /\ inOrder /\ ~unheard /\ echoes = <<>> => shown = stored
  /\ ~due /\ ~missed /\ neighbor # "none" => read = shown
  /\ shown <= stored
=============================================================================
