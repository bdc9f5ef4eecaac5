----------------------------- MODULE GunResolve -----------------------------
(***************************************************************************)
(* Resolution of a Gun object (DB/serialize/gun_resolve.ts): the nodes its *)
(* references name are read side by side and take the references' places,  *)
(* nested as deep as they lead, while the graph may still be written to.   *)
(*                                                                         *)
(* Object is what the caller hands over, the data of Root; its soul is not *)
(* among the visited, so a reference back to Root is read like any other.  *)
(* A place is a field of an object.  A soul is asked for at most once,     *)
(* which makes the places of all the nodes read the nested object.         *)
(***************************************************************************)
EXTENDS Naturals

CONSTANTS Node, Root, Object,
          Field,     \* numbers, in the order of the keys
          Plain,     \* a value that is no reference
          Null,      \* a field that is not there, a place that holds null
          Graphs,    \* the graphs to start from
          MaxPuts    \* bound: writes while the resolution runs

VARIABLES
  graph,    \* the data of each node, all fields Null for one that is not there
  puts,     \* writes so far
  visited,  \* the souls asked for
  reading,  \* those with neither an answer nor a time-out
  late,     \* those that timed out
  seen,     \* the data each object was resolved from
  result    \* what each place holds; the soul of a node that stands there

vars == <<graph, puts, visited, reading, late, seen, result>>

Place   == (Node \union {Object}) \X Field
NotHere == [f \in Field |-> Null]
is_gun_reference(v) == v \in Node

Init ==
  /\ graph \in Graphs
  /\ puts = 0 /\ visited = {} /\ reading = {} /\ late = {}
  /\ seen   = [n \in Node \union {Object} |-> NotHere]
  /\ result = [p \in Place |-> Null]

\* Faulty variant: a soul is marked when its answer is in.
mark_when_read(data, f) == data[f] \notin visited \ reading

\* The entries of an object are resolved side by side, but each runs up to its
\* read before the next begins: of two references to one soul the first, in the
\* order of the keys, asks for it, and the other is null.
resolve_gun_reference(data, f) ==
  /\ data[f] \notin visited
  /\ \A g \in Field : g < f => data[g] # data[f]

resolve_gun_object(n, data) ==
  LET asked == {f \in Field : is_gun_reference(data[f]) /\ resolve_gun_reference(data, f)}
      souls == {data[f] : f \in asked}
  IN  /\ visited' = visited \union souls
      /\ reading' = (reading \ {n}) \union souls
      /\ seen'    = [seen EXCEPT ![n] = data]
      /\ result'  = [p \in Place |->
           IF p[1] # n THEN result[p]
           ELSE IF is_gun_reference(data[p[2]]) /\ p[2] \notin asked THEN Null
           ELSE data[p[2]]]

gun_resolve ==
  /\ seen[Object] = NotHere /\ graph[Root] # NotHere
  /\ resolve_gun_object(Object, graph[Root])
  /\ UNCHANGED <<graph, puts, late>>

\* A place whose soul is not there, or too late.
ResolveToNull(n) ==
  /\ reading' = reading \ {n}
  /\ result'  = [p \in Place |-> IF result[p] = n THEN Null ELSE result[p]]
  /\ UNCHANGED <<graph, puts, visited, seen>>

Answer(n) ==
  /\ n \in reading
  /\ \/ /\ graph[n] # NotHere
        /\ resolve_gun_object(n, graph[n]) /\ UNCHANGED <<graph, puts, late>>
     \/ graph[n] = NotHere /\ ResolveToNull(n) /\ UNCHANGED late

\* After 500 ms; the answer, when it comes, finds the read resolved.
TimeOut(n) ==
  /\ n \in reading
  /\ late' = late \union {n}
  /\ ResolveToNull(n)

\* Somebody writes to the graph.
Put(n, f, v) ==
  /\ puts < MaxPuts /\ reading # {}
  /\ v # graph[n][f]
  /\ graph' = [graph EXCEPT ![n][f] = v] /\ puts' = puts + 1
  /\ UNCHANGED <<visited, reading, late, seen, result>>

Next ==
  \/ gun_resolve
  \/ \E n \in Node : Answer(n) \/ TimeOut(n)
  \/ \E n \in Node, f \in Field, v \in Node \union {Plain} : Put(n, f, v)

-----------------------------------------------------------------------------
Standing == {result[p] : p \in Place} \intersect Node

\* When every read is over, whatever was written meanwhile: a node stands at one
\* place of the result at most, all of them hang on the object that was asked
\* for, and a reference became null only because its node was asked for and stands
\* elsewhere, was not there or did not answer in time (resolve_gun_reference,
\* read_gun_node_once).
NullsHaveReasons ==
  reading = {} =>
    /\ \A p, q \in Place : result[p] = result[q] /\ result[p] \in Node => p = q
    /\ \A S \in (SUBSET Standing) \ {{}} : \E p \in Place : result[p] \in S /\ p[1] \notin S
    /\ \A p \in Place :
         LET m == seen[p[1]][p[2]]
         IN  is_gun_reference(m) /\ result[p] # m =>
               result[p] = Null /\ m \in visited /\ (m \in Standing \union late \/ seen[m] = NotHere)
=============================================================================
