--------------------------- MODULE Tracer_proofs ---------------------------
(***************************************************************************)
(* Proofs about the tracers: the picture of upstream_bfs is the whole      *)
(* upstream unless it says that it was cut off, and no tracer but trace    *)
(* shows a link of a propagator that is gone or writes after it was        *)
(* detached; and about traced graphs: the searches answer what paths do,   *)
(* the questions asked of a graph's relations are answered by unification  *)
(* with just what the graph says, and the filters keep the paths they are  *)
(* about. Searches are functions that call themselves last, so what they   *)
(* compute is found by following the calls. Unification is followed        *)
(* through the rows of a relation and the clauses of a list: a             *)
(* substitution stands for the values that respect it, and a goal leads to *)
(* substitutions for just those of them that make its clause hold.         *)
(***************************************************************************)
EXTENDS Tracer, TracedGraphs, Helpers_proofs, FiniteSetTheorems, FunctionTheorems

-----------------------------------------------------------------------------
(* Loops.                                                                  *)

\* f does steps until it is done.
Loops(f, T, step, done) == f = [s \in T |-> IF s \in done THEN s ELSE f[step[s]]]

\* The steps from s that end in e.
IsPath(T, step, done, s, e, n, path) ==
  /\ path \in [0..n -> T] /\ path[0] = s /\ path[n] = e /\ e \in done
  /\ \A i \in 0..(n - 1) : path[i] \notin done /\ path[i + 1] = step[path[i]]
Leads(T, step, done, s, e) == \E n \in Nat : \E path : IsPath(T, step, done, s, e, n, path)

\* What is done ends where it is.
LEMMA LeadsHere ==
  ASSUME NEW T, NEW step, NEW done, NEW s \in T, s \in done, NEW e
  PROVE  Leads(T, step, done, s, e) <=> e = s
<1>1. ASSUME Leads(T, step, done, s, e) PROVE e = s
  <2>0. PICK n \in Nat : \E path : IsPath(T, step, done, s, e, n, path)
    BY <1>1 DEF Leads
  <2>1. PICK path : IsPath(T, step, done, s, e, n, path)
    BY <2>0
  <2>2. n = 0
    <3>. SUFFICES ASSUME n # 0 PROVE FALSE
      OBVIOUS
    <3>. QED BY <2>1 DEF IsPath
  <2>. QED BY <2>1, <2>2 DEF IsPath
<1>2. ASSUME e = s PROVE Leads(T, step, done, s, e)
  <2>. DEFINE path == [i \in 0..0 |-> s]
  <2>1. path \in [0..0 -> T] /\ path[0] = s /\ \A i \in 0..(0 - 1) : FALSE
    OBVIOUS
  <2>. HIDE DEF path
  <2>. QED BY <1>2, <2>1 DEF Leads, IsPath
<1>. QED BY <1>1, <1>2

\* What is not done ends where its next step does.
LEMMA LeadsOn ==
  ASSUME NEW T, NEW step, NEW done, NEW s \in T, s \notin done, step[s] \in T, NEW e
  PROVE  Leads(T, step, done, s, e) <=> Leads(T, step, done, step[s], e)
<1>1. ASSUME Leads(T, step, done, s, e) PROVE Leads(T, step, done, step[s], e)
  <2>0. PICK n \in Nat : \E path : IsPath(T, step, done, s, e, n, path)
    BY <1>1 DEF Leads
  <2>1. PICK path : IsPath(T, step, done, s, e, n, path)
    BY <2>0
  <2>2. n # 0
    BY <2>1 DEF IsPath
  <2>. DEFINE m    == n - 1
              rest == [i \in 0..m |-> path[i + 1]]
  <2>3. m \in Nat /\ rest \in [0..m -> T]
    BY <2>1, <2>2 DEF IsPath
  <2>4. rest[0] = step[s] /\ rest[m] = e
    BY <2>1, <2>2 DEF IsPath
  <2>5. \A i \in 0..(m - 1) : rest[i] \notin done /\ rest[i + 1] = step[rest[i]]
    BY <2>1, <2>2 DEF IsPath
  <2>. HIDE DEF m, rest
  <2>. QED BY <2>1, <2>3, <2>4, <2>5 DEF Leads, IsPath
<1>2. ASSUME Leads(T, step, done, step[s], e) PROVE Leads(T, step, done, s, e)
  <2>0. PICK n \in Nat : \E path : IsPath(T, step, done, step[s], e, n, path)
    BY <1>2 DEF Leads
  <2>1. PICK path : IsPath(T, step, done, step[s], e, n, path)
    BY <2>0
  <2>. DEFINE m    == n + 1
              more == [i \in 0..m |-> IF i = 0 THEN s ELSE path[i - 1]]
  <2>2. m \in Nat /\ more \in [0..m -> T]
    BY <2>1 DEF IsPath
  <2>3. more[0] = s /\ more[m] = e
    BY <2>1 DEF IsPath
  <2>4. ASSUME NEW i \in 0..(m - 1) PROVE more[i] \notin done /\ more[i + 1] = step[more[i]]
    <3>1. CASE i = 0
      BY <2>1, <3>1 DEF IsPath
    <3>2. CASE i # 0
      <4>1. i - 1 \in 0..(n - 1) /\ i \in 0..m /\ i + 1 \in 0..m
        BY <3>2
      <4>2. more[i] = path[i - 1] /\ more[i + 1] = path[i]
        BY <3>2, <4>1
      <4>. QED BY <2>1, <4>1, <4>2 DEF IsPath
    <3>. QED BY <3>1, <3>2
  <2>. HIDE DEF m, more
  <2>. QED BY <2>1, <2>2, <2>3, <2>4 DEF Leads, IsPath
<1>. QED BY <1>1, <1>2

\* There is such a function, whether or not its steps come to an end.
LEMMA LoopExists ==
  ASSUME NEW T, NEW step, NEW done, \A s \in T : s \notin done => step[s] \in T
  PROVE  \E f : Loops(f, T, step, done)
<1>. DEFINE End(s) == CHOOSE e : Leads(T, step, done, s, e)
            f      == [s \in T |-> End(s)]
<1>1. ASSUME NEW s \in T, s \in done PROVE End(s) = s
  BY <1>1, LeadsHere
<1>2. ASSUME NEW s \in T, s \notin done PROVE End(s) = End(step[s])
  <2>1. step[s] \in T
    BY <1>2
  <2>2. \A e : Leads(T, step, done, s, e) <=> Leads(T, step, done, step[s], e)
    BY <1>2, <2>1, LeadsOn
  <2>. QED BY <2>2
<1>3. f = [s \in T |-> IF s \in done THEN s ELSE f[step[s]]]
  <2>. HIDE DEF End
  <2>1. \A s \in T : f[s] = IF s \in done THEN s ELSE f[step[s]]
    BY <1>1, <1>2
  <2>. QED BY <2>1
<1>. QED BY <1>3 DEF Loops

\* Of three measures the first that changes falls.
Falls(a, b, c, s, t) ==
  \/ a[t] < a[s]
  \/ a[t] = a[s] /\ b[t] < b[s]
  \/ a[t] = a[s] /\ b[t] = b[s] /\ c[t] < c[s]

\* A loop's steps keep states good, and make a measure fall unless they end it.
Descends(f, T, step, done, good, a, b, c) ==
  /\ Loops(f, T, step, done) /\ good \subseteq T
  /\ \A s \in good : a[s] \in Nat /\ b[s] \in Nat /\ c[s] \in Nat
  /\ \A s \in good : s \notin done =>
       step[s] \in good /\ (step[s] \in done \/ Falls(a, b, c, s, step[s]))

\* Such a loop ends, and with a good state.
LEMMA LoopEnds ==
  ASSUME NEW T, NEW step, NEW done, NEW f, NEW good, NEW a, NEW b, NEW c,
         Descends(f, T, step, done, good, a, b, c)
  PROVE  \A s \in good : f[s] \in good /\ f[s] \in done
<1>0. /\ Loops(f, T, step, done) /\ good \subseteq T
      /\ \A s \in good : a[s] \in Nat /\ b[s] \in Nat /\ c[s] \in Nat
      /\ \A s \in good : s \notin done =>
           step[s] \in good /\ (step[s] \in done \/ Falls(a, b, c, s, step[s]))
  BY DEF Descends
<1>. DEFINE bad == {s \in good : ~(f[s] \in good /\ f[s] \in done)}
<1>1. \A s \in good : f[s] = IF s \in done THEN s ELSE f[step[s]]
  BY <1>0 DEF Loops
<1>2. ASSUME NEW s \in bad PROVE step[s] \in bad /\ Falls(a, b, c, s, step[s])
  BY <1>0, <1>1
<1>. SUFFICES ASSUME bad # {} PROVE FALSE
  OBVIOUS
<1>3. PICK x \in bad : \A t \in bad : a[x] <= a[t]
  <2>1. \A s \in bad : a[s] \in Nat
    BY <1>0
  <2>. HIDE DEF bad
  <2>. QED BY <2>1, LeastOf
<1>. DEFINE bad2 == {t \in bad : a[t] = a[x]}
<1>4. PICK y \in bad2 : \A t \in bad2 : b[y] <= b[t]
  <2>1. bad2 # {} /\ \A s \in bad2 : b[s] \in Nat
    BY <1>0, <1>3
  <2>. HIDE DEF bad2
  <2>. QED BY <2>1, LeastOf
<1>. DEFINE bad3 == {t \in bad2 : b[t] = b[y]}
<1>5. PICK z \in bad3 : \A t \in bad3 : c[z] <= c[t]
  <2>1. bad3 # {} /\ \A s \in bad3 : c[s] \in Nat
    BY <1>0, <1>4
  <2>. HIDE DEF bad3
  <2>. QED BY <2>1, LeastOf
<1>6. /\ z \in bad /\ a[z] = a[x] /\ b[z] = b[y] /\ step[z] \in bad /\ Falls(a, b, c, z, step[z])
      /\ a[z] \in Nat /\ b[z] \in Nat /\ c[z] \in Nat
      /\ a[step[z]] \in Nat /\ b[step[z]] \in Nat /\ c[step[z]] \in Nat
  BY <1>0, <1>2, <1>5
<1>7. a[z] <= a[step[z]]
  BY <1>3, <1>6
<1>8. a[step[z]] = a[z] => b[z] <= b[step[z]]
  BY <1>4, <1>6
<1>9. a[step[z]] = a[z] /\ b[step[z]] = b[z] => c[z] <= c[step[z]]
  BY <1>5, <1>6
<1>. HIDE DEF bad, bad2, bad3
<1>. QED BY <1>6, <1>7, <1>8, <1>9 DEF Falls

-----------------------------------------------------------------------------
(* The network.                                                            *)

\* What is attached is a propagator or the tracer's own.
Attached == wired \in Seq(Prop \cup {Self})
Links    == Pictured

LEMMA Ends ==
  ASSUME NEW p \in Prop \cup {Self}
  PROVE  Inputs(p) \in Seq(Cell) /\ ToSet(Inputs(p)) \subseteq Cell /\ Output(p) \in Cell
<1>1. Inputs(p) \in Seq(Cell) /\ Output(p) \in Cell
  BY TracerAssumption DEF Inputs, Output
<1>2. ASSUME NEW q \in Seq(Cell) PROVE ToSet(q) \subseteq Cell
  BY DEF ToSet
<1>. QED BY <1>1, <1>2

LEMMA WritersAre ==
  ASSUME Attached, NEW c
  PROVE  /\ Writers(c) \in Seq(Prop \cup {Self})
         /\ ToSet(Writers(c)) = {p \in ToSet(wired) : Output(p) = c}
<1>. DEFINE others == {p \in ToSet(wired) : Output(p) # c}
<1>1. Without(wired, others) \in Seq(Prop \cup {Self}) /\ ToSet(Without(wired, others)) = ToSet(wired) \ others
  <2>. HIDE DEF others
  <2>. QED BY WithoutIs DEF Attached
<1>2. ToSet(wired) \ others = {p \in ToSet(wired) : Output(p) = c}
  OBVIOUS
<1>. HIDE DEF others
<1>3. Writers(c) = Without(wired, others)
  BY DEF Writers, others
<1>. QED BY <1>1, <1>2, <1>3

\* The upstream is the least set of cells with the root that no link leads out of.
LEMMA UpstreamIs ==
  ASSUME Attached
  PROVE  /\ Root \in UpstreamCells /\ UpstreamCells \subseteq Cell
         /\ \A p \in Links : Output(p) \in UpstreamCells => ToSet(Inputs(p)) \subseteq UpstreamCells
         /\ \A X \in SUBSET Cell :
              /\ Root \in X
              /\ \A p \in Links : Output(p) \in X => ToSet(Inputs(p)) \subseteq X
              => UpstreamCells \subseteq X
<1>1. Links \subseteq Prop
  BY DEF Attached, Links, Pictured, is_tracer_propagator, ToSet
<1>2. \A X : Above(X) \subseteq X <=> \A p \in Links : Output(p) \in X => ToSet(Inputs(p)) \subseteq X
  BY DEF Above, Links
<1>3. Root \in UpstreamCells /\ UpstreamCells \subseteq Cell
  BY TracerAssumption DEF UpstreamCells
<1>4. ASSUME NEW p \in Links, Output(p) \in UpstreamCells, NEW i \in ToSet(Inputs(p))
      PROVE  i \in UpstreamCells
  <2>1. i \in Cell
    BY <1>1, Ends
  <2>2. ASSUME NEW X \in SUBSET Cell, Root \in X, Above(X) \subseteq X PROVE i \in X
    <3>1. Output(p) \in X
      BY <1>4, <2>2 DEF UpstreamCells
    <3>. QED BY <1>2, <2>2, <3>1
  <2>. QED BY <2>1, <2>2 DEF UpstreamCells
<1>5. ASSUME NEW X \in SUBSET Cell, Root \in X,
             \A p \in Links : Output(p) \in X => ToSet(Inputs(p)) \subseteq X
      PROVE  UpstreamCells \subseteq X
  BY <1>2, <1>5 DEF UpstreamCells
<1>. QED BY <1>3, <1>4, <1>5

-----------------------------------------------------------------------------
(* The search upstream.                                                    *)

\* The picture that belongs to cells and propagators.
NodesOf(cells, props) == cells \cup props \cup UNION {ToSet(Inputs(p)) : p \in props}
EdgesOf(props) == {<<p, Output(p)>> : p \in props} \cup UNION {{<<i, p>> : i \in ToSet(Inputs(p))} : p \in props}

\* What the search has seen is upstream, and its picture is that of what it has seen.
Sound(s) ==
  /\ ToSet(s.links) \subseteq {p \in ToSet(wired) : Output(p) = s.at}
  /\ s.at \in s.cells \/ s.links = <<>>
  /\ s.cells \subseteq UpstreamCells /\ ToSet(s.queue) \subseteq UpstreamCells
  /\ s.props \subseteq {p \in Links : Output(p) \in s.cells}
  /\ s.graph.node = NodesOf(s.cells, s.props) /\ s.graph.edge = EdgesOf(s.props)

\* Until it is cut off it has forgotten nothing it came by.
Complete(s) ==
  /\ Root \in s.cells \cup ToSet(s.queue)
  /\ \A p \in s.props : ToSet(Inputs(p)) \subseteq s.cells \cup ToSet(s.queue)
  /\ \A p \in Links : Output(p) \in s.cells => p \in s.props \/ (Output(p) = s.at /\ p \in ToSet(s.links))

Good(s, cap) == s \in Search /\ s.count <= cap /\ Sound(s) /\ (~s.cut => Complete(s))

\* What a search is made of.
LEMMA SearchFields ==
  ASSUME NEW s \in Search
  PROVE  /\ s.queue \in Seq(Cell) /\ s.at \in Cell /\ s.links \in Seq(Prop \cup {Self})
         /\ s.cells \subseteq Cell /\ s.props \subseteq Prop /\ s.count \in Nat /\ s.cut \in BOOLEAN
         /\ s.graph \in [node : SUBSET Item, edge : SUBSET (Item \X Item)]
BY DEF Search

\* A link is followed.
LEMMA Following ==
  ASSUME Attached, NEW cap \in Nat, NEW s, Good(s, cap), ~s.cut, s.links # <<>>
  PROVE  /\ Good(BFSStep(s, cap), cap)
         /\ \/ BFSDone(BFSStep(s, cap))
            \/ BFSStep(s, cap).count > s.count
            \/ BFSStep(s, cap).count = s.count /\ Len(BFSStep(s, cap).links) < Len(s.links)
<1>. DEFINE p == Head(s.links)
            t == [s EXCEPT !.links = Tail(@)]
            u == BFSStep(s, cap)
<1>1. s \in Search /\ s.count <= cap /\ Sound(s) /\ Complete(s) /\ s.count \in Nat
  BY SearchFields DEF Good
<1>2. /\ p \in Prop \cup {Self} /\ Tail(s.links) \in Seq(Prop \cup {Self})
      /\ Len(Tail(s.links)) < Len(s.links) /\ ToSet(s.links) = {p} \cup ToSet(Tail(s.links))
  BY <1>1, SearchFields, HeadAndTail
<1>3. p \in ToSet(wired) /\ Output(p) = s.at /\ s.at \in s.cells
  BY <1>1, <1>2 DEF Sound
<1>4. /\ t \in Search /\ t.links = Tail(s.links) /\ t.queue = s.queue /\ t.at = s.at /\ t.cells = s.cells
      /\ t.props = s.props /\ t.count = s.count /\ t.cut = s.cut /\ t.graph = s.graph
  BY <1>1, <1>2 DEF Search
<1>5. u = Follow(t, p, cap)
  BY DEF BFSStep
<1>6. Sound(t)
  BY <1>1, <1>2, <1>3, <1>4 DEF Sound
<1>. HIDE DEF t, u, p
<1>7. CASE is_tracer_propagator(p)
  <2>1. u = t
    BY <1>5, <1>7 DEF Follow
  <2>2. Complete(t)
    BY <1>1, <1>2, <1>4, <1>7 DEF Complete, Links, Pictured, is_tracer_propagator
  <2>. QED BY <1>1, <1>2, <1>4, <1>6, <2>1, <2>2 DEF Good, u
<1>8. CASE ~is_tracer_propagator(p) /\ NoRoom(t, p, cap)
  <2>1. u = [t EXCEPT !.cut = TRUE]
    BY <1>5, <1>8 DEF Follow
  <2>2. /\ u \in Search /\ u.links = t.links /\ u.queue = t.queue /\ u.at = t.at /\ u.cells = t.cells
        /\ u.props = t.props /\ u.count = t.count /\ u.cut = TRUE /\ u.graph = t.graph
    BY <1>4, <2>1 DEF Search
  <2>. QED BY <1>1, <1>4, <1>6, <2>2 DEF Good, Sound, BFSDone, u
<1>9. CASE ~is_tracer_propagator(p) /\ ~NoRoom(t, p, cap)
  <2>. DEFINE new  == Without(Inputs(p), s.cells)
              node == t.graph.node \cup {p} \cup ToSet(Inputs(p))
              edge == t.graph.edge \cup {<<p, t.at>>} \cup {<<i, p>> : i \in ToSet(Inputs(p))}
              more == IF p \in t.props THEN 0 ELSE 1
  <2>1. u = [t EXCEPT !.props = @ \cup {p}, !.count = @ + more, !.queue = @ \o new,
                      !.graph = [node |-> node, edge |-> edge]]
    BY <1>4, <1>5, <1>9 DEF Follow
  <2>2. p \in Prop /\ p \in Links /\ ToSet(Inputs(p)) \subseteq Cell /\ Inputs(p) \in Seq(Cell)
    BY <1>2, <1>3, <1>9, Ends DEF Links, Pictured, is_tracer_propagator
  <2>3. new \in Seq(Cell) /\ ToSet(new) = ToSet(Inputs(p)) \ s.cells
    BY <2>2, WithoutIs
  <2>4. s.queue \o new \in Seq(Cell) /\ ToSet(s.queue \o new) = ToSet(s.queue) \cup ToSet(new)
    BY <1>1, <2>3, SearchFields, JoinedIs
  <2>5. node \subseteq Item /\ edge \subseteq Item \X Item
    <3>1. t.graph.node \subseteq Item /\ t.graph.edge \subseteq Item \X Item
      BY <1>4, SearchFields
    <3>2. p \in Item /\ t.at \in Item /\ ToSet(Inputs(p)) \subseteq Item
      BY <1>4, <2>2, SearchFields DEF Item
    <3>. QED BY <3>1, <3>2
  <2>6. /\ s.count + more \in Nat /\ s.count + more <= cap
        /\ s.count + more > s.count \/ (p \in s.props /\ s.count + more = s.count)
    <3>1. CASE p \in s.props
      <4>1. more = 0
        BY <1>4, <3>1
      <4>. HIDE DEF more
      <4>. QED BY <1>1, <3>1, <4>1
    <3>2. CASE p \notin s.props
      <4>1. s.count < cap /\ more = 1
        BY <1>1, <1>4, <1>9, <3>2 DEF NoRoom
      <4>. HIDE DEF more
      <4>. QED BY <1>1, <3>2, <4>1
    <3>. QED BY <3>1, <3>2
  <2>. HIDE DEF new, node, edge, more
  <2>7. /\ u \in Search /\ u.links = Tail(s.links) /\ u.queue = s.queue \o new /\ u.at = s.at
        /\ u.cells = s.cells /\ u.props = s.props \cup {p} /\ u.count = s.count + more
        /\ u.cut = s.cut /\ u.graph.node = node /\ u.graph.edge = edge
    BY <1>1, <1>2, <1>4, <2>1, <2>2, <2>4, <2>5, <2>6, SearchFields DEF Search
  <2>8. ToSet(Inputs(p)) \subseteq UpstreamCells
    BY <1>1, <1>3, <2>2, UpstreamIs DEF Sound
  <2>9. node = NodesOf(u.cells, u.props)
    BY <1>1, <1>4, <2>7 DEF Sound, NodesOf, node
  <2>10. edge = EdgesOf(u.props)
    BY <1>1, <1>3, <1>4, <2>7 DEF Sound, EdgesOf, edge
  <2>11. Sound(u)
    BY <1>1, <1>2, <1>3, <2>2, <2>3, <2>4, <2>7, <2>8, <2>9, <2>10 DEF Sound
  <2>12. Complete(u)
    BY <1>1, <1>2, <1>3, <2>3, <2>4, <2>7 DEF Complete
  <2>. QED BY <1>1, <1>2, <2>6, <2>7, <2>11, <2>12 DEF Good, u
<1>. QED BY <1>7, <1>8, <1>9

\* The next cell is visited.
LEMMA Visiting ==
  ASSUME Attached, NEW cap \in Nat, NEW s, Good(s, cap), ~s.cut, s.links = <<>>, s.queue # <<>>
  PROVE  /\ Good(BFSStep(s, cap), cap)
         /\ \/ BFSDone(BFSStep(s, cap))
            \/ BFSStep(s, cap).count > s.count
            \/ /\ BFSStep(s, cap).count = s.count /\ BFSStep(s, cap).links = s.links
               /\ Len(BFSStep(s, cap).queue) < Len(s.queue)
<1>. DEFINE c == Head(s.queue)
            t == [s EXCEPT !.queue = Tail(@)]
            u == BFSStep(s, cap)
<1>1. s \in Search /\ s.count <= cap /\ Sound(s) /\ Complete(s) /\ s.count \in Nat
  BY SearchFields DEF Good
<1>2. /\ c \in Cell /\ Tail(s.queue) \in Seq(Cell)
      /\ Len(Tail(s.queue)) < Len(s.queue) /\ ToSet(s.queue) = {c} \cup ToSet(Tail(s.queue))
  BY <1>1, SearchFields, HeadAndTail
<1>3. c \in UpstreamCells
  BY <1>1, <1>2 DEF Sound
<1>4. /\ t \in Search /\ t.queue = Tail(s.queue) /\ t.links = <<>> /\ t.at = s.at /\ t.cells = s.cells
      /\ t.props = s.props /\ t.count = s.count /\ t.cut = s.cut /\ t.graph = s.graph
  BY <1>1, <1>2 DEF Search
<1>5. u = Visit(t, c, cap)
  BY DEF BFSStep
<1>6. Sound(t)
  BY <1>1, <1>2, <1>4 DEF Sound
<1>. HIDE DEF t, u, c
<1>7. CASE c \in s.cells
  <2>1. u = t
    BY <1>4, <1>5, <1>7 DEF Visit
  <2>2. Complete(t)
    BY <1>1, <1>2, <1>4, <1>7 DEF Complete
  <2>. QED BY <1>1, <1>2, <1>4, <1>6, <2>1, <2>2 DEF Good, u
<1>8. CASE c \notin s.cells /\ s.count >= cap
  <2>1. u = [t EXCEPT !.cut = TRUE]
    BY <1>4, <1>5, <1>8 DEF Visit
  <2>2. /\ u \in Search /\ u.links = t.links /\ u.queue = t.queue /\ u.at = t.at /\ u.cells = t.cells
        /\ u.props = t.props /\ u.count = t.count /\ u.cut = TRUE /\ u.graph = t.graph
    BY <1>4, <2>1 DEF Search
  <2>. QED BY <1>1, <1>4, <1>6, <2>2 DEF Good, Sound, BFSDone, u
<1>9. CASE c \notin s.cells /\ ~(s.count >= cap)
  <2>1. u = [t EXCEPT !.cells = @ \cup {c}, !.count = @ + 1, !.graph.node = @ \cup {c},
                      !.at = c, !.links = Writers(c)]
    BY <1>4, <1>5, <1>9 DEF Visit
  <2>2. Writers(c) \in Seq(Prop \cup {Self}) /\ ToSet(Writers(c)) = {p \in ToSet(wired) : Output(p) = c}
    BY WritersAre
  <2>3. s.count + 1 \in Nat /\ s.count + 1 <= cap /\ s.count + 1 > s.count
    BY <1>1, <1>9
  <2>4. s.graph.node \cup {c} \in SUBSET Item /\ s.graph.edge \in SUBSET (Item \X Item)
    BY <1>1, <1>2, SearchFields DEF Item
  <2>5. /\ u.links = Writers(c) /\ u.queue = Tail(s.queue) /\ u.at = c
        /\ u.cells = s.cells \cup {c} /\ u.props = s.props /\ u.count = s.count + 1
        /\ u.cut = s.cut /\ u.graph.node = s.graph.node \cup {c} /\ u.graph.edge = s.graph.edge
    BY <1>4, <2>1 DEF Search
  <2>6. u \in Search
    <3>1. u.graph = [node |-> s.graph.node \cup {c}, edge |-> s.graph.edge]
      BY <1>4, <2>1 DEF Search
    <3>. QED BY <1>1, <1>2, <1>4, <2>1, <2>2, <2>3, <2>4, <2>5, <3>1, SearchFields DEF Search
  <2>7. Sound(u)
    BY <1>1, <1>2, <1>3, <2>2, <2>5 DEF Sound, NodesOf
  <2>8. Complete(u)
    <3>1. ToSet(s.links) = {}
      BY DEF ToSet
    <3>. QED BY <1>1, <1>2, <2>2, <2>5, <3>1 DEF Complete, Links, Pictured, is_tracer_propagator
  <2>. QED BY <1>1, <2>3, <2>5, <2>6, <2>7, <2>8 DEF Good, u
<1>. QED BY <1>7, <1>8, <1>9

\* The search starts with the root, and nothing of an earlier picture.
BFSStart == [queue |-> <<Root>>, at |-> Root, links |-> <<>>, cells |-> {}, props |-> {},
             count |-> 0, cut |-> FALSE, graph |-> Clear]

LEMMA Starting ==
  ASSUME Attached, NEW cap \in Nat
  PROVE  Good(BFSStart, cap)
<1>1. BFSStart \in Search
  <2>1. <<Root>> \in Seq(Cell) /\ Root \in Cell /\ <<>> \in Seq(Prop \cup {Self})
    BY TracerAssumption
  <2>. QED BY <2>1 DEF BFSStart, Search, Clear, NoGraph
<1>2. ToSet(<<Root>>) = {Root} /\ ToSet(<<>>) = {}
  BY DEF ToSet
<1>3. Sound(BFSStart)
  BY <1>2, UpstreamIs DEF Sound, BFSStart, NodesOf, EdgesOf, Clear, NoGraph
<1>4. Complete(BFSStart)
  BY <1>2 DEF Complete, BFSStart
<1>5. BFSStart.count <= cap
  BY DEF BFSStart
<1>. QED BY <1>1, <1>3, <1>4, <1>5 DEF Good

\* A step of a search is a search.
LEMMA StepTypes ==
  ASSUME Attached, NEW cap \in Nat, NEW s \in Search, ~BFSDone(s)
  PROVE  BFSStep(s, cap) \in Search
<1>1. CASE s.links # <<>>
  <2>. DEFINE p == Head(s.links)
              t == [s EXCEPT !.links = Tail(@)]
              u == BFSStep(s, cap)
  <2>1. p \in Prop \cup {Self} /\ Tail(s.links) \in Seq(Prop \cup {Self})
    BY <1>1, SearchFields, HeadAndTail
  <2>2. t \in Search
    BY <2>1 DEF Search
  <2>3. u = Follow(t, p, cap)
    BY <1>1 DEF BFSStep
  <2>. HIDE DEF p, t, u
  <2>4. CASE is_tracer_propagator(p) \/ NoRoom(t, p, cap)
    <3>1. u = t \/ u = [t EXCEPT !.cut = TRUE]
      BY <2>3, <2>4 DEF Follow
    <3>. QED BY <2>2, <3>1 DEF Search, u
  <2>5. CASE ~is_tracer_propagator(p) /\ ~NoRoom(t, p, cap)
    <3>. DEFINE new  == Without(Inputs(p), t.cells)
                node == t.graph.node \cup {p} \cup ToSet(Inputs(p))
                edge == t.graph.edge \cup {<<p, t.at>>} \cup {<<i, p>> : i \in ToSet(Inputs(p))}
                more == IF p \in t.props THEN 0 ELSE 1
    <3>1. u = [t EXCEPT !.props = @ \cup {p}, !.count = @ + more, !.queue = @ \o new,
                        !.graph = [node |-> node, edge |-> edge]]
      BY <2>3, <2>5 DEF Follow
    <3>2. p \in Prop /\ ToSet(Inputs(p)) \subseteq Cell /\ Inputs(p) \in Seq(Cell)
      BY <2>1, <2>5, Ends DEF is_tracer_propagator
    <3>3. t.queue \o new \in Seq(Cell)
      BY <2>2, <3>2, WithoutIs, SearchFields, JoinedIs
    <3>4. node \subseteq Item /\ edge \subseteq Item \X Item
      <4>1. t.graph.node \subseteq Item /\ t.graph.edge \subseteq Item \X Item
        BY <2>2, SearchFields
      <4>2. p \in Item /\ t.at \in Item /\ ToSet(Inputs(p)) \subseteq Item
        BY <2>2, <3>2, SearchFields DEF Item
      <4>. QED BY <4>1, <4>2
    <3>5. t.count + more \in Nat
      BY <2>2, SearchFields
    <3>. HIDE DEF new, node, edge, more
    <3>6. /\ u.queue = t.queue \o new /\ u.at = t.at /\ u.links = t.links /\ u.cells = t.cells
          /\ u.props = t.props \cup {p} /\ u.count = t.count + more /\ u.cut = t.cut
          /\ u.graph = [node |-> node, edge |-> edge]
          /\ u = [queue |-> u.queue, at |-> u.at, links |-> u.links, cells |-> u.cells, props |-> u.props,
                  count |-> u.count, cut |-> u.cut, graph |-> u.graph]
      BY <2>2, <3>1 DEF Search
    <3>7. u.graph \in [node : SUBSET Item, edge : SUBSET (Item \X Item)]
      BY <3>4, <3>6
    <3>. QED
      <4>1. u.props \in SUBSET Prop /\ u.count \in Nat /\ u.queue \in Seq(Cell) /\ u.at \in Cell
        BY <2>2, <3>2, <3>3, <3>5, <3>6, SearchFields
      <4>2. u.cells \in SUBSET Cell /\ u.links \in Seq(Prop \cup {Self}) /\ u.cut \in BOOLEAN
        BY <2>2, <3>6, SearchFields
      <4>. QED BY <3>6, <3>7, <4>1, <4>2 DEF Search, u
  <2>. QED BY <2>4, <2>5
<1>2. CASE s.links = <<>>
  <2>. DEFINE c == Head(s.queue)
              t == [s EXCEPT !.queue = Tail(@)]
              u == BFSStep(s, cap)
  <2>1. c \in Cell /\ Tail(s.queue) \in Seq(Cell)
    BY <1>2, SearchFields, HeadAndTail DEF BFSDone
  <2>2. t \in Search
    BY <2>1 DEF Search
  <2>3. u = Visit(t, c, cap)
    BY <1>2 DEF BFSStep
  <2>. HIDE DEF c, t, u
  <2>4. CASE c \in t.cells \/ t.count >= cap
    <3>1. u = t \/ u = [t EXCEPT !.cut = TRUE]
      BY <2>3, <2>4 DEF Visit
    <3>. QED BY <2>2, <3>1 DEF Search, u
  <2>5. CASE c \notin t.cells /\ ~(t.count >= cap)
    <3>1. u = [t EXCEPT !.cells = @ \cup {c}, !.count = @ + 1, !.graph.node = @ \cup {c},
                        !.at = c, !.links = Writers(c)]
      BY <2>3, <2>5 DEF Visit
    <3>2. Writers(c) \in Seq(Prop \cup {Self}) /\ t.count + 1 \in Nat
      BY <2>2, WritersAre, SearchFields
    <3>3. [t.graph EXCEPT !.node = @ \cup {c}] \in [node : SUBSET Item, edge : SUBSET (Item \X Item)]
      BY <2>1, <2>2, SearchFields DEF Item
    <3>4. /\ u.queue = t.queue /\ u.at = c /\ u.links = Writers(c) /\ u.cells = t.cells \cup {c}
          /\ u.props = t.props /\ u.count = t.count + 1 /\ u.cut = t.cut
          /\ u.graph = [t.graph EXCEPT !.node = @ \cup {c}]
          /\ u = [queue |-> u.queue, at |-> u.at, links |-> u.links, cells |-> u.cells, props |-> u.props,
                  count |-> u.count, cut |-> u.cut, graph |-> u.graph]
      BY <2>2, <3>1 DEF Search
    <3>. QED
      <4>1. u.queue \in Seq(Cell) /\ u.at \in Cell /\ u.cells \in SUBSET Cell /\ u.props \in SUBSET Prop
        BY <2>1, <2>2, <3>4, SearchFields
      <4>2. u.links \in Seq(Prop \cup {Self}) /\ u.count \in Nat /\ u.cut \in BOOLEAN
        BY <2>2, <3>2, <3>4, SearchFields
      <4>. QED BY <3>3, <3>4, <4>1, <4>2 DEF Search, u
  <2>. QED BY <2>4, <2>5
<1>. QED BY <1>1, <1>2

\* The search ends in a good state.
LEMMA Searching ==
  ASSUME Attached, NEW cap \in Nat
  PROVE  Good(UpstreamBFS(cap), cap) /\ BFSDone(UpstreamBFS(cap))
<1>. DEFINE done == {s \in Search : BFSDone(s)}
            step == [s \in Search |-> BFSStep(s, cap)]
            good == {s \in Search : Good(s, cap)}
            body(f) == [s \in Search |-> IF BFSDone(s) THEN s ELSE f[BFSStep(s, cap)]]
            run  == CHOOSE f : f = body(f)
            room  == [s \in good |-> cap - s.count]
            ahead == [s \in good |-> Len(s.links)]
            waits == [s \in good |-> Len(s.queue)]
<1>1. UpstreamBFS(cap) = run[BFSStart]
  BY DEF UpstreamBFS, BFSStart
<1>2. \A f : f = body(f) <=> Loops(f, Search, step, done)
  BY DEF Loops
<1>3. \A s \in Search : s \notin done => step[s] \in Search
  BY StepTypes
<1>4. Loops(run, Search, step, done)
  <2>1. \E f : Loops(f, Search, step, done)
    <3>. HIDE DEF step, done
    <3>. QED BY <1>3, LoopExists
  <2>. HIDE DEF body
  <2>. QED BY <1>2, <2>1
<1>5. \A s \in good : room[s] \in Nat /\ ahead[s] \in Nat /\ waits[s] \in Nat
  BY SearchFields DEF Good
<1>6. ASSUME NEW s \in good, s \notin done
      PROVE  step[s] \in good /\ (step[s] \in done \/ Falls(room, ahead, waits, s, step[s]))
  <2>1. s \in Search /\ Good(s, cap) /\ ~BFSDone(s) /\ ~s.cut /\ step[s] = BFSStep(s, cap)
    BY <1>6 DEF BFSDone
  <2>2. /\ Good(step[s], cap)
        /\ \/ BFSDone(step[s])
           \/ step[s].count > s.count
           \/ step[s].count = s.count /\ Len(step[s].links) < Len(s.links)
           \/ step[s].count = s.count /\ step[s].links = s.links /\ Len(step[s].queue) < Len(s.queue)
    BY <2>1, Following, Visiting DEF BFSDone
  <2>3. step[s] \in Search /\ step[s] \in good /\ step[s].count \in Nat /\ s.count \in Nat
    BY <2>1, <2>2, SearchFields DEF Good
  <2>4. /\ room[s] = cap - s.count /\ room[step[s]] = cap - step[s].count
        /\ ahead[s] = Len(s.links) /\ ahead[step[s]] = Len(step[s].links)
        /\ waits[s] = Len(s.queue) /\ waits[step[s]] = Len(step[s].queue)
    BY <2>3
  <2>5. BFSDone(step[s]) => step[s] \in done
    BY <2>3
  <2>. HIDE DEF step, done, good, room, ahead, waits
  <2>. QED BY <2>2, <2>3, <2>4, <2>5 DEF Falls
<1>7. good \subseteq Search /\ BFSStart \in good
  BY Starting DEF Good
<1>. HIDE DEF run, step, done, good, room, ahead, waits
<1>8. run[BFSStart] \in good /\ run[BFSStart] \in done
  <2>1. \A s \in good : s \notin done =>
          step[s] \in good /\ (step[s] \in done \/ Falls(room, ahead, waits, s, step[s]))
    BY <1>6
  <2>2. Descends(run, Search, step, done, good, room, ahead, waits)
    BY <1>4, <1>5, <1>7, <2>1 DEF Descends
  <2>. QED BY <1>7, <2>2, LoopEnds
<1>. QED BY <1>1, <1>8 DEF good, done

\* What the search upstream returns.
LEMMA SearchedAll ==
  ASSUME Attached, NEW cap \in Nat
  PROVE  /\ UpstreamBFS(cap).cut \/ UpstreamBFS(cap).graph = Upstream
         /\ UpstreamBFS(cap).graph.node \subseteq Upstream.node
         /\ UpstreamBFS(cap).graph.edge \subseteq Upstream.edge
         /\ UpstreamBFS(cap).count <= cap
<1>. DEFINE b   == UpstreamBFS(cap)
            all == {p \in Links : Output(p) \in UpstreamCells}
<1>1. b \in Search /\ b.count <= cap /\ Sound(b) /\ (~b.cut => Complete(b)) /\ BFSDone(b)
  BY Searching DEF Good
<1>. HIDE DEF b
<1>2. all \subseteq Prop /\ \A p \in all : Output(p) \in UpstreamCells /\ ToSet(Inputs(p)) \subseteq UpstreamCells
  BY UpstreamIs DEF Attached, Links, Pictured, is_tracer_propagator, ToSet
<1>3. Upstream.node = UpstreamCells \cup all /\ Upstream.edge = EdgesOf(all)
      /\ Upstream = [node |-> Upstream.node, edge |-> Upstream.edge]
  BY DEF Upstream, EdgesOf, Links
<1>4. b.cells \subseteq UpstreamCells /\ b.props \subseteq all
  BY <1>1 DEF Sound
<1>5. b.graph.node \subseteq Upstream.node
  BY <1>1, <1>2, <1>3, <1>4 DEF Sound, NodesOf
<1>6. b.graph.edge \subseteq Upstream.edge
  BY <1>1, <1>3, <1>4 DEF Sound, EdgesOf
<1>7. ASSUME ~b.cut PROVE b.graph = Upstream
  <2>1. ToSet(b.links) = {} /\ ToSet(b.queue) = {} /\ Complete(b)
    BY <1>1, <1>7 DEF BFSDone, ToSet
  <2>2. Root \in b.cells /\ b.cells \in SUBSET Cell /\ \A p \in Links : Output(p) \in b.cells => p \in b.props
    BY <1>1, <2>1, SearchFields DEF Complete
  <2>3. \A p \in Links : Output(p) \in b.cells => ToSet(Inputs(p)) \subseteq b.cells
    BY <2>1, <2>2 DEF Complete
  <2>4. b.cells = UpstreamCells
    BY <1>4, <2>2, <2>3, UpstreamIs
  <2>5. b.props = all
    BY <1>4, <2>2, <2>4
  <2>6. b.graph.node = Upstream.node
    BY <1>1, <1>2, <1>3, <2>4, <2>5 DEF Sound, NodesOf
  <2>7. b.graph.edge = Upstream.edge
    BY <1>1, <1>3, <2>5 DEF Sound
  <2>. QED BY <1>1, <1>3, <2>6, <2>7, SearchFields
<1>. QED BY <1>1, <1>5, <1>6, <1>7 DEF b

-----------------------------------------------------------------------------
(* The walk of the other tracers.                                          *)

\* What the walk may come by: the cells, and what is attached.
Here == Cell \cup ToSet(wired)

OnlyHere(s) == ToSet(s.queue) \subseteq Here /\ s.graph.edge \subseteq Here \X Here

\* One walks to cells and to what is attached.
LEMMA WalkIs ==
  ASSUME Attached, NEW x \in Item
  PROVE  Walk(x) \in Seq(Item) /\ ToSet(Walk(x)) \subseteq Here
<1>1. CASE x \in Cell
  <2>1. Writers(x) \in Seq(Prop \cup {Self}) /\ ToSet(Writers(x)) \subseteq ToSet(wired)
    BY WritersAre
  <2>2. Seq(Prop \cup {Self}) \subseteq Seq(Item)
    BY DEF Item
  <2>. QED BY <1>1, <2>1, <2>2 DEF Walk, Here, Item
<1>2. CASE x \notin Cell
  <2>1. x \in Prop \cup {Self}
    BY <1>2 DEF Item
  <2>2. Inputs(x) \in Seq(Cell) /\ ToSet(Inputs(x)) \subseteq Cell
    BY <2>1, Ends
  <2>3. Seq(Cell) \subseteq Seq(Item)
    BY DEF Item
  <2>. QED BY <1>2, <2>1, <2>2, <2>3 DEF Walk, Here, Item
<1>. QED BY <1>1, <1>2

\* A step of the walk.
LEMMA Walking ==
  ASSUME Attached, NEW s \in Walked, s.queue # <<>>
  PROVE  LET x == Head(s.queue)
         IN  /\ WalkStep(s) \in Walked /\ (OnlyHere(s) => OnlyHere(WalkStep(s))) /\ x \in Item
             /\ WalkStep(s).walked = s.walked \cup {x}
             /\ x \in s.walked => Len(WalkStep(s).queue) < Len(s.queue)
<1>. DEFINE x    == Head(s.queue)
            more == IF x \in s.walked THEN <<>> ELSE Walk(x)
            node == s.graph.node \cup {x} \cup ToSet(Walk(x))
            edge == s.graph.edge \cup {<<x, y>> : y \in ToSet(Walk(x))}
            u    == WalkStep(s)
<1>1. /\ s.queue \in Seq(Item) /\ s.walked \subseteq Item
      /\ s.graph.node \subseteq Item /\ s.graph.edge \subseteq Item \X Item
  BY DEF Walked
<1>2. /\ x \in Item /\ Tail(s.queue) \in Seq(Item) /\ Len(Tail(s.queue)) < Len(s.queue)
      /\ ToSet(s.queue) = {x} \cup ToSet(Tail(s.queue))
  BY <1>1, HeadAndTail
<1>3. OnlyHere(s) => x \in Here /\ ToSet(Tail(s.queue)) \subseteq Here
  BY <1>2 DEF OnlyHere
<1>4. u = [queue |-> Tail(s.queue) \o more, walked |-> s.walked \cup {x}, graph |-> [node |-> node, edge |-> edge]]
  BY DEF WalkStep
<1>. HIDE DEF x
<1>5. Walk(x) \in Seq(Item) /\ ToSet(Walk(x)) \subseteq Here
  BY <1>2, WalkIs
<1>6. ToSet(Walk(x)) \subseteq Item
  BY <1>5 DEF ToSet
<1>7. more \in Seq(Item) /\ ToSet(more) \subseteq Here
  BY <1>5 DEF ToSet
<1>8. node \subseteq Item /\ edge \subseteq Item \X Item
  BY <1>1, <1>2, <1>6
<1>9. OnlyHere(s) => edge \subseteq Here \X Here
  BY <1>3, <1>5 DEF OnlyHere
<1>10. x \in s.walked => more = <<>>
  OBVIOUS
<1>. HIDE DEF more, node, edge, u
<1>11. /\ Tail(s.queue) \o more \in Seq(Item)
       /\ ToSet(Tail(s.queue) \o more) = ToSet(Tail(s.queue)) \cup ToSet(more)
  <2>1. \A q \in Seq(Item), r \in Seq(Item) :
           q \o r \in Seq(Item) /\ ToSet(q \o r) = ToSet(q) \cup ToSet(r)
    BY JoinedIs
  <2>. QED BY <1>2, <1>7, <2>1, Zenon
<1>12. u \in Walked
  BY <1>1, <1>2, <1>4, <1>8, <1>11 DEF Walked
<1>13. OnlyHere(s) => OnlyHere(u)
  BY <1>3, <1>4, <1>7, <1>9, <1>11 DEF OnlyHere
<1>14. x \in s.walked => Len(u.queue) < Len(s.queue)
  <2>. SUFFICES ASSUME x \in s.walked PROVE Len(u.queue) < Len(s.queue)
    OBVIOUS
  <2>1. u.queue = Tail(s.queue) \o <<>>
    BY <1>4, <1>10
  <2>2. Tail(s.queue) \o <<>> = Tail(s.queue)
    BY <1>2
  <2>. QED BY <1>2, <2>1, <2>2
<1>. QED BY <1>2, <1>4, <1>12, <1>13, <1>14 DEF u, x

\* A walk from an empty picture draws links of what is attached.
LEMMA Traversing ==
  ASSUME Attached
  PROVE  Traverse(NoGraph).graph.edge \subseteq Here \X Here
<1>. DEFINE start == [queue |-> <<Root>>, walked |-> {}, graph |-> NoGraph]
            done == {s \in Walked : s.queue = <<>>}
            step == [s \in Walked |-> WalkStep(s)]
            good == {s \in Walked : OnlyHere(s)}
            body(f) == [s \in Walked |-> IF s.queue = <<>> THEN s ELSE f[WalkStep(s)]]
            run  == CHOOSE f : f = body(f)
            left == [s \in good |-> Cardinality(Item \ s.walked)]
            ahead == [s \in good |-> Len(s.queue)]
<1>1. Traverse(NoGraph) = run[start]
  BY DEF Traverse
<1>2. \A f : f = body(f) <=> Loops(f, Walked, step, done)
  BY DEF Loops
<1>3. \A s \in Walked : s \notin done => step[s] \in Walked
  BY Walking
<1>4. Loops(run, Walked, step, done)
  <2>1. \E f : Loops(f, Walked, step, done)
    <3>. HIDE DEF step, done
    <3>. QED BY <1>3, LoopExists
  <2>. HIDE DEF body
  <2>. QED BY <1>2, <2>1
<1>5. ASSUME NEW s \in good
      PROVE  left[s] \in Nat /\ ahead[s] \in Nat /\ IsFiniteSet(Item \ s.walked)
  <2>1. IsFiniteSet(Item)
    BY TracerAssumption, FS_Union, FS_Singleton DEF Item
  <2>2. IsFiniteSet(Item \ s.walked)
    BY <2>1, FS_Difference
  <2>. QED BY <2>2, FS_CardinalityType DEF Walked
<1>6. ASSUME NEW s \in good, s \notin done
      PROVE  step[s] \in good /\ Falls(left, ahead, ahead, s, step[s])
  <2>. DEFINE x == Head(s.queue)
  <2>1. /\ s \in Walked /\ s.queue # <<>> /\ OnlyHere(s) /\ step[s] = WalkStep(s)
        /\ s.walked \subseteq Item
    BY <1>6 DEF Walked
  <2>2. /\ step[s] \in Walked /\ OnlyHere(step[s]) /\ x \in Item
        /\ step[s].walked = s.walked \cup {x}
        /\ x \in s.walked => Len(step[s].queue) < Len(s.queue)
    BY <2>1, Walking
  <2>3. /\ step[s] \in good
        /\ left[s] = Cardinality(Item \ s.walked) /\ left[step[s]] = Cardinality(Item \ step[s].walked)
        /\ ahead[s] = Len(s.queue) /\ ahead[step[s]] = Len(step[s].queue)
    BY <2>2
  <2>4. IsFiniteSet(Item \ s.walked) /\ left[s] \in Nat /\ left[step[s]] \in Nat
    BY <1>5, <2>3
  <2>. HIDE DEF x, step, done, good, left, ahead
  <2>5. CASE x \in s.walked
    <3>1. step[s].walked = s.walked
      BY <2>2, <2>5
    <3>. QED BY <2>2, <2>3, <2>5, <3>1 DEF Falls
  <2>6. CASE x \notin s.walked
    <3>1. Item \ step[s].walked = (Item \ s.walked) \ {x} /\ x \in Item \ s.walked
      BY <2>2, <2>6
    <3>2. Cardinality((Item \ s.walked) \ {x}) = Cardinality(Item \ s.walked) - 1
      BY <2>4, <3>1, FS_RemoveElement
    <3>3. left[step[s]] = left[s] - 1
      BY <2>3, <3>1, <3>2
    <3>4. left[step[s]] < left[s]
      BY <2>4, <3>3
    <3>. QED BY <2>3, <3>4 DEF Falls
  <2>. QED BY <2>5, <2>6
<1>7. good \subseteq Walked /\ start \in good
  <2>1. <<Root>> \in Seq(Item) /\ ToSet(<<Root>>) = {Root} /\ Root \in Here
    BY TracerAssumption DEF Item, Here, ToSet
  <2>. QED BY <2>1 DEF Walked, OnlyHere, NoGraph
<1>. HIDE DEF run, step, done, good, left, ahead, start
<1>8. run[start] \in good
  <2>1. \A s \in good : left[s] \in Nat /\ ahead[s] \in Nat /\ ahead[s] \in Nat
    BY <1>5
  <2>2. \A s \in good : s \notin done =>
          step[s] \in good /\ (step[s] \in done \/ Falls(left, ahead, ahead, s, step[s]))
    BY <1>6
  <2>3. Descends(run, Walked, step, done, good, left, ahead, ahead)
    BY <1>4, <1>7, <2>1, <2>2 DEF Descends
  <2>. QED BY <1>7, <2>3, LoopEnds
<1>. QED BY <1>1, <1>8 DEF good, OnlyHere

-----------------------------------------------------------------------------
(* The machine.                                                            *)

\* The tracer's own propagator is attached exactly while the tracer is, and is
\* alerted only then; what was disposed is not attached; but for trace, whose
\* taps queue one each, every microtask is the tracer's.
TracerInv ==
  /\ Attached
  /\ gone \subseteq Prop /\ gone \cap ToSet(wired) = {}
  /\ attached \in BOOLEAN /\ (Self \in ToSet(wired) <=> attached)
  /\ Self \in due => attached
  /\ kind # "trace" => tasks \subseteq {Self}

\* The invariant reads no more than these; a step that leaves due in place or
\* adds readers to it, and the rest as it was, keeps it.
LEMMA KeptOtherwise ==
  ASSUME TracerInv, UNCHANGED <<kind, wired, gone, attached>>,
         due' \subseteq due \cup ToSet(wired),
         kind # "trace" => tasks' \subseteq {Self}
  PROVE  TracerInv'
<1>1. Self \in due' => attached
  BY DEF TracerInv
<1>. QED BY <1>1 DEF TracerInv, Attached

\* Readers are attached.
LEMMA ReadersAre == \A c : ReadersOf(c) \subseteq ToSet(wired)
BY DEF ReadersOf

\* A rebuild alerts readers of the gatherer at most.
LEMMA RebuildsAlert ==
  ASSUME NEW left, Rebuild(left)
  PROVE  due' \subseteq left \cup ToSet(wired)
BY ReadersAre DEF Rebuild, RebuildCore, RebuildAll, Emit

\* Taking a propagator off, or putting one on.
LEMMA TakenOff ==
  ASSUME Attached, NEW p, wired' = Without(wired, {p})
  PROVE  Attached' /\ ToSet(wired)' = ToSet(wired) \ {p}
BY WithoutIs DEF Attached

LEMMA PutOn ==
  ASSUME Attached, NEW p \in Prop, wired' = Append(wired, p)
  PROVE  Attached' /\ ToSet(wired)' = ToSet(wired) \cup {p}
<1>1. wired \in Seq(Prop \cup {Self}) /\ p \in Prop \cup {Self}
  BY DEF Attached
<1>2. /\ Append(wired, p) \in Seq(Prop \cup {Self}) /\ Len(wired) \in Nat
      /\ Len(Append(wired, p)) = Len(wired) + 1 /\ Append(wired, p)[Len(wired) + 1] = p
      /\ \A i \in 1..Len(wired) : Append(wired, p)[i] = wired[i]
      /\ DOMAIN wired = 1..Len(wired) /\ DOMAIN Append(wired, p) = 1..(Len(wired) + 1)
  BY <1>1, AppendProperties
<1>3. ToSet(Append(wired, p)) = ToSet(wired) \cup {p}
  <2>1. \A i \in 1..(Len(wired) + 1) : i \in 1..Len(wired) \/ i = Len(wired) + 1
    BY <1>2
  <2>2. 1..Len(wired) \subseteq 1..(Len(wired) + 1) /\ Len(wired) + 1 \in 1..(Len(wired) + 1)
    BY <1>2
  <2>. QED BY <1>2, <2>1, <2>2 DEF ToSet
<1>. QED BY <1>2, <1>3 DEF Attached

LEMMA TracerInit == Init => TracerInv
<1>. SUFFICES ASSUME Init PROVE TracerInv
  OBVIOUS
<1>1. wired \in Seq(Prop \cup {Self}) /\ ToSet(wired) = {Self}
  BY DEF Init, ToSet
<1>. QED BY <1>1, TracerAssumption DEF Init, TracerInv, Attached

LEMMA TracerStep == TracerInv /\ [Next]_vars => TracerInv'
<1>. SUFFICES ASSUME TracerInv, [Next]_vars PROVE TracerInv'
  OBVIOUS
<1>1. CASE UNCHANGED vars
  BY <1>1, KeptOtherwise DEF vars, network, tracer, TracerInv
<1>2. ASSUME NEW p \in Prop, Wire(p) PROVE TracerInv'
  <2>1. Attached' /\ ToSet(wired)' = ToSet(wired) \cup {p} /\ p # Self
    BY <1>2, PutOn, TracerAssumption DEF Wire, TracerInv
  <2>. QED BY <1>2, <2>1 DEF Wire, tracer, TracerInv
<1>3. ASSUME NEW p \in Prop, Unwire(p) PROVE TracerInv'
  <2>1. Attached' /\ ToSet(wired)' = ToSet(wired) \ {p} /\ p # Self
    BY <1>3, TakenOff, TracerAssumption DEF Unwire, TracerInv
  <2>. QED BY <1>3, <2>1 DEF Unwire, tracer, TracerInv
<1>4. ASSUME NEW p \in Prop, Run(p) PROVE TracerInv'
  <2>1. due' \subseteq due \cup ToSet(wired)
    BY <1>4, ReadersAre DEF Run
  <2>. QED BY <1>4, <2>1, KeptOtherwise DEF Run, TracerInv
<1>5. ASSUME NEW c \in Cell, UserWrite(c) PROVE TracerInv'
  BY <1>5, ReadersAre, KeptOtherwise DEF UserWrite, TracerInv
<1>6. ASSUME NEW c \in Cell, FireTap(c) PROVE TracerInv'
  BY <1>6, KeptOtherwise DEF FireTap, network, TracerInv
<1>7. CASE MicrotaskReactive
  <2>1. due' \subseteq due \cup ToSet(wired)
    BY <1>7, RebuildsAlert DEF MicrotaskReactive
  <2>. QED BY <1>7, <2>1, KeptOtherwise DEF MicrotaskReactive
<1>8. ASSUME NEW c \in Cell, MicrotaskTrace(c) PROVE TracerInv'
  <2>1. due' \subseteq due \cup ToSet(wired)
    BY <1>8, RebuildsAlert DEF MicrotaskTrace
  <2>. QED BY <1>8, <2>1, KeptOtherwise DEF MicrotaskTrace, TracerInv
<1>9. CASE Activate
  <2>1. CASE ActivateReactive
    BY <2>1, KeptOtherwise DEF ActivateReactive
  <2>2. ASSUME Rebuild(due \ {Self}), UNCHANGED <<kind, wired, gone, attached, tasks>> PROVE TracerInv'
    BY <2>2, RebuildsAlert, KeptOtherwise DEF TracerInv
  <2>3. CASE AlreadyStarted
    BY <2>3, KeptOtherwise DEF AlreadyStarted, tracer, TracerInv
  <2>. QED BY <1>9, <2>1, <2>2, <2>3 DEF Activate, ActivateTimed, ActivateTrace, ActivateOnce
<1>10. CASE Tick
  <2>1. due' \subseteq due \cup ToSet(wired)
    BY <1>10, RebuildsAlert DEF Tick
  <2>. QED BY <1>10, <2>1, KeptOtherwise DEF Tick, TracerInv
<1>11. CASE Detach
  <2>1. Attached' /\ ToSet(wired)' = ToSet(wired) \ {Self}
    BY <1>11, TakenOff DEF Detach, TracerInv
  <2>. QED BY <1>11, <2>1 DEF Detach, TracerInv
<1>. QED BY <1>1, <1>2, <1>3, <1>4, <1>5, <1>6, <1>7, <1>8, <1>9, <1>10, <1>11 DEF Next, Microtask

\* In every state of the network, cut off anywhere: a picture of upstream_bfs that
\* is not marked as cut is the whole upstream, and none shows anything else.
THEOREM PicturesAreWhole == Spec => []CutIsReported
<1>1. TracerInv => CutIsReported
  <2>. SUFFICES ASSUME TracerInv, NEW cap \in 0..Cardinality(Item)
       PROVE  LET b == UpstreamBFS(cap)
              IN  /\ b.cut \/ b.graph = Upstream
                  /\ b.graph.node \subseteq Upstream.node /\ b.graph.edge \subseteq Upstream.edge
                  /\ b.count <= cap
    BY DEF CutIsReported
  <2>1. IsFiniteSet(Item)
    BY TracerAssumption, FS_Union, FS_Singleton DEF Item
  <2>2. Cardinality(Item) \in Nat
    BY <2>1, FS_CardinalityType
  <2>3. cap \in Nat
    BY <2>2
  <2>. QED BY <2>3, SearchedAll DEF TracerInv
<1>. QED BY <1>1, TracerInit, TracerStep, PTL DEF Spec

\* What a rebuild writes.
LEMMA RebuildsShow ==
  ASSUME TracerInv, NEW left, Rebuild(left), attached, kind # "trace", seen' # seen
  PROVE  \A e \in seen'.edge : gone \cap {e[1], e[2]} = {}
<1>1. Attached /\ gone \subseteq Prop /\ gone \cap Here = {}
  BY TracerAssumption DEF TracerInv, Here
<1>2. ASSUME NEW edge \in SUBSET (Here \X Here), NEW e \in edge PROVE gone \cap {e[1], e[2]} = {}
  <2>1. e[1] \in Here /\ e[2] \in Here
    BY <1>2
  <2>. QED BY <1>1, <2>1
<1>3. CASE Careful
  <2>1. seen' = UpstreamBFS(MaxNodes).graph /\ MaxNodes \in Nat
    BY <1>3, TracerAssumption DEF Rebuild, RebuildCore, Emit
  <2>2. UpstreamBFS(MaxNodes).graph.edge \subseteq Upstream.edge
    BY <1>1, <2>1, SearchedAll
  <2>3. Upstream.edge \subseteq Here \X Here
    <3>1. \A p \in Links : p \in Here /\ Output(p) \in Here /\ ToSet(Inputs(p)) \subseteq Here
      BY <1>1, Ends DEF Links, Pictured, is_tracer_propagator, Here, Attached, ToSet
    <3>. QED BY <3>1 DEF Upstream, Links
  <2>. QED BY <1>2, <2>1, <2>2, <2>3
<1>4. CASE ~Careful
  <2>1. seen' = Traverse(NoGraph).graph
    BY <1>4 DEF Rebuild, RebuildAll, Emit
  <2>. QED BY <1>1, <1>2, <2>1, Traversing
<1>. QED BY <1>3, <1>4

\* No tracer but trace writes the gatherer once it is detached, whatever is still
\* queued, or draws a link of a propagator that is gone.
THEOREM PicturesShowNoGhosts == Spec => NoGhosts
<1>1. ASSUME TracerInv, [Next]_vars, seen' # seen, kind # "trace"
      PROVE  attached /\ \A e \in seen'.edge : gone \cap {e[1], e[2]} = {}
  <2>1. PICK left : Rebuild(left) /\ attached
    <3>1. CASE MicrotaskReactive
      BY <1>1, <3>1 DEF MicrotaskReactive, Active
    <3>2. ASSUME NEW c \in Cell, MicrotaskTrace(c) PROVE FALSE
      BY <1>1, <3>2, TracerAssumption DEF MicrotaskTrace, TracerInv
    <3>3. CASE Activate
      BY <1>1, <3>3 DEF Activate, ActivateReactive, ActivateTimed, ActivateTrace, ActivateOnce,
                        AlreadyStarted, TracerInv, tracer
    <3>4. CASE Tick
      BY <1>1, <3>4 DEF Tick, Active
    <3>5. ~ UNCHANGED vars /\ \A p \in Prop : ~Wire(p) /\ ~Unwire(p) /\ ~Run(p)
      BY <1>1 DEF vars, tracer, Wire, Unwire, Run
    <3>6. ~Detach /\ \A c \in Cell : ~UserWrite(c) /\ ~FireTap(c)
      BY <1>1 DEF Detach, UserWrite, FireTap
    <3>. QED BY <1>1, <3>1, <3>2, <3>3, <3>4, <3>5, <3>6 DEF Next, Microtask
  <2>. QED BY <1>1, <2>1, RebuildsShow
<1>2. TracerInv /\ [Next]_vars =>
        [seen' # seen /\ kind # "trace" =>
           attached /\ \A e \in seen'.edge : gone \cap {e[1], e[2]} = {}]_vars
  BY <1>1
<1>. QED BY <1>2, TracerInit, TracerStep, PTL DEF Spec, NoGhosts

-----------------------------------------------------------------------------
(* Searching a traced graph.                                               *)

\* What holds the start of a search, and what is next to all it holds.
Holds(S, queue, visited, next) ==
  queue \cup visited \subseteq S /\ \A n \in S \ visited : next[n] \subseteq S

\* A search has forgotten nothing it came by, and came by nothing else.
Searched(s, queue, visited, next) ==
  /\ visited \subseteq s.visited /\ queue \subseteq s.queue \cup s.visited
  /\ \A n \in s.visited \ visited : next[n] \subseteq s.queue \cup s.visited
  /\ \A S \in SUBSET Id : Holds(S, queue, visited, next) => s.queue \cup s.visited \subseteq S

\* A step of a search visits one node more.
LEMMA SearchGrows ==
  ASSUME NEW next, NEW s \in SearchState, ~(s.queue \subseteq s.visited)
  PROVE  \E n \in Id \ s.visited : SearchStep(s, next).visited = s.visited \cup {n}
<1>. DEFINE n == CHOOSE m \in s.queue \ s.visited : TRUE
<1>1. n \in s.queue \ s.visited
  OBVIOUS
<1>2. SearchStep(s, next) = [queue |-> (s.queue \ {n}) \cup next[n], visited |-> s.visited \cup {n}]
  BY DEF SearchStep
<1>. HIDE DEF n
<1>3. n \in Id \ s.visited
  BY <1>1 DEF SearchState
<1>4. SearchStep(s, next).visited = s.visited \cup {n}
  BY <1>2
<1>. QED BY <1>3, <1>4

LEMMA SearchesOn ==
  ASSUME NEW queue \in SUBSET Id, NEW visited \in SUBSET Id, NEW next \in [Id -> SUBSET Id],
         NEW s \in SearchState, ~(s.queue \subseteq s.visited)
  PROVE  /\ SearchStep(s, next) \in SearchState
         /\ Searched(s, queue, visited, next) => Searched(SearchStep(s, next), queue, visited, next)
<1>. DEFINE n == CHOOSE m \in s.queue \ s.visited : TRUE
            u == SearchStep(s, next)
<1>1. n \in s.queue \ s.visited
  OBVIOUS
<1>2. u = [queue |-> (s.queue \ {n}) \cup next[n], visited |-> s.visited \cup {n}]
  BY DEF SearchStep
<1>. HIDE DEF n, u
<1>3. s.queue \subseteq Id /\ s.visited \subseteq Id /\ n \in Id \ s.visited /\ next[n] \subseteq Id
  BY <1>1 DEF SearchState
<1>4. u.queue = (s.queue \ {n}) \cup next[n] /\ u.visited = s.visited \cup {n} /\ u \in SearchState
  BY <1>2, <1>3 DEF SearchState
<1>5. ASSUME Searched(s, queue, visited, next) PROVE Searched(u, queue, visited, next)
  <2>1. visited \subseteq u.visited /\ queue \subseteq u.queue \cup u.visited
    BY <1>4, <1>5 DEF Searched
  <2>2. ASSUME NEW m \in u.visited \ visited PROVE next[m] \subseteq u.queue \cup u.visited
    <3>1. CASE m = n
      BY <1>4, <3>1
    <3>2. CASE m # n
      <4>1. next[m] \subseteq s.queue \cup s.visited
        BY <1>4, <1>5, <2>2, <3>2 DEF Searched
      <4>. QED BY <1>4, <4>1
    <3>. QED BY <3>1, <3>2
  <2>3. ASSUME NEW S \in SUBSET Id, Holds(S, queue, visited, next) PROVE u.queue \cup u.visited \subseteq S
    <3>1. s.queue \cup s.visited \subseteq S /\ n \in S \ visited
      BY <1>1, <1>5, <2>3 DEF Searched
    <3>2. next[n] \subseteq S
      BY <2>3, <3>1 DEF Holds
    <3>. QED BY <1>4, <3>1, <3>2
  <2>. QED BY <2>1, <2>2, <2>3 DEF Searched
<1>. QED BY <1>4, <1>5 DEF u

\* A search visits the least set that holds its start.
LEMMA SearchIs ==
  ASSUME NEW queue \in SUBSET Id, NEW visited \in SUBSET Id, NEW next \in [Id -> SUBSET Id]
  PROVE  /\ bfs(queue, visited, next) \in SUBSET Id
         /\ Holds(bfs(queue, visited, next), queue, visited, next)
         /\ \A S \in SUBSET Id : Holds(S, queue, visited, next) => bfs(queue, visited, next) \subseteq S
<1>. DEFINE start == [queue |-> queue, visited |-> visited]
            done == {s \in SearchState : s.queue \subseteq s.visited}
            step == [s \in SearchState |-> SearchStep(s, next)]
            good == {s \in SearchState : Searched(s, queue, visited, next)}
            body(f) == [s \in SearchState |-> IF s.queue \subseteq s.visited THEN s ELSE f[SearchStep(s, next)]]
            run  == CHOOSE f : f = body(f)
            left == [s \in good |-> Cardinality(Id \ s.visited)]
<1>1. bfs(queue, visited, next) = run[start].visited
  BY DEF bfs
<1>2. \A f : f = body(f) <=> Loops(f, SearchState, step, done)
  BY DEF Loops
<1>3. \A s \in SearchState : s \notin done => step[s] \in SearchState
  BY SearchesOn
<1>4. Loops(run, SearchState, step, done)
  <2>1. \E f : Loops(f, SearchState, step, done)
    <3>. HIDE DEF step, done
    <3>. QED BY <1>3, LoopExists
  <2>. HIDE DEF body
  <2>. QED BY <1>2, <2>1
<1>5. ASSUME NEW s \in good
      PROVE  left[s] \in Nat /\ IsFiniteSet(Id \ s.visited)
  <2>1. IsFiniteSet(Id \ s.visited)
    BY GraphAssumption, FS_Difference
  <2>. QED BY <2>1, FS_CardinalityType
<1>6. ASSUME NEW s \in good, s \notin done
      PROVE  step[s] \in good /\ Falls(left, left, left, s, step[s])
  <2>1. /\ s \in SearchState /\ ~(s.queue \subseteq s.visited) /\ Searched(s, queue, visited, next)
        /\ step[s] = SearchStep(s, next)
    BY <1>6
  <2>2. step[s] \in SearchState /\ Searched(step[s], queue, visited, next)
    BY <2>1, SearchesOn
  <2>3. \E n \in Id \ s.visited : step[s].visited = s.visited \cup {n}
    <3>1. s \in SearchState /\ ~(s.queue \subseteq s.visited) /\ step[s] = SearchStep(s, next)
      BY <2>1
    <3>. HIDE DEF step, done, good, left, start, body, run
    <3>2. \E n \in Id \ s.visited : SearchStep(s, next).visited = s.visited \cup {n}
      BY <3>1, SearchGrows
    <3>. QED BY <3>1, <3>2
  <2>4. step[s] \in good
    BY <2>2
  <2>5. left[s] = Cardinality(Id \ s.visited) /\ left[step[s]] = Cardinality(Id \ step[s].visited)
    BY <2>4
  <2>6. left[s] \in Nat /\ left[step[s]] \in Nat /\ IsFiniteSet(Id \ s.visited)
    BY <1>5, <2>4
  <2>. HIDE DEF step, done, good, left
  <2>7. PICK n \in Id \ s.visited : step[s].visited = s.visited \cup {n}
    BY <2>3
  <2>8. Id \ step[s].visited = (Id \ s.visited) \ {n}
    BY <2>7
  <2>9. Cardinality((Id \ s.visited) \ {n}) = Cardinality(Id \ s.visited) - 1
    BY <2>6, FS_RemoveElement
  <2>10. left[step[s]] = left[s] - 1
    BY <2>5, <2>8, <2>9
  <2>11. left[step[s]] < left[s]
    BY <2>6, <2>10
  <2>. QED BY <2>4, <2>11 DEF Falls
<1>7. good \subseteq SearchState /\ start \in good
  BY DEF SearchState, Searched, Holds
<1>. HIDE DEF run, step, done, good, left, start
<1>8. run[start] \in good /\ run[start] \in done
  <2>1. \A s \in good : left[s] \in Nat /\ left[s] \in Nat /\ left[s] \in Nat
    BY <1>5
  <2>2. \A s \in good : s \notin done =>
          step[s] \in good /\ (step[s] \in done \/ Falls(left, left, left, s, step[s]))
    BY <1>6
  <2>3. Descends(run, SearchState, step, done, good, left, left, left)
    BY <1>4, <1>7, <2>1, <2>2 DEF Descends
  <2>. QED BY <1>7, <2>3, LoopEnds
<1>9. /\ run[start].visited \in SUBSET Id /\ run[start].queue \subseteq run[start].visited
      /\ Searched(run[start], queue, visited, next)
  BY <1>8 DEF good, done, SearchState
<1>. QED BY <1>1, <1>9 DEF Searched, Holds

\* Edges join nodes.
IsGraph(g) == g.node \subseteq Id /\ g.edge \subseteq g.node \X g.node

\* No edge leads out of a set.
NoWayOut(g, S) == \A x, y : <<x, y>> \in g.edge /\ x \in S => y \in S

LEMMA NeighborsAre ==
  ASSUME NEW g, IsGraph(g), NEW n
  PROVE  /\ \A m : m \in outNeighbors(g, n) <=> <<n, m>> \in g.edge
         /\ \A m : m \in inNeighbors(g, n) <=> <<m, n>> \in g.edge
         /\ outNeighbors(g, n) \subseteq g.node /\ inNeighbors(g, n) \subseteq g.node
         /\ outNeighbors(g, n) # {} => n \in g.node
BY DEF IsGraph, outNeighbors, inNeighbors

LEMMA NextAre ==
  ASSUME NEW g, IsGraph(g)
  PROVE  /\ Outbound(g) \in [Id -> SUBSET Id] /\ Inbound(g) \in [Id -> SUBSET Id]
         /\ \A n \in Id : Outbound(g)[n] = outNeighbors(g, n) /\ Inbound(g)[n] = inNeighbors(g, n)
BY NeighborsAre DEF Outbound, Inbound, IsGraph

\* The ends of the paths from a node are the least set with its neighbours that no
\* edge leads out of.
LEMMA AfterIs ==
  ASSUME NEW g, IsGraph(g), NEW n
  PROVE  /\ After(g, n) \subseteq g.node /\ outNeighbors(g, n) \subseteq After(g, n)
         /\ NoWayOut(g, After(g, n))
         /\ \A S : outNeighbors(g, n) \subseteq S /\ NoWayOut(g, S) => After(g, n) \subseteq S
<1>1. After(g, n) \subseteq g.node /\ outNeighbors(g, n) \subseteq After(g, n)
  BY NeighborsAre DEF After
<1>2. ASSUME NEW x, NEW y, <<x, y>> \in g.edge, x \in After(g, n) PROVE y \in After(g, n)
  <2>1. y \in g.node
    BY <1>2 DEF IsGraph
  <2>2. ASSUME NEW S \in SUBSET g.node, outNeighbors(g, n) \subseteq S,
               \A e \in g.edge : e[1] \in S => e[2] \in S
        PROVE  y \in S
    <3>1. x \in S
      BY <1>2, <2>2 DEF After
    <3>2. <<x, y>>[1] = x /\ <<x, y>>[2] = y
      OBVIOUS
    <3>. QED BY <1>2, <2>2, <3>1, <3>2
  <2>. QED BY <2>1, <2>2 DEF After
<1>3. ASSUME NEW S, outNeighbors(g, n) \subseteq S, NoWayOut(g, S) PROVE After(g, n) \subseteq S
  <2>. DEFINE T == S \cap g.node
  <2>1. T \in SUBSET g.node /\ outNeighbors(g, n) \subseteq T
    BY <1>3, NeighborsAre
  <2>2. ASSUME NEW e \in g.edge, e[1] \in T PROVE e[2] \in T
    <3>1. e = <<e[1], e[2]>> /\ e[2] \in g.node
      BY DEF IsGraph
    <3>2. <<e[1], e[2]>> \in g.edge
      BY <3>1
    <3>. QED BY <1>3, <2>2, <3>1, <3>2 DEF NoWayOut
  <2>3. After(g, n) \subseteq T
    <3>. HIDE DEF T
    <3>. QED BY <2>1, <2>2 DEF After
  <2>. QED BY <2>3
<1>. QED BY <1>1, <1>2, <1>3 DEF NoWayOut

\* Searching from the neighbours of a node.
LEMMA SearchesAfter ==
  ASSUME NEW g, IsGraph(g), NEW n \in Id
  PROVE  bfs(Outbound(g)[n], {}, Outbound(g)) = After(g, n)
<1>. DEFINE R == bfs(Outbound(g)[n], {}, Outbound(g))
<1>0. /\ Outbound(g) \in [Id -> SUBSET Id] /\ \A m \in Id : Outbound(g)[m] = outNeighbors(g, m)
      /\ Outbound(g)[n] \in SUBSET Id /\ {} \in SUBSET Id
  BY NextAre
<1>1. /\ R \in SUBSET Id /\ Holds(R, Outbound(g)[n], {}, Outbound(g))
      /\ \A S \in SUBSET Id : Holds(S, Outbound(g)[n], {}, Outbound(g)) => R \subseteq S
  BY <1>0, SearchIs
<1>. HIDE DEF R
<1>2. outNeighbors(g, n) \subseteq R /\ NoWayOut(g, R)
  BY <1>0, <1>1, NeighborsAre DEF Holds, NoWayOut
<1>3. After(g, n) \subseteq R
  BY <1>2, AfterIs
<1>4. Holds(After(g, n), Outbound(g)[n], {}, Outbound(g)) /\ After(g, n) \in SUBSET Id
  <2>1. /\ After(g, n) \subseteq g.node /\ outNeighbors(g, n) \subseteq After(g, n)
        /\ NoWayOut(g, After(g, n)) /\ g.node \subseteq Id
    BY AfterIs DEF IsGraph
  <2>2. \A m \in After(g, n) : outNeighbors(g, m) \subseteq After(g, n)
    BY <2>1, NeighborsAre DEF NoWayOut
  <2>. QED BY <1>0, <2>1, <2>2 DEF Holds
<1>5. R \subseteq After(g, n)
  BY <1>1, <1>4
<1>. QED BY <1>3, <1>5 DEF R

LEMMA PairsAreReached ==
  ASSUME NEW g, IsGraph(g), g.node = Id
  PROVE  enumerate_reachable_pairs(g) = {p \in Id \X Id : p[2] \in After(g, p[1])}
<1>1. enumerate_reachable_pairs(g) = UNION {{<<n, m>> : m \in After(g, n)} : n \in Id}
  BY SearchesAfter DEF enumerate_reachable_pairs
<1>2. \A n \in Id : After(g, n) \subseteq Id
  BY AfterIs
<1>. QED BY <1>1, <1>2

\* Searching to both sides.
LEMMA ComponentsAreConnected ==
  ASSUME NEW g, IsGraph(g), g.node = Id, NEW seeds \in SUBSET Id
  PROVE  connected_component(g, seeds) = Inside(g, seeds \cup UNION {After(Both(g), n) : n \in seeds})
<1>. DEFINE next == [m \in Id |-> Inbound(g)[m] \cup Outbound(g)[m]]
            R    == bfs(seeds \cap g.node, {}, next)
            N    == seeds \cup UNION {After(Both(g), n) : n \in seeds}
<1>1. /\ next \in [Id -> SUBSET Id]
      /\ \A m \in Id : \A x : x \in next[m] <=> <<x, m>> \in g.edge \/ <<m, x>> \in g.edge
  BY NextAre, NeighborsAre
<1>2. IsGraph(Both(g)) /\ Both(g).node = Id
  BY DEF IsGraph, Both
<1>3. \A x, y : <<x, y>> \in Both(g).edge <=> <<x, y>> \in g.edge \/ <<y, x>> \in g.edge
  BY DEF Both, IsGraph
<1>. HIDE DEF next
<1>4. seeds \cap g.node \in SUBSET Id /\ {} \in SUBSET Id /\ seeds \cap g.node = seeds
  OBVIOUS
<1>5. /\ R \in SUBSET Id /\ Holds(R, seeds, {}, next)
      /\ \A S \in SUBSET Id : Holds(S, seeds, {}, next) => R \subseteq S
  BY <1>1, <1>4, SearchIs
<1>. HIDE DEF R
<1>6. seeds \subseteq R /\ NoWayOut(Both(g), R)
  <2>1. seeds \subseteq R /\ \A m \in R : next[m] \subseteq R
    BY <1>5 DEF Holds
  <2>2. \A x, y : <<x, y>> \in Both(g).edge /\ x \in R => y \in R
    BY <1>1, <1>3, <1>5, <2>1
  <2>. QED BY <2>1, <2>2 DEF NoWayOut
<1>7. N \subseteq R
  <2>1. ASSUME NEW n \in seeds PROVE After(Both(g), n) \subseteq R
    <3>1. outNeighbors(Both(g), n) \subseteq R
      BY <1>2, <1>6, NeighborsAre DEF NoWayOut
    <3>. QED BY <1>2, <1>6, <3>1, AfterIs
  <2>. QED BY <1>6, <2>1
<1>8. Holds(N, seeds, {}, next) /\ N \in SUBSET Id
  <2>1. \A n : /\ After(Both(g), n) \subseteq Id /\ outNeighbors(Both(g), n) \subseteq After(Both(g), n)
               /\ NoWayOut(Both(g), After(Both(g), n))
    BY <1>2, AfterIs
  <2>2. ASSUME NEW x, NEW y, <<x, y>> \in Both(g).edge, x \in N PROVE y \in N
    <3>1. PICK n \in seeds : x = n \/ x \in After(Both(g), n)
      BY <2>2
    <3>2. y \in After(Both(g), n)
      BY <1>2, <2>1, <2>2, <3>1, NeighborsAre DEF NoWayOut
    <3>. QED BY <3>2
  <2>3. N \subseteq Id
    BY <2>1
  <2>4. seeds \subseteq N
    OBVIOUS
  <2>. HIDE DEF N
  <2>5. \A m \in N : next[m] \subseteq N
    BY <1>1, <1>3, <2>2, <2>3
  <2>. QED BY <2>3, <2>4, <2>5 DEF Holds
<1>9. R = N
  <2>. HIDE DEF N
  <2>. QED BY <1>5, <1>7, <1>8
<1>. HIDE DEF N
<1>10. g.edge \cap (N \X N) = {e \in g.edge : e[1] \in N /\ e[2] \in N}
  BY DEF IsGraph
<1>11. connected_component(g, seeds) = induced_subgraph_from_ids(g, N)
  BY <1>9 DEF connected_component, R, next
<1>. QED BY <1>10, <1>11 DEF induced_subgraph_from_ids, Inside, N

\* What is left of a graph by the nodes that are kept.
LEMMA PartsAre ==
  ASSUME NEW g, IsGraph(g), NEW N \in SUBSET g.node, NEW h, h.node = N, h.edge = g.edge \cap (N \X N)
  PROVE  /\ IsGraph(h)
         /\ \A x, y : <<x, y>> \in h.edge <=> <<x, y>> \in g.edge /\ x \in N /\ y \in N
         /\ \A n : After(h, n) \subseteq After(g, n)
<1>1. IsGraph(h)
  BY DEF IsGraph
<1>2. \A x, y : <<x, y>> \in h.edge <=> <<x, y>> \in g.edge /\ x \in N /\ y \in N
  OBVIOUS
<1>3. ASSUME NEW n PROVE After(h, n) \subseteq After(g, n)
  <2>1. outNeighbors(g, n) \subseteq After(g, n) /\ NoWayOut(g, After(g, n))
    BY AfterIs
  <2>2. outNeighbors(h, n) \subseteq After(g, n) /\ NoWayOut(h, After(g, n))
    BY <1>1, <1>2, <2>1, NeighborsAre DEF NoWayOut
  <2>. QED BY <1>1, <2>2, AfterIs
<1>. QED BY <1>1, <1>2, <1>3

LEMMA KeptByPredicate ==
  ASSUME NEW g, IsGraph(g), NEW keep
  PROVE  LET N == {n \in g.node : keep[n]}
         IN  /\ induced_subgraph_by_node_predicate(g, keep).node = N
             /\ induced_subgraph_by_node_predicate(g, keep).edge = g.edge \cap (N \X N)
<1>. DEFINE N == {n \in g.node : keep[n]}
<1>1. g.node \ {n \in g.node : ~keep[n]} = N
  OBVIOUS
<1>. QED BY <1>1 DEF induced_subgraph_by_node_predicate, induced_subgraph_from_ids, IsGraph

\* The filter that keeps what is connected cuts no path.
LEMMA ConnectionsAreKept ==
  ASSUME NEW g, IsGraph(g), g.node = Id, NEW ns,
         NEW n \in subgraph_by_namespace(g, ns).node, NEW m \in Id
  PROVE  LET near == subgraph_by_namespace_connected(g, ns)
         IN  /\ m \in After(g, n) <=> m \in After(near, n)
             /\ n \in After(g, m) <=> n \in After(near, m)
<1>. DEFINE anchors == {a \in g.node : StartsWith(ns, Space[a])}
            F    == bfs(anchors, {}, Outbound(g))
            B    == bfs(anchors, {}, Inbound(g))
            near == subgraph_by_namespace_connected(g, ns)
<1>1. n \in anchors /\ anchors \in SUBSET Id
  BY KeptByPredicate DEF subgraph_by_namespace
<1>2. /\ Outbound(g) \in [Id -> SUBSET Id] /\ \A a \in Id : Outbound(g)[a] = outNeighbors(g, a)
      /\ Inbound(g) \in [Id -> SUBSET Id] /\ \A a \in Id : Inbound(g)[a] = inNeighbors(g, a)
      /\ {} \in SUBSET Id
  BY NextAre
<1>. HIDE DEF anchors
<1>3. F \in SUBSET Id /\ Holds(F, anchors, {}, Outbound(g))
  BY <1>1, <1>2, SearchIs
<1>4. B \in SUBSET Id /\ Holds(B, anchors, {}, Inbound(g))
  BY <1>1, <1>2, SearchIs
<1>5. near.node = F \cup B /\ near.edge = g.edge \cap (near.node \X near.node)
  <2>. DEFINE keep == [a \in Id |-> a \in F \cup B]
              N    == {a \in g.node : keep[a]}
  <2>1. near = induced_subgraph_by_node_predicate(g, keep)
    BY DEF subgraph_by_namespace_connected, collect_reachable_from_anchors, anchors
  <2>. HIDE DEF F, B, near
  <2>2. N = F \cup B
    BY <1>3, <1>4
  <2>. HIDE DEF keep
  <2>3. near.node = N /\ near.edge = g.edge \cap (N \X N)
    BY <2>1, KeptByPredicate
  <2>. HIDE DEF N
  <2>. QED BY <2>2, <2>3
<1>. HIDE DEF F, B, near
<1>6. /\ IsGraph(near) /\ \A a : After(near, a) \subseteq After(g, a)
      /\ \A x, y : <<x, y>> \in near.edge <=> <<x, y>> \in g.edge /\ x \in near.node /\ y \in near.node
  <2>1. near.node \in SUBSET g.node
    BY <1>3, <1>4, <1>5
  <2>. QED BY <1>5, <2>1, PartsAre
<1>7. n \in F /\ n \in B
  BY <1>1, <1>3, <1>4 DEF Holds
<1>8. /\ \A x, y : <<x, y>> \in g.edge /\ x \in F => y \in F
      /\ \A x, y : <<x, y>> \in g.edge /\ y \in B => x \in B
  BY <1>2, <1>3, <1>4, NeighborsAre DEF Holds
<1>9. After(g, n) \subseteq After(near, n)
  <2>. DEFINE S == After(near, n) \cap F
  <2>1. outNeighbors(near, n) \subseteq After(near, n) /\ NoWayOut(near, After(near, n))
    BY <1>6, AfterIs
  <2>2. outNeighbors(g, n) \subseteq S
    BY <1>5, <1>6, <1>7, <1>8, <2>1, NeighborsAre
  <2>3. NoWayOut(g, S)
    BY <1>5, <1>6, <1>8, <2>1 DEF NoWayOut
  <2>4. After(g, n) \subseteq S
    <3>. HIDE DEF S
    <3>. QED BY <2>2, <2>3, AfterIs
  <2>. QED BY <2>4
<1>10. n \in After(g, m) => n \in After(near, m)
  <2>. DEFINE S == After(near, m) \cup (Id \ B)
  <2>1. outNeighbors(near, m) \subseteq After(near, m) /\ NoWayOut(near, After(near, m))
    BY <1>6, AfterIs
  <2>2. outNeighbors(g, m) \subseteq S
    BY <1>5, <1>6, <1>8, <2>1, NeighborsAre
  <2>3. NoWayOut(g, S)
    <3>. SUFFICES ASSUME NEW x, NEW y, <<x, y>> \in g.edge, x \in S, y \in B PROVE y \in After(near, m)
      BY DEF NoWayOut, IsGraph
    <3>1. x \in B /\ x \in After(near, m)
      BY <1>8
    <3>. QED BY <1>5, <1>6, <2>1, <3>1 DEF NoWayOut
  <2>4. After(g, m) \subseteq S
    <3>. HIDE DEF S
    <3>. QED BY <2>2, <2>3, AfterIs
  <2>. QED BY <1>7, <2>4
<1>. QED BY <1>6, <1>9, <1>10 DEF near

-----------------------------------------------------------------------------
(* Collapsing accessors.                                                   *)

\* What a node reaches through accessors.
Beyond(g, n) == bfs(outNeighbors(g, n), {n},
                    [m \in Id |-> IF default_is_accessor(m) THEN outNeighbors(g, m) ELSE {}])

LEMMA BeyondIs ==
  ASSUME NEW g, IsGraph(g), NEW n \in Id
  PROVE  /\ Beyond(g, n) \subseteq Id /\ outNeighbors(g, n) \subseteq Beyond(g, n)
         /\ \A x, y : <<x, y>> \in g.edge /\ x \in Beyond(g, n) \ {n} /\ default_is_accessor(x)
                       => y \in Beyond(g, n)
         /\ \A S \in SUBSET Id :
              /\ outNeighbors(g, n) \subseteq S
              /\ \A x, y : <<x, y>> \in g.edge /\ x \in S \ {n} /\ default_is_accessor(x) => y \in S
              => Beyond(g, n) \subseteq S \cup {n}
         /\ reach_non_accessor(g, n) = {m \in Beyond(g, n) \ {n} : ~default_is_accessor(m)}
<1>. DEFINE on == [m \in Id |-> IF default_is_accessor(m) THEN outNeighbors(g, m) ELSE {}]
<1>1. Beyond(g, n) = bfs(outNeighbors(g, n), {n}, on)
  BY DEF Beyond
<1>2. on \in [Id -> SUBSET Id] /\ outNeighbors(g, n) \in SUBSET Id /\ {n} \in SUBSET Id
  BY NeighborsAre DEF IsGraph
<1>3. \A m \in Id : \A y : y \in on[m] <=> default_is_accessor(m) /\ <<m, y>> \in g.edge
  BY NeighborsAre
<1>. HIDE DEF on
<1>4. /\ Beyond(g, n) \in SUBSET Id /\ Holds(Beyond(g, n), outNeighbors(g, n), {n}, on)
      /\ \A S \in SUBSET Id : Holds(S, outNeighbors(g, n), {n}, on) => Beyond(g, n) \subseteq S
  BY <1>1, <1>2, SearchIs
<1>5. ASSUME NEW S \in SUBSET Id, outNeighbors(g, n) \subseteq S,
             \A x, y : <<x, y>> \in g.edge /\ x \in S \ {n} /\ default_is_accessor(x) => y \in S
      PROVE  Beyond(g, n) \subseteq S \cup {n}
  <2>1. S \cup {n} \in SUBSET Id
    OBVIOUS
  <2>2. Holds(S \cup {n}, outNeighbors(g, n), {n}, on)
    BY <1>3, <1>5 DEF Holds
  <2>. QED BY <1>4, <2>1, <2>2
<1>6. reach_non_accessor(g, n) = {m \in Beyond(g, n) \ {n} : ~default_is_accessor(m)}
  BY DEF reach_non_accessor, Beyond
<1>7. \A x, y : <<x, y>> \in g.edge /\ x \in Beyond(g, n) \ {n} /\ default_is_accessor(x) => y \in Beyond(g, n)
  BY <1>3, <1>4 DEF Holds
<1>. QED BY <1>4, <1>5, <1>6, <1>7 DEF Holds

\* The edges of the shorter graph.
LEMMA ShortIs ==
  ASSUME NEW g, IsGraph(g)
  PROVE  LET short == collapse_accessor_paths(g)
         IN  /\ short.node = {n \in g.node : ~default_is_accessor(n)} /\ IsGraph(short)
             /\ \A x, y : <<x, y>> \in short.edge <=>
                  x \in short.node /\ y \in short.node /\ y # x /\ y \in Beyond(g, x)
<1>. DEFINE short == collapse_accessor_paths(g)
            kept  == {n \in g.node : ~default_is_accessor(n)}
<1>1. short.node = kept /\ short.edge = UNION {{<<n, m>> : m \in reach_non_accessor(g, n) \cap kept} : n \in kept}
  BY DEF collapse_accessor_paths
<1>2. \A n \in kept : reach_non_accessor(g, n) = {m \in Beyond(g, n) \ {n} : ~default_is_accessor(m)}
  BY BeyondIs DEF IsGraph
<1>. HIDE DEF short
<1>3. \A x, y : <<x, y>> \in short.edge <=> x \in kept /\ y \in kept /\ y \in reach_non_accessor(g, x)
  <2>. HIDE DEF kept
  <2>. QED BY <1>1
<1>4. \A x, y : <<x, y>> \in short.edge <=> x \in kept /\ y \in kept /\ y # x /\ y \in Beyond(g, x)
  BY <1>2, <1>3
<1>5. IsGraph(short)
  BY <1>1 DEF IsGraph
<1>. QED BY <1>1, <1>4, <1>5 DEF short

\* Collapsing keeps the paths between other nodes, and makes none.
LEMMA PathsAreKept ==
  ASSUME NEW g, IsGraph(g), NEW n \in collapse_accessor_paths(g).node,
         NEW m \in collapse_accessor_paths(g).node, n # m
  PROVE  m \in After(g, n) <=> m \in After(collapse_accessor_paths(g), n)
<1>. DEFINE short == collapse_accessor_paths(g)
<1>1. /\ short.node = {a \in g.node : ~default_is_accessor(a)} /\ IsGraph(short) /\ g.node \subseteq Id
      /\ \A x, y : <<x, y>> \in short.edge <=>
           x \in short.node /\ y \in short.node /\ y # x /\ y \in Beyond(g, x)
  BY ShortIs DEF IsGraph
<1>2. n \in short.node /\ m \in short.node
  OBVIOUS
<1>. HIDE DEF short
<1>3. ASSUME m \in After(g, n) PROVE m \in After(short, n)
  <2>. DEFINE U == After(short, n) \cup {n}
              T == U \cup UNION {Beyond(g, a) : a \in U}
  <2>1. /\ After(short, n) \subseteq short.node /\ outNeighbors(short, n) \subseteq After(short, n)
        /\ NoWayOut(short, After(short, n))
    BY <1>1, AfterIs
  <2>2. U \subseteq short.node /\ U \subseteq Id /\ n \in U
    BY <1>1, <1>2, <2>1
  <2>3. \A x, y : x \in U /\ <<x, y>> \in short.edge => y \in U
    BY <1>1, <2>1, NeighborsAre DEF NoWayOut
  <2>. HIDE DEF U
  <2>4. ASSUME NEW x \in T \cap g.node, ~default_is_accessor(x) PROVE x \in U
    <3>1. ASSUME NEW a \in U, x \in Beyond(g, a), x # a PROVE x \in U
      <4>1. x \in short.node /\ a \in short.node
        BY <1>1, <2>2, <2>4
      <4>2. <<a, x>> \in short.edge
        BY <1>1, <3>1, <4>1
      <4>. QED BY <2>3, <4>2
    <3>. QED BY <3>1
  <2>5. \A a \in U : outNeighbors(g, a) \subseteq T
    BY <2>2, BeyondIs
  <2>6. ASSUME NEW x, NEW y, <<x, y>> \in g.edge, x \in T PROVE y \in T
    <3>1. x \in g.node
      BY <2>6 DEF IsGraph
    <3>2. CASE x \in U
      <4>1. y \in outNeighbors(g, x)
        BY <2>6, NeighborsAre
      <4>. QED BY <2>5, <3>2, <4>1
    <3>3. CASE x \notin U
      <4>1. PICK a \in U : x \in Beyond(g, a)
        BY <2>6, <3>3
      <4>2. default_is_accessor(x) /\ x # a
        BY <2>4, <2>6, <3>1, <3>3, <4>1
      <4>3. y \in Beyond(g, a)
        BY <2>2, <2>6, <4>1, <4>2, BeyondIs
      <4>. QED BY <4>3
    <3>. QED BY <3>2, <3>3
  <2>7. After(g, n) \subseteq T
    <3>1. outNeighbors(g, n) \subseteq T /\ NoWayOut(g, T)
      BY <2>2, <2>5, <2>6 DEF NoWayOut
    <3>. HIDE DEF T
    <3>. QED BY <3>1, AfterIs
  <2>8. m \in U
    BY <1>1, <1>2, <1>3, <2>4, <2>7
  <2>. QED BY <2>8 DEF U
<1>4. ASSUME m \in After(short, n) PROVE m \in After(g, n)
  <2>1. /\ After(g, n) \subseteq g.node /\ outNeighbors(g, n) \subseteq After(g, n)
        /\ NoWayOut(g, After(g, n)) /\ After(g, n) \in SUBSET Id
    BY <1>1, AfterIs
  <2>2. ASSUME NEW x \in short.node, x = n \/ x \in After(g, n), NEW y, <<x, y>> \in short.edge
        PROVE  y \in After(g, n)
    <3>1. outNeighbors(g, x) \subseteq After(g, n)
      BY <2>1, <2>2, NeighborsAre DEF NoWayOut
    <3>2. Beyond(g, x) \subseteq After(g, n) \cup {x}
      BY <1>1, <2>1, <3>1, BeyondIs DEF NoWayOut
    <3>. QED BY <1>1, <2>2, <3>2
  <2>3. outNeighbors(short, n) \subseteq After(g, n) /\ NoWayOut(short, After(g, n))
    BY <1>1, <1>2, <2>2, NeighborsAre DEF NoWayOut
  <2>. QED BY <1>1, <1>4, <2>3, AfterIs
<1>. QED BY <1>3, <1>4 DEF short

-----------------------------------------------------------------------------
(* Every traced graph.                                                     *)

LEMMA DrawnAreGraphs ==
  Drawn => [](traced.node = Id /\ IsGraph(traced) /\ traced = [node |-> traced.node, edge |-> traced.edge])
<1>. DEFINE Inv == traced.node = Id /\ IsGraph(traced) /\ traced = [node |-> traced.node, edge |-> traced.edge]
<1>1. NoEdges => Inv
  BY DEF NoEdges, IsGraph
<1>2. Inv /\ [Grow]_traced => Inv'
  <2>. SUFFICES ASSUME Inv, [Grow]_traced PROVE Inv'
    OBVIOUS
  <2>1. CASE UNCHANGED traced
    BY <2>1 DEF IsGraph
  <2>2. ASSUME NEW e \in Steps, AddEdge(e) PROVE Inv'
    <3>1. traced' = [node |-> traced.node, edge |-> traced.edge \cup {e}] /\ e \in Id \X Id
      BY <2>2 DEF AddEdge, Steps
    <3>. QED BY <3>1 DEF IsGraph
  <2>. QED BY <2>1, <2>2 DEF Grow
<1>. QED BY <1>1, <1>2, PTL DEF Drawn

\* However many nodes a traced graph has and whatever cycles, the searches answer
\* what its paths are; the connected filter and the collapsing of accessors keep
\* the paths they are to keep and make no new ones.
THEOREM SearchesAreRight == Drawn => []SearchesFollowPaths
<1>1. traced.node = Id /\ IsGraph(traced) => SearchesFollowPaths
  <2>. SUFFICES ASSUME traced.node = Id, IsGraph(traced) PROVE SearchesFollowPaths
    OBVIOUS
  <2>1. \A g : \A n \in Id : Paths(g)[n] = After(g, n)
    BY DEF Paths
  <2>2. enumerate_reachable_pairs(traced) = {p \in Id \X Id : p[2] \in Paths(traced)[p[1]]}
    BY <2>1, PairsAreReached
  <2>3. ASSUME NEW n \in Id
        PROVE  connected_component(traced, {n}) = Inside(traced, {n} \cup After(Both(traced), n))
    <3>1. {n} \in SUBSET Id /\ {n} \cup UNION {After(Both(traced), m) : m \in {n}} = {n} \cup After(Both(traced), n)
      OBVIOUS
    <3>2. connected_component(traced, {n})
            = Inside(traced, {n} \cup UNION {After(Both(traced), m) : m \in {n}})
      BY <3>1, ComponentsAreConnected
    <3>. QED BY <3>1, <3>2
  <2>4. ASSUME NEW ns \in Spaces, NEW n \in subgraph_by_namespace(traced, ns).node, NEW m \in Id
        PROVE  LET near == Paths(subgraph_by_namespace_connected(traced, ns))
               IN  /\ m \in Paths(traced)[n] <=> m \in near[n]
                   /\ n \in Paths(traced)[m] <=> n \in near[m]
    <3>1. n \in Id
      BY KeptByPredicate DEF subgraph_by_namespace
    <3>. QED BY <2>1, <3>1, ConnectionsAreKept
  <2>5. ASSUME NEW n \in collapse_accessor_paths(traced).node, NEW m \in collapse_accessor_paths(traced).node,
               n # m
        PROVE  m \in Paths(traced)[n] <=> m \in Paths(collapse_accessor_paths(traced))[n]
    <3>1. n \in Id /\ m \in Id
      BY ShortIs
    <3>. QED BY <2>1, <2>5, <3>1, PathsAreKept
  <2>. QED BY <2>2, <2>3, <2>4, <2>5 DEF SearchesFollowPaths
<1>. QED BY <1>1, DrawnAreGraphs, PTL

-----------------------------------------------------------------------------
(* Unification.                                                            *)

IsTerm(t) == (\E n : t = Var(n)) \/ (\E x : t = Atom(x))

\* What a term stands for when the variables have values.
Val(t, a) == IF IsVar(t) THEN a[t.var] ELSE t.atom

\* A substitution in which no chain of variables comes back to its start, and the
\* values that respect it.
Ranked(s, rank) ==
  \A v \in DOMAIN s : rank[v] \in Nat /\ (Bound(s[v], s) => rank[s[v].var] < rank[v])
Fine(s) == /\ s = [v \in DOMAIN s |-> s[v]] /\ \A v \in DOMAIN s : IsTerm(s[v])
           /\ \E rank : Ranked(s, rank)
Meets(a, s) == \A v \in DOMAIN s : a[v] = Val(s[v], a)

LEMMA TermsAre ==
  /\ \A n : IsTerm(Var(n)) /\ IsVar(Var(n)) /\ Var(n).var = n
  /\ \A x : IsTerm(Atom(x)) /\ ~IsVar(Atom(x)) /\ Atom(x).atom = x
  /\ \A t : IsTerm(t) => IF IsVar(t) THEN t = Var(t.var) ELSE t = Atom(t.atom)
  /\ \A n, m : Var(n) = Var(m) => n = m
  /\ \A x, y : Atom(x) = Atom(y) => x = y
<1>1. \A n : IsTerm(Var(n)) /\ IsVar(Var(n)) /\ Var(n).var = n
  BY DEF IsTerm, IsVar, Var
<1>2. \A x : IsTerm(Atom(x)) /\ ~IsVar(Atom(x)) /\ Atom(x).atom = x
  BY DEF IsTerm, IsVar, Atom
<1>3. \A t : IsTerm(t) => IF IsVar(t) THEN t = Var(t.var) ELSE t = Atom(t.atom)
  BY <1>1, <1>2 DEF IsTerm
<1>. QED BY <1>1, <1>2, <1>3

\* Following a term through a substitution.
LEMMA ResolveIs ==
  ASSUME NEW s, Fine(s), NEW t, IsTerm(t)
  PROVE  /\ IsTerm(resolve_var(t, s)) /\ ~Bound(resolve_var(t, s), s)
         /\ ~Bound(t, s) => resolve_var(t, s) = t
         /\ Bound(t, s) => resolve_var(t, s) = resolve_var(s[t.var], s)
         /\ \A a : Meets(a, s) => Val(resolve_var(t, s), a) = Val(t, a)
<1>. DEFINE names == DOMAIN s
            done  == {v \in names : ~Bound(s[v], s)}
            step  == [v \in names |-> s[v].var]
            body(e) == [v \in names |-> IF Bound(s[v], s) THEN e[s[v].var] ELSE s[v]]
            end   == CHOOSE e : e = body(e)
<1>1. \A v \in names : v \notin done => step[v] \in names
  BY DEF Bound
<1>2. end = body(end)
  <2>1. PICK f : Loops(f, names, step, done)
    <3>. HIDE DEF names, done, step
    <3>. QED BY <1>1, LoopExists
  <2>. DEFINE e == [v \in names |-> s[f[v]]]
  <2>2. \A v \in names : f[v] = IF v \in done THEN v ELSE f[step[v]]
    BY <2>1 DEF Loops
  <2>3. \A v \in names : e[v] = IF Bound(s[v], s) THEN e[s[v].var] ELSE s[v]
    BY <1>1, <2>2
  <2>4. e = body(e)
    <3>1. e = [v \in names |-> e[v]]
      OBVIOUS
    <3>. HIDE DEF e
    <3>. QED BY <2>3, <3>1
  <2>. HIDE DEF body, e
  <2>. QED BY <2>4
<1>3. \A u : resolve_var(u, s) = IF Bound(u, s) THEN end[u.var] ELSE u
  BY DEF resolve_var
<1>. HIDE DEF end
<1>4. \A v \in names : end[v] = IF Bound(s[v], s) THEN end[s[v].var] ELSE s[v]
  BY <1>2
<1>. DEFINE Followed(v) == /\ IsTerm(end[v]) /\ ~Bound(end[v], s)
                       /\ \A a : Meets(a, s) => Val(end[v], a) = a[v]
            bad == {v \in names : ~Followed(v)}
<1>5. bad = {}
  <2>. SUFFICES ASSUME bad # {} PROVE FALSE
    OBVIOUS
  <2>1. PICK rank : Ranked(s, rank)
    BY DEF Fine
  <2>2. PICK v \in bad : \A w \in bad : rank[v] <= rank[w]
    <3>1. \A w \in bad : rank[w] \in Nat
      BY <2>1 DEF Ranked
    <3>. HIDE DEF bad
    <3>. QED BY <3>1, LeastOf
  <2>3. v \in names /\ IsTerm(s[v]) /\ \A a : Meets(a, s) => Val(s[v], a) = a[v]
    BY DEF Fine, Meets
  <2>4. CASE Bound(s[v], s)
    <3>1. s[v].var \in names /\ rank[s[v].var] < rank[v] /\ rank[s[v].var] \in Nat /\ rank[v] \in Nat
      BY <2>1, <2>3, <2>4 DEF Ranked, Bound
    <3>2. s[v].var \notin bad
      <4>. HIDE DEF bad
      <4>. QED BY <2>2, <3>1
    <3>3. Followed(s[v].var) /\ end[v] = end[s[v].var]
      BY <1>4, <2>3, <2>4, <3>1, <3>2
    <3>4. \A a : Meets(a, s) => a[s[v].var] = a[v]
      BY <2>3, <2>4 DEF Bound, Val
    <3>5. Followed(v)
      BY <3>3, <3>4
    <3>. QED BY <3>5
  <2>5. CASE ~Bound(s[v], s)
    <3>1. end[v] = s[v]
      BY <1>4, <2>3, <2>5
    <3>2. Followed(v)
      BY <2>3, <2>5, <3>1
    <3>. QED BY <3>2
  <2>. QED BY <2>4, <2>5
<1>6. \A v \in names : Followed(v)
  BY <1>5
<1>. HIDE DEF Followed
<1>7. CASE Bound(t, s)
  <2>1. t.var \in names /\ Followed(t.var) /\ resolve_var(t, s) = end[t.var] /\ IsVar(t)
    BY <1>3, <1>6, <1>7 DEF Bound
  <2>2. resolve_var(s[t.var], s) = end[t.var]
    BY <1>3, <1>4, <2>1
  <2>. QED BY <1>7, <2>1, <2>2 DEF Followed, Val
<1>8. CASE ~Bound(t, s)
  BY <1>3, <1>8
<1>. QED BY <1>7, <1>8

\* Binding a variable that is not bound yet.
LEMMA BindIs ==
  ASSUME NEW s, Fine(s), NEW v, v \notin DOMAIN s, NEW t, IsTerm(t), ~Bound(t, s), t # Var(v)
  PROVE  /\ Fine(bind_var(Var(v), t, s))
         /\ \A a : Meets(a, bind_var(Var(v), t, s)) <=> Meets(a, s) /\ a[v] = Val(t, a)
<1>. DEFINE u == bind_var(Var(v), t, s)
<1>1. u = [n \in DOMAIN s \cup {v} |-> IF n = v THEN t ELSE s[n]]
  BY TermsAre DEF bind_var
<1>. HIDE DEF u
<1>2. DOMAIN u = DOMAIN s \cup {v} /\ u[v] = t /\ \A n \in DOMAIN s : u[n] = s[n]
  BY <1>1
<1>3. PICK rank : Ranked(s, rank)
  BY DEF Fine
<1>. DEFINE more == [n \in DOMAIN u |-> IF n = v THEN 0 ELSE rank[n] + 1]
<1>4. Ranked(u, more)
  <2>1. ~Bound(t, u)
    BY <1>2, TermsAre DEF Bound
  <2>2. ASSUME NEW n \in DOMAIN s PROVE more[n] \in Nat /\ (Bound(u[n], u) => more[u[n].var] < more[n])
    <3>1. rank[n] \in Nat /\ more[n] = rank[n] + 1 /\ u[n] = s[n] /\ more[v] = 0
      BY <1>2, <1>3 DEF Ranked
    <3>2. CASE s[n].var = v
      BY <3>1, <3>2
    <3>3. ASSUME Bound(u[n], u), s[n].var # v PROVE more[u[n].var] < more[n]
      <4>1. s[n].var \in DOMAIN s /\ Bound(s[n], s)
        BY <1>2, <3>1, <3>3 DEF Bound
      <4>2. rank[s[n].var] < rank[n] /\ rank[s[n].var] \in Nat
        BY <1>3, <4>1 DEF Ranked
      <4>. QED BY <1>2, <3>1, <3>3, <4>1, <4>2
    <3>. QED BY <3>1, <3>2, <3>3
  <2>. HIDE DEF more
  <2>3. more[v] \in Nat
    BY <1>2 DEF more
  <2>. QED BY <1>2, <2>1, <2>2, <2>3 DEF Ranked
<1>5. Fine(u)
  <2>1. u = [n \in DOMAIN u |-> u[n]]
    BY <1>1
  <2>2. \A n \in DOMAIN u : IsTerm(u[n])
    BY <1>2 DEF Fine
  <2>. QED BY <1>4, <2>1, <2>2 DEF Fine
<1>6. \A a : Meets(a, u) <=> Meets(a, s) /\ a[v] = Val(t, a)
  BY <1>2 DEF Meets
<1>. QED BY <1>5, <1>6 DEF u

\* A substitution under which two terms are the same is the least that makes them
\* so, and there is none only when no values do.
LEMMA UnifyIs ==
  ASSUME NEW s, Fine(s), NEW l, NEW r, IsTerm(l), IsTerm(r)
  PROVE  \/ /\ unify(l, r, s) = {} /\ \A a : ~(Meets(a, s) /\ Val(l, a) = Val(r, a))
         \/ \E u : /\ unify(l, r, s) = {u} /\ Fine(u)
                   /\ \A a : Meets(a, u) <=> Meets(a, s) /\ Val(l, a) = Val(r, a)
<1>. DEFINE x == resolve_var(l, s)
            y == resolve_var(r, s)
<1>1. /\ IsTerm(x) /\ IsTerm(y) /\ ~Bound(x, s) /\ ~Bound(y, s)
      /\ \A a : Meets(a, s) => Val(x, a) = Val(l, a) /\ Val(y, a) = Val(r, a)
  BY ResolveIs
<1>2. unify(l, r, s) = IF x = y THEN {s} ELSE IF IsVar(x) THEN {bind_var(x, y, s)}
                       ELSE IF IsVar(y) THEN {bind_var(y, x, s)} ELSE {}
  BY DEF unify
<1>. HIDE DEF x, y
<1>3. CASE x = y
  BY <1>1, <1>2, <1>3
<1>4. CASE x # y /\ IsVar(x)
  <2>1. x = Var(x.var) /\ x.var \notin DOMAIN s /\ y # Var(x.var) /\ \A a : Val(x, a) = a[x.var]
    BY <1>1, <1>4, TermsAre DEF Bound, Val
  <2>2. /\ Fine(bind_var(x, y, s))
        /\ \A a : Meets(a, bind_var(x, y, s)) <=> Meets(a, s) /\ a[x.var] = Val(y, a)
    BY <1>1, <2>1, BindIs
  <2>3. unify(l, r, s) = {bind_var(x, y, s)}
    BY <1>2, <1>4
  <2>4. \A a : Meets(a, bind_var(x, y, s)) <=> Meets(a, s) /\ Val(l, a) = Val(r, a)
    BY <1>1, <2>1, <2>2
  <2>. QED BY <2>2, <2>3, <2>4
<1>5. CASE x # y /\ ~IsVar(x) /\ IsVar(y)
  <2>1. y = Var(y.var) /\ y.var \notin DOMAIN s /\ x # Var(y.var) /\ \A a : Val(y, a) = a[y.var]
    BY <1>1, <1>5, TermsAre DEF Bound, Val
  <2>2. /\ Fine(bind_var(y, x, s))
        /\ \A a : Meets(a, bind_var(y, x, s)) <=> Meets(a, s) /\ a[y.var] = Val(x, a)
    BY <1>1, <2>1, BindIs
  <2>3. unify(l, r, s) = {bind_var(y, x, s)}
    BY <1>2, <1>5
  <2>4. \A a : Meets(a, bind_var(y, x, s)) <=> Meets(a, s) /\ Val(l, a) = Val(r, a)
    BY <1>1, <2>1, <2>2
  <2>. QED BY <2>2, <2>3, <2>4
<1>6. CASE x # y /\ ~IsVar(x) /\ ~IsVar(y)
  <2>1. x = Atom(x.atom) /\ y = Atom(y.atom) /\ \A a : Val(x, a) = x.atom /\ Val(y, a) = y.atom
    BY <1>1, <1>6, TermsAre DEF Val
  <2>2. \A a : Meets(a, s) => Val(l, a) # Val(r, a)
    BY <1>1, <1>6, <2>1
  <2>. QED BY <1>2, <1>6, <2>2
<1>. QED BY <1>3, <1>4, <1>5, <1>6

\* Unifying the first n of a row of terms.
Threads(under, terms, row, subst, n) ==
  under = [i \in 0..n |-> IF i = 0 THEN {subst} ELSE UNION {unify(terms[i], row[i], s) : s \in under[i - 1]}]

LEMMA ThreadsExist ==
  ASSUME NEW terms, NEW row, NEW subst, NEW n \in Nat
  PROVE  \E under : Threads(under, terms, row, subst, n)
<1>. DEFINE bad == {m \in Nat : ~\E under : Threads(under, terms, row, subst, m)}
<1>. SUFFICES ASSUME bad # {} PROVE FALSE
  OBVIOUS
<1>1. PICK m \in bad : \A l \in bad : m <= l
  <2>. HIDE DEF bad
  <2>1. bad \subseteq Nat
    BY DEF bad
  <2>. QED BY <2>1, LeastNumber
<1>2. m # 0
  <2>. DEFINE k == [i \in 0..0 |-> {subst}]
  <2>1. k = [i \in 0..0 |-> IF i = 0 THEN {subst}
                            ELSE UNION {unify(terms[i], row[i], s) : s \in k[i - 1]}]
    OBVIOUS
  <2>2. Threads(k, terms, row, subst, 0)
    BY <2>1 DEF Threads
  <2>. QED BY <2>2
<1>3. m - 1 \in Nat /\ m - 1 \notin bad /\ m \in Nat
  <2>1. m \in Nat
    OBVIOUS
  <2>. HIDE DEF bad
  <2>. QED BY <1>1, <1>2, <2>1
<1>4. PICK under : Threads(under, terms, row, subst, m - 1)
  BY <1>3
<1>. DEFINE last == UNION {unify(terms[m], row[m], s) : s \in under[m - 1]}
            more == [i \in 0..m |-> IF i = m THEN last ELSE under[i]]
<1>5. \A i \in 0..(m - 1) : under[i] = IF i = 0 THEN {subst} ELSE UNION {unify(terms[i], row[i], s) : s \in under[i - 1]}
  <2>. HIDE DEF bad
  <2>. QED BY <1>4 DEF Threads
<1>6. /\ more[m] = last /\ m - 1 \in 0..(m - 1) /\ more[m - 1] = under[m - 1]
      /\ \A i \in 0..(m - 1) : more[i] = under[i]
  <2>. HIDE DEF bad, last
  <2>. QED BY <1>2, <1>3
<1>7. ASSUME NEW i \in 0..m PROVE more[i] = IF i = 0 THEN {subst} ELSE UNION {unify(terms[i], row[i], s) : s \in more[i - 1]}
  <2>1. CASE i = m
    <3>. HIDE DEF bad, more
    <3>. QED BY <1>2, <1>6, <2>1
  <2>2. CASE i # m
    <3>1. i \in 0..(m - 1) /\ (i # 0 => i - 1 \in 0..(m - 1))
      <4>. HIDE DEF bad, more, last
      <4>. QED BY <1>3, <2>2
    <3>2. more[i] = under[i] /\ (i # 0 => more[i - 1] = under[i - 1])
      <4>. HIDE DEF bad, more
      <4>. QED BY <1>6, <3>1
    <3>. HIDE DEF bad, more, last
    <3>. QED BY <1>5, <3>1, <3>2
  <2>. QED BY <2>1, <2>2
<1>8. Threads(more, terms, row, subst, m)
  <2>1. more = [i \in 0..m |-> more[i]]
    OBVIOUS
  <2>. HIDE DEF more
  <2>. QED BY <1>7, <2>1 DEF Threads
<1>. QED BY <1>1, <1>8

\* Values under which the first n terms of a row are those of another.
Same(a, terms, row, n) == \A i \in 1..n : Val(terms[i], a) = Val(row[i], a)

LEMMA RowIs ==
  ASSUME NEW s, Fine(s), NEW n \in Nat, NEW terms, NEW row, Len(terms) = n, Len(row) = n,
         \A i \in 1..n : IsTerm(terms[i]) /\ IsTerm(row[i])
  PROVE  \/ /\ UnifyRow(terms, row, s) = {} /\ \A a : ~(Meets(a, s) /\ Same(a, terms, row, n))
         \/ \E u : /\ UnifyRow(terms, row, s) = {u} /\ Fine(u)
                   /\ \A a : Meets(a, u) <=> Meets(a, s) /\ Same(a, terms, row, n)
<1>. DEFINE body(k) == [i \in 0..n |-> IF i = 0 THEN {s} ELSE UNION {unify(terms[i], row[i], d) : d \in k[i - 1]}]
            under == CHOOSE k : k = body(k)
<1>1. UnifyRow(terms, row, s) = under[n]
  BY DEF UnifyRow
<1>2. under = body(under)
  <2>1. PICK k : Threads(k, terms, row, s, n)
    BY ThreadsExist
  <2>2. k = body(k)
    BY <2>1 DEF Threads
  <2>. HIDE DEF body
  <2>. QED BY <2>2
<1>. HIDE DEF under
<1>3. \A i \in 0..n : under[i] = IF i = 0 THEN {s} ELSE UNION {unify(terms[i], row[i], d) : d \in under[i - 1]}
  BY <1>2
<1>. DEFINE None(i) == under[i] = {} /\ \A a : ~(Meets(a, s) /\ Same(a, terms, row, i))
            One(i)  == \E u : /\ under[i] = {u} /\ Fine(u)
                              /\ \A a : Meets(a, u) <=> Meets(a, s) /\ Same(a, terms, row, i)
            bad == {i \in 0..n : ~(None(i) \/ One(i))}
<1>4. bad = {}
  <2>. SUFFICES ASSUME bad # {} PROVE FALSE
    OBVIOUS
  <2>1. PICK i \in bad : \A j \in bad : i <= j
    <3>1. bad \subseteq Nat
      OBVIOUS
    <3>. HIDE DEF bad
    <3>. QED BY <3>1, LeastNumber
  <2>2. i \in 0..n
    OBVIOUS
  <2>3. i # 0
    <3>0. 0 \in 0..n
      OBVIOUS
    <3>1. under[0] = {s}
      BY <1>3, <3>0
    <3>2. \A a : Same(a, terms, row, 0)
      BY DEF Same
    <3>3. One(0)
      BY <3>1, <3>2
    <3>. QED BY <3>3
  <2>4. i \in 1..n /\ i - 1 \in 0..n /\ i - 1 \notin bad
    <3>. HIDE DEF bad
    <3>. QED BY <2>1, <2>2, <2>3
  <2>5. None(i - 1) \/ One(i - 1)
    <3>. HIDE DEF None, One
    <3>. QED BY <2>4
  <2>6. \A a : Same(a, terms, row, i) <=> Same(a, terms, row, i - 1) /\ Val(terms[i], a) = Val(row[i], a)
    BY <2>4 DEF Same
  <2>7. under[i] = UNION {unify(terms[i], row[i], d) : d \in under[i - 1]}
    BY <1>3, <2>3, <2>4
  <2>8. CASE None(i - 1)
    <3>1. None(i)
      BY <2>6, <2>7, <2>8
    <3>. QED BY <3>1
  <2>9. CASE One(i - 1)
    <3>1. PICK d : /\ under[i - 1] = {d} /\ Fine(d)
                   /\ \A a : Meets(a, d) <=> Meets(a, s) /\ Same(a, terms, row, i - 1)
      BY <2>9
    <3>2. under[i] = unify(terms[i], row[i], d)
      BY <2>7, <3>1
    <3>3. IsTerm(terms[i]) /\ IsTerm(row[i])
      BY <2>4
    <3>4. \/ unify(terms[i], row[i], d) = {} /\ \A a : ~(Meets(a, d) /\ Val(terms[i], a) = Val(row[i], a))
          \/ \E u : /\ unify(terms[i], row[i], d) = {u} /\ Fine(u)
                    /\ \A a : Meets(a, u) <=> Meets(a, d) /\ Val(terms[i], a) = Val(row[i], a)
      BY <3>1, <3>3, UnifyIs
    <3>5. None(i) \/ One(i)
      BY <2>6, <3>1, <3>2, <3>4
    <3>. HIDE DEF None, One
    <3>. QED BY <2>2, <3>5
  <2>. QED BY <2>5, <2>8, <2>9
<1>5. None(n) \/ One(n)
  <2>1. n \in 0..n
    OBVIOUS
  <2>. HIDE DEF None, One
  <2>. QED BY <1>4, <2>1
<1>. QED BY <1>1, <1>5

\* There are values that respect a substitution, whatever those of the variables
\* it leaves free.
LEMMA ValuesExist ==
  ASSUME NEW s, Fine(s), NEW b, NEW w
  PROVE  \E a : Meets(a, s) /\ (w \notin DOMAIN s => a[w] = b)
<1>. DEFINE at(t)  == IF IsVar(resolve_var(t, s)) THEN b ELSE resolve_var(t, s).atom
            names  == DOMAIN s \cup {s[v].var : v \in DOMAIN s} \cup {w}
            a      == [n \in names |-> at(Var(n))]
<1>1. ASSUME NEW t, IsTerm(t), IsVar(t) => t.var \in names
      PROVE  Val(t, a) = at(t)
  <2>1. CASE IsVar(t)
    BY <1>1, <2>1, TermsAre DEF Val
  <2>2. CASE ~IsVar(t)
    <3>1. resolve_var(t, s) = t
      BY <1>1, <2>2, ResolveIs DEF Bound
    <3>. QED BY <2>2, <3>1 DEF Val
  <2>. QED BY <2>1, <2>2
<1>2. ASSUME NEW v \in DOMAIN s PROVE a[v] = Val(s[v], a)
  <2>1. IsTerm(s[v]) /\ v \in names /\ s[v].var \in names
    BY DEF Fine
  <2>2. Val(s[v], a) = at(s[v])
    <3>. HIDE DEF a, names, at
    <3>. QED BY <1>1, <2>1
  <2>3. Bound(Var(v), s) /\ IsTerm(Var(v)) /\ Var(v).var = v
    BY TermsAre DEF Bound
  <2>4. resolve_var(Var(v), s) = resolve_var(s[v], s)
    BY <2>3, ResolveIs
  <2>. QED BY <2>1, <2>2, <2>4
<1>3. ASSUME w \notin DOMAIN s PROVE a[w] = b
  <2>1. ~Bound(Var(w), s) /\ IsTerm(Var(w)) /\ IsVar(Var(w))
    BY <1>3, TermsAre DEF Bound
  <2>2. resolve_var(Var(w), s) = Var(w)
    BY <2>1, ResolveIs
  <2>. QED BY <2>1, <2>2
<1>. HIDE DEF a
<1>. QED BY <1>2, <1>3 DEF Meets

\* A term is followed to an atom when all values that respect the substitution
\* agree on it.
LEMMA GroundIs ==
  ASSUME NEW s, Fine(s), NEW t, IsTerm(t), NEW x
  PROVE  resolve_var(t, s) = Atom(x) <=> \A a : Meets(a, s) => Val(t, a) = x
<1>. DEFINE r == resolve_var(t, s)
<1>1. IsTerm(r) /\ ~Bound(r, s) /\ \A a : Meets(a, s) => Val(r, a) = Val(t, a)
  BY ResolveIs
<1>. HIDE DEF r
<1>2. ASSUME r = Atom(x) PROVE \A a : Meets(a, s) => Val(t, a) = x
  BY <1>1, <1>2, TermsAre DEF Val
<1>3. ASSUME \A a : Meets(a, s) => Val(t, a) = x PROVE r = Atom(x)
  <2>1. CASE IsVar(r)
    <3>1. r.var \notin DOMAIN s
      BY <1>1, <2>1 DEF Bound
    <3>2. PICK b : b # x
      <4>1. {{}} # {}
        OBVIOUS
      <4>2. CASE x = {}
        BY <4>1, <4>2
      <4>3. CASE x # {}
        BY <4>3
      <4>. QED BY <4>2, <4>3
    <3>3. PICK a : Meets(a, s) /\ a[r.var] = b
      BY <3>1, ValuesExist
    <3>. QED BY <1>1, <1>3, <2>1, <3>2, <3>3 DEF Val
  <2>2. CASE ~IsVar(r)
    <3>1. PICK a : Meets(a, s)
      BY ValuesExist
    <3>. QED BY <1>1, <1>3, <2>2, <3>1, TermsAre DEF Val
  <2>. QED BY <2>1, <2>2
<1>. QED BY <1>2, <1>3 DEF r

-----------------------------------------------------------------------------
(* Goals.                                                                  *)

Going(st) == st = [subst |-> st.subst, counter |-> st.counter] /\ Fine(st.subst)

\* Walking through the rows of a relation gives a state for each row that fits.
LEMMA RowsAre ==
  ASSUME NEW st, Going(st), NEW n \in Nat, NEW rows, NEW terms, Len(terms) = n,
         \A i \in 1..n : IsTerm(terms[i]),
         \A row \in rows : Len(row) = n /\ \A i \in 1..n : IsTerm(row[i])
  PROVE  /\ \A u \in Rows(rows, terms, st) :
              Going(u) /\ \E row \in rows : \A a :
                Meets(a, u.subst) <=> Meets(a, st.subst) /\ Same(a, terms, row, n)
         /\ \A row \in rows : \A a :
              Meets(a, st.subst) /\ Same(a, terms, row, n)
                => \E u \in Rows(rows, terms, st) : Meets(a, u.subst)
<1>. DEFINE with(s) == [st EXCEPT !.subst = s]
            Fits(row) == UnifyRow(terms, row, st.subst)
<1>1. \A s : with(s) = [subst |-> s, counter |-> st.counter] /\ with(s).subst = s /\ with(s).counter = st.counter
  BY DEF Going
<1>2. Rows(rows, terms, st) = {with(s) : s \in UNION {Fits(row) : row \in rows}}
  BY DEF Rows
<1>3. ASSUME NEW row \in rows
      PROVE  \/ /\ Fits(row) = {} /\ \A a : ~(Meets(a, st.subst) /\ Same(a, terms, row, n))
             \/ \E u : /\ Fits(row) = {u} /\ Fine(u)
                       /\ \A a : Meets(a, u) <=> Meets(a, st.subst) /\ Same(a, terms, row, n)
  <2>1. Len(row) = n /\ \A i \in 1..n : IsTerm(terms[i]) /\ IsTerm(row[i])
    OBVIOUS
  <2>. QED BY <2>1, RowIs DEF Going
<1>. HIDE DEF with, Fits
<1>4. ASSUME NEW u \in Rows(rows, terms, st)
      PROVE  Going(u) /\ \E row \in rows : \A a :
                Meets(a, u.subst) <=> Meets(a, st.subst) /\ Same(a, terms, row, n)
  <2>1. PICK row \in rows : \E s \in Fits(row) : u = with(s)
    BY <1>2
  <2>2. PICK s \in Fits(row) : u = with(s)
    BY <2>1
  <2>3. Fine(s) /\ \A a : Meets(a, s) <=> Meets(a, st.subst) /\ Same(a, terms, row, n)
    BY <1>3, <2>2
  <2>4. u = [subst |-> s, counter |-> st.counter] /\ u.subst = s /\ u.counter = st.counter
    BY <1>1, <2>2
  <2>. QED BY <2>3, <2>4 DEF Going
<1>5. ASSUME NEW row \in rows, NEW a, Meets(a, st.subst), Same(a, terms, row, n)
      PROVE  \E u \in Rows(rows, terms, st) : Meets(a, u.subst)
  <2>1. PICK s \in Fits(row) : Meets(a, s)
    BY <1>3, <1>5
  <2>2. with(s) \in Rows(rows, terms, st)
    BY <1>2
  <2>. QED BY <1>1, <2>1, <2>2
<1>. QED BY <1>4, <1>5

\* The same for a relation of two.
LEMMA PairRowsAre ==
  ASSUME NEW st, Going(st), NEW R, NEW terms, Len(terms) = 2, IsTerm(terms[1]), IsTerm(terms[2])
  PROVE  LET rows == {<<Atom(e[1]), Atom(e[2])>> : e \in R}
         IN  /\ \A u \in Rows(rows, terms, st) :
                  Going(u) /\ \E e \in R : \A a :
                    Meets(a, u.subst) <=> Meets(a, st.subst) /\ Val(terms[1], a) = e[1] /\ Val(terms[2], a) = e[2]
             /\ \A e \in R : \A a :
                  Meets(a, st.subst) /\ Val(terms[1], a) = e[1] /\ Val(terms[2], a) = e[2]
                    => \E u \in Rows(rows, terms, st) : Meets(a, u.subst)
<1>. DEFINE rows == {<<Atom(e[1]), Atom(e[2])>> : e \in R}
<1>1. \A i \in 1..2 : IsTerm(terms[i])
  <2>1. \A i \in 1..2 : i = 1 \/ i = 2
    OBVIOUS
  <2>. QED BY <2>1
<1>2. ASSUME NEW row \in rows PROVE Len(row) = 2 /\ \A i \in 1..2 : IsTerm(row[i])
  <2>1. PICK e \in R : row = <<Atom(e[1]), Atom(e[2])>>
    OBVIOUS
  <2>2. Len(row) = 2 /\ row[1] = Atom(e[1]) /\ row[2] = Atom(e[2])
    BY <2>1
  <2>3. \A i \in 1..2 : i = 1 \/ i = 2
    OBVIOUS
  <2>. QED BY <2>2, <2>3, TermsAre
<1>3. ASSUME NEW e, NEW a
      PROVE  Same(a, terms, <<Atom(e[1]), Atom(e[2])>>, 2)
               <=> Val(terms[1], a) = e[1] /\ Val(terms[2], a) = e[2]
  <2>. DEFINE row == <<Atom(e[1]), Atom(e[2])>>
  <2>1. Val(row[1], a) = e[1] /\ Val(row[2], a) = e[2]
    BY TermsAre DEF Val
  <2>2. \A i : i \in 1..2 <=> i = 1 \/ i = 2
    OBVIOUS
  <2>. HIDE DEF row
  <2>3. Same(a, terms, row, 2) <=> Val(terms[1], a) = e[1] /\ Val(terms[2], a) = e[2]
    BY <2>1, <2>2 DEF Same
  <2>. QED BY <2>3 DEF row
<1>4. \A row \in rows : \E e \in R : row = <<Atom(e[1]), Atom(e[2])>>
  OBVIOUS
<1>5. \A e \in R : <<Atom(e[1]), Atom(e[2])>> \in rows
  OBVIOUS
<1>6. /\ \A u \in Rows(rows, terms, st) :
           Going(u) /\ \E row \in rows : \A a :
             Meets(a, u.subst) <=> Meets(a, st.subst) /\ Same(a, terms, row, 2)
      /\ \A row \in rows : \A a :
           Meets(a, st.subst) /\ Same(a, terms, row, 2)
             => \E u \in Rows(rows, terms, st) : Meets(a, u.subst)
  <2>. HIDE DEF rows
  <2>. QED BY <1>1, <1>2, RowsAre
<1>. HIDE DEF rows
<1>7. ASSUME NEW u \in Rows(rows, terms, st)
      PROVE  Going(u) /\ \E e \in R : \A a :
                Meets(a, u.subst) <=> Meets(a, st.subst) /\ Val(terms[1], a) = e[1] /\ Val(terms[2], a) = e[2]
  <2>1. PICK row \in rows : \A a : Meets(a, u.subst) <=> Meets(a, st.subst) /\ Same(a, terms, row, 2)
    BY <1>6
  <2>2. PICK e \in R : row = <<Atom(e[1]), Atom(e[2])>>
    BY <1>4
  <2>. QED BY <1>3, <1>6, <2>1, <2>2
<1>8. ASSUME NEW e \in R, NEW a, Meets(a, st.subst), Val(terms[1], a) = e[1], Val(terms[2], a) = e[2]
      PROVE  \E u \in Rows(rows, terms, st) : Meets(a, u.subst)
  BY <1>3, <1>5, <1>6, <1>8
<1>. QED BY <1>7, <1>8 DEF rows

\* And for a set.
LEMMA SetRowsAre ==
  ASSUME NEW st, Going(st), NEW S, NEW t, IsTerm(t)
  PROVE  LET rows == {<<Atom(n)>> : n \in S}
         IN  /\ \A u \in Rows(rows, <<t>>, st) :
                  Going(u) /\ \E n \in S : \A a : Meets(a, u.subst) <=> Meets(a, st.subst) /\ Val(t, a) = n
             /\ \A n \in S : \A a :
                  Meets(a, st.subst) /\ Val(t, a) = n => \E u \in Rows(rows, <<t>>, st) : Meets(a, u.subst)
<1>. DEFINE rows  == {<<Atom(n)>> : n \in S}
            terms == <<t>>
<1>1. Len(terms) = 1 /\ \A i \in 1..1 : IsTerm(terms[i])
  OBVIOUS
<1>2. ASSUME NEW row \in rows PROVE Len(row) = 1 /\ \A i \in 1..1 : IsTerm(row[i])
  <2>1. PICK n \in S : row = <<Atom(n)>>
    OBVIOUS
  <2>2. Len(row) = 1 /\ row[1] = Atom(n)
    BY <2>1
  <2>. QED BY <2>2, TermsAre
<1>3. ASSUME NEW n, NEW a PROVE Same(a, terms, <<Atom(n)>>, 1) <=> Val(t, a) = n
  <2>1. <<Atom(n)>>[1] = Atom(n) /\ terms[1] = t /\ Val(Atom(n), a) = n
    BY TermsAre DEF Val
  <2>2. \A i : i \in 1..1 <=> i = 1
    OBVIOUS
  <2>. QED BY <2>1, <2>2 DEF Same
<1>4. \A row \in rows : \E n \in S : row = <<Atom(n)>>
  OBVIOUS
<1>5. \A n \in S : <<Atom(n)>> \in rows
  OBVIOUS
<1>6. /\ \A u \in Rows(rows, terms, st) :
           Going(u) /\ \E row \in rows : \A a :
             Meets(a, u.subst) <=> Meets(a, st.subst) /\ Same(a, terms, row, 1)
      /\ \A row \in rows : \A a :
           Meets(a, st.subst) /\ Same(a, terms, row, 1)
             => \E u \in Rows(rows, terms, st) : Meets(a, u.subst)
  <2>. HIDE DEF rows, terms
  <2>. QED BY <1>1, <1>2, RowsAre
<1>. HIDE DEF rows
<1>7. ASSUME NEW u \in Rows(rows, terms, st)
      PROVE  Going(u) /\ \E n \in S : \A a : Meets(a, u.subst) <=> Meets(a, st.subst) /\ Val(t, a) = n
  <2>1. PICK row \in rows : \A a : Meets(a, u.subst) <=> Meets(a, st.subst) /\ Same(a, terms, row, 1)
    BY <1>6
  <2>2. PICK n \in S : row = <<Atom(n)>>
    BY <1>4
  <2>. QED BY <1>3, <1>6, <2>1, <2>2
<1>8. ASSUME NEW n \in S, NEW a, Meets(a, st.subst), Val(t, a) = n
      PROVE  \E u \in Rows(rows, terms, st) : Meets(a, u.subst)
  BY <1>3, <1>5, <1>6, <1>8
<1>. QED BY <1>7, <1>8 DEF rows

LEMMA EqualIs ==
  ASSUME NEW st, Going(st), NEW terms, IsTerm(terms[1]), IsTerm(terms[2])
  PROVE  /\ \A u \in goal_equal(terms, st) :
              Going(u) /\ \A a : Meets(a, u.subst) <=> Meets(a, st.subst) /\ Val(terms[1], a) = Val(terms[2], a)
         /\ \A a : Meets(a, st.subst) /\ Val(terms[1], a) = Val(terms[2], a)
                     => \E u \in goal_equal(terms, st) : Meets(a, u.subst)
<1>. DEFINE with(s) == [st EXCEPT !.subst = s]
<1>1. \A s : with(s) = [subst |-> s, counter |-> st.counter] /\ with(s).subst = s /\ with(s).counter = st.counter
  BY DEF Going
<1>2. goal_equal(terms, st) = {with(s) : s \in unify(terms[1], terms[2], st.subst)}
  BY DEF goal_equal
<1>3. \/ /\ unify(terms[1], terms[2], st.subst) = {}
         /\ \A a : ~(Meets(a, st.subst) /\ Val(terms[1], a) = Val(terms[2], a))
      \/ \E u : /\ unify(terms[1], terms[2], st.subst) = {u} /\ Fine(u)
                /\ \A a : Meets(a, u) <=> Meets(a, st.subst) /\ Val(terms[1], a) = Val(terms[2], a)
  BY UnifyIs DEF Going
<1>. HIDE DEF with
<1>. QED BY <1>1, <1>2, <1>3 DEF Going

-----------------------------------------------------------------------------
(* Clauses.                                                                *)

\* What stands at a place of a clause when its variables have values, and whether
\* the clause holds then.
At(c, i, a) == IF IsAsked(c.terms[i]) THEN a[c.terms[i].ask] ELSE c.terms[i].atom
Fits(c, a)  == Means(c, a, Paths(traced))

LEMMA AskedTermsAre ==
  ASSUME NEW c, IsClause(c)
  PROVE  LET d == [c EXCEPT !.terms = logic_query_terms(@)]
             n == IF c.op = "join_through" THEN 3 ELSE 2
         IN  /\ d.op = c.op /\ Len(d.terms) = n /\ d.terms \in Seq(Range(d.terms))
             /\ \A i \in 1..n : IsTerm(d.terms[i]) /\ \A a : Val(d.terms[i], a) = At(c, i, a)
<1>. DEFINE ts == logic_query_terms(c.terms)
            d  == [c EXCEPT !.terms = logic_query_terms(@)]
            n  == IF c.op = "join_through" THEN 3 ELSE 2
<1>1. d.op = c.op /\ d.terms = ts
  BY DEF IsClause
<1>2. c.terms \in Seq(Range(c.terms)) /\ Len(c.terms) = n
  BY DEF IsClause
<1>3. DOMAIN c.terms = 1..n /\ n \in Nat
  BY <1>2, LenProperties
<1>. HIDE DEF d
<1>4. ASSUME NEW i \in 1..n
      PROVE  /\ ts[i] = logic_query_term(c.terms[i])
             /\ IsTerm(ts[i]) /\ \A a : Val(ts[i], a) = At(c, i, a)
  <2>1. ts[i] = logic_query_term(c.terms[i])
    BY <1>3 DEF logic_query_terms
  <2>2. CASE IsAsked(c.terms[i])
    <3>1. ts[i] = Var(c.terms[i].ask)
      BY <2>1, <2>2 DEF logic_query_term
    <3>. HIDE DEF ts
    <3>. QED BY <2>1, <2>2, <3>1, TermsAre DEF At, Val
  <2>3. CASE ~IsAsked(c.terms[i])
    <3>1. c.terms[i] = Atom(c.terms[i].atom)
      BY <1>2, <2>3 DEF IsClause
    <3>2. ts[i] = Atom(c.terms[i].atom)
      BY <2>1, <2>3, <3>1 DEF logic_query_term
    <3>. HIDE DEF ts
    <3>. QED BY <2>1, <2>3, <3>2, TermsAre DEF At, Val
  <2>. QED BY <2>2, <2>3
<1>5. ts = [i \in 1..n |-> ts[i]]
  BY <1>3 DEF logic_query_terms
<1>6. Len(ts) = n /\ ts \in Seq(Range(ts))
  <2>. HIDE DEF ts, n
  <2>1. \A i \in 1..n : ts[i] \in Range(ts)
    BY <1>5 DEF Range
  <2>. QED BY <1>3, <1>5, <2>1
<1>. QED BY <1>1, <1>4, <1>6 DEF d

\* The pairs of a graph with its edges turned around.
LEMMA TurnedAround ==
  ASSUME NEW g, NEW h, IsGraph(g), IsGraph(h), g.node = h.node,
         \A x, y : <<x, y>> \in h.edge <=> <<y, x>> \in g.edge,
         NEW n, NEW m, m \in After(g, n)
  PROVE  n \in After(h, m)
<1>. DEFINE S == {x \in g.node : n \in After(h, x)}
<1>1. outNeighbors(g, n) \subseteq S
  <2>. SUFFICES ASSUME NEW x, <<n, x>> \in g.edge PROVE x \in g.node /\ n \in After(h, x)
    BY NeighborsAre
  <2>1. n \in outNeighbors(h, x)
    BY NeighborsAre
  <2>. QED BY <2>1, AfterIs DEF IsGraph
<1>2. NoWayOut(g, S)
  <2>. SUFFICES ASSUME NEW x, NEW y, <<x, y>> \in g.edge, n \in After(h, x)
                PROVE  y \in g.node /\ n \in After(h, y)
    BY DEF NoWayOut
  <2>1. x \in After(h, y)
    BY NeighborsAre, AfterIs
  <2>2. outNeighbors(h, x) \subseteq After(h, y) /\ NoWayOut(h, After(h, y))
    BY <2>1, NeighborsAre, AfterIs DEF NoWayOut
  <2>. QED BY <2>2, AfterIs DEF IsGraph
<1>3. After(g, n) \subseteq S
  <2>. HIDE DEF S
  <2>. QED BY <1>1, <1>2, AfterIs
<1>. QED BY <1>3

LEMMA ReverseIs ==
  ASSUME NEW g, IsGraph(g), g = [node |-> g.node, edge |-> g.edge], g.node = Id
  PROVE  /\ IsGraph(reverse_graph(g)) /\ reverse_graph(g).node = Id
         /\ \A n, m : m \in After(reverse_graph(g), n) <=> n \in After(g, m)
         /\ enumerate_reachable_pairs(reverse_graph(g)) = {p \in Id \X Id : p[1] \in After(g, p[2])}
<1>. DEFINE h == reverse_graph(g)
<1>1. h.node = g.node /\ h.edge = {<<e[2], e[1]>> : e \in g.edge}
  BY DEF reverse_graph
<1>2. /\ IsGraph(h) /\ h.node = g.node
      /\ \A x, y : <<x, y>> \in h.edge <=> <<y, x>> \in g.edge
      /\ \A x, y : <<x, y>> \in g.edge <=> <<y, x>> \in h.edge
  BY <1>1 DEF IsGraph
<1>. HIDE DEF h
<1>3. \A n, m : m \in After(h, n) <=> n \in After(g, m)
  BY <1>2, TurnedAround
<1>4. enumerate_reachable_pairs(h) = {p \in Id \X Id : p[2] \in After(h, p[1])}
  BY <1>2, PairsAreReached
<1>. QED BY <1>2, <1>3, <1>4 DEF h

\* What the states a clause leads to are.
Opens(st, states, c) ==
  /\ \A u \in states :
       /\ Going(u)
       /\ \A a : Meets(a, u.subst) => Meets(a, st.subst) /\ Fits(c, a)
       /\ \A i \in NodeAt(c.op) : \E n \in Id : \A a : Meets(a, u.subst) => At(c, i, a) = n
  /\ \A a : Meets(a, st.subst) /\ Fits(c, a) => \E u \in states : Meets(a, u.subst)

LEMMA PairsOpen ==
  ASSUME NEW st, Going(st), NEW R, NEW c, IsClause(c), c.op # "join_through",
         \A a : Fits(c, a) <=> <<At(c, 1, a), At(c, 2, a)>> \in R,
         \A e \in R : e = <<e[1], e[2]>> /\ e[1] \in Id /\ (2 \in NodeAt(c.op) => e[2] \in Id),
         NodeAt(c.op) \subseteq {1, 2}
  PROVE  Opens(st, Rows({<<Atom(e[1]), Atom(e[2])>> : e \in R},
                        [c EXCEPT !.terms = logic_query_terms(@)].terms, st), c)
<1>. DEFINE rows  == {<<Atom(e[1]), Atom(e[2])>> : e \in R}
            terms == [c EXCEPT !.terms = logic_query_terms(@)].terms
<1>1. /\ Len(terms) = 2 /\ IsTerm(terms[1]) /\ IsTerm(terms[2])
      /\ \A a : Val(terms[1], a) = At(c, 1, a) /\ Val(terms[2], a) = At(c, 2, a)
  <2>1. /\ Len(terms) = 2
        /\ \A i \in 1..2 : IsTerm(terms[i]) /\ \A a : Val(terms[i], a) = At(c, i, a)
    BY AskedTermsAre
  <2>2. 1 \in 1..2 /\ 2 \in 1..2
    OBVIOUS
  <2>. HIDE DEF terms
  <2>. QED BY <2>1, <2>2
<1>. HIDE DEF terms
<1>2. /\ \A u \in Rows(rows, terms, st) :
           Going(u) /\ \E e \in R : \A a :
             Meets(a, u.subst) <=> Meets(a, st.subst) /\ Val(terms[1], a) = e[1] /\ Val(terms[2], a) = e[2]
      /\ \A e \in R : \A a :
           Meets(a, st.subst) /\ Val(terms[1], a) = e[1] /\ Val(terms[2], a) = e[2]
             => \E u \in Rows(rows, terms, st) : Meets(a, u.subst)
  BY <1>1, PairRowsAre
<1>. HIDE DEF rows
<1>3. ASSUME NEW u \in Rows(rows, terms, st)
      PROVE  /\ Going(u)
             /\ \A a : Meets(a, u.subst) => Meets(a, st.subst) /\ Fits(c, a)
             /\ \A i \in NodeAt(c.op) : \E n \in Id : \A a : Meets(a, u.subst) => At(c, i, a) = n
  <2>1. PICK e \in R : \A a :
             Meets(a, u.subst) <=> Meets(a, st.subst) /\ Val(terms[1], a) = e[1] /\ Val(terms[2], a) = e[2]
    BY <1>2
  <2>. QED BY <1>1, <1>2, <2>1
<1>4. ASSUME NEW a, Meets(a, st.subst), Fits(c, a) PROVE \E u \in Rows(rows, terms, st) : Meets(a, u.subst)
  <2>. DEFINE e == <<At(c, 1, a), At(c, 2, a)>>
  <2>1. e \in R /\ e[1] = At(c, 1, a) /\ e[2] = At(c, 2, a)
    BY <1>4
  <2>. HIDE DEF e
  <2>. QED BY <1>1, <1>2, <1>4, <2>1
<1>. QED BY <1>3, <1>4 DEF Opens, rows, terms

LEMMA NodesOpen ==
  ASSUME NEW st, Going(st), NEW c, IsClause(c), c.op \in {"label_prefix", "label_contains"}, traced.node = Id
  PROVE  Opens(st, relation_goal(traced, c, st), c)
<1>. DEFINE d == [c EXCEPT !.terms = logic_query_terms(@)]
            text == At(c, 2, st)
            has(n) == IF c.op = "label_prefix" THEN StartsWith(c.terms[2].atom, Label[n])
                      ELSE Includes(c.terms[2].atom, Label[n])
            S == {m \in traced.node : has(m)}
<1>1. /\ d.op = c.op /\ IsTerm(d.terms[1]) /\ IsTerm(d.terms[2])
      /\ \A a : Val(d.terms[1], a) = At(c, 1, a) /\ Val(d.terms[2], a) = At(c, 2, a)
  <2>1. d.op = c.op /\ \A i \in 1..2 : IsTerm(d.terms[i]) /\ \A a : Val(d.terms[i], a) = At(c, i, a)
    BY AskedTermsAre
  <2>2. 1 \in 1..2 /\ 2 \in 1..2
    OBVIOUS
  <2>. HIDE DEF d
  <2>. QED BY <2>1, <2>2
<1>2. ~IsAsked(c.terms[2]) /\ c.terms[2] = Atom(c.terms[2].atom) /\ d.terms[2] = c.terms[2]
  <2>1. NodeAt(c.op) = {1}
    BY DEF NodeAt
  <2>2. 2 \in 1..Len(c.terms)
    BY DEF IsClause
  <2>3. ~IsAsked(c.terms[2]) /\ c.terms[2] = Atom(c.terms[2].atom)
    BY <2>1, <2>2 DEF IsClause
  <2>4. d.terms = logic_query_terms(c.terms) /\ DOMAIN c.terms = 1..Len(c.terms)
    BY LenProperties DEF IsClause
  <2>. QED BY <2>2, <2>3, <2>4 DEF logic_query_terms, logic_query_term
<1>3. resolve_var(d.terms[2], st.subst) = c.terms[2] /\ ~IsVar(c.terms[2])
  <2>1. ~IsVar(c.terms[2]) /\ IsTerm(c.terms[2])
    BY <1>2, TermsAre
  <2>. QED BY <1>2, <2>1, ResolveIs DEF Going, Bound
<1>4. relation_goal(traced, c, st) = Rows({<<Atom(n)>> : n \in S}, <<d.terms[1]>>, st)
  <2>1. relation_goal(traced, c, st) = Labelled(traced, d, st)
    BY <1>1 DEF relation_goal
  <2>. HIDE DEF d
  <2>. QED BY <1>1, <1>3, <2>1 DEF Labelled
<1>. HIDE DEF d
<1>5. /\ \A u \in relation_goal(traced, c, st) :
           Going(u) /\ \E n \in S : \A a : Meets(a, u.subst) <=> Meets(a, st.subst) /\ Val(d.terms[1], a) = n
      /\ \A n \in S : \A a :
           Meets(a, st.subst) /\ Val(d.terms[1], a) = n => \E u \in relation_goal(traced, c, st) : Meets(a, u.subst)
  <2>. DEFINE t == d.terms[1]
              rows == {<<Atom(n)>> : n \in S}
  <2>1. IsTerm(t) /\ relation_goal(traced, c, st) = Rows(rows, <<t>>, st)
    BY <1>1, <1>4
  <2>. HIDE DEF S, t
  <2>2. /\ \A u \in Rows(rows, <<t>>, st) :
             Going(u) /\ \E n \in S : \A a : Meets(a, u.subst) <=> Meets(a, st.subst) /\ Val(t, a) = n
        /\ \A n \in S : \A a :
             Meets(a, st.subst) /\ Val(t, a) = n => \E u \in Rows(rows, <<t>>, st) : Meets(a, u.subst)
    BY <2>1, SetRowsAre
  <2>. HIDE DEF rows
  <2>3. /\ \A u \in relation_goal(traced, c, st) :
             Going(u) /\ \E n \in S : \A a : Meets(a, u.subst) <=> Meets(a, st.subst) /\ Val(t, a) = n
        /\ \A n \in S : \A a :
             Meets(a, st.subst) /\ Val(t, a) = n => \E u \in relation_goal(traced, c, st) : Meets(a, u.subst)
    BY <2>1, <2>2
  <2>. QED BY <2>3 DEF t
<1>6. \A a : Fits(c, a) <=> At(c, 1, a) \in S
  <2>1. \A a : At(c, 2, a) = c.terms[2].atom
    BY <1>2 DEF At
  <2>2. ASSUME NEW a
        PROVE  Fits(c, a) <=> At(c, 1, a) \in Id
                              /\ IF c.op = "label_prefix" THEN StartsWith(At(c, 2, a), Label[At(c, 1, a)])
                                 ELSE Includes(At(c, 2, a), Label[At(c, 1, a)])
    <3>1. CASE c.op = "label_prefix"
      BY <3>1 DEF Fits, Means, At
    <3>2. CASE c.op = "label_contains"
      BY <3>2 DEF Fits, Means, At
    <3>. QED BY <3>1, <3>2
  <2>3. \A n : n \in S <=> n \in Id /\ IF c.op = "label_prefix" THEN StartsWith(c.terms[2].atom, Label[n])
                                       ELSE Includes(c.terms[2].atom, Label[n])
    OBVIOUS
  <2>. HIDE DEF S
  <2>. QED BY <2>1, <2>2, <2>3
<1>7. S \subseteq Id /\ NodeAt(c.op) = {1}
  BY DEF NodeAt
<1>. HIDE DEF S
<1>8. ASSUME NEW u \in relation_goal(traced, c, st)
      PROVE  /\ Going(u)
             /\ \A a : Meets(a, u.subst) => Meets(a, st.subst) /\ Fits(c, a)
             /\ \A i \in NodeAt(c.op) : \E n \in Id : \A a : Meets(a, u.subst) => At(c, i, a) = n
  <2>1. PICK n \in S : \A a : Meets(a, u.subst) <=> Meets(a, st.subst) /\ Val(d.terms[1], a) = n
    BY <1>5
  <2>. QED BY <1>1, <1>5, <1>6, <1>7, <2>1
<1>9. ASSUME NEW a, Meets(a, st.subst), Fits(c, a)
      PROVE  \E u \in relation_goal(traced, c, st) : Meets(a, u.subst)
  BY <1>1, <1>5, <1>6, <1>9
<1>. QED BY <1>8, <1>9 DEF Opens

LEMMA EqualsOpen ==
  ASSUME NEW st, Going(st), NEW c, IsClause(c), c.op = "equal"
  PROVE  Opens(st, relation_goal(traced, c, st), c)
<1>. DEFINE d == [c EXCEPT !.terms = logic_query_terms(@)]
<1>1. /\ d.op = c.op /\ IsTerm(d.terms[1]) /\ IsTerm(d.terms[2])
      /\ \A a : Val(d.terms[1], a) = At(c, 1, a) /\ Val(d.terms[2], a) = At(c, 2, a)
  <2>1. d.op = c.op /\ \A i \in 1..2 : IsTerm(d.terms[i]) /\ \A a : Val(d.terms[i], a) = At(c, i, a)
    BY AskedTermsAre
  <2>2. 1 \in 1..2 /\ 2 \in 1..2
    OBVIOUS
  <2>. HIDE DEF d
  <2>. QED BY <2>1, <2>2
<1>2. relation_goal(traced, c, st) = goal_equal(d.terms, st)
  BY <1>1 DEF relation_goal
<1>. HIDE DEF d
<1>3. NodeAt(c.op) = {} /\ \A a : Fits(c, a) <=> At(c, 1, a) = At(c, 2, a)
  BY DEF NodeAt, Fits, Means, At
<1>. QED BY <1>1, <1>2, <1>3, EqualIs DEF Opens

LEMMA JoinsOpen ==
  ASSUME NEW st, Going(st), NEW c, IsClause(c), c.op = "join_through", IsGraph(traced)
  PROVE  Opens(st, relation_goal(traced, c, st), c)
<1>. DEFINE d == [c EXCEPT !.terms = logic_query_terms(@)]
            R == traced.edge
            rows == {<<Atom(e[1]), Atom(e[2])>> : e \in R}
            first == <<d.terms[1], d.terms[2]>>
            second == <<d.terms[2], d.terms[3]>>
<1>1. /\ d.op = c.op /\ IsTerm(d.terms[1]) /\ IsTerm(d.terms[2]) /\ IsTerm(d.terms[3])
      /\ \A a : /\ Val(d.terms[1], a) = At(c, 1, a) /\ Val(d.terms[2], a) = At(c, 2, a)
                /\ Val(d.terms[3], a) = At(c, 3, a)
  <2>1. d.op = c.op /\ \A i \in 1..3 : IsTerm(d.terms[i]) /\ \A a : Val(d.terms[i], a) = At(c, i, a)
    BY AskedTermsAre
  <2>2. 1 \in 1..3 /\ 2 \in 1..3 /\ 3 \in 1..3
    OBVIOUS
  <2>. HIDE DEF d
  <2>. QED BY <2>1, <2>2
<1>2. relation_goal(traced, c, st) = UNION {Rows(rows, second, s) : s \in Rows(rows, first, st)}
  BY <1>1 DEF relation_goal, join_through, edge_fact
<1>. HIDE DEF d
<1>3. /\ Len(first) = 2 /\ first[1] = d.terms[1] /\ first[2] = d.terms[2]
      /\ Len(second) = 2 /\ second[1] = d.terms[2] /\ second[2] = d.terms[3]
  OBVIOUS
<1>. HIDE DEF first, second
<1>4. ASSUME NEW s, Going(s)
      PROVE  /\ /\ \A u \in Rows(rows, first, s) :
                     Going(u) /\ \E e \in R : \A a :
                       Meets(a, u.subst) <=> Meets(a, s.subst) /\ At(c, 1, a) = e[1] /\ At(c, 2, a) = e[2]
                /\ \A e \in R : \A a :
                     Meets(a, s.subst) /\ At(c, 1, a) = e[1] /\ At(c, 2, a) = e[2]
                       => \E u \in Rows(rows, first, s) : Meets(a, u.subst)
             /\ /\ \A u \in Rows(rows, second, s) :
                     Going(u) /\ \E e \in R : \A a :
                       Meets(a, u.subst) <=> Meets(a, s.subst) /\ At(c, 2, a) = e[1] /\ At(c, 3, a) = e[2]
                /\ \A e \in R : \A a :
                     Meets(a, s.subst) /\ At(c, 2, a) = e[1] /\ At(c, 3, a) = e[2]
                       => \E u \in Rows(rows, second, s) : Meets(a, u.subst)
  <2>1. /\ \A u \in Rows(rows, first, s) :
             Going(u) /\ \E e \in R : \A a :
               Meets(a, u.subst) <=> Meets(a, s.subst) /\ Val(first[1], a) = e[1] /\ Val(first[2], a) = e[2]
        /\ \A e \in R : \A a :
             Meets(a, s.subst) /\ Val(first[1], a) = e[1] /\ Val(first[2], a) = e[2]
               => \E u \in Rows(rows, first, s) : Meets(a, u.subst)
    BY <1>1, <1>3, <1>4, PairRowsAre
  <2>2. /\ \A u \in Rows(rows, second, s) :
             Going(u) /\ \E e \in R : \A a :
               Meets(a, u.subst) <=> Meets(a, s.subst) /\ Val(second[1], a) = e[1] /\ Val(second[2], a) = e[2]
        /\ \A e \in R : \A a :
             Meets(a, s.subst) /\ Val(second[1], a) = e[1] /\ Val(second[2], a) = e[2]
               => \E u \in Rows(rows, second, s) : Meets(a, u.subst)
    BY <1>1, <1>3, <1>4, PairRowsAre
  <2>. HIDE DEF rows
  <2>. QED BY <1>1, <1>3, <2>1, <2>2
<1>. HIDE DEF rows
<1>5. /\ NodeAt(c.op) = {1, 2, 3} /\ \A e \in R : e = <<e[1], e[2]>> /\ e[1] \in Id /\ e[2] \in Id
      /\ \A a : Fits(c, a) <=> <<At(c, 1, a), At(c, 2, a)>> \in R /\ <<At(c, 2, a), At(c, 3, a)>> \in R
  BY DEF NodeAt, Fits, Means, At, IsGraph
<1>. HIDE DEF R
<1>6. ASSUME NEW u \in relation_goal(traced, c, st)
      PROVE  /\ Going(u)
             /\ \A a : Meets(a, u.subst) => Meets(a, st.subst) /\ Fits(c, a)
             /\ \A i \in NodeAt(c.op) : \E n \in Id : \A a : Meets(a, u.subst) => At(c, i, a) = n
  <2>1. PICK s \in Rows(rows, first, st) : u \in Rows(rows, second, s)
    BY <1>2
  <2>2. Going(s) /\ \E e \in R : \A a :
          Meets(a, s.subst) <=> Meets(a, st.subst) /\ At(c, 1, a) = e[1] /\ At(c, 2, a) = e[2]
    BY <1>4, <2>1
  <2>3. PICK e \in R : \A a :
          Meets(a, s.subst) <=> Meets(a, st.subst) /\ At(c, 1, a) = e[1] /\ At(c, 2, a) = e[2]
    BY <2>2
  <2>4. Going(u) /\ \E f \in R : \A a :
          Meets(a, u.subst) <=> Meets(a, s.subst) /\ At(c, 2, a) = f[1] /\ At(c, 3, a) = f[2]
    BY <1>4, <2>1, <2>2
  <2>5. PICK f \in R : \A a :
          Meets(a, u.subst) <=> Meets(a, s.subst) /\ At(c, 2, a) = f[1] /\ At(c, 3, a) = f[2]
    BY <2>4
  <2>6. \A a : Meets(a, u.subst) => /\ Meets(a, st.subst) /\ At(c, 1, a) = e[1] /\ At(c, 2, a) = e[2]
                                    /\ At(c, 2, a) = f[1] /\ At(c, 3, a) = f[2]
    BY <2>3, <2>5
  <2>. QED BY <1>5, <2>4, <2>6
<1>7. ASSUME NEW a, Meets(a, st.subst), Fits(c, a)
      PROVE  \E u \in relation_goal(traced, c, st) : Meets(a, u.subst)
  <2>. DEFINE e == <<At(c, 1, a), At(c, 2, a)>>
              f == <<At(c, 2, a), At(c, 3, a)>>
  <2>1. /\ e \in R /\ e[1] = At(c, 1, a) /\ e[2] = At(c, 2, a)
        /\ f \in R /\ f[1] = At(c, 2, a) /\ f[2] = At(c, 3, a)
    BY <1>5, <1>7
  <2>. HIDE DEF e, f
  <2>2. PICK s \in Rows(rows, first, st) : Meets(a, s.subst)
    BY <1>4, <1>7, <2>1
  <2>3. Going(s)
    BY <1>4
  <2>4. PICK u \in Rows(rows, second, s) : Meets(a, u.subst)
    BY <1>4, <2>1, <2>2, <2>3
  <2>. QED BY <1>2, <2>4
<1>. QED BY <1>6, <1>7 DEF Opens

\* A clause leads to states that make it hold, and to one for each choice of values
\* for which it holds; where a node stands, it is settled which.
LEMMA ClausesOpen ==
  ASSUME IsGraph(traced), traced = [node |-> traced.node, edge |-> traced.edge], traced.node = Id,
         NEW st, Going(st), NEW c, IsClause(c)
  PROVE  Opens(st, relation_goal(traced, c, st), c)
<1>. DEFINE terms == [c EXCEPT !.terms = logic_query_terms(@)].terms
            Pairs(R) == {<<Atom(e[1]), Atom(e[2])>> : e \in R}
<1>0. [c EXCEPT !.terms = logic_query_terms(@)].op = c.op
  BY AskedTermsAre
<1>1. \A n \in Id : Paths(traced)[n] = After(traced, n) /\ After(traced, n) \subseteq Id
  BY AfterIs DEF Paths
<1>2. ASSUME NEW R, relation_goal(traced, c, st) = Rows(Pairs(R), terms, st), c.op # "join_through",
             \A a : Fits(c, a) <=> <<At(c, 1, a), At(c, 2, a)>> \in R,
             \A e \in R : e = <<e[1], e[2]>> /\ e[1] \in Id /\ (2 \in NodeAt(c.op) => e[2] \in Id),
             NodeAt(c.op) \subseteq {1, 2}
      PROVE  Opens(st, relation_goal(traced, c, st), c)
  BY <1>2, PairsOpen
<1>3. CASE c.op = "edge"
  <2>1. relation_goal(traced, c, st) = Rows(Pairs(traced.edge), terms, st)
    BY <1>0, <1>3 DEF relation_goal, edge_fact
  <2>2. \A a : Fits(c, a) <=> <<At(c, 1, a), At(c, 2, a)>> \in traced.edge
    BY <1>3 DEF Fits, Means, At
  <2>3. \A e \in traced.edge : e = <<e[1], e[2]>> /\ e[1] \in Id /\ e[2] \in Id
    BY DEF IsGraph
  <2>4. NodeAt(c.op) = {1, 2}
    BY <1>3 DEF NodeAt
  <2>. HIDE DEF terms, Pairs
  <2>. QED BY <1>2, <1>3, <2>1, <2>2, <2>3, <2>4
<1>4. CASE c.op \in {"reachable", "downstream_of"}
  <2>. DEFINE R == {p \in Id \X Id : p[2] \in After(traced, p[1])}
  <2>1. relation_goal(traced, c, st) = Rows(Pairs(R), terms, st)
    <3>1. enumerate_reachable_pairs(traced) = R
      BY PairsAreReached
    <3>. HIDE DEF R
    <3>. QED BY <1>0, <1>4, <3>1 DEF relation_goal, reachable
  <2>2. ASSUME NEW a PROVE Fits(c, a) <=> <<At(c, 1, a), At(c, 2, a)>> \in R
    <3>1. Fits(c, a) <=> At(c, 1, a) \in Id /\ At(c, 2, a) \in Paths(traced)[At(c, 1, a)]
      BY <1>4 DEF Fits, Means, At
    <3>. QED BY <1>1, <3>1
  <2>3. \A e \in R : e = <<e[1], e[2]>> /\ e[1] \in Id /\ e[2] \in Id
    OBVIOUS
  <2>4. NodeAt(c.op) = {1, 2} /\ c.op # "join_through"
    BY <1>4 DEF NodeAt
  <2>. HIDE DEF terms, Pairs, R
  <2>. QED BY <1>2, <2>1, <2>2, <2>3, <2>4
<1>5. CASE c.op = "upstream_of"
  <2>. DEFINE R == {p \in Id \X Id : p[1] \in After(traced, p[2])}
  <2>1. relation_goal(traced, c, st) = Rows(Pairs(R), terms, st)
    <3>1. enumerate_reachable_pairs(reverse_graph(traced)) = R
      BY ReverseIs
    <3>. HIDE DEF R
    <3>. QED BY <1>0, <1>5, <3>1 DEF relation_goal, reachable
  <2>2. ASSUME NEW a PROVE Fits(c, a) <=> <<At(c, 1, a), At(c, 2, a)>> \in R
    <3>1. Fits(c, a) <=> At(c, 2, a) \in Id /\ At(c, 1, a) \in Paths(traced)[At(c, 2, a)]
      BY <1>5 DEF Fits, Means, At
    <3>. QED BY <1>1, <3>1
  <2>3. \A e \in R : e = <<e[1], e[2]>> /\ e[1] \in Id /\ e[2] \in Id
    OBVIOUS
  <2>4. NodeAt(c.op) = {1, 2} /\ c.op # "join_through"
    BY <1>5 DEF NodeAt
  <2>. HIDE DEF terms, Pairs, R
  <2>. QED BY <1>2, <2>1, <2>2, <2>3, <2>4
<1>6. ASSUME NEW attr, NEW N \in SUBSET Id, c.op \in {"kind", "namespace", "level", "label", "value"},
             relation_goal(traced, c, st) = Rows({<<Atom(n), Atom(attr[n])>> : n \in N}, terms, st),
             \A a : Fits(c, a) <=> At(c, 1, a) \in N /\ attr[At(c, 1, a)] = At(c, 2, a)
      PROVE  Opens(st, relation_goal(traced, c, st), c)
  <2>. DEFINE R == {<<n, attr[n]>> : n \in N}
  <2>1. relation_goal(traced, c, st) = Rows(Pairs(R), terms, st)
    <3>1. {<<Atom(n), Atom(attr[n])>> : n \in N} = Pairs(R)
      <4>1. \A e \in R : \E n \in N : e[1] = n /\ e[2] = attr[n]
        OBVIOUS
      <4>2. \A n \in N : \E e \in R : e[1] = n /\ e[2] = attr[n]
        <5>. SUFFICES ASSUME NEW n \in N PROVE \E e \in R : e[1] = n /\ e[2] = attr[n]
          OBVIOUS
        <5>1. <<n, attr[n]>> \in R /\ <<n, attr[n]>>[1] = n /\ <<n, attr[n]>>[2] = attr[n]
          OBVIOUS
        <5>. QED BY <5>1
      <4>. HIDE DEF R
      <4>. QED BY <4>1, <4>2
    <3>. HIDE DEF R, Pairs, terms
    <3>. QED BY <1>6, <3>1
  <2>2. \A a : Fits(c, a) <=> <<At(c, 1, a), At(c, 2, a)>> \in R
    BY <1>6
  <2>3. \A e \in R : e = <<e[1], e[2]>> /\ e[1] \in Id
    OBVIOUS
  <2>4. NodeAt(c.op) = {1} /\ c.op # "join_through"
    BY <1>6 DEF NodeAt
  <2>. HIDE DEF terms, Pairs, R
  <2>. QED BY <1>2, <2>1, <2>2, <2>3, <2>4
<1>7. CASE c.op \in {"kind", "namespace", "level", "label", "value"}
  <2>1. CASE c.op = "kind"
    BY <1>0, <1>6, <2>1 DEF relation_goal, attr_fact, Fits, Means, At
  <2>2. CASE c.op = "namespace"
    BY <1>0, <1>6, <2>2 DEF relation_goal, attr_fact, Fits, Means, At
  <2>3. CASE c.op = "level"
    BY <1>0, <1>6, <2>3 DEF relation_goal, attr_fact, Fits, Means, At
  <2>4. CASE c.op = "label"
    BY <1>0, <1>6, <2>4 DEF relation_goal, attr_fact, Fits, Means, At
  <2>5. CASE c.op = "value"
    <3>. DEFINE N == traced.node \cap DOMAIN Value
    <3>1. relation_goal(traced, c, st) = Rows({<<Atom(n), Atom(Value[n])>> : n \in N}, terms, st)
      BY <1>0, <2>5 DEF relation_goal
    <3>2. \A a : Fits(c, a) <=> At(c, 1, a) \in N /\ Value[At(c, 1, a)] = At(c, 2, a)
      BY <2>5, AttributeAssumption DEF Fits, Means, At
    <3>3. N \in SUBSET Id
      OBVIOUS
    <3>. HIDE DEF N, terms
    <3>. QED BY <1>6, <2>5, <3>1, <3>2, <3>3
  <2>. QED BY <1>7, <2>1, <2>2, <2>3, <2>4, <2>5
<1>8. \/ c.op \in {"edge", "reachable", "downstream_of", "upstream_of", "equal", "join_through"}
      \/ c.op \in {"kind", "namespace", "level", "label", "value"}
      \/ c.op \in {"label_prefix", "label_contains"}
  BY DEF IsClause, Known
<1>. QED BY <1>3, <1>4, <1>5, <1>7, <1>8, NodesOpen, EqualsOpen, JoinsOpen

\* The states after the first n of a list of clauses.
Runs(upto, where, states, n) ==
  upto = [i \in 0..n |-> IF i = 0 THEN states
                         ELSE UNION {relation_goal(traced, where[i], s) : s \in upto[i - 1]}]

LEMMA RunsExist ==
  ASSUME NEW where, NEW states, NEW n \in Nat
  PROVE  \E upto : Runs(upto, where, states, n)
<1>. DEFINE bad == {m \in Nat : ~\E upto : Runs(upto, where, states, m)}
<1>. SUFFICES ASSUME bad # {} PROVE FALSE
  OBVIOUS
<1>1. PICK m \in bad : \A l \in bad : m <= l
  <2>. HIDE DEF bad
  <2>1. bad \subseteq Nat
    BY DEF bad
  <2>. QED BY <2>1, LeastNumber
<1>2. m # 0
  <2>. DEFINE k == [i \in 0..0 |-> states]
  <2>1. k = [i \in 0..0 |-> IF i = 0 THEN states
                            ELSE UNION {relation_goal(traced, where[i], s) : s \in k[i - 1]}]
    OBVIOUS
  <2>2. Runs(k, where, states, 0)
    BY <2>1 DEF Runs
  <2>. QED BY <2>2
<1>3. m - 1 \in Nat /\ m - 1 \notin bad /\ m \in Nat
  <2>1. m \in Nat
    OBVIOUS
  <2>. HIDE DEF bad
  <2>. QED BY <1>1, <1>2, <2>1
<1>4. PICK upto : Runs(upto, where, states, m - 1)
  BY <1>3
<1>. DEFINE last == UNION {relation_goal(traced, where[m], s) : s \in upto[m - 1]}
            more == [i \in 0..m |-> IF i = m THEN last ELSE upto[i]]
<1>5. \A i \in 0..(m - 1) : upto[i] = IF i = 0 THEN states
                                      ELSE UNION {relation_goal(traced, where[i], s) : s \in upto[i - 1]}
  <2>. HIDE DEF bad
  <2>. QED BY <1>4 DEF Runs
<1>6. /\ more[m] = last /\ m - 1 \in 0..(m - 1) /\ more[m - 1] = upto[m - 1]
      /\ \A i \in 0..(m - 1) : more[i] = upto[i]
  <2>. HIDE DEF bad, last
  <2>. QED BY <1>2, <1>3
<1>7. ASSUME NEW i \in 0..m
      PROVE  more[i] = IF i = 0 THEN states ELSE UNION {relation_goal(traced, where[i], s) : s \in more[i - 1]}
  <2>1. CASE i = m
    <3>. HIDE DEF bad, more
    <3>. QED BY <1>2, <1>6, <2>1
  <2>2. CASE i # m
    <3>1. i \in 0..(m - 1) /\ (i # 0 => i - 1 \in 0..(m - 1))
      <4>. HIDE DEF bad, more, last
      <4>. QED BY <1>3, <2>2
    <3>2. more[i] = upto[i] /\ (i # 0 => more[i - 1] = upto[i - 1])
      <4>. HIDE DEF bad, more
      <4>. QED BY <1>6, <3>1
    <3>. HIDE DEF bad, more, last
    <3>. QED BY <1>5, <3>1, <3>2
  <2>. QED BY <2>1, <2>2
<1>8. Runs(more, where, states, m)
  <2>1. more = [i \in 0..m |-> more[i]]
    OBVIOUS
  <2>. HIDE DEF more
  <2>. QED BY <1>7, <2>1 DEF Runs
<1>. QED BY <1>1, <1>8

\* The states a list of clauses leads to.
Settled(u, c) ==
  /\ \A a : Meets(a, u.subst) => Fits(c, a)
  /\ \A i \in NodeAt(c.op) : \E n \in Id : \A a : Meets(a, u.subst) => At(c, i, a) = n

LEMMA ListsOpen ==
  ASSUME IsGraph(traced), traced = [node |-> traced.node, edge |-> traced.edge], traced.node = Id,
         NEW st, Going(st), NEW where, where \in Seq(Range(where)), \A c \in Range(where) : IsClause(c)
  PROVE  LET states == goal_and(LAMBDA c, s : relation_goal(traced, c, s), where, {st})
         IN  /\ \A u \in states : Going(u) /\ \A c \in Range(where) : Settled(u, c)
             /\ \A a : Meets(a, st.subst) /\ (\A c \in Range(where) : Fits(c, a))
                         => \E u \in states : Meets(a, u.subst)
<1>. DEFINE n == Len(where)
            body(k) == [i \in 0..n |-> IF i = 0 THEN {st}
                                       ELSE UNION {relation_goal(traced, where[i], s) : s \in k[i - 1]}]
            upto == CHOOSE k : k = body(k)
            states == goal_and(LAMBDA c, s : relation_goal(traced, c, s), where, {st})
<1>0. n \in Nat /\ DOMAIN where = 1..n /\ \A i \in 1..n : where[i] \in Range(where) /\ IsClause(where[i])
  BY LenProperties DEF Range
<1>00. \A c \in Range(where) : \E i \in 1..n : c = where[i]
  BY <1>0 DEF Range
<1>1. states = upto[n]
  BY DEF goal_and
<1>. HIDE DEF n, states
<1>2. upto = body(upto)
  <2>1. PICK k : Runs(k, where, {st}, n)
    BY <1>0, RunsExist
  <2>2. k = body(k)
    BY <2>1 DEF Runs
  <2>. HIDE DEF body
  <2>. QED BY <2>2
<1>. HIDE DEF upto
<1>3. \A i \in 0..n : upto[i] = IF i = 0 THEN {st}
                                ELSE UNION {relation_goal(traced, where[i], s) : s \in upto[i - 1]}
  BY <1>2
<1>. DEFINE Right(i) ==
              /\ \A u \in upto[i] : /\ Going(u) /\ \A j \in 1..i : Settled(u, where[j])
              /\ \A a : Meets(a, st.subst) /\ (\A j \in 1..i : Fits(where[j], a))
                          => \E u \in upto[i] : Meets(a, u.subst)
            bad == {i \in 0..n : ~Right(i)}
<1>4. bad = {}
  <2>. SUFFICES ASSUME bad # {} PROVE FALSE
    OBVIOUS
  <2>1. PICK i \in bad : \A j \in bad : i <= j
    <3>1. bad \subseteq Nat
      BY <1>0
    <3>. HIDE DEF bad
    <3>. QED BY <3>1, LeastNumber
  <2>2. i \in 0..n
    OBVIOUS
  <2>3. i # 0
    <3>1. upto[0] = {st} /\ 0 \in 0..n
      <4>1. 0 \in 0..n
        BY <1>0
      <4>. QED BY <1>3, <4>1
    <3>2. Right(0)
      BY <3>1
    <3>. HIDE DEF Right
    <3>. QED BY <3>2
  <2>4. i \in 1..n /\ i - 1 \in 0..n /\ i - 1 \notin bad
    <3>. HIDE DEF bad
    <3>. QED BY <1>0, <2>1, <2>2, <2>3
  <2>5. Right(i - 1)
    <3>. HIDE DEF Right
    <3>. QED BY <2>4
  <2>6. upto[i] = UNION {relation_goal(traced, where[i], s) : s \in upto[i - 1]}
    BY <1>3, <2>3, <2>4
  <2>7. \A s \in upto[i - 1] : Opens(s, relation_goal(traced, where[i], s), where[i])
    BY <1>0, <2>4, <2>5, ClausesOpen
  <2>8. \A j \in 1..i : j \in 1..(i - 1) \/ j = i
    BY <2>4
  <2>9. ASSUME NEW u \in upto[i] PROVE Going(u) /\ \A j \in 1..i : Settled(u, where[j])
    <3>1. PICK s \in upto[i - 1] : u \in relation_goal(traced, where[i], s)
      BY <2>6
    <3>2. /\ Going(u) /\ \A a : Meets(a, u.subst) => Meets(a, s.subst)
          /\ Settled(u, where[i])
      BY <2>7, <3>1 DEF Opens, Settled
    <3>3. \A j \in 1..(i - 1) : Settled(s, where[j])
      BY <2>5
    <3>4. \A j \in 1..(i - 1) : Settled(u, where[j])
      <4>. HIDE DEF Right, bad
      <4>. SUFFICES ASSUME NEW j \in 1..(i - 1) PROVE Settled(u, where[j])
        OBVIOUS
      <4>1. Settled(s, where[j])
        BY <3>3
      <4>. QED BY <3>2, <4>1 DEF Settled
    <3>. HIDE DEF Right, bad
    <3>. QED BY <2>8, <3>2, <3>4
  <2>10. ASSUME NEW a, Meets(a, st.subst), \A j \in 1..i : Fits(where[j], a)
         PROVE  \E u \in upto[i] : Meets(a, u.subst)
    <3>0. i \in 1..i /\ \A j \in 1..(i - 1) : j \in 1..i
      BY <2>4
    <3>1. PICK s \in upto[i - 1] : Meets(a, s.subst)
      BY <2>5, <2>10, <3>0
    <3>2. PICK u \in relation_goal(traced, where[i], s) : Meets(a, u.subst)
      BY <2>7, <2>10, <3>0, <3>1 DEF Opens
    <3>. QED BY <2>6, <3>1, <3>2
  <2>11. Right(i)
    BY <2>9, <2>10
  <2>. HIDE DEF Right
  <2>. QED BY <2>11
<1>5. Right(n)
  <2>1. n \in 0..n
    BY <1>0
  <2>. HIDE DEF Right
  <2>. QED BY <1>4, <2>1
<1>6. \A u \in states : Going(u) /\ \A c \in Range(where) : Settled(u, c)
  BY <1>00, <1>1, <1>5
<1>7. ASSUME NEW a, Meets(a, st.subst), \A c \in Range(where) : Fits(c, a)
      PROVE  \E u \in states : Meets(a, u.subst)
  BY <1>0, <1>1, <1>5, <1>7
<1>. QED BY <1>6, <1>7 DEF states

-----------------------------------------------------------------------------
(* Questions.                                                              *)

LEMMA NothingKnown ==
  ASSUME NEW made
  PROVE  /\ Going(empty_goal_state(made)) /\ empty_goal_state(made).subst = <<>>
         /\ \A a : Meets(a, empty_goal_state(made).subst)
<1>1. DOMAIN <<>> = {}
  BY LenProperties
<1>2. Fine(<<>>)
  <2>1. <<>> = [v \in DOMAIN <<>> |-> <<>>[v]]
    BY <1>1
  <2>2. Ranked(<<>>, <<>>)
    BY <1>1 DEF Ranked
  <2>. QED BY <1>1, <2>1, <2>2 DEF Fine
<1>3. empty_goal_state(made) = [subst |-> <<>>, counter |-> made]
  BY DEF empty_goal_state
<1>4. empty_goal_state(made).subst = <<>> /\ empty_goal_state(made).counter = made
  BY <1>3
<1>. QED BY <1>1, <1>2, <1>3, <1>4 DEF Going, Meets

\* A list of clauses is answered by the nodes for which every clause holds.
LEMMA ListsAnswer ==
  ASSUME IsGraph(traced), traced = [node |-> traced.node, edge |-> traced.edge], traced.node = Id,
         NEW where \in Queries
  PROVE  run_clauses(traced, where)
           = {[v \in Variables(where) |-> Atom(node[v])] : node \in
                {n \in [Variables(where) -> Id] : \A c \in Range(where) : Fits(c, n)}}
<1>. DEFINE st == empty_goal_state(0)
            states == goal_and(LAMBDA c, s : relation_goal(traced, c, s), where, {st})
            names == Variables(where)
            says(node) == [v \in names |-> Atom(node[v])]
            good == {n \in [names -> Id] : \A c \in Range(where) : Fits(c, n)}
            found(u) == [i \in DOMAIN default_projection(names) |->
                           resolve_var(default_projection(names)[i], u.subst)]
<1>1. /\ where \in Seq(Range(where)) /\ \A c \in Range(where) : IsClause(c)
      /\ \A c \in Range(where) : \A t \in Range(c.terms) : IsAsked(t) =>
           \E d \in Range(where) : \E i \in NodeAt(d.op) : d.terms[i] = t
  BY QueryAssumption
<1>2. Going(st) /\ \A a : Meets(a, st.subst)
  BY NothingKnown
<1>. HIDE DEF st
<1>3. /\ \A u \in states : Going(u) /\ \A c \in Range(where) : Settled(u, c)
      /\ \A a : Meets(a, st.subst) /\ (\A c \in Range(where) : Fits(c, a))
                  => \E u \in states : Meets(a, u.subst)
  BY <1>1, <1>2, ListsOpen
<1>4. run_clauses(traced, where) = {found(u) : u \in states}
  BY DEF run_clauses, Projected, st
<1>5. \A u : found(u) = [v \in names |-> resolve_var(Var(v), u.subst)]
  BY DEF default_projection
<1>. HIDE DEF states, found
<1>6. ASSUME NEW v \in names
      PROVE  \E d \in Range(where) : \E i \in NodeAt(d.op) : \A a : At(d, i, a) = a[v]
  <2>1. PICK c \in Range(where) : v \in Asked(c.terms)
    BY DEF Variables
  <2>2. PICK t \in Range(c.terms) : IsAsked(t) /\ t.ask = v
    BY <2>1 DEF Asked
  <2>3. PICK d \in Range(where) : \E i \in NodeAt(d.op) : d.terms[i] = t
    BY <1>1, <2>2
  <2>. QED BY <2>2, <2>3 DEF At
<1>. HIDE DEF names
<1>7. ASSUME NEW u \in states
      PROVE  \E node \in good : found(u) = says(node)
  <2>. DEFINE IsNode(v, n) == \A a : Meets(a, u.subst) => a[v] = n
              node == [v \in names |-> CHOOSE n \in Id : IsNode(v, n)]
  <2>1. \A v \in names : \E n \in Id : IsNode(v, n)
    <3>. SUFFICES ASSUME NEW v \in names PROVE \E n \in Id : IsNode(v, n)
      OBVIOUS
    <3>1. PICK d \in Range(where) : \E i \in NodeAt(d.op) : \A a : At(d, i, a) = a[v]
      BY <1>6
    <3>2. PICK i \in NodeAt(d.op) : \A a : At(d, i, a) = a[v]
      BY <3>1
    <3>3. Settled(u, d)
      BY <1>3
    <3>4. PICK n \in Id : \A a : Meets(a, u.subst) => At(d, i, a) = n
      BY <3>3 DEF Settled
    <3>. QED BY <3>2, <3>4
  <2>2. \A v \in names : node[v] \in Id /\ IsNode(v, node[v])
    <3>. HIDE DEF IsNode
    <3>. QED BY <2>1
  <2>3. node = [v \in names |-> node[v]] /\ node \in [names -> Id]
    <3>1. node = [v \in names |-> node[v]]
      OBVIOUS
    <3>. HIDE DEF node
    <3>. QED BY <2>2, <3>1
  <2>. HIDE DEF node
  <2>4. \A v \in names : resolve_var(Var(v), u.subst) = Atom(node[v])
    <3>. SUFFICES ASSUME NEW v \in names PROVE resolve_var(Var(v), u.subst) = Atom(node[v])
      OBVIOUS
    <3>1. \A a : Meets(a, u.subst) => Val(Var(v), a) = node[v]
      BY <2>2, TermsAre DEF Val
    <3>. QED BY <1>3, <3>1, TermsAre, GroundIs DEF Going
  <2>5. found(u) = says(node)
    BY <1>5, <2>4
  <2>6. PICK a : Meets(a, u.subst)
    BY <1>3, ValuesExist DEF Going
  <2>7. \A v \in names : a[v] = node[v]
    BY <2>2, <2>6
  <2>8. ASSUME NEW c \in Range(where) PROVE Fits(c, node)
    <3>1. Fits(c, a)
      BY <1>3, <2>6 DEF Settled
    <3>2. \A i \in 1..Len(c.terms) : At(c, i, a) = At(c, i, node)
      <4>. SUFFICES ASSUME NEW i \in 1..Len(c.terms), IsAsked(c.terms[i])
                    PROVE  a[c.terms[i].ask] = node[c.terms[i].ask]
        BY DEF At
      <4>1. c.terms[i].ask \in names
        <5>1. c.terms[i] \in Range(c.terms)
          BY <1>1, LenProperties DEF IsClause, Range
        <5>2. c.terms[i].ask \in Asked(c.terms)
          BY <5>1 DEF Asked
        <5>. QED BY <5>2 DEF names, Variables
      <4>. QED BY <2>7, <4>1
    <3>3. 1 \in 1..Len(c.terms) /\ 2 \in 1..Len(c.terms) /\ (c.op = "join_through" => 3 \in 1..Len(c.terms))
      BY <1>1 DEF IsClause
    <3>4. /\ At(c, 1, a) = At(c, 1, node) /\ At(c, 2, a) = At(c, 2, node)
          /\ c.op = "join_through" => At(c, 3, a) = At(c, 3, node)
      BY <3>2, <3>3
    <3>. QED BY <3>1, <3>4 DEF Fits, Means, At
  <2>9. node \in good
    BY <2>3, <2>8
  <2>. QED BY <2>5, <2>9
<1>8. ASSUME NEW node \in good PROVE \E u \in states : found(u) = says(node)
  <2>1. node \in [names -> Id] /\ \A c \in Range(where) : Fits(c, node)
    OBVIOUS
  <2>2. PICK u \in states : Meets(node, u.subst)
    BY <1>2, <1>3, <2>1
  <2>3. ASSUME NEW v \in names PROVE resolve_var(Var(v), u.subst) = Atom(node[v])
    <3>1. PICK d \in Range(where) : \E i \in NodeAt(d.op) : \A a : At(d, i, a) = a[v]
      BY <1>6
    <3>2. PICK i \in NodeAt(d.op) : \A a : At(d, i, a) = a[v]
      BY <3>1
    <3>3. Settled(u, d)
      BY <1>3
    <3>4. PICK n \in Id : \A a : Meets(a, u.subst) => At(d, i, a) = n
      BY <3>3 DEF Settled
    <3>5. n = node[v] /\ \A a : Meets(a, u.subst) => Val(Var(v), a) = n
      BY <2>2, <3>2, <3>4, TermsAre DEF Val
    <3>. QED BY <1>3, <3>5, TermsAre, GroundIs DEF Going
  <2>4. found(u) = says(node)
    BY <1>5, <2>3
  <2>. QED BY <2>4
<1>. HIDE DEF good, says
<1>9. run_clauses(traced, where) = {says(node) : node \in good}
  BY <1>4, <1>7, <1>8
<1>. QED BY <1>9 DEF good, says, names

\* What is asked for of a set of states.
LEMMA IdsAre ==
  ASSUME NEW states, \A u \in states : Going(u), NEW x
  PROVE  x \in query_node_ids(states)
           <=> \E u \in states : \A a : Meets(a, u.subst) => a[0] = x
<1>1. IsTerm(q0) /\ \A a : Val(q0, a) = a[0]
  BY TermsAre DEF Val, q0
<1>2. ASSUME NEW u \in states
      PROVE  /\ resolve_var(q0, u.subst) = Atom(x) <=> \A a : Meets(a, u.subst) => a[0] = x
             /\ IsTerm(resolve_var(q0, u.subst))
  BY <1>1, GroundIs, ResolveIs DEF Going
<1>3. x \in query_node_ids(states) <=> \E u \in states : ~IsVar(resolve_var(q0, u.subst)) /\ resolve_var(q0, u.subst).atom = x
  BY DEF query_node_ids
<1>4. \A u \in states : ~IsVar(resolve_var(q0, u.subst)) /\ resolve_var(q0, u.subst).atom = x
                          <=> resolve_var(q0, u.subst) = Atom(x)
  BY <1>2, TermsAre
<1>. QED BY <1>2, <1>3, <1>4

LEMMA EdgesAre ==
  ASSUME NEW states, \A u \in states : Going(u), NEW x, NEW y
  PROVE  <<x, y>> \in query_edges(states)
           <=> \E u \in states : \A a : Meets(a, u.subst) => a[0] = x /\ a[1] = y
<1>1. IsTerm(q0) /\ IsTerm(q1) /\ \A a : Val(q0, a) = a[0] /\ Val(q1, a) = a[1]
  BY TermsAre DEF Val, q0, q1
<1>2. ASSUME NEW u \in states
      PROVE  /\ resolve_var(q0, u.subst) = Atom(x) <=> \A a : Meets(a, u.subst) => a[0] = x
             /\ resolve_var(q1, u.subst) = Atom(y) <=> \A a : Meets(a, u.subst) => a[1] = y
             /\ IsTerm(resolve_var(q0, u.subst)) /\ IsTerm(resolve_var(q1, u.subst))
  BY <1>1, GroundIs, ResolveIs DEF Going
<1>3. <<x, y>> \in query_edges(states) <=>
        \E u \in states : LET p == resolve_var(q0, u.subst)
                              q == resolve_var(q1, u.subst)
                          IN  ~IsVar(p) /\ ~IsVar(q) /\ p.atom = x /\ q.atom = y
  <2>. DEFINE p(u) == resolve_var(q0, u.subst)
              q(u) == resolve_var(q1, u.subst)
              answers == {<<p(u), q(u)>> : u \in states}
              whole   == {t \in answers : ~IsVar(t[1]) /\ ~IsVar(t[2])}
  <2>1. query_edges(states) = {<<t[1].atom, t[2].atom>> : t \in whole}
    BY DEF query_edges
  <2>. HIDE DEF p, q
  <2>2. \A u \in states : <<p(u), q(u)>> \in answers /\ <<p(u), q(u)>>[1] = p(u) /\ <<p(u), q(u)>>[2] = q(u)
    OBVIOUS
  <2>3. \A t \in answers : \E u \in states : t[1] = p(u) /\ t[2] = q(u)
    OBVIOUS
  <2>4. \A u \in states : ~IsVar(p(u)) /\ ~IsVar(q(u)) =>
          \E t \in whole : t[1] = p(u) /\ t[2] = q(u)
    <3>. HIDE DEF answers
    <3>. QED BY <2>2
  <2>5. \A t \in whole : \E u \in states : t[1] = p(u) /\ t[2] = q(u) /\ ~IsVar(p(u)) /\ ~IsVar(q(u))
    <3>. HIDE DEF answers
    <3>. QED BY <2>3
  <2>. HIDE DEF whole
  <2>6. <<x, y>> \in query_edges(states) <=> \E t \in whole : t[1].atom = x /\ t[2].atom = y
    BY <2>1
  <2>7. (\E t \in whole : t[1].atom = x /\ t[2].atom = y)
          <=> \E u \in states : ~IsVar(p(u)) /\ ~IsVar(q(u)) /\ p(u).atom = x /\ q(u).atom = y
    BY <2>4, <2>5
  <2>. QED BY <2>6, <2>7 DEF p, q
<1>4. ASSUME NEW u \in states
      PROVE  LET p == resolve_var(q0, u.subst)
                 q == resolve_var(q1, u.subst)
             IN  ~IsVar(p) /\ ~IsVar(q) /\ p.atom = x /\ q.atom = y <=> p = Atom(x) /\ q = Atom(y)
  BY <1>2, TermsAre
<1>. QED BY <1>2, <1>3, <1>4

LEMMA AskingIs ==
  /\ Going(asking_one) /\ Going(asking_two) /\ Going(fresh(asking_one)[2]) /\ fresh(asking_one)[1] = Var(1)
  /\ \A a : Meets(a, asking_one.subst) /\ Meets(a, asking_two.subst) /\ Meets(a, fresh(asking_one)[2].subst)
<1>1. asking_one = [subst |-> <<>>, counter |-> 1] /\ asking_two = [subst |-> <<>>, counter |-> 2]
  BY DEF asking_one, asking_two, empty_goal_state
<1>2. /\ fresh(asking_one)[1] = Var(1)
      /\ fresh(asking_one)[2] = empty_goal_state(2)
  BY <1>1 DEF fresh, empty_goal_state
<1>. QED BY <1>2, NothingKnown DEF asking_one, asking_two

\* Asking for one side of a relation.
LEMMA RowsAnswer ==
  ASSUME NEW st, Going(st), \A a : Meets(a, st.subst), NEW R, NEW t1, NEW t2, IsTerm(t1), IsTerm(t2),
         q0 \in {t1, t2}, NEW x
  PROVE  x \in query_node_ids(Rows({<<Atom(e[1]), Atom(e[2])>> : e \in R}, <<t1, t2>>, st))
           <=> \E e \in R : \E a : Val(t1, a) = e[1] /\ Val(t2, a) = e[2] /\ a[0] = x
<1>. DEFINE rows == {<<Atom(e[1]), Atom(e[2])>> : e \in R}
            terms == <<t1, t2>>
            states == Rows(rows, terms, st)
<1>0. Len(terms) = 2 /\ terms[1] = t1 /\ terms[2] = t2
  OBVIOUS
<1>. HIDE DEF terms
<1>1. /\ \A u \in states :
           Going(u) /\ \E e \in R : \A a :
             Meets(a, u.subst) <=> Meets(a, st.subst) /\ Val(t1, a) = e[1] /\ Val(t2, a) = e[2]
      /\ \A e \in R : \A a :
           Meets(a, st.subst) /\ Val(t1, a) = e[1] /\ Val(t2, a) = e[2]
             => \E u \in states : Meets(a, u.subst)
  <2>1. /\ \A u \in states :
             Going(u) /\ \E e \in R : \A a :
               Meets(a, u.subst) <=> Meets(a, st.subst) /\ Val(terms[1], a) = e[1] /\ Val(terms[2], a) = e[2]
        /\ \A e \in R : \A a :
             Meets(a, st.subst) /\ Val(terms[1], a) = e[1] /\ Val(terms[2], a) = e[2]
               => \E u \in states : Meets(a, u.subst)
    BY <1>0, PairRowsAre
  <2>. HIDE DEF states
  <2>. QED BY <1>0, <2>1
<1>. HIDE DEF states
<1>2. x \in query_node_ids(states) <=> \E u \in states : \A a : Meets(a, u.subst) => a[0] = x
  BY <1>1, IdsAre
<1>3. ASSUME NEW u \in states, \A a : Meets(a, u.subst) => a[0] = x
      PROVE  \E e \in R : \E a : Val(t1, a) = e[1] /\ Val(t2, a) = e[2] /\ a[0] = x
  <2>1. PICK e \in R : \A a : Meets(a, u.subst) <=> Meets(a, st.subst) /\ Val(t1, a) = e[1] /\ Val(t2, a) = e[2]
    BY <1>1
  <2>2. PICK a : Meets(a, u.subst)
    BY <1>1, ValuesExist DEF Going
  <2>. QED BY <1>3, <2>1, <2>2
<1>4. ASSUME NEW e \in R, NEW a, Val(t1, a) = e[1], Val(t2, a) = e[2], a[0] = x
      PROVE  \E u \in states : \A b : Meets(b, u.subst) => b[0] = x
  <2>1. PICK u \in states : Meets(a, u.subst)
    BY <1>1, <1>4
  <2>2. PICK f \in R : \A b : Meets(b, u.subst) <=> Meets(b, st.subst) /\ Val(t1, b) = f[1] /\ Val(t2, b) = f[2]
    BY <1>1
  <2>3. \A b : Val(q0, b) = b[0]
    BY TermsAre DEF Val, q0
  <2>4. ASSUME NEW b, Meets(b, u.subst) PROVE b[0] = x
    <3>1. Val(t1, a) = Val(t1, b) /\ Val(t2, a) = Val(t2, b)
      BY <2>1, <2>2, <2>4
    <3>2. Val(q0, a) = Val(q0, b)
      BY <3>1
    <3>. QED BY <1>4, <2>3, <3>2
  <2>. QED BY <2>4
<1>5. x \in query_node_ids(states) <=> \E e \in R : \E a : Val(t1, a) = e[1] /\ Val(t2, a) = e[2] /\ a[0] = x
  BY <1>2, <1>3, <1>4
<1>. QED BY <1>5 DEF states, terms

LEMMA FirstsAnswer ==
  ASSUME NEW R, \A e \in R : e = <<e[1], e[2]>>, NEW rows, rows = {<<Atom(e[1]), Atom(e[2])>> : e \in R}, NEW y
  PROVE  /\ \A x : x \in query_node_ids(Rows(rows, <<q0, Atom(y)>>, asking_one)) <=> <<x, y>> \in R
         /\ \A x : x \in query_node_ids(Rows(rows, <<Atom(y), q0>>, asking_one)) <=> <<y, x>> \in R
         /\ \A x : x \in query_node_ids(Rows(rows, <<q0, fresh(asking_one)[1]>>, fresh(asking_one)[2]))
                     <=> \E e \in R : e[1] = x
<1>1. /\ IsTerm(q0) /\ IsTerm(Atom(y)) /\ IsTerm(fresh(asking_one)[1])
      /\ \A a : Val(q0, a) = a[0] /\ Val(Atom(y), a) = y /\ Val(fresh(asking_one)[1], a) = a[1]
  BY AskingIs, TermsAre DEF Val, q0
<1>2. \A e \in R : \E a : a[0] = e[1] /\ a[1] = e[2]
  <2>. SUFFICES ASSUME NEW e \in R PROVE \E a : a[0] = e[1] /\ a[1] = e[2]
    OBVIOUS
  <2>. DEFINE a == [i \in {0, 1} |-> IF i = 0 THEN e[1] ELSE e[2]]
  <2>1. a[0] = e[1] /\ a[1] = e[2]
    OBVIOUS
  <2>. HIDE DEF a
  <2>. QED BY <2>1
<1>3. \A e \in R : \E a : a[0] = e[2]
  <2>. SUFFICES ASSUME NEW e \in R PROVE \E a : a[0] = e[2]
    OBVIOUS
  <2>. DEFINE a == [i \in {0} |-> e[2]]
  <2>1. a[0] = e[2]
    OBVIOUS
  <2>. HIDE DEF a
  <2>. QED BY <2>1
<1>. DEFINE A == query_node_ids(Rows(rows, <<q0, Atom(y)>>, asking_one))
            B == query_node_ids(Rows(rows, <<Atom(y), q0>>, asking_one))
            C == query_node_ids(Rows(rows, <<q0, fresh(asking_one)[1]>>, fresh(asking_one)[2]))
<1>4. \A x : x \in A <=> \E e \in R : \E a : Val(q0, a) = e[1] /\ Val(Atom(y), a) = e[2] /\ a[0] = x
  BY <1>1, AskingIs, RowsAnswer
<1>5. \A x : x \in B <=> \E e \in R : \E a : Val(Atom(y), a) = e[1] /\ Val(q0, a) = e[2] /\ a[0] = x
  BY <1>1, AskingIs, RowsAnswer
<1>6. \A x : x \in C <=> \E e \in R : \E a : Val(q0, a) = e[1] /\ Val(fresh(asking_one)[1], a) = e[2] /\ a[0] = x
  BY <1>1, AskingIs, RowsAnswer
<1>. HIDE DEF A, B, C
<1>7. \A x : x \in A <=> \E e \in R : e[1] = x /\ e[2] = y
  BY <1>1, <1>2, <1>4
<1>8. \A x : x \in B <=> \E e \in R : e[1] = y /\ e[2] = x
  BY <1>1, <1>3, <1>5
<1>9. \A x : x \in C <=> \E e \in R : e[1] = x
  BY <1>1, <1>2, <1>6
<1>10. \A x, z : (\E e \in R : e[1] = x /\ e[2] = z) <=> <<x, z>> \in R
  OBVIOUS
<1>. QED BY <1>7, <1>8, <1>9, <1>10 DEF A, B, C

\* The edges asked for are those of the graph.
LEMMA EdgesAnswer ==
  ASSUME IsGraph(traced)
  PROVE  graph_rel_edges(traced) = traced.edge
<1>. DEFINE terms == <<q0, q1>>
            R == traced.edge
            states == Rows({<<Atom(e[1]), Atom(e[2])>> : e \in R}, terms, asking_two)
<1>1. /\ Len(terms) = 2 /\ terms[1] = q0 /\ terms[2] = q1 /\ IsTerm(q0) /\ IsTerm(q1)
      /\ \A a : Val(q0, a) = a[0] /\ Val(q1, a) = a[1]
  BY TermsAre DEF Val, q0, q1
<1>. HIDE DEF terms, R
<1>2. /\ \A u \in states : Going(u) /\ \E e \in R : \A a :
           Meets(a, u.subst) <=> Meets(a, asking_two.subst) /\ Val(terms[1], a) = e[1] /\ Val(terms[2], a) = e[2]
      /\ \A e \in R : \A a :
           Meets(a, asking_two.subst) /\ Val(terms[1], a) = e[1] /\ Val(terms[2], a) = e[2]
             => \E u \in states : Meets(a, u.subst)
  <2>. DEFINE st == asking_two
  <2>1. Going(st) /\ Len(terms) = 2 /\ IsTerm(terms[1]) /\ IsTerm(terms[2])
    BY <1>1, AskingIs
  <2>. HIDE DEF st
  <2>2. /\ \A u \in Rows({<<Atom(e[1]), Atom(e[2])>> : e \in R}, terms, st) :
             Going(u) /\ \E e \in R : \A a :
               Meets(a, u.subst) <=> Meets(a, st.subst) /\ Val(terms[1], a) = e[1] /\ Val(terms[2], a) = e[2]
        /\ \A e \in R : \A a :
             Meets(a, st.subst) /\ Val(terms[1], a) = e[1] /\ Val(terms[2], a) = e[2]
               => \E u \in Rows({<<Atom(e2[1]), Atom(e2[2])>> : e2 \in R}, terms, st) : Meets(a, u.subst)
    BY <2>1, PairRowsAre
  <2>. QED BY <2>2 DEF st
<1>3. graph_rel_edges(traced) = query_edges(states)
  BY DEF graph_rel_edges, edge_fact, terms, R
<1>4. \A e \in R : e = <<e[1], e[2]>>
  BY DEF IsGraph, R
<1>. HIDE DEF states
<1>5. ASSUME NEW x, NEW y, <<x, y>> \in query_edges(states) PROVE <<x, y>> \in R
  <2>1. PICK u \in states : \A a : Meets(a, u.subst) => a[0] = x /\ a[1] = y
    BY <1>2, <1>5, EdgesAre
  <2>2. PICK e \in R : \A a :
          Meets(a, u.subst) <=> Meets(a, asking_two.subst) /\ Val(terms[1], a) = e[1] /\ Val(terms[2], a) = e[2]
    BY <1>2
  <2>3. PICK a : Meets(a, u.subst)
    BY <1>2, ValuesExist DEF Going
  <2>4. e[1] = x /\ e[2] = y
    BY <1>1, <2>1, <2>2, <2>3
  <2>. QED BY <1>4, <2>4
<1>6. ASSUME NEW e \in R PROVE <<e[1], e[2]>> \in query_edges(states)
  <2>. DEFINE a == [i \in {0, 1} |-> IF i = 0 THEN e[1] ELSE e[2]]
  <2>1. a[0] = e[1] /\ a[1] = e[2]
    OBVIOUS
  <2>. HIDE DEF a
  <2>2. PICK u \in states : Meets(a, u.subst)
    BY <1>1, <1>2, <2>1, AskingIs
  <2>3. PICK f \in R : \A b :
          Meets(b, u.subst) <=> Meets(b, asking_two.subst) /\ Val(terms[1], b) = f[1] /\ Val(terms[2], b) = f[2]
    BY <1>2
  <2>4. \A b : Meets(b, u.subst) => b[0] = e[1] /\ b[1] = e[2]
    BY <1>1, <2>1, <2>2, <2>3
  <2>. QED BY <1>2, <2>4, EdgesAre
<1>7. \A t \in query_edges(states) : \E x, y : t = <<x, y>>
  BY DEF query_edges
<1>8. query_edges(states) \subseteq R
  BY <1>5, <1>7
<1>9. R \subseteq query_edges(states)
  BY <1>4, <1>6
<1>. QED BY <1>3, <1>8, <1>9 DEF R

\* One pair is asked for.
LEMMA ReachableAnswers ==
  ASSUME IsGraph(traced), traced.node = Id, NEW n \in Id, NEW m \in Id
  PROVE  graph_query_reachable(traced, n, m) <=> m \in After(traced, n)
<1>. DEFINE terms == <<q0, q1>>
            R == enumerate_reachable_pairs(traced)
            states == Rows({<<Atom(e[1]), Atom(e[2])>> : e \in R}, terms, asking_two)
            from == <<q0, Atom(n)>>
            to   == <<q1, Atom(m)>>
            more == UNION {UNION {goal_equal(to, s2) : s2 \in goal_equal(from, s)} : s \in states}
<1>1. /\ Len(terms) = 2 /\ terms[1] = q0 /\ terms[2] = q1 /\ IsTerm(q0) /\ IsTerm(q1)
      /\ \A a : Val(q0, a) = a[0] /\ Val(q1, a) = a[1]
      /\ from[1] = q0 /\ from[2] = Atom(n) /\ to[1] = q1 /\ to[2] = Atom(m)
      /\ IsTerm(Atom(n)) /\ IsTerm(Atom(m)) /\ \A a : Val(Atom(n), a) = n /\ Val(Atom(m), a) = m
  BY TermsAre DEF Val, q0, q1
<1>2. graph_query_reachable(traced, n, m) <=> query_edges(more) # {}
  BY DEF graph_query_reachable, reachable
<1>0. <<n, m>> \in R <=> m \in After(traced, n)
  BY PairsAreReached
<1>00. \A e \in R : e = <<e[1], e[2]>>
  BY PairsAreReached
<1>. HIDE DEF terms, from, to, R
<1>3. /\ \A u \in states : Going(u) /\ \E e \in R : \A a :
           Meets(a, u.subst) <=> Meets(a, asking_two.subst) /\ Val(terms[1], a) = e[1] /\ Val(terms[2], a) = e[2]
      /\ \A e \in R : \A a :
           Meets(a, asking_two.subst) /\ Val(terms[1], a) = e[1] /\ Val(terms[2], a) = e[2]
             => \E u \in states : Meets(a, u.subst)
  <2>. DEFINE st == asking_two
  <2>1. Going(st) /\ Len(terms) = 2 /\ IsTerm(terms[1]) /\ IsTerm(terms[2])
    BY <1>1, AskingIs
  <2>. HIDE DEF st
  <2>2. /\ \A u \in Rows({<<Atom(e[1]), Atom(e[2])>> : e \in R}, terms, st) :
             Going(u) /\ \E e \in R : \A a :
               Meets(a, u.subst) <=> Meets(a, st.subst) /\ Val(terms[1], a) = e[1] /\ Val(terms[2], a) = e[2]
        /\ \A e \in R : \A a :
             Meets(a, st.subst) /\ Val(terms[1], a) = e[1] /\ Val(terms[2], a) = e[2]
               => \E u \in Rows({<<Atom(e2[1]), Atom(e2[2])>> : e2 \in R}, terms, st) : Meets(a, u.subst)
    BY <2>1, PairRowsAre
  <2>. QED BY <2>2 DEF st
<1>. HIDE DEF states
<1>4. ASSUME NEW s, Going(s)
      PROVE  /\ \A u \in goal_equal(from, s) : Going(u) /\ \A a : Meets(a, u.subst) <=> Meets(a, s.subst) /\ a[0] = n
             /\ \A a : Meets(a, s.subst) /\ a[0] = n => \E u \in goal_equal(from, s) : Meets(a, u.subst)
             /\ \A u \in goal_equal(to, s) : Going(u) /\ \A a : Meets(a, u.subst) <=> Meets(a, s.subst) /\ a[1] = m
             /\ \A a : Meets(a, s.subst) /\ a[1] = m => \E u \in goal_equal(to, s) : Meets(a, u.subst)
  <2>0. IsTerm(from[1]) /\ IsTerm(from[2]) /\ IsTerm(to[1]) /\ IsTerm(to[2])
    BY <1>1
  <2>1. /\ \A u \in goal_equal(from, s) :
             Going(u) /\ \A a : Meets(a, u.subst) <=> Meets(a, s.subst) /\ Val(from[1], a) = Val(from[2], a)
        /\ \A a : Meets(a, s.subst) /\ Val(from[1], a) = Val(from[2], a)
                    => \E u \in goal_equal(from, s) : Meets(a, u.subst)
    BY <1>4, <2>0, EqualIs
  <2>2. /\ \A u \in goal_equal(to, s) :
             Going(u) /\ \A a : Meets(a, u.subst) <=> Meets(a, s.subst) /\ Val(to[1], a) = Val(to[2], a)
        /\ \A a : Meets(a, s.subst) /\ Val(to[1], a) = Val(to[2], a)
                    => \E u \in goal_equal(to, s) : Meets(a, u.subst)
    BY <1>4, <2>0, EqualIs
  <2>3. \A a : (Val(from[1], a) = Val(from[2], a) <=> a[0] = n) /\ (Val(to[1], a) = Val(to[2], a) <=> a[1] = m)
    BY <1>1
  <2>4. /\ \A u \in goal_equal(from, s) : Going(u) /\ \A a : Meets(a, u.subst) <=> Meets(a, s.subst) /\ a[0] = n
        /\ \A a : Meets(a, s.subst) /\ a[0] = n => \E u \in goal_equal(from, s) : Meets(a, u.subst)
    BY <2>1, <2>3
  <2>5. /\ \A u \in goal_equal(to, s) : Going(u) /\ \A a : Meets(a, u.subst) <=> Meets(a, s.subst) /\ a[1] = m
        /\ \A a : Meets(a, s.subst) /\ a[1] = m => \E u \in goal_equal(to, s) : Meets(a, u.subst)
    BY <2>2, <2>3
  <2>. QED BY <2>4, <2>5
<1>5. ASSUME NEW u \in more
      PROVE  Going(u) /\ <<n, m>> \in R /\ \A a : Meets(a, u.subst) => a[0] = n /\ a[1] = m
  <2>1. PICK s \in states : \E s2 \in goal_equal(from, s) : u \in goal_equal(to, s2)
    OBVIOUS
  <2>2. PICK s2 \in goal_equal(from, s) : u \in goal_equal(to, s2)
    BY <2>1
  <2>3. PICK e \in R : \A a :
          Meets(a, s.subst) <=> Meets(a, asking_two.subst) /\ Val(terms[1], a) = e[1] /\ Val(terms[2], a) = e[2]
    BY <1>3
  <2>4. Going(s) /\ Going(s2) /\ Going(u)
    BY <1>3, <1>4, <2>2
  <2>5. \A a : Meets(a, u.subst) => a[0] = n /\ a[1] = m /\ a[0] = e[1] /\ a[1] = e[2]
    <3>1. ASSUME NEW a, Meets(a, u.subst) PROVE Meets(a, s2.subst) /\ a[1] = m
      BY <1>4, <2>2, <2>4, <3>1
    <3>2. ASSUME NEW a, Meets(a, s2.subst) PROVE Meets(a, s.subst) /\ a[0] = n
      BY <1>4, <2>2, <2>4, <3>2
    <3>3. ASSUME NEW a, Meets(a, s.subst) PROVE a[0] = e[1] /\ a[1] = e[2]
      BY <1>1, <2>3, <3>3
    <3>. QED BY <3>1, <3>2, <3>3
  <2>6. PICK a : Meets(a, u.subst)
    BY <2>4, ValuesExist DEF Going
  <2>7. e[1] = n /\ e[2] = m
    BY <2>5, <2>6
  <2>. HIDE DEF more
  <2>. QED BY <1>00, <2>4, <2>5, <2>7
<1>6. ASSUME <<n, m>> \in R PROVE more # {}
  <2>. DEFINE a == [i \in {0, 1} |-> IF i = 0 THEN n ELSE m]
              e == <<n, m>>
  <2>1. a[0] = n /\ a[1] = m /\ e[1] = n /\ e[2] = m
    OBVIOUS
  <2>. HIDE DEF a, e
  <2>2. PICK s \in states : Meets(a, s.subst)
    BY <1>1, <1>3, <1>6, <2>1, AskingIs DEF e
  <2>3. PICK s2 \in goal_equal(from, s) : Meets(a, s2.subst)
    BY <1>3, <1>4, <2>1, <2>2
  <2>4. PICK u \in goal_equal(to, s2) : Meets(a, u.subst)
    BY <1>3, <1>4, <2>1, <2>3
  <2>. QED BY <2>4
<1>. HIDE DEF more
<1>8. query_edges(more) # {} <=> more # {}
  <2>1. ASSUME NEW u \in more PROVE <<n, m>> \in query_edges(more)
    BY <1>5, EdgesAre
  <2>2. query_edges(more) # {} => more # {}
    BY DEF query_edges
  <2>. QED BY <2>1, <2>2
<1>. QED BY <1>0, <1>2, <1>5, <1>6, <1>8

\* What a node leads to, with itself.
LEMMA DownstreamIs ==
  ASSUME IsGraph(traced), traced = [node |-> traced.node, edge |-> traced.edge], traced.node = Id, NEW n \in Id
  PROVE  /\ graph_query_downstream_of(traced, n) = Inside(traced, {n} \cup After(traced, n))
         /\ graph_query_upstream_of(traced, n) = graph_query_downstream_of(traced, n)
<1>. DEFINE self == goal_equal(<<q0, Atom(n)>>, asking_one)
            N == {n} \cup After(traced, n)
<1>1. \A A, B : query_node_ids(A \cup B) = query_node_ids(A) \cup query_node_ids(B)
  BY DEF query_node_ids
<1>2. query_node_ids(self) = {n}
  <2>. DEFINE terms == <<q0, Atom(n)>>
  <2>1. /\ terms[1] = q0 /\ terms[2] = Atom(n) /\ IsTerm(q0) /\ IsTerm(Atom(n))
        /\ \A a : Val(q0, a) = a[0] /\ Val(Atom(n), a) = n
    BY TermsAre DEF Val, q0
  <2>. HIDE DEF terms
  <2>2. Going(asking_one) /\ IsTerm(terms[1]) /\ IsTerm(terms[2]) /\ \A a : Meets(a, asking_one.subst)
    BY <2>1, AskingIs
  <2>3. /\ \A u \in goal_equal(terms, asking_one) : Going(u) /\
             \A a : Meets(a, u.subst) <=> Meets(a, asking_one.subst) /\ Val(terms[1], a) = Val(terms[2], a)
        /\ \A a : Meets(a, asking_one.subst) /\ Val(terms[1], a) = Val(terms[2], a)
                    => \E u \in goal_equal(terms, asking_one) : Meets(a, u.subst)
    BY <2>2, EqualIs
  <2>4. /\ \A u \in self : Going(u) /\ \A a : Meets(a, u.subst) <=> a[0] = n
        /\ \A a : a[0] = n => \E u \in self : Meets(a, u.subst)
    BY <2>1, <2>2, <2>3 DEF terms
  <2>. HIDE DEF self
  <2>5. \A x : x \in query_node_ids(self) <=> \E u \in self : \A a : Meets(a, u.subst) => a[0] = x
    BY <2>4, IdsAre
  <2>6. \E a : a[0] = n
    <3>. DEFINE a == [i \in {0} |-> n]
    <3>1. a[0] = n
      OBVIOUS
    <3>. HIDE DEF a
    <3>. QED BY <3>1
  <2>7. n \in query_node_ids(self)
    BY <2>4, <2>5, <2>6
  <2>8. ASSUME NEW x \in query_node_ids(self) PROVE x = n
    BY <2>4, <2>5, <2>6
  <2>. QED BY <2>7, <2>8
<1>. HIDE DEF self
<1>3. query_node_ids(Rows(reachable(traced), <<Atom(n), q0>>, asking_one)) = After(traced, n)
  <2>. DEFINE R == enumerate_reachable_pairs(traced)
  <2>1. R = {p \in Id \X Id : p[2] \in After(traced, p[1])} /\ After(traced, n) \subseteq Id
    BY PairsAreReached, AfterIs
  <2>2. (\A e \in R : e = <<e[1], e[2]>>) /\ \A m : <<n, m>> \in R <=> m \in After(traced, n)
    BY <2>1
  <2>. HIDE DEF R
  <2>3. reachable(traced) = {<<Atom(e[1]), Atom(e[2])>> : e \in R}
    BY DEF reachable, R
  <2>4. \A x : x \in query_node_ids(Rows(reachable(traced), <<Atom(n), q0>>, asking_one)) <=> <<n, x>> \in R
    BY <2>2, <2>3, FirstsAnswer
  <2>. QED BY <2>2, <2>4
<1>4. query_node_ids(Rows(reachable(reverse_graph(traced)), <<q0, Atom(n)>>, asking_one)) = After(traced, n)
  <2>. DEFINE R == enumerate_reachable_pairs(reverse_graph(traced))
  <2>1. R = {p \in Id \X Id : p[1] \in After(traced, p[2])} /\ After(traced, n) \subseteq Id
    BY ReverseIs, AfterIs
  <2>2. (\A e \in R : e = <<e[1], e[2]>>) /\ \A m : <<m, n>> \in R <=> m \in After(traced, n)
    BY <2>1
  <2>. HIDE DEF R
  <2>3. reachable(reverse_graph(traced)) = {<<Atom(e[1]), Atom(e[2])>> : e \in R}
    BY DEF reachable, R
  <2>4. \A x : x \in query_node_ids(Rows(reachable(reverse_graph(traced)), <<q0, Atom(n)>>, asking_one))
                 <=> <<x, n>> \in R
    BY <2>2, <2>3, FirstsAnswer
  <2>. QED BY <2>2, <2>4
<1>5. induced_subgraph_from_ids(traced, N) = Inside(traced, N)
  <2>. HIDE DEF N
  <2>1. traced.edge \cap (N \X N) = {e \in traced.edge : e[1] \in N /\ e[2] \in N}
    BY DEF IsGraph
  <2>. QED BY <2>1 DEF induced_subgraph_from_ids, Inside
<1>6. graph_query_downstream_of(traced, n) = induced_subgraph_from_ids(traced, N)
  BY <1>1, <1>2, <1>3 DEF graph_query_downstream_of, self
<1>7. graph_query_upstream_of(traced, n) = induced_subgraph_from_ids(traced, N)
  BY <1>1, <1>2, <1>4 DEF graph_query_upstream_of, self
<1>. QED BY <1>5, <1>6, <1>7

\* The nodes that carry something.
LEMMA AttributesAnswer ==
  ASSUME NEW attr, NEW x
  PROVE  query_node_ids(Rows(attr_fact(traced, attr), <<q0, Atom(x)>>, asking_one))
           = {n \in traced.node : attr[n] = x}
<1>. DEFINE R == {<<n, attr[n]>> : n \in traced.node}
<1>1. \A e \in R : e = <<e[1], e[2]>>
  OBVIOUS
<1>2. \A e \in R : \E n \in traced.node : e[1] = n /\ e[2] = attr[n]
  OBVIOUS
<1>3. ASSUME NEW n \in traced.node PROVE \E e \in R : e[1] = n /\ e[2] = attr[n]
  <2>1. <<n, attr[n]>> \in R /\ <<n, attr[n]>>[1] = n /\ <<n, attr[n]>>[2] = attr[n]
    OBVIOUS
  <2>. QED BY <2>1
<1>. HIDE DEF R
<1>4. attr_fact(traced, attr) = {<<Atom(e[1]), Atom(e[2])>> : e \in R}
  BY <1>2, <1>3 DEF attr_fact
<1>5. \A n : n \in query_node_ids(Rows(attr_fact(traced, attr), <<q0, Atom(x)>>, asking_one)) <=> <<n, x>> \in R
  BY <1>1, <1>4, FirstsAnswer
<1>6. \A n : <<n, x>> \in R <=> n \in traced.node /\ attr[n] = x
  BY DEF R
<1>. QED BY <1>5, <1>6

LEMMA NodesAnswer == graph_rel_node_ids(traced) = traced.node
<1>. DEFINE has(n) == <<Kind[n], Space[n], Level[n], Label[n]>>
            R == {<<n, has(n)>> : n \in traced.node}
<1>1. \A e \in R : e = <<e[1], e[2]>>
  OBVIOUS
<1>0. node_fact(traced) = {<<Atom(n), Atom(has(n))>> : n \in traced.node}
  BY DEF node_fact
<1>. HIDE DEF has
<1>5. \A e \in R : \E n \in traced.node : e[1] = n /\ e[2] = has(n)
  OBVIOUS
<1>6. ASSUME NEW n \in traced.node PROVE \E e \in R : e[1] = n /\ e[2] = has(n)
  <2>1. <<n, has(n)>> \in R /\ <<n, has(n)>>[1] = n /\ <<n, has(n)>>[2] = has(n)
    OBVIOUS
  <2>. QED BY <2>1
<1>. HIDE DEF R
<1>2. node_fact(traced) = {<<Atom(e[1]), Atom(e[2])>> : e \in R}
  BY <1>0, <1>5, <1>6
<1>3. \A x : x \in query_node_ids(Rows(node_fact(traced), <<q0, fresh(asking_one)[1]>>, fresh(asking_one)[2]))
               <=> \E e \in R : e[1] = x
  BY <1>1, <1>2, FirstsAnswer
<1>4. \A x : (\E e \in R : e[1] = x) <=> x \in traced.node
  BY <1>5, <1>6
<1>. QED BY <1>3, <1>4 DEF graph_rel_node_ids

\* What it is for a sequence to begin with another.
LEMMA PrefixIs ==
  ASSUME NEW s, NEW t, s \in Seq(Range(s)), t \in Seq(Range(t))
  PROVE  IsPrefix(s, t) <=> Len(s) <= Len(t) /\ \A i \in 1..Len(s) : s[i] = t[i]
<1>1. Len(s) \in Nat /\ Len(t) \in Nat /\ DOMAIN s = 1..Len(s) /\ DOMAIN t = 1..Len(t)
  BY LenProperties
<1>2. SubSeq(s, 1, Len(s)) = s
  BY SubSeqFull
<1>3. ASSUME Len(s) <= Len(t)
      PROVE  /\ SubSeq(t, 1, Len(s)) \in Seq(Range(t)) /\ Len(SubSeq(t, 1, Len(s))) = Len(s)
             /\ \A i \in 1..Len(s) : SubSeq(t, 1, Len(s))[i] = t[i]
  BY <1>1, <1>3
<1>4. ASSUME Len(s) <= Len(t) PROVE s = SubSeq(t, 1, Len(s)) <=> \A i \in 1..Len(s) : s[i] = t[i]
  <2>1. ASSUME \A i \in 1..Len(s) : s[i] = t[i] PROVE s = SubSeq(t, 1, Len(s))
    <3>. DEFINE u == SubSeq(t, 1, Len(s))
              S == Range(s) \cup Range(t)
    <3>1. u \in Seq(Range(t)) /\ Len(s) = Len(u) /\ \A i \in 1..Len(s) : s[i] = u[i]
      BY <1>3, <1>4, <2>1
    <3>. HIDE DEF u
    <3>2. s \in Seq(S) /\ u \in Seq(S)
      BY <3>1
    <3>. HIDE DEF S
    <3>3. s = u
      BY <3>1, <3>2, SeqEqual
    <3>. QED BY <3>3 DEF u
  <2>. QED BY <1>3, <1>4, <2>1
<1>. QED BY <1>2, <1>4 DEF IsPrefix

\* However a traced graph came to be, the questions put to its relations are
\* answered by what its nodes, its edges and its paths are.
THEOREM QuestionsAreAnswered == Drawn => []QueriesMean
<1>1. /\ traced.node = Id /\ IsGraph(traced) /\ traced = [node |-> traced.node, edge |-> traced.edge]
      => QueriesMean
  <2>. SUFFICES ASSUME traced.node = Id, IsGraph(traced), traced = [node |-> traced.node, edge |-> traced.edge]
                PROVE  QueriesMean
    OBVIOUS
  <2>1. \A n \in Id : Paths(traced)[n] = After(traced, n)
    BY DEF Paths
  <2>2. ASSUME NEW n \in Id
        PROVE  /\ graph_query_downstream_of(traced, n) = Inside(traced, {n} \cup Paths(traced)[n])
               /\ graph_query_upstream_of(traced, n) = graph_query_downstream_of(traced, n)
               /\ \A m \in Id : graph_query_reachable(traced, n, m) <=> m \in Paths(traced)[n]
    BY <2>1, DownstreamIs, ReachableAnswers
  <2>3. ASSUME NEW k \in Range(Kind), NEW l \in Range(Level)
        PROVE  query_nodes_by_kind(traced, k) \cap query_nodes_by_level(traced, l)
                 = intersect_graphs(subgraph_by_level(traced, l), subgraph_by_kind(traced, k)).node
    <3>1. /\ query_nodes_by_kind(traced, k) = {n \in traced.node : Kind[n] = k}
          /\ query_nodes_by_level(traced, l) = {n \in traced.node : Level[n] = l}
      BY AttributesAnswer DEF query_nodes_by_kind, query_nodes_by_level
    <3>. DEFINE of    == [n \in Id |-> Kind[n] = k]
                level == [n \in Id |-> Level[n] = l]
    <3>2. /\ subgraph_by_kind(traced, k).node = {n \in traced.node : of[n]}
          /\ subgraph_by_level(traced, l).node = {n \in traced.node : level[n]}
      <4>. HIDE DEF of, level
      <4>. QED BY KeptByPredicate DEF subgraph_by_kind, subgraph_by_level, of, level
    <3>3. intersect_graphs(subgraph_by_level(traced, l), subgraph_by_kind(traced, k)).node
            = subgraph_by_level(traced, l).node \cap subgraph_by_kind(traced, k).node
      BY DEF intersect_graphs, induced_subgraph_from_ids
    <3>. QED BY <3>1, <3>2, <3>3
  <2>4. ASSUME NEW ns \in Spaces
        PROVE  query_nodes_by_namespace(traced, ns)
                 = {n \in subgraph_by_namespace(traced, ns).node : Space[n] = ns}
    <3>. DEFINE starts == [n \in Id |-> StartsWith(ns, Space[n])]
    <3>1. query_nodes_by_namespace(traced, ns) = {n \in traced.node : Space[n] = ns}
      BY AttributesAnswer DEF query_nodes_by_namespace
    <3>2. subgraph_by_namespace(traced, ns).node = {n \in traced.node : starts[n]}
      <4>. HIDE DEF starts
      <4>. QED BY KeptByPredicate DEF subgraph_by_namespace, starts
    <3>3. \A n \in Id : Space[n] = ns => StartsWith(ns, Space[n])
      <4>. SUFFICES ASSUME NEW n \in Id, Space[n] = ns PROVE IsPrefix(ns, ns)
        BY DEF StartsWith
      <4>1. ns \in Seq(Range(ns)) /\ Len(ns) \in Nat
        BY AskedAssumption, LenProperties
      <4>. QED BY <4>1, PrefixIs
    <3>. QED BY <3>1, <3>2, <3>3
  <2>5. ASSUME NEW where \in Queries
        PROVE  run_clauses(traced, where)
                 = {[v \in Variables(where) |-> Atom(node[v])] : node \in
                      {n \in [Variables(where) -> Id] : \A c \in Range(where) : Means(c, n, Paths(traced))}}
    BY ListsAnswer DEF Fits
  <2>6. graph_rel_node_ids(traced) = traced.node /\ graph_rel_edges(traced) = traced.edge
    BY NodesAnswer, EdgesAnswer
  <2>. HIDE DEF Paths
  <2>. QED BY <2>2, <2>3, <2>4, <2>5, <2>6 DEF QueriesMean
<1>. QED BY <1>1, DrawnAreGraphs, PTL

-----------------------------------------------------------------------------
(* Filters.                                                                *)

\* An edge of the shorter graph is a path through accessors.
LEMMA ShortEdgesAre ==
  ASSUME NEW g, IsGraph(g)
  PROVE  LET short == collapse_accessor_paths(g)
             accessors == {n \in Id : default_is_accessor(n)}
         IN  short.edge = {e \in short.node \X short.node :
                             e[1] # e[2] /\ e[2] \in After(Inside(g, {e[1], e[2]} \cup accessors), e[1])}
<1>. DEFINE short == collapse_accessor_paths(g)
            accessors == {n \in Id : default_is_accessor(n)}
            on(x, y) == Inside(g, {x, y} \cup accessors)
<1>1. /\ short.node = {n \in g.node : ~default_is_accessor(n)} /\ IsGraph(short) /\ g.node \subseteq Id
      /\ \A x, y : <<x, y>> \in short.edge <=>
           x \in short.node /\ y \in short.node /\ y # x /\ y \in Beyond(g, x)
  BY ShortIs DEF IsGraph
<1>. HIDE DEF short
<1>2. ASSUME NEW x \in short.node, NEW y \in short.node, x # y
      PROVE  y \in Beyond(g, x) <=> y \in After(on(x, y), x)
  <2>. DEFINE N == {x, y} \cup accessors
              h == on(x, y)
              A == After(h, x)
  <2>1. /\ IsGraph(h)
        /\ \A u, v : <<u, v>> \in h.edge <=> <<u, v>> \in g.edge /\ u \in N /\ v \in N
    <3>. HIDE DEF N
    <3>1. h.node = g.node \cap N /\ h.edge = {e \in g.edge : e[1] \in N /\ e[2] \in N}
      BY DEF Inside, N
    <3>. HIDE DEF h
    <3>. QED BY <3>1 DEF IsGraph
  <2>2. x \in Id /\ y \in Id /\ ~default_is_accessor(x) /\ ~default_is_accessor(y)
    BY <1>1
  <2>3. /\ outNeighbors(g, x) \subseteq Beyond(g, x)
        /\ \A u, v : <<u, v>> \in g.edge /\ u \in Beyond(g, x) \ {x} /\ default_is_accessor(u)
                       => v \in Beyond(g, x)
        /\ \A S \in SUBSET Id :
             /\ outNeighbors(g, x) \subseteq S
             /\ \A u, v : <<u, v>> \in g.edge /\ u \in S \ {x} /\ default_is_accessor(u) => v \in S
             => Beyond(g, x) \subseteq S \cup {x}
    BY <2>2, BeyondIs
  <2>. HIDE DEF h
  <2>4. A \subseteq Id /\ outNeighbors(h, x) \subseteq A /\ NoWayOut(h, A)
    BY <2>1, AfterIs DEF IsGraph
  <2>5. ASSUME y \in Beyond(g, x) PROVE y \in A
    <3>. DEFINE S == A \cup (Id \ N)
    <3>. HIDE DEF A
    <3>1. outNeighbors(g, x) \subseteq S
      <4>. SUFFICES ASSUME NEW v, <<x, v>> \in g.edge, v \in N PROVE v \in A
        BY NeighborsAre DEF IsGraph
      <4>1. v \in outNeighbors(h, x)
        BY <2>1, NeighborsAre
      <4>. QED BY <2>4, <4>1
    <3>2. ASSUME NEW u, NEW v, <<u, v>> \in g.edge, u \in S \ {x}, default_is_accessor(u) PROVE v \in S
      <4>1. u \in Id /\ v \in Id /\ u \in N
        BY <3>2 DEF IsGraph
      <4>2. u \in A
        BY <3>2, <4>1
      <4>3. v \in N => v \in A
        BY <2>1, <2>4, <3>2, <4>1, <4>2 DEF NoWayOut
      <4>. QED BY <4>1, <4>3
    <3>3. S \in SUBSET Id
      BY <2>4
    <3>4. y \notin Id \ N
      OBVIOUS
    <3>5. Beyond(g, x) \subseteq S \cup {x}
      <4>. HIDE DEF S
      <4>. QED BY <2>3, <3>1, <3>2, <3>3
    <3>. QED BY <1>2, <2>5, <3>4, <3>5
  <2>6. ASSUME y \in A PROVE y \in Beyond(g, x)
    <3>. SUFFICES ASSUME y \notin Beyond(g, x) PROVE FALSE
      OBVIOUS
    <3>. DEFINE S == Beyond(g, x)
    <3>1. outNeighbors(h, x) \subseteq S
      BY <2>1, <2>3, NeighborsAre
    <3>2. ASSUME NEW u, NEW v, <<u, v>> \in h.edge, u \in S PROVE v \in S
      <4>1. <<u, v>> \in g.edge /\ u \in N /\ u # y
        BY <2>1, <3>2
      <4>2. CASE u = x
        BY <2>3, <4>1, <4>2, NeighborsAre
      <4>3. CASE u # x
        <5>1. default_is_accessor(u)
          BY <4>1, <4>3
        <5>. QED BY <2>3, <3>2, <4>1, <4>3, <5>1
      <4>. QED BY <4>2, <4>3
    <3>3. A \subseteq S
      <4>. HIDE DEF S
      <4>. QED BY <2>1, <3>1, <3>2, AfterIs DEF NoWayOut
    <3>. QED BY <2>6, <3>3
  <2>. QED BY <2>5, <2>6 DEF h
<1>. HIDE DEF on, accessors
<1>3. \A x, y : <<x, y>> \in short.edge <=>
        x \in short.node /\ y \in short.node /\ x # y /\ y \in After(on(x, y), x)
  BY <1>1, <1>2
<1>4. short.edge \subseteq short.node \X short.node
  BY <1>1 DEF IsGraph
<1>5. short.edge = {e \in short.node \X short.node : e[1] # e[2] /\ e[2] \in After(on(e[1], e[2]), e[1])}
  BY <1>3, <1>4
<1>. QED BY <1>5 DEF short, on, accessors

LEMMA DirectIs ==
  ASSUME NEW g, IsGraph(g)
  PROVE  subgraph_by_kind(g, "propagator") = Inside(g, {n \in Id : Kind[n] = "propagator"})
<1>. DEFINE keep == [n \in Id |-> Kind[n] = "propagator"]
            P == {n \in Id : Kind[n] = "propagator"}
            N == {n \in g.node : keep[n]}
            drop == {n \in g.node : ~keep[n]}
<1>1. subgraph_by_kind(g, "propagator") = induced_subgraph_from_ids(g, g.node \ drop)
  BY DEF subgraph_by_kind, induced_subgraph_by_node_predicate
<1>2. g.node \ drop = N /\ N = g.node \cap P
  BY DEF IsGraph
<1>. HIDE DEF N, P, drop
<1>3. g.node \cap N = g.node \cap P /\ g.edge \cap (N \X N) = {e \in g.edge : e[1] \in P /\ e[2] \in P}
  BY <1>2 DEF IsGraph
<1>. QED BY <1>1, <1>2, <1>3 DEF induced_subgraph_from_ids, Inside, P

\* The start of a card's network.
LEMMA NetworkStarts ==
  ASSUME NEW card
  PROVE  graph_query_card_network(traced, card)
           = connected_component(traced, find_cells_by_label_prefix(traced, <<"CARD", "|">> \o card))
<1>. DEFINE p == <<"CARD", "|">> \o card
            c == [op |-> "label_prefix", terms |-> <<q0, Atom(p)>>]
            found == {n \in traced.node : StartsWith(p, Label[n])}
            rows == {<<Atom(n)>> : n \in found}
            states == Rows(rows, <<q0>>, asking_one)
<1>1. c.terms[1] = q0 /\ c.terms[2] = Atom(p) /\ c.op = "label_prefix"
  OBVIOUS
<1>2. /\ IsTerm(q0) /\ IsTerm(Atom(p)) /\ ~IsVar(Atom(p)) /\ Atom(p).atom = p /\ Going(asking_one)
      /\ \A a : Val(q0, a) = a[0] /\ Meets(a, asking_one.subst)
  BY TermsAre, AskingIs DEF Val, q0
<1>. HIDE DEF p
<1>3. resolve_var(Atom(p), asking_one.subst) = Atom(p)
  BY <1>2, ResolveIs DEF Going, Bound
<1>4. Labelled(traced, c, asking_one) = states
  <2>. HIDE DEF c
  <2>. QED BY <1>1, <1>2, <1>3 DEF Labelled
<1>. HIDE DEF c, found
<1>5. /\ \A u \in Rows(rows, <<q0>>, asking_one) :
           Going(u) /\ \E n \in found : \A a : Meets(a, u.subst) <=> Meets(a, asking_one.subst) /\ Val(q0, a) = n
      /\ \A n \in found : \A a :
           Meets(a, asking_one.subst) /\ Val(q0, a) = n
             => \E u \in Rows(rows, <<q0>>, asking_one) : Meets(a, u.subst)
  BY <1>2, SetRowsAre
<1>6. /\ \A u \in states : Going(u) /\ \E n \in found : \A a : Meets(a, u.subst) <=> a[0] = n
      /\ \A n \in found : \A a : a[0] = n => \E u \in states : Meets(a, u.subst)
  <2>. HIDE DEF rows
  <2>. QED BY <1>2, <1>5
<1>. HIDE DEF states
<1>7. \A x : x \in query_node_ids(states) <=> \E u \in states : \A a : Meets(a, u.subst) => a[0] = x
  BY <1>6, IdsAre
<1>8. \A n : \E a : a[0] = n
  <2>. SUFFICES ASSUME NEW n PROVE \E a : a[0] = n
    OBVIOUS
  <2>. DEFINE a == [i \in {0} |-> n]
  <2>1. a[0] = n
    OBVIOUS
  <2>. HIDE DEF a
  <2>. QED BY <2>1
<1>9. ASSUME NEW x \in query_node_ids(states) PROVE x \in found
  <2>1. PICK u \in states : \A a : Meets(a, u.subst) => a[0] = x
    BY <1>7
  <2>2. PICK n \in found : \A a : Meets(a, u.subst) <=> a[0] = n
    BY <1>6
  <2>3. n = x
    BY <1>8, <2>1, <2>2
  <2>. QED BY <2>3
<1>10. ASSUME NEW x \in found PROVE x \in query_node_ids(states)
  <2>1. PICK a : a[0] = x
    BY <1>8
  <2>2. PICK u \in states : Meets(a, u.subst)
    BY <1>6, <2>1
  <2>3. PICK n \in found : \A b : Meets(b, u.subst) <=> b[0] = n
    BY <1>6
  <2>4. n = x
    BY <2>1, <2>2, <2>3
  <2>. QED BY <1>7, <2>3, <2>4
<1>11. query_node_ids(states) = found
  BY <1>9, <1>10
<1>. QED BY <1>4, <1>11 DEF graph_query_card_network, find_cells_by_label_prefix, p, c, found

\* The prefixes of cards.
LEMMA CardPrefixesAre ==
  ASSUME NEW card \in Cards, NEW other \in Cards, NEW n \in Id, IsPrefix(CardPrefix(other), Label[n])
  PROVE  /\ Includes(CardPrefix(other), Label[n])
         /\ IsPrefix(card, other) => IsPrefix(<<"CARD", "|">> \o card, Label[n])
<1>. DEFINE front == <<"CARD", "|">>
            bar   == <<"|">>
            S == Range(card) \cup Range(other) \cup Range(Label[n]) \cup {"CARD", "|"}
            name == front \o card
            whole == CardPrefix(other)
            label == Label[n]
<1>1. /\ card \in Seq(Range(card)) /\ other \in Seq(Range(other)) /\ label \in Seq(Range(label))
  BY AskedAssumption
<1>2. card \in Seq(S) /\ other \in Seq(S) /\ label \in Seq(S)
  BY <1>1
<1>3. front \in Seq(S) /\ bar \in Seq(S) /\ Len(front) = 2 /\ Len(bar) = 1
  OBVIOUS
<1>. HIDE DEF S, front, bar
<1>4. whole = (front \o other) \o bar
  BY DEF CardPrefix, front, bar
<1>. HIDE DEF whole
<1>5. /\ name \in Seq(S) /\ Len(name) = 2 + Len(card) /\ Len(card) \in Nat /\ Len(other) \in Nat
      /\ \A i \in 1..(2 + Len(card)) : name[i] = IF i <= 2 THEN front[i] ELSE card[i - 2]
  <2>1. Len(card) \in Nat /\ Len(other) \in Nat
    BY <1>2, LenProperties
  <2>2. /\ front \o card \in Seq(S) /\ Len(front \o card) = Len(front) + Len(card)
        /\ \A i \in 1..(Len(front) + Len(card)) :
             (front \o card)[i] = IF i <= Len(front) THEN front[i] ELSE card[i - Len(front)]
    BY <1>2, <1>3, ConcatProperties
  <2>. QED BY <1>3, <2>1, <2>2
<1>. HIDE DEF name
<1>6. /\ front \o other \in Seq(S) /\ Len(front \o other) = 2 + Len(other)
      /\ \A i \in 1..(2 + Len(other)) : (front \o other)[i] = IF i <= 2 THEN front[i] ELSE other[i - 2]
  <2>1. /\ front \o other \in Seq(S) /\ Len(front \o other) = Len(front) + Len(other)
        /\ \A i \in 1..(Len(front) + Len(other)) :
             (front \o other)[i] = IF i <= Len(front) THEN front[i] ELSE other[i - Len(front)]
    BY <1>2, <1>3, ConcatProperties
  <2>. QED BY <1>3, <2>1
<1>7. /\ whole \in Seq(S) /\ Len(whole) = 3 + Len(other)
      /\ \A i \in 1..(2 + Len(other)) : whole[i] = (front \o other)[i]
  <2>. DEFINE half == front \o other
  <2>1. half \in Seq(S) /\ Len(half) = 2 + Len(other) /\ Len(half) \in Nat
    BY <1>5, <1>6
  <2>. HIDE DEF half
  <2>2. /\ half \o bar \in Seq(S) /\ Len(half \o bar) = Len(half) + Len(bar)
        /\ \A i \in 1..(Len(half) + Len(bar)) : (half \o bar)[i] = IF i <= Len(half) THEN half[i] ELSE bar[i - Len(half)]
    BY <1>3, <2>1, ConcatProperties
  <2>. QED BY <1>3, <1>4, <1>5, <2>1, <2>2 DEF half
<1>8. \A s \in Seq(S) : s \in Seq(Range(s)) /\ Len(s) \in Nat
  <2>. SUFFICES ASSUME NEW s \in Seq(S) PROVE s \in Seq(Range(s)) /\ Len(s) \in Nat
    OBVIOUS
  <2>. QED BY SeqOfRange, LenProperties
<1>9. Len(whole) <= Len(label) /\ \A i \in 1..Len(whole) : whole[i] = label[i]
  BY <1>2, <1>7, <1>8, PrefixIs DEF whole
<1>10. Includes(whole, label)
  <2>1. Len(label) \in Nat /\ 1 \in 1..Len(label)
    BY <1>2, <1>5, <1>7, <1>8, <1>9
  <2>2. SubSeq(label, 1, Len(label)) = label
    BY <1>2, SubSeqFull
  <2>3. IsPrefix(whole, SubSeq(label, 1, Len(label)))
    BY <2>2 DEF whole
  <2>. QED BY <2>1, <2>3 DEF Includes
<1>11. ASSUME IsPrefix(card, other) PROVE IsPrefix(name, label)
  <2>1. Len(card) <= Len(other) /\ \A i \in 1..Len(card) : card[i] = other[i]
    BY <1>1, <1>11, PrefixIs
  <2>2. Len(name) <= Len(label)
    BY <1>2, <1>5, <1>7, <1>8, <1>9, <2>1
  <2>3. ASSUME NEW i \in 1..Len(name) PROVE name[i] = label[i]
    <3>1. i \in 1..(2 + Len(card)) /\ i \in 1..(2 + Len(other)) /\ i \in 1..Len(whole)
      BY <1>5, <1>7, <2>1, <2>3
    <3>2. i > 2 => i - 2 \in 1..Len(card)
      BY <1>5, <3>1
    <3>3. name[i] = whole[i]
      <4>1. name[i] = IF i <= 2 THEN front[i] ELSE card[i - 2]
        BY <1>5, <3>1
      <4>2. whole[i] = IF i <= 2 THEN front[i] ELSE other[i - 2]
        BY <1>6, <1>7, <3>1
      <4>3. i > 2 => card[i - 2] = other[i - 2]
        BY <2>1, <3>2
      <4>. HIDE DEF front
      <4>. QED BY <3>1, <4>1, <4>2, <4>3
    <3>. QED BY <1>9, <3>1, <3>3
  <2>. QED BY <1>2, <1>5, <1>8, <2>2, <2>3, PrefixIs
<1>. QED BY <1>10, <1>11 DEF whole, label, name, front

-----------------------------------------------------------------------------
(* Shortest paths.                                                         *)

Ways(g, a, b, k) == {p \in [1..k -> g.node] :
                       p[1] = a /\ p[k] = b /\ \A i \in 1..(k - 1) : <<p[i], p[i + 1]>> \in g.edge}

LEMMA WaysExist ==
  ASSUME NEW g, IsGraph(g), NEW n, NEW m \in After(g, n)
  PROVE  \E k \in Nat \ {0} : Ways(g, n, m, k) # {}
<1>. DEFINE S == {x \in g.node : \E k \in Nat \ {0} : Ways(g, n, x, k) # {}}
<1>1. outNeighbors(g, n) \subseteq S
  <2>. SUFFICES ASSUME NEW x, <<n, x>> \in g.edge PROVE x \in S
    BY NeighborsAre
  <2>. DEFINE p == [i \in 1..2 |-> IF i = 1 THEN n ELSE x]
  <2>1. p[1] = n /\ p[2] = x /\ p \in [1..2 -> g.node]
    BY DEF IsGraph
  <2>2. \A i \in 1..(2 - 1) : i = 1 /\ i + 1 = 2
    OBVIOUS
  <2>. HIDE DEF p
  <2>3. p \in Ways(g, n, x, 2)
    BY <2>1, <2>2 DEF Ways
  <2>. QED BY <2>3 DEF IsGraph
<1>2. NoWayOut(g, S)
  <2>. SUFFICES ASSUME NEW x, NEW y, <<x, y>> \in g.edge, x \in S PROVE y \in S
    BY DEF NoWayOut
  <2>1. PICK k \in Nat \ {0} : Ways(g, n, x, k) # {}
    OBVIOUS
  <2>2. PICK p \in Ways(g, n, x, k) : TRUE
    BY <2>1
  <2>3. /\ p \in [1..k -> g.node] /\ p[1] = n /\ p[k] = x
        /\ \A i \in 1..(k - 1) : <<p[i], p[i + 1]>> \in g.edge
    BY <2>2 DEF Ways
  <2>. DEFINE q == [i \in 1..(k + 1) |-> IF i = k + 1 THEN y ELSE p[i]]
  <2>4. q \in [1..(k + 1) -> g.node] /\ q[1] = n /\ q[k + 1] = y /\ q[k] = x
    BY <2>3 DEF IsGraph
  <2>5. \A i \in 1..(k - 1) : q[i] = p[i] /\ q[i + 1] = p[i + 1]
    <3>. SUFFICES ASSUME NEW i \in 1..(k - 1) PROVE q[i] = p[i] /\ q[i + 1] = p[i + 1]
      OBVIOUS
    <3>1. i \in 1..(k + 1) /\ i + 1 \in 1..(k + 1) /\ i # k + 1 /\ i + 1 # k + 1
      OBVIOUS
    <3>. QED BY <3>1
  <2>. HIDE DEF q
  <2>6. \A i \in 1..((k + 1) - 1) : <<q[i], q[i + 1]>> \in g.edge
    <3>. SUFFICES ASSUME NEW i \in 1..((k + 1) - 1) PROVE <<q[i], q[i + 1]>> \in g.edge
      OBVIOUS
    <3>1. CASE i = k
      BY <2>4, <3>1
    <3>2. CASE i # k
      <4>1. i \in 1..(k - 1)
        BY <3>2
      <4>. QED BY <2>3, <2>5, <4>1
    <3>. QED BY <3>1, <3>2
  <2>7. q \in Ways(g, n, y, k + 1) /\ k + 1 \in Nat \ {0}
    BY <2>4, <2>6 DEF Ways
  <2>. QED BY <2>7 DEF IsGraph
<1>3. After(g, n) \subseteq S
  <2>. HIDE DEF S
  <2>. QED BY <1>1, <1>2, AfterIs
<1>. QED BY <1>3

\* A way that passes a node twice can be cut.
LEMMA WaysAreCut ==
  ASSUME NEW g, NEW a, NEW b, NEW k \in Nat \ {0}, NEW p \in Ways(g, a, b, k),
         NEW x \in 1..k, NEW y \in 1..k, x < y, p[x] = p[y]
  PROVE  k - (y - x) \in Nat \ {0} /\ Ways(g, a, b, k - (y - x)) # {}
<1>. DEFINE d == y - x
            l == k - d
            q == [i \in 1..l |-> IF i <= x THEN p[i] ELSE p[i + d]]
<1>1. /\ p \in [1..k -> g.node] /\ p[1] = a /\ p[k] = b
      /\ \A i \in 1..(k - 1) : <<p[i], p[i + 1]>> \in g.edge
  BY DEF Ways
<1>2. d \in Nat \ {0} /\ l \in Nat \ {0} /\ x + d = y /\ x <= l /\ l + d = k /\ l < k
  OBVIOUS
<1>. HIDE DEF d, l
<1>3. \A i \in 1..l : i \in 1..k /\ i + d \in 1..k
  BY <1>2
<1>4. q \in [1..l -> g.node]
  BY <1>1, <1>3
<1>5. \A i \in 1..l : /\ i <= x => q[i] = p[i]
                      /\ i >= x => q[i] = p[i + d]
  BY <1>2
<1>. HIDE DEF q
<1>6. q[1] = a /\ q[l] = b
  BY <1>1, <1>2, <1>5
<1>7. ASSUME NEW i \in 1..(l - 1) PROVE <<q[i], q[i + 1]>> \in g.edge
  <2>1. CASE i < x
    <3>1. q[i] = p[i] /\ q[i + 1] = p[i + 1] /\ i \in 1..(k - 1)
      BY <1>2, <1>5, <2>1
    <3>. QED BY <1>1, <3>1
  <2>2. CASE i >= x
    <3>1. q[i] = p[i + d] /\ q[i + 1] = p[(i + 1) + d] /\ i + d \in 1..(k - 1) /\ (i + d) + 1 = (i + 1) + d
      BY <1>2, <1>5, <2>2
    <3>2. <<p[i + d], p[(i + d) + 1]>> \in g.edge
      BY <1>1, <3>1
    <3>. QED BY <3>1, <3>2
  <2>. QED BY <2>1, <2>2
<1>8. q \in Ways(g, a, b, l)
  BY <1>4, <1>6, <1>7 DEF Ways
<1>. QED BY <1>2, <1>8 DEF l, d

\* The shortest way there is has no more nodes than the graph.
LEMMA ShortestIs ==
  ASSUME NEW g, IsGraph(g), NEW a, NEW b \in After(g, a)
  PROVE  \E k \in Nat \ {0} : \E p \in Ways(g, a, b, k) : Shortest(g, a, b) = Range(p)
<1>. DEFINE all  == {k \in Nat \ {0} : Ways(g, a, b, k) # {}}
            lens == {k \in 1..Cardinality(g.node) : Ways(g, a, b, k) # {}}
<1>0. Shortest(g, a, b) = IF lens = {} THEN {} ELSE Range(CHOOSE p \in Ways(g, a, b, Min(lens)) : TRUE)
  BY DEF Shortest, Ways
<1>1. PICK k \in all : \A l \in all : k <= l
  <2>1. all \subseteq Nat /\ all # {}
    BY WaysExist
  <2>. HIDE DEF all
  <2>. QED BY <2>1, LeastNumber
<1>2. PICK p \in Ways(g, a, b, k) : TRUE
  OBVIOUS
<1>3. k \in Nat \ {0} /\ p \in [1..k -> g.node]
  BY <1>2 DEF Ways
<1>4. ASSUME NEW x \in 1..k, NEW y \in 1..k, p[x] = p[y] PROVE x = y
  <2>1. ASSUME NEW u \in 1..k, NEW v \in 1..k, u < v, p[u] = p[v] PROVE FALSE
    <3>1. k - (v - u) \in Nat \ {0} /\ Ways(g, a, b, k - (v - u)) # {}
      BY <1>2, <1>3, <2>1, WaysAreCut
    <3>2. k - (v - u) \in all
      BY <3>1
    <3>3. k <= k - (v - u)
      <4>. HIDE DEF all
      <4>. QED BY <1>1, <3>2
    <3>. QED BY <1>3, <2>1, <3>3
  <2>. QED BY <1>3, <1>4, <2>1
<1>5. IsFiniteSet(g.node)
  BY GraphAssumption, FS_Subset DEF IsGraph
<1>6. k <= Cardinality(g.node) /\ Cardinality(g.node) \in Nat
  <2>1. p \in Injection(1..k, g.node)
    BY <1>3, <1>4, Fun_IsInj
  <2>2. Cardinality(1..k) <= Cardinality(g.node)
    BY <1>5, <2>1, FS_Injection
  <2>3. Cardinality(1..k) = k
    BY <1>3, FS_Interval
  <2>. QED BY <1>5, <2>2, <2>3, FS_CardinalityType
<1>7. k \in lens
  BY <1>1, <1>6
<1>8. Min(lens) \in lens
  <2>1. lens \subseteq Nat
    BY <1>6
  <2>. HIDE DEF lens
  <2>2. \E l \in lens : \A j \in lens : l <= j
    BY <1>7, <2>1, LeastNumber
  <2>. QED BY <2>2 DEF Min
<1>. DEFINE l == Min(lens)
            q == CHOOSE w \in Ways(g, a, b, l) : TRUE
<1>9. l \in Nat \ {0} /\ Ways(g, a, b, l) # {}
  BY <1>6, <1>8
<1>10. q \in Ways(g, a, b, l)
  BY <1>9
<1>11. Shortest(g, a, b) = Range(q)
  BY <1>0, <1>7
<1>. QED BY <1>9, <1>10, <1>11

\* Along a way each node comes after those before it.
LEMMA WaysLead ==
  ASSUME NEW g, IsGraph(g), NEW a, NEW b, NEW k \in Nat \ {0}, NEW p \in Ways(g, a, b, k),
         NEW x \in 1..k, NEW y \in 1..k, x < y
  PROVE  p[y] \in After(g, p[x])
<1>. DEFINE bad == {z \in 1..k : x < z /\ p[z] \notin After(g, p[x])}
<1>1. \A i \in 1..(k - 1) : <<p[i], p[i + 1]>> \in g.edge
  BY DEF Ways
<1>. SUFFICES ASSUME bad # {} PROVE FALSE
  OBVIOUS
<1>2. PICK z \in bad : \A w \in bad : z <= w
  <2>1. bad \subseteq Nat
    OBVIOUS
  <2>. HIDE DEF bad
  <2>. QED BY <2>1, LeastNumber
<1>3. z \in 1..k /\ x < z /\ p[z] \notin After(g, p[x])
  OBVIOUS
<1>4. z - 1 \notin bad
  <2>. HIDE DEF bad
  <2>. QED BY <1>2, <1>3
<1>5. z - 1 \in 1..(k - 1) /\ z - 1 \in 1..k /\ (z - 1) + 1 = z
  BY <1>3
<1>6. <<p[z - 1], p[z]>> \in g.edge
  BY <1>1, <1>5
<1>7. z - 1 = x \/ p[z - 1] \in After(g, p[x])
  BY <1>3, <1>4, <1>5
<1>. HIDE DEF bad
<1>. QED BY <1>3, <1>6, <1>7, AfterIs, NeighborsAre DEF NoWayOut

\* What is kept with the labelled nodes.
LEMMA LabelsStayConnected ==
  ASSUME IsGraph(traced), traced.node = Id, NEW p
  PROVE  LET labelled == find_cells_by_label_prefix(traced, p)
             shown    == get_connected_subgraph_by_label_prefix(traced, Order, p)
         IN  /\ labelled \subseteq shown.node
             /\ \A i, j \in 1..Len(Order) :
                  i < j /\ {Order[i], Order[j]} \subseteq labelled
                    => (Order[j] \in After(traced, Order[i]) <=> Order[j] \in After(shown, Order[i]))
             /\ \A n \in shown.node \ labelled :
                  \E a, b \in labelled : n \in After(traced, a) /\ b \in After(traced, n)
<1>. DEFINE found == find_cells_by_label_prefix(traced, p)
            shown == get_connected_subgraph_by_label_prefix(traced, Order, p)
            pair  == {ij \in (1..Len(Order)) \X (1..Len(Order)) :
                        ij[1] < ij[2] /\ {Order[ij[1]], Order[ij[2]]} \subseteq found}
            between(ij) == Shortest(traced, Order[ij[1]], Order[ij[2]])
            kept  == found \cup UNION {between(ij) : ij \in pair}
            N == traced.node \cap kept
<1>1. shown = induced_subgraph_from_ids(traced, kept)
  BY DEF get_connected_subgraph_by_label_prefix
<1>2. found \subseteq Id
  BY DEF find_cells_by_label_prefix
<1>. HIDE DEF found, pair, shown, between
<1>3. shown.node = N /\ shown.edge = traced.edge \cap (N \X N) /\ N \in SUBSET traced.node
  <2>1. shown.node = N /\ shown.edge = traced.edge \cap (kept \X kept)
    BY <1>1 DEF induced_subgraph_from_ids
  <2>. HIDE DEF kept
  <2>2. traced.edge \cap (kept \X kept) = traced.edge \cap (N \X N)
    BY DEF IsGraph
  <2>. QED BY <2>1, <2>2
<1>4. /\ IsGraph(shown) /\ \A n : After(shown, n) \subseteq After(traced, n)
      /\ \A x, y : <<x, y>> \in shown.edge <=> <<x, y>> \in traced.edge /\ x \in N /\ y \in N
  <2>. HIDE DEF N
  <2>. QED BY <1>3, PartsAre
<1>5. found \subseteq shown.node
  BY <1>2, <1>3
<1>6. ASSUME NEW i \in 1..Len(Order), NEW j \in 1..Len(Order), i < j, {Order[i], Order[j]} \subseteq found,
             Order[j] \in After(traced, Order[i])
      PROVE  Order[j] \in After(shown, Order[i])
  <2>. DEFINE a == Order[i]
              b == Order[j]
              ij == <<i, j>>
  <2>1. PICK k \in Nat \ {0} : \E w \in Ways(traced, a, b, k) : Shortest(traced, a, b) = Range(w)
    BY <1>6, ShortestIs
  <2>2. PICK w \in Ways(traced, a, b, k) : Shortest(traced, a, b) = Range(w)
    BY <2>1
  <2>3. /\ w \in [1..k -> traced.node] /\ w[1] = a /\ w[k] = b
        /\ \A x \in 1..(k - 1) : <<w[x], w[x + 1]>> \in traced.edge
    BY <2>2 DEF Ways
  <2>4. Shortest(traced, a, b) \subseteq kept
    <3>1. ij \in pair /\ ij[1] = i /\ ij[2] = j
      BY <1>6 DEF pair
    <3>2. between(ij) = Shortest(traced, a, b)
      BY <3>1 DEF between
    <3>. HIDE DEF ij
    <3>. QED BY <3>1, <3>2
  <2>5. \A x \in 1..k : w[x] \in N
    <3>1. \A x \in 1..k : w[x] \in Range(w) /\ w[x] \in traced.node
      BY <2>3 DEF Range
    <3>. HIDE DEF kept
    <3>. QED BY <2>2, <2>4, <3>1
  <2>. HIDE DEF N
  <2>6. w \in Ways(shown, a, b, k)
    <3>1. w \in [1..k -> shown.node]
      BY <1>3, <2>3, <2>5
    <3>2. ASSUME NEW x \in 1..(k - 1) PROVE <<w[x], w[x + 1]>> \in shown.edge
      <4>1. x \in 1..k /\ x + 1 \in 1..k
        OBVIOUS
      <4>. QED BY <1>4, <2>3, <2>5, <4>1
    <3>. QED BY <2>3, <3>1, <3>2 DEF Ways
  <2>7. a # b
    BY <1>6, OrderAssumption
  <2>8. 1 \in 1..k /\ k \in 1..k /\ 1 < k
    BY <2>3, <2>7
  <2>9. w[k] \in After(shown, w[1])
    BY <1>4, <2>6, <2>8, WaysLead
  <2>. QED BY <2>3, <2>9
<1>7. ASSUME NEW n \in shown.node \ found
      PROVE  \E a, b \in found : n \in After(traced, a) /\ b \in After(traced, n)
  <2>1. PICK ij \in pair : n \in between(ij)
    BY <1>3
  <2>. DEFINE a == Order[ij[1]]
              b == Order[ij[2]]
  <2>2. a \in found /\ b \in found /\ n \in Shortest(traced, a, b)
    BY <2>1 DEF pair, between
  <2>3. Shortest(traced, a, b) # {} => \E k \in Nat \ {0} : \E w \in Ways(traced, a, b, k) : Shortest(traced, a, b) = Range(w)
    <3>. DEFINE lens == {k \in 1..Cardinality(traced.node) : Ways(traced, a, b, k) # {}}
    <3>1. Shortest(traced, a, b) = IF lens = {} THEN {} ELSE Range(CHOOSE w \in Ways(traced, a, b, Min(lens)) : TRUE)
      BY DEF Shortest, Ways
    <3>2. ASSUME lens # {} PROVE Min(lens) \in lens
      <4>1. lens \subseteq Nat
        OBVIOUS
      <4>. HIDE DEF lens
      <4>2. \E l \in lens : \A m \in lens : l <= m
        BY <3>2, <4>1, LeastNumber
      <4>. QED BY <4>2 DEF Min
    <3>3. ASSUME lens # {} PROVE Min(lens) \in Nat \ {0} /\ Ways(traced, a, b, Min(lens)) # {}
      BY <3>2, <3>3
    <3>. HIDE DEF lens, a, b
    <3>. QED BY <3>1, <3>3
  <2>4. PICK k \in Nat \ {0} : \E w \in Ways(traced, a, b, k) : Shortest(traced, a, b) = Range(w)
    BY <2>2, <2>3
  <2>5. PICK w \in Ways(traced, a, b, k) : Shortest(traced, a, b) = Range(w)
    BY <2>4
  <2>6. w \in [1..k -> traced.node] /\ w[1] = a /\ w[k] = b
    BY <2>5 DEF Ways
  <2>7. PICK x \in 1..k : n = w[x]
    BY <2>2, <2>5, <2>6 DEF Range
  <2>8. x # 1 /\ x # k
    BY <2>2, <2>6, <2>7
  <2>9. 1 \in 1..k /\ k \in 1..k /\ 1 < x /\ x < k
    BY <2>8
  <2>10. w[x] \in After(traced, w[1]) /\ w[k] \in After(traced, w[x])
    BY <2>9, WaysLead
  <2>. QED BY <2>2, <2>6, <2>7, <2>10
<1>. HIDE DEF N
<1>8. \A i, j \in 1..Len(Order) :
        i < j /\ {Order[i], Order[j]} \subseteq found
          => (Order[j] \in After(traced, Order[i]) <=> Order[j] \in After(shown, Order[i]))
  BY <1>4, <1>6
<1>. QED BY <1>5, <1>7, <1>8 DEF found, shown

\* The parts of a traced graph that a question shows keep what it is about: the
\* paths between labelled nodes, those through accessors, and all that hangs on a
\* card's cells (get_connected_subgraph_by_label_prefix,
\* graph_query_primitive_direct, graph_query_card_network, get_subgraph_by_card).
THEOREM FiltersAreRight == Drawn => []FiltersKeepPaths
<1>1. traced.node = Id /\ IsGraph(traced) => FiltersKeepPaths
  <2>. SUFFICES ASSUME traced.node = Id, IsGraph(traced) PROVE FiltersKeepPaths
    OBVIOUS
  <2>. DEFINE short == collapse_accessor_paths(traced)
              accessors == {n \in Id : default_is_accessor(n)}
              around == Paths(Both(traced))
  <2>1. \A g : \A n \in Id : Paths(g)[n] = After(g, n)
    BY DEF Paths
  <2>2. ASSUME NEW p \in Titles
        PROVE  LET labelled == find_cells_by_label_prefix(traced, p)
                   shown    == get_connected_subgraph_by_label_prefix(traced, Order, p)
                   kept     == Paths(shown)
               IN  /\ labelled \subseteq shown.node
                   /\ \A i, j \in 1..Len(Order) :
                        i < j /\ {Order[i], Order[j]} \subseteq labelled
                          => (Order[j] \in Paths(traced)[Order[i]] <=> Order[j] \in kept[Order[i]])
                   /\ \A n \in shown.node \ labelled :
                        \E a, b \in labelled : n \in Paths(traced)[a] /\ b \in Paths(traced)[n]
    <3>. DEFINE labelled == find_cells_by_label_prefix(traced, p)
                shown    == get_connected_subgraph_by_label_prefix(traced, Order, p)
    <3>1. /\ labelled \subseteq shown.node
          /\ \A i, j \in 1..Len(Order) :
               i < j /\ {Order[i], Order[j]} \subseteq labelled
                 => (Order[j] \in After(traced, Order[i]) <=> Order[j] \in After(shown, Order[i]))
          /\ \A n \in shown.node \ labelled :
               \E a, b \in labelled : n \in After(traced, a) /\ b \in After(traced, n)
      BY <2>2, LabelsStayConnected
    <3>2. labelled \subseteq Id
      BY DEF find_cells_by_label_prefix
    <3>. HIDE DEF labelled, shown
    <3>3. ASSUME NEW i \in 1..Len(Order), NEW j \in 1..Len(Order), i < j, {Order[i], Order[j]} \subseteq labelled
          PROVE  Order[j] \in Paths(traced)[Order[i]] <=> Order[j] \in Paths(shown)[Order[i]]
      <4>1. Order[i] \in Id
        BY <3>2, <3>3
      <4>2. Paths(traced)[Order[i]] = After(traced, Order[i]) /\ Paths(shown)[Order[i]] = After(shown, Order[i])
        BY <2>1, <4>1
      <4>. QED BY <3>1, <3>3, <4>2
    <3>4. ASSUME NEW n \in shown.node \ labelled
          PROVE  \E a, b \in labelled : n \in Paths(traced)[a] /\ b \in Paths(traced)[n]
      <4>1. PICK a \in labelled, b \in labelled : n \in After(traced, a) /\ b \in After(traced, n)
        BY <3>1
      <4>2. n \in Id /\ a \in Id
        BY <3>2, <4>1, AfterIs
      <4>3. Paths(traced)[a] = After(traced, a) /\ Paths(traced)[n] = After(traced, n)
        BY <2>1, <4>2
      <4>. QED BY <4>1, <4>3
    <3>. QED BY <3>1, <3>3, <3>4 DEF labelled, shown
  <2>3. /\ short.edge = {e \in short.node \X short.node :
                           e[1] # e[2] /\ e[2] \in After(Inside(traced, {e[1], e[2]} \cup accessors), e[1])}
        /\ IsGraph(short)
    BY ShortEdgesAre, ShortIs
  <2>4. graph_query_primitive_direct(traced) = Inside(short, {n \in Id : Kind[n] = "propagator"})
    BY <2>3, DirectIs DEF graph_query_primitive_direct
  <2>5. ASSUME NEW card \in Cards
        PROVE  LET net == graph_query_card_network(traced, card)
                   start   == find_cells_by_label_prefix(traced, <<"CARD", "|">> \o card)
               IN  /\ net = Inside(traced, start \cup UNION {around[n] : n \in start})
                   /\ find_cells_by_label_prefix(traced, CardPrefix(card)) \subseteq get_subgraph_by_card(traced, card).node
                   /\ \A other \in Cards :
                        IsPrefix(card, other)
                          => find_cells_by_label_prefix(traced, CardPrefix(other)) \subseteq net.node
    <3>. DEFINE net == graph_query_card_network(traced, card)
                start   == find_cells_by_label_prefix(traced, <<"CARD", "|">> \o card)
                wide    == start \cup UNION {around[n] : n \in start}
    <3>1. start = {n \in Id : IsPrefix(<<"CARD", "|">> \o card, Label[n])}
      BY DEF find_cells_by_label_prefix, StartsWith
    <3>2. net = Inside(traced, wide)
      <4>1. net = connected_component(traced, start)
        BY NetworkStarts
      <4>2. start \in SUBSET Id
        BY <3>1
      <4>. HIDE DEF start
      <4>3. connected_component(traced, start)
              = Inside(traced, start \cup UNION {After(Both(traced), n) : n \in start})
        BY <4>2, ComponentsAreConnected
      <4>4. \A n \in start : After(Both(traced), n) = around[n]
        BY <2>1, <4>2
      <4>5. UNION {After(Both(traced), n) : n \in start} = UNION {around[n] : n \in start}
        <5>. HIDE DEF around
        <5>. QED BY <4>4
      <4>. QED BY <4>1, <4>3, <4>5
    <3>3. find_cells_by_label_prefix(traced, CardPrefix(card)) \subseteq get_subgraph_by_card(traced, card).node
      <4>. SUFFICES ASSUME NEW n \in Id, IsPrefix(CardPrefix(card), Label[n])
                    PROVE  n \in get_subgraph_by_card(traced, card).node
        BY DEF find_cells_by_label_prefix, StartsWith
      <4>1. Includes(CardPrefix(card), Label[n])
        BY <2>5, CardPrefixesAre
      <4>. QED BY <4>1 DEF get_subgraph_by_card, find_cells_by_card, induced_subgraph_from_ids
    <3>4. ASSUME NEW other \in Cards, IsPrefix(card, other)
          PROVE  find_cells_by_label_prefix(traced, CardPrefix(other)) \subseteq net.node
      <4>. SUFFICES ASSUME NEW n \in Id, IsPrefix(CardPrefix(other), Label[n])
                    PROVE  n \in net.node
        BY DEF find_cells_by_label_prefix, StartsWith
      <4>1. n \in start
        BY <2>5, <3>1, <3>4, CardPrefixesAre
      <4>. HIDE DEF start, net, around
      <4>. QED BY <3>2, <4>1 DEF Inside
    <3>. QED BY <3>2, <3>3, <3>4
  <2>. HIDE DEF short, accessors, around
  <2>. QED BY <2>2, <2>3, <2>4, <2>5 DEF FiltersKeepPaths, short, accessors, around
<1>. QED BY <1>1, DrawnAreGraphs, PTL
=============================================================================
