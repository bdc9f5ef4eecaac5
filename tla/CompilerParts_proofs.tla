------------------------ MODULE CompilerParts_proofs ------------------------
(***************************************************************************)
(* Proofs about the small machines of the language: ClosureSites, Scopes   *)
(* and LatestWins, as Parts runs them.                                     *)
(***************************************************************************)
EXTENDS Parts, Helpers_proofs, SequenceTheorems, FiniteSetTheorems, WellFoundedInduction, TLAPS

-----------------------------------------------------------------------------
(* Call sites and the networks they unfold.                                *)

Net == [closure : Lambda, site : Site \cup {Sites!Mixed}, input : Operand \cup {None},
        due : BOOLEAN, live : BOOLEAN]

\* The store knows a closure by its hash, or not at all.
Stored(h) ==
  /\ h \in [Lambda -> {None} \cup {Sites!HashOf[k] : k \in Lambda}]
  /\ \A k \in Lambda : h[k] \in {None, Sites!HashOf[k]}

SitesTypes ==
  /\ used \subseteq Lambda /\ defined \in used \cup {Unusable}
  /\ operand \in [Site -> Operand \cup {Unusable}]
  /\ siteDue \subseteq Site
  /\ nets \in Seq(Net)
  /\ unfolded \in [Site -> Nat]
  /\ out \in [Site -> {None} \cup (Lambda \X (Operand \cup {None}))]
  /\ Stored(hash)

\* A site lives with the network it unfolded last and with no other; what the
\* scheduler has queued belongs to a live network.
OneEach ==
  /\ \A s \in Site :
       /\ unfolded[s] # 0 => /\ unfolded[s] \in DOMAIN nets
                             /\ nets[unfolded[s]].site = s /\ nets[unfolded[s]].live
       /\ \A n \in DOMAIN nets : nets[n].site = s /\ nets[n].live => n = unfolded[s]
  /\ \A n \in DOMAIN nets : nets[n].due => nets[n].live

Usable(s) == Unusable \notin {defined, operand[s]}

\* A site that need not run has the network of the definition and the operand.
UpToDate ==
  \A s \in Site : s \notin siteDue /\ Usable(s) =>
    /\ unfolded[s] # 0
    /\ Sites!HashOf[nets[unfolded[s]].closure] = Sites!HashOf[defined]
    /\ nets[unfolded[s]].input = operand[s]

\* A network that need not run was the last to write its site's output.
HasWritten ==
  \A s \in Site : unfolded[s] # 0 =>
    nets[unfolded[s]].due \/ out[s] = <<nets[unfolded[s]].closure, nets[unfolded[s]].input>>

\* The merging cell holds the networks that live for it.
MixedHolds ==
  /\ siteContent.kind # "contradiction" =>
       \A n : n \in siteContent.nets <=> n \in DOMAIN nets /\ nets[n].site = Sites!Mixed /\ nets[n].live
  /\ siteContent.kind = "unfolded" => \E n : siteContent.nets = {n}
  /\ siteContent.kind = "nothing" => siteContent.nets = {}

SitesInv == SitesTypes /\ OneEach /\ UpToDate /\ HasWritten /\ MixedHolds

-----------------------------------------------------------------------------
LEMMA SitesSuffice ==
  ASSUME SitesInv
  PROVE  NoStrayNetworks
<1>1. ASSUME NEW s \in Site
      PROVE  Sites!NetsOf(s) = {unfolded[s]} \ {0}
  BY DEF SitesInv, SitesTypes, OneEach, Sites!NetsOf, Sites!Live
<1>2. siteContent.kind # "contradiction" => Sites!NetsOf(Sites!Mixed) = siteContent.nets
  BY DEF SitesInv, MixedHolds, Sites!NetsOf, Sites!Live
<1>. QED BY <1>1, <1>2 DEF NoStrayNetworks, Sites!NoStrayNetworks

LEMMA SitesInit ==
  ASSUME Sites!Init
  PROVE  SitesInv
<1>1. nets = <<>> /\ DOMAIN nets = {} /\ siteContent = [kind |-> "nothing", nets |-> {}, clock |-> 0]
  BY DEF Sites!Init, Sites!NoContent
<1>2. SitesTypes
  BY <1>1 DEF Sites!Init, SitesTypes, Stored
<1>3. OneEach /\ UpToDate /\ HasWritten
  BY <1>1 DEF Sites!Init, OneEach, UpToDate, HasWritten, Usable
<1>4. MixedHolds
  BY <1>1 DEF MixedHolds
<1>. QED BY <1>2, <1>3, <1>4 DEF SitesInv

-----------------------------------------------------------------------------
(* The store.                                                              *)

\* Looking closures up, and deleting one, keeps the store's hashes.
LEMMA StoreKeeps ==
  ASSUME NEW st, Stored(st[2]), NEW k \in Lambda
  PROVE  /\ Stored(Sites!hashed(st, k)[2]) /\ Sites!get_hash(st, k) = Sites!HashOf[k]
         /\ Stored(Sites!delete(st, k)[2])
<1>1. Stored([st[2] EXCEPT ![k] = Sites!HashOf[k]]) /\ Stored([st[2] EXCEPT ![k] = None])
  BY DEF Stored
<1>2. Sites!hashed(st, k)[2] \in {st[2], [st[2] EXCEPT ![k] = Sites!HashOf[k]]}
  BY DEF Sites!hashed, Sites!set
<1>3. Sites!delete(st, k)[2] \in {st[2], [st[2] EXCEPT ![k] = None]}
  BY DEF Sites!delete
<1>4. Sites!get_hash(st, k) = Sites!HashOf[k]
  BY DEF Sites!get_hash, Stored
<1>. QED BY <1>1, <1>2, <1>3, <1>4

\* What a comparison of two closures does, and what it says: closures of the
\* same hash are taken for the same.
LEMMA Comparing ==
  ASSUME Stored(hash), NEW k \in Lambda, NEW l \in Lambda
  PROVE  /\ Sites!StoreIs(Sites!Compared(Sites!Store, k, l)) => Stored(hash')
         /\ Sites!StoreIs(Sites!delete(Sites!Compared(Sites!Store, k, l), k)) => Stored(hash')
         /\ Sites!StoreIs(Sites!Store) => Stored(hash')
         /\ Sites!source_template_inconsistent(Sites!Store, k, l) <=> Sites!HashOf[k] # Sites!HashOf[l]
<1>. DEFINE a == Sites!hashed(Sites!Store, k)
            b == Sites!hashed(a, l)
<1>1. Stored(Sites!Store[2])
  BY DEF Sites!Store
<1>2. Stored(a[2]) /\ Sites!get_hash(Sites!Store, k) = Sites!HashOf[k]
  BY <1>1, StoreKeeps
<1>3. Stored(b[2]) /\ Sites!get_hash(a, l) = Sites!HashOf[l]
  BY <1>2, StoreKeeps
<1>4. Stored(Sites!delete(b, k)[2])
  BY <1>3, StoreKeeps
<1>5. Sites!Compared(Sites!Store, k, l) = b
  BY DEF Sites!Compared
<1>. HIDE DEF a, b
<1>6. Sites!source_template_inconsistent(Sites!Store, k, l) <=> Sites!HashOf[k] # Sites!HashOf[l]
  BY <1>2, <1>3 DEF Sites!source_template_inconsistent, a
<1>. QED BY <1>1, <1>3, <1>4, <1>5, <1>6 DEF Sites!StoreIs

-----------------------------------------------------------------------------
(* What is done to networks.                                               *)

LEMMA Unfolding ==
  ASSUME NEW ns \in Seq(Net), NEW k \in Lambda, NEW s \in Site \cup {Sites!Mixed},
         NEW v \in Operand \cup {None}
  PROVE  /\ Sites!Unfolded(ns, k, s, v) \in Seq(Net)
         /\ Len(Sites!Unfolded(ns, k, s, v)) = Len(ns) + 1 /\ Len(ns) \in Nat
         /\ DOMAIN ns = 1..Len(ns) /\ DOMAIN Sites!Unfolded(ns, k, s, v) = 1..(Len(ns) + 1)
         /\ \A i \in 1..Len(ns) : Sites!Unfolded(ns, k, s, v)[i] = ns[i]
         /\ Sites!Unfolded(ns, k, s, v)[Len(ns) + 1]
              = [closure |-> k, site |-> s, input |-> v, due |-> TRUE, live |-> TRUE]
<1>. DEFINE new == [closure |-> k, site |-> s, input |-> v, due |-> TRUE, live |-> TRUE]
<1>1. new \in Net
  BY DEF Net
<1>2. Sites!Unfolded(ns, k, s, v) = Append(ns, new)
  BY DEF Sites!Unfolded
<1>. HIDE DEF new
<1>3. /\ Append(ns, new) \in Seq(Net) /\ Len(Append(ns, new)) = Len(ns) + 1
      /\ \A i \in 1..Len(ns) : Append(ns, new)[i] = ns[i]
      /\ Append(ns, new)[Len(ns) + 1] = new
  BY <1>1
<1>4. Len(ns) \in Nat /\ DOMAIN ns = 1..Len(ns) /\ DOMAIN Append(ns, new) = 1..(Len(ns) + 1)
  BY <1>1
<1>. QED BY <1>2, <1>3, <1>4 DEF new

\* Changing one network to another.
LEMMA OneChanged ==
  ASSUME NEW ns \in Seq(Net), NEW n \in DOMAIN ns, NEW r \in Net
  PROVE  /\ [ns EXCEPT ![n] = r] \in Seq(Net)
         /\ Len([ns EXCEPT ![n] = r]) = Len(ns)
         /\ DOMAIN [ns EXCEPT ![n] = r] = DOMAIN ns
         /\ [ns EXCEPT ![n] = r][n] = r
         /\ \A i \in DOMAIN ns : i # n => [ns EXCEPT ![n] = r][i] = ns[i]
OBVIOUS

LEMMA ElementOf ==
  ASSUME NEW S, NEW s \in Seq(S), NEW k \in DOMAIN s
  PROVE  s[k] \in S
OBVIOUS

\* The same for a network that the merging cell lives with.
LEMMA MixedUnfolding ==
  ASSUME NEW ns \in Seq(Net), NEW k \in Lambda, NEW new, new = Sites!Unfolded(ns, k, Sites!Mixed, None)
  PROVE  /\ new \in Seq(Net) /\ Len(new) = Len(ns) + 1 /\ DOMAIN new = 1..(Len(ns) + 1)
         /\ Len(ns) \in Nat /\ DOMAIN ns = 1..Len(ns)
         /\ \A i \in DOMAIN ns : new[i] = ns[i]
         /\ new[Len(ns) + 1] = [closure |-> k, site |-> Sites!Mixed, input |-> None, due |-> TRUE, live |-> TRUE]
<1>1. Sites!Mixed \in Site \cup {Sites!Mixed} /\ None \in Operand \cup {None}
  OBVIOUS
<1>. DEFINE u == Sites!Unfolded(ns, k, Sites!Mixed, None)
<1>2. /\ u \in Seq(Net) /\ Len(u) = Len(ns) + 1 /\ Len(ns) \in Nat
      /\ DOMAIN ns = 1..Len(ns) /\ DOMAIN u = 1..(Len(ns) + 1)
      /\ \A i \in 1..Len(ns) : u[i] = ns[i]
      /\ u[Len(ns) + 1] = [closure |-> k, site |-> Sites!Mixed, input |-> None, due |-> TRUE, live |-> TRUE]
  BY <1>1, Unfolding
<1>3. new = u
  OBVIOUS
<1>. HIDE DEF u
<1>. QED BY <1>2, <1>3

LEMMA Disposing ==
  ASSUME NEW ns \in Seq(Net), NEW n \in DOMAIN ns
  PROVE  /\ Sites!eff_dispose_unfolded_closure(ns, n) \in Seq(Net)
         /\ Len(Sites!eff_dispose_unfolded_closure(ns, n)) = Len(ns)
         /\ DOMAIN Sites!eff_dispose_unfolded_closure(ns, n) = DOMAIN ns
         /\ \A i \in DOMAIN ns : i # n => Sites!eff_dispose_unfolded_closure(ns, n)[i] = ns[i]
         /\ Sites!eff_dispose_unfolded_closure(ns, n)[n].site = ns[n].site
         /\ Sites!eff_dispose_unfolded_closure(ns, n)[n].closure = ns[n].closure
         /\ ~Sites!eff_dispose_unfolded_closure(ns, n)[n].live
         /\ ~Sites!eff_dispose_unfolded_closure(ns, n)[n].due
<1>. DEFINE r == [[ns[n] EXCEPT !.live = FALSE] EXCEPT !.due = FALSE]
<1>1. ns[n] \in Net
  BY ElementOf
<1>2. r \in Net /\ r.site = ns[n].site /\ r.closure = ns[n].closure /\ ~r.live /\ ~r.due
  BY <1>1 DEF Net
<1>3. Sites!eff_dispose_unfolded_closure(ns, n) = [ns EXCEPT ![n] = r]
  BY <1>1 DEF Sites!eff_dispose_unfolded_closure, Net
<1>. HIDE DEF r
<1>. QED BY <1>2, <1>3, OneChanged

LEMMA Dispatching ==
  ASSUME NEW ns \in Seq(Net), NEW n \in DOMAIN ns, NEW v \in Operand \cup {None}
  PROVE  /\ Sites!eff_dispatch_inputs(ns, n, v) \in Seq(Net)
         /\ Len(Sites!eff_dispatch_inputs(ns, n, v)) = Len(ns)
         /\ DOMAIN Sites!eff_dispatch_inputs(ns, n, v) = DOMAIN ns
         /\ \A i \in DOMAIN ns : i # n => Sites!eff_dispatch_inputs(ns, n, v)[i] = ns[i]
         /\ Sites!eff_dispatch_inputs(ns, n, v)[n].site = ns[n].site
         /\ Sites!eff_dispatch_inputs(ns, n, v)[n].closure = ns[n].closure
         /\ Sites!eff_dispatch_inputs(ns, n, v)[n].live = ns[n].live
         /\ Sites!eff_dispatch_inputs(ns, n, v)[n].input = v
         /\ Sites!eff_dispatch_inputs(ns, n, v)[n].due <=> ns[n].due \/ ns[n].input # v
<1>. DEFINE r == [[ns[n] EXCEPT !.input = v] EXCEPT !.due = ns[n].due \/ ns[n].input # v]
<1>1. ns[n] \in Net
  BY ElementOf
<1>2. /\ r \in Net /\ r.site = ns[n].site /\ r.closure = ns[n].closure /\ r.live = ns[n].live
      /\ r.input = v /\ (r.due <=> ns[n].due \/ ns[n].input # v)
  BY <1>1 DEF Net
<1>3. Sites!eff_dispatch_inputs(ns, n, v) = [ns EXCEPT ![n] = r]
  BY <1>1 DEF Sites!eff_dispatch_inputs, Net
<1>. HIDE DEF r
<1>. QED BY <1>2, <1>3, OneChanged

-----------------------------------------------------------------------------
(* Steps that unfold nothing.                                              *)

\* Definitions and operands change; whoever sees it is alerted.
LEMMA SitesAlerted ==
  ASSUME SitesInv,
         (\E k \in Lambda : Sites!Define(k)) \/ Sites!Contradict
           \/ \E s \in Site, v \in Operand \cup {Unusable} : Sites!SetOperand(s, v)
  PROVE  SitesInv'
<1>. USE DEF SitesInv
<1>1. UNCHANGED <<nets, unfolded, out, siteContent, hash>>
  BY DEF Sites!Define, Sites!Contradict, Sites!SetOperand, Sites!store
<1>2. OneEach' /\ HasWritten' /\ MixedHolds'
  BY <1>1 DEF OneEach, HasWritten, MixedHolds
<1>3. CASE (\E k \in Lambda : Sites!Define(k)) \/ Sites!Contradict
  <2>1. /\ siteDue' = Site /\ operand' = operand /\ used' \subseteq Lambda
        /\ defined' \in used' \cup {Unusable}
    BY <1>3 DEF Sites!Define, Sites!Contradict, SitesTypes
  <2>. QED BY <1>1, <1>2, <2>1 DEF SitesTypes, UpToDate, Stored
<1>4. ASSUME NEW s \in Site, NEW v \in Operand \cup {Unusable}, Sites!SetOperand(s, v)
      PROVE  SitesInv'
  <2>1. UNCHANGED <<defined, used>> /\ operand' = [operand EXCEPT ![s] = v] /\ siteDue' = siteDue \cup {s}
    BY <1>4 DEF Sites!SetOperand
  <2>2. SitesTypes'
    BY <1>1, <2>1 DEF SitesTypes, Stored
  <2>3. UpToDate'
    BY <1>1, <2>1 DEF SitesTypes, UpToDate, Usable
  <2>. QED BY <1>2, <2>2, <2>3
<1>. QED BY <1>3, <1>4

\* Closures are collected and finalized behind the networks' backs.
LEMMA SitesCollected ==
  ASSUME SitesInv, (\E k \in Lambda : Sites!Collect(k)) \/ \E h \in Sites!Hash : Sites!Finalize(h)
  PROVE  SitesInv'
<1>1. UNCHANGED <<defined, used, operand, siteDue, nets, unfolded, out, siteContent>>
  BY DEF Sites!Collect, Sites!Finalize, Sites!sites, Sites!work
<1>2. Stored(hash')
  BY DEF Sites!Collect, Sites!Finalize, SitesInv, SitesTypes, Stored
<1>. QED BY <1>1, <1>2 DEF SitesInv, SitesTypes, OneEach, UpToDate, Usable, HasWritten, MixedHolds

\* A network runs: if it is one of a site, it is the one the site lives with.
LEMMA SitesRun ==
  ASSUME SitesInv, NEW n \in DOMAIN nets, Sites!RunNetwork(n)
  PROVE  SitesInv'
<1>. USE DEF SitesInv
<1>. DEFINE r == [nets[n] EXCEPT !.due = FALSE]
<1>1. /\ nets[n].due /\ nets' = [nets EXCEPT ![n] = r]
      /\ out' = IF nets[n].site \in Site
                THEN [out EXCEPT ![nets[n].site] = <<nets[n].closure, nets[n].input>>] ELSE out
      /\ UNCHANGED <<defined, used, operand, siteDue, unfolded, siteContent, hash>>
  BY DEF Sites!RunNetwork, Sites!sites, Sites!store
<1>2. nets \in Seq(Net) /\ nets[n] \in Net
  BY ElementOf DEF SitesTypes
<1>3. /\ r \in Net /\ r.site = nets[n].site /\ r.closure = nets[n].closure /\ r.input = nets[n].input
      /\ r.live = nets[n].live /\ ~r.due
  BY <1>2 DEF Net
<1>. HIDE DEF r
<1>4. /\ nets' \in Seq(Net) /\ DOMAIN nets' = DOMAIN nets /\ nets'[n] = r
      /\ \A i \in DOMAIN nets : i # n => nets'[i] = nets[i]
  BY <1>1, <1>2, <1>3, OneChanged
<1>5. out' \in [Site -> {None} \cup (Lambda \X (Operand \cup {None}))]
  <2>1. nets[n].closure \in Lambda /\ nets[n].input \in Operand \cup {None}
    BY <1>2 DEF Net
  <2>. QED BY <1>1, <2>1 DEF SitesTypes
<1>6. SitesTypes'
  BY <1>1, <1>4, <1>5 DEF SitesTypes, Stored
<1>7. OneEach' /\ MixedHolds'
  <2>1. \A i \in DOMAIN nets : /\ nets'[i].site = nets[i].site /\ nets'[i].live = nets[i].live
                               /\ nets'[i].due => nets[i].due
    BY <1>3, <1>4
  <2>2. OneEach'
    BY <1>1, <1>4, <2>1 DEF OneEach
  <2>3. \A i : i \in DOMAIN nets' /\ nets'[i].site = Sites!Mixed /\ nets'[i].live
          <=> i \in DOMAIN nets /\ nets[i].site = Sites!Mixed /\ nets[i].live
    BY <1>4, <2>1
  <2>. QED BY <1>1, <2>2, <2>3 DEF MixedHolds
<1>8. UpToDate'
  BY <1>1, <1>3, <1>4 DEF UpToDate, Usable, OneEach
<1>9. HasWritten'
  <2>. SUFFICES ASSUME NEW s \in Site, unfolded[s] # 0
                PROVE  nets'[unfolded[s]].due
                       \/ out'[s] = <<nets'[unfolded[s]].closure, nets'[unfolded[s]].input>>
    BY <1>1 DEF HasWritten
  <2>1. unfolded[s] \in DOMAIN nets /\ nets[unfolded[s]].site = s
    BY DEF OneEach
  <2>2. CASE unfolded[s] = n
    <3>1. out'[s] = <<nets[n].closure, nets[n].input>>
      BY <1>1, <2>1, <2>2 DEF SitesTypes
    <3>. QED BY <1>3, <1>4, <2>2, <3>1
  <2>3. CASE unfolded[s] # n
    <3>1. nets[n].site # s
      BY <1>1, <2>3 DEF OneEach
    <3>2. out'[s] = out[s]
      BY <1>1, <3>1 DEF SitesTypes
    <3>. QED BY <1>4, <2>1, <2>3, <3>2 DEF HasWritten
  <2>. QED BY <2>2, <2>3
<1>. QED BY <1>6, <1>7, <1>8, <1>9

-----------------------------------------------------------------------------
(* The propagator of a site.                                               *)

\* What a site may do to the networks: its own change, n becomes the one it
\* lives with, and that one does what the definition asks.
Settles(s, n) ==
  /\ Sites!Runs(s) /\ UNCHANGED <<defined, used, operand, out, siteContent>> /\ Stored(hash')
  /\ nets' \in Seq(Net) /\ unfolded' = [unfolded EXCEPT ![s] = n]
  /\ DOMAIN nets \subseteq DOMAIN nets'
  /\ \A i \in DOMAIN nets : /\ nets'[i].site = nets[i].site
                            /\ nets[i].site # s => nets'[i] = nets[i]
  /\ \A i \in DOMAIN nets' : /\ i \notin DOMAIN nets => nets'[i].site = s
                             /\ nets'[i].due => nets'[i].live
                             /\ nets'[i].site = s /\ nets'[i].live => i = n
  /\ n # 0 => /\ n \in DOMAIN nets' /\ nets'[n].site = s /\ nets'[n].live
              /\ nets'[n].due \/ out[s] = <<nets'[n].closure, nets'[n].input>>
  /\ Usable(s) => /\ n # 0
                  /\ Sites!HashOf[nets'[n].closure] = Sites!HashOf[defined]
                  /\ nets'[n].input = operand[s]

\* It leaves the other sites and the cell alone.
LEMMA OneSite ==
  ASSUME SitesInv, NEW s \in Site, NEW n \in Nat, Settles(s, n)
  PROVE  SitesInv'
<1>. USE DEF SitesInv
<1>10. /\ Sites!Runs(s) /\ UNCHANGED <<defined, used, operand, out, siteContent>> /\ Stored(hash')
       /\ nets' \in Seq(Net) /\ unfolded' = [unfolded EXCEPT ![s] = n]
  BY DEF Settles
<1>11. /\ \A i \in DOMAIN nets : /\ i \in DOMAIN nets' /\ nets'[i].site = nets[i].site
                                 /\ nets[i].site # s => nets'[i] = nets[i]
       /\ \A i \in DOMAIN nets' : /\ i \notin DOMAIN nets => nets'[i].site = s
                                  /\ nets'[i].due => nets'[i].live
                                  /\ nets'[i].site = s /\ nets'[i].live => i = n
  BY DEF Settles
<1>12. /\ n # 0 => /\ n \in DOMAIN nets' /\ nets'[n].site = s /\ nets'[n].live
                   /\ nets'[n].due \/ out[s] = <<nets'[n].closure, nets'[n].input>>
       /\ Usable(s) => /\ n # 0
                       /\ Sites!HashOf[nets'[n].closure] = Sites!HashOf[defined]
                       /\ nets'[n].input = operand[s]
  BY DEF Settles
<1>1. siteDue' = siteDue \ {s} /\ s \in siteDue
  BY <1>10 DEF Sites!Runs
<1>2. SitesTypes'
  BY <1>1, <1>10 DEF SitesTypes
<1>3. unfolded'[s] = n /\ \A t \in Site : t # s => unfolded'[t] = unfolded[t]
  BY <1>10 DEF SitesTypes
<1>4. ASSUME NEW t \in Site, t # s, unfolded[t] # 0
      PROVE  unfolded[t] \in DOMAIN nets' /\ nets'[unfolded[t]] = nets[unfolded[t]]
  BY <1>4, <1>11 DEF OneEach
<1>5. OneEach'
  <2>1. ASSUME NEW t \in Site, unfolded'[t] # 0
        PROVE  unfolded'[t] \in DOMAIN nets' /\ nets'[unfolded'[t]].site = t /\ nets'[unfolded'[t]].live
    <3>1. CASE t = s
      BY <1>3, <1>12, <2>1, <3>1
    <3>2. CASE t # s
      <4>1. unfolded'[t] = unfolded[t] /\ unfolded[t] # 0
        BY <1>3, <2>1, <3>2
      <4>2. nets[unfolded[t]].site = t /\ nets[unfolded[t]].live
        BY <4>1 DEF OneEach
      <4>. QED BY <1>4, <3>2, <4>1, <4>2
    <3>. QED BY <3>1, <3>2
  <2>2. ASSUME NEW t \in Site, NEW i \in DOMAIN nets', nets'[i].site = t, nets'[i].live
        PROVE  i = unfolded'[t]
    <3>1. CASE t = s
      BY <1>3, <1>11, <2>2, <3>1
    <3>2. CASE t # s
      <4>1. i \in DOMAIN nets
        BY <1>11, <2>2, <3>2
      <4>2. nets[i].site # s
        BY <1>11, <2>2, <3>2, <4>1
      <4>3. nets[i].site = t /\ nets[i].live
        BY <1>11, <2>2, <4>1, <4>2
      <4>. QED BY <1>3, <3>2, <4>1, <4>3 DEF OneEach
    <3>. QED BY <3>1, <3>2
  <2>3. \A i \in DOMAIN nets' : nets'[i].due => nets'[i].live
    BY <1>11
  <2>. QED BY <2>1, <2>2, <2>3 DEF OneEach
<1>6. UpToDate'
  BY <1>1, <1>3, <1>4, <1>10, <1>12 DEF UpToDate, Usable
<1>7. HasWritten'
  BY <1>3, <1>4, <1>10, <1>12 DEF HasWritten
<1>8. MixedHolds'
  <2>1. \A i : i \in DOMAIN nets' /\ nets'[i].site = Sites!Mixed /\ nets'[i].live
          <=> i \in DOMAIN nets /\ nets[i].site = Sites!Mixed /\ nets[i].live
    BY <1>11, SitesAssumption
  <2>. QED BY <1>10, <2>1 DEF MixedHolds
<1>. QED BY <1>2, <1>5, <1>6, <1>7, <1>8

LEMMA SitesApply ==
  ASSUME SitesInv, NEW s \in Site, Sites!ce_apply_closure(s)
  PROVE  SitesInv'
<1>. USE DEF SitesInv
<1>. DEFINE n == unfolded[s]
<1>1. /\ Sites!Runs(s) /\ UNCHANGED <<defined, used, operand, out, siteContent>>
      /\ nets \in Seq(Net) /\ n \in Nat /\ Stored(hash)
  BY DEF Sites!ce_apply_closure, Sites!Waits, Sites!FirstUnfolds, Sites!Refolds, Sites!Dispatches,
         Sites!sites, SitesTypes
<1>2. /\ DOMAIN nets = 1..Len(nets) /\ Len(nets) \in Nat
      /\ n # 0 => n \in DOMAIN nets /\ nets[n].site = s /\ nets[n].live
      /\ \A i \in DOMAIN nets : nets[i].site = s /\ nets[i].live => i = n
      /\ \A i \in DOMAIN nets : nets[i].due => nets[i].live
  BY <1>1 DEF OneEach
<1>3. \A i \in DOMAIN nets : nets[i] \in Net
  BY <1>1, ElementOf
<1>4. Unusable \notin {defined, operand[s]} => defined \in Lambda /\ operand[s] \in Operand
  BY DEF SitesTypes
<1>5. n # 0 => nets[n].due \/ out[s] = <<nets[n].closure, nets[n].input>>
  BY DEF HasWritten
<1>6. CASE Sites!Waits(s)
  <2>1. UNCHANGED <<nets, unfolded, hash>> /\ ~Usable(s)
    BY <1>6 DEF Sites!Waits, Sites!store, Usable
  <2>2. unfolded' = [unfolded EXCEPT ![s] = n]
    BY <2>1 DEF SitesTypes
  <2>. HIDE DEF n
  <2>20. Settles(s, n)
    BY <1>1, <1>2, <1>5, <2>1, <2>2 DEF Settles, Usable
  <2>. QED BY <1>1, <2>20, OneSite
<1>7. CASE Sites!FirstUnfolds(s)
  <2>1. /\ n = 0 /\ hash' = hash /\ Unusable \notin {defined, operand[s]}
        /\ nets' = Sites!Unfolded(nets, defined, s, operand[s])
        /\ unfolded' = [unfolded EXCEPT ![s] = Len(nets')]
    BY <1>7 DEF Sites!FirstUnfolds, Sites!store
  <2>. DEFINE m == Len(nets) + 1
  <2>2. /\ nets' \in Seq(Net) /\ Len(nets') = m /\ DOMAIN nets' = 1..m /\ m \in Nat /\ m # 0
        /\ \A i \in DOMAIN nets : nets'[i] = nets[i]
        /\ nets'[m] = [closure |-> defined, site |-> s, input |-> operand[s], due |-> TRUE, live |-> TRUE]
    BY <1>1, <1>2, <1>4, <2>1, Unfolding
  <2>3. \A i \in DOMAIN nets' : i \in DOMAIN nets \/ i = m
    BY <1>2, <2>2
  <2>. HIDE DEF n, m
  <2>4. \A i \in DOMAIN nets' : nets'[i].due => nets'[i].live
    BY <1>2, <2>2, <2>3
  <2>5. \A i \in DOMAIN nets' : nets'[i].site = s /\ nets'[i].live => i = m
    BY <1>2, <2>1, <2>2, <2>3
  <2>6. m \in DOMAIN nets' /\ unfolded' = [unfolded EXCEPT ![s] = m] /\ DOMAIN nets \subseteq DOMAIN nets'
    BY <1>2, <2>1, <2>2 DEF m
  <2>7. \A i \in DOMAIN nets : nets'[i].site = nets[i].site /\ (nets[i].site # s => nets'[i] = nets[i])
    BY <2>2
  <2>8. \A i \in DOMAIN nets' : i \notin DOMAIN nets => nets'[i].site = s
    BY <2>2, <2>3
  <2>9. nets'[m].site = s /\ nets'[m].live /\ nets'[m].due /\ nets'[m].closure = defined /\ nets'[m].input = operand[s]
    BY <2>2
  <2>20. Settles(s, m)
    BY <1>1, <2>1, <2>2, <2>4, <2>5, <2>6, <2>7, <2>8, <2>9 DEF Settles
  <2>. QED BY <2>2, <2>20, OneSite
<1>8. CASE Sites!Refolds(s)
  <2>. DEFINE old == nets[n].closure
              left == Sites!eff_dispose_unfolded_closure(nets, n)
              m == Len(nets) + 1
  <2>1. /\ n # 0 /\ Unusable \notin {defined, operand[s]}
        /\ Sites!StoreIs(Sites!delete(Sites!Compared(Sites!Store, old, defined), old))
        /\ nets' = Sites!Unfolded(left, defined, s, operand[s])
        /\ unfolded' = [unfolded EXCEPT ![s] = Len(nets')]
    BY <1>8 DEF Sites!Refolds
  <2>2. n \in DOMAIN nets /\ old \in Lambda
    BY <1>2, <1>3, <2>1 DEF Net
  <2>3. Stored(hash')
    BY <1>1, <1>4, <2>1, <2>2, Comparing
  <2>4. /\ left \in Seq(Net) /\ Len(left) = Len(nets) /\ DOMAIN left = DOMAIN nets
        /\ \A i \in DOMAIN nets : i # n => left[i] = nets[i]
        /\ left[n].site = s /\ ~left[n].live /\ ~left[n].due
    BY <1>1, <1>2, <2>1, <2>2, Disposing
  <2>. HIDE DEF n, left, old
  <2>5. /\ nets' \in Seq(Net) /\ Len(nets') = m /\ DOMAIN nets' = 1..m /\ m \in Nat /\ m # 0
        /\ \A i \in DOMAIN nets : nets'[i] = left[i]
        /\ nets'[m] = [closure |-> defined, site |-> s, input |-> operand[s], due |-> TRUE, live |-> TRUE]
    BY <1>2, <1>4, <2>1, <2>4, Unfolding
  <2>6. (\A i \in DOMAIN nets' : i \in DOMAIN nets \/ i = m) /\ DOMAIN nets \subseteq DOMAIN nets' /\ m \in DOMAIN nets'
    BY <1>2, <2>5
  <2>. HIDE DEF m
  <2>7. \A i \in DOMAIN nets : nets'[i].site = nets[i].site /\ (nets[i].site # s => nets'[i] = nets[i])
    BY <1>2, <2>1, <2>4, <2>5
  <2>8. \A i \in DOMAIN nets' : nets'[i].due => nets'[i].live
    BY <1>2, <2>4, <2>5, <2>6
  <2>9. \A i \in DOMAIN nets' : nets'[i].site = s /\ nets'[i].live => i = m
    BY <1>2, <2>4, <2>5, <2>6
  <2>10. unfolded' = [unfolded EXCEPT ![s] = m]
    BY <2>1, <2>5
  <2>11. \A i \in DOMAIN nets' : i \notin DOMAIN nets => nets'[i].site = s
    BY <2>5, <2>6
  <2>12. nets'[m].site = s /\ nets'[m].live /\ nets'[m].due /\ nets'[m].closure = defined /\ nets'[m].input = operand[s]
    BY <2>5
  <2>13. nets' \in Seq(Net) /\ m # 0 /\ m \in DOMAIN nets' /\ DOMAIN nets \subseteq DOMAIN nets'
    BY <2>5, <2>6
  <2>20. Settles(s, m)
    BY <1>1, <2>3, <2>7, <2>8, <2>9, <2>10, <2>11, <2>12, <2>13 DEF Settles
  <2>. QED BY <2>5, <2>20, OneSite
<1>9. CASE Sites!Dispatches(s)
  <2>. DEFINE old == nets[n].closure
  <2>1. /\ n # 0 /\ Unusable \notin {defined, operand[s]}
        /\ ~Sites!source_template_inconsistent(Sites!Store, old, defined)
        /\ Sites!StoreIs(Sites!Compared(Sites!Store, old, defined))
        /\ nets' = Sites!eff_dispatch_inputs(nets, n, operand[s]) /\ unfolded' = unfolded
    BY <1>9 DEF Sites!Dispatches
  <2>2. n \in DOMAIN nets /\ old \in Lambda
    BY <1>2, <1>3, <2>1 DEF Net
  <2>3. Stored(hash') /\ Sites!HashOf[old] = Sites!HashOf[defined]
    BY <1>1, <1>4, <2>1, <2>2, Comparing
  <2>4. /\ nets' \in Seq(Net) /\ DOMAIN nets' = DOMAIN nets
        /\ \A i \in DOMAIN nets : i # n => nets'[i] = nets[i]
        /\ nets'[n].site = nets[n].site /\ nets'[n].closure = old /\ nets'[n].live = nets[n].live
        /\ nets'[n].input = operand[s] /\ (nets'[n].due <=> nets[n].due \/ nets[n].input # operand[s])
    BY <1>1, <1>4, <2>1, <2>2, Dispatching
  <2>5. unfolded' = [unfolded EXCEPT ![s] = n]
    BY <2>1 DEF SitesTypes
  <2>. HIDE DEF n
  <2>6. \A i \in DOMAIN nets : /\ nets'[i].site = nets[i].site /\ nets'[i].live = nets[i].live
                               /\ nets[i].site # s => nets'[i] = nets[i]
    BY <1>2, <2>1, <2>4
  <2>7. \A i \in DOMAIN nets' : nets'[i].due => nets'[i].live
    BY <1>2, <2>1, <2>4
  <2>8. nets'[n].due \/ out[s] = <<nets'[n].closure, nets'[n].input>>
    BY <1>5, <2>1, <2>4
  <2>9. \A i \in DOMAIN nets' : nets'[i].site = s /\ nets'[i].live => i = n
    BY <1>2, <2>4, <2>6
  <2>20. Settles(s, n)
    BY <1>1, <1>2, <2>1, <2>2, <2>3, <2>4, <2>5, <2>6, <2>7, <2>8, <2>9 DEF Settles, Usable
  <2>. QED BY <1>1, <2>20, OneSite
<1>. QED BY <1>6, <1>7, <1>8, <1>9 DEF Sites!ce_apply_closure

-----------------------------------------------------------------------------
(* The merging cell.                                                       *)

\* What the cell may do to the networks: its own change, and it holds those
\* that live for it.
Mixes ==
  /\ UNCHANGED <<defined, used, operand, siteDue, unfolded, out>> /\ Stored(hash')
  /\ nets' \in Seq(Net) /\ DOMAIN nets \subseteq DOMAIN nets'
  /\ \A i \in DOMAIN nets : /\ nets'[i].site = nets[i].site
                            /\ nets[i].site # Sites!Mixed => nets'[i] = nets[i]
  /\ \A i \in DOMAIN nets' : /\ i \notin DOMAIN nets => nets'[i].site = Sites!Mixed
                             /\ nets'[i].due => nets'[i].live
  /\ MixedHolds'

\* It leaves the sites alone.
LEMMA OneCell ==
  ASSUME SitesInv, Mixes
  PROVE  SitesInv'
<1>. USE DEF SitesInv
<1>1. /\ UNCHANGED <<defined, used, operand, siteDue, unfolded, out>> /\ Stored(hash')
      /\ nets' \in Seq(Net) /\ MixedHolds'
  BY DEF Mixes
<1>2. SitesTypes'
  BY <1>1 DEF SitesTypes
<1>3. ASSUME NEW s \in Site
      PROVE  s # Sites!Mixed
  BY SitesAssumption
<1>4. ASSUME NEW s \in Site, unfolded[s] # 0
      PROVE  /\ unfolded[s] \in DOMAIN nets' /\ nets'[unfolded[s]] = nets[unfolded[s]]
             /\ nets[unfolded[s]].site = s /\ nets[unfolded[s]].live
  BY <1>3, <1>4 DEF OneEach, Mixes
<1>5. ASSUME NEW s \in Site, NEW i \in DOMAIN nets', nets'[i].site = s, nets'[i].live
      PROVE  i = unfolded[s]
  <2>1. i \in DOMAIN nets /\ nets[i].site = s
    BY <1>3, <1>5 DEF Mixes
  <2>2. nets'[i] = nets[i]
    BY <1>3, <2>1 DEF Mixes
  <2>. QED BY <1>5, <2>1, <2>2 DEF OneEach
<1>6. \A i \in DOMAIN nets' : nets'[i].due => nets'[i].live
  BY DEF Mixes
<1>7. OneEach'
  <2>1. ASSUME NEW s \in Site, unfolded[s] # 0
        PROVE  unfolded[s] \in DOMAIN nets' /\ nets'[unfolded[s]].site = s /\ nets'[unfolded[s]].live
    BY <1>4, <2>1
  <2>. QED BY <1>1, <1>5, <1>6, <2>1 DEF OneEach
<1>8. UpToDate'
  BY <1>1, <1>4 DEF UpToDate, Usable
<1>9. HasWritten'
  BY <1>1, <1>4 DEF HasWritten
<1>. QED BY <1>1, <1>2, <1>7, <1>8, <1>9

\* A template joins the networks of the cell.
LEMMA CellAdds ==
  ASSUME SitesInv, NEW k \in Lambda, NEW kind \in {"unfolded", "set"}, NEW c,
         siteContent.kind # "contradiction", kind = "unfolded" => siteContent.nets = {},
         Sites!Adds(k, siteContent.nets, kind, c), Stored(hash'),
         UNCHANGED <<defined, used, operand, siteDue, unfolded, out>>
  PROVE  SitesInv'
<1>. DEFINE m == Len(nets) + 1
<1>1. /\ nets \in Seq(Net)
      /\ \A i \in DOMAIN nets : nets[i].due => nets[i].live
      /\ \A n : n \in siteContent.nets
                  <=> n \in DOMAIN nets /\ nets[n].site = Sites!Mixed /\ nets[n].live
  BY DEF SitesInv, SitesTypes, OneEach, MixedHolds
<1>2. nets' = Sites!Unfolded(nets, k, Sites!Mixed, None)
  BY DEF Sites!Adds
<1>3. /\ nets' \in Seq(Net) /\ Len(nets') = m /\ DOMAIN nets' = 1..m /\ DOMAIN nets = 1..Len(nets)
      /\ Len(nets) \in Nat /\ \A i \in DOMAIN nets : nets'[i] = nets[i]
      /\ nets'[m] = [closure |-> k, site |-> Sites!Mixed, input |-> None, due |-> TRUE, live |-> TRUE]
  BY <1>1, <1>2, MixedUnfolding
<1>4. siteContent' = [kind |-> kind, nets |-> siteContent.nets \cup {m}, clock |-> c]
  BY <1>3 DEF Sites!Adds, Sites!Holds
<1>5. (\A i \in DOMAIN nets' : i \in DOMAIN nets \/ i = m) /\ m \in DOMAIN nets' /\ m \notin DOMAIN nets
      /\ DOMAIN nets \subseteq DOMAIN nets'
  BY <1>3
<1>. HIDE DEF m
<1>6. \A n : n \in siteContent'.nets
               <=> n \in DOMAIN nets' /\ nets'[n].site = Sites!Mixed /\ nets'[n].live
  BY <1>1, <1>3, <1>4, <1>5
<1>7. siteContent'.kind = kind /\ (kind = "unfolded" => siteContent'.nets = {m})
  BY <1>4
<1>8. MixedHolds'
  BY <1>6, <1>7 DEF MixedHolds
<1>9. Mixes
  BY <1>1, <1>3, <1>5, <1>8 DEF Mixes
<1>. QED BY <1>9, OneCell

\* The cell's one network is told there is no input, and stays.
LEMMA CellDispatches ==
  ASSUME SitesInv, siteContent.kind = "unfolded",
         nets' = Sites!eff_dispatch_inputs(nets, Sites!Only, None),
         siteContent'.kind = "unfolded", siteContent'.nets = siteContent.nets, Stored(hash'),
         UNCHANGED <<defined, used, operand, siteDue, unfolded, out>>
  PROVE  SitesInv'
<1>1. PICK n : siteContent.nets = {n}
  BY DEF SitesInv, MixedHolds
<1>2. /\ nets \in Seq(Net) /\ n \in DOMAIN nets /\ nets[n].site = Sites!Mixed /\ nets[n].live
      /\ \A i \in DOMAIN nets : nets[i].site = Sites!Mixed /\ nets[i].live => i = n
      /\ \A i \in DOMAIN nets : nets[i].due => nets[i].live
  BY <1>1 DEF SitesInv, SitesTypes, OneEach, MixedHolds
<1>3. nets' = Sites!eff_dispatch_inputs(nets, n, None) /\ None \in Operand \cup {None}
  BY <1>1 DEF Sites!Only
<1>4. /\ nets' \in Seq(Net) /\ DOMAIN nets' = DOMAIN nets
      /\ \A i \in DOMAIN nets : i # n => nets'[i] = nets[i]
      /\ nets'[n].site = nets[n].site /\ nets'[n].live = nets[n].live
  <2>1. nets \in Seq(Net) /\ n \in DOMAIN nets
    BY <1>2
  <2>. QED BY <1>3, <2>1, Dispatching
<1>5. \A i \in DOMAIN nets : /\ nets'[i].site = nets[i].site
                             /\ nets[i].site # Sites!Mixed => nets'[i] = nets[i]
                             /\ nets'[i].due => nets'[i].live
  BY <1>2, <1>4
<1>6. MixedHolds'
  <2>1. \A i : i \in siteContent'.nets
                 <=> i \in DOMAIN nets' /\ nets'[i].site = Sites!Mixed /\ nets'[i].live
    BY <1>1, <1>2, <1>4
  <2>. QED BY <1>1, <2>1 DEF MixedHolds
<1>7. Mixes
  BY <1>4, <1>5, <1>6 DEF Mixes
<1>. QED BY <1>7, OneCell

\* A newer template takes the place of the cell's network, which is disposed.
LEMMA CellReplaces ==
  ASSUME SitesInv, NEW k \in Lambda, NEW c, Sites!Replaces(k, c), Stored(hash'),
         UNCHANGED <<defined, used, operand, siteDue, unfolded, out>>
  PROVE  SitesInv'
<1>. DEFINE m == Len(nets) + 1
<1>0. siteContent.kind = "unfolded"
  BY DEF Sites!Replaces
<1>1. PICK n : siteContent.nets = {n}
  BY <1>0 DEF SitesInv, MixedHolds
<1>. DEFINE left == Sites!eff_dispose_unfolded_closure(nets, n)
<1>2. /\ nets \in Seq(Net) /\ n \in DOMAIN nets /\ nets[n].site = Sites!Mixed /\ nets[n].live
      /\ \A i \in DOMAIN nets : nets[i].site = Sites!Mixed /\ nets[i].live => i = n
      /\ \A i \in DOMAIN nets : nets[i].due => nets[i].live
  BY <1>0, <1>1 DEF SitesInv, SitesTypes, OneEach, MixedHolds
<1>3. Sites!Only = n
  BY <1>1 DEF Sites!Only
<1>4. /\ left \in Seq(Net) /\ Len(left) = Len(nets) /\ DOMAIN left = DOMAIN nets
      /\ \A i \in DOMAIN nets : i # n => left[i] = nets[i]
      /\ left[n].site = Sites!Mixed /\ ~left[n].live /\ ~left[n].due
  BY <1>2, Disposing
<1>5. nets' = Sites!Unfolded(left, k, Sites!Mixed, None) /\ siteContent' = Sites!Holds("unfolded", {Len(nets')}, c)
  BY <1>3 DEF Sites!Replaces
<1>. HIDE DEF left
<1>6. /\ nets' \in Seq(Net) /\ Len(nets') = m /\ DOMAIN nets' = 1..m /\ DOMAIN nets = 1..Len(nets)
      /\ Len(nets) \in Nat /\ \A i \in DOMAIN nets : nets'[i] = left[i]
      /\ nets'[m] = [closure |-> k, site |-> Sites!Mixed, input |-> None, due |-> TRUE, live |-> TRUE]
  <2>1. Len(left) = Len(nets) /\ DOMAIN left = DOMAIN nets /\ left \in Seq(Net)
    BY <1>4
  <2>2. nets' = Sites!Unfolded(left, k, Sites!Mixed, None)
    BY <1>5
  <2>. QED BY <2>1, <2>2, MixedUnfolding
<1>7. (\A i \in DOMAIN nets' : i \in DOMAIN nets \/ i = m) /\ m \in DOMAIN nets' /\ m \notin DOMAIN nets
      /\ DOMAIN nets \subseteq DOMAIN nets'
  BY <1>6
<1>8. siteContent'.kind = "unfolded" /\ siteContent'.nets = {m}
  BY <1>5, <1>6 DEF Sites!Holds
<1>. HIDE DEF m
<1>9. \A i \in DOMAIN nets : /\ nets'[i].site = nets[i].site
                             /\ nets[i].site # Sites!Mixed => nets'[i] = nets[i]
                             /\ nets'[i].due => nets'[i].live
                             /\ ~(nets'[i].site = Sites!Mixed /\ nets'[i].live)
  BY <1>2, <1>4, <1>6
<1>10. MixedHolds'
  <2>1. \A i : i \in siteContent'.nets
                 <=> i \in DOMAIN nets' /\ nets'[i].site = Sites!Mixed /\ nets'[i].live
    BY <1>6, <1>7, <1>8, <1>9
  <2>. QED BY <1>8, <2>1 DEF MixedHolds
<1>11. Mixes
  BY <1>6, <1>7, <1>9, <1>10 DEF Mixes
<1>. QED BY <1>11, OneCell

LEMMA CellContradicts ==
  ASSUME SitesInv, siteContent'.kind = "contradiction", nets' = nets, Stored(hash'),
         UNCHANGED <<defined, used, operand, siteDue, unfolded, out>>
  PROVE  SitesInv'
<1>1. MixedHolds'
  BY DEF MixedHolds
<1>2. Mixes
  BY <1>1 DEF Mixes, SitesInv, SitesTypes, OneEach
<1>. QED BY <1>2, OneCell

\* What the store becomes, whichever way a template is merged.
LEMMA CellStore ==
  ASSUME SitesInv, NEW k \in Lambda
  PROVE  /\ Sites!StoreIs(Sites!Store) => Stored(hash')
         /\ siteContent.kind = "unfolded" =>
              LET old == nets[Sites!Only].closure
              IN  /\ Sites!StoreIs(Sites!Compared(Sites!Store, old, k)) => Stored(hash')
                  /\ Sites!StoreIs(Sites!delete(Sites!Compared(Sites!Store, old, k), old)) => Stored(hash')
<1>1. Stored(hash) /\ nets \in Seq(Net)
  BY DEF SitesInv, SitesTypes
<1>2. Sites!StoreIs(Sites!Store) => Stored(hash')
  BY <1>1 DEF Sites!StoreIs, Sites!Store
<1>3. ASSUME siteContent.kind = "unfolded"
      PROVE  nets[Sites!Only].closure \in Lambda
  <2>1. PICK n : siteContent.nets = {n}
    BY <1>3 DEF SitesInv, MixedHolds
  <2>2. n \in DOMAIN nets /\ Sites!Only = n
    BY <1>3, <2>1 DEF SitesInv, MixedHolds, Sites!Only
  <2>3. nets[n] \in Net
    BY <1>1, <2>2, ElementOf
  <2>. QED BY <2>2, <2>3 DEF Net
<1>. QED BY <1>1, <1>2, <1>3, Comparing

LEMMA SitesMerge ==
  ASSUME SitesInv, NEW k \in Lambda,
         Sites!merge_closure_incremental(k) \/ \E c \in 1..2 : Sites!merge_reactive(k, c)
  PROVE  SitesInv'
<1>1. UNCHANGED <<defined, used, operand, siteDue, unfolded, out>>
  BY DEF Sites!merge_closure_incremental, Sites!merge_reactive, Sites!sites
<1>2. siteContent.kind = "nothing" => siteContent.nets = {}
  BY DEF SitesInv, MixedHolds
<1>3. CASE Sites!merge_closure_incremental(k)
  <2>1. CASE siteContent.kind = "nothing" /\ Sites!Adds(k, {}, "unfolded", 0) /\ Sites!StoreIs(Sites!Store)
    BY <1>1, <1>2, <2>1, CellStore, CellAdds
  <2>2. CASE siteContent.kind = "set" /\ Sites!Adds(k, siteContent.nets, "set", 0) /\ Sites!StoreIs(Sites!Store)
    BY <1>1, <2>2, CellStore, CellAdds
  <2>3. CASE /\ siteContent.kind = "unfolded" /\ Sites!Adds(k, siteContent.nets, "set", siteContent.clock)
             /\ Sites!StoreIs(Sites!Compared(Sites!Store, nets[Sites!Only].closure, k))
    BY <1>1, <2>3, CellStore, CellAdds
  <2>4. CASE /\ siteContent.kind = "unfolded" /\ siteContent' = siteContent
             /\ nets' = Sites!eff_dispatch_inputs(nets, Sites!Only, None)
             /\ Sites!StoreIs(Sites!Compared(Sites!Store, nets[Sites!Only].closure, k))
    BY <1>1, <2>4, CellStore, CellDispatches
  <2>. QED BY <1>3, <2>1, <2>2, <2>3, <2>4 DEF Sites!merge_closure_incremental, Sites!HoldsPlain
<1>4. ASSUME NEW c \in 1..2, Sites!merge_reactive(k, c)
      PROVE  SitesInv'
  <2>1. CASE siteContent.kind = "nothing" /\ Sites!Adds(k, {}, "unfolded", c) /\ Sites!StoreIs(Sites!Store)
    BY <1>1, <1>2, <2>1, CellStore, CellAdds
  <2>2. CASE Sites!Replaces(k, c)
    <3>1. Stored(hash')
      BY <2>2, CellStore DEF Sites!Replaces
    <3>. QED BY <1>1, <2>2, <3>1, CellReplaces
  <2>3. CASE /\ siteContent.kind = "unfolded" /\ siteContent' = Sites!Holds("unfolded", siteContent.nets, c)
             /\ nets' = Sites!eff_dispatch_inputs(nets, Sites!Only, None)
             /\ Sites!StoreIs(Sites!Compared(Sites!Store, nets[Sites!Only].closure, k))
    <3>1. siteContent'.kind = "unfolded" /\ siteContent'.nets = siteContent.nets
      BY <2>3 DEF Sites!Holds
    <3>. QED BY <1>1, <2>3, <3>1, CellStore, CellDispatches
  <2>4. CASE siteContent' = Sites!Contradicted /\ Sites!StoreIs(Sites!Store) /\ nets' = nets
    <3>1. siteContent'.kind = "contradiction"
      BY <2>4 DEF Sites!Contradicted, Sites!Holds
    <3>. QED BY <1>1, <2>4, <3>1, CellStore, CellContradicts
  <2>. QED BY <1>4, <2>1, <2>2, <2>3, <2>4 DEF Sites!merge_reactive
<1>. QED BY <1>3, <1>4

-----------------------------------------------------------------------------
LEMMA SitesStep ==
  ASSUME SitesInv, [Next]_Vars
  PROVE  SitesInv'
<1>1. Sites!Next \/ UNCHANGED sitesVars
  BY DEF Next, Vars
<1>2. CASE UNCHANGED sitesVars
  BY <1>2 DEF sitesVars, SitesInv, SitesTypes, OneEach, UpToDate, Usable, HasWritten, MixedHolds
<1>3. CASE Sites!Next
  <2>1. CASE (\E k \in Lambda : Sites!Define(k)) \/ Sites!Contradict
               \/ \E s \in Site, v \in Operand \cup {Unusable} : Sites!SetOperand(s, v)
    BY <2>1, SitesAlerted
  <2>2. CASE (\E k \in Lambda : Sites!Collect(k)) \/ \E h \in Sites!Hash : Sites!Finalize(h)
    BY <2>2, SitesCollected
  <2>3. CASE \E n \in DOMAIN nets : Sites!RunNetwork(n)
    BY <2>3, SitesRun
  <2>4. CASE \E s \in Site : Sites!ce_apply_closure(s)
    BY <2>4, SitesApply
  <2>5. CASE \E k \in Lambda : Sites!merge_closure_incremental(k)
    BY <2>5, SitesMerge
  <2>6. ASSUME NEW s \in Site, NEW c \in 1..2, Sites!p_apply_closure_template(s, c)
        PROVE  SitesInv'
    <3>1. defined \in Lambda /\ Sites!merge_reactive(defined, c)
      BY <2>6 DEF Sites!p_apply_closure_template, SitesInv, SitesTypes
    <3>. QED BY <3>1, SitesMerge
  <2>. QED BY <1>3, <2>1, <2>2, <2>3, <2>4, <2>5, <2>6 DEF Sites!Next
<1>. QED BY <1>1, <1>2, <1>3

\* The invariant of the call sites and the merging cell (ce_apply_closure,
\* merge_closure_incremental).
THEOREM SitesInvariant == Spec => []SitesInv
<1>1. Init => SitesInv
  BY SitesInit DEF Init
<1>2. SitesInv /\ [Next]_Vars => SitesInv'
  BY SitesStep
<1>. QED BY <1>1, <1>2, PTL DEF Spec

-----------------------------------------------------------------------------
(* Networks are of closures that were constructed, which is what the       *)
(* condition on the hashes speaks of.                                      *)

Built == \A n \in DOMAIN nets : nets[n].closure \in used

\* The networks as they are, but for what is not their closure.
SameClosures(ns) ==
  ns \in Seq(Net) /\ DOMAIN ns = DOMAIN nets /\ \A i \in DOMAIN nets : ns[i].closure = nets[i].closure

LEMMA BuiltUnfolding ==
  ASSUME SitesInv, Built, NEW ns, SameClosures(ns), NEW k \in used, NEW s \in Site \cup {Sites!Mixed},
         NEW v \in Operand \cup {None}, nets' = Sites!Unfolded(ns, k, s, v), used' = used
  PROVE  Built'
<1>. DEFINE m == Len(ns) + 1
           u == Sites!Unfolded(ns, k, s, v)
<1>1. ns \in Seq(Net) /\ k \in Lambda
  BY DEF SameClosures, SitesInv, SitesTypes
<1>2. /\ DOMAIN ns = 1..Len(ns) /\ Len(ns) \in Nat /\ DOMAIN u = 1..m
      /\ \A i \in 1..Len(ns) : u[i] = ns[i]
      /\ u[m] = [closure |-> k, site |-> s, input |-> v, due |-> TRUE, live |-> TRUE]
  BY <1>1, Unfolding
<1>3. (\A i \in DOMAIN u : i \in DOMAIN ns \/ i = m) /\ u[m].closure = k
  BY <1>2
<1>4. nets' = u
  OBVIOUS
<1>. HIDE DEF m, u
<1>. QED BY <1>2, <1>3, <1>4 DEF Built, SameClosures

LEMMA BuiltApply ==
  ASSUME SitesInv, Built, NEW s \in Site, Sites!ce_apply_closure(s)
  PROVE  Built'
<1>. DEFINE n == unfolded[s]
<1>1. /\ used' = used /\ nets \in Seq(Net)
      /\ n # 0 => n \in DOMAIN nets
      /\ Unusable \notin {defined, operand[s]} => defined \in used /\ operand[s] \in Operand
  <2>1. used' = used
    BY DEF Sites!ce_apply_closure, Sites!Waits, Sites!FirstUnfolds, Sites!Refolds, Sites!Dispatches, Sites!sites
  <2>2. nets \in Seq(Net)
    BY DEF SitesInv, SitesTypes
  <2>3. n # 0 => n \in DOMAIN nets
    BY DEF SitesInv, OneEach
  <2>4. Unusable \notin {defined, operand[s]} => defined \in used /\ operand[s] \in Operand
    BY DEF SitesInv, SitesTypes
  <2>. QED BY <2>1, <2>2, <2>3, <2>4
<1>2. CASE Sites!Waits(s)
  BY <1>1, <1>2 DEF Sites!Waits, Built
<1>3. CASE Sites!FirstUnfolds(s)
  <2>1. SameClosures(nets) /\ defined \in used /\ operand[s] \in Operand
        /\ nets' = Sites!Unfolded(nets, defined, s, operand[s])
    BY <1>1, <1>3 DEF Sites!FirstUnfolds, SameClosures
  <2>. QED BY <1>1, <2>1, BuiltUnfolding
<1>4. CASE Sites!Refolds(s)
  <2>. DEFINE left == Sites!eff_dispose_unfolded_closure(nets, n)
  <2>1. n \in DOMAIN nets /\ defined \in used /\ operand[s] \in Operand
        /\ nets' = Sites!Unfolded(left, defined, s, operand[s])
    BY <1>1, <1>4 DEF Sites!Refolds
  <2>2. SameClosures(left)
    BY <1>1, <2>1, Disposing DEF SameClosures
  <2>. HIDE DEF left
  <2>. QED BY <1>1, <2>1, <2>2, BuiltUnfolding
<1>5. CASE Sites!Dispatches(s)
  <2>1. n \in DOMAIN nets /\ operand[s] \in Operand /\ nets' = Sites!eff_dispatch_inputs(nets, n, operand[s])
    BY <1>1, <1>5 DEF Sites!Dispatches
  <2>. HIDE DEF n
  <2>2. DOMAIN nets' = DOMAIN nets /\ \A i \in DOMAIN nets : nets'[i].closure = nets[i].closure
    BY <1>1, <2>1, Dispatching
  <2>. QED BY <1>1, <2>2 DEF Built
<1>. QED BY <1>2, <1>3, <1>4, <1>5 DEF Sites!ce_apply_closure

LEMMA BuiltMerge ==
  ASSUME SitesInv, Built, NEW k \in Lambda,
         Sites!merge_closure_incremental(k) \/ \E c \in 1..2 : Sites!merge_reactive(k, c)
  PROVE  Built'
<1>. DEFINE o == Sites!Only
<1>1. /\ used' = used /\ k \in used /\ nets \in Seq(Net)
      /\ Sites!Mixed \in Site \cup {Sites!Mixed} /\ None \in Operand \cup {None}
  BY DEF Sites!merge_closure_incremental, Sites!merge_reactive, Sites!sites, SitesInv, SitesTypes
<1>2. siteContent.kind = "unfolded" => o \in DOMAIN nets
  BY DEF SitesInv, MixedHolds, Sites!Only
<1>3. CASE nets' = Sites!Unfolded(nets, k, Sites!Mixed, None)
  BY <1>1, <1>3, BuiltUnfolding DEF SameClosures
<1>4. CASE siteContent.kind = "unfolded" /\ nets' = Sites!eff_dispatch_inputs(nets, o, None)
  <2>. HIDE DEF o
  <2>1. DOMAIN nets' = DOMAIN nets /\ \A i \in DOMAIN nets : nets'[i].closure = nets[i].closure
    BY <1>1, <1>2, <1>4, Dispatching
  <2>. QED BY <1>1, <2>1 DEF Built
<1>5. CASE /\ siteContent.kind = "unfolded"
           /\ nets' = Sites!Unfolded(Sites!eff_dispose_unfolded_closure(nets, o), k, Sites!Mixed, None)
  <2>. HIDE DEF o
  <2>. DEFINE left == Sites!eff_dispose_unfolded_closure(nets, o)
  <2>1. SameClosures(left)
    BY <1>1, <1>2, <1>5, Disposing DEF SameClosures
  <2>2. nets' = Sites!Unfolded(left, k, Sites!Mixed, None)
    BY <1>5
  <2>. HIDE DEF left
  <2>. QED BY <1>1, <2>1, <2>2, BuiltUnfolding
<1>6. CASE nets' = nets
  BY <1>1, <1>6 DEF Built
<1>. QED BY <1>3, <1>4, <1>5, <1>6
     DEF Sites!merge_closure_incremental, Sites!merge_reactive, Sites!Adds, Sites!Replaces, Sites!HoldsPlain

LEMMA BuiltStep ==
  ASSUME SitesInv, Built, [Next]_Vars
  PROVE  Built'
<1>1. Sites!Next \/ UNCHANGED sitesVars
  BY DEF Next, Vars
<1>2. CASE UNCHANGED nets /\ used \subseteq used'
  BY <1>2 DEF Built
<1>3. ASSUME NEW n \in DOMAIN nets, Sites!RunNetwork(n)
      PROVE  Built'
  <2>1. nets[n] \in Net /\ nets \in Seq(Net) /\ used' = used
    BY <1>3, ElementOf DEF Sites!RunNetwork, Sites!sites, SitesInv, SitesTypes
  <2>2. DOMAIN nets' = DOMAIN nets /\ \A i \in DOMAIN nets : nets'[i].closure = nets[i].closure
    BY <1>3, <2>1 DEF Sites!RunNetwork, Net
  <2>. QED BY <2>1, <2>2 DEF Built
<1>4. ASSUME NEW s \in Site, NEW c \in 1..2, Sites!p_apply_closure_template(s, c)
      PROVE  Built'
  <2>1. defined \in Lambda /\ Sites!merge_reactive(defined, c)
    BY <1>4 DEF Sites!p_apply_closure_template, SitesInv, SitesTypes
  <2>. QED BY <2>1, BuiltMerge
<1>5. CASE \/ \E k \in Lambda : Sites!Define(k) \/ Sites!Collect(k)
           \/ Sites!Contradict \/ \E h \in Sites!Hash : Sites!Finalize(h)
           \/ \E s \in Site, v \in Operand \cup {Unusable} : Sites!SetOperand(s, v)
           \/ UNCHANGED sitesVars
  BY <1>2, <1>5 DEF Sites!Define, Sites!Collect, Sites!Contradict, Sites!Finalize, Sites!SetOperand,
                    Sites!sites, Sites!work, sitesVars
<1>. QED BY <1>1, <1>3, <1>4, <1>5, BuiltApply, BuiltMerge DEF Sites!Next

THEOREM NetworksAreBuilt == Spec => []Built
<1>1. Init => Built
  BY DEF Init, Sites!Init, Built
<1>2. SitesInv /\ SitesInv' /\ Built /\ [Next]_Vars => Built'
  BY BuiltStep
<1>. QED BY <1>1, <1>2, SitesInvariant, PTL DEF Spec

\* Whatever is defined, redefined, collected or finalized, and in whatever
\* order networks run, a site that is at rest shows what the current definition
\* makes of the current operand, as long as no closure of another text that was
\* constructed has the same hash (ce_apply_closure, get_hash).
THEOREM DefinitionsAreApplied == Spec => []SitesApplyTheDefinition
<1>1. SitesInv /\ Built => SitesApplyTheDefinition
  <2>. SUFFICES ASSUME SitesInv, Built, NEW s \in Site, Sites!AtRest(s), Sites!HashIsUnique
                PROVE  Sites!Shows(s)
    BY DEF SitesApplyTheDefinition, Sites!SitesApplyTheDefinition
  <2>. DEFINE n == unfolded[s]
  <2>1. /\ n # 0 /\ n \in DOMAIN nets /\ nets[n].site = s /\ ~nets[n].due
        /\ Sites!HashOf[nets[n].closure] = Sites!HashOf[defined] /\ nets[n].input = operand[s]
        /\ out[s] = <<nets[n].closure, nets[n].input>>
    BY DEF Sites!AtRest, Usable, SitesInv, OneEach, UpToDate, HasWritten
  <2>2. nets[n].closure \in used /\ nets[n].closure \in Lambda /\ nets[n].input \in Operand
    BY <2>1 DEF Built, Sites!AtRest, SitesInv, SitesTypes
  <2>3. TextOf[nets[n].closure] = TextOf[defined]
    BY <2>1, <2>2 DEF Sites!HashIsUnique
  <2>. QED BY <2>1, <2>2, <2>3, SitesAssumption DEF Sites!Shows
<1>. QED BY <1>1, SitesInvariant, NetworksAreBuilt, PTL

\* Every network that lives is the one its site or its cell holds
\* (eff_dispose_unfolded_closure, merge_closure_incremental).
THEOREM NetworksAreHeld == Spec => []NoStrayNetworks
<1>1. SitesInv => NoStrayNetworks
  BY SitesSuffice
<1>. QED BY <1>1, SitesInvariant, PTL

-----------------------------------------------------------------------------
(* Names in nested environments.                                           *)

Definition == [by : Source, at : Nat, is : Nat]

Older(r, d) == r = d \/ (r.by = d.by /\ r.at < d.at)

\* What a level of a lookup makes of what it reads, and what it then holds.
Chosen(l, e) == Names!select_cell_has_value(cells[e], Names!Parent(l, e))
Passed(S, R) == IF Names!is_unusable_value(S) THEN R ELSE Names!merge(R, CHOOSE d \in S : TRUE)
Told(l, e)   == Passed(Chosen(l, e), lookups[l][e])

NamesTypes ==
  /\ cells \in [Names!Env -> SUBSET Definition]
  /\ lookups \in [Names!Env -> [Names!Env -> SUBSET Definition]]
  /\ \A e \in Names!Env : IsFiniteSet(cells[e]) /\ \A l \in Names!Env : IsFiniteSet(lookups[l][e])
  /\ cached \subseteq Names!Env
  /\ stamp \in [Source -> Nat] /\ made \in Nat

\* What a level holds, an environment as far out or further has or has a newer
\* definition of.
Covered ==
  \A l, e \in Names!Env : \A r \in lookups[l][e] :
    \E f \in Names!Env : f >= e /\ \E d \in cells[f] : Older(r, d)

\* A level that need not run has passed on what it reads.
Settled ==
  \A l \in cached, e \in Names!Env :
    l <= e /\ <<l, e>> \notin lookupDue => Told(l, e) = lookups[l][e]

\* While one source defines with growing timestamps, a level holds nothing that
\* is newer than what it reads.
Single(S) == S = {} \/ \E d : S = {d}
Growth ==
  growing => /\ \A e \in Names!Env : /\ Single(cells[e])
                                     /\ \A d \in cells[e] : 0 < d.at /\ d.at <= stamp[d.by]
             /\ \A l, e \in Names!Env :
                  /\ Single(lookups[l][e])
                  /\ \A r \in lookups[l][e] : \E d \in Chosen(l, e) : Older(r, d)

NamesInv == NamesTypes /\ Covered /\ Settled /\ Growth

-----------------------------------------------------------------------------
LEMMA OlderIsTransitive ==
  ASSUME NEW a \in Definition, NEW b \in Definition, NEW c \in Definition, Older(a, b), Older(b, c)
  PROVE  Older(a, c)
BY DEF Older, Definition

\* The cardinality Scopes and LatestWins count with is the standard one.
LEMMA SameCardinality ==
  ASSUME NEW S
  PROVE  Names!Cardinality(S) = Cardinality(S) /\ Latest!Cardinality(S) = Cardinality(S)
BY DEF Names!Cardinality, Latest!Cardinality, Cardinality, Names!IsFiniteSet, Latest!IsFiniteSet, IsFiniteSet

\* A value is usable when it is one definition.
LEMMA UsableIsOne ==
  ASSUME NEW S, IsFiniteSet(S)
  PROVE  ~Names!is_unusable_value(S) <=> \E d : S = {d}
<1>1. Cardinality(S) = 1 <=> \E d : S = {d}
  <2>1. \A T : IsFiniteSet(T) => (Cardinality(T) = 1 <=> \E x : T = {x})
    BY FS_Singleton, Zenon
  <2>. QED BY <2>1, Zenon
<1>. QED BY <1>1, SameCardinality DEF Names!is_unusable_value

\* Merging keeps to what was there and what comes; all of it is there
\* afterwards or something newer of its source is; and telling twice changes
\* nothing.
LEMMA Merging ==
  ASSUME NEW R \in SUBSET Definition, IsFiniteSet(R), NEW d \in Definition
  PROVE  /\ Names!merge(R, d) \in SUBSET Definition /\ IsFiniteSet(Names!merge(R, d))
         /\ Names!merge(R, d) \subseteq R \cup {d}
         /\ Names!merge(Names!merge(R, d), d) = Names!merge(R, d)
         /\ \A r \in R \cup {d} : \E c \in Names!merge(R, d) : Older(r, c)
<1>. DEFINE kept == {x \in R : x.by # d.by \/ x.at = d.at}
<1>1. IsFiniteSet(kept \cup {d})
  BY FS_Subset, FS_AddElement
<1>2. CASE \E x \in R : x.by = d.by /\ x.at > d.at
  <2>1. Names!merge(R, d) = R
    BY <1>2 DEF Names!merge
  <2>. QED BY <1>2, <2>1 DEF Older, Definition
<1>3. CASE ~\E x \in R : x.by = d.by /\ x.at > d.at
  <2>1. Names!merge(R, d) = kept \cup {d}
    BY <1>3 DEF Names!merge
  <2>2. ~\E x \in kept \cup {d} : x.by = d.by /\ x.at > d.at
    BY <1>3 DEF Definition
  <2>3. Names!merge(kept \cup {d}, d) = kept \cup {d}
    <3>1. {x \in kept \cup {d} : x.by # d.by \/ x.at = d.at} \cup {d} = kept \cup {d}
      OBVIOUS
    <3>. HIDE DEF kept
    <3>. QED BY <2>2, <3>1 DEF Names!merge
  <2>4. ASSUME NEW r \in R \cup {d}
        PROVE  \E c \in kept \cup {d} : Older(r, c)
    <3>1. CASE r \in kept \cup {d}
      BY <3>1 DEF Older
    <3>2. CASE r \notin kept \cup {d}
      <4>1. r.by = d.by /\ r.at # d.at /\ ~(r.at > d.at) /\ r.at \in Nat /\ d.at \in Nat
        BY <1>3, <3>2 DEF Definition
      <4>2. Older(r, d)
        BY <4>1 DEF Older
      <4>. QED BY <4>2
    <3>. QED BY <3>1, <3>2
  <2>. HIDE DEF kept
  <2>. QED BY <1>1, <2>1, <2>3, <2>4 DEF kept
<1>. QED BY <1>2, <1>3

\* What is newer than all that is there takes its place.
LEMMA Superseding ==
  ASSUME NEW R \in SUBSET Definition, NEW d \in Definition, \A r \in R : Older(r, d)
  PROVE  Names!merge(R, d) = {d}
BY DEF Names!merge, Older, Definition

\* What a level reads, and what it then holds.
LEMMA Choosing ==
  ASSUME NamesTypes, NEW l \in Names!Env, NEW e \in Names!Env
  PROVE  /\ Chosen(l, e) \in SUBSET Definition /\ IsFiniteSet(Chosen(l, e))
         /\ Chosen(l, e) # {} =>
              \/ Chosen(l, e) = cells[e]
              \/ e + 1 \in Names!Env /\ Chosen(l, e) = lookups[l][e + 1]
         /\ \A d : Chosen(l, e) = {d} => Told(l, e) = Names!merge(lookups[l][e], d)
         /\ (~\E d : Chosen(l, e) = {d}) => Told(l, e) = lookups[l][e]
<1>1. \/ Names!Parent(l, e) = {}
      \/ e + 1 \in Names!Env /\ Names!Parent(l, e) = lookups[l][e + 1]
  BY NamesAssumption DEF Names!Parent, Names!Env
<1>2. Chosen(l, e) \in {cells[e], Names!Parent(l, e)}
  BY DEF Chosen, Names!select_cell_has_value
<1>3. /\ Chosen(l, e) # {} => \/ Chosen(l, e) = cells[e]
                              \/ e + 1 \in Names!Env /\ Chosen(l, e) = lookups[l][e + 1]
      /\ Chosen(l, e) \in SUBSET Definition
  BY <1>1, <1>2 DEF NamesTypes
<1>4. IsFiniteSet(Chosen(l, e))
  BY <1>1, <1>2, FS_EmptySet DEF NamesTypes
<1>5. ~Names!is_unusable_value(Chosen(l, e)) <=> \E d : Chosen(l, e) = {d}
  BY <1>4, UsableIsOne
<1>6. ASSUME NEW d, Chosen(l, e) = {d}
      PROVE  Told(l, e) = Names!merge(lookups[l][e], d)
  <2>1. (CHOOSE x \in Chosen(l, e) : TRUE) = d
    BY <1>6
  <2>. QED BY <1>5, <1>6, <2>1 DEF Told, Passed
<1>7. (~\E d : Chosen(l, e) = {d}) => Told(l, e) = lookups[l][e]
  BY <1>5 DEF Told, Passed
<1>. QED BY <1>3, <1>4, <1>6, <1>7

LEMMA Telling ==
  ASSUME NamesTypes, NEW l \in Names!Env, NEW e \in Names!Env
  PROVE  Told(l, e) \in SUBSET Definition /\ IsFiniteSet(Told(l, e))
<1>1. lookups[l][e] \in SUBSET Definition /\ IsFiniteSet(lookups[l][e])
  BY DEF NamesTypes
<1>2. CASE \E d : Chosen(l, e) = {d}
  <2>1. PICK d : Chosen(l, e) = {d}
    BY <1>2
  <2>2. d \in Definition /\ Told(l, e) = Names!merge(lookups[l][e], d)
    BY <2>1, Choosing
  <2>. QED BY <1>1, <2>2, Merging
<1>3. CASE ~\E d : Chosen(l, e) = {d}
  BY <1>1, <1>3, Choosing
<1>. QED BY <1>2, <1>3

LEMMA NamesInit ==
  ASSUME Names!Init
  PROVE  NamesInv
<1>1. /\ cells = [e \in Names!Env |-> {}] /\ cached = {} /\ growing = TRUE
      /\ lookups = [l \in Names!Env |-> [e \in Names!Env |-> {}]]
      /\ stamp = [s \in Source |-> 0] /\ made = 0
  BY DEF Names!Init
<1>2. NamesTypes
  BY <1>1, FS_EmptySet DEF NamesTypes
<1>3. Covered /\ Settled
  BY <1>1 DEF Covered, Settled
<1>4. Growth
  BY <1>1 DEF Growth, Single
<1>. QED BY <1>2, <1>3, <1>4 DEF NamesInv

-----------------------------------------------------------------------------
\* A definition in an environment.
LEMMA NamesDefine ==
  ASSUME NamesInv, NEW e \in Names!Env, NEW s \in Source, NEW t \in 0..MaxDefinitions,
         Names!define(e, s, t)
  PROVE  NamesInv'
<1>. DEFINE d == [by |-> s, at |-> t, is |-> made']
            new == Names!merge(cells[e], d)
<1>. USE DEF NamesInv
<1>1. /\ made' = made + 1 /\ t \in {stamp[s], stamp[s] + 1} /\ stamp' = [stamp EXCEPT ![s] = t]
      /\ growing' = (growing /\ t > stamp[s] /\ \A u \in Source \ {s} : stamp[u] = 0)
      /\ cells' = [cells EXCEPT ![e] = new]
      /\ lookupDue' = IF cells' = cells THEN lookupDue
                      ELSE lookupDue \cup {<<l, e>> : l \in {x \in cached : x <= e}}
      /\ lookups' = lookups /\ cached' = cached
  BY DEF Names!define
<1>2. d \in Definition /\ stamp[s] \in Nat /\ t \in Nat
  BY <1>1 DEF NamesTypes, Definition
<1>3. cells[e] \in SUBSET Definition /\ IsFiniteSet(cells[e])
  BY DEF NamesTypes
<1>4. /\ new \in SUBSET Definition /\ IsFiniteSet(new)
      /\ \A x \in cells[e] : \E y \in new : Older(x, y)
  BY <1>2, <1>3, Merging
<1>. HIDE DEF d, new
<1>5. cells'[e] = new /\ \A f \in Names!Env : f # e => cells'[f] = cells[f]
  BY <1>1 DEF NamesTypes
<1>6. NamesTypes'
  <2>1. \A f \in Names!Env : IsFiniteSet(cells'[f])
    BY <1>4, <1>5 DEF NamesTypes
  <2>. QED BY <1>1, <1>2, <1>4, <2>1 DEF NamesTypes
<1>7. Covered'
  <2>. SUFFICES ASSUME NEW l \in Names!Env, NEW g \in Names!Env, NEW r \in lookups[l][g]
                PROVE  \E f \in Names!Env : f >= g /\ \E y \in cells'[f] : Older(r, y)
    BY <1>1 DEF Covered
  <2>1. PICK f \in Names!Env : f >= g /\ \E y \in cells[f] : Older(r, y)
    BY DEF Covered
  <2>2. PICK y \in cells[f] : Older(r, y)
    BY <2>1
  <2>3. CASE f = e
    <3>1. PICK z \in new : Older(y, z)
      BY <1>4, <2>2, <2>3
    <3>2. r \in Definition /\ y \in Definition /\ z \in Definition
      BY <1>4 DEF NamesTypes
    <3>3. Older(r, z)
      BY <2>2, <3>1, <3>2, OlderIsTransitive
    <3>. QED BY <1>5, <2>1, <2>3, <3>3
  <2>4. CASE f # e
    BY <1>5, <2>1, <2>4
  <2>. QED BY <2>3, <2>4
<1>8. \A l, f \in Names!Env : f # e => Told(l, f)' = Told(l, f) /\ Chosen(l, f)' = Chosen(l, f)
  BY <1>1, <1>5 DEF Told, Chosen, Names!Parent
<1>9. Settled'
  <2>. SUFFICES ASSUME NEW l \in cached, NEW f \in Names!Env, l <= f, <<l, f>> \notin lookupDue'
                PROVE  Told(l, f)' = lookups[l][f]
    BY <1>1 DEF Settled
  <2>1. <<l, f>> \notin lookupDue /\ l \in Names!Env
    BY <1>1 DEF NamesTypes
  <2>2. CASE cells' = cells
    BY <1>1, <2>1, <2>2 DEF Settled, Told, Chosen, Names!Parent
  <2>3. CASE cells' # cells
    <3>1. f # e
      BY <1>1, <2>3
    <3>. QED BY <1>8, <2>1, <3>1 DEF Settled
  <2>. QED BY <2>2, <2>3
<1>10. Growth'
  <2>. SUFFICES ASSUME growing'
                PROVE  /\ \A f \in Names!Env : /\ Single(cells'[f])
                                               /\ \A x \in cells'[f] : 0 < x.at /\ x.at <= stamp'[x.by]
                       /\ \A l, f \in Names!Env :
                            /\ Single(lookups'[l][f])
                            /\ \A r \in lookups'[l][f] : \E x \in Chosen(l, f)' : Older(r, x)
    BY DEF Growth
  <2>1. growing /\ t > stamp[s] /\ \A u \in Source \ {s} : stamp[u] = 0
    BY <1>1
  <2>2. ASSUME NEW f \in Names!Env, NEW x \in cells[f]
        PROVE  x.by = s /\ x.at < t /\ x.at > 0 /\ x \in Definition
    <3>1. x \in Definition /\ 0 < x.at /\ x.at <= stamp[x.by]
      BY <2>1 DEF Growth, NamesTypes
    <3>2. x.by \in Source /\ x.at \in Nat
      BY <3>1 DEF Definition
    <3>3. x.by = s
      BY <2>1, <3>1, <3>2
    <3>. QED BY <1>2, <2>1, <3>1, <3>2, <3>3
  <2>3. d.by = s /\ d.at = t
    BY DEF d
  <2>4. new = {d}
    <3>1. \A x \in cells[e] : Older(x, d)
      BY <2>2, <2>3 DEF Older
    <3>. QED BY <1>2, <1>3, <3>1, Superseding DEF new
  <2>5. ASSUME NEW f \in Names!Env
        PROVE  Single(cells'[f]) /\ \A x \in cells'[f] : 0 < x.at /\ x.at <= stamp'[x.by]
    <3>1. stamp'[s] = t
      BY <1>1 DEF NamesTypes
    <3>2. CASE f = e
      BY <1>2, <1>5, <2>1, <2>3, <2>4, <3>1, <3>2 DEF Single
    <3>3. CASE f # e
      <4>1. cells'[f] = cells[f] /\ Single(cells[f])
        BY <1>5, <2>1, <3>3 DEF Growth
      <4>2. \A x \in cells[f] : 0 < x.at /\ x.at <= stamp'[x.by]
        BY <1>2, <2>2, <3>1 DEF Definition
      <4>. QED BY <4>1, <4>2
    <3>. QED BY <3>2, <3>3
  <2>6. ASSUME NEW l \in Names!Env, NEW f \in Names!Env
        PROVE  Single(lookups'[l][f]) /\ \A r \in lookups'[l][f] : \E x \in Chosen(l, f)' : Older(r, x)
    <3>1. lookups'[l][f] = lookups[l][f] /\ Single(lookups[l][f])
      BY <1>1, <2>1 DEF Growth
    <3>2. CASE f # e
      BY <1>8, <2>1, <3>1, <3>2 DEF Growth
    <3>3. CASE f = e
      <4>1. Chosen(l, f)' = {d}
        <5>1. IsFiniteSet({d}) /\ cells'[e] = {d}
          BY <1>4, <1>5, <2>4
        <5>2. ~Names!is_unusable_value({d})
          BY <5>1, UsableIsOne
        <5>. QED BY <3>3, <5>1, <5>2 DEF Chosen, Names!select_cell_has_value
      <4>2. ASSUME NEW r \in lookups[l][f]
            PROVE  Older(r, d)
        <5>1. PICK g \in Names!Env : \E x \in cells[g] : Older(r, x)
          BY DEF Covered
        <5>2. PICK x \in cells[g] : Older(r, x)
          BY <5>1
        <5>3. x.by = s /\ x.at < t /\ x \in Definition /\ r \in Definition
          BY <2>2 DEF NamesTypes
        <5>4. Older(x, d)
          BY <2>3, <5>3 DEF Older
        <5>. QED BY <1>2, <5>2, <5>3, <5>4, OlderIsTransitive
      <4>. QED BY <3>1, <4>1, <4>2
    <3>. QED BY <3>2, <3>3
  <2>. QED BY <2>5, <2>6
<1>. QED BY <1>6, <1>7, <1>9, <1>10

\* A symbol is looked up for the first time.
LEMMA NamesLookup ==
  ASSUME NamesInv, NEW l \in Names!Env, Names!ce_lexical_lookup(l)
  PROVE  NamesInv'
<1>. USE DEF NamesInv
<1>1. /\ cached' = cached \cup {l} /\ lookupDue' = lookupDue \cup {<<l, e>> : e \in l..Depth}
      /\ UNCHANGED <<cells, lookups, stamp, made, growing>>
  BY DEF Names!ce_lexical_lookup
<1>2. NamesTypes' /\ Covered' /\ Growth'
  BY <1>1 DEF NamesTypes, Covered, Growth, Chosen, Names!Parent
<1>3. Settled'
  <2>. SUFFICES ASSUME NEW m \in cached', NEW e \in Names!Env, m <= e, <<m, e>> \notin lookupDue'
                PROVE  Told(m, e) = lookups[m][e]
    BY <1>1 DEF Settled, Told, Chosen, Names!Parent
  <2>1. m # l
    BY <1>1, NamesAssumption DEF Names!Env
  <2>. QED BY <1>1, <2>1 DEF Settled
<1>. QED BY <1>2, <1>3

\* A level of a lookup is told what its own cell or the level above means.
LEMMA NamesTell ==
  ASSUME NamesInv, NEW l \in Names!Env, NEW e \in Names!Env, Names!p_pioritize_leftmost(l, e)
  PROVE  NamesInv'
<1>. USE DEF NamesInv
<1>. DEFINE after == Told(l, e)
<1>1. /\ lookups' = [lookups EXCEPT ![l][e] = after]
      /\ lookupDue' = (lookupDue \ {<<l, e>>})
                        \cup (IF after # lookups[l][e] /\ e > l THEN {<<l, e - 1>>} ELSE {})
      /\ UNCHANGED <<cells, cached, stamp, made, growing>>
  BY DEF Names!p_pioritize_leftmost, Told, Chosen, Passed
<1>2. /\ after \in SUBSET Definition /\ IsFiniteSet(after)
      /\ lookups[l][e] \in SUBSET Definition /\ IsFiniteSet(lookups[l][e])
      /\ cells[e] \in SUBSET Definition
  BY Telling DEF NamesTypes
<1>3. \/ after = lookups[l][e]
      \/ \E d \in Definition : Chosen(l, e) = {d} /\ after = Names!merge(lookups[l][e], d)
  BY Choosing
<1>. HIDE DEF after
<1>4. /\ lookups'[l][e] = after
      /\ \A m, f \in Names!Env : m # l \/ f # e => lookups'[m][f] = lookups[m][f]
  BY <1>1 DEF NamesTypes
<1>5. NamesTypes'
  <2>1. lookups' \in [Names!Env -> [Names!Env -> SUBSET Definition]]
    BY <1>1, <1>2 DEF NamesTypes
  <2>2. \A m, f \in Names!Env : IsFiniteSet(lookups'[m][f])
    BY <1>2, <1>4 DEF NamesTypes
  <2>. QED BY <1>1, <2>1, <2>2 DEF NamesTypes
<1>6. Covered'
  <2>1. ASSUME NEW r \in after
        PROVE  \E f \in Names!Env : f >= e /\ \E d \in cells[f] : Older(r, d)
    <3>1. CASE r \in lookups[l][e]
      BY <3>1 DEF Covered
    <3>2. CASE r \notin lookups[l][e]
      <4>1. r \in Chosen(l, e)
        BY <1>2, <1>3, <3>2, Merging
      <4>2. CASE r \in cells[e]
        BY <4>2 DEF Older, Names!Env
      <4>3. CASE r \notin cells[e]
        <5>1. e + 1 \in Names!Env /\ r \in lookups[l][e + 1]
          BY <4>1, <4>3, Choosing
        <5>2. PICK f \in Names!Env : f >= e + 1 /\ \E d \in cells[f] : Older(r, d)
          BY <5>1 DEF Covered
        <5>. QED BY <5>2 DEF Names!Env
      <4>. QED BY <4>2, <4>3
    <3>. QED BY <3>1, <3>2
  <2>2. ASSUME NEW m \in Names!Env, NEW g \in Names!Env, NEW r \in lookups'[m][g]
        PROVE  \E f \in Names!Env : f >= g /\ \E d \in cells[f] : Older(r, d)
    <3>1. CASE m = l /\ g = e
      BY <1>4, <2>1, <2>2, <3>1
    <3>2. CASE m # l \/ g # e
      BY <1>4, <2>2, <3>2 DEF Covered
    <3>. QED BY <3>1, <3>2
  <2>. QED BY <1>1, <2>2 DEF Covered
<1>7. \A m, f \in Names!Env : m # l \/ f # e - 1 => Chosen(m, f)' = Chosen(m, f)
  BY <1>1, <1>4, NamesAssumption DEF Chosen, Names!Parent, Names!Env
<1>8. Settled'
  <2>. SUFFICES ASSUME NEW m \in cached, NEW f \in Names!Env, m <= f, <<m, f>> \notin lookupDue'
                PROVE  Told(m, f)' = lookups'[m][f]
    BY <1>1 DEF Settled
  <2>0. m \in Names!Env /\ e - 1 # e
    BY DEF NamesTypes, Names!Env
  <2>1. CASE m = l /\ f = e
    <3>1. Chosen(l, e)' = Chosen(l, e)
      BY <1>7, <2>0 
    <3>2. Told(l, e)' = Passed(Chosen(l, e), after)
      BY <1>4, <3>1 DEF Told
    <3>3. CASE Names!is_unusable_value(Chosen(l, e))
      BY <1>4, <2>1, <3>2, <3>3 DEF Passed
    <3>4. CASE ~Names!is_unusable_value(Chosen(l, e))
      <4>1. IsFiniteSet(Chosen(l, e)) /\ Chosen(l, e) \in SUBSET Definition
        BY Choosing
      <4>2. PICK d : Chosen(l, e) = {d}
        BY <3>4, <4>1, UsableIsOne
      <4>3. d \in Definition /\ (CHOOSE x \in Chosen(l, e) : TRUE) = d
        BY <4>1, <4>2
      <4>4. after = Names!merge(lookups[l][e], d)
        BY <4>2, Choosing DEF after
      <4>5. Names!merge(after, d) = after
        BY <1>2, <4>3, <4>4, Merging
      <4>. QED BY <1>4, <2>1, <3>2, <3>4, <4>3, <4>5 DEF Passed
    <3>. QED BY <3>3, <3>4
  <2>2. CASE m = l /\ f = e - 1
    <3>1. e > l /\ after = lookups[l][e]
      BY <1>1, <2>2 DEF Names!Env
    <3>2. lookups' = lookups /\ <<m, f>> \notin lookupDue
      <4>1. lookups' = lookups
        BY <1>1, <3>1 DEF NamesTypes
      <4>. QED BY <1>1, <2>0, <2>2, <4>1
    <3>3. Told(m, f)' = Told(m, f)
      BY <1>1, <3>2 DEF Told, Chosen, Names!Parent
    <3>. QED BY <3>2, <3>3 DEF Settled
  <2>3. CASE m # l \/ (f # e /\ f # e - 1)
    <3>1. Told(m, f)' = Told(m, f) /\ lookups'[m][f] = lookups[m][f]
      BY <1>4, <1>7, <2>0, <2>3 DEF Told
    <3>2. <<m, f>> \notin lookupDue
      BY <1>1, <2>3
    <3>. QED BY <3>1, <3>2 DEF Settled
  <2>. QED BY <2>1, <2>2, <2>3
<1>9. Growth'
  <2>. SUFFICES ASSUME growing
                PROVE  \A m, f \in Names!Env :
                         /\ Single(lookups'[m][f])
                         /\ \A r \in lookups'[m][f] : \E d \in Chosen(m, f)' : Older(r, d)
    BY <1>1 DEF Growth
  \* The level now holds what it reads.
  <2>1. after = Chosen(l, e)
    <3>1. \A r \in lookups[l][e] : \E d \in Chosen(l, e) : Older(r, d)
      BY DEF Growth
    <3>2. Chosen(l, e) \in SUBSET Definition /\ Single(Chosen(l, e))
      <4>1. Single({})
        BY DEF Single
      <4>2. Single(cells[e]) /\ (e + 1 \in Names!Env => Single(lookups[l][e + 1]))
        BY DEF Growth
      <4>. QED BY <4>1, <4>2, Choosing
    <3>3. CASE Chosen(l, e) = {}
      <4>1. lookups[l][e] = {} /\ ~\E d : Chosen(l, e) = {d}
        BY <3>1, <3>3
      <4>. QED BY <3>3, <4>1, Choosing DEF after
    <3>4. CASE \E d : Chosen(l, e) = {d}
      <4>1. PICK d : Chosen(l, e) = {d}
        BY <3>4
      <4>2. after = Names!merge(lookups[l][e], d) /\ d \in Definition
        BY <3>2, <4>1, Choosing DEF after
      <4>3. \A r \in lookups[l][e] : Older(r, d)
        BY <3>1, <4>1
      <4>. QED BY <1>2, <4>1, <4>2, <4>3, Superseding
    <3>. QED BY <3>2, <3>3, <3>4 DEF Single
  <2>2. Single(after)
    <3>1. Single({})
      BY DEF Single
    <3>2. Single(cells[e]) /\ (e + 1 \in Names!Env => Single(lookups[l][e + 1]))
      BY DEF Growth
    <3>. QED BY <2>1, <3>1, <3>2, Choosing
  <2>. SUFFICES ASSUME NEW m \in Names!Env, NEW f \in Names!Env
                PROVE  /\ Single(lookups'[m][f])
                       /\ \A r \in lookups'[m][f] : \E d \in Chosen(m, f)' : Older(r, d)
    OBVIOUS
  <2>0. e - 1 # e
    BY DEF Names!Env
  <2>3. CASE m = l /\ f = e
    BY <1>4, <1>7, <2>0, <2>1, <2>2, <2>3 DEF Older
  <2>4. CASE m = l /\ f = e - 1
    <3>0. f + 1 = e /\ f # Depth /\ lookups'[m][f] = lookups[m][f]
      BY <1>4, <2>0, <2>4, NamesAssumption DEF Names!Env
    <3>1. Single(lookups[m][f]) /\ \A r \in lookups[m][f] : \E d \in Chosen(m, f) : Older(r, d)
      BY DEF Growth
    <3>2. ASSUME NEW r \in lookups[m][f]
          PROVE  \E d \in Chosen(m, f)' : Older(r, d)
      <4>1. PICK c \in Chosen(m, f) : Older(r, c)
        BY <3>1
      <4>2. CASE Names!is_unusable_value(cells[f])
        <5>1. Chosen(m, f) = lookups[l][e] /\ Chosen(m, f)' = after
          BY <1>1, <1>4, <2>4, <3>0, <4>2 DEF Chosen, Names!select_cell_has_value, Names!Parent
        <5>2. PICK d \in Chosen(l, e) : Older(c, d)
          BY <4>1, <5>1 DEF Growth
        <5>3. r \in Definition /\ c \in Definition /\ d \in Definition
          BY <1>2, <2>1, <4>1, <5>1 DEF NamesTypes
        <5>4. Older(r, d)
          BY <4>1, <5>2, <5>3, OlderIsTransitive
        <5>. QED BY <2>1, <5>1, <5>2, <5>4
      <4>3. CASE ~Names!is_unusable_value(cells[f])
        <5>1. Chosen(m, f)' = Chosen(m, f)
          BY <1>1, <4>3 DEF Chosen, Names!select_cell_has_value
        <5>. QED BY <4>1, <5>1
      <4>. QED BY <4>2, <4>3
    <3>. QED BY <3>0, <3>1, <3>2
  <2>5. CASE m # l \/ (f # e /\ f # e - 1)
    BY <1>4, <1>7, <2>5 DEF Growth
  <2>. QED BY <2>3, <2>4, <2>5
<1>. QED BY <1>5, <1>6, <1>8, <1>9

LEMMA NamesStep ==
  ASSUME NamesInv, [Next]_Vars
  PROVE  NamesInv'
<1>1. Names!Next \/ UNCHANGED namesVars
  BY DEF Next, Vars
<1>2. CASE UNCHANGED namesVars
  BY <1>2 DEF namesVars, NamesInv, NamesTypes, Covered, Settled, Growth, Told, Chosen, Names!Parent
<1>3. CASE Names!Next
  BY <1>3, NamesDefine, NamesLookup, NamesTell DEF Names!Next
<1>. QED BY <1>1, <1>2, <1>3

\* The invariant of the lookups (define, p_pioritize_leftmost).
THEOREM NamesInvariant == Spec => []NamesInv
<1>1. Init => NamesInv
  BY NamesInit DEF Init
<1>2. NamesInv /\ [Next]_Vars => NamesInv'
  BY NamesStep
<1>. QED BY <1>1, <1>2, PTL DEF Spec

-----------------------------------------------------------------------------
\* A set of environments has an outermost one.
LEMMA Outermost ==
  ASSUME NEW S \in SUBSET Names!Env, S # {}
  PROVE  \E e \in S : \A f \in S : f <= e
<1>. DEFINE T == {Depth - e : e \in S}
<1>1. T \in SUBSET Nat /\ T # {}
  <2>1. \A e \in S : Depth - e \in Nat
    BY NamesAssumption DEF Names!Env
  <2>2. T # {}
    OBVIOUS
  <2>. QED BY <2>1, <2>2
<1>2. PICK x \in T : \A y \in T : <<y, x>> \notin OpToRel(<, Nat)
  <2>. HIDE DEF T
  <2>. QED BY <1>1, NatLessThanWellFounded, WFMin, Zenon
<1>3. \A y \in T : x <= y
  <2>. SUFFICES ASSUME NEW y \in T PROVE x <= y
    OBVIOUS
  <2>1. x \in Nat /\ y \in Nat
    BY <1>1
  <2>2. ~(y < x)
    BY <1>2, <2>1 DEF OpToRel
  <2>. QED BY <2>1, <2>2
<1>4. PICK e \in S : x = Depth - e
  BY <1>2
<1>5. \A f \in S : Depth - e <= Depth - f
  BY <1>3, <1>4
<1>. QED BY <1>4, <1>5, NamesAssumption DEF Names!Env

\* Means, from one environment to the next.
LEMMA MeansOutward ==
  ASSUME NEW e \in Names!Env
  PROVE  Names!Means(e) = IF cells[e] # {} THEN cells[e]
                          ELSE IF e = Depth THEN {} ELSE Names!Means(e + 1)
<1>. DEFINE Binding(f) == {g \in f..Depth : cells[g] # {}}
<1>1. CASE cells[e] # {}
  <2>1. e \in Binding(e) /\ \A f \in Binding(e) : e <= f
    BY <1>1, NamesAssumption DEF Names!Env
  <2>2. \A x \in Binding(e) : (\A f \in Binding(e) : x <= f) => x = e
    BY <2>1, NamesAssumption DEF Names!Env
  <2>. HIDE DEF Binding
  <2>3. (CHOOSE x \in Binding(e) : \A f \in Binding(e) : x <= f) = e
    BY <2>1, <2>2
  <2>4. Names!Means(e) = IF Binding(e) = {} THEN {}
                         ELSE cells[CHOOSE x \in Binding(e) : \A f \in Binding(e) : x <= f]
    BY DEF Names!Means, Binding
  <2>. QED BY <1>1, <2>1, <2>3, <2>4
<1>2. CASE cells[e] = {} /\ e = Depth
  <2>1. Binding(e) = {}
    BY <1>2, NamesAssumption DEF Names!Env
  <2>. QED BY <1>2, <2>1 DEF Names!Means
<1>3. CASE cells[e] = {} /\ e # Depth
  <2>1. Binding(e) = Binding(e + 1)
    BY <1>3, NamesAssumption DEF Names!Env
  <2>2. Names!Means(e) = IF Binding(e) = {} THEN {}
                         ELSE cells[CHOOSE x \in Binding(e) : \A f \in Binding(e) : x <= f]
    BY DEF Names!Means
  <2>3. Names!Means(e + 1) = IF Binding(e + 1) = {} THEN {}
                             ELSE cells[CHOOSE x \in Binding(e + 1) : \A f \in Binding(e + 1) : x <= f]
    BY DEF Names!Means
  <2>. HIDE DEF Binding
  <2>. QED BY <1>3, <2>1, <2>2, <2>3
<1>. QED BY <1>1, <1>2, <1>3

\* A level that has been told of one definition, and holds nothing that is not
\* older, holds that.
LEMMA Holding ==
  ASSUME NamesInv, NEW l \in cached, NEW e \in Names!Env, l <= e, <<l, e>> \notin lookupDue,
         NEW d \in Definition, Chosen(l, e) = {d}, \A r \in lookups[l][e] : Older(r, d)
  PROVE  lookups[l][e] = {d}
<1>1. l \in Names!Env /\ lookups[l][e] \in SUBSET Definition /\ NamesTypes
  BY DEF NamesInv, NamesTypes
<1>2. Told(l, e) = lookups[l][e]
  BY DEF NamesInv, Settled
<1>3. Told(l, e) = Names!merge(lookups[l][e], d)
  BY <1>1, Choosing
<1>. QED BY <1>1, <1>2, <1>3, Superseding

\* One source, growing timestamps.
LEMMA GrowingNames ==
  ASSUME NamesInv, growing, NEW l \in cached, \A e \in Names!Env : <<l, e>> \notin lookupDue
  PROVE  lookups[l][l] = Names!Means(l)
<1>. USE DEF NamesInv
<1>1. l \in Names!Env
  BY DEF NamesTypes
<1>2. ASSUME NEW e \in Names!Env, l <= e
      PROVE  lookups[l][e] = Chosen(l, e)
  <2>1. /\ Chosen(l, e) \in SUBSET Definition /\ Single(Chosen(l, e))
        /\ \A r \in lookups[l][e] : \E d \in Chosen(l, e) : Older(r, d)
    <3>1. Single({})
      BY DEF Single
    <3>2. Single(cells[e]) /\ (e + 1 \in Names!Env => Single(lookups[l][e + 1]))
      BY <1>1 DEF Growth
    <3>3. \A r \in lookups[l][e] : \E d \in Chosen(l, e) : Older(r, d)
      BY <1>1 DEF Growth
    <3>. QED BY <1>1, <3>1, <3>2, <3>3, Choosing
  <2>2. CASE Chosen(l, e) = {}
    BY <2>1, <2>2
  <2>3. CASE \E d : Chosen(l, e) = {d}
    <3>1. PICK d : Chosen(l, e) = {d}
      BY <2>3
    <3>2. d \in Definition /\ \A r \in lookups[l][e] : Older(r, d)
      BY <2>1, <3>1
    <3>. QED BY <1>2, <3>1, <3>2, Holding
  <2>. QED BY <2>1, <2>2, <2>3 DEF Single
<1>3. ASSUME NEW e \in Names!Env
      PROVE  Chosen(l, e) = IF cells[e] # {} THEN cells[e]
                            ELSE IF e = Depth THEN {} ELSE lookups[l][e + 1]
  <2>1. IsFiniteSet(cells[e]) /\ Single(cells[e])
    BY DEF NamesTypes, Growth
  <2>2. Names!is_unusable_value(cells[e]) <=> cells[e] = {}
    BY <2>1, UsableIsOne DEF Single
  <2>. QED BY <2>2 DEF Chosen, Names!select_cell_has_value, Names!Parent
<1>. DEFINE Wrong == {e \in Names!Env : l <= e /\ lookups[l][e] # Names!Means(e)}
<1>4. CASE Wrong # {}
  <2>1. PICK e \in Wrong : \A f \in Wrong : f <= e
    BY <1>4, Outermost
  <2>2. e \in Names!Env /\ l <= e /\ lookups[l][e] = Chosen(l, e)
    BY <1>2, <2>1
  <2>3. CASE cells[e] = {} /\ e # Depth
    <3>1. e + 1 \in Names!Env /\ l <= e + 1 /\ e + 1 \notin Wrong
      BY <1>1, <2>1, <2>2, <2>3, NamesAssumption DEF Names!Env
    <3>2. lookups[l][e + 1] = Names!Means(e + 1)
      BY <3>1
    <3>. QED BY <1>3, <2>1, <2>2, <2>3, <3>2, MeansOutward
  <2>4. CASE ~(cells[e] = {} /\ e # Depth)
    BY <1>3, <2>1, <2>2, <2>4, MeansOutward
  <2>. QED BY <2>3, <2>4
<1>. QED BY <1>1, <1>4 DEF Names!Env

\* One environment, whoever defines.
LEMMA OneEnvironment ==
  ASSUME NamesInv, NEW l \in cached, \A e \in Names!Env : <<l, e>> \notin lookupDue,
         Names!Cardinality({e \in l..Depth : cells[e] # {}}) = 1,
         ~Names!is_unusable_value(Names!Means(l))
  PROVE  lookups[l][l] = Names!Means(l)
<1>. USE DEF NamesInv
<1>. DEFINE Binding == {e \in l..Depth : cells[e] # {}}
<1>1. l \in Names!Env /\ l \in Int /\ Depth \in Int
  BY NamesAssumption DEF NamesTypes, Names!Env
<1>2. PICK b : Binding = {b}
  <2>1. IsFiniteSet(l..Depth) /\ Binding \subseteq l..Depth
    BY <1>1, FS_Interval
  <2>2. IsFiniteSet(Binding)
    BY <2>1, FS_Subset
  <2>3. Cardinality(Binding) = 1
    BY SameCardinality
  <2>4. \A T : IsFiniteSet(T) => (Cardinality(T) = 1 <=> \E x : T = {x})
    BY FS_Singleton, Zenon
  <2>. HIDE DEF Binding
  <2>. QED BY <2>2, <2>3, <2>4, Zenon
<1>3. b \in Names!Env /\ l <= b /\ cells[b] # {}
  BY <1>1, <1>2 DEF Names!Env
<1>4. \A e \in Names!Env : l <= e /\ cells[e] # {} => e = b
  BY <1>1, <1>2 DEF Names!Env
<1>5. Names!Means(l) = cells[b]
  <2>1. (CHOOSE e \in Binding : \A f \in Binding : e <= f) = b
    BY <1>2, <1>3 DEF Names!Env
  <2>. QED BY <1>2, <2>1 DEF Names!Means
<1>6. PICK d \in Definition : cells[b] = {d}
  <2>1. IsFiniteSet(cells[b]) /\ cells[b] \in SUBSET Definition
    BY <1>3 DEF NamesTypes
  <2>. QED BY <1>5, <2>1, UsableIsOne
<1>7. ASSUME NEW e \in Names!Env, l <= e, NEW r \in lookups[l][e]
      PROVE  e <= b /\ Older(r, d)
  <2>1. PICK f \in Names!Env : f >= e /\ \E x \in cells[f] : Older(r, x)
    BY <1>1 DEF Covered
  <2>2. f = b
    BY <1>1, <1>4, <1>7, <2>1 DEF Names!Env
  <2>. QED BY <1>6, <2>1, <2>2 DEF Names!Env
<1>. HIDE DEF Binding
<1>. DEFINE Wrong == {e \in Names!Env : l <= e /\ e <= b /\ lookups[l][e] # {d}}
<1>8. CASE Wrong # {}
  <2>1. PICK e \in Wrong : \A f \in Wrong : f <= e
    BY <1>8, Outermost
  <2>2. Chosen(l, e) = {d}
    <3>1. CASE e = b
      <4>1. ~Names!is_unusable_value(cells[e])
        BY <1>5, <3>1
      <4>. QED BY <1>6, <3>1, <4>1 DEF Chosen, Names!select_cell_has_value
    <3>2. CASE e # b
      <4>1. cells[e] = {} /\ e # Depth /\ e + 1 \in Names!Env /\ l <= e + 1 /\ e + 1 <= b
        BY <1>1, <1>3, <1>4, <2>1, <3>2, NamesAssumption DEF Names!Env
      <4>2. e + 1 \notin Wrong
        BY <2>1 DEF Names!Env
      <4>3. lookups[l][e + 1] = {d}
        BY <4>1, <4>2
      <4>4. Names!is_unusable_value(cells[e])
        BY <4>1, UsableIsOne, FS_EmptySet
      <4>. QED BY <4>1, <4>3, <4>4 DEF Chosen, Names!select_cell_has_value, Names!Parent
    <3>. QED BY <3>1, <3>2
  <2>3. \A r \in lookups[l][e] : Older(r, d)
    BY <1>7, <2>1
  <2>4. e \in Names!Env /\ l <= e /\ lookups[l][e] # {d} /\ <<l, e>> \notin lookupDue
    BY <2>1
  <2>. QED BY <2>2, <2>3, <2>4, Holding
<1>. QED BY <1>1, <1>3, <1>5, <1>6, <1>8 DEF Names!Env

\* A name means what its scope says, looked up before or after it was defined,
\* shadowed or redefined, at every depth of environments (ce_cached_lexical_lookup,
\* p_pioritize_leftmost).
THEOREM ScopesAreLexical == Spec => []NamesMeanTheirScope
<1>1. NamesInv => NamesMeanTheirScope
  BY GrowingNames, OneEnvironment DEF NamesMeanTheirScope, Names!NamesMeanTheirScope
<1>. QED BY <1>1, NamesInvariant, PTL

-----------------------------------------------------------------------------
(* Vector clocks and the data that carry them.                             *)

\* A cell's Without is the one of Helpers.
LEMMA SameWithout == \A seq, set : Latest!Without(seq, set) = Without(seq, set)
BY DEF Latest!Without, Without

Clock == UNION {[D -> Nat] : D \in SUBSET Writer}
Data  == [base : Nat \ {0}, at : Nat, clock : Clock]

LEMMA ClockIs ==
  ASSUME NEW v
  PROVE  v \in Clock <=> /\ v = [s \in DOMAIN v |-> v[s]] /\ DOMAIN v \subseteq Writer
                         /\ \A s \in DOMAIN v : v[s] \in Nat
<1>1. ASSUME v \in Clock PROVE v = [s \in DOMAIN v |-> v[s]] /\ DOMAIN v \subseteq Writer /\ \A s \in DOMAIN v : v[s] \in Nat
  <2>1. PICK D \in SUBSET Writer : v \in [D -> Nat]
    BY <1>1 DEF Clock
  <2>. QED BY <2>1
<1>2. ASSUME v = [s \in DOMAIN v |-> v[s]], DOMAIN v \subseteq Writer, \A s \in DOMAIN v : v[s] \in Nat PROVE v \in Clock
  <2>1. v \in [DOMAIN v -> Nat]
    BY <1>2
  <2>. QED BY <1>2, <2>1 DEF Clock
<1>. QED BY <1>1, <1>2

\* Of two clocks the newer of each channel.
Merges(m, v, u) ==
  /\ m \in Clock /\ DOMAIN m = DOMAIN v \cup DOMAIN u
  /\ \A s \in DOMAIN v : v[s] <= m[s]
  /\ \A s \in DOMAIN u : u[s] <= m[s]
  /\ \A s \in DOMAIN m : (s \in DOMAIN v /\ m[s] = v[s]) \/ (s \in DOMAIN u /\ m[s] = u[s])

LEMMA MergedClock ==
  ASSUME NEW v \in Clock, NEW u \in Clock
  PROVE  Merges(Latest!merge_vector_clocks(v, u), v, u)
<1>. DEFINE m == Latest!merge_vector_clocks(v, u)
<1>1. /\ DOMAIN v \subseteq Writer /\ \A s \in DOMAIN v : v[s] \in Nat
      /\ DOMAIN u \subseteq Writer /\ \A s \in DOMAIN u : u[s] \in Nat
  BY ClockIs
<1>2. /\ m = [s \in DOMAIN m |-> m[s]] /\ DOMAIN m = DOMAIN v \cup DOMAIN u
      /\ \A s \in DOMAIN v \cup DOMAIN u :
           m[s] = IF s \notin DOMAIN u \/ (s \in DOMAIN v /\ v[s] >= u[s]) THEN v[s] ELSE u[s]
  BY DEF Latest!merge_vector_clocks
<1>. HIDE DEF m
<1>3. \A s \in DOMAIN m : (s \in DOMAIN v /\ m[s] = v[s]) \/ (s \in DOMAIN u /\ m[s] = u[s])
  BY <1>2
<1>4. (\A s \in DOMAIN v : v[s] <= m[s]) /\ (\A s \in DOMAIN u : u[s] <= m[s])
  BY <1>1, <1>2
<1>5. m \in Clock
  BY <1>1, <1>2, <1>3, ClockIs
<1>. QED BY <1>2, <1>3, <1>4, <1>5 DEF Merges, m

\* d is the latest of some data, and its clock the newest of each of their channels.
Sums(d, them) ==
  /\ d \in Data
  /\ \E e \in them : d.base = e.base /\ d.at = e.at /\ \A f \in them : f.at <= e.at
  /\ DOMAIN d.clock = UNION {DOMAIN e.clock : e \in them}
  /\ \A e \in them : \A s \in DOMAIN e.clock : e.clock[s] <= d.clock[s]
  /\ \A s \in DOMAIN d.clock : \E e \in them : s \in DOMAIN e.clock /\ d.clock[s] = e.clock[s]

LEMMA SumsOne ==
  ASSUME NEW d \in Data PROVE Sums(d, {d})
<1>1. \A s \in DOMAIN d.clock : d.clock[s] \in Nat
  BY ClockIs DEF Data
<1>2. d.at <= d.at
  BY DEF Data
<1>. QED BY <1>1, <1>2 DEF Sums

LEMMA SumsMore ==
  ASSUME NEW them \in SUBSET Data, NEW a, Sums(a, them), NEW v \in Data, \A e \in them : e.at # v.at
  PROVE  Sums(Latest!stronger(a, v), them \cup {v})
<1>. DEFINE d == Latest!stronger(a, v)
            m == d.clock
<1>1. /\ a \in Data /\ a.clock \in Clock /\ v.clock \in Clock /\ a.at \in Nat /\ v.at \in Nat
      /\ a.base \in Nat \ {0} /\ v.base \in Nat \ {0}
  BY DEF Sums, Data
<1>2. ~Latest!IsContradiction(a)
  BY <1>1, LatestAssumption DEF Latest!IsContradiction
<1>3. PICK e \in them : a.base = e.base /\ a.at = e.at /\ \A f \in them : f.at <= e.at
  BY DEF Sums
<1>4. a.at # v.at
  BY <1>3
<1>5. \/ v.at > a.at /\ d = [v EXCEPT !.clock = Latest!merge_vector_clocks(v.clock, a.clock)]
      \/ v.at < a.at /\ d = [a EXCEPT !.clock = Latest!merge_vector_clocks(a.clock, v.clock)]
  BY <1>1, <1>2, <1>4 DEF Latest!stronger, Latest!merge_vector_clock_from
<1>6. /\ v.at > a.at => d.base = v.base /\ d.at = v.at
      /\ v.at < a.at => d.base = a.base /\ d.at = a.at
      /\ m = Latest!merge_vector_clocks(v.clock, a.clock) \/ m = Latest!merge_vector_clocks(a.clock, v.clock)
      /\ d = [base |-> d.base, at |-> d.at, clock |-> m]
  BY <1>1, <1>5 DEF Data
<1>. HIDE DEF d
<1>. HIDE DEF m
<1>7. Merges(m, v.clock, a.clock) \/ Merges(m, a.clock, v.clock)
  <2>1. \A x, y \in Clock : Merges(Latest!merge_vector_clocks(x, y), x, y)
    BY MergedClock
  <2>. QED BY <1>1, <1>6, <2>1
<1>8. d \in Data
  <2>1. d.base \in Nat \ {0} /\ d.at \in Nat
    BY <1>1, <1>4, <1>6
  <2>. QED BY <1>6, <1>7, <2>1 DEF Data, Merges
<1>9. \E g \in them \cup {v} : d.base = g.base /\ d.at = g.at /\ \A f \in them \cup {v} : f.at <= g.at
  <2>1. \A f \in them : f.at \in Nat
    BY DEF Data
  <2>2. CASE v.at > a.at
    BY <1>1, <1>3, <1>6, <2>1, <2>2
  <2>3. CASE v.at < a.at
    BY <1>1, <1>3, <1>6, <2>1, <2>3
  <2>. QED BY <1>1, <1>4, <2>2, <2>3
<1>10. DOMAIN m = UNION {DOMAIN g.clock : g \in them \cup {v}}
  BY <1>7 DEF Sums, Merges
<1>11. ASSUME NEW g \in them \cup {v}, NEW s \in DOMAIN g.clock PROVE g.clock[s] <= m[s]
  <2>1. CASE g = v
    BY <1>7, <1>11, <2>1 DEF Merges
  <2>2. CASE g \in them
    <3>1. s \in DOMAIN a.clock /\ g.clock[s] <= a.clock[s]
      BY <1>11, <2>2 DEF Sums
    <3>2. g.clock[s] \in Nat /\ a.clock[s] \in Nat /\ m[s] \in Nat
      BY <1>1, <1>7, <1>11, <2>2, <3>1, ClockIs DEF Data, Merges
    <3>. QED BY <1>7, <3>1, <3>2 DEF Merges
  <2>. QED BY <2>1, <2>2
<1>12. ASSUME NEW s \in DOMAIN m PROVE \E g \in them \cup {v} : s \in DOMAIN g.clock /\ m[s] = g.clock[s]
  BY <1>7, <1>12 DEF Sums, Merges
<1>. QED BY <1>8, <1>9, <1>10, <1>11, <1>12 DEF Sums, d, m

\* The reduction of a sequence exists.
Reduced(k, q, n) ==
  k = [i \in 1..n |-> IF i = 1 THEN q[1] ELSE Latest!stronger(k[i - 1], q[i])]

LEMMA ReducedExists ==
  ASSUME NEW q, NEW n \in Nat
  PROVE  \E k : Reduced(k, q, n)
<1>. DEFINE bad == {m \in Nat : ~\E k : Reduced(k, q, m)}
<1>. SUFFICES ASSUME bad # {} PROVE FALSE
  OBVIOUS
<1>1. PICK m \in bad : \A l \in bad : m <= l
  <2>. HIDE DEF bad
  <2>1. bad \subseteq Nat
    BY DEF bad
  <2>. QED BY <2>1, LeastNumber
<1>2. m # 0
  <2>. DEFINE k == [i \in 1..0 |-> q]
  <2>1. k = [i \in 1..0 |-> IF i = 1 THEN q[1] ELSE Latest!stronger(k[i - 1], q[i])]
    OBVIOUS
  <2>2. Reduced(k, q, 0)
    BY <2>1 DEF Reduced
  <2>. QED BY <2>2
<1>3. m \in Nat /\ m - 1 \in Nat /\ m - 1 \notin bad
  <2>1. m \in Nat
    OBVIOUS
  <2>. HIDE DEF bad
  <2>. QED BY <1>1, <1>2, <2>1
<1>4. PICK k : Reduced(k, q, m - 1)
  BY <1>3
<1>. DEFINE last == IF m = 1 THEN q[1] ELSE Latest!stronger(k[m - 1], q[m])
            more == [i \in 1..m |-> IF i = m THEN last ELSE k[i]]
<1>. HIDE DEF bad
<1>5. \A i \in 1..(m - 1) : k[i] = IF i = 1 THEN q[1] ELSE Latest!stronger(k[i - 1], q[i])
  BY <1>4 DEF Reduced
<1>6. \A i \in 1..m : more[i] = IF i = 1 THEN q[1] ELSE Latest!stronger(more[i - 1], q[i])
  <2>. TAKE i \in 1..m
  <2>1. CASE i = m
    <3>1. more[i] = last
      BY <2>1
    <3>2. m # 1 => more[m - 1] = k[m - 1]
      BY <1>2, <1>3
    <3>. HIDE DEF more
    <3>. QED BY <2>1, <3>1, <3>2
  <2>2. CASE i # m
    <3>1. i \in 1..(m - 1) /\ (i # 1 => i - 1 \in 1..m /\ i - 1 # m)
      BY <1>3, <2>2
    <3>2. more[i] = k[i] /\ (i # 1 => more[i - 1] = k[i - 1])
      BY <2>2, <3>1
    <3>. HIDE DEF more, last
    <3>. QED BY <1>5, <3>1, <3>2
  <2>. QED BY <2>1, <2>2
<1>7. Reduced(more, q, m)
  <2>1. more = [i \in 1..m |-> more[i]]
    OBVIOUS
  <2>. HIDE DEF more
  <2>. QED BY <1>6, <2>1 DEF Reduced
<1>. QED BY <1>1, <1>7 DEF bad

\* Of data no two of which are of one time, the strongest is the latest, with all
\* that is known of every channel.
LEMMA StrongestSums ==
  ASSUME NEW q \in Seq(Data), q # <<>>, \A i, j \in 1..Len(q) : i # j => q[i].at # q[j].at
  PROVE  Sums(Latest!strongest_value(q), ToSet(q))
<1>. DEFINE body(k) == [i \in 1..Len(q) |-> IF i = 1 THEN q[1] ELSE Latest!stronger(k[i - 1], q[i])]
            k == CHOOSE f : f = body(f)
<1>1. Latest!strongest_value(q) = k[Len(q)]
  BY DEF Latest!strongest_value
<1>2. Len(q) \in Nat \ {0} /\ \A i \in 1..Len(q) : q[i] \in Data
  OBVIOUS
<1>3. k = body(k)
  <2>1. \E f : f = body(f)
    <3>1. PICK f : Reduced(f, q, Len(q))
      BY <1>2, ReducedExists
    <3>. QED BY <3>1 DEF Reduced
  <2>. HIDE DEF body
  <2>. QED BY <2>1
<1>4. \A i \in 1..Len(q) : k[i] = IF i = 1 THEN q[1] ELSE Latest!stronger(k[i - 1], q[i])
  <2>. HIDE DEF k
  <2>. QED BY <1>3
<1>. HIDE DEF k
<1>. DEFINE first(n) == {q[j] : j \in 1..n}
            bad == {n \in 1..Len(q) : ~Sums(k[n], first(n))}
<1>5. bad = {}
  <2>. SUFFICES ASSUME bad # {} PROVE FALSE
    OBVIOUS
  <2>1. PICK n \in bad : \A m \in bad : n <= m
    <3>1. bad \subseteq Nat
      BY <1>2
    <3>. HIDE DEF bad
    <3>. QED BY <3>1, LeastNumber
  <2>2. n # 1
    <3>1. first(1) = {q[1]} /\ k[1] = q[1] /\ q[1] \in Data
      BY <1>2, <1>4
    <3>. QED BY <3>1, SumsOne
  <2>3. n \in 2..Len(q) /\ n - 1 \in 1..Len(q) /\ Sums(k[n - 1], first(n - 1))
    <3>1. n \in 1..Len(q)
      OBVIOUS
    <3>2. n - 1 \in 1..Len(q) /\ n - 1 \notin bad
      <4>. HIDE DEF bad
      <4>. QED BY <1>2, <2>1, <2>2, <3>1
    <3>. QED BY <1>2, <2>2, <3>1, <3>2
  <2>4. first(n) = first(n - 1) \cup {q[n]}
    BY <2>3
  <2>5. k[n] = Latest!stronger(k[n - 1], q[n])
    BY <1>4, <2>2, <2>3
  <2>6. first(n - 1) \in SUBSET Data /\ q[n] \in Data /\ \A e \in first(n - 1) : e.at # q[n].at
    <3>1. \A j \in 1..(n - 1) : j \in 1..Len(q) /\ n \in 1..Len(q) /\ j # n
      BY <1>2, <2>3
    <3>. QED BY <1>2, <2>3, <3>1
  <2>7. Sums(k[n], first(n))
    <3>. HIDE DEF first, bad
    <3>. QED BY <2>3, <2>4, <2>5, <2>6, SumsMore
  <2>. QED BY <2>1, <2>7
<1>6. Len(q) \in 1..Len(q) /\ ToSet(q) = first(Len(q))
  BY <1>2 DEF ToSet
<1>. QED BY <1>1, <1>5, <1>6

-----------------------------------------------------------------------------
(* Writes, and what is known of them.                                      *)

\* A history of n writes: who wrote each, as which of its own, and when, no two
\* at one time.
IsHistory(h) ==
  /\ h.n \in Nat /\ h.by \in [1..h.n -> Writer] /\ h.nr \in [1..h.n -> Nat] /\ h.at \in [1..h.n -> Nat]
  /\ \A v, w \in 1..h.n : v < w => h.at[v] < h.at[w] /\ (h.by[v] = h.by[w] => h.nr[v] < h.nr[w])

\* The writes a clock knows of; what a sequence of data knows of.
Events(h, v) == {w \in 1..h.n : h.by[w] \in DOMAIN v /\ h.nr[w] <= v[h.by[w]]}
Heard(h, q)  == UNION {Events(h, e.clock) : e \in ToSet(q)}

\* A clock every channel of which stands at a write.
Real(h, v) == v \in Clock /\ \A s \in DOMAIN v : \E w \in 1..h.n : h.by[w] = s /\ h.nr[w] = v[s]

\* A datum carries the last write its clock knows of.
Sane(h, d) ==
  /\ d \in Data /\ Real(h, d.clock)
  /\ d.base \in Events(h, d.clock) /\ \A w \in Events(h, d.clock) : w <= d.base
  /\ d.at = h.at[d.base]

\* What a cell may be told, one datum for a write at most.
Sorted(h, q) ==
  /\ q \in Seq(Data) /\ Distinct(q) /\ \A e \in ToSet(q) : Sane(h, e)
  /\ \A e, f \in ToSet(q) : e.base = f.base => e = f

\* One clock is behind another when it knows of less.
LEMMA Knowing ==
  ASSUME NEW h, IsHistory(h), NEW v, Real(h, v), NEW u, Real(h, u)
  PROVE  /\ Events(h, v) \subseteq Events(h, u) <=>
              DOMAIN v \subseteq DOMAIN u /\ \A s \in DOMAIN v : v[s] <= u[s]
         /\ Events(h, v) = Events(h, u) <=> v = u
         /\ Latest!Before(v, u) <=> Events(h, v) \subseteq Events(h, u) /\ v # u
<1>1. /\ v = [s \in DOMAIN v |-> v[s]] /\ \A s \in DOMAIN v : v[s] \in Nat
      /\ u = [s \in DOMAIN u |-> u[s]] /\ \A s \in DOMAIN u : u[s] \in Nat
      /\ \A w \in 1..h.n : h.nr[w] \in Nat
  BY ClockIs DEF Real, IsHistory
<1>. DEFINE Under(x, y) == DOMAIN x \subseteq DOMAIN y /\ \A s \in DOMAIN x : x[s] <= y[s]
<1>2. ASSUME NEW x, NEW y, Real(h, x), Real(h, y), Events(h, x) \subseteq Events(h, y) PROVE Under(x, y)
  <2>. SUFFICES ASSUME NEW s \in DOMAIN x PROVE s \in DOMAIN y /\ x[s] <= y[s]
    OBVIOUS
  <2>1. PICK w \in 1..h.n : h.by[w] = s /\ h.nr[w] = x[s]
    BY <1>2 DEF Real
  <2>2. x[s] <= x[s]
    BY <1>1, <2>1
  <2>3. w \in Events(h, x)
    BY <2>1, <2>2 DEF Events
  <2>. QED BY <1>2, <2>1, <2>3 DEF Events
<1>3. ASSUME Under(v, u) PROVE Events(h, v) \subseteq Events(h, u)
  <2>. SUFFICES ASSUME NEW w \in Events(h, v) PROVE w \in Events(h, u)
    OBVIOUS
  <2>1. w \in 1..h.n /\ h.by[w] \in DOMAIN v /\ h.nr[w] <= v[h.by[w]]
    BY DEF Events
  <2>2. h.by[w] \in DOMAIN u /\ v[h.by[w]] <= u[h.by[w]]
    BY <1>3, <2>1
  <2>3. h.nr[w] <= u[h.by[w]]
    BY <1>1, <2>1, <2>2
  <2>. QED BY <2>1, <2>2, <2>3 DEF Events
<1>4. ASSUME Under(v, u), Under(u, v) PROVE v = u
  <2>1. DOMAIN v = DOMAIN u
    BY <1>4
  <2>2. \A s \in DOMAIN v : v[s] = u[s]
    BY <1>1, <1>4, <2>1
  <2>. QED BY <1>1, <2>1, <2>2
<1>5. Events(h, v) \subseteq Events(h, u) <=> Under(v, u)
  BY <1>2, <1>3
<1>6. Events(h, u) \subseteq Events(h, v) => Under(u, v)
  BY <1>2
<1>7. Latest!Before(v, u) <=> Under(v, u) /\ v # u
  BY DEF Latest!Before
<1>. QED BY <1>4, <1>5, <1>6, <1>7

\* What a cell shows is the last write it heard of, with all it heard of.
LEMMA ShownIs ==
  ASSUME NEW h, IsHistory(h), NEW q, Sorted(h, q), q # <<>>
  PROVE  /\ Sane(h, Latest!strongest_value(q))
         /\ Events(h, Latest!strongest_value(q).clock) = Heard(h, q)
<1>. DEFINE S == Latest!strongest_value(q)
<1>1. q \in Seq(Data) /\ Len(q) \in Nat /\ \A i \in 1..Len(q) : q[i] \in ToSet(q) /\ Sane(h, q[i])
  <2>1. q \in Seq(Data)
    BY DEF Sorted
  <2>2. ToSet(q) = {q[i] : i \in 1..Len(q)}
    BY <2>1 DEF ToSet
  <2>. QED BY <2>1, <2>2 DEF Sorted
<1>2. \A e \in ToSet(q) : /\ Sane(h, e) /\ e \in Data /\ e.base \in 1..h.n /\ e.base \in Events(h, e.clock)
                          /\ e.at = h.at[e.base] /\ Real(h, e.clock) /\ e.clock \in Clock
  BY DEF Sorted, Sane, Events, Data
<1>3. \A v, w \in 1..h.n : /\ v \in Nat /\ w \in Nat /\ h.at[v] \in Nat /\ h.at[w] \in Nat
                           /\ v < w => h.at[v] < h.at[w]
  BY DEF IsHistory
<1>4. ASSUME NEW i \in 1..Len(q), NEW j \in 1..Len(q), i # j PROVE q[i].at # q[j].at
  <2>1. q[i] # q[j] /\ q[i].base # q[j].base
    BY <1>1, <1>4 DEF Sorted, Distinct
  <2>2. /\ q[i].base \in 1..h.n /\ q[j].base \in 1..h.n
        /\ q[i].at = h.at[q[i].base] /\ q[j].at = h.at[q[j].base]
    BY <1>1, <1>2
  <2>3. \A v, w \in 1..h.n : v # w => h.at[v] # h.at[w]
    BY <1>3
  <2>. QED BY <2>1, <2>2, <2>3
<1>5. Sums(S, ToSet(q))
  BY <1>1, <1>4, StrongestSums
<1>. HIDE DEF S
<1>6. Real(h, S.clock) /\ S \in Data
  <2>1. S \in Data /\ S.clock \in Clock
    BY <1>5 DEF Sums, Data
  <2>2. ASSUME NEW s \in DOMAIN S.clock PROVE \E w \in 1..h.n : h.by[w] = s /\ h.nr[w] = S.clock[s]
    <3>1. PICK e \in ToSet(q) : s \in DOMAIN e.clock /\ S.clock[s] = e.clock[s]
      BY <1>5 DEF Sums
    <3>. QED BY <1>2, <3>1 DEF Real
  <2>. QED BY <2>1, <2>2 DEF Real
<1>7. \A s \in DOMAIN S.clock : S.clock[s] \in Nat
  BY <1>6, ClockIs DEF Data
<1>8. \A w \in 1..h.n : h.nr[w] \in Nat
  BY DEF IsHistory
<1>9. Events(h, S.clock) = Heard(h, q)
  <2>1. ASSUME NEW w \in Events(h, S.clock) PROVE w \in Heard(h, q)
    <3>1. w \in 1..h.n /\ h.by[w] \in DOMAIN S.clock /\ h.nr[w] <= S.clock[h.by[w]]
      BY DEF Events
    <3>2. PICK e \in ToSet(q) : h.by[w] \in DOMAIN e.clock /\ S.clock[h.by[w]] = e.clock[h.by[w]]
      BY <1>5, <3>1 DEF Sums
    <3>. QED BY <3>1, <3>2 DEF Events, Heard
  <2>2. ASSUME NEW e \in ToSet(q), NEW w \in Events(h, e.clock) PROVE w \in Events(h, S.clock)
    <3>1. w \in 1..h.n /\ h.by[w] \in DOMAIN e.clock /\ h.nr[w] <= e.clock[h.by[w]]
      BY DEF Events
    <3>2. h.by[w] \in DOMAIN S.clock /\ e.clock[h.by[w]] <= S.clock[h.by[w]]
      BY <1>5, <3>1 DEF Sums
    <3>3. e.clock[h.by[w]] \in Nat
      BY <1>2, <3>1, ClockIs
    <3>4. h.nr[w] <= S.clock[h.by[w]]
      BY <1>7, <1>8, <3>1, <3>2, <3>3
    <3>. QED BY <3>1, <3>2, <3>4 DEF Events
  <2>. QED BY <2>1, <2>2 DEF Heard
<1>10. PICK e \in ToSet(q) : S.base = e.base /\ S.at = e.at /\ \A f \in ToSet(q) : f.at <= e.at
  BY <1>5 DEF Sums
<1>11. S.base \in Events(h, S.clock) /\ S.at = h.at[S.base]
  <2>1. e.base \in Heard(h, q)
    BY <1>2 DEF Heard
  <2>. QED BY <1>2, <1>9, <1>10, <2>1
<1>12. ASSUME NEW w \in Events(h, S.clock) PROVE w <= S.base
  <2>1. PICK f \in ToSet(q) : w \in Events(h, f.clock)
    BY <1>9 DEF Heard
  <2>2. w <= f.base /\ w \in 1..h.n /\ f.base \in 1..h.n /\ e.base \in 1..h.n
    BY <1>2, <2>1 DEF Sane, Events
  <2>3. h.at[f.base] <= h.at[e.base]
    BY <1>2, <1>10
  <2>4. f.base <= e.base
    BY <1>3, <2>2, <2>3
  <2>. QED BY <1>3, <1>10, <2>2, <2>4
<1>. QED BY <1>6, <1>9, <1>11, <1>12 DEF Sane, S

\* A cell that is told a datum which knows no less than what it has for the
\* same write knows afterwards what it knew and what it was told.
LEMMA CellIsTold ==
  ASSUME NEW h, IsHistory(h), NEW q, Sorted(h, q), NEW d, Sane(h, d),
         \A e \in ToSet(q) : e.base = d.base => Events(h, e.clock) \subseteq Events(h, d.clock)
  PROVE  LET m == Latest!merged(q, d)
         IN  /\ Sorted(h, m) /\ m # <<>> /\ ToSet(m) \subseteq ToSet(q) \cup {d}
             /\ Heard(h, m) = Heard(h, q) \cup Events(h, d.clock)
<1>. DEFINE m == Latest!merged(q, d)
            X == {e \in ToSet(q) : Latest!Before(e.clock, d.clock)}
<1>1. q \in Seq(Data) /\ d \in Data /\ \A e \in ToSet(q) : Sane(h, e) /\ e \in Data
  BY DEF Sorted, Sane
<1>2. \A e \in ToSet(q) : /\ Latest!Before(d.clock, e.clock) => Events(h, d.clock) \subseteq Events(h, e.clock)
                          /\ Latest!Before(e.clock, d.clock) <=>
                               Events(h, e.clock) \subseteq Events(h, d.clock) /\ e.clock # d.clock
  <2>1. \A v, u : Real(h, v) /\ Real(h, u) =>
          (Latest!Before(v, u) <=> Events(h, v) \subseteq Events(h, u) /\ v # u)
    BY Knowing
  <2>. QED BY <1>1, <2>1 DEF Sane
<1>3. CASE \E e \in ToSet(q) : e = d \/ Latest!Before(d.clock, e.clock)
  <2>1. m = q
    BY <1>3 DEF Latest!merged, Latest!ToSet, ToSet
  <2>2. PICK e \in ToSet(q) : Events(h, d.clock) \subseteq Events(h, e.clock)
    BY <1>2, <1>3
  <2>3. Heard(h, q) = Heard(h, q) \cup Events(h, d.clock)
    BY <2>2 DEF Heard
  <2>4. q # <<>>
    <3>1. q = <<>> => ToSet(q) = {}
      BY DEF ToSet
    <3>. QED BY <1>3, <3>1
  <2>. HIDE DEF m
  <2>. QED BY <2>1, <2>3, <2>4 DEF m
<1>4. CASE ~\E e \in ToSet(q) : e = d \/ Latest!Before(d.clock, e.clock)
  <2>. DEFINE r == Without(q, X)
  <2>1. m = Append(r, d)
    BY <1>4, SameWithout DEF Latest!merged, Latest!ToSet, ToSet
  <2>. HIDE DEF m, X
  <2>2. r \in Seq(Data) /\ ToSet(r) = ToSet(q) \ X /\ Distinct(r)
    BY <1>1, WithoutIs DEF Sorted
  <2>. HIDE DEF r
  <2>3. m \in Seq(Data) /\ ToSet(m) = (ToSet(q) \ X) \cup {d} /\ Distinct(m) /\ m # <<>>
    <3>1. d \notin ToSet(r)
      BY <1>4, <2>2
    <3>2. Append(r, d) # <<>>
      BY <1>1, <2>2
    <3>. QED BY <1>1, <2>1, <2>2, <3>1, <3>2, AppendIs
  <2>4. ASSUME NEW e \in ToSet(q) \ X PROVE e.base # d.base
    <3>. SUFFICES ASSUME e.base = d.base PROVE FALSE
      OBVIOUS
    <3>1. e.clock = d.clock
      BY <1>2, <2>4 DEF X
    <3>2. e.at = d.at
      BY <1>1 DEF Sane
    <3>3. e = d
      BY <1>1, <3>1, <3>2 DEF Data
    <3>. QED BY <1>4, <3>3
  <2>5. Sorted(h, m)
    <3>1. \A e \in ToSet(m) : Sane(h, e)
      BY <1>1, <2>3
    <3>2. \A e, f \in ToSet(m) : e.base = f.base => e = f
      <4>1. \A e, f \in ToSet(q) : e.base = f.base => e = f
        BY DEF Sorted
      <4>. QED BY <2>3, <2>4, <4>1
    <3>. QED BY <2>3, <3>1, <3>2 DEF Sorted
  <2>6. Heard(h, m) = Heard(h, q) \cup Events(h, d.clock)
    <3>1. \A e \in ToSet(q) : e \in X => Events(h, e.clock) \subseteq Events(h, d.clock)
      BY <1>2 DEF X
    <3>. QED BY <2>3, <3>1 DEF Heard
  <2>. QED BY <2>3, <2>5, <2>6 DEF m
<1>. QED BY <1>3, <1>4

\* What the cells hold, as a history explains it: a source's writes are known to
\* its own cell; of what a cell holds another either knows all that it stands on,
\* or not even the write; and a cell that has nothing to pass on knows of nothing
\* the other does not know of.
Explains(h, con, pend) ==
  /\ IsHistory(h) /\ con = [c \in Cell |-> con[c]] /\ \A c \in Cell : Sorted(h, con[c])
  /\ \A w \in 1..h.n : w \in Heard(h, con[Writes[h.by[w]]])
  /\ \A c, d \in Cell : c # d => \A e \in ToSet(con[c]) :
       Events(h, e.clock) \subseteq Heard(h, con[d]) \/ e.base \notin Heard(h, con[d])
  /\ \A c, d \in Cell : c \notin pend => Heard(h, con[c]) \subseteq Heard(h, con[d])
  /\ pend \subseteq Cell /\ \A c \in pend : con[c] # <<>>

\* What update_cell makes of the cells.
Given(con2, pend2, con, pend, c, d, handled) ==
  LET tells == Latest!merged(con[c], d)
      same == con[c] # <<>> /\ Latest!strongest_value(tells) = Latest!strongest_value(con[c])
  IN  /\ con2 = [con EXCEPT ![c] = tells]
      /\ pend2 = (pend \ handled) \union (IF same THEN {} ELSE {c})

LEMMA Passing ==
  ASSUME NEW h, NEW con, NEW pend, Explains(h, con, pend), NEW c \in pend, NEW d \in Cell, c # d,
         NEW con2, NEW pend2, Given(con2, pend2, con, pend, d, Latest!strongest_value(con[c]), {c})
  PROVE  Explains(h, con2, pend2)
<1>. DEFINE N == Latest!strongest_value(con[c])
            m == Latest!merged(con[d], N)
<1>1. /\ IsHistory(h) /\ con = [x \in Cell |-> con[x]] /\ \A x \in Cell : Sorted(h, con[x])
      /\ pend \subseteq Cell /\ c \in Cell /\ \A x \in pend : con[x] # <<>>
  BY DEF Explains
<1>2. Sane(h, N) /\ Events(h, N.clock) = Heard(h, con[c])
  BY <1>1, ShownIs
<1>. HIDE DEF N
<1>3. ASSUME NEW e \in ToSet(con[d]), e.base = N.base PROVE Events(h, e.clock) \subseteq Events(h, N.clock)
  <2>1. N.base \in Heard(h, con[c])
    BY <1>2 DEF Sane
  <2>. QED BY <1>1, <1>2, <1>3, <2>1 DEF Explains
<1>4. /\ Sorted(h, m) /\ m # <<>> /\ ToSet(m) \subseteq ToSet(con[d]) \cup {N}
      /\ Heard(h, m) = Heard(h, con[d]) \cup Heard(h, con[c])
  BY <1>1, <1>2, <1>3, CellIsTold
<1>5. /\ con2 = [con EXCEPT ![d] = m]
      /\ pend2 = (pend \ {c}) \union
           (IF con[d] # <<>> /\ Latest!strongest_value(m) = Latest!strongest_value(con[d]) THEN {} ELSE {d})
  BY DEF Given, N
<1>. HIDE DEF m
<1>6. /\ con2 = [x \in Cell |-> con2[x]] /\ con2[d] = m /\ \A x \in Cell : x # d => con2[x] = con[x]
      /\ Cell = {c, d}
  BY <1>1, <1>5, LatestAssumption
<1>7. \A x \in Cell : Sorted(h, con2[x])
  BY <1>1, <1>4, <1>6
<1>8. con2[c] = con[c] /\ \A x \in Cell : Heard(h, con[x]) \subseteq Heard(h, con2[x])
  BY <1>1, <1>4, <1>6
<1>9. ASSUME NEW w \in 1..h.n PROVE w \in Heard(h, con2[Writes[h.by[w]]])
  <2>1. Writes[h.by[w]] \in Cell
    BY <1>1, LatestAssumption DEF IsHistory
  <2>. QED BY <1>8, <2>1 DEF Explains
<1>10. \A e \in ToSet(con2[c]) : Events(h, e.clock) \subseteq Heard(h, con2[d])
  <2>1. \A e \in ToSet(con[c]) : Events(h, e.clock) \subseteq Heard(h, con[c])
    BY DEF Heard
  <2>. QED BY <1>4, <1>6, <1>8, <2>1
<1>11. \A e \in ToSet(con2[d]) : Events(h, e.clock) \subseteq Heard(h, con2[c]) \/ e.base \notin Heard(h, con2[c])
  <2>1. \A e \in ToSet(con[d]) : Events(h, e.clock) \subseteq Heard(h, con[c]) \/ e.base \notin Heard(h, con[c])
    BY <1>1 DEF Explains
  <2>. QED BY <1>2, <1>4, <1>6, <1>8, <2>1
<1>12. Heard(h, con2[c]) \subseteq Heard(h, con2[d])
  BY <1>4, <1>6, <1>8
<1>13. d \notin pend2 => Heard(h, con2[d]) \subseteq Heard(h, con2[c])
  <2>. SUFFICES ASSUME d \notin pend2 PROVE Heard(h, con2[d]) \subseteq Heard(h, con2[c])
    OBVIOUS
  <2>1. con[d] # <<>> /\ Latest!strongest_value(m) = Latest!strongest_value(con[d]) /\ d \notin pend
    BY <1>5
  <2>2. Heard(h, con[d]) \subseteq Heard(h, con[c])
    BY <1>1, <2>1 DEF Explains
  <2>. QED BY <1>4, <1>6, <1>8, <2>2
<1>14. pend2 \subseteq Cell /\ \A x \in pend2 : con2[x] # <<>>
  BY <1>1, <1>4, <1>5, <1>6
<1>15. /\ \A x, y \in Cell : x # y => \A e \in ToSet(con2[x]) :
            Events(h, e.clock) \subseteq Heard(h, con2[y]) \/ e.base \notin Heard(h, con2[y])
       /\ \A x, y \in Cell : x \notin pend2 => Heard(h, con2[x]) \subseteq Heard(h, con2[y])
  BY <1>6, <1>10, <1>11, <1>12, <1>13
<1>. QED BY <1>1, <1>6, <1>7, <1>9, <1>14, <1>15 DEF Explains

\* The clock of a source's next write.
Continued(con, s) ==
  LET S == Latest!strongest_value(con[Writes[s]])
  IN  IF con[Writes[s]] # <<>> /\ s \in DOMAIN S.clock THEN [S.clock EXCEPT ![s] = @ + 1] ELSE [x \in {s} |-> 0]

\* A history ends before a time; one that goes on with a write at that time.
Precedes(h, t)     == \A v \in 1..h.n : h.at[v] < t
Continues(g, h, t) == g.n = h.n + 1 /\ g.at[h.n + 1] = t /\ \A v \in 1..h.n : g.at[v] = h.at[v]

\* One more write, of a source at its own cell.
LEMMA Writing ==
  ASSUME NEW h, NEW con, NEW pend, Explains(h, con, pend), NEW s \in Writer, NEW t \in Nat,
         Precedes(h, t), NEW con2, NEW pend2,
         Given(con2, pend2, con, pend, Writes[s], Latest!Datum(h.n + 1, t, Continued(con, s)), {})
  PROVE  \E g : Explains(g, con2, pend2) /\ Continues(g, h, t)
<1>. DEFINE c == Writes[s]
            S == Latest!strongest_value(con[c])
            known == con[c] # <<>> /\ s \in DOMAIN S.clock
            n == h.n + 1
            clock == Continued(con, s)
            N == Latest!Datum(n, t, clock)
            m == Latest!merged(con[c], N)
<1>1. /\ IsHistory(h) /\ con = [x \in Cell |-> con[x]] /\ \A x \in Cell : Sorted(h, con[x])
      /\ pend \subseteq Cell /\ c \in Cell /\ \A x \in pend : con[x] # <<>>
  BY LatestAssumption DEF Explains
<1>2. /\ h.n \in Nat /\ n \in Nat /\ n \notin 1..h.n /\ 1..n = 1..h.n \cup {n} /\ h.by \in [1..h.n -> Writer]
      /\ h.nr \in [1..h.n -> Nat] /\ h.at \in [1..h.n -> Nat]
  BY <1>1 DEF IsHistory
<1>3. con[c] # <<>> => Sane(h, S) /\ Events(h, S.clock) = Heard(h, con[c])
  BY <1>1, ShownIs
<1>4. clock = IF known THEN [S.clock EXCEPT ![s] = @ + 1] ELSE [x \in {s} |-> 0]
  BY DEF Continued
<1>. HIDE DEF S, N, clock
<1>5. clock \in Clock /\ s \in DOMAIN clock /\ clock[s] \in Nat
  <2>1. CASE known
    <3>1. S.clock \in Clock
      BY <1>3, <2>1 DEF Sane, Data
    <3>2. S.clock = [x \in DOMAIN S.clock |-> S.clock[x]] /\ DOMAIN S.clock \subseteq Writer
          /\ \A x \in DOMAIN S.clock : S.clock[x] \in Nat
      BY <3>1, ClockIs
    <3>3. clock = [x \in DOMAIN S.clock |-> IF x = s THEN S.clock[s] + 1 ELSE S.clock[x]]
      BY <1>4, <2>1
    <3>. HIDE DEF known
    <3>4. s \in DOMAIN S.clock
      BY <2>1 DEF known
    <3>5. DOMAIN clock = DOMAIN S.clock /\ clock = [x \in DOMAIN clock |-> clock[x]]
      BY <3>3
    <3>6. \A x \in DOMAIN clock : clock[x] \in Nat
      BY <3>2, <3>3, <3>4
    <3>. QED BY <3>2, <3>4, <3>5, <3>6, ClockIs
  <2>2. CASE ~known
    <3>1. clock = [x \in {s} |-> 0]
      BY <1>4, <2>2
    <3>2. clock = [x \in DOMAIN clock |-> clock[x]] /\ DOMAIN clock \subseteq Writer
          /\ (\A x \in DOMAIN clock : clock[x] \in Nat) /\ s \in DOMAIN clock
      BY <3>1
    <3>. QED BY <3>2, ClockIs
  <2>. QED BY <2>1, <2>2
<1>6. ASSUME NEW v \in 1..h.n, h.by[v] = s PROVE h.nr[v] < clock[s] /\ v \in Heard(h, con[c])
  <2>1. v \in Heard(h, con[c])
    BY <1>6 DEF Explains
  <2>2. con[c] # <<>>
    <3>1. con[c] = <<>> => ToSet(con[c]) = {}
      BY DEF ToSet
    <3>. QED BY <2>1, <3>1 DEF Heard
  <2>3. s \in DOMAIN S.clock /\ h.nr[v] <= S.clock[s]
    BY <1>3, <1>6, <2>1, <2>2 DEF Events
  <2>4. clock[s] = S.clock[s] + 1
    BY <1>4, <2>2, <2>3
  <2>5. S.clock[s] \in Nat /\ h.nr[v] \in Nat
    BY <1>2, <1>3, <2>2, <2>3, ClockIs DEF Sane, Data
  <2>. QED BY <2>1, <2>3, <2>4, <2>5
<1>. DEFINE g == [n |-> n, by |-> [w \in 1..n |-> IF w = n THEN s ELSE h.by[w]],
                  nr |-> [w \in 1..n |-> IF w = n THEN clock[s] ELSE h.nr[w]],
                  at |-> [w \in 1..n |-> IF w = n THEN t ELSE h.at[w]]]
<1>7. /\ g.n = n /\ g.by[n] = s /\ g.nr[n] = clock[s] /\ g.at[n] = t
      /\ \A v \in 1..h.n : g.by[v] = h.by[v] /\ g.nr[v] = h.nr[v] /\ g.at[v] = h.at[v]
      /\ g.by \in [1..g.n -> Writer] /\ g.nr \in [1..g.n -> Nat] /\ g.at \in [1..g.n -> Nat]
  BY <1>2, <1>5
<1>. HIDE DEF g, n
<1>8. IsHistory(g)
  <2>1. ASSUME NEW v \in 1..g.n, NEW w \in 1..g.n, v < w
        PROVE g.at[v] < g.at[w] /\ (g.by[v] = g.by[w] => g.nr[v] < g.nr[w])
    <3>1. v \in 1..h.n
      BY <1>2, <1>7, <2>1 DEF n
    <3>2. CASE w = n
      BY <1>6, <1>7, <3>1, <3>2 DEF Precedes
    <3>3. CASE w \in 1..h.n
      BY <1>1, <1>7, <2>1, <3>1, <3>3 DEF IsHistory
    <3>. QED BY <1>2, <1>7, <3>2, <3>3
  <2>. QED BY <1>2, <1>7, <2>1 DEF IsHistory
<1>9. ASSUME NEW u, Real(h, u) PROVE Real(g, u) /\ Events(g, u) = Events(h, u)
  <2>1. u \in Clock /\ \A x \in DOMAIN u : \E w \in 1..h.n : h.by[w] = x /\ h.nr[w] = u[x]
    BY <1>9 DEF Real
  <2>2. Real(g, u)
    <3>1. ASSUME NEW x \in DOMAIN u PROVE \E w \in 1..g.n : g.by[w] = x /\ g.nr[w] = u[x]
      <4>1. PICK w \in 1..h.n : h.by[w] = x /\ h.nr[w] = u[x]
        BY <2>1
      <4>. QED BY <1>2, <1>7, <4>1
    <3>. QED BY <2>1, <3>1 DEF Real
  <2>3. n \notin Events(g, u)
    <3>. SUFFICES ASSUME s \in DOMAIN u, clock[s] <= u[s] PROVE FALSE
      BY <1>7 DEF Events
    <3>1. PICK w \in 1..h.n : h.by[w] = s /\ h.nr[w] = u[s]
      BY <2>1
    <3>. QED BY <1>2, <1>5, <1>6, <3>1
  <2>4. \A v \in 1..h.n : v \in Events(g, u) <=> v \in Events(h, u)
    BY <1>2, <1>7 DEF Events
  <2>5. Events(g, u) \subseteq 1..h.n \cup {n} /\ Events(h, u) \subseteq 1..h.n
    BY <1>2, <1>7 DEF Events
  <2>. QED BY <2>2, <2>3, <2>4, <2>5
<1>10. ASSUME NEW e, Sane(h, e) PROVE Sane(g, e) /\ e.base # n /\ e.base \in 1..h.n
  <2>1. e.base \in 1..h.n
    BY <1>10 DEF Sane, Events
  <2>2. Real(h, e.clock)
    BY <1>10 DEF Sane
  <2>. QED BY <1>2, <1>7, <1>9, <1>10, <2>1, <2>2 DEF Sane
<1>11. ASSUME NEW x \in Cell PROVE Sorted(g, con[x]) /\ Heard(g, con[x]) = Heard(h, con[x])
                                   /\ n \notin Heard(g, con[x]) /\ Heard(h, con[x]) \subseteq 1..h.n
  <2>1. Sorted(h, con[x])
    BY <1>1
  <2>2. \A e \in ToSet(con[x]) : Sane(h, e) /\ Real(h, e.clock)
    BY <2>1 DEF Sorted, Sane
  <2>3. \A e \in ToSet(con[x]) : Events(g, e.clock) = Events(h, e.clock)
    BY <1>9, <2>2
  <2>4. Heard(g, con[x]) = Heard(h, con[x])
    BY <2>3 DEF Heard
  <2>5. Heard(h, con[x]) \subseteq 1..h.n
    BY DEF Heard, Events
  <2>. QED BY <1>2, <1>10, <2>1, <2>2, <2>4, <2>5 DEF Sorted
<1>12. Real(g, clock)
  <2>. SUFFICES ASSUME NEW x \in DOMAIN clock, x # s PROVE \E w \in 1..g.n : g.by[w] = x /\ g.nr[w] = clock[x]
    BY <1>2, <1>5, <1>7 DEF Real
  <2>1. known
    BY <1>4
  <2>2. S.clock = [y \in DOMAIN S.clock |-> S.clock[y]]
    BY <1>3, <2>1, ClockIs DEF Sane, Data
  <2>3. x \in DOMAIN S.clock /\ clock[x] = S.clock[x]
    BY <1>4, <2>1, <2>2
  <2>4. PICK w \in 1..h.n : h.by[w] = x /\ h.nr[w] = S.clock[x]
    BY <1>3, <2>1, <2>3 DEF Sane, Real
  <2>. QED BY <1>2, <1>7, <2>3, <2>4
<1>13. n \in Events(g, clock) /\ Events(g, clock) \subseteq Heard(h, con[c]) \cup {n}
  <2>1. n \in Events(g, clock)
    BY <1>2, <1>5, <1>7 DEF Events
  <2>2. ASSUME NEW v \in 1..h.n, v \in Events(g, clock) PROVE v \in Heard(h, con[c])
    <3>1. h.by[v] \in DOMAIN clock /\ h.nr[v] <= clock[h.by[v]]
      BY <1>7, <2>2 DEF Events
    <3>2. CASE h.by[v] = s
      BY <1>6, <3>2
    <3>3. CASE h.by[v] # s
      <4>1. known
        BY <1>4, <3>1, <3>3
      <4>2. S.clock = [y \in DOMAIN S.clock |-> S.clock[y]]
        BY <1>3, <4>1, ClockIs DEF Sane, Data
      <4>3. h.by[v] \in DOMAIN S.clock /\ clock[h.by[v]] = S.clock[h.by[v]]
        BY <1>4, <3>1, <3>3, <4>1, <4>2
      <4>4. v \in Events(h, S.clock)
        BY <3>1, <4>3 DEF Events
      <4>. QED BY <1>3, <4>1, <4>4
    <3>. QED BY <3>2, <3>3
  <2>3. Events(g, clock) \subseteq 1..h.n \cup {n}
    BY <1>2, <1>7 DEF Events
  <2>. QED BY <2>1, <2>2, <2>3
<1>14. Sane(g, N) /\ N.base = n /\ N.clock = clock
  <2>1. N = [base |-> n, at |-> t, clock |-> clock]
    BY DEF N, Latest!Datum
  <2>2. N \in Data
    BY <1>2, <1>5, <2>1 DEF Data, n
  <2>3. \A w \in Events(g, clock) : w <= n
    BY <1>2, <1>7 DEF Events
  <2>. QED BY <1>7, <1>12, <1>13, <2>1, <2>2, <2>3 DEF Sane
<1>15. /\ Sorted(g, m) /\ m # <<>> /\ ToSet(m) \subseteq ToSet(con[c]) \cup {N}
       /\ Heard(g, m) = Heard(h, con[c]) \cup {n}
  <2>1. \A e \in ToSet(con[c]) : e.base # N.base
    BY <1>1, <1>10, <1>14 DEF Sorted
  <2>2. /\ Sorted(g, m) /\ m # <<>> /\ ToSet(m) \subseteq ToSet(con[c]) \cup {N}
        /\ Heard(g, m) = Heard(g, con[c]) \cup Events(g, N.clock)
    BY <1>1, <1>8, <1>11, <1>14, <2>1, CellIsTold
  <2>. HIDE DEF m
  <2>. QED BY <1>1, <1>11, <1>13, <1>14, <2>2
<1>16. /\ con2 = [con EXCEPT ![c] = m]
       /\ pend2 = pend \union
            (IF con[c] # <<>> /\ Latest!strongest_value(m) = S THEN {} ELSE {c})
  BY DEF Given, N, S, n, clock
<1>. HIDE DEF m
<1>17. ~(con[c] # <<>> /\ Latest!strongest_value(m) = S)
  <2>. SUFFICES ASSUME con[c] # <<>>, Latest!strongest_value(m) = S PROVE FALSE
    OBVIOUS
  <2>1. Events(g, S.clock) = Heard(g, m)
    BY <1>8, <1>15, ShownIs
  <2>2. Events(g, S.clock) = Heard(h, con[c])
    BY <1>3, <1>9 DEF Sane
  <2>. QED BY <1>1, <1>11, <1>15, <2>1, <2>2
<1>. HIDE DEF c
<1>18. /\ con2 = [x \in Cell |-> con2[x]] /\ con2[c] = m /\ \A x \in Cell : x # c => con2[x] = con[x]
       /\ pend2 = pend \cup {c}
  BY <1>1, <1>16, <1>17
<1>19. /\ \A x \in Cell : Sorted(g, con2[x]) /\ Heard(h, con[x]) \subseteq Heard(g, con2[x])
       /\ \A x \in Cell : x # c => Heard(g, con2[x]) = Heard(h, con[x])
       /\ Heard(g, con2[c]) = Heard(h, con[c]) \cup {n}
  BY <1>1, <1>11, <1>15, <1>18
<1>20. ASSUME NEW w \in 1..g.n PROVE w \in Heard(g, con2[Writes[g.by[w]]])
  <2>1. CASE w = n
    BY <1>7, <1>19, <2>1 DEF c
  <2>2. CASE w \in 1..h.n
    <3>1. Writes[h.by[w]] \in Cell
      BY <1>2, <2>2, LatestAssumption
    <3>. QED BY <1>7, <1>19, <2>2, <3>1 DEF Explains
  <2>. QED BY <1>2, <1>7, <2>1, <2>2
<1>21. ASSUME NEW x \in Cell, NEW y \in Cell, x # y, NEW e \in ToSet(con2[x])
       PROVE Events(g, e.clock) \subseteq Heard(g, con2[y]) \/ e.base \notin Heard(g, con2[y])
  <2>1. CASE e \in ToSet(con[x])
    <3>1. Sane(h, e) /\ Events(g, e.clock) = Events(h, e.clock)
      BY <1>1, <1>9, <2>1 DEF Sorted, Sane
    <3>2. Events(h, e.clock) \subseteq Heard(h, con[y]) \/ e.base \notin Heard(h, con[y])
      BY <1>21, <2>1 DEF Explains
    <3>. QED BY <1>10, <1>19, <3>1, <3>2
  <2>2. CASE e \notin ToSet(con[x])
    <3>1. x = c /\ e = N /\ y # c
      BY <1>15, <1>18, <1>21, <2>2
    <3>2. n \notin Heard(g, con2[y])
      BY <1>11, <1>19, <3>1
    <3>. QED BY <1>14, <3>1, <3>2
  <2>. QED BY <2>1, <2>2
<1>22. ASSUME NEW x \in Cell, NEW y \in Cell, x \notin pend2 PROVE Heard(g, con2[x]) \subseteq Heard(g, con2[y])
  <2>1. x # c /\ x \notin pend
    BY <1>18, <1>22
  <2>2. Heard(h, con[x]) \subseteq Heard(h, con[y])
    BY <2>1 DEF Explains
  <2>. QED BY <1>19, <2>1, <2>2
<1>23. pend2 \subseteq Cell /\ \A x \in pend2 : con2[x] # <<>>
  BY <1>1, <1>15, <1>18
<1>24. Explains(g, con2, pend2)
  BY <1>8, <1>18, <1>19, <1>20, <1>21, <1>22, <1>23 DEF Explains
<1>. QED BY <1>7, <1>24 DEF n, Continues

LatestTypes ==
  /\ now \in Nat \ {0} /\ writtenAt \in Seq(Nat) /\ \A w \in 1..Len(writtenAt) : writtenAt[w] \in 1..now
  /\ \A v, w \in 1..Len(writtenAt) : v < w => writtenAt[v] <= writtenAt[w]

\* No two writes at one time.
InOrder == \A v, w \in 1..Len(writtenAt) : v < w => writtenAt[v] < writtenAt[w]

\* h is what was written.
Records(h) == h.n = Len(writtenAt) /\ \A w \in 1..h.n : h.at[w] = writtenAt[w]

\* The inductive invariant of the reactive values.
LatestInv == LatestTypes /\ (InOrder => \E h : Records(h) /\ Explains(h, cellContent, pending))

LEMMA LatestInit == Latest!Init => LatestInv
<1>. SUFFICES ASSUME Latest!Init PROVE LatestInv
  OBVIOUS
<1>1. cellContent = [c \in Cell |-> <<>>] /\ pending = {} /\ now = 1 /\ writtenAt = <<>>
  BY DEF Latest!Init
<1>. DEFINE none == [w \in 1..0 |-> 0]
            h == [n |-> 0, by |-> none, nr |-> none, at |-> none]
<1>2. IsHistory(h)
  <2>1. 1..0 = {} /\ none \in [1..0 -> Nat] /\ none \in [1..0 -> Writer]
    OBVIOUS
  <2>. QED BY <2>1 DEF IsHistory
<1>3. h.n = 0 /\ 1..0 = {}
  OBVIOUS
<1>. HIDE DEF h
<1>4. \A c \in Cell : cellContent[c] = <<>>
  BY <1>1
<1>5. ToSet(<<>>) = {} /\ Distinct(<<>>) /\ <<>> \in Seq(Data)
  BY DEF ToSet, Distinct
<1>6. Sorted(h, <<>>) /\ Heard(h, <<>>) = {}
  BY <1>5 DEF Sorted, Heard
<1>7. Explains(h, cellContent, pending)
  <2>1. cellContent = [c \in Cell |-> cellContent[c]]
    BY <1>1
  <2>2. \A c \in Cell : Sorted(h, cellContent[c]) /\ Heard(h, cellContent[c]) = {} /\ ToSet(cellContent[c]) = {}
    BY <1>4, <1>5, <1>6
  <2>. QED BY <1>1, <1>2, <1>3, <2>1, <2>2 DEF Explains
<1>8. LatestTypes
  BY <1>1 DEF LatestTypes
<1>. QED BY <1>1, <1>3, <1>7, <1>8 DEF LatestInv, Records

\* A write comes after those before it.
LEMMA OneMoreWrite ==
  ASSUME LatestTypes, writtenAt' = Append(writtenAt, now), now' = now
  PROVE  /\ LatestTypes' /\ Len(writtenAt') = Len(writtenAt) + 1 /\ Len(writtenAt) \in Nat
         /\ writtenAt'[Len(writtenAt) + 1] = now
         /\ \A w \in 1..Len(writtenAt) : writtenAt'[w] = writtenAt[w]
         /\ InOrder' => InOrder /\ \A w \in 1..Len(writtenAt) : writtenAt[w] < now
<1>. DEFINE n == Len(writtenAt)
<1>1. /\ now \in Nat \ {0} /\ writtenAt \in Seq(Nat) /\ \A w \in 1..n : writtenAt[w] \in 1..now
      /\ \A v, w \in 1..n : v < w => writtenAt[v] <= writtenAt[w]
  BY DEF LatestTypes
<1>2. /\ n \in Nat /\ writtenAt' \in Seq(Nat) /\ Len(writtenAt') = n + 1 /\ writtenAt'[n + 1] = now
      /\ \A w \in 1..n : writtenAt'[w] = writtenAt[w]
  BY <1>1
<1>. HIDE DEF n
<1>3. 1..(n + 1) = 1..n \cup {n + 1} /\ \A w \in 1..n : w < n + 1
  BY <1>2
<1>4. \A w \in 1..(n + 1) : writtenAt'[w] \in 1..now
  BY <1>1, <1>2, <1>3
<1>5. ASSUME NEW v \in 1..(n + 1), NEW w \in 1..(n + 1), v < w PROVE writtenAt'[v] <= writtenAt'[w]
  <2>1. v \in 1..n
    BY <1>2, <1>3, <1>5
  <2>2. CASE w \in 1..n
    BY <1>1, <1>2, <1>5, <2>1, <2>2
  <2>3. CASE w = n + 1
    BY <1>1, <1>2, <2>1, <2>3
  <2>. QED BY <1>3, <2>2, <2>3
<1>6. LatestTypes'
  BY <1>1, <1>2, <1>4, <1>5 DEF LatestTypes
<1>7. ASSUME InOrder' PROVE InOrder /\ \A w \in 1..n : writtenAt[w] < now
  <2>1. \A v, w \in 1..(n + 1) : v < w => writtenAt'[v] < writtenAt'[w]
    BY <1>2, <1>7 DEF InOrder
  <2>2. \A v, w \in 1..n : v < w => writtenAt[v] < writtenAt[w]
    BY <1>2, <1>3, <2>1
  <2>3. \A w \in 1..n : writtenAt[w] < now
    BY <1>2, <1>3, <2>1
  <2>. QED BY <2>2, <2>3 DEF InOrder, n
<1>. QED BY <1>2, <1>6, <1>7 DEF n

LEMMA LatestWrites ==
  ASSUME LatestInv, NEW c \in Cell, NEW s \in Writer, Latest!update_specialized_reactive_value(c, s)
  PROVE  LatestInv'
<1>. DEFINE n == Len(writtenAt)
            clock == Continued(cellContent, s)
<1>1. LatestTypes /\ writtenAt' = Append(writtenAt, now) /\ now' = now /\ Writes[s] = c
  BY DEF LatestInv, Latest!update_specialized_reactive_value
<1>2. /\ LatestTypes' /\ Len(writtenAt') = n + 1 /\ n \in Nat /\ writtenAt'[n + 1] = now
      /\ \A w \in 1..n : writtenAt'[w] = writtenAt[w]
      /\ InOrder' => InOrder /\ \A w \in 1..n : writtenAt[w] < now
  BY <1>1, OneMoreWrite
<1>3. Given(cellContent', pending', cellContent, pending, c, Latest!Datum(n + 1, now, clock), {})
  BY <1>2 DEF Latest!update_specialized_reactive_value, Latest!update_cell, Latest!Shows, Given, Continued
<1>. HIDE DEF n
<1>4. ASSUME InOrder' PROVE \E g : Records(g)' /\ Explains(g, cellContent', pending')
  <2>1. PICK h : Records(h) /\ Explains(h, cellContent, pending)
    BY <1>2, <1>4 DEF LatestInv
  <2>2. h.n = n /\ now \in Nat /\ \A w \in 1..h.n : h.at[w] = writtenAt[w] /\ h.at[w] < now
    BY <1>1, <1>2, <1>4, <2>1 DEF Records, LatestTypes, n
  <2>3. PICK g : Explains(g, cellContent', pending') /\ Continues(g, h, now)
    <3>1. Given(cellContent', pending', cellContent, pending, Writes[s], Latest!Datum(h.n + 1, now, clock), {})
      BY <1>1, <1>3, <2>2
    <3>2. Precedes(h, now)
      BY <2>2 DEF Precedes
    <3>. QED BY <2>1, <2>2, <3>1, <3>2, Writing
  <2>4. Records(g)'
    <3>1. 1..(n + 1) = 1..n \cup {n + 1}
      BY <1>2
    <3>. QED BY <1>2, <2>2, <2>3, <3>1 DEF Records, Continues
  <2>. QED BY <2>3, <2>4
<1>. QED BY <1>2, <1>4 DEF LatestInv

LEMMA LatestPasses ==
  ASSUME LatestInv, NEW c \in Cell, NEW d \in Cell, Latest!PassOn(c, d)
  PROVE  LatestInv'
<1>1. c \in pending /\ c # d /\ now' = now /\ writtenAt' = writtenAt
  BY DEF Latest!PassOn
<1>2. Given(cellContent', pending', cellContent, pending, d, Latest!strongest_value(cellContent[c]), {c})
  BY DEF Latest!PassOn, Latest!update_cell, Latest!Shows, Given
<1>3. LatestTypes' /\ (InOrder' => InOrder)
  BY <1>1 DEF LatestInv, LatestTypes, InOrder
<1>4. ASSUME InOrder PROVE \E h : Records(h)' /\ Explains(h, cellContent', pending')
  <2>1. PICK h : Records(h) /\ Explains(h, cellContent, pending)
    BY <1>4 DEF LatestInv
  <2>2. Explains(h, cellContent', pending')
    BY <1>1, <1>2, <2>1, Passing
  <2>3. Records(h)'
    BY <1>1, <2>1 DEF Records
  <2>. QED BY <2>2, <2>3
<1>. QED BY <1>3, <1>4 DEF LatestInv

LEMMA LatestStep == LatestInv /\ [Next]_Vars => LatestInv'
<1>. SUFFICES ASSUME LatestInv, [Next]_Vars PROVE LatestInv'
  OBVIOUS
<1>1. CASE UNCHANGED latestVars
  <2>1. now' = now /\ writtenAt' = writtenAt /\ cellContent' = cellContent /\ pending' = pending
    BY <1>1 DEF latestVars
  <2>. QED BY <2>1 DEF LatestInv, LatestTypes, InOrder, Records
<1>2. CASE Latest!Next
  <2>1. CASE \E c \in Cell, s \in Writer : Latest!update_specialized_reactive_value(c, s)
    BY <2>1, LatestWrites
  <2>2. CASE \E c, d \in Cell : Latest!PassOn(c, d)
    BY <2>2, LatestPasses
  <2>3. CASE Latest!Tick
    <3>1. now' = now + 1 /\ writtenAt' = writtenAt /\ cellContent' = cellContent /\ pending' = pending
      BY <2>3 DEF Latest!Tick
    <3>. QED BY <3>1 DEF LatestInv, LatestTypes, InOrder, Records
  <2>. QED BY <1>2, <2>1, <2>2, <2>3 DEF Latest!Next
<1>. QED BY <1>1, <1>2 DEF Next, Vars

\* Two writes of one time are more than one.
LEMMA OneAtATime ==
  ASSUME LatestTypes, Latest!AtMost(1)
  PROVE  InOrder
<1>. SUFFICES ASSUME NEW v \in 1..Len(writtenAt), NEW w \in 1..Len(writtenAt), v < w, writtenAt[v] >= writtenAt[w]
     PROVE FALSE
  <2>1. \A x \in 1..Len(writtenAt) : writtenAt[x] \in Nat
    BY DEF LatestTypes
  <2>. QED BY <2>1 DEF InOrder
<1>1. /\ writtenAt \in Seq(Nat) /\ writtenAt[v] \in 1..now /\ writtenAt[w] \in 1..now
      /\ writtenAt[v] <= writtenAt[w] /\ now \in Nat
  BY DEF LatestTypes
<1>2. writtenAt[v] = writtenAt[w]
  BY <1>1
<1>. DEFINE all == Latest!WritesAt(writtenAt[v])
<1>3. {v, w} \subseteq all /\ all \subseteq 1..Len(writtenAt) /\ v # w
  BY <1>1, <1>2 DEF Latest!WritesAt
<1>4. Cardinality(all) <= 1
  <2>1. \A t \in 1..now : Cardinality(Latest!WritesAt(t)) <= 1
    BY SameCardinality DEF Latest!AtMost
  <2>. QED BY <1>1, <2>1
<1>. HIDE DEF all
<1>5. IsFiniteSet(all) /\ IsFiniteSet({v, w})
  <2>1. IsFiniteSet(1..Len(writtenAt))
    BY <1>1, FS_Interval
  <2>. QED BY <1>3, <2>1, FS_Subset
<1>6. Cardinality({v, w}) <= Cardinality(all)
  BY <1>3, <1>5, FS_Subset
<1>7. Cardinality({v, w}) = 2
  <2>1. Cardinality({v}) = 1 /\ IsFiniteSet({v})
    BY FS_Singleton
  <2>2. {v, w} = {v} \cup {w} /\ w \notin {v}
    BY <1>3
  <2>3. Cardinality({v} \cup {w}) = Cardinality({v}) + 1
    BY <2>1, <2>2, FS_AddElement
  <2>4. Cardinality({v} \cup {w}) = 2
    BY <2>1, <2>3
  <2>. QED BY <2>2, <2>4
<1>8. Cardinality(all) \in Nat
  BY <1>5, FS_CardinalityType
<1>. QED BY <1>4, <1>6, <1>7, <1>8

LEMMA LatestSuffices == LatestInv => (Latest!AtMost(1) => CellsShowTheLatest)
<1>. SUFFICES ASSUME LatestInv, Latest!AtMost(1), pending = {}, writtenAt # <<>>, NEW c \in Cell
     PROVE /\ Latest!Shows(c).at = Latest!LastTime
           /\ Latest!Shows(c).base \in Latest!WritesAt(Latest!LastTime)
           /\ \A d \in Cell : Latest!Shows(c).base = Latest!Shows(d).base
           /\ Latest!Shows(c).clock = Latest!Known(c)
  BY DEF CellsShowTheLatest, Latest!CellsShowTheLatest
<1>. DEFINE n == Len(writtenAt)
<1>1. InOrder /\ LatestTypes
  BY OneAtATime DEF LatestInv
<1>2. PICK h : Records(h) /\ Explains(h, cellContent, pending)
  BY <1>1 DEF LatestInv
<1>3. /\ IsHistory(h) /\ h.n = n /\ n \in Nat /\ n \in 1..n /\ \A d \in Cell : Sorted(h, cellContent[d])
      /\ h.at[n] = writtenAt[n]
  <2>1. n \in Nat /\ n \in 1..n
    BY <1>1 DEF LatestTypes
  <2>. QED BY <1>2, <2>1 DEF Records, Explains
<1>4. ASSUME NEW d \in Cell PROVE Heard(h, cellContent[d]) = 1..n
  <2>1. ASSUME NEW w \in 1..n PROVE w \in Heard(h, cellContent[d])
    <3>1. w \in Heard(h, cellContent[Writes[h.by[w]]]) /\ Writes[h.by[w]] \in Cell
      BY <1>2, <1>3, LatestAssumption DEF Explains, IsHistory
    <3>. QED BY <1>2, <3>1 DEF Explains
  <2>2. Heard(h, cellContent[d]) \subseteq 1..n
    BY <1>3 DEF Heard, Events
  <2>. QED BY <2>1, <2>2
<1>5. ASSUME NEW d \in Cell PROVE /\ cellContent[d] # <<>> /\ Sane(h, Latest!Shows(d))
                                  /\ Events(h, Latest!Shows(d).clock) = 1..n
                                  /\ Latest!Shows(d).base = n
  <2>1. cellContent[d] # <<>>
    <3>1. cellContent[d] = <<>> => ToSet(cellContent[d]) = {}
      BY DEF ToSet
    <3>. QED BY <1>3, <1>4, <3>1 DEF Heard
  <2>2. /\ Sane(h, Latest!Shows(d)) /\ Events(h, Latest!Shows(d).clock) = 1..n
    BY <1>3, <1>4, <2>1, ShownIs DEF Latest!Shows
  <2>3. Latest!Shows(d).base \in 1..n /\ n <= Latest!Shows(d).base
    BY <1>3, <2>2 DEF Sane
  <2>. QED BY <1>3, <2>1, <2>2, <2>3
<1>6. Latest!Shows(c).at = Latest!LastTime
  BY <1>3, <1>5 DEF Sane, Latest!LastTime
<1>7. Latest!Shows(c).base \in Latest!WritesAt(Latest!LastTime)
  <2>1. n \in DOMAIN writtenAt
    BY <1>1, <1>3 DEF LatestTypes
  <2>. QED BY <1>5, <2>1 DEF Latest!WritesAt, Latest!LastTime
<1>8. Latest!Shows(c).clock = Latest!Known(c)
  <2>. DEFINE q == cellContent[c]
              v == Latest!Shows(c).clock
              clocks == {d.clock : d \in ToSet(q)}
              of(s) == {k[s] : k \in {l \in clocks : s \in DOMAIN l}}
  <2>1. Latest!Known(c) = [s \in UNION {DOMAIN k : k \in clocks} |-> Latest!Max(of(s))]
    BY DEF Latest!Known, Latest!ToSet, ToSet
  <2>2. Sums(Latest!Shows(c), ToSet(q))
    <3>1. q \in Seq(Data) /\ q # <<>> /\ Distinct(q) /\ \A e \in ToSet(q) : Sane(h, e)
      BY <1>3, <1>5 DEF Sorted
    <3>2. \A i \in 1..Len(q) : q[i] \in ToSet(q)
      BY <3>1 DEF ToSet
    <3>3. ASSUME NEW i \in 1..Len(q), NEW j \in 1..Len(q), i # j PROVE q[i].at # q[j].at
      <4>1. q[i].base # q[j].base
        BY <1>3, <3>1, <3>2, <3>3 DEF Sorted, Distinct
      <4>2. /\ q[i].at = h.at[q[i].base] /\ q[j].at = h.at[q[j].base] /\ q[i].base \in 1..h.n /\ q[j].base \in 1..h.n
        BY <3>1, <3>2 DEF Sane, Events
      <4>3. \A x, y \in 1..h.n : x < y => h.at[x] < h.at[y] /\ h.at[x] \in Nat /\ h.at[y] \in Nat
        BY <1>3 DEF IsHistory
      <4>4. \A x, y \in 1..h.n : x \in Nat /\ y \in Nat
        BY <1>3
      <4>5. \A x, y \in 1..h.n : x # y => h.at[x] # h.at[y]
        BY <4>3, <4>4
      <4>. QED BY <4>1, <4>2, <4>5
    <3>. QED BY <3>1, <3>3, StrongestSums DEF Latest!Shows
  <2>. HIDE DEF v, q
  <2>3. /\ DOMAIN v = UNION {DOMAIN e.clock : e \in ToSet(q)}
        /\ \A e \in ToSet(q) : \A s \in DOMAIN e.clock : e.clock[s] <= v[s]
        /\ \A s \in DOMAIN v : \E e \in ToSet(q) : s \in DOMAIN e.clock /\ v[s] = e.clock[s]
        /\ v \in Clock
    BY <2>2 DEF Sums, v, Data
  <2>4. v = [s \in DOMAIN v |-> v[s]] /\ \A s \in DOMAIN v : v[s] \in Nat
    BY <2>3, ClockIs
  <2>5. ASSUME NEW s \in DOMAIN v PROVE Latest!Max(of(s)) = v[s]
    <3>1. v[s] \in of(s) /\ v[s] \in Nat
      BY <2>3, <2>4, <2>5
    <3>2. \A x \in of(s) : x <= v[s] /\ x \in Nat
      <4>1. \A e \in ToSet(q) : e.clock \in Clock
        BY <1>3 DEF Sorted, Sane, Data, q
      <4>2. \A e \in ToSet(q) : \A y \in DOMAIN e.clock : e.clock[y] \in Nat
        BY <4>1, ClockIs
      <4>. QED BY <2>3, <4>2
    <3>. HIDE DEF of
    <3>3. \A x \in of(s) : (\A y \in of(s) : x >= y) => x = v[s]
      BY <3>1, <3>2
    <3>4. \A y \in of(s) : v[s] >= y
      BY <3>1, <3>2
    <3>5. Latest!Max(of(s)) \in of(s) /\ \A y \in of(s) : Latest!Max(of(s)) >= y
      BY <3>1, <3>4 DEF Latest!Max
    <3>. QED BY <3>3, <3>5
  <2>6. DOMAIN v = UNION {DOMAIN k : k \in clocks}
    BY <2>3
  <2>. HIDE DEF of, clocks
  <2>7. v = [s \in DOMAIN v |-> Latest!Max(of(s))]
    BY <2>4, <2>5
  <2>. QED BY <2>1, <2>6, <2>7 DEF v
<1>. QED BY <1>5, <1>6, <1>7, <1>8

\* When no two writes fall on one tick, cells that have passed everything on all
\* show the last write with all that is known of each source, whoever wrote, in
\* whatever order the cells heard of the writes (strongest_value).
THEOREM CellsAgreeOnTheLatest == Spec => [](Latest!AtMost(1) => CellsShowTheLatest)
<1>1. Init => LatestInv
  BY LatestInit DEF Init
<1>2. LatestInv /\ [Next]_Vars => LatestInv'
  BY LatestStep
<1>3. LatestInv => (Latest!AtMost(1) => CellsShowTheLatest)
  BY LatestSuffices
<1>. QED BY <1>1, <1>2, <1>3, PTL DEF Spec
=============================================================================
