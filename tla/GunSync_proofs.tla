--------------------------- MODULE GunSync_proofs ---------------------------
(***************************************************************************)
(* Proofs about GunSync, for any number of increments, peers and           *)
(* propagators: its types, that announcements do not echo, and that peers  *)
(* end up with the host's value, in whatever order values are decoded,     *)
(* but for those the newest value of which was overtaken by an older one.  *)
(***************************************************************************)
EXTENDS GunSync, SequenceTheorems, TLAPS

\* What keeps a process from announcing a propagator again.
Remembered(l) == IF l = Host THEN last ELSE knows[l]

Announcing ==
  \A l \in Process, p \in Prop :
    announced[l][p] <= 1 /\ (announced[l][p] = 1 => p \in Remembered(l))

\* Everything decoded is merged, and the last value put is the host's once it
\* has run.
Publishing ==
  /\ done \subseteq merged
  /\ ~alerted /\ Usable => puts # <<>> /\ puts[Len(puts)] = merged

\* A peer is decoding nothing it has not heard, and once the newest value it
\* heard of is decoded it shows that one, or one that was decoded later.
Following(r) ==
  /\ hears[r] <= Len(puts)
  /\ reading[r] \subseteq 1..hears[r]
  /\ hears[r] # 0 /\ hears[r] \notin reading[r] /\ ~overtaken[r] => shown[r] = puts[hears[r]]

FollowingInv == Publishing /\ \A r \in Peer : Following(r)

-----------------------------------------------------------------------------
(* Types.                                                                  *)

\* Appending puts the new value last and keeps the others.
LEMMA Appended ==
  ASSUME NEW S, NEW s \in Seq(S), NEW e \in S
  PROVE  /\ Append(s, e) \in Seq(S)
         /\ Len(Append(s, e)) = Len(s) + 1
         /\ Append(s, e)[Len(s) + 1] = e
         /\ \A i \in 1..Len(s) : Append(s, e)[i] = s[i]
  BY AppendProperties

\* Counting announcements counts in naturals.
LEMMA AnnounceType ==
  ASSUME announced \in [Process -> [Prop -> Nat]],
         NEW l \in Process, NEW P, Announce(l, P)
  PROVE  /\ announced' \in [Process -> [Prop -> Nat]]
         /\ \A p \in Prop : announced'[l][p] = IF p \in P THEN announced[l][p] + 1
                                               ELSE announced[l][p]
         /\ \A k \in Process : k # l => announced'[k] = announced[k]
<1> DEFINE new == [p \in Prop |-> IF p \in P THEN announced[l][p] + 1 ELSE announced[l][p]]
<1>1. announced' = [announced EXCEPT ![l] = new]
  BY DEF Announce
<1>2. new \in [Prop -> Nat]
  OBVIOUS
<1> QED
  BY <1>1, <1>2

\* The values the variables have in the initial state are well typed.
LEMMA InitTypes == Init => TypeOK
  BY GunSyncAssumption DEF Init, TypeOK, NobodyYet

\* Interests are one of two.
LEMMA InterestType ==
  ASSUME NEW n PROVE InterestOf(n) \in {"updated", "remote"}
  BY DEF InterestOf

\* addNeighbor keeps the types of what it changes.
LEMMA AddNeighborType ==
  ASSUME TypeOK, NEW l \in Process, NEW p \in Prop, addNeighbor(l, p)
  PROVE  /\ knows' \in [Process -> SUBSET Prop]
         /\ announced' \in [Process -> [Prop -> Nat]]
<1>1. knows' \in [Process -> SUBSET Prop]
  BY DEF addNeighbor, TypeOK
<1>2. announced' \in [Process -> [Prop -> Nat]]
  BY AnnounceType DEF addNeighbor, TypeOK
<1> QED
  BY <1>1, <1>2

\* Every step keeps the types.
LEMMA StepTypes == TypeOK /\ [Next]_vars => TypeOK'
<1> SUFFICES ASSUME TypeOK, [Next]_vars PROVE TypeOK'
  OBVIOUS
<1> USE DEF gun, host, processes, peers
<1>1. ASSUME NEW x \in Item, PeerUpdate(x) PROVE TypeOK'
  BY <1>1 DEF TypeOK, PeerUpdate
<1>2. ASSUME NEW x \in Item, HostUpdate(x) PROVE TypeOK'
  BY <1>2 DEF TypeOK, HostUpdate, update
<1>3. ASSUME NEW x \in Item, HearItem(x) PROVE TypeOK'
  BY <1>3 DEF TypeOK, HearItem
<1>4. ASSUME NEW x \in Item, contentListener(x) PROVE TypeOK'
  BY <1>4 DEF TypeOK, contentListener, update
<1>5. ASSUME cell_to_gun_cell PROVE TypeOK'
  <2>1. puts' \in Seq(SUBSET Item)
    BY <1>5, Appended DEF TypeOK, cell_to_gun_cell
  <2>2. announced' \in [Process -> [Prop -> Nat]]
    BY <1>5, AnnounceType DEF TypeOK, cell_to_gun_cell, Process
  <2>3. last' \subseteq Prop
    BY <1>5 DEF TypeOK, cell_to_gun_cell, Process
  <2> QED
    BY <1>5, <2>1, <2>2, <2>3 DEF TypeOK, cell_to_gun_cell
<1>6. ASSUME NEW p \in Prop, Construct(p) PROVE TypeOK'
  <2>1. Home[p] \in Process
    BY GunSyncAssumption
  <2>2. addNeighbor(Home[p], p)
    BY <1>6 DEF Construct
  <2>3. saw' \in [Prop -> SUBSET Item]
    BY <1>6, <2>1 DEF Construct, TypeOK, Process
  <2> QED
    BY <1>6, <2>1, <2>2, <2>3, AddNeighborType DEF Construct, TypeOK
<1>7. ASSUME NEW p \in Prop, OtherCellPublishes(p) PROVE TypeOK'
  BY <1>7 DEF TypeOK, OtherCellPublishes
<1>8. ASSUME NEW l \in Process, dispose(l) PROVE TypeOK'
  BY <1>8 DEF TypeOK, dispose
<1>9. ASSUME NEW n \in Entry, NEW l \in Process, HearNeighbor(l, n) PROVE TypeOK'
  BY <1>9 DEF TypeOK, HearNeighbor
<1>10. ASSUME NEW n \in Entry, neighborsListener(n) PROVE TypeOK'
  <2>1. Host \in Process /\ n[2] \in Prop
    BY DEF Process, Entry
  <2>2. /\ knows' \in [Process -> SUBSET Prop]
        /\ announced' \in [Process -> [Prop -> Nat]]
    BY <1>10, <2>1, AddNeighborType DEF neighborsListener, decode_propagator_reference, TypeOK
  <2>3. meeting' \in [Process -> SUBSET Entry]
    BY <1>10 DEF neighborsListener, TypeOK
  <2> QED
    BY <1>10, <2>2, <2>3 DEF neighborsListener, TypeOK
<1>11. ASSUME NEW n \in Entry, NEW r \in Peer, setup_neighbors_listener(r, n) PROVE TypeOK'
  <2>1. r \in Process /\ n[2] \in Prop
    BY DEF Process, Entry
  <2>2. /\ knows' \in [Process -> SUBSET Prop]
        /\ announced' \in [Process -> [Prop -> Nat]]
    BY <1>11, <2>1, AddNeighborType DEF setup_neighbors_listener, decode_propagator_reference, TypeOK
  <2>3. meeting' \in [Process -> SUBSET Entry]
    BY <1>11 DEF setup_neighbors_listener, TypeOK
  <2>4. neighbors' \in [Peer -> [Prop -> {"unknown", "updated", "remote"}]]
    <3>1. PICK k \in {"updated", "remote"} : k = InterestOf(n)
      BY InterestType
    <3>2. neighbors' = [neighbors EXCEPT ![r][n[2]] = k]
      BY <1>11, <3>1 DEF setup_neighbors_listener
    <3> QED
      BY <3>2, <2>1 DEF TypeOK
  <2> QED
    BY <1>11, <2>2, <2>3, <2>4 DEF setup_neighbors_listener, TypeOK
<1>12. ASSUME NEW r \in Peer, initialize_neighbors(r) PROVE TypeOK'
  BY <1>12 DEF TypeOK, initialize_neighbors, NobodyYet
<1>13. ASSUME NEW r \in Peer, NEW i \in 1..Len(puts), HearStrongest(r, i) PROVE TypeOK'
  BY <1>13 DEF TypeOK, HearStrongest
<1>14. ASSUME NEW r \in Peer, NEW i \in 1..Len(puts), setup_strongest_listener(r, i) PROVE TypeOK'
  <2>1. puts[i] \in SUBSET Item
    BY DEF TypeOK
  <2> QED
    BY <1>14, <2>1 DEF TypeOK, setup_strongest_listener, Decoded
<1>15. CASE UNCHANGED vars
  BY <1>15 DEF TypeOK, vars
<1> QED
  BY <1>1, <1>2, <1>3, <1>4, <1>5, <1>6, <1>7, <1>8, <1>9, <1>10, <1>11, <1>12, <1>13, <1>14, <1>15
  DEF Next

\* Every reachable state is well typed, whatever the number of increments,
\* peers and propagators.
THEOREM TypesCorrect == Spec => []TypeOK
  BY InitTypes, StepTypes, PTL DEF Spec
-----------------------------------------------------------------------------
(* Announcements do not echo.                                              *)

\* Announcing what is not remembered, and remembering it, keeps Announcing.
LEMMA AnnounceKeeps ==
  ASSUME TypeOK, Announcing, NEW l \in Process, NEW P,
         Announce(l, P), P \intersect Remembered(l) = {},
         \A k \in Process : Remembered(k) \subseteq Remembered(k)',
         \A p \in Prop : p \in P => p \in Remembered(l)'
  PROVE  Announcing'
<1>1. /\ \A p \in Prop : announced'[l][p] = IF p \in P THEN announced[l][p] + 1
                                             ELSE announced[l][p]
      /\ \A k \in Process : k # l => announced'[k] = announced[k]
  BY AnnounceType DEF TypeOK
<1> SUFFICES ASSUME NEW k \in Process, NEW p \in Prop
             PROVE  announced'[k][p] <= 1 /\ (announced'[k][p] = 1 => p \in Remembered(k)')
  BY DEF Announcing
<1>2. announced[k][p] \in Nat
  BY DEF TypeOK
<1>3. announced[k][p] <= 1 /\ (announced[k][p] = 1 => p \in Remembered(k))
  BY DEF Announcing
<1>4. CASE k = l /\ p \in P
  <2>1. p \notin Remembered(k)
    BY <1>4
  <2>2. announced[k][p] = 0
    BY <2>1, <1>2, <1>3
  <2> QED
    BY <2>2, <1>1, <1>4
<1>5. CASE ~(k = l /\ p \in P)
  <2>1. announced'[k][p] = announced[k][p]
    BY <1>1, <1>5
  <2> QED
    BY <2>1, <1>3
<1> QED
  BY <1>4, <1>5

\* So does changing nothing about announcements and forgetting nothing.
LEMMA SilenceKeeps ==
  ASSUME Announcing, UNCHANGED announced,
         \A k \in Process : Remembered(k) \subseteq Remembered(k)'
  PROVE  Announcing'
  BY DEF Announcing

\* A propagator new to a process is announced for the first time.
LEMMA AddNeighborKeeps ==
  ASSUME TypeOK, Announcing, NEW l \in Process, NEW p \in Prop,
         p \notin knows[l], addNeighbor(l, p), UNCHANGED last
  PROVE  Announcing'
<1>1. /\ \A k \in Process : Remembered(k) \subseteq Remembered(k)'
      /\ knows'[l] = knows[l] \union {p}
  BY DEF addNeighbor, Remembered, TypeOK
<1>2. CASE l = Host
  BY <1>1, <1>2, SilenceKeeps DEF addNeighbor
<1>3. CASE l # Host
  <2>1. Announce(l, {p})
    BY <1>3 DEF addNeighbor
  <2>2. {p} \intersect Remembered(l) = {}
    BY <1>3 DEF Remembered
  <2>3. \A q \in Prop : q \in {p} => q \in Remembered(l)'
    BY <1>1, <1>3 DEF Remembered
  <2> QED
    BY <1>1, <2>1, <2>2, <2>3, AnnounceKeeps
<1> QED
  BY <1>2, <1>3

LEMMA StepAnnouncing == TypeOK /\ Announcing /\ [Next]_vars => Announcing'
<1> SUFFICES ASSUME TypeOK, Announcing, [Next]_vars PROVE Announcing'
  OBVIOUS
<1> USE DEF gun, host, processes, peers
<1>1. ASSUME UNCHANGED <<announced, last, knows>> PROVE Announcing'
  BY <1>1, SilenceKeeps DEF Remembered
<1>2. ASSUME NEW x \in Item, \/ PeerUpdate(x) \/ HostUpdate(x)
                             \/ HearItem(x) \/ contentListener(x)
      PROVE  Announcing'
  BY <1>1, <1>2 DEF PeerUpdate, HostUpdate, HearItem, contentListener
<1>3. ASSUME cell_to_gun_cell PROVE Announcing'
  <2> DEFINE new == knows[Host] \ last
  <2>1. Host \in Process /\ Announce(Host, new) /\ last' = last \union knows[Host]
    BY <1>3 DEF cell_to_gun_cell, Process
  <2>2. new \intersect Remembered(Host) = {}
    BY DEF Remembered
  <2>3. \A k \in Process : Remembered(k) \subseteq Remembered(k)'
    BY <1>3, <2>1 DEF Remembered, cell_to_gun_cell
  <2>4. \A p \in Prop : p \in new => p \in Remembered(Host)'
    BY <2>1 DEF Remembered
  <2> HIDE DEF new
  <2> QED
    BY <2>1, <2>2, <2>3, <2>4, AnnounceKeeps
<1>4. ASSUME NEW p \in Prop, Construct(p) PROVE Announcing'
  BY <1>4, AddNeighborKeeps, GunSyncAssumption DEF Construct
<1>5. ASSUME NEW p \in Prop, OtherCellPublishes(p) PROVE Announcing'
  <2>1. \A k \in Process : Remembered(k) \subseteq Remembered(k)'
    BY <1>5 DEF OtherCellPublishes, Remembered
  <2> QED
    BY <1>5, <2>1, SilenceKeeps DEF OtherCellPublishes
<1>6. ASSUME NEW l \in Process, NEW n \in Entry, UNCHANGED last,
             decode_propagator_reference(l, n[2])
      PROVE  Announcing'
  <2>1. n[2] \in Prop
    BY DEF Entry
  <2> QED
    BY <1>1, <1>6, <2>1, AddNeighborKeeps DEF decode_propagator_reference
<1>7. ASSUME NEW n \in Entry, neighborsListener(n) PROVE Announcing'
  BY <1>6, <1>7 DEF neighborsListener, Process
<1>8. ASSUME NEW n \in Entry, NEW r \in Peer, setup_neighbors_listener(r, n) PROVE Announcing'
  BY <1>6, <1>8 DEF setup_neighbors_listener, Process
<1>9. ASSUME NEW l \in Process, \/ dispose(l) \/ \E n \in Entry : HearNeighbor(l, n)
      PROVE  Announcing'
  BY <1>1, <1>9 DEF dispose, HearNeighbor
<1>10. ASSUME NEW r \in Peer, \/ initialize_neighbors(r)
                              \/ \E i \in 1..Len(puts) : \/ HearStrongest(r, i)
                                                         \/ setup_strongest_listener(r, i)
       PROVE  Announcing'
  BY <1>1, <1>10 DEF initialize_neighbors, HearStrongest, setup_strongest_listener, Decoded
<1>11. CASE UNCHANGED vars
  BY <1>1, <1>11 DEF vars
<1> QED
  BY <1>2, <1>3, <1>4, <1>5, <1>7, <1>8, <1>9, <1>10, <1>11 DEF Next

\* For any number of processes and propagators: nothing is announced twice by
\* the same process, so announcements die out (cell_neighbor_delta remembers
\* on the host, the set of constructed propagators does on a peer).
THEOREM NoEcho == Spec => []AnnouncedOnce
<1>1. Init => Announcing
  BY DEF Init, Announcing
<1>2. Announcing => AnnouncedOnce
  BY DEF Announcing, AnnouncedOnce
<1> QED
  BY <1>1, <1>2, InitTypes, StepTypes, StepAnnouncing, PTL DEF Spec
-----------------------------------------------------------------------------
(* Values.                                                                 *)

\* A step that leaves the puts alone and only adds to the content keeps
\* Publishing, if the host is due to run whenever the content changed.
LEMMA MergingKeeps ==
  ASSUME Publishing, UNCHANGED puts, merged \subseteq merged', done' \subseteq merged',
         merged' # merged => alerted', alerted => alerted'
  PROVE  Publishing'
  BY DEF Publishing, Usable

\* Following looks at four variables of the peer and at the puts it has heard.
LEMMA OthersFollow ==
  ASSUME NEW r \in Peer, Following(r), hears'[r] = hears[r], reading'[r] = reading[r],
         shown'[r] = shown[r], overtaken'[r] = overtaken[r], UNCHANGED puts
  PROVE  Following(r)'
  BY DEF Following

LEMMA StepPublishing == TypeOK /\ Publishing /\ [Next]_vars => Publishing'
<1> SUFFICES ASSUME TypeOK, Publishing, [Next]_vars PROVE Publishing'
  OBVIOUS
<1> USE DEF gun, host, processes, peers
<1>1. ASSUME UNCHANGED <<puts, done, merged, alerted>> PROVE Publishing'
  BY <1>1 DEF Publishing, Usable
<1>2. ASSUME NEW x \in Item, \/ PeerUpdate(x) \/ HearItem(x) PROVE Publishing'
  BY <1>1, <1>2 DEF PeerUpdate, HearItem
<1>3. ASSUME NEW x \in Item, HostUpdate(x) PROVE Publishing'
  BY <1>3, MergingKeeps DEF HostUpdate, update, Publishing
<1>4. ASSUME NEW x \in Item, contentListener(x) PROVE Publishing'
  BY <1>4, MergingKeeps DEF contentListener, update, Publishing
<1>5. CASE cell_to_gun_cell /\ Usable
  <2>1. /\ puts' = Append(puts, merged)
        /\ UNCHANGED <<done, merged>>
    BY <1>5 DEF cell_to_gun_cell
  <2>2. /\ puts' \in Seq(SUBSET Item)
        /\ Len(puts') = Len(puts) + 1
        /\ puts'[Len(puts) + 1] = merged
        /\ \A i \in 1..Len(puts) : puts'[i] = puts[i]
    BY <2>1, Appended DEF TypeOK
  <2>3. Len(puts) \in Nat
    BY DEF TypeOK
  <2>4. puts' # <<>> /\ puts'[Len(puts')] = merged
    BY <2>2, <2>3
  <2> QED
    BY <2>1, <2>4 DEF Publishing
<1>6. CASE cell_to_gun_cell /\ ~Usable
  BY <1>6 DEF cell_to_gun_cell, Publishing, Usable
<1>7. ASSUME NEW p \in Prop, \/ Construct(p) \/ OtherCellPublishes(p) PROVE Publishing'
  BY <1>1, <1>7 DEF Construct, OtherCellPublishes
<1>8. ASSUME NEW l \in Process, NEW n \in Entry, HearNeighbor(l, n) PROVE Publishing'
  BY <1>1, <1>8 DEF HearNeighbor
<1>9. ASSUME NEW r \in Peer, \/ initialize_neighbors(r)
                             \/ \E n \in Entry : setup_neighbors_listener(r, n)
                             \/ \E i \in 1..Len(puts) : \/ HearStrongest(r, i)
                                                        \/ setup_strongest_listener(r, i)
      PROVE  Publishing'
  BY <1>1, <1>9 DEF initialize_neighbors, setup_neighbors_listener, HearStrongest,
                    setup_strongest_listener, Decoded
<1>10. ASSUME NEW l \in Process, dispose(l) PROVE Publishing'
  BY <1>1, <1>10 DEF dispose
<1>11. ASSUME NEW n \in Entry, neighborsListener(n) PROVE Publishing'
  BY <1>1, <1>11 DEF neighborsListener
<1>12. CASE UNCHANGED vars
  BY <1>1, <1>12 DEF vars
<1> QED
  BY <1>2, <1>3, <1>4, <1>5, <1>6, <1>7, <1>8, <1>9, <1>10, <1>11, <1>12 DEF Next

\* A put that is appended leaves the peers where they are.
LEMMA PublishingFollowed ==
  ASSUME TypeOK, NEW r \in Peer, Following(r), cell_to_gun_cell
  PROVE  Following(r)'
<1> USE DEF peers
<1>1. /\ hears'[r] = hears[r] /\ reading'[r] = reading[r]
      /\ shown'[r] = shown[r] /\ overtaken'[r] = overtaken[r]
  BY DEF cell_to_gun_cell
<1>2. hears[r] \in Nat /\ Len(puts) \in Nat
  BY DEF TypeOK
<1>3. CASE puts' = Append(puts, merged)
  <2>1. /\ Len(puts') = Len(puts) + 1
        /\ \A i \in 1..Len(puts) : puts'[i] = puts[i]
    BY <1>3, Appended DEF TypeOK
  <2>2. hears[r] # 0 => hears[r] \in 1..Len(puts)
    BY <1>2 DEF Following
  <2> QED
    BY <1>1, <1>2, <2>1, <2>2 DEF Following
<1>4. CASE UNCHANGED puts
  BY <1>1, <1>4, OthersFollow
<1> QED
  BY <1>3, <1>4 DEF cell_to_gun_cell

\* A peer that hears of a newer value has to decode that one.
LEMMA HearingFollows ==
  ASSUME TypeOK, NEW r \in Peer, Following(r), NEW i \in 1..Len(puts), HearStrongest(r, i)
  PROVE  Following(r)'
<1> USE DEF gun
<1>1. /\ hears'[r] = i /\ reading'[r] = reading[r] \union {i} /\ UNCHANGED puts
  BY DEF HearStrongest, TypeOK
<1>2. hears[r] \in Nat /\ Len(puts) \in Nat /\ hears[r] < i /\ i \in Nat /\ i <= Len(puts)
  BY DEF HearStrongest, TypeOK
<1>3. reading'[r] \subseteq 1..hears'[r]
  BY <1>1, <1>2 DEF Following
<1> QED
  BY <1>1, <1>2, <1>3 DEF Following

\* A decode that finishes shows its value. It is the newest value heard, or an
\* older one: then the newest is still being decoded, or was overtaken.
LEMMA DecodingFollows ==
  ASSUME TypeOK, NEW r \in Peer, Following(r),
         NEW i \in 1..Len(puts), setup_strongest_listener(r, i)
  PROVE  Following(r)'
<1> USE DEF gun
<1>1. /\ i \in reading[r]
      /\ hears'[r] = hears[r] /\ reading'[r] = reading[r] \ {i}
      /\ overtaken'[r] = (hears[r] \notin reading[r])
      /\ shown'[r] = puts[i] /\ UNCHANGED puts
  BY DEF setup_strongest_listener, Decoded, TypeOK
<1>2. hears'[r] <= Len(puts') /\ reading'[r] \subseteq 1..hears'[r]
  BY <1>1 DEF Following
<1>3. hears'[r] \notin reading'[r] /\ ~overtaken'[r] => i = hears'[r]
  BY <1>1
<1> QED
  BY <1>1, <1>2, <1>3 DEF Following

\* A peer follows the host through every step.
LEMMA StepFollowing ==
  ASSUME TypeOK, FollowingInv, [Next]_vars, NEW r \in Peer
  PROVE  Following(r)'
<1> USE DEF gun, host, processes, peers
<1>1. Following(r)
  BY DEF FollowingInv
<1>2. ASSUME hears'[r] = hears[r], reading'[r] = reading[r], shown'[r] = shown[r],
             overtaken'[r] = overtaken[r], UNCHANGED puts
      PROVE  Following(r)'
  BY <1>1, <1>2, OthersFollow
<1>3. ASSUME NEW x \in Item, \/ PeerUpdate(x) \/ HostUpdate(x)
                             \/ HearItem(x) \/ contentListener(x)
      PROVE  Following(r)'
  BY <1>2, <1>3 DEF PeerUpdate, HostUpdate, HearItem, contentListener
<1>4. ASSUME cell_to_gun_cell PROVE Following(r)'
  BY <1>1, <1>4, PublishingFollowed
<1>5. ASSUME NEW p \in Prop, \/ Construct(p) \/ OtherCellPublishes(p) PROVE Following(r)'
  BY <1>2, <1>5 DEF Construct, OtherCellPublishes
<1>6. ASSUME NEW l \in Process, dispose(l) PROVE Following(r)'
  BY <1>2, <1>6 DEF dispose
<1>7. ASSUME NEW n \in Entry, neighborsListener(n) PROVE Following(r)'
  BY <1>2, <1>7 DEF neighborsListener
<1>8. ASSUME NEW n \in Entry, NEW l \in Process, HearNeighbor(l, n) PROVE Following(r)'
  BY <1>2, <1>8 DEF HearNeighbor
<1>9. ASSUME NEW n \in Entry, NEW q \in Peer, setup_neighbors_listener(q, n) PROVE Following(r)'
  BY <1>2, <1>9 DEF setup_neighbors_listener
<1>10. ASSUME NEW q \in Peer, initialize_neighbors(q) PROVE Following(r)'
  BY <1>2, <1>10 DEF initialize_neighbors
<1>11. ASSUME NEW q \in Peer, NEW i \in 1..Len(puts), HearStrongest(q, i) PROVE Following(r)'
  <2>1. CASE q = r
    BY <1>1, <1>11, <2>1, HearingFollows
  <2>2. CASE q # r
    BY <1>2, <1>11, <2>2 DEF HearStrongest, TypeOK
  <2> QED
    BY <2>1, <2>2
<1>12. ASSUME NEW q \in Peer, NEW i \in 1..Len(puts), setup_strongest_listener(q, i)
       PROVE  Following(r)'
  <2>1. CASE q = r
    BY <1>1, <1>12, <2>1, DecodingFollows
  <2>2. CASE q # r
    BY <1>2, <1>12, <2>2 DEF setup_strongest_listener, Decoded, TypeOK
  <2> QED
    BY <2>1, <2>2
<1>13. CASE UNCHANGED vars
  BY <1>2, <1>13 DEF vars
<1> QED
  BY <1>3, <1>4, <1>5, <1>6, <1>7, <1>8, <1>9, <1>10, <1>11, <1>12, <1>13 DEF Next

\* In every reachable state the host publishes what it has, and the peers follow.
LEMMA AlwaysFollowing == Spec => [](TypeOK /\ FollowingInv)
<1>1. Init => FollowingInv
  BY DEF Init, FollowingInv, Publishing, Following
<1>2. TypeOK /\ FollowingInv /\ [Next]_vars => FollowingInv'
  BY StepPublishing, StepFollowing DEF FollowingInv
<1> QED
  BY <1>1, <1>2, InitTypes, StepTypes, PTL DEF Spec

\* Every peer ends up with the host's value, whatever the interleaving of
\* updates, deliveries, decodes and runs, unless the decode that finished last
\* was overtaken: nothing is assumed of the order in which decodes finish
\* (setup_strongest_listener compares nothing, so this is all it ensures).
THEOREM PeersConverge == Spec => []PeersAgree
<1>1. TypeOK /\ FollowingInv => PeersAgree
  <2> SUFFICES ASSUME TypeOK, FollowingInv, NEW r \in Peer, Settled(r), Usable
               PROVE  items \subseteq merged /\ (shown[r] = merged \/ overtaken[r])
    BY DEF PeersAgree
  <2>1. items \subseteq merged
    BY DEF Settled, FollowingInv, Publishing
  <2>2. puts # <<>> /\ puts[Len(puts)] = merged
    BY DEF Settled, FollowingInv, Publishing
  <2>3. Len(puts) # 0
    BY <2>2, EmptySeq DEF TypeOK
  <2>4. overtaken[r] \/ shown[r] = puts[Len(puts)]
    BY <2>3 DEF Settled, FollowingInv, Following
  <2> QED
    BY <2>1, <2>2, <2>4
<1> QED
  BY <1>1, AlwaysFollowing, PTL
=============================================================================
