------------------------- MODULE ServerParts_proofs -------------------------
(***************************************************************************)
(* Proofs about the small machines of the server, its console and its Gun  *)
(* bridge: NetworkStream, PeerTable, CardOutput, GunInstance, GunResolve   *)
(* and GunCodec, as Parts runs them.                                       *)
(***************************************************************************)
EXTENDS Parts, Helpers_proofs, FiniteSetTheorems

-----------------------------------------------------------------------------
(* The first of a set of positions, and what is left of a sequence.        *)

\* A set of positions that is not empty has a first.
LEMMA FirstOf ==
  ASSUME NEW S \in SUBSET Nat, S # {}
  PROVE  (CHOOSE i \in S : \A j \in S : i <= j) \in S
BY LeastNumber

\* Taking one out of a sequence leaves a sequence that is shorter by one.
LEMMA OneLess ==
  ASSUME NEW S, NEW s \in Seq(S), NEW k \in DOMAIN s
  PROVE  RemoveAt(s, k) \in Seq(S) /\ Len(RemoveAt(s, k)) = Len(s) - 1
<1>. DEFINE a == SubSeq(s, 1, k - 1)
            b == SubSeq(s, k + 1, Len(s))
<1>1. Len(s) \in Nat /\ k \in 1..Len(s) /\ \A i \in 1..Len(s) : s[i] \in S
  OBVIOUS
<1>2. a \in Seq(S) /\ Len(a) = k - 1
  <2>1. \A i \in 1..(k - 1) : s[i] \in S
    BY <1>1
  <2>2. a \in Seq(S) /\ Len(a) = IF 1 <= k - 1 THEN (k - 1) - 1 + 1 ELSE 0
    BY <1>1, <2>1, SubSeqProperties
  <2>. QED BY <1>1, <2>2
<1>3. b \in Seq(S) /\ Len(b) = Len(s) - k
  <2>1. \A i \in (k + 1)..Len(s) : s[i] \in S
    BY <1>1
  <2>2. b \in Seq(S) /\ Len(b) = IF k + 1 <= Len(s) THEN Len(s) - (k + 1) + 1 ELSE 0
    BY <1>1, <2>1, SubSeqProperties
  <2>. QED BY <1>1, <2>2
<1>4. RemoveAt(s, k) = a \o b /\ a \o b \in Seq(S) /\ Len(a \o b) = Len(a) + Len(b)
  BY <1>2, <1>3, ConcatProperties DEF RemoveAt
<1>. HIDE DEF a, b
<1>. QED BY <1>1, <1>2, <1>3, <1>4

\* What a sequence holds.
LEMMA ElementOf ==
  ASSUME NEW S, NEW s \in Seq(S), NEW k \in DOMAIN s
  PROVE  s[k] \in S
OBVIOUS

\* Appending to a sequence.
LEMMA OneMore ==
  ASSUME NEW S, NEW s \in Seq(S), NEW x \in S
  PROVE  /\ Append(s, x) \in Seq(S) /\ Len(Append(s, x)) = Len(s) + 1
         /\ Append(s, x)[Len(s) + 1] = x
         /\ \A i \in DOMAIN s : Append(s, x)[i] = s[i]
OBVIOUS

\* Replacing one of a sequence.
LEMMA OneChanged ==
  ASSUME NEW S, NEW s \in Seq(S), NEW k \in DOMAIN s, NEW x \in S
  PROVE  /\ [s EXCEPT ![k] = x] \in Seq(S) /\ Len([s EXCEPT ![k] = x]) = Len(s)
         /\ DOMAIN [s EXCEPT ![k] = x] = DOMAIN s
OBVIOUS

-----------------------------------------------------------------------------
(* The network stream.                                                     *)

StreamTypes ==
  /\ beats \in Nat /\ queue \in Seq(Nat) /\ taken \in Seq(Nat)
  /\ waiter \in {"none", "set", "called"} /\ mode \in {"pull", "push"}
  /\ generator \in {"fresh", "pulls", "waits", "yielded", "done"}

\* Updates carry the numbers of their beats, from the taken to the queued.
Numbers ==
  /\ \A i \in 1..Len(taken) : taken[i] = i
  /\ \A i \in 1..Len(queue) : queue[i] = Len(taken) + i
  /\ ~closed => Len(taken) + Len(queue) = beats

Waiting == generator = "waits" => waiter = "called" \/ (waiter = "set" /\ queue = <<>> /\ ~closed)

\* The interval runs from the first next() to the end of the generator, or from
\* the call to its end.
Ticking ==
  /\ generator = "done" \/ ended => ~interval
  /\ mode = "push" => queue = <<>> /\ ~closed /\ generator = "fresh"
  /\ mode = "pull" => ~ended /\ (generator = "fresh" => ~interval)
  /\ returning => generator \in {"pulls", "waits"}

StreamInv == StreamTypes /\ Numbers /\ Waiting /\ Ticking

\* A sequence that numbers its elements.
LEMMA CountsUp ==
  ASSUME NEW s \in Seq(Nat), \A i \in 1..Len(s) : s[i] = i
  PROVE  s = [i \in 1..Len(s) |-> i]
OBVIOUS

LEMMA StreamSuffices ==
  ASSUME StreamInv
  PROVE  NothingLostNothingLeft
<1>. DEFINE all == taken \o queue
<1>1. taken \in Seq(Nat) /\ queue \in Seq(Nat)
  BY DEF StreamInv, StreamTypes
<1>2. /\ all \in Seq(Nat) /\ Len(all) = Len(taken) + Len(queue)
      /\ \A i \in 1..Len(all) : all[i] = IF i <= Len(taken) THEN taken[i] ELSE queue[i - Len(taken)]
  BY <1>1, ConcatProperties
<1>. HIDE DEF all
<1>3. ASSUME NEW i \in 1..Len(all) PROVE all[i] = i
  <2>1. Len(taken) \in Nat /\ Len(queue) \in Nat
    BY <1>1
  <2>2. CASE i <= Len(taken)
    <3>1. i \in 1..Len(taken) /\ all[i] = taken[i]
      BY <1>2, <2>1, <2>2
    <3>. QED BY <3>1 DEF StreamInv, Numbers
  <2>3. CASE ~(i <= Len(taken))
    <3>1. i - Len(taken) \in 1..Len(queue)
      BY <1>2, <2>1, <2>3
    <3>2. queue[i - Len(taken)] = Len(taken) + (i - Len(taken))
      BY <3>1 DEF StreamInv, Numbers
    <3>. QED BY <1>2, <2>1, <2>3, <3>2
  <2>. QED BY <2>2, <2>3
<1>4. all = [i \in 1..Len(all) |-> i] /\ taken = [i \in 1..Len(taken) |-> i]
  BY <1>1, <1>2, <1>3, CountsUp DEF StreamInv, Numbers
<1>5. ~closed => Len(all) = beats
  BY <1>2 DEF StreamInv, Numbers
<1>. QED BY <1>4, <1>5 DEF all, NothingLostNothingLeft, Stream!NothingLostNothingLeft,
            StreamInv, Waiting, Ticking

LEMMA StreamInit ==
  ASSUME Stream!Init
  PROVE  StreamInv
<1>1. taken = <<>> /\ queue = <<>> /\ Len(<<>>) = 0 /\ beats = 0
  BY DEF Stream!Init
<1>2. StreamTypes /\ Numbers
  BY <1>1 DEF Stream!Init, StreamTypes, Numbers
<1>3. Waiting /\ Ticking
  BY DEF Stream!Init, Waiting, Ticking
<1>. QED BY <1>2, <1>3 DEF StreamInv

\* A beat: the update joins the end of what was not taken, or what was written.
LEMMA StreamBeat ==
  ASSUME StreamInv, Stream!Beat
  PROVE  StreamInv'
<1>. USE DEF StreamInv
<1>1. /\ interval /\ beats' = beats + 1 /\ beats \in Nat
      /\ UNCHANGED <<mode, interval, generator, returning, ended, closed>>
  BY DEF Stream!Beat, Stream!push, Stream!bridge, StreamTypes
<1>2. Len(taken) \in Nat /\ Len(queue) \in Nat
  BY DEF StreamTypes
<1>3. CASE mode = "pull" /\ closed
  <2>1. UNCHANGED <<queue, taken, waiter>>
    BY <1>3 DEF Stream!Beat, Stream!push
  <2>. QED BY <1>1, <1>3, <2>1 DEF StreamTypes, Numbers, Waiting, Ticking
<1>4. CASE mode = "pull" /\ ~closed
  <2>1. queue' = Append(queue, beats') /\ taken' = taken /\ Stream!notify_waiter
    BY <1>4 DEF Stream!Beat, Stream!push
  <2>2. /\ queue' \in Seq(Nat) /\ Len(queue') = Len(queue) + 1
        /\ \A i \in 1..Len(queue') : queue'[i] = IF i = Len(queue) + 1 THEN beats' ELSE queue[i]
    BY <1>1, <2>1 DEF StreamTypes
  <2>3. StreamTypes'
    BY <1>1, <2>1, <2>2 DEF StreamTypes, Stream!notify_waiter
  <2>4. Numbers'
    BY <1>1, <1>2, <1>4, <2>1, <2>2 DEF Numbers
  <2>5. Waiting'
    BY <1>1, <2>1 DEF Waiting, Stream!notify_waiter
  <2>6. Ticking'
    BY <1>1, <1>4 DEF Ticking
  <2>. QED BY <2>3, <2>4, <2>5, <2>6
<1>5. CASE mode # "pull"
  <2>1. taken' = Append(taken, beats') /\ UNCHANGED <<queue, closed, waiter>>
    BY <1>5 DEF Stream!Beat, Stream!bridge
  <2>2. /\ taken' \in Seq(Nat) /\ Len(taken') = Len(taken) + 1
        /\ \A i \in 1..Len(taken') : taken'[i] = IF i = Len(taken) + 1 THEN beats' ELSE taken[i]
    BY <1>1, <2>1 DEF StreamTypes
  <2>3. mode = "push" /\ queue = <<>> /\ ~closed /\ generator = "fresh" /\ Len(queue) = 0
    BY <1>5 DEF StreamTypes, Ticking
  <2>4. StreamTypes'
    BY <1>1, <2>1, <2>2 DEF StreamTypes
  <2>5. Numbers'
    BY <1>1, <1>2, <2>1, <2>2, <2>3 DEF Numbers
  <2>6. Waiting' /\ Ticking'
    BY <1>1, <2>1, <2>3 DEF Waiting, Ticking
  <2>. QED BY <2>4, <2>5, <2>6
<1>. QED BY <1>3, <1>4, <1>5

\* The loop of the iterator takes the first of the queue, ends, or waits.
LEMMA StreamPull ==
  ASSUME StreamInv, Stream!Pull
  PROVE  StreamInv'
<1>. USE DEF StreamInv
<1>1. generator = "pulls" /\ mode = "pull" /\ UNCHANGED <<mode, beats, closed, ended>>
  BY DEF Stream!Pull, StreamTypes, Ticking
<1>2. Len(taken) \in Nat /\ Len(queue) \in Nat
  BY DEF StreamTypes
<1>3. CASE queue # <<>>
  <2>1. queue' = Tail(queue) /\ taken' = Append(taken, Head(queue)) /\ waiter' = waiter
    BY <1>3 DEF Stream!Pull
  <2>2. /\ Len(queue) >= 1 /\ Head(queue) = queue[1] /\ queue[1] = Len(taken) + 1
        /\ queue' \in Seq(Nat) /\ Len(queue') = Len(queue) - 1
        /\ \A i \in 1..Len(queue') : queue'[i] = queue[i + 1]
    BY <1>2, <1>3, <2>1, HeadTailProperties DEF StreamTypes, Numbers
  <2>3. /\ taken' \in Seq(Nat) /\ Len(taken') = Len(taken) + 1
        /\ \A i \in 1..Len(taken') : taken'[i] = IF i = Len(taken) + 1 THEN Head(queue) ELSE taken[i]
    BY <1>2, <2>1, <2>2 DEF StreamTypes
  <2>4. StreamTypes'
    <3>1. generator' \in {"done", "yielded"}
      BY <1>3 DEF Stream!Pull, Stream!Finish
    <3>. QED BY <1>1, <2>1, <2>2, <2>3, <3>1 DEF StreamTypes
  <2>5. Numbers'
    <3>1. ASSUME NEW i \in 1..Len(taken') PROVE taken'[i] = i
      <4>1. i \in 1..Len(taken) \/ i = Len(taken) + 1
        BY <1>2, <2>3
      <4>. QED BY <2>2, <2>3, <4>1 DEF Numbers
    <3>2. ASSUME NEW i \in 1..Len(queue') PROVE queue'[i] = Len(taken') + i
      <4>1. i + 1 \in 1..Len(queue)
        BY <1>2, <2>2
      <4>. QED BY <1>2, <2>2, <2>3, <4>1 DEF Numbers
    <3>. QED BY <1>1, <1>2, <2>2, <2>3, <3>1, <3>2 DEF Numbers
  <2>6. \/ generator' = "done" /\ interval' = FALSE /\ returning' = FALSE
        \/ generator' = "yielded" /\ returning' = returning /\ ~returning
    BY <1>3 DEF Stream!Pull, Stream!Finish
  <2>. QED BY <1>1, <2>4, <2>5, <2>6 DEF Waiting, Ticking
<1>4. CASE queue = <<>>
  <2>1. UNCHANGED <<queue, taken>>
    BY <1>4 DEF Stream!Pull
  <2>2. \/ generator' = "done" /\ interval' = FALSE /\ returning' = FALSE /\ waiter' = waiter
        \/ generator' = "waits" /\ waiter' = "set" /\ returning' = returning /\ ~closed
    BY <1>4 DEF Stream!Pull, Stream!Finish
  <2>. QED BY <1>1, <1>4, <2>1, <2>2 DEF StreamTypes, Numbers, Waiting, Ticking
<1>. QED BY <1>3, <1>4

\* The steps that neither take nor queue.
LEMMA StreamOthers ==
  ASSUME StreamInv,
         Stream!next \/ Stream!Wake \/ Stream!Return \/ Stream!Abort \/ Stream!EndOfCall
  PROVE  StreamInv'
<1>. USE DEF StreamInv
<1>1. UNCHANGED <<mode, beats, queue, taken>>
  BY DEF Stream!next, Stream!Wake, Stream!Return, Stream!Abort, Stream!EndOfCall, Stream!Finish,
         Stream!close, Stream!bridge
<1>2. CASE Stream!next
  <2>1. mode = "pull" /\ generator' = "pulls" /\ UNCHANGED <<closed, waiter, returning, ended>>
    BY <1>2 DEF Stream!next, Stream!bridge
  <2>. QED BY <1>1, <2>1 DEF StreamTypes, Numbers, Waiting, Ticking
<1>3. CASE Stream!Wake
  <2>1. generator = "waits" /\ generator' = "pulls" /\ waiter' = "none"
        /\ UNCHANGED <<interval, closed, returning, ended>>
    BY <1>3 DEF Stream!Wake
  <2>2. StreamTypes' /\ Numbers'
    BY <1>1, <2>1 DEF StreamTypes, Numbers
  <2>3. Waiting' /\ Ticking'
    BY <1>1, <2>1 DEF Waiting, Ticking
  <2>. QED BY <2>2, <2>3
<1>4. CASE Stream!Return
  <2>1. mode = "pull" /\ UNCHANGED <<closed, waiter, ended>>
    BY <1>4 DEF Stream!Return, Stream!bridge
  <2>2. \/ generator = "fresh" /\ generator' = "done" /\ UNCHANGED <<interval, returning>>
        \/ generator = "yielded" /\ generator' = "done" /\ interval' = FALSE /\ returning' = FALSE
        \/ generator \notin {"fresh", "yielded", "done"} /\ UNCHANGED <<generator, interval>>
    BY <1>4 DEF Stream!Return, Stream!Finish
  <2>. QED BY <1>1, <2>1, <2>2 DEF StreamTypes, Numbers, Waiting, Ticking
<1>5. CASE Stream!Abort
  <2>1. /\ mode = "pull" /\ UNCHANGED <<interval, generator, returning, ended>>
        /\ (closed' = TRUE /\ Stream!notify_waiter) \/ UNCHANGED <<closed, waiter>>
    BY <1>5 DEF Stream!Abort, Stream!bridge, Stream!close
  <2>. QED BY <1>1, <2>1 DEF StreamTypes, Numbers, Waiting, Ticking, Stream!notify_waiter
<1>6. CASE Stream!EndOfCall
  <2>1. mode = "push" /\ ended' = TRUE /\ interval' = FALSE /\ UNCHANGED <<closed, waiter, generator, returning>>
    BY <1>6 DEF Stream!EndOfCall, Stream!bridge
  <2>. QED BY <1>1, <2>1 DEF StreamTypes, Numbers, Waiting, Ticking
<1>. QED BY <1>2, <1>3, <1>4, <1>5, <1>6

LEMMA StreamStep ==
  ASSUME StreamInv, [Next]_Vars
  PROVE  StreamInv'
<1>1. Stream!Next \/ UNCHANGED streamVars
  BY DEF Next, Vars
<1>2. CASE Stream!Next
  BY <1>2, StreamBeat, StreamPull, StreamOthers DEF Stream!Next
<1>3. CASE UNCHANGED streamVars
  BY <1>3 DEF streamVars, StreamInv, StreamTypes, Numbers, Waiting, Ticking
<1>. QED BY <1>1, <1>2, <1>3

\* Every beat reaches the consumer once and in order, nobody waits while there is
\* something to take, and the interval ends with the stream (push, close,
\* wait_until_item_or_closed, cell_updates_iterable).
THEOREM StreamsLoseNothing == Spec => []NothingLostNothingLeft
<1>1. Init => StreamInv
  BY StreamInit DEF Init
<1>2. StreamInv /\ [Next]_Vars => StreamInv'
  BY StreamStep
<1>. QED BY <1>1, <1>2, StreamSuffices, PTL DEF Spec

-----------------------------------------------------------------------------
(* The peers of a console.                                                 *)

Id == Nat \ {0}

Peer  == [id : Id, port : Nat, active : BOOLEAN]
Setup == [id : Id, port : Nat, phase : Nat]

TableTypes ==
  /\ peers \in Seq(Peer)
  /\ setups \in Seq(Setup)
  /\ asking # Idle => asking \in [id : Id, port : Nat]

\* What is current is an active peer, if there is one.
Reached == Table!Actives # {} => current # NoPeer /\ \E i \in Table!Actives : peers[i].id = current

\* As long as creations did not overlap, ids are positions, and the one that is
\* asked about or set up will have the next.
Positions ==
  alone =>
    /\ \A i \in DOMAIN peers : peers[i].id = i
    /\ Len(setups) <= 1
    /\ setups # <<>> => asking = Idle /\ setups[1].id = Len(peers) + 1
    /\ asking # Idle => asking.id = Len(peers) + 1

TableInv == TableTypes /\ Reached /\ Positions


\* Found answers an active peer of that id when there is one, and 0 otherwise.
LEMMA Finding ==
  ASSUME TableTypes, NEW id
  PROVE  /\ Table!Found(id) # 0 => Table!Found(id) \in Table!Actives /\ peers[Table!Found(id)].id = id
         /\ (\E i \in Table!Actives : peers[i].id = id) => Table!Found(id) # 0
<1>. DEFINE named == {i \in Table!Actives : peers[i].id = id}
<1>1. named \in SUBSET Nat /\ 0 \notin named /\ named \subseteq Table!Actives
  BY DEF TableTypes, Table!Actives
<1>2. Table!Found(id) = IF named = {} THEN 0 ELSE CHOOSE i \in named : \A j \in named : i <= j
  BY DEF Table!Found
<1>3. CASE named = {}
  BY <1>2, <1>3
<1>4. CASE named # {}
  <2>1. Table!Found(id) \in named
    BY <1>1, <1>2, <1>4, FirstOf
  <2>. QED BY <1>1, <2>1
<1>. QED BY <1>3, <1>4

\* The invariant implies the property.
LEMMA TableSuffices ==
  ASSUME TableInv
  PROVE  CommandsReachAPeer
<1>1. Table!get_current_peer # 0 => Table!Actives # {}
  BY Finding DEF Table!get_current_peer, TableInv
<1>2. Table!Actives # {} => Table!get_current_peer # 0
  BY Finding DEF Table!get_current_peer, TableInv, Reached
<1>3. alone => \A i, j \in DOMAIN peers : peers[i].id = peers[j].id => i = j
  BY DEF TableInv, Positions
<1>. QED BY <1>1, <1>2, <1>3 DEF CommandsReachAPeer, Table!CommandsReachAPeer

\* It holds at the start.
LEMMA TableInit ==
  ASSUME Table!Init
  PROVE  TableInv
<1>1. TableTypes
  BY TableAssumption DEF Table!Init, TableTypes, Id
<1>2. Table!Actives = {} /\ DOMAIN peers = {} /\ Len(peers) = 0 /\ Len(setups) = 0
  BY DEF Table!Init, Table!Actives
<1>3. Reached /\ Positions
  BY <1>2 DEF Table!Init, Reached, Positions
<1>. QED BY <1>1, <1>3 DEF TableInv

\* Beginning a creation.
LEMMA PeerAsked ==
  ASSUME TableInv, NEW p \in Port \cup {NoPeer}, Table!handle_new_command(p)
  PROVE  TableInv'
<1>1. UNCHANGED <<peers, current, setups>> /\ Len(peers) \in Nat
  BY DEF Table!handle_new_command, TableInv, TableTypes
<1>2. asking'.id = Len(peers) + 1 /\ asking' \in [id : Id, port : Nat]
  <2>1. asking' = [id   |-> Len(peers) + 1,
                   port |-> IF p # NoPeer THEN p
                            ELSE IF peers = <<>> THEN FirstPort ELSE Last(peers).port + 1]
    BY DEF Table!handle_new_command, Table!Last, Last
  <2>2. ASSUME peers # <<>> PROVE Last(peers).port \in Nat
    <3>1. peers \in Seq(Peer)
      BY DEF TableInv, TableTypes
    <3>2. Len(peers) \in DOMAIN peers
      BY <2>2, <3>1
    <3>3. peers[Len(peers)] \in Peer
      BY <3>1, <3>2, ElementOf
    <3>. QED BY <3>3 DEF Last, Peer
  <2>. QED BY <1>1, <2>1, <2>2, TableAssumption DEF Id
<1>3. alone' => alone /\ setups' = <<>>
  BY <1>1 DEF Table!handle_new_command
<1>4. TableTypes'
  BY <1>1, <1>2 DEF TableInv, TableTypes
<1>5. Reached'
  BY <1>1 DEF TableInv, Reached, Table!Actives
<1>6. Positions'
  BY <1>1, <1>2, <1>3 DEF TableInv, Positions
<1>. QED BY <1>4, <1>5, <1>6 DEF TableInv

\* The answer: the set-up begins, unless the port is in use.
LEMMA PeerBegun ==
  ASSUME TableInv, NEW p \in Port \cup {NoPeer}, Table!create_peer(p)
  PROVE  TableInv'
<1>1. UNCHANGED <<peers, current, alone>> /\ asking # Idle /\ asking' = Idle
  BY DEF Table!create_peer
<1>2. PICK port \in Nat : \/ UNCHANGED setups
                          \/ setups' = Append(setups, [id |-> asking.id, port |-> port, phase |-> 1])
  <2>1. (IF p = NoPeer THEN asking.port ELSE p) \in Nat
    BY <1>1, TableAssumption DEF TableInv, TableTypes
  <2>. QED BY <2>1 DEF Table!create_peer
<1>3. TableTypes'
  <2>1. [id |-> asking.id, port |-> port, phase |-> 1] \in Setup
    BY <1>1 DEF TableInv, TableTypes, Setup
  <2>2. setups \in Seq(Setup) /\ peers \in Seq(Peer)
    BY DEF TableInv, TableTypes
  <2>3. setups' \in Seq(Setup)
    BY <1>2, <2>1, <2>2, OneMore
  <2>. QED BY <1>1, <2>2, <2>3 DEF TableTypes
<1>4. Reached'
  BY <1>1 DEF TableInv, Reached, Table!Actives
<1>5. Positions'
  <2>. SUFFICES ASSUME alone
                PROVE  /\ \A i \in DOMAIN peers' : peers'[i].id = i
                       /\ Len(setups') <= 1
                       /\ setups' # <<>> => setups'[1].id = Len(peers') + 1
    BY <1>1 DEF Positions
  <2>1. setups = <<>> /\ asking.id = Len(peers) + 1
    BY <1>1 DEF TableInv, Positions
  <2>2. \A i \in DOMAIN peers : peers[i].id = i
    BY DEF TableInv, Positions
  <2>3. CASE UNCHANGED setups
    BY <1>1, <2>1, <2>2, <2>3
  <2>4. CASE setups' = Append(setups, [id |-> asking.id, port |-> port, phase |-> 1])
    <3>. DEFINE new == [id |-> asking.id, port |-> port, phase |-> 1]
    <3>1. new.id = asking.id
      OBVIOUS
    <3>2. setups' = Append(<<>>, new)
      BY <2>1, <2>4
    <3>. HIDE DEF new
    <3>3. Len(setups') = 1 /\ setups'[1] = new
      BY <3>2
    <3>. QED BY <1>1, <2>1, <2>2, <3>1, <3>3
  <2>. QED BY <1>2, <2>3, <2>4
<1>. QED BY <1>3, <1>4, <1>5 DEF TableInv

\* The next phase of a set-up.
LEMMA PeerProceeding ==
  ASSUME TableInv, NEW k \in DOMAIN setups, Table!setupPeer(k)
  PROVE  TableInv'
<1>1. UNCHANGED <<peers, current, asking, alone>> /\ setups' = [setups EXCEPT ![k].phase = @ + 1]
  BY DEF Table!setupPeer
<1>2. setups' \in Seq(Setup) /\ Len(setups') = Len(setups)
      /\ \A i \in DOMAIN setups : setups'[i].id = setups[i].id
  <2>1. setups \in Seq(Setup) /\ setups[k] \in Setup
    BY ElementOf DEF TableInv, TableTypes
  <2>2. [setups[k] EXCEPT !.phase = @ + 1] \in Setup
        /\ [setups[k] EXCEPT !.phase = @ + 1].id = setups[k].id
    BY <2>1 DEF Setup
  <2>3. setups' = [setups EXCEPT ![k] = [setups[k] EXCEPT !.phase = @ + 1]]
    BY <1>1
  <2>. QED BY <2>1, <2>2, <2>3, OneChanged
<1>3. TableTypes' /\ Reached'
  BY <1>1, <1>2 DEF TableInv, TableTypes, Reached, Table!Actives
<1>4. Positions'
  <2>1. setups # <<>> => 1 \in DOMAIN setups
    BY DEF TableInv, TableTypes
  <2>2. setups' # <<>> => setups # <<>>
    BY <1>2 DEF TableInv, TableTypes
  <2>. QED BY <1>1, <1>2, <2>1, <2>2 DEF TableInv, Positions
<1>. QED BY <1>3, <1>4 DEF TableInv

\* The end of a set-up: the new peer is the current one, and when it was the
\* only one on its way its id is its position.
LEMMA PeerArrived ==
  ASSUME TableInv, NEW k \in DOMAIN setups, Table!Created(k)
  PROVE  TableInv'
<1>. DEFINE new == [id |-> setups[k].id, port |-> setups[k].port, active |-> TRUE]
            n == Len(peers) + 1
<1>1. /\ UNCHANGED <<asking, alone>> /\ current' = setups[k].id
      /\ peers' = Append(peers, new) /\ setups' = RemoveAt(setups, k)
  BY DEF Table!Created, Table!RemoveAt, RemoveAt
<1>2. setups[k] \in Setup
  BY ElementOf DEF TableInv, TableTypes
<1>3. new \in Peer /\ new.active /\ new.id = setups[k].id
  BY <1>2 DEF Peer, Setup
<1>. HIDE DEF new
<1>4. /\ peers' \in Seq(Peer)
      /\ DOMAIN peers = 1..Len(peers) /\ Len(peers) \in Nat
      /\ Len(peers') = n /\ DOMAIN peers' = 1..n /\ peers'[n] = new
      /\ \A i \in DOMAIN peers : peers'[i] = peers[i]
  BY <1>1, <1>3 DEF TableInv, TableTypes
<1>5. setups' \in Seq(Setup) /\ Len(setups') = Len(setups) - 1
  <2>1. setups \in Seq(Setup)
    BY DEF TableInv, TableTypes
  <2>. QED BY <1>1, <2>1, OneLess
<1>6. TableTypes'
  BY <1>1, <1>4, <1>5 DEF TableInv, TableTypes
<1>7. Reached'
  <2>1. n \in DOMAIN peers' /\ n \in Table!Actives'
    BY <1>3, <1>4 DEF Table!Actives
  <2>2. current' # NoPeer /\ peers'[n].id = current'
    BY <1>1, <1>2, <1>3, <1>4, TableAssumption DEF Setup, Id
  <2>. QED BY <2>1, <2>2 DEF Reached
<1>8. Positions'
  <2>. SUFFICES ASSUME alone
                PROVE  /\ \A i \in DOMAIN peers' : peers'[i].id = i
                       /\ setups' = <<>> /\ asking' = Idle
    BY <1>1 DEF Positions
  <2>1. Len(setups) <= 1 /\ DOMAIN setups = 1..Len(setups) /\ Len(setups) \in Nat
    BY DEF TableInv, Positions, TableTypes
  <2>2. k = 1 /\ Len(setups) = 1
    BY <2>1
  <2>3. setups # <<>>
    BY <2>2
  <2>4. asking = Idle /\ setups[k].id = n
    BY <2>2, <2>3 DEF TableInv, Positions
  <2>5. setups' = <<>>
    BY <1>5, <2>2
  <2>6. ASSUME NEW i \in DOMAIN peers' PROVE peers'[i].id = i
    <3>1. i \in DOMAIN peers \/ i = n
      BY <1>4
    <3>. QED BY <1>3, <1>4, <2>4, <3>1 DEF TableInv, Positions
  <2>. QED BY <1>1, <2>4, <2>5, <2>6
<1>. QED BY <1>6, <1>7, <1>8 DEF TableInv

\* A set-up that failed leaves the peers as they are.
LEMMA PeerGivenUp ==
  ASSUME TableInv, NEW k \in DOMAIN setups, Table!Failed(k)
  PROVE  TableInv'
<1>1. UNCHANGED <<peers, current, asking, alone>> /\ setups' = RemoveAt(setups, k)
  BY DEF Table!Failed, Table!RemoveAt, RemoveAt
<1>2. setups' \in Seq(Setup) /\ Len(setups') = Len(setups) - 1
  <2>1. setups \in Seq(Setup)
    BY DEF TableInv, TableTypes
  <2>. QED BY <1>1, <2>1, OneLess
<1>3. TableTypes' /\ Reached'
  BY <1>1, <1>2 DEF TableInv, TableTypes, Reached, Table!Actives
<1>4. Positions'
  <2>. SUFFICES ASSUME alone
                PROVE  /\ \A i \in DOMAIN peers : peers[i].id = i
                       /\ setups' = <<>>
                       /\ asking # Idle => asking.id = Len(peers) + 1
    BY <1>1, <1>2 DEF Positions
  <2>1. Len(setups) <= 1 /\ DOMAIN setups = 1..Len(setups) /\ Len(setups) \in Nat
    BY DEF TableInv, Positions, TableTypes
  <2>2. Len(setups) = 1
    BY <2>1
  <2>3. setups' = <<>>
    BY <1>2, <2>2
  <2>. QED BY <2>3 DEF TableInv, Positions
<1>. QED BY <1>3, <1>4 DEF TableInv

\* Another peer becomes the current one.
LEMMA PeerUsed ==
  ASSUME TableInv, NEW id, Table!handle_use_command(id)
  PROVE  TableInv'
<1>1. UNCHANGED <<peers, asking, setups, alone>> /\ current' = id /\ Table!Found(id) # 0
  BY DEF Table!handle_use_command
<1>2. Table!Found(id) \in Table!Actives /\ peers[Table!Found(id)].id = id
  BY <1>1, Finding DEF TableInv
<1>3. id \in Id
  <2>1. peers[Table!Found(id)] \in Peer
    BY <1>2, ElementOf DEF TableInv, TableTypes, Table!Actives
  <2>. QED BY <1>2, <2>1 DEF Peer
<1>4. TableTypes' /\ Positions'
  BY <1>1 DEF TableInv, TableTypes, Positions
<1>5. Reached'
  BY <1>1, <1>2, <1>3, TableAssumption DEF Reached, Table!Actives, Id
<1>. QED BY <1>4, <1>5 DEF TableInv

\* A peer is closed; if it was the current one, the first that is left is.
LEMMA PeerClosed ==
  ASSUME TableInv, NEW id, Table!handle_close_command(id)
  PROVE  TableInv'
<1>. DEFINE f == Table!Found(id)
            left == Table!Actives \ {f}
            first == CHOOSE i \in left : \A j \in left : i <= j
<1>1. /\ UNCHANGED <<asking, setups, alone>> /\ f # 0
      /\ peers' = [peers EXCEPT ![f].active = FALSE]
      /\ current' = IF current # id THEN current
                    ELSE IF left = {} THEN NoPeer ELSE peers[first].id
  BY DEF Table!handle_close_command
<1>2. f \in Table!Actives /\ f \in DOMAIN peers /\ peers[f].id = id
  BY <1>1, Finding DEF TableInv, Table!Actives
<1>. HIDE DEF f
<1>3. /\ peers' \in Seq(Peer)
      /\ Len(peers') = Len(peers) /\ DOMAIN peers' = DOMAIN peers
      /\ \A i \in DOMAIN peers : peers'[i].id = peers[i].id /\ peers[i].id \in Id
      /\ \A i \in DOMAIN peers : peers'[i].active = (peers[i].active /\ i # f)
  <2>1. peers \in Seq(Peer) /\ \A i \in DOMAIN peers : peers[i] \in Peer
    BY ElementOf DEF TableInv, TableTypes
  <2>2. peers' = [peers EXCEPT ![f] = [peers[f] EXCEPT !.active = FALSE]]
    BY <1>1
  <2>3. /\ [peers[f] EXCEPT !.active = FALSE] \in Peer
        /\ [peers[f] EXCEPT !.active = FALSE].id = peers[f].id
        /\ [peers[f] EXCEPT !.active = FALSE].active = FALSE
    BY <1>2, <2>1 DEF Peer
  <2>4. peers' \in Seq(Peer) /\ Len(peers') = Len(peers) /\ DOMAIN peers' = DOMAIN peers
    BY <1>2, <2>1, <2>2, <2>3, OneChanged
  <2>5. ASSUME NEW i \in DOMAIN peers
        PROVE  /\ peers'[i].id = peers[i].id /\ peers[i].id \in Id
               /\ peers'[i].active = (peers[i].active /\ i # f)
    <3>1. peers'[i] = IF i = f THEN [peers[f] EXCEPT !.active = FALSE] ELSE peers[i]
      BY <2>2
    <3>2. peers[i].id \in Id /\ peers[i].active \in BOOLEAN
      BY <2>1 DEF Peer
    <3>3. CASE i = f
      BY <2>3, <3>1, <3>2, <3>3
    <3>4. CASE i # f
      BY <3>1, <3>2, <3>4
    <3>. QED BY <3>3, <3>4
  <2>. QED BY <2>4, <2>5
<1>4. Table!Actives' = left
  BY <1>3 DEF Table!Actives
<1>5. left \in SUBSET Nat /\ left \subseteq DOMAIN peers
  BY DEF Table!Actives, TableInv, TableTypes
<1>6. TableTypes'
  BY <1>1, <1>3 DEF TableInv, TableTypes
<1>7. Positions'
  BY <1>1, <1>3 DEF TableInv, Positions
<1>8. Reached'
  <2>. SUFFICES ASSUME left # {}
                PROVE  current' # NoPeer /\ \E i \in left : peers'[i].id = current'
    BY <1>4 DEF Reached
  <2>1. CASE current # id
    <3>1. PICK i \in Table!Actives : current # NoPeer /\ peers[i].id = current
      BY DEF TableInv, Reached
    <3>2. i \in left
      BY <1>2, <2>1, <3>1
    <3>. QED BY <1>1, <1>3, <1>5, <2>1, <3>1, <3>2
  <2>2. CASE current = id
    <3>1. first \in left
      BY <1>5, FirstOf
    <3>2. current' = peers[first].id
      BY <1>1, <2>2
    <3>. HIDE DEF first
    <3>. QED BY <1>3, <1>5, <3>1, <3>2, TableAssumption DEF Id
  <2>. QED BY <2>1, <2>2
<1>. QED BY <1>6, <1>7, <1>8 DEF TableInv

\* Every step keeps the invariant.
LEMMA TableStep ==
  ASSUME TableInv, [Next]_Vars
  PROVE  TableInv'
<1>1. Table!Next \/ UNCHANGED tableVars
  BY DEF Next, Vars
<1>2. CASE \E p \in Port \union {NoPeer} : Table!handle_new_command(p) \/ Table!create_peer(p)
  BY <1>2, PeerAsked, PeerBegun
<1>3. CASE \E k \in DOMAIN setups : Table!setupPeer(k) \/ Table!Created(k) \/ Table!Failed(k)
  BY <1>3, PeerProceeding, PeerArrived, PeerGivenUp
<1>4. CASE \E id \in 1..MaxPeers : Table!handle_use_command(id) \/ Table!handle_close_command(id)
  BY <1>4, PeerUsed, PeerClosed
<1>5. CASE Table!handle_exit_command \/ Table!close \/ UNCHANGED tableVars
  <2>1. UNCHANGED <<peers, current, asking, setups, alone>>
    BY <1>5 DEF Table!handle_exit_command, Table!close, tableVars
  <2>. QED BY <2>1 DEF TableInv, TableTypes, Reached, Positions, Table!Actives
<1>. QED BY <1>1, <1>2, <1>3, <1>4, <1>5 DEF Table!Next

\* Whatever creations, uses and closings overlap, a command reaches a peer when
\* one is active, and ids are unique while creations did not overlap
\* (handle_new_command, handle_close_command, get_current_peer).
THEOREM PeersAreReached == Spec => []CommandsReachAPeer
<1>1. Init => TableInv
  BY TableInit DEF Init
<1>2. TableInv /\ [Next]_Vars => TableInv'
  BY TableStep
<1>. QED BY <1>1, <1>2, TableSuffices, PTL DEF Spec

-----------------------------------------------------------------------------
(* What the streams are told of the cards.                                 *)

\* What a stream is told of a card that shows v.
Heard(v) == Output!encode_value(Output!Layered(v))

OutputTypes ==
  /\ subscribed \subseteq Session /\ table \subseteq Card
  /\ DOMAIN told = Session /\ DOMAIN since = Session
  /\ DOMAIN this = Card /\ DOMAIN writes = Card

\* A slot map has the code of cards, and the code is something.
Coded(map) == \A k \in DOMAIN map : /\ k \in Card \X {"code"}
                                    /\ map[k] \notin {None, Output!Nothing}

Codes == \A s \in DOMAIN slotMap : Coded(slotMap[s])

OutputInv == OutputTypes /\ Codes /\ Output!StreamsAreCurrent

\* The key that appends the name of a slot to an id is taken apart into the two.
LEMMA KeyTakenApart ==
  ASSUME NEW S, NEW id \in Seq(S), \A i \in DOMAIN id : ~Output!StartsSlot(id[i]),
         NEW token \in S, Output!StartsSlot(token), token # "code"
  PROVE  Output!key_to_card_and_slot(Append(id, token)) = [card_id |-> id, slot |-> <<token>>]
<1>. DEFINE n   == Len(id)
            key == Append(id, token)
<1>1. n \in Nat /\ DOMAIN id = 1..n
  OBVIOUS
<1>2. /\ key \in Seq(S) /\ key # <<>> /\ Len(key) = n + 1 /\ key[n + 1] = token
      /\ \A i \in 1..n : key[i] = id[i]
  BY <1>1, AppendProperties
<1>. HIDE DEF n, key
<1>3. DOMAIN key = 1..(n + 1)
  BY <1>1, <1>2
<1>4. {i \in DOMAIN key : Output!StartsSlot(key[i])} = {n + 1}
  BY <1>1, <1>2, <1>3 DEF Output!StartsSlot
<1>5. (CHOOSE i \in {n + 1} : \A j \in {n + 1} : i <= j) = n + 1
  BY <1>1
<1>6. SubSeq(key, 1, n) = id
  <2>1. \A i \in 1..n : key[i] \in S
    BY <1>1, <1>2
  <2>2. /\ SubSeq(key, 1, n) \in Seq(S) /\ Len(SubSeq(key, 1, n)) = n
        /\ \A i \in 1..n : SubSeq(key, 1, n)[i] = key[i]
    <3>1. /\ SubSeq(key, 1, n) \in Seq(S)
          /\ Len(SubSeq(key, 1, n)) = IF 1 <= n THEN n - 1 + 1 ELSE 0
          /\ \A i \in 1..(n - 1 + 1) : SubSeq(key, 1, n)[i] = key[1 + i - 1]
      BY <1>1, <2>1, SubSeqProperties
    <3>2. \A i \in 1..n : i \in 1..(n - 1 + 1) /\ 1 + i - 1 = i
      BY <1>1
    <3>. QED BY <1>1, <3>1, <3>2
  <2>3. n = Len(id)
    BY DEF n
  <2>. QED BY <1>1, <1>2, <2>2, <2>3, SeqEqual
<1>7. SubSeq(key, n + 1, n + 1) = <<token>>
  <2>1. \A i \in (n + 1)..(n + 1) : key[i] \in S
    BY <1>1, <1>2
  <2>2. /\ SubSeq(key, n + 1, n + 1) \in Seq(S)
        /\ Len(SubSeq(key, n + 1, n + 1)) = IF n + 1 <= n + 1 THEN (n + 1) - (n + 1) + 1 ELSE 0
        /\ \A i \in 1..((n + 1) - (n + 1) + 1) : SubSeq(key, n + 1, n + 1)[i] = key[(n + 1) + i - 1]
    BY <1>1, <2>1, SubSeqProperties
  <2>3. Len(SubSeq(key, n + 1, n + 1)) = 1 /\ SubSeq(key, n + 1, n + 1)[1] = token
    BY <1>1, <1>2, <2>2
  <2>4. <<token>> \in Seq(S) /\ Len(<<token>>) = 1 /\ <<token>>[1] = token
    OBVIOUS
  <2>5. SubSeq(key, n + 1, n + 1) \in Seq(S)
    BY <2>2
  <2>6. \A i \in 1..1 : SubSeq(key, n + 1, n + 1)[i] = <<token>>[i]
    <3>1. \A i \in 1..1 : i = 1
      OBVIOUS
    <3>. QED BY <2>3, <2>4, <3>1, Zenon
  <2>. QED BY <2>3, <2>4, <2>5, <2>6, SeqEqual
<1>8. key[Len(key)] # "code" /\ n + 1 - 1 = n
  BY <1>1, <1>2
<1>9. Output!key_to_card_and_slot(key) = [card_id |-> id, slot |-> <<token>>]
  <2>. DEFINE starts == {i \in DOMAIN key : Output!StartsSlot(key[i])}
              first  == CHOOSE i \in starts : \A j \in starts : i <= j
  <2>1. starts # {} /\ first = n + 1
    BY <1>4, <1>5, Zenon
  <2>2. Output!key_to_card_and_slot(key) =
          IF key # <<>> /\ key[Len(key)] = "code"
          THEN [card_id |-> SubSeq(key, 1, Len(key) - 1), slot |-> <<"code">>]
          ELSE IF starts = {} THEN [card_id |-> key, slot |-> <<>>]
          ELSE [card_id |-> SubSeq(key, 1, first - 1), slot |-> SubSeq(key, first, Len(key))]
    BY Zenon DEF Output!key_to_card_and_slot
  <2>. HIDE DEF starts, first
  <2>3. Output!key_to_card_and_slot(key) =
          [card_id |-> SubSeq(key, 1, first - 1), slot |-> SubSeq(key, first, Len(key))]
    BY <1>8, <2>1, <2>2, Zenon
  <2>4. first - 1 = n /\ Len(key) = n + 1
    BY <1>1, <1>2, <2>1
  <2>. QED BY <1>6, <1>7, <2>1, <2>3, <2>4, Zenon
<1>. QED BY <1>9 DEF key

\* The key of a card's ::this is taken apart into its id and the slot.
LEMMA KeyOfThis ==
  ASSUME NEW d \in Card
  PROVE  Output!key_to_card_and_slot(Append(Name[d], "::this")) = [card_id |-> Name[d], slot |-> <<"::this">>]
<1>. DEFINE Token == STRING \union {"::this"}
<1>1. Name[d] \in Seq(Token) /\ "::this" \in Token
  <2>1. Name[d] \in Seq(STRING)
    BY OutputAssumption
  <2>. QED BY <2>1
<1>2. \A i \in DOMAIN Name[d] : ~Output!StartsSlot(Name[d][i])
  BY OutputAssumption
<1>3. Output!StartsSlot("::this") /\ "::this" # "code"
  BY DEF Output!StartsSlot
<1>. HIDE DEF Token
<1>. QED BY <1>1, <1>2, <1>3, KeyTakenApart, Zenon

\* A stream that is subscribed hears of the cards that are emitted, and of no other.
LEMMA Emitted ==
  ASSUME NEW C \in SUBSET Card, NEW values
  PROVE  /\ DOMAIN Output!emit_runtime_card_output_io(C, values) = Session
         /\ \A s \in Session, c \in Card :
              Output!emit_runtime_card_output_io(C, values)[s][c] =
                IF s \in subscribed /\ c \in C THEN Heard(values[c]) ELSE told[s][c]
<1>. DEFINE after == Output!emit_runtime_card_output_io(C, values)
            about(c) == {d \in C : LET m == Output!to_card_update_message(Append(Name[d], "::this"),
                                                                          Output!Layered(values[d]))
                                   IN  m.card_id = Name[c] /\ m.slot = <<"::this">>}
<1>1. ASSUME NEW c \in Card PROVE about(c) = C \intersect {c}
  <2>1. ASSUME NEW d \in C
        PROVE  LET m == Output!to_card_update_message(Append(Name[d], "::this"), Output!Layered(values[d]))
               IN  m.card_id = Name[d] /\ m.slot = <<"::this">>
    <3>. DEFINE key == Append(Name[d], "::this")
    <3>1. Output!key_to_card_and_slot(key) = [card_id |-> Name[d], slot |-> <<"::this">>]
      BY KeyOfThis
    <3>. HIDE DEF key
    <3>2. LET m == Output!to_card_update_message(key, Output!Layered(values[d]))
          IN  m.card_id = Name[d] /\ m.slot = <<"::this">>
      BY <3>1 DEF Output!to_card_update_message
    <3>. QED BY <3>2 DEF key
  <2>2. \A d \in C : Name[d] = Name[c] <=> d = c
    BY OutputAssumption
  <2>. HIDE DEF after
  <2>. QED BY <2>1, <2>2
<1>2. DOMAIN after = Session
  BY DEF Output!emit_runtime_card_output_io
<1>3. ASSUME NEW s \in Session, NEW c \in Card
      PROVE  after[s][c] = IF s \in subscribed /\ c \in C THEN Heard(values[c]) ELSE told[s][c]
  <2>1. after[s][c] = IF s \in subscribed /\ about(c) # {}
                      THEN Output!encode_value(Output!Layered(values[CHOOSE d \in about(c) : TRUE]))
                      ELSE told[s][c]
    BY DEF Output!emit_runtime_card_output_io
  <2>. HIDE DEF after, about
  <2>2. c \in C => about(c) = {c} /\ (CHOOSE d \in {c} : TRUE) = c
    BY <1>1
  <2>3. c \notin C => about(c) = {}
    BY <1>1
  <2>. QED BY <2>1, <2>2, <2>3 DEF Heard
<1>. QED BY <1>2, <1>3

\* The cards that were written and those that show something else.
LEMMA Echoes ==
  ASSUME OutputInv
  PROVE  /\ Output!Written = {c \in Card : writes[c] # None} /\ Output!Written \in SUBSET Card
         /\ DOMAIN Output!no_echo_card_io = Card
         /\ \A c \in Card : Output!no_echo_card_io[c] = IF c \in Output!Written THEN writes[c] ELSE this[c]
BY DEF Output!Written, Output!no_echo_card_io

LEMMA OutputInit ==
  ASSUME Output!Init
  PROVE  OutputInv
BY DEF Output!Init, OutputInv, OutputTypes, Codes, Output!StreamsAreCurrent

\* The scheduler runs.
LEMMA OutputFlush ==
  ASSUME OutputInv, Output!Flush
  PROVE  OutputInv'
<1>1. /\ UNCHANGED <<slotMap, subscribed, table, orphaned, since>>
      /\ this' = Output!no_echo_card_io /\ writes' = [c \in Card |-> None]
      /\ told' = Output!emit_runtime_card_output_io(Output!Written, Output!no_echo_card_io)
  BY DEF Output!Flush
<1>2. DOMAIN told' = Session /\ \A s \in Session, c \in Card :
        told'[s][c] = IF s \in subscribed /\ c \in Output!Written THEN Heard(this'[c]) ELSE told[s][c]
  BY <1>1, Echoes, Emitted
<1>3. OutputTypes' /\ Codes'
  BY <1>1, <1>2, Echoes DEF OutputInv, OutputTypes, Codes
<1>4. Output!StreamsAreCurrent'
  <2>. SUFFICES ASSUME NEW s \in subscribed, NEW c \in table \ orphaned, c \in since[s]
                PROVE  told'[s][c] = Heard(this'[c])
    BY <1>1 DEF Output!StreamsAreCurrent, Heard
  <2>1. s \in Session /\ c \in Card
    BY DEF OutputInv, OutputTypes
  <2>2. CASE c \in Output!Written
    BY <1>2, <2>1, <2>2
  <2>3. CASE c \notin Output!Written
    <3>1. writes[c] = None /\ this'[c] = this[c]
      BY <1>1, <2>1, <2>3, Echoes
    <3>2. told[s][c] = Heard(this[c])
      BY <3>1 DEF OutputInv, Output!StreamsAreCurrent, Heard
    <3>. QED BY <1>2, <2>1, <2>3, <3>1, <3>2
  <2>. QED BY <2>2, <2>3
<1>. QED BY <1>3, <1>4 DEF OutputInv

\* A network of the card computes.
LEMMA OutputComputes ==
  ASSUME OutputInv, NEW c \in Card, NEW v, Output!Computes(c, v)
  PROVE  OutputInv'
<1>1. /\ UNCHANGED <<slotMap, subscribed, table, writes, orphaned>>
      /\ this' = [this EXCEPT ![c] = v]
      /\ told' = Output!emit_runtime_card_output_io({c}, this') /\ since' = Output!Concerns({c}, {})
  BY DEF Output!Computes
<1>2. DOMAIN told' = Session /\ \A s \in Session, e \in Card :
        told'[s][e] = IF s \in subscribed /\ e \in {c} THEN Heard(this'[e]) ELSE told[s][e]
  <2>. DEFINE C      == {c}
              values == [this EXCEPT ![c] = v]
  <2>1. this' = values /\ told' = Output!emit_runtime_card_output_io(C, values)
    BY <1>1
  <2>2. C \in SUBSET Card
    OBVIOUS
  <2>. HIDE DEF C, values
  <2>3. /\ DOMAIN told' = Session
        /\ \A s \in Session, e \in Card :
             told'[s][e] = IF s \in subscribed /\ e \in C THEN Heard(this'[e]) ELSE told[s][e]
    <3>1. DOMAIN Output!emit_runtime_card_output_io(C, values) = Session
      BY <2>2, Emitted
    <3>2. ASSUME NEW s \in Session, NEW e \in Card
          PROVE  Output!emit_runtime_card_output_io(C, values)[s][e] =
                   IF s \in subscribed /\ e \in C THEN Heard(values[e]) ELSE told[s][e]
      BY <2>2, Emitted
    <3>. QED BY <2>1, <3>1, <3>2
  <2>. QED BY <2>3 DEF C
<1>3. DOMAIN since' = Session /\ \A s \in Session : s \in subscribed => since'[s] = since[s] \union {c}
  BY <1>1 DEF Output!Concerns
<1>4. OutputTypes' /\ Codes'
  BY <1>1, <1>2, <1>3 DEF OutputInv, OutputTypes, Codes
<1>5. Output!StreamsAreCurrent'
  <2>. SUFFICES ASSUME NEW s \in subscribed, NEW e \in table \ orphaned, e \in since'[s], writes[e] = None
                PROVE  told'[s][e] = Heard(this'[e])
    BY <1>1 DEF Output!StreamsAreCurrent, Heard
  <2>1. s \in Session /\ e \in Card
    BY DEF OutputInv, OutputTypes
  <2>2. CASE e = c
    BY <1>2, <2>1, <2>2
  <2>3. CASE e # c
    <3>1. e \in since[s] /\ this'[e] = this[e]
      BY <1>1, <1>3, <2>1, <2>3 DEF OutputInv, OutputTypes
    <3>2. told[s][e] = Heard(this[e])
      BY <3>1 DEF OutputInv, Output!StreamsAreCurrent, Heard
    <3>. QED BY <1>2, <2>1, <2>3, <3>1, <3>2
  <2>. QED BY <2>2, <2>3
<1>. QED BY <1>4, <1>5 DEF OutputInv

\* A network of replaced metadata computes.
LEMMA OutputOrphan ==
  ASSUME OutputInv, NEW c \in Card, NEW v, Output!OrphanComputes(c, v)
  PROVE  OutputInv'
<1>1. /\ UNCHANGED <<slotMap, subscribed, table, this, writes, orphaned, since>>
      /\ c \in orphaned /\ told' = Output!emit_runtime_card_output_io({c}, [this EXCEPT ![c] = v])
  BY DEF Output!OrphanComputes
<1>2. DOMAIN told' = Session /\ \A s \in Session, e \in Card : e # c => told'[s][e] = told[s][e]
  BY <1>1, Emitted
<1>3. OutputTypes' /\ Codes'
  BY <1>1, <1>2 DEF OutputInv, OutputTypes, Codes
<1>4. Output!StreamsAreCurrent'
  <2>. SUFFICES ASSUME NEW s \in subscribed, NEW e \in table \ orphaned, e \in since[s], writes[e] = None
                PROVE  told'[s][e] = Heard(this[e])
    BY <1>1 DEF Output!StreamsAreCurrent, Heard
  <2>1. s \in Session /\ e \in Card /\ e # c
    BY <1>1 DEF OutputInv, OutputTypes
  <2>. QED BY <1>2, <2>1 DEF OutputInv, Output!StreamsAreCurrent, Heard
<1>. QED BY <1>3, <1>4 DEF OutputInv

\* A stream ends.
LEMMA OutputEnds ==
  ASSUME OutputInv, NEW s \in Session, Output!EndStream(s)
  PROVE  OutputInv'
<1>1. /\ UNCHANGED <<table, this, writes, orphaned>> /\ subscribed' = subscribed \ {s}
      /\ slotMap' = [t \in DOMAIN slotMap \ {s} |-> slotMap[t]]
      /\ told' = [told EXCEPT ![s] = [c \in Card |-> None]] /\ since' = [since EXCEPT ![s] = {}]
  BY DEF Output!EndStream
<1>2. OutputTypes' /\ Codes'
  BY <1>1 DEF OutputInv, OutputTypes, Codes
<1>3. \A t \in subscribed' : t \in subscribed /\ told'[t] = told[t] /\ since'[t] = since[t]
  BY <1>1 DEF OutputInv, OutputTypes
<1>4. Output!StreamsAreCurrent'
  <2>. SUFFICES ASSUME NEW t \in subscribed', NEW c \in table \ orphaned, c \in since[t], writes[c] = None
                PROVE  told[t][c] = Heard(this[c])
    BY <1>1, <1>3 DEF Output!StreamsAreCurrent, Heard
  <2>. QED BY <1>3 DEF OutputInv, Output!StreamsAreCurrent, Heard
<1>. QED BY <1>2, <1>4 DEF OutputInv

\* Events are applied: what a stream knew of a card that is neither removed nor
\* added, it knows again, as soon as nothing is written to the card.
LEMMA OutputApplied ==
  ASSUME OutputInv, NEW ev, NEW map, ev.add \union ev.remove \union ev.update \subseteq Card,
         \A c \in ev.update : Output!CodeOf(map, c) # None, Output!Applied(ev, map)
  PROVE  /\ DOMAIN told' = Session /\ DOMAIN this' = Card /\ DOMAIN writes' = Card /\ table' \subseteq Card
         /\ \A s \in subscribed, c \in table' \ orphaned' :
              c \notin ev.add \union ev.remove /\ c \in since[s] /\ writes'[c] = None
              => told'[s][c] = Heard(this'[c])
<1>. DEFINE runs == ev.add # {}
            echo == Output!no_echo_card_io
            C    == Output!Written \ ev.remove
            ts   == [c \in Card |-> IF c \in ev.add \union ev.remove THEN Output!Nothing
                                    ELSE IF runs THEN echo[c] ELSE this[c]]
            ps   == [c \in Card |-> IF runs \/ c \in ev.remove THEN None ELSE writes[c]]
            new(c) == Output!Updated(c, Output!CodeOf(map, c), ts, ps)
            emitted == Output!emit_runtime_card_output_io(C, echo)
<1>1. /\ this' = ts /\ writes' = [c \in Card |-> IF c \in ev.update THEN new(c) ELSE ps[c]]
      /\ told' = IF runs THEN emitted ELSE told
      /\ table' = (table \ ev.remove) \union ev.add
      /\ orphaned' = orphaned \union (compiled \intersect ev.add)
  BY DEF Output!Applied, Output!apply_card_api_events_io
<1>2. DOMAIN ts = Card /\ \A c \in Card : c \notin ev.add \union ev.remove =>
         /\ ts[c] = IF runs THEN echo[c] ELSE this[c]
         /\ ps[c] = IF runs THEN None ELSE writes[c]
  OBVIOUS
<1>3. \A c \in ev.update : new(c) = IF ts[c] = Output!CodeOf(map, c) THEN ps[c] ELSE Output!CodeOf(map, c)
  BY DEF Output!Updated
<1>4. C \in SUBSET Card
  BY Echoes
<1>. HIDE DEF runs, echo, C, ts, ps, new, emitted
<1>5. /\ DOMAIN emitted = Session
      /\ \A s \in Session, c \in Card :
           emitted[s][c] = IF s \in subscribed /\ c \in C THEN Heard(echo[c]) ELSE told[s][c]
  BY <1>4, Emitted DEF emitted
<1>6. DOMAIN told' = Session /\ DOMAIN this' = Card /\ DOMAIN writes' = Card /\ table' \subseteq Card
  BY <1>1, <1>2, <1>5 DEF OutputInv, OutputTypes
<1>7. ASSUME NEW s \in subscribed, NEW c \in table' \ orphaned',
             c \notin ev.add \union ev.remove, c \in since[s], writes'[c] = None
      PROVE  told'[s][c] = Heard(this'[c])
  <2>1. s \in Session /\ c \in Card /\ c \in table \ orphaned
    BY <1>1, <1>6, <1>7 DEF OutputInv, OutputTypes
  <2>2. ps[c] = None
    BY <1>1, <1>3, <1>7, <2>1
  <2>3. writes[c] = None => told[s][c] = Heard(this[c])
    BY <1>7, <2>1 DEF OutputInv, Output!StreamsAreCurrent, Heard
  <2>4. CASE runs
    <3>1. this'[c] = echo[c] /\ told'[s][c] = IF c \in C THEN Heard(echo[c]) ELSE told[s][c]
      BY <1>1, <1>2, <1>5, <1>7, <2>1, <2>4
    <3>2. CASE c \in C
      BY <3>1, <3>2
    <3>3. CASE c \notin C
      <4>1. writes[c] = None /\ echo[c] = this[c]
        BY <1>7, <2>1, <3>3, Echoes DEF C, echo
      <4>. QED BY <2>3, <3>1, <3>3, <4>1
    <3>. QED BY <3>2, <3>3
  <2>5. CASE ~runs
    BY <1>1, <1>2, <1>7, <2>1, <2>2, <2>3, <2>5
  <2>. QED BY <2>4, <2>5
<1>. QED BY <1>6, <1>7

\* What slot maps of code are made of, and what the difference of two names.
LEMMA Differences ==
  ASSUME NEW prev, Coded(prev), NEW next, Coded(next),
         NEW ev, ev = Output!Maps!diff_slot_maps_to_card_api_events(prev, next)
  PROVE  /\ ev.add \union ev.remove \union ev.update \subseteq Card
         /\ \A c \in ev.update : Output!CodeOf(next, c) \notin {None, Output!Nothing}
<1>1. \A m : Coded(m) => Output!Maps!collect_card_ids(m) \subseteq Card
  BY DEF Coded, Output!Maps!collect_card_ids
<1>2. /\ ev.add \subseteq Output!Maps!collect_card_ids(next)
      /\ ev.remove \subseteq Output!Maps!collect_card_ids(prev)
      /\ ev.update = Output!Maps!sync_code_slots(prev, next)
  BY DEF Output!Maps!diff_slot_maps_to_card_api_events
<1>3. /\ ev.update \subseteq Output!Maps!collect_card_ids(next)
      /\ \A c \in ev.update : <<c, "code">> \in DOMAIN next
  BY <1>2 DEF Output!Maps!sync_code_slots, Output!Maps!HasCode
<1>. QED BY <1>1, <1>2, <1>3 DEF Coded, Output!CodeOf

\* What follows no map adds every card it updates.
LEMMA FirstMap ==
  ASSUME NEW map, NEW ev, ev = Output!Maps!diff_slot_maps_to_card_api_events(Output!Maps!EmptyMap, map)
  PROVE  ev.remove = {} /\ ev.update \subseteq ev.add
<1>1. Output!Maps!collect_card_ids(Output!Maps!EmptyMap) = {}
  BY DEF Output!Maps!collect_card_ids, Output!Maps!EmptyMap
<1>. QED BY <1>1 DEF Output!Maps!diff_slot_maps_to_card_api_events, Output!Maps!sync_code_slots

\* The maps that requests and sessions bring have the code of cards.
LEMMA CodedMaps ==
  ASSUME Codes
  PROVE  /\ Coded(Output!Maps!EmptyMap)
         /\ \A s : Coded(Output!MapOf(s))
         /\ \A m \in Output!InitialMaps : Coded(Output!to_compile_request_data(m))
<1>1. Coded(Output!Maps!EmptyMap)
  BY DEF Coded, Output!Maps!EmptyMap
<1>2. \A s : Coded(Output!MapOf(s))
  BY <1>1 DEF Codes, Output!MapOf
<1>3. ASSUME NEW m \in Output!InitialMaps PROVE Coded(Output!to_compile_request_data(m))
  <2>1. PICK D \in SUBSET Card : m \in [{<<c, "code">> : c \in D} -> Sent]
    BY DEF Output!InitialMaps
  <2>2. \A k \in DOMAIN m : k \in Card \X {"code"} /\ m[k] \in Sent
    BY <2>1
  <2>. QED BY <2>2, OutputAssumption DEF Coded, Output!to_compile_request_data
<1>. QED BY <1>1, <1>2, <1>3

\* A delta leaves the code of cards, too.
LEMMA CodedDelta ==
  ASSUME Codes, NEW d \in Output!Deltas, NEW s
  PROVE  Coded(Output!Maps!apply_cards_delta_to_slot_map(Output!to_cards_delta_data(d), Output!MapOf(s)))
<1>. DEFINE data == Output!to_cards_delta_data(d)
            map  == Output!MapOf(s)
<1>1. \A k \in DOMAIN d.slots : k \in Card \X {"code"} /\ d.slots[k] \in Sent
  <2>1. CASE \E c \in Card, v \in Sent : d = [slots |-> [k \in {<<c, "code">>} |-> v], remove |-> {}]
    <3>1. PICK c \in Card, v \in Sent : d = [slots |-> [k \in {<<c, "code">>} |-> v], remove |-> {}]
      BY <2>1
    <3>2. d.slots = [k \in {<<c, "code">>} |-> v]
      BY <3>1
    <3>. QED BY <3>2
  <2>2. CASE \E c \in Card : d = [slots |-> Output!Maps!EmptyMap, remove |-> {<<c, "code">>}]
    BY <2>2 DEF Output!Maps!EmptyMap
  <2>3. \/ \E c \in Card, v \in Sent : d = [slots |-> [k \in {<<c, "code">>} |-> v], remove |-> {}]
        \/ \E c \in Card : d = [slots |-> Output!Maps!EmptyMap, remove |-> {<<c, "code">>}]
    <3>. DEFINE Put(c, v) == [slots |-> [k \in {<<c, "code">>} |-> v], remove |-> {}]
                Drop(c)   == [slots |-> Output!Maps!EmptyMap, remove |-> {<<c, "code">>}]
    <3>1. Output!Deltas = {Put(c, v) : c \in Card, v \in Sent} \union {Drop(c) : c \in Card}
      BY DEF Output!Deltas
    <3>2. (\E c \in Card, v \in Sent : d = Put(c, v)) \/ (\E c \in Card : d = Drop(c))
      <4>. HIDE DEF Put, Drop
      <4>. QED BY <3>1
    <3>. QED BY <3>2
  <2>. QED BY <2>1, <2>2, <2>3
<1>2. \A k \in DOMAIN data.slots : k \in Card \X {"code"} /\ data.slots[k] \notin {None, Output!Nothing}
  BY <1>1, OutputAssumption DEF Output!to_cards_delta_data, Output!to_compile_request_data
<1>3. Coded(map)
  BY CodedMaps
<1>. HIDE DEF data, map
<1>4. Coded(Output!Maps!apply_cards_delta_to_slot_map(data, map))
  BY <1>2, <1>3 DEF Coded, Output!Maps!apply_cards_delta_to_slot_map
<1>. QED BY <1>4 DEF data, map

\* The session's map is replaced, and those of the others stay.
LEMMA SetCoded ==
  ASSUME Codes, NEW s, NEW map, Coded(map), Output!SetSlotMap(s, map)
  PROVE  Codes'
<1>1. slotMap' = [t \in DOMAIN slotMap \union {s} |-> IF t = s THEN map ELSE slotMap[t]]
  BY DEF Output!SetSlotMap
<1>2. \A t \in DOMAIN slotMap' : Coded(slotMap'[t])
  BY <1>1 DEF Codes
<1>. QED BY <1>2 DEF Codes, Coded

\* A stream opens.
LEMMA OutputOpens ==
  ASSUME OutputInv, NEW s \in Session, NEW m \in Output!InitialMaps, Output!OpenSession(s, m)
  PROVE  OutputInv'
<1>. DEFINE map == IF s \in DOMAIN slotMap THEN slotMap[s] ELSE Output!to_compile_request_data(m)
            ev  == IF m = Output!Maps!EmptyMap THEN Output!Maps!NoEvents
                   ELSE Output!Maps!diff_slot_maps_to_card_api_events(Output!Maps!EmptyMap, map)
            kept == Output!Concerns(ev.update, ev.add)
            own  == ev.update \union {c \in Card : writes'[c] # None}
<1>1. /\ Output!Applied(ev, map) /\ Output!SetSlotMap(s, map) /\ subscribed' = subscribed \union {s}
      /\ since' = [kept EXCEPT ![s] = own]
  BY Zenon DEF Output!OpenSession
<1>2. Coded(map)
  BY CodedMaps DEF OutputInv, Codes
<1>3. /\ ev.add \union ev.remove \union ev.update \subseteq Card
      /\ \A c \in ev.update : Output!CodeOf(map, c) \notin {None, Output!Nothing}
      /\ ev.remove = {} /\ ev.update \subseteq ev.add
  <2>. HIDE DEF map
  <2>1. CASE m = Output!Maps!EmptyMap
    BY <2>1 DEF Output!Maps!NoEvents
  <2>2. CASE m # Output!Maps!EmptyMap
    BY <1>2, <2>2, CodedMaps, Differences, FirstMap DEF OutputInv
  <2>. QED BY <2>1, <2>2
<1>4. DOMAIN kept = Session /\ \A t \in Session :
        kept[t] = IF t \in subscribed THEN (since[t] \ ev.add) \union ev.update ELSE {}
  BY DEF Output!Concerns
<1>. HIDE DEF map, ev, kept, own
<1>5. /\ DOMAIN told' = Session /\ DOMAIN this' = Card /\ DOMAIN writes' = Card /\ table' \subseteq Card
      /\ \A t \in subscribed, c \in table' \ orphaned' :
           c \notin ev.add \union ev.remove /\ c \in since[t] /\ writes'[c] = None
           => told'[t][c] = Heard(this'[c])
  BY <1>1, <1>3, OutputApplied
<1>6. \A c \in ev.update : writes'[c] # None
  BY <1>1, <1>3 DEF Output!Applied, Output!apply_card_api_events_io, Output!Updated
<1>7. OutputTypes'
  BY <1>1, <1>4, <1>5 DEF OutputInv, OutputTypes
<1>8. Codes'
  BY <1>1, <1>2, SetCoded DEF OutputInv
<1>9. Output!StreamsAreCurrent'
  <2>. SUFFICES ASSUME NEW t \in subscribed', NEW c \in table' \ orphaned', c \in since'[t], writes'[c] = None
                PROVE  told'[t][c] = Heard(this'[c])
    BY DEF Output!StreamsAreCurrent, Heard
  <2>1. c \in Card /\ c \notin ev.update
    BY <1>5, <1>6
  <2>2. t # s
    BY <1>1, <1>4, <2>1 DEF own
  <2>3. t \in subscribed /\ t \in Session
    BY <1>1, <2>2 DEF OutputInv, OutputTypes
  <2>4. c \in since[t] /\ c \notin ev.add
    BY <1>1, <1>4, <2>1, <2>2, <2>3
  <2>. QED BY <1>3, <1>5, <2>3, <2>4
<1>. QED BY <1>7, <1>8, <1>9 DEF OutputInv

\* A client pushes.
LEMMA OutputPushes ==
  ASSUME OutputInv, NEW s \in Session, NEW d \in Output!Deltas, Output!PushDeltas(s, d)
  PROVE  OutputInv'
<1>. DEFINE next == Output!Maps!apply_cards_delta_to_slot_map(Output!to_cards_delta_data(d), Output!MapOf(s))
            ev   == Output!Maps!diff_slot_maps_to_card_api_events(Output!MapOf(s), next)
            news == {c \in ev.update : writes'[c] # None}
<1>1. Coded(next) /\ Coded(Output!MapOf(s))
  BY CodedMaps, CodedDelta DEF OutputInv
<1>2. \/ /\ Output!Applied(ev, next) /\ Output!SetSlotMap(s, next) /\ subscribed' = subscribed
         /\ since' = Output!Concerns(news, ev.add \union ev.remove)
      \/ /\ Output!SetSlotMap(s, Output!MapOf(s))
         /\ UNCHANGED <<subscribed, table, this, writes, orphaned, told, since>>
  BY Zenon DEF Output!PushDeltas
<1>3. /\ ev.add \union ev.remove \union ev.update \subseteq Card
      /\ \A c \in ev.update : Output!CodeOf(next, c) \notin {None, Output!Nothing}
  <2>. HIDE DEF next
  <2>. QED BY <1>1, Differences
<1>. HIDE DEF next, ev
<1>4. CASE /\ Output!Applied(ev, next) /\ Output!SetSlotMap(s, next) /\ subscribed' = subscribed
           /\ since' = Output!Concerns(news, ev.add \union ev.remove)
  <2>1. /\ DOMAIN told' = Session /\ DOMAIN this' = Card /\ DOMAIN writes' = Card /\ table' \subseteq Card
        /\ \A t \in subscribed, c \in table' \ orphaned' :
             c \notin ev.add \union ev.remove /\ c \in since[t] /\ writes'[c] = None
             => told'[t][c] = Heard(this'[c])
    BY <1>3, <1>4, OutputApplied
  <2>2. DOMAIN since' = Session /\ \A t \in Session :
          since'[t] = IF t \in subscribed THEN (since[t] \ (ev.add \union ev.remove)) \union news ELSE {}
    BY <1>4 DEF Output!Concerns
  <2>3. OutputTypes'
    BY <1>4, <2>1, <2>2 DEF OutputInv, OutputTypes
  <2>4. Codes'
    BY <1>1, <1>4, SetCoded DEF OutputInv
  <2>5. Output!StreamsAreCurrent'
    <3>. SUFFICES ASSUME NEW t \in subscribed, NEW c \in table' \ orphaned', c \in since'[t], writes'[c] = None
                  PROVE  told'[t][c] = Heard(this'[c])
      BY <1>4 DEF Output!StreamsAreCurrent, Heard
    <3>1. t \in Session
      BY DEF OutputInv, OutputTypes
    <3>. QED BY <2>1, <2>2, <3>1
  <2>. QED BY <2>3, <2>4, <2>5 DEF OutputInv
<1>5. CASE /\ Output!SetSlotMap(s, Output!MapOf(s))
           /\ UNCHANGED <<subscribed, table, this, writes, orphaned, told, since>>
  <2>1. Codes'
    BY <1>1, <1>5, SetCoded DEF OutputInv
  <2>. QED BY <1>5, <2>1 DEF OutputInv, OutputTypes, Output!StreamsAreCurrent
<1>. QED BY <1>2, <1>4, <1>5

\* A card is built.
LEMMA OutputBuilds ==
  ASSUME OutputInv, NEW s \in Session, NEW c \in Card, Output!CardBuild(s, c)
  PROVE  OutputInv'
<1>. DEFINE map  == Output!MapOf(s)
            code == map[<<c, "code">>]
            ps   == IF <<c, "code">> \in DOMAIN map /\ code.kind = "text"
                    THEN [writes EXCEPT ![c] = Output!Updated(c, code, this, writes)] ELSE writes
            C    == {e \in Card : ps[e] # None}
            ts   == [e \in Card |-> IF e \in C THEN ps[e] ELSE this[e]]
<1>1. /\ UNCHANGED <<slotMap, subscribed, table, orphaned>>
      /\ this' = ts /\ told' = Output!emit_runtime_card_output_io(C, this')
      /\ since' = Output!Concerns(C, {}) /\ writes' = [e \in Card |-> None]
  BY DEF Output!CardBuild
<1>2. told' = Output!emit_runtime_card_output_io(C, ts)
  BY <1>1
<1>3. \A e \in Card : ps[e] = None => writes[e] = None
  <2>1. Coded(map)
    BY CodedMaps DEF OutputInv
  <2>. HIDE DEF map
  <2>. QED BY <2>1 DEF Coded, Output!Updated, OutputInv, OutputTypes
<1>4. C \in SUBSET Card /\ \A e \in Card : e \notin C => ps[e] = None
  OBVIOUS
<1>5. DOMAIN ts = Card /\ \A e \in Card : e \notin C => ts[e] = this[e]
  OBVIOUS
<1>. HIDE DEF map, code, ps, C, ts
<1>6. /\ DOMAIN Output!emit_runtime_card_output_io(C, ts) = Session
      /\ \A t \in Session, e \in Card :
           Output!emit_runtime_card_output_io(C, ts)[t][e] =
             IF t \in subscribed /\ e \in C THEN Heard(ts[e]) ELSE told[t][e]
  BY <1>4, Emitted
<1>7. DOMAIN since' = Session /\ \A t \in Session : t \in subscribed => since'[t] = since[t] \union C
  BY <1>1 DEF Output!Concerns
<1>8. OutputTypes' /\ Codes'
  BY <1>1, <1>2, <1>5, <1>6, <1>7 DEF OutputInv, OutputTypes, Codes
<1>9. Output!StreamsAreCurrent'
  <2>. SUFFICES ASSUME NEW t \in subscribed, NEW e \in table \ orphaned, e \in since'[t]
                PROVE  told'[t][e] = Heard(this'[e])
    BY <1>1 DEF Output!StreamsAreCurrent, Heard
  <2>1. t \in Session /\ e \in Card
    BY DEF OutputInv, OutputTypes
  <2>2. CASE e \in C
    BY <1>1, <1>2, <1>6, <2>1, <2>2
  <2>3. CASE e \notin C
    <3>1. writes[e] = None /\ e \in since[t] /\ this'[e] = this[e]
      BY <1>1, <1>3, <1>4, <1>5, <1>7, <2>1, <2>3
    <3>2. told[t][e] = Heard(this[e])
      BY <3>1 DEF OutputInv, Output!StreamsAreCurrent, Heard
    <3>. QED BY <1>2, <1>6, <2>1, <2>3, <3>1, <3>2
  <2>. QED BY <2>2, <2>3
<1>. QED BY <1>8, <1>9 DEF OutputInv

\* Every step keeps the invariant.
LEMMA OutputStep ==
  ASSUME OutputInv, [Next]_Vars
  PROVE  OutputInv'
<1>1. Output!Next \/ UNCHANGED outputVars
  BY DEF Next, Vars
<1>2. CASE Output!Flush
  BY <1>2, OutputFlush
<1>3. CASE \E c \in Card, v \in Computed : Output!Computes(c, v) \/ Output!OrphanComputes(c, v)
  BY <1>3, OutputComputes, OutputOrphan
<1>4. CASE \E s \in Session : \E m \in Output!InitialMaps : Output!OpenSession(s, m)
  BY <1>4, OutputOpens
<1>5. CASE \E s \in Session : \E d \in Output!Deltas : Output!PushDeltas(s, d)
  BY <1>5, OutputPushes
<1>6. CASE \E s \in Session : \E c \in Card : Output!CardBuild(s, c)
  BY <1>6, OutputBuilds
<1>7. CASE \E s \in Session : Output!EndStream(s)
  BY <1>7, OutputEnds
<1>8. CASE UNCHANGED outputVars
  BY <1>8 DEF outputVars, OutputInv, OutputTypes, Codes, Coded, Output!StreamsAreCurrent
<1>. QED BY <1>1, <1>2, <1>3, <1>4, <1>5, <1>6, <1>7, <1>8 DEF Output!Next

\* A stream's latest word on a card is what the card shows, for every card it was
\* to hear of, unless a value is still on its way or the card was added twice
\* (open_session_handler, p_emit_card_internal_updates_to_runtime,
\* to_card_update_message).
THEOREM StreamsHearTheCards == Spec => []StreamsAreCurrent
<1>1. Init => OutputInv
  BY OutputInit DEF Init
<1>2. OutputInv /\ [Next]_Vars => OutputInv'
  BY OutputStep
<1>3. OutputInv => StreamsAreCurrent
  BY DEF OutputInv, StreamsAreCurrent
<1>. QED BY <1>1, <1>2, <1>3, PTL DEF Spec

-----------------------------------------------------------------------------
(* Maxima and sequences.                                                   *)

\* The negative side of a non-empty set of naturals with a bound has a least
\* element, so the set has a greatest one, and Max picks it.
LEMMA MaxIsGreatest ==
  ASSUME NEW n \in Nat, NEW c \in SUBSET (1..n), c # {}
  PROVE  /\ Instance!Max(c) \in c
         /\ \A x \in c : Instance!Max(c) >= x
<1>. DEFINE below == {n - x : x \in c}
<1>1. below \subseteq Nat /\ below # {}
  <2>1. \A x \in c : n - x \in Nat
    OBVIOUS
  <2>2. PICK x \in c : TRUE
    OBVIOUS
  <2>3. n - x \in below
    BY <2>2
  <2>. QED BY <2>1, <2>3
<1>2. PICK d \in below : \A y \in below : <<y, d>> \notin OpToRel(<, Nat)
  BY <1>1, NatLessThanWellFounded, WFMin, Zenon
<1>3. PICK x \in c : d = n - x
  BY <1>2
<1>4. \A y \in c : x >= y
  <2>. SUFFICES ASSUME NEW y \in c PROVE x >= y
    OBVIOUS
  <2>1. n - y \in below /\ n - y \in Nat /\ d \in Nat
    BY <1>1, <1>2
  <2>2. ~(n - y < d)
    BY <1>2, <2>1 DEF OpToRel
  <2>. QED BY <1>3, <2>2
<1>. QED BY <1>3, <1>4 DEF Instance!Max

\* The strongest value of what is kept is 0 or one of it, and no less than any.
LEMMA Strongest ==
  ASSUME NEW n \in Nat, NEW c \in SUBSET (1..n)
  PROVE  /\ Instance!strongest_value(c) \in c \cup {0}
         /\ Instance!strongest_value(c) \in Nat
         /\ \A x \in c \cup {0} : Instance!strongest_value(c) >= x
<1>1. CASE c = {}
  BY <1>1 DEF Instance!strongest_value
<1>2. CASE c # {}
  <2>1. Instance!strongest_value(c) = Instance!Max(c)
    BY <1>2 DEF Instance!strongest_value
  <2>2. Instance!Max(c) \in c /\ \A x \in c : Instance!Max(c) >= x
    BY <1>2, MaxIsGreatest
  <2>3. Instance!Max(c) \in Nat
    <3>1. \A x \in c : x \in Nat
      OBVIOUS
    <3>. QED BY <2>2, <3>1
  <2>. QED BY <2>1, <2>2, <2>3
<1>. QED BY <1>1, <1>2

\* An echo that is taken out leaves the others, and the last one in its place
\* unless it was the last itself.
LEMMA TakenOut ==
  ASSUME NEW S, NEW s \in Seq(S), NEW k \in DOMAIN s
  PROVE  /\ Instance!RemoveAt(s, k) \in Seq(S)
         /\ Len(Instance!RemoveAt(s, k)) = Len(s) - 1
         /\ \A i \in DOMAIN Instance!RemoveAt(s, k) : \E j \in DOMAIN s : Instance!RemoveAt(s, k)[i] = s[j]
         /\ k < Len(s) => Instance!RemoveAt(s, k)[Len(s) - 1] = s[Len(s)]
<1>. DEFINE a == SubSeq(s, 1, k - 1)
            b == SubSeq(s, k + 1, Len(s))
<1>1. Len(s) \in Nat /\ DOMAIN s = 1..Len(s) /\ k \in 1..Len(s) /\ \A i \in 1..Len(s) : s[i] \in S
  OBVIOUS
<1>2. a \in Seq(S) /\ Len(a) = k - 1 /\ \A i \in 1..(k - 1) : a[i] = s[i]
  <2>1. \A i \in 1..(k - 1) : s[i] \in S
    BY <1>1
  <2>2. /\ a \in Seq(S)
        /\ Len(a) = IF 1 <= k - 1 THEN (k - 1) - 1 + 1 ELSE 0
        /\ \A i \in 1..((k - 1) - 1 + 1) : a[i] = s[1 + i - 1]
    BY <1>1, <2>1, SubSeqProperties
  <2>. QED BY <1>1, <2>2
<1>3. b \in Seq(S) /\ Len(b) = Len(s) - k /\ \A i \in 1..(Len(s) - k) : b[i] = s[k + i]
  <2>1. \A i \in (k + 1)..Len(s) : s[i] \in S
    BY <1>1
  <2>2. /\ b \in Seq(S)
        /\ Len(b) = IF k + 1 <= Len(s) THEN Len(s) - (k + 1) + 1 ELSE 0
        /\ \A i \in 1..(Len(s) - (k + 1) + 1) : b[i] = s[(k + 1) + i - 1]
    BY <1>1, <2>1, SubSeqProperties
  <2>3. Len(s) - (k + 1) + 1 = Len(s) - k /\ Len(b) = Len(s) - k
    BY <1>1, <2>2
  <2>4. \A i \in 1..(Len(s) - k) : b[i] = s[k + i]
    <3>. SUFFICES ASSUME NEW i \in 1..(Len(s) - k) PROVE b[i] = s[k + i]
      OBVIOUS
    <3>1. i \in 1..(Len(s) - (k + 1) + 1) /\ (k + 1) + i - 1 = k + i
      BY <1>1
    <3>. QED BY <2>2, <3>1
  <2>. QED BY <2>2, <2>3, <2>4
<1>4. /\ Instance!RemoveAt(s, k) = a \o b
      /\ a \o b \in Seq(S)
      /\ Len(a \o b) = Len(a) + Len(b)
      /\ \A i \in 1..(Len(a) + Len(b)) : (a \o b)[i] = IF i <= Len(a) THEN a[i] ELSE b[i - Len(a)]
  BY <1>2, <1>3, ConcatProperties DEF Instance!RemoveAt
<1>. HIDE DEF a, b
<1>5. Len(a) + Len(b) = Len(s) - 1
  BY <1>1, <1>2, <1>3
<1>6. \A i \in 1..(Len(s) - 1) : (a \o b)[i] = IF i <= k - 1 THEN s[i] ELSE s[i + 1]
  <2>. SUFFICES ASSUME NEW i \in 1..(Len(s) - 1)
                PROVE  (a \o b)[i] = IF i <= k - 1 THEN s[i] ELSE s[i + 1]
    OBVIOUS
  <2>1. CASE i <= k - 1
    BY <1>1, <1>2, <1>4, <1>5, <2>1
  <2>2. CASE ~(i <= k - 1)
    <3>1. (a \o b)[i] = b[i - (k - 1)] /\ i - (k - 1) \in 1..(Len(s) - k)
      <4>1. Len(s) \in Nat /\ k \in 1..Len(s) /\ Len(a) = k - 1 /\ ~(i <= Len(a)) /\ i \in 1..(Len(a) + Len(b))
        BY <1>1, <1>2, <1>5, <2>2
      <4>2. (a \o b)[i] = b[i - Len(a)]
        BY <1>4, <4>1
      <4>. HIDE DEF Instance!RemoveAt
      <4>3. i - (k - 1) \in 1..(Len(s) - k)
        BY <4>1
      <4>. QED BY <4>1, <4>2, <4>3
    <3>2. b[i - (k - 1)] = s[k + (i - (k - 1))]
      BY <1>3, <3>1
    <3>3. k + (i - (k - 1)) = i + 1
      BY <1>1
    <3>. QED BY <2>2, <3>1, <3>2, <3>3
  <2>. QED BY <2>1, <2>2
<1>7. DOMAIN Instance!RemoveAt(s, k) = 1..(Len(s) - 1)
  BY <1>4, <1>5
<1>8. \A i \in DOMAIN Instance!RemoveAt(s, k) : \E j \in DOMAIN s : Instance!RemoveAt(s, k)[i] = s[j]
  <2>. TAKE i \in DOMAIN Instance!RemoveAt(s, k)
  <2>1. i \in 1..Len(s) /\ i + 1 \in 1..Len(s) /\ i \in 1..(Len(s) - 1)
    BY <1>1, <1>7
  <2>. QED BY <1>1, <1>4, <1>6, <2>1
<1>9. k < Len(s) => Instance!RemoveAt(s, k)[Len(s) - 1] = s[Len(s)]
  <2>. HAVE k < Len(s)
  <2>1. Len(s) - 1 \in 1..(Len(s) - 1) /\ ~(Len(s) - 1 <= k - 1) /\ (Len(s) - 1) + 1 = Len(s)
    BY <1>1
  <2>2. (a \o b)[Len(s) - 1] = s[(Len(s) - 1) + 1]
    BY <1>6, <2>1
  <2>. QED BY <1>4, <2>1, <2>2
<1>. QED BY <1>4, <1>5, <1>8, <1>9

-----------------------------------------------------------------------------
(* The inductive invariant.                                                *)

\* What is kept, computed with or being decoded is an increment in Gun.
Increments ==
  /\ increments \in Nat
  /\ decoding \in [Instance!Listener -> SUBSET (1..increments)]
  /\ snapshot \in SUBSET (1..increments) /\ computed \in SUBSET snapshot

\* What Gun holds, what the instance shows and what comes back are kept values,
\* and the first is no less than the others.
KeptValues ==
  /\ stored \in snapshot \cup {0} /\ shown \in snapshot \cup {0} /\ shown <= stored
  /\ echoes \in Seq(Nat)
  /\ \A i \in DOMAIN echoes : echoes[i] \in snapshot \cup {0} /\ echoes[i] <= stored

\* Gun holds no less than what was computed with.
ComputedWith == \A c \in computed : stored >= c

\* Gun still has to call, or the last echo is what it holds, or there is none
\* and that is shown.
InStep ==
  inOrder /\ ~unheard =>
    IF echoes = <<>> THEN shown = stored ELSE echoes[Len(echoes)] = stored

\* A reader that is not alerted was none at the last change, or has read it.
Readers == ~readers /\ ~missed /\ neighbor # "none" => read = shown

InstanceInv == Increments /\ KeptValues /\ ComputedWith /\ InStep /\ Readers

\* The invariant implies the property.
LEMMA InstanceSuffices ==
  ASSUME InstanceInv
  PROVE  StoredIsStrongest
<1>1. computed # {} => stored >= Instance!Max(computed)
  <2>. HAVE computed # {}
  <2>1. computed \in SUBSET (1..increments) /\ increments \in Nat
    BY DEF InstanceInv, Increments
  <2>2. Instance!Max(computed) \in computed
    BY <2>1, MaxIsGreatest
  <2>. QED BY <2>2 DEF InstanceInv, ComputedWith
<1>. QED BY <1>1 DEF InstanceInv, KeptValues, InStep, Readers, StoredIsStrongest, Instance!StoredIsStrongest

\* It holds at the start.
LEMMA InstanceInit ==
  ASSUME Instance!Init
  PROVE  InstanceInv
<1>1. Increments
  BY DEF Instance!Init, Increments
<1>2. KeptValues /\ ComputedWith /\ InStep /\ Readers
  BY DEF Instance!Init, KeptValues, ComputedWith, InStep, Readers
<1>. QED BY <1>1, <1>2 DEF InstanceInv

\* set_strongest tells the readers of the change, as does the echo.
LEMMA Alerted ==
  ASSUME Instance!resolve_and_alert_interested_propagators, UNCHANGED <<neighbor, read>>
  PROVE  Readers'
BY DEF Instance!resolve_and_alert_interested_propagators, Readers

\* An increment that was decoded was one of Gun's; with it, what is kept is too.
LEMMA StillIncrements ==
  ASSUME InstanceInv, NEW l \in Instance!Listener, NEW i \in 1..increments, Instance!Decoded(l, i)
  PROVE  /\ increments' = increments
         /\ decoding' \in [Instance!Listener -> SUBSET (1..increments')]
         /\ snapshot \cup {i} \in SUBSET (1..increments')
BY DEF InstanceInv, Increments, Instance!Decoded

\* A step that keeps more and changes no value keeps the invariant.
LEMMA KeepsMore ==
  ASSUME InstanceInv, Increments', snapshot \subseteq snapshot',
         UNCHANGED <<computed, shown, Instance!gun, echoes, inOrder, readers, read, missed, neighbor>>
  PROVE  InstanceInv'
<1>1. KeptValues'
  BY DEF InstanceInv, KeptValues, Instance!gun
<1>2. ComputedWith' /\ InStep' /\ Readers'
  BY DEF InstanceInv, ComputedWith, InStep, Readers, Instance!gun
<1>. QED BY <1>1, <1>2 DEF InstanceInv

\* Computing: the new strongest value is no less than all that is kept, so that
\* storing it lets no echo and nothing computed earlier overtake it; when it is
\* what is shown, what Gun holds is no less.
LEMMA Computing ==
  ASSUME InstanceInv, NEW i \in 1..increments, Instance!setup_computation(i)
  PROVE  InstanceInv'
<1>. DEFINE new == Instance!strongest_value(snapshot \cup {i})
<1>0. "compute" \in Instance!Listener /\ Instance!Decoded("compute", i)
  BY DEF Instance!Listener, Instance!setup_computation
<1>1. /\ increments' = increments
      /\ decoding' \in [Instance!Listener -> SUBSET (1..increments')]
      /\ snapshot \cup {i} \in SUBSET (1..increments')
  BY <1>0, StillIncrements
<1>2. snapshot' = snapshot \cup {i} /\ computed' = computed \cup {i}
  BY DEF Instance!setup_computation
<1>3. Increments'
  BY <1>1, <1>2 DEF InstanceInv, Increments
<1>4. /\ new \in snapshot' \cup {0} /\ new \in Nat
      /\ \A c \in snapshot' \cup {0} : new >= c
  BY <1>1, <1>2, <1>3, Strongest DEF Increments
<1>. HIDE DEF new
<1>5. /\ \A c \in snapshot' \cup {0} : c \in Nat
      /\ UNCHANGED <<echoes, inOrder, read, neighbor>>
      /\ computed \subseteq snapshot /\ computed' \subseteq snapshot' /\ snapshot \subseteq snapshot'
  BY <1>0, <1>2, <1>3 DEF Increments, Instance!Decoded, Instance!neighbors, InstanceInv
<1>6. CASE new # shown
  <2>1. /\ shown' = new /\ stored' = new /\ unheard' = TRUE
        /\ Instance!resolve_and_alert_interested_propagators
    BY <1>6 DEF Instance!setup_computation, Instance!set_strongest, new
  <2>2. KeptValues'
    BY <1>4, <1>5, <2>1 DEF InstanceInv, KeptValues
  <2>3. ComputedWith'
    BY <1>4, <1>5, <2>1 DEF ComputedWith
  <2>4. InStep'
    BY <2>1 DEF InStep
  <2>5. Readers'
    BY <1>5, <2>1, Alerted
  <2>. QED BY <1>3, <2>2, <2>3, <2>4, <2>5 DEF InstanceInv
<1>7. CASE new = shown
  <2>1. UNCHANGED <<shown, stored, unheard, readers, missed>>
    BY <1>7 DEF Instance!setup_computation, Instance!gun, new
  <2>2. KeptValues'
    BY <1>5, <2>1 DEF InstanceInv, KeptValues
  <2>3. ComputedWith'
    <3>. SUFFICES ASSUME NEW c \in computed' PROVE stored' >= c
      BY DEF ComputedWith
    <3>1. shown >= c
      BY <1>4, <1>5, <1>7
    <3>2. shown \in Nat /\ stored \in Nat /\ c \in Nat /\ shown <= stored
      BY <1>5 DEF InstanceInv, KeptValues
    <3>. QED BY <2>1, <3>1, <3>2
  <2>4. InStep' /\ Readers'
    BY <1>5, <2>1 DEF InstanceInv, InStep, Readers
  <2>. QED BY <1>3, <2>2, <2>3, <2>4 DEF InstanceInv
<1>. QED BY <1>6, <1>7

\* What comes back is shown, or nothing is; in order, the last is what Gun holds.
LEMMA Echoing ==
  ASSUME InstanceInv, NEW k \in DOMAIN echoes, NEW nothing \in BOOLEAN,
         Instance!setup_strongest_listener(k, nothing)
  PROVE  InstanceInv'
<1>1. /\ UNCHANGED <<increments, decoding, computed, snapshot, stored, unheard, read, neighbor>>
      /\ echoes' = Instance!RemoveAt(echoes, k) /\ inOrder' = (inOrder /\ k = 1 /\ ~nothing)
  BY DEF Instance!setup_strongest_listener, Instance!inputs, Instance!gun, Instance!neighbors
<1>2. Increments'
  BY <1>1 DEF InstanceInv, Increments
<1>3. /\ echoes \in Seq(Nat) /\ Len(echoes) \in Nat /\ DOMAIN echoes = 1..Len(echoes)
      /\ k \in 1..Len(echoes)
  BY DEF InstanceInv, KeptValues
<1>4. /\ echoes' \in Seq(Nat) /\ Len(echoes') = Len(echoes) - 1
      /\ \A i \in DOMAIN echoes' : \E j \in DOMAIN echoes : echoes'[i] = echoes[j]
      /\ k < Len(echoes) => echoes'[Len(echoes) - 1] = echoes[Len(echoes)]
  <2>. DEFINE rest == Instance!RemoveAt(echoes, k)
  <2>1. /\ rest \in Seq(Nat) /\ Len(rest) = Len(echoes) - 1
        /\ \A i \in DOMAIN rest : \E j \in DOMAIN echoes : rest[i] = echoes[j]
        /\ k < Len(echoes) => rest[Len(echoes) - 1] = echoes[Len(echoes)]
    <3>1. echoes \in Seq(Nat) /\ k \in DOMAIN echoes
      BY <1>3
    <3>. QED BY <3>1, TakenOut
  <2>2. echoes' = rest
    BY <1>1
  <2>. HIDE DEF rest
  <2>. QED BY <2>1, <2>2
<1>5. IF nothing THEN UNCHANGED <<shown, readers, missed>>
      ELSE shown' = echoes[k] /\ Instance!resolve_and_alert_interested_propagators
  BY DEF Instance!setup_strongest_listener
<1>6. KeptValues'
  <2>1. \A i \in DOMAIN echoes' : echoes'[i] \in snapshot' \cup {0} /\ echoes'[i] <= stored'
    BY <1>1, <1>4 DEF InstanceInv, KeptValues
  <2>2. shown' \in snapshot' \cup {0} /\ shown' <= stored'
    BY <1>1, <1>5 DEF InstanceInv, KeptValues
  <2>. QED BY <1>1, <1>4, <2>1, <2>2 DEF InstanceInv, KeptValues
<1>7. ComputedWith'
  BY <1>1 DEF InstanceInv, ComputedWith
<1>8. InStep'
  <2>. SUFFICES ASSUME inOrder', ~unheard'
                PROVE  IF echoes' = <<>> THEN shown' = stored' ELSE echoes'[Len(echoes')] = stored'
    BY DEF InStep
  <2>1. inOrder /\ k = 1 /\ ~nothing /\ ~unheard
    BY <1>1
  <2>2. echoes # <<>> /\ echoes[Len(echoes)] = stored
    BY <1>3, <2>1 DEF InstanceInv, InStep
  <2>3. CASE Len(echoes) = 1
    <3>1. echoes' = <<>> /\ shown' = stored'
      BY <1>1, <1>4, <1>5, <2>1, <2>2, <2>3
    <3>. QED BY <3>1
  <2>4. CASE Len(echoes) # 1
    <3>1. k < Len(echoes) /\ Len(echoes') # 0
      BY <1>3, <1>4, <2>1, <2>4
    <3>2. echoes' # <<>>
      BY <3>1
    <3>. QED BY <1>1, <1>4, <2>2, <3>1, <3>2
  <2>. QED BY <2>3, <2>4
<1>9. Readers'
  <2>1. CASE nothing
    BY <1>1, <1>5, <2>1 DEF InstanceInv, Readers
  <2>2. CASE ~nothing
    BY <1>1, <1>5, <2>2, Alerted
  <2>. QED BY <2>1, <2>2
<1>. QED BY <1>2, <1>6, <1>7, <1>8, <1>9 DEF InstanceInv

\* Every step keeps the invariant.
LEMMA InstanceStep ==
  ASSUME InstanceInv, [Next]_Vars
  PROVE  InstanceInv'
<1>1. CASE Instance!update
  <2>1. Increments'
    BY <1>1 DEF InstanceInv, Increments, Instance!update
  <2>. QED BY <1>1, <2>1, KeepsMore DEF Instance!update, Instance!reader, Instance!neighbors
<1>2. ASSUME NEW i \in 1..increments, NEW l \in Instance!Listener, Instance!Hear(l, i)
      PROVE  InstanceInv'
  <2>1. Increments'
    BY <1>2 DEF InstanceInv, Increments, Instance!Hear
  <2>. QED BY <1>2, <2>1, KeepsMore DEF Instance!Hear, Instance!reader, Instance!neighbors
<1>3. ASSUME NEW i \in 1..increments, NEW l \in Instance!Listener, Instance!ComesToNothing(l, i)
      PROVE  InstanceInv'
  <2>1. Increments'
    BY <1>3, StillIncrements DEF InstanceInv, Increments, Instance!ComesToNothing
  <2>. QED BY <1>3, <2>1, KeepsMore DEF Instance!ComesToNothing, Instance!Decoded, Instance!neighbors
<1>4. ASSUME NEW i \in 1..increments, Instance!setup_content_listener(i)
      PROVE  InstanceInv'
  <2>1. "keep" \in Instance!Listener /\ Instance!Decoded("keep", i)
    BY <1>4 DEF Instance!Listener, Instance!setup_content_listener
  <2>2. Increments' /\ snapshot \subseteq snapshot'
    BY <1>4, <2>1, StillIncrements DEF InstanceInv, Increments, Instance!setup_content_listener
  <2>. QED BY <1>4, <2>2, KeepsMore DEF Instance!setup_content_listener, Instance!Decoded, Instance!neighbors
<1>5. ASSUME NEW i \in 1..increments, Instance!setup_computation(i)
      PROVE  InstanceInv'
  BY <1>5, Computing
<1>6. CASE Instance!HearStrongest
  <2>1. /\ UNCHANGED <<increments, decoding, computed, snapshot, shown, stored, inOrder, readers, read, missed, neighbor>>
        /\ echoes' = Append(echoes, stored)
    BY <1>6 DEF Instance!HearStrongest, Instance!inputs, Instance!reader, Instance!neighbors
  <2>2. stored \in Nat /\ echoes \in Seq(Nat)
    BY DEF InstanceInv, Increments, KeptValues
  <2>3. /\ echoes' \in Seq(Nat) /\ Len(echoes') = Len(echoes) + 1 /\ echoes' # <<>>
        /\ DOMAIN echoes' = 1..(Len(echoes) + 1) /\ DOMAIN echoes = 1..Len(echoes)
        /\ \A j \in DOMAIN echoes : echoes'[j] = echoes[j]
        /\ echoes'[Len(echoes) + 1] = stored
    BY <2>1, <2>2
  <2>4. KeptValues'
    <3>1. \A j \in DOMAIN echoes' : echoes'[j] \in snapshot' \cup {0} /\ echoes'[j] <= stored'
      <4>. SUFFICES ASSUME NEW j \in DOMAIN echoes'
                    PROVE  echoes'[j] \in snapshot' \cup {0} /\ echoes'[j] <= stored'
        OBVIOUS
      <4>1. j \in DOMAIN echoes \/ j = Len(echoes) + 1
        BY <2>2, <2>3
      <4>. QED BY <2>1, <2>2, <2>3, <4>1 DEF InstanceInv, KeptValues
    <3>. QED BY <2>1, <2>3, <3>1 DEF InstanceInv, KeptValues
  <2>5. Increments' /\ ComputedWith' /\ InStep' /\ Readers'
    BY <2>1, <2>3 DEF InstanceInv, Increments, ComputedWith, InStep, Readers
  <2>. QED BY <2>4, <2>5 DEF InstanceInv
<1>7. ASSUME NEW k \in DOMAIN echoes, NEW nothing \in BOOLEAN, Instance!setup_strongest_listener(k, nothing)
      PROVE  InstanceInv'
  BY <1>7, Echoing
<1>8. ASSUME Instance!RunNeighbor \/ Instance!addNeighbor \/ Instance!initialize_neighbors \/ Instance!dispose
               \/ (\E nothing \in BOOLEAN : Instance!setup_neighbors_listener(nothing))
               \/ UNCHANGED instanceVars
      PROVE  InstanceInv'
  <2>1. UNCHANGED <<increments, decoding, computed, snapshot, shown, stored, unheard, echoes, inOrder>>
    BY <1>8 DEF Instance!RunNeighbor, Instance!addNeighbor, Instance!initialize_neighbors,
                Instance!setup_neighbors_listener, Instance!dispose,
                Instance!Keeps, Instance!inputs, Instance!gun, instanceVars
  <2>2. Readers'
    BY <1>8 DEF Instance!RunNeighbor, Instance!addNeighbor, Instance!initialize_neighbors,
                Instance!setup_neighbors_listener, Instance!dispose,
                Instance!Keeps, Instance!reader, Instance!neighbors, instanceVars, InstanceInv, Readers
  <2>3. Increments' /\ KeptValues' /\ ComputedWith' /\ InStep'
    BY <2>1 DEF InstanceInv, Increments, KeptValues, ComputedWith, InStep
  <2>. QED BY <2>2, <2>3 DEF InstanceInv
<1>9. Instance!Next \/ UNCHANGED instanceVars
  BY DEF Next, Vars
<1>. QED BY <1>1, <1>2, <1>3, <1>4, <1>5, <1>6, <1>7, <1>8, <1>9 DEF Instance!Next

-----------------------------------------------------------------------------
\* However increments, echoes and new readers come, Gun holds the strongest of
\* what was computed with, and what is shown is what was stored, once it has
\* come back (setup_computation, setup_strongest_listener).
THEOREM StrongestIsStored == Spec => []StoredIsStrongest
<1>1. Init => InstanceInv
  BY InstanceInit DEF Init
<1>2. InstanceInv /\ [Next]_Vars => InstanceInv'
  BY InstanceStep
<1>3. InstanceInv => StoredIsStrongest
  BY InstanceSuffices
<1>. QED BY <1>1, <1>2, <1>3, PTL DEF Spec

-----------------------------------------------------------------------------
(* The resolution of an object.                                            *)

Held   == Node \cup {Plain, Null}
Object == Node \cup {Asked}

ResolveTypes ==
  /\ graph \in [Node -> [Field -> Held]]
  /\ visited \subseteq Node /\ reading \subseteq visited
  /\ seen \in [Object -> [Field -> Held]]
  /\ result \in [Resolve!Place -> Held]

\* A place holds what its object was resolved from or null, and every node it
\* was resolved from has been asked for.
FromSeen ==
  \A p \in Resolve!Place : /\ result[p] \in {seen[p[1]][p[2]], Null}
                           /\ seen[p[1]][p[2]] \in Node => seen[p[1]][p[2]] \in visited

\* A node stands at one place.
OnePlace == \A p, q \in Resolve!Place : result[p] = result[q] /\ result[p] \in Node => p = q

\* Nothing was seen of a node that was not asked for or has not answered; one
\* that is being read, or was, stands somewhere.
AskedOnce ==
  \A n \in Node : /\ n \notin visited \/ n \in reading => seen[n] = Resolve!NotHere
                  /\ n \in reading \/ seen[n] # Resolve!NotHere => n \in Resolve!Standing

\* No nodes stand at places of each other only.
Hanging ==
  \A S \in (SUBSET Resolve!Standing) \ {{}} : \E p \in Resolve!Place : result[p] \in S /\ p[1] \notin S

ResolveInv == ResolveTypes /\ FromSeen /\ OnePlace /\ AskedOnce /\ Hanging

-----------------------------------------------------------------------------
LEMMA ResolveSuffices ==
  ASSUME ResolveInv
  PROVE  NullsHaveReasons
<1>1. ASSUME NEW p \in Resolve!Place, Resolve!is_gun_reference(seen[p[1]][p[2]]),
             result[p] # seen[p[1]][p[2]]
      PROVE  LET m == seen[p[1]][p[2]]
             IN  /\ result[p] = Null /\ m \in visited
                 /\ m \in Resolve!Standing \cup late \/ seen[m] = Resolve!NotHere
  <2>. DEFINE m == seen[p[1]][p[2]]
  <2>1. m \in Node
    BY <1>1 DEF Resolve!is_gun_reference
  <2>2. result[p] = Null /\ m \in visited
    BY <1>1, <2>1 DEF ResolveInv, FromSeen
  <2>. HIDE DEF m
  <2>3. m \in Resolve!Standing \/ seen[m] = Resolve!NotHere
    BY <2>1 DEF ResolveInv, AskedOnce
  <2>. QED BY <2>2, <2>3 DEF m
<1>. QED BY <1>1 DEF ResolveInv, OnePlace, Hanging, NullsHaveReasons, Resolve!NullsHaveReasons

LEMMA ResolveInit ==
  ASSUME Resolve!Init
  PROVE  ResolveInv
<1>1. /\ graph \in Graphs /\ visited = {} /\ reading = {}
      /\ seen = [n \in Object |-> Resolve!NotHere] /\ result = [p \in Resolve!Place |-> Null]
  BY DEF Resolve!Init, Object
<1>2. Resolve!NotHere \in [Field -> Held] /\ \A f \in Field : Resolve!NotHere[f] = Null
  BY DEF Resolve!NotHere, Held
<1>3. \A p \in Resolve!Place : seen[p[1]][p[2]] = Null /\ result[p] = Null
  BY <1>1, <1>2 DEF Resolve!Place, Object
<1>4. ResolveTypes
  BY <1>1, <1>2, ResolveAssumption DEF ResolveTypes, Held
<1>5. FromSeen /\ OnePlace
  BY <1>3, ResolveAssumption DEF FromSeen, OnePlace
<1>6. Resolve!Standing = {}
  BY <1>3, ResolveAssumption DEF Resolve!Standing
<1>7. AskedOnce /\ Hanging
  BY <1>1, <1>6 DEF AskedOnce, Hanging, Object
<1>. QED BY <1>4, <1>5, <1>7 DEF ResolveInv

-----------------------------------------------------------------------------
\* Of the fields that name a node the first asks for it, and no other does.
LEMMA FirstAsks ==
  ASSUME NEW data \in [Field -> Held], NEW f \in Field, data[f] \notin visited
  PROVE  \E g \in Field : data[g] = data[f] /\ Resolve!resolve_gun_reference(data, g)
<1>. DEFINE S == {g \in Field : data[g] = data[f]}
<1>1. S \in SUBSET Nat /\ S # {}
  BY ResolveAssumption
<1>2. PICK g \in S : \A h \in S : <<h, g>> \notin OpToRel(<, Nat)
  <2>. HIDE DEF S
  <2>. QED BY <1>1, NatLessThanWellFounded, WFMin, Zenon
<1>3. ASSUME NEW h \in Field, h < g
      PROVE  data[h] # data[g]
  <2>1. g \in Nat /\ h \in Nat
    BY ResolveAssumption
  <2>. QED BY <1>2, <1>3, <2>1 DEF OpToRel
<1>. QED BY <1>2, <1>3 DEF Resolve!resolve_gun_reference

LEMMA OneAsks ==
  ASSUME NEW data \in [Field -> Held], NEW f \in Field, NEW g \in Field, data[f] = data[g],
         Resolve!resolve_gun_reference(data, f), Resolve!resolve_gun_reference(data, g)
  PROVE  f = g
<1>1. f \in Nat /\ g \in Nat
  BY ResolveAssumption
<1>. QED BY <1>1 DEF Resolve!resolve_gun_reference

\* An object is resolved from its data: it takes in the nodes that nobody asked
\* for before.
LEMMA Resolving ==
  ASSUME ResolveInv, NEW n \in Object, n \in reading \/ n = Asked, seen[n] = Resolve!NotHere,
         NEW data \in [Field -> Held], Resolve!resolve_gun_object(n, data), UNCHANGED graph
  PROVE  ResolveInv'
<1>. USE DEF ResolveInv
<1>. DEFINE asked == {f \in Field : Resolve!is_gun_reference(data[f]) /\ Resolve!resolve_gun_reference(data, f)}
            souls == {data[f] : f \in asked}
<1>1. /\ visited' = visited \cup souls /\ reading' = (reading \ {n}) \cup souls
      /\ seen' = [seen EXCEPT ![n] = data]
      /\ result' = [p \in Resolve!Place |->
           IF p[1] # n THEN result[p]
           ELSE IF Resolve!is_gun_reference(data[p[2]]) /\ p[2] \notin asked THEN Null
           ELSE data[p[2]]]
  BY DEF Resolve!resolve_gun_object
<1>2. \A f \in asked : f \in Field /\ data[f] \in Node /\ data[f] \notin visited
                       /\ Resolve!resolve_gun_reference(data, f)
  BY DEF Resolve!is_gun_reference, Resolve!resolve_gun_reference
<1>3. souls \subseteq Node /\ souls \cap visited = {} /\ n \notin souls
  BY <1>2, ResolveAssumption DEF ResolveTypes
<1>4. \A f \in Field : data[f] \in Node /\ data[f] \notin visited => data[f] \in souls
  <2>. SUFFICES ASSUME NEW f \in Field, data[f] \in Node, data[f] \notin visited
                PROVE  data[f] \in souls
    OBVIOUS
  <2>1. PICK g \in Field : data[g] = data[f] /\ Resolve!resolve_gun_reference(data, g)
    BY FirstAsks
  <2>2. g \in asked
    BY <2>1 DEF Resolve!is_gun_reference
  <2>. QED BY <2>1, <2>2
<1>5. \A f, g \in asked : data[f] = data[g] => f = g
  BY <1>2, OneAsks
<1>6. \A s \in souls : \E f \in asked : s = data[f]
  OBVIOUS
<1>7. \A f \in Field : Resolve!is_gun_reference(data[f]) <=> data[f] \in Node
  BY DEF Resolve!is_gun_reference
<1>. HIDE DEF asked, souls
\* The places of the object held nothing, and hold its souls.
<1>8. \A p \in Resolve!Place : p[1] \in Object /\ p[2] \in Field /\ p = <<p[1], p[2]>>
  BY DEF Resolve!Place, Object
<1>9. \A f \in Field : <<n, f>> \in Resolve!Place
  BY DEF Resolve!Place, Object
<1>10. \A p \in Resolve!Place : p[1] = n => result[p] = Null
  BY <1>8 DEF FromSeen, Resolve!NotHere
<1>11. \A p \in Resolve!Place :
         /\ p[1] # n => result'[p] = result[p]
         /\ p[1] = n /\ p[2] \in asked => result'[p] = data[p[2]] /\ result'[p] \in souls
         /\ p[1] = n /\ p[2] \notin asked => result'[p] \in {data[p[2]], Null} /\ result'[p] \notin Node
  <2>. SUFFICES ASSUME NEW p \in Resolve!Place
                PROVE  /\ p[1] # n => result'[p] = result[p]
                       /\ p[1] = n /\ p[2] \in asked => result'[p] = data[p[2]] /\ result'[p] \in souls
                       /\ p[1] = n /\ p[2] \notin asked => /\ result'[p] \in {data[p[2]], Null}
                                                          /\ result'[p] \notin Node
    OBVIOUS
  <2>1. p[2] \in asked => data[p[2]] \in souls
    BY DEF souls
  <2>. QED BY <1>1, <1>7, <1>8, <2>1, ResolveAssumption
<1>12. /\ seen'[n] = data
       /\ \A m \in Object : m # n => seen'[m] = seen[m]
  BY <1>1 DEF ResolveTypes
<1>13. ResolveTypes'
  <2>1. \A p \in Resolve!Place : result'[p] \in Held
    BY <1>8, <1>11 DEF ResolveTypes, Held
  <2>2. result' \in [Resolve!Place -> Held]
    BY <1>1, <2>1
  <2>3. visited' \subseteq Node /\ reading' \subseteq visited'
    BY <1>1, <1>3 DEF ResolveTypes
  <2>. QED BY <1>1, <2>2, <2>3 DEF ResolveTypes
<1>14. FromSeen'
  <2>. SUFFICES ASSUME NEW p \in Resolve!Place
                PROVE  /\ result'[p] \in {seen'[p[1]][p[2]], Null}
                       /\ seen'[p[1]][p[2]] \in Node => seen'[p[1]][p[2]] \in visited'
    BY DEF FromSeen
  <2>1. CASE p[1] = n
    BY <1>1, <1>4, <1>8, <1>11, <1>12, <2>1
  <2>2. CASE p[1] # n
    BY <1>1, <1>8, <1>11, <1>12, <2>2 DEF FromSeen
  <2>. QED BY <2>1, <2>2
\* What stood, stands where it stood, and the souls stand in the object.
<1>15. \A p \in Resolve!Place : result[p] \in Node => /\ result'[p] = result[p] /\ p[1] # n
                                                      /\ result[p] \in visited /\ p[1] \notin souls
  <2>. SUFFICES ASSUME NEW p \in Resolve!Place, result[p] \in Node
                PROVE  /\ result'[p] = result[p] /\ p[1] # n
                       /\ result[p] \in visited /\ p[1] \notin souls
    OBVIOUS
  <2>1. p[1] # n /\ result'[p] = result[p]
    BY <1>10, <1>11, ResolveAssumption
  <2>2. result[p] = seen[p[1]][p[2]] /\ result[p] \in visited
    BY ResolveAssumption DEF FromSeen
  <2>3. p[1] \notin souls
    <3>. SUFFICES ASSUME p[1] \in souls PROVE FALSE
      OBVIOUS
    <3>1. seen[p[1]] = Resolve!NotHere
      BY <1>3 DEF AskedOnce
    <3>. QED BY <1>8, <2>2, <3>1, ResolveAssumption DEF Resolve!NotHere
  <2>. QED BY <2>1, <2>2, <2>3
<1>16. \A p \in Resolve!Place : result'[p] \in Node => \/ result[p] \in Node
                                                       \/ p[1] = n /\ p[2] \in asked
  BY <1>11
<1>17. OnePlace'
  <2>. SUFFICES ASSUME NEW p \in Resolve!Place, NEW q \in Resolve!Place, result'[p] = result'[q],
                       result'[p] \in Node
                PROVE  p = q
    BY DEF OnePlace
  <2>1. CASE result[p] \in Node /\ result[q] \in Node
    BY <1>15, <2>1 DEF OnePlace
  <2>2. CASE result[p] \notin Node /\ result[q] \notin Node
    BY <1>5, <1>8, <1>11, <1>16, <2>2
  <2>3. CASE result[p] \in Node <=> result[q] \notin Node
    BY <1>3, <1>11, <1>15, <1>16, <2>3
  <2>. QED BY <2>1, <2>2, <2>3
<1>18. Resolve!Standing \subseteq Resolve!Standing' /\ Resolve!Standing' = Resolve!Standing \cup souls
  <2>1. \A s \in souls : s \in Resolve!Standing'
    <3>. SUFFICES ASSUME NEW s \in souls PROVE s \in Resolve!Standing'
      OBVIOUS
    <3>1. PICK f \in asked : s = data[f]
      BY <1>6
    <3>2. <<n, f>> \in Resolve!Place /\ result'[<<n, f>>] = s
      BY <1>2, <1>9, <1>11, <3>1
    <3>. QED BY <1>3, <3>2 DEF Resolve!Standing
  <2>2. \A s \in Resolve!Standing : s \in Resolve!Standing'
    BY <1>15 DEF Resolve!Standing
  <2>3. \A s \in Resolve!Standing' : s \in Resolve!Standing \/ s \in souls
    <3>. SUFFICES ASSUME NEW s \in Resolve!Standing' PROVE s \in Resolve!Standing \/ s \in souls
      OBVIOUS
    <3>1. PICK p \in Resolve!Place : s = result'[p] /\ s \in Node
      BY DEF Resolve!Standing
    <3>. QED BY <1>11, <1>15, <1>16, <3>1 DEF Resolve!Standing
  <2>. QED BY <2>1, <2>2, <2>3
<1>19. AskedOnce'
  <2>. SUFFICES ASSUME NEW m \in Node
                PROVE  /\ m \notin visited' \/ m \in reading' => seen'[m] = Resolve!NotHere
                       /\ m \in reading' \/ seen'[m] # Resolve!NotHere => m \in Resolve!Standing'
    BY DEF AskedOnce, Resolve!NotHere
  <2>1. CASE m = n
    <3>1. n \in reading
      BY <2>1, ResolveAssumption
    <3>2. n \in visited' /\ n \notin reading' /\ n \in Resolve!Standing
      BY <1>1, <1>3, <2>1, <3>1 DEF ResolveTypes, AskedOnce
    <3>. QED BY <1>18, <2>1, <3>2
  <2>2. CASE m # n
    <3>1. seen'[m] = seen[m]
      BY <1>12, <2>2 DEF Object
    <3>2. CASE m \in souls
      BY <1>3, <1>18, <3>1, <3>2 DEF AskedOnce
    <3>3. CASE m \notin souls
      BY <1>1, <1>18, <3>1, <3>3 DEF AskedOnce
    <3>. QED BY <3>2, <3>3
  <2>. QED BY <2>1, <2>2
<1>20. Hanging'
  <2>. SUFFICES ASSUME NEW S \in SUBSET Resolve!Standing', S # {}
                PROVE  \E p \in Resolve!Place : result'[p] \in S /\ p[1] \notin S
    BY DEF Hanging
  <2>1. CASE S \subseteq souls
    <3>1. PICK s \in S : \E f \in asked : s = data[f]
      BY <1>6, <2>1
    <3>2. PICK f \in asked : s = data[f]
      BY <3>1
    <3>3. <<n, f>> \in Resolve!Place /\ result'[<<n, f>>] = s /\ n \notin S
      BY <1>2, <1>3, <1>9, <1>11, <2>1, <3>2
    <3>4. <<n, f>>[1] = n
      OBVIOUS
    <3>. QED BY <3>1, <3>3, <3>4
  <2>2. CASE ~(S \subseteq souls)
    <3>1. S \ souls \in (SUBSET Resolve!Standing) \ {{}}
      BY <1>18, <2>2
    <3>2. PICK p \in Resolve!Place : result[p] \in S \ souls /\ p[1] \notin S \ souls
      BY <3>1 DEF Hanging
    <3>3. result[p] \in Node
      BY <3>1, <3>2 DEF Resolve!Standing
    <3>. QED BY <1>15, <3>2, <3>3
  <2>. QED BY <2>1, <2>2
<1>. QED BY <1>13, <1>14, <1>17, <1>19, <1>20

\* A node that is not there, or did not answer, stands nowhere any more.
LEMMA Nulling ==
  ASSUME ResolveInv, NEW n \in reading, Resolve!ResolveToNull(n)
  PROVE  ResolveInv'
<1>. USE DEF ResolveInv
<1>1. /\ reading' = reading \ {n} /\ UNCHANGED <<graph, puts, visited, seen>>
      /\ result' = [p \in Resolve!Place |-> IF result[p] = n THEN Null ELSE result[p]]
      /\ n \in Node
  BY DEF Resolve!ResolveToNull, ResolveTypes
<1>2. \A p \in Resolve!Place : /\ result'[p] \in {result[p], Null}
                               /\ result'[p] \in Node <=> result[p] \in Node \ {n}
                               /\ result'[p] \in Node => result'[p] = result[p]
  BY <1>1, ResolveAssumption
<1>3. ResolveTypes'
  <2>1. \A p \in Resolve!Place : result'[p] \in Held
    BY <1>2 DEF ResolveTypes, Held
  <2>. QED BY <1>1, <2>1 DEF ResolveTypes
<1>4. FromSeen' /\ OnePlace'
  BY <1>1, <1>2 DEF FromSeen, OnePlace
<1>5. Resolve!Standing' = Resolve!Standing \ {n}
  <2>1. \A m : m \in Resolve!Standing' <=> m \in Resolve!Standing \ {n}
    <3>. TAKE m
    <3>1. m \in Resolve!Standing' <=> m \in Node /\ \E p \in Resolve!Place : result'[p] = m
      BY DEF Resolve!Standing
    <3>2. m \in Resolve!Standing <=> m \in Node /\ \E p \in Resolve!Place : result[p] = m
      BY DEF Resolve!Standing
    <3>. QED BY <1>2, <3>1, <3>2
  <2>. QED BY <2>1
<1>6. AskedOnce'
  BY <1>1, <1>5 DEF AskedOnce, Resolve!NotHere
<1>7. Hanging'
  <2>. SUFFICES ASSUME NEW S \in SUBSET Resolve!Standing', S # {}
                PROVE  \E p \in Resolve!Place : result'[p] \in S /\ p[1] \notin S
    BY DEF Hanging
  <2>1. S \in (SUBSET Resolve!Standing) \ {{}} /\ n \notin S
    BY <1>5
  <2>2. PICK p \in Resolve!Place : result[p] \in S /\ p[1] \notin S
    BY <2>1 DEF Hanging
  <2>3. result[p] \in Node \ {n}
    BY <2>1, <2>2 DEF Resolve!Standing
  <2>. QED BY <1>2, <2>2, <2>3
<1>. QED BY <1>3, <1>4, <1>6, <1>7

LEMMA ResolveStep ==
  ASSUME ResolveInv, [Next]_Vars
  PROVE  ResolveInv'
<1>1. Resolve!Next \/ UNCHANGED resolveVars
  BY DEF Next, Vars
<1>2. CASE UNCHANGED resolveVars
  <2>1. UNCHANGED <<graph, visited, reading, seen, result>>
    BY <1>2 DEF resolveVars
  <2>2. Resolve!Standing' = Resolve!Standing
    BY <2>1 DEF Resolve!Standing
  <2>. QED BY <2>1, <2>2 DEF ResolveInv, ResolveTypes, FromSeen, OnePlace, AskedOnce, Hanging, Resolve!NotHere
<1>3. CASE Resolve!gun_resolve
  <2>1. /\ seen[Asked] = Resolve!NotHere /\ Resolve!resolve_gun_object(Asked, graph[Root])
        /\ UNCHANGED graph /\ Asked \in Object
    BY <1>3 DEF Resolve!gun_resolve, Object
  <2>2. graph[Root] \in [Field -> Held]
    BY ResolveAssumption DEF ResolveInv, ResolveTypes
  <2>. QED BY <2>1, <2>2, Resolving
<1>4. ASSUME NEW n \in Node, Resolve!Answer(n)
      PROVE  ResolveInv'
  <2>1. CASE Resolve!resolve_gun_object(n, graph[n]) /\ UNCHANGED graph
    <3>1. n \in Object /\ n \in reading /\ graph[n] \in [Field -> Held] /\ seen[n] = Resolve!NotHere
      BY <1>4 DEF Resolve!Answer, Object, ResolveInv, ResolveTypes, AskedOnce
    <3>. QED BY <2>1, <3>1, Resolving
  <2>2. CASE Resolve!ResolveToNull(n)
    BY <1>4, <2>2, Nulling DEF Resolve!Answer
  <2>. QED BY <1>4, <2>1, <2>2 DEF Resolve!Answer
<1>5. ASSUME NEW n \in Node, Resolve!TimeOut(n)
      PROVE  ResolveInv'
  BY <1>5, Nulling DEF Resolve!TimeOut
<1>6. ASSUME NEW n \in Node, NEW f \in Field, NEW v \in Node \cup {Plain}, Resolve!Put(n, f, v)
      PROVE  ResolveInv'
  <2>1. graph' = [graph EXCEPT ![n][f] = v] /\ UNCHANGED <<visited, reading, late, seen, result>>
    BY <1>6 DEF Resolve!Put
  <2>2. Resolve!Standing' = Resolve!Standing
    BY <2>1 DEF Resolve!Standing
  <2>3. ResolveTypes'
    BY <2>1 DEF ResolveInv, ResolveTypes, Held
  <2>. QED BY <2>1, <2>2, <2>3 DEF ResolveInv, FromSeen, OnePlace, AskedOnce, Hanging, Resolve!NotHere
<1>. QED BY <1>1, <1>2, <1>3, <1>4, <1>5, <1>6 DEF Resolve!Next

\* The invariant of a resolution (resolve_gun_object, resolve_gun_reference).
THEOREM ResolveInvariant == Spec => []ResolveInv
<1>1. Init => ResolveInv
  BY ResolveInit DEF Init
<1>2. ResolveInv /\ [Next]_Vars => ResolveInv'
  BY ResolveStep
<1>. QED BY <1>1, <1>2, PTL DEF Spec

\* On any graph, whatever is written to it meanwhile and in whatever order the
\* reads answer or time out, a node stands at one place at most, all hang on the
\* object that was asked for, and a null has a reason (resolve_gun_reference).
THEOREM ResolutionHasReasons == Spec => []NullsHaveReasons
<1>1. ResolveInv => NullsHaveReasons
  BY ResolveSuffices
<1>. QED BY <1>1, ResolveInvariant, PTL

-----------------------------------------------------------------------------
(* The codec.  Its functions call themselves on what a value or a code is  *)
(* made of; there are such functions because that is nested less deep.     *)

Recursions  == {"encode", "decode", "within", "resolve"}
Universe(r)  == IF r = "decode" THEN Encoded ELSE Values
Inside(r, x) == IF r = "decode" THEN Codec!PartsOfCode(x) ELSE Codec!PartsOf(x)
OneStep(r, x, f) ==
  CASE r = "encode" -> Codec!Encoding(x, f)
    [] r = "decode" -> Codec!Decoding(x, f)
    [] r = "within" -> {x} \union UNION {f[p] : p \in Codec!PartsOf(x)}
    [] r = "resolve" -> Codec!Resolved(x, f)

LEMMA InsideIsLess ==
  ASSUME NEW r \in Recursions, NEW x \in Universe(r)
  PROVE  Rank[x] \in Nat /\ \A p \in Inside(r, x) : p \in Universe(r) /\ Rank[p] < Rank[x]
BY CodecAssumption DEF Recursions, Universe, Inside, Codec!AreValues, Codec!AreCodes

LEMMA EncodingIsLocal ==
  ASSUME NEW v \in Values, NEW f, NEW g, \A p \in Codec!PartsOf(v) : f[p] = g[p]
  PROVE  Codec!Encoding(v, f) = Codec!Encoding(v, g)
<1>1. CASE v.kind = "map"
  <2>1. \A k \in DOMAIN v.entries : f[v.entries[k]] = g[v.entries[k]]
    BY <1>1 DEF Codec!PartsOf, Codec!Range
  <2>2. Codec!map_schema(v, f) = Codec!map_schema(v, g)
    BY <2>1 DEF Codec!map_schema
  <2>. QED BY <1>1, <2>2 DEF Codec!Encoding
<1>2. CASE v.kind = "set"
  <2>1. \A id \in {Codec!identify_by(m) : m \in v.members} : Codec!Members(v.members, id) \in v.members
    BY DEF Codec!Members
  <2>2. Codec!set_schema_encode(v, f) = Codec!set_schema_encode(v, g)
    <3>1. \A m \in v.members : f[m] = g[m]
      BY <1>2 DEF Codec!PartsOf
    <3>. QED BY <2>1, <3>1 DEF Codec!set_schema_encode
  <2>. QED BY <1>2, <2>2 DEF Codec!Encoding
<1>3. CASE v.kind = "layered"
  <2>1. f[v.base] = g[v.base] /\ \A l \in DOMAIN v.layers : f[v.layers[l]] = g[v.layers[l]]
    BY <1>3 DEF Codec!PartsOf, Codec!Range
  <2>2. Codec!layered_object_schema(v, f) = Codec!layered_object_schema(v, g)
    BY <2>1 DEF Codec!layered_object_schema
  <2>. QED BY <1>3, <2>2 DEF Codec!Encoding
<1>4. CASE v.kind = "element"
  BY <1>4 DEF Codec!Encoding, Codec!PartsOf, Codec!lain_element_schema
<1>5. CASE v.kind = "closure"
  <2>1. \A i \in DOMAIN v.body[1] : f[v.body[1][i]] = g[v.body[1][i]]
    BY <1>5 DEF Codec!PartsOf, Codec!Range
  <2>2. Codec!closure_schema(v, f) = Codec!closure_schema(v, g)
    BY <2>1 DEF Codec!closure_schema
  <2>. QED BY <1>5, <2>2 DEF Codec!Encoding
<1>6. CASE v.kind \notin {"map", "set", "layered", "element", "closure"}
  BY <1>6 DEF Codec!Encoding
<1>. QED BY <1>1, <1>2, <1>3, <1>4, <1>5, <1>6

LEMMA ResolvingIsLocal ==
  ASSUME NEW v \in Values, NEW f, NEW g, \A p \in Codec!PartsOf(v) : f[p] = g[p]
  PROVE  Codec!Resolved(v, f) = Codec!Resolved(v, g)
<1>1. CASE v.kind = "map"
  <2>1. \A k \in DOMAIN v.entries \ {Codec!Reserved} : f[v.entries[k]] = g[v.entries[k]]
    BY <1>1 DEF Codec!PartsOf, Codec!Range
  <2>2. [k \in DOMAIN v.entries \ {Codec!Reserved} |-> f[v.entries[k]]]
          = [k \in DOMAIN v.entries \ {Codec!Reserved} |-> g[v.entries[k]]]
    BY <2>1
  <2>. QED BY <1>1, <2>2 DEF Codec!Resolved
<1>2. CASE v.kind = "element"
  BY <1>2 DEF Codec!Resolved, Codec!PartsOf
<1>3. CASE v.kind \notin {"map", "element"}
  BY <1>3 DEF Codec!Resolved
<1>. QED BY <1>1, <1>2, <1>3

\* How an object is decoded depends on its tag, and no object has two.
Tags == {"cell", "reference", "MAP", "set", "layered_object", "lain_element", "closure", "primitive",
         "interested_neighbor"}

LEMMA OneTag ==
  ASSUME NEW e, NEW t \in Tags, NEW u \in Tags, Codec!IsTagged(e, t), Codec!IsTagged(e, u)
  PROVE  t = u
BY DEF Codec!IsTagged, Codec!Leaf

LEMMA DecodingBy ==
  ASSUME NEW e, NEW dec, e.json = "object"
  PROVE  /\ Codec!IsTagged(e, "cell") => Codec!Decoding(e, dec) = Codec!CellRef(e.fields.id.is)
         /\ Codec!IsTagged(e, "reference") => Codec!Decoding(e, dec) = Codec!CellRef(e.fields.id.is)
         /\ Codec!IsTagged(e, "MAP") => Codec!Decoding(e, dec) = Codec!decode_map(e, dec)
         /\ Codec!IsTagged(e, "set") => Codec!Decoding(e, dec) = Codec!decode_set(e, dec)
         /\ Codec!IsTagged(e, "layered_object") => Codec!Decoding(e, dec) = Codec!decode_layered(e, dec)
         /\ Codec!IsTagged(e, "lain_element") => Codec!Decoding(e, dec) = Codec!decode_element(e, dec)
         /\ Codec!IsTagged(e, "closure") => Codec!Decoding(e, dec) = Codec!decode_closure(e, dec)
         /\ Codec!IsTagged(e, "primitive") => Codec!Decoding(e, dec) = Codec!decode_primitive(e)
         /\ Codec!IsTagged(e, "interested_neighbor") =>
              Codec!Decoding(e, dec) = Codec!Neighbor(e.fields.propagator.is, e.fields.neighbor_type.is)
         /\ (\A t \in Tags : ~Codec!IsTagged(e, t)) => Codec!Decoding(e, dec) = Codec!decode_plain(e)
<1>. USE DEF Codec!is_cell_schema, Codec!is_reference, Codec!is_map_schema, Codec!is_set_schema,
             Codec!is_layered_schema, Codec!is_element_schema, Codec!is_closure_schema,
             Codec!is_primitive_schema, Codec!is_neighbor_schema
<1>1. \A t, u \in Tags : Codec!IsTagged(e, t) /\ Codec!IsTagged(e, u) => t = u
  BY OneTag
<1>2. e.json # "text"
  OBVIOUS
<1>. HIDE DEF Codec!IsTagged
<1>3. Codec!IsTagged(e, "cell") => Codec!Decoding(e, dec) = Codec!CellRef(e.fields.id.is)
  BY <1>1, <1>2 DEF Codec!Decoding, Tags
<1>4. Codec!IsTagged(e, "reference") => Codec!Decoding(e, dec) = Codec!CellRef(e.fields.id.is)
  BY <1>1, <1>2 DEF Codec!Decoding, Tags
<1>5. Codec!IsTagged(e, "MAP") => Codec!Decoding(e, dec) = Codec!decode_map(e, dec)
  BY <1>1, <1>2 DEF Codec!Decoding, Tags
<1>6. Codec!IsTagged(e, "set") => Codec!Decoding(e, dec) = Codec!decode_set(e, dec)
  BY <1>1, <1>2 DEF Codec!Decoding, Tags
<1>7. Codec!IsTagged(e, "layered_object") => Codec!Decoding(e, dec) = Codec!decode_layered(e, dec)
  BY <1>1, <1>2 DEF Codec!Decoding, Tags
<1>8. Codec!IsTagged(e, "lain_element") => Codec!Decoding(e, dec) = Codec!decode_element(e, dec)
  BY <1>1, <1>2 DEF Codec!Decoding, Tags
<1>9. Codec!IsTagged(e, "closure") => Codec!Decoding(e, dec) = Codec!decode_closure(e, dec)
  BY <1>1, <1>2 DEF Codec!Decoding, Tags
<1>10. Codec!IsTagged(e, "primitive") => Codec!Decoding(e, dec) = Codec!decode_primitive(e)
  BY <1>1, <1>2 DEF Codec!Decoding, Tags
<1>11. Codec!IsTagged(e, "interested_neighbor") =>
         Codec!Decoding(e, dec) = Codec!Neighbor(e.fields.propagator.is, e.fields.neighbor_type.is)
  BY <1>1, <1>2 DEF Codec!Decoding, Tags
<1>12. (\A t \in Tags : ~Codec!IsTagged(e, t)) => Codec!Decoding(e, dec) = Codec!decode_plain(e)
  BY <1>2 DEF Codec!Decoding, Tags
<1>. QED BY <1>3, <1>4, <1>5, <1>6, <1>7, <1>8, <1>9, <1>10, <1>11, <1>12

LEMMA DecodingIsLocal ==
  ASSUME NEW e \in Encoded, NEW f, NEW g, \A p \in Codec!PartsOfCode(e) : f[p] = g[p]
  PROVE  Codec!Decoding(e, f) = Codec!Decoding(e, g)
<1>. USE DEF Codec!is_cell_schema, Codec!is_reference, Codec!is_map_schema, Codec!is_set_schema,
             Codec!is_layered_schema, Codec!is_element_schema, Codec!is_closure_schema,
             Codec!is_primitive_schema, Codec!is_neighbor_schema
<1>1. CASE e.json = "text"
  <2>1. Codec!PartsOfCode(e) = {e.object}
    BY <1>1 DEF Codec!PartsOfCode, Codec!IsTagged
  <2>2. f[e.object] = g[e.object]
    BY <2>1
  <2>. QED BY <1>1, <2>2 DEF Codec!Decoding, Codec!IsTagged
<1>2. ASSUME e.json # "text" PROVE Codec!Decoding(e, f) = Codec!Decoding(e, g)
  <2>0. e.json = "object"
    BY <1>2, CodecAssumption DEF Codec!AreCodes
  <2>t. \A t, u \in Tags : Codec!IsTagged(e, t) /\ Codec!IsTagged(e, u) => t = u
    BY OneTag
  <2>1. CASE Codec!IsTagged(e, "MAP")
    <3>0. Codec!PartsOfCode(e) = {e.fields[k] : k \in DOMAIN e.fields \ {"type"}}
      BY <1>2, <2>1, <2>t DEF Codec!PartsOfCode, Tags
    <3>1. \A k \in Codec!MapKeys(e) : f[e.fields[k]] = g[e.fields[k]]
      BY <3>0 DEF Codec!MapKeys
    <3>2. Codec!decode_map(e, f) = Codec!decode_map(e, g)
      BY <3>1 DEF Codec!decode_map
    <3>. QED BY <2>0, <2>1, <3>2, DecodingBy
  <2>2. CASE Codec!IsTagged(e, "set")
    <3>0. Codec!PartsOfCode(e) = {e.fields[k] : k \in DOMAIN e.fields \ {"type"}}
      BY <1>2, <2>2, <2>t DEF Codec!PartsOfCode, Tags
    <3>1. \A k \in DOMAIN e.fields \ {"type"} : f[e.fields[k]] = g[e.fields[k]]
      BY <3>0
    <3>2. Codec!decode_set(e, f) = Codec!decode_set(e, g)
      BY <3>1 DEF Codec!decode_set
    <3>. QED BY <2>0, <2>2, <3>2, DecodingBy
  <2>3. CASE Codec!IsTagged(e, "layered_object")
    <3>0. Codec!PartsOfCode(e) =
            {e.fields[l] : l \in DOMAIN e.fields \intersect Codec!KnownLayers} \union {e.fields.base}
      BY <1>2, <2>3, <2>t DEF Codec!PartsOfCode, Tags
    <3>1. /\ \A l \in DOMAIN e.fields \intersect Codec!KnownLayers : f[e.fields[l]] = g[e.fields[l]]
          /\ f[e.fields.base] = g[e.fields.base]
      BY <3>0
    <3>2. Codec!decode_layered(e, f) = Codec!decode_layered(e, g)
      BY <3>1 DEF Codec!decode_layered
    <3>. QED BY <2>0, <2>3, <3>2, DecodingBy
  <2>4. CASE Codec!IsTagged(e, "lain_element")
    <3>0. Codec!PartsOfCode(e) = {e.fields.value}
      BY <1>2, <2>4, <2>t DEF Codec!PartsOfCode, Tags
    <3>2. Codec!decode_element(e, f) = Codec!decode_element(e, g)
      BY <3>0 DEF Codec!decode_element
    <3>. QED BY <2>0, <2>4, <3>2, DecodingBy
  <2>5. CASE Codec!IsTagged(e, "closure")
    <3>0. Codec!PartsOfCode(e) = {e.fields.body.items[i] : i \in DOMAIN e.fields.body.items}
      BY <1>2, <2>5, <2>t DEF Codec!PartsOfCode, Tags, Codec!Range
    <3>2. Codec!decode_closure(e, f) = Codec!decode_closure(e, g)
      BY <3>0 DEF Codec!decode_closure
    <3>. QED BY <2>0, <2>5, <3>2, DecodingBy
  <2>6. CASE \A t \in {"MAP", "set", "layered_object", "lain_element", "closure"} : ~Codec!IsTagged(e, t)
    BY <1>2, <2>6 DEF Codec!Decoding
  <2>. QED BY <2>1, <2>2, <2>3, <2>4, <2>5, <2>6
<1>. QED BY <1>1, <1>2

LEMMA OneStepIsLocal ==
  ASSUME NEW r \in Recursions, NEW x \in Universe(r), NEW f, NEW g, \A p \in Inside(r, x) : f[p] = g[p]
  PROVE  OneStep(r, x, f) = OneStep(r, x, g)
<1>1. CASE r = "encode"
  BY <1>1, EncodingIsLocal DEF OneStep, Universe, Inside
<1>2. CASE r = "decode"
  BY <1>2, DecodingIsLocal DEF OneStep, Universe, Inside
<1>3. CASE r = "within"
  BY <1>3 DEF OneStep, Inside
<1>4. CASE r = "resolve"
  BY <1>4, ResolvingIsLocal DEF OneStep, Universe, Inside
<1>. QED BY <1>1, <1>2, <1>3, <1>4 DEF Recursions

\* f is right about everything that is nested less than n deep.
RightBelow(r, n, f) == \A x \in Universe(r) : Rank[x] < n => f[x] = OneStep(r, x, f)

LEMMA RightOnesAgree ==
  ASSUME NEW r \in Recursions, NEW n \in Nat, NEW f, NEW g, RightBelow(r, n, f), RightBelow(r, n, g)
  PROVE  \A x \in Universe(r) : Rank[x] < n => f[x] = g[x]
<1>. DEFINE T == {x \in Universe(r) : Rank[x] < n /\ f[x] # g[x]}
<1>. SUFFICES ASSUME T # {} PROVE FALSE
  OBVIOUS
<1>1. \A x \in T : Rank[x] \in Nat
  BY InsideIsLess
<1>2. PICK x \in T : \A y \in T : Rank[x] <= Rank[y]
  BY <1>1, LeastOf
<1>3. \A p \in Inside(r, x) : p \in Universe(r) /\ Rank[p] < Rank[x] /\ Rank[p] \in Nat /\ Rank[x] \in Nat
  BY InsideIsLess
<1>4. \A p \in Inside(r, x) : f[p] = g[p]
  BY <1>2, <1>3
<1>5. OneStep(r, x, f) = OneStep(r, x, g)
  BY <1>4, OneStepIsLocal
<1>. QED BY <1>5 DEF RightBelow

LEMMA RightOnesExist ==
  ASSUME NEW r \in Recursions
  PROVE  \A n \in Nat : \E f : RightBelow(r, n, f)
<1>. DEFINE N == {n \in Nat : ~\E f : RightBelow(r, n, f)}
<1>. SUFFICES ASSUME N # {} PROVE FALSE
  OBVIOUS
<1>1. PICK n \in N : \A m \in N : n <= m
  BY LeastNumber
<1>2. n # 0
  BY InsideIsLess DEF RightBelow
<1>3. n - 1 \in Nat /\ n - 1 \notin N
  BY <1>1, <1>2
<1>4. PICK f : RightBelow(r, n - 1, f)
  BY <1>3
<1>. DEFINE g == [x \in Universe(r) |-> OneStep(r, x, f)]
<1>5. ASSUME NEW x \in Universe(r), Rank[x] < n PROVE g[x] = OneStep(r, x, g)
  <2>1. Rank[x] \in Nat /\ \A p \in Inside(r, x) : p \in Universe(r) /\ Rank[p] < Rank[x] /\ Rank[p] \in Nat
    BY InsideIsLess
  <2>2. \A p \in Inside(r, x) : f[p] = g[p]
    BY <1>4, <1>5, <2>1 DEF RightBelow
  <2>3. OneStep(r, x, f) = OneStep(r, x, g)
    <3>. HIDE DEF g
    <3>. QED BY <2>2, OneStepIsLocal
  <2>. QED BY <2>3
<1>6. RightBelow(r, n, g)
  <2>. HIDE DEF g
  <2>. QED BY <1>5 DEF RightBelow
<1>. QED BY <1>6

LEMMA RecursionExists ==
  ASSUME NEW r \in Recursions
  PROVE  \E f : f = [x \in Universe(r) |-> OneStep(r, x, f)]
<1>. DEFINE right(n) == CHOOSE f : RightBelow(r, n, f)
            h == [x \in Universe(r) |-> right(Rank[x] + 1)[x]]
<1>1. \A n \in Nat : RightBelow(r, n, right(n))
  BY RightOnesExist
<1>. HIDE DEF right
<1>2. ASSUME NEW x \in Universe(r) PROVE h[x] = OneStep(r, x, h)
  <2>1. Rank[x] \in Nat /\ \A p \in Inside(r, x) : p \in Universe(r) /\ Rank[p] < Rank[x] /\ Rank[p] \in Nat
    BY InsideIsLess
  <2>2. h[x] = OneStep(r, x, right(Rank[x] + 1))
    BY <1>1, <2>1 DEF RightBelow
  <2>3. ASSUME NEW p \in Inside(r, x) PROVE h[p] = right(Rank[x] + 1)[p]
    <3>1. RightBelow(r, Rank[p] + 1, right(Rank[x] + 1))
      BY <1>1, <2>1, InsideIsLess DEF RightBelow
    <3>2. RightBelow(r, Rank[p] + 1, right(Rank[p] + 1))
      BY <1>1, <2>1
    <3>3. right(Rank[p] + 1)[p] = right(Rank[x] + 1)[p]
      <4>1. Rank[p] + 1 \in Nat /\ Rank[p] < Rank[p] + 1 /\ p \in Universe(r)
        BY <2>1
      <4>. QED BY <3>1, <3>2, <4>1, RightOnesAgree
    <3>. QED BY <2>1, <3>3
  <2>4. OneStep(r, x, h) = OneStep(r, x, right(Rank[x] + 1))
    <3>. HIDE DEF h
    <3>. QED BY <2>3, OneStepIsLocal
  <2>. QED BY <2>2, <2>4
<1>3. h = [x \in Universe(r) |-> OneStep(r, x, h)]
  <2>. HIDE DEF h
  <2>1. h = [x \in Universe(r) |-> h[x]]
    BY DEF h
  <2>. QED BY <1>2, <2>1
<1>. QED BY <1>3

LEMMA Equations ==
  /\ \A v \in Values : Codec!encode[v] = Codec!Encoding(v, Codec!encode)
  /\ \A e \in Encoded : Codec!decode[e] = Codec!Decoding(e, Codec!decode)
  /\ \A v \in Values : Codec!Within[v] = {v} \union UNION {Codec!Within[p] : p \in Codec!PartsOf(v)}
  /\ \A v \in Values : Codec!resolve[v] = Codec!Resolved(v, Codec!resolve)
<1>1. Codec!encode = [v \in Values |-> Codec!Encoding(v, Codec!encode)]
  <2>1. \E f : f = [v \in Values |-> Codec!Encoding(v, f)]
    BY RecursionExists DEF Recursions, Universe, OneStep
  <2>. QED BY <2>1 DEF Codec!encode
<1>2. Codec!decode = [e \in Encoded |-> Codec!Decoding(e, Codec!decode)]
  <2>1. \E f : f = [e \in Encoded |-> Codec!Decoding(e, f)]
    BY RecursionExists DEF Recursions, Universe, OneStep
  <2>. QED BY <2>1 DEF Codec!decode
<1>3. Codec!Within = [v \in Values |-> {v} \union UNION {Codec!Within[p] : p \in Codec!PartsOf(v)}]
  <2>1. \E f : f = [v \in Values |-> {v} \union UNION {f[p] : p \in Codec!PartsOf(v)}]
    BY RecursionExists DEF Recursions, Universe, OneStep
  <2>. QED BY <2>1 DEF Codec!Within
<1>4. Codec!resolve = [v \in Values |-> Codec!Resolved(v, Codec!resolve)]
  <2>1. \E f : f = [v \in Values |-> Codec!Resolved(v, f)]
    BY RecursionExists DEF Recursions, Universe, OneStep
  <2>. QED BY <2>1 DEF Codec!resolve
<1>. QED BY <1>1, <1>2, <1>3, <1>4

-----------------------------------------------------------------------------
(* What each kind of value comes back as. *)

LEMMA OfValues ==
  ASSUME NEW v \in Values
  PROVE  /\ Codec!IsValue(v) /\ Codec!PartsOf(v) \subseteq Values
         /\ Codec!encode[v] = Codec!Encoding(v, Codec!encode)
         /\ Codec!encode[v] \in Encoded /\ Codec!encode[v].json \in {"text", "object"}
         /\ Codec!Decoded(v) = Codec!Decoding(Codec!encode[v], Codec!decode)
<1>1. Codec!IsValue(v) /\ Codec!PartsOf(v) \subseteq Values
  BY CodecAssumption DEF Codec!AreValues
<1>2. Codec!encode[v] \in Encoded /\ Codec!encode[v].json \in {"text", "object"}
  BY CodecAssumption DEF Codec!AreCodes
<1>. QED BY <1>1, <1>2, Equations DEF Codec!Decoded

LEMMA OfCodes ==
  ASSUME NEW e \in Encoded
  PROVE  Codec!PartsOfCode(e) \subseteq Encoded /\ Codec!decode[e] = Codec!Decoding(e, Codec!decode)
<1>1. Codec!PartsOfCode(e) \subseteq Encoded
  BY CodecAssumption DEF Codec!AreCodes
<1>. QED BY <1>1, Equations

LEMMA OfTexts ==
  ASSUME NEW v \in Values, NEW o, Codec!encode[v] = Codec!Text(o)
  PROVE  /\ Codec!decode[o] = Codec!Decoding(o, Codec!decode)
         /\ Codec!Decoded(v) = IF Codec!Decoding(o, Codec!decode) = Codec!Thrown THEN Codec!Nothing
                            ELSE Codec!Decoding(o, Codec!decode)
<1>1. Codec!PartsOfCode(Codec!encode[v]) = {o}
  BY DEF Codec!PartsOfCode, Codec!Text, Codec!IsTagged, Codec!is_map_schema, Codec!is_set_schema,
         Codec!is_layered_schema, Codec!is_element_schema, Codec!is_closure_schema
<1>2. Codec!decode[o] = Codec!Decoding(o, Codec!decode)
  BY <1>1, OfValues, OfCodes
<1>3. Codec!Decoding(Codec!Text(o), Codec!decode) =
        IF Codec!decode[o] = Codec!Thrown THEN Codec!Nothing ELSE Codec!decode[o]
  BY DEF Codec!Decoding, Codec!Text, Codec!IsTagged, Codec!is_cell_schema, Codec!is_reference, Codec!is_map_schema,
         Codec!is_set_schema, Codec!is_layered_schema, Codec!is_element_schema, Codec!is_closure_schema,
         Codec!is_primitive_schema, Codec!is_neighbor_schema
<1>. QED BY <1>2, <1>3, OfValues

LEMMA AtomsComeBack ==
  ASSUME NEW v \in Values, v.kind = "atom"
  PROVE  Codec!Decoded(v) = v
<1>1. Codec!encode[v] = Codec!Obj([value |-> Codec!Leaf(v.is)]) /\ v = Codec!Atom(v.is)
  BY OfValues DEF Codec!Encoding, Codec!IsValue
<1>2. \A t \in Tags : ~Codec!IsTagged(Codec!encode[v], t)
  BY <1>1 DEF Codec!IsTagged, Codec!Obj
<1>3. Codec!Decoded(v) = Codec!decode_plain(Codec!encode[v])
  BY <1>1, <1>2, DecodingBy, OfValues DEF Codec!Obj
<1>4. Codec!decode_plain(Codec!encode[v]) = Codec!Atom(v.is)
  BY <1>1 DEF Codec!decode_plain, Codec!Obj, Codec!Leaf
<1>. QED BY <1>1, <1>3, <1>4

LEMMA PlainOnesAreLost ==
  ASSUME NEW v \in Values, v.kind \in {"object", "list"}
  PROVE  Codec!Decoded(v) = Codec!Nothing
<1>1. Codec!encode[v] = Codec!Obj([value |-> Codec!PlainObject])
  BY OfValues DEF Codec!Encoding
<1>2. \A t \in Tags : ~Codec!IsTagged(Codec!encode[v], t)
  BY <1>1 DEF Codec!IsTagged, Codec!Obj
<1>3. Codec!Decoded(v) = Codec!decode_plain(Codec!encode[v])
  BY <1>1, <1>2, DecodingBy, OfValues DEF Codec!Obj
<1>4. Codec!decode_plain(Codec!encode[v]) = Codec!Nothing
  BY <1>1 DEF Codec!decode_plain, Codec!Obj, Codec!PlainObject
<1>. QED BY <1>3, <1>4

LEMMA CellsComeBack ==
  ASSUME NEW v \in Values, v.kind = "cell"
  PROVE  Codec!Decoded(v) = v
<1>1. Codec!encode[v] = Codec!Obj([type |-> Codec!Leaf("cell"), id |-> Codec!Leaf(v.id)]) /\ v = Codec!CellRef(v.id)
  BY OfValues DEF Codec!Encoding, Codec!IsValue
<1>2. Codec!encode[v].json = "object" /\ Codec!encode[v].fields.id.is = v.id
      /\ Codec!IsTagged(Codec!encode[v], "cell")
  BY <1>1 DEF Codec!IsTagged, Codec!Obj, Codec!Leaf
<1>. QED BY <1>1, <1>2, DecodingBy, OfValues

LEMMA ReferencesComeBack ==
  ASSUME NEW id, Codec!encode_cell_reference(id) \in Encoded
  PROVE  Codec!decode[Codec!encode_cell_reference(id)] = Codec!CellRef(id)
<1>. DEFINE e == Codec!encode_cell_reference(id)
<1>1. e.json = "object" /\ e.fields.id.is = id /\ Codec!IsTagged(e, "reference")
  BY DEF Codec!encode_cell_reference, Codec!IsTagged, Codec!Obj, Codec!Leaf
<1>2. Codec!decode[e] = Codec!Decoding(e, Codec!decode)
  BY OfCodes
<1>. HIDE DEF e
<1>3. Codec!decode[e] = Codec!CellRef(id)
  BY <1>1, <1>2, DecodingBy
<1>. QED BY <1>3 DEF e

LEMMA PrimitivesComeBack ==
  ASSUME NEW v \in Values, v.kind = "primitive"
  PROVE  Codec!Decoded(v) = IF v.name \in KnownPrimitives THEN v ELSE Codec!Thrown
<1>1. Codec!encode[v] = Codec!Obj([type |-> Codec!Leaf("primitive"), name |-> Codec!Leaf(v.name)])
      /\ v = Codec!Primitive(v.name)
  BY OfValues DEF Codec!Encoding, Codec!IsValue
<1>2. Codec!encode[v].json = "object" /\ Codec!encode[v].fields.name.is = v.name
      /\ Codec!IsTagged(Codec!encode[v], "primitive")
  BY <1>1 DEF Codec!IsTagged, Codec!Obj, Codec!Leaf
<1>. QED BY <1>1, <1>2, DecodingBy, OfValues DEF Codec!decode_primitive

LEMMA NeighborsComeBack ==
  ASSUME NEW v \in Values, v.kind = "neighbor"
  PROVE  Codec!Decoded(v) = v
<1>. DEFINE o == Codec!interested_neighbor_schema(v)
<1>1. Codec!encode[v] = Codec!Text(o) /\ v = Codec!Neighbor(v.prop, v.type)
  BY OfValues DEF Codec!Encoding, Codec!IsValue
<1>2. o.json = "object" /\ o.fields.propagator.is = v.prop /\ o.fields.neighbor_type.is = v.type
      /\ Codec!IsTagged(o, "interested_neighbor")
  BY DEF Codec!interested_neighbor_schema, Codec!IsTagged, Codec!Obj, Codec!Leaf
<1>. HIDE DEF o
<1>3. Codec!Decoding(o, Codec!decode) = v
  BY <1>1, <1>2, DecodingBy
<1>4. v # Codec!Thrown
  BY DEF Codec!Thrown
<1>. QED BY <1>1, <1>3, <1>4, OfTexts

LEMMA ElementsComeBack ==
  ASSUME NEW v \in Values, v.kind = "element"
  PROVE  Codec!Decoded(v) = Codec!Unless({Codec!Decoded(v.value)}, Codec!Element(v.type, Codec!Decoded(v.value)))
<1>. DEFINE o == Codec!lain_element_schema(v, Codec!encode)
<1>1. Codec!encode[v] = o
  BY OfValues DEF Codec!Encoding
<1>2. /\ o.json = "object" /\ Codec!IsTagged(o, "lain_element")
      /\ o.fields.element_type.is = v.type /\ o.fields.value = Codec!encode[v.value]
  BY DEF Codec!lain_element_schema, Codec!IsTagged, Codec!Obj, Codec!Leaf
<1>. HIDE DEF o
<1>3. Codec!Decoded(v) = Codec!decode_element(o, Codec!decode)
  BY <1>1, <1>2, DecodingBy, OfValues
<1>. QED BY <1>2, <1>3 DEF Codec!decode_element, Codec!Decoded

LEMMA LayersComeBack ==
  ASSUME NEW v \in Values, v.kind = "layered"
  PROVE  LET known == [l \in DOMAIN v.layers \intersect Codec!KnownLayers |-> Codec!Decoded(v.layers[l])]
         IN  Codec!Decoded(v) = IF Codec!Thrown \in Codec!Range(known) \union {Codec!Decoded(v.base)} THEN Codec!Nothing
                             ELSE Codec!Layered(Codec!Decoded(v.base), known)
<1>. DEFINE o == Codec!layered_object_schema(v, Codec!encode)
            known == [l \in DOMAIN v.layers \intersect Codec!KnownLayers |-> Codec!Decoded(v.layers[l])]
<1>1. Codec!encode[v] = Codec!Text(o)
  BY OfValues DEF Codec!Encoding
<1>2. "base" \notin DOMAIN v.layers /\ "type" \notin DOMAIN v.layers
  <2>1. {"base", "type"} \intersect DOMAIN v.layers = {}
    BY OfValues DEF Codec!IsValue
  <2>. QED BY <2>1
<1>3. /\ o.json = "object" /\ Codec!IsTagged(o, "layered_object")
      /\ DOMAIN o.fields = DOMAIN v.layers \union {"type", "base"}
      /\ o.fields.base = Codec!encode[v.base]
      /\ \A l \in DOMAIN v.layers : o.fields[l] = Codec!encode[v.layers[l]]
  BY <1>2 DEF Codec!layered_object_schema, Codec!IsTagged, Codec!Obj, Codec!Leaf, Codec!Over
<1>. HIDE DEF o
<1>4. Codec!Decoding(o, Codec!decode) = Codec!decode_layered(o, Codec!decode)
  BY <1>3, DecodingBy
<1>5. DOMAIN o.fields \intersect Codec!KnownLayers = DOMAIN v.layers \intersect Codec!KnownLayers
  BY <1>3 DEF Codec!KnownLayers
<1>6. [l \in DOMAIN o.fields \intersect Codec!KnownLayers |-> Codec!decode[o.fields[l]]] = known
  BY <1>3, <1>5 DEF Codec!Decoded
<1>7. Codec!decode[o.fields.base] = Codec!Decoded(v.base)
  BY <1>3 DEF Codec!Decoded
<1>8. Codec!decode_layered(o, Codec!decode) =
        Codec!Unless(Codec!Range(known) \union {Codec!Decoded(v.base)}, Codec!Layered(Codec!Decoded(v.base), known))
  <2>. HIDE DEF known
  <2>. QED BY <1>6, <1>7 DEF Codec!decode_layered
<1>9. Codec!Layered(Codec!Decoded(v.base), known) # Codec!Thrown
  BY DEF Codec!Layered, Codec!Thrown
<1>. HIDE DEF known
<1>10. Codec!Decoded(v) = IF Codec!Thrown \in Codec!Range(known) \union {Codec!Decoded(v.base)} THEN Codec!Nothing
                       ELSE Codec!Layered(Codec!Decoded(v.base), known)
  BY <1>1, <1>4, <1>8, <1>9, OfTexts DEF Codec!Unless
<1>. QED BY <1>10 DEF known

LEMMA ClosuresComeBack ==
  ASSUME NEW v \in Values, v.kind = "closure"
  PROVE  LET body == [i \in DOMAIN v.body[1] |-> Codec!Decoded(v.body[1][i])]
         IN  Codec!Decoded(v) = IF Codec!Thrown \in Codec!Range(body) THEN Codec!Nothing
                             ELSE Codec!Closure(v.env, <<body>>)
<1>. DEFINE o == Codec!closure_schema(v, Codec!encode)
            body == [i \in DOMAIN v.body[1] |-> Codec!Decoded(v.body[1][i])]
<1>1. Codec!encode[v] = Codec!Text(o)
  BY OfValues DEF Codec!Encoding
<1>2. /\ o.json = "object" /\ Codec!IsTagged(o, "closure")
      /\ o.fields.env.fields.id.is = v.env
      /\ o.fields.body.items = [i \in DOMAIN v.body[1] |-> Codec!encode[v.body[1][i]]]
  BY DEF Codec!closure_schema, Codec!IsTagged, Codec!Obj, Codec!Leaf, Codec!List, Codec!encode_cell_reference
<1>. HIDE DEF o
<1>3. Codec!Decoding(o, Codec!decode) = Codec!decode_closure(o, Codec!decode)
  BY <1>2, DecodingBy
<1>4. [i \in DOMAIN o.fields.body.items |-> Codec!decode[o.fields.body.items[i]]] = body
  BY <1>2 DEF Codec!Decoded
<1>5. Codec!decode_closure(o, Codec!decode) = Codec!Unless(Codec!Range(body), Codec!Closure(v.env, <<body>>))
  <2>. HIDE DEF body
  <2>. QED BY <1>2, <1>4 DEF Codec!decode_closure
<1>6. Codec!Closure(v.env, <<body>>) # Codec!Thrown
  BY DEF Codec!Closure, Codec!Thrown
<1>. HIDE DEF body
<1>7. Codec!Decoded(v) = IF Codec!Thrown \in Codec!Range(body) THEN Codec!Nothing ELSE Codec!Closure(v.env, <<body>>)
  BY <1>1, <1>3, <1>5, <1>6, OfTexts DEF Codec!Unless
<1>. QED BY <1>7 DEF body

LEMMA FieldsOfMaps ==
  ASSUME NEW v \in Values, v.kind = "map"
  PROVE  LET o == Codec!encode[v]
         IN  /\ o.json = "object" /\ DOMAIN o.fields = DOMAIN v.entries \union {"type"}
             /\ \A k \in DOMAIN v.entries :
                  o.fields[k] = IF v.entries[k].kind = "cell" THEN Codec!encode_cell_reference(v.entries[k].id)
                                ELSE Codec!encode[v.entries[k]]
             /\ "type" \notin DOMAIN v.entries => Codec!IsTagged(o, "MAP")
<1>1. Codec!encode[v] = Codec!map_schema(v, Codec!encode)
  BY OfValues DEF Codec!Encoding
<1>. DEFINE es == [k \in DOMAIN v.entries |->
                     IF v.entries[k].kind = "cell" THEN Codec!encode_cell_reference(v.entries[k].id)
                     ELSE Codec!encode[v.entries[k]]]
            fs == Codec!Over(es, Codec!Tag("MAP"))
<1>2. Codec!encode[v] = Codec!Obj(fs)
  BY <1>1 DEF Codec!map_schema
<1>3. /\ DOMAIN es = DOMAIN v.entries
      /\ \A k \in DOMAIN v.entries :
           es[k] = IF v.entries[k].kind = "cell" THEN Codec!encode_cell_reference(v.entries[k].id)
                   ELSE Codec!encode[v.entries[k]]
  OBVIOUS
<1>. HIDE DEF es
<1>4. /\ DOMAIN fs = DOMAIN es \union {"type"} /\ \A k \in DOMAIN es : fs[k] = es[k]
      /\ "type" \notin DOMAIN es => fs.type = Codec!Leaf("MAP")
  BY DEF Codec!Over, Codec!Tag
<1>. HIDE DEF fs
<1>5. Codec!encode[v].json = "object" /\ Codec!encode[v].fields = fs
  BY <1>2 DEF Codec!Obj
<1>. QED BY <1>3, <1>4, <1>5 DEF Codec!IsTagged

LEMMA MapsComeBack ==
  ASSUME NEW v \in Values, v.kind = "map", "type" \notin DOMAIN v.entries
  PROVE  LET entries == [k \in DOMAIN v.entries |-> Codec!Decoded(v.entries[k])]
         IN  Codec!Decoded(v) = Codec!Unless(Codec!Range(entries), Codec!MapOf(entries))
<1>. DEFINE o == Codec!encode[v]
            entries == [k \in DOMAIN v.entries |-> Codec!Decoded(v.entries[k])]
<1>1. /\ o.json = "object" /\ DOMAIN o.fields = DOMAIN v.entries \union {"type"}
      /\ \A k \in DOMAIN v.entries :
           o.fields[k] = IF v.entries[k].kind = "cell" THEN Codec!encode_cell_reference(v.entries[k].id)
                         ELSE Codec!encode[v.entries[k]]
      /\ Codec!IsTagged(o, "MAP")
  BY FieldsOfMaps
<1>2. o \in Encoded /\ Codec!Decoded(v) = Codec!Decoding(o, Codec!decode) /\ Codec!PartsOf(v) \subseteq Values
  BY OfValues
<1>. HIDE DEF o
<1>3. Codec!Decoded(v) = Codec!decode_map(o, Codec!decode)
  BY <1>1, <1>2, DecodingBy
<1>4. Codec!MapKeys(o) = DOMAIN v.entries
  BY <1>1 DEF Codec!MapKeys
<1>5. ASSUME NEW k \in DOMAIN v.entries PROVE Codec!decode[o.fields[k]] = Codec!Decoded(v.entries[k])
  <2>1. v.entries[k] \in Values
    BY <1>2 DEF Codec!PartsOf, Codec!Range
  <2>2. CASE v.entries[k].kind = "cell"
    <3>1. o.fields[k] \in Encoded
      <4>1. o.fields[k] \in Codec!PartsOfCode(o)
        <5>1. o.json # "text" /\ Codec!is_map_schema(o) /\ k \in DOMAIN o.fields \ {"type"}
          BY <1>1 DEF Codec!is_map_schema
        <5>2. Codec!PartsOfCode(o) = {o.fields[l] : l \in DOMAIN o.fields \ {"type"}}
          <6>1. \A t \in Tags : Codec!IsTagged(o, t) => t = "MAP"
            BY <1>1, OneTag DEF Tags
          <6>. QED BY <5>1, <6>1 DEF Codec!PartsOfCode, Tags, Codec!is_map_schema, Codec!is_set_schema,
                      Codec!is_layered_schema, Codec!is_element_schema, Codec!is_closure_schema
        <5>. QED BY <5>1, <5>2
      <4>. QED BY <1>2, <4>1, OfCodes
    <3>2. o.fields[k] = Codec!encode_cell_reference(v.entries[k].id)
      BY <1>1, <2>2
    <3>3. Codec!decode[o.fields[k]] = Codec!CellRef(v.entries[k].id)
      BY <3>1, <3>2, ReferencesComeBack
    <3>4. Codec!Decoded(v.entries[k]) = v.entries[k] /\ v.entries[k] = Codec!CellRef(v.entries[k].id)
      BY <2>1, <2>2, CellsComeBack, OfValues DEF Codec!IsValue
    <3>. QED BY <3>3, <3>4
  <2>3. CASE v.entries[k].kind # "cell"
    BY <1>1, <2>3 DEF Codec!Decoded
  <2>. QED BY <2>2, <2>3
<1>6. [k \in Codec!MapKeys(o) |-> Codec!decode[o.fields[k]]] = entries
  BY <1>4, <1>5
<1>. HIDE DEF entries
<1>7. Codec!Decoded(v) = Codec!Unless(Codec!Range(entries), Codec!MapOf(entries))
  BY <1>3, <1>6 DEF Codec!decode_map
<1>. QED BY <1>7 DEF entries

\* An entry that is named like the tag hides it.
LEMMA MapsWithATagAreLost ==
  ASSUME NEW v \in Values, v.kind = "map", "type" \in DOMAIN v.entries
  PROVE  Codec!Decoded(v) = Codec!Nothing \/ Codec!Garbled(Codec!Decoded(v), v)
<1>. DEFINE o == Codec!encode[v]
<1>1. /\ o.json = "object" /\ DOMAIN o.fields = DOMAIN v.entries
      /\ \A k \in DOMAIN v.entries :
           o.fields[k] = IF v.entries[k].kind = "cell" THEN Codec!encode_cell_reference(v.entries[k].id)
                         ELSE Codec!encode[v.entries[k]]
  BY FieldsOfMaps
<1>2. Codec!Decoded(v) = Codec!Decoding(o, Codec!decode) /\ Codec!PartsOf(v) \subseteq Values
  BY OfValues
<1>. HIDE DEF o
<1>3. ASSUME NEW k \in DOMAIN v.entries PROVE o.fields[k].json \in {"object", "text"}
  <2>1. v.entries[k] \in Values
    BY <1>2 DEF Codec!PartsOf, Codec!Range
  <2>2. Codec!encode[v.entries[k]].json \in {"object", "text"}
    BY <2>1, OfValues
  <2>3. Codec!encode_cell_reference(v.entries[k].id).json = "object"
    BY DEF Codec!encode_cell_reference, Codec!Obj
  <2>. QED BY <1>1, <2>2, <2>3
<1>4. \A t \in Tags : ~Codec!IsTagged(o, t)
  <2>1. o.fields["type"].json # "leaf"
    BY <1>3
  <2>. QED BY <2>1 DEF Codec!IsTagged, Codec!Leaf
<1>5. Codec!Decoded(v) = Codec!decode_plain(o)
  BY <1>1, <1>2, <1>4, DecodingBy
<1>6. CASE "value" \notin DOMAIN v.entries
  BY <1>1, <1>5, <1>6 DEF Codec!decode_plain
<1>7. CASE "value" \in DOMAIN v.entries
  <2>1. o.fields["value"].json \in {"object", "text"}
    BY <1>3, <1>7
  <2>2. CASE o.fields["value"].json = "object"
    BY <1>1, <1>5, <1>7, <2>2 DEF Codec!decode_plain
  <2>3. CASE o.fields["value"].json = "text"
    <3>1. Codec!Decoded(v) = Codec!Written(o.fields["value"])
      BY <1>1, <1>5, <1>7, <2>3 DEF Codec!decode_plain
    <3>2. Codec!encode_cell_reference(v.entries["value"].id).json = "object"
      BY DEF Codec!encode_cell_reference, Codec!Obj
    <3>3. o.fields["value"] = Codec!encode[v.entries["value"]]
      BY <1>1, <1>7, <2>3, <3>2
    <3>. QED BY <1>7, <3>1, <3>3 DEF Codec!Garbled
  <2>. QED BY <2>1, <2>2, <2>3
<1>. QED BY <1>6, <1>7

LEMMA SetsComeBack ==
  ASSUME NEW v \in Values, v.kind = "set"
  PROVE  /\ \A m \in v.members : Codec!Decoded(m) = m
         /\ Codec!Decoded(v) = IF \E m \in v.members : Codec!identify_by(m) = "type" THEN Codec!Nothing ELSE v
<1>. DEFINE o   == Codec!encode[v]
            Ids == {Codec!identify_by(m) : m \in v.members}
<1>1. /\ v = Codec!SetOf(v.members) /\ v.members \subseteq Values
      /\ \A m \in v.members : m.kind \in {"atom", "cell"}
      /\ \A m, n \in v.members : Codec!identify_by(m) = Codec!identify_by(n) => m = n
  BY OfValues DEF Codec!IsValue, Codec!PartsOf
<1>2. \A m \in v.members : Codec!Decoded(m) = m
  BY <1>1, AtomsComeBack, CellsComeBack
<1>3. o = Codec!set_schema_encode(v, Codec!encode) /\ Codec!Decoded(v) = Codec!Decoding(o, Codec!decode)
  BY OfValues DEF Codec!Encoding
<1>4. \A m \in v.members : Codec!Members(v.members, Codec!identify_by(m)) = m
  BY <1>1 DEF Codec!Members
<1>5. /\ o.json = "object" /\ DOMAIN o.fields = Ids \union {"type"}
      /\ \A id \in Ids : o.fields[id] = Codec!encode[Codec!Members(v.members, id)]
      /\ "type" \notin Ids => Codec!IsTagged(o, "set")
  BY <1>3 DEF Codec!set_schema_encode, Codec!Obj, Codec!Over, Codec!Tag, Codec!IsTagged
<1>. HIDE DEF o
<1>6. CASE "type" \notin Ids
  <2>1. Codec!Decoded(v) = Codec!decode_set(o, Codec!decode)
    BY <1>3, <1>5, <1>6, DecodingBy
  <2>2. DOMAIN o.fields \ {"type"} = Ids
    BY <1>5, <1>6
  <2>3. \A m \in v.members : Codec!decode[o.fields[Codec!identify_by(m)]] = m
    <3>1. \A m \in v.members : o.fields[Codec!identify_by(m)] = Codec!encode[m]
      BY <1>4, <1>5
    <3>. QED BY <1>2, <3>1 DEF Codec!Decoded
  <2>4. {Codec!decode[o.fields[id]] : id \in Ids} = v.members
    BY <2>3
  <2>5. Codec!Thrown \notin v.members
    BY <1>1 DEF Codec!Thrown
  <2>6. Codec!decode_set(o, Codec!decode) = Codec!SetOf(v.members)
    <3>. HIDE DEF Ids
    <3>. QED BY <2>2, <2>4, <2>5 DEF Codec!decode_set, Codec!Unless
  <2>. QED BY <1>1, <1>2, <1>6, <2>1, <2>6
<1>7. CASE "type" \in Ids
  <2>1. \A id \in Ids : o.fields[id].json = "object"
    <3>1. \A m \in v.members : Codec!encode[m].json = "object"
      <4>. SUFFICES ASSUME NEW m \in v.members PROVE Codec!encode[m].json = "object"
        OBVIOUS
      <4>1. Codec!encode[m] = Codec!Encoding(m, Codec!encode) /\ m.kind \in {"atom", "cell"}
        BY <1>1, OfValues
      <4>2. CASE m.kind = "atom"
        BY <4>1, <4>2 DEF Codec!Encoding, Codec!Obj
      <4>3. CASE m.kind = "cell"
        BY <4>1, <4>3 DEF Codec!Encoding, Codec!Obj
      <4>. QED BY <4>1, <4>2, <4>3
    <3>. QED BY <1>4, <1>5, <3>1
  <2>2. \A t \in Tags : ~Codec!IsTagged(o, t)
    <3>1. o.fields["type"].json # "leaf"
      BY <1>7, <2>1
    <3>. QED BY <3>1 DEF Codec!IsTagged, Codec!Leaf
  <2>3. Codec!Decoded(v) = Codec!decode_plain(o)
    BY <1>3, <1>5, <2>2, DecodingBy
  <2>4. "value" \in DOMAIN o.fields => o.fields["value"].json = "object"
    BY <1>5, <2>1
  <2>5. Codec!decode_plain(o) = Codec!Nothing
    BY <2>4 DEF Codec!decode_plain
  <2>. QED BY <1>2, <1>7, <2>3, <2>5
<1>. QED BY <1>6, <1>7

-----------------------------------------------------------------------------
(* The three parts of ComesBack: for a value whose parts have them. *)

LEMMA KindsOfValues ==
  ASSUME NEW v \in Values
  PROVE  /\ v.kind \in {"atom", "object", "list", "cell", "map", "set", "layered", "element", "closure",
                         "primitive", "neighbor"}
         /\ v # Codec!Thrown
<1>1. Codec!IsValue(v)
  BY OfValues
<1>2. v.kind \in {"atom", "object", "list", "cell", "map", "set", "layered", "element", "closure",
                  "primitive", "neighbor"}
  BY <1>1 DEF Codec!IsValue
<1>. QED BY <1>2 DEF Codec!Thrown

LEMMA ComesBackWithItsParts ==
  ASSUME NEW v \in Values, Codec!Carried(v), \A p \in Codec!PartsOf(v) : Codec!Decoded(p) = p
  PROVE  Codec!Decoded(v) = v
<1>0. Codec!IsValue(v) /\ Codec!PartsOf(v) \subseteq Values /\ Codec!Thrown \notin Codec!PartsOf(v)
  BY OfValues, KindsOfValues
<1>1. CASE v.kind \in {"object", "list"}
  BY <1>1 DEF Codec!Carried
<1>2. CASE v.kind \in {"atom", "cell", "neighbor"}
  BY <1>2, AtomsComeBack, CellsComeBack, NeighborsComeBack
<1>3. CASE v.kind = "primitive"
  BY <1>3, PrimitivesComeBack DEF Codec!Carried
<1>4. CASE v.kind = "set"
  BY <1>4, SetsComeBack DEF Codec!Carried
<1>5. CASE v.kind = "element"
  <2>1. Codec!Decoded(v.value) = v.value /\ v.value # Codec!Thrown /\ v = Codec!Element(v.type, v.value)
    BY <1>0, <1>5 DEF Codec!PartsOf, Codec!IsValue
  <2>. QED BY <1>5, <2>1, ElementsComeBack DEF Codec!Unless
<1>6. CASE v.kind = "map"
  <2>. DEFINE entries == [k \in DOMAIN v.entries |-> Codec!Decoded(v.entries[k])]
  <2>1. "type" \notin DOMAIN v.entries
    BY <1>6 DEF Codec!Carried
  <2>2. \A k \in DOMAIN v.entries : Codec!Decoded(v.entries[k]) = v.entries[k] /\ v.entries[k] # Codec!Thrown
    BY <1>0, <1>6 DEF Codec!PartsOf, Codec!Range
  <2>3. v = Codec!MapOf(entries) /\ Codec!Thrown \notin Codec!Range(entries)
    BY <1>0, <1>6, <2>2 DEF Codec!IsValue, Codec!Range
  <2>4. Codec!Decoded(v) = Codec!Unless(Codec!Range(entries), Codec!MapOf(entries))
    BY <1>6, <2>1, MapsComeBack
  <2>. HIDE DEF entries
  <2>. QED BY <2>3, <2>4 DEF Codec!Unless
<1>7. CASE v.kind = "layered"
  <2>. DEFINE known == [l \in DOMAIN v.layers \intersect Codec!KnownLayers |-> Codec!Decoded(v.layers[l])]
  <2>1. DOMAIN v.layers \intersect Codec!KnownLayers = DOMAIN v.layers
    BY <1>7 DEF Codec!Carried
  <2>2. /\ Codec!Decoded(v.base) = v.base /\ v.base # Codec!Thrown
        /\ \A l \in DOMAIN v.layers : Codec!Decoded(v.layers[l]) = v.layers[l] /\ v.layers[l] # Codec!Thrown
    BY <1>0, <1>7 DEF Codec!PartsOf, Codec!Range
  <2>3. v = Codec!Layered(v.base, known)
    <3>1. known = [l \in DOMAIN v.layers |-> v.layers[l]]
      BY <2>1, <2>2
    <3>. QED BY <1>0, <1>7, <3>1 DEF Codec!IsValue
  <2>4. Codec!Thrown \notin Codec!Range(known) \union {Codec!Decoded(v.base)}
    BY <2>1, <2>2 DEF Codec!Range
  <2>5. Codec!Decoded(v) = IF Codec!Thrown \in Codec!Range(known) \union {Codec!Decoded(v.base)} THEN Codec!Nothing
                        ELSE Codec!Layered(Codec!Decoded(v.base), known)
    BY <1>7, LayersComeBack
  <2>. HIDE DEF known
  <2>. QED BY <2>2, <2>3, <2>4, <2>5
<1>8. CASE v.kind = "closure"
  <2>. DEFINE body == [i \in DOMAIN v.body[1] |-> Codec!Decoded(v.body[1][i])]
  <2>1. /\ v = Codec!Closure(v.env, [i \in 1..Len(v.body) |-> v.body[i]]) /\ Len(v.body) = 1
        /\ v.body[1] = [i \in 1..Len(v.body[1]) |-> v.body[1][i]]
    BY <1>0, <1>8 DEF Codec!IsValue, Codec!Carried
  <2>2. \A i \in DOMAIN v.body[1] : Codec!Decoded(v.body[1][i]) = v.body[1][i] /\ v.body[1][i] # Codec!Thrown
    BY <1>0, <1>8 DEF Codec!PartsOf, Codec!Range
  <2>3. body = v.body[1]
    BY <2>1, <2>2
  <2>4. v = Codec!Closure(v.env, <<body>>)
    <3>1. [i \in 1..Len(v.body) |-> v.body[i]] = <<v.body[1]>>
      BY <2>1
    <3>. QED BY <2>1, <2>3, <3>1
  <2>5. Codec!Thrown \notin Codec!Range(body)
    BY <2>2 DEF Codec!Range
  <2>6. Codec!Decoded(v) = IF Codec!Thrown \in Codec!Range(body) THEN Codec!Nothing ELSE Codec!Closure(v.env, <<body>>)
    BY <1>8, ClosuresComeBack
  <2>. HIDE DEF body
  <2>. QED BY <2>4, <2>5, <2>6
<1>. QED BY <1>1, <1>2, <1>3, <1>4, <1>5, <1>6, <1>7, <1>8, KindsOfValues

LEMMA ThrowsOverAPart ==
  ASSUME NEW v \in Values, Codec!Decoded(v) = Codec!Thrown
  PROVE  \/ v.kind = "primitive" /\ v.name \notin KnownPrimitives
         \/ \E p \in Codec!PartsOf(v) : Codec!Decoded(p) = Codec!Thrown
<1>0. v # Codec!Thrown /\ Codec!Nothing # Codec!Thrown
  BY KindsOfValues DEF Codec!Nothing, Codec!Atom, Codec!Thrown
<1>1. CASE v.kind \in {"object", "list"}
  BY <1>0, <1>1, PlainOnesAreLost
<1>2. CASE v.kind \in {"atom", "cell", "neighbor"}
  BY <1>0, <1>2, AtomsComeBack, CellsComeBack, NeighborsComeBack
<1>3. CASE v.kind = "primitive"
  BY <1>0, <1>3, PrimitivesComeBack
<1>4. CASE v.kind = "set"
  BY <1>0, <1>4, SetsComeBack
<1>5. CASE v.kind = "element"
  <2>1. Codec!Element(v.type, Codec!Decoded(v.value)) # Codec!Thrown
    BY DEF Codec!Element, Codec!Thrown
  <2>2. Codec!Decoded(v.value) = Codec!Thrown
    BY <1>5, <2>1, ElementsComeBack DEF Codec!Unless
  <2>. QED BY <1>5, <2>2 DEF Codec!PartsOf
<1>6. CASE v.kind = "map"
  <2>. DEFINE entries == [k \in DOMAIN v.entries |-> Codec!Decoded(v.entries[k])]
  <2>1. CASE "type" \in DOMAIN v.entries
    <3>1. \A x : Codec!Written(x) # Codec!Thrown
      BY DEF Codec!Written, Codec!Thrown
    <3>. QED BY <1>0, <1>6, <2>1, <3>1, MapsWithATagAreLost DEF Codec!Garbled
  <2>2. CASE "type" \notin DOMAIN v.entries
    <3>1. Codec!Decoded(v) = Codec!Unless(Codec!Range(entries), Codec!MapOf(entries))
      BY <1>6, <2>2, MapsComeBack
    <3>2. Codec!MapOf(entries) # Codec!Thrown
      BY DEF Codec!MapOf, Codec!Thrown
    <3>3. Codec!Thrown \in Codec!Range(entries)
      <4>. HIDE DEF entries
      <4>. QED BY <3>1, <3>2 DEF Codec!Unless
    <3>. QED BY <1>6, <3>3 DEF Codec!PartsOf, Codec!Range
  <2>. QED BY <2>1, <2>2
<1>7. CASE v.kind = "layered"
  <2>. DEFINE known == [l \in DOMAIN v.layers \intersect Codec!KnownLayers |-> Codec!Decoded(v.layers[l])]
  <2>1. Codec!Decoded(v) = IF Codec!Thrown \in Codec!Range(known) \union {Codec!Decoded(v.base)} THEN Codec!Nothing
                        ELSE Codec!Layered(Codec!Decoded(v.base), known)
    BY <1>7, LayersComeBack
  <2>2. Codec!Layered(Codec!Decoded(v.base), known) # Codec!Thrown
    BY DEF Codec!Layered, Codec!Thrown
  <2>. HIDE DEF known
  <2>. QED BY <1>0, <2>1, <2>2
<1>8. CASE v.kind = "closure"
  <2>. DEFINE body == [i \in DOMAIN v.body[1] |-> Codec!Decoded(v.body[1][i])]
  <2>1. Codec!Decoded(v) = IF Codec!Thrown \in Codec!Range(body) THEN Codec!Nothing ELSE Codec!Closure(v.env, <<body>>)
    BY <1>8, ClosuresComeBack
  <2>2. Codec!Closure(v.env, <<body>>) # Codec!Thrown
    BY DEF Codec!Closure, Codec!Thrown
  <2>. HIDE DEF body
  <2>. QED BY <1>0, <2>1, <2>2
<1>. QED BY <1>1, <1>2, <1>3, <1>4, <1>5, <1>6, <1>7, <1>8, KindsOfValues

LEMMA WhatRemains ==
  ASSUME NEW v \in Values
  PROVE  LET w == Codec!Decoded(v)
         IN  w \in {Codec!Nothing, Codec!Thrown} \/ Codec!Remains(w, v) \/ Codec!Garbled(w, v)
<1>. DEFINE w == Codec!Decoded(v)
<1>. SUFFICES ASSUME w # Codec!Nothing, w # Codec!Thrown, ~Codec!Garbled(w, v) PROVE Codec!Remains(w, v)
  OBVIOUS
<1>0. Codec!PartsOf(v) \subseteq Values /\ Codec!Thrown \notin Codec!PartsOf(v)
  BY OfValues, KindsOfValues
<1>1. CASE v.kind \in {"object", "list"}
  BY <1>1, PlainOnesAreLost
<1>2. CASE v.kind \in {"atom", "cell", "neighbor"}
  <2>1. w = v
    BY <1>2, AtomsComeBack, CellsComeBack, NeighborsComeBack
  <2>. HIDE DEF w
  <2>. QED BY <1>0, <1>2, <2>1 DEF Codec!Remains
<1>3. CASE v.kind = "primitive"
  <2>1. w = v
    BY <1>3, PrimitivesComeBack
  <2>. HIDE DEF w
  <2>. QED BY <1>0, <1>3, <2>1 DEF Codec!Remains
<1>4. CASE v.kind = "set"
  <2>1. w = v
    BY <1>4, SetsComeBack
  <2>. HIDE DEF w
  <2>. QED BY <1>0, <1>4, <2>1 DEF Codec!Remains
<1>5. CASE v.kind = "element"
  <2>1. w = Codec!Element(v.type, Codec!Decoded(v.value)) /\ Codec!Decoded(v.value) # Codec!Thrown
    BY <1>5, ElementsComeBack DEF Codec!Unless
  <2>. HIDE DEF w
  <2>2. w.kind = "element" /\ Codec!PartsOf(w) = {Codec!Decoded(v.value)}
    BY <2>1 DEF Codec!Element, Codec!PartsOf
  <2>. QED BY <1>5, <2>1, <2>2 DEF Codec!Remains
<1>6. CASE v.kind = "map"
  <2>. DEFINE entries == [k \in DOMAIN v.entries |-> Codec!Decoded(v.entries[k])]
  <2>1. "type" \notin DOMAIN v.entries
    BY <1>6, MapsWithATagAreLost
  <2>2. w = Codec!Unless(Codec!Range(entries), Codec!MapOf(entries))
    BY <1>6, <2>1, MapsComeBack
  <2>. HIDE DEF w, entries
  <2>3. w = Codec!MapOf(entries) /\ Codec!Thrown \notin Codec!Range(entries)
    BY <2>2 DEF Codec!Unless
  <2>4. w.kind = "map" /\ Codec!PartsOf(w) = Codec!Range(entries)
    BY <2>3 DEF Codec!MapOf, Codec!PartsOf
  <2>. QED BY <1>6, <2>3, <2>4 DEF Codec!Remains, entries
<1>7. CASE v.kind = "layered"
  <2>. DEFINE known == [l \in DOMAIN v.layers \intersect Codec!KnownLayers |-> Codec!Decoded(v.layers[l])]
  <2>1. w = IF Codec!Thrown \in Codec!Range(known) \union {Codec!Decoded(v.base)} THEN Codec!Nothing
            ELSE Codec!Layered(Codec!Decoded(v.base), known)
    BY <1>7, LayersComeBack
  <2>. HIDE DEF w, known
  <2>2. w = Codec!Layered(Codec!Decoded(v.base), known)
        /\ Codec!Thrown \notin Codec!Range(known) \union {Codec!Decoded(v.base)}
    BY <2>1
  <2>3. w.kind = "layered" /\ Codec!PartsOf(w) = Codec!Range(known) \union {Codec!Decoded(v.base)}
    BY <2>2 DEF Codec!Layered, Codec!PartsOf
  <2>. QED BY <1>7, <2>2, <2>3 DEF Codec!Remains, known
<1>8. CASE v.kind = "closure"
  <2>. DEFINE body == [i \in DOMAIN v.body[1] |-> Codec!Decoded(v.body[1][i])]
  <2>1. w = IF Codec!Thrown \in Codec!Range(body) THEN Codec!Nothing ELSE Codec!Closure(v.env, <<body>>)
    BY <1>8, ClosuresComeBack
  <2>. HIDE DEF w, body
  <2>2. w = Codec!Closure(v.env, <<body>>) /\ Codec!Thrown \notin Codec!Range(body)
    BY <2>1
  <2>3. w.kind = "closure" /\ Codec!PartsOf(w) = Codec!Range(body)
    BY <2>2 DEF Codec!Closure, Codec!PartsOf
  <2>. QED BY <1>8, <2>2, <2>3 DEF Codec!Remains, body
<1>. QED BY <1>1, <1>2, <1>3, <1>4, <1>5, <1>6, <1>7, <1>8, KindsOfValues

\* What is within a part is within the value.
LEMMA WithinParts ==
  ASSUME NEW v \in Values
  PROVE  v \in Codec!Within[v] /\ \A p \in Codec!PartsOf(v) : Codec!Within[p] \subseteq Codec!Within[v]
<1>1. Codec!Within[v] = {v} \union UNION {Codec!Within[p] : p \in Codec!PartsOf(v)}
  BY Equations
<1>. QED BY <1>1

\* What holds of a value when it holds of its parts holds of every value.
LEMMA LeastNested ==
  ASSUME NEW bad \in SUBSET Values, bad # {}
  PROVE  \E v \in bad : \A p \in Codec!PartsOf(v) : p \in Values /\ p \notin bad
<1>1. \A v \in Values : Rank[v] \in Nat /\ \A p \in Codec!PartsOf(v) : p \in Values /\ Rank[p] < Rank[v]
  BY CodecAssumption DEF Codec!AreValues
<1>2. PICK v \in bad : \A u \in bad : Rank[v] <= Rank[u]
  BY <1>1, LeastOf
<1>3. ASSUME NEW p \in Codec!PartsOf(v) PROVE p \in Values /\ p \notin bad
  BY <1>1, <1>2
<1>. QED BY <1>3

LEMMA WholeOnesComeBack ==
  ASSUME NEW v \in Values, \A p \in Codec!Within[v] : Codec!Carried(p)
  PROVE  Codec!Decoded(v) = v
<1>. DEFINE bad == {u \in Values : (\A p \in Codec!Within[u] : Codec!Carried(p)) /\ Codec!Decoded(u) # u}
<1>. SUFFICES ASSUME bad # {} PROVE FALSE
  OBVIOUS
<1>1. PICK u \in bad : \A p \in Codec!PartsOf(u) : p \in Values /\ p \notin bad
  <2>1. bad \in SUBSET Values
    OBVIOUS
  <2>. HIDE DEF bad
  <2>. QED BY <2>1, LeastNested
<1>2. u \in Codec!Within[u] /\ \A p \in Codec!PartsOf(u) : Codec!Within[p] \subseteq Codec!Within[u]
  BY WithinParts
<1>3. \A p \in Codec!PartsOf(u) : Codec!Decoded(p) = p
  BY <1>1, <1>2
<1>. QED BY <1>2, <1>3, ComesBackWithItsParts

LEMMA ThrowsOverAPrimitive ==
  ASSUME NEW v \in Values, Codec!Decoded(v) = Codec!Thrown
  PROVE  \E p \in Codec!Within[v] : p.kind = "primitive" /\ p.name \notin KnownPrimitives
<1>. DEFINE Cause(u) == \E p \in Codec!Within[u] : p.kind = "primitive" /\ p.name \notin KnownPrimitives
            bad == {u \in Values : Codec!Decoded(u) = Codec!Thrown /\ ~Cause(u)}
<1>. SUFFICES ASSUME bad # {} PROVE FALSE
  OBVIOUS
<1>1. PICK u \in bad : \A p \in Codec!PartsOf(u) : p \in Values /\ p \notin bad
  <2>1. bad \in SUBSET Values
    OBVIOUS
  <2>. HIDE DEF bad
  <2>. QED BY <2>1, LeastNested
<1>2. u \in Codec!Within[u] /\ \A p \in Codec!PartsOf(u) : Codec!Within[p] \subseteq Codec!Within[u]
  BY WithinParts
<1>3. CASE u.kind = "primitive" /\ u.name \notin KnownPrimitives
  BY <1>2, <1>3
<1>4. CASE \E p \in Codec!PartsOf(u) : Codec!Decoded(p) = Codec!Thrown
  BY <1>1, <1>2, <1>4
<1>. QED BY <1>3, <1>4, ThrowsOverAPart

LEMMA ResolvedWithItsParts ==
  ASSUME NEW v \in Values, Codec!Unreserved(v), \A p \in Codec!PartsOf(v) : Codec!resolve[p] = p
  PROVE  Codec!resolve[v] = v
<1>0. Codec!IsValue(v) /\ Codec!resolve[v] = Codec!Resolved(v, Codec!resolve)
  BY OfValues, Equations
<1>1. CASE v.kind = "map"
  <2>1. v = Codec!MapOf([k \in DOMAIN v.entries |-> v.entries[k]])
    BY <1>0, <1>1 DEF Codec!IsValue
  <2>2. DOMAIN v.entries \ {Codec!Reserved} = DOMAIN v.entries
    BY <1>1 DEF Codec!Unreserved
  <2>3. \A k \in DOMAIN v.entries : Codec!resolve[v.entries[k]] = v.entries[k]
    BY <1>1 DEF Codec!PartsOf, Codec!Range
  <2>4. [k \in DOMAIN v.entries \ {Codec!Reserved} |-> Codec!resolve[v.entries[k]]]
          = [k \in DOMAIN v.entries |-> v.entries[k]]
    BY <2>2, <2>3
  <2>5. Codec!resolve[v] = Codec!MapOf([k \in DOMAIN v.entries \ {Codec!Reserved} |-> Codec!resolve[v.entries[k]]])
    BY <1>0, <1>1 DEF Codec!Resolved
  <2>. QED BY <2>1, <2>4, <2>5
<1>2. CASE v.kind = "set"
  <2>1. v = Codec!SetOf(v.members)
    BY <1>0, <1>2 DEF Codec!IsValue
  <2>2. {m \in v.members : Codec!identify_by(m) # Codec!Reserved} = v.members
    BY <1>2 DEF Codec!Unreserved
  <2>3. Codec!resolve[v] = Codec!SetOf({m \in v.members : Codec!identify_by(m) # Codec!Reserved})
    BY <1>0, <1>2 DEF Codec!Resolved
  <2>. QED BY <2>1, <2>2, <2>3
<1>3. CASE v.kind = "element"
  <2>1. v = Codec!Element(v.type, v.value)
    BY <1>0, <1>3 DEF Codec!IsValue
  <2>2. Codec!resolve[v.value] = v.value
    BY <1>3 DEF Codec!PartsOf
  <2>. QED BY <1>0, <1>3, <2>1, <2>2 DEF Codec!Resolved
<1>4. CASE v.kind \notin {"map", "set", "element"}
  BY <1>0, <1>4 DEF Codec!Resolved
<1>. QED BY <1>1, <1>2, <1>3, <1>4

LEMMA OnlyReservedIsDropped ==
  ASSUME NEW v \in Values, \A p \in Codec!Within[v] : Codec!Unreserved(p)
  PROVE  Codec!resolve[v] = v
<1>. DEFINE bad == {u \in Values : (\A p \in Codec!Within[u] : Codec!Unreserved(p)) /\ Codec!resolve[u] # u}
<1>. SUFFICES ASSUME bad # {} PROVE FALSE
  OBVIOUS
<1>1. PICK u \in bad : \A p \in Codec!PartsOf(u) : p \in Values /\ p \notin bad
  <2>1. bad \in SUBSET Values
    OBVIOUS
  <2>. HIDE DEF bad
  <2>. QED BY <2>1, LeastNested
<1>2. u \in Codec!Within[u] /\ \A p \in Codec!PartsOf(u) : Codec!Within[p] \subseteq Codec!Within[u]
  BY WithinParts
<1>3. \A p \in Codec!PartsOf(u) : Codec!resolve[p] = p
  BY <1>1, <1>2
<1>. QED BY <1>2, <1>3, ResolvedWithItsParts

CodecInv == value \in Values

\* Whatever a process stores in Gun comes back without what gun_resolve drops,
\* whole where it can be carried, and otherwise loses no more than what cannot
\* (gun_db_schema_encode, gun_resolve, gun_db_schema_decode): the codec undoes
\* itself, however deep values are nested.
THEOREM ValuesComeBack == Spec => []ComesBack
<1>1. ASSUME NEW v \in Values PROVE Codec!ComesBack(v)
  <2>1. Codec!resolve[v] \in Values
    BY CodecAssumption DEF Codec!AreValues
  <2>2. Codec!Back(v) = Codec!Decoded(Codec!resolve[v])
    BY DEF Codec!Back
  <2>. QED BY <2>1, <2>2, OnlyReservedIsDropped, WholeOnesComeBack, WhatRemains, ThrowsOverAPrimitive
           DEF Codec!ComesBack
<1>2. Init => CodecInv
  BY DEF Init, CodecInv
<1>3. CodecInv /\ [Next]_Vars => CodecInv'
  <2>. SUFFICES ASSUME CodecInv, [Next]_Vars PROVE value' = value
    BY DEF CodecInv
  <2>. QED BY DEF Next, Vars
<1>4. CodecInv => ComesBack
  BY <1>1 DEF ComesBack, CodecInv
<1>. QED BY <1>2, <1>3, <1>4, PTL DEF Spec
=============================================================================
