----------------------------- MODULE PeerTable ------------------------------
(***************************************************************************)
(* The peers of one peer process (src/cli/peer.ts, peer_command_handlers,  *)
(* peer_commands) and the start-up of each (src/p2p/setup.ts, utils.ts).   *)
(*                                                                         *)
(* A creation asks its questions, during which every line typed is an      *)
(* answer and no command; then it is set up, which takes seconds and       *)
(* during which commands are taken.  Its id was fixed when it began.       *)
(***************************************************************************)
EXTENDS Naturals, Sequences, FiniteSets, SequencesExt

CONSTANTS Port,         \* numbers; the defaults count up from FirstPort
          FirstPort,
          MaxPeers,     \* bound: creations
          NoPeer, Idle

VARIABLES
  peers,     \* state.peers: id, port, whether active
  current,   \* state.currentPeerId
  asking,    \* the creation whose questions are open: id and default port
  setups,    \* those being set up: id, port, phase
  stray,     \* ports of servers whose set-up failed; nothing closes them
  began,     \* creations begun
  alone,     \* no creation has begun while another was being set up
  process    \* whether the process runs, has crashed or has exited

vars == <<peers, current, asking, setups, stray, began, alone, process>>

Phases == <<"listening", "synced", "receiving", "ready">>

Actives == {i \in DOMAIN peers : peers[i].active}
Listening == {peers[i].port : i \in Actives} \union {c.port : c \in Range(setups)} \union stray

\* The first active peer of that id, 0 when there is none.
Found(id) ==
  LET named == {i \in Actives : peers[i].id = id}
  IN  IF named = {} THEN 0 ELSE CHOOSE i \in named : \A j \in named : i <= j

get_current_peer == IF current = NoPeer THEN 0 ELSE Found(current)

\* run_client starts with the questions of the first peer.
Init ==
  /\ peers = <<>> /\ current = NoPeer
  /\ asking = [id |-> 1, port |-> FirstPort]
  /\ setups = <<>> /\ stray = {} /\ began = 1 /\ alone = TRUE /\ process = "runs"

Commands == process = "runs" /\ asking = Idle

\* The id counts the peers there are, not those on their way.
handle_new_command(given) ==
  /\ Commands /\ began < MaxPeers
  /\ began' = began + 1
  /\ alone' = (alone /\ setups = <<>>)
  /\ asking' = [id   |-> Len(peers) + 1,
                port |-> IF given # NoPeer THEN given
                         ELSE IF peers = <<>> THEN FirstPort ELSE Last(peers).port + 1]
  /\ UNCHANGED <<peers, current, setups, stray, process>>

\* The port is asked for; a server on a port in use ends the process with an
\* error nobody handles.
create_peer(answer) ==
  /\ process = "runs" /\ asking # Idle
  /\ LET port == IF answer = NoPeer THEN asking.port ELSE answer
     IN  IF port \in Listening
         THEN process' = "crashed" /\ UNCHANGED setups
         ELSE /\ setups' = Append(setups, [id |-> asking.id, port |-> port, phase |-> 1])
              /\ UNCHANGED process
  /\ asking' = Idle
  /\ UNCHANGED <<peers, current, stray, began, alone>>

\* setupPeer: the timer that starts the synchronisation, the wait for it, the
\* receiver of the environment and the wait for the host, one after the other.
setupPeer(k) ==
  /\ process = "runs" /\ setups[k].phase < Len(Phases)
  /\ setups' = [setups EXCEPT ![k].phase = @ + 1]
  /\ UNCHANGED <<peers, current, asking, stray, began, alone, process>>

Created(k) ==
  /\ process = "runs" /\ setups[k].phase = Len(Phases)
  /\ peers'   = Append(peers, [id |-> setups[k].id, port |-> setups[k].port, active |-> TRUE])
  /\ current' = setups[k].id
  /\ setups'  = RemoveAt(setups, k)
  /\ UNCHANGED <<asking, stray, began, alone, process>>

\* Whatever throws during a set-up is caught and reported, and the creation is
\* given up; a server that listens already is not closed.
Failed(k) ==
  /\ process = "runs"
  /\ setups' = RemoveAt(setups, k)
  /\ stray' \in {stray, stray \union {setups[k].port}}
  /\ UNCHANGED <<peers, current, asking, began, alone, process>>

handle_use_command(id) ==
  /\ Commands /\ Found(id) # 0
  /\ current' = id
  /\ UNCHANGED <<peers, asking, setups, stray, began, alone, process>>

\* Faulty variant: what is current stays so.
close_without_switch(id) ==
  /\ Commands /\ Found(id) # 0
  /\ peers' = [peers EXCEPT ![Found(id)].active = FALSE]
  /\ UNCHANGED <<current, asking, setups, stray, began, alone, process>>

\* The peer that is closed gives way to the first that is left.
handle_close_command(id) ==
  LET left == Actives \ {Found(id)}
  IN  /\ Commands /\ Found(id) # 0
      /\ peers'   = [peers EXCEPT ![Found(id)].active = FALSE]
      /\ current' = IF current # id THEN current
                    ELSE IF left = {} THEN NoPeer
                    ELSE peers[CHOOSE i \in left : \A j \in left : i <= j].id
      /\ UNCHANGED <<asking, setups, stray, began, alone, process>>

handle_exit_command ==
  /\ Commands
  /\ process' = "exited"
  /\ UNCHANGED <<peers, current, asking, setups, stray, began, alone>>

\* The end of the input ends the process, also in the middle of a question.
close ==
  /\ process = "runs"
  /\ process' = "exited"
  /\ UNCHANGED <<peers, current, asking, setups, stray, began, alone>>

Next ==
  \/ \E p \in Port \union {NoPeer} : handle_new_command(p) \/ create_peer(p)
  \/ \E k \in DOMAIN setups : setupPeer(k) \/ Created(k) \/ Failed(k)
  \/ \E id \in 1..MaxPeers : handle_use_command(id) \/ handle_close_command(id)
  \/ handle_exit_command \/ close

Spec == Init /\ [][Next]_vars

-----------------------------------------------------------------------------
\* Commands always have a peer to go to while one is active, however creations
\* and closings overlap; and as long as no creation began during the set-up of
\* another, an id names one peer, closed ones included, so that the peer
\* reached is the one that was meant (handle_new_command, handle_close_command).
CommandsReachAPeer ==
  /\ get_current_peer # 0 <=> Actives # {}
  /\ alone => \A i, j \in DOMAIN peers : peers[i].id = peers[j].id => i = j
=============================================================================
