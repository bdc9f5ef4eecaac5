---------------------------- MODULE EventStream ----------------------------
(***************************************************************************)
(* What OpenSession promises a client, with no sessions, queues shared by  *)
(* streams, waiters or timers: from the moment a stream is subscribed to   *)
(* the moment it is closed, it is handed every card update in the order    *)
(* published, each one once.                                               *)
(***************************************************************************)
EXTENDS Sequences

CONSTANTS Stream, Event

VARIABLES
  subscribed,   \* the streams that are open
  pending,      \* what each open stream still has to hand over
  got           \* what each stream handed over

vars == <<subscribed, pending, got>>

Init ==
  /\ subscribed = {}
  /\ pending    = [st \in Stream |-> <<>>]
  /\ got        = [st \in Stream |-> <<>>]

\* es is <<>> or one event.
Fanned(es) ==
  [st \in Stream |-> IF st \in subscribed THEN pending[st] \o es ELSE pending[st]]

Publish(es) ==
  /\ pending' = Fanned(es)
  /\ UNCHANGED <<subscribed, got>>

\* Applying the initial cards of a stream may publish before it subscribes.
Subscribe(st, es) ==
  /\ st \notin subscribed
  /\ subscribed' = subscribed \union {st}
  /\ pending'    = Fanned(es)
  /\ UNCHANGED got

Deliver(st) ==
  /\ st \in subscribed /\ pending[st] # <<>>
  /\ got'     = [got EXCEPT ![st] = Append(@, Head(pending[st]))]
  /\ pending' = [pending EXCEPT ![st] = Tail(@)]
  /\ UNCHANGED subscribed

Close(st) ==
  /\ st \in subscribed
  /\ subscribed' = subscribed \ {st}
  /\ pending'    = [pending EXCEPT ![st] = <<>>]
  /\ UNCHANGED got

Next ==
  \/ \E e \in Event : Publish(<<e>>)
  \/ \E st \in Stream : \/ Deliver(st) \/ Close(st) \/ Subscribe(st, <<>>)
                        \/ \E e \in Event : Subscribe(st, <<e>>)

Spec == Init /\ [][Next]_vars
=============================================================================
