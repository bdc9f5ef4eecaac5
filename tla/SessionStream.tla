--------------------------- MODULE SessionStream ---------------------------
(***************************************************************************)
(* OpenSession streams: the session store, the subscription of each stream *)
(* to the runtime's card outputs, and the loop that waits on the session's *)
(* queue and yields what it finds, or a heartbeat                          *)
(* (src/grpc/session/session_store.ts, session_combinator.ts).             *)
(*                                                                         *)
(* Everything runs on one JavaScript thread.  An action is what happens    *)
(* between two suspensions of a generator: at a `yield', until the         *)
(* consumer asks for more or returns, and at the `await' of                *)
(* wait_for_message_or_timeout, until a push or the timer resolves it and  *)
(* the continuation, a later microtask, runs.                              *)
(*                                                                         *)
(* A SessionState object is a positive number; what its slot map holds is  *)
(* the subject of CardSync.  Heartbeats are not recorded.                  *)
(***************************************************************************)
EXTENDS Naturals, Sequences, FiniteSets

CONSTANTS
  Stream,      \* OpenSession calls
  NoStream,    \* resolveWait is null
  Sid,         \* session ids
  SidOf,       \* the session id each call names
  Event,       \* runtime card outputs
  MayShare,    \* may a client open a session another stream still serves?
  MaxEvents,   \* bound on the events emitted
  MaxStates    \* bound on the SessionState objects created

ASSUME StreamAssumption ==
  /\ IsFiniteSet(Stream) /\ NoStream \notin Stream
  /\ SidOf \in [Stream -> Sid]
  /\ MayShare \in BOOLEAN
  /\ MaxEvents \in Nat /\ MaxStates \in Nat

State     == 1..MaxStates
NoState   == 0

VARIABLES
  entry,       \* sessions: the SessionState stored under each id
  queue,       \* queue of each SessionState
  waiter,      \* the stream whose resolveWait each SessionState holds
  obj,         \* the SessionState each stream works on
  pc,          \* where each stream is suspended
  has,         \* what its last wait resolved to
  aborted,     \* streams whose client signalled abort
  subscribed,  \* streams whose callback is in the subscribers of card outputs
  got,         \* events yielded to each client
  created,     \* SessionState objects created
  emitted      \* events emitted

store   == <<entry, queue, waiter>>
streams == <<obj, pc, has, aborted, subscribed, got>>
vars    == <<store, streams, created, emitted>>

\* idle: not called yet; yielded, draining: at a yield, in the heartbeat branch
\* or in the drain loop; waiting: the timer runs; woken: the wait is resolved.
Live(st)    == pc[st] \notin {"idle", "closed"}
AtYield(st) == pc[st] \in {"yielded", "draining"}

Init ==
  /\ entry      = [s \in Sid |-> NoState]
  /\ queue      = [o \in State |-> <<>>]
  /\ waiter     = [o \in State |-> NoStream]
  /\ obj        = [st \in Stream |-> NoState]
  /\ pc         = [st \in Stream |-> "idle"]
  /\ has        = [st \in Stream |-> FALSE]
  /\ aborted    = {}
  /\ subscribed = {}
  /\ got        = [st \in Stream |-> <<>>]
  /\ created    = 0
  /\ emitted    = 0

-----------------------------------------------------------------------------
(* Emitting a card output.  es is <<>> or one event: what a request emits   *)
(* while the scheduler runs in it.                                         *)

Outputs == { <<>> } \union { <<e>> : e \in Event }

Listeners(o) == { st \in subscribed : obj[st] = o }

\* Faulty variant: the messages are pushed as one element.
push_without_spread(o, es) ==
  [i \in 1..(Len(es) * Cardinality(Listeners(o))) |-> es]

\* Each subscriber's callback pushes, so a SessionState two streams work on
\* gets the event twice.
Pushed(o, es) == [i \in 1..(Len(es) * Cardinality(Listeners(o))) |-> es[1]]

Roused(es) == { st \in Stream : \E o \in State :
                  /\ waiter[o] = st
                  /\ Pushed(o, es) # <<>> }

\* Faulty variant: the waiter that was woken stays registered.
push_keeps_waiter(es) ==
  /\ emitted + Len(es) <= MaxEvents
  /\ emitted' = emitted + Len(es)
  /\ queue'   = [o \in State |-> queue[o] \o Pushed(o, es)]
  /\ has'     = [st \in Stream |-> has[st] \/ st \in Roused(es)]
  /\ UNCHANGED waiter

\* session_push to every subscriber: the only waiter of a queue is woken, and
\* the next push finds none.
session_push(es) ==
  /\ emitted + Len(es) <= MaxEvents
  /\ emitted' = emitted + Len(es)
  /\ queue'   = [o \in State |-> queue[o] \o Pushed(o, es)]
  /\ waiter'  = [o \in State |-> IF Pushed(o, es) # <<>> THEN NoStream ELSE waiter[o]]
  /\ has'     = [st \in Stream |-> has[st] \/ st \in Roused(es)]

Awake(es) == [st \in Stream |-> IF st \in Roused(es) THEN "woken" ELSE pc[st]]

-----------------------------------------------------------------------------
(* The session store.                                                      *)

\* Faulty variant: a state is created whatever is stored.
create_session(s) ==
  /\ created < MaxStates
  /\ created' = created + 1
  /\ entry'   = [entry EXCEPT ![s] = created']

get_or_create_session(s) ==
  IF entry[s] # NoState
  THEN UNCHANGED <<entry, created>>
  ELSE /\ created < MaxStates
       /\ created' = created + 1
       /\ entry'   = [entry EXCEPT ![s] = created']

\* PushDeltas works on the session's state or creates one nobody reads.
PushDeltas(s, es) ==
  /\ get_or_create_session(s)
  /\ session_push(es)
  /\ pc' = Awake(es)
  /\ UNCHANGED <<obj, aborted, subscribed, got>>

\* CardBuild, and the scheduler's timer, emit without touching the store.
Emit(es) ==
  /\ es # <<>>
  /\ session_push(es)
  /\ pc' = Awake(es)
  /\ UNCHANGED <<entry, created, obj, aborted, subscribed, got>>

-----------------------------------------------------------------------------
(* One OpenSession stream.                                                 *)

MayOpen(st) ==
  /\ pc[st] = "idle"
  /\ MayShare \/ \A t \in Stream : Live(t) => SidOf[t] # SidOf[st]

\* Setup emits before the stream subscribes; the first heartbeat is yielded.
Open(st, es) ==
  /\ MayOpen(st)
  /\ get_or_create_session(SidOf[st])
  /\ session_push(es)
  /\ obj'        = [obj EXCEPT ![st] = entry'[SidOf[st]]]
  /\ pc'         = [Awake(es) EXCEPT ![st] = "yielded"]
  /\ subscribed' = subscribed \union {st}
  /\ UNCHANGED <<aborted, got>>

\* Applying the initial cards throws: no stream, but the entry stays.
OpenThrows(st, es) ==
  /\ MayOpen(st)
  /\ get_or_create_session(SidOf[st])
  /\ session_push(es)
  /\ pc' = [Awake(es) EXCEPT ![st] = "closed"]
  /\ UNCHANGED <<obj, aborted, subscribed, got>>

\* The finally block.  The entry goes whatever it is by now.
Close(st) ==
  /\ pc'         = [pc EXCEPT ![st] = "closed"]
  /\ subscribed' = subscribed \ {st}
  /\ entry'      = [entry EXCEPT ![SidOf[st]] = NoState]
  /\ UNCHANGED <<queue, waiter, obj, has, aborted, got, created, emitted>>

\* Faulty variant: the message is yielded and stays in the queue.
peek_instead_of_shift(st) ==
  LET o == obj[st] IN
  /\ got'   = [got EXCEPT ![st] = Append(@, Head(queue[o]))]
  /\ pc'    = [pc EXCEPT ![st] = "draining"]
  /\ UNCHANGED <<store, obj, has, aborted, subscribed, created, emitted>>

\* queue.shift(), then a yield in the drain loop.
Shift(st) ==
  LET o == obj[st] IN
  /\ got'   = [got EXCEPT ![st] = Append(@, Head(queue[o]))]
  /\ queue' = [queue EXCEPT ![o] = Tail(@)]
  /\ pc'    = [pc EXCEPT ![st] = "draining"]
  /\ UNCHANGED <<entry, waiter, obj, has, aborted, subscribed, created, emitted>>

\* Faulty variant: the waiter is registered without looking at the queue.
wait_without_looking(st) ==
  /\ pc'     = [pc EXCEPT ![st] = "waiting"]
  /\ has'    = [has EXCEPT ![st] = FALSE]
  /\ waiter' = [waiter EXCEPT ![obj[st]] = st]
  /\ UNCHANGED <<entry, queue, obj, aborted, subscribed, got, created, emitted>>

\* A queue with messages resolves the wait at once; else the stream takes the
\* place of whoever was waiting on the queue.
wait_for_message_or_timeout(st) ==
  LET o == obj[st] IN
  /\ IF queue[o] # <<>>
     THEN /\ pc'  = [pc EXCEPT ![st] = "woken"]
          /\ has' = [has EXCEPT ![st] = TRUE]
          /\ UNCHANGED waiter
     ELSE /\ pc'     = [pc EXCEPT ![st] = "waiting"]
          /\ has'    = [has EXCEPT ![st] = FALSE]
          /\ waiter' = [waiter EXCEPT ![o] = st]
  /\ UNCHANGED <<entry, queue, obj, aborted, subscribed, got, created, emitted>>

\* The consumer asks for the next message.
Resume(st) ==
  /\ AtYield(st)
  /\ \/ st \in aborted /\ Close(st)
     \/ /\ st \notin aborted
        /\ pc[st] = "draining" /\ queue[obj[st]] # <<>>
        /\ Shift(st)
     \/ /\ st \notin aborted
        /\ ~(pc[st] = "draining" /\ queue[obj[st]] # <<>>)
        /\ wait_for_message_or_timeout(st)

\* The consumer ends the iteration, which a generator notices at a yield.
Return(st) == AtYield(st) /\ Close(st)

\* Faulty variant: the timer clears resolveWait and resolves nothing.
timer_without_resolve(st) ==
  /\ pc[st] = "waiting"
  /\ waiter' = [waiter EXCEPT ![obj[st]] = NoStream]
  /\ UNCHANGED <<entry, queue, streams, created, emitted>>

\* The timer clears resolveWait, whosever it is by now.
Timeout(st) ==
  /\ pc[st] = "waiting"
  /\ pc'     = [pc EXCEPT ![st] = "woken"]
  /\ waiter' = [waiter EXCEPT ![obj[st]] = NoStream]
  /\ UNCHANGED <<entry, queue, obj, has, aborted, subscribed, got, created, emitted>>

Heartbeat(st) ==
  /\ pc' = [pc EXCEPT ![st] = "yielded"]
  /\ UNCHANGED <<store, obj, has, aborted, subscribed, got, created, emitted>>

\* Faulty variant: every wake-up is answered with a heartbeat.
heartbeat_only(st) ==
  /\ pc[st] = "woken"
  /\ IF st \in aborted THEN Close(st) ELSE Heartbeat(st)

\* The loop goes on after its await.
Continue(st) ==
  /\ pc[st] = "woken"
  /\ \/ st \in aborted /\ Close(st)
     \/ st \notin aborted /\ has[st] /\ queue[obj[st]] # <<>> /\ Shift(st)
     \/ st \notin aborted /\ ~(has[st] /\ queue[obj[st]] # <<>>) /\ Heartbeat(st)

\* Nothing listens to the signal: the loop looks at it when it runs.
Abort(st) ==
  /\ Live(st) /\ st \notin aborted
  /\ aborted' = aborted \union {st}
  /\ UNCHANGED <<store, obj, pc, has, subscribed, got, created, emitted>>

Next ==
  \/ \E es \in Outputs : \/ Emit(es)
                         \/ \E s \in Sid : PushDeltas(s, es)
                         \/ \E st \in Stream : Open(st, es) \/ OpenThrows(st, es)
  \/ \E st \in Stream : \/ Resume(st) \/ Return(st) \/ Timeout(st)
                        \/ Continue(st) \/ Abort(st)

Spec == Init /\ [][Next]_vars

\* Timers fire and microtasks run; a client reads on or ends the iteration.
Fairness ==
  \A st \in Stream : /\ WF_vars(Timeout(st))
                     /\ WF_vars(Continue(st))
                     /\ WF_vars(Resume(st) \/ Return(st))

FairSpec == Spec /\ Fairness

-----------------------------------------------------------------------------
(* Properties.                                                             *)

TypeOK ==
  /\ created \in 0..MaxStates /\ emitted \in 0..MaxEvents
  /\ entry  \in [Sid -> 0..created]
  /\ queue  \in [State -> Seq(Event)]
  /\ waiter \in [State -> Stream \union {NoStream}]
  /\ obj    \in [Stream -> 0..created]
  /\ pc     \in [Stream -> {"idle", "yielded", "draining", "waiting", "woken", "closed"}]
  /\ has    \in [Stream -> BOOLEAN]
  /\ aborted \subseteq Stream /\ subscribed \subseteq Stream
  /\ got    \in [Stream -> Seq(Event)]

\* A stream is among the subscribers exactly from its setup to its finally
\* block, so no callback pushes for a stream that is gone.
SubscribedWhileLive == subscribed = { st \in Stream : Live(st) }

\* resolveWait never belongs to a wait that is over: a push never resolves a
\* promise that the timer resolved before.
WaiterSleeps ==
  \A o \in State : waiter[o] # NoStream =>
    pc[waiter[o]] = "waiting" /\ obj[waiter[o]] = o

\* When sessions are not shared: a sleeping stream has nothing to yield and the
\* next push wakes it.
NoLostWakeup ==
  \A st \in Stream : pc[st] = "waiting" =>
    waiter[obj[st]] = st /\ queue[obj[st]] = <<>>

\* When sessions are not shared: PushDeltas and CardBuild find the very state
\* whose queue the session's stream reads.
StreamServesItsSession ==
  \A st \in Stream : Live(st) => entry[SidOf[st]] = obj[st]

\* When sessions are not shared: OpenSession hands over what was published
\* while the stream was open, in order, each event once.
Pending == [st \in Stream |-> IF Live(st) THEN queue[obj[st]] ELSE <<>>]
Published == INSTANCE EventStream WITH pending <- Pending
DeliversWhatIsPublished == Published!Spec

\* An aborted stream reaches its finally block, at the latest when the timer
\* fires.
AbortEndsStream == \A st \in Stream : st \in aborted ~> pc[st] = "closed"

\* Even when streams share a session and take each other's wake-ups, the queue
\* of a stream is read to its end or the stream closes.
QueueDrains ==
  \A st \in Stream : Live(st) ~> (~Live(st) \/ queue[obj[st]] = <<>>)

=============================================================================
