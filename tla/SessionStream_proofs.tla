------------------------ MODULE SessionStream_proofs ------------------------
(***************************************************************************)
(* Proofs about SessionStream: what holds whoever opens what, and, when no *)
(* session is opened while a stream still serves it, that no wake-up is    *)
(* lost and that OpenSession implements EventStream.                       *)
(***************************************************************************)
EXTENDS SessionStream, FiniteSetTheorems, SequenceTheorems, TLAPS

-----------------------------------------------------------------------------
(* Pushing.                                                                *)

\* What a push adds to a queue is a sequence of events.
LEMMA PushedType ==
  ASSUME TypeOK, NEW es \in Outputs, NEW o \in State
  PROVE  /\ Pushed(o, es) \in Seq(Event)
         /\ es = <<>> => Pushed(o, es) = <<>>
         /\ es \in Seq(Event) /\ Len(es) \in {0, 1}
         /\ Pushed(o, es) = <<>> => queue[o] \o Pushed(o, es) = queue[o]
<1>1. Cardinality(Listeners(o)) \in Nat
  <2>1. IsFiniteSet(Listeners(o))
    BY FS_Subset, StreamAssumption DEF Listeners, TypeOK
  <2>. QED BY <2>1, FS_CardinalityType
<1>Q. Pushed(o, es) = <<>> => queue[o] \o Pushed(o, es) = queue[o]
  <2>1. queue[o] \in Seq(Event)
    BY DEF TypeOK
  <2>2. queue[o] \o <<>> = queue[o]
    BY <2>1, ConcatEmptySeq
  <2>. QED BY <2>2
<1>2. CASE es = <<>>
  <2>1. Pushed(o, es) = <<>>
    BY <1>1, <1>2 DEF Pushed
  <2>. QED BY <2>1, <1>2, <1>Q
<1>3. CASE es # <<>>
  <2>1. PICK e \in Event : es = <<e>>
    BY <1>3 DEF Outputs
  <2>2. Len(es) = 1 /\ es[1] \in Event
    BY <2>1
  <2>3. Pushed(o, es) = [i \in 1..Cardinality(Listeners(o)) |-> e]
    BY <1>1, <2>1, <2>2 DEF Pushed
  <2>4. Pushed(o, es) \in Seq(Event)
    BY <1>1, <2>3
  <2>5. es \in Seq(Event)
    BY <2>1
  <2>. QED BY <2>2, <2>4, <2>5, <1>3, <1>Q
<1>. QED BY <1>2, <1>3, <1>Q

\* A state with one listener gets what is emitted, a state with none nothing.
LEMMA PushedOnce ==
  ASSUME NEW es \in Outputs, NEW o \in State, NEW st, Listeners(o) \in {{}, {st}}
  PROVE  Pushed(o, es) = IF Listeners(o) = {} THEN <<>> ELSE es
<1>1. CASE Listeners(o) = {}
  <2>1. Cardinality(Listeners(o)) = 0
    BY <1>1, FS_EmptySet
  <2>2. Len(es) * 0 = 0
    BY DEF Outputs
  <2>. QED BY <1>1, <2>1, <2>2 DEF Pushed
<1>2. CASE Listeners(o) = {st}
  <2>1. Cardinality(Listeners(o)) = 1
    BY <1>2, FS_Singleton
  <2>2. CASE es = <<>>
    BY <2>1, <2>2, <1>2 DEF Pushed
  <2>3. CASE es # <<>>
    <3>1. PICK e \in Event : es = <<e>>
      BY <2>3 DEF Outputs
    <3>2. Pushed(o, es) = [i \in 1..1 |-> e]
      BY <2>1, <3>1 DEF Pushed
    <3>. QED BY <3>1, <3>2, <1>2
  <2>. QED BY <2>2, <2>3
<1>. QED BY <1>1, <1>2

-----------------------------------------------------------------------------
(* What holds whoever opens what.                                          *)

\* A live stream works on a state that was created.
StreamsHaveState == \A st \in Stream : Live(st) => obj[st] \in 1..created

Common == TypeOK /\ SubscribedWhileLive /\ WaiterSleeps /\ StreamsHaveState

\* The part of session_push that keeps types, and what it does to a waiter.
LEMMA PushKeepsTypes ==
  ASSUME Common, NEW es \in Outputs, session_push(es)
  PROVE  /\ emitted' \in 0..MaxEvents
         /\ queue'  \in [State -> Seq(Event)]
         /\ waiter' \in [State -> Stream \union {NoStream}]
         /\ has'    \in [Stream -> BOOLEAN]
         /\ Awake(es) \in [Stream -> {"idle", "yielded", "draining", "waiting", "woken", "closed"}]
<1>1. \A o \in State : Pushed(o, es) \in Seq(Event) /\ Len(es) \in Nat
  BY PushedType DEF Common
<1>2. \A o \in State : queue[o] \o Pushed(o, es) \in Seq(Event)
  BY <1>1, ConcatProperties DEF Common, TypeOK
<1>3. Len(es) \in Nat
  BY PushedType DEF Common, Outputs
<1>. QED BY <1>2, <1>3, StreamAssumption DEF Common, TypeOK, session_push, Awake

\* A stream that sleeps on after a push was not woken by it: its waiter is
\* untouched and its queue got nothing.
LEMMA PushKeepsSleepers ==
  ASSUME Common, NEW es \in Outputs, session_push(es)
  PROVE  \A o \in State : waiter'[o] # NoStream =>
           /\ waiter'[o] = waiter[o] /\ queue'[o] = queue[o]
           /\ waiter[o] \in Stream /\ waiter[o] \notin Roused(es)
<1>. SUFFICES ASSUME NEW o \in State, waiter'[o] # NoStream
              PROVE  /\ waiter'[o] = waiter[o] /\ queue'[o] = queue[o]
                     /\ waiter[o] \in Stream /\ waiter[o] \notin Roused(es)
  OBVIOUS
<1>1. Pushed(o, es) = <<>> /\ waiter'[o] = waiter[o]
  BY DEF session_push
<1>2. queue'[o] = queue[o]
  BY <1>1, PushedType DEF session_push, Common
<1>3. waiter[o] \in Stream
  BY <1>1 DEF Common, TypeOK
<1>Q. waiter[o] \notin Roused(es)
  BY <1>1 DEF Roused, Common, WaiterSleeps
<1>. QED BY <1>1, <1>2, <1>3, <1>Q

\* Liveness of a stream is not changed by waking it.
LEMMA AwakeKeepsLive ==
  ASSUME Common, NEW es, NEW st \in Stream
  PROVE  /\ Awake(es)[st] \in {"idle", "closed"} <=> ~Live(st)
         /\ Awake(es)[st] = "waiting" => pc[st] = "waiting" /\ st \notin Roused(es)
         /\ st \notin Roused(es) => Awake(es)[st] = pc[st]
<1>1. st \in Roused(es) => pc[st] = "waiting"
  BY StreamAssumption DEF Roused, Common, WaiterSleeps
<1>2. Awake(es)[st] = IF st \in Roused(es) THEN "woken" ELSE pc[st]
  BY DEF Awake
<1>. QED BY <1>1, <1>2 DEF Live

\* The session has a state after get_or_create_session.
LEMMA StoreGrows ==
  ASSUME TypeOK, NEW s \in Sid, get_or_create_session(s)
  PROVE  /\ created' \in 0..MaxStates /\ created <= created'
         /\ entry' \in [Sid -> 0..created']
         /\ entry'[s] \in 1..created'
         /\ \A t \in Sid : t # s => entry'[t] = entry[t]
         /\ \/ entry'[s] = entry[s]
            \/ entry[s] = NoState /\ entry'[s] = created + 1
<1>1. CASE entry[s] # NoState
  <2>1. entry' = entry /\ created' = created
    BY <1>1 DEF get_or_create_session
  <2>2. created \in Nat /\ entry[s] \in 0..created
    BY StreamAssumption DEF TypeOK
  <2>3. entry[s] \in 1..created
    BY <1>1, <2>2 DEF NoState
  <2>. QED BY <2>1, <2>2, <2>3 DEF TypeOK
<1>2. CASE entry[s] = NoState
  <2>1. /\ created' = created + 1 /\ created < MaxStates
        /\ entry' = [entry EXCEPT ![s] = created']
    BY <1>2 DEF get_or_create_session
  <2>2. created \in Nat /\ created' \in 0..MaxStates /\ 0..created \subseteq 0..created'
    BY <2>1, StreamAssumption DEF TypeOK
  <2>3. entry' \in [Sid -> 0..created']
    BY <2>1, <2>2 DEF TypeOK
  <2>. QED BY <1>2, <2>1, <2>2, <2>3 DEF TypeOK
<1>. QED BY <1>1, <1>2

LEMMA LiveHasState ==
  ASSUME Common, NEW st \in Stream, Live(st)
  PROVE  obj[st] \in State
BY StreamAssumption DEF Common, StreamsHaveState, TypeOK, State

LEMMA CommonInit == Init => Common
BY StreamAssumption DEF Init, Common, TypeOK, SubscribedWhileLive, WaiterSleeps,
     StreamsHaveState, Live, NoState, State

\* Every emission keeps Common when the rest of the state moves as the request
\* handlers move it.
LEMMA EmissionKeepsCommon ==
  ASSUME Common, NEW es \in Outputs, session_push(es),
         pc' = Awake(es), created' \in 0..MaxStates, created <= created',
         entry' \in [Sid -> 0..created'],
         UNCHANGED <<obj, aborted, subscribed, got>>
  PROVE  Common'
<1>1. TypeOK'
  <2>1. obj' \in [Stream -> 0..created']
    BY DEF Common, TypeOK
  <2>. QED BY <2>1, PushKeepsTypes DEF Common, TypeOK
<1>2. \A st \in Stream : Live(st)' <=> Live(st)
  BY AwakeKeepsLive DEF Live
<1>3. SubscribedWhileLive'
  BY <1>2 DEF Common, SubscribedWhileLive
<1>4. WaiterSleeps'
  <2>. SUFFICES ASSUME NEW o \in State, waiter'[o] # NoStream
                PROVE  pc'[waiter'[o]] = "waiting" /\ obj'[waiter'[o]] = o
    BY DEF WaiterSleeps
  <2>1. /\ waiter'[o] = waiter[o] /\ waiter[o] \in Stream
        /\ waiter[o] \notin Roused(es)
    BY PushKeepsSleepers
  <2>2. pc'[waiter[o]] = pc[waiter[o]]
    BY <2>1, AwakeKeepsLive
  <2>. QED BY <2>1, <2>2 DEF Common, WaiterSleeps
<1>5. StreamsHaveState'
  BY <1>2 DEF Common, StreamsHaveState, TypeOK
<1>. QED BY <1>1, <1>3, <1>4, <1>5 DEF Common

LEMMA CloseKeepsCommon ==
  ASSUME Common, NEW st \in Stream, pc[st] # "waiting", Close(st)
  PROVE  Common'
<1>1. TypeOK'
  <2>0. 0 \in 0..created
    BY StreamAssumption DEF Common, TypeOK
  <2>1. entry' \in [Sid -> 0..created]
    BY <2>0 DEF Common, TypeOK, Close, NoState
  <2>2. pc' \in [Stream -> {"idle", "yielded", "draining", "waiting", "woken", "closed"}]
    BY DEF Common, TypeOK, Close
  <2>. QED BY <2>1, <2>2 DEF Common, TypeOK, Close
<1>2. SubscribedWhileLive'
  BY DEF Common, SubscribedWhileLive, Close, Live, TypeOK
<1>3. WaiterSleeps'
  BY DEF Common, WaiterSleeps, Close, TypeOK
<1>4. StreamsHaveState'
  BY DEF Common, StreamsHaveState, Close, Live, TypeOK
<1>. QED BY <1>1, <1>2, <1>3, <1>4 DEF Common

LEMMA ShiftKeepsCommon ==
  ASSUME Common, NEW st \in Stream, pc[st] # "waiting", Live(st),
         queue[obj[st]] # <<>>, Shift(st)
  PROVE  Common'
<1>1. obj[st] \in State
  BY LiveHasState
<1>2. Head(queue[obj[st]]) \in Event /\ Tail(queue[obj[st]]) \in Seq(Event)
  BY <1>1, HeadTailProperties DEF Common, TypeOK
<1>3. TypeOK'
  BY <1>1, <1>2 DEF Common, TypeOK, Shift
<1>4. SubscribedWhileLive'
  BY DEF Common, SubscribedWhileLive, Shift, Live, TypeOK
<1>5. WaiterSleeps'
  BY DEF Common, WaiterSleeps, Shift, TypeOK
<1>6. StreamsHaveState'
  BY DEF Common, StreamsHaveState, Shift, Live, TypeOK
<1>. QED BY <1>3, <1>4, <1>5, <1>6 DEF Common

LEMMA WaitKeepsCommon ==
  ASSUME Common, NEW st \in Stream, AtYield(st), wait_for_message_or_timeout(st)
  PROVE  Common'
<1>1. obj[st] \in State /\ Live(st)
  BY LiveHasState DEF AtYield, Live
<1>2. TypeOK'
  BY <1>1 DEF Common, TypeOK, wait_for_message_or_timeout
<1>3. SubscribedWhileLive'
  BY <1>1 DEF Common, SubscribedWhileLive, wait_for_message_or_timeout, Live, TypeOK
<1>4. WaiterSleeps'
  <2>. SUFFICES ASSUME NEW o \in State, waiter'[o] # NoStream
                PROVE  pc'[waiter'[o]] = "waiting" /\ obj'[waiter'[o]] = o
    BY DEF WaiterSleeps
  <2>1. CASE waiter'[o] = waiter[o]
    <3>1. waiter[o] # st /\ waiter[o] \in Stream
      BY <2>1 DEF Common, WaiterSleeps, TypeOK, AtYield
    <3>. QED BY <2>1, <3>1 DEF Common, WaiterSleeps, wait_for_message_or_timeout, TypeOK
  <2>2. CASE waiter'[o] # waiter[o]
    BY <1>1, <2>2 DEF Common, wait_for_message_or_timeout, TypeOK
  <2>. QED BY <2>1, <2>2
<1>5. StreamsHaveState'
  BY <1>1 DEF Common, StreamsHaveState, wait_for_message_or_timeout, Live, TypeOK
<1>. QED BY <1>2, <1>3, <1>4, <1>5 DEF Common

\* Both ends of OpenSession's setup: the stream subscribed, or dropped.
LEMMA OpenKeepsCommon ==
  ASSUME Common, NEW st \in Stream, NEW es \in Outputs,
         pc[st] = "idle", get_or_create_session(SidOf[st]), session_push(es),
         UNCHANGED <<aborted, got>>,
         \/ /\ obj' = [obj EXCEPT ![st] = entry'[SidOf[st]]]
            /\ pc' = [Awake(es) EXCEPT ![st] = "yielded"]
            /\ subscribed' = subscribed \union {st}
         \/ /\ pc' = [Awake(es) EXCEPT ![st] = "closed"]
            /\ UNCHANGED <<obj, subscribed>>
  PROVE  Common'
<1>1. /\ created' \in 0..MaxStates /\ created <= created'
      /\ entry' \in [Sid -> 0..created'] /\ entry'[SidOf[st]] \in 1..created'
  BY StoreGrows, StreamAssumption DEF Common
<1>2. 0..created \subseteq 0..created' /\ 1..created \subseteq 1..created'
  BY <1>1, StreamAssumption DEF Common, TypeOK
<1>3. obj' \in [Stream -> 0..created']
  <2>1. obj \in [Stream -> 0..created'] /\ entry'[SidOf[st]] \in 0..created'
    BY <1>1, <1>2 DEF Common, TypeOK
  <2>. QED BY <2>1
<1>4. TypeOK'
  <2>1. /\ emitted' \in 0..MaxEvents /\ queue' \in [State -> Seq(Event)]
        /\ waiter' \in [State -> Stream \union {NoStream}] /\ has' \in [Stream -> BOOLEAN]
        /\ Awake(es) \in [Stream -> {"idle", "yielded", "draining", "waiting", "woken", "closed"}]
    BY PushKeepsTypes
  <2>2. pc' \in [Stream -> {"idle", "yielded", "draining", "waiting", "woken", "closed"}]
    BY <2>1
  <2>3. aborted' \subseteq Stream /\ subscribed' \subseteq Stream /\ got' \in [Stream -> Seq(Event)]
    BY DEF Common, TypeOK
  <2>. QED BY <1>1, <1>3, <2>1, <2>2, <2>3 DEF TypeOK
<1>5. \A t \in Stream : t # st => (Live(t)' <=> Live(t))
  BY <1>4, AwakeKeepsLive DEF Live, Common, TypeOK
<1>6. Live(st)' <=> st \in subscribed'
  BY PushKeepsTypes DEF Live, Common, SubscribedWhileLive
<1>7. SubscribedWhileLive'
  BY <1>5, <1>6 DEF Common, SubscribedWhileLive, TypeOK
<1>8. StreamsHaveState'
  <2>. SUFFICES ASSUME NEW t \in Stream, Live(t)' PROVE obj'[t] \in 1..created'
    BY DEF StreamsHaveState
  <2>1. CASE t = st
    BY <2>1, <1>1, <1>6 DEF Common, TypeOK, SubscribedWhileLive, Live
  <2>2. CASE t # st
    BY <2>2, <1>2, <1>5 DEF Common, StreamsHaveState, TypeOK
  <2>. QED BY <2>1, <2>2
<1>9. WaiterSleeps'
  <2>. SUFFICES ASSUME NEW o \in State, waiter'[o] # NoStream
                PROVE  pc'[waiter'[o]] = "waiting" /\ obj'[waiter'[o]] = o
    BY DEF WaiterSleeps
  <2>1. /\ waiter'[o] = waiter[o] /\ waiter[o] \in Stream
        /\ waiter[o] \notin Roused(es)
    BY PushKeepsSleepers
  <2>2. pc[waiter[o]] = "waiting" /\ obj[waiter[o]] = o /\ waiter[o] # st
    BY <2>1 DEF Common, WaiterSleeps
  <2>3. Awake(es)[waiter[o]] = pc[waiter[o]]
    BY <2>1, AwakeKeepsLive
  <2>4. pc'[waiter[o]] = "waiting"
    BY <2>1, <2>2, <2>3, PushKeepsTypes
  <2>5. obj'[waiter[o]] = o
    BY <2>1, <2>2 DEF Common, TypeOK
  <2>. QED BY <2>1, <2>4, <2>5
<1>. QED BY <1>4, <1>7, <1>8, <1>9 DEF Common

LEMMA CommonStep == Common /\ [Next]_vars => Common'
<1>. SUFFICES ASSUME Common, [Next]_vars PROVE Common'
  OBVIOUS
<1>1. ASSUME NEW es \in Outputs, Emit(es) PROVE Common'
  <2>1. /\ created' \in 0..MaxStates /\ created <= created'
        /\ entry' \in [Sid -> 0..created']
    BY <1>1, StreamAssumption DEF Emit, Common, TypeOK
  <2>. QED BY <1>1, <2>1, EmissionKeepsCommon DEF Emit
<1>2. ASSUME NEW s \in Sid, NEW es \in Outputs, PushDeltas(s, es) PROVE Common'
  BY <1>2, StoreGrows, EmissionKeepsCommon DEF PushDeltas, Common
<1>3. ASSUME NEW st \in Stream, NEW es \in Outputs, OpenThrows(st, es) PROVE Common'
  BY <1>3, OpenKeepsCommon DEF OpenThrows, MayOpen
<1>4. ASSUME NEW st \in Stream, NEW es \in Outputs, Open(st, es) PROVE Common'
  BY <1>4, OpenKeepsCommon DEF Open, MayOpen
<1>5. ASSUME NEW st \in Stream, Resume(st) PROVE Common'
  BY <1>5, CloseKeepsCommon, ShiftKeepsCommon, WaitKeepsCommon DEF Resume, AtYield, Live
<1>6. ASSUME NEW st \in Stream, Return(st) PROVE Common'
  BY <1>6, CloseKeepsCommon DEF Return, AtYield
<1>7. ASSUME NEW st \in Stream, Timeout(st) PROVE Common'
  <2>1. obj[st] \in State /\ Live(st)
    BY <1>7, LiveHasState DEF Timeout, Live
  <2>2. TypeOK'
    BY <1>7, <2>1 DEF Common, TypeOK, Timeout
  <2>3. SubscribedWhileLive' /\ StreamsHaveState'
    BY <1>7, <2>1 DEF Common, SubscribedWhileLive, StreamsHaveState, Timeout, Live, TypeOK
  <2>4. WaiterSleeps'
    BY <1>7, <2>1 DEF Common, WaiterSleeps, Timeout, TypeOK
  <2>. QED BY <2>2, <2>3, <2>4 DEF Common
<1>8. ASSUME NEW st \in Stream, Continue(st) PROVE Common'
  <2>1. CASE Heartbeat(st)
    <3>1. TypeOK'
      BY <2>1 DEF Common, TypeOK, Heartbeat, store
    <3>2. SubscribedWhileLive' /\ StreamsHaveState'
      BY <1>8, <2>1 DEF Common, SubscribedWhileLive, StreamsHaveState, Heartbeat, store,
           Continue, Live, TypeOK
    <3>3. WaiterSleeps'
      BY <1>8, <2>1 DEF Common, WaiterSleeps, Heartbeat, store, Continue, TypeOK
    <3>. QED BY <3>1, <3>2, <3>3 DEF Common
  <2>. QED BY <1>8, <2>1, CloseKeepsCommon, ShiftKeepsCommon DEF Continue, Live
<1>9. ASSUME NEW st \in Stream, Abort(st) PROVE Common'
  BY <1>9 DEF Abort, Common, TypeOK, SubscribedWhileLive, WaiterSleeps,
       StreamsHaveState, Live, store
<1>10. CASE UNCHANGED vars
  BY <1>10 DEF vars, store, streams, Common, TypeOK, SubscribedWhileLive,
       WaiterSleeps, StreamsHaveState, Live
<1>. QED
  BY <1>1, <1>2, <1>3, <1>4, <1>5, <1>6, <1>7, <1>8, <1>9, <1>10 DEF Next

LEMMA CommonAlways == Spec => []Common
BY CommonInit, CommonStep, PTL DEF Spec

\* No OpenSession call, push, timeout or cleanup leaves a variable outside its
\* type: a state never names a stream or a state that was not created.
THEOREM StreamTypesCorrect == Spec => []TypeOK
BY CommonAlways, PTL DEF Common

\* The subscribers of the runtime's card outputs are the streams between their
\* setup and their finally block, whoever shares a session with whom.
THEOREM SubscribersAreLive == Spec => []SubscribedWhileLive
BY CommonAlways, PTL DEF Common

\* resolveWait always belongs to a wait that is not over, even when streams
\* share a session and a timer clears the wake-up of another.
THEOREM WaitersSleep == Spec => []WaiterSleeps
BY CommonAlways, PTL DEF Common

-----------------------------------------------------------------------------
(* Sessions that are not shared.                                           *)

\* No two live streams name the same session, and no two sessions hold the
\* same state, so a live stream is the only one to read its queue.
SidsDistinct ==
  \A st, t \in Stream : Live(st) /\ Live(t) /\ SidOf[st] = SidOf[t] => st = t

EntriesDistinct ==
  \A s, t \in Sid : entry[s] # NoState /\ entry[s] = entry[t] => s = t

\* A queue nobody reads yet is empty: that of a session without a stream, and
\* that of a state to be created.
UnreadQueuesEmpty ==
  /\ \A s \in Sid :
       entry[s] # NoState /\ (\A st \in Stream : Live(st) => SidOf[st] # s)
       => queue[entry[s]] = <<>>
  /\ \A o \in State : o > created => queue[o] = <<>>

Sole == /\ Common
        /\ SidsDistinct /\ EntriesDistinct /\ StreamServesItsSession
        /\ UnreadQueuesEmpty /\ NoLostWakeup

LEMMA SoleInit == Init => Sole
<1>. SUFFICES ASSUME Init PROVE Sole
  OBVIOUS
<1>1. Common
  BY CommonInit
<1>. QED BY <1>1 DEF Init, Sole, SidsDistinct, EntriesDistinct, NoLostWakeup,
       StreamServesItsSession, UnreadQueuesEmpty, Live, NoState

\* A live stream is the only listener of its state.
LEMMA SoleListener ==
  ASSUME Sole, NEW st \in Stream, Live(st)
  PROVE  Listeners(obj[st]) = {st}
<1>1. obj[st] # NoState /\ entry[SidOf[st]] = obj[st]
  BY DEF Sole, Common, StreamsHaveState, StreamServesItsSession, TypeOK, NoState
<1>2. \A t \in Stream : Live(t) /\ obj[t] = obj[st] => t = st
  BY <1>1, StreamAssumption DEF Sole, EntriesDistinct, SidsDistinct, StreamServesItsSession
<1>. QED BY <1>2 DEF Listeners, Sole, Common, SubscribedWhileLive

\* What a push does to the queues: a live stream's grows by the emitted event,
\* and one nobody reads stays as it is.
LEMMA SolePush ==
  ASSUME Sole, NEW es \in Outputs, session_push(es)
  PROVE  /\ \A st \in Stream : Live(st) => queue'[obj[st]] = queue[obj[st]] \o es
         /\ \A o \in State : (\A st \in Stream : Live(st) => obj[st] # o)
              => queue'[o] = queue[o]
<1>1. ASSUME NEW st \in Stream, Live(st)
      PROVE  queue'[obj[st]] = queue[obj[st]] \o es
  <2>1. obj[st] \in State /\ Listeners(obj[st]) = {st}
    BY <1>1, LiveHasState, SoleListener DEF Sole
  <2>2. Pushed(obj[st], es) = es
    <3>1. Listeners(obj[st]) \in {{}, {st}} /\ Listeners(obj[st]) # {}
      BY <2>1
    <3>2. Pushed(obj[st], es) = IF Listeners(obj[st]) = {} THEN <<>> ELSE es
      BY <2>1, <3>1, PushedOnce
    <3>. QED BY <3>1, <3>2
  <2>. QED BY <2>1, <2>2 DEF session_push
<1>2. ASSUME NEW o \in State, \A st \in Stream : Live(st) => obj[st] # o
      PROVE  queue'[o] = queue[o]
  <2>1. Listeners(o) = {}
    BY <1>2 DEF Listeners, Sole, Common, SubscribedWhileLive
  <2>2. Pushed(o, es) = <<>>
    BY <2>1, PushedOnce
  <2>3. queue[o] \o Pushed(o, es) = queue[o]
    BY <2>2, PushedType DEF Sole, Common
  <2>. QED BY <2>3 DEF session_push
<1>. QED BY <1>1, <1>2

\* A stream that sleeps on after a push has nothing in its queue, as before.
LEMMA PushWakesSleepers ==
  ASSUME Sole, NEW es \in Outputs, session_push(es), NEW st \in Stream,
         Awake(es)[st] = "waiting"
  PROVE  /\ pc[st] = "waiting"
         /\ waiter'[obj[st]] = st /\ queue'[obj[st]] = <<>>
<1>1. pc[st] = "waiting" /\ st \notin Roused(es)
  BY AwakeKeepsLive DEF Sole
<1>2. obj[st] \in State /\ waiter[obj[st]] = st /\ queue[obj[st]] = <<>>
  BY <1>1, LiveHasState DEF Live, Sole, NoLostWakeup
<1>3. Pushed(obj[st], es) = <<>>
  BY <1>1, <1>2 DEF Roused
<1>4. waiter'[obj[st]] = st
  BY <1>2, <1>3 DEF session_push
<1>5. queue'[obj[st]] = queue[obj[st]]
  BY <1>2, <1>4, PushKeepsSleepers, StreamAssumption DEF Sole
<1>. QED BY <1>1, <1>2, <1>4, <1>5

\* Creating an entry, with nothing else, keeps Sole.
LEMMA CreationKeepsSole ==
  ASSUME Sole, NEW s \in Sid, entry[s] = NoState, get_or_create_session(s)
  PROVE  /\ \A t, u \in Sid : entry'[t] # NoState /\ entry'[t] = entry'[u] => t = u
         /\ \A st \in Stream : Live(st) => SidOf[st] # s
         /\ entry'[s] \in State /\ queue[entry'[s]] = <<>>
         /\ \A st \in Stream : Live(st) => obj[st] # entry'[s]
<1>1. /\ created' = created + 1 /\ created < MaxStates /\ created \in Nat
      /\ entry' = [entry EXCEPT ![s] = created + 1]
  BY StreamAssumption DEF get_or_create_session, Sole, Common, TypeOK
<1>2. \A t \in Sid : entry[t] # created + 1
  BY <1>1 DEF Sole, Common, TypeOK
<1>3. entry'[s] = created + 1 /\ \A t \in Sid : t # s => entry'[t] = entry[t]
  BY <1>1 DEF Sole, Common, TypeOK
<1>4. \A t, u \in Sid : entry'[t] # NoState /\ entry'[t] = entry'[u] => t = u
  BY <1>2, <1>3 DEF Sole, EntriesDistinct
<1>5. \A st \in Stream : Live(st) => SidOf[st] # s
  BY <1>1 DEF Sole, StreamServesItsSession, Common, StreamsHaveState, NoState
<1>6. entry'[s] \in State /\ queue[entry'[s]] = <<>>
  BY <1>1, <1>3, StreamAssumption DEF State, Sole, UnreadQueuesEmpty
<1>7. \A st \in Stream : Live(st) => obj[st] # entry'[s]
  BY <1>1, <1>3 DEF Sole, Common, StreamsHaveState
<1>. QED BY <1>4, <1>5, <1>6, <1>7

\* The store and the queues after a request: the new entry, if any, is a state
\* of its own, and a queue nobody reads is still empty.
LEMMA StoreAfterPush ==
  ASSUME Sole, NEW es \in Outputs, session_push(es),
         \/ UNCHANGED <<entry, created>>
         \/ \E s \in Sid : get_or_create_session(s)
  PROVE  /\ EntriesDistinct'
         /\ \A st \in Stream : Live(st) => entry'[SidOf[st]] = obj[st]
         /\ \A s \in Sid :
              entry'[s] # NoState /\ (\A st \in Stream : Live(st) => SidOf[st] # s)
              => queue'[entry'[s]] = <<>>
         /\ \A o \in State : o > created' => queue'[o] = <<>>
<1>. DEFINE Unserved(s) == \A st \in Stream : Live(st) => SidOf[st] # s
<1>1. ASSUME NEW s \in Sid, entry[s] # NoState, Unserved(s)
      PROVE  queue'[entry[s]] = <<>>
  <2>1. entry[s] \in State
    BY <1>1, StreamAssumption DEF Sole, Common, TypeOK, State, NoState
  <2>2. \A st \in Stream : Live(st) => obj[st] # entry[s]
    BY <1>1, StreamAssumption DEF Sole, StreamServesItsSession, EntriesDistinct
  <2>. QED BY <1>1, <2>1, <2>2, SolePush DEF Sole, UnreadQueuesEmpty
<1>2. ASSUME NEW o \in State, o > created
      PROVE  queue'[o] = <<>>
  <2>1. \A st \in Stream : Live(st) => obj[st] # o
    BY <1>2, StreamAssumption DEF Sole, Common, StreamsHaveState, TypeOK, State
  <2>. QED BY <1>2, <2>1, SolePush DEF Sole, UnreadQueuesEmpty
<1>3. CASE UNCHANGED <<entry, created>>
  BY <1>1, <1>2, <1>3 DEF Sole, EntriesDistinct, StreamServesItsSession
<1>4. ASSUME NEW s \in Sid, get_or_create_session(s), ~UNCHANGED <<entry, created>>
      PROVE  /\ EntriesDistinct'
             /\ \A st \in Stream : Live(st) => entry'[SidOf[st]] = obj[st]
             /\ \A t \in Sid : entry'[t] # NoState /\ Unserved(t)
                  => queue'[entry'[t]] = <<>>
             /\ \A o \in State : o > created' => queue'[o] = <<>>
  <2>1. entry[s] = NoState
    BY <1>4 DEF get_or_create_session
  <2>2. /\ \A t, u \in Sid : entry'[t] # NoState /\ entry'[t] = entry'[u] => t = u
        /\ Unserved(s)
        /\ entry'[s] \in State /\ queue[entry'[s]] = <<>>
        /\ \A st \in Stream : Live(st) => obj[st] # entry'[s]
    BY <1>4, <2>1, CreationKeepsSole
  <2>3. /\ created <= created' /\ created' \in Nat /\ created \in Nat
        /\ \A t \in Sid : t # s => entry'[t] = entry[t]
    BY <1>4, StoreGrows, StreamAssumption DEF Sole, Common, TypeOK
  <2>4. queue'[entry'[s]] = <<>>
    BY <2>2, SolePush
  <2>5. \A st \in Stream : Live(st) => entry'[SidOf[st]] = obj[st]
    BY <2>2, <2>3, StreamAssumption DEF Sole, StreamServesItsSession
  <2>6. \A t \in Sid : entry'[t] # NoState /\ Unserved(t) => queue'[entry'[t]] = <<>>
    BY <1>1, <2>3, <2>4
  <2>7. \A o \in State : o > created' => queue'[o] = <<>>
    BY <1>2, <2>3 DEF State
  <2>. QED BY <2>2, <2>5, <2>6, <2>7 DEF EntriesDistinct
<1>. QED BY <1>3, <1>4

\* An emission that starts and ends no stream keeps Sole.
LEMMA EmissionKeepsSole ==
  ASSUME Sole, Common', NEW es \in Outputs, session_push(es),
         \/ UNCHANGED <<entry, created>>
         \/ \E s \in Sid : get_or_create_session(s),
         \A st \in Stream : Live(st)' <=> Live(st),
         \A st \in Stream : pc'[st] = "waiting" => Awake(es)[st] = "waiting",
         UNCHANGED obj
  PROVE  Sole'
<1>1. SidsDistinct' /\ EntriesDistinct' /\ StreamServesItsSession'
  BY StoreAfterPush DEF Sole, SidsDistinct, StreamServesItsSession
<1>2. UnreadQueuesEmpty'
  BY StoreAfterPush DEF UnreadQueuesEmpty
<1>3. NoLostWakeup'
  BY PushWakesSleepers DEF NoLostWakeup
<1>. QED BY <1>1, <1>2, <1>3 DEF Sole

LEMMA OpenKeepsSole ==
  ASSUME Sole, Common', ~MayShare, NEW st \in Stream, NEW es \in Outputs, Open(st, es)
  PROVE  Sole'
<1>1. /\ pc[st] = "idle" /\ ~Live(st)
      /\ \A t \in Stream : Live(t) => SidOf[t] # SidOf[st]
  BY DEF Open, MayOpen, Live
<1>2. session_push(es) /\ get_or_create_session(SidOf[st])
  BY DEF Open
<1>3. /\ obj'[st] = entry'[SidOf[st]] /\ pc'[st] = "yielded" /\ Live(st)'
      /\ \A t \in Stream : t # st => obj'[t] = obj[t] /\ pc'[t] = Awake(es)[t]
  BY PushKeepsTypes, <1>2 DEF Open, Sole, Common, TypeOK, Live
<1>4. \A t \in Stream : t # st => (Live(t)' <=> Live(t))
  BY <1>3, AwakeKeepsLive DEF Live, Sole
<1>5. SidsDistinct'
  BY <1>1, <1>4 DEF SidsDistinct, Sole
<1>6. SidOf[st] \in Sid
  BY StreamAssumption
<1>7. EntriesDistinct' /\ StreamServesItsSession'
  BY <1>1, <1>2, <1>3, <1>4, <1>6, StoreAfterPush DEF StreamServesItsSession
<1>8. UnreadQueuesEmpty'
  BY <1>1, <1>2, <1>4, <1>6, StoreAfterPush DEF UnreadQueuesEmpty
<1>9. NoLostWakeup'
  BY <1>2, <1>3, PushWakesSleepers DEF NoLostWakeup
<1>. QED BY <1>5, <1>7, <1>8, <1>9 DEF Sole

\* Two live streams never work on the same state.
LEMMA SoleReader ==
  ASSUME Sole, NEW st \in Stream, NEW t \in Stream, Live(st), Live(t), obj[st] = obj[t]
  PROVE  st = t
BY SoleListener

LEMMA CloseKeepsSole ==
  ASSUME Sole, Common', NEW st \in Stream, Live(st), Close(st)
  PROVE  Sole'
<1>1. /\ entry' = [entry EXCEPT ![SidOf[st]] = NoState]
      /\ pc' = [pc EXCEPT ![st] = "closed"]
      /\ UNCHANGED <<queue, waiter, obj, created>>
  BY DEF Close
<1>2. \A t \in Stream : Live(t)' <=> Live(t) /\ t # st
  BY <1>1 DEF Live, Sole, Common, TypeOK
<1>3. /\ entry'[SidOf[st]] = NoState
      /\ \A s \in Sid : s # SidOf[st] => entry'[s] = entry[s]
  BY <1>1, StreamAssumption DEF Sole, Common, TypeOK
<1>4. SidsDistinct' /\ EntriesDistinct'
  BY <1>2, <1>3 DEF Sole, SidsDistinct, EntriesDistinct
<1>5. StreamServesItsSession'
  BY <1>1, <1>2, <1>3, StreamAssumption DEF Sole, SidsDistinct, StreamServesItsSession
<1>6. UnreadQueuesEmpty'
  BY <1>1, <1>2, <1>3 DEF Sole, UnreadQueuesEmpty, State
<1>7. NoLostWakeup'
  BY <1>1 DEF Sole, NoLostWakeup, Common, TypeOK
<1>. QED BY <1>4, <1>5, <1>6, <1>7 DEF Sole

LEMMA ShiftKeepsSole ==
  ASSUME Sole, Common', NEW st \in Stream, Live(st), queue[obj[st]] # <<>>, Shift(st)
  PROVE  Sole'
<1>1. /\ queue' = [queue EXCEPT ![obj[st]] = Tail(@)]
      /\ pc' = [pc EXCEPT ![st] = "draining"]
      /\ UNCHANGED <<entry, waiter, obj, created>>
  BY DEF Shift
<1>2. \A t \in Stream : Live(t)' <=> Live(t)
  BY <1>1 DEF Live, Sole, Common, TypeOK
<1>3. \A o \in State : o # obj[st] => queue'[o] = queue[o]
  BY <1>1 DEF Sole, Common, TypeOK
<1>4. SidsDistinct' /\ EntriesDistinct' /\ StreamServesItsSession'
  BY <1>1, <1>2 DEF Sole, SidsDistinct, EntriesDistinct, StreamServesItsSession
<1>5. UnreadQueuesEmpty'
  <2>1. ASSUME NEW s \in Sid, entry[s] # NoState,
               \A t \in Stream : Live(t) => SidOf[t] # s
        PROVE  queue'[entry[s]] = <<>>
    <3>1. entry[s] \in State
      <4>1. created \in 0..MaxStates /\ entry[s] \in 0..created
        BY DEF Sole, Common, TypeOK
      <4>. QED BY <2>1, <4>1, StreamAssumption DEF State, NoState
    <3>2. SidOf[st] \in Sid /\ entry[SidOf[st]] = obj[st] /\ SidOf[st] # s
      BY <2>1, StreamAssumption DEF Sole, StreamServesItsSession
    <3>3. entry[s] # obj[st]
      BY <2>1, <3>2 DEF Sole, EntriesDistinct
    <3>. QED BY <2>1, <3>1, <3>3, <1>3 DEF Sole, UnreadQueuesEmpty
  <2>2. ASSUME NEW o \in State, o > created
        PROVE  queue'[o] = <<>>
    <3>1. o # obj[st]
      BY <2>2, StreamAssumption DEF Sole, Common, StreamsHaveState, TypeOK, State
    <3>. QED BY <2>2, <3>1, <1>3 DEF Sole, UnreadQueuesEmpty
  <2>. QED BY <1>1, <1>2, <2>1, <2>2 DEF UnreadQueuesEmpty
<1>6. NoLostWakeup'
  <2>. SUFFICES ASSUME NEW t \in Stream, pc'[t] = "waiting"
                PROVE  waiter[obj[t]] = t /\ queue'[obj[t]] = <<>>
    BY <1>1 DEF NoLostWakeup
  <2>1. pc[t] = "waiting" /\ waiter[obj[t]] = t /\ queue[obj[t]] = <<>>
    BY <1>1 DEF Sole, NoLostWakeup, Common, TypeOK
  <2>2. obj[t] \in State /\ obj[t] # obj[st]
    BY <2>1, LiveHasState DEF Live, Sole
  <2>. QED BY <2>1, <2>2, <1>3
<1>. QED BY <1>4, <1>5, <1>6 DEF Sole

\* A step that moves one stream and touches at most the waiter of its state.
LEMMA WaiterStepKeepsSole ==
  ASSUME Sole, Common', NEW st \in Stream, Live(st), Live(st)',
         \A t \in Stream : t # st => pc'[t] = pc[t],
         pc'[st] = "waiting" => waiter'[obj[st]] = st /\ queue[obj[st]] = <<>>,
         \A o \in State : o # obj[st] => waiter'[o] = waiter[o],
         UNCHANGED <<entry, queue, obj, created>>
  PROVE  Sole'
<1>1. \A t \in Stream : Live(t)' <=> Live(t)
  BY DEF Live
<1>2. SidsDistinct' /\ EntriesDistinct' /\ StreamServesItsSession' /\ UnreadQueuesEmpty'
  BY <1>1 DEF Sole, SidsDistinct, EntriesDistinct, StreamServesItsSession,
       UnreadQueuesEmpty, State
<1>3. NoLostWakeup'
  <2>. SUFFICES ASSUME NEW t \in Stream, pc'[t] = "waiting"
                PROVE  waiter'[obj[t]] = t /\ queue[obj[t]] = <<>>
    BY DEF NoLostWakeup
  <2>1. CASE t = st
    BY <2>1
  <2>2. CASE t # st
    <3>1. pc[t] = "waiting" /\ waiter[obj[t]] = t /\ queue[obj[t]] = <<>>
      BY <2>2 DEF Sole, NoLostWakeup
    <3>2. obj[t] \in State /\ obj[t] # obj[st]
      BY <2>2, <3>1, LiveHasState, SoleReader DEF Live, Sole
    <3>. QED BY <3>1, <3>2
  <2>. QED BY <2>1, <2>2
<1>. QED BY <1>2, <1>3 DEF Sole

LEMMA SoleStep == ~MayShare /\ Sole /\ [Next]_vars => Sole'
<1>. SUFFICES ASSUME ~MayShare, Sole, [Next]_vars PROVE Sole'
  OBVIOUS
<1>0. Common'
  BY CommonStep DEF Sole
<1>1. ASSUME NEW es \in Outputs, Emit(es) PROVE Sole'
  <2>1. \A st \in Stream : Live(st)' <=> Live(st)
    BY <1>1, AwakeKeepsLive DEF Emit, Live, Sole
  <2>. QED BY <1>0, <1>1, <2>1, EmissionKeepsSole DEF Emit
<1>2. ASSUME NEW s \in Sid, NEW es \in Outputs, PushDeltas(s, es) PROVE Sole'
  <2>1. \A st \in Stream : Live(st)' <=> Live(st)
    BY <1>2, AwakeKeepsLive DEF PushDeltas, Live, Sole
  <2>. QED BY <1>0, <1>2, <2>1, EmissionKeepsSole DEF PushDeltas
<1>3. ASSUME NEW st \in Stream, NEW es \in Outputs, OpenThrows(st, es) PROVE Sole'
  <2>1. /\ session_push(es) /\ get_or_create_session(SidOf[st]) /\ UNCHANGED obj
        /\ pc' = [Awake(es) EXCEPT ![st] = "closed"] /\ pc[st] = "idle"
    BY <1>3 DEF OpenThrows, MayOpen
  <2>2. /\ pc'[st] = "closed"
        /\ \A t \in Stream : t # st => pc'[t] = Awake(es)[t]
    BY <2>1, PushKeepsTypes DEF Sole
  <2>3. \A t \in Stream : Live(t)' <=> Live(t)
    BY <2>1, <2>2, AwakeKeepsLive DEF Live, Sole
  <2>4. SidOf[st] \in Sid
    BY StreamAssumption
  <2>. QED BY <1>0, <2>1, <2>2, <2>3, <2>4, EmissionKeepsSole
<1>4. ASSUME NEW st \in Stream, NEW es \in Outputs, Open(st, es) PROVE Sole'
  BY <1>0, <1>4, OpenKeepsSole
<1>5. ASSUME NEW st \in Stream, Resume(st) PROVE Sole'
  <2>1. Live(st) /\ obj[st] \in State
    BY <1>5, LiveHasState DEF Resume, AtYield, Live, Sole
  <2>2. CASE Close(st)
    BY <1>0, <2>1, <2>2, CloseKeepsSole
  <2>3. CASE queue[obj[st]] # <<>> /\ Shift(st)
    BY <1>0, <2>1, <2>3, ShiftKeepsSole
  <2>4. CASE wait_for_message_or_timeout(st)
    <3>0. /\ Live(st)' /\ \A t \in Stream : t # st => pc'[t] = pc[t]
          /\ UNCHANGED <<entry, queue, obj, created>>
      BY <2>4 DEF wait_for_message_or_timeout, Live, Sole, Common, TypeOK
    <3>1. CASE queue[obj[st]] # <<>>
      <4>1. pc'[st] # "waiting" /\ waiter' = waiter
        BY <2>4, <3>1 DEF wait_for_message_or_timeout, Sole, Common, TypeOK
      <4>. QED BY <1>0, <2>1, <3>0, <4>1, WaiterStepKeepsSole
    <3>2. CASE queue[obj[st]] = <<>>
      <4>1. /\ waiter'[obj[st]] = st
            /\ \A o \in State : o # obj[st] => waiter'[o] = waiter[o]
        BY <2>1, <2>4, <3>2 DEF wait_for_message_or_timeout, Sole, Common, TypeOK
      <4>. QED BY <1>0, <2>1, <3>0, <3>2, <4>1, WaiterStepKeepsSole
    <3>. QED BY <3>1, <3>2
  <2>. QED BY <1>5, <2>2, <2>3, <2>4 DEF Resume
<1>6. ASSUME NEW st \in Stream, Return(st) PROVE Sole'
  BY <1>0, <1>6, CloseKeepsSole DEF Return, AtYield, Live
<1>7. ASSUME NEW st \in Stream, Timeout(st) PROVE Sole'
  <2>1. \A o \in State : o # obj[st] => waiter'[o] = waiter[o]
    BY <1>7 DEF Timeout, Sole, Common, TypeOK
  <2>2. /\ Live(st) /\ Live(st)' /\ pc'[st] = "woken"
        /\ \A t \in Stream : t # st => pc'[t] = pc[t]
        /\ UNCHANGED <<entry, queue, obj, created>>
    BY <1>7 DEF Timeout, Live, Sole, Common, TypeOK
  <2>. QED BY <1>0, <2>1, <2>2, WaiterStepKeepsSole
<1>8. ASSUME NEW st \in Stream, Continue(st) PROVE Sole'
  <2>1. Live(st)
    BY <1>8 DEF Continue, Live
  <2>2. CASE Close(st)
    BY <1>0, <2>1, <2>2, CloseKeepsSole
  <2>3. CASE queue[obj[st]] # <<>> /\ Shift(st)
    BY <1>0, <2>1, <2>3, ShiftKeepsSole
  <2>4. CASE Heartbeat(st)
    <3>1. /\ Live(st)' /\ pc'[st] = "yielded" /\ waiter' = waiter
          /\ \A t \in Stream : t # st => pc'[t] = pc[t]
          /\ UNCHANGED <<entry, queue, obj, created>>
      BY <2>4 DEF Heartbeat, store, Live, Sole, Common, TypeOK
    <3>. QED BY <1>0, <2>1, <3>1, WaiterStepKeepsSole
  <2>. QED BY <1>8, <2>2, <2>3, <2>4 DEF Continue
<1>9. ASSUME NEW st \in Stream, Abort(st) PROVE Sole'
  BY <1>0, <1>9 DEF Abort, store, Sole, SidsDistinct, EntriesDistinct, State,
       StreamServesItsSession, UnreadQueuesEmpty, NoLostWakeup, Live
<1>10. CASE UNCHANGED vars
  BY <1>0, <1>10 DEF vars, store, streams, Sole, SidsDistinct, EntriesDistinct, State,
       StreamServesItsSession, UnreadQueuesEmpty, NoLostWakeup, Live
<1>. QED
  BY <1>1, <1>2, <1>3, <1>4, <1>5, <1>6, <1>7, <1>8, <1>9, <1>10 DEF Next

LEMMA SoleAlways == ASSUME ~MayShare PROVE Spec => []Sole
<1>1. Init => Sole
  BY SoleInit
<1>2. Sole /\ [Next]_vars => Sole'
  BY SoleStep
<1>. QED BY <1>1, <1>2, PTL DEF Spec

\* When no session is opened while a stream serves it, a stream that sleeps in
\* wait_for_message_or_timeout has an empty queue and its own resolveWait in it:
\* the next session_push wakes it.
THEOREM WakeupsAreNotLost == ASSUME ~MayShare PROVE Spec => []NoLostWakeup
BY SoleAlways, PTL DEF Sole

\* When no session is opened while a stream serves it, the state get_session
\* finds under an id is the one whose queue the stream of that id reads.
THEOREM SessionsStaySole == ASSUME ~MayShare PROVE Spec => []StreamServesItsSession
BY SoleAlways, PTL DEF Sole

-----------------------------------------------------------------------------
(* OpenSession implements EventStream.                                     *)

LEMMA PendingOf ==
  ASSUME NEW st \in Stream
  PROVE  Pending[st] = IF Live(st) THEN queue[obj[st]] ELSE <<>>
BY DEF Pending

\* An emission that starts and ends no stream publishes the event, or is a
\* stutter when it emits none.
LEMMA EmissionPublishes ==
  ASSUME Sole, Sole', NEW es \in Outputs, session_push(es),
         \A st \in Stream : Live(st)' <=> Live(st),
         UNCHANGED <<obj, subscribed, got>>
  PROVE  Published!Next \/ UNCHANGED Published!vars
<1>1. \A st \in Stream : Live(st) <=> st \in subscribed
  BY DEF Sole, Common, SubscribedWhileLive
<1>2. \A st \in Stream : Pending'[st] =
        IF st \in subscribed THEN Pending[st] \o es ELSE Pending[st]
  BY <1>1, SolePush DEF Pending
<1>3. Pending' = [st \in Stream |->
        IF st \in subscribed THEN Pending[st] \o es ELSE Pending[st]]
  BY <1>2 DEF Pending
<1>4. Published!Publish(es)
  BY <1>3 DEF Published!Publish, Published!Fanned
<1>5. CASE es = <<>>
  <2>1. \A st \in Stream : Live(st) => queue[obj[st]] \in Seq(Event)
    BY LiveHasState DEF Sole, Common, TypeOK
  <2>2. \A st \in Stream : st \in subscribed => Pending[st] \o <<>> = Pending[st]
    BY <1>1, <2>1, ConcatEmptySeq DEF Pending
  <2>3. Pending' = Pending
    BY <1>2, <1>5, <2>2 DEF Pending
  <2>. QED BY <2>3 DEF Published!vars
<1>6. CASE es # <<>>
  BY <1>4, <1>6 DEF Published!Next, Outputs
<1>. QED BY <1>5, <1>6

LEMMA OpenSubscribes ==
  ASSUME ~MayShare, Sole, Sole', NEW st \in Stream, NEW es \in Outputs, Open(st, es)
  PROVE  Published!Next
<1>1. /\ session_push(es) /\ get_or_create_session(SidOf[st]) /\ ~Live(st)
      /\ subscribed' = subscribed \union {st} /\ UNCHANGED got
      /\ \A t \in Stream : Live(t) => SidOf[t] # SidOf[st]
  BY DEF Open, MayOpen, Live
<1>2. /\ obj'[st] = entry'[SidOf[st]] /\ Live(st)'
      /\ \A t \in Stream : t # st => obj'[t] = obj[t] /\ (Live(t)' <=> Live(t))
  BY AwakeKeepsLive, PushKeepsTypes, <1>1 DEF Open, Sole, Common, TypeOK, Live
<1>3. \A t \in Stream : Live(t) <=> t \in subscribed
  BY DEF Sole, Common, SubscribedWhileLive
<1>4. queue'[obj'[st]] = <<>>
  <2>1. SidOf[st] \in Sid /\ entry'[SidOf[st]] # NoState
    BY <1>1, StoreGrows, StreamAssumption DEF Sole, Common, NoState
  <2>. QED BY <1>1, <1>2, <2>1, StoreAfterPush
<1>5. \A t \in Stream : Pending'[t] =
        IF t \in subscribed THEN Pending[t] \o es ELSE Pending[t]
  <2>1. Pending'[st] = <<>> /\ Pending[st] = <<>> /\ st \notin subscribed
    BY <1>1, <1>2, <1>3, <1>4 DEF Pending
  <2>2. ASSUME NEW t \in Stream, t # st, t \in subscribed
        PROVE  Pending'[t] = Pending[t] \o es
    <3>1. Live(t) /\ Live(t)' /\ obj'[t] = obj[t]
      BY <1>2, <1>3, <2>2
    <3>2. queue'[obj[t]] = queue[obj[t]] \o es
      BY <1>1, <3>1, SolePush
    <3>. QED BY <3>1, <3>2 DEF Pending
  <2>3. ASSUME NEW t \in Stream, t # st, t \notin subscribed
        PROVE  Pending'[t] = Pending[t]
    <3>1. ~Live(t) /\ ~Live(t)'
      BY <1>2, <1>3, <2>3
    <3>. QED BY <3>1 DEF Pending
  <2>. QED BY <2>1, <2>2, <2>3
<1>6. Pending' = [t \in Stream |->
        IF t \in subscribed THEN Pending[t] \o es ELSE Pending[t]]
  BY <1>5 DEF Pending
<1>7. Published!Subscribe(st, es)
  BY <1>1, <1>3, <1>6 DEF Published!Subscribe, Published!Fanned
<1>. QED BY <1>7 DEF Published!Next, Outputs

LEMMA CloseCloses ==
  ASSUME Sole, NEW st \in Stream, Live(st), Close(st)
  PROVE  Published!Next
<1>1. st \in subscribed
  BY DEF Sole, Common, SubscribedWhileLive
<1>2. Pending' = [Pending EXCEPT ![st] = <<>>]
  BY DEF Pending, Close, Live, Sole, Common, TypeOK
<1>3. Published!Close(st)
  BY <1>1, <1>2 DEF Published!Close, Close
<1>. QED BY <1>3 DEF Published!Next

LEMMA ShiftDelivers ==
  ASSUME Sole, NEW st \in Stream, Live(st), queue[obj[st]] # <<>>, Shift(st)
  PROVE  Published!Next
<1>1. st \in subscribed /\ obj[st] \in State
  BY LiveHasState DEF Sole, Common, SubscribedWhileLive
<1>2. Pending[st] = queue[obj[st]]
  BY DEF Pending
<1>3. \A t \in Stream : Live(t) /\ t # st => obj[t] # obj[st]
  BY SoleReader
<1>4. \A t \in Stream : Live(t)' <=> Live(t)
  BY DEF Shift, Live, Sole, Common, TypeOK
<1>5. /\ queue'[obj[st]] = Tail(queue[obj[st]]) /\ obj' = obj
      /\ \A o \in State : o # obj[st] => queue'[o] = queue[o]
  BY <1>1 DEF Shift, Sole, Common, TypeOK
<1>6. \A t \in Stream : Live(t) => obj[t] \in State
  BY LiveHasState DEF Sole
<1>7. \A t \in Stream : Pending'[t] = IF t = st THEN Tail(Pending[st]) ELSE Pending[t]
  BY <1>2, <1>3, <1>4, <1>5, <1>6 DEF Pending
<1>8. Pending' = [Pending EXCEPT ![st] = Tail(@)]
  BY <1>7 DEF Pending
<1>9. Published!Deliver(st)
  BY <1>1, <1>2, <1>8 DEF Published!Deliver, Shift
<1>. QED BY <1>9 DEF Published!Next

\* A step of one stream that hands nothing over.
LEMMA SilentStep ==
  ASSUME \A st \in Stream : Live(st)' <=> Live(st),
         UNCHANGED <<queue, obj, subscribed, got>>
  PROVE  UNCHANGED Published!vars
BY DEF Published!vars, Pending

LEMMA StepIsPublished ==
  ASSUME ~MayShare, Sole, Sole', [Next]_vars
  PROVE  [Published!Next]_(Published!vars)
<1>1. ASSUME NEW es \in Outputs, Emit(es)
      PROVE  Published!Next \/ UNCHANGED Published!vars
  <2>1. \A st \in Stream : Live(st)' <=> Live(st)
    BY <1>1, AwakeKeepsLive DEF Emit, Live, Sole
  <2>. QED BY <1>1, <2>1, EmissionPublishes DEF Emit
<1>2. ASSUME NEW s \in Sid, NEW es \in Outputs, PushDeltas(s, es)
      PROVE  Published!Next \/ UNCHANGED Published!vars
  <2>1. \A st \in Stream : Live(st)' <=> Live(st)
    BY <1>2, AwakeKeepsLive DEF PushDeltas, Live, Sole
  <2>. QED BY <1>2, <2>1, EmissionPublishes DEF PushDeltas
<1>3. ASSUME NEW st \in Stream, NEW es \in Outputs, OpenThrows(st, es)
      PROVE  Published!Next \/ UNCHANGED Published!vars
  <2>1. /\ pc'[st] = "closed" /\ pc[st] = "idle"
        /\ \A t \in Stream : t # st => pc'[t] = Awake(es)[t]
    BY <1>3, PushKeepsTypes DEF OpenThrows, MayOpen, Sole
  <2>2. \A t \in Stream : Live(t)' <=> Live(t)
    BY <2>1, AwakeKeepsLive DEF Live, Sole
  <2>. QED BY <1>3, <2>2, EmissionPublishes DEF OpenThrows
<1>4. ASSUME NEW st \in Stream, NEW es \in Outputs, Open(st, es)
      PROVE  Published!Next
  BY <1>4, OpenSubscribes
<1>5. ASSUME NEW st \in Stream, Resume(st)
      PROVE  Published!Next \/ UNCHANGED Published!vars
  <2>1. Live(st)
    BY <1>5 DEF Resume, AtYield, Live
  <2>2. CASE wait_for_message_or_timeout(st)
    <3>1. \A t \in Stream : Live(t)' <=> Live(t)
      BY <2>1, <2>2 DEF wait_for_message_or_timeout, Live, Sole, Common, TypeOK
    <3>. QED BY <2>2, <3>1, SilentStep DEF wait_for_message_or_timeout
  <2>. QED BY <1>5, <2>1, <2>2, CloseCloses, ShiftDelivers DEF Resume
<1>6. ASSUME NEW st \in Stream, Return(st)
      PROVE  Published!Next
  BY <1>6, CloseCloses DEF Return, AtYield, Live
<1>7. ASSUME NEW st \in Stream, Timeout(st)
      PROVE  UNCHANGED Published!vars
  <2>1. \A t \in Stream : Live(t)' <=> Live(t)
    BY <1>7 DEF Timeout, Live, Sole, Common, TypeOK
  <2>. QED BY <1>7, <2>1, SilentStep DEF Timeout
<1>8. ASSUME NEW st \in Stream, Continue(st)
      PROVE  Published!Next \/ UNCHANGED Published!vars
  <2>1. Live(st)
    BY <1>8 DEF Continue, Live
  <2>2. CASE Heartbeat(st)
    <3>1. \A t \in Stream : Live(t)' <=> Live(t)
      BY <2>1, <2>2 DEF Heartbeat, Live, Sole, Common, TypeOK
    <3>. QED BY <2>2, <3>1, SilentStep DEF Heartbeat, store
  <2>. QED BY <1>8, <2>1, <2>2, CloseCloses, ShiftDelivers DEF Continue
<1>9. ASSUME NEW st \in Stream, Abort(st)
      PROVE  UNCHANGED Published!vars
  BY <1>9, SilentStep DEF Abort, store, Live
<1>10. CASE UNCHANGED vars
  BY <1>10, SilentStep DEF vars, store, streams, Live
<1>. QED
  BY <1>1, <1>2, <1>3, <1>4, <1>5, <1>6, <1>7, <1>8, <1>9, <1>10 DEF Next

\* When no session is opened while a stream serves it, a client is handed every
\* card output emitted between its subscription and the end of its stream, in
\* order and once: every step of the server is a step of EventStream.
THEOREM StreamsDeliver == ASSUME ~MayShare PROVE Spec => DeliversWhatIsPublished
<1>1. Init => Published!Init
  BY DEF Init, Published!Init, Pending, Live
<1>2. Sole /\ Sole' /\ [Next]_vars => [Published!Next]_(Published!vars)
  BY StepIsPublished
<1>3. Spec => []Sole
  BY SoleAlways
<1>. QED BY <1>1, <1>2, <1>3, PTL DEF Spec, DeliversWhatIsPublished, Published!Spec
=============================================================================
