--------------------------- MODULE MCTracerStreams ---------------------------
(***************************************************************************)
(* Instances for TLC of the two machines whose properties need fairness:   *)
(* the tracers, and two OpenSession calls that share a session.  A         *)
(* behaviour is one of part, the other stays where it begins.              *)
(***************************************************************************)
EXTENDS Tracer, TLC

CONSTANTS r, m, g, p, q, s

\* p feeds the root; q brings the picture that the tracer writes back to the root
\* and reads the root itself; s closes a cycle with p, under a name like a tracer's.
TheCells == {r, m, g}
TheProps == {p, q, s}
TheIns   == [k \in TheProps |-> CASE k = p -> <<m>> [] k = q -> <<g, r>> [] k = s -> <<r>>]
TheOut   == [k \in TheProps |-> CASE k = s -> m [] OTHER -> r]
JustP    == {p}
JustS    == {s}
AllKinds == {"reactive", "periodic", "trace", "once", "timed"}
Clocks   == [k \in AllKinds |-> IF k = "trace" THEN 2 ELSE 5]

-----------------------------------------------------------------------------
CONSTANTS Stream, NoStream, Sid, SidOf, Event, MayShare, MaxEvents, MaxStates
VARIABLES entry, queue, waiter, obj, pc, has, aborted, subscribed, got, created, emitted
Streams == INSTANCE SessionStream

CONSTANTS a1, a2, A, e1, e2

TwoStreams == {a1, a2}
OneSid     == {A}
TabOf      == a1 :> A @@ a2 :> A
Events     == {e1, e2}

-----------------------------------------------------------------------------
VARIABLE part

streamVars == <<entry, queue, waiter, obj, pc, has, aborted, subscribed, got, created, emitted>>

\* The tracer is of one kind when it is not the part.
BothInit ==
  /\ part \in {"tracer", "streams"}
  /\ Init /\ (part = "streams" => kind = "once")
  /\ Streams!Init

BothNext ==
  \/ part = "tracer" /\ Next /\ UNCHANGED <<part, streamVars>>
  \/ part = "streams" /\ Streams!Next /\ UNCHANGED <<part, vars>>

BothSpec ==
  /\ BothInit /\ [][BothNext]_<<part, vars, streamVars>>
  /\ WF_vars(part = "tracer" /\ EventLoop)
  /\ Streams!Fairness

\* No push resolves a wait that is over (SessionStream).
WaiterSleeps == Streams!WaiterSleeps
\* An aborted stream ends (SessionStream).
AbortEndsStream == Streams!AbortEndsStream
\* The queue of a shared session is read to its end (SessionStream).
QueueDrains == Streams!QueueDrains
=============================================================================
