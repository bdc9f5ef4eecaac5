---------------------------- MODULE NetworkStream ----------------------------
(***************************************************************************)
(* The stream of network updates, which are heartbeats so far              *)
(* (grpc/handlers/network_stream_handler.ts), served in two ways:          *)
(*   "pull"  an async generator over the push-to-iterable bridge           *)
(*           (grpc/util/push_to_async_iterable.ts), closed by a signal;    *)
(*   "push"  a call that updates are written to until it ends.             *)
(***************************************************************************)
EXTENDS Naturals, Sequences

CONSTANTS MaxBeats  \* bound: ticks of the interval

VARIABLES
  mode,
  interval,   \* setInterval is running
  beats,      \* its ticks so far, which number the updates
  queue, closed,
  waiter,     \* resolve_current_wait: "none", "set", or "called" when its turn has yet to come
  generator,  \* "fresh", "pulls", "waits", "yielded", "done"
  returning,  \* return() was called while next() had not settled
  aborted, listened,   \* the signal, and whether it was listened to when it fired
  taken,      \* updates the consumer got, or the call was written
  ended       \* the call was cancelled, failed or finished

vars == <<mode, interval, beats, queue, closed, waiter, generator, returning,
          aborted, listened, taken, ended>>
bridge == <<queue, closed, waiter>>
signal == <<aborted, listened>>

\* Of a call, the handler runs at once; of the generator nothing before next().
Init ==
  /\ mode \in {"pull", "push"}
  /\ interval = (mode = "push")
  /\ beats = 0 /\ queue = <<>> /\ closed = FALSE /\ waiter = "none"
  /\ generator = "fresh" /\ returning = FALSE
  /\ aborted = FALSE /\ listened = FALSE
  /\ taken = <<>> /\ ended = FALSE

notify_waiter == waiter' = IF waiter = "set" THEN "called" ELSE waiter

\* Faulty variant: nobody is told.
push_unnoticed(x) ==
  queue' = (IF closed THEN queue ELSE Append(queue, x)) /\ UNCHANGED <<closed, waiter>>

push(x) ==
  /\ IF closed THEN UNCHANGED <<queue, waiter>>
     ELSE queue' = Append(queue, x) /\ notify_waiter
  /\ UNCHANGED closed

close == closed' = TRUE /\ notify_waiter /\ UNCHANGED queue

\* heartbeat_update_data goes to push, or straight into the call.
Beat ==
  /\ interval /\ beats < MaxBeats
  /\ beats' = beats + 1
  /\ IF mode = "pull" THEN push(beats') /\ UNCHANGED taken
     ELSE taken' = Append(taken, beats') /\ UNCHANGED bridge
  /\ UNCHANGED <<mode, interval, generator, returning, signal, ended>>

\* The consumer asks for the next update; the first time, the generator listens
\* to the signal and subscribes.  An abort that came before is not heard.
next ==
  /\ mode = "pull" /\ generator \in {"fresh", "yielded"}
  /\ generator' = "pulls"
  /\ IF generator = "fresh" THEN interval' = TRUE /\ listened' = TRUE
     ELSE UNCHANGED <<interval, listened>>
  /\ UNCHANGED <<mode, beats, bridge, returning, aborted, taken, ended>>

\* finally: unsub, however the generator ends.
Finish == generator' = "done" /\ interval' = FALSE /\ returning' = FALSE

\* The loop of the iterator, from one await to the next.
Pull ==
  /\ generator = "pulls"
  /\ IF queue # <<>>
     THEN /\ queue' = Tail(queue) /\ taken' = Append(taken, Head(queue))
          /\ IF returning THEN Finish
             ELSE generator' = "yielded" /\ UNCHANGED <<interval, returning>>
          /\ UNCHANGED waiter
     ELSE /\ UNCHANGED <<queue, taken>>
          /\ IF closed THEN Finish /\ UNCHANGED waiter
             ELSE generator' = "waits" /\ waiter' = "set" /\ UNCHANGED <<interval, returning>>
  /\ UNCHANGED <<mode, beats, closed, signal, ended>>

\* The promise that was waited for is resolved.
Wake ==
  /\ generator = "waits" /\ waiter = "called"
  /\ generator' = "pulls" /\ waiter' = "none"
  /\ UNCHANGED <<mode, interval, beats, queue, closed, returning, signal, taken, ended>>

\* The consumer stops.  While next() has not settled, its return() waits.
Return ==
  /\ mode = "pull" /\ generator # "done" /\ ~returning
  /\ CASE generator = "fresh"   -> generator' = "done" /\ UNCHANGED <<interval, returning>>
       [] generator = "yielded" -> Finish
       [] OTHER                 -> returning' = TRUE /\ UNCHANGED <<generator, interval>>
  /\ UNCHANGED <<mode, beats, bridge, signal, taken, ended>>

Abort ==
  /\ mode = "pull" /\ ~aborted
  /\ aborted' = TRUE
  /\ IF listened THEN close ELSE UNCHANGED bridge
  /\ UNCHANGED <<mode, interval, beats, generator, returning, listened, taken, ended>>

\* cancelled, error or finish.
EndOfCall ==
  /\ mode = "push" /\ ~ended
  /\ ended' = TRUE /\ interval' = FALSE
  /\ UNCHANGED <<mode, beats, bridge, generator, returning, signal, taken>>

Next == Beat \/ next \/ Pull \/ Wake \/ Return \/ Abort \/ EndOfCall

-----------------------------------------------------------------------------
\* Updates are taken in the order of the beats, each once, with none left out;
\* a consumer that waits has nothing to take and no end to be told of, or is
\* about to be woken; and the interval stops with the stream, which an abort
\* that was listened to, or a consumer that returns, always brings about at the
\* next step of the generator (push, close, wait_until_item_or_closed,
\* cell_updates_iterable).
NothingLostNothingLeft ==
  /\ taken = [i \in 1..Len(taken) |-> i]
  /\ taken \o queue = [i \in 1..Len(taken \o queue) |-> i]
  /\ ~closed => Len(taken \o queue) = beats
  /\ generator = "waits" => waiter = "called" \/ (waiter = "set" /\ queue = <<>> /\ ~closed)
  /\ generator = "done" \/ ended => ~interval
  /\ returning => generator \in {"pulls", "waits"}
=============================================================================
