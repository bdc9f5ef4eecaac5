----------------------------- MODULE LatestWins -----------------------------
(***************************************************************************)
(* Reactive values (grpc/better_runtime/strongest_value.ts, layers.ts):    *)
(* a cell keeps the set of what it was told, in the order in which it was  *)
(* told, and shows the value with the latest wall time.                    *)
(*                                                                         *)
(* Two cells pass what they show on to each other, as a card's ::this and  *)
(* the slot a connector ties it to do, while sources write to either.      *)
(* Several writes may fall on one tick of the clock.                       *)
(***************************************************************************)
EXTENDS Naturals, Sequences, FiniteSets, SequencesExt, Functions, Helpers

CONSTANTS Cell, Source,
          Writes,        \* the cell each source writes to: a card's own
          Contradiction, \* the number of no write
          MaxWrites      \* bound: writes, which are numbered, and ticks

VARIABLES
  content,   \* what each cell was told: base value, wall time, vector clock
  pending,   \* cells whose new value has not been passed on
  now,       \* performance.now()
  writtenAt  \* the time of each write

vars == <<content, pending, now, writtenAt>>

Datum(base, at, clock) == [base |-> base, at |-> at, clock |-> clock]
IsContradiction(d) == d.base = Contradiction

\* Channels are numbers; an absent one is not in the domain.
merge_vector_clocks(c, d) ==
  [s \in DOMAIN c \union DOMAIN d |->
     IF s \notin DOMAIN d \/ (s \in DOMAIN c /\ c[s] >= d[s]) THEN c[s] ELSE d[s]]

merge_vector_clock_from(a, b) == [a EXCEPT !.clock = merge_vector_clocks(a.clock, b.clock)]

\* Faulty variant: a contradiction has no time of its own, and nothing
\* supersedes it.
stronger_until_contradicted(acc, value) ==
  IF IsContradiction(acc) THEN acc
  ELSE IF value.at > acc.at THEN merge_vector_clock_from(value, acc)
  ELSE IF value.at < acc.at THEN merge_vector_clock_from(acc, value)
  ELSE Datum(Contradiction, acc.at, merge_vector_clocks(acc.clock, value.clock))

\* What a contradiction is not superseded by leaves no trace in its clock.
stronger(acc, value) ==
  IF IsContradiction(acc)
  THEN IF value.at > acc.at THEN merge_vector_clock_from(value, acc) ELSE acc
  ELSE IF value.at > acc.at THEN merge_vector_clock_from(value, acc)
  ELSE IF value.at < acc.at THEN merge_vector_clock_from(acc, value)
  ELSE Datum(Contradiction, acc.at, merge_vector_clocks(acc.clock, value.clock))

strongest_value(told) ==
  LET upTo[i \in 1..Len(told)] == IF i = 1 THEN told[1] ELSE stronger(upTo[i - 1], told[i])
  IN  upTo[Len(told)]

Shows(c) == strongest_value(content[c])

\* The set is merged by vector clocks: of two values one of which knows of
\* everything the other does, and more, the other is dropped.
Before(c, d) ==
  /\ DOMAIN c \subseteq DOMAIN d /\ c # d
  /\ \A s \in DOMAIN c : c[s] <= d[s]

merged(told, d) ==
  IF \E e \in ToSet(told) : e = d \/ Before(d.clock, e.clock) THEN told
  ELSE Append(Without(told, {e \in ToSet(told) : Before(e.clock, d.clock)}), d)

\* A cell that shows something else than before alerts those who read it.
update_cell(c, d, handled) ==
  LET told == merged(content[c], d)
      same == content[c] # <<>> /\ strongest_value(told) = Shows(c)
  IN  /\ content' = [content EXCEPT ![c] = told]
      /\ pending' = (pending \ handled) \union (IF same THEN {} ELSE {c})

Init ==
  /\ content = [c \in Cell |-> <<>>] /\ pending = {}
  /\ now = 1 /\ writtenAt = <<>>

\* The source's channel goes on from what the cell shows, or begins.
update_specialized_reactive_value(c, s) ==
  /\ Writes[s] = c /\ Len(writtenAt) < MaxWrites
  /\ writtenAt' = Append(writtenAt, now)
  /\ LET known == content[c] # <<>> /\ s \in DOMAIN Shows(c).clock
         clock == IF known THEN [Shows(c).clock EXCEPT ![s] = @ + 1] ELSE [x \in {s} |-> 0]
     IN  update_cell(c, Datum(Len(writtenAt'), now, clock), {})
  /\ UNCHANGED now

\* The propagators between the two cells.
PassOn(c, d) ==
  /\ c \in pending /\ c # d
  /\ update_cell(d, Shows(c), {c})
  /\ UNCHANGED <<now, writtenAt>>

Tick ==
  /\ now < MaxWrites
  /\ now' = now + 1
  /\ UNCHANGED <<content, pending, writtenAt>>

Next ==
  \/ \E c \in Cell, s \in Source : update_specialized_reactive_value(c, s)
  \/ \E c, d \in Cell : PassOn(c, d)
  \/ Tick

-----------------------------------------------------------------------------
WritesAt(t) == {w \in DOMAIN writtenAt : writtenAt[w] = t}
LastTime == writtenAt[Len(writtenAt)]
AtMost(n) == \A t \in 1..now : Cardinality(WritesAt(t)) <= n

\* The newest of each channel a cell was told of.
Known(c) ==
  LET clocks == {d.clock : d \in ToSet(content[c])}
  IN  [s \in UNION {DOMAIN k : k \in clocks} |-> Max({k[s] : k \in {l \in clocks : s \in DOMAIN l}})]

\* When everything is passed on, all cells show the last write, with all that
\* was ever heard of each source in its clock, in whatever order they heard of
\* the writes; if the last instant saw two writes they show, at that instant,
\* either a contradiction or the one of these that they were all told of, and a
\* later write ends the contradiction (strongest_value,
\* update_specialized_reactive_value).  Of three writes on one tick a channel may
\* be forgotten, and with it a write that begins the channel anew.
CellsShowTheLatest ==
  pending = {} /\ writtenAt # <<>> /\ AtMost(2) => \A c \in Cell :
    /\ Shows(c).at = LastTime
    /\ Shows(c).base \in WritesAt(LastTime) \union
         (IF Cardinality(WritesAt(LastTime)) > 1 THEN {Contradiction} ELSE {})
    /\ \A d \in Cell : Shows(c).base = Shows(d).base
    /\ AtMost(1) => Shows(c).clock = Known(c)
=============================================================================
