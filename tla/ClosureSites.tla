---------------------------- MODULE ClosureSites ----------------------------
(***************************************************************************)
(* Closures applied to operands (closure/unfold.ts), each call site        *)
(* with the network it has unfolded, and the store that closures are       *)
(* compared through (closure/hash.ts).                                     *)
(*                                                                         *)
(*   ce_apply_closure           the propagator of a call site              *)
(*   merge_closure_incremental  a cell whose content is an unfolding       *)
(*   HashStore                  weak references, deletions, finalizers     *)
(*                                                                         *)
(* A closure is an object that is constructed once; its text, as character *)
(* codes, is what it is hashed by.  A network runs when its                *)
(* scheduler turn comes and writes what its closure makes of its input.    *)
(***************************************************************************)
EXTENDS Naturals, Sequences, FiniteSets, Functions, SequencesExt

CONSTANTS Site,      \* call sites of the closure's name
          Closure,   \* closure objects
          TextOf,    \* what stableStringify makes of each of them
          Value,     \* operands
          MaxNets,   \* bound: networks unfolded
          Unusable,  \* a nothing or a contradiction
          None

\* A hash of 32 bits, as its upper and its lower half: 33 times what it was and
\* the next character.
simpleHash(text) ==
  LET step(h, code) == LET low == 33 * h[2] + code
                       IN  <<(33 * h[1] + low \div 65536) % 65536, low % 65536>>
  IN  FoldLeft(step, <<0, 5381>>, text)

HashOf == [k \in Closure |-> simpleHash(TextOf[k])]

Mixed == "mixed"     \* the cell of merge_closure_incremental

VARIABLES
  defined,   \* the closure in the cell of the name
  used,      \* closures constructed so far
  operand,   \* the strongest value of each site's operand
  due,       \* sites whose propagator is alerted
  nets,      \* the networks unfolded: closure, site, input, whether they are alerted and live
  unfolded,  \* current_unfolded: the network of each site, 0 for none
  out,       \* what each site's output was last told: closure and input
  content,   \* the cell of merge_closure_incremental
  ref,       \* hashToRef
  hash,      \* objectToHash
  finalizers,\* registrations with the FinalizationRegistry
  cleanups   \* hashes whose finalizer is to run

sites == <<defined, used, operand>>
work  == <<due, nets, unfolded, out>>
store == <<ref, hash, finalizers, cleanups>>
vars  == <<sites, work, content, store>>

Hash  == Range(HashOf)
Live(n) == nets[n].live
NetsOf(s) == {n \in DOMAIN nets : nets[n].site = s /\ Live(n)}

NoContent == [kind |-> "nothing", nets |-> {}, clock |-> 0]

Init ==
  /\ defined = Unusable /\ used = {}
  /\ operand = [s \in Site |-> Unusable]
  /\ due = {} /\ nets = <<>>
  /\ unfolded = [s \in Site |-> 0]
  /\ out      = [s \in Site |-> None]
  /\ content  = NoContent
  /\ ref = [h \in Hash |-> None] /\ hash = [k \in Closure |-> None]
  /\ finalizers = {} /\ cleanups = {}

-----------------------------------------------------------------------------
(* The store.  A store is <<ref, hash, finalizers>>.                       *)

Store == <<ref, hash, finalizers>>
StoreIs(st) == ref' = st[1] /\ hash' = st[2] /\ finalizers' = st[3]

set(st, h, k) ==
  <<[st[1] EXCEPT ![h] = k], [st[2] EXCEPT ![k] = h], st[3] \union {<<k, h>>}>>

\* Of an object that is not stored yet the hash is computed; it takes the entry
\* of that hash from whatever object holds it.
get_hash(st, k) == IF st[2][k] # None THEN st[2][k] ELSE HashOf[k]
hashed(st, k)   == IF st[2][k] # None THEN st ELSE set(st, HashOf[k], k)

\* The entry under the object's hash goes, whichever object it names.  The
\* registration was made without a token, so that unregister removes nothing.
delete(st, k) ==
  IF st[2][k] = None THEN st
  ELSE <<[st[1] EXCEPT ![st[2][k]] = None], [st[2] EXCEPT ![k] = None], st[3]>>

source_template_inconsistent(st, old, new) ==
  get_hash(st, old) # get_hash(hashed(st, old), new)

Compared(st, old, new) == hashed(hashed(st, old), new)

Reachable == {defined} \union {nets[n].closure : n \in {m \in DOMAIN nets : Live(m)}}

\* A closure nothing refers to is collected: its weak reference is empty, its
\* hash is forgotten, and a finalizer is due for each of its registrations.
Collect(k) ==
  /\ k \in used \ Reachable
  /\ hash[k] # None \/ \E h \in Hash : ref[h] = k \/ <<k, h>> \in finalizers
  /\ ref'  = [h \in Hash |-> IF ref[h] = k THEN None ELSE ref[h]]
  /\ hash' = [hash EXCEPT ![k] = None]
  /\ finalizers' = {f \in finalizers : f[1] # k}
  /\ cleanups'   = cleanups \union {f[2] : f \in finalizers \ finalizers'}
  /\ UNCHANGED <<sites, work, content>>

Finalize(h) ==
  /\ h \in cleanups
  /\ cleanups' = cleanups \ {h}
  /\ ref' = [ref EXCEPT ![h] = None]
  /\ UNCHANGED <<sites, work, content, hash, finalizers>>

-----------------------------------------------------------------------------
(* Networks.                                                               *)

\* unfold_template: a network on cells of its own, which are told the operands
\* at once.
Unfolded(ns, k, s, v) ==
  Append(ns, [closure |-> k, site |-> s, input |-> v, due |-> TRUE, live |-> TRUE])

\* Faulty variant: what the scheduler had queued still runs.
dispose_without_cleanup(ns, n) == [ns EXCEPT ![n].live = FALSE]

\* eff_dispose_unfolded_closure: the network's cells go, and the scheduler
\* drops what was queued for them.
eff_dispose_unfolded_closure(ns, n) == [ns EXCEPT ![n].live = FALSE, ![n].due = FALSE]

\* eff_dispatch_inputs: a network runs again when its input changes.
eff_dispatch_inputs(ns, n, v) ==
  [ns EXCEPT ![n].input = v, ![n].due = @ \/ ns[n].input # v]

\* The body of an unfolded network and its connector to the external output.
RunNetwork(n) ==
  /\ nets[n].due
  /\ nets' = [nets EXCEPT ![n].due = FALSE]
  /\ out'  = IF nets[n].site \in Site
             THEN [out EXCEPT ![nets[n].site] = <<nets[n].closure, nets[n].input>>]
             ELSE out
  /\ UNCHANGED <<sites, due, unfolded, content, store>>

-----------------------------------------------------------------------------
(* The call sites.                                                         *)

Define(k) ==
  /\ k \notin used
  /\ used' = used \union {k} /\ defined' = k /\ due' = Site
  /\ UNCHANGED <<operand, nets, unfolded, out, content, store>>

\* Two definitions that are equally new contradict each other.
Contradict ==
  /\ defined # Unusable
  /\ defined' = Unusable /\ due' = Site
  /\ UNCHANGED <<used, operand, nets, unfolded, out, content, store>>

SetOperand(s, v) ==
  /\ operand[s] # v
  /\ operand' = [operand EXCEPT ![s] = v]
  /\ due' = due \union {s}
  /\ UNCHANGED <<defined, used, nets, unfolded, out, content, store>>

Runs(s) == s \in due /\ due' = due \ {s}

Waits(s) ==
  /\ Runs(s)
  /\ Unusable \in {defined, operand[s]}
  /\ UNCHANGED <<sites, nets, unfolded, out, content, store>>

FirstUnfolds(s) ==
  /\ Runs(s)
  /\ Unusable \notin {defined, operand[s]} /\ unfolded[s] = 0
  /\ Len(nets) < MaxNets
  /\ nets' = Unfolded(nets, defined, s, operand[s])
  /\ unfolded' = [unfolded EXCEPT ![s] = Len(nets')]
  /\ UNCHANGED <<sites, out, content, store>>

\* Both the disposal and the network's own dispose delete the old closure from
\* the store.
Refolds(s) ==
  LET n   == unfolded[s]
      old == nets[n].closure
  IN  /\ Runs(s)
      /\ Unusable \notin {defined, operand[s]} /\ n # 0
      /\ source_template_inconsistent(Store, old, defined)
      /\ Len(nets) < MaxNets
      /\ StoreIs(delete(Compared(Store, old, defined), old))
      /\ nets' = Unfolded(eff_dispose_unfolded_closure(nets, n), defined, s, operand[s])
      /\ unfolded' = [unfolded EXCEPT ![s] = Len(nets')]
      /\ UNCHANGED <<sites, out, content, cleanups>>

Dispatches(s) ==
  LET n   == unfolded[s]
      old == nets[n].closure
  IN  /\ Runs(s)
      /\ Unusable \notin {defined, operand[s]} /\ n # 0
      /\ ~source_template_inconsistent(Store, old, defined)
      /\ StoreIs(Compared(Store, old, defined))
      /\ nets' = eff_dispatch_inputs(nets, n, operand[s])
      /\ UNCHANGED <<sites, unfolded, out, content, cleanups>>

ce_apply_closure(s) == Waits(s) \/ FirstUnfolds(s) \/ Refolds(s) \/ Dispatches(s)

-----------------------------------------------------------------------------
(* A cell that merges templates into its content.  Layered templates carry *)
(* the clock of their source, plain ones none.                             *)

Holds(kind, ns, c) == [kind |-> kind, nets |-> ns, clock |-> c]
Same(k) == \E n \in content.nets : ~source_template_inconsistent(Store, nets[n].closure, k)
Only    == CHOOSE n \in content.nets : TRUE
Contradicted == Holds("contradiction", {}, content.clock)

Adds(k, keep, kind, c) ==
  /\ Len(nets) < MaxNets
  /\ nets'    = Unfolded(nets, k, Mixed, None)
  /\ content' = Holds(kind, keep \union {Len(nets')}, c)

HoldsPlain == content.kind = "unfolded" /\ content.clock = 0

\* Plain templates: a second closure joins the first, and nothing is disposed.
\* One that meets layered content throws before anything is done.
merge_closure_incremental(k) ==
  /\ k \in used /\ k \in Reachable
  /\ \/ /\ content.kind = "nothing"
        /\ Adds(k, {}, "unfolded", 0) /\ StoreIs(Store)
     \/ /\ content.kind = "set"
        /\ Adds(k, content.nets, "set", 0) /\ StoreIs(Store)
     \/ /\ HoldsPlain /\ ~Same(k)
        /\ Adds(k, content.nets, "set", 0)
        /\ StoreIs(Compared(Store, nets[Only].closure, k))
     \/ /\ HoldsPlain /\ Same(k)
        /\ nets' = eff_dispatch_inputs(nets, Only, None) /\ content' = content
        /\ StoreIs(Compared(Store, nets[Only].closure, k))
  /\ UNCHANGED <<sites, due, unfolded, out, cleanups>>

\* Faulty variant: the network that is replaced is forgotten, not disposed.
ReplacesLive(k, c) ==
  /\ content.kind = "unfolded" /\ c > content.clock /\ ~Same(k)
  /\ Len(nets) < MaxNets
  /\ StoreIs(Compared(Store, nets[Only].closure, k))
  /\ nets'    = Unfolded(nets, k, Mixed, None)
  /\ content' = Holds("unfolded", {Len(nets')}, c)

\* Layered templates: a newer one takes the place of the network, one that is
\* not newer contradicts it.
Replaces(k, c) ==
  /\ content.kind = "unfolded" /\ c > content.clock /\ ~Same(k)
  /\ Len(nets) < MaxNets
  /\ LET old == nets[Only].closure
     IN  StoreIs(delete(Compared(Store, old, k), old))
  /\ nets'    = Unfolded(eff_dispose_unfolded_closure(nets, Only), k, Mixed, None)
  /\ content' = Holds("unfolded", {Len(nets')}, c)

merge_reactive(k, c) ==
  /\ k \in used /\ k \in Reachable
  /\ \/ /\ content.kind = "nothing"
        /\ Adds(k, {}, "unfolded", c) /\ StoreIs(Store)
     \/ Replaces(k, c)
     \/ /\ content.kind = "unfolded" /\ c > content.clock /\ Same(k)
        /\ nets' = eff_dispatch_inputs(nets, Only, None)
        /\ content' = Holds("unfolded", content.nets, c)
        /\ StoreIs(Compared(Store, nets[Only].closure, k))
     \/ /\ content.kind = "set" \/ (content.kind = "unfolded" /\ c <= content.clock)
        /\ content' = Contradicted
        /\ StoreIs(Store) /\ nets' = nets
  /\ UNCHANGED <<sites, due, unfolded, out, cleanups>>

\* The propagator that writes such a template waits for its cells; the clock
\* of what it writes is the one of what it read.
p_apply_closure_template(s, c) ==
  Unusable \notin {defined, operand[s]} /\ merge_reactive(defined, c)

-----------------------------------------------------------------------------
Next ==
  \/ \E k \in Closure : Define(k) \/ Collect(k) \/ merge_closure_incremental(k)
  \/ \E s \in Site, c \in 1..2 : p_apply_closure_template(s, c)
  \/ Contradict
  \/ \E s \in Site : ce_apply_closure(s) \/ \E v \in Value \union {Unusable} : SetOperand(s, v)
  \/ \E n \in DOMAIN nets : RunNetwork(n)
  \/ \E h \in Hash : Finalize(h)

-----------------------------------------------------------------------------
\* The scheduler has nothing left to run for a site that has what it needs.
AtRest(s) ==
  /\ s \notin due /\ Unusable \notin {defined, operand[s]}
  /\ \A n \in DOMAIN nets : nets[n].site = s => ~nets[n].due

Shows(s) ==
  out[s] # None /\ TextOf[out[s][1]] = TextOf[defined] /\ out[s][2] = operand[s]

\* No other text among those constructed has the hash of the definition's.
HashIsUnique == \A k \in used : HashOf[k] = HashOf[defined] => TextOf[k] = TextOf[defined]

\* "Changes to definitions (like closures) propagate through the network and
\* trigger automatic re-compilation and hot-swapping of the affected parts"
\* (incremental_compiler.ts): a site at rest shows what the current definition
\* makes of the current operand, however often either changed and whatever was
\* collected in between (ce_apply_closure, get_hash).
SitesShowTheDefinition == \A s \in Site : AtRest(s) => Shows(s)

\* What holds of it: so does every site, as long as no closure of another text
\* has the hash of the current definition (ce_apply_closure,
\* eff_dispose_unfolded_closure, get_hash).
SitesApplyTheDefinition == \A s \in Site : AtRest(s) /\ HashIsUnique => Shows(s)

\* No network is left running that its site or its cell has let go of, unless
\* the cell has become contradictory (eff_dispose_unfolded_closure,
\* merge_closure_incremental).
NoStrayNetworks ==
  /\ \A s \in Site : NetsOf(s) = {unfolded[s]} \ {0}
  /\ content.kind # "contradiction" => NetsOf(Mixed) = content.nets
=============================================================================
