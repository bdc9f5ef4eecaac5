--------------------------- MODULE Helpers_proofs ---------------------------
(***************************************************************************)
(* Facts about numbers and sequences that several proofs need.             *)
(***************************************************************************)
EXTENDS Helpers, SequencesExt, SequenceTheorems, WellFoundedInduction, TLAPS

-----------------------------------------------------------------------------
(* Numbers and sequences.                                                  *)

\* Some natural numbers have a least.
LEMMA LeastNumber ==
  ASSUME NEW N \in SUBSET Nat, N # {}
  PROVE  \E n \in N : \A m \in N : n <= m
<1>1. PICK n \in N : \A m \in N : <<m, n>> \notin OpToRel(<, Nat)
  BY NatLessThanWellFounded, WFMin, Zenon
<1>2. \A m \in N : ~(m < n)
  BY <1>1 DEF OpToRel
<1>. QED BY <1>2

\* Among some states there is one with the least of a measure.
LEMMA LeastOf ==
  ASSUME NEW T, T # {}, NEW m, \A s \in T : m[s] \in Nat
  PROVE  \E s \in T : \A t \in T : m[s] <= m[t]
<1>. DEFINE values == {m[s] : s \in T}
<1>1. values \subseteq Nat /\ values # {}
  OBVIOUS
<1>2. PICK v \in values : \A w \in values : v <= w
  <2>. HIDE DEF values
  <2>. QED BY <1>1, LeastNumber
<1>3. PICK s \in T : m[s] = v
  BY <1>2
<1>4. \A t \in T : m[s] <= m[t]
  BY <1>2, <1>3
<1>. QED BY <1>4

\* A sequence is its head and its tail.
LEMMA HeadAndTail ==
  ASSUME NEW S, NEW q \in Seq(S), q # <<>>
  PROVE  /\ Head(q) \in S /\ Tail(q) \in Seq(S) /\ Len(Tail(q)) = Len(q) - 1 /\ Len(q) \in Nat
         /\ ToSet(q) = {Head(q)} \cup ToSet(Tail(q))
<1>1. /\ Head(q) \in S /\ Tail(q) \in Seq(S) /\ Len(Tail(q)) = Len(q) - 1 /\ Len(q) \in Nat /\ Len(q) # 0
      /\ Head(q) = q[1] /\ \A i \in 1..Len(Tail(q)) : Tail(q)[i] = q[i + 1]
      /\ DOMAIN q = 1..Len(q) /\ DOMAIN Tail(q) = 1..Len(Tail(q))
  BY HeadTailProperties
<1>2. ToSet(q) \subseteq {Head(q)} \cup ToSet(Tail(q))
  <2>. SUFFICES ASSUME NEW i \in 1..Len(q), i # 1 PROVE q[i] \in ToSet(Tail(q))
    BY <1>1 DEF ToSet
  <2>1. i - 1 \in 1..Len(Tail(q)) /\ Tail(q)[i - 1] = q[(i - 1) + 1] /\ (i - 1) + 1 = i
    BY <1>1
  <2>. QED BY <1>1, <2>1 DEF ToSet
<1>3. {Head(q)} \cup ToSet(Tail(q)) \subseteq ToSet(q)
  <2>1. \A i \in 1..Len(Tail(q)) : i + 1 \in 1..Len(q)
    BY <1>1
  <2>. QED BY <1>1, <2>1 DEF ToSet
<1>. QED BY <1>1, <1>2, <1>3

LEMMA JoinedIs ==
  ASSUME NEW S, NEW q \in Seq(S), NEW r \in Seq(S)
  PROVE  q \o r \in Seq(S) /\ ToSet(q \o r) = ToSet(q) \cup ToSet(r)
<1>1. /\ q \o r \in Seq(S) /\ Len(q \o r) = Len(q) + Len(r) /\ Len(q) \in Nat /\ Len(r) \in Nat
      /\ \A i \in 1..Len(q) + Len(r) : (q \o r)[i] = IF i <= Len(q) THEN q[i] ELSE r[i - Len(q)]
      /\ DOMAIN q = 1..Len(q) /\ DOMAIN r = 1..Len(r) /\ DOMAIN (q \o r) = 1..Len(q \o r)
  BY ConcatProperties
<1>2. ToSet(q \o r) \subseteq ToSet(q) \cup ToSet(r)
  <2>. SUFFICES ASSUME NEW i \in 1..Len(q) + Len(r) PROVE (q \o r)[i] \in ToSet(q) \cup ToSet(r)
    BY <1>1 DEF ToSet
  <2>1. CASE i <= Len(q)
    BY <1>1, <2>1 DEF ToSet
  <2>2. CASE ~(i <= Len(q))
    <3>1. i - Len(q) \in 1..Len(r)
      BY <1>1, <2>2
    <3>. QED BY <1>1, <2>2, <3>1 DEF ToSet
  <2>. QED BY <2>1, <2>2
<1>3. ToSet(q) \subseteq ToSet(q \o r)
  <2>. SUFFICES ASSUME NEW i \in 1..Len(q) PROVE q[i] \in ToSet(q \o r)
    BY <1>1 DEF ToSet
  <2>1. i \in 1..Len(q) + Len(r) /\ (q \o r)[i] = q[i]
    BY <1>1
  <2>. QED BY <1>1, <2>1 DEF ToSet
<1>4. ToSet(r) \subseteq ToSet(q \o r)
  <2>. SUFFICES ASSUME NEW i \in 1..Len(r) PROVE r[i] \in ToSet(q \o r)
    BY <1>1 DEF ToSet
  <2>1. i + Len(q) \in 1..Len(q) + Len(r) /\ ~(i + Len(q) <= Len(q)) /\ (i + Len(q)) - Len(q) = i
    BY <1>1
  <2>2. (q \o r)[i + Len(q)] = r[i]
    BY <1>1, <2>1
  <2>. QED BY <1>1, <2>1, <2>2 DEF ToSet
<1>. QED BY <1>1, <1>2, <1>3, <1>4

-----------------------------------------------------------------------------
(* Leaving out of a sequence what is in a set.                             *)

Kept(kept, seq, set, n) ==
  kept = [i \in 0..n |-> IF i = 0 THEN <<>>
                         ELSE IF seq[i] \in set THEN kept[i - 1] ELSE Append(kept[i - 1], seq[i])]

LEMMA KeptExists ==
  ASSUME NEW seq, NEW set, NEW n \in Nat
  PROVE  \E kept : Kept(kept, seq, set, n)
<1>. DEFINE bad == {m \in Nat : ~\E kept : Kept(kept, seq, set, m)}
<1>. SUFFICES ASSUME bad # {} PROVE FALSE
  OBVIOUS
<1>1. PICK m \in bad : \A l \in bad : m <= l
  <2>. HIDE DEF bad
  <2>1. bad \subseteq Nat
    BY DEF bad
  <2>. QED BY <2>1, LeastNumber
<1>2. m # 0
  <2>. DEFINE k == [i \in 0..0 |-> <<>>]
  <2>1. k = [i \in 0..0 |-> IF i = 0 THEN <<>>
                            ELSE IF seq[i] \in set THEN k[i - 1] ELSE Append(k[i - 1], seq[i])]
    OBVIOUS
  <2>2. Kept(k, seq, set, 0)
    BY <2>1 DEF Kept
  <2>. QED BY <2>2
<1>3. m - 1 \in Nat /\ m - 1 \notin bad
  <2>1. m \in Nat
    OBVIOUS
  <2>. HIDE DEF bad
  <2>. QED BY <1>1, <1>2, <2>1
<1>4. PICK kept : Kept(kept, seq, set, m - 1)
  BY <1>3
<1>. DEFINE last == IF seq[m] \in set THEN kept[m - 1] ELSE Append(kept[m - 1], seq[m])
            more == [i \in 0..m |-> IF i = m THEN last ELSE kept[i]]
<1>5. \A i \in 0..(m - 1) : more[i] = kept[i] /\ kept[i] =
        IF i = 0 THEN <<>> ELSE IF seq[i] \in set THEN kept[i - 1] ELSE Append(kept[i - 1], seq[i])
  <2>1. m \in Nat
    OBVIOUS
  <2>2. \A i \in 0..(m - 1) : kept[i] =
          IF i = 0 THEN <<>> ELSE IF seq[i] \in set THEN kept[i - 1] ELSE Append(kept[i - 1], seq[i])
    <3>. HIDE DEF bad
    <3>. QED BY <1>4 DEF Kept
  <2>3. \A i \in 0..(m - 1) : more[i] = kept[i]
    <3>. HIDE DEF bad, last
    <3>. QED BY <2>1
  <2>. HIDE DEF more
  <2>. QED BY <2>2, <2>3
<1>6. \A i \in 0..m : more[i] =
        IF i = 0 THEN <<>> ELSE IF seq[i] \in set THEN more[i - 1] ELSE Append(more[i - 1], seq[i])
  <2>1. ASSUME NEW i \in 0..m, i # m
        PROVE  i \in 0..(m - 1) /\ (i # 0 => i - 1 \in 0..(m - 1))
    BY <2>1
  <2>2. more[m] = last /\ m - 1 \in 0..(m - 1) /\ more[m - 1] = kept[m - 1]
    BY <1>2, <1>5
  <2>. HIDE DEF more
  <2>. QED BY <1>2, <1>5, <2>1, <2>2
<1>7. more = [i \in 0..m |-> IF i = 0 THEN <<>> ELSE IF seq[i] \in set THEN more[i - 1]
                              ELSE Append(more[i - 1], seq[i])]
  <2>1. DOMAIN more = 0..m /\ more = [i \in 0..m |-> more[i]]
    OBVIOUS
  <2>. HIDE DEF more
  <2>. QED BY <1>6, <2>1
<1>8. Kept(more, seq, set, m)
  <2>. HIDE DEF more
  <2>. QED BY <1>7 DEF Kept
<1>. QED BY <1>1, <1>8

\* Nothing is there twice.
Distinct(seq) == \A i, j \in 1..Len(seq) : i # j => seq[i] # seq[j]

\* What a sequence holds once something is appended to it.
LEMMA AppendIs ==
  ASSUME NEW S, NEW q \in Seq(S), NEW x \in S
  PROVE  /\ Append(q, x) \in Seq(S) /\ ToSet(Append(q, x)) = ToSet(q) \cup {x}
         /\ Distinct(q) /\ x \notin ToSet(q) => Distinct(Append(q, x))
<1>1. DOMAIN Append(q, x) = 1..(Len(q) + 1) /\ DOMAIN q = 1..Len(q) /\ Len(q) \in Nat
  BY AppendProperties
<1>2. 1..(Len(q) + 1) = 1..Len(q) \cup {Len(q) + 1}
  BY <1>1
<1>3. Append(q, x) \in Seq(S) /\ ToSet(Append(q, x)) = ToSet(q) \cup {x}
  BY <1>1, <1>2, AppendProperties DEF ToSet
<1>4. ASSUME Distinct(q), x \notin ToSet(q) PROVE Distinct(Append(q, x))
  <2>1. \A i \in 1..Len(q) : Append(q, x)[i] = q[i] /\ q[i] # x
    BY <1>1, <1>4, AppendProperties DEF ToSet
  <2>2. Append(q, x)[Len(q) + 1] = x /\ Len(Append(q, x)) = Len(q) + 1
    BY AppendProperties
  <2>. QED BY <1>1, <1>2, <1>4, <2>1, <2>2 DEF Distinct
<1>. QED BY <1>3, <1>4

\* What is left is what is not in the set.
LEMMA WithoutIs ==
  ASSUME NEW S, NEW seq \in Seq(S), NEW set
  PROVE  /\ Without(seq, set) \in Seq(S) /\ ToSet(Without(seq, set)) = ToSet(seq) \ set
         /\ Distinct(seq) => Distinct(Without(seq, set))
<1>. DEFINE body(k) == [i \in 0..Len(seq) |-> IF i = 0 THEN <<>>
                          ELSE IF seq[i] \in set THEN k[i - 1] ELSE Append(k[i - 1], seq[i])]
            kept == CHOOSE k : k = body(k)
<1>1. Without(seq, set) = kept[Len(seq)]
  BY DEF Without
<1>2. Len(seq) \in Nat /\ \A i \in 1..Len(seq) : seq[i] \in S
  OBVIOUS
<1>3. kept = body(kept)
  <2>1. \E k : k = body(k)
    <3>1. PICK k : Kept(k, seq, set, Len(seq))
      BY <1>2, KeptExists
    <3>. QED BY <3>1 DEF Kept
  <2>. HIDE DEF body
  <2>. QED BY <2>1
<1>4. \A i \in 0..Len(seq) : kept[i] =
        IF i = 0 THEN <<>> ELSE IF seq[i] \in set THEN kept[i - 1] ELSE Append(kept[i - 1], seq[i])
  <2>. HIDE DEF kept
  <2>. QED BY <1>3
<1>. HIDE DEF kept
<1>. DEFINE Fine(n) == /\ kept[n] \in Seq(S) /\ ToSet(kept[n]) = {seq[j] : j \in 1..n} \ set
                       /\ Distinct(seq) => Distinct(kept[n])
            bad == {n \in 0..Len(seq) : ~Fine(n)}
<1>5. bad = {}
  <2>. SUFFICES ASSUME bad # {} PROVE FALSE
    OBVIOUS
  <2>1. PICK n \in bad : \A m \in bad : n <= m
    <3>1. bad \subseteq Nat
      BY <1>2
    <3>. HIDE DEF bad
    <3>. QED BY <3>1, LeastNumber
  <2>2. n # 0
    <3>1. kept[0] = <<>>
      BY <1>2, <1>4
    <3>2. Fine(0)
      BY <3>1 DEF ToSet, Distinct
    <3>. QED BY <3>2
  <2>3. n \in 1..Len(seq) /\ n - 1 \in 0..Len(seq) /\ Fine(n - 1)
    <3>1. n \in 0..Len(seq)
      OBVIOUS
    <3>2. n - 1 \in 0..Len(seq) /\ n - 1 \notin bad
      <4>. HIDE DEF bad
      <4>. QED BY <1>2, <2>1, <2>2, <3>1
    <3>. QED BY <1>2, <2>2, <3>1, <3>2
  <2>4. {seq[j] : j \in 1..n} = {seq[j] : j \in 1..(n - 1)} \cup {seq[n]}
    BY <2>3
  <2>5. kept[n] = IF seq[n] \in set THEN kept[n - 1] ELSE Append(kept[n - 1], seq[n])
    BY <1>4, <2>2, <2>3
  <2>6. seq[n] \in S /\ kept[n - 1] \in Seq(S)
    BY <1>2, <2>3
  <2>7. \A q \in Seq(S), x \in S :
          /\ Append(q, x) \in Seq(S) /\ ToSet(Append(q, x)) = ToSet(q) \cup {x}
          /\ Distinct(q) /\ x \notin ToSet(q) => Distinct(Append(q, x))
    BY AppendIs
  <2>8. Fine(n)
    <3>1. CASE seq[n] \in set
      BY <2>3, <2>4, <2>5, <3>1
    <3>2. CASE seq[n] \notin set
      <4>1. Distinct(seq) => seq[n] \notin ToSet(kept[n - 1])
        <5>1. ToSet(kept[n - 1]) \subseteq {seq[j] : j \in 1..(n - 1)}
          BY <2>3
        <5>2. ASSUME Distinct(seq), NEW j \in 1..(n - 1) PROVE seq[j] # seq[n]
          <6>. HIDE DEF kept, Fine, bad
          <6>1. j \in 1..Len(seq) /\ j # n
            BY <1>2, <2>3
          <6>. QED BY <2>3, <5>2, <6>1 DEF Distinct
        <5>. HIDE DEF kept, Fine, bad
        <5>. QED BY <5>1, <5>2
      <4>. QED BY <2>3, <2>4, <2>5, <2>6, <2>7, <3>2, <4>1
    <3>. QED BY <3>1, <3>2
  <2>. QED BY <2>1, <2>8
<1>6. Len(seq) \in 0..Len(seq) /\ ToSet(seq) = {seq[j] : j \in 1..Len(seq)}
  BY <1>2 DEF ToSet
<1>. QED BY <1>1, <1>5, <1>6
=============================================================================
