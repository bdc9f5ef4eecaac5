------------------------------ MODULE Helpers -------------------------------
(***************************************************************************)
(* What several modules say of sequences.                                  *)
(***************************************************************************)
EXTENDS Naturals, Sequences

\* What a sequence holds apart from a set, in the same order.
Without(seq, set) ==
  LET kept[i \in 0..Len(seq)] ==
        IF i = 0 THEN <<>>
        ELSE IF seq[i] \in set THEN kept[i - 1] ELSE Append(kept[i - 1], seq[i])
  IN  kept[Len(seq)]
=============================================================================
