--------------------------- MODULE MCSessionStream ---------------------------
(* Instances of SessionStream for TLC: three OpenSession calls, two of them
   for the same session id. *)
EXTENDS SessionStream, TLC

CONSTANTS a1, a2, b1, A, B, e1, e2

ThreeStreams == {a1, a2, b1}
BothSids     == {A, B}
Events       == {e1, e2}
TabsOf       == a1 :> A @@ a2 :> A @@ b1 :> B
=============================================================================
