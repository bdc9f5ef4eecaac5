----------------------------- MODULE MCGunSync -----------------------------
EXTENDS GunSync

CONSTANTS a, b, H, P, near, here

OnePeer == {P}

OneProp  == {near}
NearHome == [p \in OneProp |-> P]
None     == {}

\* Two increments, and a propagator on each side, of which the host's reads
\* another cell as well.
Two         == {a, b}
JustNothing == { {} }
Both        == {near, here}
BothHomes   == [p \in Both |-> IF p = near THEN P ELSE H]
OnHere      == {here}
=============================================================================
