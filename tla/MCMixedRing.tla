----------------------------- MODULE MCMixedRing -----------------------------
(* Instances of MixedRing for TLC: p1 and c1 are C++, p2 and c2 Python.    *)
EXTENDS MixedRing, TLC
CONSTANTS p1, p2, c1, c2

\* Message n carries the number n in its metadata, and an odd one two cells
\* of payload: slots of 6 and 8 cells.  A payload may hold any byte, that of
\* a sentinel included.
MetadataOf == [m \in Msg |-> <<m>>]
PayloadOf  == [m \in Msg |-> IF m % 2 = 1 THEN <<m, SENTINEL_BYTE>> ELSE <<>>]
=============================================================================
