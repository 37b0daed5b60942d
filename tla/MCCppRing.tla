------------------------------ MODULE MCCppRing ------------------------------
(* Instances of CppRing for TLC.                                           *)
EXTENDS CppRingQueue, TLC
CONSTANTS p1, p2, c1, c2

\* Message n carries the number n in its metadata and in its payload.
MetadataOf == [m \in Msg |-> <<m>>]
PayloadOf  == [m \in Msg |-> <<m>>]

\* No payload or two cells: slots of 6 or 8 cells.
EvenPayloadOf == [m \in Msg |-> [i \in 1 .. 2 * (m % 2) |-> m]]

\* Message 2 is the empty one, message 3 is too large for a slot: it
\* would take 13 cells.
OddMetadataOf == [m \in Msg |-> IF m = 2 THEN <<>> ELSE <<m>>]
OddPayloadOf == [m \in Msg |-> [i \in 1 .. (CASE m = 2 -> 0 [] m = 3 -> 7 [] OTHER -> 1) |-> m]]

HandleSymmetry == Permutations(Producers) \cup Permutations(Consumers)
=============================================================================
