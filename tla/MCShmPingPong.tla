--------------------------- MODULE MCShmPingPong ---------------------------
(* Small instances of ShmPingPong for TLC. *)
EXTENDS ShmPingPong

\* The limits of the code, and a base in which numbers grow digits sooner.
DecimalPowers == [n \in 1 .. 9 |-> 10 ^ n]
BinaryPowers == [n \in 1 .. 9 |-> 2 ^ n]
=============================================================================
