------------------------------- MODULE MCCycle -------------------------------
(* A small instance of Cycle for TLC. *)
EXTENDS Cycle

CONSTANTS r1, r2, r3, c1, c2

ThreeRecords  == {r1, r2, r3}
TwoCollectors == <<c1, c2>>
=============================================================================
