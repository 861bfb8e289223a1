------------------------------ MODULE MCDaemon ------------------------------
(* Small instances of Daemon for TLC. *)
EXTENDS Daemon, TLC

CONSTANTS p1, p2, p3, s1, s2, s3

ThreeProcs    == {p1, p2, p3}
ThreeSegments == {s1, s2, s3}

\* Slots and objects are interchangeable in every definition of Daemon; used
\* for the safety runs only.
Symmetry == Permutations(ThreeProcs) \cup Permutations(ThreeSegments)
=============================================================================
