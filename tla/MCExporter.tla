----------------------------- MODULE MCExporter -----------------------------
(* Small instances of Exporter for TLC. *)
EXTENDS Exporter

CONSTANTS c1, c2

\* The collector whose calls may fail comes first, so that a failure has a
\* healthy collector after it in the list.
TwoCollectors == <<c1, c2>>
AllFaults     == FaultKinds
=============================================================================
