---------------------------- MODULE MCFileImport ----------------------------
(* A small instance of FileImport for TLC: documents of up to two records  *)
(* with a blank anywhere or with other values, and every text of up to     *)
(* four marks and words.                                                   *)
EXTENDS FileImport

CONSTANTS a1, a2, a3

ThreeAddresses == {a1, a2, a3}
SomeDocuments ==
  {<<<<"vlan">>>>, <<<<"cur-state", "vlan">>>>, <<<<"src-ip", "cur-state">>>>,
   <<<<"vlan">>, <<"src-ip">>>>, <<<<"cur-state">>, <<"vlan">>>>}

WithBlank(s, i) == SubSeq(s, 1, i) \o <<"_">> \o SubSeq(s, i + 1, Len(s))
DocumentFiles ==
  UNION {{Rendered(d)} \cup {WithBlank(Rendered(d), i) : i \in 0 .. Len(Rendered(d))} :
           d \in SomeDocuments}
\* A number where an address or a word belongs.
OddFiles ==
  {[i \in DOMAIN Rendered(d) |-> IF Rendered(d)[i] \in {"ip", "fin"} THEN "7" ELSE Rendered(d)[i]] :
     d \in SomeDocuments}
ShortFiles == UNION {[1 .. n -> {"[", "{", ",", "_", "7"}] : n \in 0 .. 4}
SomeFiles  == DocumentFiles \cup OddFiles \cup ShortFiles
=============================================================================
