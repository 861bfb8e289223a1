---------------------------- MODULE MCHashTable8 ----------------------------
(* A small instance of HashTable8 for TLC: three keys of one bucket, one   *)
(* of them empty, a key of the last bucket with a byte that overflows when *)
(* hashed, and a printable one, "@>~", of the bucket there is not.         *)
EXTENDS HashTable8, Hash8

CONSTANTS v, w, c1, c2

TwoValues == {v, w}
TwoCopies == {c1, c2}
Alike == Permutations(TwoValues) \cup Permutations(TwoCopies)

SomeKeys == {<<>>, <<98, 97>>, <<100, 99>>, <<157, 97, 255>>, <<64, 62, 126>>}

SomeHash ==
  [k \in SomeKeys |-> IF k = <<157, 97, 255>> THEN 254 ELSE IF k = <<64, 62, 126>> THEN 255 ELSE 0]

ASSUME SomeHashAssumption == \A k \in SomeKeys : SomeHash[k] = HashOf(k)
=============================================================================
