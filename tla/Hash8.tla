-------------------------------- MODULE Hash8 -------------------------------
(***************************************************************************)
(* The hash of a key, nvipfix_hashtable8_hash of src/src/types.c: the      *)
(* exclusive or, in 8 bits, of each byte plus its index.                   *)
(***************************************************************************)
EXTENDS Naturals, SequencesExt, Bitwise

HashOf(k) == FoldLeftDomain(LAMBDA h, i : h ^^ ((k[i] + i - 1) % 256), 0, k)
=============================================================================
