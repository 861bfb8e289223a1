------------------------------ MODULE MCConfig ------------------------------
(* A small instance of Config for TLC: the kinds of values that collectors use. *)
EXTENDS Config

CollectorValues == {"tcp", "address", "text"}
=============================================================================
