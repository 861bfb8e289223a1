------------------------------ MODULE MCPoller ------------------------------
(* A small instance of Poller for TLC, just before the end of summer in    *)
(* Central Europe: the default interval, the first one whose microseconds  *)
(* do not fit in an int, an hour, and the two that wrap around to no time  *)
(* at all and to 25 seconds; periods across both ends of summer, one of    *)
(* them backwards, one too long for an int, two that begin before the      *)
(* first or end after the last second exported, one with an 8 and a 9 in   *)
(* it, and two malformed ones.  TLC's own integers have 32 bits, so Word   *)
(* is 2 * 10^9 instead of 2^32: a word that ends in 2033, an int of 31     *)
(* years.                                                                  *)
EXTENDS Poller

SomeSpans   == {<<0, 1, 0>>, <<0, 35, 48>>, <<1, 0, 0>>, <<1, 11, 35>>, <<1, 12, 0>>}
At(y, mo, d, h, mi, s) == <<<<y, mo, d>>, <<h, mi, s>>>>
SomePeriods ==
  {<<At(2015, 10, 25, 2, 59, 0), At(2015, 10, 25, 3, 0, 0)>>,
   <<At(2015, 10, 25, 3, 0, 0), At(2015, 10, 25, 2, 59, 0)>>,
   <<At(2015, 3, 29, 1, 0, 0), At(2015, 3, 29, 4, 0, 0)>>,
   <<At(2015, 12, 31, 23, 50, 0), At(2016, 1, 1, 0, 10, 0)>>,
   <<At(1980, 1, 1, 0, 0, 0), At(2015, 1, 1, 0, 0, 0)>>,
   <<At(1969, 12, 31, 23, 0, 0), At(1970, 1, 1, 1, 0, 0)>>,
   <<At(2033, 5, 18, 3, 0, 0), At(2033, 5, 18, 4, 0, 0)>>,
   <<<<<<2015, 10, 25>>>>, At(2015, 10, 25, 2, 59, 0)>>,
   <<At(2015, 10, 25, 2, 59, 0), <<<<2015, 10, 25>>, <<2, 59>>>>>>}
EightNine   == {<<At(2015, 8, 19, 10, 9, 0), At(2015, 8, 19, 10, 10, 0)>>}
SomeJumps   == {-100, 1}
=============================================================================
