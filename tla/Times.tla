-------------------------------- MODULE Times --------------------------------
(***************************************************************************)
(* The conversions between moments (time_t) and dates with a time of day   *)
(* (nvIPFIX_datetime_t) of types.c, in a zone with a summer.               *)
(*                                                                         *)
(* A datetime is modelled by the seconds its fields count from 1970-01-01  *)
(* 00:00:00 of the same calendar and clock.  The C library is external:    *)
(* localtime goes by the zone's season; mktime is always called with       *)
(* tm_isdst = 0, which takes the fields for winter time.                   *)
(***************************************************************************)
EXTENDS Integers, Sequences

CONSTANTS
  ZoneBase,   \* what local winter time is ahead of UTC, in seconds
  DstFrom,    \* the moment summer begins
  DstTo,      \* the moment it ends
  Word        \* how many values 32 bits hold

ASSUME TimesAssumption ==
  /\ {ZoneBase, DstFrom, DstTo} \subseteq Int
  /\ Word \in Nat \ {0}

Hour == 3600

\* What 32 bits keep of a number: nvIPFIX_U32, and a signed int.
ToU32(x) == x % Word
ToInt(x) == IF ToU32(x) < Word \div 2 THEN ToU32(x) ELSE ToU32(x) - Word
Summer(t) == DstFrom <= t /\ t < DstTo

\* The C library: localtime of a moment, mktime of a datetime, and what mktime
\* makes of a date, a month out of range included (the years begin in March).
LocalTime(t) == t + ZoneBase + (IF Summer(t) THEN Hour ELSE 0)
Mktime(l) == l - ZoneBase
Days(y, m, d) ==
  LET year  == y + (m - 3) \div 12
      month == (m - 3) % 12
  IN 365 * year + year \div 4 - year \div 100 + year \div 400
       + (153 * month + 2) \div 5 + d - 719469

\* A variant with a mistake: mktime is left to guess the season.
ToCtimeGuess(l) ==
  IF Summer(l - ZoneBase - Hour) THEN l - ZoneBase - Hour ELSE l - ZoneBase

-----------------------------------------------------------------------------
\* nvipfix_ctime_to_datetime and nvipfix_datetime_to_ctime.
FromCtime(t) == LocalTime(t)
ToCtime(l) == Mktime(l)

\* nvipfix_datetime_get_seconds_since_epoch: what is exported for a datetime.
\* The difference is stored in 32 bits without a sign, which hold the datetimes
\* from 1970 until 2106; as built, any other loses its upper bits.
Epoch == Days(1970, 1, 1) * 24 * Hour
SecondsSinceEpoch(l) == ToU32(Mktime(l) - Mktime(Epoch))
InU32(l) == l - Epoch \in 0 .. Word - 1

(***************************************************************************)
(* nvipfix_parse_datetime_iso8601.  A text is its parts, at "T" and then   *)
(* at "-" or ":", each a number of two digits or a year of four.           *)
(***************************************************************************)
Text == Seq(Seq(Nat))

\* strtoull with base 0 takes a leading zero for octal: it stops at an 8 or 9.
ReadPart(n) == IF n \in {8, 9} THEN 0 ELSE n

WellFormed(text) == Len(text) = 2 /\ Len(text[1]) = 3 /\ Len(text[2]) = 3

DatetimeOf(date, time) ==
  Days(date[1], date[2], date[3]) * 24 * Hour + time[1] * Hour + time[2] * 60 + time[3]

ParsedDatetime(text) ==
  DatetimeOf([i \in 1 .. 3 |-> ReadPart(text[1][i])], [i \in 1 .. 3 |-> ReadPart(text[2][i])])

=============================================================================
