------------------------------- MODULE Poller -------------------------------
(***************************************************************************)
(* Which period of time each query of the switch asks for, and which       *)
(* period its records are stamped with (src/src/nvipfix.c 151-169 and      *)
(* 257-274).  The daemon sleeps for the export interval, takes the time,   *)
(* asks for the connections `within the last' interval and exports them    *)
(* under the times of this and the previous waking.  A batch run exports   *)
(* one period given on the command line.  Both come down to one number of  *)
(* seconds and two datetimes handed to nvipfix_main_export_nvc, which      *)
(* stamp the records once they are turned into seconds again (export.c).   *)
(*                                                                         *)
(* `now' is true time in seconds; the clock that time() reads is set by an *)
(* administrator now and then.  The switch and sleep() go by true time.    *)
(***************************************************************************)
EXTENDS Times

CONSTANTS
  Spans,      \* settings of export-interval, each <<hh, mm, ss>>
  Periods,    \* periods of batch runs, each <<start_ts, end_ts>>
  Boot,       \* the time the program is started; 0 is the beginning of time
  MaxDelay,   \* bound on each delay: late waking, slow query, slow export
  Jumps,      \* by how much the clock may be set
  MaxJumps,   \* bound on how often the clock is set
  MaxCycles   \* bound on the number of queries

ASSUME PollerAssumption ==
  /\ Spans \subseteq Nat \X Nat \X Nat
  /\ Periods \subseteq Text \X Text
  /\ {Boot, MaxDelay, MaxJumps, MaxCycles} \subseteq Nat
  /\ Jumps \subseteq Int

VARIABLES
  now,          \* true time
  offset,       \* what the clock is ahead by
  jumps,        \* how often the clock was set
  phase,        \* where the program is
  mode,         \* "daemon" or "batch", once that is known
  span,         \* the configured interval as the user wrote it
  waitSeconds,  \* the interval in seconds, also the argument within_last
  startT,       \* start of the period the next export is stamped with
  nowT,         \* its end
  startTs,      \* the same as datetimes, for the export
  endTs,
  period,       \* the texts of a batch run
  cycles        \* history: the queries, with the stamps of their records

vars == <<now, offset, jumps, phase, mode, span, waitSeconds, startT, nowT,
          startTs, endTs, period, cycles>>

Phase == {"start", "test", "sleep", "woken", "query", "export", "done"}
Mode  == {"none", "daemon", "batch"}
U32   == 0 .. Word - 1
Cycle == [start : Int, end : Int, first : U32, last : U32, from : Int, to : Int]
Delay == 0 .. MaxDelay
Clock == now + offset

-----------------------------------------------------------------------------
(***************************************************************************)
(* The interval, in units of 64 microseconds: a second is 15625 of them    *)
(* and an int holds 2^26 different ones, so nothing is rounded.            *)
(***************************************************************************)
Second  == 15625
IntSpan == 67108864

\* What an int keeps of a product too large for it, as built (gcc -O0).
AsInt(x) == ((x + IntSpan \div 2) % IntSpan) - IntSpan \div 2

Seconds(s) == s[1] * 3600 + s[2] * 60 + s[3]

\* NVIPFIX_TIMESPAN_SET_SECONDS on an int: (seconds) * 1000 * 1000 is
\* computed as an int before it is stored in 64 bits.
SetSeconds(s) == AsInt(s * Second)

\* A variant with a mistake: one factor of 1000 is missing.
GetMilliseconds(m) == IF m >= 0 THEN (m * 8) \div 125 ELSE -(((-m) * 8) \div 125)

\* NVIPFIX_TIMESPAN_GET_SECONDS: division rounds towards zero.
GetSeconds(m) == IF m >= 0 THEN m \div Second ELSE -((-m) \div Second)

Init ==
  /\ now = Boot /\ offset = 0 /\ jumps = 0
  /\ phase = "start" /\ mode = "none"
  /\ span = <<0, 1, 0>> /\ waitSeconds = 0
  /\ startT = 0 /\ nowT = 0 /\ startTs = 0 /\ endTs = 0
  /\ period = <<<<>>, <<>>>>
  /\ cycles = <<>>

\* The clock is set, at any moment.
SetClock ==
  /\ jumps < MaxJumps
  /\ \E d \in Jumps : offset' = offset + d
  /\ jumps' = jumps + 1
  /\ UNCHANGED <<now, phase, mode, span, waitSeconds, startT, nowT, startTs, endTs,
                 period, cycles>>

\* Time passes while the program gets from one phase to the next.
Pass(p, q, t) ==
  /\ phase = p /\ phase' = q
  /\ now' = now + t
  /\ UNCHANGED <<offset, jumps>>

-----------------------------------------------------------------------------
(***************************************************************************)
(* Variants of the code with a plausible mistake; no action uses them.     *)
(***************************************************************************)
\* The query asks for the period of the stamps instead of the interval.
QuerySinceLast ==
  \E d \in Delay :
    /\ Pass("query", "export", d)
    /\ cycles' = Append(cycles, [start |-> startT, end |-> nowT,
                                 first |-> SecondsSinceEpoch(startTs),
                                 last |-> SecondsSinceEpoch(endTs),
                                 from |-> now' - (nowT - startT), to |-> now'])
    /\ UNCHANGED <<mode, span, waitSeconds, startT, nowT, startTs, endTs, period>>

\* The start is moved on before the query instead of after the export.
TakeTimeMovesStart ==
  /\ Pass("woken", "query", 0)
  /\ nowT' = Clock /\ startT' = nowT'
  /\ startTs' = FromCtime(startT') /\ endTs' = FromCtime(nowT')
  /\ UNCHANGED <<mode, span, waitSeconds, period, cycles>>

\* The start is converted for the first cycle only.
TakeTimeKeepsStart ==
  /\ Pass("woken", "query", 0)
  /\ nowT' = Clock
  /\ startTs' = IF cycles = <<>> THEN FromCtime(startT) ELSE startTs
  /\ endTs' = FromCtime(nowT')
  /\ UNCHANGED <<mode, span, waitSeconds, startT, period, cycles>>

\* A query that is skipped when its cycle is late.
TakeTimeSkipsLate ==
  /\ phase = "woken"
  /\ IF Clock > startT + waitSeconds
     THEN Pass("woken", "test", 0) /\ UNCHANGED <<nowT, startTs, endTs>>
     ELSE /\ Pass("woken", "query", 0) /\ nowT' = Clock
          /\ startTs' = FromCtime(startT) /\ endTs' = FromCtime(nowT')
  /\ UNCHANGED <<mode, span, waitSeconds, startT, period, cycles>>

-----------------------------------------------------------------------------
(***************************************************************************)
(* The daemon.                                                             *)
(***************************************************************************)
\* The start of the loop: the time is taken and the configuration read.
StartDaemon ==
  /\ Pass("start", "test", 0)
  /\ mode' = "daemon"
  /\ span' \in Spans
  /\ waitSeconds' = GetSeconds(SetSeconds(Seconds(span')))
  /\ startT' = Clock
  /\ UNCHANGED <<nowT, startTs, endTs, period, cycles>>

\* The loop's test of the flag, which a stop may have cleared.
Test ==
  /\ \/ Pass("test", "sleep", 0) /\ Len(cycles) < MaxCycles
     \/ Pass("test", "done", 0)
  /\ UNCHANGED <<mode, span, waitSeconds, startT, nowT, startTs, endTs, period, cycles>>

\* sleep takes an unsigned number: a negative interval is 68 years or more,
\* and the program is not heard of again.
Sleep ==
  /\ waitSeconds >= 0
  /\ \E d \in Delay : Pass("sleep", "woken", waitSeconds + d)
  /\ UNCHANGED <<mode, span, waitSeconds, startT, nowT, startTs, endTs, period, cycles>>

TakeTime ==
  /\ Pass("woken", "query", 0)
  /\ nowT' = Clock
  /\ startTs' = FromCtime(startT) /\ endTs' = FromCtime(nowT')
  /\ UNCHANGED <<mode, span, waitSeconds, startT, period, cycles>>

\* A batch run: the length of the period is all that reaches the query, as an
\* int.  The texts are refused for their number of parts only.
StartBatch ==
  \E p \in Periods :
    /\ mode' = "batch" /\ period' = p
    /\ IF WellFormed(p[1]) /\ WellFormed(p[2])
       THEN /\ Pass("start", "query", 0)
            /\ startTs' = ParsedDatetime(p[1]) /\ startT' = ToCtime(startTs')
            /\ endTs' = ParsedDatetime(p[2]) /\ nowT' = ToCtime(endTs')
            /\ waitSeconds' = ToInt(nowT' - startT')
       ELSE Pass("start", "done", 0) /\ UNCHANGED <<waitSeconds, startT, nowT, startTs, endTs>>
    /\ UNCHANGED <<span, cycles>>

\* The switch answers for the seconds up to the moment it is asked.  The
\* field within_last is unsigned: a negative number asks for everything.
\* A flow without times of its own is exported with the period's.
Query ==
  \E d \in Delay :
    /\ Pass("query", "export", d)
    /\ cycles' = Append(cycles,
         [start |-> startT, end |-> nowT, to |-> now',
          first |-> SecondsSinceEpoch(startTs), last |-> SecondsSinceEpoch(endTs),
          from |-> IF waitSeconds >= 0 THEN now' - waitSeconds ELSE 0])
    /\ UNCHANGED <<mode, span, waitSeconds, startT, nowT, startTs, endTs, period>>

\* The export, and the end of the loop's body.
Export ==
  /\ \E d \in Delay : Pass("export", IF mode = "daemon" THEN "test" ELSE "done", d)
  /\ startT' = nowT
  /\ UNCHANGED <<mode, span, waitSeconds, nowT, startTs, endTs, period, cycles>>

Next ==
  \/ SetClock \/ StartDaemon \/ Test \/ Sleep \/ TakeTime
  \/ StartBatch \/ Query \/ Export

Spec == Init /\ [][Next]_vars

-----------------------------------------------------------------------------
\* An interval of the daemon is one whose microseconds fit in an int.
TypeOK ==
  /\ now \in Nat /\ offset \in Int /\ jumps \in 0 .. MaxJumps
  /\ phase \in Phase /\ mode \in Mode
  /\ span \in Nat \X Nat \X Nat
  /\ waitSeconds \in Int /\ startT \in Int /\ nowT \in Int
  /\ startTs \in Int /\ endTs \in Int /\ period \in Text \X Text
  /\ mode = "daemon" => -2147 <= waitSeconds /\ waitSeconds <= 2147
  /\ cycles \in Seq(Cycle)

\* No moment is asked for twice, so that no connection's traffic is reported
\* twice, whatever the delays and however the clock is set.
NoMomentTwice ==
  \A i, j \in DOMAIN cycles : i < j => cycles[i].to <= cycles[j].from

\* The moments that no query asks for are only those the daemon spent on
\* waking late, on asking and on exporting: they do not add up over cycles.
MissesOnlyDelays ==
  \A i \in 1 .. Len(cycles) - 1 :
    cycles[i + 1].from - cycles[i].to <= 3 * MaxDelay

\* As long as nobody sets the clock, the times a flow without its own is
\* stamped with (export.c 329-335) begin no later than the period asked for
\* and end no earlier than a delay before its end, and those of successive
\* exports leave no hole.
StampsFit ==
  mode = "daemon" /\ jumps = 0 =>
    /\ \A i \in DOMAIN cycles : /\ cycles[i].start <= cycles[i].from
                                /\ cycles[i].to - cycles[i].end \in Delay
    /\ \A i \in 1 .. Len(cycles) - 1 : cycles[i].end = cycles[i + 1].start

\* What is exported for these times is local time, as if it were UTC, in 32
\* bits.  As long as these hold it, it ends before it starts only across the end
\* of summer and is longer than the period only across the beginning; and
\* successive stamps meet all the same, in every year.
StampsInOrder ==
  mode = "daemon" /\ jumps = 0 =>
    /\ \A i \in DOMAIN cycles :
         LET c == cycles[i] IN
         InU32(FromCtime(c.start)) /\ InU32(FromCtime(c.end)) =>
           /\ Summer(c.start) = Summer(c.end) => c.last - c.first = c.end - c.start
           /\ c.last < c.first => Summer(c.start) /\ ~Summer(c.end)
           /\ c.last - c.first > c.end - c.start => ~Summer(c.start) /\ Summer(c.end)
    /\ \A i \in 1 .. Len(cycles) - 1 : cycles[i].last = cycles[i + 1].first

\* A batch run asks for a period as long as the one its records are stamped
\* with, in and across every season, if an int holds its length, which 68 years
\* are too long for, it is not backwards, and its datetimes can be exported.
BatchSpan ==
  /\ mode = "batch"
  /\ InU32(startTs) /\ InU32(endTs)
  /\ endTs - startTs \in 0 .. Word \div 2 - 1
  => \A i \in DOMAIN cycles :
       cycles[i].to - cycles[i].from = cycles[i].last - cycles[i].first

-----------------------------------------------------------------------------
(***************************************************************************)
(* What the documentation says.                                            *)
(***************************************************************************)
\* The interval is what the user wrote as hh:mm:ss (README 79).
IntervalAsWritten == mode = "daemon" => waitSeconds = Seconds(span)

\* The times of a batch run are the ISO 8601 datetimes the user wrote as
\* YYYY-MM-DDTHH:mm:SS (nvipfix.c 82, README 102).
BatchTimesAsWritten ==
  mode = "batch" /\ phase = "query" =>
    /\ startTs = DatetimeOf(period[1][1], period[1][2])
    /\ endTs = DatetimeOf(period[2][1], period[2][2])

=============================================================================
