---------------------------- MODULE PollerProofs ----------------------------
(***************************************************************************)
(* Proofs about Poller, for any interval the configuration can hold, any   *)
(* bound on the delays and any setting of the clock.                       *)
(***************************************************************************)
EXTENDS Poller, SequenceTheorems, TLAPS

(***************************************************************************)
(* The interval: an int holds at most 2147 seconds of microseconds.        *)
(***************************************************************************)
LEMMA SecondsType ==
  ASSUME NEW s \in Nat \X Nat \X Nat
  PROVE  Seconds(s) \in Int
BY SMT DEF Seconds

\* What an int holds, in units of 64 microseconds.
IntUnits == {m \in Int : -33554432 <= m /\ m <= 33554431}

LEMMA AsIntRange == \A x \in Int : AsInt(x) \in IntUnits
<1> TAKE x \in Int
<1>1. IntSpan \div 2 = 33554432 BY SMT DEF IntSpan
<1>2. ASSUME NEW y \in Int
      PROVE  y % IntSpan \in Int /\ 0 <= y % IntSpan /\ y % IntSpan < 67108864
  BY SMT DEF IntSpan
<1>3. x + 33554432 \in Int BY SMT
<1> DEFINE r == (x + 33554432) % IntSpan
<1>4. r \in Int /\ 0 <= r /\ r < 67108864 BY SMT, <1>2, <1>3
<1>5. AsInt(x) = r - 33554432 BY SMT, <1>1 DEF AsInt
<1> HIDE DEF r
<1>6. QED BY SMT, <1>4, <1>5 DEF IntUnits

LEMMA DivSecond ==
  ASSUME NEW n \in Int, n >= 0, n <= 33554432
  PROVE  /\ n \div 15625 \in Int
         /\ 0 <= n \div 15625 /\ n \div 15625 <= 2147
<1>1. n \div 15625 <= 2147 BY SMT
<1>2. n \div 15625 >= 0 BY SMT
<1>3. n \div 15625 \in Int BY SMT
<1>4. QED BY SMT, <1>1, <1>2, <1>3

\* What an interval of an int is at most, in either direction.
InSeconds(n) == n \in Int /\ -2147 <= n /\ n <= 2147

LEMMA GetSecondsRange == \A m \in IntUnits : InSeconds(GetSeconds(m))
<1> TAKE m \in IntUnits
<1>1. m \in Int /\ -33554432 <= m /\ m <= 33554431 BY SMT DEF IntUnits
<1>2. CASE m >= 0
  <2> DEFINE q == m \div 15625
  <2>1. GetSeconds(m) = q BY SMT, <1>2 DEF GetSeconds, Second
  <2>2. q \in Int /\ 0 <= q /\ q <= 2147 BY SMT, <1>1, <1>2, DivSecond
  <2> HIDE DEF q
  <2>3. QED BY SMT, <2>1, <2>2 DEF InSeconds
<1>3. CASE ~(m >= 0)
  <2> DEFINE n == -m
  <2>1. n \in Int /\ n >= 0 /\ n <= 33554432 BY SMT, <1>1, <1>3
  <2> DEFINE q == n \div 15625
  <2>2. GetSeconds(m) = -q BY SMT, <1>3 DEF GetSeconds, Second
  <2> HIDE DEF n
  <2>3. q \in Int /\ 0 <= q /\ q <= 2147 BY SMT, <2>1, DivSecond
  <2> HIDE DEF q
  <2>4. QED BY SMT, <2>2, <2>3 DEF InSeconds
<1>4. QED BY SMT, <1>2, <1>3

LEMMA IntervalRange ==
  ASSUME NEW s \in Nat \X Nat \X Nat
  PROVE  InSeconds(GetSeconds(SetSeconds(Seconds(s))))
<1>1. Seconds(s) \in Int BY SecondsType
<1>2. ASSUME NEW n \in Int PROVE n * Second \in Int BY SMT DEF Second
<1>3. Seconds(s) * Second \in Int BY <1>1, <1>2
<1>4. SetSeconds(Seconds(s)) \in IntUnits BY SMT, <1>3, AsIntRange DEF SetSeconds
<1>5. QED BY SMT, <1>4, GetSecondsRange

(***************************************************************************)
(* The conversions: what is exported for a datetime, and the datetimes a   *)
(* text can come to.                                                       *)
(***************************************************************************)
LEMMA DaysType ==
  ASSUME NEW y \in Int, NEW m \in Int, NEW d \in Int
  PROVE  Days(y, m, d) \in Int
<1>1. \A a \in Int : a \div 12 \in Int /\ a % 12 \in Int /\ a \div 4 \in Int
                     /\ a \div 100 \in Int /\ a \div 400 \in Int /\ a \div 5 \in Int
  BY SMT
<1>2. m - 3 \in Int OBVIOUS
<1> DEFINE year == y + (m - 3) \div 12
           month == (m - 3) % 12
<1>3. year \in Int /\ month \in Int BY <1>1, <1>2
<1>4. Days(y, m, d) = 365 * year + year \div 4 - year \div 100 + year \div 400
                        + (153 * month + 2) \div 5 + d - 719469
  BY DEF Days
<1> HIDE DEF year, month
<1>5. 153 * month + 2 \in Int /\ 365 * year \in Int BY <1>3
<1>6. QED BY SMT, <1>1, <1>3, <1>4, <1>5

\* Differences, with the terms named.
LEMMA Undone == ASSUME NEW t \in Int, NEW w \in Int PROVE t - (t - w) = w
BY SMT

\* What 32 bits keep of a number they can hold.
LEMMA U32Fact ==
  \A x \in Int : ToU32(x) \in U32 /\ (x \in U32 => ToU32(x) = x)
<1>1. \A x \in Int : x % Word \in 0 .. Word - 1 BY TimesAssumption, SMT
<1>2. \A x \in Int : x \in 0 .. Word - 1 => x % Word = x BY TimesAssumption, SMT
<1>3. QED BY <1>1, <1>2 DEF ToU32, U32

LEMMA IntFact ==
  \A x \in Int : /\ ToInt(x) \in Int
                 /\ x \in 0 .. Word \div 2 - 1 => ToInt(x) = x
<1>1. Word \div 2 \in Nat /\ Word \div 2 <= Word /\ Word \in Nat BY TimesAssumption, SMT
<1> TAKE x \in Int
<1>2. ToU32(x) \in U32 /\ (x \in U32 => ToU32(x) = x) BY U32Fact
<1>3. ToU32(x) \in Int BY <1>1, <1>2 DEF U32
<1>4. ToInt(x) \in Int BY <1>1, <1>3 DEF ToInt
<1>5. ASSUME x \in 0 .. Word \div 2 - 1 PROVE ToInt(x) = x
  <2>1. x \in U32 /\ x < Word \div 2 BY <1>1, <1>5 DEF U32
  <2>2. QED BY <1>2, <2>1 DEF ToInt
<1>6. QED BY <1>4, <1>5

LEMMA EpochFact ==
  /\ Epoch \in Int
  /\ \A l \in Int : /\ SecondsSinceEpoch(l) \in U32
                    /\ InU32(l) => SecondsSinceEpoch(l) = l - Epoch
<1>1. Days(1970, 1, 1) \in Int BY DaysType
<1>2. Epoch \in Int BY <1>1, SMT DEF Epoch, Hour
<1>3. ZoneBase \in Int BY TimesAssumption
<1>4. \A l \in Int : (l - ZoneBase) - (Epoch - ZoneBase) = l - Epoch
  BY <1>2, <1>3, SMT
<1>5. \A l \in Int : SecondsSinceEpoch(l) = ToU32(l - Epoch)
  BY <1>4 DEF SecondsSinceEpoch, Mktime
<1>6. \A l \in Int : l - Epoch \in Int BY <1>2
<1>7. QED BY <1>2, <1>5, <1>6, U32Fact DEF InU32, U32

LEMMA LocalTimeFact == \A t \in Int :
  /\ Summer(t) => LocalTime(t) = t + ZoneBase + 3600
  /\ ~Summer(t) => LocalTime(t) = t + ZoneBase
<1>1. ZoneBase \in Int BY TimesAssumption
<1>2. QED BY <1>1, SMT DEF LocalTime, Hour

LEMMA LocalTimeType == \A t \in Int : LocalTime(t) \in Int
<1>1. ZoneBase \in Int BY TimesAssumption
<1>2. QED BY <1>1, SMT DEF LocalTime, Summer, Hour

\* The stamps of a period, by the seasons it begins and ends in.
LEMMA SeasonStamps ==
  ASSUME NEW s \in Int, NEW e \in Int, NEW f, NEW l, s <= e,
         f = LocalTime(s) - Epoch, l = LocalTime(e) - Epoch
  PROVE  /\ Summer(s) = Summer(e) => l - f = e - s
         /\ l < f => Summer(s) /\ ~Summer(e)
         /\ l - f > e - s => ~Summer(s) /\ Summer(e)
<1>1. ZoneBase \in Int /\ Epoch \in Int BY TimesAssumption, EpochFact
<1>2. /\ Summer(s) => LocalTime(s) = s + ZoneBase + 3600
      /\ ~Summer(s) => LocalTime(s) = s + ZoneBase
      /\ Summer(e) => LocalTime(e) = e + ZoneBase + 3600
      /\ ~Summer(e) => LocalTime(e) = e + ZoneBase
  BY LocalTimeFact
<1> DEFINE k == ZoneBase - Epoch
<1>3. k \in Int BY <1>1
<1>4. /\ Summer(s) => f = s + k + 3600
      /\ ~Summer(s) => f = s + k
      /\ Summer(e) => l = e + k + 3600
      /\ ~Summer(e) => l = e + k
  BY <1>1, <1>2
<1> HIDE DEF k
<1>5. CASE Summer(s) /\ Summer(e)
  <2>1. f = s + k + 3600 /\ l = e + k + 3600 BY <1>4, <1>5
  <2>2. l - f = e - s /\ ~(l < f) BY <1>3, <2>1
  <2>3. QED BY <1>5, <2>2
<1>6. CASE Summer(s) /\ ~Summer(e)
  <2>1. f = s + k + 3600 /\ l = e + k BY <1>4, <1>6
  <2>2. ~(l - f > e - s) BY <1>3, <2>1
  <2>3. QED BY <1>6, <2>2
<1>7. CASE ~Summer(s) /\ Summer(e)
  <2>1. f = s + k /\ l = e + k + 3600 BY <1>4, <1>7
  <2>2. ~(l < f) BY <1>3, <2>1
  <2>3. QED BY <1>7, <2>2
<1>8. CASE ~Summer(s) /\ ~Summer(e)
  <2>1. f = s + k /\ l = e + k BY <1>4, <1>8
  <2>2. l - f = e - s /\ ~(l < f) BY <1>3, <2>1
  <2>3. QED BY <1>8, <2>2
<1>9. QED BY <1>5, <1>6, <1>7, <1>8

LEMMA ParsedType ==
  ASSUME NEW text \in Text, WellFormed(text)
  PROVE  ParsedDatetime(text) \in Int
<1>1. Len(text) = 2 /\ Len(text[1]) = 3 /\ Len(text[2]) = 3 BY DEF WellFormed
<1>2. text \in Seq(Seq(Nat)) BY DEF Text
<1>3. text[1] \in Seq(Nat) /\ text[2] \in Seq(Nat)
  <2> DEFINE S == Seq(Nat)
  <2>1. text \in Seq(S) BY <1>2
  <2> HIDE DEF S
  <2>2. text[1] \in S /\ text[2] \in S BY <1>1, <2>1, ElementOfSeq
  <2>3. QED BY <2>2 DEF S
<1>4. \A i \in 1 .. 3 : text[1][i] \in Nat /\ text[2][i] \in Nat
  BY <1>1, <1>3, ElementOfSeq
<1>5. \A n \in Nat : ReadPart(n) \in Nat BY DEF ReadPart
<1> DEFINE a == [i \in 1 .. 3 |-> ReadPart(text[1][i])]
           b == [i \in 1 .. 3 |-> ReadPart(text[2][i])]
<1>6. \A i \in 1 .. 3 : a[i] \in Nat /\ b[i] \in Nat BY <1>4, <1>5
<1>7. ParsedDatetime(text) = DatetimeOf(a, b) BY DEF ParsedDatetime
<1> HIDE DEF a, b
<1>8. /\ a[1] \in Int /\ a[2] \in Int /\ a[3] \in Int
      /\ b[1] \in Int /\ b[2] \in Int /\ b[3] \in Int
  BY <1>6
<1>9. Days(a[1], a[2], a[3]) \in Int BY <1>8, DaysType
<1>10. DatetimeOf(a, b) \in Int BY <1>8, <1>9, SMT DEF DatetimeOf, Hour
<1>11. QED BY <1>7, <1>10

(***************************************************************************)
(* The invariant.  Pace says how far time has moved on since the last      *)
(* query, phase by phase, and Stamps how the times of the next export      *)
(* compare with it.                                                        *)
(***************************************************************************)
Last == cycles[Len(cycles)]

\* Only a daemon asks more than once, and never with a negative interval.
Modes ==
  /\ mode = "none" <=> phase = "start"
  /\ phase \in {"test", "sleep", "woken"} => mode = "daemon"
  /\ mode = "batch" /\ phase = "query" => cycles = <<>>
  /\ mode = "none" => cycles = <<>>
  /\ phase = "export" => cycles # <<>>
  /\ mode = "daemon" /\ (phase \in {"woken", "query"} \/ cycles # <<>>) =>
       waitSeconds >= 0

Pace ==
  cycles # <<>> =>
    /\ \A i \in DOMAIN cycles : cycles[i].to <= Last.to
    /\ Last.to <= now
    /\ phase = "export" => now <= Last.to
    /\ phase \in {"test", "sleep"} => now <= Last.to + MaxDelay
    /\ phase \in {"woken", "query"} =>
         /\ Last.to + waitSeconds <= now
         /\ now <= Last.to + waitSeconds + 2 * MaxDelay

Stamps ==
  jumps = 0 =>
    /\ offset = 0
    /\ mode = "daemon" =>
         /\ phase \in {"test", "sleep"} => startT <= now
         /\ phase \in {"woken", "query"} => startT + waitSeconds <= now
         /\ phase = "query" => nowT = now
         /\ cycles # <<>> =>
              /\ phase \in {"test", "sleep", "woken", "query"} => startT = Last.end
              /\ phase = "export" => nowT = Last.end /\ nowT <= now

\* The datetimes handed to the export.
Datetimes ==
  phase = "query" =>
    /\ mode = "daemon" => startTs = LocalTime(startT) /\ endTs = LocalTime(nowT)
    /\ mode = "batch" => waitSeconds = ToInt(endTs - startTs)

\* What was exported, for the times a daemon took.
Exported ==
  mode = "daemon" => \A i \in DOMAIN cycles :
    /\ cycles[i].first = SecondsSinceEpoch(LocalTime(cycles[i].start))
    /\ cycles[i].last = SecondsSinceEpoch(LocalTime(cycles[i].end))
    /\ jumps = 0 => cycles[i].start <= cycles[i].end

IInv ==
  /\ TypeOK /\ Modes /\ Pace /\ Stamps /\ Datetimes /\ Exported
  /\ NoMomentTwice /\ MissesOnlyDelays /\ StampsFit /\ BatchSpan

\* TypeOK by parts: the numbers, and what is built of them.
Numbers ==
  /\ now \in Nat /\ offset \in Int /\ jumps \in 0 .. MaxJumps
  /\ phase \in Phase /\ mode \in Mode
  /\ waitSeconds \in Int /\ startT \in Int /\ nowT \in Int
  /\ startTs \in Int /\ endTs \in Int
  /\ mode = "daemon" => -2147 <= waitSeconds /\ waitSeconds <= 2147

Tuples ==
  /\ span \in Nat \X Nat \X Nat /\ period \in Text \X Text
  /\ cycles \in Seq(Cycle)

LEMMA TypeParts == (TypeOK <=> Numbers /\ Tuples) /\ (TypeOK' <=> Numbers' /\ Tuples')
<1>1. TypeOK => Numbers /\ Tuples BY DEF TypeOK, Numbers, Tuples
<1>2. Numbers /\ Tuples => TypeOK BY DEF TypeOK, Numbers, Tuples
<1>3. TypeOK' => Numbers' /\ Tuples' BY DEF TypeOK, Numbers, Tuples
<1>4. Numbers' /\ Tuples' => TypeOK' BY DEF TypeOK, Numbers, Tuples
<1>5. QED BY <1>1, <1>2, <1>3, <1>4

\* What TypeOK says of cycles, for SMT.
LEMMA CycleFacts ==
  ASSUME TypeOK
  PROVE  /\ Len(cycles) \in Nat /\ DOMAIN cycles = 1 .. Len(cycles)
         /\ \A i \in 1 .. Len(cycles) : cycles[i] \in Cycle
         /\ cycles = <<>> <=> Len(cycles) = 0
<1>1. cycles \in Seq(Cycle) BY DEF TypeOK
<1>2. QED BY <1>1, LenProperties, ElementOfSeq, EmptySeq

LEMMA InitInv == Init => IInv
<1> SUFFICES ASSUME Init PROVE IInv OBVIOUS
<1>1. cycles \in Seq(Cycle) /\ Len(cycles) = 0 /\ DOMAIN cycles = {}
  BY DEF Init
<1>2. TypeOK
  <2>1. <<>> \in Text BY DEF Text
  <2>2. <<0, 1, 0>> \in Nat \X Nat \X Nat OBVIOUS
  <2>3. Tuples BY <1>1, <2>1, <2>2 DEF Init, Tuples
  <2>4. Numbers BY PollerAssumption DEF Init, Numbers, Phase, Mode
  <2>5. QED BY <2>3, <2>4, TypeParts
<1>3. Modes /\ Pace /\ Stamps /\ Datetimes
  BY DEF Init, Modes, Pace, Stamps, Datetimes
<1>4. NoMomentTwice /\ StampsFit /\ Exported /\ BatchSpan
  BY <1>1 DEF Init, NoMomentTwice, StampsFit, Exported, BatchSpan
<1>5. MissesOnlyDelays
  <2>1. 1 .. Len(cycles) - 1 = {} BY <1>1
  <2>2. QED BY <2>1 DEF MissesOnlyDelays
<1>6. QED BY <1>2, <1>3, <1>4, <1>5 DEF IInv

\* A step that leaves the queries alone keeps what is said of them alone.
LEMMA SameCycles ==
  ASSUME IInv, cycles' = cycles, jumps' = 0 => jumps = 0,
         (mode' = mode /\ waitSeconds' = waitSeconds) \/ cycles = <<>>,
         mode = "daemon" \/ UNCHANGED <<startTs, endTs>> \/ cycles = <<>>
  PROVE  NoMomentTwice' /\ MissesOnlyDelays' /\ StampsFit' /\ Exported' /\ BatchSpan'
<1>1. NoMomentTwice' BY DEF IInv, NoMomentTwice
<1>2. MissesOnlyDelays' BY DEF IInv, MissesOnlyDelays
<1>3. StampsFit'
  <2>1. CASE cycles = <<>>
    <3>1. DOMAIN cycles = {} /\ 1 .. Len(cycles) - 1 = {} BY <2>1
    <3>2. QED BY <3>1 DEF StampsFit
  <2>2. CASE cycles # <<>> BY <2>2 DEF IInv, StampsFit
  <2>3. QED BY <2>1, <2>2
<1>4. Exported' /\ BatchSpan'
  <2>1. CASE cycles = <<>>
    <3>1. DOMAIN cycles = {} BY <2>1
    <3>2. QED BY <3>1 DEF Exported, BatchSpan
  <2>2. CASE cycles # <<>>
    <3>1. mode' = mode /\ waitSeconds' = waitSeconds BY <2>2
    <3>2. Exported /\ BatchSpan BY DEF IInv
    <3>3. Exported' BY <3>1, <3>2 DEF Exported
    <3>4. BatchSpan'
      <4>1. CASE mode = "daemon" BY <3>1, <4>1 DEF BatchSpan
      <4>2. CASE UNCHANGED <<startTs, endTs>> BY <3>1, <3>2, <4>2 DEF BatchSpan
      <4>3. QED BY <2>2, <4>1, <4>2
    <3>5. QED BY <3>3, <3>4
  <2>3. QED BY <2>1, <2>2
<1>5. QED BY <1>1, <1>2, <1>3, <1>4

\* Time in a daemon's loop and delays.
LEMMA DelayFacts == MaxDelay \in Nat /\ \A d \in Delay : d \in Nat /\ d <= MaxDelay
BY PollerAssumption DEF Delay

\* The query: what is asked for begins where the last query ended or later.
LEMMA QueryInv ==
  ASSUME IInv, Query
  PROVE  IInv'
<1> USE DEF IInv
<1>1. PICK d \in Delay :
        /\ phase = "query" /\ phase' = "export" /\ now' = now + d
        /\ cycles' = Append(cycles,
             [start |-> startT, end |-> nowT, to |-> now',
              first |-> SecondsSinceEpoch(startTs), last |-> SecondsSinceEpoch(endTs),
              from |-> IF waitSeconds >= 0 THEN now' - waitSeconds ELSE 0])
  BY DEF Query, Pass
<1>2. UNCHANGED <<offset, jumps, mode, span, waitSeconds, startT, nowT, startTs, endTs,
                  period>>
  BY DEF Query, Pass
<1> DEFINE new == [start |-> startT, end |-> nowT, to |-> now',
                   first |-> SecondsSinceEpoch(startTs), last |-> SecondsSinceEpoch(endTs),
                   from |-> IF waitSeconds >= 0 THEN now' - waitSeconds ELSE 0]
           n == Len(cycles)
<1>3. /\ now \in Nat /\ now' \in Nat /\ d \in Nat /\ d <= MaxDelay /\ MaxDelay \in Nat
      /\ waitSeconds \in Int /\ startT \in Int /\ nowT \in Int
      /\ startTs \in Int /\ endTs \in Int
  <2>1. Numbers BY TypeParts
  <2>2. now' = now + d BY <1>1
  <2>3. d \in Nat /\ d <= MaxDelay /\ MaxDelay \in Nat BY DelayFacts
  <2>4. now \in Nat /\ now' \in Nat BY <2>1, <2>2, <2>3 DEF Numbers
  <2>5. QED BY <2>1, <2>3, <2>4 DEF Numbers
<1>3a. /\ SecondsSinceEpoch(startTs) \in U32 /\ SecondsSinceEpoch(endTs) \in U32
       /\ InU32(startTs) => SecondsSinceEpoch(startTs) = startTs - Epoch
       /\ InU32(endTs) => SecondsSinceEpoch(endTs) = endTs - Epoch
       /\ Epoch \in Int
  BY <1>3, EpochFact
<1>4. new \in Cycle /\ cycles \in Seq(Cycle) BY <1>3, <1>3a DEF Cycle, TypeOK
<1>5. /\ n \in Nat
      /\ cycles' \in Seq(Cycle) /\ cycles' # <<>>
      /\ Len(cycles') = n + 1
      /\ \A i \in 1 .. n : cycles'[i] = cycles[i]
      /\ cycles'[n + 1] = new
  BY <1>1, <1>4, AppendProperties, LenProperties
<1>6. DOMAIN cycles' = 1 .. n + 1 /\ DOMAIN cycles = 1 .. n
  BY <1>5, LenProperties, CycleFacts
<1>7. /\ new.start = startT /\ new.end = nowT /\ new.to = now'
      /\ new.first = SecondsSinceEpoch(startTs) /\ new.last = SecondsSinceEpoch(endTs)
      /\ waitSeconds >= 0 => new.from = now' - waitSeconds
  OBVIOUS
<1>7a. new.start \in Int /\ new.end \in Int /\ new.to \in Int /\ new.from \in Int
  BY <1>4 DEF Cycle
<1> HIDE DEF new
<1>8. \A i \in 1 .. n : /\ cycles[i].to \in Int /\ cycles[i].from \in Int
                        /\ cycles[i].start \in Int /\ cycles[i].end \in Int
  BY CycleFacts DEF Cycle
<1>9. mode = "daemon" => waitSeconds >= 0 BY <1>1 DEF Modes
<1>10. n > 0 => /\ mode = "daemon" /\ cycles # <<>>
                /\ new.from = now' - waitSeconds
  <2>1. n > 0 => cycles # <<>> BY CycleFacts
  <2>2. mode \in {"none", "daemon", "batch"} BY DEF TypeOK, Mode
  <2>3. n > 0 => mode = "daemon" BY <1>1, <2>1, <2>2 DEF Modes
  <2>4. QED BY <1>7, <1>9, <2>1, <2>3
<1>11. \A i \in 1 .. n : cycles[i].to <= Last.to
  BY <1>5, <1>6, <1>10 DEF Pace
<1>12. n > 0 => /\ Last = cycles[n] /\ n \in 1 .. n
                /\ Last.to <= new.from /\ new.from - Last.to <= 3 * MaxDelay
                /\ Last.to <= new.to
  <2> SUFFICES ASSUME n > 0
      PROVE  /\ Last = cycles[n] /\ n \in 1 .. n
             /\ Last.to <= new.from /\ new.from - Last.to <= 3 * MaxDelay
             /\ Last.to <= new.to
    OBVIOUS
  <2>1. Last = cycles[n] /\ n \in 1 .. n BY <1>5 DEF Last
  <2>2. /\ Last.to + waitSeconds <= now
        /\ now <= Last.to + waitSeconds + 2 * MaxDelay
        /\ Last.to <= now
    BY <1>1, <1>10 DEF Pace
  <2>3. Last.to \in Int BY <1>8, <2>1
  <2>4. new.from = now' - waitSeconds /\ new.to = now' BY <1>7, <1>10
  <2>5. /\ Last.to <= now' - waitSeconds /\ (now' - waitSeconds) - Last.to <= 3 * MaxDelay
        /\ Last.to <= now'
    <3>1. now' = now + d BY <1>1
    <3>2. QED BY <1>3, <2>2, <2>3, <3>1
  <2>6. QED BY <2>1, <2>4, <2>5
<1>13. TypeOK'
  <2>1. phase' = "export" /\ now' \in Nat BY <1>1, <1>3
  <2>2. Numbers BY TypeParts
  <2>3. Numbers' BY <1>2, <2>1, <2>2 DEF Numbers, Phase
  <2>4. Tuples' BY <1>2, <1>5, TypeParts DEF Tuples
  <2>5. QED BY <2>3, <2>4, TypeParts
<1>14. Modes' BY <1>1, <1>2, <1>5, <1>9 DEF Modes
<1>15. Last' = new BY <1>5 DEF Last
<1>16. Pace'
  <2>1. \A i \in 1 .. n + 1 : cycles'[i].to <= new.to
    <3> SUFFICES ASSUME NEW i \in 1 .. n + 1 PROVE cycles'[i].to <= new.to
      OBVIOUS
    <3>1. CASE i = n + 1 BY <1>3, <1>5, <1>7, <3>1
    <3>2. CASE i # n + 1
      <4>1. i \in 1 .. n /\ n > 0 BY <1>5, <3>2
      <4>2. cycles[i].to \in Int /\ Last.to \in Int /\ new.to \in Int
        BY <1>3, <1>7, <1>8, <1>12, <4>1
      <4>3. QED BY <1>5, <1>11, <1>12, <4>1, <4>2
    <3>3. QED BY <3>1, <3>2
  <2>2. QED BY <1>1, <1>3, <1>6, <1>7, <1>15, <2>1 DEF Pace
<1>17. NoMomentTwice'
  <2> SUFFICES ASSUME NEW i \in 1 .. n + 1, NEW j \in 1 .. n + 1, i < j
      PROVE  cycles'[i].to <= cycles'[j].from
    BY <1>6 DEF NoMomentTwice
  <2>1. i \in 1 .. n /\ n > 0 BY <1>5
  <2>2. CASE j = n + 1
    <3>1. /\ cycles[i].to \in Int /\ Last.to \in Int /\ new.from \in Int
      BY <1>3, <1>8, <1>10, <1>12, <2>1
    <3>2. QED BY <1>5, <1>11, <1>12, <2>1, <2>2, <3>1
  <2>3. CASE j # n + 1
    <3>1. j \in 1 .. n BY <1>5, <2>3
    <3>2. cycles[i].to <= cycles[j].from BY <1>6, <2>1, <3>1 DEF NoMomentTwice
    <3>3. QED BY <1>5, <2>1, <3>1, <3>2
  <2>4. QED BY <2>2, <2>3
<1>18. MissesOnlyDelays'
  <2> SUFFICES ASSUME NEW i \in 1 .. n
      PROVE  cycles'[i + 1].from - cycles'[i].to <= 3 * MaxDelay
    BY <1>5 DEF MissesOnlyDelays
  <2>1. CASE i = n BY <1>5, <1>12, <2>1
  <2>2. CASE i # n
    <3>1. i \in 1 .. n - 1 /\ i + 1 \in 1 .. n BY <1>5, <2>2
    <3>2. cycles[i + 1].from - cycles[i].to <= 3 * MaxDelay
      BY <3>1 DEF MissesOnlyDelays
    <3>3. QED BY <1>5, <3>1, <3>2
  <2>3. QED BY <2>1, <2>2
<1>19. ASSUME mode = "daemon", jumps = 0
       PROVE  /\ startT <= new.from /\ new.to - new.end = d /\ nowT <= now'
              /\ startT <= nowT
              /\ n > 0 => Last.end = startT
  <2>1. startT + waitSeconds <= now /\ nowT = now
    BY <1>1, <1>19 DEF Stamps
  <2>2. new.from = now' - waitSeconds BY <1>7, <1>9, <1>19
  <2>3. n > 0 => Last.end = startT
    BY <1>1, <1>10, <1>19 DEF Stamps
  <2>4. startT <= nowT BY <1>3, <1>9, <1>19, <2>1
  <2>5. QED BY <1>1, <1>3, <1>7, <2>1, <2>2, <2>3, <2>4
<1>20. Stamps'
  BY <1>1, <1>2, <1>7, <1>15, <1>19 DEF Stamps
<1>21. StampsFit'
  <2> SUFFICES ASSUME mode = "daemon", jumps = 0
      PROVE  /\ \A i \in 1 .. n + 1 : /\ cycles'[i].start <= cycles'[i].from
                                      /\ cycles'[i].to - cycles'[i].end \in Delay
             /\ \A i \in 1 .. n : cycles'[i].end = cycles'[i + 1].start
    BY <1>2, <1>5, <1>6 DEF StampsFit
  <2>1. ASSUME NEW i \in 1 .. n + 1
        PROVE  /\ cycles'[i].start <= cycles'[i].from
               /\ cycles'[i].to - cycles'[i].end \in Delay
    <3>1. CASE i = n + 1 BY <1>1, <1>5, <1>7, <1>19, <3>1
    <3>2. CASE i # n + 1
      <4>1. i \in 1 .. n BY <1>5, <3>2
      <4>2. QED BY <1>5, <1>6, <4>1 DEF StampsFit
    <3>3. QED BY <3>1, <3>2
  <2>2. ASSUME NEW i \in 1 .. n PROVE cycles'[i].end = cycles'[i + 1].start
    <3>1. CASE i = n BY <1>5, <1>7, <1>12, <1>19, <3>1
    <3>2. CASE i # n
      <4>1. i \in 1 .. n - 1 /\ i + 1 \in 1 .. n BY <1>5, <3>2
      <4>2. QED BY <1>5, <4>1 DEF StampsFit
    <3>3. QED BY <3>1, <3>2
  <2>3. QED BY <2>1, <2>2
<1>22. Datetimes' BY <1>1 DEF Datetimes
<1>23. Exported'
  <2> SUFFICES ASSUME mode = "daemon", NEW i \in 1 .. n + 1
      PROVE  /\ cycles'[i].first = SecondsSinceEpoch(LocalTime(cycles'[i].start))
             /\ cycles'[i].last = SecondsSinceEpoch(LocalTime(cycles'[i].end))
             /\ jumps = 0 => cycles'[i].start <= cycles'[i].end
    BY <1>2, <1>6 DEF Exported
  <2>1. CASE i = n + 1
    <3>1. startTs = LocalTime(startT) /\ endTs = LocalTime(nowT) BY <1>1 DEF Datetimes
    <3>2. jumps = 0 => startT <= nowT BY <1>19
    <3>3. QED BY <1>5, <1>7, <2>1, <3>1, <3>2
  <2>2. CASE i # n + 1
    <3>1. i \in 1 .. n BY <1>5, <2>2
    <3>2. QED BY <1>5, <1>6, <3>1 DEF Exported
  <2>3. QED BY <2>1, <2>2
<1>24. BatchSpan'
  <2> SUFFICES ASSUME mode = "batch", InU32(startTs), InU32(endTs),
                      endTs - startTs \in 0 .. Word \div 2 - 1, NEW i \in 1 .. n + 1
      PROVE  cycles'[i].to - cycles'[i].from = cycles'[i].last - cycles'[i].first
    BY <1>2, <1>6 DEF BatchSpan
  <2>1. n = 0 BY <1>1, <1>5, <1>10
  <2>2. i = n + 1 BY <2>1
  <2>3. waitSeconds = endTs - startTs /\ waitSeconds >= 0
    <3>1. waitSeconds = ToInt(endTs - startTs) BY <1>1 DEF Datetimes
    <3>2. endTs - startTs \in Int /\ endTs - startTs >= 0 BY <1>3
    <3>3. ToInt(endTs - startTs) = endTs - startTs BY <3>2, IntFact
    <3>4. QED BY <3>1, <3>2, <3>3
  <2>4. /\ new.to = now' /\ new.from = now' - waitSeconds
        /\ new.first = startTs - Epoch /\ new.last = endTs - Epoch
    BY <1>3a, <1>7, <2>3
  <2>5. now' - (now' - waitSeconds) = waitSeconds
    <3>1. now' \in Int BY <1>3
    <3>2. QED BY <1>3, <3>1, Undone, Zenon
  <2>6. (endTs - Epoch) - (startTs - Epoch) = endTs - startTs BY <1>3, <1>3a, SMT
  <2>7. new.to - new.from = new.last - new.first BY <2>3, <2>4, <2>5, <2>6, Zenon
  <2>8. QED BY <1>5, <2>2, <2>7
<1>25. QED
  BY <1>13, <1>14, <1>16, <1>17, <1>18, <1>20, <1>21, <1>22, <1>23, <1>24

LEMMA StepInv == IInv /\ [Next]_vars => IInv'
<1> SUFFICES ASSUME IInv, [Next]_vars PROVE IInv'
  OBVIOUS
<1>0. /\ TypeOK /\ Modes /\ Pace /\ Stamps /\ Datetimes
      /\ Numbers /\ Tuples
  BY TypeParts DEF IInv
<1>1. CASE SetClock
  <2>1. UNCHANGED <<now, phase, mode, span, waitSeconds, startT, nowT, startTs, endTs,
                    period, cycles>>
    BY <1>1 DEF SetClock
  <2>2. jumps' = jumps + 1 /\ jumps < MaxJumps /\ \E d \in Jumps : offset' = offset + d
    BY <1>1 DEF SetClock
  <2>3. offset' \in Int /\ jumps' \in 0 .. MaxJumps /\ jumps' # 0
    BY <1>0, <2>2, PollerAssumption DEF TypeOK
  <2>4. TypeOK'
    <3>1. Numbers' BY <1>0, <2>1, <2>3 DEF Numbers
    <3>2. Tuples' BY <1>0, <2>1 DEF Tuples
    <3>3. QED BY <3>1, <3>2, TypeParts
  <2>5. Modes' BY <1>0, <2>1 DEF Modes
  <2>6. Pace' BY <1>0, <2>1 DEF Pace, Last
  <2>7. Stamps' /\ Datetimes' BY <1>0, <2>1, <2>3 DEF Stamps, Datetimes
  <2>8. QED BY <2>1, <2>3, <2>4, <2>5, <2>6, <2>7, SameCycles DEF IInv
<1>2. CASE StartDaemon
  <2>1. /\ phase = "start" /\ phase' = "test" /\ mode' = "daemon"
        /\ now' = now + 0 /\ UNCHANGED <<offset, jumps, nowT, startTs, endTs, period, cycles>>
        /\ span' \in Spans /\ startT' = now + offset
        /\ waitSeconds' = GetSeconds(SetSeconds(Seconds(span')))
    BY <1>2 DEF StartDaemon, Pass, Clock
  <2>2. cycles = <<>> BY <1>0, <2>1 DEF Modes
  <2>3. span' \in Nat \X Nat \X Nat BY <2>1, PollerAssumption
  <2>4. -2147 <= waitSeconds' /\ waitSeconds' <= 2147 /\ waitSeconds' \in Int
    BY <2>1, <2>3, IntervalRange DEF InSeconds
  <2>5. waitSeconds' \in Int BY <2>4
  <2>6. TypeOK'
    <3>1. Numbers' BY <1>0, <2>1, <2>4, <2>5 DEF Numbers, Phase, Mode
    <3>2. Tuples' BY <1>0, <2>1, <2>3 DEF Tuples
    <3>3. QED BY <3>1, <3>2, TypeParts
  <2>7. Modes' BY <1>0, <2>1, <2>2 DEF Modes
  <2>8. Pace' BY <2>1, <2>2 DEF Pace
  <2>9. Stamps' /\ Datetimes' BY <1>0, <2>1, <2>2 DEF Stamps, Datetimes, TypeOK
  <2>10. QED BY <2>1, <2>2, <2>6, <2>7, <2>8, <2>9, SameCycles DEF IInv
<1>3. CASE Test
  <2>1. /\ phase = "test" /\ phase' \in {"sleep", "done"}
        /\ now' = now + 0
        /\ UNCHANGED <<offset, jumps, mode, span, waitSeconds, startT, nowT, startTs,
                      endTs, period, cycles>>
    BY <1>3 DEF Test, Pass
  <2>2. now' = now BY <1>0, <2>1 DEF TypeOK
  <2>3. TypeOK'
    <3>1. Numbers' BY <1>0, <2>1, <2>2 DEF Numbers, Phase
    <3>2. Tuples' BY <1>0, <2>1 DEF Tuples
    <3>3. QED BY <3>1, <3>2, TypeParts
  <2>4. Modes' BY <1>0, <2>1 DEF Modes
  <2>5. Pace' BY <1>0, <2>1, <2>2 DEF Pace, Last
  <2>6. Stamps' /\ Datetimes' BY <1>0, <2>1, <2>2 DEF Stamps, Datetimes, Last
  <2>7. QED BY <2>1, <2>3, <2>4, <2>5, <2>6, SameCycles DEF IInv
<1>4. CASE Sleep
  <2>1. PICK d \in Delay :
          /\ phase = "sleep" /\ phase' = "woken" /\ now' = now + (waitSeconds + d)
          /\ UNCHANGED <<offset, jumps>>
    BY <1>4 DEF Sleep, Pass
  <2>2. waitSeconds >= 0 /\ UNCHANGED <<mode, span, waitSeconds, startT, nowT,
                                         startTs, endTs, period, cycles>>
    BY <1>4 DEF Sleep
  <2>3. /\ now \in Nat /\ waitSeconds \in Int /\ startT \in Int
        /\ d \in Nat /\ d <= MaxDelay /\ MaxDelay \in Nat
    BY <1>0, DelayFacts DEF TypeOK
  <2>4. TypeOK'
    <3>1. Numbers' BY <1>0, <2>1, <2>2, <2>3 DEF Numbers, Phase
    <3>2. Tuples' BY <1>0, <2>2 DEF Tuples
    <3>3. QED BY <3>1, <3>2, TypeParts
  <2>5. Modes' BY <1>0, <2>1, <2>2 DEF Modes
  <2>6. Last' = Last BY <2>2 DEF Last
  <2>7. cycles # <<>> => Last.to \in Int
    BY <1>0, CycleFacts DEF Last, Cycle
  <2>8. Pace' BY <1>0, <2>1, <2>2, <2>3, <2>6, <2>7 DEF Pace
  <2>9. Stamps' /\ Datetimes' BY <1>0, <2>1, <2>2, <2>3, <2>6 DEF Stamps, Datetimes
  <2>10. QED BY <2>1, <2>2, <2>4, <2>5, <2>8, <2>9, SameCycles DEF IInv
<1>5. CASE TakeTime
  <2>1. /\ phase = "woken" /\ phase' = "query" /\ now' = now + 0
        /\ nowT' = now + offset
        /\ startTs' = LocalTime(startT) /\ endTs' = LocalTime(nowT')
        /\ UNCHANGED <<offset, jumps, mode, span, waitSeconds, startT, period, cycles>>
    BY <1>5 DEF FromCtime, TakeTime, Pass, Clock
  <2>2. now' = now /\ nowT' \in Int /\ startT \in Int BY <1>0, <2>1 DEF TypeOK
  <2>3. TypeOK'
    <3>1. startTs' \in Int /\ endTs' \in Int BY <2>1, <2>2, LocalTimeType
    <3>2. Numbers' BY <1>0, <2>1, <2>2, <3>1 DEF Numbers, Phase
    <3>3. Tuples' BY <1>0, <2>1 DEF Tuples
    <3>4. QED BY <3>2, <3>3, TypeParts
  <2>4. Modes' BY <1>0, <2>1 DEF Modes
  <2>5. Pace' BY <1>0, <2>1, <2>2 DEF Pace, Last
  <2>6. offset = 0 => nowT' = now BY <1>0, <2>1 DEF TypeOK
  <2>7. Stamps' BY <1>0, <2>1, <2>2, <2>6 DEF Stamps, Last
  <2>8. Datetimes'
    <3>1. mode # "batch" BY <1>0, <2>1 DEF Modes
    <3>2. QED BY <2>1, <3>1 DEF Datetimes
  <2>9. mode = "daemon" BY <1>0, <2>1 DEF Modes
  <2>10. QED BY <2>1, <2>3, <2>4, <2>5, <2>7, <2>8, <2>9, SameCycles DEF IInv
<1>6. CASE StartBatch
  <2>1. PICK p \in Periods :
          /\ mode' = "batch" /\ period' = p /\ UNCHANGED <<span, cycles>>
          /\ IF WellFormed(p[1]) /\ WellFormed(p[2])
             THEN /\ Pass("start", "query", 0)
                  /\ startTs' = ParsedDatetime(p[1]) /\ startT' = ToCtime(startTs')
                  /\ endTs' = ParsedDatetime(p[2]) /\ nowT' = ToCtime(endTs')
                  /\ waitSeconds' = ToInt(nowT' - startT')
             ELSE /\ Pass("start", "done", 0)
                  /\ UNCHANGED <<waitSeconds, startT, nowT, startTs, endTs>>
    BY <1>6 DEF StartBatch
  <2>2. p \in Text \X Text /\ p[1] \in Text /\ p[2] \in Text BY PollerAssumption
  <2>3. /\ phase = "start" /\ phase' \in {"query", "done"}
        /\ now' = now + 0 /\ UNCHANGED <<offset, jumps>>
    BY <2>1 DEF Pass
  <2>4. cycles = <<>> BY <1>0, <2>3 DEF Modes
  <2>5. ASSUME WellFormed(p[1]) /\ WellFormed(p[2])
        PROVE  /\ startTs' \in Int /\ endTs' \in Int
               /\ startT' \in Int /\ nowT' \in Int /\ waitSeconds' \in Int
               /\ Datetimes'
    <3>1. ParsedDatetime(p[1]) \in Int /\ ParsedDatetime(p[2]) \in Int
      BY <2>2, <2>5, ParsedType
    <3>2. /\ startTs' = ParsedDatetime(p[1]) /\ startT' = startTs' - ZoneBase
          /\ endTs' = ParsedDatetime(p[2]) /\ nowT' = endTs' - ZoneBase
          /\ waitSeconds' = ToInt(nowT' - startT')
      BY <2>1, <2>5 DEF ToCtime, Mktime
    <3>3. ZoneBase \in Int BY TimesAssumption
    <3>4. /\ startT' \in Int /\ nowT' \in Int /\ waitSeconds' \in Int
          /\ waitSeconds' = ToInt(endTs' - startTs')
      <4>1. startT' \in Int /\ nowT' \in Int /\ nowT' - startT' \in Int
        BY <3>1, <3>2, <3>3, SMT
      <4>2. nowT' - startT' = endTs' - startTs' BY <3>1, <3>2, <3>3, SMT
      <4>3. ToInt(nowT' - startT') \in Int BY <4>1, IntFact
      <4>4. QED BY <3>2, <4>1, <4>2, <4>3
    <3>5. mode' = "batch" BY <2>1
    <3>6. QED BY <3>1, <3>2, <3>4, <3>5 DEF Datetimes
  <2>6. ASSUME ~(WellFormed(p[1]) /\ WellFormed(p[2]))
        PROVE  /\ startTs' \in Int /\ endTs' \in Int
               /\ startT' \in Int /\ nowT' \in Int /\ waitSeconds' \in Int
               /\ Datetimes'
    <3>1. phase' = "done" /\ UNCHANGED <<waitSeconds, startT, nowT, startTs, endTs>>
      BY <2>1, <2>6 DEF Pass
    <3>2. QED BY <1>0, <3>1 DEF Numbers, Datetimes
  <2>7. /\ startTs' \in Int /\ endTs' \in Int
        /\ startT' \in Int /\ nowT' \in Int /\ waitSeconds' \in Int
        /\ Datetimes'
    BY <2>5, <2>6
  <2>8. TypeOK'
    <3>1. Numbers' BY <1>0, <2>1, <2>3, <2>7 DEF Numbers, Phase, Mode
    <3>2. Tuples' BY <1>0, <2>1, <2>2 DEF Tuples
    <3>3. QED BY <3>1, <3>2, TypeParts
  <2>9. Modes' BY <1>0, <2>1, <2>3, <2>4 DEF Modes
  <2>10. Pace' BY <2>1, <2>4 DEF Pace
  <2>11. Stamps' BY <1>0, <2>1, <2>3 DEF Stamps
  <2>12. QED BY <2>1, <2>3, <2>4, <2>7, <2>8, <2>9, <2>10, <2>11, SameCycles DEF IInv
<1>7. CASE Query BY <1>7, QueryInv
<1>8. CASE Export
  <2>1. PICK d \in Delay :
          /\ phase = "export" /\ now' = now + d
          /\ phase' = IF mode = "daemon" THEN "test" ELSE "done"
          /\ UNCHANGED <<offset, jumps>>
    BY <1>8 DEF Export, Pass
  <2>2. /\ startT' = nowT
        /\ UNCHANGED <<mode, span, waitSeconds, nowT, startTs, endTs, period, cycles>>
    BY <1>8 DEF Export
  <2>3. now \in Nat /\ d \in Nat /\ d <= MaxDelay /\ MaxDelay \in Nat /\ nowT \in Int
    BY <1>0, DelayFacts DEF TypeOK
  <2>4. TypeOK'
    <3>1. Numbers' BY <1>0, <2>1, <2>2, <2>3 DEF Numbers, Phase
    <3>2. Tuples' BY <1>0, <2>2 DEF Tuples
    <3>3. QED BY <3>1, <3>2, TypeParts
  <2>5. Modes' BY <1>0, <2>1, <2>2 DEF Modes
  <2>6. Last' = Last BY <2>2 DEF Last
  <2>7. cycles # <<>> => Last.to \in Int
    BY <1>0, CycleFacts DEF Last, Cycle
  <2>8. Pace' BY <1>0, <2>1, <2>2, <2>3, <2>6, <2>7 DEF Pace
  <2>9. cycles # <<>> BY <1>0, <2>1 DEF Modes
  <2>10. Stamps' /\ Datetimes' BY <1>0, <2>1, <2>2, <2>3, <2>6, <2>9 DEF Stamps, Datetimes
  <2>11. QED BY <2>1, <2>2, <2>4, <2>5, <2>8, <2>10, SameCycles DEF IInv
<1>9. CASE UNCHANGED vars
  <2>1. UNCHANGED <<now, offset, jumps, phase, mode, span, waitSeconds, startT,
                    nowT, startTs, endTs, period, cycles>>
    BY <1>9 DEF vars
  <2>2. Numbers' /\ Tuples' BY <1>0, <2>1 DEF Numbers, Tuples
  <2>3. Modes' /\ Pace' /\ Stamps' /\ Datetimes'
    BY <1>0, <2>1 DEF Modes, Pace, Stamps, Datetimes, Last
  <2>4. QED BY <2>1, <2>2, <2>3, TypeParts, SameCycles DEF IInv
<1>10. QED BY <1>1, <1>2, <1>3, <1>4, <1>5, <1>6, <1>7, <1>8, <1>9 DEF Next

\* The invariant holds in every reachable state.
THEOREM Invariance == Spec => []IInv
BY InitInv, StepInv, PTL DEF Spec

\* Type correctness; in particular the daemon's interval, computed through an
\* int of microseconds (types.h 53-58), is one of at most 2147 seconds.
THEOREM TypeCorrect == Spec => []TypeOK
<1>1. IInv => TypeOK BY DEF IInv
<1>2. QED BY Invariance, <1>1, PTL

\* Whatever the interval, the delays and the clock, no two queries of
\* nvipfix.c 264-274 ask for the same moment.
THEOREM AskedOnce == Spec => []NoMomentTwice
<1>1. IInv => NoMomentTwice BY DEF IInv
<1>2. QED BY Invariance, <1>1, PTL

\* What successive queries leave out is bounded by the delays of one cycle.
THEOREM MissedBounded == Spec => []MissesOnlyDelays
<1>1. IInv => MissesOnlyDelays BY DEF IInv
<1>2. QED BY Invariance, <1>1, PTL

\* Stamps cover the period asked for as long as nobody sets the clock.
THEOREM StampsCover == Spec => []StampsFit
<1>1. IInv => StampsFit BY DEF IInv
<1>2. QED BY Invariance, <1>1, PTL

\* A daemon exports local times: records are stamped from late to early only
\* across the end of summer, and successive exports meet in every season.
THEOREM StampsOrdered == Spec => []StampsInOrder
<1>1. IInv => StampsInOrder
  <2> SUFFICES ASSUME IInv, mode = "daemon", jumps = 0
      PROVE  /\ \A i \in DOMAIN cycles :
                  LET c == cycles[i] IN
                  InU32(FromCtime(c.start)) /\ InU32(FromCtime(c.end)) =>
                  /\ Summer(c.start) = Summer(c.end) => c.last - c.first = c.end - c.start
                  /\ c.last < c.first => Summer(c.start) /\ ~Summer(c.end)
                  /\ c.last - c.first > c.end - c.start => ~Summer(c.start) /\ Summer(c.end)
             /\ \A i \in 1 .. Len(cycles) - 1 : cycles[i].last = cycles[i + 1].first
    BY DEF StampsInOrder
  <2>1. TypeOK /\ Exported /\ StampsFit BY DEF IInv
  <2>2. /\ DOMAIN cycles = 1 .. Len(cycles) /\ Len(cycles) \in Nat
        /\ \A i \in 1 .. Len(cycles) : cycles[i] \in Cycle
    BY <2>1, CycleFacts
  <2>3. ZoneBase \in Int /\ Epoch \in Int BY TimesAssumption, EpochFact
  <2>4. ASSUME NEW i \in DOMAIN cycles
        PROVE  LET c == cycles[i] IN
               InU32(FromCtime(c.start)) /\ InU32(FromCtime(c.end)) =>
               /\ Summer(c.start) = Summer(c.end) => c.last - c.first = c.end - c.start
               /\ c.last < c.first => Summer(c.start) /\ ~Summer(c.end)
               /\ c.last - c.first > c.end - c.start => ~Summer(c.start) /\ Summer(c.end)
    <3> DEFINE c == cycles[i]
    <3> SUFFICES ASSUME InU32(LocalTime(c.start)), InU32(LocalTime(c.end))
        PROVE  /\ Summer(c.start) = Summer(c.end) => c.last - c.first = c.end - c.start
               /\ c.last < c.first => Summer(c.start) /\ ~Summer(c.end)
               /\ c.last - c.first > c.end - c.start => ~Summer(c.start) /\ Summer(c.end)
      BY DEF FromCtime
    <3>1. c.start \in Int /\ c.end \in Int BY <2>2, <2>4 DEF Cycle
    <3>2. LocalTime(c.start) \in Int /\ LocalTime(c.end) \in Int BY <3>1, LocalTimeType
    <3>3. /\ c.first = SecondsSinceEpoch(LocalTime(c.start))
          /\ c.last = SecondsSinceEpoch(LocalTime(c.end))
          /\ c.start <= c.end
      BY <2>1, <2>4 DEF Exported
    <3>4. c.first = LocalTime(c.start) - Epoch /\ c.last = LocalTime(c.end) - Epoch
      BY <3>2, <3>3, EpochFact
    <3> HIDE DEF c
    <3>5. QED BY <3>1, <3>3, <3>4, SeasonStamps
  <2>5. ASSUME NEW i \in 1 .. Len(cycles) - 1 PROVE cycles[i].last = cycles[i + 1].first
    <3>1. i \in DOMAIN cycles /\ i + 1 \in DOMAIN cycles BY <2>2
    <3>2. cycles[i].end = cycles[i + 1].start BY <2>1 DEF StampsFit
    <3>3. QED BY <2>1, <3>1, <3>2 DEF Exported
  <2>6. QED BY <2>4, <2>5
<1>2. QED BY Invariance, <1>1, PTL

\* The period a batch run asks for is as long as the one it exports.
THEOREM BatchAsked == Spec => []BatchSpan
<1>1. IInv => BatchSpan BY DEF IInv
<1>2. QED BY Invariance, <1>1, PTL

(***************************************************************************)
(* What the documentation says of the interval and of a batch run's times, *)
(* and where it is so: the interval is the one in the configuration, as    *)
(* converted, and the datetimes are those of the texts, as parsed.         *)
(***************************************************************************)
IntervalInv ==
  mode = "daemon" => waitSeconds = GetSeconds(SetSeconds(Seconds(span)))

BatchInv ==
  mode = "batch" /\ phase = "query" =>
    /\ startTs = ParsedDatetime(period[1])
    /\ endTs = ParsedDatetime(period[2])

\* Up to 2147 seconds, nothing is lost in an int of microseconds.
LEMMA ShortInterval ==
  ASSUME NEW n \in Nat, n <= 2147
  PROVE  GetSeconds(SetSeconds(n)) = n
<1> DEFINE x == n * 15625
<1>1. x \in Nat /\ x <= 33546875 BY SMT
<1>2. x \div 15625 = n BY SMT
<1> HIDE DEF x
<1>3. (x + 33554432) % 67108864 = x + 33554432 BY <1>1, SMT
<1>4. IntSpan \div 2 = 33554432 BY SMT DEF IntSpan
<1>5. AsInt(x) = x BY <1>1, <1>3, <1>4, SMT DEF AsInt, IntSpan
<1>6. GetSeconds(x) = n BY <1>1, <1>2 DEF GetSeconds, Second
<1>7. SetSeconds(n) = x BY <1>5 DEF SetSeconds, Second, x
<1>8. QED BY <1>6, <1>7

LEMMA WrittenStep == IInv /\ IntervalInv /\ BatchInv /\ [Next]_vars => IntervalInv' /\ BatchInv'
<1> SUFFICES ASSUME IInv, IntervalInv, BatchInv, [Next]_vars PROVE IntervalInv' /\ BatchInv'
  OBVIOUS
<1>1. Modes BY DEF IInv
<1>2. CASE StartDaemon
  <2>1. mode' = "daemon" /\ waitSeconds' = GetSeconds(SetSeconds(Seconds(span')))
    BY <1>2 DEF StartDaemon
  <2>2. QED BY <2>1 DEF IntervalInv, BatchInv
<1>3. CASE StartBatch
  <2>1. PICK p \in Periods :
          /\ mode' = "batch" /\ period' = p
          /\ WellFormed(p[1]) /\ WellFormed(p[2]) =>
               startTs' = ParsedDatetime(p[1]) /\ endTs' = ParsedDatetime(p[2])
          /\ ~(WellFormed(p[1]) /\ WellFormed(p[2])) => phase' = "done"
    BY <1>3 DEF StartBatch, Pass
  <2>2. QED BY <2>1 DEF IntervalInv, BatchInv
<1>4. CASE TakeTime
  <2>1. mode = "daemon" /\ UNCHANGED <<mode, span, waitSeconds>>
    BY <1>1, <1>4 DEF Modes, TakeTime, Pass
  <2>2. QED BY <2>1 DEF IntervalInv, BatchInv
<1>5. CASE SetClock \/ Test \/ Sleep \/ Query \/ Export \/ UNCHANGED vars
  <2>1. /\ UNCHANGED <<mode, span, waitSeconds, period, startTs, endTs>>
        /\ phase' = phase \/ phase' # "query"
    BY <1>5 DEF SetClock, Test, Sleep, Query, Export, Pass, vars
  <2>2. QED BY <2>1 DEF IntervalInv, BatchInv
<1>6. QED BY <1>2, <1>3, <1>4, <1>5 DEF Next

LEMMA Written == Spec => [](IInv /\ IntervalInv /\ BatchInv)
<1>1. Init => IntervalInv /\ BatchInv BY DEF Init, IntervalInv, BatchInv
<1>2. IInv /\ IntervalInv /\ BatchInv /\ [Next]_vars => IntervalInv' /\ BatchInv'
  BY WrittenStep
<1>3. QED BY <1>1, <1>2, Invariance, PTL DEF Spec

\* A daemon's interval is the one the user wrote exactly if that is one of at
\* most 2147 seconds, 35 minutes and 47 seconds (types.h 53-58, nvipfix.c 258).
THEOREM IntervalKept ==
  Spec => [](mode = "daemon" => (IntervalAsWritten <=> Seconds(span) <= 2147))
<1>1. ASSUME IInv, IntervalInv, mode = "daemon"
      PROVE  waitSeconds = Seconds(span) <=> Seconds(span) <= 2147
  <2>1. span \in Nat \X Nat \X Nat BY <1>1 DEF IInv, TypeOK
  <2>2. Seconds(span) \in Nat BY <2>1, SMT DEF Seconds
  <2>3. waitSeconds = GetSeconds(SetSeconds(Seconds(span))) BY <1>1 DEF IntervalInv
  <2>4. Seconds(span) <= 2147 => waitSeconds = Seconds(span) BY <2>2, <2>3, ShortInterval
  <2>5. waitSeconds <= 2147 BY <1>1 DEF IInv, TypeOK
  <2>6. QED BY <2>4, <2>5
<1>2. IInv /\ IntervalInv => (mode = "daemon" => (IntervalAsWritten <=> Seconds(span) <= 2147))
  BY <1>1 DEF IntervalAsWritten
<1>3. QED BY <1>2, Written, PTL

\* A text in which no part is an 08 or an 09: none reads as an octal number.
NoEightNine(text) == \A i \in 1 .. 2 : \A j \in 1 .. 3 : text[i][j] \notin {8, 9}

LEMMA ParsedAsWritten ==
  ASSUME NEW text, NoEightNine(text)
  PROVE  ParsedDatetime(text) = DatetimeOf(text[1], text[2])
<1> DEFINE a == [i \in 1 .. 3 |-> ReadPart(text[1][i])]
           b == [i \in 1 .. 3 |-> ReadPart(text[2][i])]
<1>1. /\ a[1] = text[1][1] /\ a[2] = text[1][2] /\ a[3] = text[1][3]
      /\ b[1] = text[2][1] /\ b[2] = text[2][2] /\ b[3] = text[2][3]
  BY DEF NoEightNine, ReadPart
<1>2. ParsedDatetime(text) = DatetimeOf(a, b) BY DEF ParsedDatetime
<1> HIDE DEF a, b
<1>3. QED BY <1>1, <1>2 DEF DatetimeOf

\* The times of a batch run are those the user wrote, in any zone and for any
\* date the calendar has or has not, unless a month, day, hour, minute or second
\* is written 08 or 09 (NVIPFIX_PARSE_UINT, nvipfix_parse_datetime_iso8601).
THEOREM BatchTimesKept ==
  Spec => [](NoEightNine(period[1]) /\ NoEightNine(period[2]) => BatchTimesAsWritten)
<1>1. BatchInv => (NoEightNine(period[1]) /\ NoEightNine(period[2]) => BatchTimesAsWritten)
  BY ParsedAsWritten DEF BatchInv, BatchTimesAsWritten
<1>2. QED BY <1>1, Written, PTL
=============================================================================
