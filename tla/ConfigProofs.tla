---------------------------- MODULE ConfigProofs ----------------------------
(***************************************************************************)
(* Proofs about Config, for files of any length, lists up to any bound,    *)
(* and allocations that fail or not.                                       *)
(***************************************************************************)
EXTENDS Config, SequenceTheorems, TLAPS

Step ==
  \/ OpenFile \/ EndLine \/ EndFile \/ OpenBrace \/ CloseBrace
  \/ (\E w \in Words : FirstWord(w)) \/ (\E w \in Words : SecondWord(w))
  \/ ExtraWord \/ EmptyToken \/ Cleanup

LEMMA NextIsStep == Next => Step
BY DEF Next, Step

-----------------------------------------------------------------------------
(***************************************************************************)
(* What the handlers do to the structure and the list.                     *)
(***************************************************************************)
\* The strings a parse can store are strings.
LEMMA StringFacts == ASSUME NEW w PROVE ParsedString(w) \subseteq Strings
BY DEF ParsedString, Strings

\* A closing brace leaves everything alone, or pushes one copy of a structure
\* that has a host or an address on the list.
LEMMA AddFacts ==
  ASSUME TypeOK, AddCollector
  PROVE  \/ UNCHANGED <<collector, shared, list>>
         \/ /\ collector' \in Collector
            /\ shared' \subseteq StringFields
            /\ list' = <<shared'>> \o list
            /\ collector.host # "null" \/ collector.ip
<1> USE DEF TypeOK, Collector, StringFields
<1>1. CASE UNCHANGED <<collector, shared, list>> BY <1>1
<1>2. CASE ~UNCHANGED <<collector, shared, list>>
  <2>1. collector.host # "null" \/ collector.ip BY <1>2 DEF AddCollector
  <2>2. PICK port \in IF collector.port = "null" THEN ParsedString(DefaultPort)
                      ELSE {collector.port} :
          collector' = [collector EXCEPT
            !.port = port,
            !.transport = IF @ = "undefined" THEN "udp" ELSE @]
    BY <1>2, <2>1 DEF AddCollector
  <2>3. port \in Strings BY StringFacts
  <2>4. collector' \in Collector
    BY <2>2, <2>3 DEF Transports, TransportWords
  <2>5. list' = <<shared'>> \o list /\ shared' \subseteq StringFields
    BY <1>2, <2>1 DEF AddCollector
  <2>6. QED BY <2>1, <2>4, <2>5
<1>3. QED BY <1>1, <1>2

\* Nothing of the structure but its name changes.
OnlyNameMoves ==
  /\ collector'.host = collector.host /\ collector'.ip = collector.ip
  /\ collector'.port = collector.port
  /\ collector'.transport = collector.transport

\* A value keeps the types, touches nothing but the name while the setting is
\* "collector", and never adds to the shared strings.
LEMMA ParseFacts ==
  ASSUME TypeOK, NEW w, ParseValue(w)
  PROVE  /\ collector' \in Collector /\ switch' \in Strings
         /\ interval' \in {"default", "configured"}
         /\ shared' \subseteq shared
         /\ setting \in {"none", "collector"} => OnlyNameMoves
<1> USE DEF TypeOK, Collector
<1>1. CASE UNCHANGED <<collector, shared, switch, interval>>
  BY <1>1 DEF OnlyNameMoves
<1>2. CASE setting # "none" /\ ParseIntoCollector(w)
  <2>1. CASE FieldOf(setting) \in StringFields
    <3>1. PICK s \in ParsedString(w) : collector' = [collector EXCEPT ![FieldOf(setting)] = s]
      BY <1>2, <2>1 DEF ParseIntoCollector
    <3>2. s \in Strings BY StringFacts
    <3>3. /\ shared' = shared \ {FieldOf(setting)}
          /\ UNCHANGED <<switch, interval>>
      BY <1>2, <2>1 DEF ParseIntoCollector
    <3>4. collector' \in Collector BY <2>1, <3>1, <3>2 DEF StringFields
    <3>5. setting = "collector" => OnlyNameMoves
      BY <3>1 DEF FieldOf, OnlyNameMoves
    <3>6. QED BY <1>2, <3>3, <3>4, <3>5
  <2>2. CASE FieldOf(setting) \notin StringFields
    <3>1. setting # "collector" BY <2>2 DEF FieldOf, StringFields
    <3>2. PICK ip \in IF setting = "collector-ip-address"
                      THEN ParsedAddress(w, collector.ip) ELSE {collector.ip} :
            collector' = [collector EXCEPT
              !.ip = ip,
              !.transport = IF setting = "transport" THEN ParsedTransport(w, @) ELSE @]
      BY <1>2, <2>2 DEF ParseIntoCollector
    <3>3. ip \in BOOLEAN BY DEF ParsedAddress
    <3>4. ParsedTransport(w, collector.transport) \in Transports
      BY DEF ParsedTransport, Transports
    <3>5. collector' \in Collector BY <3>2, <3>3, <3>4
    <3>6. UNCHANGED <<shared, switch, interval>>
      BY <1>2, <2>2 DEF ParseIntoCollector
    <3>7. QED BY <1>2, <3>1, <3>5, <3>6
  <2>3. QED BY <2>1, <2>2
<1>3. CASE ParseIntoGlobal(w)
  <2>1. switch' \in Strings
    <3>1. ParsedString(w) \subseteq Strings BY StringFacts
    <3>2. QED BY <1>3, <3>1 DEF ParseIntoGlobal
  <2>2. interval' \in {"default", "configured"} BY <1>3 DEF ParseIntoGlobal
  <2>3. UNCHANGED <<collector, shared>> BY <1>3 DEF ParseIntoGlobal
  <2>4. QED BY <2>1, <2>2, <2>3 DEF OnlyNameMoves
<1>4. QED BY <1>1, <1>2, <1>3 DEF ParseValue

-----------------------------------------------------------------------------
(***************************************************************************)
(* The inductive invariant.  The properties alone are not inductive: an    *)
(* opening brace takes the block from id, so what keeps a cleared and      *)
(* empty structure behind "collector" has to be known of id as well.       *)
(***************************************************************************)
SettingIsId == setting # "none" => id = setting

CollectorIdIsEmpty ==
  id = "collector" =>
    /\ cleared /\ shared = {}
    /\ collector.host = "null" /\ ~collector.ip
    /\ collector.port = "null" /\ collector.transport = "undefined"

BlockOwnsNothing == parentId = "collector" => cleared /\ shared = {}

IInv ==
  /\ TypeOK /\ SettingIsId /\ CollectorIdIsEmpty /\ BlockOwnsNothing
  /\ ValueGoesToItsBlock

LEMMA InitIInv == Init => IInv
<1> SUFFICES ASSUME Init PROVE IInv OBVIOUS
<1>1. TypeOK
  <2>1. list \in Seq(SUBSET StringFields) /\ shared \subseteq StringFields
    BY EmptySeq DEF Init
  <2>2. tokenIndex \in 0 .. 3 /\ switch \in Strings BY DEF Init, Strings
  <2>3. QED BY <2>1, <2>2 DEF Init, TypeOK
<1>2. /\ SettingIsId /\ CollectorIdIsEmpty /\ BlockOwnsNothing
      /\ ValueGoesToItsBlock
  BY DEF Init, SettingIsId, CollectorIdIsEmpty, BlockOwnsNothing,
     ValueGoesToItsBlock
<1>3. QED BY <1>1, <1>2 DEF IInv

\* Every variable keeps its type.
LEMMA TypeStep == ASSUME TypeOK, Step PROVE TypeOK'
<1> USE DEF TypeOK, NewLine
<1>1. CASE OpenFile BY <1>1 DEF OpenFile
<1>2. CASE EndLine BY <1>2 DEF EndLine
<1>3. CASE EndFile BY <1>3 DEF EndFile
<1>4. CASE OpenBrace BY <1>4 DEF OpenBrace
<1>5. CASE CloseBrace
  <2>1. /\ collector' \in Collector /\ shared' \subseteq StringFields
        /\ list' \in Seq(SUBSET StringFields)
    <3>1. CASE UNCHANGED <<collector, shared, list>> BY <3>1
    <3>2. CASE ~UNCHANGED <<collector, shared, list>>
      <4>1. AddCollector BY <1>5, <3>2 DEF CloseBrace
      <4>2. /\ collector' \in Collector /\ shared' \subseteq StringFields
            /\ list' = <<shared'>> \o list
        BY <3>2, <4>1, AddFacts
      <4>3. <<shared'>> \in Seq(SUBSET StringFields) BY <4>2
      <4>4. list' \in Seq(SUBSET StringFields) BY <4>2, <4>3, ConcatProperties
      <4>5. QED BY <4>2, <4>4
    <3>3. QED BY <3>1, <3>2
  <2>2. QED BY <1>5, <2>1 DEF CloseBrace
<1>6. CASE \E w \in Words : FirstWord(w)
  <2>1. PICK w \in Words : FirstWord(w) BY <1>6
  <2>2. setting' \in Names \cup {"none"} BY <2>1 DEF FirstWord, GetSetting
  <2>3. Zero \in Collector
    BY DEF Zero, Collector, Strings, Transports
  <2>4. "collector" \in Names BY DEF Names, GlobalSettings
  <2>5. collector' \in Collector /\ cleared' \in BOOLEAN
        /\ shared' \subseteq StringFields /\ parentId' \in Names \cup {"none"}
    BY <2>1, <2>3, <2>4 DEF FirstWord
  <2>6. id' \in Names \cup {"none"} /\ tokenIndex' \in 0 .. 3
    BY <2>1, <2>2 DEF FirstWord
  <2>7. QED BY <2>1, <2>2, <2>5, <2>6 DEF FirstWord
<1>7. CASE \E w \in Words : SecondWord(w)
  <2>1. PICK w \in Words : SecondWord(w) BY <1>7
  <2>2. ParseValue(w) BY <2>1 DEF SecondWord
  <2>3. QED BY <2>1, <2>2, ParseFacts DEF SecondWord
<1>8. CASE ExtraWord BY <1>8 DEF ExtraWord
<1>9. CASE EmptyToken
  <2>1. CASE tokenIndex = 1
    <3>1. ParseValue("") BY <1>9, <2>1 DEF EmptyToken
    <3>2. /\ collector' \in Collector /\ switch' \in Strings
          /\ interval' \in {"default", "configured"} /\ shared' \subseteq shared
      BY <3>1, ParseFacts
    <3>3. tokenIndex' = 0 /\ setting' = "none" BY <1>9, Zenon DEF EmptyToken
    <3>4. shared' \subseteq StringFields BY <3>2
    <3>5. UNCHANGED <<phase, id, parentId, list, cleared>> BY <1>9 DEF EmptyToken
    <3>6. QED BY <3>2, <3>3, <3>4, <3>5
  <2>2. CASE tokenIndex # 1 BY <1>9, <2>2 DEF EmptyToken
  <2>3. QED BY <2>1, <2>2
<1>10. CASE Cleanup BY <1>10 DEF Cleanup, Strings
<1>11. QED
  BY <1>1, <1>2, <1>3, <1>4, <1>5, <1>6, <1>7, <1>8, <1>9, <1>10 DEF Step

\* What a parse does to the rest of the invariant: CollectorIdIsEmpty survives
\* because a setting other than "collector" has moved id on.
LEMMA ParseKeeps ==
  ASSUME IInv, NEW w, ParseValue(w), UNCHANGED <<id, parentId, cleared>>
  PROVE  CollectorIdIsEmpty' /\ BlockOwnsNothing'
<1>1. TypeOK BY DEF IInv
<1>2. /\ shared' \subseteq shared
      /\ setting \in {"none", "collector"} => OnlyNameMoves
  BY <1>1, ParseFacts
<1>3. id = "collector" => setting \in {"none", "collector"}
  BY DEF IInv, SettingIsId
<1>4. QED
  BY <1>2, <1>3 DEF IInv, CollectorIdIsEmpty, BlockOwnsNothing, OnlyNameMoves

LEMMA StepIInv == ASSUME IInv, Step PROVE IInv'
<1>0. TypeOK /\ TypeOK' BY TypeStep DEF IInv
<1> SUFFICES /\ SettingIsId' /\ CollectorIdIsEmpty' /\ BlockOwnsNothing'
             /\ ValueGoesToItsBlock'
  BY <1>0 DEF IInv
<1> USE DEF SettingIsId, ValueGoesToItsBlock, NewLine
<1>1. CASE OpenFile
  BY <1>1 DEF OpenFile, IInv, CollectorIdIsEmpty, BlockOwnsNothing
<1>2. CASE EndLine
  BY <1>2 DEF EndLine, IInv, CollectorIdIsEmpty, BlockOwnsNothing
<1>3. CASE EndFile
  BY <1>3 DEF EndFile, IInv, CollectorIdIsEmpty, BlockOwnsNothing
<1>4. CASE OpenBrace
  BY <1>4 DEF OpenBrace, IInv, CollectorIdIsEmpty, BlockOwnsNothing
<1>5. CASE CloseBrace
  <2>1. CASE UNCHANGED <<collector, shared, list>>
    BY <1>5, <2>1 DEF CloseBrace, IInv, CollectorIdIsEmpty, BlockOwnsNothing
  <2>2. CASE ~UNCHANGED <<collector, shared, list>>
    <3>1. collector.host # "null" \/ collector.ip
      BY <1>0, <1>5, <2>2, AddFacts DEF CloseBrace
    <3>2. id # "collector" BY <3>1 DEF IInv, CollectorIdIsEmpty
    <3>3. QED
      BY <1>5, <3>2 DEF CloseBrace, IInv, CollectorIdIsEmpty, BlockOwnsNothing
  <2>3. QED BY <2>1, <2>2
<1>6. CASE \E w \in Words : FirstWord(w)
  <2>1. PICK w \in Words : FirstWord(w) BY <1>6
  <2>2. setting' # "none" => setting' \in Names /\ Parent(setting') = parentId
    BY <2>1 DEF FirstWord, GetSetting
  <2>3. CASE setting' = "collector"
    BY <2>1, <2>3 DEF FirstWord, IInv, CollectorIdIsEmpty, BlockOwnsNothing, Zero
  <2>4. CASE setting' = "none"
    BY <2>1, <2>4 DEF FirstWord, IInv, CollectorIdIsEmpty, BlockOwnsNothing
  <2>5. CASE setting' \notin {"none", "collector"}
    BY <2>1, <2>2, <2>5 DEF FirstWord, IInv, CollectorIdIsEmpty,
       BlockOwnsNothing, Parent
  <2>6. QED BY <2>3, <2>4, <2>5
<1>7. CASE \E w \in Words : SecondWord(w)
  <2>1. PICK w \in Words : SecondWord(w) BY <1>7
  <2>2. CollectorIdIsEmpty' /\ BlockOwnsNothing'
    BY <2>1, ParseKeeps DEF SecondWord
  <2>3. QED BY <2>1, <2>2 DEF SecondWord, IInv
<1>8. CASE ExtraWord
  BY <1>8 DEF ExtraWord, IInv, CollectorIdIsEmpty, BlockOwnsNothing
<1>9. CASE EmptyToken
  <2>1. CollectorIdIsEmpty' /\ BlockOwnsNothing'
    <3>1. CASE tokenIndex = 1
      BY <1>9, <3>1, ParseKeeps DEF EmptyToken
    <3>2. CASE tokenIndex # 1
      BY <1>9, <3>2 DEF EmptyToken, IInv, CollectorIdIsEmpty, BlockOwnsNothing
    <3>3. QED BY <3>1, <3>2
  <2>2. QED BY <1>9, <2>1 DEF EmptyToken, IInv
<1>10. CASE Cleanup
  BY <1>10 DEF Cleanup, IInv, CollectorIdIsEmpty, BlockOwnsNothing
<1>11. QED
  BY <1>1, <1>2, <1>3, <1>4, <1>5, <1>6, <1>7, <1>8, <1>9, <1>10 DEF Step

-----------------------------------------------------------------------------
\* The inductive invariant, and with it the type invariant, always holds.
THEOREM Invariance == Spec => []IInv
<1>1. IInv /\ [Next]_vars => IInv'
  <2> SUFFICES ASSUME IInv, [Next]_vars PROVE IInv' OBVIOUS
  <2>1. CASE Next BY <2>1, NextIsStep, StepIInv
  <2>2. CASE UNCHANGED vars
    BY <2>2 DEF vars, IInv, TypeOK, SettingIsId, CollectorIdIsEmpty,
       BlockOwnsNothing, ValueGoesToItsBlock
  <2>3. QED BY <2>1, <2>2
<1>2. QED BY InitIInv, <1>1, PTL DEF Spec

\* The variables have their types for every file, list and failing allocation.
THEOREM TypeCorrect == Spec => []TypeOK
<1>1. IInv => TypeOK BY DEF IInv
<1>2. QED BY <1>1, Invariance, PTL

\* The structure is only used once "collector" has cleared it.
THEOREM Initialised == Spec => []BlockIsInitialised
<1>1. IInv => BlockIsInitialised
  BY DEF IInv, BlockOwnsNothing, BlockIsInitialised
<1>2. QED BY <1>1, Invariance, PTL

\* A value is stored where its setting belongs.
THEOREM RightBlock == Spec => []ValueGoesToItsBlock
<1>1. IInv => ValueGoesToItsBlock BY DEF IInv
<1>2. QED BY <1>1, Invariance, PTL

\* No two items of the list ever own the same string.
THEOREM NothingShared == Spec => NoSharedStrings
<1> DEFINE A == Len(list') > Len(list) => shared = {}
<1>1. IInv /\ [Next]_vars => [A]_vars
  <2> SUFFICES ASSUME IInv, Next, Len(list') > Len(list) PROVE shared = {}
    OBVIOUS
  <2>1. Step BY NextIsStep
  <2>2. list' # list BY DEF IInv, TypeOK
  <2>3. CASE CloseBrace
    BY <2>2, <2>3 DEF CloseBrace, IInv, BlockOwnsNothing
  <2>4. CASE Cleanup
    <3>1. Len(list') = 0 /\ Len(list) \in Nat
      BY <2>4 DEF Cleanup, IInv, TypeOK
    <3>2. QED BY <3>1
  <2>5. CASE ~CloseBrace /\ ~Cleanup
    BY <2>1, <2>2, <2>5 DEF Step, OpenFile, EndLine, EndFile, OpenBrace,
       FirstWord, SecondWord, ExtraWord, EmptyToken
  <2>6. QED BY <2>3, <2>4, <2>5
<1>2. QED BY <1>1, Invariance, PTL DEF Spec, NoSharedStrings

\* A block starts with nothing of an earlier one but a name, however it opens.
THEOREM StartsEmpty == Spec => BlockStartsEmpty
<1> DEFINE Entered == parentId # "collector" /\ parentId' = "collector"
           Empty   == \A f \in DOMAIN Zero \ {"name"} : collector'[f] = Zero[f]
<1>1. IInv /\ [Next]_vars => [Entered => Empty]_vars
  <2> SUFFICES ASSUME IInv, Next, Entered PROVE Empty OBVIOUS
  <2>1. Step BY NextIsStep
  <2>2. CASE OpenBrace
    <3>1. id = "collector" /\ UNCHANGED collector BY <2>2 DEF OpenBrace
    <3>2. /\ collector.host = "null" /\ ~collector.ip
          /\ collector.port = "null" /\ collector.transport = "undefined"
      BY <3>1 DEF IInv, CollectorIdIsEmpty
    <3>3. collector \in Collector BY DEF IInv, TypeOK
    <3>4. ~collector.ip => collector.ip = FALSE BY <3>3 DEF Collector
    <3>5. /\ collector'.host = Zero.host /\ collector'.ip = Zero.ip
          /\ collector'.port = Zero.port
          /\ collector'.transport = Zero.transport
      BY <3>1, <3>2, <3>4 DEF Zero
    <3>6. DOMAIN Zero \ {"name"} = {"host", "ip", "port", "transport"} BY DEF Zero
    <3>7. QED BY <3>5, <3>6
  <2>3. CASE \E w \in Words : FirstWord(w)
    <3>1. PICK w \in Words : FirstWord(w) BY <2>3
    <3>2. setting' = "collector" BY <3>1 DEF FirstWord
    <3>3. QED BY <3>1, <3>2 DEF FirstWord, Zero
  <2>4. CASE CloseBrace BY <2>4 DEF CloseBrace
  <2>5. CASE ~OpenBrace /\ ~CloseBrace /\ ~\E w \in Words : FirstWord(w)
    BY <2>1, <2>5 DEF Step, OpenFile, EndLine, EndFile, SecondWord, ExtraWord,
       EmptyToken, Cleanup
  <2>6. QED BY <2>2, <2>3, <2>4, <2>5
<1>2. QED BY <1>1, Invariance, PTL DEF Spec, BlockStartsEmpty

=============================================================================
