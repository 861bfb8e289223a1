------------------------------ MODULE CycleProofs ---------------------------
(***************************************************************************)
(* Proofs about NvcImport and about Cycle, which extends it, for any       *)
(* collectors, connections, limits and cycles, and every call and          *)
(* allocation failing: the daemon's cycle uses the importer and the        *)
(* exporter as their own specifications allow, so that what is proved of   *)
(* them holds of the whole, and no connection is lost that is not          *)
(* accounted for.                                                          *)
(***************************************************************************)
EXTENDS Cycle, DataListProofs

(***************************************************************************)
(* A query of the switch by itself, for any addresses and any limit.       *)
(* The inductive invariant: a list exists exactly while it has records,    *)
(* but for the loop that frees it; the loop is at the first record that is *)
(* left, and all that is left was exported; a query starts with no list.   *)
(***************************************************************************)
Early == {"idle", "init", "connect", "auth", "crashed"}

AllExported == \A r \in Listed : \E i \in DOMAIN exported : exported[i] = r

Phased ==
  /\ phase # "free" => Building
  /\ phase = "free" => Freeing /\ AllExported
  /\ phase \in Early => order = <<>>

IInv == TypeOK /\ WellLinked /\ SessionMatchesPhase /\ Phased

LEMMA InitIInv == Init => IInv
<1> SUFFICES ASSUME Init PROVE IInv OBVIOUS
<1>1. ListTypeOK /\ WellLinked /\ Building /\ order = <<>> BY ListStarts DEF Init
<1>2. TypeOK
  <2>1. <<>> \in Seq(Records) BY EmptySeq
  <2>2. 0 \in 0 .. Limit BY NvcImportAssumption
  <2>3. QED BY <1>1, <2>1, <2>2 DEF TypeOK, Init, Phases, Levels
<1>3. SessionMatchesPhase BY DEF Init, SessionMatchesPhase
<1>4. Phased BY <1>1 DEF Init, Phased
<1>5. QED BY <1>1, <1>2, <1>3, <1>4 DEF IInv

\* The steps that leave the list alone.
LEMMA CallStep ==
  ASSUME IInv,
         \/ StartCycle \/ NvcInit \/ Connect \/ Authenticate \/ QueryEnds
         \/ Logout \/ Disconnect \/ Done
  PROVE  IInv'
<1> USE NvcImportAssumption DEF IInv
<1>1. UNCHANGED listVars /\ UNCHANGED exported
  BY DEF StartCycle, NvcInit, Connect, Authenticate, QueryEnds, Logout,
     Disconnect, Done
<1>2. WellLinked' BY <1>1, SameList
<1>3. TypeOK' /\ SessionMatchesPhase'
  <2>1. ListTypeOK' /\ exported' \in Seq(Records)
    BY <1>1, SameList DEF TypeOK
  <2>2. 0 \in 0 .. Limit OBVIOUS
  <2> USE DEF TypeOK, SessionMatchesPhase, Phases, Levels
  <2>3. CASE StartCycle BY <2>1, <2>3 DEF StartCycle
  <2>4. CASE NvcInit BY <2>1, <2>4 DEF NvcInit
  <2>5. CASE Connect BY <2>1, <2>5 DEF Connect
  <2>6. CASE Authenticate BY <2>1, <2>2, <2>6 DEF Authenticate
  <2>7. CASE QueryEnds BY <2>1, <2>7 DEF QueryEnds
  <2>8. CASE Logout BY <2>1, <2>8 DEF Logout
  <2>9. CASE Disconnect BY <2>1, <2>9 DEF Disconnect
  <2>10. CASE Done BY <2>1, <2>10 DEF Done
  <2>11. QED BY <2>3, <2>4, <2>5, <2>6, <2>7, <2>8, <2>9, <2>10
<1>4. Phased'
  <2>1. phase # "free" /\ phase' # "free"
    BY DEF StartCycle, NvcInit, Connect, Authenticate, QueryEnds, Logout,
       Disconnect, Done
  <2>2. phase' \in Early => phase \in Early
    BY DEF Early, StartCycle, NvcInit, Connect, Authenticate, QueryEnds,
       Logout, Disconnect, Done
  <2>3. Building' BY <1>1, <2>1, SameList DEF Phased
  <2>4. order' = order BY <1>1 DEF listVars
  <2>5. QED BY <2>1, <2>2, <2>3, <2>4 DEF Phased
<1>5. QED BY <1>2, <1>3, <1>4

\* A callback, with or without memory.
LEMMA HandlerStep == ASSUME IInv, Handler PROVE IInv'
<1> USE DEF IInv
<1>1. /\ phase = "query" /\ callbacks < Limit /\ callbacks' = callbacks + 1
      /\ AddCopySucceeds \/ AddCopyFails
      /\ UNCHANGED <<phase, io, exported>>
  BY DEF Handler
<1>2. ListTypeOK /\ Building BY <1>1 DEF TypeOK, Phased
<1>3. ListTypeOK' /\ WellLinked' /\ Building'
  BY <1>1, <1>2, AddSucceeds, AddFails
<1>4. callbacks' \in 0 .. Limit BY <1>1, NvcImportAssumption DEF TypeOK
<1>5. TypeOK' BY <1>1, <1>3, <1>4 DEF TypeOK
<1>6. SessionMatchesPhase' BY <1>1 DEF SessionMatchesPhase
<1>7. Phased' BY <1>1, <1>3 DEF Phased, Early
<1>8. QED BY <1>3, <1>5, <1>6, <1>7

\* The export, and the start of the loop that frees the list.
LEMMA ExportStep == ASSUME IInv, Export PROVE IInv'
<1> USE DEF IInv
<1>1. /\ phase = "export" /\ phase' = "free" /\ FreeBegins
      /\ exported' = IF list THEN order ELSE <<>>
      /\ UNCHANGED <<io, callbacks>> /\ order' = order
  BY DEF Export, FreeBegins
<1>2. ListTypeOK /\ Building BY <1>1 DEF TypeOK, Phased
<1>3. ListTypeOK' /\ WellLinked' /\ Freeing' /\ Listed' = Listed BY <1>1, <1>2, FreeStarts
<1>4. AllExported'
  <2>1. exported' = order BY <1>1, <1>2 DEF Building
  <2>2. QED BY <1>3, <2>1 DEF AllExported, Listed
<1>5. exported' \in Seq(Records) BY <1>1, EmptySeq DEF TypeOK, ListTypeOK
<1>6. TypeOK' BY <1>1, <1>3, <1>5 DEF TypeOK, Phases
<1>7. SessionMatchesPhase' BY <1>1 DEF SessionMatchesPhase
<1>8. Phased' BY <1>1, <1>3, <1>4 DEF Phased, Early
<1>9. QED BY <1>3, <1>6, <1>7, <1>8

\* One turn of the loop.
LEMMA FreeLoopStep == ASSUME IInv, FreeLoop PROVE IInv'
<1> USE DEF IInv
<1>1. phase = "free" /\ FreeRecord /\ UNCHANGED <<phase, io, callbacks, exported>>
  BY DEF FreeLoop
<1>2. ListTypeOK /\ Freeing /\ AllExported BY <1>1 DEF TypeOK, Phased
<1>3. ListTypeOK' /\ WellLinked' /\ Freeing' BY <1>1, <1>2, FreeFirst
<1>4. AllExported'
  <2>1. live' \subseteq live /\ leaked' = leaked BY <1>1 DEF FreeRecord
  <2>2. Listed' \subseteq Listed BY <1>3, <2>1 DEF WellLinked
  <2>3. QED BY <1>1, <1>2, <2>2 DEF AllExported
<1>5. TypeOK' /\ SessionMatchesPhase'
  BY <1>1, <1>3 DEF TypeOK, SessionMatchesPhase
<1>6. Phased' BY <1>1, <1>3, <1>4 DEF Phased, Early
<1>7. QED BY <1>3, <1>5, <1>6

\* The end of the loop and of the cycle.
LEMMA EndCycleStep == ASSUME IInv, EndCycle PROVE IInv'
<1> USE DEF IInv
<1>1. /\ phase = "free" /\ phase' = "idle" /\ exported' = <<>> /\ FreeHeader
      /\ UNCHANGED <<io, callbacks>>
  BY DEF EndCycle
<1>2. ListTypeOK /\ Freeing BY <1>1 DEF TypeOK, Phased
<1>3. ListTypeOK' /\ WellLinked' /\ Building' /\ order' = <<>> BY <1>1, <1>2, FreeEnds
<1>4. TypeOK' BY <1>1, <1>3, EmptySeq DEF TypeOK, Phases
<1>5. SessionMatchesPhase' BY <1>1 DEF SessionMatchesPhase
<1>6. Phased' BY <1>1, <1>3 DEF Phased
<1>7. QED BY <1>3, <1>4, <1>5, <1>6

\* The inductive invariant holds in every reachable state.
THEOREM Invariance == Spec => []IInv
<1>1. IInv /\ [Next]_vars => IInv'
  <2> SUFFICES ASSUME IInv, [Next]_vars PROVE IInv' OBVIOUS
  <2>1. CASE Next
    BY <2>1, CallStep, HandlerStep, ExportStep, FreeLoopStep, EndCycleStep
       DEF Next
  <2>2. CASE UNCHANGED vars
    <3>1. UNCHANGED listVars /\ UNCHANGED <<phase, io, callbacks, exported>>
      BY <2>2 DEF vars
    <3>2. order' = order BY <3>1 DEF listVars
    <3>3. QED
      BY <3>1, <3>2, SameList
         DEF IInv, TypeOK, SessionMatchesPhase, Phased, AllExported
  <2>3. QED BY <2>1, <2>2
<1>2. QED BY <1>1, InitIInv, PTL DEF Spec

\* Type correctness.
THEOREM TypeCorrect == Spec => []TypeOK
<1>1. IInv => TypeOK BY DEF IInv
<1>2. QED BY <1>1, Invariance, PTL

\* Every way through the error labels closes the session as far as it got.
THEOREM SessionClosed == Spec => []SessionMatchesPhase
<1>1. IInv => SessionMatchesPhase BY DEF IInv
<1>2. QED BY <1>1, Invariance, PTL

\* The list is well linked, however addresses are reused.
THEOREM Linked == Spec => []WellLinked
<1>1. IInv => WellLinked BY DEF IInv
<1>2. QED BY <1>1, Invariance, PTL

\* In a state of the invariant the loop is at an allocated record, and only
\* leaked ones are allocated without a list.
LEMMA FreeSafe == IInv => FreeIsSafe
<1> SUFFICES ASSUME IInv PROVE FreeIsSafe OBVIOUS
<1>0. ListTypeOK BY DEF IInv, TypeOK
<1>1. cursor # Null => cursor \in live
  <2> SUFFICES ASSUME cursor # Null PROVE cursor \in live OBVIOUS
  <2>1. Freeing /\ WellLinked BY DEF IInv, Phased, Building
  <2>2. QED BY <1>0, <2>1, CursorLive
<1>2. ASSUME phase \in Early PROVE ~list /\ live = leaked
  <2>1. order = <<>> /\ Building BY <1>2 DEF IInv, Phased, Early
  <2>2. Listed = {} BY <1>0, <2>1, OrderFacts DEF Listed
  <2>3. QED BY <2>1, <2>2 DEF IInv, WellLinked, Building
<1>3. QED BY <1>1, <1>2 DEF FreeIsSafe, Early

\* The loop only looks at allocated records and leaves none of the list.
THEOREM FreedSafely == Spec => []FreeIsSafe
<1>1. QED BY FreeSafe, Invariance, PTL

\* A record that a step frees has been exported.
FreesExported ==
  \A r \in live : r \notin live' => \E i \in DOMAIN exported : exported[i] = r

LEMMA StepFreesExported == IInv /\ [Next]_vars => [FreesExported]_vars
<1> SUFFICES ASSUME IInv, Next, NEW r \in live, r \notin live'
             PROVE  \E i \in DOMAIN exported : exported[i] = r
  BY DEF FreesExported
<1>1. FreeLoop
  BY DEF Next, StartCycle, NvcInit, Connect, Authenticate, Handler,
     QueryEnds, Logout, Disconnect, Done, Export, EndCycle, FreeBegins,
     FreeHeader, AddCopySucceeds, AddCopyFails, listVars
<1>2. /\ phase = "free" /\ cursor # Null /\ r = cursor
  BY <1>1 DEF FreeLoop, FreeRecord
<1>3. ListTypeOK /\ WellLinked /\ Freeing /\ AllExported
  BY <1>2 DEF IInv, TypeOK, Phased
<1>4. r \in Listed BY <1>2, <1>3, CursorLive
<1>5. QED BY <1>3, <1>4 DEF AllExported

\* No record is freed before it was exported.
THEOREM ExportedBeforeFreed == Spec => NothingUnexported
<1>1. QED
  BY StepFreesExported, Invariance, PTL DEF Spec, NothingUnexported, FreesExported

-----------------------------------------------------------------------------
(***************************************************************************)
(* The whole.                                                              *)
(***************************************************************************)
\* The exporter with its proofs; what they say of EP they say of E.
EP == INSTANCE ExporterProofs WITH
  phase <- exportPhase, MaxCycles <- MaxQueries, MaxRecords <- Limit

LEMMA SameAssumption == EP!ExporterAssumption
BY CollectorsAssumption, CycleAssumption, NvcImportAssumption
   DEF EP!ExporterAssumption, EP!Collectors, E!Collectors, EP!FaultKinds, E!FaultKinds

LEMMA SameInit == E!Init <=> EP!Init
BY DEF E!Init, EP!Init, E!Collectors, EP!Collectors

LEMMA SameBegin ==
  ASSUME NEW n
  PROVE  E!BeginCycle(n) <=> EP!BeginCycle(n)
BY DEF E!BeginCycle, EP!BeginCycle, E!Collectors, EP!Collectors

LEMMA SameStep == E!Next => EP!Next
<1>1. E!StartCycle => EP!StartCycle
  BY SameBegin DEF E!StartCycle, EP!StartCycle, E!Cycles, EP!Cycles
<1> USE DEF E!cur, EP!cur, E!MayFail, EP!MayFail, E!Failed, EP!Failed, E!Put, EP!Put,
    E!Return, EP!Return, E!FreeAndReturn, EP!FreeAndReturn
<1>2. E!ExportInit => EP!ExportInit
  BY DEF E!ExportInit, EP!ExportInit
<1>3. E!UseContext => EP!UseContext
  BY DEF E!UseContext, EP!UseContext, E!First, EP!First, E!Objects, EP!Objects
<1>4. E!OpenFails => EP!OpenFails
  BY DEF E!OpenFails, EP!OpenFails, E!First, EP!First, E!Objects, EP!Objects
<1>5. E!UseFreed => EP!UseFreed
  BY DEF E!UseFreed, EP!UseFreed
<1>6. E!ExportTemplates => EP!ExportTemplates
  BY DEF E!ExportTemplates, EP!ExportTemplates, E!TemplatesItem, EP!TemplatesItem
<1>7. E!SetFlowTemplates => EP!SetFlowTemplates
  BY DEF E!SetFlowTemplates, EP!SetFlowTemplates
<1>8. E!AppendRecord => EP!AppendRecord
  BY DEF E!AppendRecord, EP!AppendRecord, E!BufAppends, EP!BufAppends,
     E!BufAppendFails, EP!BufAppendFails, E!FlowItem, EP!FlowItem
<1>9. E!RecordsDone => EP!RecordsDone
  BY DEF E!RecordsDone, EP!RecordsDone
<1>10. E!EmitFlows => EP!EmitFlows
  BY DEF E!EmitFlows, EP!EmitFlows, E!Emit, EP!Emit
<1>11. E!SetStatsTemplates => EP!SetStatsTemplates
  BY DEF E!SetStatsTemplates, EP!SetStatsTemplates
<1>12. E!AppendStats => EP!AppendStats
  BY DEF E!AppendStats, EP!AppendStats, E!BufAppends, EP!BufAppends,
     E!BufAppendFails, EP!BufAppendFails, E!StatsItem, EP!StatsItem
<1>13. E!EmitStats => EP!EmitStats
  BY DEF E!EmitStats, EP!EmitStats, E!Emit, EP!Emit
<1>14. E!Exit => EP!Exit
  BY DEF E!Exit, EP!Exit, E!Collectors, EP!Collectors
<1>15. QED
  BY <1>1, <1>2, <1>3, <1>4, <1>5, <1>6, <1>7, <1>8, <1>9, <1>10, <1>11, <1>12, <1>13, <1>14
     DEF E!Next, EP!Next

\* While the collectors are served, the exporter changes neither the list it
\* was given nor what it was given.
LEMMA ServeFrame ==
  ASSUME E!Next, exportPhase # "idle"
  PROVE  /\ UNCHANGED <<given, records>>
         /\ exportPhase \notin {"idle", "exited", "undefined"}
<1>1. ~E!StartCycle /\ ~E!Exit BY DEF E!StartCycle, E!BeginCycle, E!Exit
<1> USE DEF E!ExportInit, E!UseContext, E!OpenFails, E!UseFreed, E!ExportTemplates,
    E!SetFlowTemplates, E!AppendRecord, E!RecordsDone, E!EmitFlows,
    E!SetStatsTemplates, E!AppendStats, E!EmitStats
<1>2. QED BY <1>1 DEF E!Next

LEMMA ExporterStays ==
  ASSUME EP!IInv, UNCHANGED exportVars
  PROVE  EP!IInv'
BY SameAssumption, EP!StepInv DEF EP!vars, exportVars

LEMMA ExporterMoves ==
  ASSUME EP!IInv, E!Next
  PROVE  EP!IInv'
BY SameAssumption, SameStep, EP!StepInv

(***************************************************************************)
(* The inductive invariant: those of the parts, how far the one is when    *)
(* the other waits for it, and where each connection is.                   *)
(***************************************************************************)
\* The cycles whose records have gone to the collectors, if there were any.
Rounds ==
  IF phase \in {"idle", "free"} \/ handed THEN queries ELSE queries - 1

\* The connections of the interval that are neither given to the collectors
\* nor lost yet, and all those that were given.
InFlight ==
  IF phase \in {"init", "connect", "auth", "crashed"} THEN waiting
  ELSE IF phase = "query" THEN waiting - callbacks + Len(order)
  ELSE IF phase \in {"logout", "disconnect", "done", "export"} /\ ~handed THEN Len(order)
  ELSE 0

Delivered == total - InFlight - lost["failure"] - lost["limit"] - lost["memory"]

Joined ==
  /\ exportPhase \notin {"idle", "exited", "undefined"} => handed
  /\ handed => records = Len(order)
  /\ 0 <= Rounds
  /\ phase = "query" => Len(order) <= callbacks /\ callbacks <= waiting
  /\ phase \in {"logout", "disconnect", "done", "export"} => Len(order) <= Limit

Accounted ==
  \A x \in E!Collectors : given[x].msgs <= Rounds /\ given[x].flows = Delivered

CycleInv == IInv /\ EP!IInv /\ CycleTypeOK /\ Joined /\ Accounted

\* The numbers are numbers.
LEMMA Numbers ==
  ASSUME IInv, CycleTypeOK
  PROVE  /\ Len(order) \in Nat /\ callbacks \in Nat /\ callbacks <= Limit
         /\ waiting \in Nat /\ total \in Nat /\ queries \in Nat
         /\ lost["failure"] \in Nat /\ lost["limit"] \in Nat /\ lost["memory"] \in Nat
         /\ Limit \in Nat /\ MaxQueries \in Nat /\ MaxConnections \in Nat
         /\ Rounds \in Int /\ InFlight \in Int /\ Delivered \in Int
<1>1. Len(order) \in Nat BY OrderFacts DEF IInv, TypeOK
<1>2. callbacks \in Nat /\ callbacks <= Limit /\ Limit \in Nat
  BY NvcImportAssumption DEF IInv, TypeOK
<1>3. /\ waiting \in Nat /\ total \in Nat /\ queries \in Nat
      /\ MaxQueries \in Nat /\ MaxConnections \in Nat
      /\ lost["failure"] \in Nat /\ lost["limit"] \in Nat /\ lost["memory"] \in Nat
  BY CycleAssumption DEF CycleTypeOK
<1>4. InFlight \in Int BY <1>1, <1>2, <1>3 DEF InFlight
<1>5. Rounds \in Int BY <1>3 DEF Rounds
<1>6. Delivered \in Int BY <1>3, <1>4 DEF Delivered
<1>7. QED BY <1>1, <1>2, <1>3, <1>4, <1>5, <1>6

LEMMA GivenTypes ==
  ASSUME EP!IInv
  PROVE  /\ given \in [E!Collectors -> [flows : Nat, msgs : Nat]]
         /\ \A x \in E!Collectors : given[x].flows \in Nat /\ given[x].msgs \in Nat
<1>1. given \in [E!Collectors -> [flows : Nat, msgs : Nat]]
  BY DEF EP!IInv, EP!TypeOK, EP!Collectors, E!Collectors
<1>2. QED BY <1>1

\* What a step of the importer has to keep of what joins the parts.
LEMMA ImporterKeeps ==
  ASSUME CycleInv, IInv', UNCHANGED exportVars, CycleTypeOK', Joined',
         Rounds <= Rounds', Delivered' = Delivered
  PROVE  CycleInv'
<1>1. given' = given BY DEF exportVars
<1>2. EP!IInv' BY ExporterStays DEF CycleInv
<1>3. Rounds \in Int BY Numbers DEF CycleInv
<1>4. Rounds' \in Int
  <2>1. queries' \in Nat BY CycleAssumption DEF CycleTypeOK
  <2>2. QED BY <2>1 DEF Rounds
<1>5. ASSUME NEW x \in E!Collectors PROVE given[x].msgs <= Rounds'
  <2>1. given[x].msgs \in Int BY GivenTypes DEF CycleInv
  <2>2. given[x].msgs <= Rounds BY DEF CycleInv, Accounted
  <2>3. \A a, b, c \in Int : a <= b /\ b <= c => a <= c OBVIOUS
  <2>4. QED BY <1>3, <1>4, <2>1, <2>2, <2>3
<1>6. \A x \in E!Collectors : given[x].flows = Delivered' BY DEF CycleInv, Accounted
<1>7. Accounted' BY <1>1, <1>5, <1>6 DEF Accounted
<1>8. QED BY <1>2, <1>7 DEF CycleInv

(***************************************************************************)
(* Each step keeps it.                                                     *)
(***************************************************************************)
LEMMA BeginQueryKeeps == ASSUME CycleInv, BeginQuery PROVE CycleInv'
<1>1. /\ phase = "idle" /\ phase' \in {"init", "crashed"} /\ StartCycle
      /\ queries < MaxQueries /\ queries' = queries + 1
      /\ exportPhase = "idle" /\ exportPhase' = "idle"
      /\ UNCHANGED exportVars /\ UNCHANGED <<order, list, handed, lost>>
  BY DEF BeginQuery, StartCycle, listVars, exportVars
<1>2. PICK n \in 0 .. MaxConnections : waiting' = n /\ total' = total + n
  BY DEF BeginQuery
<1>3. IInv' BY <1>1, CallStep DEF CycleInv
<1>4. CycleTypeOK /\ ~handed BY <1>1 DEF CycleInv, CycleTypeOK
<1>5. /\ queries \in Nat /\ total \in Nat /\ MaxQueries \in Nat /\ MaxConnections \in Nat
      /\ lost["failure"] \in Nat /\ lost["limit"] \in Nat /\ lost["memory"] \in Nat
  BY <1>4, Numbers DEF CycleInv
<1>6. CycleTypeOK' BY <1>1, <1>2, <1>4, <1>5 DEF CycleTypeOK
<1>7. Rounds = queries /\ Rounds' = queries BY <1>1, <1>4, <1>5 DEF Rounds
<1>8. Joined' BY <1>1, <1>4, <1>5, <1>7 DEF Joined
<1>9. InFlight = 0 /\ InFlight' = n BY <1>1, <1>2 DEF InFlight
<1>10. Delivered' = Delivered BY <1>1, <1>2, <1>5, <1>9 DEF Delivered
<1>11. QED BY <1>1, <1>3, <1>5, <1>6, <1>7, <1>8, <1>10, ImporterKeeps

\* What is lost is lost for one reason.
LEMMA LoseOne ==
  ASSUME CycleTypeOK, NEW reason \in {"failure", "limit", "memory"}, NEW n \in Nat,
         Lose(reason, n)
  PROVE  /\ lost' \in [{"failure", "limit", "memory"} -> Nat]
         /\ lost'["failure"] = IF reason = "failure" THEN lost["failure"] + n
                                                     ELSE lost["failure"]
         /\ lost'["limit"] = IF reason = "limit" THEN lost["limit"] + n ELSE lost["limit"]
         /\ lost'["memory"] = IF reason = "memory" THEN lost["memory"] + n
                                                   ELSE lost["memory"]
BY DEF CycleTypeOK, Lose

\* The connections of the interval are lost with the query.
LEMMA TryKeeps ==
  ASSUME CycleInv, TryConnect \/ TryAuthenticate
  PROVE  CycleInv'
<1>1. /\ Connect \/ Authenticate
      /\ \/ phase' \in {"done", "disconnect"} /\ Lose("failure", waiting)
         \/ phase' \notin {"done", "disconnect"} /\ UNCHANGED lost
      /\ UNCHANGED exportVars /\ UNCHANGED <<handed, waiting, queries, total>>
  BY DEF TryConnect, TryAuthenticate, Connect, Authenticate, switchVars
<1>2. /\ phase \in {"connect", "auth"} /\ UNCHANGED <<order, list>>
      /\ phase' \in {"auth", "done", "query", "disconnect"}
      /\ phase' = "query" => callbacks' = 0
  BY <1>1 DEF Connect, Authenticate, listVars
<1>3. IInv' BY <1>1, CallStep DEF CycleInv
<1>4. order = <<>> /\ Len(order) = 0
  BY <1>2, OrderFacts DEF CycleInv, IInv, Phased, Early, TypeOK
<1>5. CycleTypeOK /\ ~handed BY <1>2 DEF CycleInv, CycleTypeOK
<1>6. /\ queries \in Nat /\ waiting \in Nat /\ total \in Nat /\ Limit \in Nat
      /\ lost["failure"] \in Nat /\ lost["limit"] \in Nat /\ lost["memory"] \in Nat
  BY <1>5, Numbers DEF CycleInv
<1>7. lost' \in [{"failure", "limit", "memory"} -> Nat]
  BY <1>1, <1>5, <1>6, LoseOne DEF CycleTypeOK
<1>8. CycleTypeOK' BY <1>1, <1>5, <1>7 DEF CycleTypeOK
<1>9. Rounds' = Rounds /\ Rounds \in Int BY <1>1, <1>2, <1>5, <1>6 DEF Rounds
<1>10. Joined'
  <2>1. exportPhase' = exportPhase /\ records' = records BY <1>1 DEF exportVars
  <2>2. exportPhase \notin {"idle", "exited", "undefined"} => handed
    BY DEF CycleInv, Joined
  <2>3. 0 <= Rounds' BY <1>9 DEF CycleInv, Joined
  <2>4. QED BY <1>1, <1>2, <1>4, <1>5, <1>6, <2>1, <2>2, <2>3 DEF Joined
<1>11. Delivered' = Delivered
  <2>1. InFlight = waiting BY <1>2 DEF InFlight
  <2>2. CASE phase' \in {"done", "disconnect"}
    <3>1. InFlight' = 0 BY <1>1, <1>2, <1>4, <1>5, <2>2 DEF InFlight
    <3>2. /\ lost'["failure"] = lost["failure"] + waiting
          /\ lost'["limit"] = lost["limit"] /\ lost'["memory"] = lost["memory"]
      BY <1>1, <1>5, <1>6, <2>2, LoseOne
    <3>3. QED BY <1>1, <1>6, <2>1, <3>1, <3>2 DEF Delivered
  <2>3. CASE phase' \notin {"done", "disconnect"}
    <3>1. InFlight' = waiting BY <1>1, <1>2, <1>4, <1>6, <2>3 DEF InFlight
    <3>2. QED BY <1>1, <2>1, <2>3, <3>1 DEF Delivered
  <2>4. QED BY <2>2, <2>3
<1>12. Rounds <= Rounds' BY <1>9
<1>13. QED BY <1>1, <1>3, <1>8, <1>10, <1>11, <1>12, ImporterKeeps

\* A connection is stored, or lost for want of memory.
LEMMA HandleConnectionKeeps == ASSUME CycleInv, HandleConnection PROVE CycleInv'
<1>1. /\ Handler /\ phase = "query" /\ phase' = "query"
      /\ callbacks < waiting /\ callbacks' = callbacks + 1
      /\ IF order' = order THEN Lose("memory", 1) ELSE UNCHANGED lost
      /\ UNCHANGED exportVars /\ UNCHANGED <<handed, waiting, queries, total>>
  BY DEF HandleConnection, Handler, switchVars
<1>2. IInv' BY <1>1, HandlerStep DEF CycleInv
<1>3. CycleTypeOK /\ ~handed BY <1>1 DEF CycleInv, CycleTypeOK
<1>4. /\ queries \in Nat /\ waiting \in Nat /\ total \in Nat /\ callbacks \in Nat
      /\ Len(order) \in Nat
      /\ lost["failure"] \in Nat /\ lost["limit"] \in Nat /\ lost["memory"] \in Nat
  BY <1>3, Numbers DEF CycleInv
<1>5. order' = order \/ (order' # order /\ Len(order') = Len(order) + 1)
  <2>1. CASE AddCopySucceeds
    <3>1. PICK r \in Records \ live : order' = Append(order, r)
      BY <2>1 DEF AddCopySucceeds
    <3>2. order \in Seq(Records) BY DEF CycleInv, IInv, TypeOK, ListTypeOK
    <3>3. Len(order') = Len(order) + 1 BY <3>1, <3>2, AppendProperties
    <3>4. QED BY <1>4, <3>3
  <2>2. CASE AddCopyFails BY <2>2 DEF AddCopyFails
  <2>3. QED BY <1>1, <2>1, <2>2 DEF Handler
<1>6. lost' \in [{"failure", "limit", "memory"} -> Nat]
  <2>1. CASE order' = order BY <1>1, <1>3, <2>1, LoseOne
  <2>2. CASE order' # order BY <1>1, <1>3, <2>2 DEF CycleTypeOK
  <2>3. QED BY <2>1, <2>2
<1>7. CycleTypeOK' BY <1>1, <1>3, <1>6 DEF CycleTypeOK
<1>8. Rounds' = Rounds /\ Rounds \in Int BY <1>1, <1>3, <1>4 DEF Rounds
<1>9. Joined'
  <2>1. exportPhase' = exportPhase /\ records' = records BY <1>1 DEF exportVars
  <2>2. /\ exportPhase \notin {"idle", "exited", "undefined"} => handed
        /\ Len(order) <= callbacks
    BY <1>1 DEF CycleInv, Joined
  <2>3. 0 <= Rounds' BY <1>8 DEF CycleInv, Joined
  <2>4. Len(order') <= callbacks' BY <1>1, <1>4, <1>5, <2>2
  <2>5. callbacks' <= waiting' BY <1>1, <1>4
  <2>6. QED BY <1>1, <1>3, <2>1, <2>2, <2>3, <2>4, <2>5 DEF Joined
<1>10. Delivered' = Delivered
  <2>1. InFlight = waiting - callbacks + Len(order) BY <1>1 DEF InFlight
  <2>2. InFlight' = waiting - (callbacks + 1) + Len(order') BY <1>1 DEF InFlight
  <2>3. CASE order' = order
    <3>1. /\ lost'["memory"] = lost["memory"] + 1
          /\ lost'["limit"] = lost["limit"] /\ lost'["failure"] = lost["failure"]
      BY <1>1, <1>3, <2>3, LoseOne
    <3>2. Len(order') = Len(order) BY <2>3
    <3>3. QED BY <1>1, <1>4, <2>1, <2>2, <3>1, <3>2 DEF Delivered
  <2>4. CASE order' # order
    <3>1. Len(order') = Len(order) + 1 BY <1>5, <2>4
    <3>2. InFlight' = InFlight BY <1>4, <2>1, <2>2, <3>1
    <3>3. QED BY <1>1, <2>4, <3>2 DEF Delivered
  <2>5. QED BY <2>3, <2>4
<1>11. Rounds <= Rounds' BY <1>8
<1>12. QED BY <1>1, <1>2, <1>7, <1>9, <1>10, <1>11, ImporterKeeps

\* What the query did not hand over is lost.
LEMMA FinishQueryKeeps == ASSUME CycleInv, FinishQuery PROVE CycleInv'
<1>1. /\ QueryEnds /\ phase = "query" /\ phase' = "logout"
      /\ UNCHANGED exportVars
      /\ UNCHANGED <<handed, waiting, queries, total, order, list, callbacks>>
  BY DEF FinishQuery, QueryEnds, switchVars, listVars
<1>2. PICK reason \in {"failure", "limit", "memory"} : Lose(reason, waiting - callbacks)
  <2>1. CASE callbacks = Limit BY <2>1 DEF FinishQuery
  <2>2. CASE callbacks # Limit BY <2>2 DEF FinishQuery
  <2>3. QED BY <2>1, <2>2
<1>3. IInv' BY <1>1, CallStep DEF CycleInv
<1>4. CycleTypeOK /\ ~handed BY <1>1 DEF CycleInv, CycleTypeOK
<1>5. /\ queries \in Nat /\ waiting \in Nat /\ total \in Nat /\ callbacks \in Nat
      /\ Len(order) \in Nat /\ callbacks <= Limit /\ Limit \in Nat
      /\ lost["failure"] \in Nat /\ lost["limit"] \in Nat /\ lost["memory"] \in Nat
  BY <1>4, Numbers DEF CycleInv
<1>6. Len(order) <= callbacks /\ callbacks <= waiting
  BY <1>1 DEF CycleInv, Joined
<1>7. PICK n \in Nat : n = waiting - callbacks BY <1>5, <1>6
<1>8. /\ lost' \in [{"failure", "limit", "memory"} -> Nat]
      /\ lost'["failure"] = IF reason = "failure" THEN lost["failure"] + n
                                                  ELSE lost["failure"]
      /\ lost'["limit"] = IF reason = "limit" THEN lost["limit"] + n ELSE lost["limit"]
      /\ lost'["memory"] = IF reason = "memory" THEN lost["memory"] + n
                                                ELSE lost["memory"]
  BY <1>2, <1>4, <1>7, LoseOne
<1>9. CycleTypeOK' BY <1>1, <1>4, <1>8 DEF CycleTypeOK
<1>10. Rounds' = Rounds /\ Rounds \in Int BY <1>1, <1>4, <1>5 DEF Rounds
<1>11. Joined'
  <2>1. exportPhase' = exportPhase /\ records' = records BY <1>1 DEF exportVars
  <2>2. exportPhase \notin {"idle", "exited", "undefined"} => handed
    BY DEF CycleInv, Joined
  <2>3. 0 <= Rounds' BY <1>10 DEF CycleInv, Joined
  <2>4. Len(order') <= Limit BY <1>1, <1>5, <1>6
  <2>5. QED BY <1>1, <1>4, <2>1, <2>2, <2>3, <2>4 DEF Joined
<1>12. Delivered' = Delivered
  <2>1. InFlight = n + Len(order) BY <1>1, <1>7 DEF InFlight
  <2>2. InFlight' = Len(order) BY <1>1, <1>4 DEF InFlight
  <2>3. CASE reason = "failure" BY <1>1, <1>5, <1>8, <2>1, <2>2, <2>3 DEF Delivered
  <2>4. CASE reason = "limit" BY <1>1, <1>5, <1>8, <2>1, <2>2, <2>4 DEF Delivered
  <2>5. CASE reason = "memory" BY <1>1, <1>5, <1>8, <2>1, <2>2, <2>5 DEF Delivered
  <2>6. QED BY <2>3, <2>4, <2>5
<1>13. Rounds <= Rounds' BY <1>10
<1>14. QED BY <1>1, <1>3, <1>9, <1>11, <1>12, <1>13, ImporterKeeps

\* The other calls of the importer, and the loop that frees the list.
LEMMA OtherKeeps == ASSUME CycleInv, OtherImportStep PROVE CycleInv'
<1>1. /\ NvcInit \/ Logout \/ Disconnect \/ Done \/ FreeLoop \/ EndCycle
      /\ UNCHANGED exportVars
      /\ UNCHANGED <<handed, waiting, queries, total, lost>>
  BY DEF OtherImportStep, switchVars
<1>2. IInv' BY <1>1, CallStep, FreeLoopStep, EndCycleStep DEF CycleInv
<1>3. \/ phase \in {"init", "logout", "disconnect", "done"} /\ order' = order
      \/ phase = "free"
  BY <1>1 DEF NvcInit, Logout, Disconnect, Done, FreeLoop, EndCycle, listVars
<1>4. /\ phase = "init" => phase' = "connect"
      /\ phase \in {"logout", "disconnect", "done"} =>
           phase' \in {"disconnect", "done", "export"}
      /\ phase = "free" => phase' \in {"free", "idle"}
  BY <1>1 DEF NvcInit, Logout, Disconnect, Done, FreeLoop, EndCycle
<1>5. CycleTypeOK /\ ~handed BY <1>3 DEF CycleInv, CycleTypeOK
<1>6. queries \in Nat /\ Rounds \in Int BY <1>5, Numbers DEF CycleInv
<1>7. CycleTypeOK' BY <1>1, <1>5 DEF CycleTypeOK
<1>8. Rounds' = Rounds BY <1>1, <1>3, <1>4, <1>5 DEF Rounds
<1>9. InFlight' = InFlight BY <1>1, <1>3, <1>4, <1>5 DEF InFlight
<1>10. Delivered' = Delivered BY <1>1, <1>9 DEF Delivered
<1>11. Joined'
  <2>1. exportPhase' = exportPhase /\ records' = records BY <1>1 DEF exportVars
  <2>2. /\ exportPhase \notin {"idle", "exited", "undefined"} => handed
        /\ phase \in {"logout", "disconnect", "done", "export"} => Len(order) <= Limit
    BY DEF CycleInv, Joined
  <2>3. 0 <= Rounds' BY <1>8 DEF CycleInv, Joined
  <2>4. phase' \in {"logout", "disconnect", "done", "export"} => Len(order') <= Limit
    BY <1>3, <1>4, <2>2
  <2>5. phase' # "query" BY <1>3, <1>4
  <2>6. QED BY <1>1, <1>5, <2>1, <2>2, <2>3, <2>4, <2>5 DEF Joined
<1>12. Rounds <= Rounds' BY <1>6, <1>8
<1>13. QED BY <1>1, <1>2, <1>7, <1>10, <1>11, <1>12, ImporterKeeps

\* nvipfix_main_export returns, having served every collector or, for want of
\* a record, none.
LEMMA ExportReturnsKeeps == ASSUME CycleInv, ExportReturns PROVE CycleInv'
<1>1. /\ Export /\ phase = "export" /\ phase' = "free" /\ order' = order
      /\ exportPhase = "idle" /\ (list => handed) /\ handed' = FALSE
      /\ UNCHANGED exportVars
      /\ UNCHANGED <<waiting, queries, total, lost>>
  BY DEF ExportReturns, Export, switchVars, FreeBegins
<1>2. IInv' BY <1>1, ExportStep DEF CycleInv
<1>3. CycleTypeOK BY DEF CycleInv
<1>4. /\ queries \in Nat /\ Rounds \in Int /\ total \in Nat
      /\ Len(order) \in Nat
  BY <1>3, Numbers DEF CycleInv
<1>5. CycleTypeOK' BY <1>1, <1>3 DEF CycleTypeOK
<1>6. Rounds' = queries /\ Rounds \in {queries, queries - 1} BY <1>1 DEF Rounds
<1>7. Rounds <= Rounds' BY <1>4, <1>6
<1>8. InFlight = 0 /\ InFlight' = 0
  <2>1. CASE handed BY <1>1, <2>1 DEF InFlight
  <2>2. CASE ~handed
    <3>1. ~list /\ Building BY <1>1, <2>2 DEF CycleInv, IInv, Phased
    <3>2. Len(order) = 0 BY <3>1, OrderFacts DEF Building, CycleInv, IInv, TypeOK
    <3>3. QED BY <1>1, <3>2 DEF InFlight
  <2>3. QED BY <2>1, <2>2
<1>9. Delivered' = Delivered BY <1>1, <1>8 DEF Delivered
<1>10. Joined'
  <2>1. exportPhase' = "idle" BY <1>1 DEF exportVars
  <2>2. 0 <= Rounds' BY <1>4, <1>6
  <2>3. QED BY <1>1, <2>1, <2>2 DEF Joined
<1>11. QED BY <1>1, <1>2, <1>5, <1>7, <1>9, <1>10, ImporterKeeps

\* The importer stands still.
LEMMA ImporterWaits ==
  ASSUME IInv, UNCHANGED vars
  PROVE  IInv'
<1>1. UNCHANGED listVars /\ UNCHANGED <<phase, io, callbacks, exported>> BY DEF vars
<1>2. order' = order BY <1>1 DEF listVars
<1>3. QED
  BY <1>1, <1>2, SameList DEF IInv, TypeOK, SessionMatchesPhase, Phased, AllExported

\* The collectors are served.
LEMMA ServeKeeps == ASSUME CycleInv, ServeCollectors PROVE CycleInv'
<1>1. /\ exportPhase # "idle" /\ E!Next
      /\ UNCHANGED vars /\ UNCHANGED <<order, list, phase, callbacks>>
      /\ UNCHANGED <<handed, waiting, queries, total, lost>>
  BY DEF ServeCollectors, switchVars, vars, listVars
<1>2. /\ given' = given /\ records' = records
      /\ exportPhase \notin {"idle", "exited", "undefined"}
  BY <1>1, ServeFrame
<1>3. IInv' /\ EP!IInv' BY <1>1, ImporterWaits, ExporterMoves DEF CycleInv
<1>4. CycleTypeOK' BY <1>1 DEF CycleInv, CycleTypeOK
<1>5. Rounds' = Rounds /\ InFlight' = InFlight /\ Delivered' = Delivered
  BY <1>1 DEF Rounds, InFlight, Delivered
<1>6. Joined'
  <2>1. handed BY <1>2 DEF CycleInv, Joined
  <2>2. 0 <= Rounds' BY <1>5 DEF CycleInv, Joined
  <2>3. QED BY <1>1, <1>2, <2>1, <2>2 DEF CycleInv, Joined
<1>7. Accounted' BY <1>2, <1>5 DEF CycleInv, Accounted
<1>8. QED BY <1>3, <1>4, <1>6, <1>7 DEF CycleInv

LEMMA LeaveKeeps == ASSUME CycleInv, Leave PROVE CycleInv'
<1>1. /\ phase = "idle" /\ E!Exit /\ E!Next
      /\ UNCHANGED vars /\ UNCHANGED <<order, list, phase, callbacks>>
      /\ UNCHANGED <<handed, waiting, queries, total, lost>>
  BY DEF Leave, switchVars, vars, listVars, E!Next
<1>2. /\ given' = given /\ records' = records
      /\ exportPhase' \in {"exited", "undefined"}
  BY <1>1 DEF E!Exit
<1>3. IInv' /\ EP!IInv' BY <1>1, ImporterWaits, ExporterMoves DEF CycleInv
<1>4. CycleTypeOK' BY <1>1 DEF CycleInv, CycleTypeOK
<1>5. Rounds' = Rounds /\ InFlight' = InFlight /\ Delivered' = Delivered
  BY <1>1 DEF Rounds, InFlight, Delivered
<1>6. Joined'
  <2>1. 0 <= Rounds' BY <1>5 DEF CycleInv, Joined
  <2>2. QED BY <1>1, <1>2, <2>1 DEF CycleInv, Joined
<1>7. Accounted' BY <1>2, <1>5 DEF CycleInv, Accounted
<1>8. QED BY <1>3, <1>4, <1>6, <1>7 DEF CycleInv

\* The exporter starts a cycle of its own, with the records of the list: no
\* more cycles than queries, no more records than the limit of one, and one
\* record at least, as a list that is not NULL has one.
LEMMA HandOverStarts ==
  ASSUME CycleInv, HandOver
  PROVE  /\ E!Next /\ Len(order) \in Nat
         /\ Rounds = queries - 1
<1>1. phase = "export" /\ list /\ ~handed /\ E!BeginCycle(Len(order)) BY DEF HandOver
<1>2. /\ Len(order) \in Nat /\ queries \in Nat /\ Limit \in Nat /\ MaxQueries \in Nat
  BY Numbers DEF CycleInv
<1>3. Rounds = queries - 1 BY <1>1 DEF Rounds
<1>4. Len(order) \in 1 .. Limit
  <2>1. order # <<>> BY <1>1 DEF CycleInv, IInv, Phased, Building
  <2>2. Len(order) # 0 BY <2>1, OrderFacts DEF CycleInv, IInv, TypeOK
  <2>3. Len(order) <= Limit BY <1>1 DEF CycleInv, Joined
  <2>4. QED BY <1>2, <2>2, <2>3
<1>5. queries <= MaxQueries /\ 0 <= queries - 1
  BY <1>2, <1>3 DEF CycleInv, CycleTypeOK, Joined
<1>6. E!Cycles < MaxQueries
  <2>1. CASE CollectorList = <<>> BY <1>2, <1>5, <2>1 DEF E!Cycles
  <2>2. CASE CollectorList # <<>>
    <3>1. 1 \in DOMAIN CollectorList
      BY <2>2, CollectorsAssumption, LenProperties, EmptySeq
    <3>2. CollectorList[1] \in E!Collectors BY <3>1 DEF E!Collectors
    <3>3. given[CollectorList[1]].msgs \in Nat BY <3>2, GivenTypes DEF CycleInv
    <3>4. given[CollectorList[1]].msgs <= queries - 1
      BY <1>3, <3>2 DEF CycleInv, Accounted
    <3>5. E!Cycles = given[CollectorList[1]].msgs BY <2>2 DEF E!Cycles
    <3>6. QED BY <1>2, <1>5, <3>3, <3>4, <3>5
  <2>3. QED BY <2>1, <2>2
<1>7. E!StartCycle BY <1>1, <1>4, <1>6 DEF E!StartCycle
<1>8. QED BY <1>2, <1>3, <1>7 DEF E!Next

LEMMA HandOverKeeps == ASSUME CycleInv, HandOver PROVE CycleInv'
<1>1. /\ phase = "export" /\ list /\ ~handed /\ handed' = TRUE
      /\ E!BeginCycle(Len(order))
      /\ UNCHANGED vars /\ UNCHANGED <<order, list, phase, callbacks>>
      /\ UNCHANGED <<waiting, queries, total, lost>>
  BY DEF HandOver, switchVars, vars, listVars
<1>2. /\ records' = Len(order)
      /\ given' = [x \in E!Collectors |-> [flows |-> given[x].flows + Len(order),
                                          msgs |-> given[x].msgs + 1]]
  BY <1>1 DEF E!BeginCycle
<1>3. E!Next /\ Len(order) \in Nat /\ Rounds = queries - 1 BY HandOverStarts
<1>4. IInv' /\ EP!IInv' BY <1>1, <1>3, ImporterWaits, ExporterMoves DEF CycleInv
<1>5. CycleTypeOK /\ CycleTypeOK' BY <1>1 DEF CycleInv, CycleTypeOK
<1>6. /\ queries \in Nat /\ total \in Nat
      /\ lost["failure"] \in Nat /\ lost["limit"] \in Nat /\ lost["memory"] \in Nat
  BY <1>5, Numbers DEF CycleInv
<1>7. Rounds' = queries BY <1>1 DEF Rounds
<1>8. Joined'
  <2>1. Len(order') <= Limit BY <1>1 DEF CycleInv, Joined
  <2>2. 0 <= Rounds' BY <1>6, <1>7
  <2>3. records' = Len(order') BY <1>1, <1>2
  <2>4. QED BY <1>1, <2>1, <2>2, <2>3 DEF Joined
<1>9. Delivered' = Delivered + Len(order) /\ Delivered \in Int
  <2>1. InFlight = Len(order) BY <1>1 DEF InFlight
  <2>2. InFlight' = 0 BY <1>1 DEF InFlight
  <2> DEFINE gone == lost["failure"] + lost["limit"] + lost["memory"]
  <2>3. gone \in Nat BY <1>6
  <2>4. Delivered = total - Len(order) - gone BY <1>3, <1>6, <2>1 DEF Delivered
  <2>5. Delivered' = total - gone BY <1>1, <1>6, <2>2 DEF Delivered
  <2> HIDE DEF gone
  <2>6. QED BY <1>3, <1>6, <2>3, <2>4, <2>5
<1>10. ASSUME NEW x \in E!Collectors
       PROVE  given'[x].msgs <= Rounds' /\ given'[x].flows = Delivered'
  <2>1. /\ given[x].flows \in Nat /\ given[x].msgs \in Nat
    BY GivenTypes DEF CycleInv
  <2>2. given'[x].flows = given[x].flows + Len(order) /\ given'[x].msgs = given[x].msgs + 1
    BY <1>2
  <2>3. given[x].msgs <= queries - 1 /\ given[x].flows = Delivered
    BY <1>3 DEF CycleInv, Accounted
  <2>4. given[x].msgs + 1 <= queries BY <1>6, <2>1, <2>3
  <2>5. QED BY <1>7, <1>9, <2>2, <2>3, <2>4
<1>11. Accounted' BY <1>10 DEF Accounted
<1>12. QED BY <1>4, <1>5, <1>8, <1>11 DEF CycleInv

LEMMA CycleInitInv == CycleInit => CycleInv
<1> SUFFICES ASSUME CycleInit PROVE CycleInv OBVIOUS
<1>1. /\ Init /\ E!Init /\ handed = FALSE /\ waiting = 0 /\ queries = 0 /\ total = 0
      /\ lost = [failure |-> 0, limit |-> 0, memory |-> 0]
      /\ phase = "idle" /\ exportPhase = "idle"
  BY DEF CycleInit, Init, E!Init
<1>2. IInv BY <1>1, InitIInv
<1>3. EP!IInv BY <1>1, SameAssumption, SameInit, EP!InitInv
<1>4. CycleTypeOK
  <2>1. lost \in [{"failure", "limit", "memory"} -> Nat] BY <1>1
  <2>2. MaxQueries \in Nat /\ MaxConnections \in Nat BY CycleAssumption
  <2>3. 0 \in 0 .. MaxQueries /\ 0 \in 0 .. MaxConnections BY <2>2
  <2>4. waiting \in 0 .. MaxConnections /\ queries \in 0 .. MaxQueries /\ total \in Nat
    BY <1>1, <2>3
  <2>5. handed \in BOOLEAN /\ ~handed BY <1>1
  <2>6. QED BY <2>1, <2>4, <2>5 DEF CycleTypeOK
<1>5. Rounds = 0 /\ InFlight = 0 /\ Delivered = 0
  BY <1>1 DEF Rounds, InFlight, Delivered
<1>6. Joined BY <1>1, <1>5 DEF Joined
<1>7. Accounted
  <2>1. given = [x \in E!Collectors |-> [flows |-> 0, msgs |-> 0]]
    BY <1>1 DEF E!Init
  <2>2. QED BY <1>5, <2>1 DEF Accounted
<1>8. QED BY <1>2, <1>3, <1>4, <1>6, <1>7 DEF CycleInv

LEMMA CycleStepInv == CycleInv /\ [CycleNext]_cycleVars => CycleInv'
<1> SUFFICES ASSUME CycleInv, [CycleNext]_cycleVars PROVE CycleInv' OBVIOUS
<1>1. CASE CycleNext
  BY <1>1, BeginQueryKeeps, TryKeeps, HandleConnectionKeeps, FinishQueryKeeps,
     OtherKeeps, HandOverKeeps, ServeKeeps, ExportReturnsKeeps, LeaveKeeps
     DEF CycleNext
<1>2. CASE UNCHANGED cycleVars
  <2>1. /\ UNCHANGED vars /\ UNCHANGED <<order, list, phase, callbacks>>
        /\ UNCHANGED exportVars /\ UNCHANGED <<given, records, exportPhase>>
        /\ UNCHANGED <<handed, waiting, queries, total, lost>>
    BY <1>2 DEF cycleVars, vars, listVars, exportVars, switchVars
  <2>2. IInv' /\ EP!IInv' BY <2>1, ImporterWaits, ExporterStays DEF CycleInv
  <2>3. CycleTypeOK' /\ Rounds' = Rounds /\ InFlight' = InFlight
    BY <2>1 DEF CycleInv, CycleTypeOK, Rounds, InFlight
  <2>4. Delivered' = Delivered BY <2>1, <2>3 DEF Delivered
  <2>5. Joined'
    <3>1. 0 <= Rounds' BY <2>3 DEF CycleInv, Joined
    <3>2. QED BY <2>1, <3>1 DEF CycleInv, Joined
  <2>6. Accounted' BY <2>1, <2>3, <2>4 DEF CycleInv, Accounted
  <2>7. QED BY <2>2, <2>3, <2>5, <2>6 DEF CycleInv
<1>3. QED BY <1>1, <1>2

(***************************************************************************)
(* The theorems.                                                           *)
(***************************************************************************)
\* The inductive invariant holds in every reachable state of the whole.
THEOREM CycleInvariance == CycleSpec => []CycleInv
<1>1. QED BY CycleInitInv, CycleStepInv, PTL DEF CycleSpec

\* The variables that join the parts keep their types; in particular the
\* exporter is only ever given a list that is not NULL.
THEOREM CycleTypeCorrect == CycleSpec => []CycleTypeOK
<1>1. CycleInv => CycleTypeOK BY DEF CycleInv
<1>2. QED BY <1>1, CycleInvariance, PTL

\* Each step of the whole is one that NvcImport has, or leaves its variables
\* alone, by the definitions of the actions.
LEMMA ImporterStep == [CycleNext]_cycleVars => [Next]_vars
<1> SUFFICES ASSUME [CycleNext]_cycleVars PROVE [Next]_vars OBVIOUS
<1>1. CASE BeginQuery \/ TryConnect \/ TryAuthenticate \/ HandleConnection \/ FinishQuery
  BY <1>1 DEF BeginQuery, TryConnect, TryAuthenticate, HandleConnection,
     FinishQuery, Next
<1>2. CASE OtherImportStep \/ ExportReturns
  BY <1>2 DEF OtherImportStep, ExportReturns, Next
<1>3. CASE HandOver \/ ServeCollectors \/ Leave
  BY <1>3 DEF HandOver, ServeCollectors, Leave
<1>4. CASE UNCHANGED cycleVars BY <1>4 DEF cycleVars
<1>5. QED BY <1>1, <1>2, <1>3, <1>4 DEF CycleNext

\* The cycle uses the contexts of the collectors as Exporter says: one export
\* at a time, of one record at least and no more than the limit of a query.
THEOREM ImplementsExporter == CycleSpec => ExporterSteps
<1>1. CycleInit => E!Init BY DEF CycleInit
<1>2. CycleInv /\ [CycleNext]_cycleVars => [E!Next]_(E!vars)
  <2> SUFFICES ASSUME CycleInv, [CycleNext]_cycleVars PROVE [E!Next]_(E!vars) OBVIOUS
  <2>1. CASE UNCHANGED exportVars BY <2>1 DEF exportVars, E!vars
  <2>2. CASE HandOver BY <2>2, HandOverStarts
  <2>3. CASE ServeCollectors BY <2>3 DEF ServeCollectors
  <2>4. CASE Leave BY <2>4 DEF Leave, E!Next
  <2>5. CASE ~(HandOver \/ ServeCollectors \/ Leave)
    <3>1. UNCHANGED exportVars
      BY <2>5 DEF CycleNext, BeginQuery, TryConnect, TryAuthenticate, HandleConnection,
         FinishQuery, OtherImportStep, ExportReturns, cycleVars
    <3>2. QED BY <2>1, <3>1
  <2>6. QED BY <2>2, <2>3, <2>4, <2>5
<1>3. QED BY <1>1, <1>2, CycleInvariance, PTL DEF CycleSpec, ExporterSteps, E!Spec

\* So what was proved of the importer holds of the whole: the session is closed
\* as far as it was opened, the list is well linked, the loop that frees it only
\* looks at allocated records, and only at exported ones.
THEOREM ImporterHolds ==
  CycleSpec => /\ [](TypeOK /\ SessionMatchesPhase /\ WellLinked /\ FreeIsSafe)
               /\ NothingUnexported
<1>1. CycleInv => IInv /\ TypeOK /\ SessionMatchesPhase /\ WellLinked /\ FreeIsSafe
  BY FreeSafe DEF CycleInv, IInv
<1>2. QED
  BY <1>1, CycleInvariance, ImporterStep, StepFreesExported, PTL
     DEF CycleSpec, NothingUnexported, FreesExported

\* What was proved of the exporter holds of it here.
LEMMA SameHealthy ==
  ASSUME EP!IInv, exportPhase = "idle", NEW x \in E!Collectors \ failed
  PROVE  E!Flows(sent[x], Len(sent[x])) = given[x].flows
<1>1. EP!HealthyGetAll BY SameAssumption, EP!HealthyInv
<1>2. x \in EP!Collectors \ failed BY DEF E!Collectors, EP!Collectors
<1>3. EP!Flows(sent[x], Len(sent[x])) = given[x].flows
  BY <1>1, <1>2 DEF EP!HealthyGetAll
<1>4. ASSUME NEW s, NEW n PROVE E!Flows(s, n) = EP!Flows(s, n)
  BY DEF EP!Flows, E!Flows, EP!Cardinality, E!Cardinality
<1>5. QED BY <1>3, <1>4

\* From the switch to the collectors: a connection that a collector without a
\* failed call was not sent was lost with its query, to the limit of the query
\* or for want of memory, and there are as many of each as were counted.
THEOREM AllAccounted == CycleSpec => []EveryConnectionAccounted
<1>1. CycleInv => EveryConnectionAccounted
  <2> SUFFICES ASSUME CycleInv, phase = "idle", exportPhase = "idle",
                      NEW x \in E!Collectors \ failed
               PROVE  E!Flows(sent[x], Len(sent[x]))
                        = total - lost["failure"] - lost["limit"] - lost["memory"]
    BY DEF EveryConnectionAccounted
  <2>1. E!Flows(sent[x], Len(sent[x])) = given[x].flows BY SameHealthy DEF CycleInv
  <2>2. given[x].flows = Delivered BY DEF CycleInv, Accounted
  <2>3. InFlight = 0 /\ total \in Nat BY Numbers DEF InFlight, CycleInv
  <2>4. Delivered = total - lost["failure"] - lost["limit"] - lost["memory"]
    BY <2>3 DEF Delivered
  <2>5. QED BY <2>1, <2>2, <2>4
<1>2. QED BY <1>1, CycleInvariance, PTL

\* The exporter's own specification holds, so everything proved from it does.
LEMMA CycleIsExporter == CycleSpec => EP!Spec
<1>1. E!Init => EP!Init BY SameInit
<1>2. [E!Next]_(E!vars) => [EP!Next]_(EP!vars) BY SameStep DEF E!vars, EP!vars
<1>3. QED BY <1>1, <1>2, ImplementsExporter, PTL DEF ExporterSteps, E!Spec, EP!Spec

\* The daemon's cycles never put the exporter into a state of which its own
\* theorems do not hold: contexts and buffers come and go together, a collector
\* can decode what it is sent, the stats records cover the flows, and only a
\* failed call makes an export undefined.
THEOREM ExporterHolds ==
  CycleSpec => [](/\ E!ObjectsGoWithContext /\ E!Decodable /\ E!StatsCoverFlows
                  /\ E!HealthyGetAll
                  /\ failed = {} => E!KeepsExporting)
<1>1. EP!Spec => [](/\ EP!ObjectsGoWithContext /\ EP!Decodable /\ EP!StatsCoverFlows
                    /\ EP!HealthyGetAll
                    /\ failed = {} => EP!KeepsExporting)
  BY SameAssumption, EP!ObjectsFreed, EP!SentDecodable, EP!StatsCover,
     EP!HealthyComplete, EP!DefinedWhileNoneFailed, PTL
<1> USE DEF EP!Collectors, E!Collectors
<1>2. EP!ObjectsGoWithContext => E!ObjectsGoWithContext
  BY DEF EP!ObjectsGoWithContext, E!ObjectsGoWithContext, EP!First, E!First,
     EP!Objects, E!Objects
<1>3. EP!Decodable => E!Decodable BY DEF EP!Decodable, E!Decodable
<1>4. /\ EP!StatsCoverFlows => E!StatsCoverFlows
      /\ EP!HealthyGetAll => E!HealthyGetAll
  <2>1. ASSUME NEW s, NEW n PROVE E!Flows(s, n) = EP!Flows(s, n)
    BY DEF EP!Flows, E!Flows, EP!Cardinality, E!Cardinality
  <2>2. EP!StatsCoverFlows => E!StatsCoverFlows
    BY <2>1 DEF EP!StatsCoverFlows, E!StatsCoverFlows
  <2>3. EP!HealthyGetAll => E!HealthyGetAll
    BY <2>1 DEF EP!HealthyGetAll, E!HealthyGetAll
  <2>4. QED BY <2>2, <2>3
<1>5. EP!KeepsExporting => E!KeepsExporting BY DEF EP!KeepsExporting, E!KeepsExporting
<1>6. QED BY <1>1, <1>2, <1>3, <1>4, <1>5, CycleIsExporter, PTL

(***************************************************************************)
(* What is left of a cycle: the calls of the query, one by one; the        *)
(* callbacks of a query or the records to free; whether the list is yet    *)
(* to be handed over; and what is left of its export, as ExporterProofs    *)
(* measures it.                                                            *)
(***************************************************************************)
Stage ==
  CASE phase = "init"  -> 9 [] phase = "connect" -> 8 [] phase = "auth"       -> 7
    [] phase = "query" -> 6 [] phase = "logout"  -> 5 [] phase = "disconnect" -> 4
    [] phase = "done"  -> 3 [] phase = "export"  -> 2 [] phase = "free"       -> 1
    [] OTHER           -> 0

Pieces ==
  CASE phase = "query" -> Limit - callbacks
    [] phase = "free"  -> Len(order)
    [] OTHER           -> 0

ToHandOver == IF handed THEN 0 ELSE 1

Effort   == <<Stage, Pieces, ToHandOver, Len(todo), EP!CallsLeft, left>>
EffortOK == Effort \in Measures(6)

LEMMA EffortType ==
  ASSUME CycleInv
  PROVE  EffortOK
<1>1. /\ Len(order) \in Nat /\ callbacks \in Nat /\ callbacks <= Limit /\ Limit \in Nat
  BY Numbers DEF CycleInv
<1>2. Pieces \in Nat BY <1>1 DEF Pieces
<1>3. Stage \in Nat /\ ToHandOver \in Nat BY DEF Stage, ToHandOver
<1>4. EP!TypeOK BY DEF CycleInv, EP!IInv
<1>5. Len(todo) \in Nat /\ left \in Nat BY <1>4, LenProperties DEF EP!TypeOK
<1>6. EP!CallsLeft \in Nat BY DEF EP!CallsLeft
<1>7. QED BY <1>2, <1>3, <1>5, <1>6 DEF EffortOK, Effort, Measures

\* Less is left if a stage is over, or a piece of it, or the list is handed
\* over, or an export is nearer its end.
Less ==
  \/ Stage' < Stage
  \/ Stage' = Stage /\ Pieces' < Pieces
  \/ Stage' = Stage /\ Pieces' = Pieces /\ ToHandOver' < ToHandOver
  \/ Stage' = Stage /\ Pieces' = Pieces /\ ToHandOver' = ToHandOver /\ EP!Nearer

LEMMA EffortLess ==
  ASSUME EffortOK, EffortOK', Less
  PROVE  <<Effort', Effort>> \in Descent(6)
<1>1. Effort \in Measures(6) /\ Effort' \in Measures(6) BY DEF EffortOK
<1>2. /\ Effort[1] = Stage /\ Effort[2] = Pieces /\ Effort[3] = ToHandOver
      /\ Effort[4] = Len(todo) /\ Effort[5] = EP!CallsLeft /\ Effort[6] = left
  BY DEF Effort
<1>3. /\ Effort'[1] = Stage' /\ Effort'[2] = Pieces' /\ Effort'[3] = ToHandOver'
      /\ Effort'[4] = Len(todo') /\ Effort'[5] = EP!CallsLeft' /\ Effort'[6] = left'
  BY DEF Effort
<1>4. PICK j \in 1 .. 6 :
        Effort'[j] < Effort[j] /\ \A i \in 1 .. j - 1 : Effort'[i] = Effort[i]
  <2>1. CASE Stage' < Stage
    <3>1. Effort'[1] < Effort[1] /\ \A i \in 1 .. 1 - 1 : Effort'[i] = Effort[i]
      BY <1>2, <1>3, <2>1
    <3>2. QED BY <3>1
  <2>2. CASE Stage' = Stage /\ Pieces' < Pieces
    <3>1. Effort'[2] < Effort[2] /\ \A i \in 1 .. 2 - 1 : Effort'[i] = Effort[i]
      BY <1>2, <1>3, <2>2
    <3>2. QED BY <3>1
  <2>3. CASE Stage' = Stage /\ Pieces' = Pieces /\ ToHandOver' < ToHandOver
    <3>1. Effort'[3] < Effort[3] /\ \A i \in 1 .. 3 - 1 : Effort'[i] = Effort[i]
      BY <1>2, <1>3, <2>3
    <3>2. QED BY <3>1
  <2>4. CASE Stage' = Stage /\ Pieces' = Pieces /\ ToHandOver' = ToHandOver /\ EP!Nearer
    <3>1. CASE Len(todo') < Len(todo)
      <4>1. Effort'[4] < Effort[4] /\ \A i \in 1 .. 4 - 1 : Effort'[i] = Effort[i]
        BY <1>2, <1>3, <2>4, <3>1
      <4>2. QED BY <4>1
    <3>2. CASE todo' = todo /\ EP!CallsLeft' < EP!CallsLeft
      <4>1. Effort'[5] < Effort[5] /\ \A i \in 1 .. 5 - 1 : Effort'[i] = Effort[i]
        BY <1>2, <1>3, <2>4, <3>2
      <4>2. QED BY <4>1
    <3>3. CASE todo' = todo /\ EP!CallsLeft' = EP!CallsLeft /\ left' < left
      <4>1. Effort'[6] < Effort[6] /\ \A i \in 1 .. 6 - 1 : Effort'[i] = Effort[i]
        BY <1>2, <1>3, <2>4, <3>3
      <4>2. QED BY <4>1
    <3>4. QED BY <2>4, <3>1, <3>2, <3>3 DEF EP!Nearer
  <2>5. QED BY <2>1, <2>2, <2>3, <2>4 DEF Less
<1>5. 6 \in Nat OBVIOUS
<1>6. QED BY <1>1, <1>4, <1>5, Descends

LEMMA CycleStepLess ==
  ASSUME CycleInv, CycleNext, ~BeginQuery
  PROVE  Less
<1>1. CASE TryConnect \/ TryAuthenticate \/ FinishQuery \/ ExportReturns
  BY <1>1 DEF TryConnect, TryAuthenticate, FinishQuery, ExportReturns,
     Connect, Authenticate, QueryEnds, Export, Stage, Less
<1>2. CASE HandleConnection
  <2>1. /\ phase = "query" /\ phase' = phase /\ callbacks' = callbacks + 1
    BY <1>2 DEF HandleConnection, Handler
  <2>2. callbacks \in Nat /\ Limit \in Nat BY Numbers DEF CycleInv
  <2>3. QED BY <2>1, <2>2 DEF Stage, Pieces, Less
<1>3. CASE OtherImportStep
  <2>1. CASE FreeLoop
    <3>1. phase = "free" /\ phase' = phase /\ FreeRecord BY <2>1 DEF FreeLoop
    <3>2. cursor # Null /\ order' = SubSeq(order, 2, Len(order)) BY <3>1 DEF FreeRecord
    <3>3. order # <<>> /\ order \in Seq(Records)
      BY <3>1, <3>2 DEF CycleInv, IInv, Phased, Freeing, TypeOK, ListTypeOK
    <3>4. order' = Tail(order) BY <3>2, <3>3
    <3>5. Len(order') < Len(order) BY <3>3, <3>4, HeadTailProperties, LenProperties
    <3>6. QED BY <3>1, <3>5 DEF Stage, Pieces, Less
  <2>2. CASE NvcInit \/ Logout \/ Disconnect \/ Done \/ EndCycle
    BY <2>2 DEF NvcInit, Logout, Disconnect, Done, EndCycle, Stage, Less
  <2>3. QED BY <1>3, <2>1, <2>2 DEF OtherImportStep
<1>4. CASE HandOver
  <2>1. ~handed /\ handed' /\ UNCHANGED <<phase, callbacks, order>>
    BY <1>4 DEF HandOver, vars, listVars
  <2>2. QED BY <2>1 DEF Stage, Pieces, ToHandOver, Less
<1>5. CASE ServeCollectors \/ Leave
  <2>1. UNCHANGED <<phase, callbacks, order, handed>>
    BY <1>5 DEF ServeCollectors, Leave, vars, listVars
  <2>2. E!Next /\ (exportPhase # "idle" \/ exportPhase' \in {"exited", "undefined"})
    BY <1>5 DEF ServeCollectors, Leave, E!Exit, E!Next
  <2>3. EP!Next /\ ~EP!StartCycle
    BY <2>2, SameStep DEF EP!StartCycle, EP!BeginCycle
  <2>4. EP!TypeOK BY DEF CycleInv, EP!IInv
  <2>5. EP!Nearer BY <2>3, <2>4, SameAssumption, EP!StepNearer
  <2>6. QED BY <2>1, <2>5 DEF Stage, Pieces, ToHandOver, Less
<1>6. QED BY <1>1, <1>2, <1>3, <1>4, <1>5 DEF CycleNext

\* Once a query has begun, whatever fails, each step leaves less of its cycle,
\* and no sequence of steps does so forever: neither the query nor the export to
\* the collectors it is joined to keeps the daemon from its next interval by
\* going on without end (main.c 36-118, nvipfix.c 264-274).
THEOREM CyclesEnd ==
  /\ IsWellFoundedOn(Descent(6), Measures(6))
  /\ CycleSpec => [][BeginQuery \/ <<Effort', Effort>> \in Descent(6)]_cycleVars
<1>1. 6 \in Nat OBVIOUS
<1>2. IsWellFoundedOn(Descent(6), Measures(6)) BY <1>1, DescentEnds
<1>3. CycleInv => EffortOK BY EffortType
<1>4. CycleSpec => [][BeginQuery \/ <<Effort', Effort>> \in Descent(6)]_cycleVars
  <2>1. CycleInv /\ EffortOK /\ EffortOK' /\ [CycleNext]_cycleVars
          => [BeginQuery \/ <<Effort', Effort>> \in Descent(6)]_cycleVars
    BY CycleStepLess, EffortLess
  <2>2. QED BY <1>3, <2>1, CycleInvariance, PTL DEF CycleSpec
<1>5. QED BY <1>2, <1>4
=============================================================================
