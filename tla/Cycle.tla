-------------------------------- MODULE Cycle --------------------------------
(***************************************************************************)
(* The daemon's cycles from end to end (nvipfix_main_export_nvc in main.c  *)
(* called by the loop of nvipfix.c 264-274): a query of the switch, as in  *)
(* NvcImport, whose records go to every collector, as in Exporter, before  *)
(* they are freed.  The two share a thread: each of their steps is a step  *)
(* of this module, and what joins them is nvipfix_main_export.             *)
(*                                                                         *)
(* The switch is external: an interval has some number of connections, and *)
(* a query that goes well hands over as many of them as it may.            *)
(***************************************************************************)
EXTENDS NvcImport

CONSTANTS
  CollectorList, Faulty, Faults,   \* as in Exporter
  MaxQueries,      \* bound on the number of cycles
  MaxConnections   \* bound on the connections of an interval

ASSUME CycleAssumption == {MaxQueries, MaxConnections} \subseteq Nat

VARIABLES
  exportPhase, todo, records, left, appended, ready, ctx, alive, tmpl, count,
  pending, sent, given, failed, dropped,   \* as in Exporter
  handed,    \* whether the list of this cycle went to the exporter
  waiting,   \* the connections of the interval that is asked for
  queries,   \* history: the number of cycles begun
  total,     \* history: the connections of all their intervals
  lost       \* history: those that were not stored, by reason

exportVars == <<exportPhase, todo, records, left, appended, ready, ctx, alive, tmpl,
                count, pending, sent, given, failed, dropped>>
switchVars == <<waiting, queries, total>>
cycleVars  == <<vars, exportVars, handed, switchVars, lost>>

E == INSTANCE Exporter WITH
  phase <- exportPhase, MaxCycles <- MaxQueries, MaxRecords <- Limit

ASSUME CollectorsAssumption ==
  /\ CollectorList \in Seq(E!Collectors)
  /\ \A i, j \in DOMAIN CollectorList : CollectorList[i] = CollectorList[j] => i = j
  /\ Faulty \subseteq E!Collectors
  /\ Faults \subseteq E!FaultKinds

CycleInit ==
  /\ Init /\ E!Init
  /\ handed = FALSE /\ waiting = 0
  /\ queries = 0 /\ total = 0
  /\ lost = [failure |-> 0, limit |-> 0, memory |-> 0]

Lose(reason, n) == lost' = [lost EXCEPT ![reason] = @ + n]

-----------------------------------------------------------------------------
(***************************************************************************)
(* Variants of the code with a plausible mistake; no action uses them.     *)
(***************************************************************************)
\* The exporter is called without a test for an empty list.
HandOverAny ==
  /\ phase = "export" /\ ~handed
  /\ E!BeginCycle(IF list THEN Len(order) ELSE 0) /\ handed' = TRUE
  /\ UNCHANGED <<vars, switchVars, lost>>

\* The list may be freed without being exported.
FreeUnexported ==
  /\ exportPhase = "idle"
  /\ Export /\ handed' = FALSE
  /\ UNCHANGED <<exportVars, switchVars, lost>>

-----------------------------------------------------------------------------
(***************************************************************************)
(* The query.                                                              *)
(***************************************************************************)
\* The loop's next turn: the interval is over, with its connections.
BeginQuery ==
  /\ exportPhase = "idle" /\ queries < MaxQueries
  /\ StartCycle
  /\ queries' = queries + 1
  /\ \E n \in 0 .. MaxConnections : waiting' = n /\ total' = total + n
  /\ UNCHANGED <<exportVars, handed, lost>>

\* A query that is not even asked, or that fails on the way, is not repeated:
\* its interval is over, and what it did not hand over is lost.
TryConnect ==
  /\ Connect
  /\ IF phase' = "done" THEN Lose("failure", waiting) ELSE UNCHANGED lost
  /\ UNCHANGED <<exportVars, handed, switchVars>>

TryAuthenticate ==
  /\ Authenticate
  /\ IF phase' = "disconnect" THEN Lose("failure", waiting) ELSE UNCHANGED lost
  /\ UNCHANGED <<exportVars, handed, switchVars>>

HandleConnection ==
  /\ callbacks < waiting
  /\ Handler
  /\ IF order' = order THEN Lose("memory", 1) ELSE UNCHANGED lost
  /\ UNCHANGED <<exportVars, handed, switchVars>>

FinishQuery ==
  /\ QueryEnds
  /\ Lose(IF callbacks = Limit THEN "limit" ELSE "failure", waiting - callbacks)
  /\ UNCHANGED <<exportVars, handed, switchVars>>

OtherImportStep ==
  /\ NvcInit \/ Logout \/ Disconnect \/ Done \/ FreeLoop \/ EndCycle
  /\ UNCHANGED <<exportVars, handed, switchVars, lost>>

-----------------------------------------------------------------------------
(***************************************************************************)
(* The export.                                                             *)
(***************************************************************************)
\* nvipfix_main_export: a list that is not NULL goes to the collectors.
HandOver ==
  /\ phase = "export" /\ list /\ ~handed
  /\ E!BeginCycle(Len(order)) /\ handed' = TRUE
  /\ UNCHANGED <<vars, switchVars, lost>>

\* nvipfix_export for each of them, call by call.
ServeCollectors ==
  /\ exportPhase # "idle" /\ E!Next
  /\ UNCHANGED <<vars, handed, switchVars, lost>>

\* It returns, and the list is freed.
ExportReturns ==
  /\ exportPhase = "idle" /\ (list => handed)
  /\ Export /\ handed' = FALSE
  /\ UNCHANGED <<exportVars, switchVars, lost>>

\* The loop ends, and the exit handler runs.
Leave ==
  /\ phase = "idle" /\ E!Exit
  /\ UNCHANGED <<vars, handed, switchVars, lost>>

CycleNext ==
  \/ BeginQuery \/ TryConnect \/ TryAuthenticate \/ HandleConnection
  \/ FinishQuery \/ OtherImportStep \/ HandOver \/ ServeCollectors \/ ExportReturns
  \/ Leave

\* As for a query: every call returns, and there is one thread.
CycleSpec == CycleInit /\ [][CycleNext]_cycleVars /\ WF_cycleVars(CycleNext)

-----------------------------------------------------------------------------
\* The types of the variables that are not those of the parts.
CycleTypeOK ==
  /\ handed \in BOOLEAN /\ (handed => list /\ phase = "export")
  /\ waiting \in 0 .. MaxConnections /\ queries \in 0 .. MaxQueries /\ total \in Nat
  /\ lost \in [{"failure", "limit", "memory"} -> Nat]

\* The exporter is used as its own specification says, so that what holds of it
\* holds here: it is called between its calls, for a list with a record at least
\* and no more than the limit of a query.
ExporterSteps == E!Spec

\* From end to end: after each cycle a collector none of whose calls failed was
\* sent every connection of every interval, but for those of queries that
\* failed, those over the limit of a query and those there was no memory for.
EveryConnectionAccounted ==
  phase = "idle" /\ exportPhase = "idle" =>
    \A x \in E!Collectors \ failed :
      E!Flows(sent[x], Len(sent[x])) = total - lost["failure"] - lost["limit"] - lost["memory"]

=============================================================================
