------------------------------ MODULE Exporter ------------------------------
(***************************************************************************)
(* One export cycle after another: nvipfix_main_export hands the records   *)
(* of a cycle to every configured collector in list order (main.c), and    *)
(* nvipfix_export keeps, per collector, a context with a libfixbuf session *)
(* and buffer, and two counters it reports in a stats record (export.c).   *)
(*                                                                         *)
(* libfixbuf is external and modelled from its calls: each may fail, the   *)
(* buffer collects items into a message, an append that does not fit sends *)
(* the message first, and a message that could not be sent is kept or      *)
(* dropped.  Records are interchangeable; a record list is its length.     *)
(***************************************************************************)
EXTENDS Naturals, Sequences, FiniteSets

CONSTANTS
  CollectorList,   \* the collectors in the order of the configuration's list
  Faulty,          \* the collectors whose external calls may fail
  Faults,          \* which calls may fail
  MaxCycles,       \* bound on the number of cycles
  MaxRecords       \* bound on the records of a cycle

FaultKinds == {"init", "context", "open", "templates", "set", "append", "emit"}
Collectors == {CollectorList[i] : i \in DOMAIN CollectorList}

ASSUME ExporterAssumption ==
  /\ CollectorList \in Seq(Collectors)
  /\ \A i, j \in DOMAIN CollectorList : CollectorList[i] = CollectorList[j] => i = j
  /\ Faulty \subseteq Collectors
  /\ Faults \subseteq FaultKinds
  /\ MaxCycles \in Nat /\ MaxRecords \in Nat

VARIABLES
  phase,       \* the next call of the export code, or "idle" between cycles
  todo,        \* the collectors not yet finished in this cycle
  records,     \* length of this cycle's record list
  left,        \* records of the list still to append for the collector
  appended,    \* recordCount: records appended for the collector
  ready,       \* isInitialized of nvipfix_export_init
  ctx,         \* the collector's ctx pointer: "null", "live" or "freed"
  alive,       \* the libfixbuf objects that exist for the collector
  tmpl,        \* templates set on the collector's buffer
  count,       \* flowRecordCount and messageCount of the context
  pending,     \* items in the buffer's unsent message
  sent,        \* history: items sent to the collector
  given,       \* history: records and cycles a collector was given
  failed,      \* history: collectors for which some call failed
  dropped      \* history: collectors for which libfixbuf dropped a message

vars == <<phase, todo, records, left, appended, ready, ctx, alive, tmpl, count,
          pending, sent, given, failed, dropped>>

Templates == {"none", "flow", "stats"}
Objects   == <<"session", "exporter", "templates", "buffer">>   \* as allocated
First(k)  == {Objects[i] : i \in 1 .. k}
Phases    == {"idle", "init", "exportTemplates", "setFlow", "append", "emitFlows",
              "setStats", "appendStats", "emitStats", "exited", "undefined"}

\* An item in a message: its contents, and the templates it is encoded with.
TemplatesItem == [kind |-> "templates"]
FlowItem(t) == [kind |-> "flow", with |-> t]
StatsItem(t, n) == [kind |-> "stats", with |-> t, count |-> n]

cur == Head(todo)
MayFail(kind) == kind \in Faults /\ cur \in Faulty
Failed == failed' = failed \cup {cur}
Put(item) == pending' = [pending EXCEPT ![cur] = Append(@, item)]

\* The flow records among the first n items of s.
Flows(s, n) == Cardinality({i \in 1 .. n : s[i].kind = "flow"})

Init ==
  /\ phase = "idle" /\ todo = <<>> /\ records = 0 /\ left = 0 /\ appended = 0
  /\ ready = FALSE
  /\ ctx = [x \in Collectors |-> "null"]
  /\ alive = [x \in Collectors |-> {}]
  /\ tmpl = [x \in Collectors |-> [int |-> "none", ext |-> "none"]]
  /\ count = [x \in Collectors |-> [flows |-> 0, msgs |-> 0]]
  /\ pending = [x \in Collectors |-> <<>>]
  /\ sent = [x \in Collectors |-> <<>>]
  /\ given = [x \in Collectors |-> [flows |-> 0, msgs |-> 0]]
  /\ failed = {} /\ dropped = {}

-----------------------------------------------------------------------------
(***************************************************************************)
(* nvipfix_main_export.                                                    *)
(***************************************************************************)
Cycles == IF CollectorList = <<>> THEN 0 ELSE given[CollectorList[1]].msgs

\* A cycle with records: every collector of the list is to get them.  A cycle
\* without (the list is NULL then) ends where it starts and changes nothing.
BeginCycle(n) ==
  /\ phase = "idle"
  /\ records' = n
  /\ given' = [x \in Collectors |-> [flows |-> given[x].flows + n,
                                     msgs |-> given[x].msgs + 1]]
  /\ todo' = CollectorList
  /\ phase' = IF CollectorList = <<>> THEN "idle" ELSE "init"
  /\ UNCHANGED <<left, appended, ready, ctx, alive, tmpl, count, pending, sent, failed, dropped>>

StartCycle ==
  /\ Cycles < MaxCycles
  /\ \E n \in 1 .. MaxRecords : BeginCycle(n)

\* A variant with a mistake: the loop misses the end of the list.
ReturnUnchecked ==
  /\ todo' = Tail(todo)
  /\ phase' = "init"

\* nvipfix_export returns, with or without an error: on to the next collector.
Return ==
  /\ todo' = Tail(todo)
  /\ phase' = IF Tail(todo) = <<>> THEN "idle" ELSE "init"

-----------------------------------------------------------------------------
(***************************************************************************)
(* Variants of the code with a plausible mistake; no action uses them.     *)
(***************************************************************************)
\* The flow templates are set only when the session is opened.
SetFlowTemplatesOnce ==
  /\ phase = "setFlow"
  /\ tmpl' = IF tmpl[cur].int # "none" THEN tmpl
             ELSE [tmpl EXCEPT ![cur] = [int |-> "flow", ext |-> "flow"]]
  /\ left' = records /\ appended' = 0
  /\ phase' = "append"
  /\ UNCHANGED <<todo, ctx, alive, pending, failed, records, ready, count, sent, given, dropped>>

\* Records of a message that was not sent are taken out of the count.
EmitFlowsDiscounts ==
  /\ phase = "emitFlows"
  /\ \/ /\ sent' = [sent EXCEPT ![cur] = @ \o pending[cur]]
        /\ pending' = [pending EXCEPT ![cur] = <<>>]
        /\ UNCHANGED <<failed, appended>>
     \/ /\ MayFail("emit") /\ Failed
        /\ appended' = 0
        /\ UNCHANGED <<sent, pending>>
  /\ phase' = "setStats"
  /\ UNCHANGED <<todo, records, left, ready, ctx, alive, tmpl, count, given, dropped>>

\* A failed call goes to a label behind the one that frees the buffer.
FreeContextOnly ==
  /\ ctx' = [ctx EXCEPT ![cur] = "freed"]
  /\ pending' = [pending EXCEPT ![cur] = <<>>]
  /\ Failed /\ Return
  /\ UNCHANGED alive

\* The loop over the collectors ends with the first error.
BreakOnError ==
  /\ ctx' = [ctx EXCEPT ![cur] = "freed"]
  /\ alive' = [alive EXCEPT ![cur] = {}]
  /\ pending' = [pending EXCEPT ![cur] = <<>>]
  /\ Failed
  /\ todo' = <<>> /\ phase' = "idle"

-----------------------------------------------------------------------------
(***************************************************************************)
(* nvipfix_export: one action per external call it makes.                  *)
(***************************************************************************)
\* The error path frees the buffer (and with it session, exporter and
\* templates), the context and its counters; the pointer kept in the
\* collector's configuration is not reset.
FreeAndReturn ==
  /\ ctx' = [ctx EXCEPT ![cur] = "freed"]
  /\ alive' = [alive EXCEPT ![cur] = {}]
  /\ pending' = [pending EXCEPT ![cur] = <<>>]
  /\ Failed /\ Return

ExportInit ==
  /\ phase = "init" /\ MayFail("init") /\ ~ready
  /\ Failed /\ Return
  /\ UNCHANGED <<records, left, appended, ready, ctx, alive, tmpl, count, pending, sent, given, dropped>>

\* The first export opens the session, a later one goes on with it.
UseContext ==
  /\ phase = "init"
  /\ ready' = TRUE
  /\ \/ /\ ctx[cur] = "live"
        /\ phase' = "exportTemplates"
        /\ UNCHANGED <<todo, ctx, alive, tmpl, count, failed>>
     \/ /\ ctx[cur] = "null"
        /\ ctx' = [ctx EXCEPT ![cur] = "live"]
        /\ alive' = [alive EXCEPT ![cur] = First(4)]
        /\ tmpl' = [tmpl EXCEPT ![cur] = [int |-> "none", ext |-> "none"]]
        /\ count' = [count EXCEPT ![cur] = [flows |-> 0, msgs |-> 0]]
        /\ phase' = "exportTemplates"
        /\ UNCHANGED <<todo, failed>>
     \/ /\ ctx[cur] = "null" /\ MayFail("context")
        /\ Failed /\ Return
        /\ UNCHANGED <<ctx, alive, tmpl, count>>
  /\ UNCHANGED <<records, left, appended, pending, sent, given, dropped>>

\* A failure after the pointer is stored (session, exporter, templates, buffer):
\* the context is freed, and what libfixbuf had allocated until then is lost.
OpenFails ==
  /\ phase = "init" /\ ctx[cur] = "null" /\ MayFail("open")
  /\ ready' = TRUE
  /\ ctx' = [ctx EXCEPT ![cur] = "freed"]
  /\ \E k \in 0 .. 3 : alive' = [alive EXCEPT ![cur] = First(k)]
  /\ Failed /\ Return
  /\ UNCHANGED <<records, left, appended, tmpl, count, pending, sent, given, dropped>>

\* The pointer is not NULL but the context is gone: undefined behaviour.
UseFreed ==
  /\ phase = "init" /\ ctx[cur] = "freed"
  /\ phase' = "undefined"
  /\ UNCHANGED <<todo, records, left, appended, ready, ctx, alive, tmpl, count,
                 pending, sent, given, failed, dropped>>

ExportTemplates ==
  /\ phase = "exportTemplates"
  /\ \/ Put(TemplatesItem) /\ phase' = "setFlow" /\ UNCHANGED <<todo, ctx, alive, failed>>
     \/ MayFail("templates") /\ FreeAndReturn
  /\ UNCHANGED <<records, left, appended, ready, tmpl, count, sent, given, dropped>>

SetFlowTemplates ==
  /\ phase = "setFlow"
  /\ \/ /\ tmpl' = [tmpl EXCEPT ![cur] = [int |-> "flow", ext |-> "flow"]]
        /\ left' = records /\ appended' = 0
        /\ phase' = "append"
        /\ UNCHANGED <<todo, ctx, alive, pending, failed>>
     \/ MayFail("set") /\ FreeAndReturn /\ UNCHANGED <<tmpl, left, appended>>
  /\ UNCHANGED <<records, ready, count, sent, given, dropped>>

\* fBufAppend of an item: it joins the message, or the message is sent first
\* to make room for it; or the call fails and the item is skipped.
BufAppends(item) ==
  /\ \/ Put(item) /\ UNCHANGED sent
     \/ /\ pending[cur] # <<>>
        /\ sent' = [sent EXCEPT ![cur] = @ \o pending[cur]]
        /\ pending' = [pending EXCEPT ![cur] = <<item>>]
  /\ UNCHANGED failed

BufAppendFails == MayFail("append") /\ Failed /\ UNCHANGED <<pending, sent>>

AppendRecord ==
  /\ phase = "append" /\ left > 0
  /\ left' = left - 1
  /\ \/ BufAppends(FlowItem(tmpl[cur])) /\ appended' = appended + 1
     \/ BufAppendFails /\ UNCHANGED appended
  /\ UNCHANGED <<phase, todo, records, ready, ctx, alive, tmpl, count, given, dropped>>

RecordsDone ==
  /\ phase = "append" /\ left = 0
  /\ phase' = "emitFlows"
  /\ UNCHANGED <<todo, records, left, appended, ready, ctx, alive, tmpl, count,
                 pending, sent, given, failed, dropped>>

\* fBufEmit; a failure is only logged, and the message is kept or dropped.
Emit ==
  \/ /\ sent' = [sent EXCEPT ![cur] = @ \o pending[cur]]
     /\ pending' = [pending EXCEPT ![cur] = <<>>]
     /\ UNCHANGED <<failed, dropped>>
  \/ /\ MayFail("emit") /\ Failed
     /\ \/ UNCHANGED <<pending, dropped>>
        \/ /\ pending' = [pending EXCEPT ![cur] = <<>>]
           /\ dropped' = dropped \cup {cur}
     /\ UNCHANGED sent

EmitFlows ==
  /\ phase = "emitFlows" /\ Emit
  /\ phase' = "setStats"
  /\ UNCHANGED <<todo, records, left, appended, ready, ctx, alive, tmpl, count, given>>

\* The counters take in the cycle only once both stats templates are set.
SetStatsTemplates ==
  /\ phase = "setStats"
  /\ \/ /\ tmpl' = [tmpl EXCEPT ![cur] = [int |-> "stats", ext |-> "stats"]]
        /\ count' = [count EXCEPT ![cur] = [flows |-> @.flows + appended,
                                          msgs |-> @.msgs + 1]]
        /\ phase' = "appendStats"
        /\ UNCHANGED <<todo, ctx, alive, pending, failed>>
     \/ MayFail("set") /\ FreeAndReturn /\ UNCHANGED <<tmpl, count>>
  /\ UNCHANGED <<records, left, appended, ready, sent, given, dropped>>

AppendStats ==
  /\ phase = "appendStats"
  /\ BufAppends(StatsItem(tmpl[cur], count[cur])) \/ BufAppendFails
  /\ phase' = "emitStats"
  /\ UNCHANGED <<todo, records, left, appended, ready, ctx, alive, tmpl, count, given, dropped>>

EmitStats ==
  /\ phase = "emitStats" /\ Emit /\ Return
  /\ UNCHANGED <<records, left, appended, ready, ctx, alive, tmpl, count, given>>

\* atexit: nvipfix_export_cleanup frees the buffer behind every context
\* pointer that is not NULL.
Exit ==
  /\ phase = "idle"
  /\ phase' = IF \E x \in Collectors : ctx[x] = "freed" THEN "undefined" ELSE "exited"
  /\ alive' = [x \in Collectors |-> IF ctx[x] = "live" THEN {} ELSE alive[x]]
  /\ pending' = [x \in Collectors |-> <<>>]
  /\ UNCHANGED <<todo, records, left, appended, ready, ctx, tmpl, count,
                 sent, given, failed, dropped>>

Next ==
  \/ StartCycle \/ ExportInit \/ UseContext \/ OpenFails \/ UseFreed
  \/ ExportTemplates \/ SetFlowTemplates \/ AppendRecord \/ RecordsDone
  \/ EmitFlows \/ SetStatsTemplates \/ AppendStats \/ EmitStats \/ Exit

\* The program goes on with a cycle it has begun.
Spec == Init /\ [][Next]_vars

-----------------------------------------------------------------------------
Items ==
  [kind : {"templates"}]
  \cup [kind : {"flow"}, with : [int : Templates, ext : Templates]]
  \cup [kind : {"stats"}, with : [int : Templates, ext : Templates],
        count : [flows : Nat, msgs : Nat]]

TypeOK ==
  /\ phase \in Phases
  /\ todo \in Seq(Collectors)
  /\ phase \notin {"idle", "exited", "undefined"} => todo # <<>>
  /\ records \in Nat /\ left \in Nat /\ appended \in Nat
  /\ ready \in BOOLEAN
  /\ ctx \in [Collectors -> {"null", "live", "freed"}]
  /\ alive \in [Collectors -> SUBSET First(4)]
  /\ tmpl \in [Collectors -> [int : Templates, ext : Templates]]
  /\ count \in [Collectors -> [flows : Nat, msgs : Nat]]
  /\ pending \in [Collectors -> Seq(Items)]
  /\ sent \in [Collectors -> Seq(Items)]
  /\ given \in [Collectors -> [flows : Nat, msgs : Nat]]
  /\ failed \subseteq Collectors /\ dropped \subseteq failed

\* A context in use has all its objects; a buffer, and with it the session it
\* belongs to, does not outlive its context, nor the program's exit: what the
\* error paths lose is at most what an opening that failed had allocated.
ObjectsGoWithContext ==
  phase # "undefined" => \A x \in Collectors :
    IF ctx[x] = "live" /\ phase # "exited"
    THEN alive[x] = First(4)
    ELSE "buffer" \notin alive[x] /\ (alive[x] # {} => ctx[x] = "freed")

\* Whatever failed before, what a collector is sent is encoded with the
\* templates of its kind, and comes after them if libfixbuf dropped nothing.
Decodable ==
  \A x \in Collectors : \A i \in DOMAIN sent[x] :
    LET item == sent[x][i] IN
    item.kind # "templates" =>
      /\ item.with = [int |-> item.kind, ext |-> item.kind]
      /\ x \notin dropped =>
           \E j \in 1 .. i - 1 : sent[x][j].kind = "templates"

\* A stats record never claims fewer records than were sent before it, and the
\* totals it claims never exceed what the collector was given.
StatsCoverFlows ==
  \A x \in Collectors : \A i \in DOMAIN sent[x] :
    sent[x][i].kind = "stats" =>
      /\ Flows(sent[x], i) <= sent[x][i].count.flows
      /\ sent[x][i].count.flows <= given[x].flows
      /\ sent[x][i].count.msgs <= given[x].msgs

\* A collector whose calls all succeed has got every record of every cycle and
\* exact totals when the cycle ends, whatever failed for the others.
HealthyGetAll ==
  phase = "idle" => \A x \in Collectors \ failed :
    /\ Flows(sent[x], Len(sent[x])) = given[x].flows
    /\ sent[x] # <<>> => sent[x][Len(sent[x])].count = given[x]
    /\ given[x].msgs > 0 => sent[x] # <<>>

\* The exporter keeps exporting periodically to the configured collectors
\* (README): an export that failed does not make the next one undefined.
KeepsExporting == phase # "undefined"

=============================================================================
