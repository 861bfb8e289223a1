------------------------------ MODULE NvcImport -----------------------------
(***************************************************************************)
(* One query of the switch after another (nvipfix_main_export_nvc in       *)
(* main.c, nvipfix_import_nvc in import.c): open a session with the        *)
(* switch's NVC library, let it call a handler back for each connection,   *)
(* close the session again, export what was collected and free it.         *)
(*                                                                         *)
(* The NVC library is external: each call may fail.  A failed query still  *)
(* returns the records its callbacks collected before it failed.           *)
(***************************************************************************)
EXTENDS DataList

CONSTANT Limit   \* limit_output of the query (10000 in the code)

ASSUME NvcImportAssumption == Limit \in Nat

VARIABLES
  phase,       \* the next call of the cycle, "idle" or "crashed"
  io,          \* how far the session with the switch is open
  callbacks,   \* connections the running query has handed to the handler
  exported     \* history: what the last export of the cycle was given

vars == <<listVars, phase, io, callbacks, exported>>

Phases == {"idle", "init", "connect", "auth", "query", "logout", "disconnect",
           "done", "export", "free", "crashed"}

\* Each level of the session includes those before it.
Levels == {"none", "initialised", "connected", "loggedIn"}

Init ==
  /\ ListInit
  /\ phase = "idle" /\ io = "none" /\ callbacks = 0 /\ exported = <<>>

-----------------------------------------------------------------------------
(***************************************************************************)
(* Variants of the code with a plausible mistake; no action uses them.     *)
(***************************************************************************)
\* A failed authentication jumps to the label after the disconnect.
AuthSkipsDisconnect ==
  /\ phase = "auth"
  /\ \/ phase' = "query" /\ io' = "loggedIn" /\ callbacks' = 0
     \/ phase' = "done" /\ UNCHANGED <<io, callbacks>>
  /\ UNCHANGED <<listVars, exported>>

\* Only a complete answer is exported; another one is freed at once.
DoneSkipsExport ==
  /\ phase = "done" /\ io' = "none"
  /\ \/ phase' = "export" /\ UNCHANGED listVars
     \/ phase' = "free" /\ FreeBegins
  /\ UNCHANGED <<callbacks, exported>>

-----------------------------------------------------------------------------
\* The switch's settings are copied first; without memory for the copy the
\* code reads through NULL (main.c, line 70).
StartCycle ==
  /\ phase = "idle"
  /\ phase' \in {"init", "crashed"}
  /\ UNCHANGED <<listVars, io, callbacks, exported>>

NvcInit ==
  /\ phase = "init"
  /\ phase' = "connect" /\ io' = "initialised"
  /\ UNCHANGED <<listVars, callbacks, exported>>

Connect ==
  /\ phase = "connect"
  /\ \/ phase' = "auth" /\ io' = "connected"
     \/ phase' = "done" /\ UNCHANGED io
  /\ UNCHANGED <<listVars, callbacks, exported>>

\* nvcResult may be uninitialised when the call failed: both tests of it and
\* of the return code lead to the same label.
Authenticate ==
  /\ phase = "auth"
  /\ \/ phase' = "query" /\ io' = "loggedIn" /\ callbacks' = 0
     \/ phase' = "disconnect" /\ UNCHANGED <<io, callbacks>>
  /\ UNCHANGED <<listVars, exported>>

\* nvipfix_import_conn_stat_handler.
Handler ==
  /\ phase = "query" /\ callbacks < Limit
  /\ callbacks' = callbacks + 1
  /\ AddCopySucceeds \/ AddCopyFails
  /\ UNCHANGED <<phase, io, exported>>

\* The query ends, well or not.
QueryEnds ==
  /\ phase = "query"
  /\ phase' = "logout"
  /\ UNCHANGED <<listVars, io, callbacks, exported>>

Logout ==
  /\ phase = "logout"
  /\ phase' = "disconnect" /\ io' = "connected"
  /\ UNCHANGED <<listVars, callbacks, exported>>

Disconnect ==
  /\ phase = "disconnect"
  /\ phase' = "done" /\ io' = "initialised"
  /\ UNCHANGED <<listVars, callbacks, exported>>

Done ==
  /\ phase = "done"
  /\ phase' = "export" /\ io' = "none"
  /\ UNCHANGED <<listVars, callbacks, exported>>

\* nvipfix_main_export reads the list (see Exporter); then it is freed.
Export ==
  /\ phase = "export"
  /\ exported' = IF list THEN order ELSE <<>>
  /\ phase' = "free"
  /\ FreeBegins
  /\ UNCHANGED <<io, callbacks>>

FreeLoop ==
  /\ phase = "free"
  /\ FreeRecord
  /\ UNCHANGED <<phase, io, callbacks, exported>>

EndCycle ==
  /\ phase = "free"
  /\ FreeHeader
  /\ phase' = "idle" /\ exported' = <<>>
  /\ UNCHANGED <<io, callbacks>>

Next ==
  \/ StartCycle \/ NvcInit \/ Connect \/ Authenticate \/ Handler \/ QueryEnds
  \/ Logout \/ Disconnect \/ Done \/ Export \/ FreeLoop \/ EndCycle

\* The library calls return, so a cycle that began goes on; nothing else in the
\* process runs meanwhile.
Spec == Init /\ [][Next]_vars /\ WF_vars(Next)

-----------------------------------------------------------------------------
TypeOK ==
  /\ ListTypeOK
  /\ phase \in Phases
  /\ io \in Levels
  /\ callbacks \in 0 .. Limit
  /\ exported \in Seq(Records)

\* Whatever failed, each cycle closes the session as far as it opened it: the
\* level is the one the next call needs, and none is left open afterwards.
SessionMatchesPhase ==
  io = CASE phase \in {"connect", "done"}    -> "initialised"
         [] phase \in {"auth", "disconnect"} -> "connected"
         [] phase \in {"query", "logout"}    -> "loggedIn"
         [] OTHER                            -> "none"

\* The loop that frees the list only ever looks at allocated records, and the
\* list is gone when a cycle is over: only leaked records stay allocated.
FreeIsSafe ==
  /\ cursor # Null => cursor \in live
  /\ phase \in {"idle", "init", "connect", "auth", "crashed"} =>
       ~list /\ live = leaked

\* Every record a callback stored is exported before it is freed, also when
\* the query failed after some callbacks.
NothingUnexported ==
  [][\A r \in live : r \notin live' =>
       \E i \in DOMAIN exported : exported[i] = r]_vars

\* Every cycle comes to its end: the session is closed and the loop over the
\* records reaches NULL, whatever order malloc gives the addresses out in.
CycleEnds == (phase # "idle") ~> (phase \in {"idle", "crashed"})

=============================================================================
