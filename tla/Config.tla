------------------------------- MODULE Config -------------------------------
(***************************************************************************)
(* Reading nvipfix.config (config.c): a token-driven parser that fills a   *)
(* working structure for the collector block it is in and pushes a copy of *)
(* it on the list of collectors at the closing brace.  The copies take     *)
(* over the structure's strings, which nvipfix_config_cleanup frees once   *)
(* per list item.                                                          *)
(*                                                                         *)
(* The file is arbitrary: any tokens on any lines.  A word is abstracted   *)
(* to what the parser can tell apart: a brace, the name of a setting, or a *)
(* value that is a transport, a dotted address, a time, or other text.     *)
(* dscp is recognised but kept nowhere, since nothing reads it.            *)
(***************************************************************************)
EXTENDS Naturals, Sequences

CONSTANTS
  Values,         \* the values that occur in the file
  MaxCollectors,  \* bound on the length of the list
  MallocFails     \* whether an allocation may fail

TransportWords == {"udp", "tcp", "sctp"}
ValueWords     == TransportWords \cup {"address", "time", "text"}

ASSUME ConfigAssumption ==
  /\ Values \subseteq ValueWords
  /\ MaxCollectors \in Nat
  /\ MallocFails \in BOOLEAN

VARIABLES
  phase,       \* "start", "reading", "done" or "cleaned"
  id,          \* the setting recognised last, anywhere in the file
  parentId,    \* the setting whose block the parser takes itself to be in
  tokenIndex,  \* tokens since the line or the block began, at most 3
  setting,     \* the setting recognised on this line
  collector,   \* the working structure; uninitialised at first
  cleared,     \* history: a "collector" has cleared the structure
  shared,      \* history: its string fields that a list item owns too
  switch,      \* the global strings (the four switch settings behave alike)
  interval,    \* the export interval
  list         \* CollectorList, head first: the string fields each item owns

vars == <<phase, id, parentId, tokenIndex, setting, collector, cleared,
          shared, switch, interval, list>>

-----------------------------------------------------------------------------
(***************************************************************************)
(* The table of settings: the parent of each name.                         *)
(***************************************************************************)
GlobalSettings    == {"switch", "export-interval", "collector"}
CollectorSettings == {"collector-ip-address", "collector-hostname",
                      "transport", "transport-port", "dscp"}
Names             == GlobalSettings \cup CollectorSettings
Parent(s)         == IF s \in CollectorSettings THEN "collector" ELSE "none"
Words             == Names \cup Values

\* A variant with a mistake: the search does not look at the parent.
GetSettingByName(w, parent) ==
  IF w \in Names THEN w ELSE "none"

GetSetting(w, parent) ==
  IF w \in Names /\ Parent(w) = parent THEN w ELSE "none"

Strings    == {"null", "empty", "text"}
Transports == {"undefined"} \cup TransportWords
Collector  == [name : Strings, host : Strings, ip : BOOLEAN, port : Strings,
               transport : Transports]
Zero       == [name |-> "null", host |-> "null", ip |-> FALSE,
               port |-> "null", transport |-> "undefined"]
StringFields == {"name", "host", "port"}

\* A variant with a mistake: a word that is no transport is stored as one.
ParsedAnyTransport(w, old) == w

\* nvipfix_parse_string, _ip_address and _config_parse_transport: the outcomes
\* for a word, "" being the empty token, and the old contents of the field.  The
\* copy of the empty token is a string too.  An empty address, one whose octets
\* find no memory and a transport that is not known leave the field alone.
ParsedString(w) ==
  {IF w = "" THEN "empty" ELSE "text"} \cup (IF MallocFails THEN {"null"} ELSE {})
ParsedAddress(w, old) ==
  {IF w = "" THEN old ELSE w = "address"} \cup (IF MallocFails THEN {old} ELSE {})
ParsedTransport(w, old) == IF w \in TransportWords THEN w ELSE old

\* NVIPFIX_CONFIG_DEFAULT_PORT_STR, as a word.
DefaultPort == "text"

\* The string field a setting is stored in.
FieldOf(s) == CASE s = "collector" -> "name"
                [] s = "collector-hostname" -> "host"
                [] s = "transport-port" -> "port"
                [] OTHER -> "no string"

Init ==
  /\ phase = "start"
  /\ id = "none" /\ parentId = "none" /\ tokenIndex = 0 /\ setting = "none"
  /\ collector \in Collector /\ cleared = FALSE
  /\ shared = {}
  /\ switch = "null" /\ interval = "default"
  /\ list = <<>>

-----------------------------------------------------------------------------
(***************************************************************************)
(* Variants of the code with a plausible mistake; no action uses them.     *)
(***************************************************************************)
\* A brace always opens a collector block.
OpenBraceAlways ==
  /\ phase = "reading"
  /\ parentId' = "collector"
  /\ tokenIndex' = 0
  /\ UNCHANGED <<phase, id, setting, collector, shared, switch, interval, list,
                 cleared>>

\* Only the settings outside of blocks are remembered as recognised last.
FirstWordKeepsId(w) ==
  /\ phase = "reading" /\ tokenIndex = 0
  /\ tokenIndex' = 1
  /\ setting' = GetSetting(w, parentId)
  /\ id' = IF setting' \in GlobalSettings THEN setting' ELSE id
  /\ IF setting' = "collector"
       THEN /\ collector' = Zero /\ cleared' = TRUE /\ shared' = {}
            /\ parentId' = "collector"
       ELSE UNCHANGED <<collector, cleared, shared, parentId>>
  /\ UNCHANGED <<phase, switch, interval, list>>

\* The structure is cleared for the first block only.
FirstWordClearsOnce(w) ==
  /\ phase = "reading" /\ tokenIndex = 0
  /\ tokenIndex' = 1
  /\ setting' = GetSetting(w, parentId)
  /\ id' = IF setting' = "none" THEN id ELSE setting'
  /\ IF setting' = "collector" /\ ~cleared
       THEN collector' = Zero /\ cleared' = TRUE /\ shared' = {}
       ELSE UNCHANGED <<collector, cleared, shared>>
  /\ parentId' = IF setting' = "collector" THEN "collector" ELSE parentId
  /\ UNCHANGED <<phase, switch, interval, list>>

-----------------------------------------------------------------------------
(***************************************************************************)
(* nvipfix_config_init runs once; a file that cannot be opened leaves the  *)
(* defaults.                                                               *)
(***************************************************************************)
OpenFile ==
  /\ phase = "start"
  /\ phase' \in {"reading", "done"}
  /\ UNCHANGED <<id, parentId, tokenIndex, setting, collector, shared,
                 switch, interval, list, cleared>>

NewLine == tokenIndex' = 0 /\ setting' = "none"

EndLine ==
  /\ phase = "reading"
  /\ NewLine
  /\ UNCHANGED <<phase, id, parentId, collector, shared, switch, interval, list, cleared>>

\* The end of the file, or a line that is too long or cannot be split.
EndFile ==
  /\ phase = "reading" /\ tokenIndex = 0
  /\ phase' = "done"
  /\ UNCHANGED <<id, parentId, tokenIndex, setting, collector, shared,
                 switch, interval, list, cleared>>

OpenBrace ==
  /\ phase = "reading"
  /\ parentId' = id
  /\ tokenIndex' = 0
  /\ UNCHANGED <<phase, id, setting, collector, shared, switch, interval, list, cleared>>

\* nvipfix_config_add_collector: the copy on the list and the structure itself
\* have the same strings from here on.
AddCollector ==
  IF collector.host = "null" /\ ~collector.ip THEN UNCHANGED <<collector, shared, list>>
  ELSE
    \/ /\ Len(list) < MaxCollectors
       /\ \E port \in IF collector.port = "null" THEN ParsedString(DefaultPort)
                      ELSE {collector.port} :
            collector' = [collector EXCEPT
              !.port = port,
              !.transport = IF @ = "undefined" THEN "udp" ELSE @]
       /\ shared' = {f \in StringFields : collector'[f] # "null"}
       /\ list' = <<shared'>> \o list
    \/ MallocFails /\ UNCHANGED <<collector, shared, list>>

CloseBrace ==
  /\ phase = "reading"
  /\ IF parentId = "collector" THEN AddCollector
     ELSE UNCHANGED <<collector, shared, list>>
  /\ parentId' = "none"
  /\ tokenIndex' = 0
  /\ UNCHANGED <<phase, id, setting, switch, interval, cleared>>

\* The first word names a setting of the block; "collector" opens one.
FirstWord(w) ==
  /\ phase = "reading" /\ tokenIndex = 0
  /\ tokenIndex' = 1
  /\ setting' = GetSetting(w, parentId)
  /\ id' = IF setting' = "none" THEN id ELSE setting'
  /\ IF setting' = "collector"
       THEN /\ collector' = Zero /\ cleared' = TRUE /\ shared' = {}
            /\ parentId' = "collector"
       ELSE UNCHANGED <<collector, cleared, shared, parentId>>
  /\ UNCHANGED <<phase, switch, interval, list>>

\* setting->parseValue into the working structure or into a global.
ParseIntoCollector(w) ==
  /\ \/ /\ FieldOf(setting) \in StringFields
        /\ \E s \in ParsedString(w) :
             collector' = [collector EXCEPT ![FieldOf(setting)] = s]
        /\ shared' = shared \ {FieldOf(setting)}
     \/ /\ FieldOf(setting) \notin StringFields
        /\ \E ip \in IF setting = "collector-ip-address"
                    THEN ParsedAddress(w, collector.ip) ELSE {collector.ip} :
             collector' = [collector EXCEPT
               !.ip = ip,
               !.transport = IF setting = "transport" THEN ParsedTransport(w, @) ELSE @]
        /\ UNCHANGED shared
  /\ UNCHANGED <<switch, interval>>

ParseIntoGlobal(w) ==
  /\ IF setting = "switch" THEN switch' \in ParsedString(w) ELSE UNCHANGED switch
  /\ \/ interval' = IF setting = "export-interval" /\ w = "time" THEN "configured"
                    ELSE interval
     \/ MallocFails /\ UNCHANGED interval
  /\ UNCHANGED <<collector, shared>>

ParseValue(w) ==
  CASE setting = "none"         -> UNCHANGED <<collector, shared, switch, interval>>
    [] setting # "none" /\ parentId = "collector" -> ParseIntoCollector(w)
    [] setting # "none" /\ parentId = "none"      -> ParseIntoGlobal(w)
    [] OTHER                    -> UNCHANGED <<collector, shared, switch, interval>>

SecondWord(w) ==
  /\ phase = "reading" /\ tokenIndex = 1
  /\ tokenIndex' = 2
  /\ ParseValue(w)
  /\ UNCHANGED <<phase, id, parentId, setting, list, cleared>>

\* Words after the second are reported and ignored.
ExtraWord ==
  /\ phase = "reading" /\ tokenIndex \in {2, 3}
  /\ tokenIndex' = 3
  /\ UNCHANGED <<phase, id, parentId, setting, collector, shared, switch,
                 interval, list, cleared>>

\* A line that ends in two or more blanks is split with an empty last token,
\* which names no setting but is a value.
EmptyToken ==
  /\ phase = "reading"
  /\ IF tokenIndex = 1 THEN ParseValue("")
     ELSE UNCHANGED <<collector, shared, switch, interval>>
  /\ NewLine
  /\ UNCHANGED <<phase, id, parentId, list, cleared>>

\* atexit.
Cleanup ==
  /\ phase = "done"
  /\ phase' = "cleaned"
  /\ switch' = "null" /\ list' = <<>>
  /\ UNCHANGED <<id, parentId, tokenIndex, setting, collector, shared, interval, cleared>>

Next ==
  \/ OpenFile \/ EndLine \/ EndFile \/ OpenBrace \/ CloseBrace
  \/ \E w \in Words : FirstWord(w) \/ SecondWord(w)
  \/ ExtraWord \/ EmptyToken \/ Cleanup

Spec == Init /\ [][Next]_vars

-----------------------------------------------------------------------------
TypeOK ==
  /\ phase \in {"start", "reading", "done", "cleaned"}
  /\ id \in Names \cup {"none"}
  /\ parentId \in Names \cup {"none"}
  /\ tokenIndex \in 0 .. 3
  /\ setting \in Names \cup {"none"}
  /\ collector \in Collector /\ cleared \in BOOLEAN
  /\ shared \subseteq StringFields
  /\ switch \in Strings
  /\ interval \in {"default", "configured"}
  /\ list \in Seq(SUBSET StringFields)

\* The working structure is never read or written before "collector" cleared
\* it, whatever braces the file has.
BlockIsInitialised == parentId = "collector" => cleared

\* A closing brace never puts a string on the list that an item of the list
\* owns already: cleanup would free it twice.
NoSharedStrings ==
  [][Len(list') > Len(list) => shared = {}]_vars

\* Whatever opens a collector block, its name or a brace of its own, the
\* structure holds no host, address, port or transport of an earlier block, so
\* none ends up in the item of a later one.  A name may be there: a block that a
\* second brace reopens keeps it.
BlockStartsEmpty ==
  [][parentId # "collector" /\ parentId' = "collector" =>
       \A f \in DOMAIN Zero \ {"name"} : collector'[f] = Zero[f]]_vars

\* The value on a line goes where its setting belongs: the parser never stores
\* a collector's setting in a global nor a global one in the structure.
ValueGoesToItsBlock ==
  tokenIndex = 1 /\ setting # "none" =>
    /\ parentId \in {"none", "collector"}
    /\ parentId = "collector" <=> setting \in CollectorSettings \cup {"collector"}

=============================================================================
