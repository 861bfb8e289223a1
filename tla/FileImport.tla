----------------------------- MODULE FileImport -----------------------------
(***************************************************************************)
(* A batch run with a data file (nvipfix_main_export_file in main.c,       *)
(* nvipfix_import_file and nvipfix_import in import.c): read the file      *)
(* block by block into a buffer that grows, cut the text into records at   *)
(* its brackets, braces, commas and colons, add each to the record list,   *)
(* export the list and free it.                                            *)
(*                                                                         *)
(* A character is a model of one byte: a mark of the format, a blank ("_", *)
(* which stands for quotes and line ends too, as every trim treats them    *)
(* alike), or a whole word, which the code only ever compares or converts. *)
(***************************************************************************)
EXTENDS DataList, Text

CONSTANTS
  Files,        \* the contents a data file may have
  BlockSizes,   \* values of SizeofFileBuffer (65536 in the code)
  MaxBlocks,    \* bound on memory: how many blocks the buffer can ever hold
  MemoryFails   \* whether smaller allocations may fail, too

Nul    == "nul"     \* the end of a string
Tab    == "vt"      \* '\v', which takes the place of an item's first colon
Zero   == [vlan |-> 0, ip |-> "none", state |-> "none"]

ASSUME FileImportAssumption ==
  /\ \A f \in Files : f \in Seq(STRING)
  /\ BlockSizes \subseteq Nat \ {0} /\ MaxBlocks \in Nat
  /\ MemoryFails \in BOOLEAN

\* What a cell of the buffer may hold: a character of a file, or what was in
\* memory.
Byte == STRING \cup {"?", Nul}

VARIABLES
  phase,      \* where the program is
  file,       \* the file's bytes
  broken,     \* every read of it fails (a directory, say)
  block,      \* SizeofFileBuffer
  pos,        \* how much of it was read
  buffer,     \* the buffer, which realloc leaves uninitialised where it grows
  index,      \* where the next block is read to
  tokens,     \* the tokens not yet looked at
  records,    \* the records of the current token not yet looked at
  content,    \* the data of each record of the list
  short       \* history: some allocation failed

readVars   == <<file, broken, block, pos, buffer, index>>
parseVars  == <<tokens, records, content>>
vars == <<listVars, phase, readVars, parseVars, short>>

Phases == {"open", "read", "split", "tokens", "records", "export", "free",
           "done", "undefined"}
Parsing == {"split", "tokens", "records"}

Init ==
  /\ ListInit
  /\ phase = "open"
  /\ broken \in BOOLEAN /\ block \in BlockSizes
  /\ file \in IF broken THEN {<<>>} ELSE Files
  /\ pos = 0 /\ buffer = <<>> /\ index = 0
  /\ tokens = <<>> /\ records = <<>>
  /\ content = [r \in Records |-> Zero]
  /\ short = FALSE

-----------------------------------------------------------------------------
(***************************************************************************)
(* Reading.                                                                *)
(***************************************************************************)
\* What fread yields at this point of the file.
Chunk ==
  IF broken THEN <<>> ELSE SubSeq(file, pos + 1, Smallest({pos + block, Len(file)}))

\* Memory as it comes: n ordinary bytes before the first that is zero.
Fresh(n) == [i \in 1 .. block |-> IF i <= n THEN "?" ELSE Nul]

\* The bytes of s laid over the cells of b from (0-based) offset o on.
Overlay(b, o, s) ==
  [i \in DOMAIN b |-> IF i - o \in DOMAIN s THEN s[i - o] ELSE b[i]]

\* The cases that matter: a zero behind what is read, one byte on, nowhere.
Junk == {0, Smallest({Len(Chunk) + 1, block}), block}

Read(offset) ==
  /\ \E n \in Junk : buffer' = Overlay(buffer \o Fresh(n), offset, Chunk)
  /\ pos' = pos + Len(Chunk)

-----------------------------------------------------------------------------
(***************************************************************************)
(* Variants of the code with a plausible mistake; no action uses them.     *)
(***************************************************************************)
\* Every block is read to the beginning of the buffer.
ReadToFront ==
  /\ phase = "read" /\ Len(buffer) < MaxBlocks * block
  /\ Read(0) /\ index' = index + (block - 1)
  /\ phase' = IF ~broken /\ Len(Chunk) < block THEN "split" ELSE "read"
  /\ UNCHANGED <<listVars, file, broken, block, parseVars, short>>

\* The loop goes on until a block yields nothing.
ReadUntilNothing ==
  /\ phase = "read" /\ Len(buffer) < MaxBlocks * block
  /\ Read(index) /\ index' = index + (block - 1)
  /\ phase' = IF ~broken /\ Chunk = <<>> THEN "split" ELSE "read"
  /\ UNCHANGED <<listVars, file, broken, block, parseVars, short>>

\* The buffer never gives up.
ReallocRetries ==
  /\ phase = "read"
  /\ MemoryFails \/ Len(buffer) = MaxBlocks * block
  /\ short' = TRUE
  /\ UNCHANGED <<listVars, phase, readVars, parseVars>>

-----------------------------------------------------------------------------
\* fopen; a NULL list is exported when there is no such file.
Open ==
  /\ phase = "open"
  /\ phase' \in {"read", "export"}
  /\ UNCHANGED <<listVars, readVars, parseVars, short>>

\* One turn of the loop: grow, read a block over the last byte of the one
\* before, and go on until the end of the file, not until a read fails.
ReadBlock ==
  /\ phase = "read" /\ Len(buffer) < MaxBlocks * block
  /\ Read(index) /\ index' = index + (block - 1)
  /\ phase' = IF ~broken /\ Len(Chunk) < block THEN "split" ELSE "read"
  /\ UNCHANGED <<listVars, file, broken, block, parseVars, short>>

ReallocFails ==
  /\ phase = "read"
  /\ MemoryFails \/ Len(buffer) = MaxBlocks * block
  /\ short' = TRUE
  /\ phase' = "export"
  /\ UNCHANGED <<listVars, readVars, parseVars>>

-----------------------------------------------------------------------------
(***************************************************************************)
(* The values of a record.  A word of digits begins with a number, a word  *)
(* that is no number converts to zero.                                     *)
(***************************************************************************)
Number(s) == IF s # <<>> /\ Head(s) = "7" THEN 7 ELSE 0

\* A variant with a mistake: the parts of the address are not counted.
AnyAddress(s, before) == IF s = <<>> THEN before ELSE Head(s)

\* nvipfix_parse_ip_address: four parts, or no address.
Address(s, before) ==
  CASE s = <<>>                                      -> before
    [] Cardinality({i \in DOMAIN s : s[i] = "ip"}) = 1 -> "ip"
    [] OTHER                                         -> "none"

\* nvipfix_import_parse_tcp_control_flags: the whole value, or no change.
Flags(s, before) == IF s = <<"fin">> THEN "fin" ELSE before

\* A variant with a mistake: the name's parser gets the item's first part.
SetItemToName(data, name, value) ==
  CASE name = <<"vlan">>      -> [data EXCEPT !.vlan = Number(name)]
    [] name = <<"src-ip">>    -> [data EXCEPT !.ip = Address(name, @)]
    [] OTHER                  -> data

\* The table of items: which field a name stands for, and its parser.
SetItem(data, name, value) ==
  CASE name = <<"vlan">>      -> [data EXCEPT !.vlan = Number(value)]
    [] name = <<"src-ip">>    -> [data EXCEPT !.ip = Address(value, @)]
    [] name = <<"cur-state">> -> [data EXCEPT !.state = Flags(value, @)]
    [] OTHER                  -> data

\* An item counts if it falls into two parts at its first colon.
AddItem(data, item) ==
  LET colons == {i \in DOMAIN item : item[i] = ":"}
      parts  == Split([item EXCEPT ![Smallest(colons)] = Tab], {Tab})
  IN  IF colons # {} /\ Len(parts) = 2
      THEN SetItem(data, Trim(parts[1], {"_"}), Trim(parts[2], {"_"}))
      ELSE data

\* The data of a record, item by item, but for those without memory for them
\* (`before' is bound in a set so that TLC evaluates it once).
DataUpTo(items, lost) ==
  LET data[i \in 0 .. Len(items)] ==
        IF i = 0 THEN Zero ELSE IF i \in lost THEN data[i - 1]
        ELSE CHOOSE after \in {AddItem(before, items[i]) : before \in {data[i - 1]}} : TRUE
  IN  data

DataOf(items, lost) == DataUpTo(items, lost)[Len(items)]

Items(record) == Split(Trim(record, {",", "}"}), {","})

-----------------------------------------------------------------------------
(***************************************************************************)
(* From the text to the list.                                              *)
(***************************************************************************)
Terminated == \E i \in DOMAIN buffer : buffer[i] = Nul

\* The string in the buffer.
TextRead == SubSeq(buffer, 1, Smallest({i \in DOMAIN buffer : buffer[i] = Nul}) - 1)

\* Without a zero byte in the buffer the string goes on behind it: undefined.
SplitText ==
  /\ phase = "split"
  /\ IF ~Terminated THEN phase' = "undefined" /\ UNCHANGED <<tokens, short>>
     ELSE \/ /\ \E text \in {TextRead} : tokens' = Split(text, {"[", "]"})
             /\ phase' = IF tokens' = <<>> THEN "export" ELSE "tokens"
             /\ UNCHANGED short
          \/ MemoryFails /\ short' = TRUE /\ phase' = "export" /\ UNCHANGED tokens
  /\ UNCHANGED <<listVars, readVars, records, content>>

\* A token is passed over unless it is the name of the data: then the next
\* one holds the records.
Name(token) == Trim(token, {"{", "}", "_", ":"})
IsData      == Name(Head(tokens)) = <<"data">> /\ Len(tokens) > 1

SkipToken ==
  /\ phase = "tokens" /\ tokens # <<>>
  /\ ~IsData \/ MemoryFails
  /\ short' = (short \/ IsData)
  /\ tokens' = Tail(tokens)
  /\ UNCHANGED <<listVars, phase, readVars, records, content>>

DataToken ==
  /\ phase = "tokens" /\ tokens # <<>> /\ IsData
  /\ \E found \in {Split(tokens[2], {"{"})} :
       \/ records' = found /\ UNCHANGED short
       \/ MemoryFails /\ records' = <<>> /\ short' = TRUE
  /\ tokens' = Tail(Tail(tokens))
  /\ phase' = IF records' = <<>> THEN "tokens" ELSE "records"
  /\ UNCHANGED <<listVars, readVars, content>>

NextRecord ==
  /\ records' = Tail(records)
  /\ phase' = IF Tail(records) = <<>> THEN "tokens" ELSE "records"
  /\ UNCHANGED <<readVars, tokens>>

\* A record without items is none; nor is one for which memory was short.
SkipRecord ==
  /\ phase = "records"
  /\ Items(Head(records)) = <<>> \/ MemoryFails
  /\ short' = (short \/ Items(Head(records)) # <<>>)
  /\ NextRecord
  /\ UNCHANGED <<listVars, content>>

AddRecord ==
  /\ phase = "records"
  /\ \E items \in {Items(Head(records))} :
         /\ items # <<>>
         /\ \E lost \in IF MemoryFails THEN SUBSET DOMAIN items ELSE {{}} :
              \/ /\ AddCopySucceeds
                 /\ content' = [content EXCEPT ![tail'] = DataOf(items, lost)]
                 /\ short' = (short \/ lost # {})
              \/ /\ MemoryFails /\ AddCopyFails
                 /\ short' = TRUE /\ UNCHANGED content
  /\ NextRecord

TokensDone ==
  /\ phase = "tokens" /\ tokens = <<>>
  /\ phase' = "export"
  /\ UNCHANGED <<listVars, readVars, parseVars, short>>

\* The list goes to the collectors (see Exporter) and is freed.
Export ==
  /\ phase = "export" /\ phase' = "free"
  /\ FreeBegins
  /\ UNCHANGED <<readVars, parseVars, short>>

Free ==
  /\ phase = "free"
  /\ \/ FreeRecord /\ UNCHANGED phase
     \/ FreeHeader /\ phase' = "done"
  /\ UNCHANGED <<readVars, parseVars, short>>

Next ==
  \/ Open \/ ReadBlock \/ ReallocFails \/ SplitText \/ SkipToken \/ DataToken
  \/ SkipRecord \/ AddRecord \/ TokensDone \/ Export \/ Free

\* One thread, which the system schedules.
Spec == Init /\ [][Next]_vars /\ WF_vars(Next)

-----------------------------------------------------------------------------
TypeOK ==
  /\ ListTypeOK
  /\ phase \in Phases
  /\ file \in Files \cup {<<>>} /\ broken \in BOOLEAN /\ block \in BlockSizes
  /\ pos \in 0 .. Len(file) /\ index \in Nat
  /\ buffer \in Seq(Byte)
  /\ tokens \in Seq(Seq(Byte)) /\ records \in Seq(Seq(Byte))
  /\ content \in [Records -> [vlan : Nat, ip : {"none", "ip"}, state : {"none", "fin"}]]
  /\ short \in BOOLEAN

\* A byte is lost at each seam: the last of a block that is not the last one.
Kept(p) == p % block # 0 \/ p = Len(file)

\* Where the byte at p of the file comes to lie (1-based).
Cell(p) == p - (p - 1) \div block

\* When the file was read, the buffer holds every other byte of it in its
\* place (none was read over or behind the end), with room left behind the
\* last one for the end of the string, which the code leaves to chance.
BufferHoldsFile ==
  phase = "split" =>
    \A p \in DOMAIN file :
      Kept(p) => Cell(p) < Len(buffer) /\ buffer[Cell(p)] = file[p]

\* A file that can be read takes no more blocks than it fills, and one.
BlocksBounded ==
  ~broken => Len(buffer) <= (Len(file) \div block + 1) * block

\* Split finds every run of other characters in order, once, whatever the
\* delimiters; the empty token at the end is the only one.
SplitFindsRuns ==
  phase = "open" =>
    \A d \in {{"[", "]"}, {"{"}, {","}} : IsSplit(Split(file, d), file, d)

-----------------------------------------------------------------------------
(***************************************************************************)
(* What a data file means.  A document is a sequence of records, each a    *)
(* sequence of the names of its items; the values are fixed.               *)
(***************************************************************************)
CONSTANT Documents

\* A document without records has no text between its brackets, so the token
\* behind them is taken for the records; one without items is no record.
ASSUME DocumentsAssumption ==
  \A d \in Documents :
    /\ d \in Seq(Seq({"vlan", "src-ip", "cur-state"})) /\ d # <<>>
    /\ \A i \in DOMAIN d : d[i] # <<>>

ValueOf(name) == CASE name = "vlan" -> "7" [] name = "src-ip" -> "ip" [] OTHER -> "fin"

Joined(parts) ==
  LET upTo[i \in 0 .. Len(parts)] ==
        IF i = 0 THEN <<>> ELSE IF i = 1 THEN parts[1]
        ELSE upTo[i - 1] \o <<",">> \o parts[i]
  IN  upTo[Len(parts)]

\* A text without its blanks.
Bare(s) ==
  LET upTo[i \in 0 .. Len(s)] ==
        IF i = 0 THEN <<>> ELSE IF s[i] = "_" THEN upTo[i - 1]
        ELSE Append(upTo[i - 1], s[i])
  IN  upTo[Len(s)]

Rendered(document) ==
  LET record(names) == <<"{">> \o Joined([i \in DOMAIN names |->
                         <<names[i], ":", ValueOf(names[i])>>]) \o <<"}">>
  IN  <<"{", "data", ":", "[">> \o
      Joined([i \in DOMAIN document |-> record(document[i])]) \o <<"]", "}">>

Meant(names) ==
  [vlan  |-> IF \E i \in DOMAIN names : names[i] = "vlan" THEN 7 ELSE 0,
   ip    |-> IF \E i \in DOMAIN names : names[i] = "src-ip" THEN "ip" ELSE "none",
   state |-> IF \E i \in DOMAIN names : names[i] = "cur-state" THEN "fin" ELSE "none"]

Imported == [i \in DOMAIN order |-> content[order[i]]]

\* A blank between the brackets that is not inside a record.
BlankBetweenRecords ==
  LET Count(c, i) == Cardinality({j \in 1 .. i : file[j] = c})
  IN  \E i \in DOMAIN file :
        /\ file[i] = "_" /\ Count("[", i) = 1 /\ Count("]", i) = 0
        /\ Count("{", i) - Count("}", i) = 1

\* A document without empty records that fits in a block comes out record by
\* record and item by item, whatever lies behind it in memory and wherever it
\* has blanks, except between the records: one there makes a record of its
\* own, or a part of the value before it.
ImportsDocument ==
  phase = "export" /\ pos = Len(file) /\ pos \in 1 .. block /\ ~short /\ ~BlankBetweenRecords =>
    \A d \in Documents :
      Bare(file) = Rendered(d) =>
        Imported = [i \in DOMAIN d |-> Meant(d[i])]

\* The import comes to its end, also for a file that cannot be read: then when
\* memory does.
ImportEnds == (phase = "read") ~> (phase \in {"done", "undefined"})

=============================================================================
