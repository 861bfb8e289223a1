# A formal model of nvIPFIX

nvIPFIX asks a Netvisor switch for its connection statistics and exports them as
IPFIX flow records to a set of collectors. It runs as a daemon that does this
once per interval (`nvIPFIX start`, `nvIPFIX stop`), or once for a given period
or data file. This directory holds TLA+ modules translated from the C code,
TLC configurations that check them on small instances, and TLAPS proofs of what
holds for every instance.

Line numbers below refer to the files in `src/src/`.

## The system and its parts

| part | code | state it keeps | operations | model |
|---|---|---|---|---|
| Daemon life cycle | `nvipfix.c` main, main_daemon | a POSIX shared-memory name, the object behind it, a flag `isRunning` in the object | `start` (look for the name, fork, create, size, map, set, poll, remove), `stop` (open, clear the flag, unlink) | `Daemon`, promise in `Service` |
| Query of the switch | `import.c` nvipfix_import_nvc and its callback, `main.c` nvipfix_main_export_nvc | an NVC session, the list of records so far | connect, authenticate, query with one callback per connection, log out, disconnect | `NvcImport` |
| Record list | `data.c` | header, doubly linked records | add, add a copy, free | `DataList` |
| Export | `export.c`, `main.c` nvipfix_main_export | per collector: a context (libfixbuf session and buffer, two counters); the information model | export one cycle to one collector, initialise, clean up at exit | `Exporter` |
| Configuration | `config.c` | list of collectors, switch settings, interval | read the file once, getters, clean up at exit | `Config` |
| File import | `import.c` nvipfix_import, `main.c` nvipfix_main_export_file | a buffer, the text being cut up, the list of records | read block by block, cut into records and items, convert, export, free | `FileImport`, with `Text` |
| Cycle | `nvipfix.c` 264-274, `main.c` | what the importer hands to the exporter | query, export to every collector, free | `Cycle`, of NvcImport and Exporter |
| Polling clock, batch period | `nvipfix.c` 151-169 and 257-274, `types.c` | interval, start and end of the period | wait, take the time, query, export, move the start on | `Poller` |
| Dates and times | `types.c` 602-824 | - | parse a date or a span, convert to local time and back, count seconds | `Times`, and `Poller` for spans |
| Hash table | `types.c` 143-328 | 255 roots of binary trees, two functions for values | add, get, free | `HashTable8`, `Hash8`, promise in `KeyMap` |
| Strings | `types.c` 330-475 | - | split, trim | `Text` |
| Log, argument table, file watching | `log.c`, `args.c`, `fwatch.c` | handle of the log | - | not modelled |

How they interact. `start` and `stop` are processes of their own; they and the
daemon share nothing but the shared-memory name and the flag. Inside a daemon
everything is one thread: the loop calls nvipfix_main_export_nvc, which copies
the switch settings from the configuration, calls nvipfix_import_nvc (the NVC
library calls a handler back, which appends to the record list), hands the list
to nvipfix_main_export, which calls nvipfix_export for each collector of the
configuration, and frees the list. The context of a collector is kept in the
configuration's list item, so the exit handlers of the exporter and of the
configuration both walk that list. The `omp critical` sections of the code guard
nothing concurrent: no parallel region exists in the program, so there are no
thread interleavings to model.

What is hard about it:

- *Interleavings of processes.* Start, stop and up to several daemons work on one
  name with separate system calls. A shared-memory object outlives its name.
- *Crashes.* A killed process leaves the name behind.
- *Failing calls.* Almost every call of libfixbuf, of the NVC library and of malloc
  has an error path with labels that undo what was done; a failure of one collector
  must not disturb the others or the next cycle.
- *Stale state across cycles.* Contexts, templates, counters and freed memory are
  carried from one cycle to the next.
- *Arbitrary input.* The configuration parser and the parser of data files are state
  machines that any sequence of words and marks can drive into unexpected corners.
- *Clocks.* Periods are counted from wake-ups that come late, stamped by a clock that
  somebody may set, and converted through a local time that runs an hour twice.

`PROJECT.json` lists these hazards one by one, each at the line where it bites and
with the properties that would be violated if it went wrong.

## Modules

### Daemon and Service

`Daemon` has one action per system call that touches the name, the object or the
flag. `pc[p]` says which call process `p` makes next; the comments at the sets
`Starting`, `Stopping`, `Startup` and `Loop` give the line of each. `name` is the object the name
is linked to; `seg[p]` the object a process has open or mapped; `sized` the objects
that ftruncate has given a size (touching a smaller one is a SIGBUS, which ends the
process: `Clear`). `shm_open` with O_CREAT but without O_EXCL joins a linked object
(`Create`). `shm_unlink` removes the name whatever it is linked to (`StartUnlink`,
`Remove`, `StopUnlink`). The sleep, the query and the export of a cycle are the one
step `Poll`. `Crash` kills any process anywhere; it also stands for a failed mmap,
which the code does not recognise because it compares with NULL and not MAP_FAILED,
so that the next access faults. Closing of file handles, umask and the log are left out.

Who issues commands when is the constant `Discipline`: at *any* time (then also with a
path that realpath cannot resolve, `ResolveFails`, and with shm_open refused although
the name is linked, `OpenMayFail`; the other disciplines take these to work); *settled* (the
previous command and the startup of its daemon are over); *quick* (settled, and a
start only once every daemon was told to stop); *careful* (settled, and a start only
once no daemon is left).

`Service` says what a careful user may rely on, with no processes and no shared
memory: the service is down, starting, up or stopping; a start ends up or gives up;
a stop given while it is up takes effect. `Daemon` maps its state to it (`status`,
`asked`) and `ImplementsService` states the refinement, liveness included.

### Exporter

One action per external call of nvipfix_export, in the order of the code, for the
collector at the head of `todo` (the loop of nvipfix_main_export). Which calls may
fail for which collectors are the constants `Faults` and `Faulty`. `ctx[c]` is the
pointer kept in the collector's list item: the error path (`FreeAndReturn`) frees the
context and leaves the pointer, and `UseFreed` is the use of it afterwards, which is
undefined and ends the behaviour in the phase "undefined". libfixbuf is external: its
buffer holds the items appended and not yet sent, an append that finds the message full
sends it first, and a message whose sending failed is kept or dropped. A record is
reduced to the templates in force when it is appended, and a list of records to its
length; the conversion of each field (330-354) is left out.

### Config

nvipfix_config_read as a state machine over words: one action per branch of the loop
over tokens, plus the ends of lines and of the file. A word is a brace, the name of a
setting or a value, and a value is what the parsers can tell apart (a transport, a
dotted address, a time, other text). `Init` lets the working structure hold anything,
since the code does not initialise it. A string field is NULL, a string, or the empty
string that is the copy of an empty token; where an allocation fails it becomes NULL, and
an address or the interval stays what it was. Of the items of the list only the strings
they own are kept, which is what the clean-up frees; `shared` remembers which strings of
the working structure an item owns as well. The four switch strings behave alike and are
one. `EmptyToken` is the empty last token that the line splitter yields for a line that
ends in blanks.

### DataList and NvcImport

`DataList` is data.c: pointers `head`, `tail`, `next`, `prev` over addresses that
malloc gives out, also again after they were freed. A record gets the links of the one it
is a copy of (`Copied`), which every caller has zeroed.
`order` and `leaked` are history. `NvcImport` EXTENDS it and adds a query cycle: one
action per call of the NVC library, each of which may fail where the code expects it,
the callback, the export and the loop that frees the list. The error labels of
nvipfix_import_nvc are nested, so a failure enters the clean-up at the depth it
reached. The uninitialised `nvcResult` is covered by the choice in `Authenticate` and
`QueryEnds`: both tests lead to the same label whatever it holds. A NULL switch info
(70) ends the process ("crashed").

### Poller

The times and the interval that the daemon's loop, or a batch run, hands to
nvipfix_main_export_nvc. `now` is true time, and `Clock` what time() returns: the two
part when the clock is set (`SetClock`). `cycles` is a history of the queries: the period
the switch is asked for (`from`, `to`) and the times its records are stamped with
(`start`, `end`). Each of waking up, asking and exporting may take up to `MaxDelay`.
The interval goes through the code's own arithmetic: microseconds computed as a 32-bit
int, in units of 64 of them, so that TLC's integers suffice and nothing is rounded. A
negative interval sleeps for 68 years or more, which is the end of the behaviour. The
length of a batch run's period is narrowed to an int (`ToInt`), negative from 68 years on. The
query is external: it covers the `within_last` seconds up to the moment it is asked, as
the field's name says. The stamps and a batch run's
period go through the conversions of `Times`.

### Times

The conversions between moments and dates with a time of day. A datetime is reduced to
the seconds its fields count, so that localtime adds the zone's offset and mktime, which
the code always calls with `tm_isdst = 0`, takes off that of winter. `ParsedDatetime` is
the parser of dates with the number parser it rests on: strtoull with base 0, for which
a leading zero means octal. What is exported for a datetime is an unsigned number of 32
bits (`SecondsSinceEpoch`), which holds those from 1970 until 2106 (`InU32`). `Word`, the
number of values that 32 bits hold, is a constant because TLC's integers have 32 bits too.

### Cycle

NvcImport and Exporter on one thread, as the daemon's loop runs them: each step is a step
of the one, of the other, or of what joins them, nvipfix_main_export and the call before
it. `BeginQuery` to `FinishQuery` are the importer's actions with a switch that has some
number of connections for the interval; `HandOver` is nvipfix_main_export's test and the
start of the exporter's cycle; `ServeCollectors` is the whole of Exporter's `Next`;
`ExportReturns` frees the list. `lost` is history: the connections an interval lost, to a
failed query, to its limit, or for want of memory. Each action of the importer is taken as it
is, and `ExporterSteps` is the specification of Exporter, which `HandOver` has to keep to.

### FileImport and Text

A batch run for a data file, one action per pass of a loop: `ReadBlock` (and
`ReallocFails`) for the loop that reads the file into a buffer, then one action each for
the split into records at the brackets, the test of a record, and the tokens of a record. A
character is a byte that the parser tells apart: a mark, a blank or a whole word. Uninitialised
bytes of the buffer are any character (`Junk`). The items of the table in import.c that
share a parser are represented by one of each kind. `Text` holds nvipfix_string_split, as
the loop over characters it is, and the trimming; `SplitFindsRuns` compares the former
with what splitting means. `Rendered` writes the document that `ImportsDocument` reads
back, and `Bare` takes the blanks out of a text; they define the format, not code.

### HashTable8, Hash8 and KeyMap

The hash table: 255 root nodes inside the table, a search tree of keys below each. A node
is named by its place, the bucket and the turns from the root, so that the pointers need
no variable of their own; `Passes` is the search that nvipfix_hashtable8_get_or_add makes
from the root down, `Targets` where it ends for an add. An add is `AddPointer` or
`AddCopy` by whether the table owns its values, and can end for want of memory for table
or node (`AddNoMemory`) or for the copy (`AddCopyFails`); `live` holds the blocks that
copies were made in, which malloc gives out again. A root whose key has no length counts
as empty (167), which the model follows. A key of the hash 255 leads outside the array:
`Beyond` ends the behaviour there. `Hash` is a constant of HashTable8, and `Hash8` the
function the code has for it. `KeyMap` is the promise: a map from keys to values in which
an add that fails leaves its key without a value. The memory of the keys is left out.

## What TLC checks

| run | instance | question |
|---|---|---|
| daemon_any | 3 process slots, 3 objects, 1 kill, commands at any time | Is the flag always safe to touch for the daemons? Does the name go with them? Can anything but a stop end one? |
| daemon_careful | same, careful commands, 1 kill | Is a running daemon always stoppable? Does the system implement `Service`? |
| exporter | 2 collectors, one faulty in every call, 2 cycles of 1 or 2 records | Is everything sent decodable and counted, do a context's objects go with it, and is the healthy collector unharmed? |
| config | all words, 2 collectors, files of any length, any allocation failing | Is the structure initialised, are values stored where they belong, does a block start without the settings of another, is nothing freed twice? |
| cycle | 3 addresses, up to 3 connections an interval, limit 2, 2 cycles, 2 collectors, the first faulty in appending and in its context; every call of the query failing | Does each connection reach the healthy collectors, or is its loss accounted for? Is the list well linked and freed safely? Is the exporter used as it specifies? Does every cycle end? |
| poller | five intervals from a minute to 72 minutes, batch runs from 20 minutes to 35 years, 3 queries, delays up to 2 s, the clock set once, summer time ending in between | Is anything asked for twice? Is what is missed bounded? Do the stamps fit, and in which order are they? |
| file_import | documents of up to 2 records with a blank anywhere or odd values, all texts of up to 4 marks, blocks of 1, 3 and 19 bytes, any allocation failing | Is the file in the buffer? Is the memory bounded? Does a document come out as it was meant? Does the import end? |
| hashtable | 5 keys, 2 values, 2 blocks for copies, any allocation failing | Is every key found? Is every copy freed once? Is the table a map? |

The properties, by run:

- daemon_any. `DaemonFlagSized`: a daemon touches its flag only in an object that has its
  size, although racing starts share objects. `NoStaleName`: without kills a linked name
  belongs to a daemon that is alive and will unlink it. `NoSpuriousExit`: a daemon
  leaves its loop only after a stop wrote in the object it polls.
- daemon_careful. `Stoppable`: a polling daemon that was not told to stop is the one the
  name leads to. `ImplementsService`: the refinement.
- exporter. `Decodable`: every item is sent with the templates of its kind, after the
  templates themselves unless a message was dropped. `StatsCoverFlows`: the totals of a
  stats record are between what was sent and what was given. `HealthyGetAll`: a collector
  none of whose calls failed has all records and exact totals at the end of a cycle.
  `ObjectsGoWithContext`: a context in use has all its objects, and no buffer outlives its
  context.
- config. `BlockIsInitialised`: the structure is used only after it was cleared.
  `ValueGoesToItsBlock`: a value is stored where its setting belongs. `NoSharedStrings`: a
  string is never listed twice. `BlockStartsEmpty`: however a block is opened, no host,
  address, port or transport of an earlier one is in the structure.
- cycle. `SessionMatchesPhase`, `WellLinked`, `FreeIsSafe`, `NothingUnexported` and
  `CycleEnds`: the session, the list, the memory, the records, and the end of a cycle.
  `EveryConnectionAccounted`: from the switch to the collectors, what a healthy collector
  was not sent was lost with a query, to its limit, or for want of memory, and counted.
  `ExporterSteps`: the whole implements `Exporter`.
- poller. `NoMomentTwice`: no two queries ask for the same moment. `MissesOnlyDelays`:
  between two of them at most three delays are left out. `StampsFit`: the stamps leave no
  hole and cover what was asked for, unless the clock is set. `StampsInOrder`: an export's
  end comes before its start only across the end of summer, while 32 bits hold both.
  `BatchSpan`: a batch run asks for a period as long as the one it exports, if the period is
  not backwards, an int holds its length and 32 bits hold its datetimes.
- file_import. `BufferHoldsFile`: exactly the bytes at the seams of blocks are lost, and
  there is room for the end of the text. `BlocksBounded`: a readable file takes no more
  blocks than it fills, and one. `SplitFindsRuns`: nvipfix_string_split against what
  splitting means. `ImportsDocument`: a document comes out record by record and item by
  item. `ImportEnds`: the import comes to an end.
- hashtable. `EveryKeyFound`: a key in the table is found, in one node only, however its
  tree has grown. `CopiesOwned`: no copy is freed twice, or kept in a node after it was
  freed, or lost. `ImplementsMap`: for keys that have a length and a bucket the table is a
  map.

The type invariants of `Daemon`, `Exporter`, `Config`, `Poller` and `FileImport` are checked
in one run each; those of `NvcImport`, `Cycle` and `HashTable8` are proved and not run.
For each property `PROJECT.json` names a variant of the code (an operator with a plausible
mistake, used by no action) under which TLC finds the property violated in the same run.

### Bounds, and why they are enough

- *Daemon.* Three process slots hold the two processes of a race and a third that observes
  it, or a command, its daemon and another command; a slot is reused when its process
  ends, so the number of commands is not bounded. Three objects are one per process. One
  kill reaches every point of every process once.
- *Exporter.* Two collectors are a faulty one before a healthy one; two cycles show what one
  leaves for the next; two records make an append that sends a full message followed by
  another.
- *Config.* Two listed collectors show the second copied from a structure whose strings the
  first may own.
- *Cycle.* Three addresses let a later cycle get its records in another order; three
  connections with a limit of two are an interval below, at and above the limit; two cycles
  show what the first leaves. The faults are the two that matter here: a collector that
  never gets a context, and one that fails in the middle of a list.
- *Poller.* The intervals are the default, the first that overflows, an hour, and those
  that wrap around to zero and to 25 seconds; three queries make two pairs of neighbours
  and one pair that is not. The daemon boots minutes before summer ends. `Word` is 2 * 10^9
  instead of 2^32: the exported seconds end in 2033 and an int at 31 years, so that one period
  of 35 years is too long, one ends after the last second and one begins before the first;
  periods written backwards and over the ends of summer go with them.
- *FileImport.* A block of one byte makes every byte a seam, one of three cuts a document
  into several blocks, one of 19 holds each document with its blank, or falls short of the
  longest. The buffer may hold five blocks, so that memory also runs out on its own. Two
  records are one before a comma and one after; the blank is tried at each place; texts of
  four marks reach each combination of brackets and braces that a token can begin or end with.
- *HashTable8.* Three keys of one bucket, one of them empty, make a tree of a root with
  either child and the case of the empty root; the fourth has a byte that overflows when
  hashed and lies in the last bucket; the fifth, `@>~`, in the one there is not. Two values
  and two blocks are an old and a new one. Values and blocks are symmetric: no property
  tells them apart.

### Fairness

`Daemon`: weak fairness for every process's program steps, which is what the operating
system's scheduler gives. Commands and kills have none: nobody has to type one.
`Poll` is fair, which assumes that a query and an export return. `NvcImport`, `Cycle` and
`FileImport`: weak fairness of the single thread, under the same assumption for the calls
of the NVC library and of libfixbuf; the callbacks are bounded by the limit that the query
asks for. `Exporter`, `Config`, `Poller` and `HashTable8` have safety properties only and
no fairness.

### What the code does against its word

Four runs check one property each that a line of the code or its documentation
states and that TLC refutes.

| run | property | what happens |
|---|---|---|
| daemon_quick | `Stoppable` | stop, then start while the old daemon sleeps out its interval: when the old one wakes it unlinks the new daemon's name, and stop no longer finds it. |
| exporter_freed | `KeepsExporting` | An export that failed once leaves a pointer to its freed context; the next cycle uses it. |
| poller_interval | `IntervalAsWritten` | An `export-interval` from 00:35:48 on overflows an int: the daemon sleeps for decades, polls without a pause, or at some other interval. |
| times_iso | `BatchTimesAsWritten` | A date in a batch command is read with the number parser's base 0: an 08 or 09 is octal and becomes 0. |

More that the models say in passing, without a run of its own. Of the daemon:

- A start that is refused ("Daemon is already running") unlinks the running daemon's name,
  so that a third start makes a second daemon.
- After a kill the name is left, and a start reports a daemon that does not run
  (`NoStaleName` holds for `crashes = 0` only).
- The daemon sleeps the whole interval after each export, so that its polls fall behind by
  the delays that `MissesOnlyDelays` bounds.

Of exports and times:

- A collector with an address and no host passes the check of the configuration
  ("host or IP address expected") but the exporter is only passed the host (main.c:50). So
  does one whose host is empty, from a line that ends in blanks. A second brace reopens a
  block that was closed without a host or an address, with its name.
- A batch run asks for the last (end - start) seconds, not for the period from start to end;
  for everything, if they are negative as an int (a period of 68 years, or a backwards one).
- Exported times are seconds of local time, since both sides of the difference are
  local (types.c:788). `_test.c`:149 asserts that a time survives both conversions, which is
  false in summer, as mktime is called with `tm_isdst = 0`.

Of files, strings and tables:

- The import callback logs through a connection before it tests it for NULL (import.c 264-283).
- A data file longer than a block loses the byte at each seam. A file that cannot be read
  fills memory first (`ImportEnds` holds because memory ends).
- A blank between the brackets but outside the records makes a record of zeros, or becomes
  a part of the value before it. Empty records are skipped. `"data"` is recognised only if
  its token has nothing else in it.
- Splitting and trimming index their table of characters with a signed char, so that bytes
  from 0x80 on lie outside it (types.c 340-352).
- A key with the hash 255 goes past the array of 255 nodes (types.h:196). An empty key in an
  empty root is never found again and its value never freed. Freeing a table does not free
  the table itself. Functions given to a later add are ignored.

## What TLAPS proves

What is proved holds for every value of the constants of the modules it is about. The proofs
of `NvcImport` are the first part of `CycleProofs`, those of `DataList` are in
`DataListProofs`, and the other six modules of proofs are named after what they are about.
The assumptions are the modules' own:

| module | assumption |
|---|---|
| Daemon | `DaemonAssumption`: the "no object" value is not an object, the discipline is one of the four, the bound on kills is a number |
| Config | `ConfigAssumption`: the values are of the kinds the parsers know, the bound is a number |
| DataList, NvcImport | `DataListAssumption`: the null pointer is no address; `NvcImportAssumption`: the limit is a number |
| Exporter | `ExporterAssumption`: the collectors are a sequence without repetition, and what fails is of the kinds that can |
| Cycle | those of NvcImport, `CycleAssumption` (bounds are numbers) and `CollectorsAssumption` (Exporter's, for its instance) |
| Poller, Times | `PollerAssumption`, `TimesAssumption`: times, offsets and bounds are numbers, and a word has a value at least |
| FileImport | `FileImportAssumption`: a file is a sequence, a block has a byte at least; `DocumentsAssumption`: a document has a record, and a record an item, as the parser takes an empty one for none |
| HashTable8 | `KeysAssumption` (a key is a sequence of bytes), `HashAssumption` (a hash has 8 bits), `ValuesAssumption` (NULL is no value) |

**Daemon.** `TypeCorrect` proves `TypeOK`, which relates `seg` and `pc`: a process has an
object exactly where the code holds one. The other three follow from one inductive
invariant, `IInv`. None is inductive alone: that the flag is in a sized object rests on
the fact that an object in use is never given out as a new one and that every later
`Create` joins it without changing its size; that the name is not stale rests on each
linked name having a holder and on every exit of a holder unlinking the name, kills
apart; that an exit was asked for rests on a false flag under a daemon past its
store being the work of a stop. `Invariance` proves `IInv` by one step per action;
`FlagSized`, `NameNotStale` and `ExitOnlyWhenTold` are corollaries, for every discipline.

For commands given with care there is a second invariant, `CarefulInv`: of all that a
careful user waits for there is one at a time, one daemon, and none under a start (`Alone`);
a daemon that starts up has the object of the name, and a stop that of the daemon that polls
(`Aimed`). `Stoppable` alone says nothing of the daemon that has not stored its flag yet, nor
of the stop between its look at the name and its unlink, which is where races take the name
away. `CarefulStoppable` follows, and with `IInv` also `ImplementsServiceSteps`: the daemon
starts where `Service` starts, and each of its steps is one of `Service`'s or a stutter.

**Config.** `Invariance` proves an invariant with, besides the type, what the parser
knows about the block it believes to be in: inside a collector block the structure has
been cleared, the setting recognised on a line belongs to the block the parser was in
when it read the word, and inside a collector block that has not been closed no string is
shared with the list. What makes it inductive is `CollectorIdIsEmpty`: as long as "collector"
is the setting recognised last, which is when a stray brace opens a block, the structure holds
a name at most. `Initialised`, `RightBlock`, `NothingShared` and `StartsEmpty` follow.
The proof includes allocation failures and lists of every length.

**NvcImport and DataList.** The invariant adds `Phased` to the properties: while a query
runs the list is complete and no loop walks it (`Building`); while the list is freed the
loop's cursor is at the first record still listed (`Freeing`); from the export on every
listed record was exported. `WellLinked` alone is not inductive, since appending relies on
`tail` being the last record, and a reused address on no listed record pointing to it.
`AddSucceeds`, `AddFails` and the lemmas on freeing are about `DataList` alone, and also
what the file import's list rests on; `SessionClosed`, `Linked`, `FreedSafely` and
`ExportedBeforeFreed` follow.

**Exporter.** `IInv` says of each collector, by where its turn is in the cycle (`Role`), what
its stream of items sent and pending looks like (`StreamInv`), how its counters compare with
the stream and with what it was given (`CountInv`), and which templates are in force
(`CallInv`); for one without a failed call the counts are exact (`Healthy`). The
properties look at what was sent only; the pending items are in the invariant because any
append may send them. `SentDecodable`, `StatsCover`, `ObjectsFreed` and `HealthyComplete`
follow, for any collectors, failures, records and cycles.

`KeepsExporting`, which the run exporter_freed refutes, is held up as far as it is true:
`BlameInv` traces each freed context that is still pointed to back to a failed call of a kind
in `FreeingFaults`, those behind the store of the pointer. So the exporter stays defined while
no call failed (`DefinedWhileNoneFailed`), and, whatever else fails, if those calls never do
(`ExportsThroughFailures`): appends and emits that fail cost records, not later cycles.
`ExportsEnd` shows that only a new cycle adds to what is left of an export.

**Cycle.** `CycleInv` joins the invariants of the two parts with `Joined`, which says in
which phases of the importer the exporter may be active and for how long a list, and
`Accounted`, which balances total, stored and lost connections step by step.
The lemma `ImporterStep` and `ImplementsExporter` show that every step of the whole is a step
or a stutter of each part, so that what was proved of the parts by themselves holds of the
whole: `ImporterHolds` and `ExporterHolds` carry it over, action properties included.
`AllAccounted` adds the exporter's sums over all cycles to the balance.

`CyclesEnd` is the safety half of `CycleEnds`. `Effort` is what is left of a cycle: the
calls of the query, then the callbacks left or the records to free, then the export with its
collectors, calls and records. In every step but `BeginQuery` the first of these numbers to
change falls, and `DescentEnds` proves that they cannot do so forever.

**Poller.** `IntervalRange` bounds the interval by the arithmetic of the int. `Pace` says,
phase by phase, how far time has moved on since the last query, and `Stamps` how the times
of the next export compare with it. That no moment is asked for twice needs `Pace`,
because the queries' periods are counted back from moments that the delays shift.
`AskedOnce`, `MissedBounded`, `StampsCover`, `StampsOrdered` and `BatchAsked` follow, for
any number of cycles, any zone and any summer; the last two say for which dates and lengths
32 bits suffice. Two properties that runs refute are proved
for the inputs that keep them: `IntervalKept`, that the daemon polls at the interval written
*exactly* if that is no more than 2147 seconds, and `BatchTimesKept`, that the dates of a batch
run are read as written unless a part of them is an 08 or 09.

**FileImport.** The invariant of the loop that reads says, for each byte read that is not at a
seam, that it is still in its cell: the next block overwrites exactly the last byte of the
one before. `FileInBuffer` and `MemoryBounded` follow for every file and every size of block.

The rest is about recursive functions over texts of any length, and needs induction. The
library's rules take an operator as a parameter; instead, `LeastNumber` gets the least of any
numbers from the fact that no sequence of finite sets shrinks forever, `Induction` follows
for a *set* of numbers, and `Recursion` shows that a function defined by its value one turn
before exists. With these, the invariant of the turns of nvipfix_string_split is proved, and
`SplitIsSplit`: it yields the runs of any text, in order. `SplitCorrect` states that of the
file. `ParseInv` adds the types of the tokens and records cut from the text, and the links
of the list; `TypeCorrect` and `FreedSafely` follow.

`DocumentImported` proves `ImportsDocument` for documents of any number of records and items.
Its invariant, `DocumentInv`, says that a file that fits in a block lies in the buffer as it
is, followed by what was in memory (`OneBlock`), and that what was added to the list and what
is left of the text make up the document (`ParsedFrom`). What it takes are facts about texts:
a text without its blanks can be cut where its bare form can; splitting a text put together
of parts yields the tokens of the parts; blanks at the ends of a token, a name or a value are
trimmed; and a file without a blank between records has none where its braces are level
(`Tight`), so that no token consists of one. Documents or records that are empty are left
out because the property does not hold for them: what is behind the brackets is then taken for
the records, and an empty record for none.

`ImportDescends` is the safety half of `ImportEnds`: whatever a file holds, each step leaves
fewer stages, blocks there is memory for, tokens or records.

**HashTable8.** The invariant's heart is `Tree`: a node's ancestors exist and the search
for its key passes them all to its place (`Placed`), and no tree has a child of a
root that is missing (`Rooted`). `FoundIs` shows that a search finds exactly what is
placed; that no key has two places follows from the first turn in which two paths would differ.
`KeysFound` and `CopiesSafe` follow, and `TableIsMap`, the refinement: every step of the
table is a step of the map or leaves it alone, for every set of keys and every hash
function, collisions included.

**Only model-checked.** Liveness: `CycleEnds`, `ImportEnds` and the fairness in
`ImplementsService`. Their safety parts are proved (`CyclesEnd`, `ImportDescends`,
`ImplementsServiceSteps`); what is left is that a step is taken as long as one can be, which
speaks of ENABLED, and that is not within the prover's reach. The properties that runs refute are
refuted there only; the theorems say when they hold.

## What is not modelled, and why

- The log: a handle that is opened on first use and closed at exit. No other part depends
  on what it does. (fopen of the file named by LOG4C_CFG is not tested for NULL, log.c:133.)
- The argument table (`args.c`, not used by main) and the file watcher (`fwatch.c`, not
  called).
- libfixbuf and the NVC library beyond what the code's calls and its handling of their
  results tell of them.
- The list of strings (types.c 52-141), the formatting of strings and addresses, and the
  arithmetic of spans (types.c 726-775 and 825-892) beyond what the interval uses.
- The contents of a record, except for the kinds of items of a data file, and the wording of
  messages.
- The memory that nvipfix_config_switch_info_free (404) keeps, one structure per cycle, and
  that of the keys of a hash table.

## What could follow

The plan of this development is carried out. What it leaves: the string list; the log with
its exit handler among those of the exporter and the configuration.
