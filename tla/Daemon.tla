------------------------------- MODULE Daemon -------------------------------
(***************************************************************************)
(* The life cycle of the nvIPFIX daemon: `nvipfix start' forks a daemon,   *)
(* the daemon and every later command meet through one POSIX shared-memory *)
(* name (the escaped path of the binary), and `nvipfix stop' asks the      *)
(* daemon to leave its polling loop by storing FALSE in the shared flag    *)
(* isRunning (src/src/nvipfix.c, main and main_daemon).                    *)
(*                                                                         *)
(* A shared-memory OBJECT outlives its name: shm_unlink removes the name,  *)
(* a process that has mapped the object keeps it.  So the name and the     *)
(* objects are separate pieces of state, and each system call on them is a *)
(* step of its own.  What the daemon does between two tests of the flag    *)
(* (sleep, query, export) is the single step Poll here.                    *)
(***************************************************************************)
EXTENDS Naturals, FiniteSets

CONSTANTS
  Procs,        \* slots for the operating system's processes; a slot is reused
  Segments,     \* shared-memory objects
  NoSeg,        \* "no object"
  Discipline,   \* how the commands are issued, see MayStart and MayStop
  MaxCrashes    \* bound on the processes killed from outside

ASSUME DaemonAssumption ==
  /\ NoSeg \notin Segments
  /\ Discipline \in {"any", "settled", "quick", "careful"}
  /\ MaxCrashes \in Nat

VARIABLES
  name,       \* the object the shared-memory name is linked to, or NoSeg
  sized,      \* the objects that ftruncate gave the size of a bool
  isRunning,  \* the flag in each object
  pc,         \* the system call each process is about to make
  seg,        \* the object each process has open or mapped
  rc,         \* the exit status of the last program run in each slot
  told,       \* history: objects some stop stored FALSE in
  crashes     \* processes killed from outside so far

vars == <<name, sized, isRunning, pc, seg, rc, told, crashes>>

(***************************************************************************)
(* Where a process is.  The comments give the line of nvipfix.c.           *)
(***************************************************************************)
Starting == {"start", "unlinkLive", "fork"}             \* 179, 183, 189
Stopping == {"stop", "clear", "unlinkStopped"}          \* 123, 137, 141
Command  == Starting \cup Stopping
Startup  == {"setsid", "create", "truncate", "store"}  \* 196, 226, 234, 254
Loop     == {"test", "sleep"}                          \* 264, 266-273
Holding  == {"truncate", "store", "test", "sleep", "remove"}    \* 278
DaemonPC == Startup \cup Loop \cup {"remove"}
Mapped   == Holding \cup {"clear", "unlinkStopped"}
PC       == Command \cup DaemonPC \cup {"idle"}
RC       == {"none", "ok", "argsError", "alreadyRunning", "startError", "shmError",
             "killed"}

IsDaemon(p) == pc[p] \in DaemonPC
Idle(p)     == pc[p] = "idle"
Polling(p)  == pc[p] \in Loop /\ isRunning[seg[p]]
Settled     == \A p \in Procs : /\ pc[p] \notin Command \cup Startup
                                /\ pc[p] = "remove" => rc[p] = "ok"
Fresh(s)    == s # name /\ \A p \in Procs : seg[p] # s

Init ==
  /\ name = NoSeg
  /\ sized = {}
  /\ isRunning = [s \in Segments |-> FALSE]
  /\ pc = [p \in Procs |-> "idle"]
  /\ seg = [p \in Procs |-> NoSeg]
  /\ rc = [p \in Procs |-> "none"]
  /\ told = {}
  /\ crashes = 0

-----------------------------------------------------------------------------
(***************************************************************************)
(* The environment: who types which command when.                          *)
(*   "any"      at any time, also while others run; and with a path that   *)
(*              cannot be resolved, or without a file handle left          *)
(*   "settled"  once the previous command and the startup of its daemon    *)
(*              are over                                                   *)
(*   "quick"    settled, and start only when every daemon has been told to *)
(*              stop (it may still be winding down)                        *)
(*   "careful"  settled, and start only when no daemon is left             *)
(***************************************************************************)
MayStart ==
  /\ Discipline # "any" => Settled
  /\ Discipline = "quick" =>
       \A p \in Procs : ~Polling(p)
  /\ Discipline = "careful" => \A p \in Procs : ~IsDaemon(p)

MayStop     == Discipline # "any" => Settled
OpenMayFail == Discipline = "any"

Goto(p, l) == pc' = [pc EXCEPT ![p] = l]

\* A variant with a mistake (see below): the handle survives the exit.
ExitKeepsHandle(p, code) ==
  /\ pc' = [pc EXCEPT ![p] = "idle"]
  /\ rc' = [rc EXCEPT ![p] = code]
  /\ UNCHANGED seg

Exit(p, code) ==
  /\ pc' = [pc EXCEPT ![p] = "idle"]
  /\ seg' = [seg EXCEPT ![p] = NoSeg]
  /\ rc' = [rc EXCEPT ![p] = code]

Launch(p, l) ==
  /\ Idle(p)
  /\ Goto(p, l)
  /\ rc' = [rc EXCEPT ![p] = "none"]
  /\ UNCHANGED <<name, sized, isRunning, seg, told, crashes>>

LaunchStart(p) == MayStart /\ Launch(p, "start")
LaunchStop(p)  == MayStop /\ Launch(p, "stop")

-----------------------------------------------------------------------------
(***************************************************************************)
(* Variants of the code with a plausible mistake; no action uses them.     *)
(* They show that the properties below can tell the code from such code.   *)
(***************************************************************************)
\* O_TRUNC on a name that is already linked.
CreateTruncates(p) ==
  /\ pc[p] = "create"
  /\ \/ /\ name # NoSeg
        /\ seg' = [seg EXCEPT ![p] = name]
        /\ sized' = sized \ {name}
        /\ isRunning' = [isRunning EXCEPT ![name] = FALSE]
        /\ UNCHANGED <<name, told>>
     \/ /\ name = NoSeg
        /\ \E s \in Segments :
             /\ Fresh(s)
             /\ name' = s
             /\ seg' = [seg EXCEPT ![p] = s]
             /\ sized' = sized \ {s}
             /\ told' = told \ {s}
             /\ isRunning' = [isRunning EXCEPT ![s] = FALSE]
  /\ Goto(p, "truncate")
  /\ UNCHANGED <<rc, crashes>>

\* No ftruncate for an object somebody else has unlinked meanwhile.
TruncateIfLinked(p) ==
  /\ pc[p] = "truncate"
  /\ Goto(p, "store")
  /\ sized' = IF name = seg[p] THEN sized \cup {seg[p]} ELSE sized
  /\ UNCHANGED <<name, isRunning, seg, rc, told, crashes>>

\* The error return forgets shm_unlink.
TruncateLeaksName(p) ==
  /\ pc[p] = "truncate"
  /\ \/ /\ Goto(p, "store")
        /\ sized' = sized \cup {seg[p]}
        /\ UNCHANGED <<seg, rc>>
     \/ /\ Exit(p, "shmError")
        /\ UNCHANGED sized
  /\ UNCHANGED <<name, isRunning, told, crashes>>

\* The unlink of the error path is done on success too.
TruncateUnlinks(p) ==
  /\ pc[p] = "truncate"
  /\ Goto(p, "store")
  /\ sized' = sized \cup {seg[p]}
  /\ name' = NoSeg
  /\ UNCHANGED <<isRunning, seg, rc, told, crashes>>

\* The test of the flag is hoisted out of the loop (no volatile).
TestFlagOnce(p) ==
  /\ pc[p] = "test"
  /\ Goto(p, "sleep")
  /\ UNCHANGED <<name, sized, isRunning, seg, rc, told, crashes>>

-----------------------------------------------------------------------------
(***************************************************************************)
(* nvipfix start: main_daemon up to the fork.                              *)
(***************************************************************************)
\* realpath fails when argv[0] is no path from here: start says so, stop goes
\* on to escape the slashes of a NULL name.
ResolveFails(p) ==
  /\ pc[p] \in {"start", "stop"} /\ OpenMayFail
  /\ Exit(p, IF pc[p] = "start" THEN "argsError" ELSE "killed")
  /\ UNCHANGED <<name, sized, isRunning, told, crashes>>

\* shm_open without O_CREAT: success is taken to mean that a daemon runs, and
\* any failure that none does.
StartOpen(p) ==
  /\ pc[p] = "start"
  /\ \/ name # NoSeg /\ Goto(p, "unlinkLive")
     \/ (name = NoSeg \/ OpenMayFail) /\ Goto(p, "fork")
  /\ UNCHANGED <<name, sized, isRunning, seg, rc, told, crashes>>

\* The name found is unlinked, whichever object it is linked to by now.
StartUnlink(p) ==
  /\ pc[p] = "unlinkLive"
  /\ name' = NoSeg
  /\ Exit(p, "alreadyRunning")
  /\ UNCHANGED <<sized, isRunning, told, crashes>>

\* The parent is done; the child goes on in a slot of its own.
ForkChild(p) ==
  /\ pc[p] = "fork"
  /\ \E c \in Procs :
       /\ Idle(c)
       /\ pc' = [pc EXCEPT ![p] = "idle", ![c] = "setsid"]
       /\ rc' = [rc EXCEPT ![p] = "ok", ![c] = "none"]
  /\ UNCHANGED <<name, sized, isRunning, seg, told, crashes>>

ForkFails(p) ==
  /\ pc[p] = "fork"
  /\ Exit(p, "startError")
  /\ UNCHANGED <<name, sized, isRunning, told, crashes>>

-----------------------------------------------------------------------------
(***************************************************************************)
(* The daemon: the child's part of main_daemon.                            *)
(***************************************************************************)
Setsid(p) ==
  /\ pc[p] = "setsid"
  /\ \/ Goto(p, "create") /\ UNCHANGED <<seg, rc>>
     \/ Exit(p, "startError")
  /\ UNCHANGED <<name, sized, isRunning, told, crashes>>

\* shm_open with O_CREAT and without O_EXCL: a linked name is simply joined,
\* otherwise a new object of size zero is linked.
Create(p) ==
  /\ pc[p] = "create"
  /\ \/ /\ name # NoSeg
        /\ seg' = [seg EXCEPT ![p] = name]
        /\ UNCHANGED <<name, sized, isRunning, told>>
     \/ /\ name = NoSeg
        /\ \E s \in Segments :
             /\ Fresh(s)
             /\ name' = s
             /\ seg' = [seg EXCEPT ![p] = s]
             /\ sized' = sized \ {s}
             /\ told' = told \ {s}
             /\ isRunning' = [isRunning EXCEPT ![s] = FALSE]
  /\ Goto(p, "truncate")
  /\ UNCHANGED <<rc, crashes>>

CreateFails(p) ==
  /\ pc[p] = "create"
  /\ Exit(p, "shmError")
  /\ UNCHANGED <<name, sized, isRunning, told, crashes>>

\* ftruncate; a failure goes on to close and unlink with an error.
Truncate(p) ==
  /\ pc[p] = "truncate"
  /\ \/ /\ Goto(p, "store")
        /\ sized' = sized \cup {seg[p]}
        /\ UNCHANGED rc
     \/ /\ Goto(p, "remove")
        /\ rc' = [rc EXCEPT ![p] = "shmError"]
        /\ UNCHANGED sized
  /\ UNCHANGED <<name, isRunning, seg, told, crashes>>

\* *isRunning = true, in whatever state the flag is by now.
SetRunning(p) ==
  /\ pc[p] = "store"
  /\ isRunning' = [isRunning EXCEPT ![seg[p]] = TRUE]
  /\ Goto(p, "test")
  /\ UNCHANGED <<name, sized, seg, rc, told, crashes>>

TestFlag(p) ==
  /\ pc[p] = "test"
  /\ \/ /\ isRunning[seg[p]]
        /\ Goto(p, "sleep")
        /\ UNCHANGED rc
     \/ /\ ~isRunning[seg[p]]
        /\ Goto(p, "remove")
        /\ rc' = [rc EXCEPT ![p] = "ok"]
  /\ UNCHANGED <<name, sized, isRunning, seg, told, crashes>>

\* One polling cycle: sleep for the interval, query, export.
Poll(p) ==
  /\ pc[p] = "sleep"
  /\ Goto(p, "test")
  /\ UNCHANGED <<name, sized, isRunning, seg, rc, told, crashes>>

\* close and shm_unlink: of the name, not of the object this daemon uses.
Remove(p) ==
  /\ pc[p] = "remove"
  /\ name' = NoSeg
  /\ Exit(p, rc[p])
  /\ UNCHANGED <<sized, isRunning, told, crashes>>

-----------------------------------------------------------------------------
(***************************************************************************)
(* nvipfix stop.                                                           *)
(***************************************************************************)
StopOpen(p) ==
  /\ pc[p] = "stop"
  /\ \/ /\ name # NoSeg
        /\ Goto(p, "clear")
        /\ seg' = [seg EXCEPT ![p] = name]
        /\ UNCHANGED rc
     \/ /\ name = NoSeg \/ OpenMayFail
        /\ Exit(p, "shmError")
  /\ UNCHANGED <<name, sized, isRunning, told, crashes>>

\* *isRunning = false; an object that has no size yet raises SIGBUS.
Clear(p) ==
  /\ pc[p] = "clear"
  /\ \/ /\ seg[p] \in sized
        /\ isRunning' = [isRunning EXCEPT ![seg[p]] = FALSE]
        /\ told' = told \cup {seg[p]}
        /\ Goto(p, "unlinkStopped")
        /\ UNCHANGED <<seg, rc>>
     \/ /\ seg[p] \notin sized
        /\ Exit(p, "killed")
        /\ UNCHANGED <<isRunning, told>>
  /\ UNCHANGED <<name, sized, crashes>>

StopUnlink(p) ==
  /\ pc[p] = "unlinkStopped"
  /\ name' = NoSeg
  /\ Exit(p, "ok")
  /\ UNCHANGED <<sized, isRunning, told, crashes>>

\* A process is killed from outside, or faults on a failed mmap, which the
\* code does not recognise (MAP_FAILED is not NULL): the name stays.
Crash(p) ==
  /\ ~Idle(p)
  /\ crashes < MaxCrashes
  /\ crashes' = crashes + 1
  /\ Exit(p, "killed")
  /\ UNCHANGED <<name, sized, isRunning, told>>

-----------------------------------------------------------------------------
CommandStep(p) ==
  \/ ResolveFails(p) \/ StartOpen(p) \/ StartUnlink(p) \/ ForkChild(p)
  \/ ForkFails(p) \/ StopOpen(p) \/ Clear(p) \/ StopUnlink(p)

DaemonStep(p) ==
  \/ Setsid(p) \/ Create(p) \/ CreateFails(p) \/ Truncate(p)
  \/ SetRunning(p) \/ TestFlag(p) \/ Poll(p) \/ Remove(p)

ProgramStep(p) == CommandStep(p) \/ DaemonStep(p)

Next == \E p \in Procs :
  LaunchStart(p) \/ LaunchStop(p) \/ ProgramStep(p) \/ Crash(p)

\* The scheduler runs every process; nobody has to type commands or crash.
Fairness == \A p \in Procs : WF_vars(ProgramStep(p))

Spec == Init /\ [][Next]_vars /\ Fairness

-----------------------------------------------------------------------------
TypeOK ==
  /\ name \in Segments \cup {NoSeg}
  /\ sized \subseteq Segments
  /\ isRunning \in [Segments -> BOOLEAN]
  /\ pc \in [Procs -> PC]
  /\ seg \in [Procs -> Segments \cup {NoSeg}]
  /\ rc \in [Procs -> RC]
  /\ told \subseteq Segments
  /\ crashes \in 0 .. MaxCrashes
  /\ \A p \in Procs : seg[p] \in Segments <=> pc[p] \in Mapped

\* A daemon never touches its flag before the object has a size (the access
\* would be a SIGBUS), however many starts share the object.
DaemonFlagSized ==
  \A p \in Procs : pc[p] \in {"store", "test", "sleep"} => seg[p] \in sized

\* As long as nothing was killed, the name never outlives the daemons: if it
\* is linked, some daemon still has that very object and will unlink.
NoStaleName ==
  name # NoSeg /\ crashes = 0 =>
    \E p \in Procs : pc[p] \in Holding /\ seg[p] = name

\* A daemon leaves its polling loop only after a stop stored FALSE in the
\* object it polls; neither a start nor another daemon can end it.
NoSpuriousExit ==
  [][\A p \in Procs : pc[p] = "test" /\ pc'[p] = "remove" => seg[p] \in told]_vars

-----------------------------------------------------------------------------
(***************************************************************************)
(* What depends on how the commands are issued.                            *)
(***************************************************************************)
\* A daemon in its loop that nobody told to stop can be found by a stop.
Stoppable ==
  \A p \in Procs : Polling(p) => name = seg[p]

(***************************************************************************)
(* The promise to a user who issues commands with care: see Service.       *)
(***************************************************************************)
status ==
  IF \E p \in Procs : pc[p] \in Startup THEN "starting"
  ELSE IF \E p \in Procs : Polling(p) THEN "up"
  ELSE IF \E p \in Procs : IsDaemon(p) THEN "stopping"
  ELSE "down"

asked == \E p \in Procs : pc[p] \in {"stop", "clear"}

Promise == INSTANCE Service WITH kills <- crashes, MaxKills <- MaxCrashes

\* The daemon and its commands, used with care, implement the service: a
\* start ends up or gives up, and a stop given to a running daemon always
\* ends it, unless a process is killed.
ImplementsService == Promise!Spec

=============================================================================
