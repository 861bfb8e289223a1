---------------------------- MODULE DaemonProofs ----------------------------
(***************************************************************************)
(* Proofs about Daemon, for any number of processes and objects and any    *)
(* number of crashes.  The first invariant, IInv, holds for every way of   *)
(* issuing commands; the second, CarefulInv, and the steps of the          *)
(* refinement of Service hold when they are given with care.               *)
(***************************************************************************)
EXTENDS Daemon, TLAPS

(***************************************************************************)
(* The steps of one process, each as a disjunct of Next.                   *)
(***************************************************************************)
Step(p) ==
  \/ LaunchStart(p) \/ LaunchStop(p) \/ ResolveFails(p)
  \/ StartOpen(p) \/ StartUnlink(p) \/ ForkChild(p) \/ ForkFails(p)
  \/ Setsid(p) \/ Create(p) \/ CreateFails(p) \/ Truncate(p)
  \/ SetRunning(p) \/ TestFlag(p) \/ Poll(p) \/ Remove(p)
  \/ StopOpen(p) \/ Clear(p) \/ StopUnlink(p) \/ Crash(p)

LEMMA NextIsStep == Next => \E p \in Procs : Step(p)
BY DEF Next, Step, ProgramStep, CommandStep, DaemonStep

-----------------------------------------------------------------------------
\* Every variable keeps its type, and a process holds an object exactly
\* while it is between opening and closing it.
LEMMA TypeInit == Init => TypeOK
BY DaemonAssumption DEF Init, TypeOK, PC, RC, Mapped, Holding

LEMMA TypeStep == ASSUME TypeOK, NEW p \in Procs, Step(p) PROVE TypeOK'
<1> USE DaemonAssumption DEF TypeOK, PC, RC, Mapped, Holding, Command, Starting, Stopping,
      DaemonPC, Startup, Loop, Goto, Exit, Idle
<1>1. CASE LaunchStart(p) BY <1>1 DEF LaunchStart, Launch
<1>2. CASE LaunchStop(p) BY <1>2 DEF LaunchStop, Launch
<1>3. CASE StartOpen(p) BY <1>3 DEF StartOpen
<1>4. CASE StartUnlink(p) BY <1>4 DEF StartUnlink
<1>5. CASE ForkChild(p) BY <1>5 DEF ForkChild
<1>6. CASE ForkFails(p) BY <1>6 DEF ForkFails
<1>7. CASE Setsid(p) BY <1>7 DEF Setsid
<1>8. CASE Create(p)
  <2>1. PICK s \in Segments :
          /\ name' = s /\ seg' = [seg EXCEPT ![p] = s]
          /\ sized' \subseteq sized /\ told' \subseteq told
          /\ isRunning' = isRunning
             \/ isRunning' = [isRunning EXCEPT ![s] = FALSE]
    BY <1>8 DEF Create
  <2>2. pc' = [pc EXCEPT ![p] = "truncate"] /\ rc' = rc /\ crashes' = crashes
    BY <1>8 DEF Create
  <2>3. isRunning' \in [Segments -> BOOLEAN] BY <2>1
  <2>4. QED BY <2>1, <2>2, <2>3
<1>9. CASE CreateFails(p) BY <1>9 DEF CreateFails
<1>10. CASE Truncate(p) BY <1>10 DEF Truncate
<1>11. CASE SetRunning(p) BY <1>11 DEF SetRunning
<1>12. CASE TestFlag(p) BY <1>12 DEF TestFlag
<1>13. CASE Poll(p) BY <1>13 DEF Poll
<1>14. CASE Remove(p) BY <1>14 DEF Remove
<1>15. CASE StopOpen(p) BY <1>15 DEF StopOpen
<1>16. CASE Clear(p)
  <2>1. seg[p] \in Segments BY <1>16 DEF Clear
  <2>2. CASE seg[p] \in sized BY <1>16, <2>1, <2>2 DEF Clear
  <2>3. CASE seg[p] \notin sized BY <1>16, <2>1, <2>3 DEF Clear
  <2>4. QED BY <2>2, <2>3
<1>17. CASE StopUnlink(p) BY <1>17 DEF StopUnlink
<1>18. CASE Crash(p) BY <1>18 DEF Crash
<1>19. CASE ResolveFails(p) BY <1>19 DEF ResolveFails
<1>20. QED
  BY <1>1, <1>2, <1>3, <1>4, <1>5, <1>6, <1>7, <1>8, <1>9, <1>10, <1>11,
     <1>12, <1>13, <1>14, <1>15, <1>16, <1>17, <1>18, <1>19 DEF Step

\* Type correctness, from any state the specification can reach.
THEOREM TypeCorrect == Spec => []TypeOK
<1>1. Init => TypeOK BY TypeInit
<1>2. TypeOK /\ [Next]_vars => TypeOK'
  <2> SUFFICES ASSUME TypeOK, [Next]_vars PROVE TypeOK' OBVIOUS
  <2>1. CASE Next BY <2>1, NextIsStep, TypeStep
  <2>2. CASE UNCHANGED vars BY <2>2 DEF vars, TypeOK
  <2>3. QED BY <2>1, <2>2
<1>3. QED BY <1>1, <1>2, PTL DEF Spec

-----------------------------------------------------------------------------
(***************************************************************************)
(* The inductive invariant.  LoopFlag is the part no property states: a    *)
(* daemon in its loop polls a flag that is TRUE unless a stop cleared it.  *)
(* It needs Fresh: Create reuses, and resets, only objects nobody holds.   *)
(***************************************************************************)
LoopFlag ==
  \A p \in Procs : pc[p] \in Loop => isRunning[seg[p]] \/ seg[p] \in told

IInv == TypeOK /\ DaemonFlagSized /\ NoStaleName /\ LoopFlag

\* What a step does to the objects that daemons hold: ftruncate's size and a
\* stop's mark on an object that was held before the step are never undone.
LEMMA HeldObjects ==
  ASSUME TypeOK, NEW p \in Procs, Step(p), NEW q \in Procs, pc[q] \in Mapped
  PROVE  /\ seg[q] \in sized => seg[q] \in sized'
         /\ seg[q] \in told => seg[q] \in told'
<1> USE DaemonAssumption DEF TypeOK
<1>1. CASE Create(p) BY <1>1 DEF Create, Fresh
<1>2. CASE ~Create(p)
  BY <1>2 DEF Step, LaunchStart, LaunchStop, Launch, StartOpen, StartUnlink,
     ForkChild, ForkFails, Setsid, CreateFails, Truncate, SetRunning,
     TestFlag, Poll, Remove, StopOpen, Clear, StopUnlink, Crash,
     ResolveFails
<1>3. QED BY <1>1, <1>2

\* DaemonFlagSized is preserved by every step.
LEMMA SizedStep ==
  ASSUME TypeOK, DaemonFlagSized, NEW p \in Procs, Step(p)
  PROVE  DaemonFlagSized'
<1> USE DEF TypeOK, DaemonFlagSized, Mapped, Holding, Goto, Exit, Idle
<1>0. \A q \in Procs : pc[q] \in Mapped /\ seg[q] \in sized => seg[q] \in sized'
  BY HeldObjects
<1>1. CASE LaunchStart(p) BY <1>1 DEF LaunchStart, Launch
<1>2. CASE LaunchStop(p) BY <1>2 DEF LaunchStop, Launch
<1>3. CASE StartOpen(p) BY <1>3 DEF StartOpen
<1>4. CASE StartUnlink(p) BY <1>4 DEF StartUnlink
<1>5. CASE ForkChild(p) BY <1>5 DEF ForkChild
<1>6. CASE ForkFails(p) BY <1>6 DEF ForkFails
<1>7. CASE Setsid(p) BY <1>7 DEF Setsid
<1>8. CASE Create(p)
  <2>1. PICK s \in Segments : seg' = [seg EXCEPT ![p] = s]
    BY <1>8 DEF Create
  <2>2. pc' = [pc EXCEPT ![p] = "truncate"] BY <1>8 DEF Create
  <2>3. \A q \in Procs : pc[q] \in Mapped => q # p BY <1>8 DEF Create
  <2>4. QED BY <2>1, <2>2, <2>3, <1>0
<1>9. CASE CreateFails(p) BY <1>9 DEF CreateFails
<1>10. CASE Truncate(p) BY <1>10 DEF Truncate
<1>11. CASE SetRunning(p) BY <1>11 DEF SetRunning
<1>12. CASE TestFlag(p) BY <1>12 DEF TestFlag
<1>13. CASE Poll(p) BY <1>13 DEF Poll
<1>14. CASE Remove(p) BY <1>14 DEF Remove
<1>15. CASE StopOpen(p) BY <1>15 DEF StopOpen
<1>16. CASE Clear(p) BY <1>16 DEF Clear
<1>17. CASE StopUnlink(p) BY <1>17 DEF StopUnlink
<1>18. CASE Crash(p) BY <1>18 DEF Crash
<1>19. CASE ResolveFails(p) BY <1>19 DEF ResolveFails
<1>20. QED
  BY <1>1, <1>2, <1>3, <1>4, <1>5, <1>6, <1>7, <1>8, <1>9,
     <1>10, <1>11, <1>12, <1>13, <1>14, <1>15, <1>16, <1>17, <1>18, <1>19 DEF Step

\* NoStaleName is preserved: only a daemon that unlinks, or is killed, lets
\* go of an object, and Create links the object its daemon goes on to hold.
LEMMA NameStep ==
  ASSUME TypeOK, NoStaleName, NEW p \in Procs, Step(p)
  PROVE  NoStaleName'
<1> USE DaemonAssumption DEF TypeOK, NoStaleName, Holding, Goto, Exit, Idle
<1>1. CASE LaunchStart(p) BY <1>1 DEF LaunchStart, Launch
<1>2. CASE LaunchStop(p) BY <1>2 DEF LaunchStop, Launch
<1>3. CASE StartOpen(p) BY <1>3 DEF StartOpen
<1>4. CASE StartUnlink(p) BY <1>4 DEF StartUnlink
<1>5. CASE ForkChild(p) BY <1>5 DEF ForkChild
<1>6. CASE ForkFails(p) BY <1>6 DEF ForkFails
<1>7. CASE Setsid(p) BY <1>7 DEF Setsid
<1>8. CASE Create(p) BY <1>8 DEF Create
<1>9. CASE CreateFails(p) BY <1>9 DEF CreateFails
<1>10. CASE Truncate(p) BY <1>10 DEF Truncate
<1>11. CASE SetRunning(p) BY <1>11 DEF SetRunning
<1>12. CASE TestFlag(p) BY <1>12 DEF TestFlag
<1>13. CASE Poll(p) BY <1>13 DEF Poll
<1>14. CASE Remove(p) BY <1>14 DEF Remove
<1>15. CASE StopOpen(p) BY <1>15 DEF StopOpen
<1>16. CASE Clear(p) BY <1>16 DEF Clear
<1>17. CASE StopUnlink(p) BY <1>17 DEF StopUnlink
<1>18. CASE Crash(p) BY <1>18 DEF Crash
<1>19. CASE ResolveFails(p) BY <1>19 DEF ResolveFails
<1>20. QED
  BY <1>1, <1>2, <1>3, <1>4, <1>5, <1>6, <1>7, <1>8, <1>9,
     <1>10, <1>11, <1>12, <1>13, <1>14, <1>15, <1>16, <1>17, <1>18, <1>19 DEF Step

\* LoopFlag is preserved: of the steps that write a flag, SetRunning writes
\* TRUE, Clear marks the object as told, and Create resets a fresh one.
LEMMA LoopFlagStep ==
  ASSUME TypeOK, LoopFlag, NEW p \in Procs, Step(p)
  PROVE  LoopFlag'
<1> USE DEF TypeOK, LoopFlag, Loop, Mapped, Holding, Goto, Exit, Idle
<1>0. \A q \in Procs : pc[q] \in Mapped /\ seg[q] \in told => seg[q] \in told'
  BY HeldObjects
<1>1. CASE LaunchStart(p) BY <1>1 DEF LaunchStart, Launch
<1>2. CASE LaunchStop(p) BY <1>2 DEF LaunchStop, Launch
<1>3. CASE StartOpen(p) BY <1>3 DEF StartOpen
<1>4. CASE StartUnlink(p) BY <1>4 DEF StartUnlink
<1>5. CASE ForkChild(p) BY <1>5 DEF ForkChild
<1>6. CASE ForkFails(p) BY <1>6 DEF ForkFails
<1>7. CASE Setsid(p) BY <1>7 DEF Setsid
<1>8. CASE Create(p)
  <2> SUFFICES ASSUME NEW q \in Procs, pc'[q] \in Loop
      PROVE  isRunning'[seg'[q]] \/ seg'[q] \in told'
    BY DEF LoopFlag
  <2>1. q # p /\ pc[q] \in Loop /\ seg'[q] = seg[q] BY <1>8 DEF Create
  <2>2. isRunning'[seg[q]] = isRunning[seg[q]] BY <1>8, <2>1 DEF Create, Fresh
  <2>3. QED BY <2>1, <2>2, <1>0
<1>9. CASE CreateFails(p) BY <1>9 DEF CreateFails
<1>10. CASE Truncate(p) BY <1>10 DEF Truncate
<1>11. CASE SetRunning(p) BY <1>11 DEF SetRunning
<1>12. CASE TestFlag(p) BY <1>12 DEF TestFlag
<1>13. CASE Poll(p) BY <1>13 DEF Poll
<1>14. CASE Remove(p) BY <1>14 DEF Remove
<1>15. CASE StopOpen(p) BY <1>15 DEF StopOpen
<1>16. CASE Clear(p) BY <1>16 DEF Clear
<1>17. CASE StopUnlink(p) BY <1>17 DEF StopUnlink
<1>18. CASE Crash(p) BY <1>18 DEF Crash
<1>19. CASE ResolveFails(p) BY <1>19 DEF ResolveFails
<1>20. QED
  BY <1>1, <1>2, <1>3, <1>4, <1>5, <1>6, <1>7, <1>8, <1>9,
     <1>10, <1>11, <1>12, <1>13, <1>14, <1>15, <1>16, <1>17, <1>18, <1>19 DEF Step

-----------------------------------------------------------------------------
\* The inductive invariant holds in every reachable state.
THEOREM Invariance == Spec => []IInv
<1>1. Init => IInv
  <2> SUFFICES ASSUME Init PROVE IInv OBVIOUS
  <2>1. TypeOK BY TypeInit
  <2>2. DaemonFlagSized /\ NoStaleName /\ LoopFlag
    BY DEF Init, DaemonFlagSized, NoStaleName, LoopFlag, Loop
  <2>3. QED BY <2>1, <2>2 DEF IInv
<1>2. IInv /\ [Next]_vars => IInv'
  <2> SUFFICES ASSUME IInv, [Next]_vars PROVE IInv' OBVIOUS
  <2>1. CASE Next
    BY <2>1, NextIsStep, TypeStep, SizedStep, NameStep, LoopFlagStep DEF IInv
  <2>2. CASE UNCHANGED vars
    BY <2>2 DEF vars, IInv, TypeOK, DaemonFlagSized, NoStaleName, LoopFlag
  <2>3. QED BY <2>1, <2>2
<1>3. QED BY <1>1, <1>2, PTL DEF Spec

\* No daemon ever touches the flag of an object that has no size.
THEOREM FlagSized == Spec => []DaemonFlagSized
<1>1. IInv => DaemonFlagSized BY DEF IInv
<1>2. QED BY <1>1, Invariance, PTL

\* While nothing was killed, a linked name belongs to a daemon that is there.
THEOREM NameNotStale == Spec => []NoStaleName
<1>1. IInv => NoStaleName BY DEF IInv
<1>2. QED BY <1>1, Invariance, PTL

\* A daemon leaves its loop only if a stop cleared the flag it polls.
THEOREM ExitOnlyWhenTold == Spec => NoSpuriousExit
<1> DEFINE A == \A p \in Procs :
                  pc[p] = "test" /\ pc'[p] = "remove" => seg[p] \in told
<1>1. IInv /\ [Next]_vars => [A]_vars
  <2> SUFFICES ASSUME IInv, Next, NEW q \in Procs,
                      pc[q] = "test", pc'[q] = "remove"
      PROVE  seg[q] \in told
    OBVIOUS
  <2>1. PICK p \in Procs : Step(p) BY NextIsStep
  <2>2. TestFlag(q)
    <3> USE DEF IInv, TypeOK, Goto, Exit, Idle
    <3>1. CASE Truncate(p) BY <3>1 DEF Truncate
    <3>2. CASE TestFlag(p) BY <3>2 DEF TestFlag
    <3>3. CASE ~Truncate(p) /\ ~TestFlag(p)
      BY <2>1, <3>3 DEF Step, LaunchStart, LaunchStop, Launch, StartOpen,
         StartUnlink, ForkChild, ForkFails, Setsid, Create, CreateFails,
         SetRunning, Poll, Remove, StopOpen, Clear, StopUnlink, Crash,
     ResolveFails
    <3>4. QED BY <3>1, <3>2, <3>3
  <2>3. ~isRunning[seg[q]] BY <2>2 DEF TestFlag, Goto, IInv, TypeOK
  <2>4. QED BY <2>3 DEF IInv, LoopFlag, Loop
<1>2. QED BY <1>1, Invariance, PTL DEF Spec, NoSpuriousExit

-----------------------------------------------------------------------------
(***************************************************************************)
(* What holds when commands are given with care: a second invariant.       *)
(***************************************************************************)
\* What a careful user waits for: a command, or the startup of a daemon,
\* that of a failed ftruncate included.
Active(p) == pc[p] \in Command \cup Startup \/ (pc[p] = "remove" /\ rc[p] # "ok")

\* There is one of these at a time, one daemon, and none under a start.
Alone ==
  /\ \A p, q \in Procs : Active(p) /\ Active(q) => p = q
  /\ \A p, q \in Procs : IsDaemon(p) /\ IsDaemon(q) => p = q
  /\ \A p, q \in Procs : pc[p] \in {"start", "unlinkLive", "fork"} => ~IsDaemon(q)

\* A daemon that starts up has the object of the name; a stop has that of the
\* daemon that polls, and before it unlinks the name there is none.
Aimed ==
  /\ \A p \in Procs : pc[p] \in {"truncate", "store"} => name = seg[p]
  /\ \A p, q \in Procs : pc[p] = "clear" /\ Polling(q) => seg[p] = seg[q]
  /\ \A p, q \in Procs : pc[p] = "unlinkStopped" => ~Polling(q)

CarefulInv == TypeOK /\ Alone /\ Aimed /\ Stoppable

\* Alone is preserved: a command is only given when nothing is active, and a
\* start when there is no daemon.
LEMMA AloneStep ==
  ASSUME Discipline = "careful", TypeOK, Alone, NEW p \in Procs, Step(p)
  PROVE  Alone'
<1> USE DEF TypeOK, Alone, Active, IsDaemon, DaemonPC, Startup, Loop, Command, Starting,
      Stopping, Goto, Exit, Idle
<1>1. CASE LaunchStart(p) BY <1>1 DEF LaunchStart, Launch, MayStart, Settled
<1>2. CASE LaunchStop(p) BY <1>2 DEF LaunchStop, Launch, MayStop, Settled
<1>3. CASE StartOpen(p) BY <1>3 DEF StartOpen
<1>4. CASE StartUnlink(p) BY <1>4 DEF StartUnlink
<1>5. CASE ForkChild(p) BY <1>5 DEF ForkChild
<1>6. CASE ForkFails(p) BY <1>6 DEF ForkFails
<1>7. CASE Setsid(p) BY <1>7 DEF Setsid
<1>8. CASE Create(p) BY <1>8 DEF Create, Fresh
<1>9. CASE CreateFails(p) BY <1>9 DEF CreateFails
<1>10. CASE Truncate(p) BY <1>10 DEF Truncate
<1>11. CASE SetRunning(p) BY <1>11 DEF SetRunning
<1>12. CASE TestFlag(p) BY <1>12 DEF TestFlag
<1>13. CASE Poll(p) BY <1>13 DEF Poll
<1>14. CASE Remove(p) BY <1>14 DEF Remove
<1>15. CASE StopOpen(p) BY <1>15 DEF StopOpen
<1>16. CASE Clear(p) BY <1>16 DEF Clear
<1>17. CASE StopUnlink(p) BY <1>17 DEF StopUnlink
<1>18. CASE Crash(p) BY <1>18 DEF Crash
<1>19. CASE ResolveFails(p) BY <1>19 DEF ResolveFails
<1>20. QED
  BY <1>1, <1>2, <1>3, <1>4, <1>5, <1>6, <1>7, <1>8, <1>9, <1>10, <1>11,
     <1>12, <1>13, <1>14, <1>15, <1>16, <1>17, <1>18, <1>19 DEF Step

\* Aimed and Stoppable are preserved: between a stop's look at the name and
\* its unlink no daemon can start up or take the name.
LEMMA AimedStep ==
  ASSUME Discipline = "careful", CarefulInv, NEW p \in Procs, Step(p)
  PROVE  Aimed' /\ Stoppable'
<1> USE DEF CarefulInv, TypeOK, Alone, Aimed, Stoppable, Active, IsDaemon, DaemonPC,
      Startup, Loop, Command, Starting, Stopping, Polling, Mapped, Holding, Goto, Exit, Idle
<1>1. CASE LaunchStart(p) BY <1>1 DEF LaunchStart, Launch, MayStart, Settled
<1>2. CASE LaunchStop(p) BY <1>2 DEF LaunchStop, Launch, MayStop, Settled
<1>3. CASE StartOpen(p) BY <1>3 DEF StartOpen
<1>4. CASE StartUnlink(p) BY <1>4 DEF StartUnlink
<1>5. CASE ForkChild(p) BY <1>5 DEF ForkChild
<1>6. CASE ForkFails(p) BY <1>6 DEF ForkFails
<1>7. CASE Setsid(p) BY <1>7 DEF Setsid
<1>8. CASE Create(p) BY <1>8 DEF Create, Fresh
<1>9. CASE CreateFails(p) BY <1>9 DEF CreateFails
<1>10. CASE Truncate(p) BY <1>10 DEF Truncate
<1>11. CASE SetRunning(p) BY <1>11 DEF SetRunning
<1>12. CASE TestFlag(p) BY <1>12 DEF TestFlag
<1>13. CASE Poll(p) BY <1>13 DEF Poll
<1>14. CASE Remove(p) BY <1>14 DEF Remove
<1>15. CASE StopOpen(p) BY <1>15 DEF StopOpen
<1>16. CASE Clear(p) BY <1>16 DEF Clear
<1>17. CASE StopUnlink(p) BY <1>17 DEF StopUnlink
<1>18. CASE Crash(p) BY <1>18 DEF Crash
<1>19. CASE ResolveFails(p) BY <1>19 DEF ResolveFails
<1>20. QED
  BY <1>1, <1>2, <1>3, <1>4, <1>5, <1>6, <1>7, <1>8, <1>9, <1>10, <1>11,
     <1>12, <1>13, <1>14, <1>15, <1>16, <1>17, <1>18, <1>19 DEF Step

\* The invariant of careful use holds in every reachable state.
THEOREM CarefulInvariance ==
  ASSUME Discipline = "careful" PROVE Spec => []CarefulInv
<1>1. Init => CarefulInv
  <2> SUFFICES ASSUME Init PROVE CarefulInv OBVIOUS
  <2>1. TypeOK BY TypeInit
  <2>2. Alone /\ Aimed /\ Stoppable
    BY DEF Init, Alone, Aimed, Stoppable, Active, IsDaemon, Polling, Command,
       Starting, Stopping, Startup, Loop, DaemonPC
  <2>3. QED BY <2>1, <2>2 DEF CarefulInv
<1>2. CarefulInv /\ [Next]_vars => CarefulInv'
  <2> SUFFICES ASSUME CarefulInv, [Next]_vars PROVE CarefulInv' OBVIOUS
  <2>1. CASE Next
    <3>1. PICK p \in Procs : Step(p) BY <2>1, NextIsStep
    <3>2. TypeOK' BY <3>1, TypeStep DEF CarefulInv
    <3>3. Alone' BY <3>1, AloneStep DEF CarefulInv
    <3>4. Aimed' /\ Stoppable' BY <3>1, AimedStep
    <3>5. QED BY <3>2, <3>3, <3>4 DEF CarefulInv
  <2>2. CASE UNCHANGED vars
    BY <2>2 DEF vars, CarefulInv, TypeOK, Alone, Aimed, Stoppable, Active, IsDaemon, Polling
  <2>3. QED BY <2>1, <2>2
<1>3. QED BY <1>1, <1>2, PTL DEF Spec

\* Used with care, a running daemon that nobody told to stop can be found by a
\* stop, whatever fails and whichever process is killed.
THEOREM CarefulStoppable ==
  ASSUME Discipline = "careful" PROVE Spec => []Stoppable
<1>1. CarefulInv => Stoppable BY DEF CarefulInv
<1>2. QED BY <1>1, CarefulInvariance, PTL

-----------------------------------------------------------------------------
(***************************************************************************)
(* The refinement of Service, but for its liveness.                        *)
(***************************************************************************)
\* The status is that of the daemon, if there is one.
StatusOf(p) ==
  IF pc[p] \in Startup THEN "starting" ELSE IF Polling(p) THEN "up" ELSE "stopping"

LEMMA StatusFacts ==
  /\ Alone => \A p \in Procs : IsDaemon(p) => status = StatusOf(p)
  /\ (\A p \in Procs : ~IsDaemon(p)) => status = "down"
<1> USE DEF Alone, IsDaemon, DaemonPC, Startup, Loop, Polling
<1>1. ASSUME Alone, NEW p \in Procs, IsDaemon(p) PROVE status = StatusOf(p)
  BY <1>1 DEF status, StatusOf
<1>2. ASSUME \A p \in Procs : ~IsDaemon(p) PROVE status = "down"
  BY <1>2 DEF status
<1>3. QED BY <1>1, <1>2

LEMMA StatusFactsPrimed ==
  /\ Alone' => \A p \in Procs : IsDaemon(p)' => status' = StatusOf(p)'
  /\ (\A p \in Procs : ~IsDaemon(p)') => status' = "down"
<1> USE DEF Alone, IsDaemon, DaemonPC, Startup, Loop, Polling
<1>1. ASSUME Alone', NEW p \in Procs, IsDaemon(p)' PROVE status' = StatusOf(p)'
  BY <1>1 DEF status, StatusOf
<1>2. ASSUME \A p \in Procs : ~IsDaemon(p)' PROVE status' = "down"
  BY <1>2 DEF status
<1>3. QED BY <1>1, <1>2

\* A step that leaves flags and daemons alone leaves the status; asked is seen
\* from the processes at a stop.
LEMMA SameStatus ==
  ASSUME NEW p \in Procs, UNCHANGED isRunning, ~IsDaemon(p), ~IsDaemon(p)',
         \A q \in Procs : q # p => pc'[q] = pc[q] /\ seg'[q] = seg[q]
  PROVE  status' = status
<1> USE DEF IsDaemon, DaemonPC, Polling, Loop
<1>1. (\E q \in Procs : pc[q] \in Startup) <=> (\E q \in Procs : pc'[q] \in Startup)
  OBVIOUS
<1>2. (\E q \in Procs : Polling(q)) <=> (\E q \in Procs : Polling(q)')
  OBVIOUS
<1>3. (\E q \in Procs : IsDaemon(q)) <=> (\E q \in Procs : IsDaemon(q)')
  OBVIOUS
<1>4. QED BY <1>1, <1>2, <1>3 DEF status

LEMMA SameAsked ==
  ASSUME NEW p \in Procs, pc[p] \in {"stop", "clear"} <=> pc'[p] \in {"stop", "clear"},
         \A q \in Procs : q # p => pc'[q] = pc[q]
  PROVE  asked' = asked
<1>1. (\E q \in Procs : pc[q] \in {"stop", "clear"})
        <=> (\E q \in Procs : pc'[q] \in {"stop", "clear"})
  OBVIOUS
<1>2. QED BY <1>1 DEF asked

\* A command at work is the only thing at work.
LEMMA AtWork ==
  ASSUME Alone, NEW p \in Procs, Active(p)
  PROVE  /\ asked <=> pc[p] \in {"stop", "clear"}
         /\ pc[p] \notin Startup => status # "starting"
<1>1. asked <=> pc[p] \in {"stop", "clear"}
  BY DEF Alone, Active, Command, Starting, Stopping, asked
<1>2. ASSUME pc[p] \notin Startup PROVE status # "starting"
  <2>1. \A q \in Procs : pc[q] \notin Startup BY <1>2 DEF Alone, Active
  <2>2. QED BY <2>1 DEF status
<1>3. QED BY <1>1, <1>2

\* Every step of the system is one of the service, or none.
LEMMA PromiseStep ==
  ASSUME Discipline = "careful", IInv, CarefulInv, CarefulInv', NEW p \in Procs, Step(p)
  PROVE  [Promise!Next]_(Promise!vars)
<1> USE DEF CarefulInv
<1> DEFINE Others == \A q \in Procs : q # p => pc'[q] = pc[q] /\ seg'[q] = seg[q]
           Moves == Promise!Start \/ Promise!Started \/ Promise!Ask \/ Promise!Answer
                      \/ Promise!Stopped \/ Promise!Kill
<1>0. /\ Moves => [Promise!Next]_(Promise!vars)
      /\ status' = status /\ asked' = asked /\ crashes' = crashes
           => [Promise!Next]_(Promise!vars)
  BY DEF Promise!Next, Promise!vars
<1> HIDE DEF Moves
<1>1. CASE LaunchStart(p) \/ StartOpen(p) \/ StartUnlink(p) \/ ForkFails(p) \/ StopUnlink(p)
  <2> USE DEF LaunchStart, Launch, StartOpen, StartUnlink, ForkFails, StopUnlink,
        Goto, Exit, Idle, TypeOK
  <2>1. Others BY <1>1
  <2>2. UNCHANGED <<isRunning, crashes>> BY <1>1
  <2>3. ~IsDaemon(p) /\ ~IsDaemon(p)' BY <1>1 DEF IsDaemon, DaemonPC, Startup, Loop
  <2>4. pc[p] \notin {"stop", "clear"} /\ pc'[p] \notin {"stop", "clear"} BY <1>1
  <2>5. status' = status BY <2>1, <2>2, <2>3, SameStatus
  <2>6. asked' = asked BY <2>1, <2>4, SameAsked
  <2>7. QED BY <1>0, <2>2, <2>5, <2>6
<1>2. CASE LaunchStop(p)
  <2> USE DEF LaunchStop, Launch, MayStop, Settled, Goto, Idle, TypeOK
  <2>1. Others BY <1>2
  <2>2. UNCHANGED <<isRunning, crashes>> BY <1>2
  <2>3. ~IsDaemon(p) /\ ~IsDaemon(p)' BY <1>2 DEF IsDaemon, DaemonPC, Startup, Loop
  <2>4. status' = status BY <2>1, <2>2, <2>3, SameStatus
  <2>5. ~asked /\ status # "starting" BY <1>2 DEF asked, status, Command, Starting, Stopping
  <2>6. asked' = TRUE BY <1>2 DEF asked
  <2>7. Promise!Ask BY <2>2, <2>4, <2>5, <2>6 DEF Promise!Ask
  <2>8. QED BY <1>0, <2>7 DEF Moves
<1>3. CASE ForkChild(p)
  <2>1. PICK c \in Procs :
          /\ Idle(c) /\ pc[p] = "fork"
          /\ pc' = [pc EXCEPT ![p] = "idle", ![c] = "setsid"]
          /\ UNCHANGED <<isRunning, crashes>>
    BY <1>3 DEF ForkChild
  <2>2. status = "down"
    <3>1. \A q \in Procs : ~IsDaemon(q) BY <2>1 DEF Alone
    <3>2. QED BY <3>1, StatusFacts
  <2>3. status' = "starting"
    <3>1. pc'[c] = "setsid" BY <2>1 DEF TypeOK
    <3>2. QED BY <3>1 DEF status, Startup
  <2>4. ~asked
    <3>1. Active(p) /\ pc[p] = "fork" BY <2>1 DEF Active, Command, Starting, Stopping
    <3>2. QED BY <3>1, AtWork
  <2>5. ~asked'
    <3>1. \A q \in Procs : pc'[q] \in {"stop", "clear"} => pc[q] \in {"stop", "clear"}
      BY <2>1 DEF TypeOK
    <3>2. QED BY <2>4, <3>1 DEF asked
  <2>6. Promise!Start BY <2>1, <2>2, <2>3, <2>4, <2>5 DEF Promise!Start, asked
  <2>7. QED BY <1>0, <2>6 DEF Moves
<1>4. CASE Setsid(p) \/ Create(p) \/ CreateFails(p) \/ Truncate(p) \/ SetRunning(p)
  <2> USE DEF Setsid, Create, CreateFails, Truncate, SetRunning, Goto, Exit, TypeOK
  <2>1. pc[p] \in Startup /\ IsDaemon(p) /\ Active(p)
    BY <1>4 DEF IsDaemon, DaemonPC, Active, Startup
  <2>2. \A q \in Procs : q # p => pc'[q] = pc[q] BY <1>4
  <2>3. crashes' = crashes BY <1>4
  <2>4. status = "starting" BY <2>1, StatusFacts DEF StatusOf
  <2>5. pc[p] \notin {"stop", "clear"} /\ pc'[p] \notin {"stop", "clear"} BY <1>4
  <2>6. asked' = asked BY <2>2, <2>5, SameAsked
  <2>7. status' \in {"starting", "up", "stopping", "down"} BY DEF status
  <2>8. CASE status' = "starting" BY <1>0, <2>3, <2>4, <2>6, <2>8
  <2>9. CASE status' # "starting"
    <3>1. Promise!Started BY <2>3, <2>4, <2>6, <2>7, <2>9 DEF Promise!Started
    <3>2. QED BY <1>0, <3>1 DEF Moves
  <2>10. QED BY <2>8, <2>9
<1>5. CASE TestFlag(p) \/ Poll(p)
  <2> USE DEF TestFlag, Poll, Goto, TypeOK
  <2>1. IsDaemon(p) /\ IsDaemon(p)' /\ pc[p] \notin Startup /\ pc'[p] \notin Startup
    BY <1>5 DEF IsDaemon, DaemonPC, Startup, Loop
  <2>2. Polling(p)' <=> Polling(p) BY <1>5 DEF Polling, Loop
  <2>3. status' = status
    BY <2>1, <2>2, StatusFacts, StatusFactsPrimed DEF StatusOf
  <2>4. \A q \in Procs : q # p => pc'[q] = pc[q] BY <1>5
  <2>5. pc[p] \notin {"stop", "clear"} /\ pc'[p] \notin {"stop", "clear"} BY <1>5
  <2>6. asked' = asked BY <2>4, <2>5, SameAsked
  <2>7. crashes' = crashes BY <1>5
  <2>8. QED BY <1>0, <2>3, <2>6, <2>7
<1>6. CASE Remove(p)
  <2> USE DEF Remove, Exit, TypeOK
  <2>1. IsDaemon(p) /\ pc[p] \notin Startup /\ ~Polling(p)
    BY <1>6 DEF IsDaemon, DaemonPC, Startup, Polling, Loop
  <2>2. status = "stopping" BY <2>1, StatusFacts DEF StatusOf
  <2>3. \A q \in Procs : q # p => pc'[q] = pc[q] BY <1>6
  <2>4. \A q \in Procs : ~IsDaemon(q)'
    BY <1>6, <2>1, <2>3 DEF Alone, IsDaemon, DaemonPC, Startup, Loop
  <2>5. status' = "down" BY <2>4, StatusFactsPrimed
  <2>6. pc[p] \notin {"stop", "clear"} /\ pc'[p] \notin {"stop", "clear"} BY <1>6
  <2>7. asked' = asked BY <2>3, <2>6, SameAsked
  <2>8. crashes' = crashes BY <1>6
  <2>9. Promise!Stopped BY <2>2, <2>5, <2>7, <2>8 DEF Promise!Stopped
  <2>10. QED BY <1>0, <2>9 DEF Moves
<1>7. CASE StopOpen(p)
  <2> USE DEF StopOpen, Goto, Exit, TypeOK, OpenMayFail
  <2>1. Others /\ UNCHANGED <<isRunning, crashes>> BY <1>7
  <2>2. ~IsDaemon(p) /\ ~IsDaemon(p)' BY <1>7 DEF IsDaemon, DaemonPC, Startup, Loop
  <2>3. status' = status BY <2>1, <2>2, SameStatus
  <2>4. CASE pc'[p] = "clear"
    <3>1. pc[p] = "stop" BY <1>7
    <3>2. asked' = asked BY <2>1, <2>4, <3>1, SameAsked
    <3>3. QED BY <1>0, <2>1, <2>3, <3>2
  <2>5. CASE pc'[p] # "clear"
    <3>1. name = NoSeg /\ pc'[p] = "idle" BY <1>7, <2>5
    <3>2. Active(p) /\ asked BY <1>7 DEF Active, Command, Starting, Stopping, asked
    <3>3. ~asked'
      BY <2>1, <3>1, <3>2 DEF Alone, Active, Command, Starting, Stopping, asked
    <3>4. status # "up"
      <4>1. \A q \in Procs : ~Polling(q)
        BY <3>1, DaemonAssumption DEF Stoppable, Polling, Loop, Mapped, Holding
      <4>2. QED BY <4>1 DEF status
    <3>5. Promise!Answer BY <2>1, <2>3, <3>2, <3>3, <3>4 DEF Promise!Answer, asked
    <3>6. QED BY <1>0, <3>5 DEF Moves
  <2>6. QED BY <2>4, <2>5
<1>8. CASE Clear(p)
  <2>1. /\ pc[p] = "clear" /\ seg[p] \in Segments
        /\ pc'[p] \in {"idle", "unlinkStopped"}
        /\ \A q \in Procs : q # p => pc'[q] = pc[q] /\ seg'[q] = seg[q]
        /\ crashes' = crashes
    BY <1>8 DEF Clear, Goto, Exit, TypeOK, Mapped
  <2>2. Active(p) /\ asked BY <2>1 DEF Active, Command, Starting, Stopping, asked
  <2>3. ~asked'
    BY <2>1, <2>2 DEF Alone, Active, Command, Starting, Stopping, asked
  <2>4. \A q \in Procs : pc[q] \notin Startup
    BY <2>1, <2>2 DEF Alone, Active, Startup
  <2>5. \A q \in Procs : pc'[q] \notin Startup
    BY <2>1, <2>4 DEF Startup
  <2>6. \A q \in Procs : IsDaemon(q)' <=> IsDaemon(q)
    BY <2>1 DEF IsDaemon, DaemonPC, Startup, Loop
  <2>7. \A q \in Procs : Polling(q)' => Polling(q) /\ seg[q] # seg[p]
    <3>1. CASE seg[p] \in sized
      <4>1. isRunning' = [isRunning EXCEPT ![seg[p]] = FALSE] BY <1>8, <3>1 DEF Clear
      <4>2. QED BY <2>1, <4>1 DEF Polling, Loop, TypeOK
    <3>2. CASE seg[p] \notin sized
      <4>1. isRunning' = isRunning BY <1>8, <3>2 DEF Clear
      <4>2. \A q \in Procs : Polling(q)' => Polling(q)
        BY <2>1, <4>1 DEF Polling, Loop, TypeOK
      <4>3. \A q \in Procs : Polling(q) => seg[q] \in sized
        BY DEF IInv, DaemonFlagSized, Polling, Loop
      <4>4. QED BY <3>2, <4>2, <4>3
    <3>3. QED BY <3>1, <3>2
  <2>8. \A q \in Procs : ~Polling(q)' BY <2>1, <2>7 DEF Aimed
  <2>9. status' = IF \E q \in Procs : IsDaemon(q) THEN "stopping" ELSE "down"
    BY <2>5, <2>6, <2>8 DEF status
  <2>10. status \in {"up", status'}
    BY <2>4, <2>9 DEF status
  <2>11. status = "up" => status' = "stopping"
    <3>1. status = "up" => \E q \in Procs : Polling(q) BY DEF status
    <3>2. \A q \in Procs : Polling(q) => IsDaemon(q) BY DEF Polling, IsDaemon, DaemonPC
    <3>3. QED BY <2>9, <3>1, <3>2
  <2>12. Promise!Answer
    BY <2>1, <2>2, <2>3, <2>10, <2>11 DEF Promise!Answer, asked
  <2>13. QED BY <1>0, <2>12 DEF Moves
<1>9. CASE Crash(p)
  <2> USE DEF Crash, Exit, TypeOK
  <2>1. Others /\ UNCHANGED isRunning BY <1>9
  <2>2. crashes < MaxCrashes /\ crashes' = crashes + 1 BY <1>9
  <2>3. ~IsDaemon(p)' BY <1>9 DEF IsDaemon, DaemonPC, Startup, Loop
  <2>4. status' \in {status, "down"}
    <3>1. CASE IsDaemon(p)
      <4>1. \A q \in Procs : ~IsDaemon(q)' BY <2>1, <2>3, <3>1 DEF Alone, IsDaemon
      <4>2. QED BY <4>1, StatusFactsPrimed
    <3>2. CASE ~IsDaemon(p) BY <2>1, <2>3, <3>2, SameStatus
    <3>3. QED BY <3>1, <3>2
  <2>5. asked' \in {asked, FALSE}
    <3>1. asked' \in BOOLEAN /\ asked \in BOOLEAN BY DEF asked
    <3>2. asked' => asked BY <1>9, <2>1 DEF asked
    <3>3. QED BY <3>1, <3>2
  <2>6. Promise!Kill BY <2>2, <2>4, <2>5 DEF Promise!Kill
  <2>7. QED BY <1>0, <2>6 DEF Moves
<1>10. CASE ResolveFails(p) BY <1>10 DEF ResolveFails, OpenMayFail
<1>11. QED
  BY <1>1, <1>2, <1>3, <1>4, <1>5, <1>6, <1>7, <1>8, <1>9, <1>10 DEF Step

\* What a careful user is promised, but for its liveness: the daemon goes from
\* down to starting, up and stopping, and only a stop or a kill ends it.
THEOREM ImplementsServiceSteps ==
  ASSUME Discipline = "careful"
  PROVE  Spec => Promise!Init /\ [][Promise!Next]_(Promise!vars)
<1>1. Init => Promise!Init
  BY DEF Init, Promise!Init, status, asked, IsDaemon, Polling, Startup, Loop, DaemonPC
<1>2. IInv /\ CarefulInv /\ CarefulInv' /\ [Next]_vars => [Promise!Next]_(Promise!vars)
  <2> SUFFICES ASSUME IInv, CarefulInv, CarefulInv', [Next]_vars
      PROVE  [Promise!Next]_(Promise!vars)
    OBVIOUS
  <2>1. CASE Next
    <3>1. PICK p \in Procs : Step(p) BY <2>1, NextIsStep
    <3>2. QED BY <3>1, PromiseStep
  <2>2. CASE UNCHANGED vars
    <3>1. status' = status /\ asked' = asked /\ crashes' = crashes
      BY <2>2 DEF vars, status, asked, IsDaemon, Polling
    <3>2. QED BY <3>1 DEF Promise!vars
  <2>3. QED BY <2>1, <2>2
<1>3. QED BY <1>1, <1>2, Invariance, CarefulInvariance, PTL DEF Spec

=============================================================================
