------------------------------- MODULE Service ------------------------------
(***************************************************************************)
(* What `nvipfix start' and `nvipfix stop' promise to a user who waits for *)
(* one command to take effect before giving the next: one daemon that goes *)
(* down, starting, up, stopping, down, and a stop that is never lost.      *)
(***************************************************************************)
EXTENDS Naturals

CONSTANT MaxKills   \* bound on the processes killed from outside

VARIABLES
  status,  \* of the daemon: "down", "starting", "up" or "stopping"
  asked,   \* a stop has been given and not yet acted on
  kills

vars == <<status, asked, kills>>

Init == status = "down" /\ asked = FALSE /\ kills = 0

Start ==
  /\ status = "down" /\ ~asked
  /\ status' = "starting"
  /\ UNCHANGED <<asked, kills>>

\* Starting ends with a daemon that runs, or with an error.
Started ==
  /\ status = "starting"
  /\ status' \in {"up", "stopping", "down"}
  /\ UNCHANGED <<asked, kills>>

Ask ==
  /\ ~asked /\ status # "starting"
  /\ asked' = TRUE
  /\ UNCHANGED <<status, kills>>

\* A stop given to a running daemon tells it to stop, any other is void.
Answer ==
  /\ asked
  /\ asked' = FALSE
  /\ status' = IF status = "up" THEN "stopping" ELSE status
  /\ UNCHANGED kills

Stopped ==
  /\ status = "stopping"
  /\ status' = "down"
  /\ UNCHANGED <<asked, kills>>

\* The daemon, the stop or some other process is killed.
Kill ==
  /\ kills < MaxKills
  /\ kills' = kills + 1
  /\ status' \in {status, "down"}
  /\ asked' \in {asked, FALSE}

Next == Start \/ Started \/ Ask \/ Answer \/ Stopped \/ Kill

Spec ==
  /\ Init /\ [][Next]_vars
  /\ WF_vars(Started) /\ WF_vars(Answer) /\ WF_vars(Stopped)

=============================================================================
