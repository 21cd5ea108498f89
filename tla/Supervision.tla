---------------------------- MODULE Supervision ----------------------------
(***************************************************************************)
(* What package daemon promises of each command, without goroutines,       *)
(* channels, timers and locks.  A command is started, goes up, exits, is   *)
(* reported, waits and is started again as long as it has credit; and in   *)
(* the end it is gone.  When a reload has cancelled a command, its next    *)
(* exit is its last one: only a command that was waiting at that moment is *)
(* started again, and once.  Module Daemon implements this (DaemonImplements). *)
(***************************************************************************)
EXTENDS Integers

CONSTANTS
  Cmd,    \* the commands of all generations
  Limit   \* restarts granted between two resets

VARIABLES
  st,      \* st[c]: the state of c
  over,    \* the cancelled commands
  credit   \* credit[c]: restarts granted since the last reset

supVars == <<st, over, credit>>

SupStates == {"new", "starting", "up", "exited", "waiting", "gone"}

SupInit ==
  /\ st = [c \in Cmd |-> "new"]
  /\ over = {}
  /\ credit = [c \in Cmd |-> 0]

Move(c, from, to) ==
  /\ st[c] = from
  /\ st' = [st EXCEPT ![c] = to]

\* A generation of commands is run.
Launch(S) ==
  /\ \A c \in S : st[c] = "new" /\ c \notin over
  /\ st' = [c \in Cmd |-> IF c \in S THEN "starting" ELSE st[c]]
  /\ UNCHANGED <<over, credit>>

Start(c)     == Move(c, "starting", "up") /\ UNCHANGED <<over, credit>>
FailStart(c) == Move(c, "starting", "exited") /\ UNCHANGED <<over, credit>>
NoLog(c)     == Move(c, "starting", "gone") /\ UNCHANGED <<over, credit>>
ProcessEnds(c) == Move(c, "up", "exited") /\ UNCHANGED <<over, credit>>

ReportExit(c) ==
  /\ c \notin over
  /\ Move(c, "exited", "waiting")
  /\ UNCHANGED <<over, credit>>

LastExit(c) ==
  /\ c \in over
  /\ Move(c, "exited", "gone")
  /\ UNCHANGED <<over, credit>>

StartAgain(c) ==
  /\ credit[c] < Limit
  /\ Move(c, "waiting", "starting")
  /\ credit' = [credit EXCEPT ![c] = @ + 1]
  /\ UNCHANGED over

LimitReached(c) ==
  /\ credit[c] = Limit
  /\ Move(c, "waiting", "gone")
  /\ UNCHANGED <<over, credit>>

\* The commands S are cancelled, and waiting commands that are cancelled give up.
CancelAll(S) ==
  /\ over' = over \cup S
  /\ \E T \in SUBSET over' :
       /\ \A c \in T : st[c] = "waiting"
       /\ st' = [c \in Cmd |-> IF c \in T THEN "gone" ELSE st[c]]
  /\ UNCHANGED credit

ResetCredit(S) ==
  /\ credit' = [c \in Cmd |-> IF c \in S THEN 0 ELSE credit[c]]
  /\ UNCHANGED <<st, over>>

SupNext ==
  \/ \E S \in SUBSET Cmd : Launch(S) \/ CancelAll(S) \/ ResetCredit(S)
  \/ \E c \in Cmd :
       \/ Start(c) \/ FailStart(c) \/ NoLog(c) \/ ProcessEnds(c) \/ ReportExit(c)
       \/ LastExit(c) \/ StartAgain(c) \/ LimitReached(c)

SupSpec == SupInit /\ [][SupNext]_supVars
=============================================================================
