----------------------- MODULE CoordinatorImplements ------------------------
(***************************************************************************)
(* The coordinator with its mutex does what CoordinatorPromise says.  A    *)
(* Subscribe happens where it stores the list, a load where it reads the   *)
(* file: nobody else can load before that content is in c.config.          *)
(***************************************************************************)
EXTENDS Coordinator

\* The calls that have read a configuration and not stored it
Loading ==
  {c \in Caller : pc[c] = "store" /\ op[c] = "loadconfig" /\ bytes[c] \in Conf}

\* How a call ends, which a load knows when it has read the file
outcomeOf(c) ==
  IF Returned(c) THEN pc[c]
  ELSE IF pc[c] # "store" \/ op[c] # "loadconfig" THEN "none"
  ELSE IF bytes[c] = Missing THEN "error"
  ELSE IF bytes[c] = Bad THEN "panic" ELSE "ok"

outcomes == [c \in Caller |-> outcomeOf(c)]

\* The configuration in c.config, or on its way there
confOf == IF Loading = {} THEN config ELSE bytes[CHOOSE c \in Loading : TRUE]

stretches == [c \in Caller |-> IF op[c] = "Notify" THEN Len(seen[c]) ELSE 0]

Promise == INSTANCE CoordinatorPromise WITH
  list <- subscribers, conf <- confOf, call <- op, outcome <- outcomes, stretch <- stretches,
  beyond <- wild

\* Subscribe, Notify and loadconfig are linearizable, although Notify takes no lock and
\* append is a read and a write: concurrent calls have the results and leave the list and
\* the configuration of some order of calls that happen at once, each between its begin
\* and its return; what a Notify calls is a stretch of the list at the moment it began,
\* and it panics at the end of it only if a Subscribe was under way at that moment.
KeepsCoordinatorPromise == Promise!Spec
=============================================================================
