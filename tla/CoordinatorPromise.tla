------------------------- MODULE CoordinatorPromise -------------------------
(***************************************************************************)
(* What the coordinator promises its callers, with no mutex, no index and  *)
(* no copy of anything: a Subscribe and a load happen at one moment each,  *)
(* a Notify calls a stretch of the list that is fixed when it begins, and  *)
(* a Reload never returns and changes nothing.  Which configuration a      *)
(* subscriber is passed is not promised, nor that a Notify which begins    *)
(* while a Subscribe is under way gets past the end of its stretch.        *)
(***************************************************************************)
EXTENDS Integers, Sequences

CONSTANTS Caller, Subscriber, Ss, Conf, NoConf, Missing, Bad   \* as in Coordinator

VARIABLES
  list,     \* the subscribers
  conf,     \* the configuration
  file,     \* the content of the configuration file
  call,     \* call[c]: what c calls, "none" before it does
  outcome,  \* outcome[c]: how the call of c ends, "none" until that is decided
  stretch,  \* stretch[c]: how many subscribers the Notify of c may call
  told,     \* told[c]: those that it has called
  beyond    \* beyond[c]: it will call what is no subscriber after them

vars == <<list, conf, file, call, outcome, stretch, told, beyond>>

Result(content) ==
  IF content = Missing THEN "error" ELSE IF content = Bad THEN "panic" ELSE "ok"

Init ==
  /\ list = <<>>
  /\ conf = NoConf
  /\ file \in Conf \cup {Missing, Bad}
  /\ call = [c \in Caller |-> "none"]
  /\ outcome = [c \in Caller |-> "none"]
  /\ stretch = [c \in Caller |-> 0]
  /\ told = [c \in Caller |-> <<>>]
  /\ beyond = [c \in Caller |-> FALSE]

Running(c, what) == call[c] = what /\ outcome[c] = "none"

Ends(c, how) == outcome' = [outcome EXCEPT ![c] = how]

Edit ==
  /\ file' \in Conf \cup {Missing, Bad}
  /\ UNCHANGED <<list, conf, call, outcome, stretch, told, beyond>>

Begin(c, what) ==
  /\ call[c] = "none"
  /\ call' = [call EXCEPT ![c] = what]
  /\ stretch' = [stretch EXCEPT ![c] = IF what = "Notify" THEN Len(list) ELSE 0]
  /\ \/ UNCHANGED beyond
     \/ /\ what = "Notify" /\ \E s \in Caller : Running(s, "Subscribe")
        /\ beyond' = [beyond EXCEPT ![c] = TRUE]
  /\ UNCHANGED <<list, conf, file, outcome, told>>

Subscribe(c) ==
  /\ Running(c, "Subscribe")
  /\ list' = list \o Ss[c]
  /\ Ends(c, "ok")
  /\ UNCHANGED <<conf, file, call, stretch, told, beyond>>

Load(c) ==
  /\ Running(c, "loadconfig")
  /\ conf' = IF file \in Conf THEN file ELSE conf
  /\ Ends(c, Result(file))
  /\ UNCHANGED <<list, file, call, stretch, told, beyond>>

Tell(c, err) ==
  /\ Running(c, "Notify")
  /\ Len(told[c]) < stretch[c]
  /\ told' = [told EXCEPT ![c] = Append(@, list[Len(@) + 1])]
  /\ Ends(c, IF err THEN "error" ELSE "none")
  /\ UNCHANGED <<list, conf, file, call, stretch, beyond>>

AllTold(c) ==
  /\ Running(c, "Notify")
  /\ Len(told[c]) = stretch[c]
  /\ Ends(c, IF beyond[c] THEN "panic" ELSE "ok")
  /\ UNCHANGED <<list, conf, file, call, stretch, told, beyond>>

Next ==
  \/ Edit
  \/ \E c \in Caller :
       \/ \E what \in {"Subscribe", "Notify", "Reload", "loadconfig"} : Begin(c, what)
       \/ Subscribe(c) \/ Load(c) \/ AllTold(c)
       \/ \E err \in BOOLEAN : Tell(c, err)

Spec == Init /\ [][Next]_vars
=============================================================================
