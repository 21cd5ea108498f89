-------------------------------- MODULE Conf --------------------------------
(***************************************************************************)
(* What becomes of the commands of a configuration: GenerateCmds with the  *)
(* visitors that fill annotations (config/config.go), the look into        *)
(* /etc/hosts and the hash that names a log file (internal/tool/tools.go), *)
(* and the exec.Cmd of a restart (DaemonCmd.update).                       *)
(*                                                                         *)
(* An annotation that is "" and one that is not there read the same, and   *)
(* so does a nil map: every key has a value here.  A string that is hashed *)
(* is the sequence of its words, one more than it has blanks; words are    *)
(* numbers in their order as strings, and 0 is the empty one.              *)
(***************************************************************************)
EXTENDS Integers, Sequences, SequencesExt

CONSTANTS
  CmdName,  \* the values of cmd in a configuration, and the paths they are found at
  Spelling, \* Spelling[n]: the words of n
  Path,     \* Path[n]: where exec.LookPath finds n, or n
  Base,     \* Base[n]: filepath.Base of n
  Text      \* the values of annotations

None == ""
Keys == {"name", "hostname", "ip", "other"}

Annotation == [Keys -> Text \cup {None}]
String == Seq(Nat) \ {<<>>}
Line == [comment : BOOLEAN, ip : Text, names : Seq(Text)]  \* of /etc/hosts
Cmd == [cmd : CmdName, args : Seq(String), ann : Annotation]

ASSUME ConfAssumption ==
  /\ None \notin Text
  /\ Spelling \in [CmdName -> String]
  /\ \A m, n \in CmdName : Spelling[m] = Spelling[n] => m = n
  /\ Path \in [CmdName -> CmdName]
  /\ \A n \in CmdName : Path[Path[n]] = Path[n]
  /\ Base \in [CmdName -> Text]

-----------------------------------------------------------------------------
(* The visitors.                                                           *)

\* Mutant of Fill: the default goes over what the file says.
FillAlways(cmds, key, value) ==
  [i \in DOMAIN cmds |-> [cmds[i] EXCEPT !.ann[key] = value[i]]]

\* A visitor sets the annotation key of the commands that have none.
Fill(cmds, key, value) ==
  [i \in DOMAIN cmds |->
     [cmds[i] EXCEPT !.ann[key] = IF @ = None THEN value[i] ELSE @]]

\* A line that begins with # is skipped; an # further on is a field like others.
Lists(line, hostname) == ~line.comment /\ \E i \in DOMAIN line.names : line.names[i] = hostname

\* The ip of the first line that has the hostname; None when there is no such line, or
\* /etc/hosts cannot be read (no lines).
IpFromHostname(hosts, hostname) ==
  IF \E i \in DOMAIN hosts : Lists(hosts[i], hostname)
  THEN hosts[CHOOSE i \in DOMAIN hosts :
               /\ Lists(hosts[i], hostname)
               /\ \A j \in 1..(i - 1) : ~Lists(hosts[j], hostname)].ip
  ELSE None

\* hostname is None when os.Hostname fails.
withHostName(cmds, hostname) ==
  IF hostname = None THEN cmds ELSE Fill(cmds, "hostname", [i \in DOMAIN cmds |-> hostname])

withIP(cmds, hostname, hosts) ==
  LET ip == IpFromHostname(hosts, hostname)
  IN IF hostname = None \/ ip = None THEN cmds ELSE Fill(cmds, "ip", [i \in DOMAIN cmds |-> ip])

withName(cmds) == Fill(cmds, "name", [i \in DOMAIN cmds |-> Base[cmds[i].cmd]])

GenerateCmds(cmds, hostname, hosts) ==
  withName(withIP(withHostName(cmds, hostname), hostname, hosts))

-----------------------------------------------------------------------------
(* The hash of a command, and its exec.Cmd after a restart.                *)

\* The order of strings, on words with blanks between them
Before(a, b) ==
  \/ Len(a) < Len(b) /\ IsPrefix(a, b)
  \/ \E i \in DOMAIN a \cap DOMAIN b :
       a[i] < b[i] /\ \A j \in 1..(i - 1) : a[j] = b[j]

\* sort.Strings
Sorted(args) ==
  CHOOSE s \in {[i \in DOMAIN args |-> args[p[i]]] :
                 p \in {q \in [DOMAIN args -> DOMAIN args] :
                          \A i, j \in DOMAIN args : q[i] = q[j] => i = j}} :
    \A i, j \in DOMAIN args : i < j => ~Before(s[j], s[i])

\* Mutant of HashCmd: the arguments are hashed as they come.
HashUnsorted(c) == Spelling[c.cmd] \o FlattenSeq(c.args)

\* What is hashed is one string: the name, then the sorted arguments, all joined with
\* blanks, or the name alone.  (Two strings are taken not to have one FNV hash.)
HashCmd(c) == Spelling[c.cmd] \o FlattenSeq(Sorted(c.args))

\* The log file of a command
LogFile(c) == <<c.ann["name"], c.ann["other"], HashCmd(c)>>

\* Mutant of update: Args, which begins with the name, is passed on as a whole.
updateAll(c) == [c EXCEPT !.cmd = Path[@], !.args = <<Spelling[c.cmd]>> \o @]

\* exec.Command(Path, Args[1:]...)
update(c) == [c EXCEPT !.cmd = Path[@]]
=============================================================================
