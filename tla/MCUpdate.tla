------------------------------ MODULE MCUpdate ------------------------------
(* Two requests, four versions of a file of which one is malformed and one has *)
(* no commands, and environments with up to two variables that match in every  *)
(* position of up to four.                                                     *)
EXTENDS Update

CONSTANTS r1, r2, malformed

MCRequest == {r1, r2}

MCCmdName == {"prometheus", "/bin/prometheus", "./exporter", "./exporter 1"}
MCPath == [n \in MCCmdName |-> IF n = "prometheus" THEN "/bin/prometheus" ELSE n]
MCText == {"exporter", "exporter 1", "prometheus", "box", "other box", "1.1.1.1", "2.2.2.2", "3.3.3.3", "9091"}
MCBase == [n \in MCCmdName |-> CASE n = "./exporter" -> "exporter" [] n = "./exporter 1" -> "exporter 1"
                                 [] OTHER -> "prometheus"]
MCSpelling == [n \in MCCmdName |-> CASE n = "prometheus" -> <<5>> [] n = "/bin/prometheus" -> <<4>>
                                     [] n = "./exporter" -> <<3>> [] n = "./exporter 1" -> <<3, 1>>]

Said(name, host, ip, other) ==
  [k \in {"name", "hostname", "ip", "other"} |->
     CASE k = "name" -> name [] k = "hostname" -> host [] k = "ip" -> ip [] k = "other" -> other]

\* The first version says nothing, or everything; the third has two commands that
\* differ in the order of their arguments, one with the same words in one argument and
\* one with a blank in its name.
MCContent ==
  [v \in 0..3 |->
     CASE v = 0 -> << [cmd |-> "prometheus", args |-> << <<2>>, <<1>> >>,
                       ann |-> Said("", "", "", "9091")],
                      [cmd |-> "./exporter", args |-> <<>>,
                       ann |-> Said("exporter", "other box", "3.3.3.3", "")] >>
       [] v = 1 -> malformed
       [] v = 2 -> <<>>
       [] v = 3 -> << [cmd |-> "./exporter", args |-> << <<2>>, <<1>> >>,
                       ann |-> Said("", "", "", "")],
                      [cmd |-> "./exporter", args |-> << <<1>>, <<2>> >>,
                       ann |-> Said("", "", "", "")],
                      [cmd |-> "./exporter", args |-> << <<1, 2>> >>,
                       ann |-> Said("", "", "3.3.3.3", "")],
                      [cmd |-> "./exporter 1", args |-> << <<2>> >>,
                       ann |-> Said("", "", "", "9091")] >>]

MCAskpass == {"A", "B"}

MCHosts ==
  << [comment |-> TRUE, ip |-> "2.2.2.2", names |-> <<"box">>],
     [comment |-> FALSE, ip |-> "2.2.2.2", names |-> <<"other box">>],
     [comment |-> FALSE, ip |-> "1.1.1.1", names |-> <<"other box", "box">>],
     [comment |-> FALSE, ip |-> "2.2.2.2", names |-> <<"box">>] >>

Machine(env, name, lines) == [environ |-> env, hostname |-> name, hosts |-> lines]

MCMachines ==
  { Machine(e, "box", MCHosts) :
      e \in { <<"x", "A">>, <<"A", "B">>, <<"A", "x", "B">>, <<"A", "x", "B", "y">>,
              <<"x", "A", "B", "y">> } }
  \cup { Machine(<<>>, "", MCHosts), Machine(<<"A">>, "box", <<>>),
         Machine(<<"A", "x">>, "exporter", MCHosts) }
=============================================================================
