---------------------------- MODULE UpdateProofs ----------------------------
(***************************************************************************)
(* What a load makes of a configuration, and what of a pull reaches it,    *)
(* for any configurations, machines and requests.                          *)
(***************************************************************************)
EXTENDS Update, WellFoundedInduction, FiniteSetTheorems, SequenceTheorems, TLAPS

\* A non-empty set of naturals has a least element.
LEMMA Least ==
  ASSUME NEW T, T \subseteq Nat, T # {}
  PROVE  \E x \in T : \A y \in T : x <= y
<1>1. PICK x \in T : \A y \in T : ~(<<y, x>> \in OpToRel(<, Nat))
  BY NatLessThanWellFounded, WFMin
<1>2. \A y \in T : ~(y < x)
  BY <1>1 DEF OpToRel
<1>3. QED
  BY <1>2

\* IpFromHostname answers the ip of the first line that has the hostname.
LEMMA FirstLine ==
  ASSUME NEW name,
         NEW lines \in Seq(Line),
         NEW ip, ip = IpFromHostname(lines, name)
  PROVE  \/ ip = None /\ \A j \in DOMAIN lines : ~Lists(lines[j], name)
         \/ \E j \in DOMAIN lines :
              /\ ip = lines[j].ip
              /\ Lists(lines[j], name)
              /\ \A l \in DOMAIN lines : Lists(lines[l], name) => j <= l
<1> DEFINE Has(i) == Lists(lines[i], name)
           First(i) == Has(i) /\ \A j \in 1..(i - 1) : ~Has(j)
<1>1. DOMAIN lines \subseteq Nat /\ \A i \in DOMAIN lines : 1..i \subseteq DOMAIN lines
  OBVIOUS
<1>2. ip = IF \E i \in DOMAIN lines : Has(i)
           THEN lines[CHOOSE i \in DOMAIN lines : First(i)].ip ELSE None
  BY DEF IpFromHostname
<1> HIDE DEF Has
<1>3. CASE \A i \in DOMAIN lines : ~Has(i)
  BY <1>2, <1>3 DEF Has
<1>4. CASE \E i \in DOMAIN lines : Has(i)
  <2> DEFINE T == {i \in DOMAIN lines : Has(i)}
             k == CHOOSE i \in DOMAIN lines : First(i)
  <2>1. PICK x \in T : \A y \in T : x <= y
    <3>1. T \subseteq Nat /\ T # {}
      BY <1>1, <1>4
    <3>2. QED
      BY <3>1, Least
  <2>2. x \in DOMAIN lines /\ First(x)
    <3>1. x \in DOMAIN lines /\ Has(x) /\ x \in Nat
      BY <1>1, <2>1
    <3>2. ASSUME NEW j \in 1..(x - 1), Has(j) PROVE FALSE
      <4>1. j \in DOMAIN lines /\ j < x /\ j \in Nat
        BY <1>1, <3>1
      <4>2. j \in T
        BY <3>2, <4>1
      <4>3. QED
        BY <2>1, <3>1, <4>1, <4>2
    <3>3. QED
      BY <3>1, <3>2
  <2>3. k \in DOMAIN lines /\ First(k)
    <3> HIDE DEF First
    <3>1. \E i \in DOMAIN lines : First(i)
      BY <2>2
    <3>2. QED
      BY <3>1, Zenon
  <2>4. ip = lines[k].ip
    BY <1>2, <1>4
  <2> HIDE DEF k
  <2>5. ASSUME NEW l \in DOMAIN lines, Has(l) PROVE k <= l
    BY <1>1, <2>3, <2>5
  <2>6. QED
    BY <2>3, <2>4, <2>5 DEF Has
<1>5. QED
  BY <1>3, <1>4

-----------------------------------------------------------------------------
(* The visitors.                                                           *)

\* g is cmds but for the annotation key, where that was None.
FilledFrom(g, cmds, key, value) ==
  /\ g \in Seq(Cmd)
  /\ Len(g) = Len(cmds)
  /\ DOMAIN g = DOMAIN cmds
  /\ \A i \in DOMAIN cmds :
       /\ g[i].cmd = cmds[i].cmd /\ g[i].args = cmds[i].args
       /\ \A k \in Keys \ {key} : g[i].ann[k] = cmds[i].ann[k]
       /\ g[i].ann[key] = IF cmds[i].ann[key] = None THEN value[i] ELSE cmds[i].ann[key]

\* A visitor keeps the names and arguments of the commands, and changes one annotation.
LEMMA Filled ==
  ASSUME NEW cmds \in Seq(Cmd), NEW key \in Keys,
         NEW value \in [DOMAIN cmds -> Text \cup {None}]
  PROVE  FilledFrom(Fill(cmds, key, value), cmds, key, value)
<1> DEFINE g == Fill(cmds, key, value)
<1> DEFINE new(i) == IF cmds[i].ann[key] = None THEN value[i] ELSE cmds[i].ann[key]
<1>1. g = [i \in DOMAIN cmds |-> [cmds[i] EXCEPT !.ann[key] = new(i)]]
  BY DEF Fill
<1>2. ASSUME NEW i \in DOMAIN cmds
      PROVE  /\ g[i] \in Cmd
             /\ g[i].cmd = cmds[i].cmd /\ g[i].args = cmds[i].args
             /\ \A k \in Keys \ {key} : g[i].ann[k] = cmds[i].ann[k]
             /\ g[i].ann[key] = new(i)
  <2>1. cmds[i] \in Cmd /\ value[i] \in Text \cup {None}
    OBVIOUS
  <2>2. cmds[i].ann \in Annotation /\ new(i) \in Text \cup {None}
    BY <2>1 DEF Cmd, Annotation
  <2>3. g[i] = [cmds[i] EXCEPT !.ann = [cmds[i].ann EXCEPT ![key] = new(i)]]
    BY <1>1
  <2> HIDE DEF new
  <2>4. [cmds[i].ann EXCEPT ![key] = new(i)] \in Annotation
    BY <2>2 DEF Annotation
  <2>5. QED
    BY <2>1, <2>2, <2>3, <2>4 DEF Cmd, Annotation
<1>3. DOMAIN g = DOMAIN cmds
  BY <1>1
<1>4. g \in Seq(Cmd) /\ Len(g) = Len(cmds)
  <2> DEFINE n == Len(cmds)
  <2>1. n \in Nat /\ DOMAIN cmds = 1..n
    OBVIOUS
  <2>2. g = [i \in 1..n |-> g[i]]
    BY <1>1, <2>1
  <2> HIDE DEF n
  <2>3. g \in [1..n -> Cmd]
    BY <1>2, <1>3, <2>1, <2>2
  <2>4. g \in Seq(Cmd) /\ Len(g) = n
    BY <2>1, <2>3
  <2>5. QED
    BY <2>4 DEF n
<1>5. QED
  BY <1>2, <1>3, <1>4 DEF FilledFrom

\* What RunsLoaded says of the commands of a configuration
Defaults(said, run, name, lines) ==
  /\ \A k \in Keys : said.ann[k] # None => run.ann[k] = said.ann[k]
  /\ said.ann["hostname"] = None => run.ann["hostname"] = name
  /\ said.ann["name"] = None => run.ann["name"] = Base[said.cmd]
  /\ said.ann["ip"] = None =>
       \/ run.ann["ip"] = None /\ (name = None \/ \A j \in DOMAIN lines : ~Lists(lines[j], name))
       \/ \E j \in DOMAIN lines :
            /\ run.ann["ip"] = lines[j].ip
            /\ Lists(lines[j], name)
            /\ \A l \in DOMAIN lines : Lists(lines[l], name) => j <= l

\* GenerateCmds keeps what the file says, and fills in what it leaves out.
LEMMA Generated ==
  ASSUME NEW cmds \in Seq(Cmd), NEW name \in Text \cup {None},
         NEW lines \in Seq(Line)
  PROVE  LET g == GenerateCmds(cmds, name, lines)
         IN  /\ g \in Seq(Cmd) /\ Len(g) = Len(cmds) /\ DOMAIN g = DOMAIN cmds
             /\ \A i \in DOMAIN cmds :
                  /\ g[i].cmd = cmds[i].cmd /\ g[i].args = cmds[i].args
                  /\ Defaults(cmds[i], g[i], name, lines)
<1> DEFINE ip == IpFromHostname(lines, name)
           a  == withHostName(cmds, name)
           b  == withIP(a, name, lines)
           g  == GenerateCmds(cmds, name, lines)
           Has(j) == Lists(lines[j], name)
<1>1. \/ ip = None /\ \A j \in DOMAIN lines : ~Lists(lines[j], name)
      \/ \E j \in DOMAIN lines :
           /\ ip = lines[j].ip
           /\ Lists(lines[j], name)
           /\ \A l \in DOMAIN lines : Lists(lines[l], name) => j <= l
  BY FirstLine
<1>2. ip \in Text \cup {None}
  <2>1. \A j \in DOMAIN lines : lines[j].ip \in Text
    <3>1. \A j \in DOMAIN lines : lines[j] \in Line
      OBVIOUS
    <3>2. QED
      BY <3>1 DEF Line
  <2> HIDE DEF ip
  <2>2. QED
    BY <1>1, <2>1
<1>3. /\ a \in Seq(Cmd) /\ Len(a) = Len(cmds) /\ DOMAIN a = DOMAIN cmds
      /\ \A i \in DOMAIN cmds :
           /\ a[i].cmd = cmds[i].cmd /\ a[i].args = cmds[i].args
           /\ \A k \in Keys \ {"hostname"} : a[i].ann[k] = cmds[i].ann[k]
           /\ a[i].ann["hostname"] = IF cmds[i].ann["hostname"] = None THEN name
                                    ELSE cmds[i].ann["hostname"]
  <2>1. CASE name = None
    BY <2>1 DEF withHostName, Keys, Cmd, Annotation
  <2>2. CASE name # None
    <3> DEFINE v == [i \in DOMAIN cmds |-> name]
    <3>1. a = Fill(cmds, "hostname", v) /\ v \in [DOMAIN cmds -> Text \cup {None}]
      BY <2>2 DEF withHostName
    <3>2. \A i \in DOMAIN cmds : v[i] = name
      OBVIOUS
    <3> HIDE DEF a, v
    <3>3. FilledFrom(a, cmds, "hostname", v)
      BY <3>1, Filled DEF Keys
    <3>4. QED
      BY <3>2, <3>3 DEF FilledFrom
  <2>3. QED
    BY <2>1, <2>2
<1>4. /\ b \in Seq(Cmd) /\ Len(b) = Len(a) /\ DOMAIN b = DOMAIN a
      /\ \A i \in DOMAIN a :
           /\ b[i].cmd = a[i].cmd /\ b[i].args = a[i].args
           /\ \A k \in Keys \ {"ip"} : b[i].ann[k] = a[i].ann[k]
           /\ b[i].ann["ip"] = IF a[i].ann["ip"] = None /\ name # None THEN ip
                              ELSE a[i].ann["ip"]
  <2> HIDE DEF a
  <2>1. CASE name = None \/ ip = None
    BY <1>3, <2>1 DEF withIP
  <2>2. CASE name # None /\ ip # None
    <3> DEFINE v == [i \in DOMAIN a |-> ip]
    <3>1. b = Fill(a, "ip", v) /\ v \in [DOMAIN a -> Text \cup {None}]
      BY <1>2, <2>2 DEF withIP
    <3>2. \A i \in DOMAIN a : v[i] = ip
      OBVIOUS
    <3> HIDE DEF ip, b, v
    <3>3. FilledFrom(b, a, "ip", v)
      BY <1>3, <3>1, Filled DEF Keys
    <3>4. QED
      BY <2>2, <3>2, <3>3 DEF FilledFrom
  <2>3. QED
    BY <2>1, <2>2
<1>5. /\ g \in Seq(Cmd) /\ Len(g) = Len(b) /\ DOMAIN g = DOMAIN b
      /\ \A i \in DOMAIN b :
           /\ g[i].cmd = b[i].cmd /\ g[i].args = b[i].args
           /\ \A k \in Keys \ {"name"} : g[i].ann[k] = b[i].ann[k]
           /\ g[i].ann["name"] = IF b[i].ann["name"] = None THEN Base[b[i].cmd]
                                ELSE b[i].ann["name"]
  <2> DEFINE v == [i \in DOMAIN b |-> Base[b[i].cmd]]
  <2>1. g = Fill(b, "name", v)
    BY DEF GenerateCmds, withName
  <2> HIDE DEF a, b, g
  <2>2. v \in [DOMAIN b -> Text \cup {None}]
    <3>1. ASSUME NEW i \in DOMAIN b PROVE Base[b[i].cmd] \in Text
      <4>1. b[i] \in Cmd
        BY <1>4
      <4>2. QED
        BY <4>1, ConfAssumption DEF Cmd
    <3>2. QED
      BY <3>1
  <2>3. \A i \in DOMAIN b : v[i] = Base[b[i].cmd]
    OBVIOUS
  <2> HIDE DEF v
  <2>4. FilledFrom(g, b, "name", v)
    BY <1>4, <2>1, <2>2, Filled DEF Keys
  <2>5. QED
    BY <2>3, <2>4 DEF FilledFrom
<1> HIDE DEF a, b, g, ip
<1>6. ASSUME NEW i \in DOMAIN cmds PROVE Defaults(cmds[i], g[i], name, lines)
  <2>1. /\ g[i].ann["hostname"] = IF cmds[i].ann["hostname"] = None THEN name
                                 ELSE cmds[i].ann["hostname"]
        /\ g[i].ann["ip"] = IF cmds[i].ann["ip"] = None /\ name # None THEN ip
                           ELSE cmds[i].ann["ip"]
        /\ g[i].ann["name"] = IF cmds[i].ann["name"] = None THEN Base[cmds[i].cmd]
                             ELSE cmds[i].ann["name"]
        /\ g[i].ann["other"] = cmds[i].ann["other"]
    <3>1. i \in DOMAIN a /\ i \in DOMAIN b
      BY <1>3, <1>4
    <3>2. /\ a[i].cmd = cmds[i].cmd /\ b[i].cmd = a[i].cmd
          /\ \A k \in Keys \ {"hostname"} : a[i].ann[k] = cmds[i].ann[k]
          /\ \A k \in Keys \ {"ip"} : b[i].ann[k] = a[i].ann[k]
          /\ \A k \in Keys \ {"name"} : g[i].ann[k] = b[i].ann[k]
      BY <1>3, <1>4, <1>5, <3>1
    <3>3. /\ a[i].ann["hostname"] = IF cmds[i].ann["hostname"] = None THEN name
                                   ELSE cmds[i].ann["hostname"]
          /\ b[i].ann["ip"] = IF a[i].ann["ip"] = None /\ name # None THEN ip
                             ELSE a[i].ann["ip"]
          /\ g[i].ann["name"] = IF b[i].ann["name"] = None THEN Base[b[i].cmd]
                               ELSE b[i].ann["name"]
      BY <1>3, <1>4, <1>5, <3>1
    <3>4. /\ g[i].ann["hostname"] = a[i].ann["hostname"] /\ g[i].ann["ip"] = b[i].ann["ip"]
          /\ a[i].ann["ip"] = cmds[i].ann["ip"] /\ b[i].ann["name"] = cmds[i].ann["name"]
          /\ g[i].ann["other"] = cmds[i].ann["other"]
      BY <3>2 DEF Keys
    <3>5. QED
      BY <3>2, <3>3, <3>4
  <2>2. \A k \in Keys : cmds[i].ann[k] # None => g[i].ann[k] = cmds[i].ann[k]
    BY <2>1 DEF Keys
  <2>3. QED
    BY <1>1, <2>1, <2>2 DEF Defaults
<1>7. QED
  <2>1. g \in Seq(Cmd) /\ Len(g) = Len(cmds) /\ DOMAIN g = DOMAIN cmds
    BY <1>3, <1>4, <1>5
  <2>2. \A i \in DOMAIN cmds : g[i].cmd = cmds[i].cmd /\ g[i].args = cmds[i].args
    BY <1>3, <1>4, <1>5
  <2>3. QED
    BY <1>6, <2>1, <2>2 DEF g

-----------------------------------------------------------------------------
(* GitPull: the loop that deletes from the slice it ranges over.  Here env  *)
(* is the environment, arr the array under the slice, l the length of the   *)
(* slice and a the index of the range.                                      *)

\* From a on the array holds what is yet to come: the environment, moved down by the
\* number of deletions, and behind the slice its last variable again.
Shifted(env, arr, l, a) ==
  \A i \in a..Len(env) :
    arr[i] = IF i <= l THEN env[i + (Len(env) - l)] ELSE env[Len(env)]

\* from tells where the variables of the slice were.
ComesFrom(env, arr, l, a, from) ==
  /\ from \in [1..l -> DOMAIN env]
  /\ \A i, j \in 1..l : i < j => from[i] < from[j]
  /\ \A i \in 1..l : arr[i] = env[from[i]]
  /\ \A i \in 1..l : i >= a => from[i] = i + (Len(env) - l)
  /\ \A k \in DOMAIN env : k \in AskpassAt(env) \/ \E i \in 1..l : from[i] = k

NoNeighbours(env) == \A i \in AskpassAt(env) : i + 1 \notin AskpassAt(env)

LoopAt(env, arr, l, a) ==
  /\ arr \in Seq(STRING) /\ Len(arr) = Len(env)
  /\ l \in 0..Len(env) /\ a \in 1..(Len(env) + 1)
  /\ Shifted(env, arr, l, a)
  /\ \E from : ComesFrom(env, arr, l, a, from)
  /\ l < Len(env) /\ a <= Len(env) => \E i \in 1..(Len(env) - 1) : i \in AskpassAt(env)
  /\ NoNeighbours(env) => \A i \in 1..l : i < a => arr[i] \notin Askpass

\* The loop begins with the environment itself.
LEMMA LoopBegins ==
  ASSUME NEW env \in Seq(STRING)
  PROVE  LoopAt(env, env, Len(env), 1)
<1> DEFINE n == Len(env)
           from == [i \in 1..n |-> i]
<1>1. n \in Nat /\ DOMAIN env = 1..n
  OBVIOUS
<1> HIDE DEF n
<1>2. ComesFrom(env, env, n, 1, from)
  BY <1>1 DEF ComesFrom, n
<1>3. Shifted(env, env, n, 1)
  BY <1>1 DEF Shifted, n
<1>4. QED
  BY <1>1, <1>2, <1>3 DEF LoopAt, n

\* A variable that does not match stays.
LEMMA LoopKeeps ==
  ASSUME NEW env \in Seq(STRING), NEW arr, NEW l, NEW a,
         LoopAt(env, arr, l, a), a <= Len(env), arr[a] \notin Askpass
  PROVE  LoopAt(env, arr, l, a + 1)
<1> DEFINE n == Len(env)
<1>1. n \in Nat /\ DOMAIN env = 1..n /\ l \in 0..n /\ a \in 1..n
  BY DEF LoopAt
<1> HIDE DEF n
<1>2. PICK from : ComesFrom(env, arr, l, a, from)
  BY DEF LoopAt
<1>3. ComesFrom(env, arr, l, a + 1, from)
  BY <1>1, <1>2 DEF ComesFrom
<1>4. Shifted(env, arr, l, a + 1)
  <2>1. Shifted(env, arr, l, a)
    BY DEF LoopAt
  <2>2. \A i \in (a + 1)..Len(env) : i \in a..Len(env)
    BY <1>1 DEF n
  <2>3. QED
    BY <2>1, <2>2 DEF Shifted
<1>5. NoNeighbours(env) => \A i \in 1..l : i < a + 1 => arr[i] \notin Askpass
  <2>1. \A i \in 1..l : i < a + 1 => i < a \/ i = a
    BY <1>1
  <2>2. QED
    BY <2>1 DEF LoopAt
<1>6. l < n /\ a + 1 <= n => \E i \in 1..(n - 1) : i \in AskpassAt(env)
  BY <1>1 DEF LoopAt, n
<1>7. QED
  BY <1>1, <1>3, <1>4, <1>5, <1>6 DEF LoopAt, n

\* A deletion moves the rest down, and range goes on to the element after the next one.
LEMMA LoopDrops ==
  ASSUME NEW env \in Seq(STRING), NEW arr, NEW l, NEW a,
         LoopAt(env, arr, l, a), a <= l, arr[a] \in Askpass
  PROVE  LoopAt(env, [i \in DOMAIN arr |-> IF a <= i /\ i < l THEN arr[i + 1] ELSE arr[i]],
                l - 1, a + 1)
<1> DEFINE n == Len(env)
           new == [i \in DOMAIN arr |-> IF a <= i /\ i < l THEN arr[i + 1] ELSE arr[i]]
           k == a + (n - l)
<1>1. /\ n \in Nat /\ DOMAIN env = 1..n /\ l \in 1..n /\ a \in 1..l
      /\ arr \in Seq(STRING) /\ DOMAIN arr = 1..n
  BY DEF LoopAt
<1>2. Shifted(env, arr, l, a)
  BY DEF LoopAt
<1> HIDE DEF n, new
<1>3. /\ DOMAIN new = 1..n
      /\ \A i \in 1..n : new[i] = IF a <= i /\ i < l THEN arr[i + 1] ELSE arr[i]
  BY <1>1 DEF new
<1>4. new \in Seq(STRING) /\ Len(new) = n
  <2>1. \A i \in 1..n : new[i] \in STRING
    <3>1. \A i \in 1..n : arr[i] \in STRING
      BY <1>1
    <3>2. \A i \in 1..n : i < l => i + 1 \in 1..n
      BY <1>1
    <3>3. QED
      BY <1>3, <3>1, <3>2
  <2>2. new = [i \in 1..n |-> new[i]]
    BY <1>1 DEF new
  <2>3. new \in [1..n -> STRING]
    BY <2>1, <2>2
  <2>4. QED
    BY <1>1, <2>3
<1>5. k \in 1..n /\ env[k] \in Askpass /\ k \in AskpassAt(env)
  BY <1>1, <1>2 DEF Shifted, AskpassAt, n
<1>6. Shifted(env, new, l - 1, a + 1)
  <2> SUFFICES ASSUME NEW i \in (a + 1)..n
               PROVE  new[i] = IF i <= l - 1 THEN env[i + (n - (l - 1))] ELSE env[n]
    BY DEF Shifted, n
  <2>1. i \in 1..n /\ a <= i
    BY <1>1
  <2>2. CASE i < l
    <3>1. i + 1 \in a..n /\ i + 1 <= l /\ (i + 1) + (n - l) = i + (n - (l - 1))
      BY <1>1, <2>1, <2>2
    <3>2. arr[i + 1] = env[(i + 1) + (n - l)]
      BY <1>2, <3>1 DEF Shifted, n
    <3>3. QED
      BY <1>1, <1>3, <2>1, <2>2, <3>1, <3>2
  <2>3. CASE i >= l
    <3>1. new[i] = arr[i] /\ i \in a..n
      BY <1>1, <1>3, <2>1, <2>3
    <3>2. arr[i] = IF i <= l THEN env[i + (n - l)] ELSE env[n]
      BY <1>2, <3>1 DEF Shifted, n
    <3>3. i <= l => i + (n - l) = n
      BY <1>1, <2>1, <2>3
    <3>4. QED
      BY <1>1, <2>1, <2>3, <3>1, <3>2, <3>3
  <2>4. QED
    BY <1>1, <2>1, <2>2, <2>3
<1>7. \E from : ComesFrom(env, new, l - 1, a + 1, from)
  <2>1. PICK from : ComesFrom(env, arr, l, a, from)
    BY DEF LoopAt
  <2> DEFINE next == [i \in 1..(l - 1) |-> IF i < a THEN from[i] ELSE from[i + 1]]
  <2>2. /\ from \in [1..l -> 1..n]
        /\ \A i, j \in 1..l : i < j => from[i] < from[j]
        /\ \A i \in 1..l : arr[i] = env[from[i]]
        /\ \A i \in 1..l : i >= a => from[i] = i + (n - l)
        /\ \A x \in 1..n : x \in AskpassAt(env) \/ \E i \in 1..l : from[i] = x
    BY <1>1, <2>1 DEF ComesFrom, n
  <2>3. /\ next \in [1..(l - 1) -> 1..n]
        /\ \A i \in 1..(l - 1) : next[i] = IF i < a THEN from[i] ELSE from[i + 1]
        /\ \A i \in 1..(l - 1) : i \in 1..l /\ i + 1 \in 1..l
    BY <1>1, <2>2
  <2> HIDE DEF next
  <2>4. \A i, j \in 1..(l - 1) : i < j => next[i] < next[j]
    <3> SUFFICES ASSUME NEW i \in 1..(l - 1), NEW j \in 1..(l - 1), i < j
                 PROVE  next[i] < next[j]
      OBVIOUS
    <3>1. from[i] < from[j] /\ from[i] < from[j + 1] /\ from[i + 1] < from[j + 1]
      BY <1>1, <2>2, <2>3
    <3>2. j < a => i < a
      BY <1>1
    <3>3. QED
      BY <2>3, <3>1, <3>2
  <2>5. \A i \in 1..(l - 1) : new[i] = env[next[i]]
    <3> SUFFICES ASSUME NEW i \in 1..(l - 1) PROVE new[i] = env[next[i]]
      OBVIOUS
    <3>1. i \in 1..n /\ i < l /\ (a <= i \/ i < a)
      BY <1>1
    <3>2. new[i] = IF a <= i THEN arr[i + 1] ELSE arr[i]
      BY <1>3, <3>1
    <3>3. arr[i] = env[from[i]] /\ arr[i + 1] = env[from[i + 1]]
      BY <2>2, <2>3
    <3>4. a <= i => ~(i < a)
      BY <1>1
    <3>5. QED
      BY <2>3, <3>1, <3>2, <3>3, <3>4
  <2>6. \A i \in 1..(l - 1) : i >= a + 1 => next[i] = i + (n - (l - 1))
    BY <1>1, <2>2, <2>3
  <2>7. ASSUME NEW x \in 1..n
        PROVE  x \in AskpassAt(env) \/ \E i \in 1..(l - 1) : next[i] = x
    <3>1. CASE x = k
      BY <1>5, <3>1
    <3>2. ASSUME NEW i \in 1..l, from[i] = x, x # k PROVE \E j \in 1..(l - 1) : next[j] = x
      <4>1. i # a
        BY <1>1, <2>2, <3>2
      <4>2. CASE i < a
        BY <1>1, <2>3, <3>2, <4>2
      <4>3. CASE i > a
        <5>1. i - 1 \in 1..(l - 1) /\ ~(i - 1 < a) /\ (i - 1) + 1 = i
          BY <1>1, <4>3
        <5>2. next[i - 1] = x
          BY <2>3, <3>2, <5>1
        <5>3. QED
          BY <5>1, <5>2
      <4>4. QED
        BY <1>1, <4>1, <4>2, <4>3
    <3>3. QED
      BY <2>2, <3>1, <3>2
  <2>8. ComesFrom(env, new, l - 1, a + 1, next)
    BY <1>1, <2>3, <2>4, <2>5, <2>6, <2>7 DEF ComesFrom, n
  <2>9. QED
    BY <2>8
<1>8. a + 1 <= n => \E i \in 1..(n - 1) : i \in AskpassAt(env)
  <2>1. CASE k < n
    BY <1>1, <1>5, <2>1
  <2>2. CASE k = n /\ a + 1 <= n
    BY <1>1, <2>2 DEF LoopAt, n
  <2>3. QED
    BY <1>1, <1>5, <2>1, <2>2
<1>9. NoNeighbours(env) => \A i \in 1..(l - 1) : i < a + 1 => new[i] \notin Askpass
  <2> SUFFICES ASSUME NoNeighbours(env), NEW i \in 1..(l - 1), i < a + 1
               PROVE  new[i] \notin Askpass
    OBVIOUS
  <2>1. CASE i < a
    <3>1. arr[i] \notin Askpass
      BY <1>1, <2>1 DEF LoopAt
    <3>2. QED
      BY <1>1, <1>3, <2>1, <3>1
  <2>2. CASE i = a
    <3>1. k + 1 \in 1..n /\ a + 1 \in a..n /\ a + 1 <= l /\ (a + 1) + (n - l) = k + 1
      BY <1>1, <2>2
    <3>5. k + 1 \notin AskpassAt(env)
      BY <1>5 DEF NoNeighbours
    <3>2. arr[a + 1] = env[(a + 1) + (n - l)]
      BY <1>2, <3>1 DEF Shifted, n
    <3>3. new[i] = env[k + 1]
      BY <1>1, <1>3, <2>2, <3>2
    <3>4. QED
      BY <1>1, <3>1, <3>3, <3>5 DEF AskpassAt
  <2>3. QED
    BY <1>1, <2>1, <2>2
<1>10. l - 1 \in 0..n /\ a + 1 \in 1..(n + 1)
  BY <1>1
<1>11. LoopAt(env, new, l - 1, a + 1)
  BY <1>4, <1>6, <1>7, <1>8, <1>9, <1>10 DEF LoopAt, n
<1>12. QED
  BY <1>11 DEF new

-----------------------------------------------------------------------------
(* The hash of a command.                                                  *)

\* The ways to arrange args
Arrangements(args) ==
  {[i \in DOMAIN args |-> args[p[i]]] :
     p \in {q \in [DOMAIN args -> DOMAIN args] :
              \A i, j \in DOMAIN args : q[i] = q[j] => i = j}}

\* No argument goes before one further left.
InOrder(D, s) == \A i, j \in D : i < j => ~Before(s[j], s[i])

ThatInOrder(D, A) == CHOOSE s \in A : InOrder(D, s)

\* sort.Strings, with its two parts named
LEMMA SortedIs ==
  ASSUME NEW args
  PROVE  Sorted(args) = ThatInOrder(DOMAIN args, Arrangements(args))
BY DEF Sorted, ThatInOrder, InOrder, Arrangements

\* Where x is in s
Places(s, x) == {i \in DOMAIN s : s[i] = x}

\* Permuted sequences: each element is at as many places of the one as of the other, so
\* that the places can be matched.
LEMMA PlacesMatched ==
  ASSUME NEW a \in Seq(Seq(Nat)), NEW b \in Seq(Seq(Nat)), Permuted(a, b)
  PROVE  \E p \in [DOMAIN a -> DOMAIN b] :
           /\ \A i, j \in DOMAIN a : p[i] = p[j] => i = j
           /\ \A i \in DOMAIN a : b[p[i]] = a[i]
<1> DEFINE h(x) == CHOOSE f : f \in Bijection(Places(a, x), Places(b, x))
           p == [i \in DOMAIN a |-> h(a[i])[i]]
<1>1. ASSUME NEW i \in DOMAIN a
      PROVE  h(a[i]) \in Bijection(Places(a, a[i]), Places(b, a[i]))
  <2>1. IsFiniteSet(DOMAIN a) /\ IsFiniteSet(DOMAIN b)
    <3>1. DOMAIN a = 1..Len(a) /\ DOMAIN b = 1..Len(b) /\ Len(a) \in Nat /\ Len(b) \in Nat
      OBVIOUS
    <3>2. QED
      BY <3>1, FS_Interval
  <2>2. IsFiniteSet(Places(a, a[i])) /\ IsFiniteSet(Places(b, a[i]))
    <3>1. Places(a, a[i]) \subseteq DOMAIN a /\ Places(b, a[i]) \subseteq DOMAIN b
      BY DEF Places
    <3>2. QED
      BY <2>1, <3>1, FS_Subset
  <2>3. Cardinality(Places(a, a[i])) = Cardinality(Places(b, a[i]))
    BY DEF Permuted, Places
  <2>4. ExistsBijection(Places(a, a[i]), Places(b, a[i]))
    BY <2>2, <2>3, FS_SameCardinalityBij
  <2>5. QED
    BY <2>4 DEF ExistsBijection
<1> HIDE DEF h
<1>2. \A i \in DOMAIN a : p[i] \in DOMAIN b /\ b[p[i]] = a[i]
  <2> SUFFICES ASSUME NEW i \in DOMAIN a PROVE p[i] \in DOMAIN b /\ b[p[i]] = a[i]
    OBVIOUS
  <2>1. h(a[i]) \in [Places(a, a[i]) -> Places(b, a[i])]
    BY <1>1 DEF Bijection, Injection
  <2>2. i \in Places(a, a[i])
    BY DEF Places
  <2>3. h(a[i])[i] \in Places(b, a[i])
    BY <2>1, <2>2
  <2>4. QED
    BY <2>3 DEF Places
<1>3. \A i, j \in DOMAIN a : p[i] = p[j] => i = j
  <2> SUFFICES ASSUME NEW i \in DOMAIN a, NEW j \in DOMAIN a, p[i] = p[j] PROVE i = j
    OBVIOUS
  <2>1. a[i] = a[j]
    BY <1>2
  <2>2. h(a[i])[i] = h(a[i])[j]
    BY <2>1
  <2>3. i \in Places(a, a[i]) /\ j \in Places(a, a[i])
    BY <2>1 DEF Places
  <2>4. QED
    BY <1>1, <2>2, <2>3 DEF Bijection, Injection, IsInjective
<1>4. p \in [DOMAIN a -> DOMAIN b]
  BY <1>2
<1> HIDE DEF p
<1>5. QED
  BY <1>2, <1>3, <1>4

\* What one sequence can be arranged to, a permuted one can be arranged to as well.
LEMMA ArrangementsIncluded ==
  ASSUME NEW a \in Seq(Seq(Nat)), NEW b \in Seq(Seq(Nat)), Permuted(a, b)
  PROVE  Arrangements(a) \subseteq Arrangements(b)
<1> DEFINE Selfs == {q \in [DOMAIN a -> DOMAIN a] :
                       \A i, j \in DOMAIN a : q[i] = q[j] => i = j}
<1>1. DOMAIN a = DOMAIN b
  BY DEF Permuted
<1>2. PICK p \in [DOMAIN a -> DOMAIN b] :
           /\ \A i, j \in DOMAIN a : p[i] = p[j] => i = j
           /\ \A i \in DOMAIN a : b[p[i]] = a[i]
  BY PlacesMatched
<1>3. ASSUME NEW q \in Selfs
      PROVE  [i \in DOMAIN a |-> a[q[i]]] \in Arrangements(b)
  <2> DEFINE pq == [i \in DOMAIN b |-> p[q[i]]]
  <2>1. pq \in {g \in [DOMAIN b -> DOMAIN b] :
                  \A i, j \in DOMAIN b : g[i] = g[j] => i = j}
    BY <1>1, <1>2
  <2>2. [i \in DOMAIN b |-> b[pq[i]]] \in Arrangements(b)
    <3> HIDE DEF pq
    <3>1. QED
      BY <2>1 DEF Arrangements
  <2>3. [i \in DOMAIN a |-> a[q[i]]] = [i \in DOMAIN b |-> b[pq[i]]]
    BY <1>1, <1>2
  <2>4. QED
    BY <2>2, <2>3
<1>4. QED
  BY <1>3 DEF Arrangements

\* Being permuted is symmetric ...
LEMMA PermutedSymmetric ==
  ASSUME NEW a, NEW b, Permuted(a, b)
  PROVE  Permuted(b, a)
BY DEF Permuted

\* Permuted arguments sort to the same.
LEMMA PermutedSame ==
  ASSUME NEW a \in Seq(Seq(Nat)), NEW b \in Seq(Seq(Nat)), Permuted(a, b)
  PROVE  Sorted(a) = Sorted(b)
<1>1. Arrangements(a) = Arrangements(b)
  BY ArrangementsIncluded, PermutedSymmetric
<1>2. DOMAIN a = DOMAIN b
  BY DEF Permuted
<1>3. QED
  BY <1>1, <1>2, SortedIs

-----------------------------------------------------------------------------
\* Sequences of one word are in the order of their words.
LEMMA BeforeWords ==
  ASSUME NEW a \in Seq(Nat), NEW b \in Seq(Nat), Len(a) = 1, Len(b) = 1
  PROVE  Before(a, b) <=> a[1] < b[1]
BY DEF Before

\* The word of an argument that has one
Word(s, i) == s[i][1]

\* The arguments up to the i-th, in the order of their words and then of their places
Rank(s, i) ==
  {j \in DOMAIN s : Word(s, j) < Word(s, i) \/ (Word(s, j) = Word(s, i) /\ j <= i)}

\* The size of an interval
LEMMA Interval ==
  ASSUME NEW n \in Nat
  PROVE  IsFiniteSet(1..n) /\ Cardinality(1..n) = n
<1>1. IsFiniteSet(1..n) /\ Cardinality(1..n) = IF 1 > n THEN 0 ELSE n - 1 + 1
  BY FS_Interval
<1>2. QED
  BY <1>1

\* A sequence of arguments has its places, and a word at each of them.
LEMMA WordTypes ==
  ASSUME NEW s \in Seq(Seq(Nat)), OneWord(s)
  PROVE  /\ Len(s) \in Nat /\ DOMAIN s = 1..Len(s)
         /\ IsFiniteSet(DOMAIN s) /\ Cardinality(DOMAIN s) = Len(s)
         /\ \A i \in DOMAIN s : i \in Nat /\ Word(s, i) \in Nat
<1>1. Len(s) \in Nat /\ DOMAIN s = 1..Len(s)
  OBVIOUS
<1>2. \A i \in DOMAIN s : i \in Nat /\ s[i] \in Seq(Nat) /\ Len(s[i]) = 1
  BY DEF OneWord
<1>3. \A i \in DOMAIN s : Word(s, i) \in Nat
  BY <1>2 DEF Word
<1>4. QED
  BY <1>1, <1>2, <1>3, Interval

\* A rank is a place of the sequence, and grows with the word and the place.
LEMMA RankOrders ==
  ASSUME NEW s \in Seq(Seq(Nat)), OneWord(s), NEW i \in DOMAIN s, NEW j \in DOMAIN s
  PROVE  /\ Cardinality(Rank(s, i)) \in 1..Len(s)
         /\ Word(s, i) < Word(s, j) \/ (Word(s, i) = Word(s, j) /\ i < j)
              => Cardinality(Rank(s, i)) < Cardinality(Rank(s, j))
<1>1. /\ Len(s) \in Nat /\ DOMAIN s = 1..Len(s)
      /\ IsFiniteSet(DOMAIN s) /\ Cardinality(DOMAIN s) = Len(s)
      /\ \A k \in DOMAIN s : k \in Nat /\ Word(s, k) \in Nat
  BY WordTypes
<1>2. \A k \in DOMAIN s :
        /\ IsFiniteSet(Rank(s, k)) /\ Rank(s, k) \subseteq DOMAIN s /\ k \in Rank(s, k)
        /\ Cardinality(Rank(s, k)) \in 1..Len(s)
  <2> SUFFICES ASSUME NEW k \in DOMAIN s
               PROVE  /\ IsFiniteSet(Rank(s, k)) /\ Rank(s, k) \subseteq DOMAIN s
                      /\ k \in Rank(s, k) /\ Cardinality(Rank(s, k)) \in 1..Len(s)
    OBVIOUS
  <2>1. k \in Rank(s, k) /\ Rank(s, k) \subseteq DOMAIN s
    BY <1>1 DEF Rank
  <2>2. /\ IsFiniteSet(Rank(s, k)) /\ Cardinality(Rank(s, k)) <= Len(s)
        /\ Cardinality(Rank(s, k)) \in Nat
    BY <1>1, <2>1, FS_Subset, FS_CardinalityType
  <2>3. Cardinality(Rank(s, k)) # 0
    BY <2>1, <2>2, FS_EmptySet
  <2>4. QED
    BY <1>1, <2>1, <2>2, <2>3
<1>3. ASSUME Word(s, i) < Word(s, j) \/ (Word(s, i) = Word(s, j) /\ i < j)
      PROVE  Cardinality(Rank(s, i)) < Cardinality(Rank(s, j))
  <2>1. i \in Nat /\ j \in Nat /\ Word(s, i) \in Nat /\ Word(s, j) \in Nat
    BY <1>1
  <2>2. j \notin Rank(s, i)
    BY <1>3, <2>1 DEF Rank
  <2>3. ASSUME NEW k \in Rank(s, i)
        PROVE  k \in Rank(s, j)
    <3>1. k \in DOMAIN s /\ (Word(s, k) < Word(s, i) \/ (Word(s, k) = Word(s, i) /\ k <= i))
      BY DEF Rank
    <3>2. k \in Nat /\ Word(s, k) \in Nat
      BY <1>1, <3>1
    <3>3. Word(s, k) < Word(s, j) \/ (Word(s, k) = Word(s, j) /\ k <= j)
      BY <1>3, <2>1, <3>1, <3>2
    <3>4. QED
      BY <3>1, <3>3 DEF Rank
  <2>4. Rank(s, i) \subseteq Rank(s, j) /\ Rank(s, i) # Rank(s, j)
    BY <1>2, <2>2, <2>3
  <2>5. /\ Cardinality(Rank(s, i)) <= Cardinality(Rank(s, j))
        /\ Cardinality(Rank(s, i)) # Cardinality(Rank(s, j))
    BY <1>2, <2>4, FS_Subset
  <2>6. QED
    BY <1>1, <1>2, <2>5
<1>4. QED
  BY <1>2, <1>3

\* There is an order for arguments of one word.
LEMMA OrderExists ==
  ASSUME NEW s \in Seq(Seq(Nat)), OneWord(s)
  PROVE  \E t \in Arrangements(s) : InOrder(DOMAIN s, t)
<1> DEFINE rank == [i \in DOMAIN s |-> Cardinality(Rank(s, i))]
           place(k) == CHOOSE i \in DOMAIN s : rank[i] = k
           q == [k \in DOMAIN s |-> place(k)]
           t == [k \in DOMAIN s |-> s[q[k]]]
<1>1. /\ Len(s) \in Nat /\ DOMAIN s = 1..Len(s) /\ IsFiniteSet(DOMAIN s)
      /\ \A k \in DOMAIN s : k \in Nat /\ Word(s, k) \in Nat
  BY WordTypes
<1>2. \A k \in DOMAIN s : s[k] \in Seq(Nat) /\ Len(s[k]) = 1 /\ s[k][1] = Word(s, k)
  BY DEF OneWord, Word
<1>3. \A i, j \in DOMAIN s :
        Word(s, i) < Word(s, j) \/ (Word(s, i) = Word(s, j) /\ i < j) => rank[i] < rank[j]
  BY RankOrders
<1>4. \A i \in DOMAIN s : rank[i] \in DOMAIN s /\ rank[i] \in Nat
  <2>1. \A i \in DOMAIN s : rank[i] \in 1..Len(s)
    BY RankOrders
  <2>2. QED
    BY <1>1, <2>1
<1>5. rank \in [DOMAIN s -> DOMAIN s]
  BY <1>4
<1> HIDE DEF rank
<1>6. \A i, j \in DOMAIN s : rank[i] = rank[j] => i = j
  <2> SUFFICES ASSUME NEW i \in DOMAIN s, NEW j \in DOMAIN s, i # j PROVE rank[i] # rank[j]
    OBVIOUS
  <2>1. \/ Word(s, i) < Word(s, j) \/ (Word(s, i) = Word(s, j) /\ i < j)
        \/ Word(s, j) < Word(s, i) \/ (Word(s, j) = Word(s, i) /\ j < i)
    BY <1>1
  <2>2. rank[i] < rank[j] \/ rank[j] < rank[i]
    BY <1>3, <2>1
  <2>3. QED
    BY <1>4, <2>2
<1>7. \A k \in DOMAIN s : \E i \in DOMAIN s : rank[i] = k
  <2>1. rank \in Injection(DOMAIN s, DOMAIN s)
    BY <1>5, <1>6 DEF Injection, IsInjective
  <2>2. rank \in Surjection(DOMAIN s, DOMAIN s)
    BY <1>1, <2>1, FS_Injection
  <2>3. QED
    BY <2>2 DEF Surjection
<1>8. \A k \in DOMAIN s : q[k] \in DOMAIN s /\ rank[q[k]] = k
  BY <1>7
<1>9. q \in {g \in [DOMAIN s -> DOMAIN s] : \A i, j \in DOMAIN s : g[i] = g[j] => i = j}
  BY <1>8
<1> HIDE DEF q
<1>10. t \in Arrangements(s)
  BY <1>9 DEF Arrangements
<1>11. InOrder(DOMAIN s, t)
  <2> SUFFICES ASSUME NEW k \in DOMAIN s, NEW l \in DOMAIN s, k < l
               PROVE  ~Before(t[l], t[k])
    BY DEF InOrder
  <2>1. ~(Word(s, q[l]) < Word(s, q[k]))
    <3>1. ~(rank[q[l]] < rank[q[k]])
      BY <1>1, <1>8
    <3>2. QED
      BY <1>3, <1>8, <3>1
  <2>2. Before(s[q[l]], s[q[k]]) <=> Word(s, q[l]) < Word(s, q[k])
    BY <1>2, <1>8, BeforeWords
  <2>3. QED
    BY <2>1, <2>2
<1>12. QED
  BY <1>10, <1>11

\* sort.Strings arranges arguments of one word.
LEMMA SortedArranges ==
  ASSUME NEW s \in Seq(Seq(Nat)), OneWord(s)
  PROVE  Sorted(s) \in Arrangements(s)
BY OrderExists, SortedIs DEF ThatInOrder

\* An arrangement is a permutation.
LEMMA ArrangedPermuted ==
  ASSUME NEW s \in Seq(Seq(Nat)), NEW t \in Arrangements(s)
  PROVE  t \in Seq(Seq(Nat)) /\ Permuted(s, t) /\ (OneWord(s) => OneWord(t))
<1>1. PICK p \in [DOMAIN s -> DOMAIN s] :
        /\ \A i, j \in DOMAIN s : p[i] = p[j] => i = j
        /\ t = [i \in DOMAIN s |-> s[p[i]]]
  BY DEF Arrangements
<1>2. Len(s) \in Nat /\ DOMAIN s = 1..Len(s) /\ IsFiniteSet(DOMAIN s)
  <2>1. Len(s) \in Nat /\ DOMAIN s = 1..Len(s)
    OBVIOUS
  <2>2. QED
    BY <2>1, FS_Interval
<1>3. t \in Seq(Seq(Nat)) /\ Len(t) = Len(s) /\ DOMAIN t = DOMAIN s
  BY <1>1, <1>2
<1>4. \A i \in DOMAIN s : \E j \in DOMAIN s : p[j] = i
  <2>1. p \in Injection(DOMAIN s, DOMAIN s)
    BY <1>1 DEF Injection, IsInjective
  <2>2. p \in Surjection(DOMAIN s, DOMAIN s)
    BY <1>2, <2>1, FS_Injection
  <2>3. QED
    BY <2>2 DEF Surjection
<1>5. ASSUME NEW x
      PROVE  Cardinality(Places(s, x)) = Cardinality(Places(t, x))
  <2> DEFINE f == [i \in Places(t, x) |-> p[i]]
  <2>1. f \in [Places(t, x) -> Places(s, x)]
    BY <1>1, <1>3 DEF Places
  <2>2. \A i, j \in Places(t, x) : f[i] = f[j] => i = j
    BY <1>1, <1>3 DEF Places
  <2>3. \A i \in Places(s, x) : \E j \in Places(t, x) : f[j] = i
    BY <1>1, <1>3, <1>4 DEF Places
  <2> HIDE DEF f
  <2>4. f \in Bijection(Places(t, x), Places(s, x))
    BY <2>1, <2>2, <2>3 DEF Bijection, Injection, Surjection, IsInjective
  <2>5. IsFiniteSet(Places(t, x))
    <3>1. Places(t, x) \subseteq DOMAIN s
      BY <1>3 DEF Places
    <3>2. QED
      BY <1>2, <3>1, FS_Subset
  <2>6. QED
    BY <2>4, <2>5, FS_Bijection DEF ExistsBijection
<1>6. Permuted(s, t)
  BY <1>3, <1>5 DEF Permuted, Places
<1>7. OneWord(s) => OneWord(t)
  BY <1>1, <1>3 DEF OneWord
<1>8. QED
  BY <1>3, <1>6, <1>7

-----------------------------------------------------------------------------
\* The words of a sequence of arguments of one word each, joined
Joined(s) ==
  CHOOSE f : f = [i \in 1..Len(s) |-> IF i = 1 THEN s[i] ELSE f[i - 1] \o s[i]]

\* FlattenSeq is defined by this function.
LEMMA FlattenIs ==
  ASSUME NEW s
  PROVE  FlattenSeq(s) = IF Len(s) = 0 THEN s ELSE Joined(s)[Len(s)]
BY DEF FlattenSeq, Joined

\* The words of the first n arguments
FirstWords(s, n) == [j \in 1..n |-> s[j][1]]

\* The first n arguments of one word, joined, are the first n words: the least n where the
\* function is something else would contradict its definition.
LEMMA JoinedWords ==
  ASSUME NEW s \in Seq(Seq(Nat)), OneWord(s), NEW n \in 1..Len(s)
  PROVE  Joined(s)[n] = FirstWords(s, n)
<1> DEFINE Rec(f) == [i \in 1..Len(s) |-> IF i = 1 THEN s[i] ELSE f[i - 1] \o s[i]]
           g == [i \in 1..Len(s) |-> FirstWords(s, i)]
<1>1. Len(s) \in Nat /\ DOMAIN s = 1..Len(s)
  OBVIOUS
<1>2. \A i \in 1..Len(s) : s[i] \in Seq(Nat) /\ Len(s[i]) = 1 /\ s[i][1] \in Nat
  BY DEF OneWord
<1>3. ASSUME NEW i \in 1..Len(s)
      PROVE  FirstWords(s, i) \in Seq(Nat) /\ Len(FirstWords(s, i)) = i
  BY <1>1, <1>2 DEF FirstWords
<1>4. s[1] = FirstWords(s, 1)
  <2>1. 1 \in 1..Len(s)
    BY <1>1
  <2>2. s[1] = [j \in 1..1 |-> s[1][j]]
    BY <1>2, <2>1
  <2>3. QED
    BY <2>2 DEF FirstWords
<1>5. ASSUME NEW i \in 2..Len(s)
      PROVE  FirstWords(s, i - 1) \o s[i] = FirstWords(s, i)
  <2>1. i - 1 \in 1..Len(s) /\ i \in 1..Len(s) /\ i \in Nat
    BY <1>1
  <2> DEFINE u == FirstWords(s, i - 1)
  <2>2. u \in Seq(Nat) /\ Len(u) = i - 1
    BY <1>3, <2>1
  <2>3. \A j \in 1..(i - 1) : u[j] = s[j][1]
    BY DEF FirstWords
  <2> HIDE DEF u
  <2>4. s[i] \in Seq(Nat) /\ Len(s[i]) = 1
    BY <1>2, <2>1
  <2> DEFINE v == s[i]
  <2>5. v \in Seq(Nat) /\ Len(v) = 1 /\ v[1] = s[i][1]
    BY <2>4
  <2> HIDE DEF v
  <2>6. /\ u \o v \in Seq(Nat) /\ Len(u \o v) = i
        /\ \A j \in 1..i : (u \o v)[j] = IF j <= i - 1 THEN u[j] ELSE v[j - (i - 1)]
    <3>1. /\ u \o v \in Seq(Nat) /\ Len(u \o v) = Len(u) + Len(v)
          /\ \A j \in 1..(Len(u) + Len(v)) :
               (u \o v)[j] = IF j <= Len(u) THEN u[j] ELSE v[j - Len(u)]
      BY <2>2, <2>5, ConcatProperties
    <3>2. Len(u) + Len(v) = i
      BY <2>1, <2>2, <2>5
    <3>3. QED
      BY <2>2, <3>1, <3>2
  <2>7. ASSUME NEW j \in 1..i
        PROVE  (u \o v)[j] = s[j][1]
    <3>1. CASE j <= i - 1
      BY <2>1, <2>3, <2>6, <3>1
    <3>2. CASE ~(j <= i - 1)
      <4>1. j = i /\ j - (i - 1) = 1
        BY <2>1, <3>2
      <4>2. QED
        BY <2>6, <2>5, <3>2, <4>1
    <3>3. QED
      BY <3>1, <3>2
  <2>8. u \o v = [j \in 1..i |-> s[j][1]]
    <3>1. u \o v \in [1..i -> Nat]
      BY <2>6, LenProperties
    <3>2. QED
      BY <2>7, <3>1
  <2>9. QED
    BY <2>8 DEF FirstWords, u, v
<1>6. g = Rec(g)
  <2>1. ASSUME NEW i \in 1..Len(s)
        PROVE  FirstWords(s, i) = IF i = 1 THEN s[i] ELSE g[i - 1] \o s[i]
    <3>1. CASE i = 1
      BY <1>4, <3>1
    <3>2. CASE i # 1
      <4>1. i \in 2..Len(s) /\ i - 1 \in 1..Len(s)
        BY <1>1, <3>2
      <4>2. g[i - 1] = FirstWords(s, i - 1)
        BY <4>1
      <4>3. QED
        BY <1>5, <3>2, <4>1, <4>2
    <3>3. QED
      BY <3>1, <3>2
  <2>2. QED
    BY <2>1
<1>7. Joined(s) = Rec(Joined(s))
  BY <1>6 DEF Joined
<1> DEFINE f == Joined(s)
           Bad == {i \in 1..Len(s) : f[i] # g[i]}
<1> HIDE DEF f
<1>8. \A i \in 1..Len(s) : f[i] = IF i = 1 THEN s[i] ELSE f[i - 1] \o s[i]
  BY <1>7 DEF f
<1>9. Bad = {}
  <2> SUFFICES ASSUME Bad # {} PROVE FALSE
    OBVIOUS
  <2>1. Bad \subseteq Nat
    BY <1>1
  <2>2. Bad # {}
    OBVIOUS
  <2> HIDE DEF Bad
  <2>3. PICK m \in Bad : \A k \in Bad : m <= k
    BY <2>1, <2>2, Least
  <2> USE DEF Bad
  <2>4. CASE m = 1
    BY <1>4, <1>8, <2>3, <2>4
  <2>5. CASE m # 1
    <3>1. m \in 2..Len(s) /\ m - 1 \in 1..Len(s) /\ m - 1 \notin Bad
      BY <1>1, <2>3, <2>5
    <3>2. f[m - 1] = FirstWords(s, m - 1)
      BY <3>1
    <3>3. f[m] = FirstWords(s, m)
      <4>1. f[m] = f[m - 1] \o s[m]
        BY <1>8, <2>3, <2>5
      <4>2. QED
        BY <1>5, <3>1, <3>2, <4>1
    <3>4. QED
      BY <2>3, <3>1, <3>3
  <2>6. QED
    BY <2>4, <2>5
<1>10. QED
  BY <1>9 DEF f

\* Joined, arguments of one word are as many words.
LEMMA FlattenTyped ==
  ASSUME NEW u \in Seq(Seq(Nat)), OneWord(u)
  PROVE  /\ FlattenSeq(u) \in Seq(Nat) /\ Len(FlattenSeq(u)) = Len(u)
         /\ \A i \in 1..Len(u) : u[i] = <<FlattenSeq(u)[i]>>
<1>1. Len(u) \in Nat /\ DOMAIN u = 1..Len(u)
  OBVIOUS
<1>2. ASSUME NEW i \in 1..Len(u)
      PROVE  u[i][1] \in Nat /\ u[i] = <<u[i][1]>>
  <2>1. u[i] \in Seq(Nat) /\ Len(u[i]) = 1
    BY DEF OneWord
  <2>2. QED
    BY <2>1
<1>3. CASE Len(u) = 0
  <2>1. FlattenSeq(u) = u /\ u = <<>>
    BY <1>3, FlattenIs
  <2>2. QED
    BY <1>3, <2>1
<1>4. CASE Len(u) # 0
  <2>1. FlattenSeq(u) = FirstWords(u, Len(u))
    <3>1. Len(u) \in 1..Len(u)
      BY <1>1, <1>4
    <3>2. Joined(u)[Len(u)] = FirstWords(u, Len(u))
      BY <3>1, JoinedWords
    <3>3. QED
      BY <1>4, <3>2, FlattenIs
  <2>2. QED
    BY <1>1, <1>2, <2>1 DEF FirstWords
<1>5. QED
  BY <1>3, <1>4

\* Arguments of one word that are joined to the same are the same.
LEMMA FlattenInjective ==
  ASSUME NEW s \in Seq(Seq(Nat)), NEW t \in Seq(Seq(Nat)), OneWord(s), OneWord(t),
         FlattenSeq(s) = FlattenSeq(t)
  PROVE  s = t
<1>1. Len(s) = Len(t) /\ Len(s) \in Nat
  BY FlattenTyped
<1>2. \A i \in 1..Len(s) : s[i] = t[i]
  BY <1>1, FlattenTyped
<1>3. QED
  BY <1>1, <1>2, SeqEqual

\* Names with as many words before two joined strings can be taken off.
LEMMA PrefixesEqual ==
  ASSUME NEW a \in Seq(Nat), NEW b \in Seq(Nat), NEW s \in Seq(Nat), NEW t \in Seq(Nat),
         Len(a) = Len(b), a \o s = b \o t
  PROVE  a = b /\ s = t
<1>1. /\ Len(a \o s) = Len(a) + Len(s) /\ Len(b \o t) = Len(b) + Len(t)
      /\ \A i \in 1..(Len(a) + Len(s)) : (a \o s)[i] = IF i <= Len(a) THEN a[i] ELSE s[i - Len(a)]
      /\ \A i \in 1..(Len(b) + Len(t)) : (b \o t)[i] = IF i <= Len(b) THEN b[i] ELSE t[i - Len(b)]
  BY ConcatProperties
<1>2. Len(a) \in Nat /\ Len(s) \in Nat /\ Len(b) \in Nat /\ Len(t) \in Nat
  BY LenProperties
<1>3. Len(s) = Len(t)
  BY <1>1, <1>2
<1>4. \A i \in 1..Len(a) : a[i] = b[i]
  <2> SUFFICES ASSUME NEW i \in 1..Len(a) PROVE a[i] = b[i]
    OBVIOUS
  <2>1. i \in 1..(Len(a) + Len(s)) /\ i <= Len(a)
    BY <1>2
  <2>2. (a \o s)[i] = a[i] /\ (b \o t)[i] = b[i]
    BY <1>1, <1>3, <2>1
  <2>3. QED
    BY <2>2
<1>5. \A i \in 1..Len(s) : s[i] = t[i]
  <2> SUFFICES ASSUME NEW i \in 1..Len(s) PROVE s[i] = t[i]
    OBVIOUS
  <2> DEFINE k == i + Len(a)
  <2>1. k \in 1..(Len(a) + Len(s)) /\ ~(k <= Len(a)) /\ k - Len(a) = i
    BY <1>2
  <2> HIDE DEF k
  <2>2. (a \o s)[k] = s[i] /\ (b \o t)[k] = t[i]
    BY <1>1, <1>3, <2>1
  <2>3. QED
    BY <2>2
<1>6. QED
  BY <1>3, <1>4, <1>5, SeqEqual

\* ... and transitive.
LEMMA PermutedTransitive ==
  ASSUME NEW a \in Seq(Seq(Nat)), NEW b \in Seq(Seq(Nat)), NEW c \in Seq(Seq(Nat)),
         Permuted(a, b), Permuted(b, c)
  PROVE  Permuted(a, c)
<1>1. Len(a) = Len(c)
  BY DEF Permuted
<1>2. ASSUME NEW u, NEW v, Permuted(u, v), NEW x
      PROVE  Cardinality(Places(u, x)) = Cardinality(Places(v, x))
  <2>1. CASE x \in {u[i] : i \in DOMAIN u} \cup {v[i] : i \in DOMAIN v}
    BY <1>2, <2>1 DEF Permuted, Places
  <2>2. CASE x \notin {u[i] : i \in DOMAIN u} \cup {v[i] : i \in DOMAIN v}
    <3>1. Places(u, x) = {} /\ Places(v, x) = {}
      BY <2>2 DEF Places
    <3>2. QED
      BY <3>1
  <2>3. QED
    BY <2>1, <2>2
<1>3. \A x : Cardinality(Places(a, x)) = Cardinality(Places(c, x))
  BY <1>2
<1>4. QED
  BY <1>1, <1>3 DEF Permuted, Places

\* Arguments of one word each hash to the same only if they are the same, in some order.
LEMMA SamePermuted ==
  ASSUME NEW a \in Seq(Seq(Nat)), NEW b \in Seq(Seq(Nat)), OneWord(a), OneWord(b),
         FlattenSeq(Sorted(a)) = FlattenSeq(Sorted(b))
  PROVE  Permuted(a, b)
<1>1. /\ Sorted(a) \in Seq(Seq(Nat)) /\ Permuted(a, Sorted(a)) /\ OneWord(Sorted(a))
      /\ Sorted(b) \in Seq(Seq(Nat)) /\ Permuted(b, Sorted(b)) /\ OneWord(Sorted(b))
  BY SortedArranges, ArrangedPermuted
<1>2. Sorted(a) = Sorted(b)
  BY <1>1, FlattenInjective
<1>3. Permuted(a, Sorted(b)) /\ Permuted(Sorted(b), b)
  BY <1>1, <1>2, PermutedSymmetric
<1>4. QED
  BY <1>1, <1>3, PermutedTransitive

-----------------------------------------------------------------------------
(* The invariant.                                                          *)

\* The machine, and the loop over the variables of the environment: its index starts at
\* 1, and the slice never gets longer than the array.
LoopInv ==
  /\ environ \in Seq(STRING) /\ hostname \in Text \cup {None} /\ hosts \in Seq(Line)
  /\ cmdEnv \in [Request -> Seq(STRING)] /\ len \in [Request -> Nat] /\ at \in [Request -> Nat]
  /\ \A r \in Request : hpc[r] \in {"idle", "checkout"} => at[r] = 1

\* The file, when it is there, is as new as any pull has brought, and a request that has
\* made main load pulls no more.
PullInv ==
  /\ \A r \in Request : pulled[r] <= head /\ (file # Missing => pulled[r] <= file)
  /\ \A r \in cause : hpc[r] = "ok" /\ (mpc = "busy" => pulled[r] <= version)

\* What runs is what GenerateCmds has made of a version that loads, restarted or not.
RunInv ==
  /\ Loads(version)
  /\ LET g == GenerateCmds(Content[version], hostname, hosts)
     IN  /\ Len(running) = Len(g)
         /\ \A i \in DOMAIN running : running[i] = g[i] \/ running[i] = update(g[i])

\* The log files of a command are those of its first start and of its restarts.
LogInv ==
  LET g == GenerateCmds(Content[version], hostname, hosts)
  IN  /\ DOMAIN logs = DOMAIN g
      /\ \A i \in DOMAIN g :
           IF logDir
           THEN /\ LogFile(running[i]) \in logs[i]
                /\ logs[i] \subseteq {LogFile(g[i]), LogFile(update(g[i]))}
           ELSE logs[i] = {}

\* What each request that has begun to filter has done to its environment so far
FilterInv ==
  \A r \in Request : hpc[r] \in {"filter", "pull", "write", "panic"} =>
    /\ LoopAt(environ, cmdEnv[r], len[r], at[r])
    /\ hpc[r] \in {"pull", "write"} => at[r] = Len(environ) + 1
    /\ hpc[r] = "panic" => at[r] \in (len[r] + 1)..Len(environ) /\ cmdEnv[r][at[r]] \in Askpass

UpdateInv == UpdateTypeOK /\ LoopInv /\ PullInv /\ RunInv /\ LogInv

\* The arguments of a command are sequences of words.
LEMMA ArgsTyped ==
  ASSUME NEW c \in Cmd
  PROVE  /\ c.args \in Seq(Seq(Nat)) /\ c.cmd \in CmdName
         /\ Spelling[c.cmd] \in Seq(Nat)
<1>1. c.args \in Seq(String) /\ c.cmd \in CmdName
  BY DEF Cmd
<1>2. Spelling[c.cmd] \in String
  BY <1>1, ConfAssumption
<1>3. QED
  BY <1>1, <1>2 DEF String

\* A version that loads is a sequence of commands.
LEMMA LoadsTyped ==
  ASSUME NEW v, Loads(v)
  PROVE  v \in Version /\ v \in Nat /\ v # Missing /\ Content[v] \in Seq(Cmd)
BY UpdateAssumption DEF Loads, WellFormed, Missing

\* A restart keeps what a command is, but for the path, and the second one changes nothing.
LEMMA Updated ==
  ASSUME NEW c \in Cmd
  PROVE  /\ update(c) \in Cmd /\ update(update(c)) = update(c)
         /\ update(c).ann = c.ann /\ update(c).args = c.args /\ update(c).cmd = Path[c.cmd]
         /\ Path[c.cmd] = c.cmd => update(c) = c
BY ConfAssumption DEF update, Cmd

\* What GenerateCmds makes of a version that loads
LEMMA LoadsRun ==
  ASSUME NEW v, Loads(v), LoopInv
  PROVE  LET g == GenerateCmds(Content[v], hostname, hosts)
         IN  /\ g \in Seq(Cmd) /\ Len(g) = Len(Content[v]) /\ DOMAIN g = DOMAIN Content[v]
             /\ \A i \in DOMAIN g :
                  /\ g[i] \in Cmd
                  /\ g[i].cmd = Content[v][i].cmd /\ g[i].args = Content[v][i].args
                  /\ Defaults(Content[v][i], g[i], hostname, hosts)
<1> DEFINE g == GenerateCmds(Content[v], hostname, hosts)
<1>1. /\ g \in Seq(Cmd) /\ Len(g) = Len(Content[v]) /\ DOMAIN g = DOMAIN Content[v]
      /\ \A i \in DOMAIN Content[v] :
           /\ g[i].cmd = Content[v][i].cmd /\ g[i].args = Content[v][i].args
           /\ Defaults(Content[v][i], g[i], hostname, hosts)
  BY LoadsTyped, Generated DEF LoopInv
<1> HIDE DEF g
<1>2. \A i \in DOMAIN g : g[i] \in Cmd
  BY <1>1
<1>3. QED
  BY <1>1, <1>2 DEF g

\* The invariant holds at the start.
LEMMA UpdateInit == Init => UpdateInv
<1> SUFFICES ASSUME Init PROVE UpdateInv
  OBVIOUS
<1>1. LoopInv
  BY UpdateAssumption DEF Init, LoopInv
<1>2. Loads(0) /\ 0 \in Version /\ 0 \in Nat
  BY UpdateAssumption
<1>3. running = GenerateCmds(Content[0], hostname, hosts) /\ running \in Seq(Cmd)
  BY <1>1, <1>2, LoadsRun DEF Init
<1>8. logDir = TRUE /\ DOMAIN logs = DOMAIN running
      /\ \A i \in DOMAIN running : logs[i] = {LogFile(running[i])}
  BY DEF Init, Opened
<1>9. Len(logs) = Len(running)
  <2>1. DOMAIN running = 1..Len(running) /\ Len(running) \in Nat
    BY <1>3
  <2>2. logs = [i \in 1..Len(running) |-> {LogFile(running[i])}]
    BY <2>1 DEF Init, Opened
  <2>3. QED
    BY <2>1, <2>2
<1>4. UpdateTypeOK
  <2>1. /\ head = 0 /\ file = 0 /\ conf = 0 /\ version = 0 /\ mpc = "select" /\ cause = {}
        /\ hpc = [r \in Request |-> "idle"] /\ call \in [Request -> Calls]
        /\ cmdEnv = [r \in Request |-> <<>>] /\ len = [r \in Request |-> 0]
        /\ at = [r \in Request |-> 1] /\ pulled = [r \in Request |-> 0]
    BY DEF Init
  <2>2. QED
    BY <1>2, <1>3, <1>8, <1>9, <2>1 DEF UpdateTypeOK, HandlerPCs, MainPCs
<1>5. PullInv
  BY <1>2 DEF Init, PullInv, Missing
<1>6. RunInv
  BY <1>2, <1>3 DEF Init, RunInv
<1>10. LogInv
  <2>1. version = 0 /\ running = GenerateCmds(Content[version], hostname, hosts)
    BY <1>3 DEF Init
  <2>2. QED
    BY <1>8, <2>1 DEF LogInv
<1>7. QED
  BY <1>1, <1>4, <1>5, <1>6, <1>10 DEF UpdateInv

\* A step of a request that does not answer leaves the pulls and the commands alone.
LEMMA RequestFrame ==
  ASSUME UpdateInv, NEW r \in Request, NEW from, NEW to,
         from # "ok", Step(r, from, to),
         UNCHANGED <<gitVars, runVars, pulled, cause>>
  PROVE  PullInv' /\ RunInv' /\ LogInv'
<1>1. UNCHANGED <<environ, hostname, hosts, head, file, mpc, conf, version, running, logDir, logs,
                  pulled, cause>>
  BY DEF Step, envVars, gitVars, runVars, cmdVars
<1>2. hpc \in [Request -> HandlerPCs] /\ hpc[r] = from /\ hpc' = [hpc EXCEPT ![r] = to]
  BY DEF Step, UpdateInv, UpdateTypeOK
<1>3. PullInv'
  BY <1>1, <1>2 DEF UpdateInv, UpdateTypeOK, PullInv
<1>4. RunInv' /\ LogInv'
  BY <1>1 DEF UpdateInv, RunInv, LogInv
<1>5. QED
  BY <1>3, <1>4

\* The steps of GitPull up to the pull
LEMMA FilterStep ==
  ASSUME UpdateInv, NEW r \in Request,
         \/ Ask(r) \/ CheckoutFails(r) \/ Checkout(r) \/ KeepVar(r) \/ DropVar(r)
         \/ SlicePanics(r) \/ Filtered(r)
  PROVE  UpdateInv'
<1> USE DEF UpdateInv, UpdateTypeOK, LoopInv, HandlerPCs
<1>1. PullInv' /\ RunInv' /\ LogInv'
  <2> HIDE DEF UpdateInv
  <2>1. /\ \E from, to : from # "ok" /\ Step(r, from, to)
        /\ UNCHANGED <<gitVars, runVars, pulled, cause>>
    BY DEF Ask, CheckoutFails, Checkout, KeepVar, DropVar, SlicePanics, Filtered
  <2>2. QED
    BY <2>1, RequestFrame
<1>2. UNCHANGED <<environ, hostname, hosts, call, head, file, mpc, conf, version, running, logDir,
                  logs, pulled, cause>>
  BY DEF Ask, CheckoutFails, Checkout, KeepVar, DropVar, SlicePanics, Filtered, Step,
     envVars, gitVars, runVars, cmdVars
<1>3. CASE Ask(r) \/ CheckoutFails(r) \/ SlicePanics(r) \/ Filtered(r)
  <2>1. /\ UNCHANGED <<cmdEnv, len, at>>
        /\ hpc' \in [Request -> HandlerPCs]
        /\ \A q \in Request : hpc'[q] \in {"idle", "checkout"} => hpc[q] \in {"idle", "checkout"}
    BY <1>3 DEF Ask, CheckoutFails, SlicePanics, Filtered, Step
  <2>2. QED
    BY <1>1, <1>2, <2>1
<1>4. CASE Checkout(r)
  <2>1. /\ hpc[r] = "checkout" /\ hpc' = [hpc EXCEPT ![r] = "filter"] /\ at' = at
        /\ cmdEnv' = [cmdEnv EXCEPT ![r] = environ]
        /\ len' = [len EXCEPT ![r] = Len(environ)]
        /\ Len(environ) \in Nat /\ at[r] = 1
    BY <1>4 DEF Checkout, Step
  <2>2. QED
    BY <1>1, <1>2, <2>1
<1>5. CASE KeepVar(r)
  <2>1. /\ hpc[r] = "filter" /\ hpc' = [hpc EXCEPT ![r] = "filter"] /\ UNCHANGED <<cmdEnv, len>>
        /\ at' = [at EXCEPT ![r] = at[r] + 1] /\ at[r] <= Len(cmdEnv[r])
    BY <1>5 DEF KeepVar, Step
  <2>2. at[r] + 1 \in 1..(Len(cmdEnv[r]) + 1)
    BY <2>1
  <2>3. QED
    BY <1>1, <1>2, <2>1, <2>2
<1>6. CASE DropVar(r)
  <2> DEFINE old == cmdEnv[r]
             new == [i \in DOMAIN old |-> IF at[r] <= i /\ i < len[r] THEN old[i + 1] ELSE old[i]]
  <2>1. /\ hpc[r] = "filter" /\ hpc' = [hpc EXCEPT ![r] = "filter"]
        /\ cmdEnv' = [cmdEnv EXCEPT ![r] = new]
        /\ len' = [len EXCEPT ![r] = len[r] - 1]
        /\ at' = [at EXCEPT ![r] = at[r] + 1]
        /\ at[r] <= len[r]
    BY <1>6 DEF DropVar, Step
  <2>2. /\ old \in Seq(STRING) /\ at[r] \in Nat \ {0} /\ len[r] \in 0..Len(old)
    OBVIOUS
  <2>3. new \in Seq(STRING) /\ Len(new) = Len(old)
    <3> HIDE DEF UpdateInv, UpdateTypeOK, LoopInv, old
    <3>1. \A i \in DOMAIN old : old[i] \in STRING
      BY <2>2
    <3>2. \A i \in DOMAIN old : i < len[r] => i + 1 \in DOMAIN old
      BY <2>2
    <3>3. DOMAIN old = 1..Len(old) /\ Len(old) \in Nat
      BY <2>2
    <3>4. new \in [1..Len(old) -> STRING]
      BY <3>1, <3>2, <3>3
    <3>5. QED
      BY <3>3, <3>4
  <2>4. len[r] - 1 \in 0..Len(new) /\ at[r] + 1 \in 1..(Len(new) + 1)
    BY <2>1, <2>2, <2>3
  <2> HIDE DEF old, new
  <2>5. /\ cmdEnv' \in [Request -> Seq(STRING)] /\ len' \in [Request -> Nat]
        /\ at' \in [Request -> Nat] /\ hpc' \in [Request -> HandlerPCs]
    BY <2>1, <2>2, <2>3, <2>4
  <2>6. \A q \in Request : /\ Len(cmdEnv'[q]) \in {0, Len(environ)}
                           /\ len'[q] \in 0..Len(cmdEnv'[q])
                           /\ at'[q] \in 1..(Len(cmdEnv'[q]) + 1)
    <3>1. Len(new) \in {0, Len(environ)}
      BY <2>3 DEF old
    <3>2. QED
      BY <2>1, <2>4, <3>1
  <2>7. \A q \in Request : hpc'[q] \in {"idle", "checkout"} => at'[q] = 1
    BY <2>1
  <2>8. QED
    BY <1>1, <1>2, <2>5, <2>6, <2>7
<1>7. QED
  BY <1>3, <1>4, <1>5, <1>6

\* A pull, and what comes of it
LEMMA PullStep ==
  ASSUME UpdateInv, NEW r \in Request,
         PullFails(r) \/ PullBegins(r) \/ PullEnds(r) \/ Answer(r)
  PROVE  UpdateInv'
<1> USE DEF UpdateInv, UpdateTypeOK, LoopInv, HandlerPCs
<1>1. PICK to \in {"error", "write", "pulled", "ok"} :
        /\ hpc[r] \in {"pull", "write", "pulled"} /\ hpc' = [hpc EXCEPT ![r] = to]
        /\ UNCHANGED <<environ, hostname, hosts, call, cmdEnv, len, at, conf, version, running, logDir, logs>>
  BY DEF PullFails, PullBegins, PullEnds, Answer, Step, envVars, runVars, cmdVars
<1>2. LoopInv'
  BY <1>1
<1>3. RunInv' /\ LogInv'
  BY <1>1 DEF RunInv, LogInv
<1>4. CASE PullFails(r)
  <2>1. UNCHANGED <<head, file, mpc, pulled, cause>>
    BY <1>4 DEF PullFails, gitVars, runVars
  <2>2. PullInv'
    BY <1>1, <2>1 DEF PullInv
  <2>3. QED
    BY <1>1, <1>2, <1>3, <2>1, <2>2
<1>5. CASE PullBegins(r)
  <2>1. /\ UNCHANGED <<head, mpc, pulled, cause>>
        /\ file' = file \/ file' = Missing
    BY <1>5 DEF PullBegins, runVars
  <2>2. PullInv'
    BY <1>1, <2>1 DEF PullInv
  <2>3. QED
    BY <1>1, <1>2, <1>3, <2>1, <2>2
<1>6. CASE PullEnds(r)
  <2>1. /\ UNCHANGED <<head, mpc, cause>>
        /\ file' = head /\ pulled' = [pulled EXCEPT ![r] = head] /\ hpc[r] = "write"
    BY <1>6 DEF PullEnds, Step, runVars
  <2>2. r \notin cause /\ head \in Nat
    BY <2>1, UpdateAssumption DEF PullInv
  <2>3. PullInv'
    BY <1>1, <2>1, <2>2 DEF PullInv
  <2>4. QED
    BY <1>1, <1>2, <1>3, <2>1, <2>3
<1>7. CASE Answer(r)
  <2>1. /\ UNCHANGED <<head, file, pulled>> /\ hpc' = [hpc EXCEPT ![r] = "ok"]
        /\ \/ mpc' = "load" /\ cause' = {r}
           \/ UNCHANGED <<mpc, cause>>
    BY <1>7 DEF Answer, Step, gitVars
  <2>2. PullInv'
    BY <1>1, <2>1 DEF PullInv
  <2>3. QED
    BY <1>1, <1>2, <1>3, <2>1, <2>2 DEF MainPCs
<1>8. QED
  BY <1>4, <1>5, <1>6, <1>7

\* The steps of main, of the commands and of the remote repository
LEMMA LoadStep ==
  ASSUME UpdateInv,
         \/ Hangup \/ LoadFails \/ LoadOK \/ Selects \/ Push
         \/ \E i \in DOMAIN running : CmdRestarts(i)
  PROVE  UpdateInv'
<1> USE DEF UpdateInv, UpdateTypeOK, MainPCs
<1>1. UNCHANGED <<environ, hostname, hosts, hpc, call, cmdEnv, len, at, pulled, file>>
  BY DEF Hangup, LoadFails, LoadOK, Selects, Push, CmdRestarts, envVars, gitVars, reqVars
<1>2. LoopInv'
  BY <1>1 DEF LoopInv
<1>3. CASE Hangup \/ LoadFails \/ Selects
  <2>1. /\ UNCHANGED <<head, version, running, logDir, logs>> /\ mpc' \in {"load", "select"}
        /\ cause' = cause \/ cause' = {}
        /\ conf' = conf \/ (conf' = file /\ WellFormed(file))
    BY <1>3 DEF Hangup, LoadFails, Selects, gitVars, cmdVars
  <2>2. PullInv' /\ RunInv' /\ LogInv'
    BY <1>1, <2>1 DEF PullInv, RunInv, LogInv
  <2>3. QED
    BY <1>1, <1>2, <2>1, <2>2 DEF WellFormed
<1>4. CASE LoadOK
  <2>1. /\ Loads(file) /\ UNCHANGED <<head, cause>> /\ mpc' = "busy" /\ conf' = file
        /\ version' = file /\ running' = GenerateCmds(Content[file], hostname, hosts)
        /\ logDir' = FALSE /\ logs' = Opened(running', FALSE)
    BY <1>4 DEF LoadOK, gitVars
  <2>2. file \in Version /\ file # Missing /\ running' \in Seq(Cmd)
    BY <2>1, LoadsTyped, LoadsRun
  <2>3. PullInv'
    BY <1>1, <2>1, <2>2 DEF PullInv
  <2>4. RunInv'
    BY <1>1, <2>1 DEF RunInv
  <2>6. LogInv' /\ Len(logs') = Len(running')
    <3>1. logs' = [i \in DOMAIN running' |-> {}]
      BY <2>1 DEF Opened
    <3>2. Len(logs') = Len(running')
      BY <2>2, <3>1
    <3>3. QED
      BY <1>1, <2>1, <3>1, <3>2 DEF LogInv
  <2>5. QED
    BY <1>1, <1>2, <2>1, <2>2, <2>3, <2>4, <2>6
<1>5. CASE Push
  <2>1. /\ UNCHANGED <<version, running, logDir, logs, mpc, conf, cause>> /\ head' = head + 1 /\ head' \in Version
    BY <1>5 DEF Push, runVars, cmdVars
  <2>2. \A q \in Request : pulled[q] \in Nat /\ pulled[q] <= head /\ head \in Nat
    BY UpdateAssumption DEF PullInv
  <2>3. PullInv' /\ RunInv' /\ LogInv'
    BY <1>1, <2>1, <2>2 DEF PullInv, RunInv, LogInv
  <2>4. QED
    BY <1>1, <1>2, <2>1, <2>3
<1>6. ASSUME NEW i \in DOMAIN running, CmdRestarts(i) PROVE UpdateInv'
  <2> DEFINE g == GenerateCmds(Content[version], hostname, hosts)
  <2>1. /\ UNCHANGED <<head, version, mpc, conf, logDir, cause>>
        /\ running' = [running EXCEPT ![i] = update(running[i])]
        /\ logs' = [logs EXCEPT ![i] = logs[i] \cup Opened(running', logDir)[i]]
    BY <1>6 DEF CmdRestarts, gitVars
  <2>2. g \in Seq(Cmd) /\ Loads(version) /\ Len(running) = Len(g) /\ running \in Seq(Cmd)
        /\ \A j \in DOMAIN running : running[j] = g[j] \/ running[j] = update(g[j])
    BY LoadsRun DEF RunInv
  <2> HIDE DEF g
  <2>3. DOMAIN g = DOMAIN running
    BY <2>2
  <2>4. running[i] \in Cmd /\ g[i] \in Cmd
    BY <2>2, <2>3
  <2>5. update(running[i]) \in Cmd /\ update(running[i]) = update(g[i])
    BY <2>2, <2>4, Updated
  <2>6. running' \in Seq(Cmd) /\ Len(running') = Len(running) /\ DOMAIN running' = DOMAIN running
    BY <2>1, <2>2, <2>5
  <2>7. \A j \in DOMAIN running' : running'[j] = g[j] \/ running'[j] = update(g[j])
    BY <2>1, <2>2, <2>5, <2>6
  <2>8. RunInv'
    BY <1>1, <2>1, <2>2, <2>6, <2>7 DEF RunInv, g
  <2>9. PullInv'
    BY <1>1, <2>1 DEF PullInv
  <2>11. DOMAIN logs = DOMAIN g /\ DOMAIN logs' = DOMAIN logs /\ Len(logs') = Len(running')
    <3>1. DOMAIN logs = DOMAIN g
      BY DEF LogInv, g
    <3>2. DOMAIN logs' = DOMAIN logs
      BY <2>1
    <3>3. DOMAIN logs' = 1..Len(running') /\ Len(running') \in Nat
      BY <2>3, <2>6, <3>1, <3>2
    <3>4. QED
      BY <3>1, <3>2, <3>3
  <2>12. LogInv'
    <3> DEFINE Log(j) == IF logDir
                         THEN /\ LogFile(running[j]) \in logs[j]
                              /\ logs[j] \subseteq {LogFile(g[j]), LogFile(update(g[j]))}
                         ELSE logs[j] = {}
    <3>1. g' = g /\ \A j \in DOMAIN g : Log(j)
      BY <1>1, <2>1 DEF LogInv, g
    <3>2. ASSUME NEW j \in DOMAIN g PROVE Log(j)'
      <4>1. CASE j = i
        <5>1. running'[i] = update(g[i])
          BY <2>1, <2>3, <2>5
        <5>2. logs'[i] = logs[i] \cup IF logDir THEN {LogFile(update(g[i]))} ELSE {}
          BY <2>1, <2>3, <2>6, <2>11, <5>1 DEF Opened
        <5>3. QED
          BY <2>1, <3>1, <4>1, <5>1, <5>2
      <4>2. CASE j # i
        <5>1. running'[j] = running[j] /\ logs'[j] = logs[j]
          BY <2>1, <2>3, <2>11, <4>2
        <5>2. QED
          BY <2>1, <3>1, <5>1
      <4>3. QED
        BY <4>1, <4>2
    <3>3. QED
      BY <1>1, <2>1, <2>11, <3>2 DEF LogInv, g
  <2>10. QED
    BY <1>1, <1>2, <2>1, <2>6, <2>8, <2>9, <2>11, <2>12
<1>7. QED
  BY <1>3, <1>4, <1>5, <1>6

\* The inductive invariant of Update
THEOREM UpdateInductive == Spec => []UpdateInv
<1>1. UpdateInv /\ UNCHANGED vars => UpdateInv'
  BY DEF UpdateInv, UpdateTypeOK, LoopInv, PullInv, RunInv, LogInv, vars, envVars, gitVars, reqVars,
     runVars, cmdVars
<1>2. UpdateInv /\ [Next]_vars => UpdateInv'
  BY <1>1, FilterStep, PullStep, LoadStep DEF Next, GitPull
<1>3. QED
  BY <1>2, UpdateInit, PTL DEF Spec

\* One step of one request; those of the others stay.
LEMMA FilterFrame ==
  ASSUME FilterInv, UNCHANGED environ, NEW r \in Request,
         hpc \in [Request -> HandlerPCs],
         \E to : hpc' = [hpc EXCEPT ![r] = to],
         \A q \in Request \ {r} : cmdEnv'[q] = cmdEnv[q] /\ len'[q] = len[q] /\ at'[q] = at[q],
         hpc'[r] \in {"filter", "pull", "write", "panic"} =>
           /\ LoopAt(environ, cmdEnv'[r], len'[r], at'[r])
           /\ hpc'[r] \in {"pull", "write"} => at'[r] = Len(environ) + 1
           /\ hpc'[r] = "panic" =>
                at'[r] \in (len'[r] + 1)..Len(environ) /\ cmdEnv'[r][at'[r]] \in Askpass
  PROVE  FilterInv'
<1> SUFFICES ASSUME NEW q \in Request, hpc'[q] \in {"filter", "pull", "write", "panic"}
             PROVE  /\ LoopAt(environ, cmdEnv'[q], len'[q], at'[q])
                    /\ hpc'[q] \in {"pull", "write"} => at'[q] = Len(environ) + 1
                    /\ hpc'[q] = "panic" =>
                         at'[q] \in (len'[q] + 1)..Len(environ) /\ cmdEnv'[q][at'[q]] \in Askpass
  BY DEF FilterInv
<1>1. CASE q = r
  BY <1>1
<1>2. CASE q # r
  <2>1. hpc'[q] = hpc[q] /\ cmdEnv'[q] = cmdEnv[q] /\ len'[q] = len[q] /\ at'[q] = at[q]
    BY <1>2
  <2>2. QED
    BY <2>1 DEF FilterInv
<1>3. QED
  BY <1>1, <1>2

\* The loop of GitPull, and the pull that uses what it leaves
LEMMA FilterKept ==
  ASSUME UpdateInv, FilterInv, NEW r \in Request,
         Ask(r) \/ GitPull(r) \/ Answer(r)
  PROVE  FilterInv'
<1> USE DEF HandlerPCs
<1>1. /\ environ \in Seq(STRING) /\ hpc \in [Request -> HandlerPCs]
      /\ cmdEnv \in [Request -> Seq(STRING)] /\ len \in [Request -> Nat] /\ at \in [Request -> Nat]
  BY DEF UpdateInv, UpdateTypeOK, LoopInv
<1>2. UNCHANGED environ
  BY DEF Ask, GitPull, Answer, CheckoutFails, Checkout, KeepVar, DropVar, SlicePanics, Filtered,
     PullFails, PullBegins, PullEnds, Step, envVars
<1>3. ASSUME UNCHANGED <<cmdEnv, len, at>>, NEW to \in {"checkout", "error", "pulled", "ok"},
             hpc' = [hpc EXCEPT ![r] = to]
      PROVE  FilterInv'
  BY <1>1, <1>2, <1>3, FilterFrame
<1>4. CASE Ask(r) \/ CheckoutFails(r) \/ PullFails(r) \/ PullEnds(r) \/ Answer(r)
  BY <1>3, <1>4 DEF Ask, CheckoutFails, PullFails, PullEnds, Answer, Step
<1>5. CASE Checkout(r)
  <2>1. /\ hpc[r] = "checkout" /\ hpc' = [hpc EXCEPT ![r] = "filter"] /\ at' = at
        /\ cmdEnv' = [cmdEnv EXCEPT ![r] = environ]
        /\ len' = [len EXCEPT ![r] = Len(environ)]
    BY <1>5 DEF Checkout, Step
  <2>2. at[r] = 1
    BY <2>1 DEF UpdateInv, LoopInv
  <2>3. LoopAt(environ, environ, Len(environ), 1)
    BY <1>1, LoopBegins
  <2>4. QED
    BY <1>1, <1>2, <2>1, <2>2, <2>3, FilterFrame
<1>6. CASE hpc[r] = "filter" /\ (KeepVar(r) \/ DropVar(r) \/ SlicePanics(r) \/ Filtered(r))
  <2>1. /\ LoopAt(environ, cmdEnv[r], len[r], at[r])
        /\ Len(cmdEnv[r]) = Len(environ) /\ Len(environ) \in Nat
        /\ len[r] \in 0..Len(environ) /\ at[r] \in 1..(Len(environ) + 1)
    BY <1>1, <1>6 DEF FilterInv, LoopAt
  <2>2. CASE KeepVar(r)
    <3>1. /\ hpc' = [hpc EXCEPT ![r] = "filter"] /\ UNCHANGED <<cmdEnv, len>>
          /\ at' = [at EXCEPT ![r] = at[r] + 1]
          /\ at[r] <= Len(environ) /\ cmdEnv[r][at[r]] \notin Askpass
      BY <2>1, <2>2 DEF KeepVar, Matches, Step
    <3>2. LoopAt(environ, cmdEnv[r], len[r], at[r] + 1)
      BY <1>1, <2>1, <3>1, LoopKeeps
    <3>3. QED
      BY <1>1, <1>2, <3>1, <3>2, FilterFrame
  <2>3. CASE DropVar(r)
    <3> DEFINE new == [i \in DOMAIN cmdEnv[r] |->
                         IF at[r] <= i /\ i < len[r] THEN cmdEnv[r][i + 1] ELSE cmdEnv[r][i]]
    <3>1. /\ hpc' = [hpc EXCEPT ![r] = "filter"]
          /\ cmdEnv' = [cmdEnv EXCEPT ![r] = new]
          /\ len' = [len EXCEPT ![r] = len[r] - 1]
          /\ at' = [at EXCEPT ![r] = at[r] + 1]
          /\ at[r] <= len[r] /\ cmdEnv[r][at[r]] \in Askpass
      BY <2>3 DEF DropVar, Matches, Step
    <3>2. LoopAt(environ, new, len[r] - 1, at[r] + 1)
      BY <1>1, <2>1, <3>1, LoopDrops
    <3> HIDE DEF new
    <3>3. QED
      BY <1>1, <1>2, <3>1, <3>2, FilterFrame
  <2>4. CASE SlicePanics(r)
    <3>1. /\ hpc' = [hpc EXCEPT ![r] = "panic"] /\ UNCHANGED <<cmdEnv, len, at>>
          /\ at[r] <= Len(environ) /\ cmdEnv[r][at[r]] \in Askpass /\ at[r] > len[r]
      BY <2>1, <2>4 DEF SlicePanics, Matches, Step
    <3>2. at[r] \in (len[r] + 1)..Len(environ)
      BY <2>1, <3>1
    <3>3. QED
      BY <1>1, <1>2, <2>1, <3>1, <3>2, FilterFrame
  <2>5. CASE Filtered(r)
    <3>1. /\ hpc' = [hpc EXCEPT ![r] = "pull"] /\ UNCHANGED <<cmdEnv, len, at>>
          /\ at[r] = Len(environ) + 1
      BY <2>1, <2>5 DEF Filtered, Step
    <3>2. QED
      BY <1>1, <1>2, <2>1, <3>1, FilterFrame
  <2>6. QED
    BY <1>6, <2>2, <2>3, <2>4, <2>5
<1>7. CASE PullBegins(r)
  <2>1. hpc[r] = "pull" /\ hpc' = [hpc EXCEPT ![r] = "write"] /\ UNCHANGED <<cmdEnv, len, at>>
    BY <1>7 DEF PullBegins, Step
  <2>2. LoopAt(environ, cmdEnv[r], len[r], at[r]) /\ at[r] = Len(environ) + 1
    BY <2>1 DEF FilterInv
  <2>3. QED
    BY <1>1, <1>2, <2>1, <2>2, FilterFrame
<1>8. KeepVar(r) \/ DropVar(r) \/ SlicePanics(r) \/ Filtered(r) => hpc[r] = "filter"
  BY DEF KeepVar, DropVar, SlicePanics, Filtered, Step
<1>9. QED
  BY <1>4, <1>5, <1>6, <1>7, <1>8 DEF GitPull

\* Filtering keeps its invariant.
LEMMA FilterInductive == Spec => []FilterInv
<1>1. Init => FilterInv
  BY DEF Init, FilterInv
<1>2. ASSUME UpdateInv, FilterInv, [Next]_vars PROVE FilterInv'
  <2>1. CASE \E r \in Request : Ask(r) \/ GitPull(r) \/ Answer(r)
    BY <1>2, <2>1, FilterKept
  <2>2. CASE UNCHANGED <<environ, hpc, cmdEnv, len, at>>
    BY <1>2, <2>2 DEF FilterInv
  <2>3. QED
    BY <1>2, <2>1, <2>2 DEF Next, vars, envVars, reqVars, Hangup, LoadFails, LoadOK, Selects,
       CmdRestarts, Push
<1>3. QED
  BY <1>1, <1>2, UpdateInductive, PTL DEF Spec

\* What git gets is the environment without some of the variables that match, in order.
THEOREM EnvironKept == Spec => []OthersKept
<1>1. UpdateInv /\ FilterInv => OthersKept
  <2> SUFFICES ASSUME UpdateInv, FilterInv, NEW r \in Request, hpc[r] \in {"filter", "pull", "write"}
               PROVE  \E from \in [1..len[r] -> DOMAIN environ] :
                        /\ \A i, j \in 1..len[r] : i < j => from[i] < from[j]
                        /\ \A i \in 1..len[r] : GitEnv(r)[i] = environ[from[i]]
                        /\ \A k \in DOMAIN environ :
                             k \in AskpassAt(environ) \/ \E i \in 1..len[r] : from[i] = k
    BY DEF OthersKept
  <2>1. LoopAt(environ, cmdEnv[r], len[r], at[r])
    BY DEF FilterInv
  <2>2. PICK from : ComesFrom(environ, cmdEnv[r], len[r], at[r], from)
    BY <2>1 DEF LoopAt
  <2>3. \A i \in 1..len[r] : GitEnv(r)[i] = cmdEnv[r][i]
    <3>1. /\ cmdEnv[r] \in Seq(STRING) /\ len[r] \in 0..Len(cmdEnv[r])
          /\ environ \in Seq(STRING)
      BY <2>1 DEF LoopAt, UpdateInv, LoopInv
    <3>2. QED
      BY <3>1 DEF GitEnv
  <2>4. /\ from \in [1..len[r] -> DOMAIN environ]
        /\ \A i, j \in 1..len[r] : i < j => from[i] < from[j]
        /\ \A i \in 1..len[r] : cmdEnv[r][i] = environ[from[i]]
        /\ \A k \in DOMAIN environ : k \in AskpassAt(environ) \/ \E i \in 1..len[r] : from[i] = k
    BY <2>2 DEF ComesFrom
  <2>5. \A i \in 1..len[r] : GitEnv(r)[i] = environ[from[i]]
    BY <2>3, <2>4
  <2>6. QED
    BY <2>4, <2>5, Zenon
<1>2. QED
  BY <1>1, UpdateInductive, FilterInductive, PTL

\* Without neighbours that match, git runs without SSH_ASKPASS.
THEOREM AskpassFiltered == Spec => []AskpassGone
<1>1. UpdateInv /\ FilterInv => AskpassGone
  <2> SUFFICES ASSUME UpdateInv, FilterInv, NEW r \in Request, hpc[r] \in {"pull", "write"},
                      \A i \in AskpassAt(environ) : i + 1 \notin AskpassAt(environ)
               PROVE  AskpassAt(GitEnv(r)) = {}
    BY DEF AskpassGone
  <2>1. LoopAt(environ, cmdEnv[r], len[r], at[r]) /\ at[r] = Len(environ) + 1
    BY DEF FilterInv
  <2>2. /\ cmdEnv[r] \in Seq(STRING) /\ len[r] \in 0..Len(environ) /\ Len(cmdEnv[r]) = Len(environ)
        /\ Len(environ) \in Nat
    BY <2>1 DEF LoopAt, UpdateInv, LoopInv
  <2>3. \A i \in 1..len[r] : cmdEnv[r][i] \notin Askpass
    BY <2>1, <2>2 DEF LoopAt, NoNeighbours
  <2>4. DOMAIN GitEnv(r) = 1..len[r] /\ \A i \in 1..len[r] : GitEnv(r)[i] = cmdEnv[r][i]
    BY <2>2 DEF GitEnv
  <2>5. QED
    BY <2>3, <2>4 DEF AskpassAt
<1>2. QED
  BY <1>1, UpdateInductive, FilterInductive, PTL

\* The handler panics only over a last variable that matches, after another one.
THEOREM PanicExplained == Spec => []PanicNeedsLast
<1>1. UpdateInv /\ FilterInv => PanicNeedsLast
  <2> SUFFICES ASSUME UpdateInv, FilterInv, NEW r \in Request, hpc[r] = "panic"
               PROVE  Cardinality(AskpassAt(environ)) > 1 /\ Len(environ) \in AskpassAt(environ)
    BY DEF PanicNeedsLast
  <2> DEFINE n == Len(environ)
             A == AskpassAt(environ)
  <2>1. /\ LoopAt(environ, cmdEnv[r], len[r], at[r])
        /\ at[r] \in (len[r] + 1)..n /\ cmdEnv[r][at[r]] \in Askpass
    BY DEF FilterInv
  <2>2. /\ n \in Nat /\ DOMAIN environ = 1..n /\ len[r] \in 0..n
    BY <2>1 DEF LoopAt, UpdateInv, LoopInv
  <2>3. n \in A
    <3>1. cmdEnv[r][at[r]] = environ[n]
      BY <2>1, <2>2 DEF LoopAt, Shifted
    <3>2. QED
      BY <2>1, <2>2, <3>1 DEF AskpassAt
  <2>4. PICK i \in 1..(n - 1) : i \in A
    BY <2>1, <2>2 DEF LoopAt
  <2>5. IsFiniteSet(A)
    <3>1. IsFiniteSet(1..n)
      BY <2>2, FS_Interval
    <3>2. A \subseteq 1..n
      BY <2>2 DEF AskpassAt
    <3>3. QED
      BY <3>1, <3>2, FS_Subset
  <2> HIDE DEF A, n
  <2>6. {i, n} \subseteq A /\ i # n
    BY <2>2, <2>3, <2>4
  <2>7. Cardinality({i, n}) = 2
    <3>1. IsFiniteSet({i}) /\ Cardinality({i}) = 1
      BY FS_Singleton
    <3>2. n \notin {i} /\ {i} \cup {n} = {i, n}
      BY <2>6
    <3>3. Cardinality({i} \cup {n}) = Cardinality({i}) + 1
      BY <3>1, <3>2, FS_AddElement
    <3>4. QED
      BY <3>1, <3>2, <3>3
  <2>8. Cardinality({i, n}) <= Cardinality(A) /\ Cardinality(A) \in Nat
    BY <2>5, <2>6, FS_Subset, FS_CardinalityType
  <2>9. QED
    BY <2>3, <2>7, <2>8 DEF A, n
<1>2. QED
  BY <1>1, UpdateInductive, FilterInductive, PTL

\* The hash does not depend on the order of the arguments, and tells apart the commands
\* whose arguments hold no blanks and whose names hold as many.
THEOREM HashOfArguments == Spec => []HashTellsApart
<1>1. UpdateInv => HashTellsApart
  <2> SUFFICES ASSUME UpdateInv, NEW i \in DOMAIN running, NEW j \in DOMAIN running
               PROVE  LET a == running[i]
                          b == running[j]
                      IN /\ a.cmd = b.cmd /\ Permuted(a.args, b.args) => HashCmd(a) = HashCmd(b)
                         /\ /\ HashCmd(a) = HashCmd(b)
                            /\ Len(Spelling[a.cmd]) = Len(Spelling[b.cmd])
                            /\ OneWord(a.args) /\ OneWord(b.args)
                            => a.cmd = b.cmd /\ Permuted(a.args, b.args)
    BY DEF HashTellsApart
  <2> DEFINE a == running[i]
             b == running[j]
  <2>1. /\ a.args \in Seq(Seq(Nat)) /\ a.cmd \in CmdName /\ Spelling[a.cmd] \in Seq(Nat)
        /\ b.args \in Seq(Seq(Nat)) /\ b.cmd \in CmdName /\ Spelling[b.cmd] \in Seq(Nat)
    BY ArgsTyped DEF UpdateInv, UpdateTypeOK
  <2> HIDE DEF a, b
  <2>2. a.cmd = b.cmd /\ Permuted(a.args, b.args) => HashCmd(a) = HashCmd(b)
    BY <2>1, PermutedSame DEF HashCmd
  <2>3. ASSUME HashCmd(a) = HashCmd(b), Len(Spelling[a.cmd]) = Len(Spelling[b.cmd]),
               OneWord(a.args), OneWord(b.args)
        PROVE  a.cmd = b.cmd /\ Permuted(a.args, b.args)
    <3> DEFINE wa == Spelling[a.cmd]
               wb == Spelling[b.cmd]
               sa == FlattenSeq(Sorted(a.args))
               sb == FlattenSeq(Sorted(b.args))
    <3>1. sa \in Seq(Nat) /\ sb \in Seq(Nat)
      BY <2>1, <2>3, SortedArranges, ArrangedPermuted, FlattenTyped
    <3>2. wa \o sa = wb \o sb /\ Len(wa) = Len(wb) /\ wa \in Seq(Nat) /\ wb \in Seq(Nat)
      BY <2>1, <2>3 DEF HashCmd
    <3> HIDE DEF wa, wb, sa, sb
    <3>3. wa = wb /\ sa = sb
      BY <3>1, <3>2, PrefixesEqual, Zenon
    <3>4. Permuted(a.args, b.args)
      BY <2>1, <2>3, <3>3, SamePermuted DEF sa, sb
    <3>5. QED
      BY <2>1, <3>3, <3>4, ConfAssumption DEF wa, wb
  <2>4. QED
    BY <2>2, <2>3 DEF a, b
<1>2. QED
  BY <1>1, UpdateInductive, PTL

\* The loop over the environment keeps its bounds, and every variable its type.
THEOREM UpdateTypes == Spec => []UpdateTypeOK
BY UpdateInductive, PTL DEF UpdateInv

\* A restart with an update loads what its pull has brought, or something newer.
THEOREM PullsLoaded == Spec => []PulledIsLoaded
<1>1. UpdateInv => PulledIsLoaded
  <2>1. \A v \in Version : v \in Nat
    BY UpdateAssumption
  <2>2. QED
    BY <2>1 DEF UpdateInv, UpdateTypeOK, PullInv, PulledIsLoaded
<1>2. QED
  BY <1>1, UpdateInductive, PTL

\* The commands that run are those of the version loaded last, with its arguments and
\* annotations and the defaults for those it leaves out.
THEOREM LoadedRuns == Spec => []RunsLoaded
<1>1. UpdateInv => RunsLoaded
  <2> SUFFICES ASSUME UpdateInv PROVE RunsLoaded
    OBVIOUS
  <2> DEFINE g == GenerateCmds(Content[version], hostname, hosts)
  <2>1. Loads(version)
    BY DEF UpdateInv, RunInv
  <2>2. /\ g \in Seq(Cmd) /\ Len(g) = Len(Content[version]) /\ DOMAIN g = DOMAIN Content[version]
        /\ \A i \in DOMAIN g :
             /\ g[i] \in Cmd
             /\ g[i].cmd = Content[version][i].cmd /\ g[i].args = Content[version][i].args
             /\ Defaults(Content[version][i], g[i], hostname, hosts)
    BY <2>1, LoadsRun DEF UpdateInv
  <2>3. /\ Len(running) = Len(g) /\ running \in Seq(Cmd)
        /\ \A i \in DOMAIN running : running[i] = g[i] \/ running[i] = update(g[i])
    BY DEF UpdateInv, UpdateTypeOK, RunInv
  <2> HIDE DEF g
  <2>4. DOMAIN running = DOMAIN g
    BY <2>2, <2>3
  <2>5. ASSUME NEW i \in DOMAIN running
        PROVE  /\ running[i].args = Content[version][i].args
               /\ running[i].cmd \in {Content[version][i].cmd, Path[Content[version][i].cmd]}
               /\ Defaults(Content[version][i], running[i], hostname, hosts)
    <3>1. /\ g[i] \in Cmd /\ running[i].ann = g[i].ann /\ running[i].args = g[i].args
          /\ running[i].cmd \in {g[i].cmd, Path[g[i].cmd]}
      BY <2>2, <2>3, <2>4, Updated
    <3>2. QED
      BY <2>2, <2>4, <3>1 DEF Defaults
  <2>6. QED
    BY <2>1, <2>2, <2>3, <2>5 DEF RunsLoaded, Defaults
<1>2. QED
  BY <1>1, UpdateInductive, PTL

\* A command of the first generation has one log file or, under a bare name, at most two;
\* one that a reload has made has none.
THEOREM LogFilesKept == Spec => []LogsKept
<1>1. UpdateInv => LogsKept
  <2> SUFFICES ASSUME UpdateInv, NEW i \in DOMAIN running
               PROVE  LET name == Content[version][i].cmd
                      IN IF logDir
                         THEN /\ LogFile(running[i]) \in logs[i]
                              /\ \A f, g \in logs[i] : Path[name] = name => f = g
                              /\ \A f, g, h \in logs[i] : f = g \/ g = h \/ f = h
                         ELSE logs[i] = {}
    BY DEF LogsKept
  <2> DEFINE made == GenerateCmds(Content[version], hostname, hosts)
             first == LogFile(made[i])
             later == LogFile(update(made[i]))
  <2>1. /\ i \in DOMAIN made /\ made[i] \in Cmd /\ made[i].cmd = Content[version][i].cmd
    <3>1. made \in Seq(Cmd) /\ \A j \in DOMAIN made : made[j].cmd = Content[version][j].cmd
      BY LoadsRun DEF UpdateInv, RunInv
    <3>2. DOMAIN running = DOMAIN made
      BY <3>1 DEF UpdateInv, UpdateTypeOK, RunInv
    <3>3. QED
      BY <3>1, <3>2
  <2>2. IF logDir
        THEN LogFile(running[i]) \in logs[i] /\ logs[i] \subseteq {first, later}
        ELSE logs[i] = {}
    BY <2>1 DEF UpdateInv, LogInv
  <2>3. Path[Content[version][i].cmd] = Content[version][i].cmd => first = later
    BY <2>1, Updated
  <2> HIDE DEF made, first, later
  <2>4. QED
    BY <2>2, <2>3
<1>2. QED
  BY <1>1, UpdateInductive, PTL
=============================================================================
