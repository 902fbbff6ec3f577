---------------------------- MODULE AnalysisProofs ----------------------------
(***************************************************************************)
(* What is proved of what is computed of a plant and of the program that   *)
(* is generated for it. For any equipment and any inputs, no               *)
(* pump starts by itself and none runs in the scan after a fault alarm.    *)
(* For any documents, what a parse serves stands by itself, and of its     *)
(* loops those are kept that are judged best. For any graph, either store  *)
(* gives the same loops and the list of signals has them. For any edges    *)
(* and rows, every shortcut of the behaviour engine says what the whole    *)
(* computation would.                                                      *)
(***************************************************************************)
EXTENDS MCAnalysis, FiniteSetTheorems, SequenceTheorems, WellFoundedInduction, TLAPS

\* The program of a plant. Its sequences are joined from the steps of its
\* devices, so that what a join ends with is known whatever the devices
\* are; each block of a scan then gives a pump no command, but for the
\* step of a startup that does.

\* A set of naturals has a least.
LEMMA Least == ASSUME NEW S \in SUBSET Nat, S # {} PROVE \E x \in S : \A y \in S : x <= y
<1> DEFINE R == OpToRel(<, Nat)
<1>1. \A x, y \in Nat : <<y, x>> \in R <=> y < x
  BY DEF OpToRel
<1>2. IsWellFoundedOn(R, Nat)
  BY NatLessThanWellFounded
<1> HIDE DEF R
<1>3. PICK x \in S : \A y \in S : ~ (<<y, x>> \in R)
  BY <1>2, WFMin
<1>4. ASSUME NEW y \in S PROVE x <= y
  <2>1. x \in Nat /\ y \in Nat
    OBVIOUS
  <2>2. ~(y < x)
    BY <1>1, <1>3, <2>1
  <2>3. QED
    BY <2>1, <2>2
<1>5. QED
  BY <1>4

\* The recursion of FlattenSeq: f joins the first n sequences.
Joined(seqs, f, n) ==
    f = [i \in 1..n |-> IF i = 1 THEN seqs[i] ELSE f[i - 1] \o seqs[i]]

\* Joined sequences of T are sequences of T.
LEMMA JoinedIsSeq ==
    ASSUME NEW T, NEW n \in Nat, NEW seqs, \A i \in 1..n : seqs[i] \in Seq(T),
           NEW f, Joined(seqs, f, n)
    PROVE  \A i \in 1..n : f[i] \in Seq(T)
<1> DEFINE Bad == {i \in 1..n : f[i] \notin Seq(T)}
<1> SUFFICES ASSUME Bad # {} PROVE FALSE
  OBVIOUS
<1>1. Bad \in SUBSET Nat
  OBVIOUS
<1>2. PICK i \in Bad : \A j \in Bad : i <= j
  BY <1>1, Least
<1>3. i \in 1..n /\ i \in Nat /\ f[i] \notin Seq(T)
  OBVIOUS
<1>4. f[i] = IF i = 1 THEN seqs[i] ELSE f[i - 1] \o seqs[i]
  BY <1>3 DEF Joined
<1>5. CASE i = 1
  BY <1>3, <1>4, <1>5
<1>6. CASE i # 1
  <2>1. i - 1 \in 1..n /\ i - 1 < i
    BY <1>3, <1>6
  <2>2. f[i - 1] \in Seq(T)
    BY <2>1, <1>2, <1>3
  <2>3. seqs[i] \in Seq(T)
    BY <1>3
  <2>4. f[i - 1] \o seqs[i] \in Seq(T)
    BY <2>2, <2>3, ConcatProperties
  <2> QED
    BY <1>3, <1>4, <1>6, <2>4
<1> QED
  BY <1>5, <1>6

\* Any number of sequences can be joined.
LEMMA JoinedExists ==
    ASSUME NEW n \in Nat, NEW seqs PROVE \E f : Joined(seqs, f, n)
<1> DEFINE Bad == {k \in Nat : ~ \E f : Joined(seqs, f, k)}
<1> SUFFICES ASSUME Bad # {} PROVE FALSE
  OBVIOUS
<1>1. Bad \in SUBSET Nat
  OBVIOUS
<1>2. PICK k \in Bad : \A j \in Bad : k <= j
  BY <1>1, Least
<1>3. k \in Nat /\ ~ \E f : Joined(seqs, f, k)
  OBVIOUS
<1>4. CASE k = 0
  <2>1. Joined(seqs, [i \in 1..0 |-> seqs[i]], 0)
    BY DEF Joined
  <2> QED
    BY <1>3, <1>4, <2>1
<1>5. CASE k # 0
  <2>1. k - 1 \in Nat /\ k - 1 < k
    BY <1>3, <1>5
  <2>2. PICK f : Joined(seqs, f, k - 1)
    BY <2>1, <1>2, <1>3
  <2> DEFINE g == [i \in 1..k |-> IF i < k THEN f[i]
                                  ELSE IF i = 1 THEN seqs[i] ELSE f[i - 1] \o seqs[i]]
  <2>3. \A j \in 1..k : j < k => g[j] = f[j]
    OBVIOUS
  <2>4. g[k] = IF k = 1 THEN seqs[k] ELSE f[k - 1] \o seqs[k]
    BY <1>3, <1>5
  <2>5. g = [i \in 1..k |-> g[i]]
    OBVIOUS
  <2> HIDE DEF g
  <2>6. ASSUME NEW i \in 1..k PROVE g[i] = IF i = 1 THEN seqs[i] ELSE g[i - 1] \o seqs[i]
    <3>1. CASE i = 1
      <4>1. CASE i = k
        BY <3>1, <4>1, <2>4
      <4>2. CASE i # k
        <5>1. i \in 1..(k - 1) /\ i < k
          BY <4>2, <1>3
        <5>2. f[i] = seqs[i]
          BY <5>1, <2>2, <3>1 DEF Joined
        <5> QED
          BY <5>1, <5>2, <3>1, <2>3
      <4> QED
        BY <4>1, <4>2
    <3>2. CASE i # 1
      <4>1. i - 1 \in 1..k /\ i - 1 < k /\ i \in Nat
        BY <3>2, <1>3
      <4>2. g[i - 1] = f[i - 1]
        BY <4>1, <2>3
      <4>3. CASE i = k
        BY <4>2, <4>3, <3>2, <2>4
      <4>4. CASE i # k
        <5>1. i \in 1..(k - 1) /\ i < k
          BY <4>4, <1>3
        <5>2. f[i] = f[i - 1] \o seqs[i]
          BY <5>1, <2>2, <3>2 DEF Joined
        <5> QED
          BY <5>1, <5>2, <4>2, <3>2, <2>3
      <4> QED
        BY <4>3, <4>4
    <3> QED
      BY <3>1, <3>2
  <2>7. Joined(seqs, g, k)
    BY <2>6, <2>5 DEF Joined
  <2> QED
    BY <2>7, <1>3
<1> QED
  BY <1>4, <1>5

\* FlattenSeq joins sequences of T to one of T.
LEMMA FlattenedIsSeq ==
    ASSUME NEW T, NEW n \in Nat, NEW seqs, seqs = [i \in 1..n |-> seqs[i]],
           \A i \in 1..n : seqs[i] \in Seq(T)
    PROVE  FlattenSeq(seqs) \in Seq(T)
<1>1. Len(seqs) = n
  OBVIOUS
<1>2. CASE n = 0
  <2>1. seqs = <<>>
    BY <1>2
  <2> QED
    BY <1>1, <1>2, <2>1 DEF FlattenSeq
<1>3. CASE n # 0
  <2> DEFINE f == CHOOSE f : Joined(seqs, f, n)
  <2>1. Joined(seqs, f, n)
    BY JoinedExists
  <2>2. FlattenSeq(seqs) = f[n]
    BY <1>1, <1>3 DEF FlattenSeq, Joined
  <2>3. n \in 1..n
    BY <1>3
  <2> HIDE DEF f
  <2> QED
    BY <2>1, <2>2, <2>3, JoinedIsSeq
<1> QED
  BY <1>2, <1>3

\* A sequence ends with its last step, whatever the steps before it are.
LEMMA StepsEndWithLast ==
    ASSUME NEW n \in Nat, NEW order, DOMAIN order = 1..n, NEW preferred, NEW last
    PROVE  LET steps == StepsOf(order, preferred, last) IN steps[Len(steps)] = last
<1> DEFINE T == {Tag(order[i], name) : i \in 1..n, name \in {"cmd", "auto", preferred}}
           seqs == [i \in 1..n |-> Stepped(order[i], preferred)]
           device == FlattenSeq(seqs)
<1>1. ASSUME NEW i \in 1..n PROVE Stepped(order[i], preferred) \in Seq(T)
  <2>1. /\ Tag(order[i], "cmd") \in T
        /\ Tag(order[i], "auto") \in T
        /\ Tag(order[i], preferred) \in T
    OBVIOUS
  <2> HIDE DEF T
  <2> QED
    BY <2>1 DEF Stepped
<1>2. seqs = [i \in 1..n |-> seqs[i]] /\ \A i \in 1..n : seqs[i] \in Seq(T)
  BY <1>1
<1>3. StepsOf(order, preferred, last) = device \o <<last>>
  BY DEF StepsOf
<1> HIDE DEF seqs, T
<1>4. device \in Seq(T)
  BY <1>2, FlattenedIsSeq
<1>5. device \in Seq(T \cup {last}) /\ <<last>> \in Seq(T \cup {last})
  <2> HIDE DEF device
  <2> QED
    BY <1>4
<1> HIDE DEF device
<1>6. /\ Len(device \o <<last>>) = Len(device) + 1
      /\ (device \o <<last>>)[Len(device) + 1] = last
  <2>1. Len(device) \in Nat /\ Len(<<last>>) = 1 /\ <<last>>[1] = last
    BY <1>5, LenProperties
  <2> QED
    BY <1>5, <2>1, ConcatProperties
<1> QED
  BY <1>3, <1>6

\* The last step of a shutdown is PROCESS_STOPPED, which is the command of no device.
LEMMA ShutdownEndsStopped == Steps.stop[Len(Steps.stop)] = ProcessStopped
<1> DEFINE n == Cardinality(Equipment)
           order == Reverse(StartupOrder)
<1>1. n \in Nat
  BY ScanAssumption, FS_CardinalityType
<1>2. Len(StartupOrder) = n
  BY <1>1 DEF StartupOrder
<1>3. DOMAIN order = 1..n
  BY <1>2 DEF Reverse
<1>4. Steps.stop = StepsOf(order, "close", ProcessStopped)
  BY DEF Steps
<1> HIDE DEF n, order
<1> QED
  BY <1>1, <1>3, <1>4, StepsEndWithLast

Commanded(p) == {e \in Pumps : p.tags[Tag(e, "cmd")]}

\* The pump whose command the startup is at.
Started(p) ==
    {e \in Pumps : /\ p.state = "starting"
                   /\ p.step.start # 0
                   /\ Steps.start[p.step.start] = Tag(e, "cmd")}

Fields == {"state", "held", "step", "tags", "on", "out", "alarms"}

Memory(p) ==
    /\ p = [f \in Fields |-> p[f]]
    /\ p.step = [key \in {"start", "stop"} |-> p.step[key]]
    /\ p.tags = [c \in Written |-> p.tags[c]]
    /\ p.on = [e \in Equipment |-> p.on[e]]

ScanInv ==
    /\ Memory(plc)
    /\ Commanded(plc) \subseteq {e \in Pumps : plc.on[e]}
    /\ \A e \in Pumps : plc.on[e] => plc.state \in {"starting", "running"}
    /\ plc.state # "starting" => plc.step.start = 0

\* The command of a pump is a tag of its own.
LEMMA CommandIsWritten ==
    ASSUME NEW e \in Pumps
    PROVE  /\ Tag(e, "cmd") \in Written
           /\ e \in Equipment
           /\ Tag(e, "cmd") # ProcessStopped
           /\ Tag(e, "cmd") # ProcessRunning
BY ScanAssumption DEF Pumps, Written, Tag, ProcessStopped, ProcessRunning

\* An operator at the modes of the control valves commands no pump.
LEMMA OperatedKeeps ==
    ASSUME NEW p, Memory(p), NEW in
    PROVE  LET q == Operated(p, in) IN
           /\ Memory(q)
           /\ Commanded(q) = Commanded(p)
           /\ \A c \in Written : c[2] # "auto" => (q.tags[c] <=> p.tags[c])
           /\ q.state = p.state /\ q.step = p.step /\ q.on = p.on /\ q.alarms = p.alarms
<1> DEFINE q == Operated(p, in)
           tags == [c \in Written |-> IF c[2] = "auto" /\ c[1] \in in.manual THEN FALSE
                                      ELSE p.tags[c] \/ (c[2] = "auto" /\ c[1] \in in.automatic)]
<1>1. q = [p EXCEPT !["tags"] = tags]
  BY DEF Operated
<1>2. ASSUME NEW e \in Pumps PROVE tags[Tag(e, "cmd")] <=> p.tags[Tag(e, "cmd")]
  <2>1. Tag(e, "cmd") \in Written /\ Tag(e, "cmd")[2] = "cmd"
    BY CommandIsWritten DEF Tag
  <2> QED
    BY <2>1
<1>3. tags = [c \in Written |-> tags[c]]
      /\ \A c \in Written : c[2] # "auto" => (tags[c] <=> p.tags[c])
  OBVIOUS
<1> HIDE DEF q, tags
<1>4. /\ q = [f \in Fields |-> q[f]] /\ q.tags = tags
      /\ q.state = p.state /\ q.step = p.step /\ q.on = p.on /\ q.alarms = p.alarms
  BY <1>1 DEF Memory, Fields
<1>5. Memory(q) /\ Commanded(q) = Commanded(p)
  BY <1>2, <1>3, <1>4 DEF Memory, Commanded
<1> QED
  BY <1>3, <1>4, <1>5 DEF q

\* Interlocks only take commands.
LEMMA InterlockedKeeps ==
    ASSUME NEW p, Memory(p), NEW in
    PROVE  LET q == Interlocked(p, in) IN
           /\ Memory(q)
           /\ Commanded(q) \subseteq Commanded(p)
           /\ q.state = p.state /\ q.step = p.step /\ q.on = p.on /\ q.alarms = p.alarms
<1> DEFINE q == Interlocked(p, in)
           tags == [c \in Written |-> p.tags[c] /\ ~(c[2] = "cmd" /\ c[1] \in in.beyond)]
<1>1. q = [p EXCEPT !["tags"] = tags]
  BY DEF Interlocked
<1>2. ASSUME NEW e \in Pumps PROVE tags[Tag(e, "cmd")] => p.tags[Tag(e, "cmd")]
  <2>1. Tag(e, "cmd") \in Written
    BY CommandIsWritten
  <2> QED
    BY <2>1
<1>3. tags = [c \in Written |-> tags[c]]
  OBVIOUS
<1> HIDE DEF q, tags
<1>4. /\ q = [f \in Fields |-> q[f]] /\ q.tags = tags
      /\ q.state = p.state /\ q.step = p.step /\ q.on = p.on /\ q.alarms = p.alarms
  BY <1>1 DEF Memory, Fields
<1>5. Memory(q) /\ Commanded(q) \subseteq Commanded(p)
  BY <1>2, <1>3, <1>4 DEF Memory, Commanded
<1> QED
  BY <1>4, <1>5 DEF q

\* A sequence gives a command only at the step of the startup that does.
LEMMA SequencedEffect ==
    ASSUME NEW p, Memory(p), NEW in, NEW key \in {"start", "stop"}
    PROVE  LET q == Sequenced(p, in, key) IN
           /\ Memory(q)
           /\ Commanded(q) \subseteq Commanded(p) \cup (IF key = "start" THEN Started(p) ELSE {})
           /\ q.state = p.state /\ q.on = p.on /\ q.alarms = p.alarms
           /\ q.step[key] = StepAfter(p, in, key)
           /\ \A other \in {"start", "stop"} \ {key} : q.step[other] = p.step[other]
<1> DEFINE q == Sequenced(p, in, key)
           n == p.step[key]
           active == n # 0 /\ key \in in.keys
                     /\ p.state = (IF key = "start" THEN "starting" ELSE "stopping")
           tags == IF active
                   THEN [p.tags EXCEPT ![Steps[key][n]] = key = "start" \/ n = Len(Steps[key])]
                   ELSE p.tags
           step == [p.step EXCEPT ![key] = StepAfter(p, in, key)]
           later == [p EXCEPT !["step"] = step]
<1>1. q = [later EXCEPT !["tags"] = tags]
  BY DEF Sequenced, Memory, Fields
<1>2. /\ step = [k \in {"start", "stop"} |-> step[k]]
      /\ step[key] = StepAfter(p, in, key)
      /\ \A other \in {"start", "stop"} \ {key} : step[other] = p.step[other]
  <2> PICK after : after = StepAfter(p, in, key)
    OBVIOUS
  <2> QED
    BY DEF Memory
<1>3. tags = [c \in Written |-> tags[c]]
  BY DEF Memory
<1>4. ASSUME NEW e \in Pumps, tags[Tag(e, "cmd")], ~p.tags[Tag(e, "cmd")]
      PROVE  key = "start" /\ e \in Started(p)
  <2>1. Tag(e, "cmd") \in Written /\ Tag(e, "cmd") # ProcessStopped
    BY CommandIsWritten
  <2>2. active /\ Steps[key][n] = Tag(e, "cmd")
    BY <1>4, <2>1 DEF Memory
  <2>3. key = "start" \/ n = Len(Steps[key])
    BY <1>4, <2>1, <2>2 DEF Memory
  <2>4. key = "start"
    <3> SUFFICES ASSUME key # "start" PROVE FALSE
      OBVIOUS
    <3>1. key = "stop" /\ n = Len(Steps.stop) /\ Steps[key][n] = Steps.stop[n]
      BY <2>3
    <3> QED
      BY <2>1, <2>2, <3>1, ShutdownEndsStopped
  <2> QED
    BY <2>2, <2>4 DEF Started
<1> HIDE DEF q, tags, step, active
<1>5. /\ later = [f \in Fields |-> later[f]] /\ later.step = step
      /\ later.state = p.state /\ later.on = p.on /\ later.alarms = p.alarms
  BY DEF Memory, Fields
<1> HIDE DEF later
<1>6. /\ q = [f \in Fields |-> q[f]] /\ q.tags = tags /\ q.step = step
      /\ q.state = p.state /\ q.on = p.on /\ q.alarms = p.alarms
  BY <1>1, <1>5 DEF Fields
<1>7. Memory(q)
  BY <1>2, <1>3, <1>6 DEF Memory
<1>8. Commanded(q) \subseteq Commanded(p) \cup (IF key = "start" THEN Started(p) ELSE {})
  BY <1>4, <1>6 DEF Commanded
<1> QED
  BY <1>2, <1>6, <1>7, <1>8 DEF q

\* A device runs only when the plant does, a pump only when it is commanded; its routine
\* writes the command that it found to be carried out.
LEMMA DrivenEffect ==
    ASSUME NEW p, Memory(p), NEW in
    PROVE  LET q == Driven(p, in) IN
           /\ Memory(q)
           /\ Commanded(q) = {e \in Pumps : q.on[e]}
           /\ \A e \in Pumps : q.on[e] => e \in Commanded(p) /\ p.state \in {"starting", "running"}
           /\ q.state = p.state /\ q.step = p.step /\ q.alarms = p.alarms
<1> DEFINE q == Driven(p, in)
           on == [e \in Equipment |-> Runs(p, in, e)]
           tags == [c \in Written |-> IF c[2] = "cmd" /\ Acts[c[1]] = "start_stop"
                                      THEN Runs(p, in, c[1]) ELSE p.tags[c]]
           later == [p EXCEPT !["on"] = on]
<1>1. q = [later EXCEPT !["tags"] = tags]
  BY DEF Driven, Memory, Fields
<1>2. ASSUME NEW e \in Pumps
      PROVE  /\ tags[Tag(e, "cmd")] <=> on[e]
             /\ on[e] => e \in Commanded(p) /\ p.state \in {"starting", "running"}
  <2>1. /\ Tag(e, "cmd") \in Written /\ Tag(e, "cmd")[2] = "cmd" /\ Tag(e, "cmd")[1] = e
        /\ e \in Equipment /\ Acts[e] = "start_stop"
    BY CommandIsWritten DEF Tag, Pumps
  <2>2. tags[Tag(e, "cmd")] = Runs(p, in, e) /\ on[e] = Runs(p, in, e)
    BY <2>1
  <2>3. Runs(p, in, e) => p.tags[Tag(e, "cmd")] /\ p.state \in {"starting", "running"}
    BY <2>1 DEF Runs
  <2> HIDE DEF tags, on
  <2> QED
    BY <2>2, <2>3 DEF Commanded
<1>3. tags = [c \in Written |-> tags[c]] /\ on = [e \in Equipment |-> on[e]]
  OBVIOUS
<1> HIDE DEF q, tags, on
<1>4. /\ later = [f \in Fields |-> later[f]] /\ later.on = on
      /\ later.state = p.state /\ later.step = p.step /\ later.alarms = p.alarms
  BY DEF Memory, Fields
<1> HIDE DEF later
<1>5. /\ q = [f \in Fields |-> q[f]] /\ q.tags = tags /\ q.on = on
      /\ q.state = p.state /\ q.step = p.step /\ q.alarms = p.alarms
  BY <1>1, <1>4 DEF Fields
<1>6. Memory(q)
  BY <1>3, <1>5 DEF Memory
<1>7. Commanded(q) = {e \in Pumps : q.on[e]}
  BY <1>2, <1>5 DEF Commanded
<1> QED
  BY <1>2, <1>5, <1>6, <1>7 DEF q

\* The scan is a chain of memories, one per block.
BlocksOf(in, p, q) == \E supervised, locked, started, stopped, driven :
    /\ Memory(supervised)
    /\ supervised.state = Supervised(p, in)
    /\ supervised.step = p.step /\ supervised.on = p.on
    /\ Commanded(supervised) = Commanded(p)
    /\ \A c \in Written : c[2] # "auto" => (supervised.tags[c] <=> p.tags[c])
    /\ locked = Interlocked(supervised, in)
    /\ started = Sequenced(locked, in, "start")
    /\ stopped = Sequenced(started, in, "stop")
    /\ driven = Driven(stopped, in)
    /\ Memory(q)
    /\ q.state = driven.state /\ q.step = driven.step /\ q.tags = driven.tags
    /\ q.on = driven.on

\* Each scan is such a chain.
LEMMA ScannedInBlocks ==
    ASSUME NEW p, Memory(p), NEW in PROVE BlocksOf(in, p, Scanned(p, in))
<1> DEFINE operated == Operated(p, in)
           supervised == [operated EXCEPT !["state"] = Supervised(p, in)]
           locked == Interlocked(supervised, in)
           started == Sequenced(locked, in, "start")
           stopped == Sequenced(started, in, "stop")
           driven == Driven(stopped, in)
           regulated == Regulated(driven, in)
           alarmed == Alarmed(regulated, in)
           q == [alarmed EXCEPT !["held"] = in.keys]
<1>1. Scanned(p, in) = q
  BY DEF Scanned
<1>2. /\ Memory(operated) /\ Commanded(operated) = Commanded(p)
      /\ \A c \in Written : c[2] # "auto" => (operated.tags[c] <=> p.tags[c])
      /\ operated.step = p.step /\ operated.on = p.on
  BY OperatedKeeps
<1>3. /\ Memory(supervised) /\ supervised.state = Supervised(p, in)
      /\ supervised.step = p.step /\ supervised.on = p.on
      /\ supervised.tags = operated.tags
  <2> HIDE DEF operated
  <2> HIDE DEF supervised
  <2>1. supervised = [operated EXCEPT !["state"] = Supervised(p, in)]
    BY DEF supervised
  <2>2. /\ supervised = [f \in Fields |-> supervised[f]] /\ supervised["state"] = Supervised(p, in)
        /\ \A f \in Fields \ {"state"} : supervised[f] = operated[f]
    BY <2>1, <1>2 DEF Memory, Fields
  <2>3. /\ supervised.step = operated.step /\ supervised.tags = operated.tags /\ supervised.on = operated.on
        /\ supervised.state = Supervised(p, in)
    BY <2>2 DEF Fields
  <2> QED
    BY <1>2, <2>2, <2>3 DEF Memory
<1>4. Commanded(supervised) = Commanded(p)
  <2> HIDE DEF supervised, operated
  <2> QED
    BY <1>2, <1>3 DEF Commanded
<1> HIDE DEF supervised, operated
<1>5. Memory(locked)
  BY <1>3, InterlockedKeeps
<1> HIDE DEF locked
<1>6. Memory(started)
  BY <1>5, SequencedEffect
<1> HIDE DEF started
<1>7. Memory(stopped)
  BY <1>6, SequencedEffect
<1> HIDE DEF stopped
<1>8. Memory(driven)
  BY <1>7, DrivenEffect
<1> HIDE DEF driven
<1>9. /\ Memory(regulated) /\ regulated.state = driven.state /\ regulated.step = driven.step
      /\ regulated.tags = driven.tags /\ regulated.on = driven.on
  <2> PICK out : out = [e \in Equipment |->
                 IF Acts[e] = "modulating" /\ in.demand # None /\ driven.tags[Tag(e, "auto")]
                 THEN in.demand ELSE driven.out[e]]
    OBVIOUS
  <2>1. regulated = [driven EXCEPT !["out"] = out]
    BY DEF Regulated
  <2> HIDE DEF regulated
  <2>2. /\ regulated = [f \in Fields |-> regulated[f]] /\ regulated["out"] = out
        /\ \A f \in Fields \ {"out"} : regulated[f] = driven[f]
    BY <2>1, <1>8 DEF Memory, Fields
  <2>3. /\ regulated.step = driven.step /\ regulated.tags = driven.tags /\ regulated.on = driven.on
        /\ regulated.out = out /\ regulated.state = driven.state
    BY <2>2 DEF Fields
  <2> QED
    BY <1>8, <2>2, <2>3 DEF Memory
<1> HIDE DEF regulated
<1>10. /\ Memory(alarmed) /\ alarmed.state = driven.state /\ alarmed.step = driven.step
       /\ alarmed.tags = driven.tags /\ alarmed.on = driven.on
  <2>1. alarmed = [regulated EXCEPT !["alarms"] = in.faults]
    BY DEF Alarmed
  <2> HIDE DEF alarmed
  <2>2. /\ alarmed = [f \in Fields |-> alarmed[f]] /\ alarmed["alarms"] = in.faults
        /\ \A f \in Fields \ {"alarms"} : alarmed[f] = regulated[f]
    BY <2>1, <1>9 DEF Memory, Fields
  <2>3. /\ alarmed.step = regulated.step /\ alarmed.tags = regulated.tags /\ alarmed.on = regulated.on
        /\ alarmed.alarms = in.faults /\ alarmed.state = regulated.state
    BY <2>2 DEF Fields
  <2> QED
    BY <1>9, <2>2, <2>3 DEF Memory
<1> HIDE DEF alarmed
<1> HIDE DEF q
<1>11. /\ Memory(q) /\ q.state = driven.state /\ q.step = driven.step
       /\ q.tags = driven.tags /\ q.on = driven.on
  <2>1. q = [alarmed EXCEPT !["held"] = in.keys]
    BY DEF q
  <2>2. /\ q = [f \in Fields |-> q[f]] /\ q["held"] = in.keys
        /\ \A f \in Fields \ {"held"} : q[f] = alarmed[f]
    BY <2>1, <1>10 DEF Memory, Fields
  <2>3. /\ q.step = alarmed.step /\ q.tags = alarmed.tags /\ q.on = alarmed.on
        /\ q.held = in.keys /\ q.state = alarmed.state
    BY <2>2 DEF Fields
  <2> QED
    BY <1>10, <2>2, <2>3 DEF Memory
<1> QED
  <2>1. \A c \in Written : c[2] # "auto" => (supervised.tags[c] <=> p.tags[c])
    BY <1>2, <1>3
  <2> QED
    BY <1>1, <1>3, <1>4, <1>11, <2>1 DEF BlocksOf, locked, started, stopped, driven

\* One scan: the invariant holds after it, and a pump that runs after it ran before or is
\* started by its step, with no alarm.
LEMMA ScanEffect ==
    ASSUME ScanInv, NEW in, Scan(in)
    PROVE  /\ ScanInv'
           /\ \A e \in Pumps : plc'.on[e] =>
                /\ plc.on[e] \/ (/\ plc'.state = "starting"
                                 /\ plc.step.start # 0
                                 /\ Steps.start[plc.step.start] = Tag(e, "cmd"))
                /\ plc.alarms = {}
<1> PICK p : p = plc
  OBVIOUS
<1> PICK q : q = plc'
  OBVIOUS
<1>1. BlocksOf(in, p, q)
  BY ScannedInBlocks DEF Scan, ScanInv
<1>2. PICK supervised, locked, started, stopped, driven :
    /\ Memory(supervised)
    /\ supervised.state = Supervised(p, in)
    /\ supervised.step = p.step /\ supervised.on = p.on
    /\ Commanded(supervised) = Commanded(p)
    /\ \A c \in Written : c[2] # "auto" => (supervised.tags[c] <=> p.tags[c])
    /\ locked = Interlocked(supervised, in)
    /\ started = Sequenced(locked, in, "start")
    /\ stopped = Sequenced(started, in, "stop")
    /\ driven = Driven(stopped, in)
    /\ Memory(q)
    /\ q.state = driven.state /\ q.step = driven.step /\ q.tags = driven.tags
    /\ q.on = driven.on
  BY <1>1 DEF BlocksOf
<1>3. /\ Memory(locked) /\ Commanded(locked) \subseteq Commanded(p)
      /\ locked.state = Supervised(p, in) /\ locked.step = p.step
  BY <1>2, InterlockedKeeps
<1>4. /\ Memory(started) /\ Commanded(started) \subseteq Commanded(p) \cup Started(locked)
      /\ started.state = Supervised(p, in)
      /\ started.step.start = StepAfter(locked, in, "start")
  BY <1>2, <1>3, SequencedEffect
<1>5. /\ Memory(stopped) /\ Commanded(stopped) \subseteq Commanded(started)
      /\ stopped.state = Supervised(p, in)
      /\ stopped.step.start = StepAfter(locked, in, "start")
  BY <1>2, <1>4, SequencedEffect
<1>6. /\ Memory(driven) /\ Commanded(driven) = {e \in Pumps : driven.on[e]}
      /\ \A e \in Pumps : driven.on[e] =>
            e \in Commanded(stopped) /\ stopped.state \in {"starting", "running"}
      /\ driven.state = stopped.state /\ driven.step = stopped.step
  BY <1>2, <1>5, DrivenEffect
<1>7. /\ Commanded(q) = {e \in Pumps : q.on[e]}
      /\ q.state = Supervised(p, in) /\ q.step.start = StepAfter(locked, in, "start")
      /\ \A e \in Pumps : q.on[e] =>
            /\ q.state \in {"starting", "running"}
            /\ e \in Commanded(p) \/ e \in Started(locked)
  BY <1>2, <1>4, <1>5, <1>6 DEF Commanded
<1>8. q.state # "starting" => q.step.start = 0
  BY <1>3, <1>7 DEF StepAfter
<1>9. Memory(q) /\ Memory(p)
  BY <1>2 DEF ScanInv
<1>10. ScanInv'
  BY <1>7, <1>8, <1>9 DEF ScanInv
<1>11. ASSUME NEW e \in Pumps, q.on[e]
       PROVE  /\ p.on[e] \/ (/\ q.state = "starting"
                             /\ p.step.start # 0
                             /\ Steps.start[p.step.start] = Tag(e, "cmd"))
              /\ p.alarms = {}
  <2>1. e \in Commanded(p) => p.on[e]
    BY DEF ScanInv
  <2>2. e \in Started(locked) => /\ q.state = "starting"
                                 /\ p.step.start # 0
                                 /\ Steps.start[p.step.start] = Tag(e, "cmd")
    BY <1>3, <1>7 DEF Started
  <2>3. p.on[e] => p.state \in {"starting", "running"}
    BY DEF ScanInv
  <2>4. p.step.start # 0 => p.state = "starting"
    BY DEF ScanInv
  <2>5. p.state \in {"starting", "running"}
    BY <1>7, <1>11, <2>1, <2>2, <2>3, <2>4
  <2>6. p.alarms # {} => Supervised(p, in) = "fault"
    BY <2>5 DEF Supervised
  <2> QED
    BY <1>7, <1>11, <2>1, <2>2, <2>6
<1> QED
  BY <1>10, <1>11

\* The invariant of a scan, over every plant and every inputs.
LEMMA ScanInvariant == ScanSpec => []ScanInv
<1>1. ScanInit => ScanInv
  <2> SUFFICES ASSUME ScanInit PROVE ScanInv
    OBVIOUS
  <2>1. /\ Memory(plc) /\ plc.state = "stopped" /\ plc.step.start = 0
        /\ \A c \in Written : ~plc.tags[c]
        /\ \A e \in Equipment : ~plc.on[e]
    BY DEF ScanInit, Memory, Fields
  <2> QED
    BY <2>1, CommandIsWritten DEF ScanInv, Commanded
<1>2. ScanInv /\ [ScanNext]_plc => ScanInv'
  <2> SUFFICES ASSUME ScanInv, [ScanNext]_plc PROVE ScanInv'
    OBVIOUS
  <2>1. CASE ScanNext
    BY <2>1, ScanEffect DEF ScanNext
  <2>2. CASE UNCHANGED plc
    BY <2>2 DEF ScanInv
  <2> QED
    BY <2>1, <2>2
<1> QED
  BY <1>1, <1>2, PTL DEF ScanSpec

\* A pump that was stopped does not start by itself when the cause has gone, and none runs in
\* the scan after a fault alarm.
THEOREM PumpsStaySafe == ScanSpec => PumpsAreSafe
<1>1. ScanInv /\ [ScanNext]_plc =>
        [\A e \in Pumps : plc'.on[e] =>
            /\ plc.on[e] \/ (/\ plc'.state = "starting"
                             /\ plc.step.start # 0
                             /\ Steps.start[plc.step.start] = Tag(e, "cmd"))
            /\ plc.alarms = {}]_plc
  BY ScanEffect DEF ScanNext
<1> QED
  BY <1>1, ScanInvariant, PTL DEF ScanSpec, PumpsAreSafe

\* A memory after one of its fields was given a value.
LEMMA Put ==
    ASSUME NEW p, p = [f \in Fields |-> p[f]], NEW g \in Fields, NEW v
    PROVE  LET q == [p EXCEPT ![g] = v] IN
           /\ q = [f \in Fields |-> q[f]] /\ q[g] = v
           /\ \A f \in Fields \ {g} : q[f] = p[f]
  OBVIOUS

\* Two sequences one after the other.
LEMMA TwoJoined ==
    ASSUME NEW T, NEW s \in Seq(T), NEW t \in Seq(T), t # <<>>
    PROVE  /\ Len(s) \in Nat /\ Len(s \o t) \in Nat /\ Len(s) + 1 \in 1..Len(s \o t)
           /\ (s \o t)[Len(s) + 1] = t[1]
           /\ \A m \in 1..Len(s) : m \in 1..Len(s \o t) /\ (s \o t)[m] = s[m]
<1>1. Len(s) \in Nat /\ Len(t) \in Nat \ {0}
  OBVIOUS
<1>2. /\ Len(s \o t) = Len(s) + Len(t)
      /\ \A m \in 1..(Len(s) + Len(t)) : (s \o t)[m] = IF m <= Len(s) THEN s[m] ELSE t[m - Len(s)]
  OBVIOUS
<1> PICK a : a = Len(s)
  OBVIOUS
<1> PICK b : b = Len(t)
  OBVIOUS
<1>3. a + 1 \in 1..(a + b) /\ ~(a + 1 <= a) /\ a + 1 - a = 1 /\ a + b \in Nat
      /\ \A m \in 1..a : m \in 1..(a + b) /\ m <= a
  BY <1>1
<1> QED
  BY <1>1, <1>2, <1>3

\* Sequences of T, none of them empty.
Parts(seqs, n, T) == \A i \in 1..n : seqs[i] \in Seq(T) /\ seqs[i] # <<>>

\* A sequence has an item.
Has(seq, item) == \E m \in 1..Len(seq) : seq[m] = item

\* A sequence that is joined first is in what is joined.
LEMMA JoinedCovers ==
    ASSUME NEW T, NEW n \in Nat, NEW seqs, Parts(seqs, n, T),
           NEW f, Joined(seqs, f, n), NEW i \in 1..n
    PROVE  \A k \in i..n : \E m \in 1..Len(f[k]) : f[k][m] = seqs[i][1]
<1> DEFINE Bad == {k \in i..n : ~ \E m \in 1..Len(f[k]) : f[k][m] = seqs[i][1]}
<1> SUFFICES ASSUME Bad # {} PROVE FALSE
  OBVIOUS
<1>1. Bad \in SUBSET Nat
  OBVIOUS
<1>2. PICK k \in Bad : \A j \in Bad : k <= j
  BY <1>1, Least
<1>3. /\ k \in 1..n /\ k \in Nat /\ i \in Nat /\ i <= k
      /\ ~ \E m \in 1..Len(f[k]) : f[k][m] = seqs[i][1]
  OBVIOUS
<1>4. f[k] = IF k = 1 THEN seqs[k] ELSE f[k - 1] \o seqs[k]
  BY <1>3 DEF Joined
<1>5. /\ Len(seqs[k]) \in Nat \ {0} /\ seqs[k] \in Seq(T)
      /\ seqs[k] # <<>>
  BY <1>3 DEF Parts
<1>6. CASE k = 1
  BY <1>3, <1>4, <1>5, <1>6
<1>7. CASE k # 1
  <2>1. k - 1 \in 1..n
    BY <1>3, <1>7
  <2>2. f[k - 1] \in Seq(T)
    BY <2>1, JoinedIsSeq DEF Parts
  <2>3. f[k] = f[k - 1] \o seqs[k]
    BY <1>4, <1>7
  <2> PICK g : g = f[k - 1]
    OBVIOUS
  <2> PICK t : t = seqs[k]
    OBVIOUS
  <2>6. g \in Seq(T) /\ t \in Seq(T) /\ t # <<>> /\ f[k] = g \o t
    BY <1>3, <1>5, <2>2, <2>3
  <2>7. /\ Len(g) + 1 \in 1..Len(f[k]) /\ f[k][Len(g) + 1] = t[1]
        /\ \A m \in 1..Len(g) : m \in 1..Len(f[k]) /\ f[k][m] = g[m]
    <3>1. /\ Len(g) + 1 \in 1..Len(g \o t) /\ (g \o t)[Len(g) + 1] = t[1]
          /\ \A m \in 1..Len(g) : m \in 1..Len(g \o t) /\ (g \o t)[m] = g[m]
      BY ONLY <2>6, TwoJoined
    <3> QED
      BY ONLY <2>6, <3>1
  <2>4. CASE k = i
    BY <1>3, <2>7, <2>4
  <2>5. CASE k # i
    <3>1. k - 1 \in i..n /\ k - 1 < k
      BY <1>3, <2>5
    <3>2. k - 1 \notin Bad
      BY SMTT(60), <1>2, <1>3, <3>1
    <3>3. PICK m \in 1..Len(g) : g[m] = seqs[i][1]
      BY <3>1, <3>2
    <3> QED
      BY <1>3, <2>7, <3>3
  <2> QED
    BY <2>4, <2>5
<1> QED
  BY <1>6, <1>7

\* FlattenSeq keeps the first of each of the sequences that it joins.
LEMMA FlattenedCovers ==
    ASSUME NEW T, NEW n \in Nat, NEW seqs, seqs = [i \in 1..n |-> seqs[i]],
           Parts(seqs, n, T), NEW i \in 1..n
    PROVE  Has(FlattenSeq(seqs), seqs[i][1])
<1>1. Len(seqs) = n /\ n # 0
  OBVIOUS
<1> DEFINE f == CHOOSE f : Joined(seqs, f, n)
<1>2. Joined(seqs, f, n)
  BY JoinedExists
<1>3. FlattenSeq(seqs) = f[n]
  BY <1>1 DEF FlattenSeq, Joined
<1>4. n \in i..n
  BY <1>1
<1> HIDE DEF f
<1>5. \A k \in i..n : \E m \in 1..Len(f[k]) : f[k][m] = seqs[i][1]
  BY <1>2, JoinedCovers
<1> QED
  BY <1>3, <1>4, <1>5 DEF Has

\* The devices that start before e.
Before(e) == {d \in Equipment : Sooner(d, e)}

\* The startup order has every device, and nothing else.
LEMMA OrderHasAll ==
    /\ Cardinality(Equipment) \in Nat /\ Len(StartupOrder) = Cardinality(Equipment)
    /\ DOMAIN StartupOrder = 1..Cardinality(Equipment)
    /\ \A n \in 1..Cardinality(Equipment) : StartupOrder[n] \in Equipment
    /\ \A e \in Equipment : \E n \in 1..Cardinality(Equipment) : StartupOrder[n] = e
<1> PICK N : N = Cardinality(Equipment)
  OBVIOUS
<1>1. N \in Nat /\ IsFiniteSet(Equipment)
  BY ScanAssumption, FS_CardinalityType
<1>2. \A e \in Equipment : e \in Nat /\ Rank(e) \in Nat
  BY ScanAssumption DEF Rank
<1>3. ASSUME NEW d \in Equipment, NEW e \in Equipment, Sooner(d, e)
      PROVE  Before(d) \subseteq Before(e) /\ d \in Before(e) /\ d \notin Before(d)
  BY <1>2, <1>3 DEF Before, Sooner
<1>4. ASSUME NEW e \in Equipment
      PROVE  /\ IsFiniteSet(Before(e)) /\ Cardinality(Before(e)) \in 0..(N - 1)
             /\ \A d \in Equipment : Sooner(d, e) =>
                    Cardinality(Before(d)) < Cardinality(Before(e))
  <2>1. Before(e) \in SUBSET Equipment /\ e \notin Before(e)
    BY <1>2 DEF Before, Sooner
  <2>2. IsFiniteSet(Before(e)) /\ Cardinality(Before(e)) <= N /\ Cardinality(Before(e)) # N
    BY <1>1, <2>1, FS_Subset
  <2>3. Cardinality(Before(e)) \in Nat
    BY <2>2, FS_CardinalityType
  <2>4. ASSUME NEW d \in Equipment, Sooner(d, e)
        PROVE  Cardinality(Before(d)) < Cardinality(Before(e))
    <3>1. Before(d) \in SUBSET Before(e) /\ Before(d) # Before(e)
      BY <1>3, <2>4
    <3>2. /\ IsFiniteSet(Before(d)) /\ Cardinality(Before(d)) <= Cardinality(Before(e))
          /\ Cardinality(Before(d)) # Cardinality(Before(e))
      BY <2>2, <3>1, FS_Subset
    <3>3. Cardinality(Before(d)) \in Nat
      BY <3>2, FS_CardinalityType
    <3> QED
      BY <2>3, <3>2, <3>3
  <2> QED
    BY <1>1, <2>2, <2>3, <2>4
<1>5. ASSUME NEW d \in Equipment, NEW e \in Equipment, d # e PROVE Sooner(d, e) \/ Sooner(e, d)
  BY <1>2, <1>5 DEF Sooner
<1>6. ASSUME NEW d \in Equipment, NEW e \in Equipment, Cardinality(Before(d)) = Cardinality(Before(e))
      PROVE  d = e
  BY <1>4, <1>5, <1>6
<1> DEFINE f == [e \in Equipment |-> Cardinality(Before(e))]
<1>7. f \in Injection(Equipment, 0..(N - 1))
  <2>1. f \in [Equipment -> 0..(N - 1)]
    BY <1>4
  <2>2. \A d, e \in Equipment : f[d] = f[e] => d = e
    BY <1>6
  <2> HIDE DEF f
  <2> QED
    <3>1. IsInjective(f)
      BY <2>1, <2>2 DEF IsInjective
    <3>2. f \in {g \in [Equipment -> 0..(N - 1)] : IsInjective(g)}
      BY <2>1, <3>1
    <3> QED
      BY <3>2 DEF Injection
<1>8. IsFiniteSet(0..(N - 1)) /\ Cardinality(0..(N - 1)) = N
  <2> PICK b : b = N - 1
    OBVIOUS
  <2>1. b \in Int /\ 0 \in Int /\ N = IF 0 > b THEN 0 ELSE (b - 0) + 1
    BY <1>1
  <2>2. IsFiniteSet(0..b) /\ Cardinality(0..b) = IF 0 > b THEN 0 ELSE (b - 0) + 1
    BY ONLY <2>1, FS_Interval
  <2> QED
    BY <2>1, <2>2
<1>9. f \in Surjection(Equipment, 0..(N - 1))
  <2> HIDE DEF f
  <2> QED
    BY <1>1, <1>7, <1>8, FS_Injection
<1>10. ASSUME NEW n \in 1..N
       PROVE  /\ StartupOrder[n] \in Equipment
              /\ \A e \in Equipment : Cardinality(Before(e)) = n - 1 => StartupOrder[n] = e
  <2>1. StartupOrder[n] = CHOOSE e \in Equipment : Cardinality(Before(e)) = n - 1
    BY DEF StartupOrder, Before
  <2>2. n - 1 \in 0..(N - 1)
    BY <1>1
  <2>3. \E e \in Equipment : Cardinality(Before(e)) = n - 1
    BY <1>9, <2>2 DEF Surjection
  <2> PICK g : g = StartupOrder[n]
    OBVIOUS
  <2>4. g \in Equipment /\ Cardinality(Before(g)) = n - 1
    BY <2>1, <2>3
  <2> QED
    BY <1>6, <2>4
<1>11. ASSUME NEW e \in Equipment PROVE \E n \in 1..N : StartupOrder[n] = e
  <2> PICK n : n = Cardinality(Before(e)) + 1
    OBVIOUS
  <2>1. n \in 1..N /\ n - 1 = Cardinality(Before(e))
    BY <1>1, <1>4
  <2> QED
    BY <1>10, <2>1
<1>12. DOMAIN StartupOrder = 1..N /\ Len(StartupOrder) = N
  BY <1>1 DEF StartupOrder
<1> QED
  BY <1>1, <1>10, <1>11, <1>12

\* What a sequence commands before its last step.
Commands(preferred) ==
    {Tag(e, "cmd") : e \in Equipment}
    \cup {Tag(e, preferred) : e \in {d \in Equipment : Acts[d] = "open_close"}}
    \cup {Tag(e, "auto") : e \in {d \in Equipment : Acts[d] = "modulating"}}

\* An order has every device and nothing else.
Orders(order, n) ==
    /\ DOMAIN order = 1..n
    /\ \A i \in 1..n : order[i] \in Equipment
    /\ \A e \in Equipment : \E i \in 1..n : order[i] = e

\* A sequence of steps that ends with the last one, commands every device before it, and
\* nothing but devices.
Commanding(steps, preferred, last) ==
    /\ Len(steps) \in Nat \ {0} /\ steps[Len(steps)] = last
    /\ \A i \in 1..(Len(steps) - 1) : steps[i] \in Commands(preferred)
    /\ \A e \in Equipment : \E i \in 1..(Len(steps) - 1) : steps[i] = Tag(e, "cmd")

\* A sequence ends with its last step; before it every device gets its command, and no step
\* is but a command.
LEMMA StepsAre ==
    ASSUME NEW n \in Nat, NEW order, Orders(order, n), NEW preferred, NEW last
    PROVE  Commanding(StepsOf(order, preferred, last), preferred, last)
<1> DEFINE T == Commands(preferred)
           seqs == [i \in 1..n |-> Stepped(order[i], preferred)]
           device == FlattenSeq(seqs)
<1>1. ASSUME NEW e \in Equipment
      PROVE  /\ Stepped(e, preferred) \in Seq(T) /\ Stepped(e, preferred) # <<>>
             /\ Stepped(e, preferred)[1] = Tag(e, "cmd")
  <2>1. Acts[e] \in {"open_close", "start_stop", "modulating"}
    BY ScanAssumption
  <2>2. /\ Tag(e, "cmd") \in T
        /\ Acts[e] = "modulating" => Tag(e, "auto") \in T
        /\ Acts[e] = "open_close" => Tag(e, preferred) \in T
    BY DEF Commands
  <2> HIDE DEF T
  <2> PICK a, b : a = Tag(e, "cmd") /\ b = Tag(e, IF Acts[e] = "modulating" THEN "auto" ELSE preferred)
    OBVIOUS
  <2>3. Acts[e] = "start_stop" => Stepped(e, preferred) = <<a>>
    BY DEF Stepped
  <2>4. Acts[e] # "start_stop" => Stepped(e, preferred) = <<a, b>> /\ b \in T
    BY <2>1, <2>2 DEF Stepped
  <2>5. a \in T /\ a = Tag(e, "cmd")
    BY <2>2
  <2> PICK s : s = Stepped(e, preferred)
    OBVIOUS
  <2>6. s = <<a>> \/ (s = <<a, b>> /\ b \in T)
    BY <2>3, <2>4
  <2>7. s \in Seq(T) /\ s # <<>> /\ s[1] = a
    <3>1. CASE s = <<a>>
      BY ONLY <2>5, <3>1
    <3>2. CASE s = <<a, b>> /\ b \in T
      BY ONLY <2>5, <3>2
    <3> QED
      BY <2>6, <3>1, <3>2
  <2> QED
    BY <2>5, <2>7
<1>p. seqs = [i \in 1..n |-> seqs[i]]
  OBVIOUS
<1>c. ASSUME NEW i \in 1..n
      PROVE  seqs[i] \in Seq(T) /\ seqs[i] # <<>> /\ seqs[i][1] = Tag(order[i], "cmd")
  <2> PICK e : e = order[i]
    OBVIOUS
  <2>1. e \in Equipment /\ seqs[i] = Stepped(e, preferred)
    BY DEF Orders
  <2> HIDE DEF seqs, T
  <2>2. /\ Stepped(e, preferred) \in Seq(T) /\ Stepped(e, preferred) # <<>>
        /\ Stepped(e, preferred)[1] = Tag(e, "cmd")
    BY <1>1, <2>1
  <2> PICK s : s = Stepped(e, preferred)
    OBVIOUS
  <2>3. seqs[i] = s /\ Tag(e, "cmd") = Tag(order[i], "cmd")
    BY <2>1
  <2>4. s \in Seq(T) /\ s # <<>> /\ s[1] = Tag(e, "cmd")
    BY <2>2
  <2> QED
    BY ONLY <2>3, <2>4
<1>3. StepsOf(order, preferred, last) = device \o <<last>>
  <2>1. DOMAIN order = 1..n
    BY DEF Orders
  <2> QED
    BY <2>1 DEF StepsOf
<1> HIDE DEF seqs, T
<1>2. Parts(seqs, n, T)
  BY <1>c DEF Parts
<1>4. device \in Seq(T)
  <2>1. \A i \in 1..n : seqs[i] \in Seq(T)
    BY <1>c
  <2> QED
    BY ONLY n \in Nat, <1>p, <2>1, FlattenedIsSeq
<1>5. ASSUME NEW e \in Equipment PROVE \E m \in 1..Len(device) : device[m] = Tag(e, "cmd")
  <2>1. PICK i \in 1..n : order[i] = e
    BY DEF Orders
  <2> QED
    <3>1. Has(FlattenSeq(seqs), seqs[i][1])
      BY ONLY n \in Nat, <1>p, <1>2, FlattenedCovers
    <3> QED
      BY <1>c, <2>1, <3>1 DEF Has
<1> HIDE DEF device
<1>6. Len(device) \in Nat /\ \A m \in 1..Len(device) : device[m] \in T
  BY <1>4
<1>7. device \in Seq(T \cup {last}) /\ <<last>> \in Seq(T \cup {last})
  BY <1>4
<1> PICK steps : steps = device \o <<last>>
  OBVIOUS
<1>8. /\ Len(steps) = Len(device) + 1 /\ steps[Len(device) + 1] = last
      /\ \A m \in 1..Len(device) : steps[m] = device[m]
  <2>1. Len(<<last>>) = 1 /\ <<last>>[1] = last
    OBVIOUS
  <2> QED
    BY <1>6, <1>7, <2>1, ConcatProperties
<1>9. 1..(Len(steps) - 1) = 1..Len(device) /\ Len(steps) \in Nat \ {0}
  BY <1>6, <1>8
<1>10. /\ steps[Len(steps)] = last
       /\ \A i \in 1..(Len(steps) - 1) : steps[i] \in T
       /\ \A e \in Equipment : \E i \in 1..(Len(steps) - 1) : steps[i] = Tag(e, "cmd")
  BY <1>5, <1>6, <1>8, <1>9
<1> QED
  BY <1>3, <1>9, <1>10 DEF T, Commanding

\* The steps of a startup and of a shutdown.
LEMMA StartSteps == Commanding(Steps.start, "open", ProcessRunning)
<1>1. Steps.start = StepsOf(StartupOrder, "open", ProcessRunning)
  BY DEF Steps
<1>2. Cardinality(Equipment) \in Nat /\ Orders(StartupOrder, Cardinality(Equipment))
  BY OrderHasAll DEF Orders
<1> QED
  BY <1>1, <1>2, StepsAre

LEMMA StopSteps == Commanding(Steps.stop, "close", ProcessStopped)
<1> PICK n : n = Cardinality(Equipment)
  OBVIOUS
<1> PICK order : order = Reverse(StartupOrder)
  OBVIOUS
<1>1. Steps.stop = StepsOf(order, "close", ProcessStopped)
  BY DEF Steps
<1>2. n \in Nat /\ order = [i \in 1..n |-> StartupOrder[(n - i) + 1]]
  BY OrderHasAll DEF Reverse
<1>3. ASSUME NEW i \in 1..n PROVE (n - i) + 1 \in 1..n /\ (n - ((n - i) + 1)) + 1 = i
  BY <1>2
<1>4. DOMAIN order = 1..n /\ \A i \in 1..n : order[i] \in Equipment
  BY <1>2, <1>3, OrderHasAll
<1>5. ASSUME NEW e \in Equipment PROVE \E i \in 1..n : order[i] = e
  <2>1. PICK j \in 1..n : StartupOrder[j] = e
    BY OrderHasAll
  <2>2. (n - j) + 1 \in 1..n /\ order[(n - j) + 1] = StartupOrder[j]
    BY SMTT(60), <1>2, <1>3
  <2> QED
    BY <2>1, <2>2
<1>6. Orders(order, n)
  BY <1>4, <1>5 DEF Orders
<1> QED
  BY <1>1, <1>2, <1>6, StepsAre

\* Two memories that differ in no field but these.
Other(p, q, fields) ==
    /\ q = [f \in Fields |-> q[f]]
    /\ \A f \in Fields \ fields : q[f] = p[f]

\* When nothing is wrong, the operator and the interlocks leave every tag alone.
LEMMA OperatedWell ==
    ASSUME NEW p, Memory(p), NEW keys
    PROVE  LET q == Operated(p, Good(keys)) IN
           Memory(q) /\ Other(p, q, {"tags"}) /\ \A c \in Written : q.tags[c] <=> p.tags[c]
<1> DEFINE q == Operated(p, Good(keys))
           tags == [c \in Written |-> IF c[2] = "auto" /\ c[1] \in {} THEN FALSE
                                      ELSE p.tags[c] \/ (c[2] = "auto" /\ c[1] \in {})]
<1>1. q = [p EXCEPT !["tags"] = tags]
  BY DEF Operated, Good
<1>2. tags = [c \in Written |-> tags[c]] /\ \A c \in Written : tags[c] <=> p.tags[c]
  OBVIOUS
<1> HIDE DEF q, tags
<1>3. p = [f \in Fields |-> p[f]] /\ "tags" \in Fields
  BY DEF Memory, Fields
<1>4. q = [f \in Fields |-> q[f]] /\ q["tags"] = tags /\ \A f \in Fields \ {"tags"} : q[f] = p[f]
  BY <1>1, <1>3, Put
<1>5. q.tags = tags /\ q.step = p.step /\ q.on = p.on
  BY <1>4 DEF Fields
<1>6. Memory(q) /\ Other(p, q, {"tags"})
  BY <1>2, <1>4, <1>5 DEF Memory, Other
<1> QED
  BY <1>2, <1>5, <1>6 DEF q

LEMMA InterlockedWell ==
    ASSUME NEW p, Memory(p), NEW keys
    PROVE  LET q == Interlocked(p, Good(keys)) IN
           Memory(q) /\ Other(p, q, {"tags"}) /\ \A c \in Written : q.tags[c] <=> p.tags[c]
<1> DEFINE q == Interlocked(p, Good(keys))
           tags == [c \in Written |-> p.tags[c] /\ ~(c[2] = "cmd" /\ c[1] \in {})]
<1>1. q = [p EXCEPT !["tags"] = tags]
  BY DEF Interlocked, Good
<1>2. tags = [c \in Written |-> tags[c]] /\ \A c \in Written : tags[c] <=> p.tags[c]
  OBVIOUS
<1> HIDE DEF q, tags
<1>3. p = [f \in Fields |-> p[f]] /\ "tags" \in Fields
  BY DEF Memory, Fields
<1>4. q = [f \in Fields |-> q[f]] /\ q["tags"] = tags /\ \A f \in Fields \ {"tags"} : q[f] = p[f]
  BY <1>1, <1>3, Put
<1>5. q.tags = tags /\ q.step = p.step /\ q.on = p.on
  BY <1>4 DEF Fields
<1>6. Memory(q) /\ Other(p, q, {"tags"})
  BY <1>2, <1>4, <1>5 DEF Memory, Other
<1> QED
  BY <1>2, <1>5, <1>6 DEF q

\* A sequence writes its step and, when it is active, the tag of the step it was in.
Active(p, in, key) ==
    /\ p.step[key] # 0 /\ key \in in.keys
    /\ p.state = (IF key = "start" THEN "starting" ELSE "stopping")

LEMMA SequencedWrites ==
    ASSUME NEW p, Memory(p), NEW in, NEW key \in {"start", "stop"}
    PROVE  LET q == Sequenced(p, in, key)
               n == p.step[key] IN
           /\ Memory(q) /\ Other(p, q, {"step", "tags"})
           /\ q.step[key] = StepAfter(p, in, key)
           /\ \A other \in {"start", "stop"} \ {key} : q.step[other] = p.step[other]
           /\ ~Active(p, in, key) => q.tags = p.tags
           /\ Active(p, in, key) =>
                \A c \in Written : q.tags[c] = IF c = Steps[key][n]
                                               THEN key = "start" \/ n = Len(Steps[key])
                                               ELSE p.tags[c]
<1> DEFINE q == Sequenced(p, in, key)
           n == p.step[key]
           active == n # 0 /\ key \in in.keys
                     /\ p.state = (IF key = "start" THEN "starting" ELSE "stopping")
           tags == IF active
                   THEN [p.tags EXCEPT ![Steps[key][n]] = key = "start" \/ n = Len(Steps[key])]
                   ELSE p.tags
           step == [p.step EXCEPT ![key] = StepAfter(p, in, key)]
           later == [p EXCEPT !["step"] = step]
<1>1. q = [later EXCEPT !["tags"] = tags]
  BY DEF Sequenced, Memory, Fields
<1>2. /\ step = [k \in {"start", "stop"} |-> step[k]]
      /\ step[key] = StepAfter(p, in, key)
      /\ \A other \in {"start", "stop"} \ {key} : step[other] = p.step[other]
  <2> PICK after : after = StepAfter(p, in, key)
    OBVIOUS
  <2> QED
    BY DEF Memory
<1>3. tags = [c \in Written |-> tags[c]]
  BY DEF Memory
<1>4. Active(p, in, key) <=> active
  BY DEF Active
<1>5. ~active => tags = p.tags
  OBVIOUS
<1>6. active => \A c \in Written : tags[c] = IF c = Steps[key][n]
                                             THEN key = "start" \/ n = Len(Steps[key])
                                             ELSE p.tags[c]
  BY DEF Memory
<1> HIDE DEF q, tags, step, active
<1>7. p = [f \in Fields |-> p[f]] /\ "step" \in Fields /\ "tags" \in Fields
  BY DEF Memory, Fields
<1>8. later = [f \in Fields |-> later[f]] /\ later["step"] = step
      /\ \A f \in Fields \ {"step"} : later[f] = p[f]
  BY <1>7, Put
<1> HIDE DEF later
<1>9. q = [f \in Fields |-> q[f]] /\ q["tags"] = tags
      /\ \A f \in Fields \ {"tags"} : q[f] = later[f]
  BY <1>1, <1>7, <1>8, Put
<1>10. q.tags = tags /\ q.step = step /\ q.on = p.on
  BY <1>8, <1>9 DEF Fields
<1>11. Memory(q) /\ Other(p, q, {"step", "tags"})
  BY <1>2, <1>3, <1>8, <1>9, <1>10 DEF Memory, Other
<1> QED
  BY <1>2, <1>4, <1>5, <1>6, <1>10, <1>11 DEF q

\* The routines write what runs, and the commands of the pumps.
LEMMA DrivenWrites ==
    ASSUME NEW p, Memory(p), NEW in
    PROVE  LET q == Driven(p, in) IN
           /\ Memory(q) /\ Other(p, q, {"on", "tags"})
           /\ \A e \in Equipment : q.on[e] = Runs(p, in, e)
           /\ \A c \in Written : q.tags[c] = IF c[2] = "cmd" /\ Acts[c[1]] = "start_stop"
                                             THEN Runs(p, in, c[1]) ELSE p.tags[c]
<1> DEFINE q == Driven(p, in)
           on == [e \in Equipment |-> Runs(p, in, e)]
           tags == [c \in Written |-> IF c[2] = "cmd" /\ Acts[c[1]] = "start_stop"
                                      THEN Runs(p, in, c[1]) ELSE p.tags[c]]
           later == [p EXCEPT !["on"] = on]
<1>1. q = [later EXCEPT !["tags"] = tags]
  BY DEF Driven, Memory, Fields
<1>2. /\ tags = [c \in Written |-> tags[c]] /\ on = [e \in Equipment |-> on[e]]
      /\ \A e \in Equipment : on[e] = Runs(p, in, e)
      /\ \A c \in Written : tags[c] = IF c[2] = "cmd" /\ Acts[c[1]] = "start_stop"
                                      THEN Runs(p, in, c[1]) ELSE p.tags[c]
  OBVIOUS
<1> HIDE DEF q, tags, on
<1>3. p = [f \in Fields |-> p[f]] /\ "on" \in Fields /\ "tags" \in Fields
  BY DEF Memory, Fields
<1>4. later = [f \in Fields |-> later[f]] /\ later["on"] = on
      /\ \A f \in Fields \ {"on"} : later[f] = p[f]
  BY <1>3, Put
<1> HIDE DEF later
<1>5. q = [f \in Fields |-> q[f]] /\ q["tags"] = tags
      /\ \A f \in Fields \ {"tags"} : q[f] = later[f]
  BY <1>1, <1>3, <1>4, Put
<1>6. q.tags = tags /\ q.step = p.step /\ q.on = on
  BY <1>4, <1>5 DEF Fields
<1>7. Memory(q) /\ Other(p, q, {"on", "tags"})
  BY <1>2, <1>4, <1>5, <1>6 DEF Memory, Other
<1> QED
  BY <1>2, <1>6, <1>7 DEF q

\* What the sequences make of a tag in a scan in which nothing is wrong.
TagAfter(p, keys, c) ==
    LET s == Supervised(p, Good(keys))
        n == p.step.start
        m == p.step.stop
    IN  IF s = "stopping" /\ "stop" \in keys /\ m # 0 /\ c = Steps.stop[m]
        THEN m = Len(Steps.stop)
        ELSE p.tags[c] \/ (s = "starting" /\ "start" \in keys /\ n # 0 /\ c = Steps.start[n])

\* A device that nothing keeps from running runs when it is commanded.
Wanted(p, keys, e) ==
    /\ Supervised(p, Good(keys)) \in {"running", "starting"}
    /\ CASE Acts[e] = "modulating" -> TRUE
         [] Acts[e] = "open_close" ->
                TagAfter(p, keys, Tag(e, "open")) \/ TagAfter(p, keys, Tag(e, "cmd"))
         [] OTHER -> TagAfter(p, keys, Tag(e, "cmd"))

\* A memory after a scan in which nothing is wrong.
ScannedWell(p, keys, q) ==
    LET s == Supervised(p, Good(keys))
        n == p.step.start
        m == p.step.stop
    IN  /\ Memory(q) /\ q.state = s /\ q.held = keys /\ q.alarms = {}
        /\ q.step.start = IF s # "starting" \/ "start" \notin keys THEN 0
                          ELSE IF n = 0 THEN (IF "start" \notin p.held THEN 1 ELSE 0)
                          ELSE IF n = Len(Steps.start) THEN 0
                          ELSE IF p.on[Steps.start[n][1]] THEN n + 1 ELSE n
        /\ q.step.stop = IF s # "stopping" \/ "stop" \notin keys THEN 0
                         ELSE IF m = 0 THEN (IF "stop" \notin p.held THEN 1 ELSE 0)
                         ELSE IF m = Len(Steps.stop) THEN 0 ELSE m + 1
        /\ \A e \in Equipment : q.on[e] <=> Wanted(p, keys, e)
        /\ \A c \in Written : q.tags[c] <=> IF c[2] = "cmd" /\ Acts[c[1]] = "start_stop"
                                            THEN Wanted(p, keys, c[1]) ELSE TagAfter(p, keys, c)

\* A scan that nothing troubles does what ScannedWell says of it.
LEMMA GoodScan ==
    ASSUME NEW p, Memory(p), NEW keys
    PROVE  ScannedWell(p, keys, Scanned(p, Good(keys)))
<1> DEFINE in == Good(keys)
           s == Supervised(p, in)
           operated == Operated(p, in)
           supervised == [operated EXCEPT !["state"] = s]
           locked == Interlocked(supervised, in)
           started == Sequenced(locked, in, "start")
           stopped == Sequenced(started, in, "stop")
           driven == Driven(stopped, in)
           out == [e \in Equipment |-> IF Acts[e] = "modulating" /\ in.demand # None
                                          /\ driven.tags[Tag(e, "auto")]
                                       THEN in.demand ELSE driven.out[e]]
           regulated == [driven EXCEPT !["out"] = out]
           alarmed == [regulated EXCEPT !["alarms"] = {}]
           q == [alarmed EXCEPT !["held"] = keys]
<1>1. Scanned(p, in) = q
  BY DEF Scanned, Regulated, Alarmed, Good
<1>2. Memory(operated) /\ Other(p, operated, {"tags"})
      /\ \A c \in Written : operated.tags[c] <=> p.tags[c]
  BY OperatedWell
<1> HIDE DEF operated
<1> HIDE DEF s
<1>3. /\ supervised = [f \in Fields |-> supervised[f]] /\ supervised["state"] = s
      /\ \A f \in Fields \ {"state"} : supervised[f] = operated[f]
  <2>1. operated = [f \in Fields |-> operated[f]] /\ "state" \in Fields
    BY <1>2 DEF Memory, Fields
  <2> QED
    BY <2>1, Put
<1> HIDE DEF supervised
<1>4. /\ Memory(supervised) /\ supervised.state = s /\ supervised.step = p.step
      /\ supervised.on = p.on /\ supervised.held = p.held
      /\ \A c \in Written : supervised.tags[c] <=> p.tags[c]
  <2>1. /\ supervised.state = s /\ supervised.step = operated.step /\ supervised.on = operated.on
        /\ supervised.tags = operated.tags /\ supervised.held = operated.held
    BY <1>3 DEF Fields
  <2>2. operated.step = p.step /\ operated.on = p.on /\ operated.held = p.held
    BY <1>2 DEF Other, Fields
  <2> QED
    BY <1>2, <1>3, <2>1, <2>2 DEF Memory
<1>5. /\ Memory(locked) /\ Other(supervised, locked, {"tags"})
      /\ \A c \in Written : locked.tags[c] <=> supervised.tags[c]
  BY <1>4, InterlockedWell
<1> HIDE DEF locked
<1>6. /\ locked.state = s /\ locked.step = p.step /\ locked.on = p.on /\ locked.held = p.held
      /\ \A c \in Written : locked.tags[c] <=> p.tags[c]
  BY <1>4, <1>5 DEF Other, Fields
<1>7. /\ Memory(started) /\ Other(locked, started, {"step", "tags"})
      /\ started.step.start = StepAfter(locked, in, "start") /\ started.step.stop = p.step.stop
      /\ ~Active(locked, in, "start") => started.tags = locked.tags
      /\ Active(locked, in, "start") =>
            \A c \in Written : started.tags[c] = IF c = Steps.start[p.step.start] THEN TRUE
                                                 ELSE locked.tags[c]
  <2>1. /\ Memory(started) /\ Other(locked, started, {"step", "tags"})
        /\ started.step["start"] = StepAfter(locked, in, "start")
        /\ \A other \in {"start", "stop"} \ {"start"} : started.step[other] = locked.step[other]
        /\ ~Active(locked, in, "start") => started.tags = locked.tags
        /\ Active(locked, in, "start") =>
              \A c \in Written : started.tags[c] =
                  IF c = Steps["start"][locked.step["start"]]
                  THEN "start" = "start" \/ locked.step["start"] = Len(Steps["start"])
                  ELSE locked.tags[c]
    <3>1. "start" \in {"start", "stop"}
      OBVIOUS
    <3> HIDE DEF in
    <3> QED
      BY ONLY <1>5, <3>1, SequencedWrites DEF started
  <2> HIDE DEF started
  <2>2. started.step.stop = locked.step.stop
    BY <2>1
  <2> QED
    BY <1>6, <2>1, <2>2
<1> HIDE DEF started
<1>8. started.state = s /\ started.on = p.on /\ started.held = p.held
  BY <1>6, <1>7 DEF Other, Fields
<1>9. /\ Memory(stopped) /\ Other(started, stopped, {"step", "tags"})
      /\ stopped.step.stop = StepAfter(started, in, "stop")
      /\ stopped.step.start = started.step.start
      /\ ~Active(started, in, "stop") => stopped.tags = started.tags
      /\ Active(started, in, "stop") =>
            \A c \in Written : stopped.tags[c] = IF c = Steps.stop[p.step.stop]
                                                 THEN p.step.stop = Len(Steps.stop)
                                                 ELSE started.tags[c]
  BY <1>7, SequencedWrites
<1> HIDE DEF stopped
<1>10. stopped.state = s
  BY <1>8, <1>9 DEF Other, Fields
<1>11. /\ Memory(driven) /\ Other(stopped, driven, {"on", "tags"})
       /\ \A e \in Equipment : driven.on[e] = Runs(stopped, in, e)
       /\ \A c \in Written : driven.tags[c] = IF c[2] = "cmd" /\ Acts[c[1]] = "start_stop"
                                              THEN Runs(stopped, in, c[1]) ELSE stopped.tags[c]
  BY <1>9, DrivenWrites
<1> HIDE DEF driven
<1>12. driven.state = s /\ driven.step = stopped.step
  BY <1>10, <1>11 DEF Other, Fields
<1>13. Memory(q) /\ q.state = s /\ q.step = stopped.step /\ q.on = driven.on
       /\ q.tags = driven.tags /\ q.held = keys /\ q.alarms = {}
  <2> HIDE DEF out
  <2>1. /\ regulated = [f \in Fields |-> regulated[f]]
        /\ \A f \in Fields \ {"out"} : regulated[f] = driven[f]
    <3>1. driven = [f \in Fields |-> driven[f]] /\ "out" \in Fields
      BY <1>11 DEF Memory, Fields
    <3> QED
      BY <3>1, Put
  <2> HIDE DEF regulated
  <2>2. /\ alarmed = [f \in Fields |-> alarmed[f]] /\ alarmed["alarms"] = {}
        /\ \A f \in Fields \ {"alarms"} : alarmed[f] = regulated[f]
    <3>1. "alarms" \in Fields
      BY DEF Fields
    <3> QED
      BY <2>1, <3>1, Put
  <2> HIDE DEF alarmed
  <2>3. /\ q = [f \in Fields |-> q[f]] /\ q["held"] = keys
        /\ \A f \in Fields \ {"held"} : q[f] = alarmed[f]
    <3>1. "held" \in Fields
      BY DEF Fields
    <3> QED
      BY <2>2, <3>1, Put
  <2> HIDE DEF q
  <2>4. /\ q.state = driven.state /\ q.step = driven.step /\ q.on = driven.on
        /\ q.tags = driven.tags /\ q.held = keys /\ q.alarms = {}
    BY <2>1, <2>2, <2>3 DEF Fields
  <2> QED
    BY <1>11, <1>12, <2>3, <2>4 DEF Memory
<1> HIDE DEF q
<1>14. ASSUME NEW c \in Written PROVE stopped.tags[c] <=> TagAfter(p, keys, c)
  <2>1. Active(locked, in, "start") <=> s = "starting" /\ "start" \in keys /\ p.step.start # 0
    BY <1>6 DEF Active, Good
  <2>2. Active(started, in, "stop") <=> s = "stopping" /\ "stop" \in keys /\ p.step.stop # 0
    BY <1>7, <1>8 DEF Active, Good
  <2>3. started.tags[c] <=> \/ p.tags[c]
                            \/ s = "starting" /\ "start" \in keys /\ p.step.start # 0
                               /\ c = Steps.start[p.step.start]
    BY <1>6, <1>7, <2>1
  <2> QED
    BY <1>9, <2>2, <2>3 DEF TagAfter, s
<1>15. ASSUME NEW e \in Equipment PROVE Runs(stopped, in, e) <=> Wanted(p, keys, e)
  <2>1. Tag(e, "cmd") \in Written /\ Tag(e, "open") \in Written
    BY DEF Tag, Written
  <2>2. /\ stopped.tags[Tag(e, "cmd")] <=> TagAfter(p, keys, Tag(e, "cmd"))
        /\ stopped.tags[Tag(e, "open")] <=> TagAfter(p, keys, Tag(e, "open"))
    BY <1>14, <2>1
  <2>3. Acts[e] \in {"open_close", "start_stop", "modulating"}
    BY ScanAssumption
  <2> QED
    BY <1>10, <2>2, <2>3 DEF Runs, Wanted, Good, s
<1>16. \A e \in Equipment : q.on[e] <=> Wanted(p, keys, e)
  BY <1>11, <1>13, <1>15
<1>17. ASSUME NEW c \in Written
       PROVE  q.tags[c] <=> IF c[2] = "cmd" /\ Acts[c[1]] = "start_stop"
                            THEN Wanted(p, keys, c[1]) ELSE TagAfter(p, keys, c)
  <2>1. c[2] = "cmd" => c[1] \in Equipment
    BY DEF Written, ProcessRunning, ProcessStopped, Tag
  <2> QED
    BY <1>11, <1>13, <1>14, <1>15, <2>1
<1>18. q.step.start = IF s # "starting" \/ "start" \notin keys THEN 0
                      ELSE IF p.step.start = 0 THEN (IF "start" \notin p.held THEN 1 ELSE 0)
                      ELSE IF p.step.start = Len(Steps.start) THEN 0
                      ELSE IF p.on[Steps.start[p.step.start][1]] THEN p.step.start + 1
                      ELSE p.step.start
  <2>1. q.step.start = StepAfter(locked, in, "start")
    BY <1>7, <1>9, <1>13
  <2> QED
    BY <1>6, <2>1 DEF StepAfter, Rises, Transition, Good
<1>19. q.step.stop = IF s # "stopping" \/ "stop" \notin keys THEN 0
                     ELSE IF p.step.stop = 0 THEN (IF "stop" \notin p.held THEN 1 ELSE 0)
                     ELSE IF p.step.stop = Len(Steps.stop) THEN 0 ELSE p.step.stop + 1
  <2>1. q.step.stop = StepAfter(started, in, "stop")
    BY <1>9, <1>13
  <2> QED
    BY <1>7, <1>8, <2>1 DEF StepAfter, Rises, Transition, Good
<1>20. ScannedWell(p, keys, q)
  BY <1>13, <1>16, <1>17, <1>18, <1>19 DEF ScannedWell, s
<1> QED
  BY <1>1, <1>20

\* A shutdown's step is kept only while the plant stops, and no valve is told to close.
EndInv ==
    /\ ScanInv
    /\ plc.state # "stopping" => plc.step.stop = 0
    /\ plc.step.start \in 0..Len(Steps.start) /\ plc.step.stop \in 0..Len(Steps.stop)
    /\ \A e \in Equipment : ~plc.tags[Tag(e, "close")]

\* No step of a startup closes, and a shutdown sets but its last tag.
LEMMA NoneCloses ==
    ASSUME NEW e \in Equipment
    PROVE  /\ Tag(e, "close") \in Written
           /\ \A n \in 1..Len(Steps.start) : Steps.start[n] # Tag(e, "close")
           /\ Tag(e, "close") # ProcessStopped
<1>1. \A d, f : \A name \in {"cmd", "open", "auto", "running", "stopped"} :
          Tag(d, name) # Tag(f, "close")
  BY DEF Tag
<1>2. ASSUME NEW n \in 1..Len(Steps.start) PROVE Steps.start[n] # Tag(e, "close")
  <2>1. Len(Steps.start) \in Nat \ {0}
    BY StartSteps DEF Commanding
  <2>2. n = Len(Steps.start) \/ n \in 1..(Len(Steps.start) - 1)
    BY <2>1
  <2>3. Steps.start[n] = ProcessRunning \/ Steps.start[n] \in Commands("open")
    BY <2>2, StartSteps DEF Commanding
  <2> QED
    BY <1>1, <2>3 DEF Commands, ProcessRunning
<1> QED
  BY <1>1, <1>2 DEF Written, Tag, ProcessStopped

\* The step after a scan is a step of the sequence.
LEMMA StepStays ==
    ASSUME NEW p, NEW in, NEW key \in {"start", "stop"}, p.step[key] \in 0..Len(Steps[key])
    PROVE  StepAfter(p, in, key) \in 0..Len(Steps[key])
<1>1. Len(Steps[key]) \in Nat \ {0}
  BY StartSteps, StopSteps DEF Commanding
<1> QED
  BY <1>1 DEF StepAfter

\* What is known of the sequences is known after a scan of any inputs.
LEMMA EndEffect == ASSUME EndInv, NEW in, Scan(in) PROVE EndInv'
<1> PICK p : p = plc
  OBVIOUS
<1> PICK q : q = plc'
  OBVIOUS
<1>1. BlocksOf(in, p, q)
  BY ScannedInBlocks DEF Scan, ScanInv, EndInv
<1>2. PICK supervised, locked, started, stopped, driven :
    /\ Memory(supervised)
    /\ supervised.state = Supervised(p, in)
    /\ supervised.step = p.step /\ supervised.on = p.on
    /\ Commanded(supervised) = Commanded(p)
    /\ \A c \in Written : c[2] # "auto" => (supervised.tags[c] <=> p.tags[c])
    /\ locked = Interlocked(supervised, in)
    /\ started = Sequenced(locked, in, "start")
    /\ stopped = Sequenced(started, in, "stop")
    /\ driven = Driven(stopped, in)
    /\ Memory(q)
    /\ q.state = driven.state /\ q.step = driven.step /\ q.tags = driven.tags
    /\ q.on = driven.on
  BY <1>1 DEF BlocksOf
<1>3. /\ Memory(locked) /\ locked.step = p.step
      /\ \A c \in Written : locked.tags[c] => supervised.tags[c]
  <2>1. Memory(locked) /\ locked.step = p.step
    BY <1>2, InterlockedKeeps
  <2>2. locked = [supervised EXCEPT !["tags"] =
                    [c \in Written |-> supervised.tags[c] /\ ~(c[2] = "cmd" /\ c[1] \in in.beyond)]]
    BY <1>2 DEF Interlocked
  <2>3. locked.tags = [c \in Written |-> supervised.tags[c] /\ ~(c[2] = "cmd" /\ c[1] \in in.beyond)]
    BY <1>2, <2>2 DEF Memory, Fields
  <2> QED
    BY <2>1, <2>3
<1>s. "start" \in {"start", "stop"} /\ "stop" \in {"start", "stop"}
  OBVIOUS
<1>4. /\ Memory(started) /\ Other(locked, started, {"step", "tags"})
      /\ started.step["start"] = StepAfter(locked, in, "start")
      /\ \A other \in {"start", "stop"} \ {"start"} : started.step[other] = locked.step[other]
      /\ ~Active(locked, in, "start") => started.tags = locked.tags
      /\ Active(locked, in, "start") =>
            \A c \in Written : started.tags[c] =
                IF c = Steps["start"][locked.step["start"]]
                THEN "start" = "start" \/ locked.step["start"] = Len(Steps["start"])
                ELSE locked.tags[c]
  BY ONLY <1>2, <1>3, <1>s, SequencedWrites
<1>5. /\ Memory(stopped) /\ Other(started, stopped, {"step", "tags"})
      /\ stopped.step["stop"] = StepAfter(started, in, "stop")
      /\ \A other \in {"start", "stop"} \ {"stop"} : stopped.step[other] = started.step[other]
      /\ ~Active(started, in, "stop") => stopped.tags = started.tags
      /\ Active(started, in, "stop") =>
            \A c \in Written : stopped.tags[c] =
                IF c = Steps["stop"][started.step["stop"]]
                THEN "stop" = "start" \/ started.step["stop"] = Len(Steps["stop"])
                ELSE started.tags[c]
  BY ONLY <1>2, <1>4, <1>s, SequencedWrites
<1>6. /\ Other(stopped, driven, {"on", "tags"})
      /\ \A c \in Written : driven.tags[c] = IF c[2] = "cmd" /\ Acts[c[1]] = "start_stop"
                                             THEN Runs(stopped, in, c[1]) ELSE stopped.tags[c]
  BY ONLY <1>2, <1>5, DrivenWrites
<1>7. /\ q.step.start = StepAfter(locked, in, "start") /\ q.step.stop = StepAfter(started, in, "stop")
      /\ q.state = started.state
  BY <1>2, <1>4, <1>5, <1>6 DEF Other, Fields
<1>8. q.step.start \in 0..Len(Steps.start) /\ q.step.stop \in 0..Len(Steps.stop)
  <2>1. locked.step["start"] \in 0..Len(Steps["start"]) /\ started.step["stop"] \in 0..Len(Steps["stop"])
    BY <1>3, <1>4 DEF EndInv
  <2>2. /\ StepAfter(locked, in, "start") \in 0..Len(Steps["start"])
        /\ StepAfter(started, in, "stop") \in 0..Len(Steps["stop"])
    BY ONLY <2>1, <1>s, StepStays
  <2> QED
    BY <1>7, <2>2
<1>9. q.state # "stopping" => q.step.stop = 0
  BY <1>7 DEF StepAfter
<1>10. ASSUME NEW e \in Equipment PROVE ~q.tags[Tag(e, "close")]
  <2> PICK c : c = Tag(e, "close")
    OBVIOUS
  <2>1. c \in Written /\ c[2] = "close" /\ ~p.tags[c]
    BY NoneCloses DEF EndInv, Tag
  <2>2. ~locked.tags[c]
    BY <1>2, <1>3, <2>1
  <2>3. ~started.tags[c]
    <3>1. locked.step["start"] \in 0..Len(Steps.start)
      BY <1>3 DEF EndInv
    <3>2. Active(locked, in, "start") => c # Steps.start[locked.step["start"]]
      BY <3>1, NoneCloses DEF Active
    <3> QED
      BY <1>4, <2>1, <2>2, <3>2
  <2>4. ~stopped.tags[c]
    <3>1. CASE Active(started, in, "stop") /\ c = Steps.stop[started.step["stop"]]
      <4>1. started.step["stop"] # Len(Steps.stop)
        BY <3>1, NoneCloses, StopSteps DEF Commanding
      <4>2. stopped.tags[c] = ("stop" = "start" \/ started.step["stop"] = Len(Steps.stop))
        BY <1>5, <2>1, <3>1
      <4> QED
        BY <4>1, <4>2
    <3>2. CASE ~(Active(started, in, "stop") /\ c = Steps.stop[started.step["stop"]])
      BY <1>5, <2>1, <2>3, <3>2
    <3> QED
      BY <3>1, <3>2
  <2> QED
    BY <1>2, <1>6, <2>1, <2>4
<1>11. ScanInv'
  BY ScanEffect DEF EndInv
<1> QED
  BY <1>8, <1>9, <1>10, <1>11 DEF EndInv

\* A tag that is commanded, of a device, is one of the memory, and no other.
LEMMA CommandsWritten ==
    ASSUME NEW c \in Commands("open") \cup Commands("close")
    PROVE  /\ c \in Written /\ c # ProcessRunning /\ c # ProcessStopped
           /\ c[1] \in Equipment /\ c = Tag(c[1], c[2])
<1>1. PICK e \in Equipment, name \in {"cmd", "open", "close", "auto"} : c = Tag(e, name)
  BY DEF Commands
<1>2. e # 0
  BY ScanAssumption
<1>3. c = <<e, name>> /\ c[1] = e /\ c[2] = name
  BY <1>1 DEF Tag
<1>4. c \in Written
  BY <1>1 DEF Written, Tag
<1> QED
  BY <1>1, <1>2, <1>3, <1>4 DEF Tag, ProcessRunning, ProcessStopped

\* The steps of a startup: commands of devices, then PROCESS_RUNNING.
LEMMA StartStep ==
    /\ Len(Steps.start) \in Nat \ {0}
    /\ Steps.start[Len(Steps.start)] = ProcessRunning /\ ProcessRunning \in Written
    /\ \A n \in 1..Len(Steps.start) :
        /\ Steps.start[n] \in Written
        /\ n # Len(Steps.start) =>
            /\ Steps.start[n] \in Commands("open")
            /\ Steps.start[n] # ProcessRunning /\ Steps.start[n][1] \in Equipment
    /\ \A e \in Equipment : \E n \in 1..(Len(Steps.start) - 1) : Steps.start[n] = Tag(e, "cmd")
<1> PICK L : L = Len(Steps.start)
  OBVIOUS
<1>1. /\ L \in Nat \ {0} /\ Steps.start[L] = ProcessRunning
      /\ \A i \in 1..(L - 1) : Steps.start[i] \in Commands("open")
      /\ \A e \in Equipment : \E i \in 1..(L - 1) : Steps.start[i] = Tag(e, "cmd")
  BY StartSteps DEF Commanding
<1>2. ProcessRunning \in Written
  BY DEF Written
<1>3. ASSUME NEW n \in 1..L, n # L
      PROVE  /\ Steps.start[n] \in Commands("open") /\ Steps.start[n] \in Written
             /\ Steps.start[n] # ProcessRunning /\ Steps.start[n][1] \in Equipment
  <2>1. n \in 1..(L - 1)
    BY <1>1, <1>3
  <2>2. Steps.start[n] \in Commands("open")
    BY <1>1, <2>1
  <2> QED
    BY <2>2, CommandsWritten
<1> QED
  BY <1>1, <1>2, <1>3

\* A device whose step has set its tag runs while the plant does.
LEMMA StepRuns ==
    ASSUME NEW p, NEW keys, Supervised(p, Good(keys)) \in {"running", "starting"},
           NEW c \in Commands("open"), TagAfter(p, keys, c)
    PROVE  Wanted(p, keys, c[1])
<1>1. \/ \E e \in Equipment : c = Tag(e, "cmd")
      \/ \E e \in Equipment : c = Tag(e, "open") /\ Acts[e] = "open_close"
      \/ \E e \in Equipment : c = Tag(e, "auto") /\ Acts[e] = "modulating"
  BY DEF Commands
<1>2. \A e, name : Tag(e, name)[1] = e
  BY DEF Tag
<1>3. \A e \in Equipment : Acts[e] \in {"open_close", "start_stop", "modulating"}
  BY ScanAssumption
<1> QED
  BY <1>1, <1>2, <1>3 DEF Wanted

\* While the plant starts or runs and nothing is wrong, what is commanded stays commanded.
LEMMA TagsStay ==
    ASSUME NEW p, NEW q, NEW keys, ScannedWell(p, keys, q),
           Supervised(p, Good(keys)) \in {"running", "starting"}
    PROVE  /\ \A c \in Written : TagAfter(p, keys, c) => q.tags[c]
           /\ \A c \in Written : p.tags[c] => TagAfter(p, keys, c)
           /\ q.tags[ProcessRunning] <=> TagAfter(p, keys, ProcessRunning)
<1>1. ASSUME NEW c \in Written, p.tags[c] PROVE TagAfter(p, keys, c)
  BY <1>1 DEF TagAfter
<1>2. ASSUME NEW c \in Written, TagAfter(p, keys, c) PROVE q.tags[c]
  <2>1. CASE c[2] = "cmd" /\ Acts[c[1]] = "start_stop"
    <3>1. c[1] \in Equipment /\ c = Tag(c[1], "cmd")
      BY <2>1 DEF Written, ProcessRunning, ProcessStopped, Tag
    <3>2. Wanted(p, keys, c[1])
      BY <1>2, <2>1, <3>1 DEF Wanted
    <3> QED
      BY <2>1, <3>2 DEF ScannedWell
  <2>2. CASE ~(c[2] = "cmd" /\ Acts[c[1]] = "start_stop")
    BY <1>2, <2>2 DEF ScannedWell
  <2> QED
    BY <2>1, <2>2
<1>3. q.tags[ProcessRunning] <=> TagAfter(p, keys, ProcessRunning)
  <2>1. ProcessRunning \in Written /\ ProcessRunning[2] # "cmd"
    BY DEF Written, ProcessRunning, Tag
  <2> QED
    BY <2>1 DEF ScannedWell
<1> QED
  BY <1>1, <1>2, <1>3

\* The plant runs, and every device is commanded.
UpAndRunning(p) ==
    /\ p.state = "running"
    /\ \A e \in Equipment : p.tags[Tag(e, "cmd")]
    /\ \A e \in Equipment : p.on[e]

\* The plant starts, and has done the steps before this one; 0 is after the last.
StepsDone(p, m) ==
    /\ p.state = "starting"
    /\ p.step.start = m
    /\ p.tags[ProcessRunning] <=> m = 0
    /\ \A i \in 1..Len(Steps.start) : (m = 0 \/ i < m) => p.tags[Steps.start[i]]

\* A startup after k scans in which nothing was wrong: each step takes no more than two.
Up(p, k) ==
    /\ Memory(p) /\ p.alarms = {} /\ p.held = {"start"}
    /\ \/ UpAndRunning(p)
       \/ StepsDone(p, 0) /\ k <= 2 * Len(Steps.start) - 1
       \/ \E m \in 1..Len(Steps.start) :
            /\ StepsDone(p, m)
            /\ \/ k <= 2 * (m - 1)
               \/ m # Len(Steps.start) /\ k <= 2 * m - 1 /\ p.on[Steps.start[m][1]]

\* A scan with the start command held brings the startup one step on.
LEMMA UpGoesOn ==
    ASSUME NEW p, NEW q, NEW k \in Nat, Up(p, k), ScannedWell(p, {"start"}, q)
    PROVE  Up(q, k + 1)
<1> DEFINE keys == {"start"}
<1> PICK L : L = Len(Steps.start)
  OBVIOUS
<1> PICK s : s = Supervised(p, Good(keys))
  OBVIOUS
<1>1. /\ p.state = "running" => s = "running"
      /\ p.state = "starting" => s = IF p.tags[ProcessRunning] THEN "running" ELSE "starting"
  BY DEF Up, Supervised, Rises, Good
<1>2. Memory(q) /\ q.state = s /\ q.held = {"start"} /\ q.alarms = {}
  BY DEF ScannedWell
<1>3. L \in Nat \ {0} /\ \A e \in Equipment : Tag(e, "cmd") \in Written
  BY StartStep DEF Written, Tag
<1>4. ASSUME s = "running", \A e \in Equipment : p.tags[Tag(e, "cmd")]
      PROVE  UpAndRunning(q)
  <2>1. \A e \in Equipment : TagAfter(p, keys, Tag(e, "cmd")) /\ q.tags[Tag(e, "cmd")]
    BY <1>3, <1>4, TagsStay
  <2>2. \A e \in Equipment : Wanted(p, keys, e)
    BY <1>4, <2>1 DEF Wanted
  <2> QED
    BY <1>2, <1>4, <2>1, <2>2 DEF UpAndRunning, ScannedWell
<1>5. CASE UpAndRunning(p)
  BY <1>1, <1>2, <1>4, <1>5 DEF UpAndRunning, Up
<1>6. CASE StepsDone(p, 0) /\ k <= 2 * L - 1
  <2>1. s = "running"
    BY <1>1, <1>6 DEF StepsDone
  <2>2. \A e \in Equipment : p.tags[Tag(e, "cmd")]
    <3> TAKE e \in Equipment
    <3>1. PICK n \in 1..(L - 1) : Steps.start[n] = Tag(e, "cmd")
      BY StartStep
    <3>2. n \in 1..L
      BY <1>3
    <3> QED
      BY <1>6, <3>1, <3>2 DEF StepsDone
  <2> QED
    BY <1>2, <1>4, <2>1, <2>2 DEF Up
<1>7. ASSUME NEW m \in 1..L, StepsDone(p, m),
             \/ k <= 2 * (m - 1)
             \/ m # L /\ k <= 2 * m - 1 /\ p.on[Steps.start[m][1]]
      PROVE  Up(q, k + 1)
  <2>1. m # 0 /\ s = "starting" /\ p.step.start = m
    BY <1>1, <1>7 DEF StepsDone
  <2>2. q.step.start = IF m = L THEN 0 ELSE IF p.on[Steps.start[m][1]] THEN m + 1 ELSE m
    BY <2>1 DEF ScannedWell
  <2>3. TagAfter(p, keys, Steps.start[m])
    BY <2>1 DEF TagAfter
  <2>4. \A i \in 1..L : i <= m => q.tags[Steps.start[i]]
    <3> TAKE i \in 1..L
    <3>1. ASSUME i <= m PROVE TagAfter(p, keys, Steps.start[i])
      <4>1. CASE i = m
        BY <2>3, <4>1
      <4>2. CASE i # m
        <5>1. i < m
          BY <3>1, <4>2, <1>3
        <5>2. p.tags[Steps.start[i]] /\ Steps.start[i] \in Written
          BY <1>7, <5>1, StartStep DEF StepsDone
        <5> QED
          BY <2>1, <5>2, TagsStay
      <4> QED
        BY <4>1, <4>2
    <3> QED
      BY <2>1, <3>1, StartStep, TagsStay
  <2>5. q.tags[ProcessRunning] <=> m = L
    <3>1. q.tags[ProcessRunning] <=> TagAfter(p, keys, ProcessRunning)
      BY <2>1, TagsStay
    <3>2. TagAfter(p, keys, ProcessRunning) <=> ProcessRunning = Steps.start[m]
      BY <1>7, <2>1 DEF TagAfter, StepsDone
    <3>3. ProcessRunning = Steps.start[m] <=> m = L
      BY StartStep
    <3> QED
      BY <3>1, <3>2, <3>3
  <2>6. m # L => q.on[Steps.start[m][1]]
    <3> SUFFICES ASSUME m # L PROVE q.on[Steps.start[m][1]]
      OBVIOUS
    <3> PICK c : c = Steps.start[m]
      OBVIOUS
    <3>1. c \in Commands("open") /\ c[1] \in Equipment /\ TagAfter(p, keys, c)
      BY <2>3, StartStep
    <3>2. Supervised(p, Good(keys)) \in {"running", "starting"}
      BY <2>1
    <3>3. Wanted(p, keys, c[1])
      BY <3>1, <3>2, StepRuns
    <3> QED
      BY <3>1, <3>3 DEF ScannedWell
  <2>7. CASE m = L
    <3>1. StepsDone(q, 0)
      BY <1>2, <1>3, <2>1, <2>2, <2>4, <2>5, <2>7 DEF StepsDone
    <3>2. k + 1 <= 2 * L - 1
      BY <1>3, <1>7, <2>7
    <3> QED
      BY <1>2, <3>1, <3>2 DEF Up
  <2>8. CASE m # L /\ p.on[Steps.start[m][1]]
    <3>1. StepsDone(q, m + 1) /\ m + 1 \in 1..L
      <4>1. m + 1 \in 1..L /\ m + 1 # 0 /\ \A i \in 1..L : i < m + 1 => i <= m
        BY <1>3, <2>8
      <4> QED
        BY <1>2, <1>3, <2>1, <2>2, <2>4, <2>5, <2>8, <4>1 DEF StepsDone
    <3>2. k + 1 <= 2 * ((m + 1) - 1)
      BY <1>3, <1>7
    <3> QED
      BY <1>2, <3>1, <3>2 DEF Up
  <2>9. CASE m # L /\ ~p.on[Steps.start[m][1]]
    <3>1. StepsDone(q, m)
      <4>1. \A i \in 1..L : i < m => i <= m
        BY <1>3
      <4> QED
        BY <1>2, <2>1, <2>2, <2>4, <2>5, <2>9, <4>1 DEF StepsDone
    <3>2. k + 1 <= 2 * m - 1
      BY <1>3, <1>7, <2>9
    <3> QED
      BY <1>2, <2>6, <2>9, <3>1, <3>2 DEF Up
  <2> QED
    BY <2>7, <2>8, <2>9
<1> QED
  BY <1>5, <1>6, <1>7 DEF Up

\* The recursion of After: f has the memory after each of the first n scans.
Scans(p, keys, f, n) ==
    f = [i \in 0..n |-> IF i = 0 THEN p ELSE Scanned(f[i - 1], Good(keys))]

\* Any number of scans can follow each other.
LEMMA ScansExist ==
    ASSUME NEW n \in Nat, NEW p, NEW keys PROVE \E f : Scans(p, keys, f, n)
<1> DEFINE Bad == {k \in Nat : ~ \E f : Scans(p, keys, f, k)}
<1> SUFFICES ASSUME Bad # {} PROVE FALSE
  OBVIOUS
<1>1. Bad \in SUBSET Nat
  OBVIOUS
<1>2. PICK k \in Bad : \A j \in Bad : k <= j
  BY <1>1, Least
<1>3. k \in Nat /\ ~ \E f : Scans(p, keys, f, k)
  OBVIOUS
<1>4. CASE k = 0
  <2>1. \A i \in 0..0 : i = 0
    OBVIOUS
  <2>2. Scans(p, keys, [i \in 0..0 |-> p], 0)
    BY <2>1 DEF Scans
  <2> QED
    BY <1>3, <1>4, <2>2
<1>5. CASE k # 0
  <2>1. k - 1 \in Nat /\ k - 1 < k
    BY <1>3, <1>5
  <2>2. PICK f : Scans(p, keys, f, k - 1)
    BY <2>1, <1>2, <1>3
  <2> DEFINE g == [i \in 0..k |-> IF i < k THEN f[i] ELSE Scanned(f[i - 1], Good(keys))]
  <2>3. \A j \in 0..k : j < k => g[j] = f[j]
    OBVIOUS
  <2>4. g[k] = Scanned(f[k - 1], Good(keys))
    BY <1>3
  <2>5. g = [i \in 0..k |-> g[i]]
    OBVIOUS
  <2> HIDE DEF g
  <2>6. ASSUME NEW i \in 0..k PROVE g[i] = IF i = 0 THEN p ELSE Scanned(g[i - 1], Good(keys))
    <3>1. CASE i = k
      <4>1. k - 1 \in 0..k /\ k - 1 < k
        BY <1>3, <1>5
      <4>2. g[k - 1] = f[k - 1]
        BY <2>3, <4>1
      <4> QED
        BY <1>5, <2>4, <3>1, <4>2
    <3>2. CASE i # k
      <4>1. i \in 0..(k - 1) /\ i < k /\ (i # 0 => i - 1 \in 0..k /\ i - 1 < k)
        BY <3>2, <1>3
      <4>2. f[i] = IF i = 0 THEN p ELSE Scanned(f[i - 1], Good(keys))
        BY <2>2, <4>1 DEF Scans
      <4>3. g[i] = f[i] /\ (i # 0 => g[i - 1] = f[i - 1])
        BY <2>3, <4>1
      <4> QED
        BY <4>2, <4>3
    <3> QED
      BY <3>1, <3>2
  <2>7. Scans(p, keys, g, k)
    BY <2>6, <2>5 DEF Scans
  <2> QED
    BY <2>7, <1>3
<1> QED
  BY <1>4, <1>5

\* After has the last of these memories.
LEMMA AfterScans ==
    ASSUME NEW n \in Nat, NEW p, NEW keys
    PROVE  \E f : /\ f[0] = p /\ After(p, keys, n) = f[n]
                  /\ \A i \in 1..n : f[i] = Scanned(f[i - 1], Good(keys))
<1> DEFINE f == CHOOSE f : Scans(p, keys, f, n)
<1>1. Scans(p, keys, f, n)
  BY ScansExist
<1>2. After(p, keys, n) = f[n]
  BY DEF After, Scans
<1> HIDE DEF f
<1>3. \A i \in 0..n : f[i] = IF i = 0 THEN p ELSE Scanned(f[i - 1], Good(keys))
  BY <1>1 DEF Scans
<1>4. f[0] = p
  BY <1>3
<1>5. \A i \in 1..n : f[i] = Scanned(f[i - 1], Good(keys))
  BY <1>3
<1> QED
  BY <1>2, <1>4, <1>5

\* The first startup: it begins with the first scan, and goes on to its end.
LEMMA StartupEnds ==
    ASSUME NEW p, Memory(p), p.state = "stopped", "start" \notin p.held, p.alarms = {},
           ~p.tags[ProcessRunning], p.step.start = 0
    PROVE  LET q == After(p, {"start"}, 2 * Len(Steps.start) + 1) IN
           q.state = "running" /\ \A e \in Equipment : q.on[e]
<1> PICK L : L = Len(Steps.start)
  OBVIOUS
<1> PICK n : n = 2 * L + 1
  OBVIOUS
<1>1. L \in Nat \ {0} /\ n \in Nat /\ 1 \in 1..n
  BY StartStep
<1>2. PICK f : /\ f[0] = p /\ After(p, {"start"}, n) = f[n]
               /\ \A i \in 1..n : f[i] = Scanned(f[i - 1], Good({"start"}))
  <2>1. n \in Nat
    BY <1>1
  <2> QED
    BY ONLY <2>1, AfterScans
<1>3. Up(f[1], 0)
  <2> PICK q : q = f[1]
    OBVIOUS
  <2>1. q = Scanned(p, Good({"start"}))
    <3>1. 1 - 1 = 0
      OBVIOUS
    <3> QED
      BY <1>1, <1>2, <3>1
  <2>2. ScannedWell(p, {"start"}, q)
    BY <2>1, GoodScan
  <2>3. Supervised(p, Good({"start"})) = "starting"
    BY DEF Supervised, Rises, Good
  <2>4. Memory(q) /\ q.state = "starting" /\ q.held = {"start"} /\ q.alarms = {} /\ q.step.start = 1
    BY <2>2, <2>3 DEF ScannedWell
  <2>5. ~q.tags[ProcessRunning]
    <3>1. q.tags[ProcessRunning] <=> TagAfter(p, {"start"}, ProcessRunning)
      BY <2>2, <2>3, TagsStay
    <3> QED
      BY <2>3, <3>1 DEF TagAfter
  <2>6. StepsDone(q, 1) /\ 1 \in 1..L
    <3>1. \A i \in 1..L : ~(1 = 0 \/ i < 1)
      BY <1>1
    <3>2. 1 \in 1..L /\ 1 # 0
      BY <1>1
    <3> QED
      BY <2>4, <2>5, <3>1, <3>2 DEF StepsDone
  <2>7. 0 <= 2 * (1 - 1)
    OBVIOUS
  <2> QED
    BY <2>4, <2>6, <2>7 DEF Up
<1> DEFINE Bad == {k \in 0..(2 * L) : ~Up(f[k + 1], k)}
<1>4. Bad = {}
  <2> SUFFICES ASSUME Bad # {} PROVE FALSE
    OBVIOUS
  <2>1. Bad \in SUBSET Nat
    OBVIOUS
  <2>2. PICK k \in Bad : \A j \in Bad : k <= j
    BY <2>1, Least
  <2>3. k \in 0..(2 * L) /\ k \in Nat /\ ~Up(f[k + 1], k)
    OBVIOUS
  <2>4. k # 0
    <3>1. 0 + 1 = 1
      OBVIOUS
    <3> QED
      BY <1>3, <2>3, <3>1
  <2> PICK j : j = k - 1
    OBVIOUS
  <2>5. j \in 0..(2 * L) /\ j \in Nat /\ j < k /\ j + 1 = k /\ ~(k <= j)
    BY <1>1, <2>3, <2>4
  <2>6. Up(f[k], j)
    BY <2>2, <2>5
  <2>7. f[k + 1] = Scanned(f[k], Good({"start"}))
    <3>1. k + 1 \in 1..n /\ (k + 1) - 1 = k
      BY SMTT(60), <1>1, <2>3
    <3> QED
      BY <1>2, <3>1
  <2>8. Up(f[k + 1], j + 1)
    <3> PICK a : a = f[k]
      OBVIOUS
    <3> PICK b : b = f[k + 1]
      OBVIOUS
    <3>1. Up(a, j) /\ Memory(a)
      BY <2>6 DEF Up
    <3>2. ScannedWell(a, {"start"}, b)
      BY <2>7, <3>1, GoodScan
    <3> QED
      BY <2>5, <3>1, <3>2, UpGoesOn
  <2> QED
    BY <2>3, <2>5, <2>8
<1>5. Up(f[n], 2 * L)
  <2>1. 2 * L \in 0..(2 * L) /\ 2 * L + 1 = n
    BY <1>1
  <2> QED
    BY <1>4, <2>1
<1>6. UpAndRunning(f[n])
  <2>1. ~(2 * L <= 2 * L - 1)
    BY <1>1
  <2>2. \A m \in 1..L : ~(2 * L <= 2 * (m - 1)) /\ (m # L => ~(2 * L <= 2 * m - 1))
    BY <1>1
  <2> QED
    BY <1>5, <2>1, <2>2 DEF Up
<1> QED
  BY <1>2, <1>6 DEF UpAndRunning

\* The steps of a shutdown: commands of devices, then PROCESS_STOPPED.
LEMMA StopStep ==
    /\ Len(Steps.stop) \in Nat \ {0}
    /\ Steps.stop[Len(Steps.stop)] = ProcessStopped /\ ProcessStopped \in Written
    /\ \A n \in 1..Len(Steps.stop) :
        /\ Steps.stop[n] \in Written
        /\ n # Len(Steps.stop) => Steps.stop[n] # ProcessStopped
    /\ \A e \in Equipment : \E n \in 1..(Len(Steps.stop) - 1) : Steps.stop[n] = Tag(e, "cmd")
<1> PICK L : L = Len(Steps.stop)
  OBVIOUS
<1>1. /\ L \in Nat \ {0} /\ Steps.stop[L] = ProcessStopped
      /\ \A i \in 1..(L - 1) : Steps.stop[i] \in Commands("close")
      /\ \A e \in Equipment : \E i \in 1..(L - 1) : Steps.stop[i] = Tag(e, "cmd")
  BY StopSteps DEF Commanding
<1>2. ProcessStopped \in Written
  BY DEF Written
<1>3. ASSUME NEW n \in 1..L, n # L
      PROVE  Steps.stop[n] \in Written /\ Steps.stop[n] # ProcessStopped
  <2>1. n \in 1..(L - 1)
    BY <1>1, <1>3
  <2>2. Steps.stop[n] \in Commands("close")
    BY <1>1, <2>1
  <2> QED
    BY <2>2, CommandsWritten
<1> QED
  BY <1>1, <1>2, <1>3

\* While the plant stops or stands, no device runs, and a tag that is off stays off but for
\* PROCESS_STOPPED.
LEMMA TagsFall ==
    ASSUME NEW p, NEW q, ScannedWell(p, {"stop"}, q),
           Supervised(p, Good({"stop"})) \in {"stopping", "stopped"}
    PROVE  /\ \A e \in Equipment : ~q.on[e]
           /\ \A c \in Written : q.tags[c] => TagAfter(p, {"stop"}, c)
           /\ q.tags[ProcessStopped] <=> TagAfter(p, {"stop"}, ProcessStopped)
<1>1. \A e \in Equipment : ~Wanted(p, {"stop"}, e)
  BY DEF Wanted
<1>2. ASSUME NEW c \in Written, q.tags[c] PROVE TagAfter(p, {"stop"}, c)
  <2>1. c[2] = "cmd" => c[1] \in Equipment
    BY DEF Written, ProcessRunning, ProcessStopped, Tag
  <2> QED
    BY <1>1, <1>2, <2>1 DEF ScannedWell
<1>3. q.tags[ProcessStopped] <=> TagAfter(p, {"stop"}, ProcessStopped)
  <2>1. ProcessStopped \in Written /\ ProcessStopped[2] # "cmd"
    BY DEF Written, ProcessStopped, Tag
  <2> QED
    BY <2>1 DEF ScannedWell
<1> QED
  BY <1>1, <1>2, <1>3 DEF ScannedWell

\* No command is left but OPEN.
Quiet(p) == \A e \in Equipment, name \in {"cmd", "close"} : ~p.tags[Tag(e, name)]

\* The tags of the first j steps of a shutdown are reset, and none tells a valve to close.
Reset(p, j) ==
    /\ \A e \in Equipment : ~p.tags[Tag(e, "close")]
    /\ \A i \in 1..(Len(Steps.stop) - 1) : i <= j => ~p.tags[Steps.stop[i]]

\* A shutdown after j + 1 scans in which nothing was wrong; a later one than the first ends at
\* once, as PROCESS_STOPPED was never reset.
Down(p, j, first) ==
    /\ Memory(p) /\ p.held = {"stop"} /\ p.alarms = {}
    /\ \A e \in Equipment : ~p.on[e]
    /\ \/ p.state = "stopped" /\ (first => j > Len(Steps.stop) /\ Quiet(p))
       \/ p.state = "stopping" /\ ~first /\ j = 0 /\ p.tags[ProcessStopped]
       \/ /\ p.state = "stopping" /\ first /\ Reset(p, j)
          /\ \/ j < Len(Steps.stop) /\ p.step.stop = j + 1 /\ ~p.tags[ProcessStopped]
             \/ j = Len(Steps.stop) /\ p.step.stop = 0 /\ p.tags[ProcessStopped]

\* A scan with the stop command held brings the shutdown one step on.
LEMMA DownGoesOn ==
    ASSUME NEW p, NEW q, NEW j \in Nat, NEW first \in BOOLEAN, Down(p, j, first),
           ScannedWell(p, {"stop"}, q)
    PROVE  Down(q, j + 1, first)
<1> DEFINE keys == {"stop"}
<1> PICK M : M = Len(Steps.stop)
  OBVIOUS
<1> PICK s : s = Supervised(p, Good(keys))
  OBVIOUS
<1>1. /\ p.state = "stopped" => s = "stopped"
      /\ p.state = "stopping" => s = IF p.tags[ProcessStopped] THEN "stopped" ELSE "stopping"
  BY DEF Supervised, Rises, Good
<1>2. Memory(q) /\ q.state = s /\ q.held = {"stop"} /\ q.alarms = {}
  BY DEF ScannedWell
<1>3. M \in Nat \ {0}
      /\ \A e \in Equipment, name \in {"cmd", "close"} : Tag(e, name) \in Written
  BY StopStep DEF Written, Tag
<1>4. s \in {"stopping", "stopped"}
  BY <1>1 DEF Down
<1>5. /\ \A e \in Equipment : ~q.on[e]
      /\ \A c \in Written : q.tags[c] => TagAfter(p, keys, c)
      /\ q.tags[ProcessStopped] <=> TagAfter(p, keys, ProcessStopped)
  BY <1>4, TagsFall
<1>6. s = "stopped" => \A c \in Written : q.tags[c] => p.tags[c]
  BY <1>5 DEF TagAfter
<1>7. s = "stopped" /\ Quiet(p) => Quiet(q)
  BY <1>3, <1>6 DEF Quiet
<1>8. CASE p.state = "stopped" /\ (first => j > M /\ Quiet(p))
  <2>1. first => j + 1 > M /\ Quiet(q)
    BY <1>1, <1>3, <1>7, <1>8
  <2> QED
    BY <1>1, <1>2, <1>5, <1>8, <2>1 DEF Down
<1>9. CASE p.state = "stopping" /\ ~first /\ j = 0 /\ p.tags[ProcessStopped]
  BY <1>1, <1>2, <1>5, <1>9 DEF Down
<1>10. CASE p.state = "stopping" /\ first /\ Reset(p, j) /\ j = M /\ p.tags[ProcessStopped]
  <2>1. Quiet(p)
    <3>1. ASSUME NEW e \in Equipment PROVE ~p.tags[Tag(e, "cmd")]
      <4>1. PICK n \in 1..(M - 1) : Steps.stop[n] = Tag(e, "cmd")
        BY StopStep
      <4>2. n <= j
        BY <1>3, <1>10
      <4> QED
        BY <1>10, <4>1, <4>2 DEF Reset
    <3>2. \A e \in Equipment : ~p.tags[Tag(e, "close")]
      BY <1>10 DEF Reset
    <3> QED
      BY <3>1, <3>2 DEF Quiet
  <2>2. j + 1 > M
    BY <1>3, <1>10
  <2> QED
    BY <1>1, <1>2, <1>5, <1>7, <1>10, <2>1, <2>2 DEF Down
<1>11. CASE /\ p.state = "stopping" /\ first /\ Reset(p, j)
            /\ j < M /\ p.step.stop = j + 1 /\ ~p.tags[ProcessStopped]
  <2> PICK m : m = j + 1
    OBVIOUS
  <2>1. /\ m \in 1..M /\ m # 0 /\ s = "stopping" /\ p.step.stop = m
        /\ m # M => m \in 1..(M - 1)
    BY <1>1, <1>3, <1>11
  <2>2. q.step.stop = IF m = M THEN 0 ELSE m + 1
    BY <2>1 DEF ScannedWell
  <2>3. \A c \in Written : TagAfter(p, keys, c) <=> IF c = Steps.stop[m] THEN m = M ELSE p.tags[c]
    BY <2>1 DEF TagAfter
  <2>4. q.tags[ProcessStopped] <=> m = M
    <3>1. ProcessStopped = Steps.stop[m] <=> m = M
      BY <2>1, StopStep
    <3>2. ProcessStopped \in Written
      BY StopStep
    <3> QED
      BY <1>5, <1>11, <2>3, <3>1, <3>2
  <2>5. Reset(q, m)
    <3>1. ASSUME NEW e \in Equipment PROVE ~q.tags[Tag(e, "close")]
      <4> PICK c : c = Tag(e, "close")
        OBVIOUS
      <4>1. c \in Written /\ ~p.tags[c] /\ c # ProcessStopped
        BY <1>11, NoneCloses DEF Reset
      <4>2. c = Steps.stop[m] => m # M
        BY <2>1, <4>1, StopStep
      <4> QED
        BY <1>5, <2>3, <4>1, <4>2
    <3>2. ASSUME NEW i \in 1..(M - 1), i <= m PROVE ~q.tags[Steps.stop[i]]
      <4> PICK c : c = Steps.stop[i]
        OBVIOUS
      <4>1. i \in 1..M /\ i # M
        BY <1>3
      <4>2. c \in Written /\ c # ProcessStopped
        BY <4>1, StopStep
      <4>3. c = Steps.stop[m] => m # M
        BY <2>1, <4>2, StopStep
      <4>4. c # Steps.stop[m] => ~p.tags[c]
        <5>1. c # Steps.stop[m] => i # m /\ i <= j
          BY <1>3, <3>2
        <5> QED
          BY <1>11, <5>1 DEF Reset
      <4> QED
        BY <1>5, <2>3, <4>2, <4>3, <4>4
    <3> QED
      BY <3>1, <3>2 DEF Reset
  <2>6. CASE m = M
    BY <1>2, <1>5, <1>11, <2>1, <2>2, <2>4, <2>5, <2>6 DEF Down
  <2>7. CASE m # M
    <3>1. m < M
      BY <1>3, <2>1, <2>7
    <3> QED
      BY <1>2, <1>5, <1>11, <2>1, <2>2, <2>4, <2>5, <2>7, <3>1 DEF Down
  <2> QED
    BY <2>6, <2>7
<1> QED
  BY <1>8, <1>9, <1>10, <1>11 DEF Down

\* A shutdown ends, the first one with no command left but OPEN.
LEMMA ShutdownEnds ==
    ASSUME NEW p, Memory(p), p.state = "running", "stop" \notin p.held, p.alarms = {},
           p.step.stop = 0, \A e \in Equipment : ~p.tags[Tag(e, "close")]
    PROVE  LET q == After(p, {"stop"}, Len(Steps.stop) + 2) IN
           /\ q.state = "stopped" /\ \A e \in Equipment : ~q.on[e]
           /\ ~p.tags[ProcessStopped] => Quiet(q)
<1> PICK M : M = Len(Steps.stop)
  OBVIOUS
<1> PICK n : n = M + 2
  OBVIOUS
<1> PICK first \in BOOLEAN : first <=> ~p.tags[ProcessStopped]
  <2>1. (~p.tags[ProcessStopped]) \in BOOLEAN
    OBVIOUS
  <2> QED
    BY <2>1
<1>1. M \in Nat \ {0} /\ n \in Nat /\ 1 \in 1..n
  BY StopStep
<1>2. PICK f : /\ f[0] = p /\ After(p, {"stop"}, n) = f[n]
               /\ \A i \in 1..n : f[i] = Scanned(f[i - 1], Good({"stop"}))
  <2>1. n \in Nat
    BY <1>1
  <2> QED
    BY ONLY <2>1, AfterScans
<1>3. Down(f[1], 0, first)
  <2> PICK q : q = f[1]
    OBVIOUS
  <2>1. q = Scanned(p, Good({"stop"}))
    <3>1. 1 - 1 = 0
      OBVIOUS
    <3> QED
      BY <1>1, <1>2, <3>1
  <2>2. ScannedWell(p, {"stop"}, q)
    BY <2>1, GoodScan
  <2>3. Supervised(p, Good({"stop"})) = "stopping"
    BY DEF Supervised, Rises, Good
  <2>4. Memory(q) /\ q.state = "stopping" /\ q.held = {"stop"} /\ q.alarms = {} /\ q.step.stop = 1
    BY <2>2, <2>3 DEF ScannedWell
  <2>5. /\ \A e \in Equipment : ~q.on[e]
        /\ \A c \in Written : q.tags[c] => TagAfter(p, {"stop"}, c)
        /\ q.tags[ProcessStopped] <=> TagAfter(p, {"stop"}, ProcessStopped)
    BY <2>2, <2>3, TagsFall
  <2>6. \A c \in Written : TagAfter(p, {"stop"}, c) <=> p.tags[c]
    BY <2>3 DEF TagAfter
  <2>7. q.tags[ProcessStopped] <=> ~first
    BY <2>5, <2>6, StopStep
  <2>8. Reset(q, 0)
    <3>1. \A e \in Equipment : ~q.tags[Tag(e, "close")]
      BY <2>5, <2>6, NoneCloses
    <3>2. \A i \in 1..(M - 1) : ~(i <= 0)
      BY <1>1
    <3> QED
      BY <3>1, <3>2 DEF Reset
  <2>9. 0 < M /\ 1 = 0 + 1
    BY <1>1
  <2> QED
    BY <2>4, <2>5, <2>7, <2>8, <2>9 DEF Down
<1> DEFINE Bad == {k \in 0..(M + 1) : ~Down(f[k + 1], k, first)}
<1>4. Bad = {}
  <2> SUFFICES ASSUME Bad # {} PROVE FALSE
    OBVIOUS
  <2>1. Bad \in SUBSET Nat
    OBVIOUS
  <2>2. PICK k \in Bad : \A j \in Bad : k <= j
    BY <2>1, Least
  <2>3. k \in 0..(M + 1) /\ k \in Nat /\ ~Down(f[k + 1], k, first)
    OBVIOUS
  <2>4. k # 0
    <3>1. 0 + 1 = 1
      OBVIOUS
    <3> QED
      BY <1>3, <2>3, <3>1
  <2> PICK j : j = k - 1
    OBVIOUS
  <2>5. j \in 0..(M + 1) /\ j \in Nat /\ j < k /\ j + 1 = k /\ ~(k <= j)
    BY <1>1, <2>3, <2>4
  <2>6. Down(f[k], j, first)
    BY <2>2, <2>5
  <2>7. f[k + 1] = Scanned(f[k], Good({"stop"}))
    <3>1. k + 1 \in 1..n /\ (k + 1) - 1 = k
      BY <1>1, <2>3
    <3> QED
      BY <1>2, <3>1
  <2>8. Down(f[k + 1], j + 1, first)
    <3> PICK a : a = f[k]
      OBVIOUS
    <3> PICK b : b = f[k + 1]
      OBVIOUS
    <3>1. Down(a, j, first) /\ Memory(a)
      BY <2>6 DEF Down
    <3>2. ScannedWell(a, {"stop"}, b)
      BY <2>7, <3>1, GoodScan
    <3> QED
      BY <2>5, <3>1, <3>2, DownGoesOn
  <2> QED
    BY <2>3, <2>5, <2>8
<1>5. Down(f[n], M + 1, first)
  <2>1. M + 1 \in 0..(M + 1) /\ (M + 1) + 1 = n
    BY <1>1
  <2> QED
    BY <1>4, <2>1
<1>6. f[n].state = "stopped" /\ (\A e \in Equipment : ~f[n].on[e]) /\ (first => Quiet(f[n]))
  <2>1. M + 1 # 0 /\ ~(M + 1 < M) /\ M + 1 # M
    BY <1>1
  <2> QED
    BY <1>5, <2>1 DEF Down
<1> QED
  BY <1>2, <1>6

\* A startup and a shutdown in which nothing goes wrong come to their ends, for any plant.
LEMMA EndsReached == EndInv => StartsAndStopsEnd
<1> SUFFICES ASSUME EndInv PROVE StartsAndStopsEnd
  OBVIOUS
<1> PICK p : p = plc
  OBVIOUS
<1>1. /\ Memory(p)
      /\ p.state # "starting" => p.step.start = 0
      /\ p.state # "stopping" => p.step.stop = 0
      /\ \A e \in Equipment : ~p.tags[Tag(e, "close")]
  BY DEF EndInv, ScanInv
<1>2. ASSUME p.state = "stopped", "start" \notin p.held, p.alarms = {}, ~p.tags[ProcessRunning]
      PROVE  LET q == After(p, {"start"}, 2 * Len(Steps.start) + 1) IN
             q.state = "running" /\ \A e \in Equipment : q.on[e]
  <2>1. p.step.start = 0 /\ Memory(p)
    BY <1>1, <1>2
  <2> QED
    BY ONLY <1>2, <2>1, StartupEnds
<1>3. ASSUME p.state = "running", "stop" \notin p.held, p.alarms = {}
      PROVE  LET q == After(p, {"stop"}, Len(Steps.stop) + 2) IN
             /\ q.state = "stopped" /\ \A e \in Equipment : ~q.on[e]
             /\ ~p.tags[ProcessStopped] => Quiet(q)
  <2>1. p.step.stop = 0 /\ Memory(p) /\ \A e \in Equipment : ~p.tags[Tag(e, "close")]
    BY <1>1, <1>3
  <2> QED
    BY ONLY <1>3, <2>1, ShutdownEnds
<1> QED
  BY <1>2, <1>3 DEF StartsAndStopsEnd, Quiet

\* No sequence is under way where a program starts.
LEMMA EndFromTheStart == ScanInit => EndInv
<1> SUFFICES ASSUME ScanInit PROVE EndInv
  OBVIOUS
<1>1. /\ Memory(plc) /\ plc.state = "stopped" /\ plc.step.start = 0 /\ plc.step.stop = 0
      /\ \A c \in Written : ~plc.tags[c]
      /\ \A e \in Equipment : ~plc.on[e]
  BY DEF ScanInit, Memory, Fields
<1>2. ScanInv
  BY <1>1, CommandIsWritten DEF ScanInv, Commanded
<1>3. 0 \in 0..Len(Steps.start) /\ 0 \in 0..Len(Steps.stop)
  BY StartStep, StopStep
<1> QED
  BY <1>1, <1>2, <1>3, NoneCloses DEF EndInv

\* Each scan keeps what is known of the sequences.
LEMMA EndKept == EndInv /\ [ScanNext]_plc => EndInv'
<1> SUFFICES ASSUME EndInv, [ScanNext]_plc PROVE EndInv'
  OBVIOUS
<1>1. CASE ScanNext
  BY <1>1, EndEffect DEF ScanNext
<1>2. CASE UNCHANGED plc
  BY <1>2 DEF EndInv, ScanInv
<1> QED
  BY <1>1, <1>2

\* The program of any plant, after any inputs, comes to the end of a startup and of a
\* shutdown, with what it drives on or off as the sequence leaves it, in the scans that
\* StartsAndStopsEnd allows it.
THEOREM ScansEnd == MCSpec => []ScansReachTheEnd
<1>1. MCInit => EndInv
  BY EndFromTheStart DEF MCInit
<1>2. EndInv /\ [MCNext]_<<behaviorVars, namespaceVars, graph, present, plc, area>> => EndInv'
  <2>1. MCNext => [ScanNext]_plc
    BY DEF MCNext
  <2> QED
    BY <2>1, EndKept
<1>3. EndInv => ScansReachTheEnd
  BY EndsReached DEF ScansReachTheEnd
<1> QED
  BY <1>1, <1>2, <1>3, PTL DEF MCSpec

----------------------------------------
\* What a parse serves. Relationships are compared by five numbers in the
\* order of which none comes before itself, so that of those between two
\* tags one is the strongest; and the second pass only drops tags on which
\* nothing hangs, since the first leaves no relationship and no loop whose
\* tags would have no row.

\* The supported relationships of a parse: at most one of a kind from one tag to another.
Rels(rels) ==
    /\ \A r \in rels : /\ r.source \in Nat /\ r.target \in Nat
                       /\ r.kind \in RelationKinds /\ r.trust \in 0..99
                       /\ r.source = r.target => r.kind = "CONTROLS"
    /\ \A r, s \in rels : r.source = s.source /\ r.target = s.target /\ r.kind = s.kind => r = s

LEMMA SupportedRels ==
    ASSUME present \subseteq DOMAIN Candidates, IsFiniteSet(present)
    PROVE  Rels(ToSet(Supported(Given))) /\ IsFiniteSet(ToSet(Supported(Given)))
<1> DEFINE supports == [i \in present |-> Count(RelationSupports(Candidates[i]))]
           D == {j \in present : supports[j] >= 2}
           rel(i) == [Candidates[i] EXCEPT !.trust = AtMost(99, @ + 6 * (supports[i] - 1))]
<1>1. ToSet(Supported(Given)) = {rel(i) : i \in D}
  BY DEF ToSet, Supported, Given
<1>2. ASSUME NEW i \in present PROVE supports[i] \in Nat
  <2> DEFINE S == {k \in DOMAIN RelationSupports(Candidates[i]) : RelationSupports(Candidates[i])[k]}
  <2>1. S \in SUBSET (1..3)
    <3>1. DOMAIN RelationSupports(Candidates[i]) = 1..3
      <4> DEFINE r == Candidates[i]
                 said == Between(r.source, r.target)
      <4> PICK x : x = (r.refs # {} \/ \E k \in DOMAIN said : said[k].ref # None)
        OBVIOUS
      <4> PICK y : y = (\/ ServedUnit[r.source] # None /\ ServedUnit[r.source] = ServedUnit[r.target]
                        \/ r.kind = "MEASURES" /\ r.target \in UnitTyped
                        \/ r.kind = "PART_OF")
        OBVIOUS
      <4> PICK z : z = (\/ SharedDigits(r.source, r.target)
                        \/ IF said = <<>> THEN <<r.source, r.target>> \in TypeFits ELSE said[1].fits)
        OBVIOUS
      <4>1. RelationSupports(r) = <<x, y, z>>
        BY Zenon DEF RelationSupports
      <4> QED
        BY <4>1
    <3> QED
      BY <3>1
  <2>2. IsFiniteSet(S) /\ Cardinality(S) \in Nat
    <3> HIDE DEF S
    <3>1. IsFiniteSet(1..3)
      BY 1 \in Int, 3 \in Int, FS_Interval
    <3> QED
      BY <2>1, <3>1, FS_Subset, FS_CardinalityType
  <2> QED
    BY <2>2 DEF Count
<1> HIDE DEF supports
<1>3. ASSUME NEW i \in D
      PROVE  /\ rel(i).source = Candidates[i].source /\ rel(i).target = Candidates[i].target
             /\ rel(i).kind = Candidates[i].kind /\ rel(i).trust \in 0..99
             /\ i \in DOMAIN Candidates
  <2>1. i \in DOMAIN Candidates /\ i \in present
    OBVIOUS
  <2> PICK c, n : c = Candidates[i] /\ n = supports[i]
    OBVIOUS
  <2>2. DOMAIN c = {"source", "target", "kind", "trust", "refs"} /\ c.trust \in 0..100
    BY <2>1, StrictLoopsAssumption
  <2>3. n \in Nat /\ n >= 2
    BY <1>2, <2>1
  <2>4. AtMost(99, c.trust + 6 * (n - 1)) \in 0..99
    BY ONLY <2>2, <2>3 DEF AtMost
  <2>5. rel(i) = [c EXCEPT !.trust = AtMost(99, c.trust + 6 * (n - 1))]
    OBVIOUS
  <2> HIDE DEF rel
  <2> QED
    BY <2>1, <2>2, <2>4, <2>5
<1>4. ASSUME NEW r \in {rel(i) : i \in D}
      PROVE  /\ r.source \in Nat /\ r.target \in Nat
             /\ r.kind \in RelationKinds /\ r.trust \in 0..99
             /\ r.source = r.target => r.kind = "CONTROLS"
  <2>1. PICK i \in D : r = rel(i)
    OBVIOUS
  <2> HIDE DEF rel
  <2>2. /\ r.source \in Nat /\ r.target \in Nat
        /\ r.kind \in RelationKinds /\ r.trust \in 0..99
    BY <2>1, <1>3, StrictLoopsAssumption
  <2>3. r.source = r.target => r.kind = "CONTROLS"
    BY <2>1, <1>3, FinalAssumption
  <2> QED
    BY <2>2, <2>3
<1>5. ASSUME NEW r \in {rel(i) : i \in D}, NEW s \in {rel(i) : i \in D},
             r.source = s.source, r.target = s.target, r.kind = s.kind
      PROVE  r = s
  <2>1. PICK i \in D, j \in D : r = rel(i) /\ s = rel(j)
    OBVIOUS
  <2> HIDE DEF rel
  <2> QED
    BY <2>1, <1>3, <1>5, FinalAssumption
<1>6. IsFiniteSet({rel(i) : i \in D})
  <2>1. IsFiniteSet(D)
    BY FS_Subset
  <2> DEFINE f == [i \in D |-> rel(i)]
  <2> HIDE DEF rel, D
  <2>2. f \in Surjection(D, {rel(i) : i \in D})
    BY DEF Surjection
  <2> HIDE DEF f
  <2> QED
    BY <2>1, <2>2, FS_Surjection
<1> QED
  BY <1>1, <1>4, <1>5, <1>6 DEF Rels

LEMMA PrecedesFive ==
    ASSUME NEW a, NEW b, DOMAIN a = 1..5
    PROVE  Precedes(a, b) <=>
              \/ a[1] < b[1]
              \/ a[1] = b[1] /\ a[2] < b[2]
              \/ a[1] = b[1] /\ a[2] = b[2] /\ a[3] < b[3]
              \/ a[1] = b[1] /\ a[2] = b[2] /\ a[3] = b[3] /\ a[4] < b[4]
              \/ a[1] = b[1] /\ a[2] = b[2] /\ a[3] = b[3] /\ a[4] = b[4] /\ a[5] < b[5]
<1>1. Precedes(a, b) <=> \E i \in 1..5 : a[i] < b[i] /\ \A j \in 1..i - 1 : a[j] = b[j]
  BY DEF Precedes
<1> DEFINE At(i) == a[i] < b[i] /\ \A j \in 1..i - 1 : a[j] = b[j]
<1>2. (\E i \in 1..5 : At(i)) <=> At(1) \/ At(2) \/ At(3) \/ At(4) \/ At(5)
  <2> HIDE DEF At
  <2>1. \A i \in 1..5 : i = 1 \/ i = 2 \/ i = 3 \/ i = 4 \/ i = 5
    OBVIOUS
  <2>2. 1 \in 1..5 /\ 2 \in 1..5 /\ 3 \in 1..5 /\ 4 \in 1..5 /\ 5 \in 1..5
    OBVIOUS
  <2> QED
    BY <2>1, <2>2
<1>3. /\ At(1) <=> a[1] < b[1]
      /\ At(2) <=> a[1] = b[1] /\ a[2] < b[2]
      /\ At(3) <=> a[1] = b[1] /\ a[2] = b[2] /\ a[3] < b[3]
      /\ At(4) <=> a[1] = b[1] /\ a[2] = b[2] /\ a[3] = b[3] /\ a[4] < b[4]
      /\ At(5) <=> a[1] = b[1] /\ a[2] = b[2] /\ a[3] = b[3] /\ a[4] = b[4] /\ a[5] < b[5]
  <2>1. At(1) <=> a[1] < b[1]
    OBVIOUS
  <2>2. At(2) <=> a[1] = b[1] /\ a[2] < b[2]
    <3>1. \A j \in 1..2 - 1 : j = 1
      OBVIOUS
    <3>2. 1 \in 1..2 - 1
      OBVIOUS
    <3> QED
      BY <3>1, <3>2
  <2>3. At(3) <=> a[1] = b[1] /\ a[2] = b[2] /\ a[3] < b[3]
    <3>1. \A j \in 1..3 - 1 : j = 1 \/ j = 2
      OBVIOUS
    <3>2. 1 \in 1..3 - 1 /\ 2 \in 1..3 - 1
      OBVIOUS
    <3> QED
      BY <3>1, <3>2
  <2>4. At(4) <=> a[1] = b[1] /\ a[2] = b[2] /\ a[3] = b[3] /\ a[4] < b[4]
    <3>1. \A j \in 1..4 - 1 : j = 1 \/ j = 2 \/ j = 3
      OBVIOUS
    <3>2. 1 \in 1..4 - 1 /\ 2 \in 1..4 - 1 /\ 3 \in 1..4 - 1
      OBVIOUS
    <3> QED
      BY <3>1, <3>2
  <2>5. At(5) <=> a[1] = b[1] /\ a[2] = b[2] /\ a[3] = b[3] /\ a[4] = b[4] /\ a[5] < b[5]
    <3>1. \A j \in 1..5 - 1 : j = 1 \/ j = 2 \/ j = 3 \/ j = 4
      OBVIOUS
    <3>2. 1 \in 1..5 - 1 /\ 2 \in 1..5 - 1 /\ 3 \in 1..5 - 1 /\ 4 \in 1..5 - 1
      OBVIOUS
    <3> QED
      BY <3>1, <3>2
  <2> QED
    BY <2>1, <2>2, <2>3, <2>4, <2>5
<1> HIDE DEF At
<1>4. Precedes(a, b) <=> \E i \in 1..5 : At(i)
  BY <1>1 DEF At
<1> QED
  BY <1>2, <1>3, <1>4

\* Of things that are told apart by five numbers, one comes first.
LEMMA OneIsFirst ==
    ASSUME NEW S, S # {}, NEW k,
           \A x \in S : /\ DOMAIN k[x] = 1..5
                        /\ k[x][1] \in Nat /\ k[x][2] \in Nat /\ k[x][3] \in Nat
                        /\ k[x][4] \in Nat /\ k[x][5] \in Nat,
           \A x, y \in S : (/\ k[x][1] = k[y][1] /\ k[x][2] = k[y][2] /\ k[x][3] = k[y][3]
                            /\ k[x][4] = k[y][4] /\ k[x][5] = k[y][5]) => x = y
    PROVE  \E x \in S : \A y \in S \ {x} : Precedes(k[x], k[y])
<1> DEFINE f1 == [x \in S |-> k[x][1]]
           f2 == [x \in S |-> k[x][2]]
           f3 == [x \in S |-> k[x][3]]
           f4 == [x \in S |-> k[x][4]]
           f5 == [x \in S |-> k[x][5]]
<1>a. /\ f1 \in [S -> Nat] /\ f2 \in [S -> Nat] /\ f3 \in [S -> Nat]
      /\ f4 \in [S -> Nat] /\ f5 \in [S -> Nat]
  OBVIOUS
<1>b. \A x, y \in S : (/\ f1[x] = f1[y] /\ f2[x] = f2[y] /\ f3[x] = f3[y]
                       /\ f4[x] = f4[y] /\ f5[x] = f5[y]) => x = y
  OBVIOUS
<1>c. ASSUME NEW x \in S, NEW y \in S,
              \/ f1[x] < f1[y]
              \/ f1[x] = f1[y] /\ f2[x] < f2[y]
              \/ f1[x] = f1[y] /\ f2[x] = f2[y] /\ f3[x] < f3[y]
              \/ f1[x] = f1[y] /\ f2[x] = f2[y] /\ f3[x] = f3[y] /\ f4[x] < f4[y]
              \/ f1[x] = f1[y] /\ f2[x] = f2[y] /\ f3[x] = f3[y] /\ f4[x] = f4[y] /\ f5[x] < f5[y]
      PROVE  Precedes(k[x], k[y])
  BY <1>c, PrecedesFive
<1> HIDE DEF f1, f2, f3, f4, f5
<1> DEFINE Firsts(T, f) == {x \in T : \A y \in T : f[x] <= f[y]}
<1>1. ASSUME NEW T \in SUBSET S, T # {}, NEW f \in [S -> Nat]
      PROVE  Firsts(T, f) # {} /\ Firsts(T, f) \in SUBSET S
  <2> DEFINE V == {f[x] : x \in T}
  <2>1. V \in SUBSET Nat /\ V # {}
    BY <1>1, <1>a
  <2>2. PICK v \in V : \A w \in V : v <= w
    <3> HIDE DEF V
    <3> QED
      BY <2>1, Least
  <2>3. PICK x \in T : v = f[x]
    OBVIOUS
  <2>4. x \in Firsts(T, f)
    BY <2>2, <2>3
  <2> QED
    BY <2>4
<1> DEFINE T1 == Firsts(S, f1)
           T2 == Firsts(T1, f2)
           T3 == Firsts(T2, f3)
           T4 == Firsts(T3, f4)
           T5 == Firsts(T4, f5)
<1>2. T1 # {} /\ T1 \in SUBSET S
  <2> HIDE DEF Firsts
  <2> QED
    BY <1>1, <1>a
<1>3. T2 # {} /\ T2 \in SUBSET S
  <2> HIDE DEF T1, Firsts
  <2> QED
    BY <1>1, <1>a, <1>2
<1>4. T3 # {} /\ T3 \in SUBSET S
  <2> HIDE DEF T2, Firsts
  <2> QED
    BY <1>1, <1>a, <1>3
<1>5. T4 # {} /\ T4 \in SUBSET S
  <2> HIDE DEF T3, Firsts
  <2> QED
    BY <1>1, <1>a, <1>4
<1>6. T5 # {} /\ T5 \in SUBSET S
  <2> HIDE DEF T4, Firsts
  <2> QED
    BY <1>1, <1>a, <1>5
<1>7. PICK x \in T5 : TRUE
  <2> HIDE DEF T5
  <2> QED
    BY <1>6
<1>8. x \in S /\ x \in T1 /\ x \in T2 /\ x \in T3 /\ x \in T4 /\ x \in T5
  BY <1>7
<1>9. \A y \in S : f1[x] <= f1[y] /\ (f1[x] = f1[y] => y \in T1)
  <2>1. \A y \in S : f1[x] <= f1[y]
    BY <1>8
  <2> QED
    BY <2>1
<1>10. \A y \in T1 : f2[x] <= f2[y] /\ (f2[x] = f2[y] => y \in T2)
  <2> HIDE DEF T1
  <2>1. \A y \in T1 : f2[x] <= f2[y]
    BY <1>8
  <2> QED
    BY <2>1, <1>2
<1>11. \A y \in T2 : f3[x] <= f3[y] /\ (f3[x] = f3[y] => y \in T3)
  <2> HIDE DEF T2
  <2>1. \A y \in T2 : f3[x] <= f3[y]
    BY <1>8
  <2> QED
    BY <2>1, <1>3
<1>12. \A y \in T3 : f4[x] <= f4[y] /\ (f4[x] = f4[y] => y \in T4)
  <2> HIDE DEF T3
  <2>1. \A y \in T3 : f4[x] <= f4[y]
    BY <1>8
  <2> QED
    BY <2>1, <1>4
<1>13. \A y \in T4 : f5[x] <= f5[y]
  <2> HIDE DEF T4
  <2> QED
    BY <1>8
<1> HIDE DEF Firsts, T1, T2, T3, T4, T5
<1>14. ASSUME NEW y \in S \ {x}
       PROVE  \/ f1[x] < f1[y]
              \/ f1[x] = f1[y] /\ f2[x] < f2[y]
              \/ f1[x] = f1[y] /\ f2[x] = f2[y] /\ f3[x] < f3[y]
              \/ f1[x] = f1[y] /\ f2[x] = f2[y] /\ f3[x] = f3[y] /\ f4[x] < f4[y]
              \/ f1[x] = f1[y] /\ f2[x] = f2[y] /\ f3[x] = f3[y] /\ f4[x] = f4[y] /\ f5[x] < f5[y]
  <2>1. /\ f1[x] \in Nat /\ f2[x] \in Nat /\ f3[x] \in Nat /\ f4[x] \in Nat /\ f5[x] \in Nat
        /\ f1[y] \in Nat /\ f2[y] \in Nat /\ f3[y] \in Nat /\ f4[y] \in Nat /\ f5[y] \in Nat
    BY <1>8, <1>a
  <2>2. ~(/\ f1[x] = f1[y] /\ f2[x] = f2[y] /\ f3[x] = f3[y]
          /\ f4[x] = f4[y] /\ f5[x] = f5[y])
    BY <1>8, <1>14, <1>b
  <2> QED
    BY <2>1, <2>2, <1>9, <1>10, <1>11, <1>12, <1>13
<1> QED
  BY <1>8, <1>14, <1>c

\* What the strength of a relationship is told by.
KindRank(r) == KindPriority(r.kind)
KindIndex(r) == CHOOSE i \in DOMAIN KindOrder : KindOrder[i] = r.kind

LEMMA KindsAreOrdered ==
    /\ \A r : r.kind \in RelationKinds => KindIndex(r) \in 1..15
    /\ \A r, s : r.kind \in RelationKinds /\ s.kind \in RelationKinds
                    /\ KindIndex(r) = KindIndex(s) => r.kind = s.kind
<1> USE DEF KindOrder
<1>1. DOMAIN KindOrder = 1..15
  OBVIOUS
<1>2. \A r : r.kind \in RelationKinds => \E i \in 1..15 : KindOrder[i] = r.kind
  <2>1. {1, 2, 3, 4, 5, 6, 7, 8, 9, 10, 11, 12, 13, 14, 15} \subseteq 1..15
    OBVIOUS
  <2>2. /\ KindOrder[1] = "ALARMS_ON" /\ KindOrder[2] = "ASSOCIATED_WITH"
        /\ KindOrder[3] = "CONNECTED_TO" /\ KindOrder[4] = "CONTROLS"
        /\ KindOrder[5] = "DISCHARGES_TO" /\ KindOrder[6] = "FEEDS"
        /\ KindOrder[7] = "INTERLOCKS_WITH" /\ KindOrder[8] = "LOCATED_IN"
        /\ KindOrder[9] = "MEASURES" /\ KindOrder[10] = "MONITORS"
        /\ KindOrder[11] = "PART_OF" /\ KindOrder[12] = "PROCESS_FLOW"
        /\ KindOrder[13] = "SIGNAL_TO" /\ KindOrder[14] = "SUPPLIES_AIR_TO"
        /\ KindOrder[15] = "SUPPORTS"
    OBVIOUS
  <2> HIDE DEF KindOrder
  <2> QED
    BY <2>1, <2>2 DEF RelationKinds
<1> HIDE DEF KindOrder
<1>3. ASSUME NEW r, r.kind \in RelationKinds
      PROVE  KindIndex(r) \in 1..15 /\ KindOrder[KindIndex(r)] = r.kind
  BY <1>1, <1>2, <1>3 DEF KindIndex
<1> QED
  BY <1>3

\* A relationship precedes another by what strength is told by.
LEMMA StrengthTells ==
    ASSUME NEW R, Rels(R), NEW r \in R, NEW s \in R
    PROVE  /\ KindRank(r) \in Nat /\ KindRank(s) \in Nat /\ KindIndex(r) \in Nat /\ KindIndex(s) \in Nat
           /\ Precedes(Strength(r), Strength(s)) <=>
              \/ KindRank(r) < KindRank(s)
              \/ KindRank(r) = KindRank(s) /\ r.trust > s.trust
              \/ KindRank(r) = KindRank(s) /\ r.trust = s.trust /\ r.source < s.source
              \/ KindRank(r) = KindRank(s) /\ r.trust = s.trust /\ r.source = s.source
                    /\ r.target < s.target
              \/ KindRank(r) = KindRank(s) /\ r.trust = s.trust /\ r.source = s.source
                    /\ r.target = s.target /\ KindIndex(r) < KindIndex(s)
<1>1. /\ r.source \in Nat /\ r.target \in Nat /\ r.trust \in 0..99 /\ r.kind \in RelationKinds
      /\ s.source \in Nat /\ s.target \in Nat /\ s.trust \in 0..99 /\ s.kind \in RelationKinds
  BY DEF Rels
<1>2. KindRank(r) \in Nat /\ KindRank(s) \in Nat
  BY DEF KindRank, KindPriority
<1>3. KindIndex(r) \in Nat /\ KindIndex(s) \in Nat
  BY <1>1, KindsAreOrdered
<1>4. /\ Strength(r) = <<KindRank(r), -r.trust, r.source, r.target, KindIndex(r)>>
      /\ Strength(s) = <<KindRank(s), -s.trust, s.source, s.target, KindIndex(s)>>
  BY DEF Strength, KindRank, KindIndex
<1>5. /\ DOMAIN Strength(r) = 1..5
      /\ Strength(r)[1] = KindRank(r) /\ Strength(r)[2] = -r.trust /\ Strength(r)[3] = r.source
      /\ Strength(r)[4] = r.target /\ Strength(r)[5] = KindIndex(r)
      /\ Strength(s)[1] = KindRank(s) /\ Strength(s)[2] = -s.trust /\ Strength(s)[3] = s.source
      /\ Strength(s)[4] = s.target /\ Strength(s)[5] = KindIndex(s)
  BY <1>4
<1>6. /\ -r.trust < -s.trust <=> r.trust > s.trust
      /\ -r.trust = -s.trust <=> r.trust = s.trust
  <2>1. \A m, n \in 0..99 : (-m < -n <=> m > n) /\ (-m = -n <=> m = n)
    OBVIOUS
  <2> QED
    BY ONLY <1>1, <2>1
<1> QED
  BY <1>2, <1>3, <1>5, <1>6, PrecedesFive

\* No two precede each other, and of some one precedes all others.
LEMMA StrengthIsAnOrder ==
    ASSUME NEW R, Rels(R)
    PROVE  /\ \A r, s \in R : ~(Precedes(Strength(r), Strength(s))
                                  /\ Precedes(Strength(s), Strength(r)))
           /\ \A S \in SUBSET R : S # {} =>
                \E r \in S : \A s \in S \ {r} : Precedes(Strength(r), Strength(s))
<1>1. ASSUME NEW r \in R, NEW s \in R
      PROVE  ~(Precedes(Strength(r), Strength(s)) /\ Precedes(Strength(s), Strength(r)))
  <2>1. /\ r.source \in Nat /\ r.target \in Nat /\ r.trust \in 0..99
        /\ s.source \in Nat /\ s.target \in Nat /\ s.trust \in 0..99
    BY DEF Rels
  <2> QED
    BY <2>1, StrengthTells
<1>2. ASSUME NEW S \in SUBSET R, S # {}
      PROVE  \E r \in S : \A s \in S \ {r} : Precedes(Strength(r), Strength(s))
  <2> DEFINE k == [r \in S |-> <<KindRank(r), 99 - r.trust, r.source, r.target, KindIndex(r)>>]
  <2>1. \A r \in S : /\ r.source \in Nat /\ r.target \in Nat /\ r.trust \in 0..99
                     /\ r.kind \in RelationKinds
                     /\ KindRank(r) \in Nat /\ KindIndex(r) \in Nat
    <3>1. \A r \in S : r \in R
      OBVIOUS
    <3> QED
      BY <3>1, StrengthTells DEF Rels
  <2>2. \A x \in S : /\ DOMAIN k[x] = 1..5
                     /\ k[x][1] = KindRank(x) /\ k[x][2] = 99 - x.trust /\ k[x][3] = x.source
                     /\ k[x][4] = x.target /\ k[x][5] = KindIndex(x)
    OBVIOUS
  <2> HIDE DEF k
  <2>3. \A x \in S : /\ DOMAIN k[x] = 1..5
                     /\ k[x][1] \in Nat /\ k[x][2] \in Nat /\ k[x][3] \in Nat
                     /\ k[x][4] \in Nat /\ k[x][5] \in Nat
    <3>1. \A n \in 0..99 : 99 - n \in Nat
      OBVIOUS
    <3> QED
      BY <2>1, <2>2, <3>1
  <2>4. \A x, y \in S : (/\ k[x][1] = k[y][1] /\ k[x][2] = k[y][2] /\ k[x][3] = k[y][3]
                         /\ k[x][4] = k[y][4] /\ k[x][5] = k[y][5]) => x = y
    <3>1. ASSUME NEW x \in S, NEW y \in S,
                 k[x][3] = k[y][3], k[x][4] = k[y][4], k[x][5] = k[y][5]
          PROVE  x = y
      <4>1. x.source = y.source /\ x.target = y.target /\ KindIndex(x) = KindIndex(y)
        BY <2>2, <3>1
      <4>2. x.kind = y.kind
        BY <4>1, <2>1, KindsAreOrdered
      <4> QED
        BY <4>1, <4>2 DEF Rels
    <3> QED
      BY ONLY <3>1
  <2>5. PICK r \in S : \A y \in S \ {r} : Precedes(k[r], k[y])
    BY ONLY <1>2, <2>3, <2>4, OneIsFirst
  <2>6. ASSUME NEW s \in S \ {r} PROVE Precedes(Strength(r), Strength(s))
    <3>1. /\ DOMAIN k[r] = 1..5
          /\ k[r][1] = KindRank(r) /\ k[r][2] = 99 - r.trust /\ k[r][3] = r.source
          /\ k[r][4] = r.target /\ k[r][5] = KindIndex(r)
          /\ k[s][1] = KindRank(s) /\ k[s][2] = 99 - s.trust /\ k[s][3] = s.source
          /\ k[s][4] = s.target /\ k[s][5] = KindIndex(s)
      BY <2>2
    <3>2. r.trust \in 0..99 /\ s.trust \in 0..99
      BY <2>1
    <3>3. /\ 99 - r.trust < 99 - s.trust <=> r.trust > s.trust
          /\ 99 - r.trust = 99 - s.trust <=> r.trust = s.trust
      <4>1. \A m, n \in 0..99 : (99 - m < 99 - n <=> m > n) /\ (99 - m = 99 - n <=> m = n)
        OBVIOUS
      <4> QED
        BY ONLY <3>2, <4>1
    <3>4. r \in R /\ s \in R
      OBVIOUS
    <3>5. \/ KindRank(r) < KindRank(s)
          \/ KindRank(r) = KindRank(s) /\ 99 - r.trust < 99 - s.trust
          \/ KindRank(r) = KindRank(s) /\ 99 - r.trust = 99 - s.trust /\ r.source < s.source
          \/ KindRank(r) = KindRank(s) /\ 99 - r.trust = 99 - s.trust /\ r.source = s.source
                /\ r.target < s.target
          \/ KindRank(r) = KindRank(s) /\ 99 - r.trust = 99 - s.trust /\ r.source = s.source
                /\ r.target = s.target /\ KindIndex(r) < KindIndex(s)
      <4>1. Precedes(k[r], k[s])
        BY <2>5
      <4> QED
        BY ONLY <4>1, <3>1, PrecedesFive
    <3> QED
      BY ONLY <3>5, <3>3, <3>4, Rels(R), StrengthTells
  <2> QED
    BY <2>6
<1> QED
  BY <1>1, <1>2

\* Of each end of a relationship the other one is a connection.
LEMMA EndsAreConnected ==
    ASSUME NEW rels, NEW r \in rels
    PROVE  r.target \in Connections(rels, r.source) /\ r.source \in Connections(rels, r.target)
  BY DEF Connections

\* The tags of a loop that stands are ends of relationships.
LEMMA LoopsAreConnected ==
    ASSUME NEW l, NEW tags, NEW rels, LoopStands(l, tags, rels), NEW d \in ChainTags(l)
    PROVE  Connections(rels, d) # {}
<1>1. /\ \E r \in rels : r.source = l.sensor /\ r.target = l.process
      /\ \E r \in rels : r.source = l.sensor /\ r.target = l.controller
      /\ \E r \in rels : r.source = l.controller /\ r.target = l.actuator
  BY DEF LoopStands, Says
<1>2. d = l.sensor \/ d = l.controller \/ d = l.actuator \/ d = l.process
  BY DEF ChainTags
<1>3. CASE d = l.sensor \/ d = l.process
  <2>1. PICK r \in rels : r.source = l.sensor /\ r.target = l.process
    BY <1>1
  <2> QED
    BY <2>1, <1>3, EndsAreConnected
<1>4. CASE d = l.controller \/ d = l.actuator
  <2>1. PICK r \in rels : r.source = l.controller /\ r.target = l.actuator
    BY <1>1
  <2> QED
    BY <2>1, <1>4, EndsAreConnected
<1> QED
  BY <1>2, <1>3, <1>4

\* What one pass leaves.
LEMMA PassLeaves ==
    ASSUME NEW draft, NEW first, first = Passed(draft)
    PROVE  /\ first.tags = RowsIn(draft.tags, draft.relationships, draft.loops)
           /\ first.relationships = Inside(draft.relationships, first.tags)
           /\ first.loops = {l \in draft.loops : LoopStands(l, first.tags, first.relationships)}
<1> DEFINE tags == RowsIn(draft.tags, draft.relationships, draft.loops)
<1>1. first = Trimmed(draft, tags)
  BY DEF Passed
<1> HIDE DEF tags
<1>2. /\ first.tags = tags
      /\ first.relationships = Inside(draft.relationships, tags)
      /\ first.loops = {l \in draft.loops : LoopStands(l, tags, Inside(draft.relationships, tags))}
  BY <1>1 DEF Trimmed
<1> QED
  BY <1>2 DEF tags

\* The second pass drops the tags that the first one has left alone, and nothing that hangs
\* on another.
LEMMA TwoPasses ==
    ASSUME NEW draft, NEW first, first = Passed(draft), NEW second, second = Passed(first)
    PROVE  /\ second.tags \subseteq first.tags /\ first.tags \subseteq draft.tags
           /\ second.relationships = first.relationships
           /\ first.relationships \subseteq draft.relationships
           /\ \A r \in first.relationships : {r.source, r.target} \subseteq second.tags
           /\ \A l \in second.loops : LoopStands(l, second.tags, second.relationships)
           /\ \A d \in second.tags : Connections(second.relationships, d) # {}
           /\ \A r \in draft.relationships :
                {r.source, r.target} \subseteq second.tags => r \in first.relationships
<1>1. /\ first.tags = RowsIn(draft.tags, draft.relationships, draft.loops)
      /\ first.relationships = Inside(draft.relationships, first.tags)
      /\ first.loops = {l \in draft.loops : LoopStands(l, first.tags, first.relationships)}
  BY PassLeaves
<1>2. /\ second.tags = RowsIn(first.tags, first.relationships, first.loops)
      /\ second.relationships = Inside(first.relationships, second.tags)
      /\ second.loops = {l \in first.loops : LoopStands(l, second.tags, second.relationships)}
  BY PassLeaves
<1>3. second.tags \subseteq first.tags /\ first.tags \subseteq draft.tags
  BY <1>1, <1>2 DEF RowsIn
<1>4. \A d \in first.tags : RoleOfType[d] # "equipment" /\ d \in Recognized
  BY <1>1 DEF RowsIn
<1>5. \A r \in first.relationships : r.source \in first.tags /\ r.target \in first.tags
  BY <1>1 DEF Inside
<1>6. first.relationships \subseteq draft.relationships
  BY <1>1 DEF Inside
<1>7. \A d \in first.tags : Connections(first.relationships, d) # {} => d \in second.tags
  BY <1>2, <1>4 DEF RowsIn
<1>8. \A r \in first.relationships : r.source \in second.tags /\ r.target \in second.tags
  <2> TAKE r \in first.relationships
  <2>1. /\ Connections(first.relationships, r.source) # {}
        /\ Connections(first.relationships, r.target) # {}
    BY EndsAreConnected
  <2> QED
    BY <2>1, <1>5, <1>7
<1>9. second.relationships = first.relationships
  BY <1>2, <1>8 DEF Inside
<1>10. \A l \in second.loops : LoopStands(l, second.tags, second.relationships)
  BY <1>2
<1>11. \A d \in second.tags : Connections(second.relationships, d) # {}
  <2> TAKE d \in second.tags
  <2>1. Connections(first.relationships, d) # {} \/ \E l \in first.loops : d \in ChainTags(l)
    BY <1>2 DEF RowsIn
  <2>2. ASSUME NEW l \in first.loops, d \in ChainTags(l)
        PROVE  Connections(first.relationships, d) # {}
    BY <1>1, <2>2, LoopsAreConnected
  <2> QED
    BY <2>1, <2>2, <1>9
<1>12. \A r \in draft.relationships :
          {r.source, r.target} \subseteq second.tags => r \in first.relationships
  BY <1>1, <1>3 DEF Inside
<1> QED
  BY <1>3, <1>6, <1>8, <1>9, <1>10, <1>11, <1>12

\* A relationship of a tag with itself is not consistent.
LEMMA NoneWithItself ==
    ASSUME NEW R, Rels(R), NEW r \in Consistent(R)
    PROVE  r \in R /\ r.source # r.target
<1>1. r \in R /\ (r.source = r.target => r.kind \notin DirectionalKinds)
  BY DEF Consistent
<1>2. r.source = r.target => r.kind \in DirectionalKinds
  BY <1>1 DEF Rels, DirectionalKinds
<1> QED
  BY <1>1, <1>2

\* What a walk finds are ends of relationships.
LEMMA WalksAreInside ==
    ASSUME NEW rels, NEW d, NEW way, NEW tags,
           \A r \in rels : r.source \in tags /\ r.target \in tags, d \in tags
    PROVE  Walked(rels, d, way) \subseteq tags \ {d}
<1> DEFINE flow == {r \in rels : r.kind \in FlowKinds}
           around(S) == S \cup IF way = "upstream"
                               THEN {r.source : r \in {s \in flow : s.target \in S}}
                               ELSE {r.target : r \in {s \in flow : s.source \in S}}
<1>1. Walked(rels, d, way) = around(around(around(around({d})))) \ {d}
  BY DEF Walked
<1>2. \A S \in SUBSET tags : around(S) \in SUBSET tags
  OBVIOUS
<1> HIDE DEF around
<1>3. {d} \in SUBSET tags
  OBVIOUS
<1> QED
  BY <1>1, <1>2, <1>3

\* The rank of a role is a number.
LEMMA RoleRankIsNumber == \A role, other, way : RoleRank(role, other, way) \in Nat
<1> TAKE role, other, way
<1> DEFINE order == CASE role = "sensor" /\ way = "upstream" -> <<"process", "actuator", "sensor">>
                      [] role = "sensor" -> <<"actuator", "process", "sensor">>
                      [] role = "actuator" /\ way = "upstream" -> <<"sensor", "process", "actuator">>
                      [] role = "actuator" -> <<"process", "actuator", "sensor">>
                      [] role = "process" -> <<"actuator", "sensor", "process">>
                      [] OTHER -> <<>>
           at == {i \in DOMAIN order : order[i] = other}
<1>1. RoleRank(role, other, way) = IF at = {} THEN 5 ELSE CHOOSE i \in at : TRUE
  BY DEF RoleRank
<1>2. DOMAIN order \in SUBSET Nat
  OBVIOUS
<1> HIDE DEF order
<1>3. at \in SUBSET Nat
  BY <1>2
<1> DEFINE c == CHOOSE i \in at : TRUE
<1>a. RoleRank(role, other, way) = IF at = {} THEN 5 ELSE c
  BY <1>1
<1> HIDE DEF at
<1>4. at # {} => c \in at
  OBVIOUS
<1> HIDE DEF c
<1>5. CASE at = {}
  BY <1>a, <1>5
<1>6. CASE at # {}
  <2>1. RoleRank(role, other, way) = c
    BY <1>a, <1>6
  <2>2. c \in Nat
    BY <1>3, <1>4, <1>6
  <2> QED
    BY <2>1, <2>2
<1> QED
  BY <1>5, <1>6

\* Of a tag that is connected with others, topology finds one of them.
LEMMA TopologyFinds ==
    ASSUME NEW rels, NEW tags \in SUBSET Nat, NEW d, NEW way,
           (Connections(rels, d) \cap tags) \ {d} # {}
    PROVE  /\ ByTopology(rels, tags, d, way) # {}
           /\ ByTopology(rels, tags, d, way) \subseteq (Connections(rels, d) \cap tags) \ {d}
<1> DEFINE near == (Connections(rels, d) \cap tags) \ {d}
           part(e) == IF ServedUnit[d] # None /\ ServedUnit[d] = ServedUnit[e] THEN 0 ELSE 1
           role(e) == RoleRank(RoleOfType[d], RoleOfType[e], way)
           rank(e) == <<part(e), role(e), e>>
           k == [e \in near |-> <<part(e), role(e), e, 0, 0>>]
<1>1. ByTopology(rels, tags, d, way) = {e \in near : \A f \in near \ {e} : Precedes(rank(e), rank(f))}
  BY DEF ByTopology
<1>2. \A e : part(e) \in Nat /\ role(e) \in Nat
  BY RoleRankIsNumber
<1>3. near \in SUBSET Nat /\ near # {}
  OBVIOUS
<1> HIDE DEF near, part, role
<1>4. \A e \in near : /\ DOMAIN k[e] = 1..5
                      /\ k[e][1] = part(e) /\ k[e][2] = role(e) /\ k[e][3] = e
                      /\ k[e][4] = 0 /\ k[e][5] = 0
  OBVIOUS
<1>5. \A e : /\ DOMAIN rank(e) = 1..3
             /\ rank(e)[1] = part(e) /\ rank(e)[2] = role(e) /\ rank(e)[3] = e
  OBVIOUS
<1> HIDE DEF k, rank
<1>6. PICK e \in near : \A f \in near \ {e} : Precedes(k[e], k[f])
  <2>1. \A x \in near : /\ DOMAIN k[x] = 1..5
                        /\ k[x][1] \in Nat /\ k[x][2] \in Nat /\ k[x][3] \in Nat
                        /\ k[x][4] \in Nat /\ k[x][5] \in Nat
    <3> TAKE x \in near
    <3>1. part(x) \in Nat /\ role(x) \in Nat /\ x \in Nat
      BY <1>2, <1>3
    <3> QED
      BY <3>1, <1>4
  <2>2. \A x, y \in near : (/\ k[x][1] = k[y][1] /\ k[x][2] = k[y][2] /\ k[x][3] = k[y][3]
                            /\ k[x][4] = k[y][4] /\ k[x][5] = k[y][5]) => x = y
    BY <1>4
  <2> QED
    BY ONLY <1>3, <2>1, <2>2, OneIsFirst
<1>7. ASSUME NEW f \in near \ {e} PROVE Precedes(rank(e), rank(f))
  <2>1. \/ part(e) < part(f)
        \/ part(e) = part(f) /\ role(e) < role(f)
        \/ part(e) = part(f) /\ role(e) = role(f) /\ e < f
    <3>1. DOMAIN k[e] = 1..5 /\ Precedes(k[e], k[f])
      BY <1>4, <1>6
    <3>2. \/ k[e][1] < k[f][1]
          \/ k[e][1] = k[f][1] /\ k[e][2] < k[f][2]
          \/ k[e][1] = k[f][1] /\ k[e][2] = k[f][2] /\ k[e][3] < k[f][3]
          \/ k[e][1] = k[f][1] /\ k[e][2] = k[f][2] /\ k[e][3] = k[f][3] /\ k[e][4] < k[f][4]
          \/ k[e][1] = k[f][1] /\ k[e][2] = k[f][2] /\ k[e][3] = k[f][3] /\ k[e][4] = k[f][4]
                /\ k[e][5] < k[f][5]
      BY ONLY <3>1, PrecedesFive
    <3> QED
      BY <3>2, <1>4
  <2>2. /\ 1 \in 1..3 /\ 2 \in 1..3 /\ 3 \in 1..3
        /\ \A j \in 1..1 - 1 : FALSE
        /\ \A j \in 1..2 - 1 : j = 1
        /\ \A j \in 1..3 - 1 : j = 1 \/ j = 2
    OBVIOUS
  <2>3. \E i \in 1..3 : rank(e)[i] < rank(f)[i] /\ \A j \in 1..i - 1 : rank(e)[j] = rank(f)[j]
    <3>1. CASE part(e) < part(f)
      BY <3>1, <2>2, <1>5
    <3>2. CASE part(e) = part(f) /\ role(e) < role(f)
      BY <3>2, <2>2, <1>5
    <3>3. CASE part(e) = part(f) /\ role(e) = role(f) /\ e < f
      BY <3>3, <2>2, <1>5
    <3> QED
      BY <2>1, <3>1, <3>2, <3>3
  <2> QED
    BY <2>3, <1>5 DEF Precedes
<1>8. e \in ByTopology(rels, tags, d, way)
  BY <1>1, <1>7
<1> QED
  BY <1>1, <1>8 DEF near

\* Links are what a walk finds, or else what topology finds.
LEMMA LinksAreNear ==
    ASSUME NEW rels, NEW tags, NEW d, NEW way, ByTopology(rels, tags, d, way) # {}
    PROVE  \/ Links(rels, tags, d, way) = Walked(rels, d, way)
           \/ Links(rels, tags, d, way) = ByTopology(rels, tags, d, way)
<1> DEFINE w1 == Walked(rels, d, way)
           w2 == ByTopology(rels, tags, d, way)
           w3 == ByChain(d, way)
           w4 == ByContext(d, way)
           ways == <<w1, w2, w3, w4, {None}>>
           IsFirst(n) == ways[n] # {} /\ \A m \in 1..n - 1 : ways[m] = {}
           n == CHOOSE i \in 1..5 : IsFirst(i)
<1>1. Links(rels, tags, d, way) = ways[n]
  BY DEF Links
<1>2. w2 # {}
  OBVIOUS
<1> HIDE DEF w1, w2, w3, w4
<1>3. ways[1] = w1 /\ ways[2] = w2
  OBVIOUS
<1> HIDE DEF ways
<1>4. \E i \in 1..5 : IsFirst(i)
  <2>1. 1 \in 1..5 /\ 2 \in 1..5 /\ (\A m \in 1..1 - 1 : FALSE) /\ (\A m \in 1..2 - 1 : m = 1)
    OBVIOUS
  <2>2. w1 # {} => IsFirst(1)
    BY <1>3, <2>1
  <2>3. w1 = {} => IsFirst(2)
    BY <1>2, <1>3, <2>1
  <2> QED
    BY <2>1, <2>2, <2>3
<1>5. n \in 1..5 /\ IsFirst(n)
  <2> HIDE DEF IsFirst
  <2> QED
    BY <1>4
<1> HIDE DEF n
<1>6. n = 1 \/ n = 2
  <2>1. n > 2 => 2 \in 1..n - 1
    BY <1>5
  <2> QED
    BY <1>2, <1>3, <1>5, <2>1
<1> QED
  BY <1>1, <1>3, <1>6 DEF w1, w2

\* Of one direction the strongest relationship is consistent, and what one of the opposite
\* direction and the same kind tells, if the kind has a direction.
LEMMA ConsistentTells ==
    ASSUME NEW R, NEW r \in R
    PROVE  /\ r \in Consistent(R) =>
                /\ \A s \in R : s # r /\ s.source = r.source /\ s.target = r.target =>
                        Precedes(Strength(r), Strength(s))
                /\ \A s \in R : s.source = r.target /\ s.target = r.source /\ s.kind = r.kind
                                /\ r.kind \in DirectionalKinds =>
                        s # r /\ Prefers(r, s)
           /\ r \notin Consistent(R) =>
                \/ \E s \in R : /\ s # r /\ s.source = r.source /\ s.target = r.target
                                /\ ~Precedes(Strength(r), Strength(s))
                \/ \E s \in R : /\ s.source = r.target /\ s.target = r.source /\ s.kind = r.kind
                                /\ ~(s # r /\ Prefers(r, s))
<1>1. r \in Consistent(R) <=> \A s \in R :
        /\ s # r /\ s.source = r.source /\ s.target = r.target =>
                Precedes(Strength(r), Strength(s))
        /\ s.source = r.target /\ s.target = r.source /\ s.kind = r.kind
                /\ r.kind \in DirectionalKinds =>
                s # r /\ Prefers(r, s)
  BY DEF Consistent
<1> QED
  BY <1>1

\* What is consistent has one relationship in a direction, and of one kind that has a
\* direction in no more than one.
LEMMA ConsistentIsSingle ==
    ASSUME NEW R, Rels(R), NEW r \in Consistent(R), NEW s \in Consistent(R)
    PROVE  /\ r.source = s.source /\ r.target = s.target => r = s
           /\ r.source = s.target /\ r.target = s.source /\ r.kind = s.kind =>
                    r.kind \notin DirectionalKinds
<1>1. r \in R /\ s \in R
  BY NoneWithItself
<1>2. ~(Precedes(Strength(r), Strength(s)) /\ Precedes(Strength(s), Strength(r)))
  BY <1>1, StrengthIsAnOrder
<1>3. ASSUME r.source = s.source, r.target = s.target, r # s
      PROVE  FALSE
  BY <1>1, <1>2, <1>3, ConsistentTells
<1>4. ASSUME r.source = s.target, r.target = s.source, r.kind = s.kind,
             r.kind \in DirectionalKinds
      PROVE  FALSE
  <2>1. Prefers(r, s) /\ Prefers(s, r)
    BY <1>1, <1>4, ConsistentTells
  <2>2. ~(RightWay(r) /\ RightWay(s))
    BY <1>4 DEF RightWay
  <2> QED
    BY <1>2, <2>1, <2>2 DEF Prefers
<1> QED
  BY <1>3, <1>4

\* Of what is consistent the graph makes no contradiction but of two opposite relationships
\* of one category that rejecting does not compare.
LEMMA ConsistentContradictsNot ==
    ASSUME NEW R, Rels(R), NEW rels \in SUBSET Consistent(R),
           NEW c \in Contradictions(GraphEdges(rels))
    PROVE  \E r, s \in rels :
                /\ <<r.source, r.target>> = c /\ <<s.target, s.source>> = c /\ r # s
                /\ Category(r.kind) = Category(s.kind)
                /\ r.kind # s.kind \/ r.kind \notin DirectionalKinds
<1> DEFINE edge(r) == [source |-> r.source, target |-> r.target, type |-> Category(r.kind)]
           drawn == {s \in rels : Category(s.kind) # "none"}
           links == {edge(r) : r \in drawn}
           Against(e, g) ==
               \/ g.source = e.target /\ g.target = e.source /\ g.type = e.type
               \/ g.source = e.source /\ g.target = e.target
<1>1. c \in {<<e.source, e.target>> : e \in {f \in links : \E g \in links \ {f} : Against(f, g)}}
  BY DEF Contradictions, GraphEdges
<1>2. PICK e \in links, g \in links : g # e /\ Against(e, g) /\ c = <<e.source, e.target>>
  <2> HIDE DEF links, Against
  <2> QED
    BY <1>1
<1>3. PICK r \in drawn, s \in drawn : e = edge(r) /\ g = edge(s)
  OBVIOUS
<1>4. /\ e.source = r.source /\ e.target = r.target /\ e.type = Category(r.kind)
      /\ g.source = s.source /\ g.target = s.target /\ g.type = Category(s.kind)
  BY <1>3
<1>5. r \in rels /\ s \in rels /\ r # s
  BY <1>2, <1>3
<1>6. r \in Consistent(R) /\ s \in Consistent(R)
  BY <1>5
<1>7. s.source = r.target /\ s.target = r.source /\ Category(s.kind) = Category(r.kind)
  <2>1. ~(s.source = r.source /\ s.target = r.target)
    BY <1>5, <1>6, ConsistentIsSingle
  <2> QED
    BY <1>2, <1>4, <2>1
<1>8. r.kind # s.kind \/ r.kind \notin DirectionalKinds
  BY <1>6, <1>7, ConsistentIsSingle
<1>9. <<r.source, r.target>> = c /\ <<s.target, s.source>> = c
  BY <1>2, <1>4, <1>7
<1> QED
  BY <1>5, <1>7, <1>8, <1>9

\* If none of two tags' relationships is consistent, there are at least four.
LEMMA FourAreLost ==
    ASSUME NEW R, Rels(R), IsFiniteSet(R), NEW r \in R, r.source # r.target,
           \A s \in R : {s.source, s.target} = {r.source, r.target} => s \notin Consistent(R)
    PROVE  Cardinality({s \in R : {s.source, s.target} = {r.source, r.target}}) >= 4
<1> DEFINE pair == {s \in R : {s.source, s.target} = {r.source, r.target}}
<1>1. /\ pair \in SUBSET R /\ r \in pair
      /\ \A s \in pair : s \in R /\ s.source # s.target /\ s \notin Consistent(R)
  OBVIOUS
<1>2. ASSUME NEW s \in pair, NEW q \in R,
             \/ q.source = s.source /\ q.target = s.target
             \/ q.source = s.target /\ q.target = s.source
      PROVE  q \in pair
  BY <1>2
<1> HIDE DEF pair
<1>3. PICK t \in pair : \A s \in pair \ {t} : Precedes(Strength(t), Strength(s))
  BY <1>1, StrengthIsAnOrder
\* The strongest of them loses to one the other way round.
<1>4. PICK u \in R : /\ u.source = t.target /\ u.target = t.source /\ u.kind = t.kind
                     /\ ~(u # t /\ Prefers(t, u))
  <2>1. \A s \in R : s # t /\ s.source = t.source /\ s.target = t.target =>
            Precedes(Strength(t), Strength(s))
    BY <1>2, <1>3
  <2> QED
    BY <1>1, <2>1, ConsistentTells
<1>5. u \in pair /\ u # t /\ RightWay(u) /\ ~RightWay(t)
  <2>1. u \in pair /\ u # t
    BY <1>1, <1>2, <1>4
  <2> QED
    BY <1>3, <1>4, <2>1 DEF Prefers
\* That one loses to another of its own direction.
<1>6. PICK v \in R : /\ v # u /\ v.source = u.source /\ v.target = u.target
                     /\ ~Precedes(Strength(u), Strength(v))
  <2>1. ASSUME NEW s \in R, s.source = u.target, s.target = u.source, s.kind = u.kind
        PROVE  s # u /\ Prefers(u, s)
    <3>1. s # u
      BY <1>1, <1>5, <2>1
    <3> QED
      BY <1>5, <3>1 DEF Prefers
  <2> QED
    BY <1>1, <1>5, <2>1, ConsistentTells
<1> DEFINE same == {s \in R : s.source = u.source /\ s.target = u.target}
<1>7. same \in SUBSET R /\ u \in same /\ v \in same
  BY <1>6
<1>8. PICK w \in same : \A s \in same \ {w} : Precedes(Strength(w), Strength(s))
  <2> HIDE DEF same
  <2> QED
    BY <1>7, StrengthIsAnOrder
<1>9. w \in R /\ w # u /\ w.source = u.source /\ w.target = u.target
  BY <1>6, <1>7, <1>8
<1>10. w \in pair
  BY <1>2, <1>5, <1>9
\* The strongest of that direction loses to a fourth one.
<1>11. PICK x \in R : x.source = w.target /\ x.target = w.source /\ x.kind = w.kind
  <2>1. \A s \in R : s # w /\ s.source = w.source /\ s.target = w.target =>
            Precedes(Strength(w), Strength(s))
    BY <1>8, <1>9
  <2>2. w \notin Consistent(R)
    BY <1>1, <1>10
  <2> QED
    BY <1>9, <2>1, <2>2, ConsistentTells
<1>12. x \in pair
  BY <1>2, <1>10, <1>11
<1>13. w.kind # u.kind
  BY <1>9 DEF Rels
<1>14. x # t
  BY <1>4, <1>11, <1>13
<1>15. x # u /\ x # w /\ t # w
  <2>1. t.source # t.target
    BY <1>1
  <2> QED
    BY <2>1, <1>4, <1>9, <1>11
<1>16. {t, u, w, x} \subseteq pair /\ Cardinality({t, u, w, x}) = 4
  <2>1. IsFiniteSet({}) /\ Cardinality({}) = 0
    BY FS_EmptySet
  <2>2. IsFiniteSet({t}) /\ Cardinality({t}) = 1
    BY FS_Singleton
  <2>3. IsFiniteSet({t, u}) /\ Cardinality({t, u}) = 2
    <3>1. {t, u} = {t} \cup {u} /\ u \notin {t}
      BY <1>5
    <3> PICK S, T : S = {t} /\ T = {t, u}
      OBVIOUS
    <3>2. IsFiniteSet(S) /\ Cardinality(S) = 1 /\ T = S \cup {u} /\ u \notin S
      BY <2>2, <3>1
    <3>3. IsFiniteSet(S \cup {u}) /\ Cardinality(S \cup {u}) = Cardinality(S) + 1
      BY ONLY <3>2, FS_AddElement
    <3>4. IsFiniteSet(T) /\ Cardinality(T) = 2
      BY ONLY <3>2, <3>3
    <3> QED
      BY ONLY <3>4, T = {t, u}
  <2>4. IsFiniteSet({t, u, w}) /\ Cardinality({t, u, w}) = 3
    <3>1. {t, u, w} = {t, u} \cup {w} /\ w \notin {t, u}
      BY <1>9, <1>15
    <3> PICK S, T : S = {t, u} /\ T = {t, u, w}
      OBVIOUS
    <3>2. IsFiniteSet(S) /\ Cardinality(S) = 2 /\ T = S \cup {w} /\ w \notin S
      BY <2>3, <3>1
    <3>3. IsFiniteSet(S \cup {w}) /\ Cardinality(S \cup {w}) = Cardinality(S) + 1
      BY ONLY <3>2, FS_AddElement
    <3>4. IsFiniteSet(T) /\ Cardinality(T) = 3
      BY ONLY <3>2, <3>3
    <3> QED
      BY ONLY <3>4, T = {t, u, w}
  <2>5. Cardinality({t, u, w, x}) = 4
    <3>1. {t, u, w, x} = {t, u, w} \cup {x} /\ x \notin {t, u, w}
      BY <1>14, <1>15
    <3> PICK S, T : S = {t, u, w} /\ T = {t, u, w, x}
      OBVIOUS
    <3>2. IsFiniteSet(S) /\ Cardinality(S) = 3 /\ T = S \cup {x} /\ x \notin S
      BY <2>4, <3>1
    <3>3. Cardinality(S \cup {x}) = Cardinality(S) + 1
      BY ONLY <3>2, FS_AddElement
    <3>4. Cardinality(T) = 4
      BY ONLY <3>2, <3>3
    <3> QED
      BY ONLY <3>4, T = {t, u, w, x}
  <2> QED
    BY <2>5, <1>5, <1>10, <1>12
<1>17. IsFiniteSet(pair)
  BY <1>1, FS_Subset
<1>18. Cardinality(pair) \in Nat /\ 4 <= Cardinality(pair)
  <2>1. Cardinality(pair) \in Nat
    BY <1>17, FS_CardinalityType
  <2>2. Cardinality({t, u, w, x}) <= Cardinality(pair)
    BY <1>16, <1>17, FS_Subset
  <2> QED
    BY <2>1, <2>2, <1>16
<1> QED
  BY <1>18 DEF pair

\* The links of a row lead to what is related with it.
LEMMA LinksLeadToRows ==
    ASSUME NEW R, Rels(R), NEW rels \in SUBSET Consistent(R), NEW tags \in SUBSET Nat, NEW kept,
           kept \subseteq tags,
           \A r \in rels : {r.source, r.target} \subseteq kept,
           NEW d \in kept, Connections(rels, d) # {}, NEW way
    PROVE  Links(rels, tags, d, way) \subseteq kept \ {d}
<1>1. \A e \in Connections(rels, d) : e \in kept /\ e # d
  <2>1. \A r \in rels : r.source # r.target
    BY NoneWithItself
  <2> QED
    BY <2>1 DEF Connections
<1>2. (Connections(rels, d) \cap tags) \ {d} # {}
  BY <1>1
<1>3. /\ ByTopology(rels, tags, d, way) # {}
      /\ ByTopology(rels, tags, d, way) \subseteq (Connections(rels, d) \cap tags) \ {d}
  BY <1>2, TopologyFinds
<1>4. ByTopology(rels, tags, d, way) \subseteq kept \ {d}
  BY <1>1, <1>3
<1>5. Walked(rels, d, way) \subseteq kept \ {d}
  <2>1. \A r \in rels : r.source \in kept /\ r.target \in kept
    OBVIOUS
  <2> QED
    BY <2>1, WalksAreInside
<1>6. \/ Links(rels, tags, d, way) = Walked(rels, d, way)
      \/ Links(rels, tags, d, way) = ByTopology(rels, tags, d, way)
  BY <1>3, LinksAreNear
<1> QED
  BY <1>4, <1>5, <1>6

\* Whatever some of the candidates support, what is served of them stands.
LEMMA FinalOfAllStands ==
    ASSUME present \subseteq DOMAIN Candidates, IsFiniteSet(present)
    PROVE  Stands(Final(Given))
<1> DEFINE R == ToSet(Supported(Given))
<1> PICK draft : draft = Draft(Given)
  OBVIOUS
<1> PICK first : first = Passed(draft)
  OBVIOUS
<1> PICK second : second = Passed(first)
  OBVIOUS
<1> PICK final : final = Final(Given)
  OBVIOUS
<1>1. Rels(R) /\ IsFiniteSet(R)
  BY SupportedRels
<1>2. draft.tags = Devices /\ draft.relationships = Consistent(R)
  BY DEF Draft
<1>3. final = Served(second, first, Given)
  BY DEF Final, SecondPass
<1> HIDE DEF R
<1>4. /\ second.tags \subseteq first.tags /\ first.tags \subseteq draft.tags
      /\ second.relationships = first.relationships
      /\ first.relationships \subseteq draft.relationships
      /\ \A r \in first.relationships : {r.source, r.target} \subseteq second.tags
      /\ \A l \in second.loops : LoopStands(l, second.tags, second.relationships)
      /\ \A d \in second.tags : Connections(second.relationships, d) # {}
      /\ \A r \in draft.relationships :
            {r.source, r.target} \subseteq second.tags => r \in first.relationships
  BY SMTT(60), TwoPasses
<1> SUFFICES ASSUME final # None
             PROVE  Stands(final)
  BY DEF Stands
<1>5. /\ DOMAIN final.rows = second.tags
      /\ \A d \in second.tags :
            /\ final.rows[d].upstream = Links(first.relationships, first.tags, d, "upstream")
            /\ final.rows[d].downstream = Links(first.relationships, first.tags, d, "downstream")
      /\ final.relationships = second.relationships /\ final.loops = second.loops
  BY <1>3 DEF Served
<1>6. FinalIsClosed(final)
  BY <1>4, <1>5 DEF FinalIsClosed
<1>7. LinksAreRows(final)
  <2>1. first.relationships \in SUBSET Consistent(R)
    BY <1>2, <1>4
  <2>2. first.tags \in SUBSET Nat
    BY <1>2, <1>4, StrictLoopsAssumption
  <2>3. ASSUME NEW d \in second.tags, NEW way
        PROVE  Links(first.relationships, first.tags, d, way) \subseteq second.tags \ {d}
    BY <1>1, <1>4, <2>1, <2>2, LinksLeadToRows
  <2> QED
    BY <2>3, <1>5 DEF LinksAreRows
<1>8. NothingElseContradicts(final)
  <2>1. final.relationships \in SUBSET Consistent(R)
    BY <1>2, <1>4, <1>5
  <2>2. \A r, s \in final.relationships :
            r # s /\ r.source = s.source => r.target # s.target
    BY <1>1, <2>1, ConsistentIsSingle
  <2>3. \A c \in Contradictions(GraphEdges(final.relationships)) :
            \E r, s \in final.relationships :
                /\ <<r.source, r.target>> = c /\ <<s.target, s.source>> = c /\ r # s
                /\ Category(r.kind) = Category(s.kind)
                /\ r.kind # s.kind \/ r.kind \notin DirectionalKinds
    BY <1>1, <2>1, ConsistentContradictsNot
  <2> QED
    BY <2>2, <2>3 DEF NothingElseContradicts
<1>9. LossesAreReplaced(final)
  <2>1. ASSUME NEW r \in R, r.source # r.target, {r.source, r.target} \subseteq DOMAIN final.rows,
               \A s \in final.relationships : {s.source, s.target} # {r.source, r.target}
        PROVE  Cardinality({s \in R : {s.source, s.target} = {r.source, r.target}}) >= 4
    <3>1. \A s \in R : {s.source, s.target} = {r.source, r.target} => s \notin Consistent(R)
      BY <1>2, <1>4, <1>5, <2>1
    <3> QED
      BY <1>1, <2>1, <3>1, FourAreLost
  <2> QED
    BY <2>1 DEF LossesAreReplaced, R
<1> QED
  BY <1>6, <1>7, <1>8, <1>9 DEF Stands

\* The relationships of a parse are some of the candidates.
PresentInv == present \subseteq DOMAIN Candidates /\ IsFiniteSet(present)

\* The relationships of a parse stay some of the candidates.
LEMMA PresentStays == StrictSpec => []PresentInv
<1>1. StrictInit => PresentInv
  BY FS_EmptySet DEF StrictInit, PresentInv
<1>2. PresentInv /\ [StrictNext]_present => PresentInv'
  <2> SUFFICES ASSUME PresentInv, [StrictNext]_present
               PROVE  PresentInv'
    OBVIOUS
  <2>1. CASE StrictNext
    <3>1. PICK i \in DOMAIN Candidates : present' = present \cup {i}
      BY <2>1 DEF StrictNext, Give
    <3> QED
      BY <3>1, FS_AddElement DEF PresentInv
  <2>2. CASE UNCHANGED present
    BY <2>2 DEF PresentInv
  <2> QED
    BY <2>1, <2>2
<1> QED
  BY <1>1, <1>2, PTL DEF StrictSpec

\* What a parse serves stands by itself, whatever its documents say: FinalStands holds in
\* every behaviour of StrictSpec (final_validation_service.py, process).
THEOREM ParsesStand == StrictSpec => []FinalStands
<1>1. PresentInv => FinalStands
  BY FinalOfAllStands DEF PresentInv, FinalStands
<1> QED
  BY <1>1, PresentStays, PTL

----------------------------------------
\* The loops of a parse. Of the paths of one key the engine keeps the one
\* that comes first by five numbers: its rank, its length and its edges.

LEMMA CountOfThree ==
    ASSUME NEW a, NEW b, NEW c PROVE Count(<<a, b, c>>) \in 0..3
<1> DEFINE S == {k \in DOMAIN <<a, b, c>> : <<a, b, c>>[k]}
<1>1. S \in SUBSET (1..3)
  OBVIOUS
<1> HIDE DEF S
<1>2. IsFiniteSet(1..3) /\ Cardinality(1..3) = 3
  <2>1. IsFiniteSet(1..3) /\ Cardinality(1..3) = IF 1 > 3 THEN 0 ELSE 3 - 1 + 1
    BY 1 \in Int, 3 \in Int, FS_Interval
  <2> QED
    BY <2>1
<1>3. IsFiniteSet(S) /\ Cardinality(S) <= 3
  BY <1>1, <1>2, FS_Subset
<1>4. Cardinality(S) \in Nat
  BY <1>3, FS_CardinalityType
<1> QED
  BY <1>3, <1>4 DEF Count, S

LoopFields == {"sensor", "controller", "actuator", "process", "texts", "complete", "continuous",
               "thirds", "relationship", "confidence"}

\* A loop as the engine builds it.
IsLoop(l) ==
    /\ DOMAIN l = LoopFields
    /\ \/ l.complete = 1000 /\ l.continuous = 1000
       \/ l.complete = 880 /\ l.continuous = 900
    /\ l.thirds \in {1020, 2000, 3000} /\ l.relationship \in 0..990
    /\ l.confidence = Combined(l.complete, l.continuous, l.thirds, l.relationship)

LEMMA LoopsAreBuilt ==
    ASSUME NEW links, Len(links) = 2 \/ Len(links) = 3,
           \A i \in 1..Len(links) : links[i].trust \in 0..99
    PROVE  IsLoop(LoopAlong(links))
<1> DEFINE n == Len(links)
           explicit == n = 3
           sensor == links[1].source
           actuator == links[n].source
           process == links[n].target
           controller == IF explicit THEN links[1].target ELSE None
           said == UNION {{x.text : x \in ToSet(Between(sensor, t))} :
                        t \in IF explicit THEN {controller, actuator} ELSE {actuator}} \ {None}
           refs == UNION {links[i].refs : i \in 1..n}
           digits == \/ SharedDigits(sensor, actuator)
                     \/ SharedDigits(sensor, IF explicit THEN controller ELSE process)
           signals == Count(<<said # {}, refs # {}, digits>>)
           thirds == IF signals <= 1 THEN 1020 ELSE 1000 * signals
           total == links[1].trust + links[2].trust + (IF explicit THEN links[3].trust ELSE 0)
           complete == IF explicit THEN 1000 ELSE 880
           continuous == IF explicit THEN 1000 ELSE 900
           relationship == (20 * total + n) \div (2 * n)
           l == [sensor |-> sensor, controller |-> controller, actuator |-> actuator,
                 process |-> process, texts |-> said \cup refs,
                 complete |-> complete, continuous |-> continuous, thirds |-> thirds,
                 relationship |-> relationship,
                 confidence |-> Combined(complete, continuous, thirds, relationship)]
<1>1. LoopAlong(links) = l
  BY SMTT(60) DEF LoopAlong
<1>2. thirds \in {1020, 2000, 3000}
  <2>1. signals \in 0..3
    <3> HIDE DEF said, refs, digits
    <3> QED
      BY SMTT(60), CountOfThree
  <2> HIDE DEF signals
  <2> QED
    BY SMTT(60), <2>1
<1>3. relationship \in 0..990
  <2>1. CASE n = 2
    <3>1. links[1].trust \in 0..99 /\ links[2].trust \in 0..99
      BY SMTT(60), <2>1
    <3>2. total = links[1].trust + links[2].trust
      BY SMTT(60), <2>1, <3>1
    <3> HIDE DEF total
    <3> PICK x \in 0..99, y \in 0..99 : total = x + y
      BY <3>1, <3>2
    <3> PICK w \in 0..3962 : w = 20 * (x + y) + 2
      <4>1. 20 * (x + y) + 2 \in 0..3962
        OBVIOUS
      <4> QED
        BY ONLY <4>1
    <3>4. w \div 4 \in 0..990
      OBVIOUS
    <3>5. relationship = w \div 4
      <4>1. w = 20 * total + n /\ 2 * n = 4
        BY <2>1
      <4> QED
        BY <4>1
    <3> HIDE DEF relationship
    <3> QED
      BY ONLY <3>4, <3>5
  <2>2. CASE n = 3
    <3>1. links[1].trust \in 0..99 /\ links[2].trust \in 0..99 /\ links[3].trust \in 0..99
      BY SMTT(60), <2>2
    <3>2. total = links[1].trust + links[2].trust + links[3].trust
      BY SMTT(60), <2>2
    <3> HIDE DEF total
    <3> PICK x \in 0..99, y \in 0..99, z \in 0..99 : total = x + y + z
      BY ZenonT(60), <3>1, <3>2
    <3> PICK w \in 0..5943 : w = 20 * (x + y + z) + 3
      <4>1. 20 * (x + y + z) + 3 \in 0..5943
        BY SMTT(60)
      <4> QED
        BY ONLY SMTT(60), <4>1
    <3>4. w \div 6 \in 0..990
      OBVIOUS
    <3>5. relationship = w \div 6
      <4>1. w = 20 * total + n /\ 2 * n = 6
        BY <2>2
      <4> QED
        BY <4>1
    <3> HIDE DEF relationship
    <3> QED
      BY ONLY <3>4, <3>5
  <2> QED
    BY <2>1, <2>2
<1>4. \/ complete = 1000 /\ continuous = 1000
      \/ complete = 880 /\ continuous = 900
  OBVIOUS
<1> HIDE DEF sensor, controller, actuator, process, said, refs, complete, continuous, thirds, relationship
<1>5. /\ DOMAIN l = LoopFields
      /\ l.complete = complete /\ l.continuous = continuous /\ l.thirds = thirds
      /\ l.relationship = relationship
      /\ l.confidence = Combined(complete, continuous, thirds, relationship)
  BY DEF LoopFields
<1> QED
  BY <1>1, <1>2, <1>3, <1>4, <1>5 DEF IsLoop

\* What a loop is judged by, and its rank, in numbers.
Weight(l) == 72 * l.complete + 84 * l.continuous + 72 * l.relationship + 150

LEMMA ConfidenceOfLoop ==
    ASSUME NEW l, IsLoop(l), NEW t \in Int
    PROVE  /\ Weight(l) \in Int
           /\ Combined(l.complete, l.continuous, t, l.relationship)
                = AtMost(990, (Weight(l) + 24 * t) \div 300)
           /\ Combined(l.complete, l.continuous, t, l.relationship) \in Int
<1>1. l.complete \in Int /\ l.continuous \in Int /\ l.relationship \in Int
  BY DEF IsLoop
<1>2. Weight(l) \in Int
  BY <1>1 DEF Weight
<1>3. 72 * l.complete + 84 * l.continuous + 24 * t + 72 * l.relationship + 150
        = Weight(l) + 24 * t
  BY <1>1 DEF Weight
<1>4. \A x \in Int : x \div 300 \in Int
  OBVIOUS
<1>5. Combined(l.complete, l.continuous, t, l.relationship)
        = AtMost(990, (Weight(l) + 24 * t) \div 300)
  BY <1>3 DEF Combined
<1>6. (Weight(l) + 24 * t) \div 300 \in Int
  BY <1>2, <1>4
<1> QED
  BY <1>2, <1>5, <1>6 DEF AtMost

LEMMA RankIsNumber ==
    ASSUME NEW l, IsLoop(l)
    PROVE  /\ l.confidence \in Int /\ l.confidence <= 990
           /\ RankOf(l) \in Int /\ RankOf(l) <= 6000000
<1>1. l.thirds \in Int /\ l.thirds <= 3000
  BY DEF IsLoop
<1>2. l.confidence = Combined(l.complete, l.continuous, l.thirds, l.relationship)
  BY DEF IsLoop
<1>3. l.confidence \in Int
  BY <1>1, <1>2, ConfidenceOfLoop
<1>4. l.confidence <= 990
  <2>1. l.confidence = AtMost(990, (Weight(l) + 24 * l.thirds) \div 300)
    BY <1>1, <1>2, ConfidenceOfLoop
  <2>2. Weight(l) \in Int
    BY <1>1, ConfidenceOfLoop
  <2>3. (Weight(l) + 24 * l.thirds) \div 300 \in Int
    BY <1>1, <2>2
  <2> QED
    BY <2>1, <2>3 DEF AtMost
<1>5. RankOf(l) = (l.confidence * 3001 + l.thirds) * 2 + (IF l.continuous = 1000 THEN 1 ELSE 0)
  BY DEF RankOf
<1> QED
  BY <1>1, <1>3, <1>4, <1>5

LEMMA PrecedesThree ==
    ASSUME NEW a, NEW b, DOMAIN a = 1..3
    PROVE  Precedes(a, b) <=> \/ a[1] < b[1]
                              \/ a[1] = b[1] /\ a[2] < b[2]
                              \/ a[1] = b[1] /\ a[2] = b[2] /\ a[3] < b[3]
<1> DEFINE At(i) == a[i] < b[i] /\ \A j \in 1..i - 1 : a[j] = b[j]
<1>1. Precedes(a, b) <=> \E i \in 1..3 : At(i)
  BY DEF Precedes
<1>2. /\ \A i \in 1..3 : i = 1 \/ i = 2 \/ i = 3
      /\ 1 \in 1..3 /\ 2 \in 1..3 /\ 3 \in 1..3
  OBVIOUS
<1>3. At(1) <=> a[1] < b[1]
  OBVIOUS
<1>4. At(2) <=> a[1] = b[1] /\ a[2] < b[2]
  <2>1. \A j : j \in 1..2 - 1 <=> j = 1
    OBVIOUS
  <2> QED
    BY <2>1
<1>5. At(3) <=> a[1] = b[1] /\ a[2] = b[2] /\ a[3] < b[3]
  <2>1. \A j : j \in 1..3 - 1 <=> j = 1 \/ j = 2
    OBVIOUS
  <2> QED
    BY <2>1
<1> HIDE DEF At
<1>6. Precedes(a, b) <=> At(1) \/ At(2) \/ At(3)
  BY <1>1, <1>2
<1> QED
  BY <1>3, <1>4, <1>5, <1>6

LEMMA PrecedesTwo ==
    ASSUME NEW a, NEW b, DOMAIN a = 1..2
    PROVE  Precedes(a, b) <=> a[1] < b[1] \/ (a[1] = b[1] /\ a[2] < b[2])
<1> DEFINE At(i) == a[i] < b[i] /\ \A j \in 1..i - 1 : a[j] = b[j]
<1>1. Precedes(a, b) <=> \E i \in 1..2 : At(i)
  BY DEF Precedes
<1>2. /\ \A i \in 1..2 : i = 1 \/ i = 2
      /\ 1 \in 1..2 /\ 2 \in 1..2
  OBVIOUS
<1>3. At(1) <=> a[1] < b[1]
  OBVIOUS
<1>4. At(2) <=> a[1] = b[1] /\ a[2] < b[2]
  <2>1. \A j : j \in 1..2 - 1 <=> j = 1
    OBVIOUS
  <2> QED
    BY <2>1
<1> HIDE DEF At
<1>6. Precedes(a, b) <=> At(1) \/ At(2)
  BY <1>1, <1>2
<1> QED
  BY <1>3, <1>4, <1>6

\* A list that can be read: numbers with a first, and trusts that are percents.
Legible(list, m) ==
    /\ m \in Nat /\ DOMAIN list \subseteq Int
    /\ \A i \in DOMAIN list : i + m \in Nat /\ list[i].trust \in 0..99

\* A path has two or three edges.
IsPath(p, list) ==
    \/ /\ p = <<p[1], p[2]>> /\ Len(p) = 2 /\ DOMAIN p = 1..2
       /\ p[1] \in DOMAIN list /\ p[2] \in DOMAIN list
    \/ /\ p = <<p[1], p[2], p[3]>> /\ Len(p) = 3 /\ DOMAIN p = 1..3
       /\ p[1] \in DOMAIN list /\ p[2] \in DOMAIN list /\ p[3] \in DOMAIN list

LEMMA PathsArePaths ==
    ASSUME NEW list, NEW p \in PathsIn(list) PROVE IsPath(p, list)
<1> DEFINE d == DOMAIN list
<1>1. p \in d \X d \X d \/ p \in d \X d
  BY DEF PathsIn
<1> HIDE DEF d
<1>2. CASE p \in d \X d \X d
  <2>1. p = <<p[1], p[2], p[3]>> /\ p[1] \in d /\ p[2] \in d /\ p[3] \in d
    BY <1>2
  <2>2. Len(p) = 3 /\ DOMAIN p = 1..3
    BY <2>1
  <2> QED
    BY <2>1, <2>2 DEF IsPath, d
<1>3. CASE p \in d \X d
  <2>1. p = <<p[1], p[2]>> /\ p[1] \in d /\ p[2] \in d
    BY <1>3
  <2>2. Len(p) = 2 /\ DOMAIN p = 1..2
    BY <2>1
  <2> QED
    BY <2>1, <2>2 DEF IsPath, d
<1> QED
  BY <1>1, <1>2, <1>3

LEMMA FoundAreLoops ==
    ASSUME NEW list, NEW m, Legible(list, m), NEW c \in LoopsOnPaths(list)
    PROVE  /\ c = [path |-> c.path, loop |-> LoopOf(list, c.path)]
           /\ c.path \in PathsIn(list) /\ IsPath(c.path, list)
           /\ c.loop = LoopOf(list, c.path) /\ IsLoop(c.loop)
<1>1. PICK p \in PathsIn(list) : c = [path |-> p, loop |-> LoopOf(list, p)]
  BY DEF LoopsOnPaths
<1>2. c.path = p /\ c.loop = LoopOf(list, p)
  BY <1>1
<1>3. IsPath(p, list)
  BY PathsArePaths
<1> DEFINE links == [i \in DOMAIN p |-> list[p[i]]]
<1>4. /\ Len(links) = 2 \/ Len(links) = 3
      /\ \A i \in 1..Len(links) : links[i].trust \in 0..99
  <2>1. CASE Len(p) = 2
    <3>1. DOMAIN p = 1..2 /\ p[1] \in DOMAIN list /\ p[2] \in DOMAIN list
      BY <1>3, <2>1 DEF IsPath
    <3>2. links = <<list[p[1]], list[p[2]]>>
      <4>1. DOMAIN links = 1..2 /\ links[1] = list[p[1]] /\ links[2] = list[p[2]]
        BY <3>1
      <4>2. links = [i \in 1..2 |-> list[p[i]]]
        BY <3>1
      <4> QED
        BY <4>2
    <3>3. list[p[1]].trust \in 0..99 /\ list[p[2]].trust \in 0..99
      BY <3>1 DEF Legible
    <3> HIDE DEF links
    <3> QED
      BY <3>2, <3>3
  <2>2. CASE Len(p) = 3
    <3>1. DOMAIN p = 1..3 /\ p[1] \in DOMAIN list /\ p[2] \in DOMAIN list /\ p[3] \in DOMAIN list
      BY <1>3, <2>2 DEF IsPath
    <3>2. links = <<list[p[1]], list[p[2]], list[p[3]]>>
      <4>1. links = [i \in 1..3 |-> list[p[i]]]
        BY <3>1
      <4> QED
        BY <4>1
    <3>3. list[p[1]].trust \in 0..99 /\ list[p[2]].trust \in 0..99 /\ list[p[3]].trust \in 0..99
      BY <3>1 DEF Legible
    <3> HIDE DEF links
    <3> QED
      BY <3>2, <3>3
  <2> QED
    BY <1>3, <2>1, <2>2 DEF IsPath
<1>5. IsLoop(LoopOf(list, p))
  <2>1. LoopOf(list, p) = LoopAlong(links)
    BY DEF LoopOf
  <2> HIDE DEF links
  <2> QED
    BY <2>1, <1>4, LoopsAreBuilt
<1> QED
  BY <1>1, <1>2, <1>3, <1>5

\* The order in which discover decides, in numbers.
Better(c, e) ==
    \/ RankOf(c.loop) > RankOf(e.loop)
    \/ RankOf(c.loop) = RankOf(e.loop) /\ MetBefore(c.path, e.path)
Code(c, m) ==
    <<6000000 - RankOf(c.loop), 3 - Len(c.path), c.path[1] + m, c.path[2] + m,
      IF Len(c.path) = 3 THEN c.path[3] + m ELSE 0>>

LEMMA CodeIsNumbers ==
    ASSUME NEW list, NEW m, Legible(list, m), NEW c \in LoopsOnPaths(list)
    PROVE  /\ DOMAIN Code(c, m) = 1..5
           /\ Code(c, m)[1] \in Nat /\ Code(c, m)[2] \in Nat /\ Code(c, m)[3] \in Nat
           /\ Code(c, m)[4] \in Nat /\ Code(c, m)[5] \in Nat
           /\ Code(c, m)[1] = 6000000 - RankOf(c.loop) /\ Code(c, m)[2] = 3 - Len(c.path)
           /\ Code(c, m)[3] = c.path[1] + m /\ Code(c, m)[4] = c.path[2] + m
           /\ Len(c.path) = 3 => Code(c, m)[5] = c.path[3] + m
           /\ Len(c.path) # 3 => Code(c, m)[5] = 0
<1>1. IsPath(c.path, list) /\ IsLoop(c.loop)
  BY FoundAreLoops
<1> DEFINE x1 == 6000000 - RankOf(c.loop)
           x2 == 3 - Len(c.path)
           x3 == c.path[1] + m
           x4 == c.path[2] + m
           x5 == IF Len(c.path) = 3 THEN c.path[3] + m ELSE 0
<1>2. x1 \in Nat
  <2>1. RankOf(c.loop) \in Int /\ RankOf(c.loop) <= 6000000
    BY <1>1, RankIsNumber
  <2>2. PICK n \in Int : n = RankOf(c.loop)
    BY <2>1
  <2>3. 6000000 - n \in Nat
    BY <2>1, <2>2
  <2> QED
    BY <2>2, <2>3
<1>3. x2 \in Nat
  <2>1. Len(c.path) = 2 \/ Len(c.path) = 3
    BY <1>1 DEF IsPath
  <2>2. 3 - 2 \in Nat /\ 3 - 3 \in Nat
    OBVIOUS
  <2> QED
    BY <2>1, <2>2
<1>4. x3 \in Nat /\ x4 \in Nat
  BY <1>1 DEF IsPath, Legible
<1>5. x5 \in Nat
  BY <1>1 DEF IsPath, Legible
<1>6. Code(c, m) = <<x1, x2, x3, x4, x5>>
  BY DEF Code
<1>7. (Len(c.path) = 3 => x5 = c.path[3] + m) /\ (Len(c.path) # 3 => x5 = 0)
  OBVIOUS
<1> HIDE DEF x1, x2, x3, x4, x5
<1>8. /\ DOMAIN Code(c, m) = 1..5 /\ Code(c, m)[1] = x1 /\ Code(c, m)[2] = x2
      /\ Code(c, m)[3] = x3 /\ Code(c, m)[4] = x4 /\ Code(c, m)[5] = x5
  BY <1>6
<1>9. /\ Code(c, m)[1] \in Nat /\ Code(c, m)[2] \in Nat /\ Code(c, m)[3] \in Nat
      /\ Code(c, m)[4] \in Nat /\ Code(c, m)[5] \in Nat
  BY <1>2, <1>3, <1>4, <1>5, <1>8
<1> QED
  BY <1>7, <1>8, <1>9 DEF x1, x2, x3, x4

\* One comes before another in discover as its numbers precede.
LEMMA CodeTells ==
    ASSUME NEW list, NEW m, Legible(list, m),
           NEW c \in LoopsOnPaths(list), NEW e \in LoopsOnPaths(list)
    PROVE  Better(c, e) <=> Precedes(Code(c, m), Code(e, m))
<1> PICK p, q : p = c.path /\ q = e.path
  OBVIOUS
<1>1. /\ IsPath(p, list) /\ IsLoop(c.loop) /\ IsPath(q, list) /\ IsLoop(e.loop)
  BY FoundAreLoops
<1>2. \A x \in DOMAIN list : x \in Int /\ x + m \in Nat
  BY DEF Legible
<1>a. m \in Int
  BY DEF Legible
<1> PICK r \in Int, s \in Int : r = RankOf(c.loop) /\ s = RankOf(e.loop)
  BY <1>1, RankIsNumber
<1> PICK a, b : a = Code(c, m) /\ b = Code(e, m)
  OBVIOUS
<1>3. /\ DOMAIN a = 1..5 /\ a[1] = 6000000 - r /\ a[2] = 3 - Len(p)
      /\ a[3] = p[1] + m /\ a[4] = p[2] + m
      /\ Len(p) = 3 => a[5] = p[3] + m
      /\ Len(p) # 3 => a[5] = 0
  BY SMTT(60), CodeIsNumbers
<1>4. /\ b[1] = 6000000 - s /\ b[2] = 3 - Len(q)
      /\ b[3] = q[1] + m /\ b[4] = q[2] + m
      /\ Len(q) = 3 => b[5] = q[3] + m
      /\ Len(q) # 3 => b[5] = 0
  BY SMTT(60), CodeIsNumbers
<1>5. Precedes(a, b) <=>
              \/ a[1] < b[1]
              \/ a[1] = b[1] /\ a[2] < b[2]
              \/ a[1] = b[1] /\ a[2] = b[2] /\ a[3] < b[3]
              \/ a[1] = b[1] /\ a[2] = b[2] /\ a[3] = b[3] /\ a[4] < b[4]
              \/ a[1] = b[1] /\ a[2] = b[2] /\ a[3] = b[3] /\ a[4] = b[4] /\ a[5] < b[5]
  BY <1>3, PrecedesFive
<1>6. (a[1] < b[1] <=> r > s) /\ (a[1] = b[1] <=> r = s)
  BY <1>3, <1>4
<1>7. Better(c, e) <=> r > s \/ (r = s /\ MetBefore(p, q))
  BY DEF Better
<1>8. MetBefore(p, q) <=> Len(p) > Len(q) \/ (Len(p) = Len(q) /\ Precedes(p, q))
  BY DEF MetBefore, Precedes
<1>9. (p[1] \in Int /\ p[2] \in Int /\ q[1] \in Int /\ q[2] \in Int)
  BY <1>1, <1>2 DEF IsPath
<1>10. /\ (a[3] < b[3] <=> p[1] < q[1]) /\ (a[3] = b[3] <=> p[1] = q[1])
       /\ (a[4] < b[4] <=> p[2] < q[2]) /\ (a[4] = b[4] <=> p[2] = q[2])
  <2>1. \A x, y, z \in Int : (x + z < y + z <=> x < y) /\ (x + z = y + z <=> x = y)
    OBVIOUS
  <2>2. a[3] = p[1] + m /\ b[3] = q[1] + m /\ a[4] = p[2] + m /\ b[4] = q[2] + m
    BY <1>3, <1>4
  <2> QED
    BY ONLY <2>1, <2>2, <1>9, <1>a
<1>11. CASE Len(p) = 2 /\ Len(q) = 2
  <2>1. Precedes(p, q) <=> p[1] < q[1] \/ (p[1] = q[1] /\ p[2] < q[2])
    <3>1. DOMAIN p = 1..2
      BY <1>1, <1>11 DEF IsPath
    <3> QED
      BY <3>1, PrecedesTwo
  <2>2. a[2] = 1 /\ b[2] = 1 /\ b[5] = 0 /\ a[5] = 0
    BY <1>3, <1>4, <1>11
  <2>3. MetBefore(p, q) <=> Precedes(p, q)
    BY <1>8, <1>11
  <2> QED
    BY <1>5, <1>6, <1>7, <1>10, <2>1, <2>2, <2>3
<1>12. CASE Len(p) = 3 /\ Len(q) = 3
  <2>1. Precedes(p, q) <=> \/ p[1] < q[1]
                           \/ p[1] = q[1] /\ p[2] < q[2]
                           \/ p[1] = q[1] /\ p[2] = q[2] /\ p[3] < q[3]
    <3>1. DOMAIN p = 1..3
      BY <1>1, <1>12 DEF IsPath
    <3> QED
      BY <3>1, PrecedesThree
  <2>2. p[3] \in Int /\ q[3] \in Int
    BY <1>1, <1>2, <1>12 DEF IsPath
  <2>3. a[2] = 0 /\ b[2] = 0 /\ (a[5] < b[5] <=> p[3] < q[3])
    <3>1. \A x, y, z \in Int : (x + z < y + z <=> x < y)
      OBVIOUS
    <3>2. a[5] = p[3] + m /\ b[5] = q[3] + m
      BY <1>3, <1>4, <1>12
    <3>3. a[5] < b[5] <=> p[3] < q[3]
      BY ONLY <3>1, <3>2, <2>2, <1>a
    <3> QED
      BY <3>3, <1>3, <1>4, <1>12
  <2>4. MetBefore(p, q) <=> Precedes(p, q)
    BY <1>8, <1>12
  <2> QED
    BY <1>5, <1>6, <1>7, <1>10, <2>1, <2>3, <2>4
<1>13. CASE Len(p) = 3 /\ Len(q) = 2
  <2>1. MetBefore(p, q) /\ a[2] < b[2]
    BY <1>3, <1>4, <1>8, <1>13
  <2> QED
    BY <1>5, <1>6, <1>7, <2>1
<1>14. CASE Len(p) = 2 /\ Len(q) = 3
  <2>1. ~MetBefore(p, q)
    BY <1>8, <1>14
  <2>2. a[2] = 1 /\ b[2] = 0
    BY <1>3, <1>4, <1>14
  <2> QED
    BY <1>5, <1>6, <1>7, <2>1, <2>2
<1> QED
  BY <1>1, <1>11, <1>12, <1>13, <1>14 DEF IsPath

\* Of the paths of one key one is better than all others, and only one.
LEMMA OneIsBest ==
    ASSUME NEW list, NEW m, Legible(list, m), NEW S \in SUBSET LoopsOnPaths(list)
    PROVE  /\ S # {} => \E c \in S : \A e \in S \ {c} : Better(c, e)
           /\ \A c, e \in S : ~(Better(c, e) /\ Better(e, c))
<1>1. ASSUME S # {}
      PROVE  \E c \in S : \A e \in S \ {c} : Better(c, e)
  <2> DEFINE k == [c \in S |-> Code(c, m)]
  <2>1. \A c \in S : k[c] = Code(c, m)
    OBVIOUS
  <2> HIDE DEF k
  <2>2. \A x \in S : /\ DOMAIN k[x] = 1..5
                     /\ k[x][1] \in Nat /\ k[x][2] \in Nat /\ k[x][3] \in Nat
                     /\ k[x][4] \in Nat /\ k[x][5] \in Nat
    BY <2>1, CodeIsNumbers
  <2>3. \A x, y \in S : (/\ k[x][1] = k[y][1] /\ k[x][2] = k[y][2] /\ k[x][3] = k[y][3]
                         /\ k[x][4] = k[y][4] /\ k[x][5] = k[y][5]) => x = y
    <3>1. ASSUME NEW x \in S, NEW y \in S, k[x][2] = k[y][2], k[x][3] = k[y][3],
                 k[x][4] = k[y][4], k[x][5] = k[y][5]
          PROVE  x = y
      <4> PICK p, q : p = x.path /\ q = y.path
        OBVIOUS
      <4>1. /\ x = [path |-> p, loop |-> LoopOf(list, p)] /\ IsPath(p, list)
            /\ y = [path |-> q, loop |-> LoopOf(list, q)] /\ IsPath(q, list)
        BY FoundAreLoops
      <4>2. /\ 3 - Len(p) = 3 - Len(q) /\ p[1] + m = q[1] + m /\ p[2] + m = q[2] + m
            /\ Len(p) = 3 /\ Len(q) = 3 => p[3] + m = q[3] + m
        <5>1. /\ k[x][2] = 3 - Len(p) /\ k[x][3] = p[1] + m /\ k[x][4] = p[2] + m
              /\ Len(p) = 3 => k[x][5] = p[3] + m
          BY <2>1, CodeIsNumbers
        <5>2. /\ k[y][2] = 3 - Len(q) /\ k[y][3] = q[1] + m /\ k[y][4] = q[2] + m
              /\ Len(q) = 3 => k[y][5] = q[3] + m
          BY <2>1, CodeIsNumbers
        <5> QED
          BY ONLY <3>1, <5>1, <5>2
      <4>3. m \in Int /\ \A i \in DOMAIN list : i \in Int
        BY DEF Legible
      <4>4. \A u, v, w \in Int : u + w = v + w => u = v
        OBVIOUS
      <4>5. p = q
        <5>1. CASE Len(p) = 2 /\ Len(q) = 2
          <6>1. /\ p = <<p[1], p[2]>> /\ p[1] \in Int /\ p[2] \in Int
                /\ q = <<q[1], q[2]>> /\ q[1] \in Int /\ q[2] \in Int
            BY <4>1, <4>3, <5>1 DEF IsPath
          <6>2. p[1] = q[1] /\ p[2] = q[2]
            BY ONLY <4>2, <4>3, <4>4, <6>1
          <6> QED
            BY ONLY <6>1, <6>2
        <5>2. CASE Len(p) = 3 /\ Len(q) = 3
          <6>1. /\ p = <<p[1], p[2], p[3]>> /\ p[1] \in Int /\ p[2] \in Int /\ p[3] \in Int
                /\ q = <<q[1], q[2], q[3]>> /\ q[1] \in Int /\ q[2] \in Int /\ q[3] \in Int
            BY <4>1, <4>3, <5>2 DEF IsPath
          <6>2. p[1] = q[1] /\ p[2] = q[2] /\ p[3] = q[3]
            BY ONLY <4>2, <4>3, <4>4, <5>2, <6>1
          <6> QED
            BY ONLY <6>1, <6>2
        <5>3. (Len(p) = 2 \/ Len(p) = 3) /\ (Len(q) = 2 \/ Len(q) = 3)
          BY <4>1 DEF IsPath
        <5>4. Len(p) = 2 /\ Len(q) = 3 => FALSE
          BY ONLY <4>2
        <5>5. Len(p) = 3 /\ Len(q) = 2 => FALSE
          BY ONLY <4>2
        <5> QED
          BY <5>1, <5>2, <5>3, <5>4, <5>5
      <4> QED
        BY <4>1, <4>5
    <3> QED
      BY ONLY <3>1
  <2>4. PICK c \in S : \A e \in S \ {c} : Precedes(k[c], k[e])
    BY ONLY <1>1, <2>2, <2>3, OneIsFirst
  <2> QED
    BY <2>1, <2>4, CodeTells
<1>2. ASSUME NEW c \in S, NEW e \in S, Better(c, e), Better(e, c)
      PROVE  FALSE
  <2> PICK a, b : a = Code(c, m) /\ b = Code(e, m)
    OBVIOUS
  <2>1. /\ DOMAIN a = 1..5 /\ a[1] \in Nat /\ a[2] \in Nat /\ a[3] \in Nat /\ a[4] \in Nat /\ a[5] \in Nat
        /\ DOMAIN b = 1..5 /\ b[1] \in Nat /\ b[2] \in Nat /\ b[3] \in Nat /\ b[4] \in Nat /\ b[5] \in Nat
    BY CodeIsNumbers
  <2>2. Precedes(a, b) /\ Precedes(b, a)
    BY <1>2, CodeTells
  <2>3. \/ a[1] < b[1]
        \/ a[1] = b[1] /\ a[2] < b[2]
        \/ a[1] = b[1] /\ a[2] = b[2] /\ a[3] < b[3]
        \/ a[1] = b[1] /\ a[2] = b[2] /\ a[3] = b[3] /\ a[4] < b[4]
        \/ a[1] = b[1] /\ a[2] = b[2] /\ a[3] = b[3] /\ a[4] = b[4] /\ a[5] < b[5]
    BY ONLY <2>1, <2>2, PrecedesFive
  <2>4. \/ b[1] < a[1]
        \/ b[1] = a[1] /\ b[2] < a[2]
        \/ b[1] = a[1] /\ b[2] = a[2] /\ b[3] < a[3]
        \/ b[1] = a[1] /\ b[2] = a[2] /\ b[3] = a[3] /\ b[4] < a[4]
        \/ b[1] = a[1] /\ b[2] = a[2] /\ b[3] = a[3] /\ b[4] = a[4] /\ b[5] < a[5]
    BY ONLY <2>1, <2>2, PrecedesFive
  <2> QED
    BY ONLY <2>1, <2>3, <2>4
<1> QED
  BY <1>1, <1>2

LEMMA LoopsAreFinite ==
    ASSUME NEW list, IsFiniteSet(DOMAIN list)
    PROVE  IsFiniteSet(LoopsOnPaths(list)) /\ IsFiniteSet({c.loop : c \in LoopsOnPaths(list)})
<1> DEFINE d == DOMAIN list
           P == PathsIn(list)
           F == [p \in P |-> [path |-> p, loop |-> LoopOf(list, p)]]
           A == {[path |-> p, loop |-> LoopOf(list, p)] : p \in P}
           L == LoopsOnPaths(list)
<1>1. IsFiniteSet(P)
  <2>1. IsFiniteSet(d \X d)
    BY FS_Product
  <2>2. IsFiniteSet((d \X d) \X d)
    BY <2>1, FS_Product
  <2>3. IsFiniteSet(d \X d \X d)
    <3> DEFINE H == [x \in (d \X d) \X d |-> <<x[1][1], x[1][2], x[2]>>]
    <3>1. H \in Surjection((d \X d) \X d, d \X d \X d)
      <4>1. H \in [(d \X d) \X d -> d \X d \X d]
        OBVIOUS
      <4>2. ASSUME NEW y \in d \X d \X d
            PROVE  \E x \in (d \X d) \X d : H[x] = y
        <5>1. <<<<y[1], y[2]>>, y[3]>> \in (d \X d) \X d
          OBVIOUS
        <5>2. H[<<<<y[1], y[2]>>, y[3]>>] = y
          BY <5>1
        <5> QED
          BY <5>1, <5>2
      <4> QED
        BY <4>1, <4>2 DEF Surjection
    <3> QED
      BY <2>2, <3>1, FS_Surjection
  <2>4. IsFiniteSet((d \X d \X d) \cup (d \X d))
    BY <2>1, <2>3, FS_Union
  <2>5. P \in SUBSET ((d \X d \X d) \cup (d \X d))
    BY DEF PathsIn
  <2> QED
    BY <2>4, <2>5, FS_Subset
<1>2. IsFiniteSet(A)
  <2>1. F \in Surjection(P, A)
    <3> HIDE DEF P
    <3> QED
      BY DEF Surjection
  <2> QED
    BY <1>1, <2>1, FS_Surjection
<1>3. L \in SUBSET A
  BY DEF LoopsOnPaths
<1>4. IsFiniteSet(L)
  BY <1>2, <1>3, FS_Subset
<1> DEFINE G == [c \in L |-> c.loop]
<1>5. G \in Surjection(L, {c.loop : c \in L})
  <2> HIDE DEF L
  <2> QED
    BY DEF Surjection
<1>6. IsFiniteSet({c.loop : c \in L})
  BY <1>4, <1>5, FS_Surjection
<1> QED
  BY <1>4, <1>6

\* Of every key of loops the engine keeps one, that none of the key outranks.
LEMMA KeptOfEach ==
    ASSUME NEW list, NEW m, Legible(list, m)
    PROVE  /\ Discover(list) \subseteq {c.loop : c \in LoopsOnPaths(list)}
           /\ \A l \in {c.loop : c \in LoopsOnPaths(list)} :
                  \E k \in Discover(list) : LoopKey(k) = LoopKey(l)
           /\ \A k, l \in Discover(list) : LoopKey(k) = LoopKey(l) => k = l
           /\ \A k \in Discover(list), l \in {c.loop : c \in LoopsOnPaths(list)} :
                  LoopKey(k) = LoopKey(l) => RankOf(l) <= RankOf(k)
<1> DEFINE L == LoopsOnPaths(list)
           Outdoes(d, e) == LoopKey(d.loop) = LoopKey(e.loop) => Better(d, e)
           Kept == {d \in L : \A e \in L \ {d} : Outdoes(d, e)}
<1>1. Discover(list) = {c.loop : c \in Kept}
  BY DEF Discover, Better
<1>2. \A l \in {c.loop : c \in L} : \E k \in Discover(list) : LoopKey(k) = LoopKey(l)
  <2> SUFFICES ASSUME NEW x \in L PROVE \E k \in Discover(list) : LoopKey(k) = LoopKey(x.loop)
    OBVIOUS
  <2> DEFINE S == {c \in L : LoopKey(c.loop) = LoopKey(x.loop)}
  <2>1. S \in SUBSET L /\ S # {}
    OBVIOUS
  <2>2. PICK c \in S : \A e \in S \ {c} : Better(c, e)
    <3> HIDE DEF S
    <3> QED
      BY <2>1, OneIsBest
  <2>3. c \in Kept
    BY <2>2
  <2> QED
    BY <1>1, <2>2, <2>3
<1>3. \A c, e \in L : ~(Better(c, e) /\ Better(e, c))
  <2>1. L \in SUBSET L
    OBVIOUS
  <2> QED
    BY <2>1, OneIsBest
<1>4. \A k, l \in Discover(list) : LoopKey(k) = LoopKey(l) => k = l
  <2> SUFFICES ASSUME NEW c \in Kept, NEW e \in Kept, LoopKey(c.loop) = LoopKey(e.loop), c # e
               PROVE  FALSE
    BY <1>1
  <2> QED
    BY <1>3
<1>5. \A k \in Discover(list), l \in {c.loop : c \in L} :
          LoopKey(k) = LoopKey(l) => RankOf(l) <= RankOf(k)
  <2> SUFFICES ASSUME NEW c \in Kept, NEW e \in L, LoopKey(c.loop) = LoopKey(e.loop)
               PROVE  RankOf(e.loop) <= RankOf(c.loop)
    BY <1>1
  <2>1. RankOf(c.loop) \in Int /\ RankOf(e.loop) \in Int
    BY FoundAreLoops, RankIsNumber
  <2>2. c = e \/ Better(c, e)
    OBVIOUS
  <2>3. c = e \/ RankOf(c.loop) > RankOf(e.loop) \/ RankOf(c.loop) = RankOf(e.loop)
    BY <2>2 DEF Better
  <2> QED
    BY <2>1, <2>3
<1>6. Discover(list) \subseteq {c.loop : c \in L}
  BY <1>1
<1> QED
  BY <1>2, <1>4, <1>5, <1>6

\* What the supports of a loop add to its confidence.
SupportsAdd(l) ==
    LET has == LoopSupports(l) IN
    48 + (IF has[2] THEN 84 ELSE 0) + (IF has[1] THEN 60 ELSE 0) + (IF has[3] THEN 48 ELSE 0)

LEMMA JudgedTells ==
    ASSUME NEW l, IsLoop(l)
    PROVE  /\ LoopKey(Judged(l)) = LoopKey(l) /\ LoopSupports(Judged(l)) = LoopSupports(l)
           /\ SupportsAdd(l) \in Nat /\ Weight(l) \div 300 \in Int
           /\ Judged(l).confidence = AtMost(990, Weight(l) \div 300 + SupportsAdd(l))
<1> DEFINE has == LoopSupports(l)
           validation == 200 + (IF has[2] THEN 350 ELSE 0) + (IF has[1] THEN 250 ELSE 0)
                          + (IF has[3] THEN 200 ELSE 0)
           j == [l EXCEPT !.thirds = 3 * validation,
                          !.confidence = Combined(l.complete, l.continuous, 3 * validation,
                                                  l.relationship)]
<1>1. Judged(l) = j
  BY DEF Judged
<1>2. /\ j.sensor = l.sensor /\ j.actuator = l.actuator /\ j.process = l.process
      /\ j.texts = l.texts
      /\ j.confidence = Combined(l.complete, l.continuous, 3 * validation, l.relationship)
  <2> HIDE DEF validation
  <2> QED
    BY DEF IsLoop, LoopFields
<1>3. validation \in Nat /\ SupportsAdd(l) \in Nat /\ 24 * (3 * validation) = 300 * SupportsAdd(l)
  <2> PICK a, b, c : a = has[1] /\ b = has[2] /\ c = has[3]
    OBVIOUS
  <2> PICK x, y, z : /\ x = (IF b THEN 350 ELSE 0) /\ y = (IF a THEN 250 ELSE 0)
                     /\ z = (IF c THEN 200 ELSE 0)
    OBVIOUS
  <2>1. validation = 200 + x + y + z
    OBVIOUS
  <2>2. SupportsAdd(l) = 48 + (IF b THEN 84 ELSE 0) + (IF a THEN 60 ELSE 0) + (IF c THEN 48 ELSE 0)
    BY DEF SupportsAdd
  <2> HIDE DEF validation
  <2> QED
    BY <2>1, <2>2
<1> HIDE DEF validation
<1>4. Weight(l) \in Int /\ j.confidence = AtMost(990, (Weight(l) + 24 * (3 * validation)) \div 300)
  <2>1. 3 * validation \in Int
    BY <1>3
  <2> QED
    BY ONLY <1>2, <2>1, IsLoop(l), ConfidenceOfLoop
<1>5. \A w \in Int, u \in Nat : (w + 300 * u) \div 300 = w \div 300 + u /\ w \div 300 \in Int
  OBVIOUS
<1>6. (Weight(l) + 24 * (3 * validation)) \div 300 = Weight(l) \div 300 + SupportsAdd(l)
  BY <1>3, <1>4, <1>5
<1>7. Weight(l) \div 300 \in Int
  BY <1>4, <1>5
<1>8. LoopKey(j) = LoopKey(l) /\ LoopSupports(j) = LoopSupports(l)
  <2> HIDE DEF j
  <2> QED
    BY <1>2 DEF LoopKey, LoopSupports
<1> HIDE DEF j
<1> QED
  BY <1>1, <1>3, <1>4, <1>6, <1>7, <1>8

\* What is shown and what is rejected, of loops that were found.
LEMMA JudgedAreParted ==
    ASSUME NEW found, \A l \in found : IsLoop(l)
    PROVE  /\ {s.loop : s \in ResultFor(found).shown} \subseteq {Judged(l) : l \in found}
           /\ ResultFor(found).rejected
                = {Judged(l) : l \in found} \ {s.loop : s \in ResultFor(found).shown}
           /\ \A l \in {s.loop : s \in ResultFor(found).shown} :
                  Count(LoopSupports(l)) >= 2 /\ l.confidence >= 840
<1> DEFINE accepted == Accepted(found)
           V == {k \in accepted : Visible(k)}
           T(l) == TuningOf(l, accepted)
           N == {[loop |-> l, tuning |-> T(l)] : l \in V}
<1>1. ResultFor(found).shown = N /\ ResultFor(found).rejected = {Judged(l) : l \in found} \ V
  BY DEF ResultFor, ResultOf
<1>2. {s.loop : s \in N} = V
  <2> HIDE DEF V, T
  <2>1. \A l \in V : [loop |-> l, tuning |-> T(l)].loop = l
    OBVIOUS
  <2>2. \A l \in V : l \in {s.loop : s \in N}
    <3> TAKE l \in V
    <3>1. [loop |-> l, tuning |-> T(l)] \in N
      OBVIOUS
    <3> QED
      BY <2>1, <3>1
  <2>3. \A s \in N : s.loop \in V
    BY <2>1
  <2> QED
    BY <2>2, <2>3
<1>3. V \subseteq {Judged(l) : l \in found}
  BY DEF Accepted
<1>4. \A l \in V : Count(LoopSupports(l)) >= 2 /\ l.confidence >= 840
  <2> SUFFICES ASSUME NEW k \in found, Count(LoopSupports(k)) >= 2, Visible(Judged(k))
               PROVE  Count(LoopSupports(Judged(k))) >= 2 /\ Judged(k).confidence >= 840
    BY DEF Accepted
  <2>1. LoopSupports(Judged(k)) = LoopSupports(k)
    BY JudgedTells
  <2> QED
    BY <2>1 DEF Visible
<1> HIDE DEF V, N
<1> QED
  BY <1>1, <1>2, <1>3, <1>4

LEMMA LoopsAreAccounted ==
    ASSUME NEW list, NEW m, Legible(list, m), IsFiniteSet(DOMAIN list)
    PROVE  PathsAreAccounted(ResultFor(Discover(list)), {c.loop : c \in LoopsOnPaths(list)})
<1> DEFINE loops == {c.loop : c \in LoopsOnPaths(list)}
           D == Discover(list)
           J == {Judged(l) : l \in D}
           shown == {s.loop : s \in ResultFor(D).shown}
           rejected == ResultFor(D).rejected
           keys(some) == {LoopKey(l) : l \in some}
<1>1. \A l \in loops : IsLoop(l)
  BY FoundAreLoops
<1>2. /\ D \subseteq loops
      /\ \A l \in loops : \E k \in D : LoopKey(k) = LoopKey(l)
      /\ \A k, l \in D : LoopKey(k) = LoopKey(l) => k = l
  BY KeptOfEach
<1>3. IsFiniteSet(loops)
  BY LoopsAreFinite
<1> HIDE DEF loops, D
<1>4. IsFiniteSet(D)
  BY <1>2, <1>3, FS_Subset
<1>5. \A l \in D : LoopKey(Judged(l)) = LoopKey(l)
  BY <1>1, <1>2, JudgedTells
<1>6. /\ shown \subseteq J /\ rejected = J \ shown
      /\ \A l \in shown : Count(LoopSupports(l)) >= 2 /\ l.confidence >= 840
  BY ZenonT(60), <1>1, <1>2, JudgedAreParted
<1> HIDE DEF shown, rejected
<1>7. keys(J) = keys(D) /\ keys(D) = keys(loops)
  BY <1>2, <1>5
<1>8. IsFiniteSet(keys(D)) /\ Cardinality(keys(D)) = Cardinality(D)
  <2> DEFINE f == [l \in D |-> LoopKey(l)]
  <2>1. f \in Bijection(D, keys(D))
    BY <1>2 DEF Bijection, Injection, Surjection, IsInjective
  <2>2. ExistsBijection(D, keys(D))
    BY <2>1 DEF ExistsBijection
  <2> QED
    BY <1>4, <2>2, FS_Bijection
<1>9. IsFiniteSet(J) /\ Cardinality(J) = Cardinality(D)
  <2> DEFINE f == [l \in D |-> Judged(l)]
  <2>1. f \in Bijection(D, J)
    BY <1>2, <1>5 DEF Bijection, Injection, Surjection, IsInjective
  <2>2. ExistsBijection(D, J)
    BY <2>1 DEF ExistsBijection
  <2> QED
    BY <1>4, <2>2, FS_Bijection
<1>10. Cardinality(shown) + Cardinality(rejected) = Cardinality(J)
  <2>1. Cardinality(rejected) = Cardinality(J) - Cardinality(J \cap shown)
    BY <1>6, <1>9, FS_Difference
  <2>2. J \cap shown = shown
    BY <1>6
  <2>5. Cardinality(rejected) = Cardinality(J) - Cardinality(shown)
    BY <2>1, <2>2
  <2>3. IsFiniteSet(shown)
    BY <1>6, <1>9, FS_Subset
  <2>4. Cardinality(shown) \in Nat /\ Cardinality(J) \in Nat
    BY <1>9, <2>3, FS_CardinalityType
  <2> PICK x \in Nat, y \in Nat : x = Cardinality(shown) /\ y = Cardinality(J)
    BY <2>4
  <2>6. x + (y - x) = y
    OBVIOUS
  <2> QED
    BY ONLY <2>5, <2>6, x = Cardinality(shown), y = Cardinality(J)
<1>11. keys(shown) \cup keys(rejected) = keys(loops)
  <2>1. shown \cup rejected = J
    BY <1>6
  <2>2. keys(shown) \cup keys(rejected) = keys(shown \cup rejected)
    OBVIOUS
  <2> HIDE DEF keys
  <2> QED
    BY <1>7, <2>1, <2>2
<1> HIDE DEF J, keys
<1>12. PathsAreAccounted(ResultFor(D), loops) <=>
          /\ keys(shown) \cup keys(rejected) = keys(loops)
          /\ Cardinality(shown) + Cardinality(rejected) = Cardinality(keys(loops))
          /\ \A l \in shown : Count(LoopSupports(l)) >= 2 /\ l.confidence >= 840
  BY DEF PathsAreAccounted, keys, shown, rejected
<1>13. PathsAreAccounted(ResultFor(D), loops)
  BY <1>6, <1>7, <1>8, <1>9, <1>10, <1>11, <1>12
<1> QED
  BY <1>13 DEF D, loops

\* A loop that outranks another of as many signals weighs as much, but for what is rounded
\* away or hidden by the bound of the confidence.
LEMMA OutrankingWeighs ==
    ASSUME NEW k, NEW l, IsLoop(k), IsLoop(l), k.thirds = l.thirds, RankOf(l) <= RankOf(k)
    PROVE  Weight(l) \div 300 <= Weight(k) \div 300 + (IF l.confidence = 990 THEN 8 ELSE 1)
<1> PICK t \in {1020, 2000, 3000} : t = k.thirds /\ t = l.thirds
  BY DEF IsLoop
<1> PICK x, y : x = k.confidence /\ y = l.confidence
  OBVIOUS
<1> PICK v \in Int, w \in Int : v = Weight(k) /\ w = Weight(l)
  BY ConfidenceOfLoop
<1>1. x \in Int /\ y \in Int /\ x <= 990 /\ y <= 990
  BY RankIsNumber
<1>2. x = AtMost(990, (v + 24 * t) \div 300) /\ y = AtMost(990, (w + 24 * t) \div 300)
  <2>1. /\ x = Combined(k.complete, k.continuous, t, k.relationship)
        /\ y = Combined(l.complete, l.continuous, t, l.relationship)
    BY DEF IsLoop
  <2>2. t \in Int
    OBVIOUS
  <2>3. Combined(k.complete, k.continuous, t, k.relationship)
              = AtMost(990, (Weight(k) + 24 * t) \div 300)
    BY ONLY <2>2, IsLoop(k), ConfidenceOfLoop
  <2>4. Combined(l.complete, l.continuous, t, l.relationship)
              = AtMost(990, (Weight(l) + 24 * t) \div 300)
    BY ONLY <2>2, IsLoop(l), ConfidenceOfLoop
  <2> QED
    BY <2>1, <2>3, <2>4
<1>3. y <= x
  <2> PICK a \in 0..1, b \in 0..1 :
        /\ RankOf(k) = (x * 3001 + t) * 2 + a /\ RankOf(l) = (y * 3001 + t) * 2 + b
    BY DEF RankOf
  <2>1. (y * 3001 + t) * 2 + b <= (x * 3001 + t) * 2 + a
    BY RankOf(l) <= RankOf(k)
  <2> QED
    BY ONLY <2>1, <1>1, a \in 0..1, b \in 0..1, t \in {1020, 2000, 3000}
<1>4. w <= 227430
  <2> PICK e, f, r : e = l.complete /\ f = l.continuous /\ r = l.relationship
    OBVIOUS
  <2>1. ((e = 1000 /\ f = 1000) \/ (e = 880 /\ f = 900)) /\ r \in 0..990
    BY DEF IsLoop
  <2>2. w = 72 * e + 84 * f + 72 * r + 150
    BY DEF Weight
  <2> QED
    BY ONLY <2>1, <2>2
<1>5. CASE y = 990
  <2>1. (v + 24 * t) \div 300 >= 990
    <3> PICK q \in Int : q = (v + 24 * t) \div 300
      OBVIOUS
    <3>1. x = 990
      BY <1>1, <1>3, <1>5
    <3> QED
      BY ONLY <1>2, <3>1, q \in Int, q = (v + 24 * t) \div 300 DEF AtMost
  <2>2. v + 24 * t >= 297000
    BY ONLY <2>1, v \in Int, t \in {1020, 2000, 3000}
  <2>3. v >= 225000
    BY ONLY <2>2, v \in Int, t \in {1020, 2000, 3000}
  <2>4. v \div 300 >= 750
    BY ONLY <2>3, v \in Int
  <2>5. w \div 300 <= 758
    BY ONLY <1>4, w \in Int
  <2>6. w \div 300 <= v \div 300 + 8
    BY ONLY <2>4, <2>5, v \in Int, w \in Int
  <2> QED
    BY <1>5, <2>6
<1>6. CASE y # 990
  <2> PICK p \in Int, q \in Int : p = (v + 24 * t) \div 300 /\ q = (w + 24 * t) \div 300
    OBVIOUS
  <2>1. q <= p
    BY ONLY <1>1, <1>2, <1>3, <1>6, p \in Int, q \in Int,
            p = (v + 24 * t) \div 300, q = (w + 24 * t) \div 300 DEF AtMost
  <2>2. w < v + 300
    BY ONLY <2>1, v \in Int, w \in Int, t \in {1020, 2000, 3000},
            p = (v + 24 * t) \div 300, q = (w + 24 * t) \div 300
  <2>3. w \div 300 <= v \div 300 + 1
    BY ONLY <2>2, v \in Int, w \in Int
  <2> QED
    BY <1>6, <2>3
<1> QED
  BY <1>5, <1>6

LEMMA LoopsAreJudgedBest ==
    ASSUME NEW list, NEW m, Legible(list, m)
    PROVE  KeptIsJudgedBest(ResultFor(Discover(list)), {c.loop : c \in LoopsOnPaths(list)})
<1> DEFINE loops == {c.loop : c \in LoopsOnPaths(list)}
           D == Discover(list)
           shown == {s.loop : s \in ResultFor(D).shown}
           rejected == ResultFor(D).rejected
<1>1. \A l \in loops : IsLoop(l)
  BY FoundAreLoops
<1>2. /\ D \subseteq loops
      /\ \A k \in D, l \in loops : LoopKey(k) = LoopKey(l) => RankOf(l) <= RankOf(k)
  BY KeptOfEach
<1> HIDE DEF loops, D
<1>3. shown \cup rejected \subseteq {Judged(l) : l \in D}
  BY <1>1, <1>2, JudgedAreParted
<1> HIDE DEF shown, rejected
<1>4. ASSUME NEW l \in loops, NEW k \in shown \cup rejected, LoopKey(k) = LoopKey(l),
             \A n \in {n \in loops : LoopKey(n) = LoopKey(l)} :
                 n.thirds = l.thirds /\ (n.texts = {} <=> l.texts = {})
      PROVE  Judged(l).confidence <= k.confidence + (IF l.confidence = 990 THEN 8 ELSE 1)
  <2>1. PICK d \in D : k = Judged(d)
    BY <1>3
  <2>2. IsLoop(d) /\ IsLoop(l) /\ d \in loops
    BY <1>1, <1>2
  <2>3. LoopKey(d) = LoopKey(l)
    BY <1>4, <2>1, <2>2, JudgedTells
  <2>4. d.thirds = l.thirds /\ (d.texts = {} <=> l.texts = {})
    BY <1>4, <2>2, <2>3
  <2>5. RankOf(l) <= RankOf(d)
    BY <1>2, <2>3
  <2>6. d.sensor = l.sensor /\ d.actuator = l.actuator /\ d.process = l.process
    BY <2>3 DEF LoopKey
  <2>7. SupportsAdd(d) = SupportsAdd(l)
    BY <2>4, <2>6 DEF SupportsAdd, LoopSupports
  <2>8. Weight(l) \div 300 <= Weight(d) \div 300 + (IF l.confidence = 990 THEN 8 ELSE 1)
    BY <2>2, <2>4, <2>5, OutrankingWeighs
  <2> PICK s \in {1, 8} : s = IF l.confidence = 990 THEN 8 ELSE 1
    OBVIOUS
  <2> PICK u \in Nat, v \in Int, w \in Int :
        u = SupportsAdd(l) /\ v = Weight(d) \div 300 /\ w = Weight(l) \div 300
    BY <2>2, JudgedTells
  <2>9. Judged(l).confidence = AtMost(990, w + u) /\ k.confidence = AtMost(990, v + u)
    BY <2>1, <2>2, <2>7, JudgedTells
  <2>10. w <= v + s
    BY <2>8
  <2>11. AtMost(990, w + u) <= AtMost(990, v + u) + s
    BY ONLY <2>10, s \in {1, 8}, u \in Nat, v \in Int, w \in Int DEF AtMost
  <2> QED
    BY <2>9, <2>11
<1>5. KeptIsJudgedBest(ResultFor(D), loops)
  BY <1>4 DEF KeptIsJudgedBest, shown, rejected
<1> QED
  BY <1>5 DEF D, loops

\* Two lists that hold the same relationships in opposite order.
Mirrors(a, b) ==
    /\ DOMAIN a \subseteq Int /\ DOMAIN b \subseteq Int
    /\ \A i \in DOMAIN a : -i \in DOMAIN b /\ b[-i] = a[i]
    /\ \A i \in DOMAIN b : -i \in DOMAIN a /\ a[-i] = b[i]

LEMMA TwoOrThree ==
    ASSUME NEW list, NEW p
    PROVE  /\ p \in (DOMAIN list) \X (DOMAIN list) => Len(p) = 2
           /\ p \in (DOMAIN list) \X (DOMAIN list) \X (DOMAIN list) => Len(p) = 3
<1> DEFINE d == DOMAIN list
<1>1. ASSUME p \in d \X d PROVE Len(p) = 2
  <2>1. p = <<p[1], p[2]>>
    BY <1>1
  <2> QED
    BY <2>1
<1>2. ASSUME p \in d \X d \X d PROVE Len(p) = 3
  <2>1. p = <<p[1], p[2], p[3]>>
    BY <1>2
  <2> QED
    BY <2>1
<1> QED
  BY <1>1, <1>2

LEMMA PathsAreFollowed ==
    ASSUME NEW list, NEW d, d = DOMAIN list, NEW x \in d, NEW y \in d
    PROVE  /\ Starts(list, x, "actuator") /\ Follows(list, x, y, ProcessKinds, "process")
                => <<x, y>> \in PathsIn(list)
           /\ \A z \in d : (/\ Starts(list, x, "controller")
                            /\ Follows(list, x, y, ControlKinds, "actuator")
                            /\ Follows(list, y, z, ProcessKinds, "process"))
                           => <<x, y, z>> \in PathsIn(list)
<1>1. <<x, y>> \in d \X d /\ \A z \in d : <<x, y, z>> \in d \X d \X d
  OBVIOUS
<1> QED
  BY <1>1 DEF PathsIn

LEMMA MirroredLoops ==
    ASSUME NEW a, NEW b, Mirrors(a, b), NEW c \in LoopsOnPaths(a)
    PROVE  c.loop \in {e.loop : e \in LoopsOnPaths(b)}
<1>1. PICK p \in PathsIn(a) : c = [path |-> p, loop |-> LoopOf(a, p)]
  BY DEF LoopsOnPaths
<1>2. c.path = p /\ c.loop = LoopOf(a, p)
  BY <1>1
<1>3. IsPath(p, a)
  BY PathsArePaths
<1>4. /\ \A i \in DOMAIN a : \A role : Starts(a, i, role) => Starts(b, -i, role)
      /\ \A i, j \in DOMAIN a : \A kinds, role :
            Follows(a, i, j, kinds, role) => Follows(b, -i, -j, kinds, role)
  BY DEF Mirrors, Starts, Follows
<1>5. \A s, u : MeasuredIn(a, s, u) => MeasuredIn(b, s, u)
  BY DEF Mirrors, MeasuredIn
<1>6. PICK q \in PathsIn(b) : LoopOf(b, q) = LoopOf(a, p)
  <2>1. CASE Len(p) = 3
    <3> PICK x \in DOMAIN a, y \in DOMAIN a, z \in DOMAIN a : p = <<x, y, z>>
      BY <1>3, <2>1 DEF IsPath
    <3>1. p \notin (DOMAIN a) \X (DOMAIN a)
      <4>1. p \in (DOMAIN a) \X (DOMAIN a) => Len(p) = 2
        BY ONLY TwoOrThree
      <4> QED
        BY ONLY <2>1, <4>1
    <3>2. /\ Starts(a, x, "controller") /\ Follows(a, x, y, ControlKinds, "actuator")
          /\ Follows(a, y, z, ProcessKinds, "process")
      <4>1. /\ Starts(a, p[1], "controller") /\ Follows(a, p[1], p[2], ControlKinds, "actuator")
            /\ Follows(a, p[2], p[3], ProcessKinds, "process")
        BY <3>1 DEF PathsIn
      <4> QED
        BY <4>1
    <3> DEFINE q == <<-x, -y, -z>>
    <3>3. -x \in DOMAIN b /\ -y \in DOMAIN b /\ -z \in DOMAIN b
      BY DEF Mirrors
    <3>4. /\ Starts(b, -x, "controller") /\ Follows(b, -x, -y, ControlKinds, "actuator")
          /\ Follows(b, -y, -z, ProcessKinds, "process")
      BY <1>4, <3>2
    <3>5. q \in PathsIn(b)
      BY <3>3, <3>4, PathsAreFollowed
    <3>6. [i \in DOMAIN q |-> b[q[i]]] = [i \in DOMAIN p |-> a[p[i]]]
      <4>1. b[-x] = a[x] /\ b[-y] = a[y] /\ b[-z] = a[z]
        BY DEF Mirrors
      <4>2. DOMAIN q = 1..3 /\ DOMAIN p = 1..3
        OBVIOUS
      <4>3. \A i \in 1..3 : b[q[i]] = a[p[i]]
        BY <4>1
      <4> HIDE DEF q
      <4> QED
        BY <4>2, <4>3
    <3> HIDE DEF q
    <3> QED
      BY <3>5, <3>6 DEF LoopOf
  <2>2. CASE Len(p) = 2
    <3> PICK x \in DOMAIN a, y \in DOMAIN a : p = <<x, y>>
      BY <1>3, <2>2 DEF IsPath
    <3>1. p \notin (DOMAIN a) \X (DOMAIN a) \X (DOMAIN a)
      <4>1. p \in (DOMAIN a) \X (DOMAIN a) \X (DOMAIN a) => Len(p) = 3
        BY ONLY TwoOrThree
      <4> QED
        BY ONLY <2>2, <4>1
    <3>2. Starts(a, x, "actuator") /\ Follows(a, x, y, ProcessKinds, "process")
      <4>1. Starts(a, p[1], "actuator") /\ Follows(a, p[1], p[2], ProcessKinds, "process")
        BY <3>1 DEF PathsIn
      <4> QED
        BY <4>1
    <3> DEFINE q == <<-x, -y>>
    <3>3. -x \in DOMAIN b /\ -y \in DOMAIN b
      BY DEF Mirrors
    <3>4. Starts(b, -x, "actuator") /\ Follows(b, -x, -y, ProcessKinds, "process")
      BY <1>4, <3>2
    <3>5. q \in PathsIn(b)
      BY <3>3, <3>4, PathsAreFollowed
    <3>6. [i \in DOMAIN q |-> b[q[i]]] = [i \in DOMAIN p |-> a[p[i]]]
      <4>1. b[-x] = a[x] /\ b[-y] = a[y]
        BY DEF Mirrors
      <4>2. DOMAIN q = 1..2 /\ DOMAIN p = 1..2
        OBVIOUS
      <4>3. \A i \in 1..2 : b[q[i]] = a[p[i]]
        BY <4>1
      <4> HIDE DEF q
      <4> QED
        BY <4>2, <4>3
    <3> HIDE DEF q
    <3> QED
      BY <3>5, <3>6 DEF LoopOf
  <2> QED
    BY <1>3, <2>1, <2>2 DEF IsPath
<1>7. MeasuredIn(a, c.loop.sensor, c.loop.process)
  BY DEF LoopsOnPaths
<1> DEFINE e == [path |-> q, loop |-> LoopOf(b, q)]
<1>8. e.loop = c.loop
  BY <1>2, <1>6
<1>9. e \in LoopsOnPaths(b)
  <2>1. MeasuredIn(b, e.loop.sensor, e.loop.process)
    BY <1>5, <1>7, <1>8
  <2> QED
    BY <2>1 DEF LoopsOnPaths
<1> HIDE DEF e
<1> QED
  BY <1>8, <1>9

LEMMA MirrorsHoldTheSame ==
    ASSUME NEW a, NEW b, Mirrors(a, b)
    PROVE  {c.loop : c \in LoopsOnPaths(a)} = {c.loop : c \in LoopsOnPaths(b)}
<1>1. Mirrors(b, a)
  BY DEF Mirrors
<1>2. \A c \in LoopsOnPaths(a) : c.loop \in {e.loop : e \in LoopsOnPaths(b)}
  BY MirroredLoops
<1>3. \A c \in LoopsOnPaths(b) : c.loop \in {e.loop : e \in LoopsOnPaths(a)}
  BY <1>1, MirroredLoops
<1> QED
  BY <1>2, <1>3

\* The loops on paths that are measured.
LoopsIn(list) == {c.loop : c \in LoopsOnPaths(list)}

\* Where no two loops of a key rank alike, those are kept that outrank the others.
LEMMA KeptOutrank ==
    ASSUME NEW list, NEW m, Legible(list, m),
           \A k, l \in LoopsIn(list) : (LoopKey(k) = LoopKey(l) /\ k # l) => RankOf(k) # RankOf(l)
    PROVE  Discover(list)
             = {l \in LoopsIn(list) : \A k \in LoopsIn(list) :
                   LoopKey(k) = LoopKey(l) => RankOf(k) <= RankOf(l)}
<1> DEFINE loops == LoopsIn(list)
<1>1. /\ Discover(list) \subseteq loops
      /\ \A l \in loops : \E k \in Discover(list) : LoopKey(k) = LoopKey(l)
      /\ \A k \in Discover(list), l \in loops : LoopKey(k) = LoopKey(l) => RankOf(l) <= RankOf(k)
  BY KeptOfEach DEF LoopsIn
<1>2. \A l \in loops : RankOf(l) \in Int
  BY FoundAreLoops, RankIsNumber DEF LoopsIn
<1>3. ASSUME NEW l \in loops,
             \A k \in loops : LoopKey(k) = LoopKey(l) => RankOf(k) <= RankOf(l)
      PROVE  l \in Discover(list)
  <2>1. PICK k \in Discover(list) : LoopKey(k) = LoopKey(l)
    BY <1>1
  <2>2. RankOf(k) <= RankOf(l) /\ RankOf(l) <= RankOf(k)
    BY <1>1, <1>3, <2>1
  <2>3. RankOf(k) = RankOf(l)
    BY <1>1, <1>2, <2>2
  <2> QED
    BY <1>1, <2>1, <2>3
<1> QED
  BY <1>1, <1>3

\* A supported relationship, as validate_relationships leaves it.
Trusted(r) == [r EXCEPT !.trust = AtMost(99, @ + 6 * (Count(RelationSupports(r)) - 1))]

LEMMA SupportedIsTrusted ==
    ASSUME NEW list
    PROVE  /\ DOMAIN Supported(list)
                = {i \in DOMAIN list : Count(RelationSupports(list[i])) >= 2}
           /\ \A i \in DOMAIN Supported(list) : Supported(list)[i] = Trusted(list[i])
  BY DEF Supported, Trusted

LEMMA SupportedIsLegible ==
    ASSUME NEW list, NEW m \in Nat, DOMAIN list \subseteq Int,
           \A i \in DOMAIN list :
              i + m \in Nat /\ "trust" \in DOMAIN list[i] /\ list[i].trust \in 0..100
    PROVE  Legible(Supported(list), m)
<1>1. ASSUME NEW i \in DOMAIN Supported(list)
      PROVE  Supported(list)[i].trust \in 0..99
  <2> PICK r : r = list[i]
    OBVIOUS
  <2>1. /\ Supported(list)[i] = Trusted(r) /\ Count(RelationSupports(r)) >= 2
        /\ "trust" \in DOMAIN r /\ r.trust \in 0..100
    BY SupportedIsTrusted
  <2>2. Count(RelationSupports(r)) \in 0..3
    <3> DEFINE said == Between(r.source, r.target)
               s1 == r.refs # {} \/ \E k \in DOMAIN said : said[k].ref # None
               s2 == \/ ServedUnit[r.source] # None /\ ServedUnit[r.source] = ServedUnit[r.target]
                     \/ r.kind = "MEASURES" /\ r.target \in UnitTyped
                     \/ r.kind = "PART_OF"
               s3 == SharedDigits(r.source, r.target)
               s4 == IF said = <<>> THEN <<r.source, r.target>> \in TypeFits
                                    ELSE said[1].fits
               s5 == s3 \/ s4
    <3>1. RelationSupports(r) = <<s1, s2, s5>>
      BY DEF RelationSupports
    <3> HIDE DEF s1, s2, s3, s4, s5
    <3> QED
      BY <3>1, CountOfThree
  <2> PICK n \in 0..3 : n = Count(RelationSupports(r))
    BY <2>2
  <2> PICK t \in 0..100 : t = r.trust
    BY <2>1
  <2>3. Trusted(r).trust = AtMost(99, t + 6 * (n - 1))
    BY <2>1 DEF Trusted
  <2>4. AtMost(99, t + 6 * (n - 1)) \in 0..99
    BY <2>1 DEF AtMost
  <2> QED
    BY <2>1, <2>3, <2>4
<1> QED
  BY <1>1, SupportedIsTrusted DEF Legible

LEMMA SupportedMirrors ==
    ASSUME NEW a, NEW b, Mirrors(a, b) PROVE Mirrors(Supported(a), Supported(b))
<1>1. \A i \in Int : -(-i) = i
  OBVIOUS
<1>2. ASSUME NEW x, NEW y, Mirrors(x, y), NEW i \in DOMAIN Supported(x)
      PROVE  -i \in DOMAIN Supported(y) /\ Supported(y)[-i] = Supported(x)[i]
  <2>1. i \in DOMAIN x /\ -i \in DOMAIN y /\ y[-i] = x[i]
    BY <1>2, SupportedIsTrusted DEF Mirrors
  <2>2. -i \in DOMAIN Supported(y)
    BY ZenonT(60), <2>1, SupportedIsTrusted
  <2> QED
    BY <2>1, <2>2, SupportedIsTrusted
<1>3. Mirrors(b, a)
  BY DEF Mirrors
<1>4. DOMAIN Supported(a) \subseteq Int /\ DOMAIN Supported(b) \subseteq Int
  BY SupportedIsTrusted DEF Mirrors
<1> QED
  BY <1>2, <1>3, <1>4 DEF Mirrors

LEMMA BackwardsMirrors ==
    ASSUME NEW list, DOMAIN list \subseteq Int PROVE Mirrors(list, Backwards(list))
<1> DEFINE d == DOMAIN list
           N == {-j : j \in d}
<1>1. \A i \in Int : -i \in Int /\ -(-i) = i
  OBVIOUS
<1>2. d \subseteq Int /\ N \subseteq Int /\ \A i \in N : -i \in d
  BY <1>1
<1>3. DOMAIN Backwards(list) = N /\ \A i \in N : Backwards(list)[i] = list[-i]
  BY DEF Backwards
<1>4. \A i \in d : -i \in N
  OBVIOUS
<1> HIDE DEF N
<1>5. \A i \in d : Backwards(list)[-i] = list[i]
  BY <1>1, <1>2, <1>3, <1>4
<1> QED
  BY <1>2, <1>3, <1>4, <1>5 DEF Mirrors

LEMMA LoopsOfAllAreJudged == PresentInv => LoopsAreJudged
<1> SUFFICES ASSUME PresentInv
             PROVE  AreJudged(Result(Given), {c.loop : c \in LoopsOnPaths(Supported(Given))})
  BY DEF LoopsAreJudged
<1> DEFINE n == Len(Candidates)
           a == Supported(Given)
           b == Supported(Backwards(Given))
           loops == {c.loop : c \in LoopsOnPaths(a)}
<1>1. DOMAIN Given = present /\ \A i \in present : Given[i] = Candidates[i]
  BY DEF Given
<1>2. n \in Nat /\ \A i \in present : i \in 1..n /\ "trust" \in DOMAIN Candidates[i]
                                      /\ Candidates[i].trust \in 0..100
  BY StrictLoopsAssumption DEF PresentInv, StrictLoopsAssumption
<1>3. DOMAIN Given \subseteq Int
  BY <1>1, <1>2
<1>4. Mirrors(Given, Backwards(Given))
  BY <1>3, BackwardsMirrors
<1>5. Legible(a, 0)
  <2>1. \A i \in DOMAIN Given : i + 0 \in Nat /\ "trust" \in DOMAIN Given[i]
                                /\ Given[i].trust \in 0..100
    <3>1. \A i \in 1..n : i + 0 \in Nat
      BY <1>2
    <3> HIDE DEF n
    <3> QED
      BY <1>1, <1>2, <3>1
  <2> QED
    BY <1>3, <2>1, SupportedIsLegible
<1>6. Legible(b, n)
  <2>1. ASSUME NEW i \in DOMAIN Backwards(Given)
        PROVE  i + n \in Nat /\ "trust" \in DOMAIN Backwards(Given)[i]
               /\ Backwards(Given)[i].trust \in 0..100
    <3>1. i \in Int /\ -i \in present /\ Backwards(Given)[i] = Candidates[-i]
      BY <1>1, <1>4 DEF Mirrors
    <3>2. \A x \in Int : -x \in 1..n => x + n \in Nat
      BY <1>2
    <3>3. i + n \in Nat
      BY <1>2, <3>1, <3>2
    <3> QED
      BY <1>2, <3>1, <3>3
  <2>2. DOMAIN Backwards(Given) \subseteq Int
    BY <1>4 DEF Mirrors
  <2> HIDE DEF n
  <2> QED
    BY <1>2, <2>1, <2>2, SupportedIsLegible
<1>7. IsFiniteSet(DOMAIN a)
  <2>1. DOMAIN a \in SUBSET present
    BY <1>1, SupportedIsTrusted
  <2> QED
    BY <2>1, FS_Subset DEF PresentInv
<1>8. Result(Given) = ResultFor(Discover(a)) /\ Result(Backwards(Given)) = ResultFor(Discover(b))
  BY DEF Result
<1>9. loops = {c.loop : c \in LoopsOnPaths(b)}
  BY <1>4, SupportedMirrors, MirrorsHoldTheSame
<1> HIDE DEF a, b, n
<1>10. PathsAreAccounted(Result(Given), loops)
  BY <1>5, <1>7, <1>8, LoopsAreAccounted
<1>11. KeptIsJudgedBest(Result(Given), loops)
  BY <1>5, <1>8, LoopsAreJudgedBest
<1>12. ResultIsOrderFree(Result(Given), loops)
  <2> HIDE DEF loops
  <2>1. SUFFICES ASSUME \A k, l \in loops : (LoopKey(k) = LoopKey(l) /\ k # l)
                                             => RankOf(k) # RankOf(l)
                 PROVE  Result(Backwards(Given)) = Result(Given)
    BY DEF ResultIsOrderFree
  <2>2. loops = {c.loop : c \in LoopsOnPaths(a)}
    BY DEF loops
  <2> DEFINE R == {l \in loops : \A k \in loops :
                        LoopKey(k) = LoopKey(l) => RankOf(k) <= RankOf(l)}
  <2>3. Discover(a) = R
    <3>1. LoopsIn(a) = loops
      BY <2>2 DEF LoopsIn
    <3>2. \A k, l \in LoopsIn(a) : (LoopKey(k) = LoopKey(l) /\ k # l) => RankOf(k) # RankOf(l)
      BY ONLY <2>1, <3>1
    <3>3. Discover(a) = {l \in LoopsIn(a) : \A k \in LoopsIn(a) :
                              LoopKey(k) = LoopKey(l) => RankOf(k) <= RankOf(l)}
      BY ONLY <1>5, <3>2, KeptOutrank
    <3> QED
      BY <3>1, <3>3
  <2>4. Discover(b) = R
    <3>1. LoopsIn(b) = loops
      BY <1>9 DEF LoopsIn
    <3>2. \A k, l \in LoopsIn(b) : (LoopKey(k) = LoopKey(l) /\ k # l) => RankOf(k) # RankOf(l)
      BY ONLY <2>1, <3>1
    <3>3. Discover(b) = {l \in LoopsIn(b) : \A k \in LoopsIn(b) :
                              LoopKey(k) = LoopKey(l) => RankOf(k) <= RankOf(l)}
      BY ONLY <1>6, <3>2, KeptOutrank
    <3> QED
      BY <3>1, <3>3
  <2> QED
    BY <1>8, <2>3, <2>4
<1>13. AreJudged(Result(Given), loops)
  BY <1>10, <1>11, <1>12 DEF AreJudged
<1> QED
  BY <1>13 DEF a, loops

\* Of every parse the loops are accounted for, the kept ones are judged best but for what is
\* rounded away, and none hangs on an order: LoopsAreJudged holds in every behaviour of
\* StrictSpec (strict_control_loop_engine.py, discover; cross_validation_service.py,
\* validate_loops; validation_control_loop_layer.py, process).
THEOREM LoopsStayJudged == StrictSpec => []LoopsAreJudged
<1> QED
  BY PresentStays, LoopsOfAllAreJudged, PTL

----------------------------------------
\* The loops of the plant graph. Whatever the store, the rows of edges say
\* of each device and process the scores of the edges between them.

\* The scores of the edges of one meaning between a device and a process.
ScoresOf(meaning, role, n, p) ==
    {e.score : e \in {d \in graph :
        /\ Normalized(d) = meaning
        /\ \/ d.source = n /\ Is(n, role) /\ Is(d.target, "process") /\ Unit(d.target) = p
           \/ d.target = n /\ Is(n, role) /\ Is(d.source, "process") /\ Unit(d.source) = p}}

Devicing == {"sensor", "actuator"}
Units == {Unit(n) : n \in Nodes}
Row(n, p, s) == [device |-> n, process |-> p, score |-> s]
EdgeRowsIn(edgeRows, meaning, role) == UNION {RowOfEdge(e, meaning, role) : e \in edgeRows}

LEMMA ReversedSaysTheSame ==
    ASSUME NEW e \in DrawnEdges
    PROVE  /\ Reversed(e).source = e.target /\ Reversed(e).target = e.source
           /\ Reversed(e).score = e.score /\ Normalized(Reversed(e)) = Normalized(e)
           /\ \A role : Joins(Reversed(e), role) <=> Joins(e, role)
<1>1. /\ Reversed(e).source = e.target /\ Reversed(e).target = e.source
      /\ Reversed(e).score = e.score
      /\ Reversed(e).kind = e.kind /\ Reversed(e).semantic = e.semantic
  BY DEF Reversed, DrawnEdges
<1>2. \A role : Joins(Reversed(e), role) <=> Joins(e, role)
  BY <1>1 DEF Joins
<1>3. Normalized(Reversed(e)) = Normalized(e)
  BY <1>1, <1>2 DEF Normalized, ByKind
<1> QED
  BY <1>1, <1>2, <1>3

\* What an edge gives.
LEMMA RowsAreTold ==
    ASSUME NEW e \in DrawnEdges, NEW meaning, NEW role, NEW row \in RowOfEdge(e, meaning, role)
    PROVE  /\ Normalized(e) = meaning
           /\ \/ Is(e.source, role) /\ Is(e.target, "process")
                 /\ row = Row(e.source, Unit(e.target), e.score)
              \/ Is(e.target, role) /\ Is(e.source, "process")
                 /\ row = Row(e.target, Unit(e.source), e.score)
  BY DEF RowOfEdge, Joins, Row

LEMMA RowsFromNeo4j ==
    ASSUME graph \subseteq DrawnEdges, NEW meaning, NEW role
    PROVE  /\ \A row \in EdgeRowsIn(FromNeo4j, meaning, role) :
                \E n \in Nodes, p \in Units : \E s \in ScoresOf(meaning, role, n, p) :
                    row = Row(n, p, s)
           /\ \A n \in Nodes, p \in Units : \A s \in ScoresOf(meaning, role, n, p) :
                Row(n, p, s) \in EdgeRowsIn(FromNeo4j, meaning, role)
<1>1. ASSUME NEW row \in EdgeRowsIn(FromNeo4j, meaning, role)
      PROVE  \E n \in Nodes, p \in Units : \E s \in ScoresOf(meaning, role, n, p) :
                row = Row(n, p, s)
  <2>1. PICK f \in FromNeo4j : row \in RowOfEdge(f, meaning, role)
    BY DEF EdgeRowsIn
  <2>2. PICK e \in graph : f = e \/ f = Reversed(e)
    BY DEF FromNeo4j
  <2>3. /\ e \in DrawnEdges /\ f \in DrawnEdges
        /\ e.source \in Nodes /\ e.target \in Nodes
    BY <2>2 DEF DrawnEdges, Reversed
  <2>4. /\ Normalized(e) = meaning
        /\ \/ Is(e.source, role) /\ Is(e.target, "process")
              /\ row = Row(e.source, Unit(e.target), e.score)
           \/ Is(e.target, role) /\ Is(e.source, "process")
              /\ row = Row(e.target, Unit(e.source), e.score)
    <3>1. /\ Normalized(f) = meaning
          /\ \/ Is(f.source, role) /\ Is(f.target, "process")
                /\ row = Row(f.source, Unit(f.target), f.score)
             \/ Is(f.target, role) /\ Is(f.source, "process")
                /\ row = Row(f.target, Unit(f.source), f.score)
      BY <2>1, <2>3, RowsAreTold
    <3> QED
      BY <2>2, <2>3, <3>1, ReversedSaysTheSame
  <2>5. CASE Is(e.source, role) /\ Is(e.target, "process")
             /\ row = Row(e.source, Unit(e.target), e.score)
    <3>1. e.score \in ScoresOf(meaning, role, e.source, Unit(e.target))
      BY <2>4, <2>5 DEF ScoresOf
    <3>2. Unit(e.target) \in Units
      BY <2>3 DEF Units
    <3> QED
      BY <2>3, <2>5, <3>1, <3>2
  <2>6. CASE Is(e.target, role) /\ Is(e.source, "process")
             /\ row = Row(e.target, Unit(e.source), e.score)
    <3>1. e.score \in ScoresOf(meaning, role, e.target, Unit(e.source))
      BY <2>4, <2>6 DEF ScoresOf
    <3>2. Unit(e.source) \in Units
      BY <2>3 DEF Units
    <3> QED
      BY <2>3, <2>6, <3>1, <3>2
  <2> QED
    BY <2>4, <2>5, <2>6
<1>2. ASSUME NEW n \in Nodes, NEW p \in Units, NEW s \in ScoresOf(meaning, role, n, p)
      PROVE  Row(n, p, s) \in EdgeRowsIn(FromNeo4j, meaning, role)
  <2>1. PICK e \in graph :
          /\ s = e.score /\ Normalized(e) = meaning
          /\ \/ e.source = n /\ Is(n, role) /\ Is(e.target, "process") /\ Unit(e.target) = p
             \/ e.target = n /\ Is(n, role) /\ Is(e.source, "process") /\ Unit(e.source) = p
    BY DEF ScoresOf
  <2>2. e \in DrawnEdges
    OBVIOUS
  <2>3. CASE e.source = n /\ Is(n, role) /\ Is(e.target, "process") /\ Unit(e.target) = p
    <3>1. Row(n, p, s) \in RowOfEdge(e, meaning, role)
      BY <2>1, <2>3 DEF RowOfEdge, Joins, Row
    <3> QED
      BY <3>1 DEF EdgeRowsIn, FromNeo4j
  <2>4. CASE e.target = n /\ Is(n, role) /\ Is(e.source, "process") /\ Unit(e.source) = p
    <3>1. /\ Reversed(e).source = n /\ Reversed(e).target = e.source
          /\ Reversed(e).score = s /\ Normalized(Reversed(e)) = meaning
      BY <2>1, <2>2, <2>4, ReversedSaysTheSame
    <3>2. Row(n, p, s) \in RowOfEdge(Reversed(e), meaning, role)
      BY <2>4, <3>1 DEF RowOfEdge, Joins, Row
    <3>3. Reversed(e) \in FromNeo4j
      BY DEF FromNeo4j
    <3> QED
      BY <3>2, <3>3 DEF EdgeRowsIn
  <2> QED
    BY <2>1, <2>3, <2>4
<1> QED
  BY <1>1, <1>2

\* Where no edge can be read either way, either store gives the same rows.
LEMMA RowsFromCache ==
    ASSUME graph \subseteq DrawnEdges, \A e \in graph : ~Ambiguous(e),
           NEW meaning, NEW role \in Devicing
    PROVE  EdgeRowsIn(FromCache, meaning, role) = EdgeRowsIn(FromNeo4j, meaning, role)
<1>1. ASSUME NEW e \in graph
      PROVE  RowOfEdge(Reversed(e), meaning, role) = RowOfEdge(e, meaning, role)
  <2>1. e \in DrawnEdges
    OBVIOUS
  <2>2. /\ Reversed(e).source = e.target /\ Reversed(e).target = e.source
        /\ Reversed(e).score = e.score /\ Normalized(Reversed(e)) = Normalized(e)
        /\ Joins(Reversed(e), role) <=> Joins(e, role)
    BY <2>1, ReversedSaysTheSame
  <2>3. ~(/\ Is(e.source, role) /\ Is(e.target, "process")
          /\ Is(e.target, role) /\ Is(e.source, "process"))
    BY DEF Ambiguous, Is, Devicing
  <2>4. CASE Joins(e, role) /\ Normalized(e) = meaning
    <3>1. CASE Is(e.source, role) /\ Is(e.target, "process")
      BY <2>2, <2>3, <2>4, <3>1 DEF RowOfEdge
    <3>2. CASE Is(e.target, role) /\ Is(e.source, "process")
      BY <2>2, <2>3, <2>4, <3>2 DEF RowOfEdge
    <3> QED
      BY <2>4, <3>1, <3>2 DEF Joins
  <2>5. CASE ~(Joins(e, role) /\ Normalized(e) = meaning)
    <3>1. \A f : ~(Joins(f, role) /\ Normalized(f) = meaning) => RowOfEdge(f, meaning, role) = {}
      BY DEF RowOfEdge, Joins, Is
    <3> QED
      BY <2>2, <2>5, <3>1
  <2> QED
    BY <2>4, <2>5
<1>2. \A row \in EdgeRowsIn(FromNeo4j, meaning, role) : row \in EdgeRowsIn(FromCache, meaning, role)
  BY <1>1 DEF EdgeRowsIn, FromNeo4j, FromCache
<1>3. \A row \in EdgeRowsIn(FromCache, meaning, role) : row \in EdgeRowsIn(FromNeo4j, meaning, role)
  BY DEF EdgeRowsIn, FromNeo4j, FromCache
<1> QED
  BY <1>2, <1>3

LEMMA Greatest ==
    ASSUME NEW n \in Nat, NEW S \in SUBSET (0..n), S # {}
    PROVE  \E x \in S : \A y \in S : y <= x
<1> DEFINE T == {n - x : x \in S}
<1>1. T \in SUBSET Nat /\ T # {}
  <2>1. \A x \in S : n - x \in Nat
    OBVIOUS
  <2>2. \A t \in T : t \in Nat
    BY <2>1
  <2>3. PICK x \in S : TRUE
    OBVIOUS
  <2>4. n - x \in T
    OBVIOUS
  <2> HIDE DEF T
  <2> QED
    BY <2>2, <2>4
<1> HIDE DEF T
<1>2. PICK t \in T : \A u \in T : t <= u
  BY <1>1, Least
<1>3. PICK x \in S : t = n - x
  BY DEF T
<1>4. ASSUME NEW y \in S PROVE y <= x
  <2>1. n - y \in T
    BY DEF T
  <2>2. n - x <= n - y
    BY <1>2, <1>3, <2>1
  <2> QED
    BY <2>2
<1> QED
  BY <1>4

\* The best of the edges between a device and a process.
BestOf(meaning, role, n, p) == Best(graph, meaning, role, n, p)

LEMMA BestIsGreatest ==
    ASSUME graph \subseteq DrawnEdges, NEW meaning, NEW role, NEW n, NEW p
    PROVE  /\ ScoresOf(meaning, role, n, p) \subseteq 0..100
           /\ BestOf(meaning, role, n, p) \in Int
           /\ BestOf(meaning, role, n, p) >= 0 <=> ScoresOf(meaning, role, n, p) # {}
           /\ ScoresOf(meaning, role, n, p) # {} =>
                BestOf(meaning, role, n, p) \in ScoresOf(meaning, role, n, p)
           /\ \A s \in ScoresOf(meaning, role, n, p) : s <= BestOf(meaning, role, n, p)
<1> PICK S, b : S = ScoresOf(meaning, role, n, p) /\ b = BestOf(meaning, role, n, p)
  OBVIOUS
<1>1. S \subseteq 0..100
  BY DEF ScoresOf, DrawnEdges
<1>2. b = CHOOSE m \in S \cup {-1} : \A k \in S : m >= k
  BY DEF Best, BestOf, ScoresOf
<1>3. \E m \in S \cup {-1} : \A k \in S : m >= k
  <2>1. CASE S = {}
    BY <2>1
  <2>2. CASE S # {}
    <3>1. S \in SUBSET (0..100) /\ 100 \in Nat
      BY <1>1
    <3>2. PICK x \in S : \A y \in S : y <= x
      BY <2>2, <3>1, Greatest
    <3>3. \A y \in S : x >= y
      BY <1>1, <3>2
    <3> QED
      BY <3>3
  <2> QED
    BY <2>1, <2>2
<1>4. b \in S \cup {-1} /\ \A k \in S : b >= k
  BY ONLY <1>2, <1>3
<1>5. b \in Int /\ \A k \in S : k <= b
  BY <1>1, <1>4
<1>6. S # {} => b \in S
  <2> SUFFICES ASSUME S # {} PROVE b \in S
    OBVIOUS
  <2> PICK k \in S : TRUE
    OBVIOUS
  <2>1. k >= 0 /\ b >= k /\ k \in Int
    BY <1>1, <1>4
  <2> QED
    BY <1>4, <1>5, <2>1
<1>7. b >= 0 <=> S # {}
  BY <1>1, <1>4, <1>5, <1>6
<1> QED
  BY <1>1, <1>5, <1>6, <1>7

LoopWith(p, n, m, s) == [process |-> p, sensor |-> n, actuator |-> m, score |-> s]

PairedLoops(edgeRows) ==
    {[process |-> sa[1].process, sensor |-> sa[1].device, actuator |-> sa[2].device,
      score |-> sa[1].score + sa[2].score] :
        sa \in {rr \in SensorRows(edgeRows) \X ActuatorRows(edgeRows) :
                    rr[1].process = rr[2].process}}

LEMMA PairsOfRows ==
    ASSUME graph \subseteq DrawnEdges
    PROVE  /\ \A l \in PairedLoops(FromNeo4j) : \E n, m \in Nodes, p \in Units :
                \E s \in ScoresOf("measures", "sensor", n, p),
                   t \in ScoresOf("controls", "actuator", m, p) : l = LoopWith(p, n, m, s + t)
           /\ \A n, m \in Nodes, p \in Units :
                \A s \in ScoresOf("measures", "sensor", n, p),
                   t \in ScoresOf("controls", "actuator", m, p) :
                        LoopWith(p, n, m, s + t) \in PairedLoops(FromNeo4j)
<1> DEFINE SR == SensorRows(FromNeo4j)
           AR == ActuatorRows(FromNeo4j)
<1>1. /\ SR = EdgeRowsIn(FromNeo4j, "measures", "sensor")
      /\ AR = EdgeRowsIn(FromNeo4j, "controls", "actuator")
  BY DEF SensorRows, ActuatorRows, EdgeRowsIn
<1>2. /\ \A row \in SR : \E n \in Nodes, p \in Units :
            \E s \in ScoresOf("measures", "sensor", n, p) : row = Row(n, p, s)
      /\ \A n \in Nodes, p \in Units : \A s \in ScoresOf("measures", "sensor", n, p) :
            Row(n, p, s) \in SR
  BY <1>1, RowsFromNeo4j
<1>3. /\ \A row \in AR : \E n \in Nodes, p \in Units :
            \E s \in ScoresOf("controls", "actuator", n, p) : row = Row(n, p, s)
      /\ \A n \in Nodes, p \in Units : \A s \in ScoresOf("controls", "actuator", n, p) :
            Row(n, p, s) \in AR
  BY <1>1, RowsFromNeo4j
<1>4. PairedLoops(FromNeo4j) =
        {LoopWith(sa[1].process, sa[1].device, sa[2].device, sa[1].score + sa[2].score) :
            sa \in {rr \in SR \X AR : rr[1].process = rr[2].process}}
  BY DEF PairedLoops, LoopWith
<1> HIDE DEF SR, AR
<1>5. ASSUME NEW l \in PairedLoops(FromNeo4j)
      PROVE  \E n, m \in Nodes, p \in Units :
                \E s \in ScoresOf("measures", "sensor", n, p),
                   t \in ScoresOf("controls", "actuator", m, p) : l = LoopWith(p, n, m, s + t)
  <2>1. PICK x \in SR, y \in AR :
          /\ x.process = y.process
          /\ l = LoopWith(x.process, x.device, y.device, x.score + y.score)
    BY <1>4
  <2>a. PICK n \in Nodes, p \in Units : \E s \in ScoresOf("measures", "sensor", n, p) :
            x = Row(n, p, s)
    BY <1>2
  <2>2. PICK s \in ScoresOf("measures", "sensor", n, p) : x = Row(n, p, s)
    BY <2>a
  <2>b. PICK m \in Nodes, q \in Units : \E t \in ScoresOf("controls", "actuator", m, q) :
            y = Row(m, q, t)
    BY <1>3
  <2>3. PICK t \in ScoresOf("controls", "actuator", m, q) : y = Row(m, q, t)
    BY <2>b
  <2>4. /\ x.device = n /\ x.process = p /\ x.score = s
        /\ y.device = m /\ y.process = q /\ y.score = t
    BY <2>2, <2>3 DEF Row
  <2> QED
    BY <2>1, <2>4
<1>6. ASSUME NEW n \in Nodes, NEW m \in Nodes, NEW p \in Units,
             NEW s \in ScoresOf("measures", "sensor", n, p),
             NEW t \in ScoresOf("controls", "actuator", m, p)
      PROVE  LoopWith(p, n, m, s + t) \in PairedLoops(FromNeo4j)
  <2> PICK x, y : x = Row(n, p, s) /\ y = Row(m, p, t)
    OBVIOUS
  <2>1. x \in SR /\ y \in AR
    BY <1>2, <1>3
  <2>2. /\ x.device = n /\ x.process = p /\ x.score = s
        /\ y.device = m /\ y.process = p /\ y.score = t
    BY DEF Row
  <2> PICK sa : sa = <<x, y>>
    OBVIOUS
  <2>3. sa \in {rr \in SR \X AR : rr[1].process = rr[2].process} /\ sa[1] = x /\ sa[2] = y
    BY <2>1, <2>2
  <2> QED
    BY <1>4, <2>2, <2>3
<1> QED
  BY <1>5, <1>6

LEMMA LoopsByPairs == \A edgeRows :
    LoopsFound(edgeRows) = {l \in PairedLoops(edgeRows) : \A k \in PairedLoops(edgeRows) :
                                [k EXCEPT !.score = l.score] = l => k.score <= l.score}
  BY DEF LoopsFound, PairedLoops

\* The loops that are found, by the best edges of each sensor and actuator.
LEMMA BestArePaired ==
    ASSUME graph \subseteq DrawnEdges, NEW l
    PROVE  l \in LoopsFound(FromNeo4j) <=>
              \E p \in Units, n, m \in Nodes :
                 /\ BestOf("measures", "sensor", n, p) >= 0
                 /\ BestOf("controls", "actuator", m, p) >= 0
                 /\ l = LoopWith(p, n, m, BestOf("measures", "sensor", n, p)
                                            + BestOf("controls", "actuator", m, p))
<1> DEFINE A == PairedLoops(FromNeo4j)
           b(n, p) == BestOf("measures", "sensor", n, p)
           c(m, p) == BestOf("controls", "actuator", m, p)
<1>1. l \in LoopsFound(FromNeo4j) <=>
        l \in A /\ \A k \in A : [k EXCEPT !.score = l.score] = l => k.score <= l.score
  BY LoopsByPairs
<1>2. /\ \A x \in A : \E n, m \in Nodes, p \in Units :
                \E s \in ScoresOf("measures", "sensor", n, p),
                   t \in ScoresOf("controls", "actuator", m, p) : x = LoopWith(p, n, m, s + t)
      /\ \A n, m \in Nodes, p \in Units :
                \A s \in ScoresOf("measures", "sensor", n, p),
                   t \in ScoresOf("controls", "actuator", m, p) :
                        LoopWith(p, n, m, s + t) \in A
  BY PairsOfRows
<1>3. \A n, p : /\ ScoresOf("measures", "sensor", n, p) \subseteq 0..100
                /\ b(n, p) \in Int
                /\ b(n, p) >= 0 <=> ScoresOf("measures", "sensor", n, p) # {}
                /\ ScoresOf("measures", "sensor", n, p) # {} =>
                        b(n, p) \in ScoresOf("measures", "sensor", n, p)
                /\ \A s \in ScoresOf("measures", "sensor", n, p) : s <= b(n, p)
  BY BestIsGreatest
<1>4. \A n, p : /\ ScoresOf("controls", "actuator", n, p) \subseteq 0..100
                /\ c(n, p) \in Int
                /\ c(n, p) >= 0 <=> ScoresOf("controls", "actuator", n, p) # {}
                /\ ScoresOf("controls", "actuator", n, p) # {} =>
                        c(n, p) \in ScoresOf("controls", "actuator", n, p)
                /\ \A s \in ScoresOf("controls", "actuator", n, p) : s <= c(n, p)
  BY BestIsGreatest
<1> HIDE DEF A, b, c
<1>5. \A p, n, m, s, t : /\ LoopWith(p, n, m, s).score = s
                         /\ [LoopWith(p, n, m, s) EXCEPT !.score = t] = LoopWith(p, n, m, t)
  BY DEF LoopWith
<1>6. \A p, n, m, s, q, i, j, t : LoopWith(p, n, m, s) = LoopWith(q, i, j, t)
                                    => p = q /\ n = i /\ m = j /\ s = t
  BY DEF LoopWith
<1>7. ASSUME l \in LoopsFound(FromNeo4j)
      PROVE  \E p \in Units, n, m \in Nodes :
                b(n, p) >= 0 /\ c(m, p) >= 0 /\ l = LoopWith(p, n, m, b(n, p) + c(m, p))
  <2>1. PICK n \in Nodes, m \in Nodes, p \in Units :
          \E s \in ScoresOf("measures", "sensor", n, p),
             t \in ScoresOf("controls", "actuator", m, p) : l = LoopWith(p, n, m, s + t)
    BY <1>1, <1>2, <1>7
  <2>2. PICK s \in ScoresOf("measures", "sensor", n, p),
             t \in ScoresOf("controls", "actuator", m, p) : l = LoopWith(p, n, m, s + t)
    BY <2>1
  <2> PICK x, y : x = b(n, p) /\ y = c(m, p)
    OBVIOUS
  <2>3. /\ x \in ScoresOf("measures", "sensor", n, p) /\ y \in ScoresOf("controls", "actuator", m, p)
        /\ x \in Int /\ y \in Int /\ x >= 0 /\ y >= 0 /\ s \in Int /\ t \in Int
        /\ s <= x /\ t <= y
    BY <1>3, <1>4
  <2>4. LoopWith(p, n, m, x + y) \in A
    BY <1>2, <2>3
  <2>5. x + y <= s + t
    <3>1. [LoopWith(p, n, m, x + y) EXCEPT !.score = l.score] = l
      BY <1>5, <2>2
    <3>2. LoopWith(p, n, m, x + y).score <= l.score
      BY <1>1, <1>7, <2>4, <3>1
    <3> QED
      BY <1>5, <2>2, <3>2
  <2>6. x + y = s + t
    BY ONLY <2>3, <2>5
  <2>7. b(n, p) >= 0 /\ c(m, p) >= 0 /\ l = LoopWith(p, n, m, b(n, p) + c(m, p))
    BY <2>2, <2>3, <2>6
  <2> QED
    BY <2>7
<1>8. ASSUME NEW p \in Units, NEW n \in Nodes, NEW m \in Nodes, b(n, p) >= 0, c(m, p) >= 0,
             l = LoopWith(p, n, m, b(n, p) + c(m, p))
      PROVE  l \in LoopsFound(FromNeo4j)
  <2> PICK x, y : x = b(n, p) /\ y = c(m, p)
    OBVIOUS
  <2>1. /\ x \in ScoresOf("measures", "sensor", n, p) /\ y \in ScoresOf("controls", "actuator", m, p)
        /\ x \in Int /\ y \in Int
    BY <1>3, <1>4, <1>8
  <2>2. l \in A
    BY <1>2, <1>8, <2>1
  <2>3. ASSUME NEW k \in A, [k EXCEPT !.score = l.score] = l
        PROVE  k.score <= l.score
    <3>1. PICK i \in Nodes, j \in Nodes, q \in Units :
            \E s \in ScoresOf("measures", "sensor", i, q),
               t \in ScoresOf("controls", "actuator", j, q) : k = LoopWith(q, i, j, s + t)
      BY <1>2
    <3>2. PICK s \in ScoresOf("measures", "sensor", i, q),
               t \in ScoresOf("controls", "actuator", j, q) : k = LoopWith(q, i, j, s + t)
      BY <3>1
    <3>3. LoopWith(q, i, j, l.score) = LoopWith(p, n, m, x + y)
      BY <1>5, <1>8, <2>3, <3>2
    <3>4. q = p /\ i = n /\ j = m
      BY <1>6, <3>3
    <3>5. s \in Int /\ t \in Int /\ s <= x /\ t <= y
      BY <1>3, <1>4, <3>4
    <3>6. k.score = s + t /\ l.score = x + y
      BY <1>5, <1>8, <3>2
    <3> QED
      BY <2>1, <3>5, <3>6
  <2> QED
    BY <1>1, <2>2, <2>3
<1>9. l \in LoopsFound(FromNeo4j) <=>
        \E p \in Units, n, m \in Nodes :
            b(n, p) >= 0 /\ c(m, p) >= 0 /\ l = LoopWith(p, n, m, b(n, p) + c(m, p))
  BY <1>7, <1>8
<1> QED
  BY <1>9 DEF b, c

LEMMA ReadersFindTheSame ==
    ASSUME graph \subseteq DrawnEdges PROVE ReadersAgree
<1>1. ASSUME \A e \in graph : ~Ambiguous(e)
      PROVE  LoopsFound(FromCache) = LoopsFound(FromNeo4j)
  <2>1. /\ SensorRows(FromCache) = SensorRows(FromNeo4j)
        /\ ActuatorRows(FromCache) = ActuatorRows(FromNeo4j)
    <3>1. "sensor" \in Devicing /\ "actuator" \in Devicing
      BY DEF Devicing
    <3> QED
      BY <1>1, <3>1, RowsFromCache DEF SensorRows, ActuatorRows, EdgeRowsIn
  <2>2. PairedLoops(FromCache) = PairedLoops(FromNeo4j)
    BY <2>1 DEF PairedLoops
  <2> QED
    BY <2>2, LoopsByPairs
<1> DEFINE b(n, p) == Best(graph, "measures", "sensor", n, p)
           c(m, p) == Best(graph, "controls", "actuator", m, p)
           F(p) == {[process |-> p, sensor |-> n, actuator |-> m,
                     score |-> b(n, p) + c(m, p)] :
                        n \in {d \in Nodes : b(d, p) >= 0},
                        m \in {d \in Nodes : c(d, p) >= 0}}
           U == UNION {F(p) : p \in Units}
<1>2. \A l : l \in LoopsFound(FromNeo4j) <=>
        \E p \in Units, n, m \in Nodes :
            /\ b(n, p) >= 0 /\ c(m, p) >= 0
            /\ l = [process |-> p, sensor |-> n, actuator |-> m, score |-> b(n, p) + c(m, p)]
  BY BestArePaired DEF BestOf, LoopWith
<1> HIDE DEF b, c
<1>3. \A l : l \in U <=>
        \E p \in Units, n, m \in Nodes :
            /\ b(n, p) >= 0 /\ c(m, p) >= 0
            /\ l = [process |-> p, sensor |-> n, actuator |-> m, score |-> b(n, p) + c(m, p)]
  <2>1. \A l : l \in U <=> \E p \in Units : l \in F(p)
    <3> HIDE DEF F
    <3> QED
      OBVIOUS
  <2>2. \A p, l : l \in F(p) <=> \E n, m \in Nodes :
            /\ b(n, p) >= 0 /\ c(m, p) >= 0
            /\ l = [process |-> p, sensor |-> n, actuator |-> m, score |-> b(n, p) + c(m, p)]
    OBVIOUS
  <2> HIDE DEF U, F
  <2> QED
    BY <2>1, <2>2
<1> HIDE DEF U
<1>4. LoopsFound(FromNeo4j) = U
  BY <1>2, <1>3
<1> QED
  BY <1>1, <1>4 DEF ReadersAgree, U, b, c, Units

\* The nodes of a graph, and the units they are of, have a last one.
Reaches(e, last) ==
    /\ e.source <= last /\ e.target <= last
    /\ Unit(e.source) <= last /\ Unit(e.target) <= last
GraphInv == graph \subseteq DrawnEdges /\ \E last \in Nat : \A e \in graph : Reaches(e, last)

LEMMA UnitsAreNumbers == \A n \in Nodes : n \in Nat /\ Unit(n) \in Nat
  BY DetectionAssumption DEF DetectionAssumption, Unit

LEMMA FoundAreKnown ==
    ASSUME graph \subseteq DrawnEdges, NEW last \in Nat, \A e \in graph : Reaches(e, last)
    PROVE  /\ \A l \in LoopsFound(FromNeo4j) :
                /\ l = LoopWith(l.process, l.sensor, l.actuator, l.score)
                /\ l.process \in 0..last /\ l.sensor \in 0..last /\ l.actuator \in 0..last
                /\ l.score \in 0..200
           /\ \A k, l \in LoopsFound(FromNeo4j) :
                (/\ k.process = l.process /\ k.sensor = l.sensor /\ k.actuator = l.actuator)
                => k = l
<1> DEFINE b(n, p) == BestOf("measures", "sensor", n, p)
           c(m, p) == BestOf("controls", "actuator", m, p)
<1>1. ASSUME NEW meaning, NEW role, NEW n \in Nodes, NEW p \in Units,
             BestOf(meaning, role, n, p) >= 0
      PROVE  n \in 0..last /\ p \in 0..last /\ BestOf(meaning, role, n, p) \in 0..100
  <2>1. BestOf(meaning, role, n, p) \in ScoresOf(meaning, role, n, p) \cap (0..100)
    BY <1>1, BestIsGreatest
  <2>2. PICK e \in graph : \/ e.source = n /\ Unit(e.target) = p
                           \/ e.target = n /\ Unit(e.source) = p
    BY <2>1 DEF ScoresOf
  <2>3. n <= last /\ p <= last
    BY <2>2 DEF Reaches
  <2>4. n \in Nat /\ p \in Nat
    BY UnitsAreNumbers DEF Units
  <2> QED
    BY <2>1, <2>3, <2>4
<1>2. \A l \in LoopsFound(FromNeo4j) : \E p \in Units, n, m \in Nodes :
         b(n, p) >= 0 /\ c(m, p) >= 0 /\ l = LoopWith(p, n, m, b(n, p) + c(m, p))
  BY BestArePaired
<1>3. \A n \in Nodes, p \in Units : b(n, p) >= 0 =>
         n \in 0..last /\ p \in 0..last /\ b(n, p) \in 0..100
  BY <1>1
<1>4. \A n \in Nodes, p \in Units : c(n, p) >= 0 =>
         n \in 0..last /\ p \in 0..last /\ c(n, p) \in 0..100
  BY <1>1
<1> HIDE DEF b, c
<1>5. \A p, n, m, s : /\ LoopWith(p, n, m, s).process = p /\ LoopWith(p, n, m, s).sensor = n
                      /\ LoopWith(p, n, m, s).actuator = m /\ LoopWith(p, n, m, s).score = s
  BY DEF LoopWith
<1>6. ASSUME NEW l \in LoopsFound(FromNeo4j)
      PROVE  /\ l = LoopWith(l.process, l.sensor, l.actuator, l.score)
             /\ l.process \in 0..last /\ l.sensor \in 0..last /\ l.actuator \in 0..last
             /\ l.score \in 0..200 /\ l.score = b(l.sensor, l.process) + c(l.actuator, l.process)
  <2>1. PICK p \in Units, n \in Nodes, m \in Nodes :
           b(n, p) >= 0 /\ c(m, p) >= 0 /\ l = LoopWith(p, n, m, b(n, p) + c(m, p))
    BY <1>2
  <2>2. /\ l.process = p /\ l.sensor = n /\ l.actuator = m /\ l.score = b(n, p) + c(m, p)
    BY <1>5, <2>1
  <2>3. /\ p \in 0..last /\ n \in 0..last /\ m \in 0..last
        /\ b(n, p) \in 0..100 /\ c(m, p) \in 0..100
    BY <1>3, <1>4, <2>1
  <2>4. b(n, p) + c(m, p) \in 0..200
    BY <2>3
  <2> QED
    BY <2>1, <2>2, <2>3, <2>4
<1> QED
  BY <1>6

LEMMA FoundAreFinite ==
    ASSUME graph \subseteq DrawnEdges, NEW last \in Nat, \A e \in graph : Reaches(e, last)
    PROVE  IsFiniteSet(LoopsFound(FromNeo4j))
<1> PICK N : N = 0..last
  OBVIOUS
<1> DEFINE S == (N \X N) \X (N \X (0..200))
           f == [x \in S |-> LoopWith(x[1][1], x[1][2], x[2][1], x[2][2])]
           T == {f[x] : x \in S}
<1>1. IsFiniteSet(S)
  <2>1. IsFiniteSet(N)
    BY 0 \in Int, last \in Int, FS_Interval
  <2>2. IsFiniteSet(0..200)
    BY 0 \in Int, 200 \in Int, FS_Interval
  <2>3. IsFiniteSet(N \X N) /\ IsFiniteSet(N \X (0..200))
    BY <2>1, <2>2, FS_Product
  <2> QED
    BY <2>3, FS_Product
<1>2. IsFiniteSet(T)
  <2> HIDE DEF S
  <2>1. f \in Surjection(S, T)
    BY DEF Surjection
  <2> QED
    BY <1>1, <2>1, FS_Surjection
<1>3. ASSUME NEW l \in LoopsFound(FromNeo4j) PROVE l \in T
  <2>1. /\ l = LoopWith(l.process, l.sensor, l.actuator, l.score)
        /\ l.process \in N /\ l.sensor \in N /\ l.actuator \in N /\ l.score \in 0..200
    BY FoundAreKnown
  <2> PICK x : x = <<<<l.process, l.sensor>>, <<l.actuator, l.score>>>>
    OBVIOUS
  <2>2. x \in S /\ x[1][1] = l.process /\ x[1][2] = l.sensor /\ x[2][1] = l.actuator
        /\ x[2][2] = l.score
    BY <2>1
  <2> HIDE DEF S
  <2>3. f[x] = l
    BY <2>1, <2>2
  <2> QED
    BY <2>2, <2>3
<1>4. LoopsFound(FromNeo4j) \in SUBSET T
  BY <1>3
<1> HIDE DEF T
<1> QED
  BY <1>2, <1>4, FS_Subset

\* Of the loops of one tag one is stored last.
LEMMA OneIsLast ==
    ASSUME graph \subseteq DrawnEdges, NEW last \in Nat, \A e \in graph : Reaches(e, last),
           NEW S \in SUBSET LoopsFound(FromNeo4j), S # {}
    PROVE  \E l \in S : \A k \in S \ {l} : StoredBefore(k, l)
<1>1. /\ \A l \in S : l.process \in 0..last /\ l.sensor \in 0..last /\ l.actuator \in 0..last
      /\ \A k, l \in S : (/\ k.process = l.process /\ k.sensor = l.sensor
                          /\ k.actuator = l.actuator) => k = l
  BY FoundAreKnown
<1> DEFINE c == [l \in S |-> <<last - l.process, last - l.sensor, last - l.actuator, 0, 0>>]
<1>2. \A l \in S : /\ DOMAIN c[l] = 1..5 /\ c[l][1] = last - l.process
                   /\ c[l][2] = last - l.sensor /\ c[l][3] = last - l.actuator
                   /\ c[l][4] = 0 /\ c[l][5] = 0
  OBVIOUS
<1> HIDE DEF c
<1>3. \A x \in S : /\ DOMAIN c[x] = 1..5
                   /\ c[x][1] \in Nat /\ c[x][2] \in Nat /\ c[x][3] \in Nat
                   /\ c[x][4] \in Nat /\ c[x][5] \in Nat
  BY <1>1, <1>2
<1>4. \A x, y \in S : (/\ c[x][1] = c[y][1] /\ c[x][2] = c[y][2] /\ c[x][3] = c[y][3]
                       /\ c[x][4] = c[y][4] /\ c[x][5] = c[y][5]) => x = y
  <2> SUFFICES ASSUME NEW x \in S, NEW y \in S, c[x][1] = c[y][1], c[x][2] = c[y][2],
                      c[x][3] = c[y][3]
               PROVE  x = y
    OBVIOUS
  <2>1. /\ x.process \in Int /\ y.process \in Int /\ x.sensor \in Int /\ y.sensor \in Int
        /\ x.actuator \in Int /\ y.actuator \in Int
    BY <1>1
  <2>2. x.process = y.process /\ x.sensor = y.sensor /\ x.actuator = y.actuator
    BY <1>2, <2>1
  <2> QED
    BY <1>1, <2>2
<1>5. PICK l \in S : \A k \in S \ {l} : Precedes(c[l], c[k])
  BY ONLY S # {}, <1>3, <1>4, OneIsFirst
<1>6. ASSUME NEW k \in S \ {l} PROVE StoredBefore(k, l)
  <2> PICK a, b : a = c[l] /\ b = c[k]
    OBVIOUS
  <2>0. DOMAIN a = 1..5 /\ Precedes(a, b)
    BY <1>2, <1>5
  <2>1. \/ a[1] < b[1]
        \/ a[1] = b[1] /\ a[2] < b[2]
        \/ a[1] = b[1] /\ a[2] = b[2] /\ a[3] < b[3]
        \/ a[1] = b[1] /\ a[2] = b[2] /\ a[3] = b[3] /\ a[4] < b[4]
        \/ a[1] = b[1] /\ a[2] = b[2] /\ a[3] = b[3] /\ a[4] = b[4] /\ a[5] < b[5]
    BY ONLY <2>0, PrecedesFive
  <2> PICK u \in 0..last, v \in 0..last, w \in 0..last :
        u = l.process /\ v = l.sensor /\ w = l.actuator
    BY <1>1
  <2> PICK x \in 0..last, y \in 0..last, z \in 0..last :
        x = k.process /\ y = k.sensor /\ z = k.actuator
    BY <1>1
  <2>2. /\ a[1] = last - u /\ a[2] = last - v /\ a[3] = last - w /\ a[4] = 0 /\ a[5] = 0
        /\ b[1] = last - x /\ b[2] = last - y /\ b[3] = last - z /\ b[4] = 0 /\ b[5] = 0
    BY <1>2
  <2>3. x < u \/ (x = u /\ y < v) \/ (x = u /\ y = v /\ z < w)
    BY ONLY <2>1, <2>2, last \in Nat, u \in 0..last, v \in 0..last, w \in 0..last,
            x \in 0..last, y \in 0..last, z \in 0..last
  <2> QED
    BY <2>3 DEF StoredBefore
<1> QED
  BY <1>5, <1>6

LEMMA TableHolds ==
    ASSUME GraphInv PROVE TableHoldsTheLoops
<1> PICK last \in Nat : \A e \in graph : Reaches(e, last)
  BY DEF GraphInv
<1>1. graph \subseteq DrawnEdges
  BY DEF GraphInv
<1> DEFINE F == LoopsFound(FromNeo4j)
           S == Stored(F)
           tags(some) == {TagOfLoop(l) : l \in some}
<1>2. /\ \A l \in F : l.process \in Int /\ l.sensor \in Int /\ l.actuator \in Int
      /\ \A R \in SUBSET F : R # {} => \E l \in R : \A k \in R \ {l} : StoredBefore(k, l)
      /\ IsFiniteSet(F)
  BY <1>1, FoundAreKnown, OneIsLast, FoundAreFinite
<1> HIDE DEF F
<1>3. S \in SUBSET F /\ \A l \in F : l \in S <=>
          \A k \in F : TagOfLoop(k) = TagOfLoop(l) /\ k # l => StoredBefore(k, l)
  BY DEF Stored
<1> HIDE DEF S
<1>4. \A l \in F : \E k \in S : TagOfLoop(k) = TagOfLoop(l)
  <2> TAKE l \in F
  <2> DEFINE R == {k \in F : TagOfLoop(k) = TagOfLoop(l)}
  <2>1. R \in SUBSET F /\ R # {}
    OBVIOUS
  <2>2. PICK k \in R : \A j \in R \ {k} : StoredBefore(j, k)
    BY <1>2, <2>1
  <2>3. k \in S
    BY <1>3, <2>2
  <2> QED
    BY <2>2, <2>3
<1>5. \A k, l \in S : TagOfLoop(k) = TagOfLoop(l) => k = l
  <2> SUFFICES ASSUME NEW k \in S, NEW l \in S, TagOfLoop(k) = TagOfLoop(l), k # l PROVE FALSE
    OBVIOUS
  <2>1. StoredBefore(k, l) /\ StoredBefore(l, k)
    BY <1>3
  <2>2. /\ k.process \in Int /\ k.sensor \in Int /\ k.actuator \in Int
        /\ l.process \in Int /\ l.sensor \in Int /\ l.actuator \in Int
    BY <1>2, <1>3
  <2> QED
    BY <2>1, <2>2 DEF StoredBefore
<1>6. tags(S) = tags(F)
  BY <1>3, <1>4
<1>7. Cardinality(S) = Cardinality(tags(S))
  <2> DEFINE f == [l \in S |-> TagOfLoop(l)]
  <2>1. IsFiniteSet(S)
    BY <1>2, <1>3, FS_Subset
  <2>2. f \in Bijection(S, tags(S))
    BY <1>5 DEF Bijection, Injection, Surjection, IsInjective
  <2>3. ExistsBijection(S, tags(S))
    BY <2>2 DEF ExistsBijection
  <2> QED
    BY <2>1, <2>3, FS_Bijection
<1>8. (\A k, l \in F : TagOfLoop(k) = TagOfLoop(l) => k = l) => S = F
  BY <1>3
<1> HIDE DEF tags
<1>9. tags(S) = tags(F) /\ Cardinality(S) = Cardinality(tags(F))
  BY <1>6, <1>7
<1> QED
  BY <1>8, <1>9 DEF TableHoldsTheLoops, S, F, tags

\* A graph that is empty has a last node.
LEMMA GraphFromTheStart == DetectionInit => GraphInv
<1>1. 0 \in Nat
  OBVIOUS
<1> QED
  BY <1>1 DEF DetectionInit, GraphInv

\* So has one more edge later.
LEMMA GraphKept == GraphInv /\ [DetectionNext]_graph => GraphInv'
<1> SUFFICES ASSUME GraphInv, [DetectionNext]_graph
             PROVE  GraphInv'
  OBVIOUS
<1>1. CASE DetectionNext
  <2>1. PICK d \in Drawable : graph' = graph \cup {d}
    BY <1>1 DEF DetectionNext, Draw
  <2>2. d \in DrawnEdges
    BY DetectionAssumption DEF DetectionAssumption
  <2>3. PICK last \in Nat : \A e \in graph : Reaches(e, last)
    BY DEF GraphInv
  <2> PICK s \in Nat, t \in Nat, u \in Nat, v \in Nat :
        s = d.source /\ t = d.target /\ u = Unit(d.source) /\ v = Unit(d.target)
    BY <2>2, UnitsAreNumbers DEF DrawnEdges
  <2> PICK more \in Nat : more = last + s + t + u + v
    OBVIOUS
  <2>4. Reaches(d, more)
    BY DEF Reaches
  <2>5. ASSUME NEW e \in graph PROVE Reaches(e, more)
    <3>1. e \in DrawnEdges
      BY DEF GraphInv
    <3>2. /\ e.source \in Nat /\ e.target \in Nat
          /\ Unit(e.source) \in Nat /\ Unit(e.target) \in Nat
      BY <3>1, UnitsAreNumbers DEF DrawnEdges
    <3>3. \A x \in Nat : x <= last => x <= more
      OBVIOUS
    <3> QED
      BY <2>3, <3>2, <3>3 DEF Reaches
  <2> QED
    BY <2>1, <2>2, <2>4, <2>5 DEF GraphInv, Reaches
<1>2. CASE UNCHANGED graph
  BY <1>2 DEF GraphInv, Reaches
<1> QED
  BY <1>1, <1>2

\* The engine finds the same loops in either store, and its table holds those it found: both
\* hold in every behaviour of DetectionSpec (control_loop_engine.py, detect;
\* control_loop_store.py, upsert_project_loops).
THEOREM TheTableIsFound == DetectionSpec => [](ReadersAgree /\ TableHoldsTheLoops)
<1>1. GraphInv => ReadersAgree /\ TableHoldsTheLoops
  BY ReadersFindTheSame, TableHolds DEF GraphInv
<1> QED
  BY <1>1, GraphFromTheStart, GraphKept, PTL DEF DetectionSpec

----------------------------------------
\* The chains of the behaviour engine. Each of its computations repeats a
\* step; what is kept in an order has its elements once each.

\* What holds of 0, and of i when of i - 1, holds up to n.
LEMMA Upwards ==
    ASSUME NEW n \in Nat, NEW S, 0 \in S, \A i \in 1..n : i - 1 \in S => i \in S
    PROVE  \A i \in 0..n : i \in S
<1> DEFINE Bad == {i \in 0..n : i \notin S}
<1> SUFFICES ASSUME Bad # {} PROVE FALSE
  OBVIOUS
<1>1. Bad \in SUBSET Nat
  OBVIOUS
<1>2. PICK i \in Bad : \A j \in Bad : i <= j
  BY <1>1, Least
<1>3. i \in 0..n /\ i \in Nat /\ i \notin S
  OBVIOUS
<1>4. i \in 1..n /\ i - 1 \in 0..n /\ i - 1 < i
  BY <1>3
<1>5. i - 1 \in S
  BY <1>2, <1>3, <1>4
<1> QED
  BY <1>3, <1>4, <1>5

\* f has what the steps that g says make of a.
Repeats(g, a, f, n) == f = [i \in 0..n |-> IF i = 0 THEN a ELSE g[<<i, f[i - 1]>>]]

\* A step can be repeated any number of times.
LEMMA RepeatsExist ==
    ASSUME NEW n \in Nat, NEW g, NEW a PROVE \E f : Repeats(g, a, f, n)
<1> DEFINE S == {k \in Nat : \E f : Repeats(g, a, f, k)}
<1>1. 0 \in S
  <2>1. \A i \in 0..0 : i = 0
    OBVIOUS
  <2>2. Repeats(g, a, [i \in 0..0 |-> a], 0)
    BY <2>1 DEF Repeats
  <2> QED
    BY <2>2
<1>2. ASSUME NEW k \in 1..n, k - 1 \in S PROVE k \in S
  <2>1. k \in Nat \ {0} /\ k - 1 \in Nat
    OBVIOUS
  <2>2. PICK f : Repeats(g, a, f, k - 1)
    BY <1>2
  <2> DEFINE h == [i \in 0..k |-> IF i < k THEN f[i] ELSE g[<<i, f[i - 1]>>]]
  <2>3. \A j \in 0..k : j < k => h[j] = f[j]
    OBVIOUS
  <2>4. h[k] = g[<<k, f[k - 1]>>]
    BY <2>1
  <2>5. h = [i \in 0..k |-> h[i]]
    OBVIOUS
  <2> HIDE DEF h
  <2>6. ASSUME NEW i \in 0..k PROVE h[i] = IF i = 0 THEN a ELSE g[<<i, h[i - 1]>>]
    <3>1. CASE i = k
      <4>1. k - 1 \in 0..k /\ k - 1 < k
        BY <2>1
      <4>2. h[k - 1] = f[k - 1]
        BY <2>3, <4>1
      <4> QED
        BY <2>1, <2>4, <3>1, <4>2
    <3>2. CASE i # k
      <4>1. i \in 0..(k - 1) /\ i < k /\ (i # 0 => i - 1 \in 0..k /\ i - 1 < k)
        BY <3>2, <2>1
      <4>2. f[i] = IF i = 0 THEN a ELSE g[<<i, f[i - 1]>>]
        BY <2>2, <4>1 DEF Repeats
      <4>3. h[i] = f[i] /\ (i # 0 => h[i - 1] = f[i - 1])
        BY <2>3, <4>1
      <4> QED
        BY <4>2, <4>3
    <3> QED
      BY <3>1, <3>2
  <2>7. Repeats(g, a, h, k)
    BY <2>6, <2>5 DEF Repeats
  <2> QED
    BY <2>7, <2>1
<1> HIDE DEF S
<1>3. n \in S
  <2>1. \A i \in 0..n : i \in S
    BY <1>1, <1>2, Upwards
  <2> QED
    BY <2>1
<1> QED
  BY <1>3 DEF S

\* Steps of D to itself stay in D.
LEMMA Repeated ==
    ASSUME NEW n \in Nat, NEW D, NEW g \in [(1..n) \X D -> D], NEW a \in D
    PROVE  \E f : Repeats(g, a, f, n) /\ \A i \in 0..n : f[i] \in D
<1>1. PICK f : Repeats(g, a, f, n)
  BY RepeatsExist
<1>2. \A i \in 0..n : f[i] = IF i = 0 THEN a ELSE g[<<i, f[i - 1]>>]
  BY <1>1 DEF Repeats
<1> DEFINE S == {i \in 0..n : f[i] \in D}
<1>3. 0 \in S
  <2>1. 0 \in 0..n
    OBVIOUS
  <2>2. f[0] = a
    BY <1>2, <2>1
  <2> QED
    BY <2>1, <2>2
<1>4. ASSUME NEW i \in 1..n, i - 1 \in S PROVE i \in S
  <2>1. i \in 0..n /\ i # 0
    OBVIOUS
  <2>2. f[i] = g[<<i, f[i - 1]>>]
    BY <1>2, <2>1
  <2>3. <<i, f[i - 1]>> \in (1..n) \X D
    BY <1>4
  <2> QED
    BY <2>1, <2>2, <2>3
<1> HIDE DEF S
<1>5. \A i \in 0..n : i \in S
  BY <1>3, <1>4, Upwards
<1> QED
  BY <1>1, <1>5 DEF S

----------------------------------------
\* R is an order of S.
TotalOrder(S, R) ==
    /\ \A x \in S : <<x, x>> \notin R
    /\ \A x, y, z \in S : <<x, y>> \in R /\ <<y, z>> \in R => <<x, z>> \in R
    /\ \A x, y \in S : x # y => <<x, y>> \in R \/ <<y, x>> \in R

\* The elements that come before x.
Preceding(S, R, x) == {y \in S : <<y, x>> \in R}

\* Each number below that of all elements counts those before exactly one.
LEMMA RanksAreAll ==
    ASSUME NEW S, IsFiniteSet(S), NEW R, TotalOrder(S, R)
    PROVE  /\ Cardinality(S) \in Nat
           /\ \A x \in S : Cardinality(Preceding(S, R, x)) \in 0..(Cardinality(S) - 1)
           /\ \A x, y \in S : Cardinality(Preceding(S, R, x)) = Cardinality(Preceding(S, R, y)) => x = y
           /\ \A n \in 1..Cardinality(S) : \E x \in S : Cardinality(Preceding(S, R, x)) = n - 1
<1> PICK N : N = Cardinality(S)
  OBVIOUS
<1> DEFINE Pre(x) == Preceding(S, R, x)
<1>1. N \in Nat /\ IsFiniteSet(S)
  BY FS_CardinalityType
<1>3. ASSUME NEW d \in S, NEW e \in S, <<d, e>> \in R
      PROVE  Pre(d) \subseteq Pre(e) /\ d \in Pre(e) /\ d \notin Pre(d)
  BY <1>3 DEF Preceding, TotalOrder
<1>4. ASSUME NEW e \in S
      PROVE  /\ IsFiniteSet(Pre(e)) /\ Cardinality(Pre(e)) \in 0..(N - 1)
             /\ \A d \in S : <<d, e>> \in R => Cardinality(Pre(d)) < Cardinality(Pre(e))
  <2>1. Pre(e) \in SUBSET S /\ e \notin Pre(e)
    BY DEF Preceding, TotalOrder
  <2>2. IsFiniteSet(Pre(e)) /\ Cardinality(Pre(e)) <= N /\ Cardinality(Pre(e)) # N
    <3> HIDE DEF Pre
    <3> QED
      BY <1>1, <2>1, FS_Subset
  <2>3. Cardinality(Pre(e)) \in Nat
    BY <2>2, FS_CardinalityType
  <2>4. ASSUME NEW d \in S, <<d, e>> \in R
        PROVE  Cardinality(Pre(d)) < Cardinality(Pre(e))
    <3>1. Pre(d) \in SUBSET Pre(e) /\ Pre(d) # Pre(e)
      BY <1>3, <2>4
    <3> HIDE DEF Pre
    <3>2. /\ IsFiniteSet(Pre(d)) /\ Cardinality(Pre(d)) <= Cardinality(Pre(e))
          /\ Cardinality(Pre(d)) # Cardinality(Pre(e))
      BY <2>2, <3>1, FS_Subset
    <3>3. Cardinality(Pre(d)) \in Nat
      BY <3>2, FS_CardinalityType
    <3> QED
      BY <2>3, <3>2, <3>3
  <2> HIDE DEF Pre
  <2> QED
    BY <1>1, <2>2, <2>3, <2>4
<1>5. ASSUME NEW d \in S, NEW e \in S, d # e PROVE <<d, e>> \in R \/ <<e, d>> \in R
  BY <1>5 DEF TotalOrder
<1> HIDE DEF Pre
<1>6. ASSUME NEW d \in S, NEW e \in S, Cardinality(Pre(d)) = Cardinality(Pre(e))
      PROVE  d = e
  <2> SUFFICES ASSUME d # e PROVE FALSE
    OBVIOUS
  <2>1. Cardinality(Pre(d)) < Cardinality(Pre(e)) \/ Cardinality(Pre(e)) < Cardinality(Pre(d))
    BY <1>4, <1>5
  <2>2. Cardinality(Pre(d)) \in 0..(N - 1) /\ Cardinality(Pre(e)) \in 0..(N - 1)
    BY <1>4
  <2> QED
    BY <1>1, <1>6, <2>1, <2>2
<1> DEFINE f == [e \in S |-> Cardinality(Pre(e))]
<1>7. f \in Injection(S, 0..(N - 1))
  <2>1. f \in [S -> 0..(N - 1)]
    BY <1>4
  <2>2. \A d, e \in S : f[d] = f[e] => d = e
    BY <1>6
  <2> HIDE DEF f
  <2>3. IsInjective(f)
    BY <2>1, <2>2 DEF IsInjective
  <2>4. f \in {g \in [S -> 0..(N - 1)] : IsInjective(g)}
    BY <2>1, <2>3
  <2> QED
    BY <2>4 DEF Injection
<1>8. IsFiniteSet(0..(N - 1)) /\ Cardinality(0..(N - 1)) = N
  <2> PICK b : b = N - 1
    OBVIOUS
  <2>1. b \in Int /\ 0 \in Int /\ N = IF 0 > b THEN 0 ELSE (b - 0) + 1
    BY <1>1
  <2>2. IsFiniteSet(0..b) /\ Cardinality(0..b) = IF 0 > b THEN 0 ELSE (b - 0) + 1
    BY ONLY <2>1, FS_Interval
  <2> QED
    BY <2>1, <2>2
<1>9. f \in Surjection(S, 0..(N - 1))
  <2> HIDE DEF f
  <2> QED
    BY <1>1, <1>7, <1>8, FS_Injection
<1>10. ASSUME NEW n \in 1..N PROVE \E x \in S : Cardinality(Pre(x)) = n - 1
  <2>1. n - 1 \in 0..(N - 1)
    BY <1>1
  <2> QED
    BY <1>9, <2>1 DEF Surjection
<1> QED
  BY <1>1, <1>4, <1>6, <1>10 DEF Pre

\* s has the elements of S in the order R.
Sorted(s, S, R) ==
    /\ s = [n \in 1..Cardinality(S) |-> s[n]]
    /\ \A n \in 1..Cardinality(S) :
            s[n] \in S /\ Cardinality(Preceding(S, R, s[n])) = n - 1

\* A sequence of the elements of S, each once.
Lists(s, S) ==
    /\ s \in Seq(S) /\ \A x \in S : \E n \in 1..Len(s) : s[n] = x
    /\ \A i, j \in 1..Len(s) : s[i] = s[j] => i = j

\* A finite set in order is a list of its elements.
LEMMA SortedLists ==
    ASSUME NEW S, IsFiniteSet(S), NEW R, TotalOrder(S, R), NEW s, Sorted(s, S, R)
    PROVE  Lists(s, S) /\ Len(s) = Cardinality(S)
<1> PICK N : N = Cardinality(S)
  OBVIOUS
<1>1. N \in Nat
  BY RanksAreAll
<1>2. s \in [1..N -> S]
  <2>1. s = [n \in 1..N |-> s[n]] /\ \A n \in 1..N : s[n] \in S
    BY DEF Sorted
  <2> QED
    BY <2>1
<1>3. s \in Seq(S) /\ Len(s) = N
  BY <1>1, <1>2
<1>4. \A i, j \in 1..N : s[i] = s[j] => i = j
  <2> SUFFICES ASSUME NEW i \in 1..N, NEW j \in 1..N, s[i] = s[j] PROVE i = j
    OBVIOUS
  <2>1. Cardinality(Preceding(S, R, s[i])) = i - 1 /\ Cardinality(Preceding(S, R, s[j])) = j - 1
    BY DEF Sorted
  <2>2. i - 1 = j - 1
    BY <2>1
  <2> QED
    BY <2>2
<1>5. ASSUME NEW x \in S PROVE \E n \in 1..N : s[n] = x
  <2> PICK n : n = Cardinality(Preceding(S, R, x)) + 1
    OBVIOUS
  <2>1. Cardinality(Preceding(S, R, x)) \in 0..(N - 1)
    BY RanksAreAll
  <2>2. n \in 1..N /\ n - 1 = Cardinality(Preceding(S, R, x))
    BY <1>1, <2>1
  <2>3. s[n] \in S /\ Cardinality(Preceding(S, R, s[n])) = n - 1
    BY <2>2 DEF Sorted
  <2>4. s[n] = x
    BY <2>2, <2>3, RanksAreAll
  <2> QED
    BY <2>2, <2>4
<1> QED
  BY <1>3, <1>4, <1>5 DEF Lists

\* A list of S and one of what is not in S are a list of both.
LEMMA ListsJoin ==
    ASSUME NEW S, NEW T, S \cap T = {}, NEW s, Lists(s, S), NEW t, Lists(t, T)
    PROVE  Lists(s \o t, S \cup T)
<1>1. s \in Seq(S \cup T) /\ t \in Seq(S \cup T)
  <2>1. s \in Seq(S) /\ t \in Seq(T)
    BY DEF Lists
  <2> QED
    BY <2>1
<1>2. /\ s \o t \in Seq(S \cup T) /\ Len(s \o t) = Len(s) + Len(t)
      /\ Len(s) \in Nat /\ Len(t) \in Nat
      /\ \A i \in 1..(Len(s) + Len(t)) : (s \o t)[i] = IF i <= Len(s) THEN s[i] ELSE t[i - Len(s)]
  BY <1>1, ConcatProperties, LenProperties
<1> PICK u : u = s \o t
  OBVIOUS
<1>3. /\ \A i \in 1..Len(s) : i \in 1..Len(u) /\ u[i] = s[i] /\ u[i] \in S
      /\ \A i \in 1..Len(t) : i + Len(s) \in 1..Len(u) /\ u[i + Len(s)] = t[i]
      /\ \A i \in 1..Len(u) : i > Len(s) =>
            i - Len(s) \in 1..Len(t) /\ u[i] = t[i - Len(s)] /\ u[i] \in T
  <2>1. \A i \in 1..Len(s) : s[i] \in S
    BY DEF Lists
  <2>2. \A i \in 1..Len(t) : t[i] \in T
    BY DEF Lists
  <2>3. \A i \in 1..Len(t) : i + Len(s) \in 1..Len(u) /\ ~(i + Len(s) <= Len(s))
                             /\ (i + Len(s)) - Len(s) = i
    BY <1>2
  <2>4. \A i \in 1..Len(u) : i > Len(s) => i - Len(s) \in 1..Len(t) /\ ~(i <= Len(s))
    BY <1>2
  <2> QED
    BY <1>2, <2>1, <2>2, <2>3, <2>4
<1>4. ASSUME NEW x \in S \cup T PROVE \E n \in 1..Len(u) : u[n] = x
  <2>1. CASE x \in S
    <3> PICK n \in 1..Len(s) : s[n] = x
      BY <2>1 DEF Lists
    <3> QED
      BY <1>3
  <2>2. CASE x \in T
    <3> PICK n \in 1..Len(t) : t[n] = x
      BY <2>2 DEF Lists
    <3> QED
      BY <1>3
  <2> QED
    BY <2>1, <2>2
<1>5. ASSUME NEW i \in 1..Len(u), NEW j \in 1..Len(u), u[i] = u[j] PROVE i = j
  <2>1. CASE i <= Len(s) /\ j <= Len(s)
    <3>1. i \in 1..Len(s) /\ j \in 1..Len(s)
      BY <1>2, <2>1
    <3> QED
      BY SMTT(60), <1>3, <1>5, <3>1 DEF Lists
  <2>2. CASE i > Len(s) /\ j > Len(s)
    <3>1. /\ i - Len(s) \in 1..Len(t) /\ u[i] = t[i - Len(s)]
          /\ j - Len(s) \in 1..Len(t) /\ u[j] = t[j - Len(s)]
      BY <1>3, <2>2
    <3>2. i - Len(s) = j - Len(s)
      BY <1>5, <3>1 DEF Lists
    <3> QED
      BY <1>2, <3>2
  <2>3. CASE i <= Len(s) /\ j > Len(s)
    <3>1. i \in 1..Len(s)
      BY <1>2, <2>3
    <3>2. u[i] \in S /\ u[j] \in T
      BY <1>3, <2>3, <3>1
    <3> QED
      BY <1>5, <3>2
  <2>4. CASE i > Len(s) /\ j <= Len(s)
    <3>1. j \in 1..Len(s)
      BY <1>2, <2>4
    <3>2. u[j] \in S /\ u[i] \in T
      BY <1>3, <2>4, <3>1
    <3> QED
      BY <1>5, <3>2
  <2> QED
    BY <1>2, <2>1, <2>2, <2>3, <2>4
<1> QED
  BY <1>2, <1>4, <1>5 DEF Lists

\* A list has as many elements as the set.
LEMMA ListsCount ==
    ASSUME NEW S, NEW s, Lists(s, S)
    PROVE  ToSet(s) = S /\ IsFiniteSet(S) /\ Cardinality(S) = Len(s) /\ Len(s) \in Nat
<1>1. s \in Seq(S) /\ Len(s) \in Nat /\ s \in [1..Len(s) -> S]
  BY LenProperties DEF Lists
<1>2. ToSet(s) = S
  <2>1. ToSet(s) = {s[i] : i \in 1..Len(s)}
    BY <1>1 DEF ToSet
  <2> QED
    BY <1>1, <2>1 DEF Lists
<1>3. s \in Bijection(1..Len(s), S)
  <2>1. IsInjective(s)
    BY <1>1 DEF Lists, IsInjective
  <2>2. s \in Injection(1..Len(s), S)
    BY <1>1, <2>1 DEF Injection
  <2>3. s \in Surjection(1..Len(s), S)
    BY <1>1 DEF Lists, Surjection
  <2> QED
    BY <2>2, <2>3 DEF Bijection
<1>4. ExistsBijection(1..Len(s), S)
  BY <1>3 DEF ExistsBijection
<1>5. Cardinality(S) = Len(s)
  BY <1>1, <1>4, FS_CountingElements
<1>6. IsFiniteSet(S)
  <2> PICK n \in Nat : n = Len(s)
    BY <1>1
  <2>1. s \in [1..n -> S] /\ \A x \in S : \E i \in 1..n : s[i] = x
    BY <1>1 DEF Lists
  <2>2. IsFiniteSet(S) <=> \E m \in Nat : ExistsBijection(1..m, S)
    BY FS_NatBijection
  <2> QED
    BY <1>1, <1>4, <2>2
<1> QED
  BY <1>1, <1>2, <1>5, <1>6

\* What the first k of the sets have.
First(N, k) == UNION {N[i] : i \in 1..k}
Found(N, k, B) == First(N, k) \ B

\* The first sets have what one less has and what the last has.
LEMMA FirstGrows ==
    /\ \A N : First(N, 0) = {}
    /\ \A N : \A k \in Nat \ {0} : First(N, k) = First(N, k - 1) \cup N[k]
<1>1. ASSUME NEW N PROVE First(N, 0) = {}
  <2>1. 1..0 = {}
    OBVIOUS
  <2>2. ASSUME NEW x \in First(N, 0) PROVE FALSE
    <3>1. PICK i \in 1..0 : x \in N[i]
      BY DEF First
    <3> QED
      BY <2>1
  <2> QED
    BY <2>2
<1>2. ASSUME NEW N, NEW k \in Nat \ {0} PROVE First(N, k) = First(N, k - 1) \cup N[k]
  <2>1. k \in 1..k /\ \A i \in 1..(k - 1) : i \in 1..k
    OBVIOUS
  <2>2. \A i \in 1..k : i = k \/ i \in 1..(k - 1)
    OBVIOUS
  <2>3. ASSUME NEW x \in First(N, k) PROVE x \in First(N, k - 1) \cup N[k]
    <3>1. PICK i \in 1..k : x \in N[i]
      BY DEF First
    <3> QED
      BY <2>2, <3>1 DEF First
  <2>4. ASSUME NEW x \in First(N, k - 1) PROVE x \in First(N, k)
    <3>1. PICK i \in 1..(k - 1) : x \in N[i]
      BY DEF First
    <3> QED
      BY <2>1, <3>1 DEF First
  <2>5. ASSUME NEW x \in N[k] PROVE x \in First(N, k)
    BY <2>1 DEF First
  <2> QED
    BY <2>3, <2>4, <2>5
<1> QED
  BY <1>1, <1>2

\* Joined lists, each of what is not in B nor in those before it, are a list of all.
LEMMA JoinedLists ==
    ASSUME NEW n \in Nat, NEW N, NEW B, NEW seqs,
           \A i \in 1..n : Lists(seqs[i], N[i] \ (B \cup First(N, i - 1))),
           NEW f, Joined(seqs, f, n)
    PROVE  \A i \in 1..n : Lists(f[i], Found(N, i, B))
<1> DEFINE S == {0} \cup {i \in 1..n : Lists(f[i], Found(N, i, B))}
<1>1. ASSUME NEW i \in 1..n, i - 1 \in S PROVE i \in S
  <2> DEFINE New == N[i] \ (B \cup First(N, i - 1))
  <2>1. f[i] = IF i = 1 THEN seqs[i] ELSE f[i - 1] \o seqs[i]
    BY DEF Joined
  <2>2. Lists(seqs[i], New)
    OBVIOUS
  <2>5. First(N, i) = First(N, i - 1) \cup N[i]
    BY FirstGrows
  <2>3. CASE i = 1
    <3>1. New = Found(N, i, B)
      <4>1. First(N, i - 1) = {}
        BY <2>3, FirstGrows
      <4> QED
        BY <2>5, <4>1 DEF Found
    <3> QED
      BY <2>1, <2>2, <2>3, <3>1
  <2>4. CASE i # 1
    <3>1. Lists(f[i - 1], Found(N, i - 1, B))
      BY <1>1, <2>4
    <3>2. Found(N, i - 1, B) \cap New = {}
      BY DEF Found
    <3>3. Found(N, i - 1, B) \cup New = Found(N, i, B)
      BY <2>5 DEF Found
    <3> HIDE DEF New
    <3>4. Lists(f[i - 1] \o seqs[i], Found(N, i - 1, B) \cup New)
      BY <2>2, <3>1, <3>2, ListsJoin
    <3> QED
      BY <2>1, <2>4, <3>3, <3>4
  <2> QED
    BY <2>3, <2>4
<1> HIDE DEF S
<1>2. 0 \in S
  BY DEF S
<1>3. \A i \in 0..n : i \in S
  BY <1>1, <1>2, Upwards
<1> QED
  BY <1>3 DEF S

\* FlattenSeq joins such lists to a list of all.
LEMMA FlattenedLists ==
    ASSUME NEW n \in Nat, NEW N, NEW B, NEW seqs, seqs = [i \in 1..n |-> seqs[i]],
           \A i \in 1..n : Lists(seqs[i], N[i] \ (B \cup First(N, i - 1)))
    PROVE  Lists(FlattenSeq(seqs), Found(N, n, B))
<1>1. Len(seqs) = n
  OBVIOUS
<1>2. CASE n = 0
  <2>1. seqs = <<>> /\ FlattenSeq(seqs) = <<>>
    BY <1>2 DEF FlattenSeq
  <2>2. Found(N, n, B) = {}
    <3>1. First(N, n) = {}
      BY <1>2, FirstGrows
    <3> QED
      BY <3>1 DEF Found
  <2> QED
    BY <2>1, <2>2 DEF Lists
<1>3. CASE n # 0
  <2> DEFINE f == CHOOSE f : Joined(seqs, f, n)
  <2>1. Joined(seqs, f, n)
    BY JoinedExists
  <2>2. FlattenSeq(seqs) = f[n]
    BY <1>1, <1>3 DEF FlattenSeq, Joined
  <2>3. n \in 1..n
    BY <1>3
  <2> HIDE DEF f
  <2>4. \A i \in 1..n : Lists(f[i], Found(N, i, B))
    BY <2>1, JoinedLists
  <2> QED
    BY <2>2, <2>3, <2>4
<1> QED
  BY <1>2, <1>3

\* The neighbours of a tag are the ends of its edges.
LEMMA NeighboursAreEnds ==
    ASSUME NEW E, NEW t, NEW d \in Directions
    PROVE  \A u : u \in Neighbours(E, t, d) <=> \E e \in EdgesOf(E, t, d) : EndOf(e, d) = u
<1>1. CASE d = "upstream"
  BY <1>1 DEF Neighbours, EdgesOf, EndOf
<1>2. CASE d = "downstream"
  BY <1>2 DEF Neighbours, EdgesOf, EndOf
<1> QED
  BY <1>1, <1>2 DEF Directions

\* They are tags, and of finitely many edges there are finitely many.
LEMMA NeighboursAreTags ==
    ASSUME NEW E, E \subseteq RawEdges, NEW t, NEW d \in Directions
    PROVE  /\ Neighbours(E, t, d) \subseteq Endpoints
           /\ IsFiniteSet(E) => IsFiniteSet(Neighbours(E, t, d))
<1>1. \A e \in E : e.source \in Endpoints /\ e.target \in Endpoints
  BY DEF RawEdges
<1>2. Neighbours(E, t, d) \subseteq Endpoints
  BY <1>1 DEF Neighbours
<1>3. ASSUME IsFiniteSet(E) PROVE IsFiniteSet(Neighbours(E, t, d))
  <2> DEFINE S == EdgesOf(E, t, d)
             f == [e \in S |-> EndOf(e, d)]
  <2>1. IsFiniteSet(S)
    BY <1>3, FS_Subset DEF EdgesOf
  <2>2. f \in Surjection(S, Neighbours(E, t, d))
    <3>1. f \in [S -> Neighbours(E, t, d)]
      BY NeighboursAreEnds
    <3>2. \A u \in Neighbours(E, t, d) : \E e \in S : f[e] = u
      BY NeighboursAreEnds
    <3> HIDE DEF f, S
    <3> QED
      BY <3>1, <3>2 DEF Surjection
  <2> HIDE DEF S, f
  <2> QED
    BY <2>1, <2>2, FS_Surjection
<1> QED
  BY <1>2, <1>3

\* The neighbours of some tags.
LEMMA NeighboursOfAreTags ==
    ASSUME NEW E, E \subseteq RawEdges, NEW tags, NEW d \in Directions
    PROVE  /\ NeighboursOf(E, tags, d) \subseteq Endpoints
           /\ \A u : u \in NeighboursOf(E, tags, d) <=> \E t \in tags : u \in Neighbours(E, t, d)
<1>1. \A u : u \in NeighboursOf(E, tags, d) <=> \E t \in tags : u \in Neighbours(E, t, d)
  BY DEF NeighboursOf
<1> QED
  BY <1>1, NeighboursAreTags

----------------------------------------
\* f has the tags within each number of edges, through tags of Through.
Levels(f, E, t, d, n, Through) ==
    /\ f[0] = {t}
    /\ \A i \in 1..n : f[i] = f[i - 1] \cup NeighboursOf(E, f[i - 1] \cap Through, d)

\* Reached has the last of these levels.
LEMMA ReachedLevels ==
    ASSUME edges \subseteq RawEdges, NEW t \in Endpoints, NEW d \in Directions, NEW n \in Nat,
           NEW Through
    PROVE  \E f : /\ Levels(f, edges, t, d, n, Through) /\ Reached(t, d, n, Through) = f[n]
                  /\ \A i \in 0..n : f[i] \in SUBSET Endpoints
<1> DEFINE D == SUBSET Endpoints
           Step(near) == near \cup NeighboursOf(edges, near \cap Through, d)
           g == [p \in (1..n) \X D |-> Step(p[2])]
<1>1. g \in [(1..n) \X D -> D]
  <2>1. \A near \in D : Step(near) \in D
    BY NeighboursOfAreTags
  <2> HIDE DEF Step, D
  <2> QED
    BY <2>1
<1>2. {t} \in D
  OBVIOUS
<1>3. \A i \in 1..n : \A near \in D : g[<<i, near>>] = Step(near)
  <2> HIDE DEF Step, D
  <2> QED
    OBVIOUS
<1> HIDE DEF g, D, Step
<1>4. PICK h : Repeats(g, {t}, h, n) /\ \A i \in 0..n : h[i] \in D
  BY <1>1, <1>2, Repeated
<1> DEFINE Levelled(f) == f = [k \in 0..n |-> IF k = 0 THEN {t} ELSE Step(f[k - 1])]
<1>5. Levelled(h)
  <2>1. h = [k \in 0..n |-> IF k = 0 THEN {t} ELSE g[<<k, h[k - 1]>>]]
    BY <1>4 DEF Repeats
  <2>2. ASSUME NEW k \in 0..n, k # 0 PROVE g[<<k, h[k - 1]>>] = Step(h[k - 1])
    <3>1. k \in 1..n /\ k - 1 \in 0..n
      BY <2>2
    <3> QED
      BY <1>3, <1>4, <3>1
  <2> QED
    BY <2>1, <2>2
<1> DEFINE f == CHOOSE f : Levelled(f)
<1>6. Levelled(f)
  BY <1>5
<1>7. Reached(t, d, n, Through) = f[n]
  BY DEF Reached, Step
<1> HIDE DEF f
<1>8. f[0] = {t} /\ \A i \in 1..n : f[i] = Step(f[i - 1])
  <2>1. \A k \in 0..n : f[k] = IF k = 0 THEN {t} ELSE Step(f[k - 1])
    BY <1>6
  <2> QED
    BY <2>1
<1>9. \A i \in 0..n : f[i] \in D
  <2> DEFINE S == {i \in 0..n : f[i] \in D}
  <2>1. 0 \in S
    BY <1>2, <1>8
  <2>2. ASSUME NEW i \in 1..n, i - 1 \in S PROVE i \in S
    <3>1. f[i] = Step(f[i - 1]) /\ f[i - 1] \in D /\ i \in 0..n
      BY <1>8, <2>2
    <3>2. \A near \in D : Step(near) \in D
      BY NeighboursOfAreTags DEF D, Step
    <3> QED
      BY <3>1, <3>2
  <2> HIDE DEF S
  <2>3. \A i \in 0..n : i \in S
    BY <2>1, <2>2, Upwards
  <2> QED
    BY <2>3 DEF S
<1> QED
  BY <1>7, <1>8, <1>9 DEF Levels, Step, D

\* A level has those before it.
LEMMA LevelsGrow ==
    ASSUME NEW f, NEW E, NEW t, NEW d, NEW n \in Nat, NEW Through, Levels(f, E, t, d, n, Through)
    PROVE  \A j \in 0..n : \A i \in 0..j : f[i] \subseteq f[j]
<1> DEFINE S == {j \in 0..n : \A i \in 0..j : f[i] \subseteq f[j]}
<1>1. 0 \in S
  <2>1. \A i \in 0..0 : i = 0
    OBVIOUS
  <2> QED
    BY <2>1
<1>2. ASSUME NEW j \in 1..n, j - 1 \in S PROVE j \in S
  <2>1. f[j - 1] \subseteq f[j]
    BY DEF Levels
  <2>2. \A i \in 0..j : i = j \/ i \in 0..(j - 1)
    OBVIOUS
  <2> QED
    BY <1>2, <2>1, <2>2
<1> HIDE DEF S
<1>3. \A i \in 0..n : i \in S
  BY <1>1, <1>2, Upwards
<1> QED
  BY <1>3 DEF S

\* Through more tags more are reached.
LEMMA LevelsCompare ==
    ASSUME NEW f, NEW h, NEW E, E \subseteq RawEdges, NEW t, NEW d \in Directions, NEW n \in Nat,
           NEW S, NEW T, S \subseteq T, Levels(f, E, t, d, n, S), Levels(h, E, t, d, n, T)
    PROVE  \A i \in 0..n : f[i] \subseteq h[i]
<1> DEFINE I == {j \in 0..n : f[j] \subseteq h[j]}
<1>1. 0 \in I
  BY DEF Levels
<1>2. ASSUME NEW j \in 1..n, j - 1 \in I PROVE j \in I
  <2>1. f[j - 1] \subseteq h[j - 1]
    BY <1>2
  <2>2. NeighboursOf(E, f[j - 1] \cap S, d) \subseteq NeighboursOf(E, h[j - 1] \cap T, d)
    BY ZenonT(60), <2>1, NeighboursOfAreTags
  <2> QED
    BY <2>1, <2>2 DEF Levels
<1> HIDE DEF I
<1>3. \A i \in 0..n : i \in I
  BY <1>1, <1>2, Upwards
<1> QED
  BY <1>3 DEF I

\* What changes is within any radius of itself.
LEMMA WithinHasItself ==
    ASSUME edges \subseteq RawEdges, NEW row \in Endpoints, NEW radius \in Nat
    PROVE  row \in Within({row}, radius)
<1> DEFINE D == {S \in SUBSET Endpoints : row \in S}
           Step(near) == near \cup UNION {NeighboursOf(edges, near, d) : d \in Directions}
           g == [p \in (1..radius) \X D |-> Step(p[2])]
<1>1. g \in [(1..radius) \X D -> D]
  <2>1. \A near \in D : Step(near) \in D
    <3>1. \A near : \A d \in Directions : NeighboursOf(edges, near, d) \subseteq Endpoints
      BY NeighboursOfAreTags
    <3> QED
      BY <3>1
  <2> HIDE DEF Step, D
  <2> QED
    BY <2>1
<1>2. {row} \in D
  OBVIOUS
<1>3. \A i \in 1..radius : \A near \in D : g[<<i, near>>] = Step(near)
  <2> HIDE DEF Step, D
  <2> QED
    OBVIOUS
<1>10. \A near : near \subseteq Step(near)
  OBVIOUS
<1> HIDE DEF g, D, Step
<1>4. PICK h : Repeats(g, {row}, h, radius) /\ \A i \in 0..radius : h[i] \in D
  BY <1>1, <1>2, Repeated
<1> DEFINE Levelled(f) == f = [k \in 0..radius |-> IF k = 0 THEN {row} ELSE Step(f[k - 1])]
<1>5. Levelled(h)
  <2>1. h = [k \in 0..radius |-> IF k = 0 THEN {row} ELSE g[<<k, h[k - 1]>>]]
    BY <1>4 DEF Repeats
  <2>2. ASSUME NEW k \in 0..radius, k # 0 PROVE g[<<k, h[k - 1]>>] = Step(h[k - 1])
    <3>1. k \in 1..radius /\ k - 1 \in 0..radius
      BY <2>2
    <3> QED
      BY <1>3, <1>4, <3>1
  <2> QED
    BY <2>1, <2>2
<1> DEFINE f == CHOOSE f : Levelled(f)
<1>6. Levelled(f)
  BY <1>5
<1>7. Within({row}, radius) = f[radius]
  BY DEF Within, Step
<1> HIDE DEF f
<1>8. \A k \in 0..radius : f[k] = IF k = 0 THEN {row} ELSE Step(f[k - 1])
  BY <1>6
<1>9. radius \in {i \in 0..radius : row \in f[i]}
  <2> DEFINE S == {i \in 0..radius : row \in f[i]}
  <2>1. 0 \in S
    <3>1. 0 \in 0..radius
      OBVIOUS
    <3> QED
      BY <1>8, <3>1
  <2>2. ASSUME NEW i \in 1..radius, i - 1 \in S PROVE i \in S
    <3>1. i \in 0..radius /\ i # 0
      OBVIOUS
    <3>2. f[i] = Step(f[i - 1])
      BY <1>8, <3>1
    <3> QED
      BY <1>10, <2>2, <3>1, <3>2
  <2> HIDE DEF S
  <2>3. \A i \in 0..radius : i \in S
    BY <2>1, <2>2, Upwards
  <2> QED
    BY <2>3 DEF S
<1> QED
  BY <1>7, <1>9

\* Tags in ascending order are a list of them.
LEMMA AscendingLists ==
    ASSUME NEW S \in SUBSET Endpoints, IsFiniteSet(S) PROVE Lists(Ascending(S), S)
<1>1. \A x \in S : x \in Nat
  BY BehaviorAssumption
<1> DEFINE R == {p \in S \X S : p[1] < p[2]}
<1>2. TotalOrder(S, R)
  BY <1>1 DEF TotalOrder
<1>3. \A x \in S : {y \in S : y < x} = Preceding(S, R, x)
  BY DEF Preceding
<1> HIDE DEF R
<1> PICK s : s = Ascending(S)
  OBVIOUS
<1>4. s = [n \in 1..Cardinality(S) |-> CHOOSE x \in S : Cardinality({y \in S : y < x}) = n - 1]
  BY DEF Ascending, InOrder
<1>5. ASSUME NEW n \in 1..Cardinality(S)
      PROVE  s[n] \in S /\ Cardinality(Preceding(S, R, s[n])) = n - 1
  <2>1. \E x \in S : Cardinality(Preceding(S, R, x)) = n - 1
    BY <1>2, RanksAreAll
  <2>2. \E x \in S : Cardinality({y \in S : y < x}) = n - 1
    BY <1>3, <2>1
  <2>3. s[n] = CHOOSE x \in S : Cardinality({y \in S : y < x}) = n - 1
    BY <1>4
  <2>4. s[n] \in S /\ Cardinality({y \in S : y < s[n]}) = n - 1
    BY <2>2, <2>3
  <2> QED
    BY <1>3, <2>4
<1>6. Sorted(s, S, R)
  BY <1>4, <1>5 DEF Sorted
<1> QED
  BY <1>2, <1>6, SortedLists

\* What is found next from the tags of a chain are their neighbours that are not in it.
LEMMA NextLists ==
    ASSUME NEW E, E \subseteq RawEdges, IsFiniteSet(E), NEW chain \in Seq(Endpoints),
           NEW d \in Directions
    PROVE  Lists(FlattenSeq(FoundNext(E, chain, d)), NeighboursOf(E, ToSet(chain), d) \ ToSet(chain))
<1> PICK n \in Nat : n = Len(chain) /\ DOMAIN chain = 1..n
  BY LenProperties
<1> DEFINE N == [i \in 1..n |-> Neighbours(E, chain[i], d)]
           B == ToSet(chain)
<1> PICK seqs : seqs = FoundNext(E, chain, d)
  OBVIOUS
<1>1. \A i \in 1..n : NeighboursOf(E, {chain[j] : j \in 1..(i - 1)}, d) = First(N, i - 1)
  <2> SUFFICES ASSUME NEW i \in 1..n, NEW u
               PROVE  u \in NeighboursOf(E, {chain[j] : j \in 1..(i - 1)}, d) <=> u \in First(N, i - 1)
    OBVIOUS
  <2>1. \A j \in 1..(i - 1) : N[j] = Neighbours(E, chain[j], d)
    OBVIOUS
  <2> HIDE DEF N
  <2>2. u \in First(N, i - 1) <=> \E j \in 1..(i - 1) : u \in N[j]
    BY DEF First
  <2>3. u \in NeighboursOf(E, {chain[j] : j \in 1..(i - 1)}, d)
        <=> \E j \in 1..(i - 1) : u \in Neighbours(E, chain[j], d)
    BY NeighboursOfAreTags
  <2> QED
    BY <2>1, <2>2, <2>3
<1>2. seqs = [i \in 1..n |-> Ascending(N[i] \ (B \cup First(N, i - 1)))]
  <2>1. seqs = [i \in 1..n |-> Ascending(Neighbours(E, chain[i], d)
                    \ (B \cup NeighboursOf(E, {chain[j] : j \in 1..(i - 1)}, d)))]
    BY DEF FoundNext
  <2>2. \A i \in 1..n : N[i] = Neighbours(E, chain[i], d)
    OBVIOUS
  <2> HIDE DEF N, B
  <2> QED
    BY <1>1, <2>1, <2>2
<1>3. ASSUME NEW i \in 1..n
      PROVE  Lists(seqs[i], N[i] \ (B \cup First(N, i - 1)))
  <2> PICK S : S = N[i] \ (B \cup First(N, i - 1))
    OBVIOUS
  <2>1. N[i] \subseteq Endpoints /\ IsFiniteSet(N[i])
    BY NeighboursAreTags
  <2> HIDE DEF N, B
  <2>2. S \in SUBSET Endpoints /\ IsFiniteSet(S)
    <3>1. S \in SUBSET N[i]
      OBVIOUS
    <3> QED
      BY <2>1, <3>1, FS_Subset
  <2>3. seqs[i] = Ascending(S)
    BY <1>2
  <2> QED
    BY <2>2, <2>3, AscendingLists
<1>4. Found(N, n, B) = NeighboursOf(E, ToSet(chain), d) \ ToSet(chain)
  <2> SUFFICES ASSUME NEW u PROVE u \in First(N, n) <=> u \in NeighboursOf(E, ToSet(chain), d)
    BY DEF Found
  <2>1. \A j \in 1..n : N[j] = Neighbours(E, chain[j], d)
    OBVIOUS
  <2> HIDE DEF N
  <2>2. u \in First(N, n) <=> \E j \in 1..n : u \in N[j]
    BY DEF First
  <2>3. \A t : t \in ToSet(chain) <=> \E j \in 1..n : t = chain[j]
    BY DEF ToSet
  <2>4. u \in NeighboursOf(E, ToSet(chain), d) <=> \E t \in ToSet(chain) : u \in Neighbours(E, t, d)
    BY NeighboursOfAreTags
  <2> QED
    BY <2>1, <2>2, <2>3, <2>4
<1>5. seqs = [i \in 1..n |-> seqs[i]]
  BY <1>2
<1> HIDE DEF N, B
<1>6. Lists(FlattenSeq(seqs), Found(N, n, B))
  BY <1>3, <1>5, FlattenedLists
<1> QED
  BY <1>4, <1>6

\* A chain is made of levels.
LEMMA ChainLevels ==
    ASSUME NEW E, E \subseteq RawEdges, IsFiniteSet(E), NEW t \in Endpoints, NEW d \in Directions
    PROVE  \E f : /\ ChainFrom(E, t, d) = f[Depth] /\ f[0] = <<t>>
                  /\ \A i \in 1..Depth : f[i] = f[i - 1] \o FlattenSeq(FoundNext(E, f[i - 1], d))
                  /\ \A i \in 0..Depth : f[i] \in Seq(Endpoints)
<1> DEFINE D == Seq(Endpoints)
           Step(chain) == chain \o FlattenSeq(FoundNext(E, chain, d))
           g == [p \in (1..Depth) \X D |-> Step(p[2])]
<1>0. Depth \in Nat
  BY BehaviorAssumption
<1>1. \A chain \in D : Step(chain) \in D
  <2> SUFFICES ASSUME NEW chain \in D PROVE Step(chain) \in D
    OBVIOUS
  <2> PICK next : next = FlattenSeq(FoundNext(E, chain, d))
    OBVIOUS
  <2>1. next \in Seq(NeighboursOf(E, ToSet(chain), d) \ ToSet(chain))
    BY NextLists DEF Lists
  <2>2. NeighboursOf(E, ToSet(chain), d) \ ToSet(chain) \subseteq Endpoints
    BY NeighboursOfAreTags
  <2>3. next \in Seq(Endpoints)
    BY <2>1, <2>2
  <2> QED
    BY <2>3, ConcatProperties
<1>2. <<t>> \in D
  OBVIOUS
<1> HIDE DEF Step, D
<1>3. g \in [(1..Depth) \X D -> D] /\ \A i \in 1..Depth : \A chain \in D : g[<<i, chain>>] = Step(chain)
  BY <1>1
<1> HIDE DEF g
<1>4. PICK h : Repeats(g, <<t>>, h, Depth) /\ \A i \in 0..Depth : h[i] \in D
  BY <1>0, <1>2, <1>3, Repeated
<1> DEFINE Levelled(f) == f = [k \in 0..Depth |-> IF k = 0 THEN <<t>> ELSE Step(f[k - 1])]
<1>5. Levelled(h)
  <2>1. h = [k \in 0..Depth |-> IF k = 0 THEN <<t>> ELSE g[<<k, h[k - 1]>>]]
    BY <1>4 DEF Repeats
  <2>2. ASSUME NEW k \in 0..Depth, k # 0 PROVE g[<<k, h[k - 1]>>] = Step(h[k - 1])
    <3>1. k \in 1..Depth /\ k - 1 \in 0..Depth
      BY <1>0, <2>2
    <3> QED
      BY <1>3, <1>4, <3>1
  <2> QED
    BY <2>1, <2>2
<1> DEFINE f == CHOOSE f : Levelled(f)
<1>6. Levelled(f)
  BY <1>5
<1>7. ChainFrom(E, t, d) = f[Depth]
  BY DEF ChainFrom, Step
<1> HIDE DEF f
<1>8. f[0] = <<t>> /\ \A i \in 1..Depth : f[i] = Step(f[i - 1])
  <2>1. \A k \in 0..Depth : f[k] = IF k = 0 THEN <<t>> ELSE Step(f[k - 1])
    BY <1>6
  <2>2. 0 \in 0..Depth
    BY <1>0
  <2> QED
    BY <1>0, <2>1, <2>2
<1>9. \A i \in 0..Depth : f[i] \in D
  <2> DEFINE S == {i \in 0..Depth : f[i] \in D}
  <2>1. 0 \in S
    BY <1>0, <1>2, <1>8
  <2>2. ASSUME NEW i \in 1..Depth, i - 1 \in S PROVE i \in S
    <3>1. f[i] = Step(f[i - 1]) /\ f[i - 1] \in D /\ i \in 0..Depth
      BY <1>8, <2>2
    <3> QED
      BY <1>1, <3>1
  <2> HIDE DEF S
  <2>3. \A i \in 0..Depth : i \in S
    BY <1>0, <2>1, <2>2, Upwards
  <2> QED
    BY <2>3 DEF S
<1> QED
  BY <1>7, <1>8, <1>9 DEF Step, D

\* What follows the first of a list is a list of the others.
LEMMA TailLists ==
    ASSUME NEW S, NEW s, Lists(s, S), NEW t, s # <<>>, s[1] = t
    PROVE  Lists(Tail(s), S \ {t})
<1> PICK n \in Nat : n = Len(s)
  BY LenProperties DEF Lists
<1> PICK r : r = Tail(s)
  OBVIOUS
<1>1. s \in Seq(S) /\ n # 0 /\ 1 \in 1..n
  BY EmptySeq DEF Lists
<1>2. r \in Seq(S) /\ Len(r) = n - 1 /\ \A i \in 1..(n - 1) : r[i] = s[i + 1] /\ i + 1 \in 1..n
  BY <1>1, HeadTailProperties
<1>3. \A i \in 1..(n - 1) : r[i] \in S \ {t}
  <2> SUFFICES ASSUME NEW i \in 1..(n - 1) PROVE r[i] \in S /\ r[i] # t
    OBVIOUS
  <2>1. r[i] = s[i + 1] /\ i + 1 \in 1..n /\ i + 1 # 1
    BY <1>2
  <2> QED
    BY <1>1, <2>1 DEF Lists
<1>4. r \in Seq(S \ {t})
  <2> PICK m \in Nat : m = n - 1
    BY <1>1
  <2> PICK T : T = S \ {t}
    OBVIOUS
  <2>1. r \in [1..m -> S] /\ \A i \in 1..m : r[i] \in T
    BY <1>2, <1>3, LenProperties
  <2>2. r \in [1..m -> T]
    BY <2>1
  <2>3. r \in Seq(T)
    BY ONLY <2>2, m \in Nat
  <2> QED
    BY <2>3
<1>5. ASSUME NEW x \in S \ {t} PROVE \E i \in 1..(n - 1) : r[i] = x
  <2>1. PICK j \in 1..n : s[j] = x
    BY DEF Lists
  <2>2. j # 1 /\ j - 1 \in 1..(n - 1) /\ (j - 1) + 1 = j
    BY <2>1
  <2>3. r[j - 1] = s[j]
    BY <1>2, <2>2
  <2> QED
    BY <2>1, <2>2, <2>3
<1>6. ASSUME NEW i \in 1..(n - 1), NEW j \in 1..(n - 1), r[i] = r[j] PROVE i = j
  <2>1. s[i + 1] = s[j + 1] /\ i + 1 \in 1..n /\ j + 1 \in 1..n
    BY <1>2, <1>6
  <2>2. i + 1 = j + 1
    BY <2>1 DEF Lists
  <2> QED
    BY <2>2
<1> QED
  BY <1>2, <1>4, <1>5, <1>6 DEF Lists

\* A chain is a list of the tags that are reached within Depth edges, but for its own.
LEMMA ChainTells ==
    ASSUME edges \subseteq RawEdges, IsFiniteSet(edges), NEW t \in Endpoints, NEW d \in Directions
    PROVE  Lists(Chain(edges, t, d), Reached(t, d, Depth, Endpoints) \ {t})
<1>0. Depth \in Nat
  BY BehaviorAssumption
<1>1. PICK f : /\ ChainFrom(edges, t, d) = f[Depth] /\ f[0] = <<t>>
               /\ \A i \in 1..Depth : f[i] = f[i - 1] \o FlattenSeq(FoundNext(edges, f[i - 1], d))
               /\ \A i \in 0..Depth : f[i] \in Seq(Endpoints)
  BY ZenonT(60), ChainLevels
<1>2. PICK h : /\ Levels(h, edges, t, d, Depth, Endpoints) /\ Reached(t, d, Depth, Endpoints) = h[Depth]
               /\ \A i \in 0..Depth : h[i] \in SUBSET Endpoints
  BY <1>0, ReachedLevels
<1> DEFINE S == {i \in 0..Depth : Lists(f[i], h[i]) /\ f[i] # <<>> /\ f[i][1] = t}
<1>3. 0 \in S
  <2>1. Lists(<<t>>, {t}) /\ <<t>> # <<>> /\ <<t>>[1] = t
    BY DEF Lists
  <2>2. 0 \in 0..Depth /\ f[0] = <<t>> /\ h[0] = {t}
    BY <1>0, <1>1, <1>2 DEF Levels
  <2> QED
    BY <2>1, <2>2
<1>4. ASSUME NEW i \in 1..Depth, i - 1 \in S PROVE i \in S
  <2> PICK c, R : c = f[i - 1] /\ R = h[i - 1]
    OBVIOUS
  <2> PICK next : next = FlattenSeq(FoundNext(edges, c, d))
    OBVIOUS
  <2>1. i \in 0..Depth /\ i - 1 \in 0..Depth
    BY <1>0
  <2>2. c \in Seq(Endpoints) /\ R \in SUBSET Endpoints /\ Lists(c, R) /\ c # <<>> /\ c[1] = t
    BY <1>1, <1>2, <1>4, <2>1
  <2>3. ToSet(c) = R
    BY <2>2, ListsCount
  <2>4. Lists(next, NeighboursOf(edges, R, d) \ R)
    BY <2>2, <2>3, NextLists
  <2>5. Lists(c \o next, R \cup (NeighboursOf(edges, R, d) \ R))
    BY <2>2, <2>4, ListsJoin
  <2>6. h[i] = R \cup (NeighboursOf(edges, R, d) \ R)
    <3>1. R \cap Endpoints = R
      BY <2>2
    <3>2. h[i] = R \cup NeighboursOf(edges, R, d)
      BY <1>2, <3>1 DEF Levels
    <3> QED
      BY <3>2
  <2>7. f[i] = c \o next
    BY <1>1
  <2>8. c \o next # <<>> /\ (c \o next)[1] = t
    <3>1. next \in Seq(Endpoints)
      <4>1. next \in Seq(NeighboursOf(edges, R, d) \ R) /\ NeighboursOf(edges, R, d) \ R \subseteq Endpoints
        BY <2>4, NeighboursOfAreTags DEF Lists
      <4> QED
        BY <4>1
    <3>2. Len(c) \in Nat /\ Len(next) \in Nat /\ Len(c) # 0
      <4>1. c \in Seq(Endpoints) /\ c # <<>>
        BY <2>2
      <4> QED
        BY <3>1, <4>1, LenProperties, EmptySeq
    <3>7. /\ Len(c \o next) = Len(c) + Len(next)
          /\ \A k \in 1..(Len(c) + Len(next)) :
                (c \o next)[k] = IF k <= Len(c) THEN c[k] ELSE next[k - Len(c)]
      BY ZenonT(60), <2>2, <3>1, ConcatProperties
    <3> PICK m, l : m = Len(c) /\ l = Len(next)
      OBVIOUS
    <3>8. m \in Nat /\ l \in Nat /\ m # 0 /\ Len(c \o next) = m + l
      BY <3>2, <3>7
    <3>3. 1 \in 1..(m + l) /\ 1 <= m /\ Len(c \o next) # 0
      BY ONLY <3>8
    <3>4. (c \o next)[1] = c[1]
      BY <3>7, <3>3
    <3>5. Len(<<>>) = 0
      OBVIOUS
    <3>6. c \o next # <<>>
      BY <3>3, <3>5
    <3> QED
      BY <2>2, <3>4, <3>6
  <2> QED
    BY <2>1, <2>5, <2>6, <2>7, <2>8
<1> HIDE DEF S
<1>5. \A i \in 0..Depth : i \in S
  BY <1>0, <1>3, <1>4, Upwards
<1>6. Lists(f[Depth], h[Depth]) /\ f[Depth] # <<>> /\ f[Depth][1] = t
  <2>1. Depth \in 0..Depth
    BY <1>0
  <2> QED
    BY <1>5, <2>1 DEF S
<1>7. Lists(Tail(f[Depth]), h[Depth] \ {t})
  BY <1>6, TailLists
<1> QED
  BY <1>1, <1>2, <1>7 DEF Chain

\* The graph of an explanation.

\* Edges as documents give them.
Known == {e \in RawEdges : Coherent(e)}

\* A relation tells its field.
LEMMA FieldsDiffer ==
    /\ FieldNames = {"upstream", "downstream", "signal_inputs", "signal_outputs", "controls",
                     "controlled_by"}
    /\ \A f, g \in FieldNames : InferredFields[f].rel = InferredFields[g].rel => f = g
<1>1. FieldNames = {"upstream", "downstream", "signal_inputs", "signal_outputs", "controls",
                    "controlled_by"}
  BY DEF FieldNames, InferredFields
<1>2. /\ InferredFields["upstream"].rel = "UPSTREAM"
      /\ InferredFields["downstream"].rel = "DOWNSTREAM"
      /\ InferredFields["signal_inputs"].rel = "SIGNAL_INPUT"
      /\ InferredFields["signal_outputs"].rel = "SIGNAL_OUTPUT"
      /\ InferredFields["controls"].rel = "CONTROLS"
      /\ InferredFields["controlled_by"].rel = "CONTROLLED_BY"
  BY DEF InferredFields, Field
<1> QED
  BY <1>1, <1>2

\* The order of the relations has no equals.
LEMMA RelationsAreOrdered ==
    \A r, s \in Relations : /\ RelationOrder[r] \in Nat
                            /\ RelationOrder[r] = RelationOrder[s] => r = s
<1>1. Relations = {"UPSTREAM", "DOWNSTREAM", "SIGNAL_INPUT", "SIGNAL_OUTPUT", "CONTROLS",
                   "CONTROLLED_BY", "RELATED_TO"}
  <2>1. /\ InferredFields["upstream"].rel = "UPSTREAM"
        /\ InferredFields["downstream"].rel = "DOWNSTREAM"
        /\ InferredFields["signal_inputs"].rel = "SIGNAL_INPUT"
        /\ InferredFields["signal_outputs"].rel = "SIGNAL_OUTPUT"
        /\ InferredFields["controls"].rel = "CONTROLS"
        /\ InferredFields["controlled_by"].rel = "CONTROLLED_BY"
    BY DEF InferredFields, Field
  <2> QED
    BY <2>1, FieldsDiffer DEF Relations
<1>2. /\ RelationOrder["CONTROLLED_BY"] = 1 /\ RelationOrder["CONTROLS"] = 2
      /\ RelationOrder["DOWNSTREAM"] = 3 /\ RelationOrder["RELATED_TO"] = 4
      /\ RelationOrder["SIGNAL_INPUT"] = 5 /\ RelationOrder["SIGNAL_OUTPUT"] = 6
      /\ RelationOrder["UPSTREAM"] = 7
  BY DEF RelationOrder
<1> QED
  BY <1>1, <1>2

\* Of a key one edge is built.
LEMMA OneOfAKey ==
    ASSUME NEW raw \in SUBSET Known, NEW e \in Build(raw), NEW f \in Build(raw), Key(e) = Key(f)
    PROVE  e = f
<1>1. /\ e \in raw /\ f \in raw /\ Valid(e) /\ Valid(f)
      /\ e.score > f.score \/ (e.score = f.score /\ (e.inferred => f.inferred))
      /\ f.score > e.score \/ (f.score = e.score /\ (f.inferred => e.inferred))
  BY DEF Build
<1>2. e \in RawEdges /\ f \in RawEdges /\ Coherent(e) /\ Coherent(f)
  BY <1>1 DEF Known
<1>3. e.score \in Nat /\ f.score \in Nat /\ e.inferred \in BOOLEAN /\ f.inferred \in BOOLEAN
  BY <1>2 DEF RawEdges
<1>4. e.score = f.score /\ e.inferred = f.inferred
  BY <1>1, <1>3
<1>5. e.source = f.source /\ e.target = f.target /\ e.rel = f.rel
  BY DEF Key
<1>6. e.from = f.from
  BY <1>2, <1>4, <1>5, FieldsDiffer DEF Coherent
<1> QED
  BY <1>2, <1>4, <1>5, <1>6 DEF RawEdges

\* x stands before y where both have a key.
Outdoes(x, y) == x.score > y.score \/ (x.score = y.score /\ (x.inferred => y.inferred))

\* Of each key of a valid edge one is built that is no less.
LEMMA BuiltOfEach ==
    ASSUME NEW raw \in SUBSET RawEdges, NEW e \in raw, Valid(e)
    PROVE  \E w \in Build(raw) : Key(w) = Key(e) /\ Outdoes(w, e)
<1> DEFINE same == {x \in raw : Valid(x) /\ Key(x) = Key(e)}
           scores == {x.score : x \in same}
<1>1. \A x \in raw : x.score \in 0..100 /\ x.inferred \in BOOLEAN
  BY DEF RawEdges
<1>2. scores \in SUBSET (0..100) /\ e.score \in scores
  BY <1>1
<1> HIDE DEF scores
<1>3. PICK m \in scores : \A y \in scores : y <= m
  <2>1. 100 \in Nat /\ scores # {}
    BY <1>2
  <2> QED
    BY <1>2, <2>1, Greatest
<1>4. PICK w \in same : w.score = m /\ \A x \in same : x.score = m => (w.inferred => x.inferred)
  <2>1. PICK x \in same : x.score = m
    BY <1>3 DEF scores
  <2>2. CASE \E y \in same : y.score = m /\ ~y.inferred
    BY <2>2
  <2>3. CASE ~ \E y \in same : y.score = m /\ ~y.inferred
    BY <2>1, <2>3
  <2> QED
    BY <2>2, <2>3
<1>5. ASSUME NEW x \in same PROVE Outdoes(w, x)
  <2>1. x.score <= m /\ x.score \in Int /\ m \in Int
    BY <1>1, <1>2, <1>3 DEF scores
  <2>2. x.score = m \/ m > x.score
    BY <2>1
  <2> QED
    BY <1>4, <2>2 DEF Outdoes
<1>6. w \in Build(raw)
  <2>1. \A x \in raw : Valid(x) /\ Key(x) = Key(w) => Outdoes(w, x)
    BY <1>5
  <2> QED
    BY <1>4, <2>1 DEF Build, Outdoes
<1> QED
  BY <1>5, <1>6

\* An edge as an explicit one.
Explicit(e) == [e EXCEPT !.inferred = FALSE]
\* What is kept of an edge that is taken as an explicit one.
LEMMA ExplicitIs ==
    ASSUME NEW e \in RawEdges
    PROVE  /\ Explicit(e) \in RawEdges /\ Explicit(e).source = e.source
           /\ Explicit(e).target = e.target /\ Explicit(e).rel = e.rel
           /\ Explicit(e).score = e.score /\ Explicit(e).inferred = FALSE
           /\ Explicit(e).from = e.from /\ Key(Explicit(e)) = Key(e)
           /\ Explicit(Explicit(e)) = Explicit(e)
  BY DEF Explicit, RawEdges, Key

\* The edges of the service are built of explicit ones and of the relations of its rows.
Built(raw) ==
    /\ raw \in SUBSET Known /\ IsFiniteSet(raw)
    /\ edges = Build(raw) /\ relations = {e \in raw : e.inferred}

\* Built again of what has become explicit, and of the relations, the graph is the same.
LEMMA WhyGraphIsExplicit ==
    ASSUME NEW raw, Built(raw)
    PROVE  WhyGraph = AsExplicit(edges)
<1> PICK again : again = AsExplicit(edges) \cup relations
  OBVIOUS
<1>1. raw \in SUBSET RawEdges /\ edges \subseteq raw /\ edges \subseteq RawEdges
  BY DEF Built, Known, Build
<1>2. AsExplicit(edges) = {Explicit(e) : e \in edges}
  BY DEF AsExplicit, Explicit
<1>3. again \in SUBSET RawEdges
  BY <1>1, <1>2, ExplicitIs DEF Built, Known
<1>4. ASSUME NEW w \in edges PROVE Explicit(w) \in WhyGraph
  <2>1. w \in raw /\ Valid(w) /\ w \in RawEdges /\ \A d \in raw : Valid(d) /\ Key(d) = Key(w) => Outdoes(w, d)
    BY <1>1 DEF Built, Build, Outdoes
  <2> PICK x : x = Explicit(w)
    OBVIOUS
  <2>2. /\ x \in RawEdges /\ x.source = w.source /\ x.target = w.target /\ x.score = w.score
        /\ x.inferred = FALSE /\ Key(x) = Key(w)
    BY <2>1, ExplicitIs
  <2>3. Valid(x)
    BY <2>1, <2>2 DEF Valid
  <2>4. ASSUME NEW d \in again, Valid(d), Key(d) = Key(x) PROVE Outdoes(x, d)
    <3>1. CASE d \in relations
      <4>1. d \in raw
        BY <3>1 DEF Built
      <4>2. Outdoes(w, d)
        BY <2>1, <2>2, <2>4, <4>1
      <4> QED
        BY <2>2, <4>2 DEF Outdoes
    <3>2. CASE d \in AsExplicit(edges)
      <4>1. PICK e \in edges : d = Explicit(e)
        BY <1>2, <3>2
      <4>2. Key(e) = Key(w) /\ d.score = e.score
        BY <1>1, <2>2, <2>4, <4>1, ExplicitIs
      <4>3. e = w
        BY <4>2, OneOfAKey DEF Built
      <4> QED
        BY <2>2, <4>1, <4>3 DEF Outdoes
    <3> QED
      BY <3>1, <3>2, <2>4
  <2>5. x \in again
    BY <1>2
  <2> QED
    BY <2>3, <2>4, <2>5 DEF WhyGraph, Build, Outdoes
<1>5. ASSUME NEW x \in WhyGraph PROVE x \in AsExplicit(edges)
  <2> SUFFICES ASSUME x \notin AsExplicit(edges) PROVE FALSE
    OBVIOUS
  <2>1. x \in again /\ Valid(x) /\ \A d \in again : Valid(d) /\ Key(d) = Key(x) => Outdoes(x, d)
    BY DEF WhyGraph, Build, Outdoes
  <2>2. x \in relations /\ x \in raw /\ x.inferred
    BY <2>1 DEF Built
  <2>3. PICK w \in edges : Key(w) = Key(x) /\ Outdoes(w, x)
    BY <1>1, <2>1, <2>2, BuiltOfEach DEF Built
  <2> PICK y : y = Explicit(w)
    OBVIOUS
  <2>4. y \in WhyGraph /\ y.score = w.score /\ y.inferred = FALSE /\ Key(y) = Key(w)
    BY <1>1, <1>4, ExplicitIs
  <2>5. Outdoes(x, y)
    <3>1. y \in again /\ Valid(y)
      BY <2>4 DEF WhyGraph, Build
    <3> QED
      BY <2>1, <2>3, <2>4, <3>1
  <2>6. x.score \in Int /\ w.score \in Int
    BY <1>1, <2>2 DEF RawEdges
  <2> QED
    BY <2>2, <2>3, <2>4, <2>5, <2>6 DEF Outdoes
<1> QED
  BY <1>2, <1>4, <1>5

\* It has an edge where the service's own graph has one, and one of each key.
LEMMA WhyGraphTells ==
    ASSUME NEW raw, Built(raw)
    PROVE  /\ AsExplicit(WhyGraph) = AsExplicit(edges)
           /\ edges \subseteq RawEdges /\ IsFiniteSet(edges)
           /\ WhyGraph \subseteq RawEdges /\ IsFiniteSet(WhyGraph)
           /\ \A e, f \in WhyGraph : Key(e) = Key(f) => e = f
           /\ \A t : \A d \in Directions : Neighbours(WhyGraph, t, d) = Neighbours(edges, t, d)
<1>1. edges \subseteq raw /\ edges \subseteq RawEdges /\ IsFiniteSet(edges)
  <2>1. edges \in SUBSET raw
    BY DEF Built, Build
  <2> QED
    BY <2>1, FS_Subset DEF Built, Known
<1>2. WhyGraph = {Explicit(e) : e \in edges}
  BY WhyGraphIsExplicit DEF AsExplicit, Explicit
<1>3. WhyGraph \subseteq RawEdges
  BY <1>1, <1>2, ExplicitIs
<1>4. IsFiniteSet(WhyGraph)
  <2> DEFINE f == [e \in edges |-> Explicit(e)]
  <2>1. f \in Surjection(edges, WhyGraph)
    <3>1. f \in [edges -> WhyGraph] /\ \A x \in WhyGraph : \E e \in edges : f[e] = x
      BY <1>2
    <3> HIDE DEF f
    <3> QED
      BY <3>1 DEF Surjection
  <2> HIDE DEF f
  <2> QED
    BY <1>1, <2>1, FS_Surjection
<1>5. AsExplicit(WhyGraph) = AsExplicit(edges)
  <2>1. AsExplicit(WhyGraph) = {Explicit(x) : x \in WhyGraph}
    BY DEF AsExplicit, Explicit
  <2>2. \A e \in edges : Explicit(Explicit(e)) = Explicit(e)
    BY <1>1, ExplicitIs
  <2>3. \A x \in WhyGraph : Explicit(x) = x
    BY <1>2, <2>2
  <2>4. AsExplicit(WhyGraph) = WhyGraph
    BY <2>1, <2>3
  <2> QED
    BY <2>4, WhyGraphIsExplicit
<1>6. ASSUME NEW x \in WhyGraph, NEW y \in WhyGraph, Key(x) = Key(y) PROVE x = y
  <2>1. PICK e \in edges, f \in edges : x = Explicit(e) /\ y = Explicit(f)
    BY <1>2
  <2>2. Key(e) = Key(f)
    BY <1>1, <1>6, <2>1, ExplicitIs
  <2>3. e = f
    BY <2>2, OneOfAKey DEF Built
  <2> QED
    BY <2>1, <2>3
<1>7. ASSUME NEW t, NEW d \in Directions, NEW u
      PROVE  u \in Neighbours(WhyGraph, t, d) <=> u \in Neighbours(edges, t, d)
  <2>1. \A e \in edges : EndOf(Explicit(e), d) = EndOf(e, d)
    BY <1>1, ExplicitIs DEF EndOf
  <2>2. \A e \in edges : Explicit(e) \in EdgesOf(WhyGraph, t, d) <=> e \in EdgesOf(edges, t, d)
    BY <1>1, <1>2, ExplicitIs DEF EdgesOf
  <2>3. ASSUME u \in Neighbours(WhyGraph, t, d) PROVE u \in Neighbours(edges, t, d)
    <3>1. PICK x \in EdgesOf(WhyGraph, t, d) : EndOf(x, d) = u
      BY <2>3, NeighboursAreEnds
    <3>2. PICK e \in edges : x = Explicit(e)
      BY <1>2, <3>1 DEF EdgesOf
    <3> QED
      BY <2>1, <2>2, <3>1, <3>2, NeighboursAreEnds
  <2>4. ASSUME u \in Neighbours(edges, t, d) PROVE u \in Neighbours(WhyGraph, t, d)
    <3>1. PICK e \in EdgesOf(edges, t, d) : EndOf(e, d) = u
      BY <2>4, NeighboursAreEnds
    <3>2. e \in edges
      BY <3>1 DEF EdgesOf
    <3>3. Explicit(e) \in EdgesOf(WhyGraph, t, d) /\ EndOf(Explicit(e), d) = u
      BY <2>1, <2>2, <3>1, <3>2
    <3> QED
      BY <3>3, NeighboursAreEnds
  <2> QED
    BY <2>3, <2>4
<1>8. \A t : \A d \in Directions : Neighbours(WhyGraph, t, d) = Neighbours(edges, t, d)
  <2> SUFFICES ASSUME NEW t, NEW d \in Directions
               PROVE  Neighbours(WhyGraph, t, d) = Neighbours(edges, t, d)
    OBVIOUS
  <2> PICK S, T : S = Neighbours(WhyGraph, t, d) /\ T = Neighbours(edges, t, d)
    OBVIOUS
  <2>1. \A u : u \in S <=> u \in T
    BY <1>7
  <2> QED
    BY <2>1
<1>9. \A e, f \in WhyGraph : Key(e) = Key(f) => e = f
  BY <1>6
<1> QED
  BY <1>1, <1>3, <1>4, <1>5, <1>8, <1>9

\* The walk.

\* Edges of a graph that has one of each key can be put in its order.
LEMMA EdgesInOrder ==
    ASSUME NEW S \in SUBSET RawEdges, IsFiniteSet(S), \A e, f \in S : Key(e) = Key(f) => e = f
    PROVE  Lists(InGraphOrder(S), S)
<1>1. \A e \in S : e.source \in Nat /\ e.target \in Nat /\ e.rel \in Relations
                   /\ RelationOrder[e.rel] \in Nat
  BY BehaviorAssumption, RelationsAreOrdered DEF RawEdges
<1> DEFINE R == {p \in S \X S : EdgeBefore(p[1], p[2])}
<1>2. TotalOrder(S, R)
  <2>1. \A x \in S : ~EdgeBefore(x, x)
    BY <1>1 DEF EdgeBefore
  <2>2. \A x, y, z \in S : EdgeBefore(x, y) /\ EdgeBefore(y, z) => EdgeBefore(x, z)
    BY <1>1 DEF EdgeBefore
  <2>3. ASSUME NEW x \in S, NEW y \in S, x # y PROVE EdgeBefore(x, y) \/ EdgeBefore(y, x)
    <3>1. ~(x.source = y.source /\ x.target = y.target /\ x.rel = y.rel)
      BY <2>3 DEF Key
    <3>2. RelationOrder[x.rel] = RelationOrder[y.rel] => x.rel = y.rel
      BY <1>1, RelationsAreOrdered
    <3> QED
      BY <1>1, <3>1, <3>2 DEF EdgeBefore
  <2> QED
    BY <2>1, <2>2, <2>3 DEF TotalOrder
<1>3. \A x \in S : {y \in S : EdgeBefore(y, x)} = Preceding(S, R, x)
  BY DEF Preceding
<1> HIDE DEF R
<1> PICK s : s = InGraphOrder(S)
  OBVIOUS
<1>4. s = [n \in 1..Cardinality(S) |-> CHOOSE x \in S : Cardinality({y \in S : EdgeBefore(y, x)}) = n - 1]
  BY DEF InGraphOrder, InOrder
<1>5. ASSUME NEW n \in 1..Cardinality(S)
      PROVE  s[n] \in S /\ Cardinality(Preceding(S, R, s[n])) = n - 1
  <2>1. \E x \in S : Cardinality(Preceding(S, R, x)) = n - 1
    BY <1>2, RanksAreAll
  <2>2. \E x \in S : Cardinality({y \in S : EdgeBefore(y, x)}) = n - 1
    BY <1>3, <2>1
  <2>3. s[n] = CHOOSE x \in S : Cardinality({y \in S : EdgeBefore(y, x)}) = n - 1
    BY <1>4
  <2>4. s[n] \in S /\ Cardinality({y \in S : EdgeBefore(y, s[n])}) = n - 1
    BY <2>2, <2>3
  <2> QED
    BY <1>3, <2>4
<1>6. Sorted(s, S, R)
  BY <1>4, <1>5 DEF Sorted
<1> QED
  BY <1>2, <1>6, SortedLists

\* The confidence of an edge is a number.
LEMMA EdgesHaveScores == \A e \in RawEdges : e.score \in Int
<1> SUFFICES ASSUME NEW e \in RawEdges PROVE e.score \in Int
  OBVIOUS
<1>1. e.score \in 0..100
  BY DEF RawEdges
<1> QED
  BY <1>1

\* What a path is worth is a number.
LEMMA ScoreIsNumber ==
    ASSUME NEW among, NEW nodes, NEW path \in Seq(RawEdges)
    PROVE  Score(among, nodes, path) \in Int
<1> PICK n \in Nat : n = Len(path)
  BY LenProperties
<1> DEFINE Bonus(i) == RoleBonus(IF nodes[i + 1] \in among THEN RoleOf[nodes[i + 1]] ELSE "unknown")
           Weighed(i) == 35 * path[i].score + 25 * SourceWeight(path[i].from)
                         + 25 * RelationWeight(path[i].rel) + 15 * Bonus(i)
           Step(i, x) ==
        x + 35 * path[i].score + 25 * SourceWeight(path[i].from) + 25 * RelationWeight(path[i].rel)
          + 15 * RoleBonus(IF nodes[i + 1] \in among THEN RoleOf[nodes[i + 1]] ELSE "unknown")
           g == [p \in (1..n) \X Int |-> Step(p[1], p[2])]
<1>1. \A i \in 1..n, x \in Int : Step(i, x) \in Int
  <2> SUFFICES ASSUME NEW i \in 1..n, NEW x \in Int PROVE Step(i, x) \in Int
    OBVIOUS
  <2>1. path[i].score \in Int
    <3>1. path \in [1..n -> RawEdges]
      BY LenProperties
    <3>2. \A e \in RawEdges : e.score \in Int
      BY EdgesHaveScores
    <3>3. path[i] \in RawEdges
      BY <3>1
    <3> QED
      BY ONLY <3>2, <3>3
  <2> PICK a : a = SourceWeight(path[i].from)
    OBVIOUS
  <2> PICK b : b = RelationWeight(path[i].rel)
    OBVIOUS
  <2> PICK c : c = Bonus(i)
    OBVIOUS
  <2>2. a \in Int
    BY DEF SourceWeight
  <2>3. b \in Int
    BY DEF RelationWeight
  <2>4. c \in Int
    BY DEF RoleBonus
  <2> PICK p \in Int : p = path[i].score
    BY <2>1
  <2>5. Step(i, x) = x + 35 * p + 25 * a + 25 * b + 15 * c
    OBVIOUS
  <2> HIDE DEF Step
  <2> PICK v : v = Step(i, x)
    OBVIOUS
  <2>6. v \in Int
    BY ONLY v = Step(i, x), x \in Int, p \in Int, <2>2, <2>3, <2>4, <2>5
  <2> QED
    BY <2>6
<1> HIDE DEF Step
<1>0. g \in [(1..n) \X Int -> Int]
  BY <1>1
<1>2. \A i \in 1..n, x \in Int : g[<<i, x>>] = Step(i, x)
  OBVIOUS
<1> HIDE DEF g
<1>3. PICK h : Repeats(g, 0, h, n) /\ \A i \in 0..n : h[i] \in Int
  <2>1. 0 \in Int
    OBVIOUS
  <2> QED
    BY ONLY <2>1, <1>0, n \in Nat, Repeated
<1> DEFINE Summed(f) == f = [i \in 0..n |-> IF i = 0 THEN 0 ELSE Step(i, f[i - 1])]
<1>4. Summed(h)
  <2>1. h = [k \in 0..n |-> IF k = 0 THEN 0 ELSE g[<<k, h[k - 1]>>]]
    BY <1>3 DEF Repeats
  <2>2. ASSUME NEW k \in 0..n, k # 0 PROVE g[<<k, h[k - 1]>>] = Step(k, h[k - 1])
    <3>1. k \in 1..n /\ k - 1 \in 0..n
      BY <2>2
    <3> QED
      BY <1>2, <1>3, <3>1
  <2> QED
    BY <2>1, <2>2
<1> DEFINE total == CHOOSE total : Summed(total)
<1>5. Summed(total)
  BY <1>4
<1>6. Score(among, nodes, path) =
        IF n = 0 THEN 24000
        ELSE IF (12 \div n) * total[n] - 3600 * n < 0 THEN 0 ELSE (12 \div n) * total[n] - 3600 * n
  BY DEF Score, Step
<1> HIDE DEF total
<1>7. \A i \in 0..n : total[i] \in Int
  <2> DEFINE S == {i \in 0..n : total[i] \in Int}
  <2>1. 0 \in S
    BY <1>5
  <2>2. ASSUME NEW i \in 1..n, i - 1 \in S PROVE i \in S
    <3>1. i \in 0..n /\ i # 0 /\ total[i] = Step(i, total[i - 1])
      BY <1>5
    <3> QED
      BY <1>1, <2>2, <3>1
  <2> HIDE DEF S
  <2>3. \A i \in 0..n : i \in S
    BY <2>1, <2>2, Upwards
  <2> QED
    BY <2>3 DEF S
<1>8. total[n] \in Int /\ (n # 0 => 12 \div n \in Int)
  BY <1>7
<1>9. n # 0 => (12 \div n) * total[n] \in Int
  BY <1>8
<1> QED
  BY <1>6, <1>9

\* What two sequences and the rest of one have.
LEMMA ElementsJoin ==
    /\ \A S : \A s, t \in Seq(S) : ToSet(s \o t) = ToSet(s) \cup ToSet(t)
    /\ \A S : \A s \in Seq(S) : s # <<>> => ToSet(s) = {Head(s)} \cup ToSet(Tail(s))
<1>1. ASSUME NEW S, NEW s \in Seq(S), NEW t \in Seq(S) PROVE ToSet(s \o t) = ToSet(s) \cup ToSet(t)
  <2> PICK m \in Nat, n \in Nat : m = Len(s) /\ n = Len(t)
    BY LenProperties
  <2> PICK u : u = s \o t
    OBVIOUS
  <2>1. u \in Seq(S) /\ Len(u) = m + n /\ \A i \in 1..(m + n) : u[i] = IF i <= m THEN s[i] ELSE t[i - m]
    BY ConcatProperties
  <2>2. ToSet(u) = {u[i] : i \in 1..(m + n)} /\ ToSet(s) = {s[i] : i \in 1..m}
        /\ ToSet(t) = {t[i] : i \in 1..n}
    BY <2>1, LenProperties DEF ToSet
  <2>3. ASSUME NEW i \in 1..(m + n) PROVE u[i] \in ToSet(s) \cup ToSet(t)
    <3>1. (i \in 1..m /\ u[i] = s[i]) \/ (i - m \in 1..n /\ u[i] = t[i - m])
      BY <2>1
    <3> QED
      BY <2>2, <3>1
  <2>4. \A i \in 1..m : i \in 1..(m + n) /\ u[i] = s[i]
    BY <2>1
  <2>5. ASSUME NEW i \in 1..n PROVE t[i] \in ToSet(u)
    <3> PICK j : j = i + m
      OBVIOUS
    <3>1. j \in 1..(m + n) /\ ~(j <= m) /\ j - m = i
      OBVIOUS
    <3>2. u[j] = t[i]
      BY <2>1, <3>1
    <3> QED
      BY <2>2, <3>1, <3>2
  <2>6. \A x \in ToSet(u) : x \in ToSet(s) \cup ToSet(t)
    BY <2>2, <2>3
  <2>7. \A x \in ToSet(s) : x \in ToSet(u)
    BY <2>2, <2>4
  <2>8. \A x \in ToSet(t) : x \in ToSet(u)
    BY <2>2, <2>5
  <2> QED
    BY <2>6, <2>7, <2>8
<1>2. ASSUME NEW S, NEW s \in Seq(S), s # <<>> PROVE ToSet(s) = {Head(s)} \cup ToSet(Tail(s))
  <2> PICK n \in Nat : n = Len(s)
    BY LenProperties
  <2> PICK r : r = Tail(s)
    OBVIOUS
  <2>1. n # 0 /\ Head(s) = s[1] /\ r \in Seq(S) /\ Len(r) = n - 1 /\ \A i \in 1..(n - 1) : r[i] = s[i + 1]
    BY <1>2, EmptySeq, HeadTailProperties
  <2>2. ToSet(s) = {s[i] : i \in 1..n} /\ ToSet(r) = {r[i] : i \in 1..(n - 1)}
    BY <2>1, LenProperties DEF ToSet
  <2>3. ASSUME NEW i \in 1..n PROVE s[i] \in {Head(s)} \cup ToSet(r)
    <3>1. CASE i = 1
      BY <2>1, <3>1
    <3>2. CASE i # 1
      <4>1. i - 1 \in 1..(n - 1) /\ (i - 1) + 1 = i
        BY <3>2
      <4>2. r[i - 1] = s[i]
        BY <2>1, <4>1
      <4> QED
        BY <2>2, <4>1, <4>2
    <3> QED
      BY <3>1, <3>2
  <2>4. \A i \in 1..(n - 1) : i + 1 \in 1..n /\ r[i] = s[i + 1]
    BY <2>1
  <2>5. 1 \in 1..n
    BY <2>1
  <2>6. Head(s) \in ToSet(s)
    BY <2>1, <2>2, <2>5
  <2>7. \A x \in ToSet(r) : x \in ToSet(s)
    BY <2>2, <2>4
  <2>8. \A x \in ToSet(s) : x \in {Head(s)} \cup ToSet(r)
    BY <2>2, <2>3
  <2> QED
    BY <2>6, <2>7, <2>8
<1> QED
  BY <1>1, <1>2

\* The paths of a walk.

\* A graph, rows in it, a tag to start from, a direction, and the tags within each number of
\* edges, through rows.
Setting(E, among, t, d, L) ==
    /\ E \in SUBSET RawEdges /\ IsFiniteSet(E) /\ \A e, f \in E : Key(e) = Key(f) => e = f
    /\ among \in SUBSET Endpoints /\ t \in among /\ d \in Directions
    /\ Levels(L, E, t, d, Depth, among) /\ \A i \in 0..Depth : L[i] \in SUBSET Endpoints

\* Paths that can be in the queue: each of their tags is a row, within as many edges.
Paths(E, L, among) ==
    {p \in [nodes : Seq(Endpoints), edges : Seq(E)] :
        /\ Len(p.nodes) = Len(p.edges) + 1 /\ Len(p.edges) <= Depth
        /\ \A i \in 1..Len(p.nodes) : p.nodes[i] \in among /\ p.nodes[i] \in L[i - 1]}

\* Paths that have ended.
Reasons == {"max_depth", "path_end", "broken_path", "cycle_detected", "missing_node"}
Ends(L) == [nodes : Seq(L[Depth]), reason : Reasons, score : Int]
Walks(E, L, among) == [queue : Seq(Paths(E, L, among)), paths : Seq(Ends(L))]

\* Elements of T are a sequence of T.
LEMMA SequenceOf ==
    ASSUME NEW n \in Nat, NEW s, s = [i \in 1..n |-> s[i]], NEW T, \A i \in 1..n : s[i] \in T
    PROVE  s \in Seq(T) /\ Len(s) = n
<1>1. s \in [1..n -> T]
  OBVIOUS
<1> QED
  BY ONLY n \in Nat, <1>1

\* A path by its parts.
LEMMA PathIs ==
    ASSUME NEW E, NEW L, NEW among, NEW p \in Paths(E, L, among)
    PROVE  \E n \in 0..Depth :
              /\ p.nodes \in Seq(Endpoints) /\ p.edges \in Seq(E)
              /\ Len(p.edges) = n /\ Len(p.nodes) = n + 1 /\ Last(p.nodes) = p.nodes[n + 1]
              /\ n + 1 \in 1..(n + 1) /\ p.nodes = [i \in 1..(n + 1) |-> p.nodes[i]]
              /\ \A i \in 1..(n + 1) : p.nodes[i] \in among /\ p.nodes[i] \in L[i - 1]
<1>0. Depth \in Nat
  BY BehaviorAssumption
<1>1. p.nodes \in Seq(Endpoints) /\ p.edges \in Seq(E) /\ Len(p.nodes) = Len(p.edges) + 1
      /\ Len(p.edges) <= Depth
      /\ \A i \in 1..Len(p.nodes) : p.nodes[i] \in among /\ p.nodes[i] \in L[i - 1]
  BY DEF Paths
<1>2. Len(p.edges) \in 0..Depth
  BY <1>0, <1>1, LenProperties
<1> PICK n \in 0..Depth : n = Len(p.edges)
  BY <1>2
<1>3. n + 1 \in 1..(n + 1)
  BY <1>0
<1>4. p.nodes = [i \in 1..(n + 1) |-> p.nodes[i]]
  BY <1>1, LenProperties
<1>5. Last(p.nodes) = p.nodes[n + 1]
  BY <1>1 DEF Last
<1> QED
  BY <1>1, <1>3, <1>4, <1>5

\* Its tags are within all the edges.
LEMMA PathNodes ==
    ASSUME NEW E, NEW among, NEW t, NEW d, NEW L, Setting(E, among, t, d, L), NEW p \in Paths(E, L, among)
    PROVE  p.nodes \in Seq(L[Depth])
<1>0. Depth \in Nat
  BY BehaviorAssumption
<1> PICK n \in 0..Depth :
        /\ p.nodes = [i \in 1..(n + 1) |-> p.nodes[i]]
        /\ \A i \in 1..(n + 1) : p.nodes[i] \in L[i - 1]
  BY PathIs
<1>1. ASSUME NEW i \in 1..(n + 1) PROVE p.nodes[i] \in L[Depth]
  <2>1. i - 1 \in 0..Depth /\ Depth \in 0..Depth
    BY <1>0
  <2>2. L[i - 1] \subseteq L[Depth]
    BY <1>0, <2>1, LevelsGrow DEF Setting
  <2> QED
    BY <2>2
<1>2. n + 1 \in Nat
  BY <1>0
<1> PICK s : s = p.nodes
  OBVIOUS
<1>3. s = [i \in 1..(n + 1) |-> s[i]] /\ \A i \in 1..(n + 1) : s[i] \in L[Depth]
  BY <1>1
<1> QED
  BY <1>2, <1>3, SequenceOf

\* A path over one edge more.
LEMMA ExtendIs ==
    ASSUME NEW E, NEW among, NEW t, NEW d, NEW L, Setting(E, among, t, d, L), NEW p \in Paths(E, L, among),
           NEW n \in 0..(Depth - 1), Len(p.edges) = n, NEW e \in EdgesOf(E, Last(p.nodes), d)
    PROVE  LET q == Extend(p, e, d) IN
           /\ q.nodes \in Seq(L[Depth]) /\ q.nodes \in Seq(Endpoints) /\ q.edges \in Seq(E)
           /\ Len(q.edges) = n + 1 /\ Len(q.nodes) = n + 2
           /\ \A i \in 1..(n + 1) : q.nodes[i] = p.nodes[i]
           /\ q.nodes[n + 2] = EndOf(e, d)
           /\ EndOf(e, d) \in among => q \in Paths(E, L, among)
<1>0. Depth \in Nat /\ n \in Nat
  BY BehaviorAssumption
<1>1. /\ p.nodes \in Seq(Endpoints) /\ p.edges \in Seq(E) /\ Len(p.nodes) = n + 1
      /\ Last(p.nodes) = p.nodes[n + 1] /\ n + 1 \in 1..(n + 1)
      /\ \A i \in 1..(n + 1) : p.nodes[i] \in among /\ p.nodes[i] \in L[i - 1]
  <2> PICK m \in 0..Depth :
        /\ p.nodes \in Seq(Endpoints) /\ p.edges \in Seq(E)
        /\ Len(p.edges) = m /\ Len(p.nodes) = m + 1 /\ Last(p.nodes) = p.nodes[m + 1]
        /\ m + 1 \in 1..(m + 1)
        /\ \A i \in 1..(m + 1) : p.nodes[i] \in among /\ p.nodes[i] \in L[i - 1]
    BY PathIs
  <2>1. m = n
    OBVIOUS
  <2> QED
    BY <2>1
<1> PICK u : u = EndOf(e, d)
  OBVIOUS
<1> PICK q : q = Extend(p, e, d)
  OBVIOUS
<1>2. q = [nodes |-> Append(p.nodes, u), edges |-> Append(p.edges, e)]
  BY DEF Extend
<1>3. e \in E
  BY DEF EdgesOf
<1>4. u \in Neighbours(E, Last(p.nodes), d)
  BY NeighboursAreEnds DEF Setting
<1>5. u \in L[n + 1]
  <2>1. (n + 1) - 1 = n /\ n + 1 \in 1..Depth
    BY <1>0
  <2>2. Last(p.nodes) \in L[n] \cap among
    BY <1>1, <2>1
  <2>3. u \in NeighboursOf(E, L[n] \cap among, d)
    BY <1>4, <2>2, NeighboursOfAreTags DEF Setting
  <2> QED
    BY <2>1, <2>3 DEF Setting, Levels
<1>6. u \in Endpoints /\ u \in L[Depth]
  <2>1. n + 1 \in 0..Depth /\ Depth \in 0..Depth
    BY <1>0
  <2>2. L[n + 1] \subseteq L[Depth]
    BY <1>0, <2>1, LevelsGrow DEF Setting
  <2> QED
    BY <1>5, <2>1, <2>2 DEF Setting
<1>7. q.nodes \in Seq(Endpoints) /\ Len(q.nodes) = n + 2 /\ q.nodes[n + 2] = u
      /\ \A i \in 1..(n + 1) : q.nodes[i] = p.nodes[i]
  <2> PICK s : s = p.nodes
    OBVIOUS
  <2>1. s \in Seq(Endpoints) /\ Len(s) = n + 1
    BY <1>1
  <2> PICK r : r = Append(s, u)
    OBVIOUS
  <2>2. r \in Seq(Endpoints) /\ Len(r) = n + 2 /\ r[n + 2] = u /\ \A i \in 1..(n + 1) : r[i] = s[i]
    BY ONLY <1>0, <1>6, <2>1, r = Append(s, u), AppendProperties
  <2> QED
    BY <1>2, <2>2
<1>8. q.nodes \in Seq(L[Depth])
  <2>1. p.nodes \in Seq(L[Depth])
    BY PathNodes
  <2> PICK s : s = p.nodes
    OBVIOUS
  <2> PICK T : T = L[Depth]
    OBVIOUS
  <2>2. s \in Seq(T) /\ u \in T
    BY <1>6, <2>1
  <2>3. Append(s, u) \in Seq(T)
    BY ONLY <2>2, AppendProperties
  <2> QED
    BY <1>2, <2>3
<1>9. q.edges \in Seq(E) /\ Len(q.edges) = n + 1
  BY <1>0, <1>1, <1>2, <1>3, AppendProperties
<1>10. ASSUME u \in among PROVE q \in Paths(E, L, among)
  <2>1. q \in [nodes : Seq(Endpoints), edges : Seq(E)]
    BY <1>2, <1>7, <1>9
  <2>2. Len(q.nodes) = Len(q.edges) + 1 /\ Len(q.edges) <= Depth
    BY <1>0, <1>7, <1>9
  <2>3. ASSUME NEW i \in 1..Len(q.nodes) PROVE q.nodes[i] \in among /\ q.nodes[i] \in L[i - 1]
    <3>1. CASE i = n + 2
      <4>1. i - 1 = n + 1
        BY <1>0, <3>1
      <4> QED
        BY <1>5, <1>7, <1>10, <3>1, <4>1
    <3>2. CASE i # n + 2
      <4>1. i \in 1..(n + 1)
        BY <1>0, <1>7, <3>2
      <4> QED
        BY <1>1, <1>7, <4>1
    <3> QED
      BY <3>1, <3>2
  <2> QED
    BY <2>1, <2>2, <2>3 DEF Paths
<1> QED
  BY <1>7, <1>8, <1>9, <1>10

\* An ended path keeps its tags.
LEMMA EndedIs ==
    ASSUME NEW among, NEW L, NEW E \in SUBSET RawEdges, NEW path, path.nodes \in Seq(L[Depth]),
           path.edges \in Seq(E), NEW reason \in Reasons
    PROVE  Ended(among, path, reason) \in Ends(L) /\ Ended(among, path, reason).nodes = path.nodes
<1>1. path.edges \in Seq(RawEdges)
  OBVIOUS
<1>2. Score(among, path.nodes, path.edges) \in Int
  BY <1>1, ScoreIsNumber
<1> QED
  BY <1>2 DEF Ended, Ends

\* A turn takes the first path from the queue, and adds paths to the queue and to those that
\* have ended.
Turned(w, more, ends) == [queue |-> Tail(w.queue) \o more, paths |-> w.paths \o ends]

\* What is in the queue and has ended after a turn.
LEMMA TurnedIs ==
    ASSUME NEW E, NEW L, NEW among, NEW w \in Walks(E, L, among), w.queue # <<>>,
           NEW more \in Seq(Paths(E, L, among)), NEW ends \in Seq(Ends(L))
    PROVE  /\ Turned(w, more, ends) \in Walks(E, L, among)
           /\ ToSet(Turned(w, more, ends).queue) = ToSet(Tail(w.queue)) \cup ToSet(more)
           /\ ToSet(Turned(w, more, ends).paths) = ToSet(w.paths) \cup ToSet(ends)
<1> PICK P : P = Paths(E, L, among)
  OBVIOUS
<1> PICK R : R = Ends(L)
  OBVIOUS
<1> PICK q : q = w.queue
  OBVIOUS
<1> PICK r : r = w.paths
  OBVIOUS
<1>1. q \in Seq(P) /\ r \in Seq(R) /\ more \in Seq(P) /\ ends \in Seq(R) /\ q # <<>>
  BY DEF Walks
<1>2. Tail(q) \in Seq(P)
  BY ONLY <1>1, HeadTailProperties
<1> PICK z : z = Tail(q)
  OBVIOUS
<1>3. z \o more \in Seq(P) /\ ToSet(z \o more) = ToSet(z) \cup ToSet(more)
  <2>1. z \in Seq(P) /\ more \in Seq(P)
    BY <1>1, <1>2
  <2>2. z \o more \in Seq(P)
    BY ONLY <2>1, ConcatProperties
  <2>3. ToSet(z \o more) = ToSet(z) \cup ToSet(more)
    BY ONLY <2>1, ElementsJoin
  <2> QED
    BY <2>2, <2>3
<1>4. r \o ends \in Seq(R) /\ ToSet(r \o ends) = ToSet(r) \cup ToSet(ends)
  BY ONLY <1>1, ElementsJoin, ConcatProperties
<1>5. Turned(w, more, ends) = [queue |-> z \o more, paths |-> r \o ends]
  BY DEF Turned
<1>6. Turned(w, more, ends) \in [queue : Seq(P), paths : Seq(R)]
  BY <1>3, <1>4, <1>5
<1> QED
  BY <1>3, <1>4, <1>5, <1>6 DEF Walks

\* One path, and none.
LEMMA OneOrNone ==
    /\ \A T : <<>> \in Seq(T) /\ ToSet(<<>>) = {}
    /\ \A T : \A x \in T : <<x>> \in Seq(T) /\ ToSet(<<x>>) = {x}
<1>1. \A x : ToSet(<<x>>) = {x}
  BY DEF ToSet
<1>2. ToSet(<<>>) = {}
  BY DEF ToSet
<1> QED
  BY <1>1, <1>2

\* What is made of each of a list.
LEMMA EachOfAList ==
    ASSUME NEW S, NEW s, Lists(s, S), NEW T, NEW h, h = [i \in DOMAIN s |-> h[i]],
           NEW made, \A e \in S : made[e] \in T, \A i \in DOMAIN s : h[i] = made[s[i]]
    PROVE  h \in Seq(T) /\ \A e \in S : made[e] \in ToSet(h)
<1> PICK n \in Nat : n = Len(s)
  BY LenProperties DEF Lists
<1>1. s \in [1..n -> S] /\ DOMAIN s = 1..n /\ \A x \in S : \E i \in 1..n : s[i] = x
  BY LenProperties DEF Lists
<1>2. h = [i \in 1..n |-> h[i]] /\ \A i \in 1..n : h[i] \in T
  BY <1>1
<1>3. h \in Seq(T) /\ Len(h) = n /\ DOMAIN h = 1..n
  BY <1>2, SequenceOf
<1>4. ASSUME NEW e \in S PROVE made[e] \in ToSet(h)
  <2> PICK i \in 1..n : s[i] = e
    BY <1>1
  <2>1. h[i] = made[e]
    BY <1>1
  <2> QED
    BY <1>3, <2>1 DEF ToSet
<1> QED
  BY <1>3, <1>4

\* Edges of a tag, some of them, in the order of the graph.
LEMMA EdgesOfInOrder ==
    ASSUME NEW E, NEW among, NEW t, NEW d, NEW L, Setting(E, among, t, d, L), NEW S, S \subseteq E
    PROVE  Lists(InGraphOrder(S), S)
<1>1. S \in SUBSET RawEdges /\ IsFiniteSet(S) /\ \A e, f \in S : Key(e) = Key(f) => e = f
  BY FS_Subset DEF Setting
<1> QED
  BY <1>1, EdgesInOrder

\* A turn of the loop: the walk stays one of paths, no path is lost but the first, which goes
\* on or has ended, and of its edges each is followed.
TurnOf(E, L, among, w, v, d) ==
    LET path == Head(w.queue)
        out == EdgesOf(E, Last(path.nodes), d) IN
    /\ v \in Walks(E, L, among)
    /\ \A p \in ToSet(Tail(w.queue)) : p \in ToSet(v.queue)
    /\ \A p \in ToSet(w.paths) : p \in ToSet(v.paths)
    /\ \/ \E r \in Reasons : Ended(among, path, r) \in ToSet(v.paths)
       \/ Len(path.edges) < Depth /\ \E e \in out : Extend(path, e, d) \in ToSet(v.queue)
    /\ Len(path.edges) < Depth =>
        \A e \in out :
            /\ GoesOn(among, path, e, d) => Extend(path, e, d) \in ToSet(v.queue)
            /\ ~GoesOn(among, path, e, d) =>
                    \E r \in Reasons : Ended(among, Extend(path, e, d), r) \in ToSet(v.paths)

\* The edges over which a path goes on, and those over which it does not, in their order, with
\* what is made of them.
Onward(E, among, path, d) ==
    InGraphOrder({e \in EdgesOf(E, Last(path.nodes), d) : GoesOn(among, path, e, d)})
Stuck(E, among, path, d) ==
    InGraphOrder({e \in EdgesOf(E, Last(path.nodes), d) : ~GoesOn(among, path, e, d)})
More(on, path, d) == [i \in DOMAIN on |-> Extend(path, on[i], d)]
Held(among, stuck, path, d) ==
    [i \in DOMAIN stuck |-> Ended(among, Extend(path, stuck[i], d), Obstacle(path, stuck[i], d))]
BrokenPath(among, on, path) == IF on = <<>> THEN <<Ended(among, path, "broken_path")>> ELSE <<>>

\* A turn in each of its cases.
CaseOf(E, among, w, v, d) ==
    LET path == Head(w.queue)
        out == EdgesOf(E, Last(path.nodes), d)
        on == Onward(E, among, path, d)
        stuck == Stuck(E, among, path, d) IN
    /\ Len(path.edges) >= Depth /\ ~(Len(path.edges) < Depth) =>
            v = Turned(w, <<>>, <<Ended(among, path, "max_depth")>>)
    /\ Len(path.edges) < Depth /\ ~(Len(path.edges) >= Depth) /\ out = {} =>
            v = Turned(w, <<>>, <<Ended(among, path, "path_end")>>)
    /\ ~(Len(path.edges) >= Depth) /\ out # {} =>
            v = Turned(w, More(on, path, d), Held(among, stuck, path, d) \o BrokenPath(among, on, path))

\* Every turn is in one of its cases.
LEMMA TurnCases ==
    ASSUME NEW E, NEW among, NEW w, NEW d
    PROVE  CaseOf(E, among, w, WalkOn(E, among, w, d), d)
<1> DEFINE path_ == Head(w.queue)
           out_ == EdgesOf(E, Last(path_.nodes), d)
           on_ == InGraphOrder({e \in out_ : GoesOn(among, path_, e, d)})
           stuck_ == InGraphOrder({e \in out_ : ~GoesOn(among, path_, e, d)})
           a == Turned(w, <<>>, <<Ended(among, path_, "max_depth")>>)
           b == Turned(w, <<>>, <<Ended(among, path_, "path_end")>>)
           c == Turned(w, More(on_, path_, d),
                       Held(among, stuck_, path_, d) \o BrokenPath(among, on_, path_))
<1>1. WalkOn(E, among, w, d) =
        CASE Len(path_.edges) >= Depth -> a
          [] Len(path_.edges) < Depth /\ out_ = {} -> b
          [] OTHER -> c
  BY DEF WalkOn, Turned, More, Held, BrokenPath
<1> HIDE DEF a, b, c
<1>2. on_ = Onward(E, among, path_, d) /\ stuck_ = Stuck(E, among, path_, d)
  BY DEF Onward, Stuck
<1> HIDE DEF on_, stuck_
<1>3. /\ Len(path_.edges) >= Depth /\ ~(Len(path_.edges) < Depth) => WalkOn(E, among, w, d) = a
      /\ Len(path_.edges) < Depth /\ ~(Len(path_.edges) >= Depth) /\ out_ = {} =>
            WalkOn(E, among, w, d) = b
      /\ ~(Len(path_.edges) >= Depth) /\ out_ # {} => WalkOn(E, among, w, d) = c
  <2> HIDE DEF path_, out_
  <2> QED
    BY <1>1
<1> PICK x : x = WalkOn(E, among, w, d)
  OBVIOUS
<1>4. CaseOf(E, among, w, x, d)
  BY <1>2, <1>3 DEF CaseOf, a, b, c
<1> QED
  BY <1>4

\* A turn tells what TurnOf says.
LEMMA TurnTells ==
    ASSUME NEW E, NEW among, NEW t, NEW d, NEW L, Setting(E, among, t, d, L),
           NEW w \in Walks(E, L, among), w.queue # <<>>
    PROVE  TurnOf(E, L, among, w, WalkOn(E, among, w, d), d)
<1>0. Depth \in Nat /\ E \in SUBSET RawEdges
  BY BehaviorAssumption DEF Setting
<1> PICK path : path = Head(w.queue)
  OBVIOUS
<1> PICK out : out = EdgesOf(E, Last(path.nodes), d)
  OBVIOUS
<1>1. path \in Paths(E, L, among)
  BY HeadTailProperties DEF Walks
<1> PICK n \in 0..Depth : n = Len(path.edges) /\ path.edges \in Seq(E)
  <2> PICK m \in 0..Depth :
        /\ path.nodes \in Seq(Endpoints) /\ path.edges \in Seq(E)
        /\ Len(path.edges) = m /\ Len(path.nodes) = m + 1
        /\ Last(path.nodes) = path.nodes[m + 1]
        /\ m + 1 \in 1..(m + 1) /\ path.nodes = [i \in 1..(m + 1) |-> path.nodes[i]]
        /\ \A i \in 1..(m + 1) : path.nodes[i] \in among /\ path.nodes[i] \in L[i - 1]
    BY ONLY <1>1, PathIs
  <2> QED
    OBVIOUS
<1>2. \A r \in Reasons : Ended(among, path, r) \in Ends(L)
  BY <1>0, <1>1, PathNodes, EndedIs
<1>3. out \subseteq E
  BY DEF EdgesOf
<1> PICK v : v = WalkOn(E, among, w, d)
  OBVIOUS
<1> PICK on : on = Onward(E, among, path, d)
  OBVIOUS
<1> PICK stuck : stuck = Stuck(E, among, path, d)
  OBVIOUS
<1> PICK more : more = More(on, path, d)
  OBVIOUS
<1> PICK held : held = Held(among, stuck, path, d)
  OBVIOUS
<1>8. /\ Len(path.edges) >= Depth /\ ~(Len(path.edges) < Depth) =>
            v = Turned(w, <<>>, <<Ended(among, path, "max_depth")>>)
      /\ Len(path.edges) < Depth /\ ~(Len(path.edges) >= Depth) /\ out = {} =>
            v = Turned(w, <<>>, <<Ended(among, path, "path_end")>>)
      /\ ~(Len(path.edges) >= Depth) /\ out # {} =>
            v = Turned(w, more, held \o BrokenPath(among, on, path))
  <2>1. CaseOf(E, among, w, v, d)
    BY TurnCases
  <2> QED
    BY <2>1 DEF CaseOf
<1>4. ASSUME NEW r \in Reasons, n = Depth \/ out = {},
             v = Turned(w, <<>>, <<Ended(among, path, r)>>)
      PROVE  TurnOf(E, L, among, w, v, d)
  <2> PICK ends : ends = <<Ended(among, path, r)>>
    OBVIOUS
  <2> PICK none : none = <<>>
    OBVIOUS
  <2>0. none \in Seq(Paths(E, L, among)) /\ ends \in Seq(Ends(L)) /\ ToSet(ends) = {Ended(among, path, r)}
    BY <1>2, OneOrNone
  <2>3. /\ Turned(w, none, ends) \in Walks(E, L, among)
        /\ ToSet(Turned(w, none, ends).queue) = ToSet(Tail(w.queue)) \cup ToSet(none)
        /\ ToSet(Turned(w, none, ends).paths) = ToSet(w.paths) \cup ToSet(ends)
    <3>1. none \in Seq(Paths(E, L, among)) /\ ends \in Seq(Ends(L))
      BY <2>0
    <3> QED
      BY ONLY w \in Walks(E, L, among), w.queue # <<>>, <3>1, TurnedIs
  <2>1. /\ v \in Walks(E, L, among)
        /\ ToSet(v.queue) = ToSet(Tail(w.queue)) \cup ToSet(<<>>)
        /\ ToSet(v.paths) = ToSet(w.paths) \cup {Ended(among, path, r)}
    BY <1>4, <2>0, <2>3
  <2>2. Len(path.edges) < Depth => out = {}
    BY <1>4
  <2> QED
    BY <1>4, <2>1, <2>2 DEF TurnOf
<1>5. CASE n >= Depth
  <2>1. v = Turned(w, <<>>, <<Ended(among, path, "max_depth")>>)
    BY <1>0, <1>5, <1>8
  <2>2. "max_depth" \in Reasons /\ n = Depth
    BY <1>0, <1>5 DEF Reasons
  <2> QED
    BY <1>4, <2>1, <2>2
<1>6. CASE n < Depth /\ out = {}
  <2>1. v = Turned(w, <<>>, <<Ended(among, path, "path_end")>>)
    BY <1>0, <1>6, <1>8
  <2>2. "path_end" \in Reasons
    BY DEF Reasons
  <2> QED
    BY <1>4, <1>6, <2>1, <2>2
<1>7. CASE n < Depth /\ out # {}
  <2> DEFINE A == {e \in out : GoesOn(among, path, e, d)}
             B == {e \in out : ~GoesOn(among, path, e, d)}
  <2>1. Lists(on, A) /\ Lists(stuck, B)
    <3>1. on = InGraphOrder(A)
      BY DEF Onward
    <3>2. stuck = InGraphOrder(B)
      BY DEF Stuck
    <3>3. A \subseteq E /\ B \subseteq E
      BY <1>3
    <3> HIDE DEF A, B
    <3> QED
      BY <3>1, <3>2, <3>3, EdgesOfInOrder
  <2> PICK last : last = BrokenPath(among, on, path)
    OBVIOUS
  <2>2. v = Turned(w, more, held \o last)
    BY <1>0, <1>7, <1>8
  <2>3. ASSUME NEW e \in out
        PROVE  /\ Extend(path, e, d).nodes \in Seq(L[Depth]) /\ Extend(path, e, d).edges \in Seq(E)
               /\ EndOf(e, d) \in among => Extend(path, e, d) \in Paths(E, L, among)
    <3>1. n \in 0..(Depth - 1)
      BY <1>0, <1>7
    <3> QED
      BY <1>1, <3>1, ExtendIs
  <2>4. more \in Seq(Paths(E, L, among)) /\ \A e \in A : Extend(path, e, d) \in ToSet(more)
    <3> DEFINE made == [e \in A |-> Extend(path, e, d)]
    <3>1. \A e \in A : made[e] = Extend(path, e, d) /\ made[e] \in Paths(E, L, among)
      BY <2>3 DEF GoesOn
    <3>2. more = [i \in DOMAIN on |-> more[i]]
      BY DEF More
    <3>3. \A i \in DOMAIN on : on[i] \in A
      BY <2>1, LenProperties DEF Lists
    <3>4. \A i \in DOMAIN on : more[i] = made[on[i]]
      BY <3>1, <3>3 DEF More
    <3> HIDE DEF made, A
    <3> PICK T : T = Paths(E, L, among)
      OBVIOUS
    <3>6. \A e \in A : made[e] \in T
      BY <3>1
    <3>7. more \in Seq(T) /\ \A e \in A : made[e] \in ToSet(more)
      BY ONLY <2>1, <3>2, <3>4, <3>6, EachOfAList
    <3>5. more \in Seq(Paths(E, L, among)) /\ \A e \in A : made[e] \in ToSet(more)
      BY <3>7
    <3> QED
      BY <3>1, <3>5
  <2>5. held \in Seq(Ends(L))
        /\ \A e \in B : Ended(among, Extend(path, e, d), Obstacle(path, e, d)) \in ToSet(held)
    <3> DEFINE made == [e \in B |-> Ended(among, Extend(path, e, d), Obstacle(path, e, d))]
    <3>1. \A e \in B : made[e] = Ended(among, Extend(path, e, d), Obstacle(path, e, d))
                       /\ made[e] \in Ends(L)
      <4> SUFFICES ASSUME NEW e \in B
                   PROVE  Ended(among, Extend(path, e, d), Obstacle(path, e, d)) \in Ends(L)
        OBVIOUS
      <4>1. Obstacle(path, e, d) \in Reasons
        BY DEF Obstacle, Reasons
      <4> QED
        BY <1>0, <2>3, <4>1, EndedIs
    <3>2. held = [i \in DOMAIN stuck |-> held[i]]
      BY DEF Held
    <3>3. \A i \in DOMAIN stuck : stuck[i] \in B
      BY <2>1, LenProperties DEF Lists
    <3>4. \A i \in DOMAIN stuck : held[i] = made[stuck[i]]
      BY <3>1, <3>3 DEF Held
    <3> HIDE DEF made, B
    <3> PICK T : T = Ends(L)
      OBVIOUS
    <3>6. \A e \in B : made[e] \in T
      BY <3>1
    <3>7. held \in Seq(T) /\ \A e \in B : made[e] \in ToSet(held)
      BY ONLY <2>1, <3>2, <3>4, <3>6, EachOfAList
    <3>5. held \in Seq(Ends(L)) /\ \A e \in B : made[e] \in ToSet(held)
      BY <3>7
    <3> QED
      BY <3>1, <3>5
  <2>6. "broken_path" \in Reasons
    BY DEF Reasons
  <2>7. last \in Seq(Ends(L)) /\ (on = <<>> => Ended(among, path, "broken_path") \in ToSet(last))
    BY <1>2, <2>6, OneOrNone DEF BrokenPath
  <2>8. held \o last \in Seq(Ends(L)) /\ ToSet(held \o last) = ToSet(held) \cup ToSet(last)
    BY ONLY <2>5, <2>7, ConcatProperties, ElementsJoin
  <2> PICK ends : ends = held \o last
    OBVIOUS
  <2>14. more \in Seq(Paths(E, L, among)) /\ ends \in Seq(Ends(L))
    BY <2>4, <2>8
  <2>15. /\ Turned(w, more, ends) \in Walks(E, L, among)
         /\ ToSet(Turned(w, more, ends).queue) = ToSet(Tail(w.queue)) \cup ToSet(more)
         /\ ToSet(Turned(w, more, ends).paths) = ToSet(w.paths) \cup ToSet(ends)
    BY ONLY w \in Walks(E, L, among), w.queue # <<>>, <2>14, TurnedIs
  <2>9. /\ v \in Walks(E, L, among)
        /\ ToSet(v.queue) = ToSet(Tail(w.queue)) \cup ToSet(more)
        /\ ToSet(v.paths) = ToSet(w.paths) \cup ToSet(held \o last)
    BY <2>2, <2>15
  <2>10. on # <<>> => \E e \in out : Extend(path, e, d) \in ToSet(v.queue)
    <3> SUFFICES ASSUME on # <<>> PROVE \E e \in out : Extend(path, e, d) \in ToSet(v.queue)
      OBVIOUS
    <3>1. on \in Seq(A)
      BY <2>1 DEF Lists
    <3>2. Head(on) \in A
      BY <3>1, HeadTailProperties
    <3> QED
      BY <2>4, <2>9, <3>2
  <2>11. \A e \in B : Obstacle(path, e, d) \in Reasons
    BY DEF Obstacle, Reasons
  <2>12. \A e \in out : /\ GoesOn(among, path, e, d) => Extend(path, e, d) \in ToSet(v.queue)
                        /\ ~GoesOn(among, path, e, d) =>
                            \E r \in Reasons : Ended(among, Extend(path, e, d), r) \in ToSet(v.paths)
    BY <2>4, <2>5, <2>8, <2>9, <2>11
  <2>13. \/ \E r \in Reasons : Ended(among, path, r) \in ToSet(v.paths)
         \/ \E e \in out : Extend(path, e, d) \in ToSet(v.queue)
    BY <2>6, <2>7, <2>8, <2>9, <2>10
  <2> HIDE DEF A, B
  <2> QED
    BY <1>7, <2>9, <2>12, <2>13 DEF TurnOf
<1> QED
  BY <1>0, <1>5, <1>6, <1>7

\* All of a walk.

\* A walk begins with the path of the tag alone.
Begun(t) == [queue |-> <<[nodes |-> <<t>>, edges |-> <<>>]>>, paths |-> <<>>]
Goes(E, among, at, d) ==
    IF at.queue = <<>> \/ Len(at.paths) >= 3 * MaxPaths THEN at ELSE WalkOn(E, among, at, d)

\* How a walk begins.
LEMMA BegunIs ==
    ASSUME NEW E, NEW among, NEW t, NEW d, NEW L, Setting(E, among, t, d, L)
    PROVE  /\ Begun(t) \in Walks(E, L, among)
           /\ \E p \in ToSet(Begun(t).queue) :
                Len(p.edges) = 0 /\ Len(p.nodes) = 1 /\ p.nodes[1] = t
<1> PICK p : p = [nodes |-> <<t>>, edges |-> <<>>]
  OBVIOUS
<1>0. Depth \in Nat
  BY BehaviorAssumption
<1>1. t \in Endpoints /\ t \in among /\ t \in L[0]
  BY DEF Setting, Levels
<1>2. p.nodes \in Seq(Endpoints) /\ Len(p.nodes) = 1 /\ p.nodes[1] = t
      /\ p.edges \in Seq(E) /\ Len(p.edges) = 0 /\ p \in [nodes : Seq(Endpoints), edges : Seq(E)]
  BY <1>1
<1>3. \A i \in 1..1 : i = 1 /\ i - 1 = 0
  OBVIOUS
<1>4. p \in Paths(E, L, among)
  <2>1. Len(p.nodes) = Len(p.edges) + 1 /\ Len(p.edges) <= Depth
    BY <1>0, <1>2
  <2>2. ASSUME NEW i \in 1..Len(p.nodes) PROVE p.nodes[i] \in among /\ p.nodes[i] \in L[i - 1]
    <3>1. i = 1 /\ i - 1 = 0
      BY <1>2, <1>3
    <3> QED
      BY <1>1, <1>2, <3>1
  <2>3. p \in [nodes : Seq(Endpoints), edges : Seq(E)]
    BY <1>2
  <2> QED
    BY ONLY <2>1, <2>2, <2>3 DEF Paths
<1>5. <<p>> \in Seq(Paths(E, L, among)) /\ ToSet(<<p>>) = {p}
  BY <1>4, OneOrNone
<1>6. <<>> \in Seq(Ends(L))
  BY OneOrNone
<1>7. Begun(t) = [queue |-> <<p>>, paths |-> <<>>]
  BY DEF Begun
<1> HIDE DEF Begun
<1>8. Begun(t) \in Walks(E, L, among)
  BY <1>5, <1>6, <1>7 DEF Walks
<1> QED
  BY <1>2, <1>5, <1>7, <1>8

\* A walk is made of turns.
MadeOf(f, n, E, among, t, d, L) ==
    /\ WalkFrom(E, among, t, d) = f[n] /\ f[0] = Begun(t)
    /\ \A i \in 1..n : f[i] = Goes(E, among, f[i - 1], d)
    /\ \A i \in 0..n : f[i] \in Walks(E, L, among)

\* Every walk is made so.
LEMMA WalkLevels ==
    ASSUME NEW E, NEW among, NEW t, NEW d, NEW L, Setting(E, among, t, d, L)
    PROVE  \E n \in Nat : \E f : MadeOf(f, n, E, among, t, d, L)
<1> DEFINE D == Walks(E, L, among)
           g == [p \in (1..(24 * MaxPaths)) \X D |-> Goes(E, among, p[2], d)]
<1>0. 24 * MaxPaths \in Nat
  BY BehaviorAssumption
<1> PICK n \in Nat : n = 24 * MaxPaths
  BY <1>0
<1>1. \A at \in D : Goes(E, among, at, d) \in D
  <2> SUFFICES ASSUME NEW at \in D PROVE Goes(E, among, at, d) \in D
    OBVIOUS
  <2>1. CASE at.queue = <<>> \/ Len(at.paths) >= 3 * MaxPaths
    BY <2>1 DEF Goes
  <2>2. CASE ~(at.queue = <<>> \/ Len(at.paths) >= 3 * MaxPaths)
    <3>1. TurnOf(E, L, among, at, WalkOn(E, among, at, d), d)
      BY <2>2, TurnTells
    <3> QED
      BY <2>2, <3>1 DEF Goes, TurnOf
  <2> QED
    BY <2>1, <2>2
<1>2. Begun(t) \in D
  BY BegunIs
<1> HIDE DEF D
<1>3. g \in [(1..n) \X D -> D] /\ \A i \in 1..n : \A at \in D : g[<<i, at>>] = Goes(E, among, at, d)
  BY <1>1
<1> HIDE DEF g
<1>4. PICK h : Repeats(g, Begun(t), h, n) /\ \A i \in 0..n : h[i] \in D
  <2> PICK a : a = Begun(t)
    OBVIOUS
  <2>1. a \in D /\ g \in [(1..n) \X D -> D]
    BY <1>2, <1>3
  <2>2. \E h : Repeats(g, a, h, n) /\ \A i \in 0..n : h[i] \in D
    BY ONLY n \in Nat, <2>1, Repeated
  <2> QED
    BY <2>2
<1> DEFINE Levelled(f) == f = [k \in 0..n |-> IF k = 0 THEN Begun(t) ELSE Goes(E, among, f[k - 1], d)]
<1>5. Levelled(h)
  <2>1. h = [k \in 0..n |-> IF k = 0 THEN Begun(t) ELSE g[<<k, h[k - 1]>>]]
    BY <1>4 DEF Repeats
  <2>2. ASSUME NEW k \in 0..n, k # 0 PROVE g[<<k, h[k - 1]>>] = Goes(E, among, h[k - 1], d)
    <3>1. k \in 1..n /\ k - 1 \in 0..n
      BY <2>2
    <3> QED
      BY <1>3, <1>4, <3>1
  <2> QED
    BY <2>1, <2>2
<1> DEFINE f == CHOOSE f : Levelled(f)
<1>6. Levelled(f)
  BY <1>5
<1>7. WalkFrom(E, among, t, d) = f[n]
  BY DEF WalkFrom, Goes, Begun
<1> HIDE DEF f
<1>8. f[0] = Begun(t) /\ \A i \in 1..n : f[i] = Goes(E, among, f[i - 1], d)
  <2>1. \A k \in 0..n : f[k] = IF k = 0 THEN Begun(t) ELSE Goes(E, among, f[k - 1], d)
    BY <1>6
  <2> QED
    BY <2>1
<1>9. \A i \in 0..n : f[i] \in D
  <2> DEFINE S == {i \in 0..n : f[i] \in D}
  <2>1. 0 \in S
    BY <1>2, <1>8
  <2>2. ASSUME NEW i \in 1..n, i - 1 \in S PROVE i \in S
    <3>1. f[i] = Goes(E, among, f[i - 1], d) /\ f[i - 1] \in D /\ i \in 0..n
      BY <1>8, <2>2
    <3> QED
      BY <1>1, <3>1
  <2> HIDE DEF S
  <2>3. \A i \in 0..n : i \in S
    BY <2>1, <2>2, Upwards
  <2> QED
    BY <2>3 DEF S
<1>10. MadeOf(f, n, E, among, t, d, L)
  BY <1>7, <1>8, <1>9 DEF D, MadeOf
<1> QED
  BY <1>10

----------------------------------------
\* What a walk finds.

\* A shortest way to a tag, through rows.
Route(E, among, d, L, x, k) ==
    /\ \A i \in 0..k : x[i] \in L[i]
    /\ \A i \in 1..k : x[i] \notin L[i - 1]
    /\ \A i \in 0..(k - 1) : x[i] \in among /\ x[i + 1] \in Neighbours(E, x[i], d)

\* There is one to each tag of a level that is not of the one before it.
LEMMA RoutesExist ==
    ASSUME NEW E, NEW among, NEW t, NEW d, NEW L, Setting(E, among, t, d, L)
    PROVE  \A k \in 0..Depth : \A u \in L[k] :
              (k > 0 => u \notin L[k - 1]) => \E x : Route(E, among, d, L, x, k) /\ x[k] = u
<1>0. Depth \in Nat
  BY BehaviorAssumption
<1> DEFINE Met(k) == \A u \in L[k] : (k > 0 => u \notin L[k - 1]) =>
                        \E x : Route(E, among, d, L, x, k) /\ x[k] = u
           S == {k \in 0..Depth : Met(k)}
<1>1. 0 \in S
  <2> SUFFICES ASSUME NEW u \in L[0] PROVE \E x : Route(E, among, d, L, x, 0) /\ x[0] = u
    BY <1>0
  <2> PICK x : x = [i \in 0..0 |-> u]
    OBVIOUS
  <2>1. \A i \in 0..0 : i = 0
    OBVIOUS
  <2>2. x[0] = u /\ 1..0 = {} /\ 0..(0 - 1) = {}
    OBVIOUS
  <2>3. Route(E, among, d, L, x, 0)
    BY <2>1, <2>2 DEF Route
  <2> QED
    BY <2>2, <2>3
<1>2. ASSUME NEW k \in 1..Depth, k - 1 \in S PROVE k \in S
  <2>0. k \in Nat /\ k > 0 /\ k - 1 \in 0..Depth /\ k \in 0..Depth
    BY <1>0
  <2> SUFFICES ASSUME NEW u \in L[k], u \notin L[k - 1]
               PROVE  \E x : Route(E, among, d, L, x, k) /\ x[k] = u
    BY <2>0
  <2>1. L[k] = L[k - 1] \cup NeighboursOf(E, L[k - 1] \cap among, d)
    BY DEF Setting, Levels
  <2>2. PICK v \in L[k - 1] \cap among : u \in Neighbours(E, v, d)
    BY <2>1, NeighboursOfAreTags DEF Setting
  <2>3. k - 1 > 0 => v \notin L[(k - 1) - 1]
    <3> SUFFICES ASSUME k - 1 > 0, v \in L[(k - 1) - 1] PROVE FALSE
      OBVIOUS
    <3>1. k - 1 \in 1..Depth
      BY <1>0
    <3>2. L[k - 1] = L[(k - 1) - 1] \cup NeighboursOf(E, L[(k - 1) - 1] \cap among, d)
      BY <3>1 DEF Setting, Levels
    <3>3. u \in NeighboursOf(E, L[(k - 1) - 1] \cap among, d)
      BY <2>2, NeighboursOfAreTags DEF Setting
    <3> QED
      BY <3>2, <3>3
  <2>4. Met(k - 1)
    BY <1>2
  <2>5. PICK y : Route(E, among, d, L, y, k - 1) /\ y[k - 1] = v
    BY <2>2, <2>3, <2>4
  <2> PICK x : x = [i \in 0..k |-> IF i = k THEN u ELSE y[i]]
    OBVIOUS
  <2>6. x[k] = u /\ \A i \in 0..(k - 1) : x[i] = y[i]
    BY <2>0
  <2>7. \A i \in 0..k : x[i] \in L[i]
    <3>1. \A i \in 0..k : i = k \/ i \in 0..(k - 1)
      BY <2>0
    <3> QED
      BY <2>5, <2>6, <3>1 DEF Route
  <2>8. ASSUME NEW i \in 1..k PROVE x[i] \notin L[i - 1]
    <3>1. i = k \/ (i \in 1..(k - 1) /\ i \in 0..(k - 1))
      BY <2>0
    <3> QED
      BY <2>5, <2>6, <3>1 DEF Route
  <2>9. ASSUME NEW i \in 0..(k - 1) PROVE x[i] \in among /\ x[i + 1] \in Neighbours(E, x[i], d)
    <3>1. CASE i = k - 1
      <4>1. i + 1 = k
        BY <2>0, <3>1
      <4> QED
        BY <2>2, <2>5, <2>6, <3>1, <4>1
    <3>2. CASE i # k - 1
      <4>1. i \in 0..((k - 1) - 1) /\ i + 1 \in 0..(k - 1)
        BY <2>0, <3>2
      <4> QED
        BY <2>5, <2>6, <4>1 DEF Route
    <3> QED
      BY <3>1, <3>2
  <2> QED
    BY <2>6, <2>7, <2>8, <2>9 DEF Route
<1> HIDE DEF S
<1>3. \A k \in 0..Depth : k \in S
  BY <1>0, <1>1, <1>2, Upwards
<1> QED
  BY <1>3 DEF S

\* The tag of a route is named by a path that has ended, or will be by one in the queue.
Promises(p, x, k) ==
    \/ x[k] \in ToSet(p.nodes)
    \/ \E j \in 0..(k - 1) : Len(p.edges) = j /\ \A i \in 0..j : p.nodes[i + 1] = x[i]
Sure(w, x, k) ==
    \/ \E p \in ToSet(w.paths) : x[k] \in ToSet(p.nodes)
    \/ \E p \in ToSet(w.queue) : Promises(p, x, k)

\* A turn keeps it so.
LEMMA StaysSure ==
    ASSUME NEW E, NEW among, NEW t, NEW d, NEW L, Setting(E, among, t, d, L),
           NEW w \in Walks(E, L, among), w.queue # <<>>,
           NEW k \in 0..Depth, NEW x, Route(E, among, d, L, x, k), Sure(w, x, k)
    PROVE  Sure(WalkOn(E, among, w, d), x, k)
<1>0. Depth \in Nat /\ k \in Nat
  BY BehaviorAssumption
<1> PICK v : v = WalkOn(E, among, w, d)
  OBVIOUS
<1> PICK path : path = Head(w.queue)
  OBVIOUS
<1> PICK out : out = EdgesOf(E, Last(path.nodes), d)
  OBVIOUS
<1> PICK u : u = x[k]
  OBVIOUS
<1>1. TurnOf(E, L, among, w, v, d)
  BY TurnTells
<1>2. /\ \A p \in ToSet(Tail(w.queue)) : p \in ToSet(v.queue)
      /\ \A p \in ToSet(w.paths) : p \in ToSet(v.paths)
      /\ \/ \E r \in Reasons : Ended(among, path, r) \in ToSet(v.paths)
         \/ Len(path.edges) < Depth /\ \E e \in out : Extend(path, e, d) \in ToSet(v.queue)
      /\ Len(path.edges) < Depth =>
            \A e \in out :
                /\ GoesOn(among, path, e, d) => Extend(path, e, d) \in ToSet(v.queue)
                /\ ~GoesOn(among, path, e, d) =>
                    \E r \in Reasons : Ended(among, Extend(path, e, d), r) \in ToSet(v.paths)
  BY <1>1 DEF TurnOf
<1>3. path \in Paths(E, L, among) /\ ToSet(w.queue) = {path} \cup ToSet(Tail(w.queue))
  <2>1. w.queue \in Seq(Paths(E, L, among))
    BY DEF Walks
  <2> QED
    BY <2>1, ElementsJoin, HeadTailProperties
<1> PICK n \in 0..Depth :
        /\ path.nodes \in Seq(Endpoints) /\ path.edges \in Seq(E)
        /\ Len(path.edges) = n /\ Len(path.nodes) = n + 1
        /\ Last(path.nodes) = path.nodes[n + 1]
        /\ n + 1 \in 1..(n + 1) /\ path.nodes = [i \in 1..(n + 1) |-> path.nodes[i]]
        /\ \A i \in 1..(n + 1) : path.nodes[i] \in among /\ path.nodes[i] \in L[i - 1]
  <2>1. path \in Paths(E, L, among)
    BY <1>3
  <2> QED
    BY ONLY <2>1, PathIs
<1>4. \A r : Ended(among, path, r).nodes = path.nodes
  BY DEF Ended
<1>5. CASE \E p \in ToSet(w.paths) : u \in ToSet(p.nodes)
  BY <1>2, <1>5 DEF Sure
<1>6. CASE \E p \in ToSet(Tail(w.queue)) : Promises(p, x, k)
  BY <1>2, <1>6 DEF Sure
<1>7. CASE u \in ToSet(path.nodes)
  <2>1. CASE \E r \in Reasons : Ended(among, path, r) \in ToSet(v.paths)
    BY <1>4, <1>7, <2>1 DEF Sure
  <2>2. CASE Len(path.edges) < Depth /\ \E e \in out : Extend(path, e, d) \in ToSet(v.queue)
    <3> PICK e \in out : Extend(path, e, d) \in ToSet(v.queue)
      BY <2>2
    <3> PICK q : q = Extend(path, e, d)
      OBVIOUS
    <3>1. n \in 0..(Depth - 1)
      BY <1>0, <2>2
    <3>2. q.nodes \in Seq(Endpoints) /\ Len(q.nodes) = n + 2
          /\ \A i \in 1..(n + 1) : q.nodes[i] = path.nodes[i]
      <4>1. path \in Paths(E, L, among) /\ e \in EdgesOf(E, Last(path.nodes), d) /\ Len(path.edges) = n
        BY <1>3
      <4> QED
        BY ONLY Setting(E, among, t, d, L), <3>1, <4>1, q = Extend(path, e, d), ExtendIs
    <3>3. PICK i \in 1..(n + 1) : path.nodes[i] = u
      BY <1>7 DEF ToSet
    <3>4. i \in DOMAIN q.nodes
      <4>1. DOMAIN q.nodes = 1..(n + 2)
        BY <3>2, LenProperties
      <4> QED
        BY <4>1
    <3>5. u \in ToSet(q.nodes)
      BY SMTT(60), <3>2, <3>3, <3>4 DEF ToSet
    <3> QED
      BY <3>5 DEF Sure, Promises
  <2> QED
    BY <1>2, <2>1, <2>2
<1>8. CASE \E j \in 0..(k - 1) : Len(path.edges) = j /\ \A i \in 0..j : path.nodes[i + 1] = x[i]
  <2>1. n \in 0..(k - 1) /\ \A i \in 0..n : path.nodes[i + 1] = x[i]
    BY <1>8
  <2>2. n \in 0..(Depth - 1) /\ n + 1 \in 0..k /\ n + 1 \in 1..k /\ (n + 1) - 1 = n /\ n \in 0..n
        /\ Len(path.edges) < Depth
    BY <1>0, <2>1
  <2>3. Last(path.nodes) = x[n]
    BY <2>1, <2>2
  <2>4. x[n + 1] \in Neighbours(E, x[n], d)
    BY <2>1 DEF Route
  <2>5. PICK e \in out : EndOf(e, d) = x[n + 1]
    BY <2>3, <2>4, NeighboursAreEnds DEF Setting
  <2> PICK q : q = Extend(path, e, d)
    OBVIOUS
  <2>6. /\ q.nodes \in Seq(L[Depth]) /\ Len(q.edges) = n + 1 /\ Len(q.nodes) = n + 2
        /\ \A i \in 1..(n + 1) : q.nodes[i] = path.nodes[i]
        /\ q.nodes[n + 2] = x[n + 1]
    <3>1. /\ path \in Paths(E, L, among) /\ n \in 0..(Depth - 1) /\ Len(path.edges) = n
          /\ e \in EdgesOf(E, Last(path.nodes), d)
      BY <1>3, <2>2
    <3> QED
      BY ONLY Setting(E, among, t, d, L), <2>5, <3>1, q = Extend(path, e, d), ExtendIs
  <2>7. \A i \in 0..(n + 1) : q.nodes[i + 1] = x[i]
    <3> SUFFICES ASSUME NEW i \in 0..(n + 1) PROVE q.nodes[i + 1] = x[i]
      OBVIOUS
    <3>1. CASE i = n + 1
      <4>1. i + 1 = n + 2
        BY <3>1
      <4> QED
        BY <2>6, <3>1, <4>1
    <3>2. CASE i # n + 1
      <4>1. i \in 0..n /\ i + 1 \in 1..(n + 1)
        BY <3>2
      <4> QED
        BY <2>1, <2>6, <4>1
    <3> QED
      BY <3>1, <3>2
  <2>8. n + 1 = k => u \in ToSet(q.nodes)
    <3> SUFFICES ASSUME n + 1 = k PROVE u \in ToSet(q.nodes)
      OBVIOUS
    <3>1. DOMAIN q.nodes = 1..(n + 2) /\ n + 2 \in 1..(n + 2)
      BY <2>6, LenProperties
    <3> QED
      BY <2>6, <3>1 DEF ToSet
  <2>9. CASE GoesOn(among, path, e, d)
    <3>1. q \in ToSet(v.queue)
      BY <1>2, <2>2, <2>9
    <3>2. CASE n + 1 = k
      BY <2>8, <3>1, <3>2 DEF Sure, Promises
    <3>3. CASE n + 1 # k
      <4>1. n + 1 \in 0..(k - 1)
        BY <1>0, <2>1, <3>3
      <4>2. Promises(q, x, k)
        BY <2>6, <2>7, <4>1 DEF Promises
      <4> QED
        BY <3>1, <4>2 DEF Sure
    <3> QED
      BY <3>2, <3>3
  <2>10. CASE ~GoesOn(among, path, e, d)
    <3>1. PICK r \in Reasons : Ended(among, q, r) \in ToSet(v.paths)
      BY <1>2, <2>2, <2>10
    <3>2. x[n + 1] \notin ToSet(path.nodes)
      <4> SUFFICES ASSUME x[n + 1] \in ToSet(path.nodes) PROVE FALSE
        OBVIOUS
      <4>1. PICK i \in 1..(n + 1) : path.nodes[i] = x[n + 1]
        BY DEF ToSet
      <4>2. i - 1 \in 0..n /\ n \in 0..Depth
        BY <1>0, <2>2
      <4>3. x[n + 1] \in L[i - 1]
        BY <4>1
      <4>4. L[i - 1] \subseteq L[n]
        BY <1>0, <4>2, LevelsGrow DEF Setting
      <4>5. x[n + 1] \notin L[n]
        BY <2>2 DEF Route
      <4> QED
        BY <4>3, <4>4, <4>5
    <3>3. x[n + 1] \notin among
      BY <2>5, <2>10, <3>2 DEF GoesOn
    <3>4. n + 1 = k
      <4> SUFFICES ASSUME n + 1 # k PROVE FALSE
        OBVIOUS
      <4>1. n + 1 \in 0..(k - 1)
        BY <1>0, <2>1
      <4> QED
        BY <3>3, <4>1 DEF Route
    <3>5. Ended(among, q, r).nodes = q.nodes
      BY DEF Ended
    <3> QED
      BY <2>8, <3>1, <3>4, <3>5 DEF Sure
  <2> QED
    BY <2>9, <2>10
<1>9. \/ \E p \in ToSet(w.paths) : u \in ToSet(p.nodes)
      \/ \E p \in ToSet(Tail(w.queue)) : Promises(p, x, k)
      \/ Promises(path, x, k)
  BY <1>3 DEF Sure
<1> QED
  BY <1>5, <1>6, <1>7, <1>8, <1>9 DEF Promises

\* A walk that comes to its end names the tags it can reach through rows.
LEMMA WalkReaches ==
    ASSUME NEW E, NEW among, NEW t, NEW d, NEW L, Setting(E, among, t, d, L)
    PROVE  /\ WalkFrom(E, among, t, d) \in Walks(E, L, among)
           /\ WalkFrom(E, among, t, d).queue = <<>> =>
                \A u \in L[Depth] : \E p \in ToSet(WalkFrom(E, among, t, d).paths) : u \in ToSet(p.nodes)
<1>0. Depth \in Nat
  BY BehaviorAssumption
<1> PICK n \in Nat : \E f : MadeOf(f, n, E, among, t, d, L)
  BY WalkLevels
<1> PICK f : MadeOf(f, n, E, among, t, d, L)
  OBVIOUS
<1>1. /\ WalkFrom(E, among, t, d) = f[n] /\ f[0] = Begun(t)
      /\ \A i \in 1..n : f[i] = Goes(E, among, f[i - 1], d)
      /\ \A i \in 0..n : f[i] \in Walks(E, L, among)
  BY DEF MadeOf
<1>2. ASSUME NEW u \in L[Depth]
      PROVE  \E k \in 0..Depth : \E x : Route(E, among, d, L, x, k) /\ x[k] = u
  <2> DEFINE K == {k \in 0..Depth : u \in L[k]}
  <2>1. K \in SUBSET Nat /\ Depth \in K
    BY <1>0
  <2>2. PICK k \in K : \A j \in K : k <= j
    BY <2>1, Least
  <2>3. k > 0 => u \notin L[k - 1]
    <3> SUFFICES ASSUME k > 0, u \in L[k - 1] PROVE FALSE
      OBVIOUS
    <3>1. k - 1 \in K /\ ~(k <= k - 1)
      BY <1>0
    <3> QED
      BY <2>2, <3>1
  <2>4. k \in 0..Depth /\ u \in L[k]
    OBVIOUS
  <2> QED
    BY <2>3, <2>4, RoutesExist
<1>3. ASSUME NEW k \in 0..Depth, NEW x, Route(E, among, d, L, x, k)
      PROVE  Sure(f[n], x, k)
  <2> DEFINE S == {i \in 0..n : Sure(f[i], x, k)}
  <2>1. 0 \in S
    <3>1. PICK p \in ToSet(Begun(t).queue) : Len(p.edges) = 0 /\ Len(p.nodes) = 1 /\ p.nodes[1] = t
      BY BegunIs
    <3>2. x[0] = t
      <4>1. x[0] \in L[0]
        BY <1>0, <1>3 DEF Route
      <4> QED
        BY <4>1 DEF Setting, Levels
    <3>3. CASE k = 0
      <4>1. p.nodes \in Seq(Endpoints)
        <5>1. p \in Paths(E, L, among)
          <6>1. Begun(t).queue \in Seq(Paths(E, L, among))
            BY BegunIs DEF Walks
          <6> QED
            BY <6>1, LenProperties DEF ToSet
        <5> QED
          BY <5>1 DEF Paths
      <4>2. t \in ToSet(p.nodes)
        BY <3>1, <4>1, LenProperties DEF ToSet
      <4> QED
        BY <1>1, <3>2, <3>3, <4>2 DEF Sure, Promises
    <3>4. CASE k # 0
      <4>1. 0 \in 0..(k - 1) /\ \A i \in 0..0 : i = 0
        BY <1>0, <3>4
      <4>2. Promises(p, x, k)
        BY <3>1, <3>2, <4>1 DEF Promises
      <4> QED
        BY <1>1, <4>2 DEF Sure
    <3> QED
      BY <3>3, <3>4
  <2>2. ASSUME NEW i \in 1..n, i - 1 \in S PROVE i \in S
    <3>1. i - 1 \in 0..n /\ i \in 0..n /\ Sure(f[i - 1], x, k)
          /\ f[i] = Goes(E, among, f[i - 1], d) /\ f[i - 1] \in Walks(E, L, among)
      BY <1>1, <2>2
    <3>2. CASE f[i] = f[i - 1]
      BY <3>1, <3>2
    <3>3. CASE f[i - 1].queue # <<>> /\ f[i] = WalkOn(E, among, f[i - 1], d)
      <4>1. Sure(WalkOn(E, among, f[i - 1], d), x, k)
        BY <1>3, <3>1, <3>3, StaysSure
      <4> QED
        BY <3>1, <3>3, <4>1
    <3> QED
      BY <3>1, <3>2, <3>3 DEF Goes
  <2> HIDE DEF S
  <2>3. \A i \in 0..n : i \in S
    BY <2>1, <2>2, Upwards
  <2> QED
    BY <2>3 DEF S
<1>4. ASSUME f[n].queue = <<>>, NEW u \in L[Depth]
      PROVE  \E p \in ToSet(f[n].paths) : u \in ToSet(p.nodes)
  <2>a. PICK k \in 0..Depth : \E x : Route(E, among, d, L, x, k) /\ x[k] = u
    BY <1>2
  <2>1. PICK x : Route(E, among, d, L, x, k) /\ x[k] = u
    BY <2>a
  <2>2. Sure(f[n], x, k)
    BY <1>3, <2>1
  <2>3. ToSet(f[n].queue) = {}
    BY <1>4, OneOrNone
  <2> QED
    BY <2>1, <2>2, <2>3 DEF Sure
<1>5. f[n] \in Walks(E, L, among)
  BY <1>1
<1> QED
  BY <1>1, <1>4, <1>5

\* The best of the paths.

\* A path stands before another that has a lower score, or was found after it.
RankBefore(paths, i, j) ==
    paths[i].score > paths[j].score \/ (paths[i].score = paths[j].score /\ i < j)

\* The positions of the paths in the order of their ranks.
RankOrder(paths) ==
    [n \in 1..Cardinality(DOMAIN paths) |->
        CHOOSE x \in DOMAIN paths :
            Cardinality({y \in DOMAIN paths : RankBefore(paths, y, x)}) = n - 1]

\* They are all in it once.
LEMMA RankOrderLists ==
    ASSUME NEW T, NEW paths \in Seq(T), \A i \in DOMAIN paths : paths[i].score \in Int
    PROVE  Lists(RankOrder(paths), DOMAIN paths) /\ Len(RankOrder(paths)) = Len(paths)
<1> PICK m \in Nat : m = Len(paths)
  BY LenProperties
<1> DEFINE S == 1..m
           R == {p \in S \X S : RankBefore(paths, p[1], p[2])}
<1>1. DOMAIN paths = S
  BY LenProperties
<1>2. IsFiniteSet(S) /\ Cardinality(S) = m
  <2>1. 1 \in Int /\ m \in Int /\ (1 > m => m = 0) /\ m - 1 + 1 = m
    OBVIOUS
  <2>2. IsFiniteSet(1..m) /\ Cardinality(1..m) = IF 1 > m THEN 0 ELSE m - 1 + 1
    BY ONLY <2>1, FS_Interval
  <2> QED
    BY <2>1, <2>2
<1>3. \A i \in S : i \in Int /\ paths[i].score \in Int
  BY <1>1
<1>4. TotalOrder(S, R)
  <2>1. \A x \in S : ~RankBefore(paths, x, x)
    BY <1>3 DEF RankBefore
  <2>2. \A x, y, z \in S : RankBefore(paths, x, y) /\ RankBefore(paths, y, z) => RankBefore(paths, x, z)
    BY <1>3 DEF RankBefore
  <2>3. \A x, y \in S : x # y => RankBefore(paths, x, y) \/ RankBefore(paths, y, x)
    BY <1>3 DEF RankBefore
  <2> QED
    BY <2>1, <2>2, <2>3 DEF TotalOrder
<1>5. \A x \in S : {y \in S : RankBefore(paths, y, x)} = Preceding(S, R, x)
  BY DEF Preceding
<1> PICK s : s = RankOrder(paths)
  OBVIOUS
<1>6. s = [n \in 1..Cardinality(S) |-> CHOOSE x \in S : Cardinality({y \in S : RankBefore(paths, y, x)}) = n - 1]
  BY <1>1 DEF RankOrder
<1> HIDE DEF R, S
<1>7. ASSUME NEW n \in 1..Cardinality(S)
      PROVE  s[n] \in S /\ Cardinality(Preceding(S, R, s[n])) = n - 1
  <2>1. \E x \in S : Cardinality(Preceding(S, R, x)) = n - 1
    BY <1>2, <1>4, RanksAreAll
  <2>2. \E x \in S : Cardinality({y \in S : RankBefore(paths, y, x)}) = n - 1
    BY <1>5, <2>1
  <2>3. s[n] = CHOOSE x \in S : Cardinality({y \in S : RankBefore(paths, y, x)}) = n - 1
    BY <1>6
  <2>4. s[n] \in S /\ Cardinality({y \in S : RankBefore(paths, y, s[n])}) = n - 1
    BY <2>2, <2>3
  <2> QED
    BY <1>5, <2>4
<1>8. Sorted(s, S, R)
  BY <1>6, <1>7 DEF Sorted
<1> QED
  BY <1>1, <1>2, <1>4, <1>8, SortedLists

\* Those that are given are paths that were found, and all of them if they are few.
LEMMA RankedTells ==
    ASSUME NEW E, NEW L, NEW among, NEW found \in Walks(E, L, among)
    PROVE  /\ \A i \in DOMAIN Ranked(found) : Ranked(found)[i] \in ToSet(found.paths)
           /\ Len(found.paths) <= MaxPaths =>
                \A p \in ToSet(found.paths) : \E i \in DOMAIN Ranked(found) : Ranked(found)[i] = p
<1> PICK paths : paths = found.paths
  OBVIOUS
<1>1. paths \in Seq(Ends(L))
  BY DEF Walks
<1>2. \A i \in DOMAIN paths : paths[i].score \in Int
  <2>1. \A e \in Ends(L) : e.score \in Int
    BY DEF Ends
  <2>2. \A i \in DOMAIN paths : paths[i] \in Ends(L)
    BY <1>1, LenProperties
  <2> QED
    BY <2>1, <2>2
<1> PICK order : order = RankOrder(paths)
  OBVIOUS
<1>3. Lists(order, DOMAIN paths) /\ Len(order) = Len(paths)
  BY <1>1, <1>2, RankOrderLists
<1> PICK r : r = Ranked(found)
  OBVIOUS
<1>4. r = [i \in 1..(IF Len(order) < MaxPaths THEN Len(order) ELSE MaxPaths) |-> paths[order[i]]]
  BY DEF Ranked, RankOrder, RankBefore, InOrder
<1> PICK m \in Nat : m = Len(paths) /\ DOMAIN paths = 1..m
  BY <1>1, LenProperties
<1>5. order \in Seq(1..m) /\ (\A x \in 1..m : \E n \in 1..m : order[n] = x)
      /\ \A n \in 1..m : order[n] \in 1..m
  <2>1. order \in Seq(1..m) /\ Len(order) = m /\ \A x \in 1..m : \E n \in 1..m : order[n] = x
    BY ZenonT(60), <1>3 DEF Lists
  <2>2. \A n \in 1..m : order[n] \in 1..m
    BY <2>1, ElementOfSeq
  <2> QED
    BY <2>1, <2>2
<1> DEFINE few == IF m < MaxPaths THEN m ELSE MaxPaths
<1>6. DOMAIN r = 1..few /\ \A i \in 1..few : r[i] = paths[order[i]]
  BY <1>3, <1>4
<1>7. MaxPaths \in Nat
  BY BehaviorAssumption
<1>8. \A i \in 1..few : i \in 1..m
  BY <1>7
<1> HIDE DEF few
<1>9. \A i \in 1..few : r[i] \in ToSet(paths)
  <2>1. \A x \in 1..m : paths[x] \in ToSet(paths)
    BY DEF ToSet
  <2>2. \A i \in 1..few : order[i] \in 1..m
    BY <1>5, <1>8
  <2> QED
    BY <1>6, <2>1, <2>2
<1>10. ASSUME m <= MaxPaths, NEW p \in ToSet(paths) PROVE \E i \in 1..few : r[i] = p
  <2>1. few = m
    BY <1>7, <1>10 DEF few
  <2>2. PICK x \in 1..m : paths[x] = p
    BY DEF ToSet
  <2>3. PICK i \in 1..m : order[i] = x
    BY <1>5
  <2> QED
    BY <1>6, <2>1, <2>2, <2>3
<1> QED
  BY <1>6, <1>9, <1>10

----------------------------------------
\* The chains of an explanation.

\* Levels depend on neighbours only.
LEMMA LevelsSame ==
    ASSUME NEW E, E \subseteq RawEdges, NEW F, F \subseteq RawEdges, NEW d \in Directions,
           \A t : Neighbours(E, t, d) = Neighbours(F, t, d),
           NEW f, NEW t, NEW n \in Nat, NEW Through, Levels(f, E, t, d, n, Through)
    PROVE  Levels(f, F, t, d, n, Through)
<1>1. ASSUME NEW S PROVE NeighboursOf(E, S, d) = NeighboursOf(F, S, d)
  <2>1. \A u : u \in NeighboursOf(E, S, d) <=> \E s \in S : u \in Neighbours(E, s, d)
    BY NeighboursOfAreTags
  <2>2. \A u : u \in NeighboursOf(F, S, d) <=> \E s \in S : u \in Neighbours(F, s, d)
    BY NeighboursOfAreTags
  <2>3. \A u : u \in NeighboursOf(E, S, d) <=> u \in NeighboursOf(F, S, d)
    BY <2>1, <2>2
  <2> QED
    BY <2>3
<1> QED
  BY <1>1 DEF Levels

\* The tags of chains.
LEMMA TagsOfAre ==
    ASSUME NEW chains, NEW t
    PROVE  \A u : u \in TagsOf(chains, t) <=>
                u # t /\ \E i \in DOMAIN chains : u \in ToSet(chains[i].nodes)
BY DEF TagsOf

\* What is asked of the graphs of the service and of the explanation.
LEMMA ChainsAreCauses ==
    ASSUME NEW raw, Built(raw), loaded \in Seq(RowTags)
    PROVE  ChainsTellTheCauses
<1>0. Depth \in Nat /\ RowTags \subseteq Endpoints
  BY BehaviorAssumption
<1>1. /\ AsExplicit(WhyGraph) = AsExplicit(edges)
      /\ edges \subseteq RawEdges /\ IsFiniteSet(edges)
      /\ WhyGraph \subseteq RawEdges /\ IsFiniteSet(WhyGraph)
      /\ \A e, f \in WhyGraph : Key(e) = Key(f) => e = f
      /\ \A t : \A d \in Directions : Neighbours(WhyGraph, t, d) = Neighbours(edges, t, d)
  BY WhyGraphTells
<1> PICK among : among = ToSet(loaded)
  OBVIOUS
<1>2. among \subseteq RowTags
  BY LenProperties DEF ToSet
<1> PICK W : W = WhyGraph
  OBVIOUS
<1>3. ASSUME NEW t \in among, NEW d \in Directions
      PROVE  LET found == WalkFrom(W, among, t, d)
                 chain == Chain(edges, t, d)
                 named == TagsOf(Ranked(found), t) IN
             /\ ToSet(chain) = Reached(t, d, Depth, Endpoints) \ {t}
             /\ Cardinality(ToSet(chain)) = Len(chain)
             /\ named \subseteq ToSet(chain)
             /\ found.queue = <<>> /\ Len(found.paths) <= MaxPaths =>
                    named = Reached(t, d, Depth, among) \ {t}
  <2>0. t \in Endpoints
    BY <1>0, <1>2
  <2> PICK chain : chain = Chain(edges, t, d)
    OBVIOUS
  <2> PICK found : found = WalkFrom(W, among, t, d)
    OBVIOUS
  <2> PICK named : named = TagsOf(Ranked(found), t)
    OBVIOUS
  <2>1. Lists(chain, Reached(t, d, Depth, Endpoints) \ {t})
    BY <1>1, <2>0, ChainTells
  <2>2. ToSet(chain) = Reached(t, d, Depth, Endpoints) \ {t} /\ Cardinality(ToSet(chain)) = Len(chain)
    BY <2>1, ListsCount
  <2>3. PICK L : /\ Levels(L, edges, t, d, Depth, among) /\ Reached(t, d, Depth, among) = L[Depth]
                 /\ \A i \in 0..Depth : L[i] \in SUBSET Endpoints
    BY <1>0, <1>1, <2>0, ReachedLevels
  <2>4. PICK H : /\ Levels(H, edges, t, d, Depth, Endpoints) /\ Reached(t, d, Depth, Endpoints) = H[Depth]
                 /\ \A i \in 0..Depth : H[i] \in SUBSET Endpoints
    BY <1>0, <1>1, <2>0, ReachedLevels
  <2>5. L[Depth] \subseteq H[Depth]
    <3>1. \A i \in 0..Depth : L[i] \subseteq H[i]
      BY <1>0, <1>1, <1>2, <2>3, <2>4, LevelsCompare
    <3> QED
      BY <1>0, <3>1
  <2>6. Setting(W, among, t, d, L)
    <3>1. Levels(L, W, t, d, Depth, among)
      BY <1>0, <1>1, <2>3, LevelsSame
    <3> QED
      BY <1>0, <1>1, <1>2, <2>3, <3>1 DEF Setting
  <2>7. /\ found \in Walks(W, L, among)
        /\ found.queue = <<>> => \A u \in L[Depth] : \E p \in ToSet(found.paths) : u \in ToSet(p.nodes)
    BY <2>6, WalkReaches
  <2>8. /\ \A i \in DOMAIN Ranked(found) : Ranked(found)[i] \in ToSet(found.paths)
        /\ Len(found.paths) <= MaxPaths =>
             \A p \in ToSet(found.paths) : \E i \in DOMAIN Ranked(found) : Ranked(found)[i] = p
    BY ONLY <2>7, RankedTells
  <2>9. \A u : u \in named <=> u # t /\ \E i \in DOMAIN Ranked(found) : u \in ToSet(Ranked(found)[i].nodes)
    BY TagsOfAre
  <2>10. \A p \in ToSet(found.paths) : ToSet(p.nodes) \subseteq L[Depth]
    <3>1. found.paths \in Seq(Ends(L))
      BY <2>7 DEF Walks
    <3>2. \A p \in Ends(L) : p.nodes \in Seq(L[Depth])
      BY DEF Ends
    <3>3. \A p \in ToSet(found.paths) : p \in Ends(L)
      BY <3>1, LenProperties DEF ToSet
    <3>4. \A T : \A s \in Seq(T) : ToSet(s) \subseteq T
      BY LenProperties DEF ToSet
    <3> QED
      BY <3>2, <3>3, <3>4
  <2>11. named \subseteq L[Depth] \ {t}
    BY <2>8, <2>9, <2>10
  <2>12. named \subseteq ToSet(chain)
    BY <2>2, <2>4, <2>5, <2>11
  <2>13. ASSUME found.queue = <<>>, Len(found.paths) <= MaxPaths
         PROVE  named = L[Depth] \ {t}
    <3>1. \A u \in L[Depth] \ {t} : u \in named
      BY <2>7, <2>8, <2>9, <2>13
    <3> QED
      BY <2>11, <3>1
  <2> QED
    BY <2>2, <2>3, <2>12, <2>13
<1> QED
  BY <1>1, <1>3 DEF ChainsTellTheCauses

----------------------------------------
\* The cache of explanations.  What an answer says, but for the unit of
\* its value, can be told from its key alone; so that an answer with the
\* key of now is the one of now, where the tag selects one row.

\* What the records of a key say of the graph.
RelationsIn(records) == UNION {r.relations : r \in records}
TagsIn(records) == {r.tag : r \in records}
GraphOf(key) == Build(AsExplicit(key[3]) \cup RelationsIn(key[2]))

\* The fields of a row.
AreFields(x) == x = [f \in Shown |-> x[f]]

\* An answer is told by its key.
Explains(entry) ==
    LET records == entry.key[2]
        kept == entry.answer IN
    \/ kept = [about |-> None] /\ \A r \in records : Norm[r.tag] # entry.key[1]
    \/ \E r \in records, fields \in {kept.fields} :
        /\ Norm[r.tag] = entry.key[1] /\ r.tag # None
        /\ AreFields(fields) /\ fields["value"] = r.value
        /\ kept = [about |-> r.tag, fields |-> fields, summary |-> r.summary,
                   up |-> Ranked(WalkFrom(GraphOf(entry.key), TagsIn(records), r.tag, "upstream")),
                   down |-> Ranked(WalkFrom(GraphOf(entry.key), TagsIn(records), r.tag, "downstream"))]

\* What the rows are like.
RowsInv ==
    /\ loaded \in Seq(RowTags)
    /\ \A e \in relations : RowOf(e) \in ToSet(loaded)
    /\ \A t \in ToSet(loaded) :
        /\ AreFields(runtime[t])
        /\ card[t] = CardOf(edges, runtime[t], t)

\* A card has the fields it was made of.
LEMMA CardHasFields == \A E, fields, t : CardOf(E, fields, t).fields = fields
BY DEF CardOf

\* The record of a row in a signature.
Record(u) ==
    [tag |-> u, relations |-> RelationsOf({u}), summary |-> card[u].summary,
     value |-> card[u].fields["value"]]

\* A record by its parts.
LEMMA RecordIs ==
    \A u : /\ Record(u).tag = u /\ Record(u).relations = RelationsOf({u})
           /\ Record(u).summary = card[u].summary /\ Record(u).value = card[u].fields["value"]
BY DEF Record

\* What a signature is made of.
LEMMA SignatureIs ==
    ASSUME NEW t
    PROVE  /\ Signature(t)[1] = Norm[t] /\ Signature(t)[3] = edges
           /\ \A r : r \in Signature(t)[2] <=> \E u \in ToSet(loaded) : r = Record(u)
<1> PICK S : S = {[tag |-> u, relations |-> RelationsOf({u}), summary |-> card[u].summary,
                   value |-> card[u].fields["value"]] : u \in ToSet(loaded)}
  OBVIOUS
<1>1. Signature(t) = <<Norm[t], S, edges>>
  BY DEF Signature
<1>2. \A r : r \in S <=> \E u \in ToSet(loaded) : r = Record(u)
  BY DEF Record
<1> HIDE DEF Record
<1> QED
  BY ONLY <1>1, <1>2

\* The graph that a key tells is that of the explanation.
LEMMA KeyTellsGraph ==
    ASSUME RowsInv, NEW t
    PROVE  GraphOf(Signature(t)) = WhyGraph /\ TagsIn(Signature(t)[2]) = ToSet(loaded)
<1> PICK records : records = Signature(t)[2]
  OBVIOUS
<1>1. \A r : r \in records <=> \E u \in ToSet(loaded) : r = Record(u)
  BY SignatureIs
<1>2. \A u : u \in TagsIn(records) <=> u \in ToSet(loaded)
  BY <1>1, RecordIs DEF TagsIn
<1>3. \A e : e \in RelationsIn(records) <=> \E r \in records : e \in r.relations
  BY DEF RelationsIn
<1>4. \A e : e \in RelationsIn(records) <=> e \in relations
  <2>1. \A e, u : e \in RelationsOf({u}) <=> e \in relations /\ RowOf(e) = u
    BY DEF RelationsOf
  <2>2. \A e \in relations : RowOf(e) \in ToSet(loaded)
    BY DEF RowsInv
  <2>3. ASSUME NEW e \in RelationsIn(records) PROVE e \in relations
    <3> PICK r \in records : e \in r.relations
      BY <1>3
    <3> PICK u \in ToSet(loaded) : r = Record(u)
      BY <1>1
    <3> QED
      BY <2>1, RecordIs
  <2>4. ASSUME NEW e \in relations PROVE e \in RelationsIn(records)
    <3> PICK u \in ToSet(loaded) : u = RowOf(e)
      BY <2>2
    <3>1. Record(u) \in records
      BY ONLY <1>1, u \in ToSet(loaded)
    <3>2. e \in RelationsOf({u}) /\ Record(u).relations = RelationsOf({u})
      BY <2>1, RecordIs
    <3> QED
      BY <1>3, <3>1, <3>2
  <2> QED
    BY <2>3, <2>4
<1>5. RelationsIn(records) = relations
  BY <1>4
<1>6. TagsIn(records) = ToSet(loaded)
  BY <1>2
<1>7. Signature(t)[3] = edges
  BY SignatureIs
<1>8. GraphOf(Signature(t)) = Build(AsExplicit(edges) \cup relations)
  BY <1>5, <1>7 DEF GraphOf
<1> QED
  BY <1>6, <1>8 DEF WhyGraph

\* The row that a tag selects.
LEMMA SelectedIs ==
    ASSUME loaded \in Seq(RowTags), NEW t
    PROVE  \/ Selected(t) = None /\ \A u \in ToSet(loaded) : Norm[u] # Norm[t]
           \/ Selected(t) \in ToSet(loaded) /\ Norm[Selected(t)] = Norm[t] /\ Selected(t) # None
<1> PICK n \in Nat : n = Len(loaded) /\ DOMAIN loaded = 1..n
  BY LenProperties
<1>1. \A i \in 1..n : loaded[i] \in RowTags
  BY LenProperties
<1>2. ToSet(loaded) = {loaded[i] : i \in 1..n}
  BY DEF ToSet
<1> PICK S : S = Alike(t)
  OBVIOUS
<1>3. \A i : i \in S <=> i \in 1..n /\ Norm[loaded[i]] = Norm[t]
  BY DEF Alike
<1>4. CASE S = {}
  BY <1>2, <1>3, <1>4 DEF Selected
<1>5. CASE S # {}
  <2>1. S \in SUBSET Nat
    BY <1>3
  <2>2. \E i \in S : \A j \in S : i <= j
    BY <1>5, <2>1, Least
  <2> PICK k : k = CHOOSE i \in S : \A j \in S : i <= j
    OBVIOUS
  <2>3. k \in S
    BY <2>2
  <2>4. Selected(t) = loaded[k]
    BY <1>5 DEF Selected
  <2> QED
    BY ZenonT(60), <1>1, <1>2, <1>3, <2>3, <2>4, BehaviorAssumption
<1> QED
  BY <1>4, <1>5

\* An answer in its cases.
LEMMA AnswerIs ==
    ASSUME NEW t
    PROVE  /\ Selected(t) = None => Answer(t) = [about |-> None]
           /\ Selected(t) # None =>
                Answer(t) =
                    [about |-> Selected(t), fields |-> card[Selected(t)].fields,
                     summary |-> card[Selected(t)].summary,
                     up |-> Ranked(WalkFrom(WhyGraph, ToSet(loaded), Selected(t), "upstream")),
                     down |-> Ranked(WalkFrom(WhyGraph, ToSet(loaded), Selected(t), "downstream"))]
BY DEF Answer

\* A new entry is told by its key.
LEMMA NewExplains ==
    ASSUME RowsInv, NEW t
    PROVE  Explains([key |-> Signature(t), answer |-> Answer(t)])
<1> PICK key : key = Signature(t)
  OBVIOUS
<1> PICK now : now = Answer(t)
  OBVIOUS
<1> PICK entry : entry = [key |-> key, answer |-> now]
  OBVIOUS
<1>1. entry.key = key /\ entry.answer = now
  OBVIOUS
<1>2. /\ key[1] = Norm[t] /\ key[3] = edges
      /\ \A r : r \in key[2] <=> \E u \in ToSet(loaded) : r = Record(u)
  BY SignatureIs
<1>3. GraphOf(key) = WhyGraph /\ TagsIn(key[2]) = ToSet(loaded)
  BY KeyTellsGraph
<1>4. loaded \in Seq(RowTags)
  BY DEF RowsInv
<1>5. CASE Selected(t) = None
  <2>1. now = [about |-> None]
    BY <1>5, AnswerIs
  <2>2. \A u \in ToSet(loaded) : Norm[u] # Norm[t]
    BY <1>4, <1>5, SelectedIs
  <2>3. \A r \in key[2] : Norm[r.tag] # key[1]
    BY <1>2, <2>2, RecordIs
  <2>4. Explains(entry)
    BY <1>1, <2>1, <2>3 DEF Explains
  <2> QED
    BY <2>4
<1>6. CASE Selected(t) # None
  <2> PICK s : s = Selected(t)
    OBVIOUS
  <2>1. s \in ToSet(loaded) /\ Norm[s] = Norm[t] /\ s # None
    BY <1>4, <1>6, SelectedIs
  <2> PICK up : up = Ranked(WalkFrom(WhyGraph, ToSet(loaded), s, "upstream"))
    OBVIOUS
  <2> PICK down : down = Ranked(WalkFrom(WhyGraph, ToSet(loaded), s, "downstream"))
    OBVIOUS
  <2>2. now = [about |-> s, fields |-> card[s].fields, summary |-> card[s].summary,
               up |-> up, down |-> down]
    BY <1>6, AnswerIs
  <2> PICK r : r = Record(s)
    OBVIOUS
  <2>3. r \in key[2] /\ r.tag = s /\ r.summary = card[s].summary /\ r.value = card[s].fields["value"]
    BY <1>2, <2>1, RecordIs
  <2>4. card[s].fields = runtime[s] /\ AreFields(runtime[s])
    BY <2>1, CardHasFields DEF RowsInv
  <2> PICK fields : fields = card[s].fields
    OBVIOUS
  <2>5. AreFields(fields) /\ fields["value"] = r.value /\ now.fields = fields
    BY <2>2, <2>3, <2>4
  <2>6. /\ Norm[r.tag] = key[1] /\ r.tag # None
        /\ now = [about |-> r.tag, fields |-> fields, summary |-> r.summary,
                  up |-> Ranked(WalkFrom(GraphOf(key), TagsIn(key[2]), r.tag, "upstream")),
                  down |-> Ranked(WalkFrom(GraphOf(key), TagsIn(key[2]), r.tag, "downstream"))]
    BY <1>2, <1>3, <2>1, <2>2, <2>3
  <2>8. \E q \in key[2], shown \in {now.fields} :
            /\ Norm[q.tag] = key[1] /\ q.tag # None
            /\ AreFields(shown) /\ shown["value"] = q.value
            /\ now = [about |-> q.tag, fields |-> shown, summary |-> q.summary,
                      up |-> Ranked(WalkFrom(GraphOf(key), TagsIn(key[2]), q.tag, "upstream")),
                      down |-> Ranked(WalkFrom(GraphOf(key), TagsIn(key[2]), q.tag, "downstream"))]
    <3>1. r \in key[2] /\ fields \in {now.fields}
      BY <2>3, <2>5
    <3> QED
      BY ONLY <2>5, <2>6, <3>1
  <2>7. Explains(entry)
    BY <1>1, <2>8 DEF Explains
  <2> QED
    BY <2>7
<1> QED
  BY <1>5, <1>6

\* An entry with the key of now has the answer of now.
LEMMA ExplainsNow ==
    ASSUME RowsInv, \A t, u \in ToSet(loaded) : Norm[t] = Norm[u] => t = u,
           NEW t, NEW entry, Explains(entry), entry.key = Signature(t)
    PROVE  LET kept == entry.answer
               now == Answer(t) IN
           IF kept.about = None THEN now = kept
           ELSE [kept EXCEPT !.fields["unit"] = None] = [now EXCEPT !.fields["unit"] = None]
<1> PICK key : key = entry.key
  OBVIOUS
<1> PICK kept : kept = entry.answer
  OBVIOUS
<1> PICK now : now = Answer(t)
  OBVIOUS
<1>2. /\ key[1] = Norm[t] /\ key[3] = edges
      /\ \A r : r \in key[2] <=> \E u \in ToSet(loaded) : r = Record(u)
  BY SignatureIs
<1>3. GraphOf(key) = WhyGraph /\ TagsIn(key[2]) = ToSet(loaded)
  BY KeyTellsGraph
<1>4. loaded \in Seq(RowTags)
  BY DEF RowsInv
<1>5. CASE kept = [about |-> None] /\ \A r \in key[2] : Norm[r.tag] # key[1]
  <2>1. \A u \in ToSet(loaded) : Norm[u] # Norm[t]
    BY <1>2, <1>5, RecordIs
  <2>2. Selected(t) = None
    BY <1>4, <2>1, SelectedIs
  <2>3. now = kept
    BY <1>5, <2>2, AnswerIs
  <2> QED
    BY <1>5, <2>3
<1>6. ASSUME NEW r \in key[2], NEW fields,
             /\ Norm[r.tag] = key[1] /\ r.tag # None
             /\ AreFields(fields) /\ fields["value"] = r.value
             /\ kept = [about |-> r.tag, fields |-> fields, summary |-> r.summary,
                        up |-> Ranked(WalkFrom(GraphOf(key), TagsIn(key[2]), r.tag, "upstream")),
                        down |-> Ranked(WalkFrom(GraphOf(key), TagsIn(key[2]), r.tag, "downstream"))]
      PROVE  /\ kept.about # None
             /\ [kept EXCEPT !.fields["unit"] = None] = [now EXCEPT !.fields["unit"] = None]
  <2> PICK s : s = Selected(t)
    OBVIOUS
  <2>1. PICK u \in ToSet(loaded) : r = Record(u)
    BY <1>2
  <2>2. u = r.tag /\ Norm[u] = Norm[t]
    BY <1>2, <1>6, <2>1, RecordIs
  <2>3. s \in ToSet(loaded) /\ Norm[s] = Norm[t] /\ s # None
    BY <1>4, <2>2, SelectedIs
  <2>4. s = u
    BY <2>2, <2>3
  <2> PICK up : up = Ranked(WalkFrom(WhyGraph, ToSet(loaded), s, "upstream"))
    OBVIOUS
  <2> PICK down : down = Ranked(WalkFrom(WhyGraph, ToSet(loaded), s, "downstream"))
    OBVIOUS
  <2> PICK summary : summary = card[s].summary
    OBVIOUS
  <2> PICK shown : shown = card[s].fields
    OBVIOUS
  <2>5. now = [about |-> s, fields |-> shown, summary |-> summary, up |-> up, down |-> down]
    BY <2>3, AnswerIs
  <2>6. kept = [about |-> s, fields |-> fields, summary |-> summary, up |-> up, down |-> down]
    BY <1>3, <1>6, <2>1, <2>2, <2>4, RecordIs
  <2>7. shown = runtime[s] /\ AreFields(runtime[s])
    BY <2>3, CardHasFields DEF RowsInv
  <2>8. AreFields(shown) /\ AreFields(fields)
    BY <1>6, <2>7
  <2>9. fields["value"] = shown["value"]
    BY <1>6, <2>1, <2>4, RecordIs
  <2>10. [fields EXCEPT !["unit"] = None] = [shown EXCEPT !["unit"] = None]
    <3>1. [fields EXCEPT !["unit"] = None] = [f \in Shown |-> IF f = "unit" THEN None ELSE fields[f]]
      BY <2>8 DEF AreFields
    <3>2. [shown EXCEPT !["unit"] = None] = [f \in Shown |-> IF f = "unit" THEN None ELSE shown[f]]
      BY <2>8 DEF AreFields
    <3>3. \A f \in Shown : (IF f = "unit" THEN None ELSE fields[f]) = IF f = "unit" THEN None ELSE shown[f]
      BY <2>9 DEF Shown
    <3> QED
      BY <3>1, <3>2, <3>3
  <2>11. [kept EXCEPT !.fields["unit"] = None] =
            [about |-> s, fields |-> [fields EXCEPT !["unit"] = None], summary |-> summary,
             up |-> up, down |-> down]
    BY <2>6
  <2>12. [now EXCEPT !.fields["unit"] = None] =
            [about |-> s, fields |-> [shown EXCEPT !["unit"] = None], summary |-> summary,
             up |-> up, down |-> down]
    BY <2>5
  <2>13. kept.about = s
    BY <2>6
  <2>14. [kept EXCEPT !.fields["unit"] = None] = [now EXCEPT !.fields["unit"] = None]
    BY ONLY <2>10, <2>11, <2>12
  <2> QED
    BY <2>3, <2>13, <2>14
<1>7. \/ kept = [about |-> None] /\ \A r \in key[2] : Norm[r.tag] # key[1]
      \/ \E r \in key[2], fields \in {kept.fields} :
            /\ Norm[r.tag] = key[1] /\ r.tag # None
            /\ AreFields(fields) /\ fields["value"] = r.value
            /\ kept = [about |-> r.tag, fields |-> fields, summary |-> r.summary,
                       up |-> Ranked(WalkFrom(GraphOf(key), TagsIn(key[2]), r.tag, "upstream")),
                       down |-> Ranked(WalkFrom(GraphOf(key), TagsIn(key[2]), r.tag, "downstream"))]
  BY DEF Explains
<1> QED
  BY <1>5, <1>6, <1>7

\* Whatever is parsed, loaded, updated and asked.

\* The edges are built of explicit ones and of the relations of the rows, the rows are as they
\* would be computed, and every answer is told by its key.
BehaviorInv ==
    /\ documents \in SUBSET Drawn /\ IsFiniteSet(documents)
    /\ \E raw : Built(raw)
    /\ RowsInv
    /\ runtime = [t \in ToSet(loaded) |-> runtime[t]]
    /\ \E T : cache \in Seq(T) /\ \A e \in T : Explains(e)

\* Every shortcut is covered.
LEMMA ShortcutsFollow ==
    ASSUME BehaviorInv
    PROVE  RowsAreComputed /\ CachedAnswersAreCurrent /\ ChainsTellTheCauses
<1>1. RowsAreComputed
  BY DEF BehaviorInv, RowsInv, RowsAreComputed
<1>2. ChainsTellTheCauses
  BY ChainsAreCauses DEF BehaviorInv, RowsInv
<1>3. CachedAnswersAreCurrent
  <2> SUFFICES ASSUME \A t, u \in ToSet(loaded) : Norm[t] = Norm[u] => t = u,
                      NEW t \in Asked, NEW i \in DOMAIN cache, cache[i].key = Signature(t)
               PROVE  IF cache[i].answer.about = None THEN Answer(t) = cache[i].answer
                      ELSE [cache[i].answer EXCEPT !.fields["unit"] = None]
                            = [Answer(t) EXCEPT !.fields["unit"] = None]
    BY DEF CachedAnswersAreCurrent
  <2>1. PICK T : cache \in Seq(T) /\ \A e \in T : Explains(e)
    BY DEF BehaviorInv
  <2> PICK entry : entry = cache[i]
    OBVIOUS
  <2>2. Explains(entry)
    BY <2>1, LenProperties
  <2> QED
    BY <2>2, ExplainsNow DEF BehaviorInv
<1> QED
  BY <1>1, <1>2, <1>3

\* Nothing is loaded where the service starts.
LEMMA BehaviorStarts == BehaviorInit => BehaviorInv
<1> SUFFICES ASSUME BehaviorInit PROVE BehaviorInv
  OBVIOUS
<1>1. /\ documents = {} /\ loaded = <<>> /\ relations = {} /\ edges = {} /\ runtime = <<>>
      /\ cache = <<>>
  BY DEF BehaviorInit
<1>2. IsFiniteSet({})
  BY FS_EmptySet
<1>3. Built({})
  BY <1>1, <1>2 DEF Built, Build
<1>4. ToSet(loaded) = {} /\ loaded \in Seq(RowTags) /\ cache \in Seq({})
  BY <1>1, OneOrNone
<1>5. runtime = [t \in ToSet(loaded) |-> runtime[t]]
  BY <1>1, <1>4
<1>6. RowsInv
  BY <1>1, <1>4 DEF RowsInv
<1> QED
  BY <1>1, <1>2, <1>3, <1>4, <1>5, <1>6 DEF BehaviorInv

\* What does not change stays.
LEMMA BehaviorStands ==
    ASSUME BehaviorInv, UNCHANGED <<loaded, relations, edges, runtime, card>>
    PROVE  /\ (\E raw : Built(raw))' /\ RowsInv'
           /\ runtime' = [t \in ToSet(loaded') |-> runtime'[t]]
<1>1. PICK raw : Built(raw)
  BY DEF BehaviorInv
<1>2. Built(raw)'
  BY <1>1 DEF Built
<1>3. RowsInv'
  BY DEF BehaviorInv, RowsInv
<1> QED
  BY <1>2, <1>3 DEF BehaviorInv

\* A document that is parsed keeps it so.
LEMMA DocumentKeeps ==
    ASSUME BehaviorInv, NEW e \in Drawn, Document(e) PROVE BehaviorInv'
<1>1. documents' = documents \cup {e} /\ UNCHANGED <<loaded, relations, edges, runtime, card>>
      /\ cache' = cache
  BY DEF Document
<1>2. documents' \in SUBSET Drawn
  BY <1>1 DEF BehaviorInv
<1>3. IsFiniteSet(documents')
  <2>1. IsFiniteSet(documents)
    BY DEF BehaviorInv
  <2>2. IsFiniteSet(documents \cup {e})
    BY ONLY <2>1, FS_AddElement
  <2> QED
    BY <1>1, <2>2
<1>4. (\E raw : Built(raw))' /\ RowsInv' /\ runtime' = [t \in ToSet(loaded') |-> runtime'[t]]
  BY <1>1, BehaviorStands
<1>5. \E T : cache' \in Seq(T) /\ \A x \in T : Explains(x)
  BY <1>1 DEF BehaviorInv
<1> QED
  BY <1>2, <1>3, <1>4, <1>5 DEF BehaviorInv

\* So does a load of the rows.
LEMMA LoadKeeps ==
    ASSUME BehaviorInv, NEW order \in LoadOrders, LoadRows(order) PROVE BehaviorInv'
<1>1. /\ loaded' = order
      /\ relations' = {e \in documents : e.inferred /\ RowOf(e) \in ToSet(order)}
      /\ edges' = Build({e \in documents : ~e.inferred} \cup relations')
      /\ runtime' = [t \in ToSet(order) |-> Blank]
      /\ card' = [t \in ToSet(order) |-> CardOf(edges', Blank, t)]
      /\ documents' = documents /\ cache' = cache
  BY DEF LoadRows
<1>2. order \in Seq(RowTags)
  BY BehaviorAssumption
<1> PICK raw : raw = {e \in documents : ~e.inferred} \cup relations'
  OBVIOUS
<1>3. raw \subseteq documents
  BY <1>1
<1>4. documents \subseteq Known
  BY BehaviorAssumption DEF Known, BehaviorInv
<1>5. IsFiniteSet(raw)
  BY <1>3, FS_Subset DEF BehaviorInv
<1>6. \A e \in documents : e.inferred \in BOOLEAN
  BY <1>4 DEF Known, RawEdges
<1>7. relations' = {e \in raw : e.inferred}
  <2>1. \A e \in relations' : e \in raw /\ e.inferred
    BY <1>1
  <2>2. \A e \in raw : e.inferred => e \in relations'
    BY <1>1
  <2> QED
    BY <2>1, <2>2
<1>8. Built(raw)'
  BY <1>1, <1>3, <1>4, <1>5, <1>7 DEF Built
<1>9. RowsInv'
  <2>1. \A e \in relations' : RowOf(e) \in ToSet(loaded')
    BY <1>1
  <2>2. AreFields(Blank)
    BY DEF Blank, AreFields
  <2>3. \A t \in ToSet(loaded') : AreFields(runtime'[t]) /\ card'[t] = CardOf(edges', runtime'[t], t)
    BY <1>1, <2>2
  <2> QED
    BY <1>1, <1>2, <2>1, <2>3 DEF RowsInv
<1>10. runtime' = [t \in ToSet(loaded') |-> runtime'[t]]
  BY <1>1
<1>11. \E T : cache' \in Seq(T) /\ \A x \in T : Explains(x)
  BY <1>1 DEF BehaviorInv
<1> QED
  BY <1>1, <1>8, <1>9, <1>10, <1>11 DEF BehaviorInv

\* So does an update, after which the rows around it are computed again.
LEMMA UpdateKeeps ==
    ASSUME BehaviorInv, NEW t, NEW patch, NEW radius \in 0..2, UpdateRuntime(t, patch, radius)
    PROVE  BehaviorInv'
<1> PICK row : row = Resolve(t)
  OBVIOUS
<1>1. /\ row # None
      /\ runtime' = [runtime EXCEPT ![row] = Patched(runtime[row], patch)]
      /\ card' = [u \in ToSet(loaded) |->
            IF u \in Within({row}, radius) THEN CardOf(edges, runtime'[u], u) ELSE card[u]]
      /\ loaded' = loaded /\ relations' = relations /\ edges' = edges
      /\ documents' = documents /\ cache' = cache
  BY DEF UpdateRuntime
<1>2. loaded \in Seq(RowTags) /\ ToSet(loaded) \subseteq RowTags
  BY LenProperties DEF BehaviorInv, RowsInv, ToSet
<1>3. row \in ToSet(loaded)
  BY <1>1, <1>2, SelectedIs DEF Resolve
<1>4. row \in Within({row}, radius)
  <2>1. PICK raw : Built(raw)
    BY DEF BehaviorInv
  <2>2. edges \subseteq RawEdges
    BY <2>1, WhyGraphTells
  <2>3. row \in Endpoints
    BY <1>2, <1>3, BehaviorAssumption
  <2> QED
    BY <2>2, <2>3, WithinHasItself
<1>5. runtime' = [u \in ToSet(loaded) |-> IF u = row THEN Patched(runtime[row], patch) ELSE runtime[u]]
  BY <1>1, <1>3 DEF BehaviorInv
<1>6. AreFields(Patched(runtime[row], patch))
  BY DEF Patched, AreFields
<1>7. ASSUME NEW u \in ToSet(loaded)
      PROVE  AreFields(runtime'[u]) /\ card'[u] = CardOf(edges, runtime'[u], u)
  <2>1. AreFields(runtime[u]) /\ card[u] = CardOf(edges, runtime[u], u)
    BY DEF BehaviorInv, RowsInv
  <2>2. CASE u \in Within({row}, radius)
    BY <1>1, <1>5, <1>6, <2>1, <2>2
  <2>3. CASE u \notin Within({row}, radius)
    BY <1>1, <1>4, <1>5, <2>1, <2>3
  <2> QED
    BY <2>2, <2>3
<1>8. RowsInv'
  BY <1>1, <1>7 DEF BehaviorInv, RowsInv, RowOf
<1>9. (\E raw : Built(raw))'
  <2>1. PICK raw : Built(raw)
    BY DEF BehaviorInv
  <2>2. Built(raw)'
    BY <1>1, <2>1 DEF Built
  <2> QED
    BY <2>2
<1>10. runtime' = [u \in ToSet(loaded') |-> runtime'[u]]
  BY <1>1, <1>5
<1>11. \E T : cache' \in Seq(T) /\ \A x \in T : Explains(x)
  BY <1>1 DEF BehaviorInv
<1> QED
  BY <1>1, <1>8, <1>9, <1>10, <1>11 DEF BehaviorInv

\* So does an explanation.
LEMMA ExplainKeeps ==
    ASSUME BehaviorInv, NEW t, Explain(t) PROVE BehaviorInv'
<1> PICK new : new = [key |-> Signature(t), answer |-> Answer(t)]
  OBVIOUS
<1> PICK kept : kept = Append(cache, new)
  OBVIOUS
<1>1. /\ cache' = IF Len(kept) > CacheSize THEN Tail(kept) ELSE kept
      /\ documents' = documents /\ UNCHANGED <<loaded, relations, edges, runtime, card>>
  BY DEF Explain
<1>2. Explains(new)
  BY NewExplains DEF BehaviorInv
<1>3. PICK T : cache \in Seq(T) /\ \A e \in T : Explains(e)
  BY DEF BehaviorInv
<1> PICK S : S = T \cup {new}
  OBVIOUS
<1>4. cache \in Seq(S) /\ new \in S /\ \A e \in S : Explains(e)
  BY <1>2, <1>3
<1>5. kept \in Seq(S) /\ kept # <<>>
  BY ONLY <1>4, kept = Append(cache, new), AppendProperties
<1>6. Tail(kept) \in Seq(S)
  BY ONLY <1>5, HeadTailProperties
<1>7. \E U : cache' \in Seq(U) /\ \A x \in U : Explains(x)
  BY <1>1, <1>4, <1>5, <1>6
<1>8. (\E raw : Built(raw))' /\ RowsInv' /\ runtime' = [u \in ToSet(loaded') |-> runtime'[u]]
  BY <1>1, BehaviorStands
<1> QED
  BY <1>1, <1>7, <1>8 DEF BehaviorInv

\* Every step keeps it so.
LEMMA BehaviorKeeps == BehaviorInv /\ [BehaviorNext]_behaviorVars => BehaviorInv'
<1> SUFFICES ASSUME BehaviorInv, [BehaviorNext]_behaviorVars PROVE BehaviorInv'
  OBVIOUS
<1>1. CASE BehaviorNext
  BY <1>1, DocumentKeeps, LoadKeeps, UpdateKeeps, ExplainKeeps DEF BehaviorNext
<1>2. CASE UNCHANGED behaviorVars
  <2>1. documents' = documents /\ cache' = cache
        /\ UNCHANGED <<loaded, relations, edges, runtime, card>>
    BY <1>2 DEF behaviorVars
  <2> QED
    BY <2>1, BehaviorStands DEF BehaviorInv
<1> QED
  BY <1>1, <1>2

\* Whatever is parsed, loaded, updated and asked: rows that were not computed again are as if
\* they were, cached answers are those of now but for units (update_runtime_values,
\* explain_why), and the chains of an explanation, found by a walk of another graph
\* (why_chain_resolver.py, _walk_and_rank), name causes and effects of the row, and all of them
\* that can be reached through rows unless paths were left out.
THEOREM BehaviorShortcuts ==
    BehaviorSpec => [](RowsAreComputed /\ CachedAnswersAreCurrent /\ ChainsTellTheCauses)
BY BehaviorStarts, BehaviorKeeps, ShortcutsFollow, PTL DEF BehaviorSpec

----------------------------------------
\* The list of signals.

\* f has the nodes that stand for n as the order of the graph goes on.
StandIns(f, n) ==
    f = [i \in 0..Len(NodeOrder) |->
            IF i = 0 THEN 0
            ELSE IF SameTag(NodeOrder[i], n) THEN Represent(f[i - 1], NodeOrder[i])
            ELSE f[i - 1]]

\* Of nodes spelled alike one of them stands for all.
LEMMA OneStandsForAll ==
    ASSUME NEW n \in Nodes
    PROVE  Representative(n) \in Nodes /\ SameTag(Representative(n), n)
<1> DEFINE D == {0} \cup {m \in Nodes : SameTag(m, n)}
<1> PICK last \in Nat : last = Len(NodeOrder)
  BY DetectionAssumption DEF DetectionAssumption
<1>1. \A i \in 1..last : NodeOrder[i] \in Nodes
  BY DetectionAssumption DEF DetectionAssumption
<1>2. 0 \notin Nodes
  BY DetectionAssumption DEF DetectionAssumption
<1>3. PICK j \in 1..last : NodeOrder[j] = n
  <2>1. n \in ToSet(NodeOrder)
    BY DetectionAssumption DEF DetectionAssumption
  <2>2. NodeOrder \in Seq(Nodes)
    BY DetectionAssumption DEF DetectionAssumption
  <2> QED
    BY <2>1, <2>2 DEF ToSet
<1>4. \A b, m : Represent(b, m) \in {b, m} /\ Represent(0, m) = m
  BY DEF Represent
<1> DEFINE Next(i, b) == IF SameTag(NodeOrder[i], n) THEN Represent(b, NodeOrder[i]) ELSE b
           g == [p \in (1..last) \X D |-> Next(p[1], p[2])]
<1>5. \A i \in 1..last, b \in D : Next(i, b) \in D
  BY <1>1, <1>4
<1>6. /\ g \in [(1..last) \X D -> D]
      /\ \A i \in 1..last, b \in D : g[<<i, b>>] = Next(i, b)
  <2> HIDE DEF Next, D
  <2> QED
    BY <1>5
<1> HIDE DEF g
<1>7. PICK h : Repeats(g, 0, h, last) /\ \A i \in 0..last : h[i] \in D
  <2> PICK a : a = 0
    OBVIOUS
  <2>1. a \in D /\ g \in [(1..last) \X D -> D]
    BY <1>6
  <2> HIDE DEF D
  <2>2. \E h : Repeats(g, a, h, last) /\ \A i \in 0..last : h[i] \in D
    BY ONLY last \in Nat, <2>1, Repeated
  <2> QED
    BY <2>2
<1>8. StandIns(h, n)
  <2>1. h = [i \in 0..last |-> IF i = 0 THEN 0 ELSE g[<<i, h[i - 1]>>]]
    BY <1>7 DEF Repeats
  <2>2. ASSUME NEW i \in 0..last, i # 0 PROVE g[<<i, h[i - 1]>>] = Next(i, h[i - 1])
    <3>1. i \in 1..last /\ i - 1 \in 0..last
      BY <2>2
    <3> QED
      BY <1>6, <1>7, <3>1
  <2> QED
    BY <2>1, <2>2 DEF StandIns
<1> DEFINE f == CHOOSE x : StandIns(x, n)
<1>9. StandIns(f, n)
  BY <1>8
<1>10. Representative(n) = f[last]
  BY DEF Representative, StandIns
<1> HIDE DEF f
<1>11. f[0] = 0 /\ \A i \in 1..last : f[i] = Next(i, f[i - 1])
  <2>1. \A i \in 0..last : f[i] = IF i = 0 THEN 0 ELSE Next(i, f[i - 1])
    BY <1>9 DEF StandIns
  <2> QED
    BY <2>1
<1> DEFINE S == {i \in 0..last : f[i] \in D /\ (i >= j => f[i] # 0)}
<1>12. 0 \in S
  BY <1>3, <1>11
<1>13. \A i \in 1..last : i - 1 \in S => i \in S
  <2> SUFFICES ASSUME NEW i \in 1..last, i - 1 \in S PROVE i \in S
    OBVIOUS
  <2>1. f[i] \in D
    BY ZenonT(60), <1>5, <1>11
  <2>2. CASE i = j
    <3>1. SameTag(NodeOrder[i], n)
      BY <1>3, <2>2 DEF SameTag
    <3>2. f[i] = Represent(f[i - 1], NodeOrder[i]) /\ NodeOrder[i] # 0
      BY <1>1, <1>2, <1>11, <3>1
    <3>3. f[i] # 0
      BY <1>4, <3>2
    <3> QED
      BY <2>1, <3>3
  <2>3. CASE i # j
    <3>1. i >= j => i - 1 >= j
      BY <2>3
    <3>2. NodeOrder[i] # 0
      BY <1>1, <1>2
    <3>3. f[i - 1] # 0 => f[i] # 0
      BY <1>4, <1>11, <3>2
    <3> QED
      BY <2>1, <3>1, <3>3
  <2> QED
    BY <2>2, <2>3
<1> HIDE DEF S, D
<1>14. last \in S
  BY SMTT(60), <1>12, <1>13, Upwards
<1> QED
  BY <1>3, <1>10, <1>14 DEF S, D

\* A device and a process in the row of an edge that says so.
LEMMA EdgesTellEnds ==
    ASSUME graph \subseteq DrawnEdges,
           \A e \in graph : /\ SaysSo(e)
                            /\ ~InAUnit(e.source) /\ ~InAUnit(e.target),
           NEW meaning \in {"measures", "controls"}, NEW role, NEW n, NEW p,
           BestOf(meaning, role, n, p) >= 0
    PROVE  /\ n \in Nodes /\ p \in Nodes
           /\ \E e \in graph :
                /\ (e.source = n /\ e.target = p) \/ (e.source = p /\ e.target = n)
                /\ e.kind \in IF meaning = "measures" THEN {"measures", "monitors"} ELSE {"signal", "controls"}
<1>1. PICK s : s \in ScoresOf(meaning, role, n, p)
  BY BestIsGreatest
<1>2. PICK e \in graph :
        /\ Normalized(e) = meaning
        /\ \/ e.source = n /\ Is(n, role) /\ Is(e.target, "process") /\ Unit(e.target) = p
           \/ e.target = n /\ Is(n, role) /\ Is(e.source, "process") /\ Unit(e.source) = p
  BY <1>1 DEF ScoresOf
<1>3. e.source \in Nodes /\ e.target \in Nodes
  BY DEF DrawnEdges
<1>4. (e.source = n /\ e.target = p) \/ (e.source = p /\ e.target = n)
  BY <1>2 DEF InAUnit, Unit
<1>5. e.kind \in IF meaning = "measures" THEN {"measures", "monitors"} ELSE {"signal", "controls"}
  <2>1. e.kind \in Kinds /\ e.semantic \in Semantics(e.kind)
    BY DEF DrawnEdges
  <2>2. e.kind \in {"measures", "monitors"} => Normalized(e) = "measures"
    BY <2>1 DEF Semantics, Normalized, ByKind
  <2>3. e.kind \in {"signal", "controls"} => Normalized(e) = "controls"
    BY <2>1 DEF Semantics, Normalized, ByKind, SaysSo
  <2> QED
    BY <1>2, <2>2, <2>3 DEF SaysSo
<1> QED
  BY <1>3, <1>4, <1>5

\* What the list of signals makes of an edge between a device and a process.
LEMMA EdgesAreMerged ==
    ASSUME graph \subseteq DrawnEdges,
           \A m, n \in Nodes : SameTag(m, n) => TypeRole[m] = TypeRole[n],
           NEW e \in graph, NEW n \in Nodes, NEW p \in Nodes,
           (e.source = n /\ e.target = p) \/ (e.source = p /\ e.target = n),
           TypeRole[n] # TypeRole[p]
    PROVE  /\ TypeRole[Representative(n)] = TypeRole[n]
           /\ TypeRole[Representative(p)] = TypeRole[p]
           /\ \E d \in Merged :
                /\ d.kind = e.kind
                /\ \/ d.source = Representative(n) /\ d.target = Representative(p)
                   \/ d.source = Representative(p) /\ d.target = Representative(n)
<1>1. /\ Representative(n) \in Nodes /\ SameTag(Representative(n), n)
      /\ Representative(p) \in Nodes /\ SameTag(Representative(p), p)
  BY OneStandsForAll
<1>2. TypeRole[Representative(n)] = TypeRole[n] /\ TypeRole[Representative(p)] = TypeRole[p]
  BY <1>1
<1>3. Representative(e.source) # Representative(e.target)
  BY <1>2
<1> PICK d : d = [source |-> Representative(e.source), target |-> Representative(e.target),
                  kind |-> e.kind]
  OBVIOUS
<1>4. d \in Merged
  BY <1>3 DEF Merged
<1>5. /\ d.kind = e.kind
      /\ \/ d.source = Representative(n) /\ d.target = Representative(p)
         \/ d.source = Representative(p) /\ d.target = Representative(n)
  OBVIOUS
<1> QED
  BY <1>2, <1>4, <1>5

\* The loops that are found are in the list of signals.
LEMMA SignalsHold ==
    ASSUME graph \subseteq DrawnEdges PROVE SignalsListTheLoops
<1> SUFFICES ASSUME \A e \in graph : /\ SaysSo(e)
                                     /\ ~InAUnit(e.source) /\ ~InAUnit(e.target),
                    \A m, n \in Nodes : SameTag(m, n) => TypeRole[m] = TypeRole[n],
                    NEW l \in LoopsFound(FromNeo4j),
                    TypeRole[l.sensor] = "sensor", TypeRole[l.actuator] = "actuator",
                    TypeRole[l.process] = "process"
             PROVE  \E k \in SignalLoops : TagOfLoop(k) = TagOfLoop(l)
  BY DEF SignalsListTheLoops
<1>1. PICK p \in Units, n \in Nodes, m \in Nodes :
        /\ BestOf("measures", "sensor", n, p) >= 0
        /\ BestOf("controls", "actuator", m, p) >= 0
        /\ l = LoopWith(p, n, m, BestOf("measures", "sensor", n, p)
                                   + BestOf("controls", "actuator", m, p))
  BY BestArePaired
<1>2. l.process = p /\ l.sensor = n /\ l.actuator = m
  BY <1>1 DEF LoopWith
<1>3. /\ p \in Nodes
      /\ \E e \in graph : /\ (e.source = n /\ e.target = p) \/ (e.source = p /\ e.target = n)
                          /\ e.kind \in {"measures", "monitors"}
  BY <1>1, EdgesTellEnds
<1>4. \E e \in graph : /\ (e.source = m /\ e.target = p) \/ (e.source = p /\ e.target = m)
                       /\ e.kind \in {"signal", "controls"}
  BY <1>1, EdgesTellEnds
<1> PICK rp, rn, rm : rp = Representative(p) /\ rn = Representative(n) /\ rm = Representative(m)
  OBVIOUS
<1>5. /\ rp \in Nodes /\ rn \in Nodes /\ rm \in Nodes
      /\ TokenOf[rn] = TokenOf[n] /\ TokenOf[rm] = TokenOf[m]
  BY <1>3, OneStandsForAll DEF SameTag
<1>6. /\ TypeRole[rp] = "process" /\ TypeRole[rn] = "sensor"
      /\ \E d \in Merged : /\ d.kind \in {"measures", "monitors"}
                           /\ \/ d.source = rn /\ d.target = rp
                              \/ d.source = rp /\ d.target = rn
  BY <1>2, <1>3, EdgesAreMerged
<1>7. /\ TypeRole[rm] = "actuator"
      /\ \E d \in Merged : /\ d.kind \in {"signal", "controls"}
                           /\ \/ d.source = rm /\ d.target = rp
                              \/ d.source = rp /\ d.target = rm
  BY <1>2, <1>3, <1>4, EdgesAreMerged
<1>8. rn \in SensorsAt(rp)
  <2>1. <<rn, rp>> \in Measured
    BY <1>6 DEF Measured
  <2> QED
    BY <1>5, <1>6, <2>1 DEF SensorsAt
<1>9. rm \in ActuatorsAt(rp)
  <2>1. PICK d \in Merged : d.kind \in {"signal", "controls"} /\ {d.source, d.target} = {rm, rp}
    BY <1>7
  <2>2. <<rm, rp>> \in Controlled
    BY <1>5, <1>6, <1>7, <2>1 DEF Controlled
  <2> QED
    BY <1>5, <2>2 DEF ActuatorsAt
<1> PICK k : k = [process |-> rp, sensor |-> rn, actuator |-> rm]
  OBVIOUS
<1>10. k \in SignalLoops
  BY <1>5, <1>8, <1>9 DEF SignalLoops
<1>11. TagOfLoop(k) = TagOfLoop(l)
  BY <1>2, <1>5 DEF TagOfLoop, LoopTag
<1> QED
  BY <1>10, <1>11

\* Every shortcut holds, of any rows, documents and graph: those of BehaviorShortcuts, those of
\* TheTableIsFound, and the list of signals has the loops that the engine finds
\* (get_plant_signals of graph_service.py).
THEOREM ShortcutsHold == MCSpec => []ShortcutsAgree
<1>1. MCInit => BehaviorInv /\ GraphInv
  BY BehaviorStarts, GraphFromTheStart DEF MCInit
<1> DEFINE allVars == <<behaviorVars, namespaceVars, graph, present, plc, area>>
<1>2. BehaviorInv /\ GraphInv /\ [MCNext]_allVars => BehaviorInv' /\ GraphInv'
  <2>1. [MCNext]_allVars => [BehaviorNext]_behaviorVars /\ [DetectionNext]_graph
    BY DEF MCNext
  <2> QED
    BY <2>1, BehaviorKeeps, GraphKept
<1>3. BehaviorInv /\ GraphInv => ShortcutsAgree
  <2> SUFFICES ASSUME BehaviorInv, GraphInv PROVE ShortcutsAgree
    OBVIOUS
  <2>1. RowsAreComputed /\ CachedAnswersAreCurrent /\ ChainsTellTheCauses
    BY ShortcutsFollow
  <2>2. DetectionIsOne
    BY ReadersFindTheSame, TableHolds, SignalsHold DEF GraphInv, DetectionIsOne
  <2> QED
    BY <2>1, <2>2 DEF ShortcutsAgree
<1> QED
  BY <1>1, <1>2, <1>3, PTL DEF MCSpec
=============================================================================
