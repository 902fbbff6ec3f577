--------------------------- MODULE SignalStateProofs ---------------------------
(***************************************************************************)
(* Proofs about SignalState, for any projects, requests, tags, mappings    *)
(* and programs: types; the derived and the evaluated tags, whatever       *)
(* interleaves; what the behaviour layer is shown; forces and diagnostics, *)
(* with one request at a time.                                             *)
(***************************************************************************)
EXTENDS SignalState, TLAPS

(***************************************************************************)
(* Values and the functions on them.                                       *)
(***************************************************************************)
LEMMA MaybeFacts ==
    ASSUME NEW S
    PROVE  /\ None \in Maybe(S) /\ S \subseteq Maybe(S)
           /\ \A x \in Maybe(S) : x # None => x \in S
  BY DEF Maybe

\* The tag of another kind that belongs to the same thing.
LEMMA OfKind ==
    ASSUME NEW t \in Tags
    PROVE  /\ t.kind \in Kinds
           /\ t.kind = "level" => Of("alarm", t) \in Tags /\ Of("alarm", t).kind = "alarm"
                                  /\ Of("level", Of("alarm", t)) = t
           /\ t.kind = "alarm" => Of("level", t) \in Tags /\ Of("level", t).kind = "level"
           /\ t.kind \in {"status", "running"} => Of("cmd", t) \in Tags /\ Of("cmd", t).kind = "cmd"
           /\ t.kind = "plant" <=> t = PlantFault
<1>1. t = [kind |-> t.kind, of |-> t.of] /\ t.kind \in Kinds
  BY TagAssumption
<1>2. Of("alarm", t) = [kind |-> "alarm", of |-> t.of]
  BY <1>1 DEF Of
<1>3. Of("level", t) = [kind |-> "level", of |-> t.of]
  BY <1>1 DEF Of
<1>4. Of("cmd", t) = [kind |-> "cmd", of |-> t.of]
  BY <1>1 DEF Of
<1>5. Of("level", [kind |-> "alarm", of |-> t.of]) = [kind |-> "level", of |-> t.of]
  BY DEF Of
<1>6. QED
  BY <1>1, <1>2, <1>3, <1>4, <1>5, TagAssumption

LEMMA BlankType == Blank \in Values
  BY MaybeFacts DEF Blank, Values

LEMMA OverType ==
    ASSUME NEW u \in Values, NEW v \in Values
    PROVE  Over(u, v) \in Values
  BY DEF Over, Values

LEMMA RecomputedType ==
    ASSUME NEW v \in Values, NEW f, NEW tags
    PROVE  Recomputed(v, f, tags) \in Values
<1> SUFFICES ASSUME NEW t \in Tags PROVE Recomputed(v, f, tags)[t] \in Maybe(Switch)
  BY DEF Recomputed, Values
<1>1. v[t] \in Maybe(Switch) /\ AnyFault(v, tags) \in Maybe(Switch)
  BY DEF Values, AnyFault, Switch, Maybe
<1>2. t.kind = "status" => v[Of("cmd", t)] \in Maybe(Switch)
  BY OfKind DEF Values
<1>3. QED
  BY <1>1, <1>2 DEF Recomputed

LEMMA EvaluatedType ==
    ASSUME NEW v \in Values
    PROVE  Evaluated(v) \in Values
<1> SUFFICES ASSUME NEW t \in Tags PROVE Evaluated(v)[t] \in Maybe(Switch)
  BY DEF Evaluated, Values
<1>1. v[t] \in Maybe(Switch) /\ "on" \in Maybe(Switch) /\ "off" \in Maybe(Switch)
  BY DEF Values, Switch, Maybe
<1>2. /\ t.kind \in {"status", "running"} => v[Of("cmd", t)] \in Maybe(Switch)
      /\ t.kind = "alarm" => v[Of("level", t)] \in Maybe(Switch)
  BY OfKind DEF Values
<1>3. QED
  BY <1>1, <1>2 DEF Evaluated

LEMMA EnsuredType ==
    ASSUME NEW p \in Projects, NEW rows, value \in [Projects -> Values]
    PROVE  Ensured(p, rows) \in Values
  BY DEF Ensured, Values, Default, Switch, Maybe

\* What a recomputation leaves alone.
LEMMA RecomputedKeeps ==
    ASSUME NEW v \in Values, NEW f, NEW tags, NEW t \in Tags,
           t.kind \notin {"status", "plant"}
    PROVE  Recomputed(v, f, tags)[t] = v[t]
  BY OfKind DEF Recomputed

\* The derived tags of one project agree.
DerivedOK(v, f, tags) ==
    \A t \in Tags : v[t] # None /\ f[t] = None =>
        /\ t.kind = "status" /\ v[Of("cmd", t)] # None => v[t] = v[Of("cmd", t)]
        /\ t = PlantFault => v[t] = AnyFault(v, tags)

\* A recomputation makes them agree ...
LEMMA RecomputedOK ==
    ASSUME NEW v \in Values, NEW f, NEW tags \in SUBSET Tags
    PROVE  DerivedOK(Recomputed(v, f, tags), f, tags)
<1> DEFINE w == Recomputed(v, f, tags)
<1>1. \A t \in tags : t.kind = "fault" => w[t] = v[t]
  BY RecomputedKeeps
<1>2. AnyFault(w, tags) = AnyFault(v, tags)
  BY <1>1 DEF AnyFault
<1>3. ASSUME NEW t \in Tags, w[t] # None, f[t] = None, t.kind = "status",
             w[Of("cmd", t)] # None
      PROVE  w[t] = w[Of("cmd", t)]
  <2>1. Of("cmd", t) \in Tags /\ Of("cmd", t).kind = "cmd"
    BY <1>3, OfKind
  <2>2. w[Of("cmd", t)] = v[Of("cmd", t)]
    BY <2>1, RecomputedKeeps
  <2>3. v[t] # None => w[t] = v[Of("cmd", t)]
    <3>1. v[Of("cmd", t)] # None
      BY <1>3, <2>2
    <3>2. QED
      BY <1>3, <3>1, OfKind DEF Recomputed
  <2>4. v[t] = None => w[t] = v[t]
    BY <1>3, OfKind DEF Recomputed
  <2>5. QED
    BY <1>3, <2>2, <2>3, <2>4
<1>4. ASSUME NEW t \in Tags, w[t] # None, f[t] = None, t = PlantFault
      PROVE  w[t] = AnyFault(w, tags)
  <2>1. t.kind = "plant"
    BY <1>4, OfKind
  <2>2. v[t] # None => w[t] = AnyFault(v, tags)
    BY <1>4, <2>1 DEF Recomputed
  <2>3. v[t] = None => w[t] = v[t]
    BY <1>4, <2>1 DEF Recomputed
  <2>4. QED
    BY <1>2, <1>4, <2>2, <2>3
<1> HIDE DEF w
<1>5. DerivedOK(w, f, tags)
  BY <1>3, <1>4 DEF DerivedOK
<1>6. QED
  BY <1>5 DEF w

\* ... and changes nothing if they do.
LEMMA RecomputedFixed ==
    ASSUME NEW v \in Values, NEW f, NEW tags \in SUBSET Tags, DerivedOK(v, f, tags)
    PROVE  Recomputed(v, f, tags) = v
<1>1. ASSUME NEW t \in Tags PROVE Recomputed(v, f, tags)[t] = v[t]
  BY OfKind DEF Recomputed, DerivedOK
<1>2. Recomputed(v, f, tags) = [t \in Tags |-> Recomputed(v, f, tags)[t]]
  BY DEF Recomputed
<1>3. v = [t \in Tags |-> v[t]]
  BY DEF Values
<1>4. QED
  BY <1>1, <1>2, <1>3

\* So does the catalog that is new.
LEMMA EnsuredOK ==
    ASSUME NEW p \in Projects, NEW rows \in SUBSET Tags, catalog[p] = None, NEW f
    PROVE  DerivedOK(Ensured(p, rows), f, rows)
<1> DEFINE w == Ensured(p, rows)
<1>1. \A t \in Tags : w[t] = IF t \in rows THEN Default(t) ELSE None
  BY DEF Ensured
<1>2. \A t \in Tags : t.kind # "level" => w[t] \in {"off", None}
  BY <1>1 DEF Default
<1>3. AnyFault(w, rows) = "off"
  BY <1>2, NoneAssumption DEF AnyFault, Switch
<1> HIDE DEF w
<1>4. DerivedOK(w, f, rows)
  BY <1>2, <1>3, OfKind DEF DerivedOK
<1>5. QED
  BY <1>4 DEF w

(***************************************************************************)
(* Every variable keeps its type; inductive with it: a request at work has *)
(* a project.                                                              *)
(***************************************************************************)
Op == {"none", "force", "clear", "cycle"}

RequestOK(q) == q \in RequestType /\ (q.pc # "idle" => q.proj \in Projects)

TypeInv ==
    /\ TypeOK
    /\ \A r \in Requests : RequestOK(req[r])

\* Fields of a request, and its record after fields were assigned.
LEMMA RequestFields ==
    ASSUME NEW q \in RequestType
    PROVE  /\ q.pc \in Pc /\ q.op \in Op /\ q.proj \in Maybe(Projects) /\ q.tag \in Tags
           /\ q.to \in Switch /\ q.base \in Values /\ q.work \in Values
           /\ q.rows \in SUBSET Tags
           /\ \A pc \in Pc : [q EXCEPT !.pc = pc] \in RequestType
           /\ \A pc \in Pc, v \in Values : [q EXCEPT !.pc = pc, !.base = v] \in RequestType
           /\ \A pc \in Pc, v \in Values : [q EXCEPT !.pc = pc, !.work = v] \in RequestType
           /\ \A pc \in Pc, op \in Op, v, w \in Values :
                [q EXCEPT !.pc = pc, !.op = op, !.work = v, !.base = w] \in RequestType
  BY ZenonT(60) DEF RequestType, Op

LEMMA IdleType ==
    /\ Idle \in RequestType
    /\ \A p \in Projects, pc \in Pc, op \in Op, t \in Tags, to \in Switch :
         [Idle EXCEPT !.pc = pc, !.op = op, !.proj = p, !.tag = t, !.to = to] \in RequestType
    /\ \A p \in Projects, pc \in Pc, op \in Op :
         [Idle EXCEPT !.pc = pc, !.op = op, !.proj = p] \in RequestType
    /\ \A p \in Projects, pc \in Pc, op \in Op, t \in Tags :
         [Idle EXCEPT !.pc = pc, !.op = op, !.proj = p, !.tag = t] \in RequestType
    /\ \A p \in Projects, pc \in Pc :
         [Idle EXCEPT !.pc = pc, !.proj = p] \in RequestType
    /\ \A p \in Projects, pc \in Pc, v \in Values :
         [Idle EXCEPT !.pc = pc, !.proj = p, !.base = v] \in RequestType
    /\ \A p \in Projects, pc \in Pc, v \in Values :
         [Idle EXCEPT !.pc = pc, !.proj = p, !.work = v] \in RequestType
    /\ \A p \in Projects, pc \in Pc, rows \in SUBSET Tags :
         [Idle EXCEPT !.pc = pc, !.proj = p, !.rows = rows] \in RequestType
<1>1. PlantFault \in Tags
  BY TagAssumption
<1>2. Idle \in RequestType
  BY <1>1, BlankType, MaybeFacts DEF Idle, RequestType, Pc, Switch
<1>3. \A p \in Projects : p \in Maybe(Projects)
  BY MaybeFacts
<1>4. QED
  BY <1>2, <1>3 DEF RequestType, Op

\* What a step does to the request that takes it.
Moves(r, q) == req' = [req EXCEPT ![r] = q] /\ RequestOK(q)

LEMMA Moved ==
    ASSUME TypeInv, NEW r \in Requests, NEW q, Moves(r, q)
    PROVE  /\ req' \in [Requests -> RequestType] /\ (\A x \in Requests : RequestOK(req'[x]))
           /\ req'[r] = q /\ (\A x \in Requests \ {r} : req'[x] = req[x])
<1>1. req \in [Requests -> RequestType] /\ (\A x \in Requests : RequestOK(req[x]))
  BY DEF TypeInv, TypeOK
<1>2. q \in RequestType /\ RequestOK(q)
  BY DEF Moves, RequestOK
<1>3. req'[r] = q /\ (\A x \in Requests \ {r} : req'[x] = req[x])
  BY <1>1 DEF Moves
<1>4. QED
  BY <1>1, <1>2, <1>3 DEF Moves

LEMMA Goes ==
    ASSUME TypeInv, NEW r \in Requests, NEW pc \in Pc, Goto(r, pc), req[r].pc # "idle"
    PROVE  \E q : Moves(r, q) /\ q.pc = pc /\ q.proj = req[r].proj /\ q.work = req[r].work
<1> DEFINE q == [req[r] EXCEPT !.pc = pc]
<1>1. req[r] \in RequestType /\ req[r].proj \in Projects
  BY DEF TypeInv, TypeOK, RequestOK
<1>2. q \in RequestType
  BY <1>1, RequestFields
<1>3. q.pc = pc /\ q.proj = req[r].proj /\ q.work = req[r].work
  BY <1>1 DEF RequestType
<1>4. req' = [req EXCEPT ![r] = q]
  BY DEF Goto
<1> HIDE DEF q
<1>5. QED
  BY <1>1, <1>2, <1>3, <1>4 DEF Moves, RequestOK

LEMMA Finishes ==
    ASSUME NEW r \in Requests, Finish(r)
    PROVE  Moves(r, Idle) /\ Idle.pc = "idle"
  BY IdleType DEF Moves, Finish, RequestOK, Idle

\* The requests that enter.
LEMMA EnterMoves ==
    ASSUME TypeInv, NEW r \in Requests, NEW p \in Projects,
           Guard(r, p) \/ Simulate(r, p) \/ Deploy(r, p)
    PROVE  /\ At(r, "idle")
           /\ \E q : Moves(r, q) /\ q.proj = p /\ q.pc \in {"baseline", "snapshot", "trace", "sync"}
           /\ UNCHANGED <<mapping, active, catalog, value, forced, cycle, layer, tracer>>
<1> USE DEF At
<1>1. CASE Guard(r, p)
  <2>1. CASE \E t \in Tags, to \in Switch :
               Enter(r, [Idle EXCEPT !.pc = "baseline", !.op = "force", !.proj = p, !.tag = t,
                                     !.to = to])
    <3>1. PICK t \in Tags, to \in Switch :
               Enter(r, [Idle EXCEPT !.pc = "baseline", !.op = "force", !.proj = p, !.tag = t,
                                     !.to = to])
      BY <2>1
    <3> DEFINE q == [Idle EXCEPT !.pc = "baseline", !.op = "force", !.proj = p, !.tag = t,
                                 !.to = to]
    <3>2. q \in RequestType
      BY ZenonT(60), IdleType DEF Pc, Op
    <3>3. q.pc = "baseline" /\ q.proj = p
      BY DEF Idle
    <3>4. Moves(r, q) /\ At(r, "idle")
      BY <3>1, <3>2, <3>3 DEF Enter, Moves, RequestOK
    <3> HIDE DEF q
    <3>5. QED
      BY <1>1, <3>3, <3>4 DEF Guard
  <2>2. CASE \E t \in Tags :
               Enter(r, [Idle EXCEPT !.pc = "baseline", !.op = "clear", !.proj = p, !.tag = t])
    <3>1. PICK t \in Tags :
               Enter(r, [Idle EXCEPT !.pc = "baseline", !.op = "clear", !.proj = p, !.tag = t])
      BY <2>2
    <3> DEFINE q == [Idle EXCEPT !.pc = "baseline", !.op = "clear", !.proj = p, !.tag = t]
    <3>2. q \in RequestType
      BY ZenonT(60), IdleType DEF Pc, Op
    <3>3. q.pc = "baseline" /\ q.proj = p
      BY DEF Idle
    <3>4. Moves(r, q) /\ At(r, "idle")
      BY <3>1, <3>2, <3>3 DEF Enter, Moves, RequestOK
    <3> HIDE DEF q
    <3>5. QED
      BY <1>1, <3>3, <3>4 DEF Guard
  <2>3. CASE Enter(r, [Idle EXCEPT !.pc = "snapshot", !.op = "cycle", !.proj = p])
    <3> DEFINE q == [Idle EXCEPT !.pc = "snapshot", !.op = "cycle", !.proj = p]
    <3>2. q \in RequestType
      BY ZenonT(60), IdleType DEF Pc, Op
    <3>3. q.pc = "snapshot" /\ q.proj = p
      BY DEF Idle
    <3>4. Moves(r, q) /\ At(r, "idle")
      BY <2>3, <3>2, <3>3 DEF Enter, Moves, RequestOK
    <3> HIDE DEF q
    <3>5. QED
      BY <1>1, <3>3, <3>4 DEF Guard
  <2>4. QED
    BY <1>1, <2>1, <2>2, <2>3 DEF Guard
<1>2. CASE Simulate(r, p)
  <2> DEFINE q == [Idle EXCEPT !.pc = "trace", !.proj = p]
  <2>1. q \in RequestType
    BY ZenonT(60), IdleType DEF Pc
  <2>2. q.pc = "trace" /\ q.proj = p
    BY DEF Idle
  <2>3. Moves(r, q)
    BY <1>2, <2>1, <2>2 DEF Simulate, Moves, RequestOK
  <2> HIDE DEF q
  <2>4. QED
    BY <1>2, <2>2, <2>3 DEF Simulate
<1>3. CASE Deploy(r, p)
  <2>1. PICK program \in Programs :
            req' = [req EXCEPT ![r] = [Idle EXCEPT !.pc = "sync", !.proj = p,
                                                   !.rows = mapping[p] \cup program]]
    BY <1>3 DEF Deploy
  <2>2. mapping[p] \cup program \in SUBSET Tags
    BY SetAssumption DEF TypeInv, TypeOK
  <2> DEFINE q == [Idle EXCEPT !.pc = "sync", !.proj = p, !.rows = mapping[p] \cup program]
  <2>3. q \in RequestType
    BY ZenonT(60), <2>2, IdleType DEF Pc
  <2>4. q.pc = "sync" /\ q.proj = p
    BY DEF Idle
  <2>5. Moves(r, q)
    BY <2>1, <2>3, <2>4 DEF Moves, RequestOK
  <2> HIDE DEF q
  <2>6. QED
    BY <1>3, <2>4, <2>5 DEF Deploy
<1>4. QED
  BY <1>1, <1>2, <1>3

\* The requests that first see to it that there is a catalog.
Ensures(p) == Ensure(p, mapping[p]) /\ value' = [value EXCEPT ![p] = Ensured(p, mapping[p])]

LEMMA BaselineMoves ==
    ASSUME TypeInv, NEW r \in Requests, Baseline(r)
    PROVE  /\ req[r].proj \in Projects /\ Ensures(req[r].proj)
           /\ \E q : Moves(r, q) /\ q.pc = "change" /\ q.proj = req[r].proj
<1> DEFINE v == Ensured(req[r].proj, mapping[req[r].proj])
           q == [req[r] EXCEPT !.pc = "change", !.base = v]
<1>1. req[r] \in RequestType /\ req[r].proj \in Projects /\ At(r, "baseline")
  BY DEF TypeInv, TypeOK, RequestOK, Baseline, At
<1>2. v \in Values
  BY <1>1, EnsuredType DEF TypeInv, TypeOK
<1>3. req' = [req EXCEPT ![r] = q] /\ Ensures(req[r].proj)
  BY DEF Baseline, Ensures
<1> HIDE DEF v
<1>4. q \in RequestType
  BY ZenonT(60), <1>1, <1>2, RequestFields DEF Pc
<1>5. q.pc = "change" /\ q.proj = req[r].proj
  BY <1>1 DEF RequestType
<1> HIDE DEF q
<1>6. QED
  BY <1>1, <1>3, <1>4, <1>5 DEF Moves, RequestOK

LEMMA SnapshotMoves ==
    ASSUME TypeInv, NEW r \in Requests, Snapshot(r)
    PROVE  /\ req[r].proj \in Projects /\ Ensures(req[r].proj)
           /\ \E q : /\ Moves(r, q) /\ q.pc = "apply" /\ q.proj = req[r].proj
                     /\ q.work = Evaluated(Ensured(req[r].proj, mapping[req[r].proj]))
<1> DEFINE v == Ensured(req[r].proj, mapping[req[r].proj])
           e == Evaluated(v)
           b == IF req[r].op = "cycle" THEN v ELSE req[r].base
           q == [req[r] EXCEPT !.pc = "apply", !.op = "none", !.work = e, !.base = b]
<1>1. req[r] \in RequestType /\ req[r].proj \in Projects /\ At(r, "snapshot")
  BY DEF TypeInv, TypeOK, RequestOK, Snapshot, At
<1>2. v \in Values
  BY <1>1, EnsuredType DEF TypeInv, TypeOK
<1>3. e \in Values /\ b \in Values
  BY <1>1, <1>2, EvaluatedType, RequestFields
<1>4. req' = [req EXCEPT ![r] = q] /\ Ensures(req[r].proj)
  BY DEF Snapshot, Ensures
<1>5. e = Evaluated(Ensured(req[r].proj, mapping[req[r].proj]))
  OBVIOUS
<1> HIDE DEF e, b, v
<1>6. q \in RequestType
  BY ZenonT(60), <1>1, <1>3, RequestFields DEF Pc, Op
<1>7. q.pc = "apply" /\ q.proj = req[r].proj /\ q.work = e
  BY <1>1 DEF RequestType
<1> HIDE DEF q
<1>8. QED
  BY <1>1, <1>4, <1>5, <1>6, <1>7 DEF Moves, RequestOK

LEMMA SampleMoves ==
    ASSUME TypeInv, NEW r \in Requests, Sample(r)
    PROVE  /\ req[r].proj \in Projects /\ Ensures(req[r].proj)
           /\ \E q : /\ Moves(r, q) /\ q.pc = "traced" /\ q.proj = req[r].proj
                     /\ q.work = Ensured(req[r].proj, mapping[req[r].proj])
<1> DEFINE v == Ensured(req[r].proj, mapping[req[r].proj])
           q == [req[r] EXCEPT !.pc = "traced", !.work = v]
<1>1. req[r] \in RequestType /\ req[r].proj \in Projects /\ At(r, "trace")
  BY DEF TypeInv, TypeOK, RequestOK, Sample, At
<1>2. v \in Values
  BY <1>1, EnsuredType DEF TypeInv, TypeOK
<1>3. req' = [req EXCEPT ![r] = q] /\ Ensures(req[r].proj)
  BY DEF Sample, Ensures
<1>4. v = Ensured(req[r].proj, mapping[req[r].proj])
  OBVIOUS
<1> HIDE DEF v
<1>5. q \in RequestType
  BY ZenonT(60), <1>1, <1>2, RequestFields DEF Pc
<1>6. q.pc = "traced" /\ q.proj = req[r].proj /\ q.work = v
  BY <1>1 DEF RequestType
<1> HIDE DEF q
<1>7. QED
  BY <1>1, <1>3, <1>4, <1>5, <1>6 DEF Moves, RequestOK

LEMMA SummaryMoves ==
    ASSUME TypeInv, NEW r \in Requests, NEW p \in Projects, Summary(r, p)
    PROVE  /\ At(r, "idle") /\ Ensures(p)
           /\ \E q : Moves(r, q) /\ q.pc = "report" /\ q.proj = p
<1> DEFINE v == Ensured(p, mapping[p])
           q == [Idle EXCEPT !.pc = "report", !.proj = p, !.work = v]
<1>1. v \in Values
  BY EnsuredType DEF TypeInv, TypeOK
<1>2. req' = [req EXCEPT ![r] = q] /\ Ensures(p) /\ At(r, "idle")
  BY DEF Summary, Ensures
<1> HIDE DEF v
<1>3. q \in RequestType
  BY ZenonT(60), <1>1, IdleType DEF Pc
<1>4. q.pc = "report" /\ q.proj = p
  BY DEF Idle
<1> HIDE DEF q
<1>5. QED
  BY <1>2, <1>3, <1>4 DEF Moves, RequestOK

\* A change that was accepted.
LEMMA ChangeMoves ==
    ASSUME TypeInv, NEW r \in Requests, Changed(r), At(r, "change")
    PROVE  \E q : Moves(r, q) /\ q.pc = "snapshot" /\ q.proj = req[r].proj
<1> DEFINE b == req[r].base
           p == req[r].proj
           q == [Idle EXCEPT !.pc = "snapshot", !.proj = p, !.base = b]
<1>1. req[r] \in RequestType /\ p \in Projects
  BY DEF TypeInv, TypeOK, RequestOK, At
<1>2. b \in Values
  BY <1>1, RequestFields
<1>3. req' = [req EXCEPT ![r] = q]
  BY DEF Changed
<1>4. p = req[r].proj
  OBVIOUS
<1> HIDE DEF b, p
<1>5. q \in RequestType
  BY ZenonT(60), <1>1, <1>2, IdleType DEF Pc
<1>6. q.pc = "snapshot" /\ q.proj = p
  BY DEF Idle
<1> HIDE DEF q
<1>7. QED
  BY <1>1, <1>3, <1>4, <1>5, <1>6 DEF Moves, RequestOK

LEMMA ApplyMoves ==
    ASSUME TypeInv, NEW r \in Requests, ApplyCycle(r)
    PROVE  /\ req[r].proj \in Projects
           /\ \E q : /\ Moves(r, q) /\ q.pc = "record" /\ q.proj = req[r].proj
                     /\ q.work = req[r].work
<1> DEFINE p == req[r].proj
           after == Recomputed(Over(req[r].work, value[p]), forced[p], catalog[p])
           b == [t \in Tags |-> IF after[t] = req[r].base[t] THEN None ELSE after[t]]
           q == [req[r] EXCEPT !.pc = "record", !.base = b]
<1>1. req[r] \in RequestType /\ p \in Projects /\ At(r, "apply")
  BY DEF TypeInv, TypeOK, RequestOK, ApplyCycle, At
<1>2. after \in Values
  <2>1. req[r].work \in Values /\ value[p] \in Values
    BY <1>1, RequestFields DEF TypeInv, TypeOK
  <2>2. QED
    BY <2>1, OverType, RecomputedType
<1>3. req' = [req EXCEPT ![r] = q]
  BY DEF ApplyCycle
<1>4. b \in Values
  <2> HIDE DEF after
  <2>1. QED
    BY <1>2, MaybeFacts DEF Values
<1>5. p = req[r].proj
  OBVIOUS
<1> HIDE DEF b, after, p
<1>6. q \in RequestType
  BY ZenonT(60), <1>1, <1>4, RequestFields DEF Pc
<1>7. q.pc = "record" /\ q.proj = p /\ q.work = req[r].work
  BY <1>1, <1>5 DEF RequestType
<1> HIDE DEF q
<1>8. QED
  BY <1>1, <1>3, <1>5, <1>6, <1>7 DEF Moves, RequestOK

LEMMA RecordMoves ==
    ASSUME TypeInv, NEW r \in Requests, RecordCycle(r)
    PROVE  /\ req[r].proj \in Projects
           /\ \E q : Moves(r, q) /\ q.pc = "push" /\ q.proj = req[r].proj
<1> DEFINE q == [req[r] EXCEPT !.pc = "push", !.work = Blank]
<1>1. req[r] \in RequestType /\ req[r].proj \in Projects /\ At(r, "record")
  BY DEF TypeInv, TypeOK, RequestOK, RecordCycle, At
<1>2. q \in RequestType
  BY ZenonT(60), <1>1, BlankType, RequestFields DEF Pc
<1>3. q.pc = "push" /\ q.proj = req[r].proj
  BY <1>1 DEF RequestType
<1>4. req' = [req EXCEPT ![r] = q]
  BY DEF RecordCycle
<1> HIDE DEF q
<1>5. QED
  BY <1>1, <1>2, <1>3, <1>4 DEF Moves, RequestOK

\* The steps between the signals and the behaviour layer.
LEMMA Advances ==
    ASSUME TypeInv, NEW r \in Requests, NEW pc \in Pc, req[r].pc # "idle", NEW q,
           q = [req[r] EXCEPT !.pc = pc]
    PROVE  RequestOK(q) /\ q.pc = pc /\ q.proj = req[r].proj /\ q.work = req[r].work
<1>1. req[r] \in RequestType /\ req[r].proj \in Projects
  BY DEF TypeInv, TypeOK, RequestOK
<1>2. q \in RequestType
  BY <1>1, RequestFields
<1>3. q.pc = pc /\ q.proj = req[r].proj /\ q.work = req[r].work
  BY <1>1 DEF RequestType
<1>4. QED
  BY <1>1, <1>2, <1>3 DEF RequestOK

LEMMA TestMoves ==
    ASSUME TypeInv, NEW r \in Requests, TestChanges(r) \/ PushChanges(r)
    PROVE  \E q : Moves(r, q) /\ q.pc \in {"pushing", "trace"} /\ q.proj = req[r].proj
<1>1. PICK p : p = req[r].proj
  OBVIOUS
<1>2. PICK q : q = [req[r] EXCEPT !.pc = "pushing"]
  OBVIOUS
<1>3. PICK x : x = [Idle EXCEPT !.pc = "trace", !.proj = p]
  OBVIOUS
<1>4. p \in Projects /\ req[r].pc # "idle"
  BY <1>1 DEF TestChanges, PushChanges, TypeInv, TypeOK, RequestOK, At
<1>5. RequestOK(q) /\ q.pc = "pushing" /\ q.proj = p
  BY <1>1, <1>2, <1>4, Advances DEF Pc
<1>6. x.pc = "trace" /\ x.proj = p
  BY <1>3 DEF Idle
<1>7. RequestOK(x)
  BY ZenonT(60), <1>3, <1>4, <1>6, IdleType DEF RequestOK, Pc
<1>8. req' = [req EXCEPT ![r] = q] \/ req' = [req EXCEPT ![r] = x]
  BY <1>1, <1>2, <1>3 DEF TestChanges, PushChanges, Test
<1>9. QED
  BY <1>1, <1>5, <1>6, <1>7, <1>8 DEF Moves

LEMMA TestTraceMoves ==
    ASSUME TypeInv, NEW r \in Requests, TestTrace(r)
    PROVE  \E q : /\ Moves(r, q)
                  /\ IF loaded = req[r].proj
                     THEN q.pc = "tracing" /\ q.proj = req[r].proj /\ q.work = req[r].work
                     ELSE q.pc = "idle"
<1>1. PICK q : q = [req[r] EXCEPT !.pc = "tracing"]
  OBVIOUS
<1>2. RequestOK(q) /\ q.pc = "tracing" /\ q.proj = req[r].proj /\ q.work = req[r].work
  BY <1>1, Advances DEF TestTrace, At, Pc
<1>3. RequestOK(Idle) /\ Idle.pc = "idle"
  BY IdleType DEF RequestOK, Idle
<1>4. req' = [req EXCEPT ![r] = IF loaded = req[r].proj THEN q ELSE Idle]
  BY <1>1 DEF TestTrace, Test
<1>5. QED
  BY <1>2, <1>3, <1>4 DEF Moves

LEMMA TestReportMoves ==
    ASSUME TypeInv, NEW r \in Requests, TestReport(r)
    PROVE  \E q : /\ Moves(r, q)
                  /\ q.pc = "idle" \/ (q.pc = "reporting" /\ q.proj = req[r].proj)
<1>1. PICK q : q = [req[r] EXCEPT !.pc = "reporting"]
  OBVIOUS
<1>2. RequestOK(q) /\ q.pc = "reporting" /\ q.proj = req[r].proj
  BY <1>1, Advances DEF TestReport, At, Pc
<1>3. RequestOK(Idle) /\ Idle.pc = "idle"
  BY IdleType DEF RequestOK, Idle
<1>4. req' = [req EXCEPT ![r] = q] \/ req' = [req EXCEPT ![r] = Idle]
  BY <1>1 DEF TestReport, Test
<1>5. QED
  BY <1>2, <1>3, <1>4 DEF Moves

LEMMA LoadMoves ==
    ASSUME TypeInv, NEW r \in Requests, NEW p \in Projects, LoadRows(r, p)
    PROVE  /\ req[r].pc = "idle" /\ UNCHANGED <<catalog, value, forced, cycle, tracer>>
           /\ \E q : Moves(r, q) /\ q.pc = "load" /\ q.proj = p
<1>1. PICK q : q = [Idle EXCEPT !.pc = "load", !.proj = p]
  OBVIOUS
<1>2. q.pc = "load" /\ q.proj = p
  BY <1>1 DEF Idle
<1>3. RequestOK(q)
  BY ZenonT(60), <1>1, <1>2, IdleType DEF RequestOK, Pc
<1>4. QED
  BY <1>1, <1>2, <1>3 DEF LoadRows, Moves, At

\* What they have in common.
LayerStep(r) ==
    \/ TestChanges(r) \/ PushChanges(r) \/ TestTrace(r) \/ PushTrace(r)
    \/ TestReport(r) \/ Report(r) \/ LoadActive(r)
LayerPc == {"push", "pushing", "traced", "tracing", "report", "reporting", "load"}

LEMMA LayerMoves ==
    ASSUME TypeInv, NEW r \in Requests, LayerStep(r)
    PROVE  /\ UNCHANGED <<mapping, active, catalog, value, forced, cycle>>
           /\ req[r].pc \in LayerPc
           /\ \E q : /\ Moves(r, q) /\ q.pc \in {"pushing", "trace", "tracing", "reporting", "idle"}
                     /\ q.pc \in {"idle", "trace"} \/ (q.proj = req[r].proj /\ req[r].pc # "load")
<1>1. UNCHANGED <<mapping, active, catalog, value, forced, cycle>> /\ req[r].pc \in LayerPc
  BY DEF LayerStep, TestChanges, PushChanges, TestTrace, PushTrace, TestReport, Report,
         LoadActive, At, LayerPc
<1> DEFINE Found == \E q : /\ Moves(r, q)
                           /\ q.pc \in {"pushing", "trace", "tracing", "reporting", "idle"}
                           /\ q.pc \in {"idle", "trace"}
                              \/ (q.proj = req[r].proj /\ req[r].pc # "load")
<1>2. CASE TestChanges(r) \/ PushChanges(r)
  <2>1. req[r].pc # "load"
    BY <1>2 DEF TestChanges, PushChanges, At
  <2>2. QED
    BY <1>1, <1>2, <2>1, TestMoves
<1>3. CASE TestTrace(r)
  <2>1. req[r].pc # "load"
    BY <1>3 DEF TestTrace, At
  <2>2. QED
    BY <1>1, <1>3, <2>1, TestTraceMoves
<1>4. CASE TestReport(r)
  <2>1. req[r].pc # "load"
    BY <1>4 DEF TestReport, At
  <2>2. QED
    BY <1>1, <1>4, <2>1, TestReportMoves
<1>5. CASE PushTrace(r) \/ Report(r) \/ LoadActive(r)
  <2>1. Finish(r)
    BY <1>5 DEF PushTrace, Report, LoadActive
  <2>2. QED
    BY <1>1, <2>1, Finishes
<1>6. QED
  BY <1>2, <1>3, <1>4, <1>5 DEF LayerStep

\* The signals keep their types.
LEMMA SignalTypes ==
    ASSUME TypeInv, NEW p \in Projects
    PROVE  /\ Ensures(p) => /\ catalog' \in [Projects -> Maybe(SUBSET Tags)]
                            /\ value' \in [Projects -> Values]
           /\ \A v, f \in Values : SetSignals(p, v, f) =>
                /\ value' \in [Projects -> Values] /\ forced' \in [Projects -> Values]
<1>1. ASSUME Ensures(p)
      PROVE  catalog' \in [Projects -> Maybe(SUBSET Tags)] /\ value' \in [Projects -> Values]
  <2>1. Catalog(p, mapping[p]) \in Maybe(SUBSET Tags)
    BY DEF TypeInv, TypeOK, Catalog, Maybe
  <2>2. Ensured(p, mapping[p]) \in Values
    BY EnsuredType DEF TypeInv, TypeOK
  <2>3. QED
    BY <1>1, <2>1, <2>2 DEF Ensures, Ensure, TypeInv, TypeOK
<1>2. ASSUME NEW v \in Values, NEW f \in Values, SetSignals(p, v, f)
      PROVE  value' \in [Projects -> Values] /\ forced' \in [Projects -> Values]
  <2>1. Recomputed(v, f, catalog[p]) \in Values
    BY RecomputedType
  <2>2. QED
    BY <1>2, <2>1 DEF SetSignals, TypeInv, TypeOK
<1>3. QED
  BY <1>1, <1>2

LayerType ==
    /\ rowsOf \in Maybe(Projects) /\ loaded \in Maybe(Projects) /\ astray \in BOOLEAN
    /\ shown \in Values

LEMMA UpdateType ==
    ASSUME LayerType, NEW p, NEW v \in Values, NEW wrong \in BOOLEAN, Update(p, v, wrong)
    PROVE  LayerType'
  BY OverType DEF Update, LayerType

LEMMA TypeInit == Init => TypeInv
<1> SUFFICES ASSUME Init PROVE TypeInv
  OBVIOUS
<1>1. mapping \in [Projects -> SUBSET Tags]
  BY SetAssumption DEF Init
<1>2. Blank \in Values /\ Idle \in RequestType /\ Idle.pc = "idle"
  BY BlankType, IdleType DEF Idle
<1>3. QED
  BY <1>1, <1>2, MaybeFacts DEF Init, TypeInv, TypeOK, RequestOK

\* The requests keep their types when one of them moves.
RequestTypes == req \in [Requests -> RequestType] /\ \A r \in Requests : RequestOK(req[r])

LEMMA TypeMove ==
    ASSUME TypeInv, NEW r \in Requests, NEW q, Moves(r, q)
    PROVE  RequestTypes'
  BY Moved DEF RequestTypes

LEMMA TypeStep == TypeInv /\ [Next]_vars => TypeInv'
<1> SUFFICES ASSUME TypeInv, [Next]_vars PROVE TypeInv'
  OBVIOUS
<1> USE DEF TypeInv, TypeOK
<1>1. CASE UNCHANGED vars
  BY <1>1 DEF vars, layer, RequestOK
<1>2. ASSUME NEW p \in Projects, MapIo(p) PROVE TypeInv'
  <2>1. mapping' \in [Projects -> SUBSET Tags]
    BY <1>2, SetAssumption DEF MapIo
  <2>2. QED
    BY <1>2, <2>1 DEF MapIo, RequestOK, layer
<1>3. ASSUME NEW r \in Requests, NEW p \in Projects, LoadRows(r, p) PROVE TypeInv'
  <2>1. RequestTypes'
    BY <1>3, LoadMoves, TypeMove
  <2>2. LayerType'
    BY <1>3, BlankType, MaybeFacts DEF LoadRows, LayerType
  <2>3. QED
    BY <1>3, <2>1, <2>2 DEF RequestTypes, LayerType, LoadRows
<1>4. ASSUME NEW r \in Requests, NEW p \in Projects,
             Guard(r, p) \/ Simulate(r, p) \/ Deploy(r, p)
      PROVE  TypeInv'
  <2>1. /\ RequestTypes'
        /\ UNCHANGED <<mapping, active, catalog, value, forced, cycle, layer, tracer>>
    BY <1>4, EnterMoves, TypeMove
  <2>2. QED
    BY <2>1 DEF RequestTypes, layer
<1>5. ASSUME NEW r \in Requests, NEW p \in Projects, Summary(r, p) PROVE TypeInv'
  <2>1. RequestTypes' /\ Ensures(p)
    BY <1>5, SummaryMoves, TypeMove
  <2>2. QED
    BY <1>5, <2>1, SignalTypes DEF RequestTypes, Summary, layer
<1>6. ASSUME NEW r \in Requests, Baseline(r) PROVE TypeInv'
  <2>1. RequestTypes' /\ Ensures(req[r].proj) /\ req[r].proj \in Projects
    BY <1>6, BaselineMoves, TypeMove
  <2>2. catalog' \in [Projects -> Maybe(SUBSET Tags)] /\ value' \in [Projects -> Values]
    BY <2>1, SignalTypes
  <2>3. QED
    BY <1>6, <2>1, <2>2 DEF RequestTypes, Baseline, layer
<1>7. ASSUME NEW r \in Requests, ApplyForce(r) \/ ClearForce(r) PROVE TypeInv'
  <2> DEFINE p == req[r].proj
             t == req[r].tag
  <2>1. At(r, "change") /\ p \in Projects /\ t \in Tags /\ req[r].to \in Switch
    BY <1>7, RequestFields DEF ApplyForce, ClearForce, At, RequestOK
  <2>2. value[p] \in Values /\ forced[p] \in Values
    BY <2>1
  <2>3. \A x \in Maybe(Switch) : /\ [value[p] EXCEPT ![t] = x] \in Values
                                 /\ [forced[p] EXCEPT ![t] = x] \in Values
    BY <2>1, <2>2 DEF Values
  <2>4. Default(t) \in Maybe(Switch) /\ req[r].to \in Maybe(Switch) /\ None \in Maybe(Switch)
    BY <2>1 DEF Default, Switch, Maybe
  <2>5. /\ (Changed(r) \/ Finish(r))
        /\ UNCHANGED <<value, forced>> \/ (\E v, f \in Values : SetSignals(p, v, f))
        /\ UNCHANGED <<mapping, active, catalog, cycle, layer, tracer>>
    <3>1. CASE ApplyForce(r)
      BY <2>3, <2>4, <3>1 DEF ApplyForce
    <3>2. CASE ClearForce(r)
      BY <2>3, <2>4, <3>2 DEF ClearForce
    <3>3. QED
      BY <1>7, <3>1, <3>2
  <2>6. RequestTypes'
    BY <2>1, <2>5, ChangeMoves, Finishes, TypeMove
  <2>7. value' \in [Projects -> Values] /\ forced' \in [Projects -> Values]
    BY <2>1, <2>5, SignalTypes
  <2>8. QED
    BY <2>5, <2>6, <2>7 DEF RequestTypes, layer
<1>8. ASSUME NEW r \in Requests, Snapshot(r) PROVE TypeInv'
  <2>1. RequestTypes' /\ Ensures(req[r].proj) /\ req[r].proj \in Projects
    BY <1>8, SnapshotMoves, TypeMove
  <2>2. catalog' \in [Projects -> Maybe(SUBSET Tags)] /\ value' \in [Projects -> Values]
    BY <2>1, SignalTypes
  <2>3. QED
    BY <1>8, <2>1, <2>2 DEF RequestTypes, Snapshot, layer
<1>9. ASSUME NEW r \in Requests, ApplyCycle(r) PROVE TypeInv'
  <2>1. RequestTypes' /\ req[r].proj \in Projects
    BY <1>9, ApplyMoves, TypeMove
  <2>2. Over(req[r].work, value[req[r].proj]) \in Values /\ forced[req[r].proj] \in Values
    BY <2>1, OverType, RequestFields
  <2>3. SetSignals(req[r].proj, Over(req[r].work, value[req[r].proj]), forced[req[r].proj])
    BY <1>9 DEF ApplyCycle
  <2>4. value' \in [Projects -> Values] /\ forced' \in [Projects -> Values]
    BY <2>1, <2>2, <2>3, SignalTypes
  <2>5. QED
    BY <1>9, <2>1, <2>4 DEF RequestTypes, ApplyCycle, layer
<1>10. ASSUME NEW r \in Requests, RecordCycle(r) PROVE TypeInv'
  <2>1. RequestTypes'
    BY <1>10, RecordMoves, TypeMove
  <2>2. ActiveLevels(req[r].work) \in Maybe(SUBSET Tags)
    BY DEF ActiveLevels, Maybe
  <2>3. QED
    BY <1>10, <2>1, <2>2 DEF RequestTypes, RecordCycle, layer
<1>11. ASSUME NEW r \in Requests, LayerStep(r) PROVE TypeInv'
  <2>1. /\ RequestTypes'
        /\ UNCHANGED <<mapping, active, catalog, value, forced, cycle>>
    BY <1>11, LayerMoves, TypeMove
  <2>2. LayerType'
    <3>1. LayerType /\ req[r].base \in Values /\ req[r].work \in Values
      BY RequestFields DEF LayerType
    <3>2. CASE TestChanges(r) \/ TestTrace(r) \/ TestReport(r)
      <4>1. UNCHANGED layer
        BY <3>2 DEF TestChanges, TestTrace, TestReport
      <4>2. QED
        BY <3>1, <4>1 DEF LayerType, layer
    <3>3. CASE PushChanges(r) \/ PushTrace(r) \/ Report(r)
      <4>1. \E v \in Values, wrong \in BOOLEAN : Update(req[r].proj, v, wrong)
        BY <3>1, <3>3 DEF PushChanges, PushTrace, Report
      <4>2. QED
        BY <3>1, <4>1, UpdateType
    <3>4. CASE LoadActive(r)
      <4>1. req[r].proj \in Projects
        BY <3>4 DEF LoadActive, At, RequestOK
      <4>2. QED
        BY <3>1, <3>4, <4>1, MaybeFacts DEF LayerType, LoadActive
    <3>5. QED
      BY <1>11, <3>2, <3>3, <3>4 DEF LayerStep
  <2>3. tracer' \in Maybe(Requests)
    BY <1>11, MaybeFacts
    DEF LayerStep, TestChanges, PushChanges, TestTrace, PushTrace, TestReport, Report, LoadActive
  <2>4. QED
    BY <2>1, <2>2, <2>3 DEF RequestTypes, LayerType
<1>12. ASSUME NEW r \in Requests, Sample(r) PROVE TypeInv'
  <2>1. RequestTypes' /\ Ensures(req[r].proj) /\ req[r].proj \in Projects
    BY <1>12, SampleMoves, TypeMove
  <2>2. catalog' \in [Projects -> Maybe(SUBSET Tags)] /\ value' \in [Projects -> Values]
    BY <2>1, SignalTypes
  <2>3. QED
    BY <1>12, <2>1, <2>2, MaybeFacts DEF RequestTypes, Sample, layer
<1>13. ASSUME NEW r \in Requests, Sync(r) PROVE TypeInv'
  <2> DEFINE p == req[r].proj
  <2>1. At(r, "sync") /\ p \in Projects /\ req[r].rows \in SUBSET Tags
    BY <1>13, RequestFields DEF Sync, At, RequestOK
  <2>2. RequestTypes'
    <3>1. CASE Goto(r, "activate")
      BY <2>1, <3>1, Goes, TypeMove DEF At, Pc
    <3>2. CASE Finish(r)
      BY <3>2, Finishes, TypeMove
    <3>3. QED
      BY <1>13, <3>1, <3>2 DEF Sync
  <2>3. catalog' \in [Projects -> Maybe(SUBSET Tags)]
    BY <1>13, <2>1 DEF Sync, Ensure, Catalog, Maybe
  <2>4. value' \in [Projects -> Values]
    <3>1. Ensured(p, req[r].rows) \in Values
      BY <2>1, EnsuredType
    <3>2. Recomputed(Ensured(p, req[r].rows), forced[p], Catalog(p, req[r].rows)) \in Values
      BY <3>1, RecomputedType
    <3>3. QED
      BY <1>13, <2>1, <3>2 DEF Sync
  <2>5. QED
    BY <1>13, <2>2, <2>3, <2>4 DEF RequestTypes, Sync, layer
<1>14. ASSUME NEW r \in Requests, Activate(r) PROVE TypeInv'
  <2>1. At(r, "activate") /\ req[r].proj \in Projects
    BY <1>14 DEF Activate, At, RequestOK
  <2>2. RequestTypes'
    <3>1. CASE Goto(r, "again")
      BY <2>1, <3>1, Goes, TypeMove DEF At, Pc
    <3>2. CASE Finish(r)
      BY <3>2, Finishes, TypeMove
    <3>3. QED
      BY <1>14, <3>1, <3>2 DEF Activate
  <2>3. QED
    BY <1>14, <2>1, <2>2, MaybeFacts DEF RequestTypes, Activate, layer
<1>15. ASSUME NEW r \in Requests, SyncAgain(r) PROVE TypeInv'
  <2>1. req[r].proj \in Projects /\ req[r].rows \in SUBSET Tags
    BY <1>15, RequestFields DEF SyncAgain, At, RequestOK
  <2>2. RequestTypes'
    BY <1>15, Finishes, TypeMove DEF SyncAgain
  <2>3. value' \in [Projects -> Values] /\ forced' \in [Projects -> Values]
    BY <1>15, <2>1, SignalTypes DEF SyncAgain
  <2>4. QED
    BY <1>15, <2>1, <2>2, <2>3 DEF RequestTypes, SyncAgain, layer
<1>16. QED
  BY <1>1, <1>2, <1>3, <1>4, <1>5, <1>6, <1>7, <1>8, <1>9, <1>10, <1>11, <1>12, <1>13,
     <1>14, <1>15 DEF Next, Serve, LayerStep

LEMMA Typed == Spec => []TypeInv
  BY TypeInit, TypeStep, PTL DEF Spec

\* Whatever requests, deploys and loads do, every variable has its type.
THEOREM TypeCorrect == Spec => []TypeOK
<1>1. TypeInv => TypeOK
  BY DEF TypeInv
<1>2. QED
  BY <1>1, Typed, PTL

(***************************************************************************)
(* The derived tags agree.  Inductive with the catalogs: who is past the   *)
(* first look at a project finds one, and without one nothing is known.    *)
(***************************************************************************)
Catalogued == {"change", "apply", "record", "push", "pushing", "traced", "tracing", "report",
               "reporting", "activate", "again"}

CatalogInv ==
    /\ \A r \in Requests : req[r].pc \in Catalogued => catalog[req[r].proj] # None
    /\ \A p \in Projects : catalog[p] = None =>
         value[p] = Blank /\ forced[p] = Blank /\ cycle[p] = None

SignalInv == TypeInv /\ CatalogInv /\ DerivedTagsAgree

LEMMA DerivedForm ==
    DerivedTagsAgree <=> \A p \in Projects : DerivedOK(value[p], forced[p], catalog[p])
  BY DEF DerivedTagsAgree, DerivedOK

\* All that a step does to the signals: nothing, a new catalog, or a change of a project
\* that has one.
NewCatalog(p, rows) ==
    /\ rows \in SUBSET Tags /\ catalog[p] = None
    /\ catalog' = [catalog EXCEPT ![p] = rows]
    /\ value' = [value EXCEPT ![p] = Ensured(p, rows)]
    /\ UNCHANGED forced

Classified ==
    \/ UNCHANGED <<catalog, value, forced>>
    \/ \E p \in Projects : \E rows : NewCatalog(p, rows)
    \/ /\ UNCHANGED catalog
       /\ \E p \in Projects : \E v, f \in Values : catalog[p] # None /\ SetSignals(p, v, f)

LEMMA Ensuring ==
    ASSUME TypeInv, NEW p \in Projects, Ensures(p), UNCHANGED forced
    PROVE  /\ UNCHANGED <<catalog, value, forced>> \/ NewCatalog(p, mapping[p])
           /\ catalog'[p] # None /\ value'[p] = Ensured(p, mapping[p])
<1>1. mapping[p] \in SUBSET Tags /\ mapping[p] # None
  BY NoneAssumption DEF TypeInv, TypeOK
<1>2. catalog'[p] = Catalog(p, mapping[p]) /\ value'[p] = Ensured(p, mapping[p])
  BY DEF Ensures, Ensure, TypeInv, TypeOK
<1>3. CASE catalog[p] = None
  BY <1>1, <1>2, <1>3 DEF Ensures, Ensure, Catalog, NewCatalog
<1>4. CASE catalog[p] # None
  <2>1. [catalog EXCEPT ![p] = catalog[p]] = catalog /\ [value EXCEPT ![p] = value[p]] = value
    BY DEF TypeInv, TypeOK
  <2>2. QED
    BY <1>2, <1>4, <2>1 DEF Ensures, Ensure, Catalog, Ensured
<1>5. QED
  BY <1>3, <1>4

\* A catalog stays.
LEMMA CatalogStays ==
    ASSUME TypeInv, Classified, NEW p \in Projects, catalog[p] # None
    PROVE  catalog'[p] # None /\ catalog'[p] = catalog[p]
  BY NoneAssumption DEF Classified, NewCatalog, TypeInv, TypeOK

LEMMA DerivedKept ==
    ASSUME SignalInv, Classified
    PROVE  DerivedTagsAgree'
<1>1. \A p \in Projects : DerivedOK(value[p], forced[p], catalog[p])
  BY DerivedForm DEF SignalInv
<1> SUFFICES ASSUME NEW p \in Projects PROVE DerivedOK(value'[p], forced'[p], catalog'[p])
  BY DEF DerivedTagsAgree, DerivedOK
<1>2. CASE UNCHANGED <<catalog, value, forced>>
  BY <1>1, <1>2
<1>3. ASSUME NEW x \in Projects, NEW rows, NewCatalog(x, rows)
      PROVE  DerivedOK(value'[p], forced'[p], catalog'[p])
  <2>1. CASE x = p
    <3>1. value'[p] = Ensured(p, rows) /\ catalog'[p] = rows
      BY <1>3, <2>1 DEF NewCatalog, SignalInv, TypeInv, TypeOK
    <3>2. DerivedOK(Ensured(p, rows), forced'[p], rows)
      BY <1>3, <2>1, EnsuredOK DEF NewCatalog
    <3>3. QED
      BY <3>1, <3>2
  <2>2. CASE x # p
    <3>1. value'[p] = value[p] /\ catalog'[p] = catalog[p] /\ forced'[p] = forced[p]
      BY <1>3, <2>2 DEF NewCatalog, SignalInv, TypeInv, TypeOK
    <3>2. QED
      BY <1>1, <3>1
  <2>3. QED
    BY <2>1, <2>2
<1>4. ASSUME UNCHANGED catalog, NEW x \in Projects, NEW v \in Values, NEW f \in Values,
             catalog[x] # None, SetSignals(x, v, f)
      PROVE  DerivedOK(value'[p], forced'[p], catalog'[p])
  <2>1. catalog[x] \in SUBSET Tags
    BY <1>4, MaybeFacts DEF SignalInv, TypeInv, TypeOK
  <2>2. CASE x = p
    <3>1. /\ value'[p] = Recomputed(v, f, catalog[p]) /\ forced'[p] = f
          /\ catalog'[p] = catalog[p]
      BY <1>4, <2>2 DEF SetSignals, SignalInv, TypeInv, TypeOK
    <3>2. DerivedOK(Recomputed(v, f, catalog[p]), f, catalog[p])
      BY <2>1, <2>2, RecomputedOK
    <3>3. QED
      BY <3>1, <3>2
  <2>3. CASE x # p
    <3>1. value'[p] = value[p] /\ catalog'[p] = catalog[p] /\ forced'[p] = forced[p]
      BY <1>4, <2>3 DEF SetSignals, SignalInv, TypeInv, TypeOK
    <3>2. QED
      BY <1>1, <3>1
  <2>4. QED
    BY <2>2, <2>3
<1>5. QED
  BY <1>2, <1>3, <1>4 DEF Classified

\* The catalogs when a request moves.
LEMMA CatalogKept ==
    ASSUME SignalInv, Classified, NEW r \in Requests, NEW q, Moves(r, q),
           q.pc \in Catalogued => catalog'[q.proj] # None,
           \A p \in Projects : catalog[p] = None => cycle'[p] = cycle[p]
    PROVE  CatalogInv'
<1>1. \A x \in Requests : req'[x].pc \in Catalogued => catalog'[req'[x].proj] # None
  <2> SUFFICES ASSUME NEW x \in Requests, req'[x].pc \in Catalogued
               PROVE  catalog'[req'[x].proj] # None
    OBVIOUS
  <2>1. CASE x = r
    BY <2>1, Moved DEF SignalInv
  <2>2. CASE x # r
    <3>1. req'[x] = req[x] /\ req[x].proj \in Projects
      BY <2>2, Moved DEF SignalInv, TypeInv, RequestOK, Catalogued
    <3>2. catalog[req[x].proj] # None
      BY <3>1 DEF SignalInv, CatalogInv
    <3>3. QED
      BY <3>1, <3>2, CatalogStays DEF SignalInv
  <2>3. QED
    BY <2>1, <2>2
<1>2. ASSUME NEW p \in Projects, catalog'[p] = None
      PROVE  value'[p] = Blank /\ forced'[p] = Blank /\ cycle'[p] = None
  <2>1. catalog[p] = None
    BY <1>2, CatalogStays DEF SignalInv
  <2>2. value[p] = Blank /\ forced[p] = Blank /\ cycle[p] = None
    BY <2>1 DEF SignalInv, CatalogInv
  <2>3. value'[p] = value[p] /\ forced'[p] = forced[p]
    <3>1. CASE UNCHANGED <<catalog, value, forced>>
      BY <3>1
    <3>2. ASSUME NEW x \in Projects, NEW rows, NewCatalog(x, rows)
          PROVE  value'[p] = value[p] /\ forced'[p] = forced[p]
      BY <1>2, <3>2, NoneAssumption DEF NewCatalog, SignalInv, TypeInv, TypeOK
    <3>3. ASSUME NEW x \in Projects, NEW v \in Values, NEW f \in Values,
                 catalog[x] # None, SetSignals(x, v, f)
          PROVE  value'[p] = value[p] /\ forced'[p] = forced[p]
      BY <2>1, <3>3 DEF SetSignals, SignalInv, TypeInv, TypeOK
    <3>4. QED
      BY <3>1, <3>2, <3>3 DEF Classified
  <2>4. QED
    BY <2>1, <2>2, <2>3
<1>3. QED
  BY <1>1, <1>2 DEF CatalogInv

LEMMA CatalogInit == Init => CatalogInv /\ DerivedTagsAgree
  BY DEF Init, CatalogInv, DerivedTagsAgree, Idle, Catalogued, Blank

\* The steps that first see to it that there is a catalog.
LEMMA EnsuringStep ==
    ASSUME SignalInv, NEW p \in Projects, Ensures(p), UNCHANGED <<forced, cycle>>,
           NEW r \in Requests, NEW q, Moves(r, q), q.proj = p
    PROVE  Classified /\ CatalogInv'
<1>1. Classified /\ catalog'[p] # None
  BY Ensuring DEF SignalInv, Classified
<1>2. QED
  BY <1>1, CatalogKept

\* The steps that change what a project with a catalog has.
LEMMA SettingStep ==
    ASSUME SignalInv, NEW p \in Projects, catalog[p] # None,
           NEW v \in Values, NEW f \in Values,
           SetSignals(p, v, f), UNCHANGED <<catalog, cycle>>,
           NEW r \in Requests, NEW q, Moves(r, q), q.pc \in Catalogued => q.proj = p
    PROVE  Classified /\ CatalogInv'
<1>1. Classified
  BY DEF Classified
<1>2. QED
  BY <1>1, CatalogKept

\* The steps that change no signal.
LEMMA OtherStep ==
    ASSUME SignalInv, UNCHANGED <<catalog, value, forced>>,
           NEW r \in Requests, NEW q, Moves(r, q),
           q.pc \in Catalogued => q.proj \in Projects /\ catalog[q.proj] # None,
           \A p \in Projects : catalog[p] = None => cycle'[p] = cycle[p]
    PROVE  Classified /\ CatalogInv'
<1>1. Classified
  BY DEF Classified
<1>2. QED
  BY <1>1, CatalogKept

LEMMA CatalogOf ==
    ASSUME SignalInv, NEW r \in Requests, req[r].pc \in Catalogued
    PROVE  /\ req[r].proj \in Projects /\ catalog[req[r].proj] # None
           /\ catalog[req[r].proj] \in SUBSET Tags
           /\ value[req[r].proj] \in Values /\ forced[req[r].proj] \in Values
           /\ DerivedOK(value[req[r].proj], forced[req[r].proj], catalog[req[r].proj])
<1>1. req[r].proj \in Projects
  BY DEF SignalInv, TypeInv, RequestOK, Catalogued
<1>2. catalog[req[r].proj] # None
  BY DEF SignalInv, CatalogInv
<1>3. QED
  BY <1>1, <1>2, DerivedForm, MaybeFacts DEF SignalInv, TypeInv, TypeOK

LEMMA ChangeStep ==
    ASSUME SignalInv, NEW r \in Requests, ApplyForce(r) \/ ClearForce(r)
    PROVE  Classified /\ CatalogInv'
<1> DEFINE p == req[r].proj
           t == req[r].tag
<1>1. At(r, "change") /\ req[r].pc \in Catalogued
  BY DEF ApplyForce, ClearForce, At, Catalogued
<1>2. p \in Projects /\ catalog[p] # None /\ value[p] \in Values /\ forced[p] \in Values
  BY <1>1, CatalogOf
<1>3. \A x \in Maybe(Switch) : /\ [value[p] EXCEPT ![t] = x] \in Values
                               /\ [forced[p] EXCEPT ![t] = x] \in Values
  BY <1>2 DEF Values
<1>4. Default(t) \in Maybe(Switch) /\ req[r].to \in Maybe(Switch) /\ None \in Maybe(Switch)
  <2>1. req[r].to \in Switch
    BY RequestFields DEF SignalInv, TypeInv, RequestOK
  <2>2. QED
    BY <2>1 DEF Default, Switch, Maybe
<1>5. UNCHANGED <<catalog, cycle>>
  BY DEF ApplyForce, ClearForce
<1>6. CASE Changed(r) /\ \E v, f \in Values : SetSignals(p, v, f)
  <2>1. PICK q : Moves(r, q) /\ q.pc = "snapshot"
    BY <1>1, <1>6, ChangeMoves DEF SignalInv
  <2>2. QED
    BY <1>2, <1>5, <1>6, <2>1, SettingStep DEF Catalogued
<1>7. CASE Finish(r) /\ UNCHANGED <<value, forced>>
  BY <1>5, <1>7, Finishes, OtherStep DEF Catalogued
<1>8. QED
  <2>1. CASE ApplyForce(r)
    BY <1>3, <1>4, <1>6, <1>7, <2>1 DEF ApplyForce
  <2>2. CASE ClearForce(r)
    BY <1>3, <1>4, <1>6, <1>7, <2>2 DEF ClearForce
  <2>3. QED
    BY <2>1, <2>2

\* The first sync of a deploy: with a catalog nothing changes, whatever rows it brings.
LEMMA SyncStep ==
    ASSUME SignalInv, NEW r \in Requests, Sync(r)
    PROVE  Classified /\ CatalogInv'
<1> DEFINE p == req[r].proj
           rows == req[r].rows
<1>1. At(r, "sync") /\ p \in Projects /\ rows \in SUBSET Tags /\ rows # None
  BY RequestFields, NoneAssumption DEF Sync, At, SignalInv, TypeInv, RequestOK
<1>2. /\ catalog' = [catalog EXCEPT ![p] = Catalog(p, rows)]
      /\ value' = [value EXCEPT ![p] =
                      Recomputed(Ensured(p, rows), forced[p], Catalog(p, rows))]
      /\ UNCHANGED <<forced, cycle>>
  BY DEF Sync, Ensure
<1>3. Ensured(p, rows) \in Values
  BY <1>1, EnsuredType DEF SignalInv, TypeInv, TypeOK
<1>4. Catalog(p, rows) \in SUBSET Tags /\ Catalog(p, rows) # None
  BY <1>1, MaybeFacts DEF Catalog, SignalInv, TypeInv, TypeOK
<1>5. DerivedOK(Ensured(p, rows), forced[p], Catalog(p, rows))
  <2>1. CASE catalog[p] = None
    BY <1>1, <2>1, EnsuredOK DEF Catalog
  <2>2. CASE catalog[p] # None
    BY <1>1, <2>2, DerivedForm DEF Catalog, Ensured, SignalInv
  <2>3. QED
    BY <2>1, <2>2
<1>6. value' = [value EXCEPT ![p] = Ensured(p, rows)]
  BY <1>2, <1>3, <1>4, <1>5, RecomputedFixed
<1>7. Classified
  <2>1. CASE catalog[p] = None
    BY <1>1, <1>2, <1>6, <2>1 DEF Classified, NewCatalog, Catalog
  <2>2. CASE catalog[p] # None
    <3>1. [catalog EXCEPT ![p] = catalog[p]] = catalog /\ [value EXCEPT ![p] = value[p]] = value
      BY DEF SignalInv, TypeInv, TypeOK
    <3>2. QED
      BY <1>2, <1>6, <2>2, <3>1 DEF Classified, Catalog, Ensured
  <2>3. QED
    BY <2>1, <2>2
<1>8. catalog'[p] # None
  BY <1>1, <1>2, <1>4 DEF SignalInv, TypeInv, TypeOK
<1>9. \E q : Moves(r, q) /\ (q.pc \in Catalogued => q.proj = p)
  <2>1. CASE Goto(r, "activate")
    <3>1. "activate" \in Pc /\ req[r].pc # "idle"
      BY <1>1 DEF Pc, At
    <3>2. QED
      BY <2>1, <3>1, Goes DEF SignalInv
  <2>2. CASE Finish(r)
    BY <2>2, Finishes DEF Catalogued
  <2>3. QED
    BY <2>1, <2>2 DEF Sync
<1>10. QED
  BY <1>2, <1>7, <1>8, <1>9, CatalogKept

LEMMA SyncAgainStep ==
    ASSUME SignalInv, NEW r \in Requests, SyncAgain(r)
    PROVE  Classified /\ CatalogInv'
<1> DEFINE p == req[r].proj
<1>1. req[r].pc \in Catalogued /\ SetSignals(p, value[p], forced[p]) /\ Finish(r)
      /\ UNCHANGED <<catalog, cycle>>
  BY DEF SyncAgain, At, Catalogued
<1>2. p \in Projects /\ catalog[p] # None /\ value[p] \in Values /\ forced[p] \in Values
  BY <1>1, CatalogOf
<1>3. QED
  BY <1>1, <1>2, Finishes, SettingStep DEF Catalogued

LEMMA SignalStep == SignalInv /\ [Next]_vars => CatalogInv' /\ DerivedTagsAgree'
<1> SUFFICES ASSUME SignalInv, [Next]_vars PROVE Classified /\ CatalogInv'
  BY DerivedKept
<1> USE DEF SignalInv
<1>1. CASE UNCHANGED vars
  BY <1>1 DEF vars, Classified, CatalogInv
<1>2. ASSUME NEW p \in Projects, MapIo(p) PROVE Classified /\ CatalogInv'
  BY <1>2 DEF MapIo, Classified, CatalogInv
<1>3. ASSUME NEW r \in Requests, NEW p \in Projects,
             Guard(r, p) \/ Simulate(r, p) \/ Deploy(r, p)
      PROVE  Classified /\ CatalogInv'
  BY <1>3, EnterMoves, OtherStep DEF Catalogued
<1>4. ASSUME NEW r \in Requests, NEW p \in Projects, Summary(r, p)
      PROVE  Classified /\ CatalogInv'
  <2>1. UNCHANGED <<forced, cycle>>
    BY <1>4 DEF Summary
  <2>2. QED
    BY <1>4, <2>1, SummaryMoves, EnsuringStep
<1>5. ASSUME NEW r \in Requests, Baseline(r) \/ Snapshot(r) \/ Sample(r)
      PROVE  Classified /\ CatalogInv'
  <2>1. UNCHANGED <<forced, cycle>>
    BY <1>5 DEF Baseline, Snapshot, Sample
  <2>2. /\ req[r].proj \in Projects /\ Ensures(req[r].proj)
        /\ \E q : Moves(r, q) /\ q.proj = req[r].proj
    BY <1>5, BaselineMoves, SnapshotMoves, SampleMoves
  <2>3. QED
    BY <2>1, <2>2, EnsuringStep
<1>6. ASSUME NEW r \in Requests, ApplyForce(r) \/ ClearForce(r)
      PROVE  Classified /\ CatalogInv'
  BY <1>6, ChangeStep
<1>7. ASSUME NEW r \in Requests, ApplyCycle(r) PROVE Classified /\ CatalogInv'
  <2> DEFINE p == req[r].proj
             v == Over(req[r].work, value[p])
  <2>1. /\ req[r].pc \in Catalogued /\ SetSignals(p, v, forced[p])
        /\ UNCHANGED <<catalog, cycle>>
    BY <1>7 DEF ApplyCycle, At, Catalogued
  <2>2. p \in Projects /\ catalog[p] # None /\ value[p] \in Values /\ forced[p] \in Values
    BY <2>1, CatalogOf
  <2>3. v \in Values
    <3>1. req[r].work \in Values
      BY RequestFields DEF TypeInv, TypeOK
    <3>2. QED
      BY <2>2, <3>1, OverType
  <2>4. \E q : Moves(r, q) /\ q.proj = p
    BY <1>7, ApplyMoves
  <2> HIDE DEF v
  <2>5. QED
    BY <2>1, <2>2, <2>3, <2>4, SettingStep
<1>8. ASSUME NEW r \in Requests, RecordCycle(r) PROVE Classified /\ CatalogInv'
  <2>1. /\ req[r].pc \in Catalogued /\ UNCHANGED <<catalog, value, forced>>
        /\ cycle' = [cycle EXCEPT ![req[r].proj] = ActiveLevels(req[r].work)]
    BY <1>8 DEF RecordCycle, At, Catalogued
  <2>2. req[r].proj \in Projects /\ catalog[req[r].proj] # None
    BY <2>1, CatalogOf
  <2>3. \A p \in Projects : catalog[p] = None => cycle'[p] = cycle[p]
    BY <2>1, <2>2 DEF TypeInv, TypeOK
  <2>4. \E q : Moves(r, q) /\ q.proj = req[r].proj
    BY <1>8, RecordMoves
  <2>5. QED
    BY <2>1, <2>2, <2>3, <2>4, OtherStep
<1>9. ASSUME NEW r \in Requests,
             (\E p \in Projects : LoadRows(r, p)) \/ LayerStep(r)
      PROVE  Classified /\ CatalogInv'
  <2>1. CASE \E p \in Projects : LoadRows(r, p)
    BY <2>1, LoadMoves, OtherStep DEF Catalogued
  <2>2. CASE LayerStep(r)
    <3>1. PICK q : /\ Moves(r, q)
                   /\ q.pc \in {"idle", "trace"}
                      \/ (q.proj = req[r].proj /\ req[r].pc # "load")
      BY <2>2, LayerMoves
    <3>2. UNCHANGED <<catalog, value, forced, cycle>> /\ req[r].pc \in LayerPc
      BY <2>2, LayerMoves
    <3>3. q.pc \in Catalogued => req[r].pc \in Catalogued /\ q.proj = req[r].proj
      BY <3>1, <3>2 DEF Catalogued, LayerPc
    <3>4. q.pc \in Catalogued => q.proj \in Projects /\ catalog[q.proj] # None
      BY <3>3, CatalogOf
    <3>5. QED
      BY <3>1, <3>2, <3>4, OtherStep
  <2>3. QED
    BY <1>9, <2>1, <2>2
<1>10. ASSUME NEW r \in Requests, Sync(r) \/ SyncAgain(r) PROVE Classified /\ CatalogInv'
  BY <1>10, SyncStep, SyncAgainStep
<1>11. ASSUME NEW r \in Requests, Activate(r) PROVE Classified /\ CatalogInv'
  <2>1. /\ req[r].pc \in Catalogued /\ req[r].pc # "idle"
        /\ UNCHANGED <<catalog, value, forced, cycle>>
    BY <1>11 DEF Activate, At, Catalogued
  <2>2. req[r].proj \in Projects /\ catalog[req[r].proj] # None
    BY <2>1, CatalogOf
  <2>3. \E q : Moves(r, q) /\ (q.pc \in Catalogued => q.proj = req[r].proj)
    <3>1. CASE Goto(r, "again")
      <4>1. "again" \in Pc
        BY DEF Pc
      <4>2. QED
        BY <2>1, <3>1, <4>1, Goes
    <3>2. CASE Finish(r)
      BY <3>2, Finishes DEF Catalogued
    <3>3. QED
      BY <1>11, <3>1, <3>2 DEF Activate
  <2>4. QED
    BY <2>1, <2>2, <2>3, OtherStep
<1>12. QED
  BY <1>1, <1>2, <1>3, <1>4, <1>5, <1>6, <1>7, <1>8, <1>9, <1>10, <1>11
  DEF Next, Serve, LayerStep

LEMMA SignalHolds == Spec => []SignalInv
<1>1. Init => CatalogInv /\ DerivedTagsAgree
  BY CatalogInit
<1>2. TypeInv /\ CatalogInv /\ DerivedTagsAgree /\ [Next]_vars
      => CatalogInv' /\ DerivedTagsAgree'
  BY SignalStep DEF SignalInv
<1>3. SignalInv <=> TypeInv /\ CatalogInv /\ DerivedTagsAgree
  BY DEF SignalInv
<1>4. QED
  BY <1>1, <1>2, <1>3, TypeInit, TypeStep, PTL DEF Spec

\* However the requests on a project interleave, a status that is not forced is its
\* command's value and the plant fault the sum of the catalog's faults: every writer of
\* the values recomputes them before it lets go of the lock.
THEOREM DerivedTags == Spec => []DerivedTagsAgree
<1>1. SignalInv => DerivedTagsAgree
  BY DEF SignalInv
<1>2. QED
  BY <1>1, SignalHolds, PTL

(***************************************************************************)
(* Levels, commands and faults, which no evaluation and no recomputation   *)
(* changes; only rows that were written back can.                          *)
(***************************************************************************)
Steady(t) == t.kind \in {"level", "cmd", "fault"}
SameSteady(v, w) == \A t \in Tags : Steady(t) => v[t] = w[t]

LEMMA SteadyKept ==
    ASSUME NEW v \in Values
    PROVE  /\ SameSteady(Evaluated(v), v)
           /\ \A f, tags : SameSteady(Recomputed(v, f, tags), v)
<1>1. ASSUME NEW t \in Tags, Steady(t) PROVE Evaluated(v)[t] = v[t]
  BY <1>1, OfKind DEF Evaluated, Steady
<1>2. ASSUME NEW t \in Tags, Steady(t), NEW f, NEW tags PROVE Recomputed(v, f, tags)[t] = v[t]
  BY <1>2, OfKind DEF Recomputed, Steady
<1>3. QED
  BY <1>1, <1>2 DEF SameSteady

LEMMA SteadyLevels ==
    ASSUME NEW v, NEW w, SameSteady(v, w)
    PROVE  ActiveLevels(v) = ActiveLevels(w)
  BY DEF ActiveLevels, SameSteady, Steady

\* With one request at a time: a forced value holds; what a cycle will write back and
\* report is what the tags are; and the levels it reported are those in alarm, unless a
\* cycle is still to come.
ForcesHold ==
    \A p \in Projects : \A t \in Tags :
        Steady(t) /\ forced[p][t] # None => value[p][t] = forced[p][t]

WorkIsFresh ==
    \A r \in Requests : req[r].pc \in {"apply", "record"} =>
        SameSteady(req[r].work, value[req[r].proj])

ReportPending(p) ==
    \E r \in Requests : req[r].proj = p /\ req[r].pc \in {"snapshot", "apply", "record"}

ListedOrComing ==
    \A p \in Projects :
        cycle[p] = None \/ cycle[p] = ActiveLevels(value[p]) \/ ReportPending(p)

SerialInv == ForcesHold /\ WorkIsFresh /\ ListedOrComing

\* What every step but a force and a clear does to them: no force changes, and no steady
\* value of a project that had a catalog.
Calm ==
    /\ UNCHANGED forced
    /\ \A p \in Projects : catalog[p] # None => SameSteady(value'[p], value[p])

LEMMA CalmForces ==
    ASSUME SignalInv, ForcesHold, Calm
    PROVE  ForcesHold'
<1> SUFFICES ASSUME NEW p \in Projects, NEW t \in Tags, Steady(t), forced[p][t] # None
             PROVE  value'[p][t] = forced[p][t]
  BY DEF ForcesHold, Calm
<1>1. catalog[p] # None
  BY DEF SignalInv, CatalogInv, Blank
<1>2. value'[p][t] = value[p][t]
  BY <1>1 DEF Calm, SameSteady
<1>3. QED
  BY <1>2 DEF ForcesHold

\* A calm step of the only request.
LEMMA CalmStep ==
    ASSUME SignalInv, SerialInv, Calm, NEW r \in Requests, Requests = {r},
           NEW q, Moves(r, q),
           q.pc \in {"apply", "record"} =>
             q.proj \in Projects /\ SameSteady(q.work, value'[q.proj]),
           \A p \in Projects :
             \/ catalog[p] = None /\ cycle'[p] = cycle[p]
             \/ /\ cycle'[p] = cycle[p]
                /\ req[r].proj = p /\ req[r].pc \in {"snapshot", "apply", "record"} =>
                     q.proj = p /\ q.pc \in {"snapshot", "apply", "record"}
             \/ catalog[p] # None /\ cycle'[p] = ActiveLevels(value[p])
    PROVE  SerialInv'
<1>1. req'[r] = q
  BY Moved DEF SignalInv
<1>2. ForcesHold'
  BY CalmForces DEF SerialInv
<1>3. WorkIsFresh'
  BY <1>1 DEF WorkIsFresh
<1>4. ASSUME NEW p \in Projects
      PROVE  cycle'[p] = None \/ cycle'[p] = ActiveLevels(value'[p]) \/ ReportPending(p)'
  <2>1. CASE catalog[p] = None
    <3>1. cycle[p] = None
      BY <2>1 DEF SignalInv, CatalogInv
    <3>2. QED
      BY <2>1, <3>1
  <2>2. CASE catalog[p] # None
    <3>1. ActiveLevels(value'[p]) = ActiveLevels(value[p])
      BY <2>2, SteadyLevels DEF Calm
    <3>2. cycle[p] = None \/ cycle[p] = ActiveLevels(value[p]) \/ ReportPending(p)
      BY DEF SerialInv, ListedOrComing
    <3>3. ReportPending(p) => req[r].proj = p /\ req[r].pc \in {"snapshot", "apply", "record"}
      BY DEF ReportPending
    <3>4. q.proj = p /\ q.pc \in {"snapshot", "apply", "record"} => ReportPending(p)'
      BY <1>1 DEF ReportPending
    <3>5. QED
      BY <2>2, <3>1, <3>2, <3>3, <3>4
  <2>3. QED
    BY <2>1, <2>2
<1>5. QED
  BY <1>2, <1>3, <1>4 DEF SerialInv, ListedOrComing

\* What the steps do that see to a catalog first.
LEMMA EnsuresCalmly ==
    ASSUME SignalInv, NEW p \in Projects, Ensures(p), UNCHANGED forced
    PROVE  /\ \A x \in Projects : catalog[x] # None => value'[x] = value[x]
           /\ value'[p] = Ensured(p, mapping[p]) /\ value'[p] \in Values
<1>1. UNCHANGED <<catalog, value, forced>> \/ NewCatalog(p, mapping[p])
  BY Ensuring DEF SignalInv
<1>2. \A x \in Projects : catalog[x] # None => value'[x] = value[x]
  BY <1>1 DEF NewCatalog, SignalInv, TypeInv, TypeOK
<1>3. value'[p] = Ensured(p, mapping[p])
  BY Ensuring DEF SignalInv
<1>4. QED
  BY <1>2, <1>3, EnsuredType DEF SignalInv, TypeInv, TypeOK

LEMMA SameIsSteady == \A v : SameSteady(v, v)
  BY DEF SameSteady

\* A force or a clear of the only request: the tag has the value it is forced to, or no
\* force, and a cycle is to come.
LEMMA ChangeSerial ==
    ASSUME SignalInv, SerialInv, NEW r \in Requests, Requests = {r},
           ApplyForce(r) \/ ClearForce(r)
    PROVE  SerialInv'
<1>1. PICK p : p = req[r].proj
  OBVIOUS
<1>2. PICK t : t = req[r].tag
  OBVIOUS
<1>3. At(r, "change") /\ UNCHANGED <<catalog, cycle>>
  BY DEF ApplyForce, ClearForce
<1>4. /\ p \in Projects /\ t \in Tags /\ catalog[p] # None
      /\ value[p] \in Values /\ forced[p] \in Values
  BY <1>1, <1>2, <1>3, CatalogOf, RequestFields DEF At, Catalogued, SignalInv, TypeInv, RequestOK
<1>5. CASE Finish(r) /\ UNCHANGED <<value, forced>>
  <2>1. Moves(r, Idle) /\ Idle.pc = "idle"
    BY <1>5, Finishes
  <2>2. Calm
    BY <1>5, SameIsSteady DEF Calm
  <2>3. \A x \in Projects : /\ cycle'[x] = cycle[x]
                            /\ req[r].pc \notin {"snapshot", "apply", "record"}
    BY <1>3 DEF At
  <2>4. QED
    BY <2>1, <2>2, <2>3, CalmStep
<1>6. ASSUME Changed(r), NEW k \in Switch, NEW m \in Maybe(Switch), m \in {None, k},
             SetSignals(p, [value[p] EXCEPT ![t] = k], [forced[p] EXCEPT ![t] = m])
      PROVE  SerialInv'
  <2>1. PICK q : Moves(r, q) /\ q.pc = "snapshot" /\ q.proj = p
    BY <1>1, <1>3, <1>6, ChangeMoves DEF SignalInv
  <2>2. req'[r] = q
    BY <2>1, Moved DEF SignalInv
  <2>3. PICK v : v = [value[p] EXCEPT ![t] = k]
    OBVIOUS
  <2>4. v \in Values
    BY <1>4, <2>3, MaybeFacts DEF Values
  <2>5. PICK w : w = Recomputed(v, [forced[p] EXCEPT ![t] = m], catalog[p])
    OBVIOUS
  <2>6. /\ value'[p] = w /\ forced'[p] = [forced[p] EXCEPT ![t] = m]
        /\ \A x \in Projects \ {p} : value'[x] = value[x] /\ forced'[x] = forced[x]
    BY <1>4, <1>6, <2>3, <2>5 DEF SetSignals, SignalInv, TypeInv, TypeOK
  <2>7. SameSteady(w, v)
    BY <2>4, <2>5, SteadyKept
  <2>8. ForcesHold'
    <3> SUFFICES ASSUME NEW x \in Projects, NEW s \in Tags, Steady(s), forced'[x][s] # None
                 PROVE  value'[x][s] = forced'[x][s]
      BY DEF ForcesHold
    <3>1. CASE x # p
      BY <2>6, <3>1 DEF SerialInv, ForcesHold
    <3>2. CASE x = p /\ s = t
      <4>1. forced'[p][t] = m /\ v[t] = k
        BY <1>4, <2>3, <2>6 DEF Values
      <4>2. w[t] = v[t]
        BY <2>7, <3>2 DEF SameSteady
      <4>3. QED
        BY <1>6, <2>6, <3>2, <4>1, <4>2
    <3>3. CASE x = p /\ s # t
      <4>1. forced'[p][s] = forced[p][s] /\ v[s] = value[p][s]
        BY <1>4, <2>3, <2>6, <3>3 DEF Values
      <4>2. w[s] = v[s]
        BY <2>7 DEF SameSteady
      <4>3. QED
        BY <1>4, <2>6, <3>3, <4>1, <4>2 DEF SerialInv, ForcesHold
    <3>4. QED
      BY <3>1, <3>2, <3>3
  <2>9. WorkIsFresh'
    BY <2>1, <2>2 DEF WorkIsFresh
  <2>10. ListedOrComing'
    <3>1. ReportPending(p)'
      BY <2>1, <2>2 DEF ReportPending
    <3>2. \A x \in Projects \ {p} : ~ReportPending(x)
      BY <1>1, <1>3 DEF ReportPending, At
    <3>3. QED
      BY <1>3, <2>6, <3>1, <3>2 DEF SerialInv, ListedOrComing
  <2>11. QED
    BY <2>8, <2>9, <2>10 DEF SerialInv
<1>7. QED
  <2>1. CASE ApplyForce(r)
    <3>1. req[r].to \in Switch
      BY RequestFields DEF SignalInv, TypeInv, RequestOK
    <3>2. req[r].to \in Maybe(Switch)
      BY <3>1, MaybeFacts
    <3>3. CASE Changed(r)
      BY <1>1, <1>2, <1>5, <1>6, <2>1, <3>1, <3>2, <3>3 DEF ApplyForce
    <3>4. CASE ~Changed(r)
      BY <1>1, <1>2, <1>5, <2>1, <3>4 DEF ApplyForce
    <3>5. QED
      BY <3>3, <3>4
  <2>2. CASE ClearForce(r)
    <3>1. Default(t) \in Switch /\ None \in Maybe(Switch)
      BY MaybeFacts DEF Default, Switch
    <3>2. CASE t \in catalog[p]
      BY <1>1, <1>2, <1>6, <2>2, <3>1, <3>2 DEF ClearForce
    <3>3. CASE t \notin catalog[p]
      BY <1>1, <1>2, <1>5, <2>2, <3>3 DEF ClearForce
    <3>4. QED
      BY <3>2, <3>3
  <2>3. QED
    BY <2>1, <2>2

LEMMA SameSteadily ==
    ASSUME NEW u, NEW v, NEW w, SameSteady(u, v), SameSteady(v, w)
    PROVE  SameSteady(u, w) /\ SameSteady(v, u)
  BY DEF SameSteady

\* What a request that looks at its project's values does to the steady ones, and what
\* it takes along.
LEMMA LookSerial ==
    ASSUME SignalInv, SerialInv, NEW r \in Requests, Requests = {r}, NEW p \in Projects,
           Ensures(p), UNCHANGED <<forced, cycle>>, NEW q, Moves(r, q), q.proj = p,
           q.pc \in {"apply", "record"} =>
             q.pc = "apply" /\ q.work = Evaluated(Ensured(p, mapping[p])),
           req[r].pc \in {"snapshot", "apply", "record"} =>
             req[r].proj = p /\ q.pc \in {"snapshot", "apply", "record"}
    PROVE  SerialInv'
<1>1. /\ \A x \in Projects : catalog[x] # None => value'[x] = value[x]
      /\ value'[p] = Ensured(p, mapping[p]) /\ value'[p] \in Values
  BY EnsuresCalmly
<1>2. Calm
  BY <1>1, SameIsSteady DEF Calm
<1>3. PICK v : v = value'[p]
  OBVIOUS
<1>4. q.pc \in {"apply", "record"} => SameSteady(q.work, v)
  BY <1>1, <1>3, SteadyKept
<1>5. q.pc \in {"apply", "record"} => q.proj \in Projects /\ SameSteady(q.work, value'[q.proj])
  BY <1>3, <1>4
<1>6. \A x \in Projects :
        /\ cycle'[x] = cycle[x]
        /\ req[r].proj = x /\ req[r].pc \in {"snapshot", "apply", "record"} =>
             q.proj = x /\ q.pc \in {"snapshot", "apply", "record"}
  OBVIOUS
<1>7. QED
  BY <1>2, <1>5, <1>6, CalmStep

\* A step that changes no value, of a request that owes no report.
LEMMA IdleSerial ==
    ASSUME SignalInv, SerialInv, NEW r \in Requests, Requests = {r},
           UNCHANGED <<value, forced, cycle>>, NEW q, Moves(r, q),
           req[r].pc \notin {"snapshot", "apply", "record"},
           q.pc \notin {"apply", "record"}
    PROVE  SerialInv'
<1>1. Calm
  BY SameIsSteady DEF Calm
<1>2. QED
  BY <1>1, CalmStep

\* The write back of a cycle.
LEMMA ApplySerial ==
    ASSUME SignalInv, SerialInv, NEW r \in Requests, Requests = {r}, ApplyCycle(r)
    PROVE  SerialInv'
<1>1. PICK p : p = req[r].proj
  OBVIOUS
<1>2. PICK v : v = Over(req[r].work, value[p])
  OBVIOUS
<1>3. /\ At(r, "apply") /\ UNCHANGED <<catalog, cycle>>
      /\ SetSignals(p, v, forced[p])
  BY <1>1, <1>2 DEF ApplyCycle
<1>4. p \in Projects /\ value[p] \in Values /\ req[r].work \in Values
  BY <1>1, <1>3, CatalogOf, RequestFields DEF At, Catalogued, SignalInv, TypeInv, RequestOK
<1>5. v \in Values
  BY <1>2, <1>4, OverType
<1>6. SameSteady(req[r].work, value[p])
  BY <1>1, <1>3 DEF SerialInv, WorkIsFresh, At
<1>7. SameSteady(v, value[p])
  BY <1>2, <1>6 DEF SameSteady, Over
<1>8. PICK w : w = Recomputed(v, forced[p], catalog[p])
  OBVIOUS
<1>9. SameSteady(w, v)
  BY <1>5, <1>8, SteadyKept
<1>10. /\ value'[p] = w /\ UNCHANGED forced
       /\ \A x \in Projects \ {p} : value'[x] = value[x]
  BY <1>3, <1>4, <1>8 DEF SetSignals, SignalInv, TypeInv, TypeOK
<1>11. SameSteady(w, value[p]) /\ SameSteady(req[r].work, w)
  BY <1>6, <1>7, <1>9 DEF SameSteady
<1>12. Calm
  BY <1>10, <1>11, SameIsSteady DEF Calm
<1>13. PICK q : Moves(r, q) /\ q.pc = "record" /\ q.proj = p /\ q.work = req[r].work
  BY <1>1, ApplyMoves DEF SignalInv
<1>14. SameSteady(q.work, value'[q.proj])
  BY <1>10, <1>11, <1>13
<1>15. QED
  BY <1>1, <1>3, <1>4, <1>12, <1>13, <1>14, CalmStep

\* The report of a cycle.
LEMMA RecordSerial ==
    ASSUME SignalInv, SerialInv, NEW r \in Requests, Requests = {r}, RecordCycle(r)
    PROVE  SerialInv'
<1>1. PICK p : p = req[r].proj
  OBVIOUS
<1>2. /\ At(r, "record") /\ UNCHANGED <<catalog, value, forced>>
      /\ cycle' = [cycle EXCEPT ![p] = ActiveLevels(req[r].work)]
  BY <1>1 DEF RecordCycle
<1>3. p \in Projects /\ catalog[p] # None
  BY <1>1, <1>2, CatalogOf DEF At, Catalogued
<1>4. SameSteady(req[r].work, value[p])
  BY <1>1, <1>2 DEF SerialInv, WorkIsFresh, At
<1>5. ActiveLevels(req[r].work) = ActiveLevels(value[p])
  BY <1>4, SteadyLevels
<1>6. /\ cycle'[p] = ActiveLevels(value[p])
      /\ \A x \in Projects \ {p} : cycle'[x] = cycle[x]
  BY <1>2, <1>3, <1>5 DEF SignalInv, TypeInv, TypeOK
<1>7. PICK q : Moves(r, q) /\ q.pc = "push"
  BY RecordMoves DEF SignalInv
<1>8. Calm
  BY <1>2, SameIsSteady DEF Calm
<1>9. QED
  BY <1>1, <1>3, <1>6, <1>7, <1>8, CalmStep

\* The syncs of a deploy recompute, which leaves the steady values.
LEMMA SyncSerial ==
    ASSUME SignalInv, SerialInv, NEW r \in Requests, Requests = {r}, Sync(r) \/ SyncAgain(r)
    PROVE  SerialInv'
<1>1. PICK p : p = req[r].proj
  OBVIOUS
<1>2. /\ req[r].pc \in {"sync", "again"} /\ p \in Projects
      /\ value[p] \in Values /\ forced[p] \in Values
  <2>1. req[r].pc \in {"sync", "again"}
    BY DEF Sync, SyncAgain, At
  <2>2. QED
    BY <1>1, <2>1 DEF SignalInv, TypeInv, TypeOK, RequestOK
<1>3. UNCHANGED <<forced, cycle>>
  <2>1. CASE Sync(r)
    BY <2>1 DEF Sync
  <2>2. CASE SyncAgain(r)
    <3>1. forced' = [forced EXCEPT ![p] = forced[p]] /\ UNCHANGED cycle
      BY <1>1, <2>2 DEF SyncAgain, SetSignals
    <3>2. QED
      BY <1>2, <3>1 DEF SignalInv, TypeInv, TypeOK
  <2>3. QED
    BY <2>1, <2>2
<1>4. \E f, tags : /\ catalog[p] # None => value'[p] = Recomputed(value[p], f, tags)
                   /\ \A x \in Projects \ {p} : value'[x] = value[x]
  <2>1. CASE Sync(r)
    BY <1>1, <1>2, <2>1 DEF Sync, Ensured, SignalInv, TypeInv, TypeOK
  <2>2. CASE SyncAgain(r)
    BY <1>1, <1>2, <2>2 DEF SyncAgain, SetSignals, SignalInv, TypeInv, TypeOK
  <2>3. QED
    BY <2>1, <2>2
<1>5. Calm
  <2>1. PICK f, tags : /\ catalog[p] # None => value'[p] = Recomputed(value[p], f, tags)
                       /\ \A x \in Projects \ {p} : value'[x] = value[x]
    BY <1>4
  <2>2. SameSteady(Recomputed(value[p], f, tags), value[p])
    BY <1>2, SteadyKept
  <2>3. QED
    BY <1>3, <2>1, <2>2, SameIsSteady DEF Calm
<1>6. \E q : Moves(r, q) /\ q.pc \in {"activate", "idle"}
  <2>1. CASE Goto(r, "activate")
    <3>1. "activate" \in Pc /\ req[r].pc # "idle"
      BY <1>2 DEF Pc
    <3>2. QED
      BY <2>1, <3>1, Goes DEF SignalInv
  <2>2. CASE Finish(r)
    BY <2>2, Finishes
  <2>3. QED
    BY <2>1, <2>2 DEF Sync, SyncAgain
<1>7. QED
  BY <1>2, <1>3, <1>5, <1>6, CalmStep

LEMMA SerialStep ==
    ASSUME SignalInv, SerialInv, [Next]_vars, \A r, s \in Requests : r = s
    PROVE  SerialInv'
<1>1. CASE UNCHANGED vars
  BY <1>1 DEF vars, SerialInv, ForcesHold, WorkIsFresh, ListedOrComing, ReportPending
<1>2. ASSUME NEW p \in Projects, MapIo(p) PROVE SerialInv'
  <2>1. UNCHANGED <<value, forced, cycle, req>>
    BY <1>2 DEF MapIo
  <2>2. QED
    BY <2>1 DEF SerialInv, ForcesHold, WorkIsFresh, ListedOrComing, ReportPending
<1>3. ASSUME NEW r \in Requests,
             \/ \E p \in Projects : \/ Guard(r, p) \/ Simulate(r, p) \/ Summary(r, p)
                                   \/ Deploy(r, p) \/ LoadRows(r, p)
             \/ Serve(r)
      PROVE  SerialInv'
  <2>1. Requests = {r}
    OBVIOUS
  <2>2. ASSUME NEW p \in Projects, Guard(r, p) \/ Simulate(r, p) \/ Deploy(r, p)
        PROVE  SerialInv'
    <3>1. /\ At(r, "idle") /\ UNCHANGED <<value, forced, cycle>>
          /\ \E q : Moves(r, q) /\ q.pc \in {"baseline", "snapshot", "trace", "sync"}
      BY <2>2, EnterMoves DEF SignalInv
    <3>2. QED
      BY <2>1, <3>1, IdleSerial DEF At
  <2>3. ASSUME NEW p \in Projects, Summary(r, p) PROVE SerialInv'
    <3>1. UNCHANGED <<forced, cycle>>
      BY <2>3 DEF Summary
    <3>2. /\ At(r, "idle") /\ Ensures(p)
          /\ \E q : Moves(r, q) /\ q.pc = "report" /\ q.proj = p
      BY <2>3, SummaryMoves DEF SignalInv
    <3>3. QED
      BY <2>1, <3>1, <3>2, LookSerial DEF At
  <2>4. CASE Baseline(r) \/ Snapshot(r) \/ Sample(r)
    <3>1. UNCHANGED <<forced, cycle>>
      BY <2>4 DEF Baseline, Snapshot, Sample
    <3>2. CASE Baseline(r)
      <4>1. req[r].pc = "baseline"
        BY <3>2 DEF Baseline, At
      <4>2. QED
        BY <2>1, <3>1, <3>2, <4>1, BaselineMoves, LookSerial DEF SignalInv
    <3>3. CASE Snapshot(r)
      <4>1. req[r].pc = "snapshot"
        BY <3>3 DEF Snapshot, At
      <4>2. QED
        BY <2>1, <3>1, <3>3, <4>1, SnapshotMoves, LookSerial DEF SignalInv
    <3>4. CASE Sample(r)
      <4>1. req[r].pc = "trace"
        BY <3>4 DEF Sample, At
      <4>2. QED
        BY <2>1, <3>1, <3>4, <4>1, SampleMoves, LookSerial DEF SignalInv
    <3>5. QED
      BY <2>4, <3>2, <3>3, <3>4
  <2>5. CASE ApplyForce(r) \/ ClearForce(r)
    BY <2>1, <2>5, ChangeSerial
  <2>6. CASE ApplyCycle(r)
    BY <2>1, <2>6, ApplySerial
  <2>7. CASE RecordCycle(r)
    BY <2>1, <2>7, RecordSerial
  <2>8. CASE (\E p \in Projects : LoadRows(r, p)) \/ LayerStep(r)
    <3>1. CASE \E p \in Projects : LoadRows(r, p)
      BY <2>1, <3>1, LoadMoves, IdleSerial DEF SignalInv
    <3>2. CASE LayerStep(r)
      <4>1. /\ req[r].pc \notin {"snapshot", "apply", "record"}
            /\ UNCHANGED <<value, forced, cycle>>
        BY <3>2, LayerMoves DEF LayerPc, SignalInv
      <4>2. \E q : Moves(r, q) /\ q.pc \notin {"apply", "record"}
        BY <3>2, LayerMoves DEF SignalInv
      <4>3. QED
        BY <2>1, <4>1, <4>2, IdleSerial
    <3>3. QED
      BY <2>8, <3>1, <3>2
  <2>9. CASE Sync(r) \/ SyncAgain(r)
    BY <2>1, <2>9, SyncSerial
  <2>10. CASE Activate(r)
    <3>1. req[r].pc = "activate" /\ UNCHANGED <<value, forced, cycle>>
      BY <2>10 DEF Activate, At
    <3>2. \E q : Moves(r, q) /\ q.pc \in {"again", "idle"}
      <4>1. CASE Goto(r, "again")
        <5>1. "again" \in Pc
          BY DEF Pc
        <5>2. QED
          BY <3>1, <4>1, <5>1, Goes DEF SignalInv
      <4>2. CASE Finish(r)
        BY <4>2, Finishes
      <4>3. QED
        BY <2>10, <4>1, <4>2 DEF Activate
    <3>3. QED
      BY <2>1, <3>1, <3>2, IdleSerial
  <2>11. QED
    BY <1>3, <2>2, <2>3, <2>4, <2>5, <2>6, <2>7, <2>8, <2>9, <2>10 DEF Serve, LayerStep
<1>4. QED
  BY <1>1, <1>2, <1>3 DEF Next

LEMMA SerialHolds ==
    ASSUME \A r, s \in Requests : r = s
    PROVE  Spec => []SerialInv
<1>1. Init => SerialInv
  BY DEF Init, SerialInv, ForcesHold, WorkIsFresh, ListedOrComing, Idle, Blank
<1>2. SignalInv /\ SerialInv /\ [Next]_vars => SerialInv'
  BY SerialStep
<1>3. QED
  BY <1>1, <1>2, SignalHolds, PTL DEF Spec

\* With requests one at a time, a level, a command or a fault that is forced has the
\* value it was forced to: no cycle, sync or sample writes another one over it.
THEOREM ForcesAreKept ==
    ASSUME \A r, s \in Requests : r = s
    PROVE  Spec => []InputForcesHold
<1>1. SerialInv => InputForcesHold
  BY DEF SerialInv, ForcesHold, InputForcesHold, Steady
<1>2. QED
  BY <1>1, SerialHolds, PTL

\* With requests one at a time the diagnostics list, once no request is at work, exactly
\* the levels that are in alarm now: whatever changed a level brought a cycle.
THEOREM DiagnosticsTell ==
    ASSUME \A r, s \in Requests : r = s
    PROVE  Spec => []DiagnosticsTellAlarms
<1>1. SerialInv => DiagnosticsTellAlarms
  BY DEF SerialInv, ListedOrComing, ReportPending, DiagnosticsTellAlarms, Quiet, At
<1>2. QED
  BY <1>1, SerialHolds, PTL

(***************************************************************************)
(* What a cycle leaves, whatever interleaves: alarms that are those of the *)
(* levels and running tags that are those of the commands.                 *)
(***************************************************************************)
Rooted == {"level", "cmd", "running"}
Known(v, tags) == \A t \in Tags : t.kind \in Rooted => (v[t] # None <=> t \in tags)
AgreeAt(v, t) ==
    /\ t.kind = "level" /\ v[t] # None => v[Of("alarm", t)] = v[t]
    /\ t.kind = "running" /\ v[t] # None /\ v[Of("cmd", t)] # None => v[t] = v[Of("cmd", t)]
Agree(v) == \A t \in Tags : AgreeAt(v, t)
SameHeld(v, w) == \A t \in Tags : t.kind \notin {"status", "plant"} => v[t] = w[t]

\* Neither depends on what a recomputation changes.
LEMMA SameHeldAgree ==
    ASSUME NEW v, NEW w, SameHeld(v, w)
    PROVE  /\ Agree(v) => Agree(w)
           /\ \A tags : Known(v, tags) => Known(w, tags)
<1>1. ASSUME NEW t \in Tags, AgreeAt(v, t) PROVE AgreeAt(w, t)
  <2>1. CASE t.kind = "level"
    <3>1. v[t] = w[t] /\ v[Of("alarm", t)] = w[Of("alarm", t)]
      BY <2>1, OfKind DEF SameHeld
    <3>2. QED
      BY <1>1, <2>1, <3>1 DEF AgreeAt
  <2>2. CASE t.kind = "running"
    <3>1. v[t] = w[t] /\ v[Of("cmd", t)] = w[Of("cmd", t)]
      BY <2>2, OfKind DEF SameHeld
    <3>2. QED
      BY <1>1, <2>2, <3>1 DEF AgreeAt
  <2>3. QED
    BY <2>1, <2>2 DEF AgreeAt
<1>2. \A tags : Known(v, tags) => Known(w, tags)
  BY DEF Known, Rooted, SameHeld
<1>3. QED
  BY <1>1, <1>2 DEF Agree

LEMMA RecomputedHeld ==
    ASSUME NEW v \in Values, NEW f, NEW tags
    PROVE  SameHeld(Recomputed(v, f, tags), v) /\ SameHeld(v, Recomputed(v, f, tags))
  BY RecomputedKeeps DEF SameHeld

\* The evaluation of values that are known is known and agrees.
LEMMA EvaluatedAgrees ==
    ASSUME NEW v \in Values, NEW tags, Known(v, tags)
    PROVE  Known(Evaluated(v), tags) /\ Agree(Evaluated(v))
<1>1. PICK e : e = Evaluated(v)
  OBVIOUS
<1>2. \A t \in Tags : t.kind \in {"level", "cmd"} => e[t] = v[t]
  BY <1>1, OfKind DEF Evaluated
<1>3. ASSUME NEW t \in Tags, t.kind = "running"
      PROVE  /\ v[t] = None => e[t] = None
             /\ v[t] # None /\ v[Of("cmd", t)] # None => e[t] = v[Of("cmd", t)]
             /\ v[t] # None => e[t] # None
  <2>1. t # PlantFault
    BY <1>3, OfKind
  <2>2. QED
    BY <1>1, <1>3, <2>1 DEF Evaluated
<1>4. ASSUME NEW t \in Tags, t.kind = "level", v[t] # None PROVE e[Of("alarm", t)] = v[t]
  <2>1. PICK a : a = Of("alarm", t)
    OBVIOUS
  <2>2. a \in Tags /\ a.kind = "alarm" /\ Of("level", a) = t
    BY <1>4, <2>1, OfKind
  <2>3. a # PlantFault
    BY <2>2, OfKind
  <2>4. e[a] = v[t]
    BY <1>1, <1>4, <2>2, <2>3 DEF Evaluated
  <2>5. QED
    BY <2>1, <2>4
<1>5. Known(e, tags)
  BY <1>2, <1>3 DEF Known, Rooted
<1>6. ASSUME NEW t \in Tags PROVE AgreeAt(e, t)
  <2>1. CASE t.kind = "level"
    BY <1>2, <1>4, <2>1 DEF AgreeAt
  <2>2. CASE t.kind = "running"
    <3>1. e[Of("cmd", t)] = v[Of("cmd", t)]
      BY <1>2, <2>2, OfKind
    <3>2. QED
      BY <1>3, <2>2, <3>1 DEF AgreeAt
  <2>3. QED
    BY <2>1, <2>2 DEF AgreeAt
<1>7. QED
  BY <1>1, <1>5, <1>6 DEF Agree

\* So are the values it is written back over: it brings every tag that matters.
LEMMA OverAgrees ==
    ASSUME NEW u \in Values, NEW v \in Values, NEW tags, Known(u, tags), Known(v, tags), Agree(u)
    PROVE  Known(Over(u, v), tags) /\ Agree(Over(u, v))
<1>1. PICK w : w = Over(u, v)
  OBVIOUS
<1>2. \A t \in Tags : u[t] # None => w[t] = u[t]
  BY <1>1 DEF Over
<1>3. \A t \in Tags : t.kind \in Rooted => w[t] = u[t]
  BY <1>1 DEF Over, Known
<1>4. Known(w, tags)
  BY <1>3 DEF Known
<1>5. ASSUME NEW t \in Tags PROVE AgreeAt(w, t)
  <2>1. AgreeAt(u, t)
    BY DEF Agree
  <2>2. CASE t.kind = "level"
    <3>1. w[t] = u[t]
      BY <1>3, <2>2 DEF Rooted
    <3>2. u[t] # None => w[Of("alarm", t)] = u[Of("alarm", t)]
      BY <1>2, <2>1, <2>2, OfKind DEF AgreeAt
    <3>3. QED
      BY <2>1, <2>2, <3>1, <3>2 DEF AgreeAt
  <2>3. CASE t.kind = "running"
    <3>1. w[t] = u[t] /\ w[Of("cmd", t)] = u[Of("cmd", t)]
      BY <1>3, <2>3, OfKind DEF Rooted
    <3>2. QED
      BY <2>1, <2>3, <3>1 DEF AgreeAt
  <2>4. QED
    BY <2>2, <2>3 DEF AgreeAt
<1>6. QED
  BY <1>1, <1>4, <1>5 DEF Agree

\* A cycle of the project that has not written back yet.
CycleComes(p) == \E r \in Requests : req[r].proj = p /\ req[r].pc \in {"snapshot", "apply"}

\* A cycle of the project has written back.
CycleCame(p) == cycle[p] # None \/ \E r \in Requests : req[r].proj = p /\ req[r].pc = "record"

EvalInv ==
    /\ \A p \in Projects : catalog[p] # None => Known(value[p], catalog[p])
    /\ \A r \in Requests : req[r].pc = "apply" =>
         Known(req[r].work, catalog[req[r].proj]) /\ Agree(req[r].work)
    /\ \A p \in Projects : CycleCame(p) => Agree(value[p]) \/ CycleComes(p)

LEMMA EvalKept ==
    ASSUME SignalInv, EvalInv, NEW r \in Requests, NEW q, Moves(r, q),
           \A p \in Projects : catalog[p] # None => catalog'[p] = catalog[p],
           \A p \in Projects : catalog'[p] # None => Known(value'[p], catalog'[p]),
           q.pc = "apply" => Known(q.work, catalog'[q.proj]) /\ Agree(q.work),
           q.pc = "record" => Agree(value'[q.proj]),
           \A p \in Projects : catalog[p] # None =>
             \/ /\ Agree(value[p]) => Agree(value'[p])
                /\ req[r].proj = p /\ req[r].pc \in {"snapshot", "apply"} =>
                     q.proj = p /\ q.pc \in {"snapshot", "apply"}
             \/ Agree(value'[p])
             \/ q.proj = p /\ q.pc \in {"snapshot", "apply"},
           \A p \in Projects : cycle'[p] # None =>
             cycle[p] # None \/ (req[r].pc = "record" /\ req[r].proj = p)
    PROVE  EvalInv'
<1>1. req'[r] = q /\ \A s \in Requests \ {r} : req'[s] = req[s]
  BY Moved DEF SignalInv
<1>2. \A s \in Requests : req[s].pc \in Catalogued =>
        req[s].proj \in Projects /\ catalog[req[s].proj] # None
  BY CatalogOf
<1>3. \A p \in Projects : q.proj = p /\ q.pc \in {"snapshot", "apply"} => CycleComes(p)'
  BY <1>1 DEF CycleComes
<1>4. ASSUME NEW p \in Projects, catalog[p] # None, Agree(value[p]) \/ CycleComes(p)
      PROVE  Agree(value'[p]) \/ CycleComes(p)'
  <2>1. CASE CycleComes(p)
    <3>1. PICK s \in Requests : req[s].proj = p /\ req[s].pc \in {"snapshot", "apply"}
      BY <2>1 DEF CycleComes
    <3>2. CASE s = r
      BY <1>3, <1>4, <3>1, <3>2
    <3>3. CASE s # r
      BY <1>1, <3>1, <3>3 DEF CycleComes
    <3>4. QED
      BY <3>2, <3>3
  <2>2. CASE Agree(value[p]) /\ ~CycleComes(p)
    BY <1>3, <1>4, <2>2
  <2>3. QED
    BY <1>4, <2>1, <2>2
<1>5. ASSUME NEW s \in Requests, req'[s].pc = "apply"
      PROVE  Known(req'[s].work, catalog'[req'[s].proj]) /\ Agree(req'[s].work)
  <2>1. CASE s = r
    BY <1>1, <1>5, <2>1
  <2>2. CASE s # r
    BY <1>1, <1>2, <1>5, <2>2 DEF EvalInv, Catalogued
  <2>3. QED
    BY <2>1, <2>2
<1>6. ASSUME NEW p \in Projects, CycleCame(p)' PROVE Agree(value'[p]) \/ CycleComes(p)'
  <2>1. CASE CycleCame(p)
    <3>1. catalog[p] # None
      BY <1>2, <2>1 DEF CycleCame, Catalogued, SignalInv, CatalogInv
    <3>2. QED
      BY <1>4, <2>1, <3>1 DEF EvalInv
  <2>2. CASE ~CycleCame(p)
    <3>1. cycle'[p] = None
      BY <2>2 DEF CycleCame
    <3>2. PICK s \in Requests : req'[s].proj = p /\ req'[s].pc = "record"
      BY <1>6, <3>1 DEF CycleCame
    <3>3. s = r
      BY <1>1, <2>2, <3>2 DEF CycleCame
    <3>4. QED
      BY <1>1, <3>2, <3>3
  <2>3. QED
    BY <2>1, <2>2
<1>7. QED
  BY <1>5, <1>6 DEF EvalInv

\* A catalog that is new is known by its default values.
LEMMA NewKnown ==
    ASSUME SignalInv, NEW p \in Projects, catalog[p] = None, NEW rows
    PROVE  Known(Ensured(p, rows), rows)
  BY NoneAssumption DEF Known, Ensured, Default, Switch

\* What a request that looks at its project's values does, and what it takes along.
LEMMA LookEval ==
    ASSUME SignalInv, EvalInv, NEW r \in Requests, NEW p \in Projects,
           Ensures(p), UNCHANGED <<forced, cycle>>, NEW q, Moves(r, q), q.proj = p,
           q.pc # "record",
           q.pc = "apply" => q.work = Evaluated(Ensured(p, mapping[p])),
           req[r].pc \in {"snapshot", "apply"} =>
             req[r].proj = p /\ q.pc \in {"snapshot", "apply"}
    PROVE  EvalInv'
<1>1. /\ UNCHANGED <<catalog, value, forced>> \/ NewCatalog(p, mapping[p])
      /\ catalog'[p] # None /\ value'[p] = Ensured(p, mapping[p]) /\ value'[p] \in Values
  BY Ensuring, EnsuresCalmly DEF SignalInv
<1>2. \A x \in Projects : catalog[x] # None => catalog'[x] = catalog[x] /\ value'[x] = value[x]
  BY <1>1 DEF NewCatalog, SignalInv, TypeInv, TypeOK
<1>3. ASSUME NEW x \in Projects, catalog'[x] # None PROVE Known(value'[x], catalog'[x])
  <2>1. CASE catalog[x] # None
    BY <1>2, <2>1 DEF EvalInv
  <2>2. CASE catalog[x] = None
    <3>1. x = p /\ catalog'[p] = mapping[p]
      BY <1>1, <1>3, <2>2 DEF NewCatalog, SignalInv, TypeInv, TypeOK
    <3>2. Known(Ensured(p, mapping[p]), mapping[p])
      BY <2>2, <3>1, NewKnown
    <3>3. QED
      BY <1>1, <3>1, <3>2
  <2>3. QED
    BY <2>1, <2>2
<1>4. PICK v : v = value'[p]
  OBVIOUS
<1>5. PICK tags : tags = catalog'[p]
  OBVIOUS
<1>6. v \in Values /\ Known(v, tags)
  BY <1>1, <1>3, <1>4, <1>5
<1>7. q.pc = "apply" => Known(q.work, tags) /\ Agree(q.work)
  BY <1>1, <1>4, <1>6, EvaluatedAgrees
<1>8. q.pc = "apply" => Known(q.work, catalog'[q.proj]) /\ Agree(q.work)
  BY <1>5, <1>7
<1>9. \A x \in Projects : catalog[x] # None =>
        /\ Agree(value[x]) => Agree(value'[x])
        /\ req[r].proj = x /\ req[r].pc \in {"snapshot", "apply"} =>
             q.proj = x /\ q.pc \in {"snapshot", "apply"}
  BY <1>2
<1>10. QED
  BY <1>2, <1>3, <1>8, <1>9, EvalKept

\* A step that changes no value, of a request that owes no cycle.
LEMMA IdleEval ==
    ASSUME SignalInv, EvalInv, NEW r \in Requests,
           UNCHANGED <<catalog, value>>, NEW q, Moves(r, q),
           req[r].pc \notin {"snapshot", "apply"}, q.pc \notin {"apply", "record"},
           \A p \in Projects : cycle'[p] # None =>
             cycle[p] # None \/ (req[r].pc = "record" /\ req[r].proj = p)
    PROVE  EvalInv'
<1>1. \A p \in Projects : catalog'[p] # None => Known(value'[p], catalog'[p])
  BY DEF EvalInv
<1>2. QED
  BY <1>1, EvalKept

\* A force or a clear: the tag it changes is one of the catalog, and a cycle is to come.
LEMMA ChangeEval ==
    ASSUME SignalInv, EvalInv, NEW r \in Requests, ApplyForce(r) \/ ClearForce(r)
    PROVE  EvalInv'
<1>1. PICK p : p = req[r].proj
  OBVIOUS
<1>2. PICK t : t = req[r].tag
  OBVIOUS
<1>3. At(r, "change") /\ UNCHANGED <<catalog, cycle>>
  BY DEF ApplyForce, ClearForce
<1>4. /\ p \in Projects /\ t \in Tags /\ catalog[p] # None
      /\ value[p] \in Values /\ forced[p] \in Values
  BY <1>1, <1>2, <1>3, CatalogOf, RequestFields DEF At, Catalogued, SignalInv, TypeInv, RequestOK
<1>5. CASE Finish(r) /\ UNCHANGED <<value, forced>>
  <2>1. Moves(r, Idle) /\ Idle.pc = "idle"
    BY <1>5, Finishes
  <2>2. req[r].pc = "change" /\ UNCHANGED <<catalog, value, cycle>>
    BY <1>3, <1>5 DEF At
  <2>3. QED
    BY <2>1, <2>2, IdleEval
<1>6. ASSUME Changed(r), NEW k \in Switch, t \in catalog[p], NEW f,
             SetSignals(p, [value[p] EXCEPT ![t] = k], f)
      PROVE  EvalInv'
  <2>1. PICK q : Moves(r, q) /\ q.pc = "snapshot" /\ q.proj = p
    BY <1>1, <1>3, <1>6, ChangeMoves DEF SignalInv
  <2>2. PICK v : v = [value[p] EXCEPT ![t] = k]
    OBVIOUS
  <2>3. v \in Values
    BY <1>4, <2>2, MaybeFacts DEF Values
  <2>4. Known(v, catalog[p])
    <3>1. k # None
      BY NoneAssumption
    <3>2. Known(value[p], catalog[p])
      BY <1>4 DEF EvalInv
    <3>3. \A s \in Tags : v[s] = IF s = t THEN k ELSE value[p][s]
      BY <1>4, <2>2 DEF Values
    <3>4. QED
      BY <1>6, <3>1, <3>2, <3>3 DEF Known
  <2>5. PICK w : w = Recomputed(v, f, catalog[p])
    OBVIOUS
  <2>6. value'[p] = w /\ \A x \in Projects \ {p} : value'[x] = value[x]
    BY <1>4, <1>6, <2>2, <2>5 DEF SetSignals, SignalInv, TypeInv, TypeOK
  <2>7. Known(w, catalog[p])
    <3>1. SameHeld(v, w)
      BY <2>3, <2>5, RecomputedHeld
    <3>2. QED
      BY <2>4, <3>1, SameHeldAgree
  <2>8. \A x \in Projects : catalog'[x] # None => Known(value'[x], catalog'[x])
    BY <1>3, <2>6, <2>7 DEF EvalInv
  <2>9. req[r].pc = "change" /\ UNCHANGED <<catalog, cycle>>
    BY <1>3 DEF At
  <2>10. \A x \in Projects :
           (Agree(value[x]) => Agree(value'[x])) \/ (q.proj = x /\ q.pc \in {"snapshot", "apply"})
    BY <2>1, <2>6
  <2>11. QED
    BY <2>1, <2>8, <2>9, <2>10, EvalKept
<1>7. QED
  <2>1. CASE ApplyForce(r)
    <3>1. req[r].to \in Switch
      BY RequestFields DEF SignalInv, TypeInv, RequestOK
    <3>2. CASE t \in catalog[p] /\ t \in Inputs
      BY <1>1, <1>2, <1>6, <2>1, <3>1, <3>2 DEF ApplyForce
    <3>3. CASE ~(t \in catalog[p] /\ t \in Inputs)
      BY <1>1, <1>2, <1>5, <2>1, <3>3 DEF ApplyForce
    <3>4. QED
      BY <3>2, <3>3
  <2>2. CASE ClearForce(r)
    <3>1. Default(t) \in Switch
      BY DEF Default, Switch
    <3>2. CASE t \in catalog[p]
      BY <1>1, <1>2, <1>6, <2>2, <3>1, <3>2 DEF ClearForce
    <3>3. CASE t \notin catalog[p]
      BY <1>1, <1>2, <1>5, <2>2, <3>3 DEF ClearForce
    <3>4. QED
      BY <3>2, <3>3
  <2>3. QED
    BY <2>1, <2>2

\* The write back of a cycle makes them agree, whatever came in between.
LEMMA ApplyEval ==
    ASSUME SignalInv, EvalInv, NEW r \in Requests, ApplyCycle(r)
    PROVE  EvalInv'
<1>1. PICK p : p = req[r].proj
  OBVIOUS
<1>2. PICK v : v = Over(req[r].work, value[p])
  OBVIOUS
<1>3. /\ req[r].pc = "apply" /\ UNCHANGED <<catalog, cycle>>
      /\ SetSignals(p, v, forced[p])
  BY <1>1, <1>2 DEF ApplyCycle, At
<1>4. /\ p \in Projects /\ catalog[p] # None
      /\ value[p] \in Values /\ req[r].work \in Values
  BY <1>1, <1>3, CatalogOf, RequestFields DEF Catalogued, SignalInv, TypeInv, RequestOK
<1>5. Known(req[r].work, catalog[p]) /\ Agree(req[r].work) /\ Known(value[p], catalog[p])
  BY <1>1, <1>3, <1>4 DEF EvalInv
<1>6. v \in Values /\ Known(v, catalog[p]) /\ Agree(v)
  BY <1>2, <1>4, <1>5, OverType, OverAgrees
<1>7. PICK w : w = Recomputed(v, forced[p], catalog[p])
  OBVIOUS
<1>8. Known(w, catalog[p]) /\ Agree(w)
  <2>1. SameHeld(v, w)
    BY <1>6, <1>7, RecomputedHeld
  <2>2. QED
    BY <1>6, <2>1, SameHeldAgree
<1>9. value'[p] = w /\ \A x \in Projects \ {p} : value'[x] = value[x]
  BY <1>3, <1>4, <1>7 DEF SetSignals, SignalInv, TypeInv, TypeOK
<1>10. PICK q : Moves(r, q) /\ q.pc = "record" /\ q.proj = p
  BY <1>1, ApplyMoves DEF SignalInv
<1>11. \A x \in Projects : catalog'[x] # None => Known(value'[x], catalog'[x])
  BY <1>3, <1>8, <1>9 DEF EvalInv
<1>12. Agree(value'[p])
  BY <1>8, <1>9
<1>13. \A x \in Projects \ {p} : /\ Agree(value[x]) => Agree(value'[x])
                                 /\ req[r].proj # x
  BY <1>1, <1>9
<1>14. \A x \in Projects :
         \/ /\ Agree(value[x]) => Agree(value'[x])
            /\ req[r].proj # x
         \/ Agree(value'[x])
  BY <1>12, <1>13
<1>15. q.pc = "record" => Agree(value'[q.proj])
  BY <1>10, <1>12
<1>16. QED
  BY <1>3, <1>10, <1>11, <1>14, <1>15, EvalKept

\* The syncs of a deploy.
LEMMA SyncEval ==
    ASSUME SignalInv, EvalInv, NEW r \in Requests, Sync(r) \/ SyncAgain(r)
    PROVE  EvalInv'
<1>1. PICK p : p = req[r].proj
  OBVIOUS
<1>2. /\ req[r].pc \in {"sync", "again"} /\ p \in Projects /\ UNCHANGED cycle
      /\ value[p] \in Values
  <2>1. req[r].pc \in {"sync", "again"} /\ UNCHANGED cycle
    BY DEF Sync, SyncAgain, At
  <2>2. QED
    BY <1>1, <2>1 DEF SignalInv, TypeInv, TypeOK, RequestOK
<1>3. \E v \in Values : \E f :
        /\ catalog[p] # None => v = value[p] /\ catalog'[p] = catalog[p]
        /\ catalog[p] = None => Known(v, catalog'[p])
        /\ value'[p] = Recomputed(v, f, catalog'[p])
        /\ \A x \in Projects \ {p} : value'[x] = value[x] /\ catalog'[x] = catalog[x]
  <2>1. CASE Sync(r)
    <3>1. PICK rows : rows = req[r].rows
      OBVIOUS
    <3>2. PICK v : v = Ensured(p, rows)
      OBVIOUS
    <3>3. /\ catalog'[p] = Catalog(p, rows)
          /\ value'[p] = Recomputed(v, forced[p], Catalog(p, rows))
          /\ \A x \in Projects \ {p} : value'[x] = value[x] /\ catalog'[x] = catalog[x]
      BY <1>1, <1>2, <2>1, <3>1, <3>2 DEF Sync, Ensure, SignalInv, TypeInv, TypeOK
    <3>4. v \in Values
      BY <1>2, <3>2, EnsuredType DEF SignalInv, TypeInv, TypeOK
    <3>5. /\ catalog[p] # None => v = value[p] /\ Catalog(p, rows) = catalog[p]
          /\ catalog[p] = None => Known(v, rows) /\ Catalog(p, rows) = rows
      BY <1>2, <3>2, NewKnown DEF Ensured, Catalog
    <3>6. QED
      BY <3>3, <3>4, <3>5
  <2>2. CASE SyncAgain(r)
    <3>1. catalog[p] # None
      BY <1>1, <2>2, CatalogOf DEF SyncAgain, At, Catalogued
    <3>2. QED
      BY <1>1, <1>2, <2>2, <3>1 DEF SyncAgain, SetSignals, SignalInv, TypeInv, TypeOK
  <2>3. QED
    BY <2>1, <2>2
<1>4. PICK v \in Values : \E f :
        /\ catalog[p] # None => v = value[p] /\ catalog'[p] = catalog[p]
        /\ catalog[p] = None => Known(v, catalog'[p])
        /\ value'[p] = Recomputed(v, f, catalog'[p])
        /\ \A x \in Projects \ {p} : value'[x] = value[x] /\ catalog'[x] = catalog[x]
  BY <1>3
<1>5. SameHeld(v, value'[p])
  BY <1>4, RecomputedHeld
<1>6. Known(v, catalog'[p])
  <2>1. CASE catalog[p] = None
    BY <1>4, <2>1
  <2>2. CASE catalog[p] # None
    BY <1>2, <1>4, <2>2 DEF EvalInv
  <2>3. QED
    BY <2>1, <2>2
<1>7. Known(value'[p], catalog'[p]) /\ (Agree(v) => Agree(value'[p]))
  <2>1. PICK w : w = value'[p]
    OBVIOUS
  <2>2. PICK tags : tags = catalog'[p]
    OBVIOUS
  <2>3. Known(w, tags) /\ (Agree(v) => Agree(w))
    BY <1>5, <1>6, <2>1, <2>2, SameHeldAgree
  <2>4. QED
    BY <2>1, <2>2, <2>3
<1>8. \A x \in Projects : catalog'[x] # None => Known(value'[x], catalog'[x])
  BY <1>4, <1>7 DEF EvalInv
<1>9. \A x \in Projects : catalog[x] # None =>
        /\ Agree(value[x]) => Agree(value'[x])
        /\ catalog'[x] = catalog[x]
  BY <1>4, <1>7
<1>10. \E q : Moves(r, q) /\ q.pc \in {"activate", "idle"}
  <2>1. CASE Goto(r, "activate")
    <3>1. "activate" \in Pc /\ req[r].pc # "idle"
      BY <1>2 DEF Pc
    <3>2. QED
      BY <2>1, <3>1, Goes DEF SignalInv
  <2>2. CASE Finish(r)
    BY <2>2, Finishes
  <2>3. QED
    BY <2>1, <2>2 DEF Sync, SyncAgain
<1>11. QED
  BY <1>2, <1>8, <1>9, <1>10, EvalKept

LEMMA EvalStep ==
    ASSUME SignalInv, EvalInv, [Next]_vars
    PROVE  EvalInv'
<1>1. CASE UNCHANGED vars
  BY <1>1 DEF vars, EvalInv, CycleCame, CycleComes
<1>2. ASSUME NEW p \in Projects, MapIo(p) PROVE EvalInv'
  <2>1. UNCHANGED <<catalog, value, cycle, req>>
    BY <1>2 DEF MapIo
  <2>2. QED
    BY <2>1 DEF EvalInv, CycleCame, CycleComes
<1>3. ASSUME NEW r \in Requests, NEW p \in Projects,
             Guard(r, p) \/ Simulate(r, p) \/ Deploy(r, p)
      PROVE  EvalInv'
  <2>1. /\ req[r].pc = "idle" /\ UNCHANGED <<catalog, value, cycle>>
        /\ \E q : Moves(r, q) /\ q.pc \in {"baseline", "snapshot", "trace", "sync"}
    BY <1>3, EnterMoves DEF SignalInv, At
  <2>2. QED
    BY <2>1, IdleEval
<1>4. ASSUME NEW r \in Requests, NEW p \in Projects, Summary(r, p) PROVE EvalInv'
  <2>1. UNCHANGED <<forced, cycle>>
    BY <1>4 DEF Summary
  <2>2. /\ req[r].pc = "idle" /\ Ensures(p)
        /\ \E q : Moves(r, q) /\ q.pc = "report" /\ q.proj = p
    BY <1>4, SummaryMoves DEF SignalInv, At
  <2>3. QED
    BY <2>1, <2>2, LookEval
<1>5. ASSUME NEW r \in Requests, Baseline(r) \/ Snapshot(r) \/ Sample(r) PROVE EvalInv'
  <2>1. UNCHANGED <<forced, cycle>>
    BY <1>5 DEF Baseline, Snapshot, Sample
  <2>2. CASE Baseline(r)
    <3>1. req[r].pc = "baseline"
      BY <2>2 DEF Baseline, At
    <3>2. QED
      BY <2>1, <2>2, <3>1, BaselineMoves, LookEval DEF SignalInv
  <2>3. CASE Snapshot(r)
    <3>1. req[r].pc = "snapshot"
      BY <2>3 DEF Snapshot, At
    <3>2. QED
      BY <2>1, <2>3, <3>1, SnapshotMoves, LookEval DEF SignalInv
  <2>4. CASE Sample(r)
    <3>1. req[r].pc = "trace"
      BY <2>4 DEF Sample, At
    <3>2. QED
      BY <2>1, <2>4, <3>1, SampleMoves, LookEval DEF SignalInv
  <2>5. QED
    BY <1>5, <2>2, <2>3, <2>4
<1>6. ASSUME NEW r \in Requests, RecordCycle(r) PROVE EvalInv'
  <2>1. /\ req[r].pc = "record" /\ UNCHANGED <<catalog, value>>
        /\ cycle' = [cycle EXCEPT ![req[r].proj] = ActiveLevels(req[r].work)]
    BY <1>6 DEF RecordCycle, At
  <2>2. \A p \in Projects : cycle'[p] # None => cycle[p] # None \/ req[r].proj = p
    BY <2>1 DEF SignalInv, TypeInv, TypeOK
  <2>3. \E q : Moves(r, q) /\ q.pc = "push"
    BY <1>6, RecordMoves DEF SignalInv
  <2>4. QED
    BY <2>1, <2>2, <2>3, IdleEval
<1>7. ASSUME NEW r \in Requests, (\E p \in Projects : LoadRows(r, p)) \/ LayerStep(r)
      PROVE  EvalInv'
  <2>1. CASE \E p \in Projects : LoadRows(r, p)
    BY <2>1, LoadMoves, IdleEval DEF SignalInv
  <2>2. CASE LayerStep(r)
    <3>1. req[r].pc \notin {"snapshot", "apply"} /\ UNCHANGED <<catalog, value, cycle>>
      BY <2>2, LayerMoves DEF LayerPc, SignalInv
    <3>2. \E q : Moves(r, q) /\ q.pc \notin {"apply", "record"}
      BY <2>2, LayerMoves DEF SignalInv
    <3>3. QED
      BY <3>1, <3>2, IdleEval
  <2>3. QED
    BY <1>7, <2>1, <2>2
<1>8. ASSUME NEW r \in Requests, Activate(r) PROVE EvalInv'
  <2>1. req[r].pc = "activate" /\ UNCHANGED <<catalog, value, cycle>>
    BY <1>8 DEF Activate, At
  <2>2. \E q : Moves(r, q) /\ q.pc \in {"again", "idle"}
    <3>1. CASE Goto(r, "again")
      <4>1. "again" \in Pc
        BY DEF Pc
      <4>2. QED
        BY <2>1, <3>1, <4>1, Goes DEF SignalInv
    <3>2. CASE Finish(r)
      BY <3>2, Finishes
    <3>3. QED
      BY <1>8, <3>1, <3>2 DEF Activate
  <2>3. QED
    BY <2>1, <2>2, IdleEval
<1>9. QED
  BY <1>1, <1>2, <1>3, <1>4, <1>5, <1>6, <1>7, <1>8, ChangeEval, ApplyEval, SyncEval
  DEF Next, Serve, LayerStep

\* However requests interleave, once none is at work the alarms of a project that was
\* evaluated are those of its levels and its running tags those of its commands: a cycle
\* writes back all it read, so that the last one leaves what agrees.
THEOREM EvaluatedAgree == Spec => []EvaluatedTagsAgree
<1>1. Init => EvalInv
  BY DEF Init, EvalInv, CycleCame, Idle
<1>2. SignalInv /\ EvalInv /\ [Next]_vars => EvalInv'
  BY EvalStep
<1>3. EvalInv => EvaluatedTagsAgree
  <2> SUFFICES ASSUME EvalInv, Quiet, NEW p \in Projects, cycle[p] # None
               PROVE  Agree(value[p])
    BY DEF EvaluatedTagsAgree, Agree, AgreeAt
  <2>1. ~CycleComes(p)
    BY DEF Quiet, CycleComes, At
  <2>2. QED
    BY <2>1 DEF EvalInv, CycleCame
<1>4. QED
  BY <1>1, <1>2, <1>3, SignalHolds, PTL DEF Spec

(***************************************************************************)
(* What the behaviour layer is shown.  Whoever changed a value still owes  *)
(* the trace that shows it; whoever holds the lock of the traces has the   *)
(* values of now, unless somebody owes another trace.  The rows of another *)
(* project than the active one are those of a load that is not done, and   *)
(* were given nothing yet.                                                 *)
(***************************************************************************)
Owed == {"snapshot", "apply", "record", "push", "pushing", "trace"}
Trace == {"traced", "tracing"}
TraceComes(p) == \E r \in Requests : req[r].proj = p /\ req[r].pc \in Owed
Tracing(p) == \E r \in Requests : req[r].proj = p /\ req[r].pc \in Trace
Loading(p) == \E r \in Requests : req[r].proj = p /\ req[r].pc = "load"
Tells(u, v) == \A t \in Tags : u[t] # None /\ v[t] # None => u[t] = v[t]

TraceOK(r) ==
    req[r].pc \in Trace =>
      tracer = r /\ (req[r].work = value[req[r].proj] \/ TraceComes(req[r].proj))
TracesOK == \A r \in Requests : TraceOK(r)

RowsOK == rowsOf = loaded \/ (shown = Blank /\ Loading(rowsOf))
ContentOK ==
    loaded # None =>
      /\ catalog[loaded] = None => shown = Blank
      /\ TraceComes(loaded) \/ Tracing(loaded) \/ Tells(shown, value[loaded])

ShownInv == TracesOK /\ (astray \/ (RowsOK /\ ContentOK))

LEMMA BlankTells == \A v : Tells(Blank, v)
  BY DEF Tells, Blank

\* What a step of one request does to the values.
ValueStep(q) ==
    \A p \in Projects :
      \/ catalog'[p] = catalog[p] /\ value'[p] = value[p]
      \/ catalog[p] = None
      \/ catalog'[p] # None /\ q.proj = p /\ q.pc \in Owed

\* A request that is at no trace, and neither starts one nor drops one that it owes.
KeepsTraces(r, q) ==
    /\ req[r].pc \notin Trace /\ q.pc \notin Trace
    /\ req[r].pc \in Owed => q.proj = req[r].proj /\ q.pc \in Owed

LEMMA TracesKept ==
    ASSUME SignalInv, TracesOK, NEW r \in Requests, NEW q, Moves(r, q), ValueStep(q),
           KeepsTraces(r, q), UNCHANGED tracer
    PROVE  /\ TracesOK'
           /\ \A p : TraceComes(p) => TraceComes(p)'
           /\ \A p : Tracing(p) => Tracing(p)'
           /\ \A p : q.proj = p /\ q.pc \in Owed => TraceComes(p)'
<1>1. req'[r] = q /\ \A s \in Requests \ {r} : req'[s] = req[s]
  BY Moved DEF SignalInv
<1>2. \A p : q.proj = p /\ q.pc \in Owed => TraceComes(p)'
  BY <1>1 DEF TraceComes
<1>3. ASSUME NEW p, TraceComes(p) PROVE TraceComes(p)'
  <2>1. PICK s \in Requests : req[s].proj = p /\ req[s].pc \in Owed
    BY <1>3 DEF TraceComes
  <2>2. QED
    BY <1>1, <2>1 DEF TraceComes, KeepsTraces
<1>4. ASSUME NEW p, Tracing(p) PROVE Tracing(p)'
  <2>1. PICK s \in Requests : req[s].proj = p /\ req[s].pc \in Trace
    BY <1>4 DEF Tracing
  <2>2. QED
    BY <1>1, <2>1 DEF Tracing, KeepsTraces
<1>5. ASSUME NEW s \in Requests, req'[s].pc \in Trace PROVE TraceOK(s)'
  <2>1. s # r /\ req'[s] = req[s]
    BY <1>1, <1>5 DEF KeepsTraces
  <2>2. PICK p : p = req[s].proj
    OBVIOUS
  <2>3. p \in Projects /\ catalog[p] # None
    BY <1>5, <2>1, <2>2, CatalogOf DEF Catalogued, Trace
  <2>4. tracer = s /\ (req[s].work = value[p] \/ TraceComes(p))
    BY <1>5, <2>1, <2>2 DEF TracesOK, TraceOK
  <2>5. value'[p] = value[p] \/ TraceComes(p)'
    BY <1>2, <2>3 DEF ValueStep
  <2>6. req[s].work = value'[p] \/ TraceComes(p)'
    BY <1>3, <2>4, <2>5
  <2>7. tracer' = s
    BY <2>4
  <2>8. QED
    BY <2>1, <2>2, <2>6, <2>7 DEF TraceOK, TraceComes
<1>6. TracesOK'
  BY <1>5 DEF TracesOK, TraceOK
<1>7. QED
  BY <1>2, <1>3, <1>4, <1>6

\* A step that gives the layer nothing, or what a trace will come after, or goes astray.
LayerKept(q) ==
    /\ UNCHANGED <<rowsOf, loaded>>
    /\ \/ UNCHANGED <<shown, astray>>
       \/ astray'
       \/ /\ astray' = astray /\ rowsOf = loaded
          /\ loaded = q.proj /\ catalog[loaded] # None /\ q.pc \in Owed

LEMMA ShownKept ==
    ASSUME SignalInv, ShownInv, NEW r \in Requests, NEW q, Moves(r, q), ValueStep(q),
           KeepsTraces(r, q), UNCHANGED tracer, LayerKept(q), req[r].pc # "load"
    PROVE  ShownInv'
<1>1. /\ TracesOK'
      /\ \A p : TraceComes(p) => TraceComes(p)'
      /\ \A p : Tracing(p) => Tracing(p)'
      /\ \A p : q.proj = p /\ q.pc \in Owed => TraceComes(p)'
  BY TracesKept DEF ShownInv
<1> SUFFICES ASSUME ~astray' PROVE RowsOK' /\ ContentOK'
  BY <1>1 DEF ShownInv
<1>2. RowsOK /\ ContentOK
  BY DEF LayerKept, ShownInv
<1>3. RowsOK'
  <2>1. CASE rowsOf = loaded
    BY <2>1 DEF RowsOK, LayerKept
  <2>2. CASE rowsOf # loaded
    <3>1. shown' = shown /\ shown = Blank /\ Loading(rowsOf)
      BY <1>2, <2>2 DEF RowsOK, LayerKept
    <3>2. PICK s \in Requests : req[s].proj = rowsOf /\ req[s].pc = "load"
      BY <3>1 DEF Loading
    <3>3. req'[s] = req[s]
      BY <3>2, Moved DEF SignalInv
    <3>4. QED
      BY <3>1, <3>2, <3>3 DEF RowsOK, Loading, LayerKept
  <2>3. QED
    BY <2>1, <2>2
<1>4. ASSUME loaded # None
      PROVE  /\ catalog'[loaded] = None => shown' = Blank
             /\ TraceComes(loaded)' \/ Tracing(loaded)' \/ Tells(shown', value'[loaded])
  <2>1. PICK p : p = loaded
    OBVIOUS
  <2>2. p \in Projects
    BY <1>4, <2>1, MaybeFacts DEF SignalInv, TypeInv, TypeOK
  <2>3. /\ catalog[p] = None => shown = Blank
        /\ TraceComes(p) \/ Tracing(p) \/ Tells(shown, value[p])
    BY <1>2, <1>4, <2>1 DEF ContentOK
  <2>4. catalog[p] = None => shown' = Blank
    BY <2>1, <2>3 DEF LayerKept
  <2>5. catalog'[p] = None => catalog[p] = None
    BY <2>2 DEF ValueStep
  <2>6. TraceComes(p)' \/ Tracing(p)' \/ Tells(shown', value'[p])
    <3>1. CASE catalog[p] = None
      BY <2>4, <3>1, BlankTells
    <3>2. CASE q.proj = p /\ q.pc \in Owed
      BY <1>1, <3>2
    <3>3. CASE catalog[p] # None /\ ~(q.proj = p /\ q.pc \in Owed)
      <4>1. shown' = shown /\ value'[p] = value[p]
        BY <2>1, <2>2, <3>3 DEF ValueStep, LayerKept
      <4>2. QED
        BY <1>1, <2>3, <4>1
    <3>4. QED
      BY <3>1, <3>2, <3>3
  <2>7. loaded' = loaded
    BY DEF LayerKept
  <2>8. QED
    BY <2>1, <2>4, <2>5, <2>6, <2>7
<1>5. loaded' = loaded
  BY DEF LayerKept
<1>6. ContentOK'
  BY <1>4, <1>5 DEF ContentOK
<1>7. QED
  BY <1>3, <1>6

\* A look at the values of a project changes those of no project that has a catalog.
LEMMA LookShows ==
    ASSUME SignalInv, NEW p \in Projects, Ensures(p), UNCHANGED forced
    PROVE  /\ \A x \in Projects :
                catalog[x] = None \/ (catalog'[x] = catalog[x] /\ value'[x] = value[x])
           /\ catalog'[p] # None /\ value'[p] = Ensured(p, mapping[p])
<1>1. /\ UNCHANGED <<catalog, value, forced>> \/ NewCatalog(p, mapping[p])
      /\ catalog'[p] # None /\ value'[p] = Ensured(p, mapping[p])
  BY Ensuring DEF SignalInv
<1>2. QED
  BY <1>1 DEF NewCatalog, SignalInv, TypeInv, TypeOK

\* Who takes the lock has the values of now; nobody else has it.
LEMMA SampleShown ==
    ASSUME SignalInv, ShownInv, NEW r \in Requests, Sample(r)
    PROVE  ShownInv'
<1>1. PICK p : p = req[r].proj
  OBVIOUS
<1>2. /\ req[r].pc = "trace" /\ tracer = None /\ tracer' = r
      /\ UNCHANGED <<forced, rowsOf, loaded, shown, astray>>
  BY DEF Sample, At, layer
<1>3. PICK q : /\ Moves(r, q) /\ q.pc = "traced" /\ q.proj = p
               /\ q.work = Ensured(p, mapping[p])
  BY <1>1, SampleMoves DEF SignalInv
<1>4. p \in Projects /\ Ensures(p)
  BY <1>1, SampleMoves DEF SignalInv
<1>5. /\ \A x \in Projects :
           catalog[x] = None \/ (catalog'[x] = catalog[x] /\ value'[x] = value[x])
      /\ catalog'[p] # None /\ value'[p] = q.work
  BY <1>2, <1>3, <1>4, LookShows
<1>6. req'[r] = q /\ \A s \in Requests \ {r} : req'[s] = req[s]
  BY <1>3, Moved DEF SignalInv
<1>7. \A s \in Requests : req[s].pc \notin Trace
  BY <1>2, NoneAssumption DEF ShownInv, TracesOK, TraceOK
<1>8. TracesOK'
  <2>1. TraceOK(r)'
    BY <1>2, <1>3, <1>5, <1>6 DEF TraceOK
  <2>2. QED
    BY <1>6, <1>7, <2>1 DEF TracesOK, TraceOK
<1> SUFFICES ASSUME ~astray PROVE RowsOK' /\ ContentOK'
  BY <1>2, <1>8 DEF ShownInv
<1>9. RowsOK'
  <2>1. RowsOK
    BY DEF ShownInv
  <2>2. Loading(rowsOf) => Loading(rowsOf)'
    BY <1>2, <1>6 DEF Loading
  <2>3. QED
    BY <1>2, <2>1, <2>2 DEF RowsOK
<1>10. ASSUME loaded # None
      PROVE  /\ catalog'[loaded] = None => shown = Blank
             /\ TraceComes(loaded)' \/ Tracing(loaded)' \/ Tells(shown, value'[loaded])
  <2>1. PICK l : l = loaded
    OBVIOUS
  <2>2. l \in Projects
    BY <1>10, <2>1, MaybeFacts DEF SignalInv, TypeInv, TypeOK
  <2>3. /\ catalog[l] = None => shown = Blank
        /\ TraceComes(l) \/ Tracing(l) \/ Tells(shown, value[l])
    BY <1>10, <2>1 DEF ShownInv, ContentOK
  <2>4. catalog'[l] = None => shown = Blank
    BY <1>5, <2>2, <2>3
  <2>5. TraceComes(l)' \/ Tracing(l)' \/ Tells(shown, value'[l])
    <3>1. CASE l = p
      BY <1>3, <1>6, <3>1 DEF Tracing, Trace
    <3>2. CASE l # p /\ TraceComes(l)
      BY <1>1, <1>6, <3>2 DEF TraceComes
    <3>3. CASE l # p /\ ~TraceComes(l)
      <4>1. Tells(shown, value[l]) /\ ~Tracing(l)
        BY <1>7, <2>3, <3>3 DEF Tracing
      <4>2. catalog[l] = None => Tells(shown, value'[l])
        BY <2>3, BlankTells
      <4>3. QED
        BY <1>5, <2>2, <4>1, <4>2
    <3>4. QED
      BY <3>1, <3>2, <3>3
  <2>6. loaded' = loaded
    BY <1>2
  <2>7. QED
    BY <2>1, <2>4, <2>5, <2>6
<1>11. QED
  BY <1>2, <1>9, <1>10 DEF ContentOK

\* Who holds the lock, and its next step.
LEMMA TracerIsOne ==
    ASSUME SignalInv, ShownInv, NEW r \in Requests, req[r].pc \in Trace
    PROVE  /\ req[r].proj \in Projects /\ catalog[req[r].proj] # None
           /\ req[r].work = value[req[r].proj] \/ TraceComes(req[r].proj)
           /\ tracer = r /\ \A s \in Requests \ {r} : req[s].pc \notin Trace
           /\ \A p : TraceComes(p) =>
                \E s \in Requests \ {r} : req[s].proj = p /\ req[s].pc \in Owed
<1>1. req[r].proj \in Projects /\ catalog[req[r].proj] # None
  BY CatalogOf DEF Catalogued, Trace
<1>2. /\ req[r].work = value[req[r].proj] \/ TraceComes(req[r].proj)
      /\ tracer = r /\ \A s \in Requests \ {r} : req[s].pc \notin Trace
  BY DEF ShownInv, TracesOK, TraceOK
<1>3. req[r].pc \notin Owed
  BY DEF Owed, Trace
<1>4. QED
  BY <1>1, <1>2, <1>3 DEF TraceComes

LEMMA TestTraceShown ==
    ASSUME SignalInv, ShownInv, NEW r \in Requests, TestTrace(r)
    PROVE  ShownInv'
<1>1. PICK p : p = req[r].proj
  OBVIOUS
<1>2. /\ req[r].pc = "traced" /\ UNCHANGED <<catalog, value, rowsOf, loaded, shown, astray>>
      /\ tracer' = IF loaded = p THEN tracer ELSE None
  BY <1>1 DEF TestTrace, At, layer
<1>3. PICK q : /\ Moves(r, q)
               /\ IF loaded = p THEN q.pc = "tracing" /\ q.proj = p /\ q.work = req[r].work
                                ELSE q.pc = "idle"
  BY <1>1, TestTraceMoves DEF SignalInv
<1>4. /\ p \in Projects /\ (req[r].work = value[p] \/ TraceComes(p))
      /\ tracer = r /\ \A s \in Requests \ {r} : req[s].pc \notin Trace
      /\ \A x : TraceComes(x) =>
           \E s \in Requests \ {r} : req[s].proj = x /\ req[s].pc \in Owed
  BY <1>1, <1>2, TracerIsOne DEF Trace
<1>5. req'[r] = q /\ \A s \in Requests \ {r} : req'[s] = req[s]
  BY <1>3, Moved DEF SignalInv
<1>6. ASSUME NEW x, TraceComes(x) PROVE TraceComes(x)'
  BY <1>4, <1>5, <1>6 DEF TraceComes
<1>7. \A x : Tracing(x) => x = p
  BY <1>1, <1>4 DEF Tracing
<1>8. TracesOK'
  <2>1. TraceOK(r)'
    <3>1. CASE loaded = p
      BY <1>2, <1>3, <1>4, <1>5, <1>6, <3>1 DEF TraceOK
    <3>2. CASE loaded # p
      BY <1>3, <1>5, <3>2 DEF TraceOK, Trace
    <3>3. QED
      BY <3>1, <3>2
  <2>2. \A s \in Requests \ {r} : TraceOK(s)'
    BY <1>4, <1>5 DEF TraceOK
  <2>3. QED
    BY <2>1, <2>2 DEF TracesOK
<1> SUFFICES ASSUME ~astray PROVE RowsOK' /\ ContentOK'
  BY <1>2, <1>8 DEF ShownInv
<1>9. RowsOK'
  <2>1. RowsOK
    BY DEF ShownInv
  <2>2. Loading(rowsOf) => Loading(rowsOf)'
    BY <1>2, <1>5 DEF Loading
  <2>3. QED
    BY <1>2, <2>1, <2>2 DEF RowsOK
<1>10. ASSUME loaded # None
       PROVE  /\ catalog[loaded] = None => shown = Blank
              /\ TraceComes(loaded)' \/ Tracing(loaded)' \/ Tells(shown, value[loaded])
  <2>1. /\ catalog[loaded] = None => shown = Blank
        /\ TraceComes(loaded) \/ Tracing(loaded) \/ Tells(shown, value[loaded])
    BY <1>10 DEF ShownInv, ContentOK
  <2>2. PICK l : l = loaded
    OBVIOUS
  <2>3. TraceComes(l) => TraceComes(l)'
    BY <1>6
  <2>4. Tracing(l) => Tracing(l)'
    BY <1>3, <1>5, <1>7, <2>2 DEF Tracing, Trace
  <2>5. loaded' = loaded
    BY <1>2
  <2>6. QED
    BY <2>1, <2>2, <2>3, <2>4, <2>5
<1>11. QED
  BY <1>2, <1>9, <1>10 DEF ContentOK

\* Who has the lock shows the values of now, unless somebody owes another trace.
LEMMA PushTraceShown ==
    ASSUME SignalInv, ShownInv, NEW r \in Requests, PushTrace(r)
    PROVE  ShownInv'
<1>1. PICK p : p = req[r].proj
  OBVIOUS
<1>2. /\ req[r].pc = "tracing" /\ Update(p, req[r].work, FALSE)
      /\ UNCHANGED <<catalog, value>>
  BY <1>1 DEF PushTrace, At
<1>3. /\ p \in Projects /\ catalog[p] # None /\ (req[r].work = value[p] \/ TraceComes(p))
      /\ \A s \in Requests \ {r} : req[s].pc \notin Trace
      /\ \A x : TraceComes(x) =>
           \E s \in Requests \ {r} : req[s].proj = x /\ req[s].pc \in Owed
  BY <1>1, <1>2, TracerIsOne DEF Trace
<1>4. /\ req'[r] = Idle /\ Idle.pc = "idle"
      /\ \A s \in Requests \ {r} : req'[s] = req[s]
  BY Finishes, Moved DEF PushTrace, SignalInv
<1>5. ASSUME NEW x, TraceComes(x) PROVE TraceComes(x)'
  BY <1>3, <1>4, <1>5 DEF TraceComes
<1>6. TracesOK'
  BY <1>3, <1>4 DEF TracesOK, TraceOK, Trace
<1> SUFFICES ASSUME ~astray' PROVE RowsOK' /\ ContentOK'
  BY <1>6 DEF ShownInv
<1>7. rowsOf = p /\ loaded = p /\ shown' = Over(req[r].work, shown)
      /\ UNCHANGED <<rowsOf, loaded>>
  BY <1>2 DEF Update
<1>8. req[r].work = value[p] => Tells(shown', value[p])
  BY <1>7 DEF Tells, Over
<1>9. TraceComes(p)' \/ Tells(shown', value[p])
  BY <1>3, <1>5, <1>8
<1>10. loaded' = p /\ rowsOf' = p /\ catalog' = catalog /\ value' = value
  BY <1>2, <1>7
<1>11. TraceComes(loaded)' \/ Tells(shown', value'[loaded'])
  BY <1>7, <1>9, <1>10
<1>12. QED
  BY <1>3, <1>10, <1>11 DEF RowsOK, ContentOK

\* A poll that pushes what are still the values puts right whatever went astray.
LEMMA ReportShown ==
    ASSUME SignalInv, ShownInv, NEW r \in Requests, Report(r)
    PROVE  ShownInv'
<1>1. PICK p : p = req[r].proj
  OBVIOUS
<1>2. /\ req[r].pc = "reporting" /\ Update(p, req[r].work, req[r].work # value[p])
      /\ UNCHANGED <<catalog, value, tracer>> /\ Finish(r)
  BY <1>1 DEF Report, At
<1>3. p \in Projects /\ catalog[p] # None
  BY <1>1, <1>2, CatalogOf DEF Catalogued
<1>4. Moves(r, Idle) /\ Idle.pc = "idle"
  BY <1>2, Finishes
<1>5. ValueStep(Idle)
  BY <1>2 DEF ValueStep
<1>6. KeepsTraces(r, Idle)
  BY <1>2, <1>4 DEF KeepsTraces, Trace, Owed
<1>7. TracesOK'
  BY <1>2, <1>4, <1>5, <1>6, TracesKept DEF ShownInv
<1> SUFFICES ASSUME ~astray' PROVE RowsOK' /\ ContentOK'
  BY <1>7 DEF ShownInv
<1>8. /\ rowsOf = p /\ loaded = p /\ shown' = Over(value[p], shown)
      /\ UNCHANGED <<rowsOf, loaded>>
  BY <1>2 DEF Update
<1>9. Tells(shown', value[p])
  BY <1>8 DEF Tells, Over
<1>10. QED
  BY <1>2, <1>3, <1>8, <1>9 DEF RowsOK, ContentOK

\* What is loaded anew has been shown nothing ...
LEMMA LoadRowsShown ==
    ASSUME SignalInv, ShownInv, NEW r \in Requests, NEW p \in Projects, LoadRows(r, p)
    PROVE  ShownInv'
<1>1. /\ rowsOf' = p /\ shown' = Blank /\ UNCHANGED <<catalog, value, loaded, tracer>>
      /\ req[r].pc = "idle"
  BY DEF LoadRows, At
<1>2. PICK q : Moves(r, q) /\ q.pc = "load" /\ q.proj = p
  BY LoadMoves DEF SignalInv
<1>3. ValueStep(q)
  BY <1>1 DEF ValueStep
<1>4. KeepsTraces(r, q)
  BY <1>1, <1>2 DEF KeepsTraces, Trace, Owed
<1>5. TracesOK'
  BY <1>1, <1>2, <1>3, <1>4, TracesKept DEF ShownInv
<1>6. Loading(p)'
  BY <1>2, Moved DEF Loading, SignalInv
<1>7. Tells(shown', value'[loaded'])
  BY <1>1, BlankTells
<1>8. Loading(rowsOf)'
  BY <1>1, <1>6 DEF Loading
<1>9. QED
  BY <1>1, <1>5, <1>7, <1>8 DEF ShownInv, RowsOK, ContentOK

\* ... and nothing yet when its project becomes the active one, if it is its rows.
LEMMA LoadActiveShown ==
    ASSUME SignalInv, ShownInv, NEW r \in Requests, LoadActive(r)
    PROVE  ShownInv'
<1>1. PICK p : p = req[r].proj
  OBVIOUS
<1>2. /\ req[r].pc = "load" /\ UNCHANGED <<catalog, value, rowsOf, shown, tracer>> /\ Finish(r)
      /\ loaded' = p /\ astray' = (astray \/ rowsOf # p)
  BY <1>1 DEF LoadActive, At
<1>3. Moves(r, Idle) /\ Idle.pc = "idle"
  BY <1>2, Finishes
<1>4. ValueStep(Idle)
  BY <1>2 DEF ValueStep
<1>5. KeepsTraces(r, Idle)
  BY <1>2, <1>3 DEF KeepsTraces, Trace, Owed
<1>6. /\ TracesOK'
      /\ \A x : TraceComes(x) => TraceComes(x)'
      /\ \A x : Tracing(x) => Tracing(x)'
  BY <1>2, <1>3, <1>4, <1>5, TracesKept DEF ShownInv
<1> SUFFICES ASSUME ~astray' PROVE RowsOK' /\ ContentOK'
  BY <1>6 DEF ShownInv
<1>7. ~astray /\ rowsOf = p /\ rowsOf' = loaded'
  BY <1>2
<1>8. RowsOK /\ ContentOK
  BY <1>7 DEF ShownInv
<1>9. CASE rowsOf = loaded
  <2>1. loaded' = loaded
    BY <1>2, <1>7, <1>9
  <2>2. ASSUME loaded # None
        PROVE  /\ catalog[loaded] = None => shown = Blank
               /\ TraceComes(loaded)' \/ Tracing(loaded)' \/ Tells(shown, value[loaded])
    <3>1. PICK l : l = loaded
      OBVIOUS
    <3>2. /\ catalog[l] = None => shown = Blank
          /\ TraceComes(l) \/ Tracing(l) \/ Tells(shown, value[l])
      BY <1>8, <2>2, <3>1 DEF ContentOK
    <3>3. TraceComes(l)' \/ Tracing(l)' \/ Tells(shown, value[l])
      BY <1>6, <3>2
    <3>4. QED
      BY <2>1, <3>1, <3>2, <3>3
  <2>3. QED
    BY <1>2, <1>7, <2>1, <2>2 DEF RowsOK, ContentOK
<1>10. CASE rowsOf # loaded
  <2>1. shown' = Blank
    BY <1>2, <1>8, <1>10 DEF RowsOK
  <2>2. QED
    BY <1>7, <2>1, BlankTells DEF RowsOK, ContentOK
<1>11. QED
  BY <1>9, <1>10

\* A step of a request that owes no trace, which changes no values that were there.
LEMMA LookShown ==
    ASSUME SignalInv, ShownInv, NEW r \in Requests,
           \A x \in Projects :
             catalog[x] = None \/ (catalog'[x] = catalog[x] /\ value'[x] = value[x]),
           UNCHANGED <<layer, tracer>>, NEW q, Moves(r, q),
           req[r].pc \notin Trace \cup {"load"}, q.pc \notin Trace,
           req[r].pc \in Owed => q.proj = req[r].proj /\ q.pc \in Owed
    PROVE  ShownInv'
<1>1. ValueStep(q) /\ KeepsTraces(r, q) /\ LayerKept(q)
  BY DEF ValueStep, KeepsTraces, LayerKept, layer
<1>2. QED
  BY <1>1, ShownKept

\* A change of the values of a project, which ends with a trace.
LEMMA OwedShown ==
    ASSUME SignalInv, ShownInv, NEW r \in Requests, NEW p \in Projects,
           catalog[p] # None, UNCHANGED <<catalog, tracer>>,
           \A x \in Projects \ {p} : value'[x] = value[x],
           UNCHANGED layer \/ \E v : Update(p, v, astray),
           NEW q, Moves(r, q), q.proj = p, q.pc \in Owed,
           req[r].proj = p, req[r].pc \notin Trace \cup {"load"}
    PROVE  ShownInv'
<1>1. q.pc \notin Trace
  BY DEF Owed, Trace
<1>2. LayerKept(q)
  BY DEF LayerKept, Update, layer
<1>3. ValueStep(q) /\ KeepsTraces(r, q)
  BY <1>1 DEF ValueStep, KeepsTraces
<1>4. QED
  BY <1>2, <1>3, ShownKept

\* The syncs of a deploy change nothing that was there.
LEMMA SyncShown ==
    ASSUME SignalInv, ShownInv, NEW r \in Requests, Sync(r) \/ SyncAgain(r)
    PROVE  ShownInv'
<1>1. PICK p : p = req[r].proj
  OBVIOUS
<1>2. /\ req[r].pc \in {"sync", "again"} /\ UNCHANGED <<layer, tracer>>
      /\ p \in Projects
  <2>1. req[r].pc \in {"sync", "again"} /\ UNCHANGED <<layer, tracer>>
    BY DEF Sync, SyncAgain, At
  <2>2. QED
    BY <1>1, <2>1 DEF SignalInv, TypeInv, RequestOK
<1>3. ASSUME catalog[p] # None PROVE Recomputed(value[p], forced[p], catalog[p]) = value[p]
  <2>1. catalog[p] \in SUBSET Tags /\ value[p] \in Values
    BY <1>2, <1>3, MaybeFacts DEF SignalInv, TypeInv, TypeOK
  <2>2. DerivedOK(value[p], forced[p], catalog[p])
    BY <1>2, DerivedForm DEF SignalInv
  <2>3. QED
    BY <2>1, <2>2, RecomputedFixed
<1>4. \A x \in Projects : catalog[x] = None \/ (catalog'[x] = catalog[x] /\ value'[x] = value[x])
  <2>1. CASE Sync(r)
    <3>1. /\ catalog' = [catalog EXCEPT ![p] = Catalog(p, req[r].rows)]
          /\ value' = [value EXCEPT ![p] = Recomputed(Ensured(p, req[r].rows), forced[p],
                                                      Catalog(p, req[r].rows))]
      BY <1>1, <2>1 DEF Sync, Ensure
    <3>2. catalog[p] # None =>
            Catalog(p, req[r].rows) = catalog[p] /\ Ensured(p, req[r].rows) = value[p]
      BY DEF Catalog, Ensured
    <3>3. \A x \in Projects \ {p} : catalog'[x] = catalog[x] /\ value'[x] = value[x]
      BY <3>1 DEF SignalInv, TypeInv, TypeOK
    <3>4. catalog[p] # None => catalog'[p] = catalog[p] /\ value'[p] = value[p]
      BY <1>2, <1>3, <3>1, <3>2 DEF SignalInv, TypeInv, TypeOK
    <3>5. QED
      BY <3>3, <3>4
  <2>2. CASE SyncAgain(r)
    <3>1. catalog[p] # None /\ UNCHANGED catalog
      BY <1>1, <2>2, CatalogOf DEF SyncAgain, At, Catalogued
    <3>2. value' = [value EXCEPT ![p] = value[p]]
      BY <1>1, <1>3, <2>2, <3>1 DEF SyncAgain, SetSignals
    <3>3. QED
      BY <3>1, <3>2 DEF SignalInv, TypeInv, TypeOK
  <2>3. QED
    BY <2>1, <2>2
<1>5. \E q : Moves(r, q) /\ q.pc \in {"activate", "idle"}
  <2>1. CASE Goto(r, "activate")
    <3>1. "activate" \in Pc /\ req[r].pc # "idle"
      BY <1>2 DEF Pc
    <3>2. QED
      BY <2>1, <3>1, Goes DEF SignalInv
  <2>2. CASE Finish(r)
    BY <2>2, Finishes
  <2>3. QED
    BY <2>1, <2>2 DEF Sync, SyncAgain
<1>6. req[r].pc \notin Trace \cup {"load"} /\ req[r].pc \notin Owed
  BY <1>2 DEF Trace, Owed
<1>7. PICK q : Moves(r, q) /\ q.pc \notin Trace
  BY <1>5 DEF Trace
<1>8. QED
  BY <1>2, <1>4, <1>6, <1>7, LookShown

\* A force or a clear ends with a trace.
LEMMA ChangeShown ==
    ASSUME SignalInv, ShownInv, NEW r \in Requests, ApplyForce(r) \/ ClearForce(r)
    PROVE  ShownInv'
<1>1. PICK p : p = req[r].proj
  OBVIOUS
<1>2. req[r].pc = "change" /\ UNCHANGED <<catalog, layer, tracer>>
  BY DEF ApplyForce, ClearForce, At
<1>3. req[r].pc \notin Trace \cup {"load"} /\ req[r].pc \notin Owed
  BY <1>2 DEF Trace, Owed
<1>4. p \in Projects /\ catalog[p] # None
  BY <1>1, <1>2, CatalogOf DEF Catalogued
<1>5. \/ Finish(r) /\ UNCHANGED value
      \/ Changed(r) /\ \A x \in Projects \ {p} : value'[x] = value[x]
  BY <1>1, <1>4 DEF ApplyForce, ClearForce, SetSignals, SignalInv, TypeInv, TypeOK
<1>6. CASE Finish(r) /\ UNCHANGED value
  <2>1. Moves(r, Idle) /\ Idle.pc \notin Trace
    BY <1>6, Finishes DEF Trace
  <2>2. QED
    BY <1>2, <1>3, <1>6, <2>1, LookShown
<1>7. CASE Changed(r) /\ \A x \in Projects \ {p} : value'[x] = value[x]
  <2>1. PICK q : Moves(r, q) /\ q.pc = "snapshot" /\ q.proj = p
    BY <1>1, <1>2, <1>7, ChangeMoves DEF SignalInv, At
  <2>2. q.pc \in Owed
    BY <2>1 DEF Owed
  <2>3. QED
    BY <1>1, <1>2, <1>3, <1>4, <1>7, <2>1, <2>2, OwedShown
<1>8. QED
  BY <1>5, <1>6, <1>7

\* The rest of a cycle: what it writes and what it shows, before its trace.
LEMMA CycleShown ==
    ASSUME SignalInv, ShownInv, NEW r \in Requests,
           ApplyCycle(r) \/ RecordCycle(r) \/ TestChanges(r) \/ PushChanges(r)
    PROVE  ShownInv'
<1>1. PICK p : p = req[r].proj
  OBVIOUS
<1>2. req[r].pc \in {"apply", "record", "push", "pushing"} /\ UNCHANGED <<catalog, tracer>>
  BY DEF ApplyCycle, RecordCycle, TestChanges, PushChanges, At
<1>3. p \in Projects /\ catalog[p] # None
  BY <1>1, <1>2, CatalogOf DEF Catalogued
<1>4. \A x \in Projects \ {p} : value'[x] = value[x]
  BY <1>1, <1>3
  DEF ApplyCycle, RecordCycle, TestChanges, PushChanges, SetSignals, SignalInv, TypeInv, TypeOK
<1>5. UNCHANGED layer \/ \E v : Update(p, v, astray)
  BY <1>1 DEF ApplyCycle, RecordCycle, TestChanges, PushChanges
<1>6. \E q : Moves(r, q) /\ q.pc \in Owed /\ q.proj = p
  BY <1>1, ApplyMoves, RecordMoves, TestMoves DEF Owed, SignalInv
<1>7. req[r].pc \notin Trace \cup {"load"}
  BY <1>2 DEF Trace
<1>8. QED
  BY <1>1, <1>2, <1>3, <1>4, <1>5, <1>6, <1>7, OwedShown

LEMMA ShownStep ==
    ASSUME SignalInv, ShownInv, [Next]_vars
    PROVE  ShownInv'
<1>1. CASE UNCHANGED vars
  BY <1>1 DEF vars, layer, ShownInv, TracesOK, RowsOK, ContentOK, TraceOK, TraceComes, Tracing,
              Loading
<1>2. ASSUME NEW p \in Projects, MapIo(p) PROVE ShownInv'
  <2>1. UNCHANGED <<catalog, value, rowsOf, loaded, shown, astray, tracer, req>>
    BY <1>2 DEF MapIo, layer
  <2>2. QED
    BY <2>1 DEF ShownInv, TracesOK, RowsOK, ContentOK, TraceOK, TraceComes, Tracing, Loading
<1>3. ASSUME NEW r \in Requests, NEW p \in Projects,
             Guard(r, p) \/ Simulate(r, p) \/ Deploy(r, p)
      PROVE  ShownInv'
  <2>1. /\ req[r].pc = "idle" /\ UNCHANGED <<catalog, value, layer, tracer>>
        /\ \E q : Moves(r, q) /\ q.pc \in {"baseline", "snapshot", "trace", "sync"}
    BY <1>3, EnterMoves DEF SignalInv, At
  <2>2. \E q : Moves(r, q) /\ q.pc \notin Trace
    BY <2>1 DEF Trace
  <2>3. req[r].pc \notin Trace \cup {"load"} /\ req[r].pc \notin Owed
    BY <2>1 DEF Trace, Owed
  <2>4. QED
    BY <2>1, <2>2, <2>3, LookShown
<1>4. ASSUME NEW r \in Requests, Baseline(r) \/ Snapshot(r) PROVE ShownInv'
  <2>1. UNCHANGED <<forced, layer, tracer>> /\ req[r].pc \in {"baseline", "snapshot"}
    BY <1>4 DEF Baseline, Snapshot, At
  <2>2. PICK p \in Projects : Ensures(p)
    BY <1>4, BaselineMoves, SnapshotMoves DEF SignalInv
  <2>3. \A x \in Projects :
          catalog[x] = None \/ (catalog'[x] = catalog[x] /\ value'[x] = value[x])
    BY <2>1, <2>2, LookShows
  <2>4. req[r].pc \notin Trace \cup {"load"}
    BY <2>1 DEF Trace
  <2>5. PICK q : /\ Moves(r, q) /\ q.pc \notin Trace
                 /\ req[r].pc \in Owed => q.proj = req[r].proj /\ q.pc \in Owed
    <3>1. CASE Baseline(r)
      <4>1. req[r].pc \notin Owed
        BY <3>1 DEF Baseline, At, Owed
      <4>2. QED
        BY <3>1, <4>1, BaselineMoves DEF SignalInv, Trace
    <3>2. CASE Snapshot(r)
      BY <3>2, SnapshotMoves DEF SignalInv, Trace, Owed
    <3>3. QED
      BY <1>4, <3>1, <3>2
  <2>6. QED
    BY <2>1, <2>3, <2>4, <2>5, LookShown
<1>5. ASSUME NEW r \in Requests, Activate(r) \/ TestReport(r) PROVE ShownInv'
  <2>1. /\ req[r].pc \in {"activate", "report"} /\ UNCHANGED <<catalog, value, layer, tracer>>
    BY <1>5 DEF Activate, TestReport, At
  <2>2. \E q : Moves(r, q) /\ q.pc \in {"again", "reporting", "idle"}
    <3>1. CASE TestReport(r)
      BY <3>1, TestReportMoves DEF SignalInv
    <3>2. CASE Goto(r, "again")
      <4>1. "again" \in Pc
        BY DEF Pc
      <4>2. QED
        BY <2>1, <3>2, <4>1, Goes DEF SignalInv
    <3>3. CASE Finish(r)
      BY <3>3, Finishes
    <3>4. QED
      BY <1>5, <3>1, <3>2, <3>3 DEF Activate
  <2>3. \E q : Moves(r, q) /\ q.pc \notin Trace
    BY <2>2 DEF Trace
  <2>4. req[r].pc \notin Trace \cup {"load"} /\ req[r].pc \notin Owed
    BY <2>1 DEF Trace, Owed
  <2>5. QED
    BY <2>1, <2>3, <2>4, LookShown
<1>6. ASSUME NEW r \in Requests, NEW p \in Projects, Summary(r, p) PROVE ShownInv'
  <2>1. /\ At(r, "idle") /\ Ensures(p)
        /\ \E q : Moves(r, q) /\ q.pc = "report"
    BY <1>6, SummaryMoves DEF SignalInv
  <2>2. UNCHANGED <<forced, layer, tracer>>
    BY <1>6 DEF Summary
  <2>3. \A x \in Projects :
          catalog[x] = None \/ (catalog'[x] = catalog[x] /\ value'[x] = value[x])
    BY <2>1, <2>2, LookShows
  <2>4. \E q : Moves(r, q) /\ q.pc \notin Trace
    BY <2>1 DEF Trace
  <2>5. req[r].pc \notin Trace \cup {"load"} /\ req[r].pc \notin Owed
    BY <2>1 DEF At, Trace, Owed
  <2>6. QED
    BY <2>2, <2>3, <2>4, <2>5, LookShown
<1>7. QED
  BY <1>1, <1>2, <1>3, <1>4, <1>5, <1>6, ChangeShown, CycleShown, SampleShown,
     TestTraceShown, PushTraceShown, ReportShown, SyncShown, LoadRowsShown, LoadActiveShown
  DEF Next, Serve

\* However requests, polls and loads interleave: once no request is at work, and nothing went
\* astray that no trace has put right, the behaviour layer has the rows of the active project
\* and was given nothing that is not the current value.  Older pushes may be late, but who
\* changed a value still owes a trace, and the traces sample and push one at a time.
THEOREM ShownCatchesUp == Spec => []BehaviourCatchesUp
<1>1. Init => ShownInv
  BY DEF Init, ShownInv, TracesOK, TraceOK, RowsOK, ContentOK, Idle, Trace
<1>2. SignalInv /\ ShownInv /\ [Next]_vars => ShownInv'
  BY ShownStep
<1>3. ShownInv => BehaviourCatchesUp
  <2> SUFFICES ASSUME ShownInv, Quiet, ~astray
               PROVE  /\ rowsOf = loaded
                      /\ loaded # None => Tells(shown, value[loaded])
    BY DEF BehaviourCatchesUp, Tells
  <2>1. \A p : ~TraceComes(p) /\ ~Tracing(p) /\ ~Loading(p)
    BY DEF Quiet, At, TraceComes, Tracing, Loading, Owed, Trace
  <2>2. QED
    BY <2>1 DEF ShownInv, RowsOK, ContentOK
<1>4. QED
  BY <1>1, <1>2, <1>3, SignalHolds, PTL DEF Spec
=============================================================================
