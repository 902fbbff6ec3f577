------------------------------ MODULE StrictLoops ------------------------------
(***************************************************************************)
(* The control loops a parse shows: services/cross_validation_service.py   *)
(* keeps the relationships that text, topology and naming support,         *)
(* strict_control_loop_engine.py finds sensor, controller, actuator and    *)
(* process along them and keeps one loop for each sensor, actuator and     *)
(* process, cross validation judges these again, and                       *)
(* validation_control_loop_layer.py tunes them by what the documents say   *)
(* and shows those that are trusted enough.                                *)
(*                                                                         *)
(* Entities are numbers in the order of their tags, confidences and scores *)
(* per mille.  The graph validation between is GraphValidation.  Of texts  *)
(* the references and the tags in them are kept, of tuning one parameter.  *)
(***************************************************************************)
EXTENDS Integers, Sequences, FiniteSets, SequencesExt, PythonNone

CONSTANTS
    Devices,     \* entities
    Behaves,     \* Behaves[e]: sensor, controller, actuator, process or equipment
    ServedUnit,  \* ServedUnit[e]: its process unit, None if it has none
    DigitsOf,    \* DigitsOf[e]: the digits of its tag, 0 if it has none
    UnitTyped,   \* entities whose type is process_unit
    TypeFits,    \* pairs whose names fit what the type of the first is for
    Candidates,  \* relationships that documents can give: a sequence
    Intents,     \* what documents say one tag does to another: a sequence
    PageOf,      \* PageOf[r]: the page that a reference names, 0 if none
    Blocks,      \* blocks of text with tuning values
    MaxPresent   \* bound on the relationships of a parse

RelationKinds ==
    {"PROCESS_FLOW", "CONNECTED_TO", "FEEDS", "DISCHARGES_TO", "SUPPLIES_AIR_TO", "MEASURES",
     "CONTROLS", "SIGNAL_TO", "PART_OF", "MONITORS", "INTERLOCKS_WITH", "ALARMS_ON", "SUPPORTS",
     "LOCATED_IN", "ASSOCIATED_WITH"}

ASSUME StrictLoopsAssumption ==
    /\ Devices \subseteq Nat \ {0}
    /\ Len(Candidates) \in Nat /\ DOMAIN Candidates = 1..Len(Candidates)
    /\ \A i \in DOMAIN Candidates :
        /\ DOMAIN Candidates[i] = {"source", "target", "kind", "trust", "refs"}
        /\ Candidates[i].source \in Devices /\ Candidates[i].target \in Devices
        /\ Candidates[i].kind \in RelationKinds /\ Candidates[i].trust \in 0..100

VARIABLE present \* the candidates that the documents gave, by number

StrictInit == present = {}

Give(i) ==
    /\ Cardinality(present) < MaxPresent
    /\ present' = present \cup {i}

StrictNext == \E i \in DOMAIN Candidates : Give(i)

StrictSpec == StrictInit /\ [][StrictNext]_present

-----------------------------------------------------------------------------
(* Cross validation of relationships. *)

Count(supports) == Cardinality({i \in DOMAIN supports : supports[i]})
AtMost(n, bound) == IF n < bound THEN n ELSE bound
SharedDigits(d, e) == DigitsOf[d] # 0 /\ DigitsOf[d] = DigitsOf[e]

\* The intents between two tags; the first tells what kind of control it is.
Between(s, t) == SelectSeq(Intents, LAMBDA i : i.source = s /\ i.target = t)

RelationSupports(r) ==
    LET said == Between(r.source, r.target) IN
    <<r.refs # {} \/ \E i \in DOMAIN said : said[i].ref # None,
      \/ ServedUnit[r.source] # None /\ ServedUnit[r.source] = ServedUnit[r.target]
      \/ r.kind = "MEASURES" /\ r.target \in UnitTyped
      \/ r.kind = "PART_OF",
      \/ SharedDigits(r.source, r.target)
      \/ IF said = <<>> THEN <<r.source, r.target>> \in TypeFits ELSE said[1].fits>>

\* validate_relationships: what is supported twice, trusted a little more.  Of a list some
\* numbers are left, in whose order it is read.
Supported(list) ==
    LET supports == [i \in DOMAIN list |-> Count(RelationSupports(list[i]))] IN
    [i \in {j \in DOMAIN list : supports[j] >= 2} |->
        [list[i] EXCEPT !.trust = AtMost(99, @ + 6 * (supports[i] - 1))]]

-----------------------------------------------------------------------------
(* The engine. *)

ControlKinds == {"CONTROLS", "SIGNAL_TO", "SUPPORTS"}
ProcessKinds ==
    {"PART_OF", "PROCESS_FLOW", "FEEDS", "DISCHARGES_TO", "CONNECTED_TO", "SUPPLIES_AIR_TO",
     "CONTROLS"}
MeasurementKinds == {"MEASURES", "MONITORS"}

Follows(list, i, j, kinds, role) ==
    /\ list[j].source = list[i].target
    /\ list[j].kind \in kinds /\ Behaves[list[j].target] = role

Starts(list, i, role) ==
    /\ Behaves[list[i].source] = "sensor"
    /\ list[i].kind \in ControlKinds /\ Behaves[list[i].target] = role

\* _explicit_controller_paths and _direct_actuator_paths: the numbers of their edges.
PathsIn(list) ==
    LET d == DOMAIN list IN
    {p \in d \X d \X d : /\ Starts(list, p[1], "controller")
                         /\ Follows(list, p[1], p[2], ControlKinds, "actuator")
                         /\ Follows(list, p[2], p[3], ProcessKinds, "process")}
        \cup {p \in d \X d : /\ Starts(list, p[1], "actuator")
                             /\ Follows(list, p[1], p[2], ProcessKinds, "process")}

\* _measured_processes
MeasuredIn(list, sensor, process) ==
    \E i \in DOMAIN list : /\ list[i].kind \in MeasurementKinds
                           /\ list[i].source = sensor /\ list[i].target = process

\* _combined_confidence of scores, the validation score in thirds.
Combined(completeness, continuity, thirds, relationship) ==
    AtMost(990, (72 * completeness + 84 * continuity + 24 * thirds + 72 * relationship + 150)
                    \div 300)

\* _build_loop_record: the loop along two or three edges.  Of a direct path the controller has
\* its name of the digits that sensor and actuator share, or else of the process.
LoopAlong(edges) ==
    LET n == Len(edges)
        explicit == n = 3
        sensor == edges[1].source
        actuator == edges[n].source
        process == edges[n].target
        controller == IF explicit THEN edges[1].target ELSE None
        said == UNION {{x.text : x \in ToSet(Between(sensor, t))} :
                        t \in IF explicit THEN {controller, actuator} ELSE {actuator}} \ {None}
        refs == UNION {edges[i].refs : i \in 1..n}
        digits == \/ SharedDigits(sensor, actuator)
                  \/ SharedDigits(sensor, IF explicit THEN controller ELSE process)
        signals == Count(<<said # {}, refs # {}, digits>>)
        thirds == IF signals <= 1 THEN 1020 ELSE 1000 * signals
        total == edges[1].trust + edges[2].trust + (IF explicit THEN edges[3].trust ELSE 0)
        complete == IF explicit THEN 1000 ELSE 880
        continuous == IF explicit THEN 1000 ELSE 900
        relationship == (20 * total + n) \div (2 * n)
    IN [sensor |-> sensor, controller |-> controller, actuator |-> actuator,
        process |-> process, texts |-> said \cup refs,
        complete |-> complete, continuous |-> continuous, thirds |-> thirds,
        relationship |-> relationship,
        confidence |-> Combined(complete, continuous, thirds, relationship)]
LoopOf(list, path) == LoopAlong([i \in DOMAIN path |-> list[path[i]]])

LoopKey(l) == <<l.sensor, l.actuator, l.process>>

\* Explicit paths are met before direct ones, and paths in the order of their edges.
MetBefore(p, q) ==
    \/ Len(p) > Len(q)
    \/ Len(p) = Len(q) /\ \E i \in DOMAIN p : p[i] < q[i] /\ \A j \in 1..i - 1 : p[j] = q[j]

\* The rank of _deduplicate_loop in one number.
RankOf(l) == (l.confidence * 3001 + l.thirds) * 2 + (IF l.continuous = 1000 THEN 1 ELSE 0)

\* The paths whose sensor measures the process, with their loops.
LoopsOnPaths(list) ==
    {c \in {[path |-> p, loop |-> LoopOf(list, p)] : p \in PathsIn(list)} :
        MeasuredIn(list, c.loop.sensor, c.loop.process)}

\* Mutant: a loop is kept for each path.
DiscoverEach(list) == {c.loop : c \in LoopsOnPaths(list)}

\* discover: of the paths of one key the loop that ranks highest, and of equals the first.
Discover(list) ==
    LET found == LoopsOnPaths(list) IN
    {c.loop : c \in {d \in found : \A e \in found \ {d} :
        LoopKey(d.loop) = LoopKey(e.loop) =>
            \/ RankOf(d.loop) > RankOf(e.loop)
            \/ RankOf(d.loop) = RankOf(e.loop) /\ MetBefore(d.path, e.path)}}

-----------------------------------------------------------------------------
(* What is made of the loops found. *)

LoopSupports(l) ==
    LET said == Between(l.sensor, l.actuator) IN
    <<l.texts # {},
      \/ ServedUnit[l.sensor] # None /\ ServedUnit[l.sensor] = ServedUnit[l.actuator]
      \/ l.process \in {ServedUnit[l.sensor], ServedUnit[l.actuator]},
      SharedDigits(l.sensor, l.actuator) \/ (said # <<>> /\ said[1].fits)>>

\* validate_loops for one loop: judged by its supports instead of its signals.
Judged(l) ==
    LET has == LoopSupports(l)
        validation == 200 + (IF has[2] THEN 350 ELSE 0) + (IF has[1] THEN 250 ELSE 0)
                        + (IF has[3] THEN 200 ELSE 0)
    IN [l EXCEPT !.thirds = 3 * validation,
                 !.confidence = Combined(l.complete, l.continuous, 3 * validation, l.relationship)]

Accepted(loops) == {Judged(l) : l \in {k \in loops : Count(LoopSupports(k)) >= 2}}

\* The loop a block of text tunes: the one whose tags it names most, or that shares a
\* reference with it, or whose pages are near; None if there is none like that.
ChainTags(l) == {l.sensor, l.controller, l.actuator, l.process} \ {None}
Distance(m, n) == IF m < n THEN n - m ELSE m - n
PageDistance(l, block) ==
    LET pages == {PageOf[r] : r \in l.texts} \ {0} IN
    IF pages = {} THEN 0
    ELSE CHOOSE d \in {Distance(p, block.page) : p \in pages} :
            \A p \in pages : d <= Distance(p, block.page)
Named(l, block) ==
    3 * Cardinality(ChainTags(l) \cap block.tags) + Cardinality(ChainTags(l) \cap block.mentions)
Cites(l, block) == l.texts \cap block.refs # {}

Nearer(k, l, block) ==
    LET rank(m) == <<-Named(m, block), IF Cites(m, block) THEN 0 ELSE 1,
                     PageDistance(m, block), -m.confidence, m.sensor,
                     IF m.controller = None THEN 0 ELSE m.controller, m.actuator, m.process>>
        a == rank(k)
        b == rank(l)
    IN \E i \in DOMAIN a : a[i] < b[i] /\ \A j \in 1..i - 1 : a[j] = b[j]

TunedBy(block, loops) ==
    LET best == {l \in loops : \A k \in loops \ {l} : Nearer(l, k, block)}
        near == {l \in best : \/ Named(l, block) > 0 \/ Cites(l, block)
                              \/ PageDistance(l, block) <= 2}
    IN IF near = {} THEN None ELSE CHOOSE l \in near : TRUE

\* _apply_tuning_data: the parameter of the first block of a loop that gives it.
BlockBefore(b, c) == b.page < c.page \/ (b.page = c.page /\ b.id < c.id)
TuningOf(l, loops) ==
    LET own == {b \in Blocks : TunedBy(b, loops) = l /\ b.value # None}
    IN IF own = {} THEN None
       ELSE (CHOOSE b \in own : \A c \in own \ {b} : BlockBefore(b, c)).value

Visible(l) == l.confidence >= 840

\* process: the loops shown, with their tuning, and those that are not.
ResultOf(found, accepted) ==
    [shown |-> {[loop |-> l, tuning |-> TuningOf(l, accepted)] :
                    l \in {k \in accepted : Visible(k)}},
     rejected |-> {Judged(l) : l \in found} \ {k \in accepted : Visible(k)}]
ResultFor(found) == ResultOf(found, Accepted(found))
Result(list) == ResultFor(Discover(Supported(list)))

-----------------------------------------------------------------------------
(* Properties. *)

Given == [i \in present |-> Candidates[i]]
Backwards(list) == [i \in {-j : j \in DOMAIN list} |-> list[-i]]

\* Every sensor, actuator and process on a path that is measured is shown or rejected once,
\* and what is shown has two supports and the least confidence of a visible loop.
PathsAreAccounted(result, loops) ==
    LET shown == {s.loop : s \in result.shown}
        keys(some) == {LoopKey(l) : l \in some}
    IN /\ keys(shown) \cup keys(result.rejected) = keys(loops)
       /\ Cardinality(shown) + Cardinality(result.rejected) = Cardinality(keys(loops))
       /\ \A l \in shown : Count(LoopSupports(l)) >= 2 /\ l.confidence >= 840

\* Although one loop of a key is kept before cross validation judges it by other measures, no
\* path of the key would have been judged better, unless the paths differ in the signals
\* that the engine counts or in whether any text speaks of them: by one per mille that the
\* engine rounds away, or by eight where its bound hides what is above.
KeptIsJudgedBest(result, loops) ==
    \A l \in loops, k \in {s.loop : s \in result.shown} \cup result.rejected :
        LET rivals == {m \in loops : LoopKey(m) = LoopKey(l)} IN
        /\ LoopKey(k) = LoopKey(l)
        /\ \A m \in rivals : m.thirds = l.thirds /\ (m.texts = {} <=> l.texts = {})
        => Judged(l).confidence <= k.confidence + (IF l.confidence = 990 THEN 8 ELSE 1)

\* What is shown does not depend on the order in which relationships were found, unless
\* two paths of one key rank alike.
ResultIsOrderFree(result, loops) ==
    \/ \E k, l \in loops : LoopKey(k) = LoopKey(l) /\ k # l /\ RankOf(k) = RankOf(l)
    \/ Result(Backwards(Given)) = result

\* Loops are accounted for, the best of each is kept, and none hangs on an order.
AreJudged(result, loops) ==
    /\ PathsAreAccounted(result, loops) /\ KeptIsJudgedBest(result, loops)
    /\ ResultIsOrderFree(result, loops)
LoopsAreJudged ==
    present # {} => AreJudged(Result(Given), {c.loop : c \in LoopsOnPaths(Supported(Given))})
================================================================================
