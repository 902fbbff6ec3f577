----------------------------- MODULE LoopDetection -----------------------------
(***************************************************************************)
(* Control loops found in the plant graph, by two pieces of code that must *)
(* not disagree: services/control_loop_engine.py, which reads the nodes    *)
(* and edges from Neo4j (each edge from both of its ends) or, when Neo4j   *)
(* has nothing, from the cached graph (each edge once), and whose loops    *)
(* services/control_loop_store.py keeps; and get_plant_signals of          *)
(* services/graph_service.py, which lists the tags with their loops.       *)
(*                                                                         *)
(* Nodes are numbers in the order of their names.  Two detections at once, *)
(* and a store that is cut short, are in LogicRuns.                        *)
(***************************************************************************)
EXTENDS Integers, FiniteSets, Sequences, SequencesExt

CONSTANTS
    Nodes,
    RolesOf,    \* RolesOf[n]: what the engine takes a node for, by any of its fields
    TypeRole,   \* TypeRole[n]: the role of its node type alone
    PartOf,     \* PartOf[n]: its process unit, 0 if it has none
    TokenOf,    \* TokenOf[n]: the letters and digits of its name
    NodeOrder,  \* the nodes in the order of the graph
    TrustIn,    \* TrustIn[n]: its confidence in percent
    Synthetic,  \* nodes that no document names
    Drawable,   \* edges the documents can give
    MaxDrawn    \* bound on the edges of a graph

Kinds == {"measures", "monitors", "signal", "controls", "generic", "other"}

\* The semantic_kind that a parse stores on an edge of a kind, as far as it counts here; an
\* edge that a P&ID update added has none.  (INTERLOCKS_WITH, ALARMS_ON and SUPPORTS are
\* among the others.)
Semantics(kind) ==
    CASE kind \in {"measures", "monitors"} -> {"none", "measurement"}
      [] kind \in {"signal", "controls", "other"} -> {"none", "control"}
      [] OTHER -> {"none"}
DrawnEdges ==
    {e \in [source : Nodes, target : Nodes, kind : Kinds,
            semantic : {"none", "measurement", "control"}, score : 0..100] :
        e.semantic \in Semantics(e.kind)}

ASSUME DetectionAssumption ==
    /\ Nodes \subseteq Nat \ {0}
    /\ RolesOf \in [Nodes -> SUBSET {"sensor", "process", "actuator"}]
    /\ PartOf \in [Nodes -> Nat]
    /\ NodeOrder \in Seq(Nodes) /\ ToSet(NodeOrder) = Nodes
    /\ Drawable \subseteq DrawnEdges

VARIABLE graph \* the edges

DetectionInit == graph = {}

\* One edge of a kind from a node to another.
Draw(e) ==
    /\ Cardinality(graph) < MaxDrawn
    /\ \A d \in graph : <<d.source, d.target, d.kind>> # <<e.source, e.target, e.kind>>
    /\ graph' = graph \cup {e}

DetectionNext == \E e \in Drawable : Draw(e)

DetectionSpec == DetectionInit /\ [][DetectionNext]_graph

-----------------------------------------------------------------------------
(* What an edge says of a sensor or an actuator and a process. *)

Is(n, role) == role \in RolesOf[n]
Joins(e, role) ==
    (Is(e.source, role) /\ Is(e.target, "process")) \/ (Is(e.target, role) /\ Is(e.source, "process"))

\* An edge that does not say what it means: a signal counts as a measurement before it can
\* as control.
ByKind(e) ==
    CASE e.kind \in {"measures", "monitors", "signal"} -> "measures"
      [] e.kind = "controls" -> "controls"
      [] e.kind = "generic" /\ Joins(e, "sensor") -> "measures"
      [] e.kind = "generic" /\ ~Joins(e, "sensor") /\ Joins(e, "actuator") -> "controls"
      [] OTHER -> "none"

\* _normalize_relationship: what is stored on the edge goes before its kind.
Normalized(e) ==
    CASE e.semantic = "measurement" -> "measures"
      [] e.semantic = "control" -> "controls"
      [] OTHER -> ByKind(e)

Unit(n) == IF PartOf[n] = 0 THEN n ELSE PartOf[n]

\* The row an edge gives: the end that is the device, the source if both can be.
RowOfEdge(e, meaning, role) ==
    CASE Normalized(e) # meaning \/ ~Joins(e, role) -> {}
      [] Normalized(e) = meaning /\ Is(e.source, role) /\ Is(e.target, "process") ->
            {[device |-> e.source, process |-> Unit(e.target), score |-> e.score]}
      [] OTHER -> {[device |-> e.target, process |-> Unit(e.source), score |-> e.score]}

Reversed(e) == [e EXCEPT !.source = e.target, !.target = e.source]

\* The edge rows of the two readers.
FromNeo4j == graph \cup {Reversed(e) : e \in graph}
FromCache == graph

SensorRows(edgeRows) == UNION {RowOfEdge(e, "measures", "sensor") : e \in edgeRows}
ActuatorRows(edgeRows) == UNION {RowOfEdge(e, "controls", "actuator") : e \in edgeRows}

\* detect: every sensor of a process with every actuator of it, and of the rows of one loop
\* the most confident pair; the confidence in half percents.
LoopsFound(edgeRows) ==
    LET pairs == {sa \in SensorRows(edgeRows) \X ActuatorRows(edgeRows) :
                    sa[1].process = sa[2].process}
        all == {[process |-> sa[1].process, sensor |-> sa[1].device, actuator |-> sa[2].device,
                 score |-> sa[1].score + sa[2].score] : sa \in pairs}
    IN {l \in all : \A k \in all : [k EXCEPT !.score = l.score] = l => k.score <= l.score}

\* The loop's tag, which the table knows it by: the process is not part of it.
LoopTag(sensor, actuator) == <<TokenOf[sensor], TokenOf[actuator]>>
TagOfLoop(l) == LoopTag(l.sensor, l.actuator)

\* The order in which loops are stored.
StoredBefore(k, l) ==
    \/ k.process < l.process
    \/ k.process = l.process /\ k.sensor < l.sensor
    \/ k.process = l.process /\ k.sensor = l.sensor /\ k.actuator < l.actuator

\* upsert_project_loops: rows of other tags are deleted, and of one tag the last loop stays.
Stored(loops) ==
    {l \in loops : \A k \in loops : TagOfLoop(k) = TagOfLoop(l) /\ k # l => StoredBefore(k, l)}

-----------------------------------------------------------------------------
(* The list of signals. *)

\* Nodes spelled alike are one: a node of the documents before a synthetic one, and
\* otherwise a later one that is trusted more.
Represent(best, n) ==
    IF \/ best = 0
       \/ n \notin Synthetic /\ best \in Synthetic
       \/ TrustIn[n] > TrustIn[best]
    THEN n ELSE best
SameTag(m, n) == TokenOf[m] = TokenOf[n]
Representative(n) ==
    LET best[i \in 0..Len(NodeOrder)] ==
            IF i = 0 THEN 0
            ELSE IF SameTag(NodeOrder[i], n) THEN Represent(best[i - 1], NodeOrder[i])
            ELSE best[i - 1]
    IN best[Len(NodeOrder)]

Merged ==
    {[source |-> Representative(e.source), target |-> Representative(e.target), kind |-> e.kind] :
        e \in {d \in graph : Representative(d.source) # Representative(d.target)}}

Measured ==
    {<<e.source, e.target>> : e \in {d \in Merged : d.kind \in {"measures", "monitors"}}}
        \cup {<<e.target, e.source>> : e \in {d \in Merged :
                /\ d.kind \in {"measures", "monitors"}
                /\ TypeRole[d.source] = "process" /\ TypeRole[d.target] = "sensor"}}

Controlled ==
    {ap \in Nodes \X Nodes :
        /\ TypeRole[ap[1]] = "actuator" /\ TypeRole[ap[2]] = "process"
        /\ \E e \in Merged :
            e.kind \in {"signal", "controls"} /\ {e.source, e.target} = {ap[1], ap[2]}}

\* Of a graph without such edges the process units tell.
Belongs(role) ==
    {<<n, Representative(PartOf[n])>> : n \in
        {m \in Nodes : /\ Representative(m) = m /\ TypeRole[m] = role
                       /\ PartOf[m] \in Nodes}}

SensorsAt(p) ==
    {n \in Nodes : <<n, p>> \in Belongs("sensor")
                   \/ (<<n, p>> \in Measured /\ TypeRole[p] = "process")}
ActuatorsAt(p) == {n \in Nodes : <<n, p>> \in Belongs("actuator") \cup Controlled}

SignalLoops ==
    UNION {{[process |-> p, sensor |-> s, actuator |-> a] :
                s \in SensorsAt(p), a \in ActuatorsAt(p)} : p \in Nodes}

-----------------------------------------------------------------------------
\* An edge either of whose ends can be the device.
Ambiguous(e) ==
    \E role \in {"sensor", "actuator"} :
        {role, "process"} \subseteq RolesOf[e.source] \cap RolesOf[e.target]

Best(edges, meaning, role, n, p) ==
    LET scores == {e.score : e \in {d \in edges :
            /\ Normalized(d) = meaning
            /\ \/ d.source = n /\ Is(n, role) /\ Is(d.target, "process") /\ Unit(d.target) = p
               \/ d.target = n /\ Is(n, role) /\ Is(d.source, "process") /\ Unit(d.source) = p}}
    IN CHOOSE m \in scores \cup {-1} : \A k \in scores : m >= k

\* Whichever store the graph is read from, a loop is found for every sensor and actuator
\* of a process, with the confidence of the best edge of each, although one store gives
\* every edge twice; the cache may miss one only for an edge that can be read either way.
ReadersAgree ==
    /\ LoopsFound(FromNeo4j) =
        UNION {{[process |-> p, sensor |-> n, actuator |-> m,
                 score |-> Best(graph, "measures", "sensor", n, p)
                            + Best(graph, "controls", "actuator", m, p)] :
                    n \in {d \in Nodes : Best(graph, "measures", "sensor", d, p) >= 0},
                    m \in {d \in Nodes : Best(graph, "controls", "actuator", d, p) >= 0}} :
                p \in {Unit(d) : d \in Nodes}}
    /\ (\A e \in graph : ~Ambiguous(e)) => LoopsFound(FromCache) = LoopsFound(FromNeo4j)

\* The table has the tags of the loops, each once; it has all loops unless a sensor and an
\* actuator meet at two processes, or tags are spelled alike.
TableHoldsTheLoops ==
    LET found == LoopsFound(FromNeo4j) IN
    /\ {TagOfLoop(l) : l \in Stored(found)} = {TagOfLoop(l) : l \in found}
    /\ Cardinality(Stored(found)) = Cardinality({TagOfLoop(l) : l \in found})
    /\ (\A k, l \in found : TagOfLoop(k) = TagOfLoop(l) => k = l) => Stored(found) = found

\* A process, as the engine takes it, that belongs to a unit: the engine counts it as the
\* unit and the list of signals as itself.
InAUnit(n) == Is(n, "process") /\ PartOf[n] # 0

\* An edge of which the engine and the list of signals make the same, by its kind or by
\* what a parse stored on it.
SaysSo(e) ==
    \/ e.kind \in {"measures", "monitors", "controls"}
    \/ e.kind = "signal" /\ e.semantic = "control"

\* A loop that the engine finds by edges that say so is in the list of signals under its
\* tag, where nodes are what their types say, those spelled alike are of one type and no
\* process belongs to a unit.
SignalsListTheLoops ==
    /\ \A e \in graph : /\ SaysSo(e)
                        /\ ~InAUnit(e.source) /\ ~InAUnit(e.target)
    /\ \A m, n \in Nodes : SameTag(m, n) => TypeRole[m] = TypeRole[n]
    =>
        \A l \in LoopsFound(FromNeo4j) :
            /\ TypeRole[l.sensor] = "sensor" /\ TypeRole[l.actuator] = "actuator"
            /\ TypeRole[l.process] = "process"
            =>
            \E k \in SignalLoops : TagOfLoop(k) = TagOfLoop(l)

\* The engine finds the same loops in either store, its table holds the loops it found,
\* and the list of signals shows them.
DetectionIsOne == ReadersAgree /\ TableHoldsTheLoops /\ SignalsListTheLoops
===============================================================================
