--------------------------- MODULE GraphValidation ---------------------------
(***************************************************************************)
(* Which relationships become edges of the plant graph: validate of        *)
(* services/graph_validation_service.py, over the list of relationships    *)
(* that the extractors have found so far.  It drops the weak, the unknown  *)
(* and the incompatible, keeps the best of several that say the same, and  *)
(* gives each source no more than MaxOutgoing edges.                       *)
(*                                                                         *)
(* Entities are given with their bucket and their process unit.  A score   *)
(* is a number of percent.  Warnings are left out.                         *)
(***************************************************************************)
EXTENDS Integers, Sequences, FiniteSets, PythonNone

CONSTANTS
    Entities,    \* identifiers of the entities
    Strangers,   \* identifiers that relationships name and no entity has
    BucketOf,    \* BucketOf[e]: the bucket of an entity
    UnitOf,      \* UnitOf[e]: its process unit, or None
    Units,       \* the entities that are process units, whatever their bucket
    Pool,        \* relationships the extractors can find
    MaxOutgoing, \* max_outgoing_edges
    MaxFound     \* bound: relationships found

Kinds == {"SIGNAL_TO", "CONTROLS", "INTERLOCKS_WITH", "ALARMS_ON", "MEASURES", "PROCESS_FLOW",
          "CONNECTED_TO", "SUPPLIES_AIR_TO", "FEEDS", "DISCHARGES_TO", "PART_OF",
          "MONITORS", "SUPPORTS", "LOCATED_IN", "ASSOCIATED_WITH"}
Sources == {"narrative", "merged", "refinement", "assignment", "heuristic", "locality",
            "validation"}
Relationships ==
    [kind : Kinds, source : Entities \cup Strangers, target : Entities \cup Strangers,
     from : Sources, score : 0..100]

ASSUME ValidationAssumption ==
    /\ Entities \cap Strangers = {}
    /\ Pool \subseteq Relationships
    /\ MaxOutgoing \in Nat
    /\ MaxFound \in Nat

VARIABLE found  \* the list of relationships

\* _inference_priority and _relationship_priority: less is stronger.
InferencePriority ==
    [s \in Sources |->
        CASE s = "narrative" -> 0 [] s = "merged" -> 1 [] s = "refinement" -> 2
          [] s = "assignment" -> 3 [] s = "heuristic" -> 4 [] s = "locality" -> 5
          [] OTHER -> 6]

RelationshipPriority(r) ==
    IF \/ r.from = "narrative"
       \/ r.kind \in {"SIGNAL_TO", "CONTROLS", "INTERLOCKS_WITH", "ALARMS_ON", "MEASURES"}
    THEN 0
    ELSE IF r.kind \in {"PROCESS_FLOW", "CONNECTED_TO", "SUPPLIES_AIR_TO"} THEN 1
    ELSE IF r.kind \in {"FEEDS", "DISCHARGES_TO", "PART_OF"} THEN 2
    ELSE IF r.from \in {"heuristic", "locality"} THEN 3
    ELSE 4

\* The order by (relationship priority, inference priority, - score).
Stronger(r, s) ==
    \/ RelationshipPriority(r) < RelationshipPriority(s)
    \/ /\ RelationshipPriority(r) = RelationshipPriority(s)
       /\ \/ InferencePriority[r.from] < InferencePriority[s.from]
          \/ InferencePriority[r.from] = InferencePriority[s.from] /\ r.score > s.score

Symmetric(r) == r.kind \in {"INTERLOCKS_WITH", "CONNECTED_TO", "ASSOCIATED_WITH"}

\* Edges that anchor a device to its process unit are not checked further.
Structural(r) == r.kind = "PART_OF" \/ (r.kind = "MEASURES" /\ r.target \in Units)

\* compatibility_matrix, with the buckets its entries stand for (_target_matches_allowed).
\* Every pair that _is_compatible refuses before it looks there is not in it.
Basins == {"basin", "aeration_basin"}
Allowed(bucket) ==
    CASE bucket = "pump" -> Basins \cup {"tank", "clarifier"}
      [] bucket = "blower" -> Basins \cup {"air_header"}
      [] bucket = "flow_transmitter" -> {"pipe", "valve", "control_valve", "pump"}
      [] bucket = "level_transmitter" -> {"tank", "wet_well"}
      [] bucket = "analyzer" -> Basins \cup {"control_valve"}
      [] bucket = "temperature_transmitter" -> Basins \cup {"tank", "control_valve"}
      [] bucket = "control_valve" -> Basins \cup {"pipe"}
      [] OTHER -> {}

CrossesUnits(r) ==
    /\ UnitOf[r.source] # None
    /\ UnitOf[r.target] # None
    /\ UnitOf[r.source] # UnitOf[r.target]

\* The first loop of validate: what may become an edge at all.
Admissible(r) ==
    /\ r.score >= 50
    /\ {r.source, r.target} \subseteq Entities
    /\ \/ Structural(r)
       \/ ~CrossesUnits(r) /\ BucketOf[r.target] \in Allowed(BucketOf[r.source])

-----------------------------------------------------------------------------
(* The relationships of a list that stay, as indices of the list.           *)

Key(r) == <<r.source, r.target, r.kind>>
SameEdge(r, s) ==
    \/ Key(r) = Key(s)
    \/ Symmetric(r) /\ Key(s) = <<r.target, r.source, r.kind>>

Admitted(list) == {i \in DOMAIN list : Admissible(list[i])}

\* Mutant: of each key the first.
FirstOfEachKey(list) ==
    LET admitted == Admitted(list) IN
    {i \in admitted : \A j \in admitted : Key(list[j]) = Key(list[i]) => i <= j}

\* dedup_by_key: of each key the strongest, the first of them.
BestOfKey(list) ==
    LET admitted == Admitted(list) IN
    {i \in admitted : \A j \in admitted \ {i} :
        Key(list[j]) = Key(list[i]) =>
            Stronger(list[i], list[j]) \/ (~Stronger(list[j], list[i]) /\ i < j)}

\* The order of the outgoing edges of a source: of equals the directed ones come first,
\* and then the one whose key was found first.
FirstOfKey(list, i) ==
    CHOOSE j \in Admitted(list) :
        /\ Key(list[j]) = Key(list[i])
        /\ \A k \in Admitted(list) : Key(list[k]) = Key(list[i]) => j <= k

Before(list, i, j) ==
    \/ Stronger(list[i], list[j])
    \/ /\ ~Stronger(list[j], list[i])
       /\ \/ ~Symmetric(list[i]) /\ Symmetric(list[j])
          \/ Symmetric(list[i]) = Symmetric(list[j]) /\ FirstOfKey(list, i) < FirstOfKey(list, j)

\* validate: the first MaxOutgoing of each source.  Two stages between are left out, as
\* they have nothing to remove: no two buckets allow each other, so the two directions of
\* a symmetric relationship are never both admitted; and that a source with edges inside
\* its unit drops those that cross is done already, Admissible has dropped them all.
Validated(list) ==
    LET best == BestOfKey(list) IN
    {i \in best :
        Cardinality({j \in best :
            list[j].source = list[i].source /\ Before(list, j, i)}) < MaxOutgoing}

FoundInit == found = <<>>
Find ==
    /\ Len(found) < MaxFound
    /\ \E r \in Pool : found' = Append(found, r)
FoundSpec == FoundInit /\ [][Find]_found

-----------------------------------------------------------------------------
\* Whatever is admissible is an edge, or lost to one at least as strong that says the
\* same, or found its source full of edges as strong.
NothingStrongIsLost ==
    LET edges == Validated(found) IN
    \A i \in Admitted(found) \ edges :
        \/ \E j \in edges : Key(found[i]) = Key(found[j]) /\ ~Stronger(found[i], found[j])
        \/ Cardinality({k \in edges : found[k].source = found[i].source
                                      /\ ~Stronger(found[i], found[k])}) = MaxOutgoing

\* Validating the edges again, in the order they have, drops none of them: a graph that is
\* stored, read back and reconciled keeps its edges.
ValidationSettles ==
    LET edges == Validated(found) IN Validated([i \in edges |-> found[i]]) = edges

\* The edges are the best of what was found: no two say the same, also the other way
\* round for a symmetric one; nothing stronger is lost; and they stay when they are
\* validated again.
EdgesAreTheBest ==
    /\ \A i, j \in Validated(found) : i # j => ~SameEdge(found[i], found[j])
    /\ NothingStrongIsLost
    /\ ValidationSettles
===============================================================================
