---------------------------- MODULE FinalValidation ----------------------------
(***************************************************************************)
(* What a parse serves in the end: services/final_validation_service.py    *)
(* drops relationships that contradict each other, builds a row for each   *)
(* tag with engineering_table_parser.py, drops rows that are not sound and *)
(* what hangs on them, and does so a second time; the graph it serves is   *)
(* built by parser_relationship_graph_service.py.                          *)
(*                                                                         *)
(* It starts from the supported relationships and the loops of             *)
(* StrictLoops, one of each key, so that removing duplicates has nothing   *)
(* to do.  All relationships come from one source of inference, and a tag  *)
(* has its role of its type.  Of a row the links upstream and downstream   *)
(* are kept, as sets.                                                      *)
(***************************************************************************)
EXTENDS StrictLoops

CONSTANTS
    RoleOfType,   \* RoleOfType[d]: process_role_from_node, "equipment" if it has no role
    Recognized,   \* devices whose equipment is known
    SpokenChains, \* sensor, actuator and process as documents speak of them, the most
                  \* trusted chain first
    SpokenLinks   \* pairs of tags that documents relate, in the order of their pages

\* No extractor relates a tag to itself, only an intent may: it says CONTROLS.
ASSUME FinalAssumption ==
    /\ \A i, j \in DOMAIN Candidates : i # j =>
        \/ Candidates[i].source # Candidates[j].source
        \/ Candidates[i].target # Candidates[j].target
        \/ Candidates[i].kind # Candidates[j].kind
    /\ \A i \in DOMAIN Candidates :
        Candidates[i].source = Candidates[i].target => Candidates[i].kind = "CONTROLS"

-----------------------------------------------------------------------------
(* Contradictions. *)

Precedes(a, b) == \E i \in DOMAIN a : a[i] < b[i] /\ \A j \in 1..i - 1 : a[j] = b[j]

DirectionalKinds ==
    {"PROCESS_FLOW", "FEEDS", "DISCHARGES_TO", "SUPPLIES_AIR_TO", "MEASURES", "CONTROLS",
     "SIGNAL_TO", "MONITORS", "PART_OF"}

\* _relationship_sort_key: control before piping before sequences before the rest, then trust;
\* names decide what is equal.
KindPriority(kind) ==
    CASE kind \in {"SIGNAL_TO", "CONTROLS", "INTERLOCKS_WITH", "ALARMS_ON", "MEASURES"} -> 0
      [] kind \in {"PROCESS_FLOW", "CONNECTED_TO", "SUPPLIES_AIR_TO"} -> 1
      [] kind \in {"FEEDS", "DISCHARGES_TO", "PART_OF"} -> 2
      [] OTHER -> 4
KindOrder ==
    <<"ALARMS_ON", "ASSOCIATED_WITH", "CONNECTED_TO", "CONTROLS", "DISCHARGES_TO", "FEEDS",
      "INTERLOCKS_WITH", "LOCATED_IN", "MEASURES", "MONITORS", "PART_OF", "PROCESS_FLOW",
      "SIGNAL_TO", "SUPPLIES_AIR_TO", "SUPPORTS">>
Strength(r) ==
    <<KindPriority(r.kind), -r.trust, r.source, r.target,
      CHOOSE i \in DOMAIN KindOrder : KindOrder[i] = r.kind>>

\* _preferred_direction of two that say the opposite.
RightWay(r) ==
    /\ r.kind \in MeasurementKinds
    /\ RoleOfType[r.source] = "sensor" /\ RoleOfType[r.target] = "process"
Prefers(r, s) == RightWay(r) \/ (~RightWay(s) /\ Precedes(Strength(r), Strength(s)))

\* _reject_contradictions: of one direction the strongest stays, and of one kind that has
\* a direction in both directions one; such a relationship of a tag with itself is its own
\* opposite and goes.  What loses one comparison still takes part in the others.
Consistent(rels) ==
    {r \in rels : \A s \in rels :
        /\ s # r /\ s.source = r.source /\ s.target = r.target =>
                Precedes(Strength(r), Strength(s))
        /\ s.source = r.target /\ s.target = r.source /\ s.kind = r.kind
                /\ r.kind \in DirectionalKinds =>
                s # r /\ Prefers(r, s)}

-----------------------------------------------------------------------------
(* The links of a row. *)

FlowKinds ==
    {"PROCESS_FLOW", "FEEDS", "DISCHARGES_TO", "SUPPLIES_AIR_TO", "PART_OF", "CONNECTED_TO"}
Connections(rels, d) ==
    {r.target : r \in {s \in rels : s.source = d}} \cup {r.source : r \in {s \in rels : s.target = d}}

\* _walk_graph: at most four relationships away.
Walked(rels, d, way) ==
    LET flow == {r \in rels : r.kind \in FlowKinds}
        around(S) == S \cup IF way = "upstream"
                            THEN {r.source : r \in {s \in flow : s.target \in S}}
                            ELSE {r.target : r \in {s \in flow : s.source \in S}}
    IN around(around(around(around({d})))) \ {d}

\* _directional_role_rank
RoleRank(role, other, way) ==
    LET order == CASE role = "sensor" /\ way = "upstream" -> <<"process", "actuator", "sensor">>
                   [] role = "sensor" -> <<"actuator", "process", "sensor">>
                   [] role = "actuator" /\ way = "upstream" -> <<"sensor", "process", "actuator">>
                   [] role = "actuator" -> <<"process", "actuator", "sensor">>
                   [] role = "process" -> <<"actuator", "sensor", "process">>
                   [] OTHER -> <<>>
        at == {i \in DOMAIN order : order[i] = other}
    IN IF at = {} THEN 5 ELSE CHOOSE i \in at : TRUE

\* _topology_candidates: whatever the direction, one of the tags it is connected with.
ByTopology(rels, tags, d, way) ==
    LET near == (Connections(rels, d) \cap tags) \ {d}
        rank(e) == <<IF ServedUnit[d] # None /\ ServedUnit[d] = ServedUnit[e] THEN 0 ELSE 1,
                     RoleRank(RoleOfType[d], RoleOfType[e], way), e>>
    IN {e \in near : \A f \in near \ {e} : Precedes(rank(e), rank(f))}

\* The first of a sequence of tags, None left out.
FirstOf(found) == LET some == SelectSeq(found, LAMBDA e : e # None) IN
    IF some = <<>> THEN {} ELSE {some[1]}

\* _behavioral_chain_candidates.  The chains of loops have four tags and are passed over.
ByChain(d, way) ==
    FirstOf([i \in DOMAIN SpokenChains |->
        LET c == SpokenChains[i]
            e == IF d = c[1] THEN IF way = "upstream" THEN c[3] ELSE c[2]
                 ELSE IF d = c[2] THEN IF way = "upstream" THEN c[1] ELSE c[3]
                 ELSE IF d = c[3] THEN IF way = "upstream" THEN c[2] ELSE c[1]
                 ELSE None
        IN IF e = d THEN None ELSE e])

\* _context_candidates
ByContext(d, way) ==
    FirstOf([i \in DOMAIN SpokenLinks |->
        LET k == SpokenLinks[i] IN
        IF k[1] = k[2] THEN None
        ELSE IF way = "upstream" /\ k[2] = d THEN k[1]
        ELSE IF way = "downstream" /\ k[1] = d THEN k[2] ELSE None])

\* _upstream_downstream_calculation for one direction of a tag; {None} stands for the sentinel.
Links(rels, tags, d, way) ==
    LET ways == <<Walked(rels, d, way), ByTopology(rels, tags, d, way), ByChain(d, way),
                  ByContext(d, way), {None}>>
    IN ways[CHOOSE n \in 1..5 : ways[n] # {} /\ \A m \in 1..n - 1 : ways[m] = {}]

-----------------------------------------------------------------------------
(* Rows, loops and the two passes. *)

\* _build_and_validate_tag_rows, _invalid_row_reasons
RowsIn(tags, rels, loops) ==
    {d \in tags : /\ RoleOfType[d] # "equipment"
                  /\ d \in Recognized
                  /\ Connections(rels, d) # {} \/ \E l \in loops : d \in ChainTags(l)}

Inside(rels, tags) == {r \in rels : r.source \in tags /\ r.target \in tags}

Says(rels, d, e, kinds) == \E r \in rels : r.source = d /\ r.target = e /\ r.kind \in kinds

\* _invalid_loop_reasons.  The name that the engine invents for the controller of a direct
\* path has no row.  SUPPORTS, along which the engine finds loops, is no signal here.
SignalKinds == {"SIGNAL_TO", "CONTROLS"}
LoopStands(l, tags, rels) ==
    /\ l.controller # None
    /\ ChainTags(l) \subseteq tags
    /\ <<RoleOfType[l.sensor], RoleOfType[l.controller], RoleOfType[l.actuator],
         RoleOfType[l.process]>> = <<"sensor", "controller", "actuator", "process">>
    /\ Says(rels, l.sensor, l.process, MeasurementKinds)
    /\ Says(rels, l.sensor, l.controller, SignalKinds)
    /\ Says(rels, l.controller, l.actuator, SignalKinds)
    /\ Says(rels, l.actuator, l.process, ProcessKinds)

\* What a pass begins with and what it leaves.
Draft(list) ==
    [tags |-> Devices, relationships |-> Consistent(ToSet(Supported(list))),
     loops |-> {s.loop : s \in Result(list).shown}]

Trimmed(draft, tags) ==
    LET rels == Inside(draft.relationships, tags) IN
    [tags |-> tags, relationships |-> rels,
     loops |-> {l \in draft.loops : LoopStands(l, tags, rels)}]
Passed(draft) == Trimmed(draft, RowsIn(draft.tags, draft.relationships, draft.loops))

\* What is served, with the links of rows that were built from a draft; None if no row is
\* left, which fails the parse.
Served(result, draft, list) ==
    IF result.tags = {} THEN None
    ELSE [rows |-> [d \in result.tags |->
                        [upstream |-> Links(draft.relationships, draft.tags, d, "upstream"),
                         downstream |-> Links(draft.relationships, draft.tags, d, "downstream")]],
          relationships |-> result.relationships,
          loops |-> result.loops,
          tuned |-> {s \in Result(list).shown : s.loop \in result.loops}]

\* Mutant: what the first pass leaves is served.
FinalOnce(list) == Served(Passed(Draft(list)), Draft(list), list)

\* process
SecondPass(first, list) == Served(Passed(first), first, list)
Final(list) == SecondPass(Passed(Draft(list)), list)

\* build_from_validated_relationships, _graph_relationship_type: kinds of one category are
\* one, and some are not drawn.
Category(kind) ==
    CASE kind \in {"CONTROLS", "SIGNAL_TO", "INTERLOCKS_WITH", "ALARMS_ON", "SUPPORTS"} -> "control"
      [] kind \in MeasurementKinds -> "measurement"
      [] kind \in {"PART_OF", "LOCATED_IN", "ASSOCIATED_WITH"} -> "none"
      [] OTHER -> "flow"
GraphEdges(rels) ==
    {[source |-> r.source, target |-> r.target, type |-> Category(r.kind)] :
        r \in {s \in rels : Category(s.kind) # "none"}}

\* find_contradictions
Contradictions(edges) ==
    {<<e.source, e.target>> : e \in {f \in edges : \E g \in edges \ {f} :
        \/ g.source = f.target /\ g.target = f.source /\ g.type = f.type
        \/ g.source = f.source /\ g.target = f.target}}

-----------------------------------------------------------------------------
(* Properties. *)

\* What a parse serves stands by itself, although rows, relationships and loops hang on each
\* other and are checked no more than twice: each row has a relationship or a loop that is
\* served, each end of these has a row, and each loop all its tags and relationships.
FinalIsClosed(final) ==
    LET tags == DOMAIN final.rows IN
    /\ \A r \in final.relationships : {r.source, r.target} \subseteq tags
    /\ \A l \in final.loops : LoopStands(l, tags, final.relationships)
    /\ \A d \in tags : Connections(final.relationships, d) # {}

\* The links of a row lead to other rows: neither a sentinel nor what only texts say of tags
\* comes to be needed, nor a tag that the second pass has dropped.
LinksAreRows(final) ==
    LET tags == DOMAIN final.rows IN
    \A d \in tags : final.rows[d].upstream \cup final.rows[d].downstream \subseteq tags \ {d}

\* Two tags have one relationship in a direction, and what the graph reports as contradictory
\* are two relationships of one category, one in each direction, that rejecting does not
\* compare: of different kinds, or of a kind without direction.
NothingElseContradicts(final) ==
    /\ \A r, s \in final.relationships :
            r # s /\ r.source = s.source => r.target # s.target
    /\ \A c \in Contradictions(GraphEdges(final.relationships)) :
            \E r, s \in final.relationships :
                /\ <<r.source, r.target>> = c /\ <<s.target, s.source>> = c /\ r # s
                /\ Category(r.kind) = Category(s.kind)
                /\ r.kind # s.kind \/ r.kind \notin DirectionalKinds

\* A supported relationship of two tags that have rows is served, or another one of the two
\* is in its place, unless there are four: of these each can lose to another.
LossesAreReplaced(final) ==
    \A r \in ToSet(Supported(Given)) \ final.relationships :
        \/ r.source = r.target
        \/ ~{r.source, r.target} \subseteq DOMAIN final.rows
        \/ \E s \in final.relationships : {s.source, s.target} = {r.source, r.target}
        \/ Cardinality({s \in ToSet(Supported(Given)) :
                            {s.source, s.target} = {r.source, r.target}}) >= 4

Stands(final) ==
    final # None => /\ FinalIsClosed(final) /\ LinksAreRows(final)
                    /\ NothingElseContradicts(final) /\ LossesAreReplaced(final)
FinalStands == present # {} => Stands(Final(Given))
================================================================================
