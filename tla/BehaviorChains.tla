---------------------------- MODULE BehaviorChains ----------------------------
(***************************************************************************)
(* What the behaviour engine says of a tag: the tags that cause it and     *)
(* that it affects, and why.  services/deterministic_behavior_service.py   *)
(* builds a graph of the rows it loads (why_graph_builder.py), computes    *)
(* what each row shows, and after a runtime update computes again only the *)
(* rows near the tags that changed.  Asked why, it has the explanation     *)
(* made from a second graph, of its rows and of its own edges              *)
(* (why_engine_hardened.py), by a walk of its own (why_chain_resolver.py), *)
(* and keeps the answer under a signature of what it was made from.        *)
(*                                                                         *)
(* Tags are numbers in the order of their names.  Texts are what they are  *)
(* composed of.  The fallbacks of the service's own resolver are never     *)
(* reached, as the explanation always has chains, and are left out.        *)
(***************************************************************************)
EXTENDS Integers, Sequences, FiniteSets, SequencesExt, PythonNone

CONSTANTS
    RowTags,      \* tags that documents give rows
    Endpoints,    \* tags that edges may name
    Placeholders, \* the endpoints that stand for none: SOURCE, SINK, UNRESOLVED
    Norm,         \* Norm[t]: the letters and digits of a tag
    RoleOf,       \* RoleOf[t]: the role a row is classified as
    Drawn,        \* edges and relations that documents can give
    LoadOrders,   \* the orders in which rows can be loaded: sequences of row tags
    Updated,      \* tags that runtime updates name
    Asked,        \* tags that explanations are asked for
    Patches,      \* what a runtime update can say of a tag
    Depth,        \* default_chain_depth, and max_depth of the resolver: 4
    MaxPaths,     \* max_paths: 8
    CacheSize     \* cache_size

\* The inferred relations of a row, their confidence in percent, and whether they lead into
\* the row.
Field(rel, score, into) == [rel |-> rel, score |-> score, into |-> into]
InferredFields ==
    [upstream |-> Field("UPSTREAM", 80, TRUE), downstream |-> Field("DOWNSTREAM", 80, FALSE),
     signal_inputs |-> Field("SIGNAL_INPUT", 75, TRUE),
     signal_outputs |-> Field("SIGNAL_OUTPUT", 75, FALSE),
     controls |-> Field("CONTROLS", 85, FALSE),
     controlled_by |-> Field("CONTROLLED_BY", 85, TRUE)]
FieldNames == DOMAIN InferredFields
Relations == {InferredFields[f].rel : f \in FieldNames} \cup {"RELATED_TO"}

RawEdges ==
    [source : Endpoints, target : Endpoints, rel : Relations, score : 0..100,
     from : FieldNames \cup {"explicit"}, inferred : BOOLEAN]

\* Runtime fields: the signature of an explanation has the value, and not the unit.
Shown == {"value", "unit"}

\* An edge of a document is explicit; a relation of a row is that of its field.
Coherent(e) ==
    IF e.inferred THEN e.from \in FieldNames /\ e.rel = InferredFields[e.from].rel
    ELSE e.from = "explicit"

ASSUME BehaviorAssumption ==
    /\ RowTags \subseteq Endpoints /\ Endpoints \subseteq Nat
    /\ RowTags \cap Placeholders = {} /\ None \notin RowTags
    /\ Drawn \subseteq RawEdges /\ \A e \in Drawn : Coherent(e)
    /\ LoadOrders \subseteq Seq(RowTags)
    /\ Depth \in 1..4 /\ MaxPaths \in Nat \ {0} /\ CacheSize \in Nat \ {0}

VARIABLES
    documents, \* edges and relations that the documents give now
    loaded,    \* the tags of _rows_by_tag, in the order of the load
    relations, \* the relations of these rows
    edges,     \* _edges
    runtime,   \* _runtime_by_tag: the fields of each row
    card,      \* what the rows show: fields, causes, effects and the texts made of them
    cache      \* the explanations, oldest first

behaviorVars == <<documents, loaded, relations, edges, runtime, card, cache>>

-----------------------------------------------------------------------------
(* The graph. *)

Key(e) == <<e.source, e.target, e.rel>>

\* build_edges: of the edges of one key the most confident; of equals the explicit, which
\* come first.  A relation of a row to itself is dropped before, an edge to itself is not.
Valid(e) == {e.source, e.target} \cap Placeholders = {} /\ ~(e.source = e.target /\ e.inferred)
Build(raw) ==
    LET valid == {e \in raw : Valid(e)} IN
    {e \in valid : \A d \in valid : Key(d) = Key(e) =>
        e.score > d.score \/ (e.score = d.score /\ (e.inferred => d.inferred))}

\* The relations that the rows of these tags have.
RowOf(e) == IF InferredFields[e.from].into THEN e.target ELSE e.source
RelationsOf(tags) == {e \in relations : RowOf(e) \in tags}

\* The service's edges as it hands them to the explanation: all of them explicit.
AsExplicit(E) == {[e EXCEPT !.inferred = FALSE] : e \in E}

\* The graph an explanation is made from.
WhyGraph == Build(AsExplicit(edges) \cup relations)

-----------------------------------------------------------------------------
(* What a row shows. *)

Directions == {"upstream", "downstream"}

\* _inbound and _outbound.
Neighbours(E, t, direction) ==
    IF direction = "upstream" THEN {e.source : e \in {d \in E : d.target = t}}
    ELSE {e.target : e \in {d \in E : d.source = t}}
NeighboursOf(E, tags, direction) == UNION {Neighbours(E, t, direction) : t \in tags}

\* The elements of a finite set in an order.
InOrder(S, before(_, _)) ==
    [n \in 1..Cardinality(S) |-> CHOOSE x \in S : Cardinality({y \in S : before(y, x)}) = n - 1]

Ascending(S) == InOrder(S, <)

\* The neighbours that are found next from the tags of a chain, from each those that are
\* neither in the chain nor found from one before it.
FoundNext(E, chain, direction) ==
    [i \in DOMAIN chain |->
        Ascending(Neighbours(E, chain[i], direction)
            \ (ToSet(chain) \cup NeighboursOf(E, {chain[j] : j \in 1..(i - 1)}, direction)))]

\* _compute_chain_locked: the tags within Depth edges, the near ones first.  From a tag that
\* was expanded before nothing more is found.
ChainFrom(E, t, direction) ==
    LET within[n \in 0..Depth] ==
            IF n = 0 THEN <<t>>
            ELSE LET chain == within[n - 1]
                 IN chain \o FlattenSeq(FoundNext(E, chain, direction))
    IN within[Depth]

\* The first of the chain is the tag itself, which is visited and not part of it.
Chain(E, t, direction) == Tail(ChainFrom(E, t, direction))

\* _expand_radius_locked: the tags within some edges of changed ones, either way.
Within(tags, radius) ==
    LET within[n \in 0..radius] ==
            IF n = 0 THEN tags
            ELSE LET near == within[n - 1]
                 IN near \cup UNION {NeighboursOf(edges, near, d) : d \in Directions}
    IN within[radius]

First3(s) == SubSeq(s, 1, IF Len(s) < 3 THEN Len(s) ELSE 3)

\* _recompute_rows_locked for one row, with the card, the summary and the impact composed
\* of its fields and of the first tags of its chains.
CardOf(E, fields, t) ==
    LET causes == Chain(E, t, "upstream")
        effects == Chain(E, t, "downstream")
    IN [fields |-> fields, causes |-> causes, effects |-> effects,
        summary |-> [value |-> fields["value"], causes |-> First3(causes),
                     effects |-> First3(effects)],
        known |-> causes # <<>> \/ effects # <<>>]

-----------------------------------------------------------------------------
(* Why: the chains that lead to a tag and away from it. *)

\* The weights of the resolver, in percent.
SourceWeight(from) ==
    CASE from = "explicit" -> 100 [] from = "controls" -> 92 [] from = "controlled_by" -> 90
      [] from = "signal_inputs" -> 86 [] from = "signal_outputs" -> 84 [] OTHER -> 82
RelationWeight(rel) ==
    CASE rel = "CONTROLS" -> 100 [] rel = "CONTROLLED_BY" -> 90 [] rel = "SIGNAL_INPUT" -> 88
      [] rel = "SIGNAL_OUTPUT" -> 86 [] rel \in {"UPSTREAM", "DOWNSTREAM"} -> 80
      [] OTHER -> 72
RoleBonus(role) ==
    CASE role = "sensor" -> 106 [] role = "actuator" -> 104 [] role = "controller" -> 108
      [] role = "process_unit" -> 105 [] OTHER -> 90

\* _rank_path: averages over the edges less 0.03 for each, in units of 1 / 120000.  A tag
\* without a row has no role.
Score(rows, nodes, path) ==
    LET n == Len(path)
        total[i \in 0..n] ==
            IF i = 0 THEN 0
            ELSE total[i - 1] + 35 * path[i].score + 25 * SourceWeight(path[i].from)
                    + 25 * RelationWeight(path[i].rel)
                    + 15 * RoleBonus(IF nodes[i + 1] \in rows THEN RoleOf[nodes[i + 1]]
                                     ELSE "unknown")
        score == (12 \div n) * total[n] - 3600 * n
    IN IF n = 0 THEN 24000 ELSE IF score < 0 THEN 0 ELSE score

Ended(rows, path, reason) ==
    [nodes |-> path.nodes, reason |-> reason, score |-> Score(rows, path.nodes, path.edges)]

\* The end of an edge that a walk in a direction comes to.
EndOf(e, direction) == IF direction = "upstream" THEN e.source ELSE e.target

Extend(path, e, direction) ==
    [nodes |-> Append(path.nodes, EndOf(e, direction)), edges |-> Append(path.edges, e)]

\* The order of the edges in the graph: by source, target and relation.
RelationOrder ==
    [CONTROLLED_BY |-> 1, CONTROLS |-> 2, DOWNSTREAM |-> 3, RELATED_TO |-> 4,
     SIGNAL_INPUT |-> 5, SIGNAL_OUTPUT |-> 6, UPSTREAM |-> 7]
EdgeBefore(d, e) ==
    \/ d.source < e.source
    \/ d.source = e.source /\ d.target < e.target
    \/ d.source = e.source /\ d.target = e.target /\ RelationOrder[d.rel] < RelationOrder[e.rel]
InGraphOrder(S) == InOrder(S, EdgeBefore)

\* The edges of a tag.
EdgesOf(E, t, direction) == {e \in E : t = IF direction = "upstream" THEN e.target ELSE e.source}

\* A path goes on over an edge to a row that is not on it.
GoesOn(rows, path, e, direction) == EndOf(e, direction) \in rows \ ToSet(path.nodes)

\* Why it does not.
Obstacle(path, e, direction) ==
    IF EndOf(e, direction) \in ToSet(path.nodes) THEN "cycle_detected" ELSE "missing_node"

\* A turn of the loop of _walk_and_rank: the first path of the queue ends or goes on over
\* each of its edges.
WalkOn(E, rows, walk, direction) ==
    LET path == Head(walk.queue)
        out == EdgesOf(E, Last(path.nodes), direction)
        on == InGraphOrder({e \in out : GoesOn(rows, path, e, direction)})
        stuck == InGraphOrder({e \in out : ~GoesOn(rows, path, e, direction)})
        Turn(more, ends) ==
            [queue |-> Tail(walk.queue) \o more, paths |-> walk.paths \o ends]
    IN CASE Len(path.edges) >= Depth -> Turn(<<>>, <<Ended(rows, path, "max_depth")>>)
         [] Len(path.edges) < Depth /\ out = {} -> Turn(<<>>, <<Ended(rows, path, "path_end")>>)
         [] OTHER ->
                Turn([i \in DOMAIN on |-> Extend(path, on[i], direction)],
                     [i \in DOMAIN stuck |->
                        Ended(rows, Extend(path, stuck[i], direction),
                              Obstacle(path, stuck[i], direction))]
                     \o IF on = <<>> THEN <<Ended(rows, path, "broken_path")>> ELSE <<>>)

\* _walk_and_rank: paths of distinct rows, breadth first, until there are enough of them.
WalkFrom(E, rows, t, direction) ==
    LET walk[n \in 0..(24 * MaxPaths)] ==
            IF n = 0 THEN [queue |-> <<[nodes |-> <<t>>, edges |-> <<>>]>>, paths |-> <<>>]
            ELSE LET at == walk[n - 1] IN
                 IF at.queue = <<>> \/ Len(at.paths) >= 3 * MaxPaths THEN at
                 ELSE WalkOn(E, rows, at, direction)
    IN walk[24 * MaxPaths]

\* The best MaxPaths of the paths found; of equals the first found.
Ranked(found) ==
    LET order == InOrder(DOMAIN found.paths,
                    LAMBDA i, j : \/ found.paths[i].score > found.paths[j].score
                                  \/ found.paths[i].score = found.paths[j].score /\ i < j)
    IN [i \in 1..(IF Len(order) < MaxPaths THEN Len(order) ELSE MaxPaths) |->
            found.paths[order[i]]]

\* The tags of the chains, _merge_parallel_influences.
TagsOf(chains, t) == (UNION {ToSet(chains[i].nodes) : i \in DOMAIN chains}) \ {t}

-----------------------------------------------------------------------------
(* The answers and their cache. *)

\* normalized_to_tag: the first row that is spelled alike.
Alike(t) == {i \in DOMAIN loaded : Norm[loaded[i]] = Norm[t]}
Selected(t) ==
    IF Alike(t) = {} THEN None ELSE loaded[CHOOSE i \in Alike(t) : \A j \in Alike(t) : i <= j]

\* The explanation: the row it is about with its fields and summary, and the chains.  That
\* of a tag without a row is about none.
Answer(t) ==
    IF Selected(t) = None THEN [about |-> None]
    ELSE LET s == Selected(t) IN
         [about |-> s, fields |-> card[s].fields, summary |-> card[s].summary,
          up |-> Ranked(WalkFrom(WhyGraph, ToSet(loaded), s, "upstream")),
          down |-> Ranked(WalkFrom(WhyGraph, ToSet(loaded), s, "downstream"))]

\* _cache_key: the rows sorted by their tags, their unit left out, and the edges.
Signature(t) ==
    <<Norm[t],
      {[tag |-> u, relations |-> RelationsOf({u}), summary |-> card[u].summary,
        value |-> card[u].fields["value"]] : u \in ToSet(loaded)},
      edges>>

\* explain_why: a cached answer is given again; a new one is kept, and beyond CacheSize the
\* one kept first is dropped.
Explain(t) ==
    LET key == Signature(t)
        kept == Append(cache, [key |-> key, answer |-> Answer(t)]) IN
    /\ \A i \in DOMAIN cache : cache[i].key # key
    /\ cache' = IF Len(kept) > CacheSize THEN Tail(kept) ELSE kept
    /\ UNCHANGED <<documents, loaded, relations, edges, runtime, card>>

-----------------------------------------------------------------------------
(* Steps. *)

Blank == [f \in Shown |-> None]

\* A document is parsed that gives one edge or relation more.
Document(e) ==
    /\ e \notin documents
    /\ documents' = documents \cup {e}
    /\ UNCHANGED <<loaded, relations, edges, runtime, card, cache>>

\* load: everything is replaced and computed from nothing.
LoadRows(order) ==
    /\ loaded' = order
    /\ relations' = {e \in documents : e.inferred /\ RowOf(e) \in ToSet(order)}
    /\ edges' = Build({e \in documents : ~e.inferred} \cup relations')
    /\ runtime' = [t \in ToSet(order) |-> Blank]
    /\ card' = [t \in ToSet(order) |-> CardOf(edges', Blank, t)]
    /\ UNCHANGED <<documents, cache>>

\* The row a runtime update is about: the tag itself, or the first that is spelled alike.
Resolve(t) == IF t \in ToSet(loaded) THEN t ELSE Selected(t)

\* apply_patch: the fields that the patch has.
Patched(fields, patch) ==
    [f \in Shown |-> IF f \in DOMAIN patch THEN patch[f] ELSE fields[f]]

\* Mutant: the rows around are computed again, the row that changed is not.
UpdateAround(t, patch, radius) ==
    LET row == Resolve(t) IN
    /\ row # None
    /\ runtime' = [runtime EXCEPT ![row] = Patched(@, patch)]
    /\ card' = [u \in ToSet(loaded) |->
            IF u \in Within({row}, radius) \ {row} THEN CardOf(edges, runtime'[u], u) ELSE card[u]]
    /\ UNCHANGED <<documents, loaded, relations, edges, cache>>

\* update_runtime_values for one tag: its runtime state takes the patch, and the rows
\* around are computed again.  A tag without a row is ignored.
UpdateRuntime(t, patch, radius) ==
    LET row == Resolve(t) IN
    /\ row # None
    /\ runtime' = [runtime EXCEPT ![row] = Patched(@, patch)]
    /\ card' = [u \in ToSet(loaded) |->
            IF u \in Within({row}, radius) THEN CardOf(edges, runtime'[u], u) ELSE card[u]]
    /\ UNCHANGED <<documents, loaded, relations, edges, cache>>

BehaviorInit ==
    /\ documents = {}
    /\ loaded = <<>> /\ relations = {} /\ edges = {} /\ runtime = <<>> /\ card = <<>> /\ cache = <<>>

BehaviorNext ==
    \/ \E e \in Drawn : Document(e)
    \/ \E order \in LoadOrders : LoadRows(order)
    \/ \E t \in Updated, patch \in Patches, radius \in 0..2 : UpdateRuntime(t, patch, radius)
    \/ \E t \in Asked : Explain(t)

BehaviorSpec == BehaviorInit /\ [][BehaviorNext]_behaviorVars

-----------------------------------------------------------------------------
\* Computing again only the rows around a change leaves every row as computing all of them
\* would, whatever the radius.
RowsAreComputed ==
    \A t \in ToSet(loaded) : card[t] = CardOf(edges, runtime[t], t)

\* The tags within n edges, through tags of Through.
Reached(t, direction, n, Through) ==
    LET reached[k \in 0..n] ==
            IF k = 0 THEN {t}
            ELSE LET near == reached[k - 1]
                 IN near \cup NeighboursOf(edges, near \cap Through, direction)
    IN reached[n]

\* The graph an explanation is made from is the service's own, although it is built again
\* from edges that have become explicit; the causes and effects of a row are the tags
\* within Depth edges; and the chains of its explanation, found by another walk, name no
\* others, and all that can be reached through rows unless paths were left out.
ChainsTellTheCauses ==
    /\ AsExplicit(WhyGraph) = AsExplicit(edges)
    /\ \A t \in ToSet(loaded), d \in Directions :
        LET found == WalkFrom(WhyGraph, ToSet(loaded), t, d)
            chain == Chain(edges, t, d)
            named == TagsOf(Ranked(found), t) IN
        /\ ToSet(chain) = Reached(t, d, Depth, Endpoints) \ {t}
        /\ Cardinality(ToSet(chain)) = Len(chain)
        /\ named \subseteq ToSet(chain)
        /\ found.queue = <<>> /\ Len(found.paths) <= MaxPaths =>
                named = Reached(t, d, Depth, ToSet(loaded)) \ {t}

\* An answer from the cache is the one that would be made now, but for the unit of the
\* value, unless two rows are spelled alike.
CachedAnswersAreCurrent ==
    (\A t, u \in ToSet(loaded) : Norm[t] = Norm[u] => t = u) =>
        \A t \in Asked :
            \A i \in DOMAIN cache : cache[i].key = Signature(t) =>
                LET kept == cache[i].answer
                    now == Answer(t) IN
                IF kept.about = None THEN now = kept
                ELSE [kept EXCEPT !.fields["unit"] = None] = [now EXCEPT !.fields["unit"] = None]
===============================================================================
