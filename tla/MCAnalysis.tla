------------------------------- MODULE MCAnalysis -------------------------------
(***************************************************************************)
(* Instances for TLC of what is computed of a plant and shown to its       *)
(* users: the chains of causes of the behaviour engine, the loops found in *)
(* the plant graph, those a parse finds and judges, the namespace and its  *)
(* page, with two rows or with one that changes more often, and the scans  *)
(* of the program generated for it; one of them in a behaviour.            *)
(***************************************************************************)
EXTENDS BehaviorChains, Namespace, LoopDetection, FinalValidation, ScanCycle,
    TLC

CONSTANT SmallGraph \* the documents of which explanations are asked for

VARIABLE area \* what happens in a behaviour

\* The relationships of ParseGives that parses whose result is served may find.
ForFinal == {1, 5, 7, 8, 10, 15, 16, 17, 18, 19, 20, 21, 22, 23, 24}

MCInit ==
    /\ BehaviorInit /\ NamespaceInit /\ DetectionInit /\ StrictInit /\ ScanInit
    /\ area \in {"behavior", "rows", "one row", "loops", "strict", "final", "scan"}

\* Bounds: documents are parsed before rows are loaded.
MCNext ==
    /\ UNCHANGED area
    /\ \/ /\ area = "behavior" /\ BehaviorNext
          /\ documents' # documents => loaded = <<>>
          /\ cache' # cache => documents = SmallGraph
          /\ UNCHANGED <<namespaceVars, graph, present, plc>>
       \/ /\ area \in {"rows", "one row"} /\ NamespaceNext
          /\ area = "rows" => revision' < MaxRevision
          /\ area = "one row" => /\ \A t \in RowNames : rows'[t] # None => t = "a"
                                 /\ page'.hidden["a"] = None
          /\ UNCHANGED <<behaviorVars, graph, present, plc>>
       \/ /\ area = "loops" /\ DetectionNext
          /\ UNCHANGED <<behaviorVars, namespaceVars, present, plc>>
       \/ /\ area \in {"strict", "final"} /\ StrictNext
          /\ present' \subseteq IF area = "strict" THEN 1..14 ELSE ForFinal
          /\ UNCHANGED <<behaviorVars, namespaceVars, graph, plc>>
       \/ /\ area = "scan" /\ ScanNext
          /\ UNCHANGED <<behaviorVars, namespaceVars, graph, present>>

MCSpec == MCInit /\ [][MCNext]_<<behaviorVars, namespaceVars, graph, present, plc, area>>

\* Every shortcut of the behaviour engine says what the whole computation would: the rows
\* computed again, the answers of the cache, and the second walk for causes.  And all readers
\* of the plant graph find the same loops.
ShortcutsAgree ==
    /\ RowsAreComputed /\ CachedAnswersAreCurrent /\ ChainsTellTheCauses
    /\ area = "loops" => DetectionIsOne

\* The generated program comes to the end of a startup and of a shutdown.
ScansReachTheEnd == area = "scan" => StartsAndStopsEnd

Symmetry == Permutations(Writers) \cup Permutations(Sockets) \cup Permutations(Values)

-----------------------------------------------------------------------------
(* Rows 1 to 4, of which 1 and 4 are spelled alike, and a tag that stands for none. *)

RowNorm == [t \in 1..5 |-> IF t = 4 THEN 1 ELSE t]
RowRoles == [t \in 1..5 |-> CASE t = 1 -> "sensor" [] t = 2 -> "actuator" [] OTHER -> "unknown"]
Said(f, row, other) ==
    [source |-> IF InferredFields[f].into THEN other ELSE row,
     target |-> IF InferredFields[f].into THEN row ELSE other,
     rel |-> InferredFields[f].rel, score |-> InferredFields[f].score, from |-> f,
     inferred |-> TRUE]
Edge(source, target, rel, score) ==
    [source |-> source, target |-> target, rel |-> rel, score |-> score, from |-> "explicit",
     inferred |-> FALSE]
OneRelation == {Said("controls", 1, 2)}
RowPool ==
    OneRelation \cup
    {Said("controlled_by", 2, 3), Said("upstream", 1, 2), Said("downstream", 2, 3),
     Edge(1, 2, "CONTROLS", 70), Edge(3, 4, "RELATED_TO", 60), Edge(3, 3, "RELATED_TO", 100),
     Edge(2, 5, "RELATED_TO", 90)}
RowOrders == {<<1, 2, 3>>, <<2, 3>>, <<1, 4>>, <<4, 1>>}
RowPatches == {[value |-> "v"], [value |-> None], [unit |-> "u"]}

-----------------------------------------------------------------------------
(* A transmitter in two spellings, a valve, a basin, a tank that is also taken for a sensor *)
(* of its level, and a basin of the unit of the first. *)

PlantRoles ==
    [n \in 1..6 |-> CASE n \in {1, 2} -> {"sensor"} [] n = 3 -> {"actuator"}
                      [] n = 5 -> {"sensor", "process"} [] OTHER -> {"process"}]
PlantTypes ==
    [n \in 1..6 |-> CASE n \in {1, 2} -> "sensor" [] n = 3 -> "actuator" [] OTHER -> "process"]
PlantParts == [n \in 1..6 |-> IF n = 6 THEN 4 ELSE 0]
PlantTokens == [n \in 1..6 |-> IF n = 2 THEN 1 ELSE n]
PlantTrust == [n \in 1..6 |-> IF n = 2 THEN 90 ELSE 80]
PlantOrder == <<1, 2, 3, 4, 5, 6>>
PlantEdge(kind, semantic, source, target, score) ==
    [source |-> source, target |-> target, kind |-> kind, semantic |-> semantic, score |-> score]
PlantDraw ==
    {PlantEdge("measures", "measurement", 1, 4, 90), PlantEdge("monitors", "none", 4, 2, 70),
     PlantEdge("generic", "none", 4, 1, 60), PlantEdge("controls", "control", 3, 4, 80),
     PlantEdge("signal", "none", 1, 5, 50), PlantEdge("signal", "control", 1, 5, 55),
     PlantEdge("generic", "none", 3, 4, 85), PlantEdge("controls", "none", 3, 5, 40),
     PlantEdge("controls", "control", 6, 3, 95), PlantEdge("measures", "none", 5, 5, 50),
     PlantEdge("measures", "measurement", 5, 4, 30), PlantEdge("signal", "control", 3, 4, 99),
     PlantEdge("signal", "none", 3, 4, 75), PlantEdge("other", "control", 4, 3, 65)}

-----------------------------------------------------------------------------
(* Two transmitters, two controllers, a valve, a basin that is a unit, and a tank. *)

ParseBehaves ==
    [d \in 1..7 |-> CASE d \in {1, 2} -> "sensor" [] d \in {3, 4} -> "controller"
                      [] d = 5 -> "actuator" [] OTHER -> "process"]
ParseUnits == [d \in 1..7 |-> IF d \in 1..5 THEN 6 ELSE None]
ParseDigits == [d \in 1..7 |-> CASE d \in {1, 3, 5} -> 101 [] d \in {2, 4} -> 102 [] OTHER -> 0]
ParseFits == {<<2, 5>>, <<4, 5>>, <<5, 6>>, <<1, 7>>, <<6, 1>>, <<1, 6>>, <<6, 5>>, <<6, 7>>}
ParseRoles == [d \in 1..7 |-> IF d = 2 THEN "equipment" ELSE ParseBehaves[d]]
ParseKnown == 1..7 \ {4}
ParseChains == <<<<2, 5, 6>>, <<1, 5, 7>>>>
ParseLinks == <<<<3, 3>>, <<4, 7>>, <<7, 3>>>>
Gives(kind, source, target, trust, refs) ==
    [kind |-> kind, source |-> source, target |-> target, trust |-> trust, refs |-> refs]
ParseGives ==
    <<Gives("CONTROLS", 1, 3, 90, {"r1"}), Gives("CONTROLS", 1, 4, 90, {"r2"}),
      Gives("CONTROLS", 2, 4, 95, {}), Gives("CONTROLS", 2, 3, 90, {"r2"}),
      Gives("SIGNAL_TO", 3, 5, 90, {}), Gives("CONTROLS", 4, 5, 90, {}),
      Gives("FEEDS", 5, 6, 72, {"r3"}), Gives("PART_OF", 5, 6, 73, {}),
      Gives("SUPPORTS", 1, 5, 60, {}), Gives("MEASURES", 1, 6, 80, {"r1"}),
      Gives("MEASURES", 2, 6, 70, {"r1"}), Gives("PART_OF", 5, 7, 75, {"r2"}),
      Gives("MONITORS", 1, 7, 80, {"r1"}), Gives("SIGNAL_TO", 2, 4, 60, {"r1"}),
      Gives("MEASURES", 6, 1, 95, {"r1"}), Gives("CONTROLS", 1, 6, 90, {"r1"}),
      Gives("FEEDS", 6, 5, 80, {"r2"}), Gives("CONTROLS", 5, 3, 95, {"r3"}),
      Gives("FEEDS", 6, 7, 70, {"r3"}), Gives("CONTROLS", 6, 1, 92, {"r1"}),
      Gives("CONNECTED_TO", 6, 5, 80, {"r2"}), Gives("MONITORS", 6, 1, 90, {"r1"}),
      Gives("SUPPORTS", 3, 5, 95, {"r2"}), Gives("SUPPORTS", 5, 3, 70, {"r3"})>>
ParseIntents ==
    <<[source |-> 1, target |-> 4, text |-> None, ref |-> "r3", fits |-> TRUE],
      [source |-> 2, target |-> 5, text |-> None, ref |-> None, fits |-> TRUE],
      [source |-> 1, target |-> 5, text |-> "said", ref |-> None, fits |-> FALSE]>>
ParsePages ==
    [r \in {"r1", "r2", "r3", "said"} |-> CASE r = "r1" -> 3 [] r = "r2" -> 9 [] OTHER -> 0]
ParseBlocks ==
    {[id |-> 1, page |-> 3, tags |-> {1, 5}, mentions |-> {1, 5}, refs |-> {}, value |-> 10],
     [id |-> 2, page |-> 9, tags |-> {}, mentions |-> {}, refs |-> {}, value |-> 20],
     [id |-> 3, page |-> 2, tags |-> {}, mentions |-> {7}, refs |-> {"r2"}, value |-> 30]}

-----------------------------------------------------------------------------
(* A valve, two pumps and a control valve; both commands in any way, and no more than one *)
(* thing that is not as it was: something is wrong, or a loop writes its output.          *)

PlantActs == <<"open_close", "start_stop", "modulating", "start_stop">>
Calm(keys, ok) == [Good(keys) EXCEPT !.holds = ok, !.confirmed = ok, !.feedback = {}]
OneTrouble(in) ==
    {in, [in EXCEPT !.feedback = {3}], [in EXCEPT !.automatic = {3}],
     [in EXCEPT !.demand = TRUE], [in EXCEPT !.demand = FALSE]}
    \cup {[in EXCEPT !.faults = {e}] : e \in 1..4}
    \cup {[in EXCEPT !.permitted = @ \ {e}] : e \in 1..4}
    \cup {[in EXCEPT !.manual = {e}] : e \in 1..4}
    \cup {[in EXCEPT !.beyond = {e}] : e \in 1..4}
PlantInputs ==
    UNION {OneTrouble(Calm(keys, ok)) : keys \in SUBSET {"start", "stop"}, ok \in BOOLEAN}
================================================================================
