------------------------------ MODULE MCPipeline ------------------------------
(***************************************************************************)
(* Instances for TLC of the way from a project's documents to its PLC:     *)
(* parsing, generating logic, reconciling with a P&ID, mapping signals and *)
(* deploying and versioning, one of them in a behaviour, and the two       *)
(* algorithms that decide what becomes an edge of the plant graph and      *)
(* which address a signal gets.  The last run of logic that is recorded    *)
(* has no request beside it.                                               *)
(***************************************************************************)
EXTENDS ParsePipeline, LogicRuns, PidReconcile, PlcDeploy, GraphValidation, IoChannels,
    VersionManager, TLC

VARIABLE area \* what happens in a behaviour

MCInit ==
    /\ ParseInit /\ LogicInit /\ PidInit /\ PlcInit /\ FoundInit /\ ChannelsInit
    /\ Init
    /\ area \in {"parse", "logic", "reconcile", "io", "plc", "edges", "channels",
               "versions"}
    /\ area = "logic" \/ plant = CHOOSE d \in Designs : TRUE
    /\ area = "versions" \/ work.logic = None

Reviewing == {r \in Reviewers : review[r].step # "idle"}

MCNext ==
    /\ area # "reconcile" => UNCHANGED area
    /\ \/ /\ area = "parse" /\ ParseNext
          /\ UNCHANGED <<logicVars, pidVars, plcVars, found, named, vars>>
       \/ /\ area = "logic" /\ LogicNext
          /\ Len(runs') = MaxRuns => Cardinality(Busy') <= 1
          /\ UNCHANGED <<parseVars, pidVars, plcVars, found, named, vars>>
       \/ /\ area \in {"reconcile", "reconcile beside"} /\ PidNext
          /\ area' = IF Cardinality(Reviewing') = 2 THEN "reconcile beside" ELSE area
          /\ area = "reconcile beside" => Cardinality(Reviewing') = 1 \/ Reviewing' \subseteq Reviewing
          /\ UNCHANGED <<parseVars, logicVars, plcVars, found, named, vars>>
       \/ /\ area \in {"io", "plc"}
          /\ area = "io" => UNCHANGED <<logic, plc, deployment>>
          /\ PlcNext
          /\ area = "plc" => Len(versions') <= 1 /\ ioJob'.rows \in {{}, Signals}
          /\ UNCHANGED <<parseVars, logicVars, pidVars, found, named, vars>>
       \/ /\ area = "edges" /\ Find
          /\ UNCHANGED <<parseVars, logicVars, pidVars, plcVars, named, vars>>
       \/ /\ area = "channels" /\ ChannelsNext
          /\ UNCHANGED <<parseVars, logicVars, pidVars, plcVars, found, vars>>
       \/ /\ area = "versions" /\ Next
          /\ UNCHANGED <<parseVars, logicVars, pidVars, plcVars, found, named>>

MCSpec == MCInit /\ [][MCNext]_<<parseVars, logicVars, pidVars, plcVars, found, named, vars, area>>

-----------------------------------------------------------------------------
(* A design with a module and a control loop, and one without. *)
AllDesigns == {"full", "bare"}
DesignFiles == [d \in AllDesigns |-> IF d = "full" THEN {"module"} ELSE {}]
DesignLoops == [d \in AllDesigns |-> IF d = "full" THEN {"loop"} ELSE {}]

\* Two spellings of one tag, and another tag as alike to it as the threshold.
Spelling == <<1, 2, 2>>
TagPairs == {<<1, 2>>, <<1, 3>>}
AlikeTags == {<<1, 2>>}

\* What there is to parse and to reconcile: the other spelling with a link to it, and the
\* plain one; two spellings at once that say different things of their device, and both
\* devices with a link.
GraphOf(S, edges) == [nodes |-> [t \in 1..3 |-> IF t \in S THEN "healthy" ELSE "absent"],
                      edges |-> edges]
PlantGraphs == {GraphOf({1, 3}, {<<1, 3>>}), GraphOf({2}, {})}
Dataset(S, said, links) == [tags |-> S, says |-> said, links |-> links]
PlantDatasets ==
    {Dataset({2, 3}, <<"healthy", "healthy", "alarm">>, {}),
     Dataset({1, 2}, <<"alarm", "healthy", "healthy">>, {<<1, 2>>})}

\* An analyzer, a valve, a basin and a process unit: relationships that are fit or not to
\* be edges, repeat each other, and are more than a source may have.
PlantEntities == {"analyzer", "valve", "basin", "unit"}
PlantBuckets ==
    [e \in PlantEntities |->
        CASE e = "valve" -> "control_valve" [] e = "unit" -> "process_unit" [] OTHER -> e]
PlantUnits == [e \in PlantEntities |-> None]
Relate(kind, source, target, from, score) ==
    [kind |-> kind, source |-> source, target |-> target, from |-> from, score |-> score]
PlantPool ==
    {Relate("CONTROLS", "analyzer", "valve", "narrative", 90),
     Relate("CONNECTED_TO", "analyzer", "valve", "validation", 85),
     Relate("CONNECTED_TO", "valve", "analyzer", "heuristic", 70),
     Relate("MEASURES", "analyzer", "basin", "heuristic", 60),
     Relate("MEASURES", "analyzer", "basin", "merged", 55),
     Relate("MEASURES", "analyzer", "unit", "locality", 60),
     Relate("FEEDS", "valve", "basin", "heuristic", 40),
     Relate("PART_OF", "valve", "unit", "assignment", 80),
     Relate("CONTROLS", "analyzer", "nobody", "narrative", 90)}

\* Requests, elements and projects are interchangeable; some names stand for values of
\* more than one area.
Symmetry == Permutations(Parses) \cup Permutations(Elements)
===============================================================================
