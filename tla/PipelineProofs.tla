---------------------------- MODULE PipelineProofs ----------------------------
(***************************************************************************)
(* What is proved of the way from documents to logic: of parsing, for any  *)
(* number of parses, elements and items, that what is reported as          *)
(* completed is whole and that readers are given one parse; of             *)
(* reconciliation, for any tags, datasets, graphs and requests, that       *)
(* conflicts are applied only when they are allowed, that a proposal       *)
(* keeps the devices it was made from and that a dataset applied twice is  *)
(* applied once; of the validation of a graph, for any relationships       *)
(* found, that its edges are the best of them; of generating logic, for    *)
(* any designs and requests, that the newest run is whole.                 *)
(***************************************************************************)
EXTENDS ParsePipeline, LogicRuns, PidReconcile, GraphValidation, FiniteSetTheorems,
    SequenceTheorems, WellFoundedInduction, TLAPS

\* A set of naturals has a least.
LEMMA Least == ASSUME NEW S \in SUBSET Nat, S # {} PROVE \E x \in S : \A y \in S : x <= y
<1> DEFINE R == OpToRel(<, Nat)
<1>1. \A x, y \in Nat : <<y, x>> \in R <=> y < x
  BY DEF OpToRel
<1>2. IsWellFoundedOn(R, Nat)
  BY NatLessThanWellFounded
<1> HIDE DEF R
<1>3. PICK x \in S : \A y \in S : ~ (<<y, x>> \in R)
  BY <1>2, WFMin
<1>4. ASSUME NEW y \in S PROVE x <= y
  <2>1. x \in Nat /\ y \in Nat
    OBVIOUS
  <2>2. ~(y < x)
    BY <1>1, <1>3, <2>1
  <2>3. QED
    BY <2>1, <2>2
<1>5. QED
  BY <1>4

-----------------------------------------------------------------------------
(***************************************************************************)
(* Parsing.                                                                *)
(***************************************************************************)
LEMMA ParseInitType == ParseInit => ParseTypeOK
<1> SUFFICES ASSUME ParseInit PROVE ParseTypeOK
  OBVIOUS
<1>1. 0 \in 0..Items
  BY ParseAssumption
<1>2. items \in [Parses -> 0..Items]
  BY <1>1 DEF ParseInit
<1>3. file \in {None} \cup SUBSET Elements /\ neo \subseteq Elements
      /\ graph \in [Parses -> SUBSET Elements]
  BY DEF ParseInit
<1>4. QED
  BY <1>2, <1>3 DEF ParseInit, ParseTypeOK, Statuses

LEMMA ParseStepType == ASSUME ParseTypeOK, ParseNext PROVE ParseTypeOK'
<1>1. PICK p \in Parses :
        \/ \E g \in SUBSET Elements : InsertBatch(p, g)
        \/ InsertJob(p) \/ BuildGraph(p)
        \/ WriteFile(p) \/ ClearNeo(p) \/ MergeElement(p) \/ NeoFails(p)
        \/ StoreItem(p) \/ CompleteBatch(p) \/ CompleteJob(p)
        \/ Raise(p) \/ FailJob(p) \/ FailBatch(p) \/ Die(p)
  BY DEF ParseNext
<1>2. ASSUME NEW g \in SUBSET Elements, InsertBatch(p, g) PROVE ParseTypeOK'
  BY <1>2 DEF ParseTypeOK, InsertBatch, Then, Statuses, Running
<1>3. CASE InsertJob(p)
  BY <1>3 DEF ParseTypeOK, InsertJob, Then, Statuses
<1>4. CASE BuildGraph(p) \/ WriteFile(p)
  BY <1>4 DEF ParseTypeOK, BuildGraph, WriteFile, Then
<1>5. CASE ClearNeo(p) \/ MergeElement(p)
  BY <1>5 DEF ParseTypeOK, ClearNeo, MergeElement, Then
<1>6. CASE NeoFails(p)
  BY <1>6 DEF ParseTypeOK, NeoFails, Then
<1>7. CASE StoreItem(p)
  <2>1. items[p] \in 0..Items /\ items[p] < Items
    BY <1>7 DEF ParseTypeOK, StoreItem
  <2>2. items[p] + 1 \in 0..Items
    BY <2>1, ParseAssumption
  <2>3. items' \in [Parses -> 0..Items]
    BY <1>7, <2>2 DEF ParseTypeOK, StoreItem
  <2>4. QED
    BY <1>7, <2>3 DEF ParseTypeOK, StoreItem
<1>8. CASE CompleteBatch(p) \/ CompleteJob(p)
  BY <1>8 DEF ParseTypeOK, CompleteBatch, CompleteJob, Then, Statuses
<1>9. CASE Raise(p) \/ FailJob(p) \/ FailBatch(p) \/ Die(p)
  BY <1>9 DEF ParseTypeOK, Raise, FailJob, FailBatch, Die, Then, Statuses
<1>10. QED
  BY <1>1, <1>2, <1>3, <1>4, <1>5, <1>6, <1>7, <1>8, <1>9

\* Every variable of parsing keeps its type, for any parses, elements and items.
THEOREM ParseTypes == ParseSpec => []ParseTypeOK
<1>1. ASSUME ParseTypeOK, UNCHANGED parseVars PROVE ParseTypeOK'
  BY <1>1 DEF ParseTypeOK, parseVars
<1>2. ParseTypeOK /\ [ParseNext]_parseVars => ParseTypeOK'
  BY <1>1, ParseStepType
<1>3. QED
  BY ParseInitType, <1>2, PTL DEF ParseSpec

-----------------------------------------------------------------------------
(***************************************************************************)
(* What is reported as completed.                                          *)
(***************************************************************************)
Reported ==
    \A p \in Parses :
        /\ batch[p] = "completed" => items[p] = Items
        /\ job[p] = "completed" => batch[p] = "completed" /\ pc[p] = "end"
        /\ pc[p] = "finish" => batch[p] = "completed"
        /\ pc[p] = "none" => job[p] = "none"

LEMMA ReportedStep == ASSUME ParseTypeOK, Reported, ParseNext PROVE Reported'
<1>1. PICK p \in Parses :
        \/ \E g \in SUBSET Elements : InsertBatch(p, g)
        \/ InsertJob(p) \/ BuildGraph(p)
        \/ WriteFile(p) \/ ClearNeo(p) \/ MergeElement(p) \/ NeoFails(p)
        \/ StoreItem(p) \/ CompleteBatch(p) \/ CompleteJob(p)
        \/ Raise(p) \/ FailJob(p) \/ FailBatch(p) \/ Die(p)
  BY DEF ParseNext
<1>2. ASSUME NEW g \in SUBSET Elements, InsertBatch(p, g) PROVE Reported'
  BY <1>2 DEF ParseTypeOK, Reported, InsertBatch, AtPc, Then
<1>3. CASE InsertJob(p)
  BY <1>3 DEF ParseTypeOK, Reported, InsertJob, AtPc, Then
<1>4. CASE BuildGraph(p) \/ WriteFile(p)
  BY <1>4 DEF ParseTypeOK, Reported, BuildGraph, WriteFile, AtPc, Then
<1>5. CASE ClearNeo(p) \/ MergeElement(p)
  BY <1>5 DEF ParseTypeOK, Reported, ClearNeo, MergeElement, AtPc, Then
<1>6. CASE NeoFails(p)
  BY <1>6 DEF ParseTypeOK, Reported, NeoFails, AtPc, Then
<1>7. CASE StoreItem(p)
  <2>1. items[p] # Items /\ pc[p] = "items"
    <3>1. items[p] \in 0..Items /\ items[p] < Items
      BY <1>7 DEF ParseTypeOK, StoreItem
    <3>2. items[p] # Items
      BY <3>1, ParseAssumption
    <3>3. pc[p] = "items"
      BY <1>7 DEF StoreItem, AtPc
    <3>4. QED
      BY <3>2, <3>3
  <2>2. \A q \in Parses : q # p => items'[q] = items[q]
    BY <1>7 DEF ParseTypeOK, StoreItem
  <2>3. batch' = batch /\ job' = job /\ pc' = pc
    BY <1>7 DEF StoreItem
  <2>4. batch[p] # "completed" /\ job[p] # "completed"
    BY <2>1 DEF Reported
  <2>5. QED
    BY <2>1, <2>2, <2>3, <2>4 DEF Reported
<1>8. CASE CompleteBatch(p)
  BY <1>8 DEF ParseTypeOK, Reported, CompleteBatch, AtPc, Then
<1>9. CASE CompleteJob(p)
  BY <1>9 DEF ParseTypeOK, Reported, CompleteJob, AtPc, Then
<1>10. CASE Raise(p) \/ Die(p)
  BY <1>10 DEF ParseTypeOK, Reported, Raise, Die, Running, Then
<1>11. CASE FailJob(p) \/ FailBatch(p)
  BY <1>11, ZenonT(60) DEF ParseTypeOK, Reported, FailJob, FailBatch, AtPc, Then
<1>12. QED
  BY <1>1, <1>2, <1>3, <1>4, <1>5, <1>6, <1>7, <1>8, <1>9, <1>10, <1>11

\* A job that says it completed stands for a batch that did, with all its rows, whatever
\* fails, dies or runs beside it; and so does a batch.
THEOREM CompletedWhole == ParseSpec => []CompletedIsWhole
<1>1. ParseInit => ParseTypeOK /\ Reported
  BY ParseInitType DEF ParseInit, Reported
<1>2. ASSUME ParseTypeOK, Reported, UNCHANGED parseVars PROVE (ParseTypeOK /\ Reported)'
  BY <1>2 DEF ParseTypeOK, Reported, parseVars
<1>3. ParseTypeOK /\ Reported /\ [ParseNext]_parseVars => (ParseTypeOK /\ Reported)'
  BY <1>2, ParseStepType, ReportedStep
<1>4. Reported => CompletedIsWhole
  BY DEF Reported, CompletedIsWhole
<1>5. QED
  BY <1>1, <1>3, <1>4, PTL DEF ParseSpec

-----------------------------------------------------------------------------
(***************************************************************************)
(* What readers are given.                                                 *)
(***************************************************************************)

\* A clean parse started last and runs alone.
CleanIsAlone ==
    \A p \in Parses : clean[p] => p = latest /\ \A r \in Parses : Running(r) => r = p

\* How far a clean parse has come with the graph.
CleanGraph ==
    \A p \in Parses : clean[p] =>
        /\ pc[p] \in {"clear", "merge", "items", "finish"} => file = graph[p]
        /\ pc[p] = "merge" => neo \subseteq graph[p]
        /\ pc[p] \in {"items", "finish"} => neo \in {{}, graph[p]}
        /\ pc[p] = "finish" => items[p] = Items

\* Once it has completed, nothing runs and readers are given it.
Given ==
    latest # None /\ ~mixed =>
        /\ \A r \in Parses : ~Running(r)
        /\ Served = graph[latest]
        /\ items[latest] = Items

ReadersInv == CleanIsAlone /\ CleanGraph /\ Given

\* Steps of a parse that runs: it has not completed clean yet.
LEMMA RunningIsMixed ==
    ASSUME ParseTypeOK, ReadersInv, NEW p \in Parses, Running(p)
    PROVE  mixed \/ latest = None
  BY DEF ReadersInv, Given, ParseTypeOK

\* A clean parse other than the one that steps does not exist, so only what that one is
\* about has to be looked at.
LEMMA StepOf ==
    ASSUME ParseTypeOK, ReadersInv, NEW p \in Parses, Running(p), UNCHANGED <<graph, latest>>,
           NEW step, Then(p, step) \/ (UNCHANGED pc /\ step = pc[p]), step # "none",
           \A q \in Parses : clean'[q] => clean[q],
           \A q \in Parses : q # p => items'[q] = items[q],
           clean'[p] =>
                /\ step \in {"clear", "merge", "items", "finish"} => file' = graph[p]
                /\ step = "merge" => neo' \subseteq graph[p]
                /\ step \in {"items", "finish"} => neo' \in {{}, graph[p]}
                /\ step = "finish" => items'[p] = Items
    PROVE  CleanIsAlone' /\ CleanGraph'
<1>1. pc'[p] = step /\ \A q \in Parses : q # p => pc'[q] = pc[q]
  BY DEF ParseTypeOK, Then
<1>2. \A q \in Parses : clean'[q] => q = p
  BY DEF ReadersInv, CleanIsAlone
<1>3. CleanIsAlone'
  BY <1>1, <1>2 DEF ReadersInv, CleanIsAlone, Running
<1>4. CleanGraph'
  BY <1>1, <1>2 DEF CleanGraph
<1>5. QED
  BY <1>3, <1>4

LEMMA ReadersStep == ASSUME ParseTypeOK, ReadersInv, ParseNext PROVE ReadersInv'
<1>1. PICK p \in Parses :
        \/ \E g \in SUBSET Elements : InsertBatch(p, g)
        \/ InsertJob(p) \/ BuildGraph(p)
        \/ WriteFile(p) \/ ClearNeo(p) \/ MergeElement(p) \/ NeoFails(p)
        \/ StoreItem(p) \/ CompleteBatch(p) \/ CompleteJob(p)
        \/ Raise(p) \/ FailJob(p) \/ FailBatch(p) \/ Die(p)
  BY DEF ParseNext
<1>2. ASSUME NEW g \in SUBSET Elements, InsertBatch(p, g) PROVE ReadersInv'
  <2>1. pc'[p] = "job" /\ \A q \in Parses : q # p => pc'[q] = pc[q]
    BY <1>2 DEF InsertBatch, Then, ParseTypeOK
  <2>2. latest' = p /\ mixed' = TRUE
    BY <1>2 DEF InsertBatch
  <2>3. \A q \in Parses : clean'[q] => q = p /\ \A r \in Parses : ~Running(r)
    BY <1>2 DEF InsertBatch
  <2>4. CleanIsAlone'
    BY <2>1, <2>2, <2>3 DEF CleanIsAlone, Running
  <2>5. CleanGraph'
    BY <2>1, <2>3 DEF CleanGraph
  <2>6. QED
    BY <2>2, <2>4, <2>5 DEF ReadersInv, Given
<1>3. ASSUME Running(p), UNCHANGED <<latest, mixed>>, CleanIsAlone', CleanGraph'
      PROVE  ReadersInv'
  <2>1. mixed' \/ latest' = None
    BY <1>3, RunningIsMixed
  <2>2. QED
    BY <1>3, <2>1 DEF ReadersInv, Given
<1>4. CASE InsertJob(p)
  <2>1. Running(p) /\ Then(p, "stages")
    BY <1>4 DEF InsertJob, Running, AtPc
  <2>2. QED
    BY <1>3, <1>4, <2>1, StepOf DEF InsertJob
<1>5. CASE BuildGraph(p)
  <2>1. Running(p) /\ Then(p, "write")
    BY <1>5 DEF BuildGraph, Running, AtPc
  <2>2. QED
    BY <1>3, <1>5, <2>1, StepOf DEF BuildGraph
<1>6. CASE WriteFile(p)
  <2>1. Running(p) /\ Then(p, "clear")
    BY <1>6 DEF WriteFile, Running, AtPc
  <2>2. QED
    BY <1>3, <1>6, <2>1, StepOf DEF WriteFile
<1>7. CASE ClearNeo(p)
  <2>1. Running(p) /\ Then(p, "merge") /\ (clean[p] => file = graph[p])
    BY <1>7 DEF ClearNeo, Running, AtPc, ReadersInv, CleanGraph
  <2>2. QED
    BY <1>3, <1>7, <2>1, StepOf DEF ClearNeo
<1>8. CASE MergeElement(p)
  <2>1. Running(p) /\ pc[p] = "merge"
        /\ (clean[p] => file = graph[p] /\ neo \subseteq graph[p])
    BY <1>8 DEF MergeElement, Running, AtPc, ReadersInv, CleanGraph
  <2>2. CASE \E e \in graph[p] \ neo : neo' = neo \cup {e} /\ UNCHANGED pc
    <3>1. clean[p] => neo' \subseteq graph[p]
      BY <2>1, <2>2
    <3>2. QED
      BY <1>3, <1>8, <2>1, <2>2, <3>1, StepOf DEF MergeElement
  <2>3. CASE graph[p] \subseteq neo /\ Then(p, "items") /\ UNCHANGED neo
    <3>1. clean[p] => neo' = graph[p]
      BY <2>1, <2>3
    <3>2. QED
      BY <1>3, <1>8, <2>1, <2>3, <3>1, StepOf DEF MergeElement
  <2>4. QED
    BY <1>8, <2>2, <2>3 DEF MergeElement
<1>9. CASE NeoFails(p)
  <2>1. Running(p) /\ Then(p, "items") /\ (clean[p] => file = graph[p])
    BY <1>9 DEF NeoFails, Running, AtPc, ReadersInv, CleanGraph
  <2>2. (\A q \in Parses : clean'[q] => clean[q]) /\ (clean'[p] => neo = {})
    BY <1>9 DEF NeoFails, ParseTypeOK
  <2>3. QED
    BY <1>3, <1>9, <2>1, <2>2, StepOf DEF NeoFails
<1>10. CASE StoreItem(p)
  <2>1. Running(p) /\ pc[p] = "items" /\ (clean[p] => file = graph[p] /\ neo \in {{}, graph[p]})
    BY <1>10 DEF StoreItem, Running, AtPc, ReadersInv, CleanGraph
  <2>2. \A q \in Parses : q # p => items'[q] = items[q]
    BY <1>10 DEF StoreItem, ParseTypeOK
  <2>3. QED
    BY <1>3, <1>10, <2>1, <2>2, StepOf DEF StoreItem
<1>11. CASE CompleteBatch(p)
  <2>1. Running(p) /\ Then(p, "finish") /\ items[p] = Items
        /\ (clean[p] => file = graph[p] /\ neo \in {{}, graph[p]})
    BY <1>11 DEF CompleteBatch, Running, AtPc, ReadersInv, CleanGraph
  <2>2. QED
    BY <1>3, <1>11, <2>1, StepOf DEF CompleteBatch
<1>12. CASE CompleteJob(p)
  <2>1. Running(p) /\ Then(p, "end")
    BY <1>12 DEF CompleteJob, Running, AtPc
  <2>2. CleanIsAlone' /\ CleanGraph'
    BY <1>12, <2>1, StepOf DEF CompleteJob
  <2>3. CASE clean[p]
    <3>1. latest = p /\ \A r \in Parses : Running(r) => r = p
      BY <2>3 DEF ReadersInv, CleanIsAlone
    <3>2. \A r \in Parses : ~Running(r)'
      BY <2>1, <3>1 DEF Running, Then, ParseTypeOK
    <3>3. file = graph[p] /\ neo \in {{}, graph[p]} /\ items[p] = Items
      BY <1>12, <2>3 DEF CompleteJob, AtPc, ReadersInv, CleanGraph
    <3>4. Served' = graph[p]
      BY <1>12, <3>3 DEF CompleteJob, Served
    <3>5. Given'
      BY <1>12, <3>1, <3>2, <3>3, <3>4 DEF CompleteJob, Given
    <3>6. QED
      BY <2>2, <3>5 DEF ReadersInv
  <2>4. CASE ~clean[p]
    <3>1. UNCHANGED <<latest, mixed>>
      BY <1>12, <2>4 DEF CompleteJob, ParseTypeOK
    <3>2. QED
      BY <1>3, <2>1, <2>2, <3>1
  <2>5. QED
    BY <2>3, <2>4
<1>13. CASE Raise(p)
  <2>1. Running(p) /\ Then(p, "fail job")
    BY <1>13 DEF Raise, Running
  <2>2. QED
    BY <1>3, <1>13, <2>1, StepOf DEF Raise
<1>14. CASE FailJob(p)
  <2>1. Running(p) /\ Then(p, "fail batch")
    BY <1>14 DEF FailJob, Running, AtPc
  <2>2. QED
    BY <1>3, <1>14, <2>1, StepOf DEF FailJob
<1>15. CASE FailBatch(p) \/ Die(p)
  <2>1. Running(p) /\ Then(p, "end")
    BY <1>15 DEF FailBatch, Die, Running, AtPc
  <2>2. UNCHANGED <<items, graph, file, neo, latest, clean, mixed>>
    BY <1>15 DEF FailBatch, Die
  <2>3. QED
    BY <1>3, <2>1, <2>2, StepOf
<1>16. QED
  BY <1>1, <1>2, <1>4, <1>5, <1>6, <1>7, <1>8, <1>9, <1>10, <1>11, <1>12, <1>13, <1>14, <1>15

\* Once the parse that started last has completed with no other beside it, readers are
\* given its graph and all its entities, for any parses, elements and items.
THEOREM ReadersGetOneParse == ParseSpec => []ReadersSeeOneParse
<1>1. ParseInit => ParseTypeOK /\ ReadersInv
  BY ParseInitType DEF ParseInit, ReadersInv, CleanIsAlone, CleanGraph, Given
<1>2. ASSUME ParseTypeOK, ReadersInv, UNCHANGED parseVars PROVE (ParseTypeOK /\ ReadersInv)'
  BY <1>2 DEF ParseTypeOK, ReadersInv, CleanIsAlone, CleanGraph, Given, Running, Served, parseVars
<1>3. ParseTypeOK /\ ReadersInv /\ [ParseNext]_parseVars => (ParseTypeOK /\ ReadersInv)'
  BY <1>2, ParseStepType, ReadersStep
<1>4. ReadersInv => ReadersSeeOneParse
  BY DEF ReadersInv, Given, ReadersSeeOneParse
<1>5. QED
  BY <1>1, <1>3, <1>4, PTL DEF ParseSpec

-----------------------------------------------------------------------------
(***************************************************************************)
(* Reconciliation.                                                         *)
(***************************************************************************)

\* The last tag is the one with the fewest tags after it.
LEMMA LastTag ==
    ASSUME NEW S \in SUBSET Tags, S # {}
    PROVE  Last(S) \in S /\ \A u \in S : u <= Last(S)
<1> DEFINE after(t) == {u \in S : u > t}
           c == [t \in S |-> Cardinality(after(t))]
           counts == {c[t] : t \in S}
<1>1. IsFiniteSet(S)
  BY PidAssumption, FS_Subset
<1>2. \A t \in S : after(t) \in SUBSET S
  OBVIOUS
<1>3. \A t \in S : IsFiniteSet(after(t)) /\ Cardinality(after(t)) \in Nat
  BY <1>1, <1>2, FS_Subset, FS_CardinalityType
<1>4. \A t \in S : c[t] = Cardinality(after(t)) /\ c[t] \in Nat
  BY <1>3
<1> HIDE DEF c
<1>5. PICK t \in S : \A u \in S : c[t] <= c[u]
  <2>1. counts \in SUBSET Nat /\ counts # {}
    BY <1>4
  <2>2. PICK x \in counts : \A y \in counts : x <= y
    BY <2>1, Least
  <2>3. QED
    BY <2>2
<1>6. ASSUME NEW u \in S, u > t PROVE FALSE
  <2>1. t \in Nat /\ u \in Nat
    BY PidAssumption
  <2>2. after(u) \in SUBSET after(t) /\ u \in after(t) /\ u \notin after(u)
    <3>1. ASSUME NEW v \in S, v > u PROVE v > t
      <4>1. v \in Nat
        BY PidAssumption
      <4>2. QED
        BY <1>6, <2>1, <3>1, <4>1
    <3>2. after(u) \in SUBSET after(t)
      BY <3>1
    <3>3. u \in after(t) /\ u \notin after(u)
      BY <1>6, <2>1
    <3>4. QED
      BY <3>2, <3>3
  <2>3. Cardinality(after(u)) <= Cardinality(after(t))
        /\ Cardinality(after(u)) # Cardinality(after(t))
    BY <1>3, <2>2, FS_Subset
  <2>4. c[u] = Cardinality(after(u)) /\ c[t] = Cardinality(after(t))
        /\ c[u] \in Nat /\ c[t] \in Nat /\ c[t] <= c[u]
    BY <1>4, <1>5
  <2>5. QED
    BY <2>3, <2>4
<1>7. \A u \in S : u <= t
  <2> SUFFICES ASSUME NEW u \in S PROVE u <= t
    OBVIOUS
  <2>1. t \in Nat /\ u \in Nat
    BY PidAssumption
  <2>2. QED
    BY <1>6, <2>1
<1>8. QED
  BY <1>7 DEF Last

\* A set of tags has, for each of its normalised tags, one that counts.
LEMMA OneCounts ==
    ASSUME NEW S \in SUBSET Tags, NEW t \in S
    PROVE  \E u \in Counts(S) : Norm[u] = Norm[t]
<1> DEFINE same == Spelled(S, Norm[t])
           u == Last(same)
<1>1. same \in SUBSET Tags /\ same # {}
  BY DEF Spelled
<1>2. u \in same
  BY <1>1, LastTag
<1>3. Norm[u] = Norm[t] /\ u \in S
  BY <1>2 DEF Spelled
<1>4. u \in Counts(S)
  BY <1>3 DEF Counts
<1>5. QED
  BY <1>3, <1>4

-----------------------------------------------------------------------------
(***************************************************************************)
(* What a proposal has.                                                    *)
(***************************************************************************)
LEMMA GraphFields ==
    ASSUME NEW g \in Graphs
    PROVE  g.nodes \in [Tags -> Status] /\ g.edges \in SUBSET Ties /\ Nodes(g) \in SUBSET Tags
BY DEF Graphs, Links, Nodes

LEMMA DatasetFields ==
    ASSUME NEW d \in Datasets
    PROVE  d.tags \in SUBSET Tags /\ d.says \in [Tags -> Reports] /\ d.links \in SUBSET Ties
<1>1. d \in [tags : SUBSET Tags, says : [Tags -> Reports], links : Links]
  BY DatasetAssumption
<1>2. QED
  BY <1>1 DEF Links

\* A record says a status, and its links are links there can be.
LEMMA SaidType ==
    ASSUME NEW d \in Datasets, NEW n \in Normal(d.tags) PROVE Said(d, n) \in Reports
<1>1. Spelled(d.tags, n) \in SUBSET Tags /\ Spelled(d.tags, n) # {}
  BY DatasetFields DEF Spelled, Normal
<1>2. Last(Spelled(d.tags, n)) \in Tags
  BY <1>1, LastTag
<1>3. QED
  BY <1>2, DatasetFields DEF Said

LEMMA LedType == ASSUME NEW d \in Datasets PROVE Led(d) \in SUBSET Ties
BY DatasetFields, PidAssumption DEF Led

LEMMA ProposedType ==
    ASSUME NEW g \in Graphs, NEW d \in Datasets PROVE Proposed(g, d) \in Graphs
<1> DEFINE node(t) ==
               IF t \in Counts(Nodes(g))
               THEN IF Norm[t] \in Normal(d.tags) THEN "healthy" ELSE "deprecated"
               ELSE IF t \in Normal(d.tags) \ Normal(Nodes(g)) THEN Said(d, t) ELSE "absent"
           nodes == [t \in Tags |-> node(t)]
<1>2. \A t \in Tags : node(t) \in Status
  BY SaidType DEF Status
<1>4. nodes \in [Tags -> Status] /\ Led(d) \in SUBSET Ties
  BY <1>2, LedType
<1>5. Proposed(g, d) = [nodes |-> nodes, edges |-> Led(d)]
  BY DEF Proposed
<1> HIDE DEF nodes
<1>6. QED
  BY <1>4, <1>5 DEF Graphs, Links

LEMMA AcceptedType ==
    ASSUME NEW g \in Graphs PROVE Accepted(g) \in Graphs /\ Nodes(Accepted(g)) = Nodes(g)
<1> DEFINE fit == {l \in g.edges : {l[1], l[2]} \subseteq Nodes(g) /\ l \in Fits}
<1>1. fit \in SUBSET Ties
  BY GraphFields
<1>2. Accepted(g) = [g EXCEPT !.edges = fit]
  BY DEF Accepted
<1> HIDE DEF fit
<1>3. Accepted(g) \in Graphs /\ Accepted(g).nodes = g.nodes
  BY <1>1, <1>2 DEF Graphs, Links
<1>4. QED
  BY <1>3 DEF Nodes

\* Links without their devices are not accepted.
LEMMA AcceptedWhole == ASSUME NEW g \in Graphs PROVE Whole(Accepted(g))
<1>1. Accepted(g).edges = {l \in g.edges : {l[1], l[2]} \subseteq Nodes(g) /\ l \in Fits}
  BY DEF Accepted, Graphs
<1>2. QED
  BY <1>1, AcceptedType DEF Whole

\* The devices of the graph are in the proposal, under whatever spelling.
Keeps(base, g) == Normal(base) \subseteq Normal(Nodes(g))

LEMMA ProposedKeeps ==
    ASSUME NEW g \in Graphs, NEW d \in Datasets PROVE Keeps(Nodes(g), Proposed(g, d))
<1> SUFFICES ASSUME NEW t \in Nodes(g) PROVE Norm[t] \in Normal(Nodes(Proposed(g, d)))
  BY DEF Keeps, Normal
<1>1. Nodes(g) \in SUBSET Tags
  BY GraphFields
<1>2. PICK u \in Counts(Nodes(g)) : Norm[u] = Norm[t]
  BY <1>1, OneCounts
<1>3. u \in Tags
  BY <1>1, <1>2 DEF Counts
<1>4. Proposed(g, d).nodes[u] \in {"healthy", "deprecated"}
  BY <1>2, <1>3 DEF Proposed
<1>5. u \in Nodes(Proposed(g, d))
  BY <1>3, <1>4 DEF Nodes
<1>6. QED
  BY <1>2, <1>5 DEF Normal

-----------------------------------------------------------------------------
(***************************************************************************)
(* The invariant: types; what the two files and the requests say of the    *)
(* conflicts; that every proposal keeps the devices it was made from; and  *)
(* how far a request that stores alone has got.                            *)
(***************************************************************************)
Reviews ==
    [step : ReviewSteps, of : {None} \cup Datasets, conflicts : BOOLEAN, allow : BOOLEAN,
     graph : Graphs, base : Bases, todo : SUBSET Tags, ties : SUBSET Ties, torn : BOOLEAN,
     steady : BOOLEAN]
Summaries == [conflicts : BOOLEAN, by : {None} \cup Reviewers]

LEMMA ReviewFields ==
    ASSUME PidTypeOK, NEW r \in Reviewers
    PROVE  /\ review[r] \in Reviews
           /\ review[r].conflicts \in BOOLEAN /\ review[r].allow \in BOOLEAN
           /\ review[r].graph \in Graphs /\ review[r].base \in Bases
           /\ review[r].todo \in SUBSET Tags /\ review[r].ties \in SUBSET Ties
BY DEF PidTypeOK, Reviews

LEMMA ProposalFields ==
    ASSUME PidTypeOK, proposal # None
    PROVE  /\ proposal.graph \in Graphs /\ proposal.base \in Bases
           /\ proposal.conflicts \in BOOLEAN
<1>1. proposal \in Proposals
  BY DEF PidTypeOK
<1>2. QED
  BY <1>1 DEF Proposals

LEMMA NoReviewType == NoReview \in Reviews /\ NoGraph \in Graphs
<1>1. NoGraph \in Graphs
  BY DEF NoGraph, Graphs, Status, Links
<1>2. QED
  BY <1>1 DEF NoReview, Reviews, ReviewSteps, Bases

LEMMA EmptyGraph == Nodes(NoGraph) = {} /\ NoGraph.edges = {} /\ Whole(NoGraph)
BY DEF NoGraph, Nodes, Whole

\* A graph without devices has no links either.
LEMMA NothingThere ==
    ASSUME NEW g \in Graphs, Whole(g), Nodes(g) = {} PROVE g = NoGraph
<1>1. g.nodes = [t \in Tags |-> "absent"]
  BY GraphFields DEF Nodes
<1>2. g.edges = {}
  BY DEF Whole
<1>3. QED
  BY <1>1, <1>2 DEF Graphs, NoGraph

FilesMatch == ~apart /\ proposal # None => summary.conflicts = proposal.conflicts
OwnSummary ==
    \A r \in Reviewers :
        review[r].step = "proposal" /\ summary.by = r => summary.conflicts = review[r].conflicts
ProposalKeeps == proposal # None /\ proposal.base # None => Keeps(proposal.base, proposal.graph)
PlantIsWhole == Whole(plantFile) /\ Whole(plantNeo)

\* Of a request, by what is kept in the file and merged into Neo4j, and the proposal.
Sound(v, kept, merged, pending) ==
    /\ v.base # None => Keeps(v.base, v.graph)
    /\ v.step = "look" => v.of \in Datasets
    /\ v.step = "load" /\ ~v.torn /\ pending # None => v.conflicts = pending.conflicts
    /\ v.step = "store" => Whole(v.graph) /\ (v.conflicts /\ ~v.torn => v.allow)
    /\ v.step \in {"clear", "merge"} => v.todo \subseteq Nodes(v.graph)
    /\ v.step = "clear" => v.todo = Nodes(v.graph)
    /\ v.steady => v.step \in {"clear", "merge"} /\ v.base # None /\ kept = v.graph
    /\ v.steady /\ v.step = "clear" => merged = NoGraph \/ Nodes(merged) = v.base
    /\ v.steady /\ v.step = "merge" => Nodes(merged) = Nodes(v.graph) \ v.todo

AllSound == \A r \in Reviewers : Sound(review[r], plantFile, plantNeo, proposal)
SteadyAlone ==
    \A r \in Reviewers, q \in Reviewers : review[r].steady /\ q # r => ~Storing(q)

PidInv ==
    /\ PidTypeOK /\ FilesMatch /\ OwnSummary /\ ProposalKeeps
    /\ PlantIsWhole /\ AllSound /\ SteadyAlone

\* What a step that changes one request, and of the graph no more than Neo4j, has to show.
LEMMA ReviewOnly ==
    ASSUME PidInv, NEW r \in Reviewers, NEW v \in Reviews,
           review' = [review EXCEPT ![r] = v],
           UNCHANGED <<plantFile, summary, proposal, apart>>,
           plantNeo' \in Graphs, Whole(plantNeo'),
           plantNeo' = plantNeo \/ Storing(r),
           v.step # "proposal", v.step \in {"clear", "merge"} => Storing(r),
           v.steady => review[r].steady,
           Sound(v, plantFile, plantNeo', proposal)
    PROVE  PidInv'
<1>1. PidTypeOK'
  BY DEF PidInv, PidTypeOK, Reviews
<1>2. \A q \in Reviewers : review'[q] = IF q = r THEN v ELSE review[q]
  BY DEF PidInv, PidTypeOK
<1>3. FilesMatch' /\ ProposalKeeps' /\ PlantIsWhole'
  BY DEF PidInv, FilesMatch, ProposalKeeps, PlantIsWhole
<1>4. OwnSummary'
  BY <1>2 DEF PidInv, OwnSummary
<1>5. AllSound'
  <2> SUFFICES ASSUME NEW q \in Reviewers
               PROVE  Sound(review'[q], plantFile, plantNeo', proposal)
    BY DEF AllSound
  <2>1. CASE q = r
    BY <1>2, <2>1
  <2>2. CASE q # r
    <3>1. review'[q] = review[q] /\ Sound(review[q], plantFile, plantNeo, proposal)
      BY <1>2, <2>2 DEF PidInv, AllSound
    <3>2. plantNeo' = plantNeo \/ ~review[q].steady
      BY <2>2 DEF PidInv, SteadyAlone
    <3>3. QED
      BY <3>1, <3>2 DEF Sound
  <2>3. QED
    BY <2>1, <2>2
<1>6. SteadyAlone'
  <2>1. \A q \in Reviewers : review'[q].steady => review[q].steady
    BY <1>2
  <2>2. \A q \in Reviewers : Storing(q)' => Storing(q)
    BY <1>2 DEF Storing
  <2>3. QED
    BY <2>1, <2>2 DEF PidInv, SteadyAlone
<1>7. QED
  BY <1>1, <1>3, <1>4, <1>5, <1>6 DEF PidInv

\* A request that is neither writing nor storing is sound when it keeps devices.
LEMMA QuietIsSound ==
    ASSUME NEW v \in Reviews, v.step \in {"idle", "look", "summary"}, ~v.steady,
           v.base # None => Keeps(v.base, v.graph), v.step = "look" => v.of \in Datasets,
           NEW kept, NEW merged, NEW pending
    PROVE  Sound(v, kept, merged, pending)
BY DEF Sound

LEMMA NoReviewFields ==
    /\ NoReview.step = "idle" /\ NoReview.of = None /\ NoReview.base = None
    /\ NoReview.steady = FALSE /\ NoReview.torn = FALSE /\ NoReview.graph = NoGraph
BY DEF NoReview

LEMMA EmptyIsSound ==
    ASSUME NEW kept, NEW merged, NEW pending PROVE Sound(NoReview, kept, merged, pending)
BY NoReviewType, NoReviewFields, QuietIsSound

\* What a comparison leaves to be written.
LEMMA ComparedType ==
    ASSUME NEW g \in Graphs, NEW d \in Datasets
    PROVE  /\ Compared(g, d) \in Reviews /\ Compared(g, d).step = "summary"
           /\ Compared(g, d).steady = FALSE
           /\ Keeps(Compared(g, d).base, Compared(g, d).graph)
<1>1. Proposed(g, d) \in Graphs /\ Nodes(g) \in SUBSET Tags /\ Keeps(Nodes(g), Proposed(g, d))
  BY ProposedType, GraphFields, ProposedKeeps
<1>2. Conflicts(g, d) \in BOOLEAN
  BY DEF Conflicts
<1>3. Compared(g, d) \in Reviews
  BY <1>1, <1>2, NoReviewType DEF Compared, NoReview, Reviews, ReviewSteps, Bases
<1>4. /\ Compared(g, d).step = "summary" /\ Compared(g, d).steady = FALSE
      /\ Compared(g, d).base = Nodes(g) /\ Compared(g, d).graph = Proposed(g, d)
  BY DEF Compared, NoReview
<1>5. QED
  BY <1>1, <1>3, <1>4

LEMMA ComparedInv ==
    ASSUME PidInv, NEW r \in Reviewers, NEW g \in Graphs, NEW d \in Datasets,
           review' = [review EXCEPT ![r] = Compared(g, d)],
           UNCHANGED <<plantFile, plantNeo, summary, proposal, apart>>
    PROVE  PidInv'
<1> DEFINE v == Compared(g, d)
<1>1. v \in Reviews /\ v.step = "summary" /\ v.steady = FALSE /\ Keeps(v.base, v.graph)
  BY ComparedType
<1> HIDE DEF v
<1>2. Sound(v, plantFile, plantNeo', proposal)
  BY <1>1, QuietIsSound
<1>3. review' = [review EXCEPT ![r] = v]
  BY DEF v
<1>4. plantNeo' \in Graphs /\ Whole(plantNeo')
  BY DEF PidInv, PidTypeOK, PlantIsWhole
<1>5. QED
  BY <1>1, <1>2, <1>3, <1>4, ReviewOnly

LEMMA PidStepInv == ASSUME PidInv, PidNext PROVE PidInv'
<1> USE DEF PidInv
<1>0. plantFile \in Graphs /\ plantNeo \in Graphs /\ Whole(plantNeo) /\ Whole(plantFile)
  BY DEF PidTypeOK, PlantIsWhole
<1>1. ASSUME NEW r \in Reviewers, NEW g \in Parsed, StoreParsed(r, g) PROVE PidInv'
  <2> DEFINE v == [NoReview EXCEPT !.step = "store", !.graph = g]
  <2>1. g \in Graphs /\ Whole(g)
    BY ParsedAssumption
  <2>2. v \in Reviews
    BY <2>1, NoReviewType DEF NoReview, Reviews, ReviewSteps
  <2>3. /\ v.step = "store" /\ v.graph = g /\ v.base = None /\ v.conflicts = FALSE
        /\ v.steady = FALSE
    BY DEF NoReview
  <2>4. review' = [review EXCEPT ![r] = v]
        /\ UNCHANGED <<plantFile, plantNeo, summary, proposal, apart>>
    BY <1>1 DEF StoreParsed
  <2> HIDE DEF v
  <2>5. Sound(v, plantFile, plantNeo', proposal)
    BY <2>1, <2>3 DEF Sound
  <2>6. QED
    BY <1>0, <2>2, <2>3, <2>4, <2>5, ReviewOnly
<1>2. ASSUME NEW r \in Reviewers, NEW d \in Datasets, Reconcile(r, d) PROVE PidInv'
  <2>1. UNCHANGED <<plantFile, plantNeo, summary, proposal, apart>>
    BY <1>2 DEF Reconcile
  <2>2. CASE \E g \in {plantFile, plantNeo} : review' = [review EXCEPT ![r] = Compared(g, d)]
    BY <1>0, <2>1, <2>2, ComparedInv
  <2>3. CASE review' = [review EXCEPT ![r] = [NoReview EXCEPT !.step = "look", !.of = d]]
    <3> DEFINE v == [NoReview EXCEPT !.step = "look", !.of = d]
    <3>1. v \in Reviews
      BY NoReviewType DEF NoReview, Reviews, ReviewSteps
    <3>2. v.step = "look" /\ v.steady = FALSE /\ v.base = None /\ v.of = d
      BY DEF NoReview
    <3>3. review' = [review EXCEPT ![r] = v]
      BY <2>3
    <3> HIDE DEF v
    <3>4. Sound(v, plantFile, plantNeo', proposal)
      BY <3>1, <3>2, QuietIsSound
    <3>5. QED
      BY <1>0, <2>1, <3>1, <3>2, <3>3, <3>4, ReviewOnly
  <2>4. QED
    BY <1>2, <2>2, <2>3 DEF Reconcile
<1>3. ASSUME NEW r \in Reviewers, LookFurther(r) PROVE PidInv'
  <2>1. UNCHANGED <<plantFile, plantNeo, summary, proposal, apart>>
    BY <1>3 DEF LookFurther
  <2>2. PICK g \in Graphs : review' = [review EXCEPT ![r] = Compared(g, review[r].of)]
    BY <1>0, <1>3, NoReviewType DEF LookFurther
  <2>3. review[r].of \in Datasets
    BY <1>3 DEF LookFurther, AllSound, Sound
  <2>4. QED
    BY <2>1, <2>2, <2>3, ComparedInv
<1>4. ASSUME NEW r \in Reviewers, WriteSummary(r) PROVE PidInv'
  <2>1. /\ review[r].step = "summary"
        /\ summary' = [conflicts |-> review[r].conflicts, by |-> r]
        /\ review' = [review EXCEPT ![r].step = "proposal"]
        /\ apart' = TRUE /\ UNCHANGED <<plantFile, plantNeo, proposal>>
    BY <1>4 DEF WriteSummary
  <2>2. /\ review' \in [Reviewers -> Reviews]
        /\ \A q \in Reviewers : q # r => review'[q] = review[q]
        /\ review'[r] = [review[r] EXCEPT !.step = "proposal"]
    BY <2>1 DEF PidTypeOK, Reviews, ReviewSteps
  <2>3. /\ review'[r].step = "proposal" /\ review'[r].conflicts = review[r].conflicts
        /\ review'[r].base = review[r].base /\ review'[r].graph = review[r].graph
        /\ review'[r].steady = review[r].steady
    BY <2>2, ReviewFields DEF Reviews
  <2>4. summary' \in Summaries /\ summary'.by = r /\ summary'.conflicts = review[r].conflicts
    BY <2>1, ReviewFields DEF Summaries
  <2>5. PidTypeOK'
    BY <2>1, <2>2, <2>4 DEF PidTypeOK, Reviews, Summaries
  <2>6. FilesMatch' /\ OwnSummary' /\ ProposalKeeps' /\ PlantIsWhole'
    BY <2>1, <2>2, <2>3, <2>4 DEF FilesMatch, OwnSummary, ProposalKeeps, PlantIsWhole
  <2>7. ~review[r].steady
    BY <2>1 DEF AllSound, Sound
  <2>8. AllSound'
    <3>1. Sound(review'[r], plantFile, plantNeo, proposal)
      BY <2>3, <2>7 DEF AllSound, Sound
    <3>2. QED
      BY <2>1, <2>2, <3>1 DEF AllSound
  <2>9. SteadyAlone'
    BY <2>2, <2>3, <2>7 DEF SteadyAlone, Storing
  <2>10. QED
    BY <2>5, <2>6, <2>8, <2>9
<1>5. ASSUME NEW r \in Reviewers, WriteProposal(r) PROVE PidInv'
  <2> DEFINE written == [graph |-> review[r].graph, base |-> review[r].base,
                         conflicts |-> review[r].conflicts]
             other(q) == [review[q] EXCEPT !.torn = @ \/ review[q].step = "load"]
  <2>1. /\ review[r].step = "proposal"
        /\ proposal' = written
        /\ review' = [q \in Reviewers |-> IF q = r THEN NoReview ELSE other(q)]
        /\ apart' = (summary.by # r) /\ UNCHANGED <<plantFile, plantNeo, summary>>
    BY <1>5 DEF WriteProposal
  <2>2. ASSUME NEW q \in Reviewers, q # r
        PROVE  /\ review'[q] \in Reviews
               /\ review'[q].torn = (review[q].torn \/ review[q].step = "load")
               /\ review'[q].step = review[q].step /\ review'[q].base = review[q].base
               /\ review'[q].graph = review[q].graph /\ review'[q].todo = review[q].todo
               /\ review'[q].conflicts = review[q].conflicts
               /\ review'[q].allow = review[q].allow /\ review'[q].steady = review[q].steady
               /\ review'[q].of = review[q].of
    <3>1. review[q] \in Reviews /\ review'[q] = other(q)
      BY <2>1, <2>2, ReviewFields
    <3>2. QED
      BY <3>1 DEF Reviews
  <2>3. review' \in [Reviewers -> Reviews] /\ review'[r] = NoReview
    BY <2>1, <2>2, NoReviewType
  <2>4. written \in Proposals /\ written.conflicts = review[r].conflicts
        /\ written.base = review[r].base /\ written.graph = review[r].graph
    BY ReviewFields DEF Proposals
  <2> HIDE DEF written, other
  <2>5. apart' \in BOOLEAN /\ (~apart' => summary.by = r)
    BY <2>1
  <2>6. PidTypeOK'
    BY <2>1, <2>3, <2>4, <2>5 DEF PidTypeOK, Reviews
  <2>7. FilesMatch'
    BY <2>1, <2>4, <2>5 DEF FilesMatch, OwnSummary
  <2>8. OwnSummary' /\ PlantIsWhole'
    BY <2>1, <2>2, <2>3, NoReviewFields DEF OwnSummary, PlantIsWhole
  <2>9. ProposalKeeps'
    BY <2>1, <2>4 DEF ProposalKeeps, AllSound, Sound
  <2>10. AllSound'
    <3> SUFFICES ASSUME NEW q \in Reviewers
                 PROVE  Sound(review'[q], plantFile, plantNeo, proposal')
      BY <2>1 DEF AllSound
    <3>1. CASE q = r
      BY <2>3, <3>1, EmptyIsSound
    <3>2. CASE q # r
      <4>1. Sound(review[q], plantFile, plantNeo, proposal)
        BY DEF AllSound
      <4>2. QED
        BY <2>2, <3>2, <4>1 DEF Sound
    <3>3. QED
      BY <3>1, <3>2
  <2>11. SteadyAlone'
    BY <2>2, <2>3, NoReviewFields DEF SteadyAlone, Storing
  <2>12. QED
    BY <2>6, <2>7, <2>8, <2>9, <2>10, <2>11
<1>6. ASSUME NEW r \in Reviewers, NEW allow \in BOOLEAN, LoadSummary(r, allow) PROVE PidInv'
  <2> DEFINE v == [NoReview EXCEPT !.step = "load", !.conflicts = summary.conflicts,
                                   !.allow = allow, !.torn = apart]
  <2>1. review' = [review EXCEPT ![r] = v]
        /\ UNCHANGED <<plantFile, plantNeo, summary, proposal, apart>>
    BY <1>6 DEF LoadSummary
  <2>2. v \in Reviews
    BY NoReviewType DEF NoReview, Reviews, ReviewSteps, PidTypeOK
  <2>3. /\ v.step = "load" /\ v.steady = FALSE /\ v.base = None /\ v.torn = apart
        /\ v.conflicts = summary.conflicts
    BY DEF NoReview
  <2> HIDE DEF v
  <2>4. Sound(v, plantFile, plantNeo', proposal)
    BY <2>1, <2>3 DEF Sound, FilesMatch
  <2>5. QED
    BY <1>0, <2>1, <2>2, <2>3, <2>4, ReviewOnly
<1>7. ASSUME NEW r \in Reviewers, LoadProposal(r) PROVE PidInv'
  <2> DEFINE v == Loaded(r)
             g == Accepted(proposal.graph)
  <2>1. /\ review[r].step = "load" /\ proposal # None
        /\ review[r].conflicts => review[r].allow
        /\ review' = [review EXCEPT ![r] = v]
        /\ UNCHANGED <<plantFile, plantNeo, summary, proposal, apart>>
    BY <1>7 DEF LoadProposal
  <2>2. g \in Graphs /\ Whole(g) /\ Nodes(g) = Nodes(proposal.graph)
    <3>1. proposal.graph \in Graphs
      BY <2>1, ProposalFields
    <3>2. QED
      BY <3>1, AcceptedType, AcceptedWhole
  <2>3. /\ v \in Reviews /\ v.step = "store" /\ v.base = proposal.base /\ v.graph = g
        /\ v.conflicts = proposal.conflicts /\ v.allow = review[r].allow
        /\ v.torn = review[r].torn /\ v.steady = review[r].steady
    <3>1. review[r] \in Reviews /\ proposal.conflicts \in BOOLEAN /\ proposal.base \in Bases
      BY <2>1, ReviewFields, ProposalFields
    <3>2. QED
      BY <2>2, <3>1, ZenonT(60) DEF Loaded, Reviews, ReviewSteps
  <2> HIDE DEF v, g
  <2>4. v.base # None => Keeps(v.base, v.graph)
    BY <2>1, <2>2, <2>3 DEF ProposalKeeps, Keeps
  <2>5. ~v.torn => v.conflicts = review[r].conflicts
    BY <2>1, <2>3 DEF AllSound, Sound
  <2>6. ~v.steady
    BY <2>1, <2>3 DEF AllSound, Sound
  <2>7. Sound(v, plantFile, plantNeo', proposal)
    BY <2>1, <2>2, <2>3, <2>4, <2>5, <2>6, SMTT(60) DEF Sound
  <2>8. QED
    BY <1>0, <2>1, <2>3, <2>6, <2>7, ReviewOnly
<1>8. ASSUME NEW r \in Reviewers, WriteGraphFile(r) PROVE PidInv'
  <2> DEFINE alone == /\ review[r].base # None /\ review[r].base = Nodes(PlantServed)
                      /\ \A p \in Reviewers \ {r} : ~Storing(p)
             v == [NoReview EXCEPT
                     !.step = "clear", !.graph = review[r].graph, !.base = review[r].base,
                     !.todo = Nodes(review[r].graph), !.ties = review[r].graph.edges,
                     !.steady = alone]
             other(q) == [review[q] EXCEPT !.steady = FALSE]
  <2>1. /\ review[r].step = "store" /\ plantFile' = review[r].graph
        /\ review' = [q \in Reviewers |-> IF q = r THEN v ELSE other(q)]
        /\ UNCHANGED <<plantNeo, summary, proposal, apart>>
    BY <1>8 DEF WriteGraphFile
  <2>2. alone \in BOOLEAN
    OBVIOUS
  <2>3. review[r].graph \in Graphs /\ review[r].base \in Bases
        /\ Nodes(review[r].graph) \in SUBSET Tags /\ review[r].graph.edges \in SUBSET Ties
    BY ReviewFields, GraphFields
  <2> HIDE DEF alone
  <2>4. /\ v \in Reviews /\ v.step = "clear" /\ v.base = review[r].base
        /\ v.graph = review[r].graph /\ v.todo = Nodes(review[r].graph) /\ v.steady = alone
    BY <2>2, <2>3, NoReviewType DEF NoReview, Reviews, ReviewSteps
  <2>5. ASSUME NEW q \in Reviewers, q # r
        PROVE  /\ review'[q] \in Reviews /\ review'[q].steady = FALSE
               /\ review'[q].torn = review[q].torn
               /\ review'[q].step = review[q].step /\ review'[q].base = review[q].base
               /\ review'[q].graph = review[q].graph /\ review'[q].todo = review[q].todo
               /\ review'[q].conflicts = review[q].conflicts
               /\ review'[q].allow = review[q].allow /\ review'[q].of = review[q].of
    <3>1. review[q] \in Reviews /\ review'[q] = other(q)
      BY <2>1, <2>5, ReviewFields
    <3>2. QED
      BY <3>1 DEF Reviews
  <2>6. review'[r] = v
    BY <2>1
  <2> HIDE DEF v, other
  <2>7. review' \in [Reviewers -> Reviews]
    BY <2>1, <2>4, <2>5, <2>6
  <2>8. PidTypeOK'
    BY <2>1, <2>3, <2>7 DEF PidTypeOK, Reviews
  <2>9. FilesMatch' /\ OwnSummary' /\ ProposalKeeps'
    BY <2>1, <2>4, <2>5, <2>6, ZenonT(60) DEF FilesMatch, OwnSummary, ProposalKeeps
  <2>10. PlantIsWhole'
    BY <2>1 DEF PlantIsWhole, AllSound, Sound
  <2>11. AllSound'
    <3> SUFFICES ASSUME NEW q \in Reviewers
                 PROVE  Sound(review'[q], plantFile', plantNeo, proposal)
      BY <2>1 DEF AllSound
    <3>1. CASE q = r
      <4>1. alone => review[r].base # None /\ (plantNeo = NoGraph \/ Nodes(plantNeo) = review[r].base)
        BY DEF alone, PlantServed
      <4>2. review[r].base # None => Keeps(review[r].base, review[r].graph)
        BY DEF AllSound, Sound
      <4>3. QED
        BY <2>1, <2>4, <2>6, <3>1, <4>1, <4>2 DEF Sound
    <3>2. CASE q # r
      <4>1. Sound(review[q], plantFile, plantNeo, proposal)
        BY DEF AllSound
      <4>2. QED
        BY <2>5, <3>2, <4>1 DEF Sound
    <3>3. QED
      BY <3>1, <3>2
  <2>12. SteadyAlone'
    BY <2>4, <2>5, <2>6, ZenonT(60) DEF SteadyAlone, Storing, alone
  <2>13. QED
    BY <2>8, <2>9, <2>10, <2>11, <2>12, ZenonT(60)
<1>9. ASSUME NEW r \in Reviewers, ClearPlant(r) PROVE PidInv'
  <2> DEFINE v == [review[r] EXCEPT !.step = "merge"]
  <2>1. /\ review[r].step = "clear" /\ plantNeo' = NoGraph
        /\ review' = [review EXCEPT ![r] = v]
        /\ UNCHANGED <<plantFile, summary, proposal, apart>>
    BY <1>9 DEF ClearPlant
  <2>6. review[r] \in Reviews
    BY ReviewFields
  <2>2. /\ v \in Reviews /\ v.step = "merge" /\ v.steady = review[r].steady
        /\ v.todo = review[r].todo /\ v.graph = review[r].graph /\ v.base = review[r].base
    BY <2>6, ZenonT(60) DEF Reviews, ReviewSteps
  <2> HIDE DEF v
  <2>3. review[r].steady => review[r].todo = Nodes(review[r].graph)
    BY <2>1 DEF AllSound, Sound
  <2>4. Sound(v, plantFile, plantNeo', proposal)
    <3>1. Sound(review[r], plantFile, plantNeo, proposal)
      BY DEF AllSound
    <3>2. Nodes(plantNeo') = {}
      BY <2>1, EmptyGraph
    <3>3. QED
      BY <2>1, <2>2, <2>3, <3>1, <3>2 DEF Sound
  <2>5. QED
    BY <2>1, <2>2, <2>4, NoReviewType, EmptyGraph, ReviewOnly DEF Storing
<1>10. ASSUME NEW r \in Reviewers, MergeDevice(r) PROVE PidInv'
  <2>1. /\ review[r].step = "merge"
        /\ UNCHANGED <<plantFile, summary, proposal, apart>>
    BY <1>10 DEF MergeDevice
  <2>2. PICK t \in review[r].todo :
            /\ plantNeo' = [plantNeo EXCEPT !.nodes[t] = review[r].graph.nodes[t]]
            /\ review' = [review EXCEPT ![r].todo = @ \ {t}]
    BY <1>10 DEF MergeDevice
  <2> DEFINE v == [review[r] EXCEPT !.todo = @ \ {t}]
  <2>3. /\ v \in Reviews /\ v.step = "merge" /\ v.steady = review[r].steady
        /\ v.todo = review[r].todo \ {t} /\ v.graph = review[r].graph
        /\ v.base = review[r].base
    BY <2>1, ReviewFields DEF Reviews, ReviewSteps
  <2>4. review' = [review EXCEPT ![r] = v]
    BY <2>2
  <2> HIDE DEF v
  <2>5. Sound(review[r], plantFile, plantNeo, proposal)
    BY DEF AllSound
  <2>6. t \in Nodes(review[r].graph) /\ review[r].graph \in Graphs
    BY <2>1, <2>5, ReviewFields DEF Sound
  <2>7. plantNeo' \in Graphs /\ Nodes(plantNeo') = Nodes(plantNeo) \cup {t}
        /\ plantNeo'.edges = plantNeo.edges
    <3>1. t \in Tags /\ review[r].graph.nodes[t] \in Status /\ review[r].graph.nodes[t] # "absent"
      BY <2>6 DEF Nodes, Graphs
    <3>2. plantNeo'.nodes = [plantNeo.nodes EXCEPT ![t] = review[r].graph.nodes[t]]
          /\ plantNeo'.edges = plantNeo.edges /\ plantNeo' \in Graphs
      BY <1>0, <2>2, <3>1 DEF Graphs
    <3>3. plantNeo.nodes \in [Tags -> Status]
      BY <1>0, GraphFields
    <3>4. QED
      BY <3>1, <3>2, <3>3 DEF Nodes
  <2>8. Whole(plantNeo')
    BY <1>0, <2>7 DEF Whole
  <2>9. review[r].steady => Nodes(plantNeo') = Nodes(v.graph) \ v.todo
    BY <2>1, <2>2, <2>3, <2>5, <2>6, <2>7 DEF Sound
  <2>10. Sound(v, plantFile, plantNeo', proposal)
    BY <2>1, <2>3, <2>5, <2>9 DEF Sound
  <2>11. QED
    BY <2>1, <2>3, <2>4, <2>7, <2>8, <2>10, ReviewOnly DEF Storing
<1>11. ASSUME NEW r \in Reviewers, MergeLink(r) PROVE PidInv'
  <2>1. /\ review[r].step = "merge" /\ review[r].todo = {}
        /\ UNCHANGED <<plantFile, summary, proposal, apart>>
    BY <1>11 DEF MergeLink
  <2>2. PICK l \in review[r].ties :
            /\ plantNeo' = IF {l[1], l[2]} \subseteq Nodes(plantNeo)
                           THEN [plantNeo EXCEPT !.edges = @ \cup {l}] ELSE plantNeo
            /\ review' = [review EXCEPT ![r].ties = @ \ {l}]
    BY <1>11 DEF MergeLink
  <2> DEFINE v == [review[r] EXCEPT !.ties = @ \ {l}]
  <2>3. /\ v \in Reviews /\ v.step = "merge" /\ v.steady = review[r].steady
        /\ v.todo = review[r].todo /\ v.graph = review[r].graph /\ v.base = review[r].base
    BY <2>1, ReviewFields DEF Reviews, ReviewSteps
  <2>4. review' = [review EXCEPT ![r] = v]
    BY <2>2
  <2> HIDE DEF v
  <2>5. Sound(review[r], plantFile, plantNeo, proposal)
    BY DEF AllSound
  <2>6. plantNeo' \in Graphs /\ Nodes(plantNeo') = Nodes(plantNeo) /\ Whole(plantNeo')
    <3>1. CASE plantNeo' = plantNeo
      BY <1>0, <3>1
    <3>2. CASE {l[1], l[2]} \subseteq Nodes(plantNeo)
               /\ plantNeo' = [plantNeo EXCEPT !.edges = @ \cup {l}]
      <4>1. l \in Ties
        BY ReviewFields
      <4>2. plantNeo' \in Graphs /\ plantNeo'.nodes = plantNeo.nodes
            /\ plantNeo'.edges = plantNeo.edges \cup {l}
        BY <1>0, <3>2, <4>1 DEF Graphs, Links
      <4>3. QED
        BY <1>0, <3>2, <4>2 DEF Nodes, Whole
    <3>3. QED
      BY <2>2, <3>1, <3>2
  <2>7. Sound(v, plantFile, plantNeo', proposal)
    BY <2>1, <2>3, <2>5, <2>6 DEF Sound
  <2>8. QED
    BY <2>1, <2>3, <2>4, <2>6, <2>7, ReviewOnly DEF Storing
<1>12. ASSUME NEW r \in Reviewers, ReviewEnds(r) PROVE PidInv'
  <2>1. review' = [review EXCEPT ![r] = NoReview]
        /\ UNCHANGED <<plantFile, plantNeo, summary, proposal, apart>>
    BY <1>12 DEF ReviewEnds
  <2>2. Sound(NoReview, plantFile, plantNeo', proposal)
    BY EmptyIsSound
  <2>3. QED
    BY <1>0, <2>1, <2>2, NoReviewType, NoReviewFields, ReviewOnly
<1>13. QED
  BY <1>1, <1>2, <1>3, <1>4, <1>5, <1>6, <1>7, <1>8, <1>9, <1>10, <1>11, <1>12 DEF PidNext

LEMMA PidInvHolds == PidSpec => []PidInv
<1>1. PidInit => PidInv
  <2> SUFFICES ASSUME PidInit PROVE PidInv
    OBVIOUS
  <2>1. PidTypeOK
    BY NoReviewType DEF PidInit, PidTypeOK, Reviews
  <2>2. FilesMatch /\ OwnSummary /\ ProposalKeeps
    BY NoReviewFields DEF PidInit, FilesMatch, OwnSummary, ProposalKeeps
  <2>3. PlantIsWhole
    BY EmptyGraph DEF PidInit, PlantIsWhole
  <2>4. AllSound
    BY EmptyIsSound DEF PidInit, AllSound
  <2>5. SteadyAlone
    BY NoReviewFields DEF PidInit, SteadyAlone
  <2>6. QED
    BY <2>1, <2>2, <2>3, <2>4, <2>5 DEF PidInv
<1>2. ASSUME PidInv, UNCHANGED pidVars PROVE PidInv'
  BY <1>2 DEF PidInv, PidTypeOK, FilesMatch, OwnSummary, ProposalKeeps, PlantIsWhole,
              AllSound, SteadyAlone, Storing, Sound, pidVars
<1>3. PidInv /\ [PidNext]_pidVars => PidInv'
  BY <1>2, PidStepInv
<1>4. QED
  BY <1>1, <1>3, PTL DEF PidSpec

\* Every variable of reconciliation keeps its type.
THEOREM PidTypes == PidSpec => []PidTypeOK
<1>1. PidInv => PidTypeOK
  BY DEF PidInv
<1>2. QED
  BY PidInvHolds, <1>1, PTL

\* A proposal with conflicts is stored only by a request that allows them, for any tags,
\* datasets and number of requests, unless the two files it read, one after the other, may
\* be of different reconciliations.
THEOREM AllowedConflicts == PidSpec => []ConflictsAreAllowed
<1>1. PidInv => ConflictsAreAllowed
  BY DEF PidInv, AllSound, Sound, ConflictsAreAllowed
<1>2. QED
  BY PidInvHolds, <1>1, PTL

\* A step takes a request that stores to idle only by ending it, and leaves the graph.
LEMMA EndsByItself ==
    ASSUME PidInv, PidNext, NEW r \in Reviewers, Storing(r), review'[r].step = "idle"
    PROVE  UNCHANGED <<plantFile, plantNeo>>
<1>1. PICK q \in Reviewers :
        \/ \E d \in Datasets : Reconcile(q, d)
        \/ \E allow \in BOOLEAN : LoadSummary(q, allow)
        \/ \E g \in Parsed : StoreParsed(q, g)
        \/ LookFurther(q) \/ WriteSummary(q) \/ WriteProposal(q) \/ LoadProposal(q)
        \/ WriteGraphFile(q) \/ ClearPlant(q) \/ MergeDevice(q) \/ MergeLink(q)
        \/ ReviewEnds(q)
  BY DEF PidNext
<1>2. review \in [Reviewers -> Reviews] /\ review[r].step \in {"clear", "merge"}
  BY DEF PidInv, PidTypeOK, Reviews, Storing
<1>3. CASE WriteGraphFile(q)
  <2>1. q # r
    BY <1>2, <1>3 DEF WriteGraphFile
  <2>2. review'[r] = [review[r] EXCEPT !.steady = FALSE]
    BY <1>3, <2>1 DEF WriteGraphFile
  <2>3. QED
    BY <1>2, <2>2 DEF Reviews
<1>4. CASE ClearPlant(q)
  <2>1. review'[r].step \in {"clear", "merge"}
    BY <1>2, <1>4 DEF ClearPlant, Reviews
  <2>2. QED
    BY <2>1
<1>5. CASE MergeDevice(q)
  <2>1. review'[r].step \in {"clear", "merge"}
    BY <1>2, <1>5 DEF MergeDevice, Reviews
  <2>2. QED
    BY <2>1
<1>6. CASE MergeLink(q)
  <2>1. review'[r].step \in {"clear", "merge"}
    BY <1>2, <1>6 DEF MergeLink, Reviews
  <2>2. QED
    BY <2>1
<1>7. QED
  BY <1>1, <1>3, <1>4, <1>5, <1>6 DEF Reconcile, LoadSummary, StoreParsed, LookFurther,
     WriteSummary, WriteProposal, LoadProposal, ReviewEnds

\* What is served when a request that stored alone ends.
LEMMA StoredIsServed ==
    ASSUME PidInv, NEW r \in Reviewers, Storing(r), review[r].steady,
           review[r].step = "merge" => review[r].todo \in {{}, Nodes(review[r].graph)}
    PROVE  Keeps(review[r].base, PlantServed)
<1>1. Sound(review[r], plantFile, plantNeo, proposal) /\ Whole(plantNeo) /\ plantNeo \in Graphs
  BY DEF PidInv, AllSound, PlantIsWhole, PidTypeOK
<1>2. Keeps(review[r].base, plantFile) /\ plantFile = review[r].graph
  BY <1>1 DEF Sound
<1>3. CASE plantNeo = NoGraph
  BY <1>2, <1>3 DEF PlantServed
<1>4. CASE plantNeo # NoGraph /\ review[r].step = "clear"
  <2>1. Nodes(plantNeo) = review[r].base /\ PlantServed = plantNeo
    BY <1>1, <1>4 DEF Sound, PlantServed
  <2>2. QED
    BY <2>1 DEF Keeps
<1>5. CASE plantNeo # NoGraph /\ review[r].step = "merge"
  <2>1. Nodes(plantNeo) = Nodes(review[r].graph) \ review[r].todo /\ PlantServed = plantNeo
    BY <1>1, <1>5 DEF Sound, PlantServed
  <2>2. Nodes(plantNeo) # {}
    BY <1>1, <1>5, NothingThere
  <2>3. Nodes(plantNeo) = Nodes(review[r].graph)
    BY <1>5, <2>1, <2>2
  <2>4. QED
    BY <1>2, <2>1, <2>3 DEF Keeps
<1>6. QED
  BY <1>3, <1>4, <1>5 DEF Storing

\* However an update ends that stored alone over a graph with the devices its proposal was
\* made from, the graph that is served has them, unless it ended among the devices it was
\* giving to Neo4j.
THEOREM DevicesAreKept == PidSpec => ApplyKeepsDevices
<1>1. PidInv /\ [PidNext]_pidVars =>
        [\A r \in Reviewers :
            /\ Storing(r) /\ review'[r].step = "idle" /\ review[r].steady
            /\ review[r].step = "merge" =>
                    review[r].todo \in {{}, Nodes(review[r].graph)}
            => Normal(review[r].base) \subseteq Normal(Nodes(PlantServed'))]_pidVars
  <2> SUFFICES ASSUME PidInv, PidNext, NEW r \in Reviewers,
                      Storing(r), review'[r].step = "idle", review[r].steady,
                      review[r].step = "merge" =>
                          review[r].todo \in {{}, Nodes(review[r].graph)}
               PROVE  Normal(review[r].base) \subseteq Normal(Nodes(PlantServed'))
    OBVIOUS
  <2>1. PlantServed' = PlantServed
    BY EndsByItself DEF PlantServed
  <2>2. Keeps(review[r].base, PlantServed)
    BY StoredIsServed
  <2>3. QED
    BY <2>1, <2>2 DEF Keeps
<1>2. QED
  BY PidInvHolds, <1>1, PTL DEF PidSpec, ApplyKeepsDevices

-----------------------------------------------------------------------------
(***************************************************************************)
(* Generating logic.                                                       *)
(***************************************************************************)
Steps == {"idle", "discover", "store loops", "render", "write", "number", "insert", "rules"}
GenType ==
    [step : Steps, detect : BOOLEAN, of : {None} \cup Designs, found : SUBSET LoopTags,
     todo : SUBSET (LoopTags \cup Files), refused : BOOLEAN, number : Nat, run : Nat,
     alone : BOOLEAN]
RunType ==
    [number : Nat, of : Designs, status : {"no_input", "completed"}, rules : SUBSET LoopTags]

LogicTypeOK ==
    /\ plant \in Designs
    /\ loops \in [LoopTags -> {None} \cup Designs]
    /\ st \in [Files -> {None} \cup Designs]
    /\ bundled \in BOOLEAN /\ torn \in BOOLEAN
    /\ runs \in Seq(RunType)
    /\ gen \in [Generators -> GenType]
    /\ \A g \in Generators :
        /\ ~AtStep(g, "idle") => gen[g].of \in Designs
        /\ AtStep(g, "store loops") \/ AtStep(g, "rules") => gen[g].todo \subseteq LoopTags

\* No number is infinite: there is one above them all.
Bounded == \E n \in Nat : \A i \in DOMAIN runs : runs[i].number <= n

\* The generation that began with no other request and no new plant since.
Solo(g) == gen[g].alone /\ ~AtStep(g, "idle")

\* What the stores hold when loops, or files, of a design are stored but for those to do.
LoopsIn(table, d, todo) ==
    \A t \in LoopTags : /\ t \in LoopsOf[d] \ todo => table[t] = d
                        /\ t \notin LoopsOf[d] => table[t] = None
RenderedFor(d) == FilesOf[d] \cup {"main"}
FilesIn(folder, d, todo) ==
    \A f \in Files : /\ f \in RenderedFor(d) \ todo => folder[f] = d
                     /\ f \notin RenderedFor(d) => folder[f] = None

Above(rows, n, last) == \A i \in 1..last : rows[i].number < n

\* How far it has come.
LoopsAreIn(g) ==
    AtStep(g, "render") \/ AtStep(g, "write") \/ AtStep(g, "rules")
        \/ ((AtStep(g, "number") \/ AtStep(g, "insert")) /\ ~gen[g].refused)
FilesAreIn(g) ==
    AtStep(g, "rules") \/ ((AtStep(g, "number") \/ AtStep(g, "insert")) /\ ~gen[g].refused)

Progress(g) ==
    LET d == gen[g].of
        todo == gen[g].todo IN
    /\ d = plant
    /\ AtStep(g, "store loops") \/ (LoopsAreIn(g) /\ ~AtStep(g, "rules")) => gen[g].found = LoopsOf[d]
    /\ AtStep(g, "store loops") => todo \subseteq LoopsOf[d] /\ LoopsIn(loops, d, todo)
    /\ LoopsAreIn(g) => LoopsIn(loops, d, {})
    /\ AtStep(g, "write") => todo \subseteq RenderedFor(d) /\ FilesIn(st, d, todo)
    /\ FilesAreIn(g) => FilesIn(st, d, {})
    /\ AtStep(g, "insert") => Above(runs, gen[g].number, Len(runs))
    /\ AtStep(g, "rules") =>
        /\ runs # <<>> /\ gen[g].run = Len(runs)
        /\ Newest.of = d /\ Newest.status = "completed"
        /\ todo \subseteq LoopsOf[d] /\ Newest.rules = LoopsOf[d] \ todo
        /\ Above(runs, Newest.number, Len(runs) - 1)

\* A generation that is alone is the only request, and the runs are torn while it works; once
\* they are not, nothing works and the newest run is whole.
LogicInv ==
    /\ LogicTypeOK
    /\ Bounded
    /\ \A g \in Generators : Solo(g) => torn /\ Busy = {g} /\ Progress(g)
    /\ ~torn => Busy = {}
    /\ NewestRunIsWhole

LEMMA GenIdleType == GenIdle \in GenType /\ GenIdle.step = "idle" /\ ~GenIdle.alone
  BY DEF GenIdle, GenType, Steps

LEMMA LogicInitInv == LogicInit => LogicInv
<1> SUFFICES ASSUME LogicInit PROVE LogicInv
  OBVIOUS
<1> USE DEF LogicInit
<1>1. LogicTypeOK
  <2>1. runs \in Seq(RunType)
    BY EmptySeq
  <2>2. gen \in [Generators -> GenType] /\ \A g \in Generators : gen[g].step = "idle"
    BY GenIdleType
  <2>3. QED
    BY <2>1, <2>2 DEF LogicTypeOK, AtStep
<1>2. Bounded
  BY DEF Bounded
<1>3. \A g \in Generators : AtStep(g, "idle")
  BY GenIdleType DEF AtStep
<1>4. QED
  BY <1>1, <1>2, <1>3 DEF LogicInv, Solo, NewestRunIsWhole

LEMMA RunsFields ==
    ASSUME LogicTypeOK
    PROVE  /\ DOMAIN runs = 1..Len(runs) /\ Len(runs) \in Nat
           /\ \A i \in DOMAIN runs :
                /\ runs[i] \in RunType /\ runs[i].number \in Nat
                /\ runs[i].of \in Designs /\ runs[i].rules \in SUBSET LoopTags
           /\ runs # <<>> => Len(runs) \in DOMAIN runs
<1>1. DOMAIN runs = 1..Len(runs) /\ Len(runs) \in Nat /\ runs \in [1..Len(runs) -> RunType]
  BY LenProperties DEF LogicTypeOK
<1>2. \A i \in DOMAIN runs : runs[i] \in RunType
  BY <1>1
<1>3. runs # <<>> => Len(runs) \in DOMAIN runs
  <2>1. \A s \in Seq(RunType) : s # << >> => Len(s) \in Nat \ {0}
    BY EmptySeq, Zenon
  <2>2. runs # <<>> => Len(runs) \in Nat \ {0}
    BY <2>1 DEF LogicTypeOK
  <2>3. QED
    BY <1>1, <2>2
<1>4. QED
  BY <1>1, <1>2, <1>3 DEF RunType

\* The next number is above all: there is a greatest, the least bound.
LEMMA NextIsAbove ==
    ASSUME LogicTypeOK, Bounded
    PROVE  NextNumber \in Nat /\ Above(runs, NextNumber, Len(runs))
<1>1. /\ \A i \in DOMAIN runs : runs[i].number \in Nat
      /\ DOMAIN runs = 1..Len(runs) /\ Len(runs) \in Nat
  BY RunsFields
<1>2. CASE runs = <<>>
  BY <1>1, <1>2 DEF NextNumber, Above
<1>3. CASE runs # <<>>
  <2> DEFINE Bounds == {n \in Nat : \A m \in Numbers : m <= n}
  <2>1. Numbers \in SUBSET Nat /\ Numbers # {}
    <3>1. 1 \in DOMAIN runs
      <4>1. Len(runs) \in DOMAIN runs
        BY <1>3, RunsFields
      <4>2. QED
        BY <4>1, <1>1
    <3>2. QED
      BY <3>1, <1>1 DEF Numbers
  <2>2. Bounds # {}
    BY DEF Bounded, Numbers
  <2>3. PICK b \in Bounds : \A c \in Bounds : b <= c
    BY <2>2, Least
  <2>4. b \in Numbers
    <3>1. SUFFICES ASSUME b \notin Numbers PROVE FALSE
      OBVIOUS
    <3>2. PICK m \in Numbers : m <= b
      BY <2>1, <2>3
    <3>3. b - 1 \in Nat /\ \A k \in Numbers : k <= b - 1
      BY <2>1, <2>3, <3>1, <3>2
    <3>4. b <= b - 1
      BY <2>3, <3>3
    <3>5. QED
      BY <3>4, <2>3
  <2>5. \E n \in Numbers : \A m \in Numbers : m <= n
    BY <2>3, <2>4
  <2> DEFINE top == CHOOSE n \in Numbers : \A m \in Numbers : m <= n
  <2>6. top \in Numbers /\ \A m \in Numbers : m <= top
    BY <2>5
  <2>7. NextNumber = 1 + top
    BY <1>3 DEF NextNumber
  <2> HIDE DEF top
  <2>8. \A i \in DOMAIN runs : runs[i].number \in Numbers
    BY DEF Numbers
  <2>9. QED
    BY <1>1, <2>1, <2>6, <2>7, <2>8 DEF Above
<1>4. QED
  BY <1>2, <1>3

-----------------------------------------------------------------------------
LEMMA GenWriteType ==
    ASSUME NEW r \in GenType
    PROVE  /\ \A step \in Steps : /\ [r EXCEPT !.step = step] \in GenType
                                  /\ \A todo \in SUBSET (LoopTags \cup Files) :
                                        [r EXCEPT !.step = step, !.todo = todo] \in GenType
                                  /\ \A refused \in BOOLEAN :
                                        [r EXCEPT !.step = step, !.refused = refused] \in GenType
                                  /\ \A n \in Nat : [r EXCEPT !.step = step, !.number = n] \in GenType
           /\ \A todo \in SUBSET (LoopTags \cup Files) : [r EXCEPT !.todo = todo] \in GenType
           /\ [r EXCEPT !.alone = FALSE] \in GenType
  BY DEF GenType

LEMMA GenFields ==
    ASSUME LogicTypeOK, NEW g \in Generators
    PROVE  /\ gen[g] \in GenType /\ gen[g].step \in Steps /\ gen[g].of \in {None} \cup Designs
           /\ gen[g].todo \in SUBSET (LoopTags \cup Files) /\ gen[g].found \in SUBSET LoopTags
           /\ gen[g].refused \in BOOLEAN /\ gen[g].detect \in BOOLEAN /\ gen[g].alone \in BOOLEAN
           /\ gen[g].number \in Nat /\ gen[g].run \in Nat
  BY DEF LogicTypeOK, GenType

\* A step that leaves one request where its type says, with the stores as they were.
LEMMA LogicStoresType ==
    ASSUME LogicTypeOK, NEW g \in Generators, NEW r \in GenType, gen' = [gen EXCEPT ![g] = r],
           r.step # "idle" => r.of \in Designs,
           r.step \in {"store loops", "rules"} => r.todo \subseteq LoopTags,
           plant' \in Designs, loops' \in [LoopTags -> {None} \cup Designs],
           st' \in [Files -> {None} \cup Designs], bundled' \in BOOLEAN, torn' \in BOOLEAN,
           runs' \in Seq(RunType)
    PROVE  LogicTypeOK'
<1>1. gen' \in [Generators -> GenType]
  BY DEF LogicTypeOK
<1>2. \A h \in Generators : gen'[h] = IF h = g THEN r ELSE gen[h]
  BY DEF LogicTypeOK
<1>3. QED
  BY <1>1, <1>2 DEF LogicTypeOK, AtStep

\* A rule goes into one run.
LEMMA RuleType ==
    ASSUME LogicTypeOK, NEW k \in Nat, NEW t \in LoopTags,
           runs' = [runs EXCEPT ![k].rules = @ \cup {t}]
    PROVE  /\ runs' \in Seq(RunType) /\ DOMAIN runs' = DOMAIN runs /\ Len(runs') = Len(runs)
           /\ \A i \in DOMAIN runs :
                /\ runs'[i].number = runs[i].number /\ runs'[i].of = runs[i].of
                /\ runs'[i].status = runs[i].status
                /\ runs'[i].rules = IF i = k THEN runs[i].rules \cup {t} ELSE runs[i].rules
<1>1. /\ runs \in Seq(RunType) /\ DOMAIN runs = 1..Len(runs) /\ Len(runs) \in Nat
      /\ \A i \in DOMAIN runs : runs[i] \in RunType
  BY RunsFields DEF LogicTypeOK
<1>2. CASE k \in DOMAIN runs
  <2> DEFINE e == [runs[k] EXCEPT !.rules = @ \cup {t}]
  <2>1. /\ e \in RunType /\ e.number = runs[k].number /\ e.of = runs[k].of
        /\ e.status = runs[k].status /\ e.rules = runs[k].rules \cup {t}
    BY <1>1, <1>2 DEF RunType
  <2>2. runs' = [runs EXCEPT ![k] = e]
    OBVIOUS
  <2> HIDE DEF e
  <2>3. /\ runs' \in Seq(RunType) /\ Len(runs') = Len(runs)
        /\ \A j \in 1..Len(runs) : runs'[j] = IF j = k THEN e ELSE runs[j]
    <3>1. runs \in [1..Len(runs) -> RunType]
      BY <1>1
    <3>2. /\ runs' \in [1..Len(runs) -> RunType]
          /\ \A j \in 1..Len(runs) : runs'[j] = IF j = k THEN e ELSE runs[j]
      BY <3>1, <1>1, <1>2, <2>1, <2>2
    <3>3. runs' \in Seq(RunType)
      BY <3>2, <1>1, SeqDef
    <3>4. Len(runs') \in Nat /\ DOMAIN runs' = 1..Len(runs') /\ DOMAIN runs' = 1..Len(runs)
      BY <3>2, <3>3, LenProperties
    <3>5. \A a, c \in Nat : 1..a = 1..c => a = c
      <4>1. SUFFICES ASSUME NEW a \in Nat, NEW c \in Nat, 1..a = 1..c PROVE a = c
        OBVIOUS
      <4>2. (a \in 1..a \/ a = 0) /\ (c \in 1..c \/ c = 0)
        OBVIOUS
      <4>3. (a \in 1..c \/ a = 0) /\ (c \in 1..a \/ c = 0)
        BY <4>1, <4>2
      <4>4. QED
        BY <4>3
    <3>6. Len(runs') = Len(runs)
      BY <3>4, <3>5, <1>1
    <3>7. QED
      BY <3>2, <3>3, <3>6
  <2>4. DOMAIN runs' = DOMAIN runs
    BY <2>2
  <2>5. QED
    BY <1>1, <2>1, <2>3, <2>4
<1>3. CASE k \notin DOMAIN runs
  <2>1. runs' = runs
    BY <1>1, <1>3
  <2>2. QED
    BY <2>1, <1>1, <1>3
<1>4. QED
  BY <1>2, <1>3

\* Whatever a request does, it is one request, a new plant aside.
LEMMA LogicStepType ==
    ASSUME LogicTypeOK, Bounded, LogicNext
    PROVE  LogicTypeOK' /\ Bounded'
<1> USE LogicAssumption
<1>a. /\ loops \in [LoopTags -> {None} \cup Designs] /\ st \in [Files -> {None} \cup Designs]
      /\ bundled \in BOOLEAN /\ torn \in BOOLEAN /\ runs \in Seq(RunType) /\ plant \in Designs
      /\ gen \in [Generators -> GenType]
  BY DEF LogicTypeOK
<1>b. runs' = runs => Bounded'
  BY DEF Bounded
<1>1. ASSUME NEW d \in Designs, Reparse(d) PROVE LogicTypeOK' /\ Bounded'
  <2>1. gen' = [g \in Generators |-> [gen[g] EXCEPT !.alone = FALSE]]
    BY <1>1 DEF Reparse
  <2>2. \A g \in Generators : /\ [gen[g] EXCEPT !.alone = FALSE] \in GenType
                              /\ gen'[g].step = gen[g].step /\ gen'[g].of = gen[g].of
                              /\ gen'[g].todo = gen[g].todo
    <3> TAKE g \in Generators
    <3>1. gen[g] \in GenType /\ gen'[g] = [gen[g] EXCEPT !.alone = FALSE]
      BY <2>1, <1>a
    <3>2. QED
      BY <3>1 DEF GenType
  <2>3. gen' \in [Generators -> GenType]
    BY <2>1, <2>2
  <2>4. QED
    BY <1>1, <1>a, <1>b, <2>2, <2>3 DEF Reparse, LogicTypeOK, AtStep
<1>2. ASSUME NEW g \in Generators, NEW detect \in BOOLEAN, NEW refused \in BOOLEAN,
             BeginLogic(g, detect, refused)
      PROVE  LogicTypeOK' /\ Bounded'
  <2> DEFINE r == [GenIdle EXCEPT
                    !.step = IF refused THEN "number" ELSE "discover",
                    !.detect = detect, !.of = plant, !.refused = refused, !.alone = Busy = {}]
  <2>1. gen' = [h \in Generators |-> IF h # g THEN [gen[h] EXCEPT !.alone = FALSE] ELSE r]
    BY <1>2 DEF BeginLogic
  <2>2. /\ r \in GenType /\ r.of \in Designs /\ r.todo = {}
    BY <1>a DEF GenIdle, GenType, Steps
  <2>3. \A h \in Generators : /\ [gen[h] EXCEPT !.alone = FALSE] \in GenType
                              /\ h # g => /\ gen'[h].step = gen[h].step /\ gen'[h].of = gen[h].of
                                          /\ gen'[h].todo = gen[h].todo
    <3> TAKE h \in Generators
    <3> HIDE DEF r
    <3>1. gen[h] \in GenType /\ (h # g => gen'[h] = [gen[h] EXCEPT !.alone = FALSE])
      BY <2>1, <1>a
    <3>2. QED
      BY <3>1 DEF GenType
  <2> HIDE DEF r
  <2>4. gen' \in [Generators -> GenType] /\ gen'[g] = r
    BY <2>1, <2>2, <2>3
  <2>5. QED
    BY <1>2, <1>a, <1>b, <2>2, <2>3, <2>4, ZenonT(60) DEF BeginLogic, LogicTypeOK, AtStep
<1>3. ASSUME NEW g \in Generators,
             \/ DiscoverLoops(g) \/ StoreLoop(g) \/ LoopsStored(g)
             \/ RemoveFiles(g) \/ WriteSt(g)
             \/ \E refused \in BOOLEAN : JudgeSt(g, refused)
             \/ NumberRun(g) \/ InsertRun(g) \/ StoreRule(g) \/ WriteBundle(g)
             \/ LogicRaises(g)
      PROVE  LogicTypeOK' /\ Bounded'
  <2> DEFINE r == gen[g]
  <2>a. /\ r \in GenType /\ r.of \in {None} \cup Designs /\ r.todo \in SUBSET (LoopTags \cup Files)
        /\ r.found \in SUBSET LoopTags /\ r.refused \in BOOLEAN /\ r.alone \in BOOLEAN /\ r.run \in Nat
    BY GenFields, SMTT(60)
  <2>b. ~AtStep(g, "idle") /\ r.of \in Designs
    <3>1. ~AtStep(g, "idle")
      BY <1>3 DEF DiscoverLoops, StoreLoop, LoopsStored, RemoveFiles, WriteSt, JudgeSt, NumberRun,
                  InsertRun, StoreRule, WriteBundle, LogicRaises, AtStep
    <3>2. QED
      BY <3>1, ZenonT(60) DEF LogicTypeOK
  <2>c. \A step : GoTo(g, step) => gen' = [gen EXCEPT ![g] = [r EXCEPT !.step = step]]
    BY <1>a DEF GoTo
  <2>d. \A step, todo : GoWith(g, step, todo) => gen' = [gen EXCEPT ![g] = [r EXCEPT !.step = step, !.todo = todo]]
    BY <1>a DEF GoWith
  <2>e. \A x : Done(g, x) => gen' = [gen EXCEPT ![g] = [r EXCEPT !.todo = r.todo \ {x}]]
    BY <1>a DEF Done
  <2>f. LoopsOf[plant] \in SUBSET LoopTags /\ FilesOf[r.of] \in SUBSET Modules
    BY <1>a, <2>b
  <2>1. CASE DiscoverLoops(g)
    <3> DEFINE n == [r EXCEPT !.step = "store loops", !.of = IF r.detect THEN plant ELSE r.of,
                              !.found = LoopsOf[plant], !.todo = LoopsOf[plant]]
    <3>1. n \in GenType /\ n.of \in Designs /\ n.todo \subseteq LoopTags
      <4>1. PICK d \in Designs : d = IF r.detect THEN plant ELSE r.of
        BY <1>a, <2>b
      <4>2. n = [r EXCEPT !.step = "store loops", !.of = d, !.found = LoopsOf[plant], !.todo = LoopsOf[plant]]
        BY <4>1
      <4>3. QED
        BY <4>2, <2>a, <2>f DEF GenType, Steps
    <3>2. gen' = [gen EXCEPT ![g] = n]
      <4>1. PICK d : d = IF gen[g].detect THEN plant ELSE gen[g].of
        OBVIOUS
      <4>2. gen' = [gen EXCEPT ![g] = [gen[g] EXCEPT !.step = "store loops", !.of = d,
                        !.found = LoopsOf[plant], !.todo = LoopsOf[plant]]]
        BY <2>1, <4>1 DEF DiscoverLoops
      <4>3. n = [gen[g] EXCEPT !.step = "store loops", !.of = d,
                        !.found = LoopsOf[plant], !.todo = LoopsOf[plant]]
        BY <4>1
      <4>4. QED
        BY <4>2, <4>3
    <3>3. loops' \in [LoopTags -> {None} \cup Designs]
      BY <2>1, <1>a DEF DiscoverLoops
    <3> HIDE DEF n
    <3>4. LogicTypeOK'
      BY <2>1, <1>a, <3>1, <3>2, <3>3, LogicStoresType DEF DiscoverLoops
    <3>5. QED
      BY <3>4, <2>1, <1>b DEF DiscoverLoops
  <2>2. CASE StoreLoop(g)
    <3>1. PICK t \in r.todo : loops' = [loops EXCEPT ![t] = r.of] /\ Done(g, t)
      BY <2>2 DEF StoreLoop
    <3> DEFINE n == [r EXCEPT !.todo = r.todo \ {t}]
    <3>2. n \in GenType /\ n.of = r.of /\ n.step = "store loops" /\ n.todo \subseteq LoopTags
      BY <2>2, <2>a DEF GenType, StoreLoop, LogicTypeOK, AtStep
    <3>3. gen' = [gen EXCEPT ![g] = n]
      BY <3>1, <2>e
    <3>4. loops' \in [LoopTags -> {None} \cup Designs]
      BY <3>1, <1>a, <2>b
    <3> HIDE DEF n
    <3>5. LogicTypeOK'
      BY <2>2, <1>a, <2>b, <3>2, <3>3, <3>4, LogicStoresType DEF StoreLoop
    <3>6. QED
      BY <3>5, <2>2, <1>b DEF StoreLoop
  <2>3. CASE LoopsStored(g)
    <3>1. PICK n \in {GenIdle, [r EXCEPT !.step = "render"]} : gen' = [gen EXCEPT ![g] = n]
      BY <2>3, <2>c DEF LoopsStored
    <3>2. n \in GenType /\ n.step \in {"idle", "render"} /\ (n.step # "idle" => n.of \in Designs)
      BY <3>1, <2>a, <2>b, GenIdleType DEF GenType, Steps
    <3>3. LogicTypeOK'
      BY <2>3, <1>a, <3>1, <3>2, LogicStoresType DEF LoopsStored
    <3>4. QED
      BY <3>3, <2>3, <1>b DEF LoopsStored
  <2>4. CASE RemoveFiles(g)
    <3> DEFINE n == [r EXCEPT !.step = "write", !.todo = FilesOf[r.of] \cup {"main"}]
    <3>1. n \in GenType /\ n.of = r.of /\ n.step = "write"
      BY <2>a, <2>f DEF GenType, Steps, Files
    <3>2. gen' = [gen EXCEPT ![g] = n]
      BY <2>4, <2>d DEF RemoveFiles
    <3>3. st' \in [Files -> {None} \cup Designs] /\ bundled' = FALSE
      BY <2>4 DEF RemoveFiles
    <3> HIDE DEF n
    <3>4. LogicTypeOK'
      BY <2>4, <1>a, <2>b, <3>1, <3>2, <3>3, LogicStoresType DEF RemoveFiles
    <3>5. QED
      BY <3>4, <2>4, <1>b DEF RemoveFiles
  <2>5. CASE WriteSt(g)
    <3>1. PICK f \in r.todo : /\ st' = [st EXCEPT ![f] = r.of] /\ Done(g, f)
                              /\ bundled' = (bundled /\ f # "main")
      BY <2>5 DEF WriteSt
    <3> DEFINE n == [r EXCEPT !.todo = r.todo \ {f}]
    <3>2. n \in GenType /\ n.of = r.of /\ n.step = "write"
      BY <2>5, <2>a DEF GenType, WriteSt, AtStep
    <3>3. gen' = [gen EXCEPT ![g] = n]
      BY <3>1, <2>e
    <3>4. st' \in [Files -> {None} \cup Designs] /\ bundled' \in BOOLEAN
      BY <3>1, <1>a, <2>b
    <3> HIDE DEF n
    <3>5. LogicTypeOK'
      BY <2>5, <1>a, <2>b, <3>2, <3>3, <3>4, LogicStoresType DEF WriteSt
    <3>6. QED
      BY <3>5, <2>5, <1>b DEF WriteSt
  <2>6. ASSUME NEW refused \in BOOLEAN, JudgeSt(g, refused) PROVE LogicTypeOK' /\ Bounded'
    <3> DEFINE n == [r EXCEPT !.step = "number", !.refused = refused]
    <3>1. n \in GenType /\ n.of = r.of /\ n.step = "number"
      BY <2>a DEF GenType, Steps
    <3>2. gen' = [gen EXCEPT ![g] = n]
      BY <2>6 DEF JudgeSt
    <3> HIDE DEF n
    <3>3. LogicTypeOK'
      BY <2>6, <1>a, <2>b, <3>1, <3>2, LogicStoresType DEF JudgeSt
    <3>4. QED
      BY <3>3, <2>6, <1>b DEF JudgeSt
  <2>7. CASE NumberRun(g)
    <3> DEFINE n == [r EXCEPT !.step = "insert", !.number = NextNumber]
    <3>1. n \in GenType /\ n.of = r.of /\ n.step = "insert"
      BY <2>a, NextIsAbove DEF GenType, Steps
    <3>2. gen' = [gen EXCEPT ![g] = n]
      BY <2>7 DEF NumberRun
    <3> HIDE DEF n
    <3>3. LogicTypeOK'
      BY <2>7, <1>a, <2>b, <3>1, <3>2, LogicStoresType DEF NumberRun
    <3>4. QED
      BY <3>3, <2>7, <1>b DEF NumberRun
  <2>8. CASE InsertRun(g)
    <3> DEFINE row == [number |-> r.number, of |-> r.of,
                       status |-> IF r.refused THEN "no_input" ELSE "completed", rules |-> {}]
               kept == [GenIdle EXCEPT !.step = "rules", !.of = r.of, !.todo = r.found,
                                       !.run = Len(runs) + 1, !.alone = r.alone]
    <3>1. row \in RunType /\ row.number = r.number
      BY <2>b, GenFields DEF RunType
    <3>2. kept \in GenType /\ kept.of = r.of /\ kept.step = "rules" /\ kept.todo = r.found
      <4>1. PICK m \in Nat : m = Len(runs) + 1
        BY RunsFields
      <4>2. PICK todo \in SUBSET (LoopTags \cup Files) : todo = r.found
        BY <2>a
      <4>3. kept = [GenIdle EXCEPT !.step = "rules", !.of = r.of, !.todo = todo, !.run = m,
                                   !.alone = r.alone]
        BY <4>1, <4>2
      <4>4. GenIdle \in GenType
        BY GenIdleType
      <4>5. QED
        BY <4>2, <4>3, <4>4, <2>a DEF GenType, Steps
    <3>3. runs' = Append(runs, row) /\ gen' = [gen EXCEPT ![g] = IF r.refused THEN GenIdle ELSE kept]
      BY <2>8 DEF InsertRun
    <3> HIDE DEF row, kept
    <3>4. runs' \in Seq(RunType)
      BY <3>1, <3>3, <1>a
    <3>5. PICK n \in {GenIdle, kept} : gen' = [gen EXCEPT ![g] = n]
      BY <3>3
    <3>6. LogicTypeOK'
      <4>1. n \in GenType /\ (n.step # "idle" => n.of \in Designs /\ n.todo \subseteq LoopTags)
        BY <2>a, <2>b, <3>2, <3>5, GenIdleType
      <4>2. UNCHANGED <<plant, loops, st, bundled, torn>>
        BY <2>8 DEF InsertRun
      <4>3. QED
        BY <1>a, <3>4, <3>5, <4>1, <4>2, LogicStoresType
    <3>7. Bounded'
      <4>1. PICK b \in Nat : \A i \in DOMAIN runs : runs[i].number <= b
        BY DEF Bounded
      <4>2. r.number \in Nat
        BY GenFields
      <4>3. PICK c \in Nat : b <= c /\ r.number <= c
        BY <4>2
      <4>4. \A i \in DOMAIN runs' : (i \in DOMAIN runs /\ runs'[i] = runs[i]) \/ runs'[i] = row
        BY <3>1, <3>3, <1>a, RunsFields
      <4>5. \A i \in DOMAIN runs' : runs'[i].number <= c
        BY <4>1, <4>2, <4>3, <4>4, <3>1, RunsFields
      <4>6. QED
        BY <4>5 DEF Bounded
    <3>8. QED
      BY <3>6, <3>7
  <2>9. CASE StoreRule(g)
    <3>1. PICK t \in r.todo : runs' = [runs EXCEPT ![r.run].rules = @ \cup {t}] /\ Done(g, t)
      BY <2>9 DEF StoreRule
    <3>2. t \in LoopTags
      BY <2>9 DEF StoreRule, LogicTypeOK
    <3> DEFINE n == [r EXCEPT !.todo = r.todo \ {t}]
    <3>3. n \in GenType /\ n.of = r.of /\ n.step = "rules" /\ n.todo \subseteq LoopTags
      BY <2>9, <2>a DEF GenType, StoreRule, LogicTypeOK, AtStep
    <3>4. gen' = [gen EXCEPT ![g] = n]
      BY <3>1, <2>e
    <3> HIDE DEF n
    <3>5. /\ runs' \in Seq(RunType) /\ DOMAIN runs' = DOMAIN runs
          /\ \A i \in DOMAIN runs : runs'[i].number = runs[i].number
      BY <3>1, <3>2, <2>a, RuleType
    <3>6. LogicTypeOK'
      BY <2>9, <1>a, <2>b, <3>3, <3>4, <3>5, LogicStoresType DEF StoreRule
    <3>7. QED
      BY <3>5, <3>6 DEF Bounded
  <2>10. CASE WriteBundle(g)
    <3>1. st' \in [Files -> {None} \cup Designs] /\ bundled' \in BOOLEAN /\ torn' \in BOOLEAN
      BY <2>10, <1>a, <2>a, <2>b DEF WriteBundle
    <3>2. LogicTypeOK'
      BY <2>10, <1>a, <3>1, GenIdleType, LogicStoresType DEF WriteBundle
    <3>3. QED
      BY <3>2, <2>10, <1>b DEF WriteBundle
  <2>11. CASE LogicRaises(g)
    <3>1. LogicTypeOK'
      BY <2>11, <1>a, GenIdleType, LogicStoresType DEF LogicRaises
    <3>2. QED
      BY <3>1, <2>11, <1>b DEF LogicRaises
  <2>12. QED
    BY <1>3, <2>1, <2>2, <2>3, <2>4, <2>5, <2>6, <2>7, <2>8, <2>9, <2>10, <2>11
<1>4. QED
  BY <1>1, <1>2, <1>3 DEF LogicNext

-----------------------------------------------------------------------------
Works(g) ==
    \/ DiscoverLoops(g) \/ StoreLoop(g) \/ LoopsStored(g)
    \/ RemoveFiles(g) \/ WriteSt(g)
    \/ \E refused \in BOOLEAN : JudgeSt(g, refused)
    \/ NumberRun(g) \/ InsertRun(g) \/ StoreRule(g) \/ WriteBundle(g)
    \/ LogicRaises(g)

\* A request that works is alone as long as it was, and only the end of one that is alone
\* mends the runs.
LEMMA WorkFrame ==
    ASSUME LogicTypeOK, NEW g \in Generators, Works(g)
    PROVE  /\ ~AtStep(g, "idle") /\ plant' = plant
           /\ \A h \in Generators \ {g} : gen'[h] = gen[h]
           /\ gen'[g].alone = gen[g].alone \/ gen'[g] = GenIdle
           /\ torn' = torn \/ (WriteBundle(g) /\ torn' = (torn /\ ~gen[g].alone))
<1>1. gen \in [Generators -> GenType] /\ gen[g] \in GenType
  BY DEF LogicTypeOK
<1>2. CASE DiscoverLoops(g) \/ (\E refused \in BOOLEAN : JudgeSt(g, refused)) \/ NumberRun(g)
  <2>1. CASE DiscoverLoops(g)
    BY <1>1, <2>1 DEF DiscoverLoops, AtStep, GenType
  <2>2. CASE \E refused \in BOOLEAN : JudgeSt(g, refused)
    BY <1>1, <2>2 DEF JudgeSt, AtStep, GenType
  <2>3. CASE NumberRun(g)
    BY <1>1, <2>3 DEF NumberRun, AtStep, GenType
  <2>4. QED
    BY <1>2, <2>1, <2>2, <2>3
<1>3. CASE StoreLoop(g) \/ StoreRule(g) \/ WriteSt(g)
  <2>1. \A x : Done(g, x) => /\ \A h \in Generators \ {g} : gen'[h] = gen[h]
                             /\ gen'[g].alone = gen[g].alone
    BY <1>1 DEF Done, GenType
  <2>2. (\E x : Done(g, x)) /\ ~AtStep(g, "idle") /\ plant' = plant /\ torn' = torn
    BY <1>3 DEF StoreLoop, StoreRule, WriteSt, AtStep
  <2>3. QED
    BY <2>1, <2>2
<1>4. CASE LoopsStored(g) \/ RemoveFiles(g)
  <2>1. \A step : GoTo(g, step) => /\ \A h \in Generators \ {g} : gen'[h] = gen[h]
                                   /\ gen'[g].alone = gen[g].alone
    BY <1>1 DEF GoTo, GenType
  <2>2. CASE LoopsStored(g)
    BY <1>1, <2>1, <2>2 DEF LoopsStored, AtStep
  <2>3. CASE RemoveFiles(g)
    BY <1>1, <2>3 DEF RemoveFiles, GoWith, AtStep, GenType
  <2>4. QED
    BY <1>4, <2>2, <2>3
<1>5. CASE InsertRun(g)
  <2>1. \A todo, run, of : [GenIdle EXCEPT !.step = "rules", !.of = of, !.todo = todo, !.run = run,
                                           !.alone = gen[g].alone].alone = gen[g].alone
    BY DEF GenIdle
  <2>2. gen'[g].alone = gen[g].alone \/ gen'[g] = GenIdle
    BY <1>1, <1>5, <2>1 DEF InsertRun
  <2>3. QED
    BY <1>1, <1>5, <2>2 DEF InsertRun, AtStep
<1>6. CASE WriteBundle(g) \/ LogicRaises(g)
  BY <1>1, <1>6 DEF WriteBundle, LogicRaises, AtStep
<1>7. QED
  BY <1>2, <1>3, <1>4, <1>5, <1>6 DEF Works

\* What a generation has stored it has stored for good.
LEMMA ProgressStep ==
    ASSUME LogicTypeOK, Bounded, NEW g \in Generators, Works(g), Progress(g), gen'[g].step # "idle"
    PROVE  Progress(g)'
<1> USE LogicAssumption
<1> DEFINE r == gen[g]
           n == gen'[g]
<1>1. /\ gen \in [Generators -> GenType] /\ r \in GenType /\ r.of \in Designs /\ plant' = plant
      /\ loops \in [LoopTags -> {None} \cup Designs] /\ st \in [Files -> {None} \cup Designs]
      /\ r.todo \in SUBSET (LoopTags \cup Files) /\ r.of = plant /\ ~AtStep(g, "idle")
  BY WorkFrame, GenFields DEF LogicTypeOK, Progress
<1>2. CASE DiscoverLoops(g)
  <2>1. /\ n.step = "store loops" /\ n.of = plant /\ n.found = LoopsOf[plant] /\ n.todo = LoopsOf[plant]
    <3>1. r.detect => n.of = plant
      BY <1>1, <1>2 DEF DiscoverLoops, GenType
    <3>2. ~r.detect => n.of = plant
      BY <1>1, <1>2 DEF DiscoverLoops, GenType
    <3>3. QED
      BY <1>1, <1>2, <3>1, <3>2 DEF DiscoverLoops, GenType
  <2>2. LoopsIn(loops', n.of, n.todo)
    BY <1>1, <1>2, <2>1 DEF DiscoverLoops, LoopsIn
  <2>3. QED
    BY <1>1, <2>1, <2>2 DEF Progress, LoopsAreIn, FilesAreIn, AtStep
<1>3. CASE StoreLoop(g)
  <2>1. PICK t \in r.todo : loops' = [loops EXCEPT ![t] = r.of] /\ Done(g, t)
    BY <1>3 DEF StoreLoop
  <2>2. n.step = "store loops" /\ n.of = r.of /\ n.found = r.found /\ n.todo = r.todo \ {t}
    BY <1>1, <1>3, <2>1 DEF StoreLoop, Done, GenType, AtStep
  <2>3. LoopsIn(loops, r.of, r.todo) /\ r.found = LoopsOf[r.of] /\ r.todo \subseteq LoopTags
    BY <1>3 DEF StoreLoop, Progress, LogicTypeOK
  <2>4. LoopsIn(loops', n.of, n.todo)
    <3>1. t \in LoopsOf[r.of]
      BY <1>3, <2>1 DEF StoreLoop, Progress
    <3>2. \A u \in LoopTags : loops'[u] = IF u = t THEN r.of ELSE loops[u]
      BY <1>1, <2>1
    <3>3. QED
      BY <2>2, <2>3, <3>1, <3>2 DEF LoopsIn
  <2>5. n.todo \subseteq LoopsOf[n.of]
    BY <1>3, <2>2 DEF StoreLoop, Progress
  <2>6. QED
    BY <1>1, <2>2, <2>3, <2>4, <2>5 DEF Progress, LoopsAreIn, FilesAreIn, AtStep
<1>4. CASE LoopsStored(g)
  <2>1. ~r.detect /\ n.step = "render" /\ n.of = r.of /\ n.found = r.found /\ r.todo = {}
    <3>1. ~r.detect
      BY <1>1, <1>4, GenIdleType DEF LoopsStored
    <3>2. gen' = [gen EXCEPT ![g].step = "render"] /\ r.todo = {}
      BY <1>4, <3>1 DEF LoopsStored, GoTo
    <3>3. QED
      BY <1>1, <3>1, <3>2 DEF GenType
  <2>2. LoopsIn(loops, r.of, {}) /\ r.found = LoopsOf[r.of] /\ loops' = loops
    BY <1>4, <2>1 DEF LoopsStored, Progress
  <2>3. QED
    BY <1>1, <2>1, <2>2 DEF Progress, LoopsAreIn, FilesAreIn, AtStep, LoopsIn
<1>5. CASE RemoveFiles(g)
  <2>1. n.step = "write" /\ n.of = r.of /\ n.found = r.found /\ n.todo = RenderedFor(r.of)
    BY <1>1, <1>5 DEF RemoveFiles, GoWith, GenType, RenderedFor
  <2>2. LoopsIn(loops, r.of, {}) /\ r.found = LoopsOf[r.of] /\ loops' = loops
    BY <1>5 DEF RemoveFiles, Progress, LoopsAreIn, AtStep
  <2>3. FilesIn(st', r.of, n.todo)
    BY <1>1, <1>5, <2>1 DEF RemoveFiles, FilesIn, RenderedFor
  <2>4. QED
    BY <1>1, <2>1, <2>2, <2>3 DEF Progress, LoopsAreIn, FilesAreIn, AtStep
<1>6. CASE WriteSt(g)
  <2>1. PICK f \in r.todo : st' = [st EXCEPT ![f] = r.of] /\ Done(g, f)
    BY <1>6 DEF WriteSt
  <2>2. n.step = "write" /\ n.of = r.of /\ n.found = r.found /\ n.todo = r.todo \ {f}
    BY <1>1, <1>6, <2>1 DEF WriteSt, Done, GenType, AtStep
  <2>3. /\ LoopsIn(loops, r.of, {}) /\ r.found = LoopsOf[r.of] /\ loops' = loops
        /\ FilesIn(st, r.of, r.todo)
    BY <1>6 DEF WriteSt, Progress, LoopsAreIn, AtStep
  <2>4. FilesIn(st', r.of, n.todo)
    <3>1. \A e \in Files : st'[e] = IF e = f THEN r.of ELSE st[e]
      BY <1>1, <2>1
    <3>2. f \in RenderedFor(r.of)
      BY <1>6, <2>1 DEF WriteSt, Progress
    <3>3. QED
      BY <2>2, <2>3, <3>1, <3>2 DEF FilesIn
  <2>5. n.todo \subseteq RenderedFor(n.of)
    BY <1>6, <2>2 DEF WriteSt, Progress
  <2>6. QED
    BY <1>1, <2>2, <2>3, <2>4, <2>5 DEF Progress, LoopsAreIn, FilesAreIn, AtStep
<1>7. ASSUME NEW refused \in BOOLEAN, JudgeSt(g, refused) PROVE Progress(g)'
  <2>1. n.step = "number" /\ n.of = r.of /\ n.found = r.found /\ r.todo = {} /\ AtStep(g, "write")
    BY <1>1, <1>7 DEF JudgeSt, GenType, AtStep
  <2>2. LoopsIn(loops, r.of, {}) /\ r.found = LoopsOf[r.of] /\ FilesIn(st, r.of, {})
        /\ loops' = loops /\ st' = st
    BY <1>7, <2>1 DEF JudgeSt, Progress, LoopsAreIn, AtStep
  <2>3. QED
    BY <1>1, <2>1, <2>2 DEF Progress, LoopsAreIn, FilesAreIn, AtStep
<1>8. CASE NumberRun(g)
  <2>1. /\ n.step = "insert" /\ n.of = r.of /\ n.found = r.found /\ n.number = NextNumber
        /\ n.refused = r.refused /\ AtStep(g, "number")
    BY <1>1, <1>8 DEF NumberRun, GenType, AtStep
  <2>2. loops' = loops /\ st' = st /\ runs' = runs
    BY <1>8 DEF NumberRun
  <2>3. Above(runs', n.number, Len(runs'))
    BY <2>1, <2>2, NextIsAbove DEF Above
  <2>4. QED
    BY <1>1, <2>1, <2>2, <2>3 DEF Progress, LoopsAreIn, FilesAreIn, AtStep
<1>9. CASE InsertRun(g)
  <2> DEFINE row == [number |-> r.number, of |-> r.of,
                     status |-> IF r.refused THEN "no_input" ELSE "completed", rules |-> {}]
  <2>1. ~r.refused /\ AtStep(g, "insert")
    BY <1>1, <1>9 DEF InsertRun, GenIdle
  <2>2. /\ n.step = "rules" /\ n.of = r.of /\ n.todo = r.found /\ n.run = Len(runs) + 1
    BY <1>1, <1>9, <2>1 DEF InsertRun, GenIdle
  <2>3. runs' = Append(runs, row) /\ loops' = loops /\ st' = st
    BY <1>9 DEF InsertRun
  <2>4. row.number = r.number /\ row.of = r.of /\ row.status = "completed" /\ row.rules = {}
    BY <2>1
  <2>5. row \in RunType
    BY <2>1, <1>1, GenFields DEF RunType
  <2> HIDE DEF row
  <2>6. /\ Len(runs') = Len(runs) + 1 /\ runs'[Len(runs')] = row /\ runs' # <<>>
        /\ \A i \in 1..Len(runs) : runs'[i] = runs[i]
    <3>1. runs \in Seq(RunType)
      BY DEF LogicTypeOK
    <3>2. /\ Len(runs') = Len(runs) + 1 /\ runs'[Len(runs) + 1] = row
          /\ \A i \in 1..Len(runs) : runs'[i] = runs[i] /\ runs' \in Seq(RunType)
      BY <2>3, <2>5, <3>1, AppendProperties
    <3>3. runs' # <<>>
      <4>1. Len(runs') # 0
        BY <3>2, RunsFields
      <4>2. QED
        BY <4>1, EmptySeq
    <3>4. QED
      BY <3>2, <3>3
  <2>7. /\ LoopsIn(loops, r.of, {}) /\ r.found = LoopsOf[r.of] /\ FilesIn(st, r.of, {})
        /\ Above(runs, r.number, Len(runs))
    BY <2>1 DEF Progress, LoopsAreIn, FilesAreIn, AtStep
  <2>8. Above(runs', row.number, Len(runs') - 1)
    BY <2>4, <2>6, <2>7, RunsFields DEF Above
  <2>9. QED
    BY <1>1, <2>2, <2>3, <2>4, <2>6, <2>7, <2>8
    DEF Progress, LoopsAreIn, FilesAreIn, AtStep, Newest
<1>10. CASE StoreRule(g)
  <2>1. PICK t \in r.todo : runs' = [runs EXCEPT ![r.run].rules = @ \cup {t}] /\ Done(g, t)
    BY <1>10 DEF StoreRule
  <2>2. n.step = "rules" /\ n.of = r.of /\ n.run = r.run /\ n.todo = r.todo \ {t} /\ AtStep(g, "rules")
    BY <1>1, <1>10, <2>1 DEF StoreRule, Done, GenType, AtStep
  <2>3. /\ runs # <<>> /\ r.run = Len(runs) /\ Newest.of = r.of /\ Newest.status = "completed"
        /\ r.todo \subseteq LoopsOf[r.of] /\ Newest.rules = LoopsOf[r.of] \ r.todo
        /\ Above(runs, Newest.number, Len(runs) - 1)
        /\ LoopsIn(loops, r.of, {}) /\ FilesIn(st, r.of, {}) /\ loops' = loops /\ st' = st
    BY <1>10, <2>2 DEF StoreRule, Progress, LoopsAreIn, FilesAreIn
  <2>4. t \in LoopTags /\ r.run \in Nat
    BY <1>1, <2>3 DEF GenType
  <2>5. /\ DOMAIN runs' = DOMAIN runs /\ Len(runs') = Len(runs)
        /\ \A i \in DOMAIN runs :
             /\ runs'[i].number = runs[i].number /\ runs'[i].of = runs[i].of
             /\ runs'[i].status = runs[i].status
             /\ runs'[i].rules = IF i = r.run THEN runs[i].rules \cup {t} ELSE runs[i].rules
    BY <2>1, <2>4, RuleType
  <2>6. Len(runs) \in DOMAIN runs /\ runs' # <<>>
    BY <2>3, <2>5, RunsFields
  <2>7. /\ Newest'.of = r.of /\ Newest'.status = "completed" /\ Newest'.number = Newest.number
        /\ Newest'.rules = LoopsOf[r.of] \ n.todo
    <3>1. Newest = runs[Len(runs)] /\ Newest' = runs'[Len(runs)]
      BY <2>5 DEF Newest
    <3>2. runs[Len(runs)].rules \cup {t} = LoopsOf[r.of] \ n.todo
      BY <2>1, <2>2, <2>3, <3>1
    <3>3. QED
      BY <2>3, <2>5, <2>6, <3>1, <3>2
  <2>8. Above(runs', Newest'.number, Len(runs') - 1)
    <3>1. \A i \in 1..(Len(runs) - 1) : i \in DOMAIN runs
      BY RunsFields
    <3>2. QED
      BY <2>3, <2>5, <2>7, <3>1 DEF Above
  <2>9. QED
    BY <1>1, <2>2, <2>3, <2>5, <2>6, <2>7, <2>8
    DEF Progress, LoopsAreIn, FilesAreIn, AtStep
<1>11. QED
  BY <1>1, <1>2, <1>3, <1>4, <1>5, <1>6, <1>7, <1>8, <1>9, <1>10, GenIdleType
  DEF Works, WriteBundle, LogicRaises

\* The bundle is the last that a generation which is alone has to store.
LEMMA BundleIsWhole ==
    ASSUME LogicTypeOK, NEW g \in Generators, WriteBundle(g), Progress(g)
    PROVE  NewestRunIsWhole'
<1> DEFINE d == gen[g].of
<1>1. /\ AtStep(g, "rules") /\ gen[g].todo = {} /\ runs' = runs /\ loops' = loops
      /\ st' = [st EXCEPT !["main"] = d] /\ bundled' = TRUE
  BY DEF WriteBundle
<1>2. /\ runs # <<>> /\ Newest.of = d /\ Newest.status = "completed" /\ Newest.rules = LoopsOf[d]
      /\ Above(runs, Newest.number, Len(runs) - 1)
      /\ LoopsIn(loops, d, {}) /\ FilesIn(st, d, {})
  BY <1>1 DEF Progress, LoopsAreIn, FilesAreIn
<1>3. loops \in [LoopTags -> {None} \cup Designs] /\ st \in [Files -> {None} \cup Designs]
  BY DEF LogicTypeOK
<1>4. loops' = [t \in LoopTags |-> IF t \in LoopsOf[d] THEN d ELSE None]
  BY <1>1, <1>2, <1>3 DEF LoopsIn
<1>5. st' = [f \in Files |-> IF f = "main" \/ f \in FilesOf[d] THEN d ELSE None]
  BY <1>1, <1>2, <1>3 DEF FilesIn, RenderedFor
<1>6. Newest' = Newest
  BY <1>1 DEF Newest
<1>7. QED
  BY <1>1, <1>2, <1>4, <1>5, <1>6 DEF NewestRunIsWhole, Above

LEMMA LogicStepInv == ASSUME LogicInv, [LogicNext]_logicVars PROVE LogicInv'
<1>t. LogicTypeOK /\ Bounded
  BY DEF LogicInv
<1>1. ASSUME NEW d \in Designs, Reparse(d) PROVE LogicInv'
  <2>1. LogicTypeOK' /\ Bounded'
    BY <1>1, <1>t, LogicStepType DEF LogicNext
  <2>2. \A g \in Generators : gen'[g].step = gen[g].step /\ ~gen'[g].alone
    BY <1>1, <1>t DEF Reparse, LogicTypeOK, GenType
  <2>3. Busy' = Busy /\ \A g \in Generators : ~Solo(g)'
    BY <2>2 DEF Busy, AtStep, Solo
  <2>4. NewestRunIsWhole'
    BY <1>1 DEF Reparse, LogicInv, NewestRunIsWhole, Newest
  <2>5. QED
    BY <1>1, <2>1, <2>3, <2>4 DEF Reparse, LogicInv
<1>2. ASSUME NEW g \in Generators, NEW detect \in BOOLEAN, NEW refused \in BOOLEAN,
             BeginLogic(g, detect, refused)
      PROVE  LogicInv'
  <2>1. LogicTypeOK' /\ Bounded'
    BY <1>2, <1>t, LogicStepType DEF LogicNext
  <2>2. torn' /\ AtStep(g, "idle") /\ plant' = plant
    BY <1>2 DEF BeginLogic
  <2>3. \A h \in Generators \ {g} : gen'[h].step = gen[h].step /\ ~gen'[h].alone
    BY <1>2, <1>t DEF BeginLogic, LogicTypeOK, GenType
  <2>4. /\ gen'[g].step \in {"number", "discover"} /\ gen'[g].alone = (Busy = {})
        /\ gen'[g].of = plant /\ gen'[g].refused = refused
        /\ gen'[g].step = "number" <=> refused
    BY <1>2 DEF BeginLogic, GenIdle
  <2>5. Busy = {} => Busy' = {g}
    BY <2>3, <2>4 DEF Busy, AtStep
  <2>6. Progress(g)'
    BY <2>2, <2>4 DEF Progress, LoopsAreIn, FilesAreIn, AtStep
  <2>7. \A h \in Generators : Solo(h)' => h = g /\ Busy = {}
    BY <2>3, <2>4 DEF Solo
  <2>8. NewestRunIsWhole'
    BY <2>2 DEF NewestRunIsWhole
  <2>9. QED
    BY <2>1, <2>2, <2>5, <2>6, <2>7, <2>8 DEF LogicInv
<1>3. ASSUME NEW g \in Generators, Works(g) PROVE LogicInv'
  <2>1. LogicTypeOK' /\ Bounded'
    BY <1>3, <1>t, LogicStepType DEF LogicNext, Works
  <2>2. /\ ~AtStep(g, "idle") /\ plant' = plant
        /\ \A h \in Generators \ {g} : gen'[h] = gen[h]
        /\ gen'[g].alone = gen[g].alone \/ gen'[g] = GenIdle
        /\ torn' = torn \/ (WriteBundle(g) /\ torn' = (torn /\ ~gen[g].alone))
    BY <1>3, <1>t, WorkFrame
  <2>3. torn
    BY <2>2 DEF LogicInv, Busy
  <2>4. \A h \in Generators \ {g} : ~Solo(h) /\ ~Solo(h)'
    <3>1. \A h \in Generators \ {g} : ~Solo(h)
      BY <2>2 DEF LogicInv, Busy
    <3>2. QED
      BY <2>2, <3>1 DEF Solo, AtStep
  <2>5. CASE ~gen[g].alone
    <3>1. torn' /\ ~gen'[g].alone
      BY <2>2, <2>3, <2>5, GenIdleType
    <3>2. \A h \in Generators : ~Solo(h)'
      BY <2>4, <3>1 DEF Solo
    <3>3. QED
      BY <2>1, <3>1, <3>2 DEF LogicInv, NewestRunIsWhole
  <2>6. CASE gen[g].alone
    <3>1. Busy = {g} /\ Progress(g)
      BY <2>2, <2>6 DEF LogicInv, Solo
    <3>2. Busy' = IF gen'[g].step = "idle" THEN {} ELSE {g}
      BY <2>2, <3>1 DEF Busy, AtStep
    <3>3. CASE gen'[g].step # "idle"
      <4>1. Progress(g)'
        BY <1>3, <1>t, <3>1, <3>3, ProgressStep
      <4>2. torn'
        BY <2>2, <2>3, <3>3, <1>t, GenIdleType DEF WriteBundle, LogicTypeOK
      <4>3. QED
        BY <2>1, <2>4, <3>2, <3>3, <4>1, <4>2 DEF LogicInv, NewestRunIsWhole
    <3>4. CASE gen'[g].step = "idle"
      <4>1. \A h \in Generators : ~Solo(h)'
        BY <2>4, <3>4 DEF Solo, AtStep
      <4>2. Busy' = {}
        BY <3>2, <3>4
      <4>3. CASE torn'
        BY <2>1, <4>1, <4>2, <4>3 DEF LogicInv, NewestRunIsWhole
      <4>4. CASE ~torn'
        <5>1. WriteBundle(g)
          BY <2>2, <2>3, <4>4
        <5>2. NewestRunIsWhole'
          BY <5>1, <1>t, <3>1, BundleIsWhole
        <5>3. QED
          BY <2>1, <4>1, <4>2, <5>2 DEF LogicInv
      <4>5. QED
        BY <4>3, <4>4
    <3>5. QED
      BY <3>3, <3>4
  <2>7. QED
    BY <2>5, <2>6
<1>4. CASE UNCHANGED logicVars
  BY <1>4, <1>t, ZenonT(60)
  DEF logicVars, LogicInv, LogicTypeOK, Bounded, Solo, Busy, AtStep, Progress, LoopsAreIn, FilesAreIn,
      Newest, NewestRunIsWhole
<1>5. QED
  BY <1>1, <1>2, <1>3, <1>4 DEF LogicNext, Works

\* Once a generation has gone through alone, the run that is listed, its rules, the control
\* loops and the files are all of one design, whatever was left behind before it and for as
\* long as no other request begins.
THEOREM NewestRunsAreWhole == LogicSpec => []NewestRunIsWhole
<1>1. LogicInv => NewestRunIsWhole
  BY DEF LogicInv
<1>2. QED
  BY <1>1, LogicInitInv, LogicStepInv, PTL DEF LogicSpec

(***************************************************************************)
(* Reconciling settles: a proposal's devices are spelled one way each, so  *)
(* that all of them count, and the next proposal has them as they are.     *)
(***************************************************************************)

\* Of spellings that fall together one counts.
LEMMA CountsAreOne ==
    ASSUME NEW S, NEW t \in Counts(S), NEW u \in Counts(S), Norm[t] = Norm[u] PROVE t = u
  BY DEF Counts

\* When no two are spelled apart all count.
LEMMA AllCount ==
    ASSUME NEW S \in SUBSET Tags, \A t, u \in S : Norm[t] = Norm[u] => t = u
    PROVE  Counts(S) = S
<1> SUFFICES ASSUME NEW t \in S PROVE t = Last(Spelled(S, Norm[t]))
  BY DEF Counts
<1>1. Spelled(S, Norm[t]) \in SUBSET Tags /\ Spelled(S, Norm[t]) # {}
  BY DEF Spelled
<1>2. Last(Spelled(S, Norm[t])) \in Spelled(S, Norm[t])
  BY <1>1, LastTag
<1> QED
  BY <1>2 DEF Spelled

NewTags(g, d) == Normal(d.tags) \ Normal(Nodes(g))

\* The normalised tags of a graph are tags of their own normal form.
LEMMA NormalOnes ==
    ASSUME NEW S \in SUBSET Tags, NEW t \in Normal(S)
    PROVE  t \in Tags /\ Norm[t] = t
  BY PidAssumption DEF Normal

\* A proposal has the devices of the graph that count and the new ones; all of them count.
LEMMA ProposedNodes ==
    ASSUME NEW g \in Graphs, NEW d \in Datasets
    PROVE  /\ Nodes(Proposed(g, d)) = Counts(Nodes(g)) \cup NewTags(g, d)
           /\ Counts(Nodes(Proposed(g, d))) = Nodes(Proposed(g, d))
           /\ Normal(d.tags) \subseteq Normal(Nodes(Proposed(g, d)))
           /\ \A t \in Nodes(Proposed(g, d)) : Proposed(g, d).nodes[t] =
                  IF t \in NewTags(g, d) THEN Said(d, t)
                  ELSE IF Norm[t] \in Normal(d.tags) THEN "healthy" ELSE "deprecated"
           /\ NewTags(g, d) \cap Nodes(g) = {}
<1> DEFINE P == Proposed(g, d)
           C == Counts(Nodes(g))
           N == NewTags(g, d)
<1>1. Nodes(g) \in SUBSET Tags /\ d.tags \in SUBSET Tags
  BY GraphFields, DatasetFields
<1>2. C \in SUBSET Nodes(g) /\ N \in SUBSET Tags /\ \A t \in N : Norm[t] = t /\ t \in Normal(d.tags)
  BY <1>1, NormalOnes DEF Counts, NewTags
<1>3. \A t \in Tags : P.nodes[t] =
        IF t \in C THEN IF Norm[t] \in Normal(d.tags) THEN "healthy" ELSE "deprecated"
        ELSE IF t \in N THEN Said(d, t) ELSE "absent"
  BY DEF Proposed, NewTags
<1>11. \A t \in N : Said(d, t) # "absent"
  BY <1>2, SaidType, PidAssumption
<1>4. Nodes(P) = C \cup N
  BY <1>1, <1>2, <1>3, <1>11 DEF Nodes
<1>6. \A t \in C, u \in N : Norm[t] # Norm[u]
  BY <1>1, <1>2 DEF NewTags, Normal
<1>12. N \cap Nodes(g) = {}
  BY <1>2 DEF NewTags, Normal
<1>5. \A t \in Nodes(P) : P.nodes[t] =
        IF t \in N THEN Said(d, t)
        ELSE IF Norm[t] \in Normal(d.tags) THEN "healthy" ELSE "deprecated"
  BY <1>1, <1>2, <1>3, <1>4, <1>12
<1>7. \A t, u \in Nodes(P) : Norm[t] = Norm[u] => t = u
  BY <1>2, <1>4, <1>6, CountsAreOne
<1>8. Nodes(P) \in SUBSET Tags
  BY <1>1, <1>2, <1>4
<1>9. Counts(Nodes(P)) = Nodes(P)
  BY <1>7, <1>8, AllCount
<1>10. ASSUME NEW n \in Normal(d.tags) PROVE n \in Normal(Nodes(P))
  <2>1. n \in Tags /\ Norm[n] = n
    BY <1>1, NormalOnes
  <2>2. CASE n \in Normal(Nodes(g))
    <3>1. PICK t \in Nodes(g) : n = Norm[t]
      BY <2>2 DEF Normal
    <3>2. PICK u \in C : Norm[u] = n
      BY <3>1, <1>1, OneCounts
    <3> QED
      BY <3>2, <1>4 DEF Normal
  <2>3. CASE n \notin Normal(Nodes(g))
    <3>1. n \in Nodes(P)
      BY <2>3, <1>4 DEF NewTags
    <3> QED
      BY <3>1, <2>1 DEF Normal
  <2> QED
    BY <2>2, <2>3
<1> QED
  BY <1>4, <1>5, <1>9, <1>10, <1>12

\* What applying leaves: the devices of the proposal, as they are there.
LEMMA AppliedNodes ==
    ASSUME NEW g \in Graphs, NEW d \in Datasets
    PROVE  /\ Applied(g, d) \in Graphs
           /\ Nodes(Applied(g, d)) = Nodes(Proposed(g, d))
           /\ Applied(g, d).nodes = Proposed(g, d).nodes
           /\ Applied(g, d).edges =
                {l \in Led(d) : {l[1], l[2]} \subseteq Nodes(Proposed(g, d)) /\ l \in Fits}
<1>1. Proposed(g, d) \in Graphs /\ Proposed(g, d).edges = Led(d)
  BY ProposedType DEF Proposed
<1>2. Applied(g, d).nodes = Proposed(g, d).nodes
  BY <1>1 DEF Applied, Accepted, Graphs
<1>3. Applied(g, d).edges =
        {l \in Led(d) : {l[1], l[2]} \subseteq Nodes(Proposed(g, d)) /\ l \in Fits}
  BY <1>1 DEF Applied, Accepted, Graphs
<1>4. QED
  BY <1>1, <1>2, <1>3, AcceptedType DEF Applied

\* A dataset applied to a graph it was applied to finds no new device.
LEMMA AppliedAgain ==
    ASSUME NEW g \in Graphs, NEW d \in Datasets
    PROVE  LET once == Applied(g, d)
               twice == Applied(once, d)
           IN  /\ Nodes(twice) = Nodes(once) /\ twice.edges = once.edges
               /\ \A t \in Nodes(once) : twice.nodes[t] =
                      IF Norm[t] \in Normal(d.tags) THEN "healthy" ELSE "deprecated"
<1> DEFINE P == Proposed(g, d)
           once == Applied(g, d)
           Q == Proposed(once, d)
           twice == Applied(once, d)
<1>1. /\ once \in Graphs /\ Nodes(once) = Nodes(P)
      /\ once.edges = {l \in Led(d) : {l[1], l[2]} \subseteq Nodes(P) /\ l \in Fits}
  BY AppliedNodes
<1>2. /\ Counts(Nodes(P)) = Nodes(P) /\ Normal(d.tags) \subseteq Normal(Nodes(P))
  BY ProposedNodes
<1> HIDE DEF P, once
<1>3. /\ Nodes(twice) = Nodes(Q) /\ twice.nodes = Q.nodes
      /\ twice.edges = {l \in Led(d) : {l[1], l[2]} \subseteq Nodes(Q) /\ l \in Fits}
  BY <1>1, AppliedNodes
<1>4. NewTags(once, d) = {}
  BY <1>1, <1>2 DEF NewTags
<1>5. /\ Nodes(Q) = Counts(Nodes(once)) \cup NewTags(once, d)
      /\ \A t \in Nodes(Q) : Q.nodes[t] =
            IF t \in NewTags(once, d) THEN Said(d, t)
            ELSE IF Norm[t] \in Normal(d.tags) THEN "healthy" ELSE "deprecated"
  BY <1>1, ProposedNodes
<1>6. Nodes(Q) = Nodes(once)
  BY <1>1, <1>2, <1>4, <1>5
<1> HIDE DEF Q, twice
<1>7. /\ Nodes(twice) = Nodes(once) /\ twice.edges = once.edges
      /\ \A t \in Nodes(once) : twice.nodes[t] =
            IF Norm[t] \in Normal(d.tags) THEN "healthy" ELSE "deprecated"
  BY <1>1, <1>3, <1>4, <1>5, <1>6
<1> QED
  BY <1>7 DEF once, twice

\* A second time at most new devices become healthy, and a third time nothing changes.
LEMMA AppliedSettles ==
    ASSUME NEW g \in Graphs, NEW d \in Datasets
    PROVE  LET once == Applied(g, d)
               twice == Applied(once, d)
           IN  /\ Applied(twice, d) = twice
               /\ twice.edges = once.edges
               /\ \A t \in Tags : twice.nodes[t] # once.nodes[t] =>
                      t \in Nodes(once) \ Nodes(g) /\ twice.nodes[t] = "healthy"
<1> DEFINE once == Applied(g, d)
           twice == Applied(once, d)
           thrice == Applied(twice, d)
<1>1. once \in Graphs /\ Nodes(once) = Nodes(Proposed(g, d)) /\ once.nodes = Proposed(g, d).nodes
  BY AppliedNodes
<1> HIDE DEF once
<1>2. twice \in Graphs
  BY <1>1, AppliedNodes
<1> HIDE DEF twice
<1>3. thrice \in Graphs
  BY <1>2, AppliedNodes
<1> HIDE DEF thrice
<1>4. /\ Nodes(twice) = Nodes(once) /\ twice.edges = once.edges
      /\ \A t \in Nodes(once) : twice.nodes[t] =
            IF Norm[t] \in Normal(d.tags) THEN "healthy" ELSE "deprecated"
  BY AppliedAgain DEF once, twice
<1>5. /\ Nodes(thrice) = Nodes(twice) /\ thrice.edges = twice.edges
      /\ \A t \in Nodes(twice) : thrice.nodes[t] =
            IF Norm[t] \in Normal(d.tags) THEN "healthy" ELSE "deprecated"
  BY <1>1, AppliedAgain DEF twice, thrice
<1>6. thrice = twice
  <2>1. \A t \in Tags : t \notin Nodes(twice) => thrice.nodes[t] = "absent" /\ twice.nodes[t] = "absent"
    BY <1>5 DEF Nodes
  <2>2. \A t \in Tags : thrice.nodes[t] = twice.nodes[t]
    BY <1>4, <1>5, <2>1
  <2>3. thrice.nodes = twice.nodes
    BY <1>2, <1>3, <2>2, GraphFields
  <2>4. QED
    BY <1>2, <1>3, <1>5, <2>3 DEF Graphs
<1>7. ASSUME NEW t \in Tags, twice.nodes[t] # once.nodes[t]
      PROVE  t \in Nodes(once) \ Nodes(g) /\ twice.nodes[t] = "healthy"
  <2>1. t \in Nodes(once)
    BY <1>4, <1>7 DEF Nodes
  <2>2. /\ once.nodes[t] = IF t \in NewTags(g, d) THEN Said(d, t)
                           ELSE IF Norm[t] \in Normal(d.tags) THEN "healthy" ELSE "deprecated"
        /\ NewTags(g, d) \cap Nodes(g) = {}
    BY <1>1, <2>1, ProposedNodes
  <2>3. t \in NewTags(g, d)
    BY <1>4, <1>7, <2>1, <2>2
  <2>4. Norm[t] \in Normal(d.tags)
    BY <2>3, NormalOnes, DatasetFields DEF NewTags
  <2>5. QED
    BY <1>4, <2>1, <2>2, <2>3, <2>4
<1> QED
  BY <1>4, <1>6, <1>7 DEF once, twice, thrice

\* An edge that is confirmed and fits is in the graph that is applied.
LEMMA ConfirmedStay ==
    ASSUME NEW g \in Graphs, NEW d \in Datasets, Whole(g), \A t \in Nodes(g) : Norm[t] = t
    PROVE  (g.edges \cap Led(d)) \cap Fits \subseteq Applied(g, d).edges
<1>1. Nodes(g) \in SUBSET Tags
  BY GraphFields
<1>2. Counts(Nodes(g)) = Nodes(g)
  <2>1. \A t, u \in Nodes(g) : Norm[t] = Norm[u] => t = u
    OBVIOUS
  <2> QED
    BY <2>1, <1>1, AllCount
<1>3. Nodes(g) \subseteq Nodes(Proposed(g, d))
  BY <1>2, ProposedNodes
<1> QED
  BY <1>3, AppliedNodes DEF Whole

\* From whatever graph is served, for any tags, spellings, similarities and validation: a
\* dataset settles when it is applied a second time, and a confirmed edge stays where the
\* devices are spelled as they are normalised.
THEOREM ReconcilingIsSettled == PidSpec => []ReconcilingSettles
<1>1. PidInv => PlantServed \in Graphs /\ Whole(PlantServed)
  BY DEF PidInv, PidTypeOK, PlantIsWhole, PlantServed
<1>2. PidInv => ReconcilingSettles
  BY <1>1, AppliedSettles, ConfirmedStay DEF ReconcilingSettles
<1> QED
  BY <1>2, PidInvHolds, PTL DEF PidSpec

\* What is before x in an order of B.
Under(B, R, x) == {y \in B : <<y, x>> \in R}
StrictOrder(B, R) ==
    /\ \A x \in B : <<x, x>> \notin R
    /\ \A x, y, z \in B : <<x, y>> \in R /\ <<y, z>> \in R => <<x, z>> \in R
    /\ \A x, y \in B : x # y => <<x, y>> \in R \/ <<y, x>> \in R
Place(B, R, x) == Cardinality(Under(B, R, x))
Front(B, R, m) == {x \in B : Place(B, R, x) < m}

\* A place is a number, below the number of those in order.
LEMMA PlaceIsNat ==
    ASSUME NEW B, IsFiniteSet(B), NEW R, NEW x PROVE IsFiniteSet(Under(B, R, x)) /\ Place(B, R, x) \in Nat
<1>1. Under(B, R, x) \in SUBSET B
  BY DEF Under
<1>2. IsFiniteSet(Under(B, R, x))
  BY <1>1, FS_Subset
<1> QED
  BY <1>2, FS_CardinalityType DEF Place

\* Who is before another has the lower place.
LEMMA PlacesAscend ==
    ASSUME NEW B, IsFiniteSet(B), NEW R, StrictOrder(B, R), NEW x \in B, NEW y \in B
    PROVE  <<x, y>> \in R <=> Place(B, R, x) < Place(B, R, y)
<1>1. ASSUME NEW u \in B, NEW v \in B, <<u, v>> \in R PROVE Place(B, R, u) < Place(B, R, v)
  <2>1. Under(B, R, u) \in SUBSET (Under(B, R, v) \ {u})
    BY <1>1 DEF StrictOrder, Under
  <2>2. u \in Under(B, R, v)
    BY <1>1 DEF Under
  <2>3. IsFiniteSet(Under(B, R, v)) /\ Place(B, R, v) \in Nat /\ Place(B, R, u) \in Nat
    BY PlaceIsNat
  <2>4. IsFiniteSet(Under(B, R, v) \ {u}) /\ Cardinality(Under(B, R, v) \ {u}) = Place(B, R, v) - 1
    BY <2>2, <2>3, FS_RemoveElement DEF Place
  <2>5. Place(B, R, u) <= Place(B, R, v) - 1
    BY <2>1, <2>4, FS_Subset DEF Place
  <2> QED
    BY <2>3, <2>5
<1>2. Place(B, R, x) \in Nat /\ Place(B, R, y) \in Nat
  BY PlaceIsNat
<1>3. CASE x = y
  BY <1>3, <1>2 DEF StrictOrder
<1>4. CASE x # y
  <2>1. <<x, y>> \in R \/ <<y, x>> \in R
    BY <1>4 DEF StrictOrder
  <2>2. <<y, x>> \in R => Place(B, R, y) < Place(B, R, x)
    BY <1>1
  <2>3. <<x, y>> \in R => Place(B, R, x) < Place(B, R, y)
    BY <1>1
  <2> QED
    BY <2>1, <2>2, <2>3, <1>2
<1> QED
  BY <1>3, <1>4

\* Below a place that is taken each place is taken.
LEMMA PlacesAreDense ==
    ASSUME NEW B, IsFiniteSet(B), NEW R, StrictOrder(B, R), NEW b \in B, NEW m \in Nat,
           m <= Place(B, R, b)
    PROVE  \E x \in B : Place(B, R, x) = m
<1> DEFINE S == {n \in Nat : m <= n /\ \E x \in B : Place(B, R, x) = n}
<1>1. S # {} /\ S \in SUBSET Nat
  BY PlaceIsNat
<1>2. PICK n \in S : \A k \in S : n <= k
  BY <1>1, Least
<1>3. PICK x \in B : Place(B, R, x) = n
  OBVIOUS
<1>4. n \in Nat /\ m <= n
  OBVIOUS
<1>5. CASE n = m
  BY <1>3, <1>5
<1>6. CASE n # m
  <2>1. IsFiniteSet(Under(B, R, x)) /\ Cardinality(Under(B, R, x)) = n /\ n > 0
    BY <1>3, <1>4, <1>6, PlaceIsNat DEF Place
  <2>2. Under(B, R, x) # {}
    BY <2>1, FS_EmptySet
  <2> DEFINE T == {k \in Nat : \E y \in Under(B, R, x) : Place(B, R, y) + k = n}
  <2>3. \A y \in Under(B, R, x) : y \in B /\ Place(B, R, y) \in Nat /\ Place(B, R, y) < n
    BY <1>3, PlaceIsNat, PlacesAscend DEF Under
  <2>4. PICK y0 \in Under(B, R, x) : TRUE
    BY <2>2
  <2>5. n - Place(B, R, y0) \in T
    BY <2>3, <1>4
  <2>6. T # {} /\ T \in SUBSET Nat
    BY <2>5
  <2>7. PICK k \in T : \A l \in T : k <= l
    BY <2>6, Least
  <2>8. PICK z \in Under(B, R, x) : Place(B, R, z) + k = n
    OBVIOUS
  <2>9. \A y \in Under(B, R, x) : Place(B, R, y) <= Place(B, R, z)
    <3> SUFFICES ASSUME NEW y \in Under(B, R, x) PROVE Place(B, R, y) <= Place(B, R, z)
      OBVIOUS
    <3>1. n - Place(B, R, y) \in T
      BY <2>3, <1>4
    <3>2. k <= n - Place(B, R, y)
      BY <3>1, <2>7
    <3>3. Place(B, R, y) \in Nat /\ Place(B, R, z) \in Nat /\ k \in Nat
      BY <2>3
    <3> QED
      BY <3>2, <3>3, <2>8, <1>4
  <2>10. Under(B, R, z) = Under(B, R, x) \ {z}
    <3>1. z \in B /\ <<z, x>> \in R
      BY DEF Under
    <3>2. ASSUME NEW y \in Under(B, R, x), y # z PROVE <<y, z>> \in R
      <4>1. ~(Place(B, R, z) < Place(B, R, y))
        BY <2>9, <2>3
      <4>2. <<z, y>> \notin R
        BY <4>1, <3>1, <2>3, PlacesAscend
      <4> QED
        BY <4>2, <3>1, <3>2, <2>3 DEF StrictOrder
    <3>3. ASSUME NEW y \in B, <<y, z>> \in R PROVE <<y, x>> \in R /\ y # z
      BY <3>1, <3>3 DEF StrictOrder
    <3> QED
      BY <3>2, <3>3, <2>3 DEF Under
  <2>11. Place(B, R, z) = n - 1
    BY <2>1, <2>10, FS_RemoveElement, ZenonT(60) DEF Place
  <2>12. z \in B /\ n - 1 \in Nat /\ m <= n - 1
    BY <2>3, <1>4, <1>6
  <2>13. n - 1 \in S
    BY <2>11, <2>12
  <2> QED
    BY <2>13, <1>2, <1>4
<1> QED
  BY <1>5, <1>6

\* The first m of an order are m, or all.
LEMMA FrontIsFull ==
    ASSUME NEW B, IsFiniteSet(B), NEW R, StrictOrder(B, R), NEW m \in Nat
    PROVE  /\ IsFiniteSet(Front(B, R, m)) /\ Cardinality(Front(B, R, m)) \in Nat
           /\ Cardinality(Front(B, R, m)) <= m
           /\ \A b \in B \ Front(B, R, m) :
                /\ Cardinality(Front(B, R, m)) = m
                /\ \A x \in Front(B, R, m) : <<x, b>> \in R
<1> DEFINE F == Front(B, R, m)
           f == [x \in F |-> Place(B, R, x)]
<1>1. \A x \in B : Place(B, R, x) \in Nat
  BY PlaceIsNat
<1>2. F \in SUBSET B /\ \A x \in F : Place(B, R, x) \in 0..(m - 1)
  BY <1>1 DEF Front
<1>3. IsFiniteSet(F) /\ Cardinality(F) \in Nat
  BY <1>2, FS_Subset, FS_CardinalityType
<1>4. f \in Injection(F, 0..(m - 1))
  <2>1. f \in [F -> 0..(m - 1)]
    BY <1>2
  <2>2. ASSUME NEW x \in F, NEW y \in F, f[x] = f[y] PROVE x = y
    <3>1. x \in B /\ y \in B /\ Place(B, R, x) = Place(B, R, y) /\ Place(B, R, x) \in Nat
      BY <2>2, <1>1, <1>2
    <3>2. <<x, y>> \notin R /\ <<y, x>> \notin R
      BY <3>1, PlacesAscend
    <3> QED
      BY <3>1, <3>2 DEF StrictOrder
  <2> QED
    BY <2>1, <2>2 DEF Injection, IsInjective
<1>5. IsFiniteSet(0..(m - 1)) /\ Cardinality(0..(m - 1)) = m
  BY FS_Interval
<1>6. /\ Cardinality(F) <= m
      /\ Cardinality(F) = m <=> f \in Surjection(F, 0..(m - 1))
  BY <1>4, <1>5, FS_Injection
<1>7. ASSUME NEW b \in B \ F PROVE Cardinality(F) = m /\ \A x \in F : <<x, b>> \in R
  <2>1. Place(B, R, b) \in Nat /\ Place(B, R, b) >= m
    BY <1>1, <1>7 DEF Front
  <2>2. \A n \in 0..(m - 1) : \E x \in F : f[x] = n
    <3> SUFFICES ASSUME NEW n \in 0..(m - 1) PROVE \E x \in F : f[x] = n
      OBVIOUS
    <3>1. n \in Nat /\ n <= Place(B, R, b) /\ n < m
      BY <2>1
    <3>2. PICK x \in B : Place(B, R, x) = n
      BY <3>1, PlacesAreDense
    <3>3. x \in F
      BY <3>1, <3>2 DEF Front
    <3> QED
      BY <3>2, <3>3
  <2>3. f \in Surjection(F, 0..(m - 1))
    BY <2>2, <1>4 DEF Surjection, Injection
  <2>4. ASSUME NEW x \in F PROVE <<x, b>> \in R
    <3>1. Place(B, R, x) \in Nat /\ Place(B, R, x) < Place(B, R, b) /\ x \in B
      BY <2>1, <1>1 DEF Front
    <3> QED
      BY <3>1, PlacesAscend
  <2> QED
    BY <2>3, <2>4, <1>6
<1> HIDE DEF f
<1> QED
  BY <1>3, <1>6, <1>7

\* A list of relationships, or what is left of one: their order is that of the indices.
IsList(list) ==
    /\ DOMAIN list \in SUBSET Nat /\ IsFiniteSet(DOMAIN list)
    /\ \A i \in DOMAIN list : list[i] \in Relationships

\* The order of relationships as that of numbers.
Weight(r) == (RelationshipPriority(r) * 7 + InferencePriority[r.from]) * 101 + (100 - r.score)

\* Stronger is to weigh less.
LEMMA WeightTells ==
    ASSUME NEW r \in Relationships, NEW s \in Relationships
    PROVE  Weight(r) \in Nat /\ (Stronger(r, s) <=> Weight(r) < Weight(s))
<1>1. \A q \in Relationships :
        /\ RelationshipPriority(q) \in 0..4 /\ InferencePriority[q.from] \in 0..6
        /\ q.score \in 0..100
  BY DEF Relationships, RelationshipPriority, InferencePriority, Sources
<1>2. PICK a, b \in 0..4 : a = RelationshipPriority(r) /\ b = RelationshipPriority(s)
  BY <1>1, SMTT(60)
<1>3. PICK c, d \in 0..6 : c = InferencePriority[r.from] /\ d = InferencePriority[s.from]
  BY <1>1, SMTT(60)
<1>4. PICK e, f \in 0..100 : e = r.score /\ f = s.score
  BY <1>1
<1>5. Weight(r) = (a * 7 + c) * 101 + (100 - e) /\ Weight(s) = (b * 7 + d) * 101 + (100 - f)
  BY <1>2, <1>3, <1>4 DEF Weight
<1>6. Stronger(r, s) <=> a < b \/ (a = b /\ (c < d \/ (c = d /\ e > f)))
  BY <1>2, <1>3, <1>4 DEF Stronger
<1> QED
  BY <1>5, <1>6

\* What is admitted are indices of the list, of relationships that have a weight.
LEMMA AdmittedMade ==
    ASSUME NEW list, IsList(list)
    PROVE  /\ Admitted(list) \in SUBSET Nat /\ Admitted(list) \subseteq DOMAIN list
           /\ \A i \in Admitted(list) : list[i] \in Relationships /\ Weight(list[i]) \in Nat
  BY WeightTells DEF IsList, Admitted

\* Of those with a key one is the first.
LEMMA FirstMade ==
    ASSUME NEW list, IsList(list), NEW i \in Admitted(list)
    PROVE  /\ FirstOfKey(list, i) \in Nat /\ FirstOfKey(list, i) \in Admitted(list)
           /\ Key(list[FirstOfKey(list, i)]) = Key(list[i])
<1> DEFINE S == {j \in Admitted(list) : Key(list[j]) = Key(list[i])}
<1>1. S # {} /\ S \in SUBSET Nat
  BY AdmittedMade
<1>2. \E j \in S : \A k \in S : j <= k
  BY <1>1, Least
<1>3. \E j \in Admitted(list) :
        /\ Key(list[j]) = Key(list[i])
        /\ \A k \in Admitted(list) : Key(list[k]) = Key(list[i]) => j <= k
  BY <1>2
<1> QED
  BY <1>3, AdmittedMade DEF FirstOfKey

\* Of what says the same one is the best.
LEMMA BestIsOne ==
    ASSUME NEW list, IsList(list), NEW i \in BestOfKey(list), NEW j \in BestOfKey(list),
           Key(list[i]) = Key(list[j])
    PROVE  i = j
<1> SUFFICES ASSUME i # j PROVE FALSE
  OBVIOUS
<1>1. i \in Admitted(list) /\ j \in Admitted(list)
  BY DEF BestOfKey
<1>2. /\ i \in Nat /\ j \in Nat /\ list[i] \in Relationships /\ list[j] \in Relationships
      /\ Weight(list[i]) \in Nat /\ Weight(list[j]) \in Nat
  BY <1>1, AdmittedMade
<1>3. Stronger(list[i], list[j]) \/ (~Stronger(list[j], list[i]) /\ i < j)
  BY <1>1 DEF BestOfKey
<1>4. Stronger(list[j], list[i]) \/ (~Stronger(list[i], list[j]) /\ j < i)
  BY <1>1 DEF BestOfKey
<1>5. Stronger(list[i], list[j]) => ~Stronger(list[j], list[i])
  BY <1>2, WeightTells
<1> QED
  BY <1>2, <1>3, <1>4, <1>5

\* Whatever is admitted has a best that says the same and is as strong.
LEMMA BestIsThere ==
    ASSUME NEW list, IsList(list), NEW i \in Admitted(list)
    PROVE  \E b \in BestOfKey(list) :
              Key(list[b]) = Key(list[i]) /\ Weight(list[b]) <= Weight(list[i])
<1> DEFINE Same == {j \in Admitted(list) : Key(list[j]) = Key(list[i])}
           S == {w \in Nat : \E j \in Same : Weight(list[j]) = w}
<1>1. S # {} /\ S \in SUBSET Nat
  BY AdmittedMade
<1>2. PICK w \in S : \A v \in S : w <= v
  BY <1>1, Least
<1> DEFINE T == {j \in Same : Weight(list[j]) = w}
<1>3. T # {} /\ T \in SUBSET Nat
  BY AdmittedMade
<1>4. PICK b \in T : \A j \in T : b <= j
  BY <1>3, Least
<1>5. b \in Admitted(list) /\ Key(list[b]) = Key(list[i]) /\ b \in Nat /\ Weight(list[b]) = w
  BY <1>3
<1>6. \A j \in Same : Weight(list[j]) \in Nat /\ w <= Weight(list[j])
  BY <1>2, AdmittedMade
<1>7. ASSUME NEW j \in Admitted(list) \ {b}, Key(list[j]) = Key(list[b])
      PROVE  Stronger(list[b], list[j]) \/ (~Stronger(list[j], list[b]) /\ b < j)
  <2>1. j \in Same /\ j \in Nat /\ list[j] \in Relationships /\ list[b] \in Relationships
    BY <1>5, <1>7, AdmittedMade
  <2>2. CASE Weight(list[j]) = w
    <3>1. b <= j
      BY <2>1, <2>2, <1>4
    <3> QED
      BY <3>1, <2>1, <2>2, <1>5, <1>6, WeightTells
  <2>3. CASE Weight(list[j]) # w
    BY <2>1, <2>3, <1>5, <1>6, WeightTells
  <2> QED
    BY <2>2, <2>3
<1>8. b \in BestOfKey(list)
  BY <1>5, <1>7 DEF BestOfKey
<1> QED
  BY <1>5, <1>6, <1>8

-----------------------------------------------------------------------------
(* The outgoing edges of a source in their order. *)

OfSource(list, s) == {i \in BestOfKey(list) : list[i].source = s}
Earlier(list, s) == {p \in OfSource(list, s) \X OfSource(list, s) : Before(list, p[1], p[2])}

Turn(r) == IF Symmetric(r) THEN 1 ELSE 0

\* Before is to be stronger, or as strong and earlier.
LEMMA BeforeTells ==
    ASSUME NEW list, IsList(list), NEW i \in BestOfKey(list), NEW j \in BestOfKey(list)
    PROVE  /\ Weight(list[i]) \in Nat /\ Turn(list[i]) \in Nat /\ FirstOfKey(list, i) \in Nat
           /\ FirstOfKey(list, i) = FirstOfKey(list, j) => i = j
           /\ Before(list, i, j) <=>
                \/ Weight(list[i]) < Weight(list[j])
                \/ /\ Weight(list[i]) = Weight(list[j])
                   /\ \/ Turn(list[i]) < Turn(list[j])
                      \/ /\ Turn(list[i]) = Turn(list[j])
                         /\ FirstOfKey(list, i) < FirstOfKey(list, j)
<1>1. i \in Admitted(list) /\ j \in Admitted(list)
  BY DEF BestOfKey
<1>2. /\ list[i] \in Relationships /\ list[j] \in Relationships
      /\ Weight(list[i]) \in Nat /\ Weight(list[j]) \in Nat
  BY <1>1, AdmittedMade
<1>3. /\ Stronger(list[i], list[j]) <=> Weight(list[i]) < Weight(list[j])
      /\ Stronger(list[j], list[i]) <=> Weight(list[j]) < Weight(list[i])
  BY <1>2, WeightTells
<1>4. /\ FirstOfKey(list, i) \in Nat /\ FirstOfKey(list, j) \in Nat
      /\ Key(list[FirstOfKey(list, i)]) = Key(list[i])
      /\ Key(list[FirstOfKey(list, j)]) = Key(list[j])
  BY <1>1, FirstMade
<1>5. /\ ~Symmetric(list[i]) /\ Symmetric(list[j]) <=> Turn(list[i]) < Turn(list[j])
      /\ Symmetric(list[i]) = Symmetric(list[j]) <=> Turn(list[i]) = Turn(list[j])
      /\ Turn(list[i]) \in Nat
  BY DEF Turn, Symmetric
<1>6. FirstOfKey(list, i) = FirstOfKey(list, j) => i = j
  BY <1>4, BestIsOne
<1> QED
  BY <1>2, <1>3, <1>4, <1>5, <1>6 DEF Before

\* The edges of a source are in a strict order.
LEMMA EarlierOrders ==
    ASSUME NEW list, IsList(list), NEW s
    PROVE  StrictOrder(OfSource(list, s), Earlier(list, s)) /\ IsFiniteSet(OfSource(list, s))
<1> DEFINE B == OfSource(list, s)
           R == Earlier(list, s)
<1>1. \A x, y \in B : <<x, y>> \in R <=> Before(list, x, y)
  BY DEF Earlier
<1>2. B \subseteq BestOfKey(list)
  BY DEF OfSource
<1>3. ASSUME NEW x \in B PROVE <<x, x>> \notin R
  BY <1>1, <1>2, <1>3, BeforeTells
<1>4. ASSUME NEW x \in B, NEW y \in B, NEW z \in B, <<x, y>> \in R, <<y, z>> \in R
      PROVE  <<x, z>> \in R
  <2>1. Before(list, x, y) /\ Before(list, y, z)
    BY <1>1, <1>4
  <2>2. x \in BestOfKey(list) /\ y \in BestOfKey(list) /\ z \in BestOfKey(list)
    BY <1>2
  <2>3. Before(list, x, z)
    BY <2>1, <2>2, BeforeTells
  <2> QED
    BY <2>3, <1>1
<1>5. ASSUME NEW x \in B, NEW y \in B, x # y PROVE <<x, y>> \in R \/ <<y, x>> \in R
  <2>1. x \in BestOfKey(list) /\ y \in BestOfKey(list)
    BY <1>2
  <2>2. Before(list, x, y) \/ Before(list, y, x)
    BY <2>1, <1>5, BeforeTells
  <2> QED
    BY <2>2, <1>1
<1>6. B \in SUBSET DOMAIN list
  BY AdmittedMade DEF OfSource, BestOfKey
<1>7. IsFiniteSet(B)
  BY <1>6, FS_Subset DEF IsList
<1> QED
  BY <1>3, <1>4, <1>5, <1>7 DEF StrictOrder

\* The edges of a source are the first ones of its order.
LEMMA EdgesAreInFront ==
    ASSUME NEW list, IsList(list), NEW s
    PROVE  {i \in Validated(list) : list[i].source = s}
              = Front(OfSource(list, s), Earlier(list, s), MaxOutgoing)
<1>1. ASSUME NEW i \in OfSource(list, s)
      PROVE  Under(OfSource(list, s), Earlier(list, s), i) =
                {j \in BestOfKey(list) : list[j].source = list[i].source /\ Before(list, j, i)}
  BY DEF OfSource, Earlier, Under
<1> QED
  BY <1>1 DEF Validated, Front, Place, OfSource

\* No two of the edges say the same: no two buckets allow each other.
LEMMA EdgesDiffer ==
    ASSUME NEW list, IsList(list), NEW i \in Validated(list), NEW j \in Validated(list), i # j
    PROVE  ~SameEdge(list[i], list[j])
<1>1. i \in BestOfKey(list) /\ j \in BestOfKey(list)
  BY DEF Validated
<1>2. Key(list[i]) # Key(list[j])
  BY <1>1, BestIsOne
<1>3. Admissible(list[i]) /\ Admissible(list[j])
  BY <1>1 DEF BestOfKey, Admitted
<1>4. ASSUME Symmetric(list[i]), Key(list[j]) = <<list[i].target, list[i].source, list[i].kind>>
      PROVE  FALSE
  <2>1. /\ list[j].source = list[i].target /\ list[j].target = list[i].source
        /\ list[j].kind = list[i].kind
    BY <1>4 DEF Key
  <2>2. ~Structural(list[i]) /\ ~Structural(list[j])
    BY <1>4, <2>1 DEF Symmetric, Structural
  <2>3. /\ BucketOf[list[i].target] \in Allowed(BucketOf[list[i].source])
        /\ BucketOf[list[i].source] \in Allowed(BucketOf[list[i].target])
    BY <1>3, <2>1, <2>2 DEF Admissible
  <2>4. ASSUME NEW a, NEW b, a \in Allowed(b) PROVE b \notin Allowed(a)
    BY <2>4 DEF Allowed, Basins
  <2> QED
    BY <2>3, <2>4
<1> QED
  BY <1>2, <1>4 DEF SameEdge

\* What is no edge lost to one as strong that says the same, or to a full source.
LEMMA NothingLost ==
    ASSUME NEW list, IsList(list), NEW i \in Admitted(list) \ Validated(list)
    PROVE  \/ \E j \in Validated(list) :
                 Key(list[i]) = Key(list[j]) /\ ~Stronger(list[i], list[j])
           \/ Cardinality({k \in Validated(list) : list[k].source = list[i].source
                                    /\ ~Stronger(list[i], list[k])}) = MaxOutgoing
<1>1. PICK b \in BestOfKey(list) : Key(list[b]) = Key(list[i]) /\ Weight(list[b]) <= Weight(list[i])
  BY BestIsThere
<1>2. b \in Admitted(list)
  BY DEF BestOfKey
<1>3. /\ list[i] \in Relationships /\ list[b] \in Relationships
      /\ Weight(list[i]) \in Nat /\ Weight(list[b]) \in Nat
  BY <1>2, AdmittedMade
<1>4. CASE b \in Validated(list)
  <2>1. ~Stronger(list[i], list[b])
    BY <1>1, <1>3, WeightTells
  <2> QED
    BY <1>1, <1>4, <2>1
<1>5. CASE b \notin Validated(list)
  <2> DEFINE s == list[i].source
             F == Front(OfSource(list, s), Earlier(list, s), MaxOutgoing)
  <2>1. list[b].source = s
    BY <1>1 DEF Key
  <2>2. F = {k \in Validated(list) : list[k].source = s}
    BY EdgesAreInFront
  <2>3. b \in OfSource(list, s) \ F
    BY <2>1, <2>2, <1>5 DEF OfSource
  <2>4. Cardinality(F) = MaxOutgoing /\ \A k \in F : <<k, b>> \in Earlier(list, s)
    BY <2>3, EarlierOrders, FrontIsFull, ValidationAssumption
  <2>5. ASSUME NEW k \in F PROVE ~Stronger(list[i], list[k])
    <3>1. Before(list, k, b) /\ k \in BestOfKey(list)
      BY <2>4, <2>5 DEF Earlier, OfSource
    <3>2. Weight(list[k]) \in Nat /\ Weight(list[k]) <= Weight(list[b])
      BY <3>1, <1>3, BeforeTells
    <3>3. list[k] \in Relationships
      BY <3>1, AdmittedMade DEF BestOfKey
    <3> QED
      BY <3>2, <3>3, <1>1, <1>3, WeightTells
  <2>6. {k \in Validated(list) : list[k].source = list[i].source /\ ~Stronger(list[i], list[k])} = F
    BY <2>2, <2>5
  <2> QED
    BY <2>4, <2>6
<1> QED
  BY <1>4, <1>5

\* The edges alone are edges once more, although the order among equals may be another one:
\* there are not more of a source than it may have.
LEMMA EdgesStay ==
    ASSUME NEW list, IsList(list)
    PROVE  Validated([i \in Validated(list) |-> list[i]]) = Validated(list)
<1> DEFINE edges == Validated(list)
           kept == [i \in edges |-> list[i]]
<1>1. edges \in SUBSET BestOfKey(list) /\ edges \in SUBSET Admitted(list)
  BY DEF Validated, BestOfKey
<1>2. edges \in SUBSET DOMAIN list
  BY <1>1, AdmittedMade
<1>3. IsList(kept)
  BY <1>2, FS_Subset DEF IsList
<1>4. Admitted(kept) = edges
  BY <1>1 DEF Admitted
<1>5. BestOfKey(kept) = edges
  <2>1. \A i, j \in edges : i # j => Key(kept[j]) # Key(kept[i])
    BY <1>1, BestIsOne
  <2> HIDE DEF kept
  <2> QED
    BY <1>4, <2>1 DEF BestOfKey
<1>6. ASSUME NEW i \in edges
      PROVE  Cardinality({j \in edges : kept[j].source = kept[i].source /\ Before(kept, j, i)})
                < MaxOutgoing
  <2> DEFINE s == list[i].source
             F == {j \in edges : list[j].source = s}
             E == {j \in edges : kept[j].source = kept[i].source /\ Before(kept, j, i)}
  <2>1. IsFiniteSet(F) /\ Cardinality(F) \in Nat /\ Cardinality(F) <= MaxOutgoing
    <3>1. F = Front(OfSource(list, s), Earlier(list, s), MaxOutgoing)
      BY EdgesAreInFront
    <3>2. StrictOrder(OfSource(list, s), Earlier(list, s)) /\ IsFiniteSet(OfSource(list, s))
      BY EarlierOrders
    <3>3. MaxOutgoing \in Nat
      BY ValidationAssumption
    <3> HIDE DEF F
    <3> QED
      BY ONLY <3>1, <3>2, <3>3, FrontIsFull
  <2>2. ~Before(kept, i, i)
    <3> HIDE DEF kept, edges
    <3> QED
      BY <1>3, <1>5, BeforeTells
  <2>3. E \in SUBSET (F \ {i}) /\ i \in F
    BY <2>2
  <2>4. IsFiniteSet(F \ {i}) /\ Cardinality(F \ {i}) = Cardinality(F) - 1
    BY <2>1, <2>3, FS_RemoveElement
  <2>5. IsFiniteSet(E) /\ Cardinality(E) <= Cardinality(F) - 1
    <3> HIDE DEF E, F
    <3>1. IsFiniteSet(E) /\ Cardinality(E) <= Cardinality(F \ {i})
      BY <2>3, <2>4, FS_Subset
    <3> QED
      BY <3>1, <2>4
  <2>6. Cardinality(E) \in Nat
    BY <2>5, FS_CardinalityType
  <2> HIDE DEF E, F
  <2>7. Cardinality(E) < MaxOutgoing
    BY <2>1, <2>5, <2>6, ValidationAssumption
  <2> QED
    BY <2>7 DEF E
<1> HIDE DEF kept, edges
<1>7. Validated(kept) = edges
  BY <1>5, <1>6 DEF Validated
<1> QED
  BY <1>7 DEF kept, edges

\* Whatever is found, its edges are the best.
LEMMA ListsAreValid == ASSUME IsList(found) PROVE EdgesAreTheBest
<1>1. \A i, j \in Validated(found) : i # j => ~SameEdge(found[i], found[j])
  BY EdgesDiffer
<1>2. NothingStrongIsLost
  BY NothingLost DEF NothingStrongIsLost
<1>3. ValidationSettles
  BY EdgesStay DEF ValidationSettles
<1> QED
  BY <1>1, <1>2, <1>3 DEF EdgesAreTheBest

\* Whatever relationships are found, in whatever order and number: no two edges say the same, in
\* either direction; what is not an edge lost to one at least as strong that says the same, or
\* to as many as its source may have; and validating the edges again drops none.
THEOREM BestEdges == FoundSpec => []EdgesAreTheBest
<1>1. FoundInit => found \in Seq(Relationships)
  BY DEF FoundInit
<1>2. found \in Seq(Relationships) /\ [Find]_found => (found \in Seq(Relationships))'
  <2> SUFFICES ASSUME found \in Seq(Relationships), Find PROVE found' \in Seq(Relationships)
    OBVIOUS
  <2>1. PICK r \in Pool : found' = Append(found, r)
    BY DEF Find
  <2>2. r \in Relationships
    BY ValidationAssumption
  <2> QED
    BY <2>1, <2>2
<1>3. found \in Seq(Relationships) => EdgesAreTheBest
  <2> SUFFICES ASSUME found \in Seq(Relationships) PROVE IsList(found)
    BY ListsAreValid
  <2>1. Len(found) \in Nat /\ DOMAIN found = 1..Len(found) /\ \A i \in DOMAIN found : found[i] \in Relationships
    OBVIOUS
  <2>2. IsFiniteSet(1..Len(found))
    BY <2>1, FS_Interval
  <2> QED
    BY <2>1, <2>2 DEF IsList
<1> QED
  BY <1>1, <1>2, <1>3, PTL DEF FoundSpec
===============================================================================
