---------------------------- MODULE ParsePipeline ----------------------------
(***************************************************************************)
(* Parsing the documents of one project: parse_project of                  *)
(* services/parse_service.py and store_graph of services/graph_service.py. *)
(* A parse inserts a batch and a job, keeps the plant graph it builds in   *)
(* latest_graph.json and in Neo4j, stores what it found item by item, and  *)
(* marks the batch and then the job as completed.  Every statement commits *)
(* on its own.  Nothing keeps two parses of a project apart.               *)
(*                                                                         *)
(* Readers take the entities of the batch that started last, whatever its  *)
(* status, and the graph from Neo4j, from the file only when Neo4j has     *)
(* nothing or does not answer.                                             *)
(*                                                                         *)
(* What is found in the documents is left out: a graph is any set of       *)
(* elements (nodes and edges), and every batch has the same number of      *)
(* items.  The stage and the progress of a job are left out too.           *)
(***************************************************************************)
EXTENDS Naturals, PythonNone

CONSTANTS
    Parses,   \* parses: each has a batch and a job with fresh identifiers
    Elements, \* nodes and edges
    Items     \* rows that _store_batch_artifacts inserts for a batch

ASSUME ParseAssumption ==
    /\ Items \in Nat
    /\ None \notin Parses
    /\ \A g \in SUBSET Elements : g # None

VARIABLES
    batch,  \* parse_batches: status
    job,    \* parse_jobs: status
    items,  \* how many rows of a batch are stored
    graph,  \* the graph a parse has built
    file,   \* latest_graph.json, empty before the first; None when it is half written
    neo,    \* the elements Neo4j has of the project
    pc,     \* what each parse does next
    latest, \* the batch with the greatest started_at
    clean,  \* the parse has been the only one, and Neo4j took its graph whole (history)
    mixed   \* the parse that started last is not known to have completed clean (history)

parseVars == <<batch, job, items, graph, file, neo, pc, latest, clean, mixed>>

Statuses == {"none", "running", "completed", "failed"}

ParseInit ==
    /\ batch = [p \in Parses |-> "none"]
    /\ job = [p \in Parses |-> "none"]
    /\ items = [p \in Parses |-> 0]
    /\ graph = [p \in Parses |-> {}]
    /\ file = {}
    /\ neo = {}
    /\ pc = [p \in Parses |-> "none"]
    /\ latest = None
    /\ clean = [p \in Parses |-> FALSE]
    /\ mixed = FALSE

AtPc(p, step) == pc[p] = step
Then(p, step) == pc' = [pc EXCEPT ![p] = step]
Running(p) == pc[p] \notin {"none", "end"}

\* The graph readers are given.
Served == IF neo # {} THEN neo ELSE file

-----------------------------------------------------------------------------
InsertBatch(p, g) ==
    /\ AtPc(p, "none")
    /\ batch' = [batch EXCEPT ![p] = "running"]
    /\ graph' = [graph EXCEPT ![p] = g]
    /\ latest' = p
    /\ Then(p, "job")
    /\ clean' = [q \in Parses |-> q = p /\ \A r \in Parses : ~Running(r)]
    /\ mixed' = TRUE
    /\ UNCHANGED <<job, items, file, neo>>

InsertJob(p) ==
    /\ AtPc(p, "job")
    /\ job' = [job EXCEPT ![p] = "running"]
    /\ Then(p, "stages")
    /\ UNCHANGED <<batch, items, graph, file, neo, latest, clean, mixed>>

\* The stages before the plant graph change nothing but the job's stage and progress;
\* the file is truncated, then written.
BuildGraph(p) ==
    /\ AtPc(p, "stages")
    /\ file' = None
    /\ Then(p, "write")
    /\ UNCHANGED <<batch, job, items, graph, neo, latest, clean, mixed>>

-----------------------------------------------------------------------------
(* store_graph. *)

WriteFile(p) ==
    /\ AtPc(p, "write")
    /\ file' = graph[p]
    /\ Then(p, "clear")
    /\ UNCHANGED <<batch, job, items, graph, neo, latest, clean, mixed>>

\* Mutant: what Neo4j had stays.
ClearNothing(p) ==
    /\ AtPc(p, "clear")
    /\ Then(p, "merge")
    /\ UNCHANGED <<batch, job, items, graph, file, neo, latest, clean, mixed>>

ClearNeo(p) ==
    /\ AtPc(p, "clear")
    /\ neo' = {}
    /\ Then(p, "merge")
    /\ UNCHANGED <<batch, job, items, graph, file, latest, clean, mixed>>

\* Nodes and edges are merged one by one, in an order of their own.
MergeElement(p) ==
    /\ AtPc(p, "merge")
    /\ \/ \E e \in graph[p] \ neo : neo' = neo \cup {e} /\ UNCHANGED pc
       \/ graph[p] \subseteq neo /\ Then(p, "items") /\ UNCHANGED neo
    /\ UNCHANGED <<batch, job, items, graph, file, latest, clean, mixed>>

\* Neo4j does not take a statement: the rest is not tried, and the parse goes on.
NeoFails(p) ==
    /\ AtPc(p, "clear") \/ AtPc(p, "merge")
    /\ Then(p, "items")
    /\ clean' = [clean EXCEPT ![p] = @ /\ neo = {}]
    /\ UNCHANGED <<batch, job, items, graph, file, neo, latest, mixed>>

-----------------------------------------------------------------------------
(* _store_batch_artifacts and the end of the parse. *)

StoreItem(p) ==
    /\ AtPc(p, "items")
    /\ items[p] < Items
    /\ items' = [items EXCEPT ![p] = @ + 1]
    /\ UNCHANGED <<batch, job, graph, file, neo, pc, latest, clean, mixed>>

CompleteBatch(p) ==
    /\ AtPc(p, "items")
    /\ items[p] = Items
    /\ batch' = [batch EXCEPT ![p] = "completed"]
    /\ Then(p, "finish")
    /\ UNCHANGED <<job, items, graph, file, neo, latest, clean, mixed>>

CompleteJob(p) ==
    /\ AtPc(p, "finish")
    /\ job' = [job EXCEPT ![p] = "completed"]
    /\ Then(p, "end")
    /\ mixed' = (mixed /\ ~clean[p])
    /\ UNCHANGED <<batch, items, graph, file, neo, latest, clean>>

\* Anything that raises once the job is there; what was stored stays.
Raise(p) ==
    /\ pc[p] \in {"stages", "write", "items", "finish"}
    /\ Then(p, "fail job")
    /\ UNCHANGED <<batch, job, items, graph, file, neo, latest, clean, mixed>>

FailJob(p) ==
    /\ AtPc(p, "fail job")
    /\ job' = [job EXCEPT ![p] = "failed"]
    /\ Then(p, "fail batch")
    /\ UNCHANGED <<batch, items, graph, file, neo, latest, clean, mixed>>

FailBatch(p) ==
    /\ AtPc(p, "fail batch")
    /\ batch' = [batch EXCEPT ![p] = "failed"]
    /\ Then(p, "end")
    /\ UNCHANGED <<job, items, graph, file, neo, latest, clean, mixed>>

\* The process ends, or a statement fails that nothing stands behind: the job's INSERT,
\* or one of the two that report a failure.
Die(p) ==
    /\ Running(p)
    /\ Then(p, "end")
    /\ UNCHANGED <<batch, job, items, graph, file, neo, latest, clean, mixed>>

ParseNext ==
    \E p \in Parses :
        \/ \E g \in SUBSET Elements : InsertBatch(p, g)
        \/ InsertJob(p) \/ BuildGraph(p)
        \/ WriteFile(p) \/ ClearNeo(p) \/ MergeElement(p) \/ NeoFails(p)
        \/ StoreItem(p) \/ CompleteBatch(p) \/ CompleteJob(p)
        \/ Raise(p) \/ FailJob(p) \/ FailBatch(p) \/ Die(p)

ParseSpec == ParseInit /\ [][ParseNext]_parseVars

-----------------------------------------------------------------------------
ParseTypeOK ==
    /\ batch \in [Parses -> Statuses]
    /\ job \in [Parses -> Statuses]
    /\ items \in [Parses -> 0..Items]
    /\ graph \in [Parses -> SUBSET Elements]
    /\ file \in {None} \cup SUBSET Elements
    /\ neo \subseteq Elements
    /\ pc \in [Parses -> {"none", "job", "stages", "write", "clear", "merge", "items",
                          "finish", "fail job", "fail batch", "end"}]
    /\ latest \in {None} \cup Parses
    /\ clean \in [Parses -> BOOLEAN]
    /\ mixed \in BOOLEAN

\* A job that says it completed stands for a batch that did, with all its rows, whatever
\* fails, dies or runs beside it; and so does a batch.
CompletedIsWhole ==
    \A p \in Parses :
        /\ job[p] = "completed" => batch[p] = "completed"
        /\ batch[p] = "completed" => items[p] = Items

\* Readers are given one parse: the graph and the entities both are those of the parse
\* that started last, once it has completed with no other beside it and with Neo4j taking
\* its graph whole, or refusing it from the first node on.  A failed or overtaken parse
\* may leave them apart until the next clean one.
ReadersSeeOneParse ==
    latest # None /\ ~mixed =>
        /\ Served = graph[latest]
        /\ items[latest] = Items
===============================================================================
