---------------------------- MODULE PidReconcile -----------------------------
(***************************************************************************)
(* Reconciling the plant graph of a project with a P&ID dataset            *)
(* (services/pid_reconciliation_service.py).  Reconciling compares the     *)
(* dataset with the graph and leaves two files, a summary with the         *)
(* conflicts and the graph it proposes; applying reads them back, one      *)
(* after the other, and stores the proposal, which nobody compares with    *)
(* the graph there is by then.  A parse stores a graph of its own.         *)
(*                                                                         *)
(* A graph is stored in a file and then in Neo4j, which is cleared and     *)
(* gets each device and each link by a statement of its own; when one      *)
(* fails the rest is left out and nobody is told.  Readers are given what  *)
(* Neo4j has, or the file when it has nothing or does not answer.          *)
(*                                                                         *)
(* Tags are numbers.  Norm is _normalize_tag: devices are matched by their *)
(* normalised tags, but a node keeps the identifier it has.  Where several *)
(* fall together the last in the list counts.  Of a device only its status *)
(* and its links are kept, of the validation of edges what it refuses.     *)
(***************************************************************************)
EXTENDS Integers, FiniteSets, PythonNone

CONSTANTS
    Tags,      \* tags as they are spelled in graphs and datasets
    Norm,      \* Norm[t]: the normalised tag
    Ties,      \* the links a graph or a dataset can have, pairs of tags
    Similar,   \* pairs of normalised tags as alike as the threshold
    Fits,      \* pairs of identifiers whose edge graph_validation_service.validate accepts
    Reports,   \* what a record of a dataset may say of the status of its device
    Datasets,  \* the datasets there are
    Parsed,    \* the graphs that parses build
    Reviewers  \* request threads

Links == SUBSET Ties
Status == {"absent", "healthy", "deprecated"} \cup Reports
Graphs == [nodes : [Tags -> Status], edges : Links]
Nodes(g) == {t \in Tags : g.nodes[t] # "absent"}
Whole(g) == \A l \in g.edges : {l[1], l[2]} \subseteq Nodes(g)

ASSUME PidAssumption ==
    /\ Tags \subseteq Nat
    /\ IsFiniteSet(Tags)
    /\ Norm \in [Tags -> Tags]
    /\ \A t \in Tags : Norm[Norm[t]] = Norm[t]
    /\ Ties \subseteq Tags \X Tags
    /\ \A l \in Ties : <<Norm[l[1]], Norm[l[2]]>> \in Ties
    /\ Similar \subseteq Tags \X Tags
    /\ Fits \subseteq Tags \X Tags
    /\ "absent" \notin Reports

\* A dataset: the tags it has a record of, what the records say and where they lead.
ASSUME DatasetAssumption ==
    /\ Datasets \subseteq [tags : SUBSET Tags, says : [Tags -> Reports], links : Links]
    /\ \A d \in Datasets : \A l \in d.links : l[1] \in d.tags

ASSUME ParsedAssumption ==
    /\ Parsed \subseteq Graphs
    /\ \A g \in Parsed : Whole(g)

VARIABLES
    plantFile,  \* latest_graph.json
    plantNeo,   \* the devices and the links of the project in Neo4j
    summary,    \* pid_changes_latest.json
    proposal,   \* pid_proposed_graph.json
    review,     \* what each request is doing
    apart       \* the two files are not of one reconciliation (history)

pidVars == <<plantFile, plantNeo, summary, proposal, review, apart>>

NoGraph == [nodes |-> [t \in Tags |-> "absent"], edges |-> {}]

\* Of a request: its dataset, what it will store and from which devices that was made, what
\* Neo4j has yet to get; whether files it read may be of different reconciliations (torn)
\* and whether only it has stored since the graph had those devices (steady) are history.
NoReview ==
    [step |-> "idle", of |-> None, conflicts |-> FALSE, allow |-> FALSE, graph |-> NoGraph,
     base |-> None, todo |-> {}, ties |-> {}, torn |-> FALSE, steady |-> FALSE]

Last(S) == CHOOSE t \in S : \A u \in S : u <= t
Normal(S) == {Norm[t] : t \in S}
Spelled(S, n) == {t \in S : Norm[t] = n}

\* The records and the nodes that count: the last of each normalised tag.
Counts(S) == {t \in S : t = Last(Spelled(S, Norm[t]))}

Conflicts(g, d) ==
    \/ \E t, u \in d.tags : t # u /\ Norm[t] = Norm[u]
    \/ \E n \in Normal(d.tags), m \in Normal(Nodes(g)) : n # m /\ <<n, m>> \in Similar

\* The record of a normalised tag is the last of its spellings; its links count.
Said(d, n) == d.says[Last(Spelled(d.tags, n))]
Led(d) == {l \in {<<Norm[k[1]], Norm[k[2]]>> : k \in {e \in d.links : e[1] \in Counts(d.tags)}} :
              l[1] # l[2]}

\* Mutant: new devices keep the spelling of the dataset.
ProposedAsSpelled(g, d) ==
    [nodes |-> [t \in Tags |->
        IF t \in Counts(Nodes(g))
        THEN IF Norm[t] \in Normal(d.tags) THEN "healthy" ELSE "deprecated"
        ELSE IF t \in d.tags /\ Norm[t] \notin Normal(Nodes(g)) THEN d.says[t] ELSE "absent"],
     edges |-> Led(d)]

\* Mutant: devices that the dataset does not have are left out.
ProposedWithout(g, d) ==
    [nodes |-> [t \in Tags |->
        IF t \in Counts(Nodes(g)) /\ Norm[t] \in Normal(d.tags) THEN "healthy"
        ELSE IF t \in Normal(d.tags) \ Normal(Nodes(g)) THEN Said(d, t) ELSE "absent"],
     edges |-> Led(d)]

\* reconcile: known devices are healthy, or deprecated when the dataset does not have
\* them; new ones get their normalised tag and what the record says.  The edges are those
\* of the dataset.
Proposed(g, d) ==
    [nodes |-> [t \in Tags |->
        IF t \in Counts(Nodes(g))
        THEN IF Norm[t] \in Normal(d.tags) THEN "healthy" ELSE "deprecated"
        ELSE IF t \in Normal(d.tags) \ Normal(Nodes(g)) THEN Said(d, t) ELSE "absent"],
     edges |-> Led(d)]

\* apply_update: the edges that are accepted.
Accepted(g) == [g EXCEPT !.edges = {l \in @ : {l[1], l[2]} \subseteq Nodes(g) /\ l \in Fits}]

\* _load_graph, where Neo4j answers.
PlantServed == IF plantNeo = NoGraph THEN plantFile ELSE plantNeo

Storing(r) == review[r].step \in {"clear", "merge"}

PidInit ==
    /\ plantFile = NoGraph
    /\ plantNeo = NoGraph
    /\ summary = [conflicts |-> FALSE, by |-> None]
    /\ proposal = None
    /\ review = [r \in Reviewers |-> NoReview]
    /\ apart = FALSE

(***************************************************************************)
(* Reconciling.                                                            *)
(***************************************************************************)
Compared(g, d) ==
    [NoReview EXCEPT !.step = "summary", !.conflicts = Conflicts(g, d),
                     !.graph = Proposed(g, d), !.base = Nodes(g)]

\* Neo4j does not answer, has devices, or has none; then it is asked for links.
Reconcile(r, d) ==
    /\ review[r].step = "idle"
    /\ \/ review' = [review EXCEPT ![r] = Compared(plantFile, d)]
       \/ /\ Nodes(plantNeo) # {}
          /\ review' = [review EXCEPT ![r] = Compared(plantNeo, d)]
       \/ /\ Nodes(plantNeo) = {}
          /\ review' = [review EXCEPT ![r] = [NoReview EXCEPT !.step = "look", !.of = d]]
    /\ UNCHANGED <<plantFile, plantNeo, summary, proposal, apart>>

\* Links that came meanwhile make a graph without devices; else the file is read.
LookFurther(r) ==
    /\ review[r].step = "look"
    /\ \E g \in {plantFile} \cup (IF plantNeo.edges = {} THEN {} ELSE {NoGraph}) :
        review' = [review EXCEPT ![r] = Compared(g, review[r].of)]
    /\ UNCHANGED <<plantFile, plantNeo, summary, proposal, apart>>

\* _persist_reconcile_state.
WriteSummary(r) ==
    /\ review[r].step = "summary"
    /\ summary' = [conflicts |-> review[r].conflicts, by |-> r]
    /\ review' = [review EXCEPT ![r].step = "proposal"]
    /\ apart' = TRUE
    /\ UNCHANGED <<plantFile, plantNeo, proposal>>

\* Whoever is between its reads has the summary of another proposal.
WriteProposal(r) ==
    /\ review[r].step = "proposal"
    /\ proposal' = [graph |-> review[r].graph, base |-> review[r].base,
                    conflicts |-> review[r].conflicts]
    /\ review' = [q \in Reviewers |->
            IF q = r THEN NoReview
            ELSE [review[q] EXCEPT !.torn = @ \/ review[q].step = "load"]]
    /\ apart' = (summary.by # r)
    /\ UNCHANGED <<plantFile, plantNeo, summary>>

(***************************************************************************)
(* Applying.  What the summary says is kept in "conflicts" until the       *)
(* proposal is read.                                                       *)
(***************************************************************************)
LoadSummary(r, allow) ==
    /\ review[r].step = "idle"
    /\ summary.by # None
    /\ review' = [review EXCEPT ![r] =
            [NoReview EXCEPT !.step = "load", !.conflicts = summary.conflicts,
                             !.allow = allow, !.torn = apart]]
    /\ UNCHANGED <<plantFile, plantNeo, summary, proposal, apart>>

Loaded(r) ==
    [review[r] EXCEPT !.step = "store", !.conflicts = proposal.conflicts,
                      !.graph = Accepted(proposal.graph), !.base = proposal.base]

\* Mutant: conflicts are not looked at.
LoadAnyway(r) ==
    /\ review[r].step = "load"
    /\ proposal # None
    /\ review' = [review EXCEPT ![r] = Loaded(r)]
    /\ UNCHANGED <<plantFile, plantNeo, summary, proposal, apart>>

\* Conflicts must be allowed.
LoadProposal(r) ==
    /\ review[r].step = "load"
    /\ proposal # None
    /\ review[r].conflicts => review[r].allow
    /\ review' = [review EXCEPT ![r] = Loaded(r)]
    /\ UNCHANGED <<plantFile, plantNeo, summary, proposal, apart>>

(***************************************************************************)
(* graph_service.store_graph, of an update and of a parse.                 *)
(***************************************************************************)
StoreParsed(r, g) ==
    /\ review[r].step = "idle"
    /\ review' = [review EXCEPT ![r] = [NoReview EXCEPT !.step = "store", !.graph = g]]
    /\ UNCHANGED <<plantFile, plantNeo, summary, proposal, apart>>

WriteGraphFile(r) ==
    /\ review[r].step = "store"
    /\ plantFile' = review[r].graph
    /\ review' = [q \in Reviewers |->
            IF q = r
            THEN [NoReview EXCEPT
                    !.step = "clear", !.graph = review[r].graph, !.base = review[r].base,
                    !.todo = Nodes(review[r].graph), !.ties = review[r].graph.edges,
                    !.steady = review[r].base # None /\ review[r].base = Nodes(PlantServed)
                                    /\ \A p \in Reviewers \ {r} : ~Storing(p)]
            ELSE [review[q] EXCEPT !.steady = FALSE]]
    /\ UNCHANGED <<plantNeo, summary, proposal, apart>>

ClearPlant(r) ==
    /\ review[r].step = "clear"
    /\ plantNeo' = NoGraph
    /\ review' = [review EXCEPT ![r].step = "merge"]
    /\ UNCHANGED <<plantFile, summary, proposal, apart>>

MergeDevice(r) ==
    /\ review[r].step = "merge"
    /\ \E t \in review[r].todo :
        /\ plantNeo' = [plantNeo EXCEPT !.nodes[t] = review[r].graph.nodes[t]]
        /\ review' = [review EXCEPT ![r].todo = @ \ {t}]
    /\ UNCHANGED <<plantFile, summary, proposal, apart>>

\* A link whose devices are not both there is not written.
MergeLink(r) ==
    /\ review[r].step = "merge"
    /\ review[r].todo = {}
    /\ \E l \in review[r].ties :
        /\ plantNeo' = IF {l[1], l[2]} \subseteq Nodes(plantNeo)
                       THEN [plantNeo EXCEPT !.edges = @ \cup {l}] ELSE plantNeo
        /\ review' = [review EXCEPT ![r].ties = @ \ {l}]
    /\ UNCHANGED <<plantFile, summary, proposal, apart>>

\* The graph is stored; Neo4j fails, which is swallowed; conflicts or the engineering
\* validation refuse the update; there is no proposal; or the process ends.
ReviewEnds(r) ==
    /\ review[r].step # "idle"
    /\ review' = [review EXCEPT ![r] = NoReview]
    /\ UNCHANGED <<plantFile, plantNeo, summary, proposal, apart>>

PidNext ==
    \E r \in Reviewers :
        \/ \E d \in Datasets : Reconcile(r, d)
        \/ \E allow \in BOOLEAN : LoadSummary(r, allow)
        \/ \E g \in Parsed : StoreParsed(r, g)
        \/ LookFurther(r) \/ WriteSummary(r) \/ WriteProposal(r) \/ LoadProposal(r)
        \/ WriteGraphFile(r) \/ ClearPlant(r) \/ MergeDevice(r) \/ MergeLink(r)
        \/ ReviewEnds(r)

PidSpec == PidInit /\ [][PidNext]_pidVars
-----------------------------------------------------------------------------
Bases == {None} \cup SUBSET Tags
Proposals == [graph : Graphs, base : Bases, conflicts : BOOLEAN]
ReviewSteps ==
    {"idle", "look", "summary", "proposal", "load", "store", "clear", "merge"}

PidTypeOK ==
    /\ plantFile \in Graphs
    /\ plantNeo \in Graphs
    /\ summary \in [conflicts : BOOLEAN, by : {None} \cup Reviewers]
    /\ proposal \in {None} \cup Proposals
    /\ review \in [Reviewers ->
            [step : ReviewSteps, of : {None} \cup Datasets, conflicts : BOOLEAN,
             allow : BOOLEAN, graph : Graphs, base : Bases, todo : SUBSET Tags,
             ties : SUBSET Ties, torn : BOOLEAN, steady : BOOLEAN]]
    /\ apart \in BOOLEAN

\* A proposal whose dataset had conflicts is stored only by a request that allows them -
\* unless the two files it read may be of different reconciliations: they were when it read
\* the first, because one was cut short or two ran beside each other, or another proposal
\* was written before it read the second.
ConflictsAreAllowed ==
    \A r \in Reviewers :
        review[r].step = "store" /\ review[r].conflicts /\ ~review[r].torn => review[r].allow

\* However an update that had begun to store ends - done, or with Neo4j or the process
\* failing at whichever statement - the graph that is served has the devices that the
\* proposal was made from, under whatever spelling ("kept as deprecated").  It must have
\* stored alone and over a graph that still had them; and nothing helps when it ended with
\* some of the devices in Neo4j and some not, as what is there is served from then on.
ApplyKeepsDevices ==
    [][\A r \in Reviewers :
        /\ Storing(r) /\ review'[r].step = "idle" /\ review[r].steady
        /\ review[r].step = "merge" =>
                review[r].todo \in {{}, Nodes(review[r].graph)}
        => Normal(review[r].base) \subseteq Normal(Nodes(PlantServed'))]_pidVars

\* From any graph that is served between requests, half stored or not, once there is
\* something to apply: applying a dataset a second time changes at most the status of a
\* device that was new, to healthy, and a third time nothing; and an edge that the dataset
\* confirms and the validation accepts stays, when every device is spelled as it is
\* normalised (the edges of one that is not are taken off).
Applied(g, d) == Accepted(Proposed(g, d))

ReconcilingSettles ==
    proposal # None /\ (\A r \in Reviewers : review[r].step = "idle") => \A d \in Datasets :
        LET once == Applied(PlantServed, d)
            twice == Applied(once, d)
        IN  /\ Applied(twice, d) = twice
            /\ twice.edges = once.edges
            /\ \A t \in Tags : twice.nodes[t] # once.nodes[t] =>
                    t \in Nodes(once) \ Nodes(PlantServed) /\ twice.nodes[t] = "healthy"
            /\ (\A t \in Nodes(PlantServed) : Norm[t] = t) =>
                    (PlantServed.edges \cap Led(d)) \cap Fits \subseteq once.edges
===============================================================================
