----------------------------- MODULE AiConnectors -----------------------------
(***************************************************************************)
(* A user's AI connectors (services/plant_genie_connector_service.py): a   *)
(* table in which at most one row is active, the one Plant Genie asks.     *)
(* A request reads in one statement and writes in a later one; a unique    *)
(* index of the table refuses a second active row, and the transaction is  *)
(* rolled back.                                                            *)
(*                                                                         *)
(* Names, keys and the health a test records are left out; which remaining *)
(* row is the newest is any of them.                                       *)
(***************************************************************************)
EXTENDS FiniteSets, PythonNone

CONSTANTS
    AiIds,      \* connector identifiers
    AiRequests  \* request threads

ASSUME AiAssumption == None \notin AiIds \cup BOOLEAN

VARIABLES
    ai,    \* plant_genie_ai_connectors: identifier -> is_active, None when there is no row
    aiReq, \* what each request is doing, and what it has read
    raced  \* a deletion ran beside another request since the table was last at rest and
           \* sound (history)

aiVars == <<ai, aiReq, raced>>

AiIdle == [op |-> "idle", id |-> None, wasActive |-> FALSE]

Stored(table) == {i \in AiIds : table[i] # None}
Active(table) == {i \in AiIds : table[i] = TRUE}
OneActive(table) == Stored(table) = {} \/ \E i \in AiIds : Active(table) = {i}

AiInit ==
    /\ ai = [i \in AiIds |-> None]
    /\ aiReq = [r \in AiRequests |-> AiIdle]
    /\ raced = FALSE

\* Races: a deletion and any other request are both past their reads.
Races(reqs) ==
    \E r, q \in AiRequests : r # q /\ reqs[r].op = "delete" /\ reqs[q].op # "idle"
AtRest(reqs) == \A r \in AiRequests : reqs[r].op = "idle"
Watch == raced' = (Races(aiReq') \/ (raced /\ ~(AtRest(aiReq') /\ OneActive(ai'))))

\* create_connector: the transaction reads whether the user has an active connector.
\* The new identifier is a fresh UUID.
ReadActive(r, i) ==
    /\ aiReq[r] = AiIdle
    /\ ai[i] = None
    /\ \A q \in AiRequests : aiReq[q].op = "create" => aiReq[q].id # i
    /\ aiReq' = [aiReq EXCEPT ![r] = [op |-> "create", id |-> i, wasActive |-> Active(ai) # {}]]
    /\ UNCHANGED ai
    /\ Watch

\* delete_connector and activate_connector read the row first; without one they end.
ReadRow(r, op, i) ==
    /\ aiReq[r] = AiIdle
    /\ ai[i] # None
    /\ aiReq' = [aiReq EXCEPT ![r] = [op |-> op, id |-> i, wasActive |-> ai[i]]]
    /\ UNCHANGED ai
    /\ Watch

\* The commit of a transaction that leaves the table so: the index refuses a second
\* active row, and nothing of the transaction stays.
CommitTable(r, table) ==
    /\ ai' = IF \A i, j \in Active(table) : i = j THEN table ELSE ai
    /\ aiReq' = [aiReq EXCEPT ![r] = AiIdle]
    /\ Watch

\* The first connector of a user becomes the active one.
CreateConnector(r) ==
    /\ aiReq[r].op = "create"
    /\ CommitTable(r, [ai EXCEPT ![aiReq[r].id] = ~aiReq[r].wasActive])

\* Mutant: nobody takes over.
DeleteWithoutHeir(r) ==
    /\ aiReq[r].op = "delete"
    /\ CommitTable(r, [ai EXCEPT ![aiReq[r].id] = None])

\* When the deleted connector was active as it was read, one that remains takes over.
DeleteConnector(r) ==
    LET remaining == [ai EXCEPT ![aiReq[r].id] = None] IN
    /\ aiReq[r].op = "delete"
    /\ \/ (aiReq[r].wasActive => Stored(remaining) = {}) /\ CommitTable(r, remaining)
       \/ /\ aiReq[r].wasActive
          /\ \E i \in Stored(remaining) : CommitTable(r, [remaining EXCEPT ![i] = TRUE])

\* All rows are made inactive and one active: none is when it was deleted meanwhile.
ActivateConnector(r) ==
    /\ aiReq[r].op = "activate"
    /\ CommitTable(r, [i \in AiIds |-> IF ai[i] = None THEN None ELSE i = aiReq[r].id])

AiNext ==
    \E r \in AiRequests :
        \/ \E i \in AiIds : ReadActive(r, i)
        \/ \E op \in {"delete", "activate"}, i \in AiIds : ReadRow(r, op, i)
        \/ CreateConnector(r)
        \/ DeleteConnector(r)
        \/ ActivateConnector(r)

AiSpec == AiInit /\ [][AiNext]_aiVars

-----------------------------------------------------------------------------
AiTypeOK ==
    /\ ai \in [AiIds -> {None} \cup BOOLEAN]
    /\ aiReq \in [AiRequests ->
            [op : {"idle", "create", "delete", "activate"}, id : {None} \cup AiIds,
             wasActive : BOOLEAN]]
    /\ raced \in BOOLEAN

\* However creations, activations and deletions interleave, a user with connectors has
\* exactly one that Plant Genie asks, unless a deletion ran beside another request (a new
\* connector then may find the active one gone, or the one to activate be).
OneActiveUnlessRaced == raced \/ OneActive(ai)
================================================================================
