------------------------------- MODULE Namespace -------------------------------
(***************************************************************************)
(* The unified namespace and the page that shows it: the rows of           *)
(* services/uns_core.py, which requests and connector threads change under *)
(* its lock and announce after it; the websocket hub of                    *)
(* api/system_layer.py, which hands each announcement to the event loop;   *)
(* and SystemControlLayer.tsx, which replaces its rows by a full snapshot, *)
(* merges a partial one into them, asks for all rows now and then, and     *)
(* replaces them by the answer to a query.                                 *)
(*                                                                         *)
(* A row is its value.  The copy of the rows for SQL is renewed under the  *)
(* same lock; mappings and the notes on connectors are overwritten by the  *)
(* last writer and announced to nobody who shows them; both are left out.  *)
(***************************************************************************)
EXTENDS Naturals, Sequences, PythonNone

CONSTANTS
    RowNames, Values,
    Writers,     \* threads that load a model or update rows
    Sockets,     \* websockets: bound on those alive on either side
    MaxRevision  \* bound on _revision

VARIABLES
    rows,       \* _rows_by_tag: the value of each row, None for a tag without one
    revision,   \* _revision
    announcing, \* what each writer still has to announce, None if nothing
    connections, \* the hub's _connections
    greeting,   \* the socket that joined and was not sent its first snapshot yet
    scheduled,  \* broadcasts handed to the event loop, in order
    wire,       \* what each socket still has to deliver
    page,       \* the page's socket and rows; for each row what a query left out (hidden), the
                \* revision it was read at and the newest it was ever given (history)
    refresh     \* the rows a request read for the page, None if none is on its way

namespaceVars == <<rows, revision, announcing, connections, greeting, scheduled, wire, page, refresh>>
coreVars == <<rows, revision, announcing>>
hubVars == <<connections, greeting, scheduled, wire>>

\* What may stand in the engine's table: a row of each name, or none.
Table == [RowNames -> {None} \cup Values]

\* A snapshot of all rows, or of those that changed, with the revision they were read at.
Snapshot ==
    [full : {TRUE}, rows : Table, at : Nat]
        \cup [full : {FALSE}, rows : UNION {[changed -> Values] : changed \in SUBSET RowNames}, at : Nat]

\* All rows as they are.
Full == [full |-> TRUE, rows |-> rows, at |-> revision]

\* A full snapshot whose rows are yet to be read.
Unread == [full |-> TRUE, rows |-> None, at |-> 0]

ASSUME NamespaceAssumption ==
    /\ MaxRevision \in Nat
    /\ None \notin Sockets \cup Table \cup Snapshot \cup {Unread}

NamespaceInit ==
    /\ rows = [t \in RowNames |-> None] /\ revision = 0
    /\ announcing = [w \in Writers |-> None]
    /\ connections = {} /\ greeting = None /\ scheduled = <<>>
    /\ wire = [s \in Sockets |-> <<>>]
    /\ page = [socket |-> None, rows |-> rows, hidden |-> rows,
               at |-> [t \in RowNames |-> 0], newest |-> [t \in RowNames |-> 0]]
    /\ refresh = None

-----------------------------------------------------------------------------
(* The core.  Bound: revisions end at MaxRevision. *)

\* load_model, under the lock; its snapshot is read again afterwards.
LoadModel(w, tags, v) ==
    /\ announcing[w] = None /\ revision < MaxRevision
    /\ rows' = [t \in RowNames |-> IF t \in tags THEN v ELSE None]
    /\ revision' = revision + 1
    /\ announcing' = [announcing EXCEPT ![w] = Unread]
    /\ UNCHANGED <<hubVars, page, refresh>>

\* Mutant: a loaded model is announced as an update of its rows.
ReadBackPartial(w) ==
    /\ announcing[w] = Unread
    /\ announcing' = [announcing EXCEPT ![w] =
            [full |-> FALSE, rows |-> [t \in {u \in RowNames : rows[u] # None} |-> rows[t]],
             at |-> revision]]
    /\ UNCHANGED <<rows, revision, hubVars, page, refresh>>

ReadBack(w) ==
    /\ announcing[w] = Unread
    /\ announcing' = [announcing EXCEPT ![w] = Full]
    /\ UNCHANGED <<rows, revision, hubVars, page, refresh>>

\* update_runtime: rows that there are and that change, announced whole.
Update(w, tags, v) ==
    LET changed == {t \in tags : rows[t] \notin {None, v}} IN
    /\ announcing[w] = None /\ revision < MaxRevision
    /\ changed # {}
    /\ rows' = [t \in RowNames |-> IF t \in changed THEN v ELSE rows[t]]
    /\ revision' = revision + 1
    /\ announcing' = [announcing EXCEPT ![w] =
            [full |-> FALSE, rows |-> [t \in changed |-> v], at |-> revision + 1]]
    /\ UNCHANGED <<hubVars, page, refresh>>

-----------------------------------------------------------------------------
(* The hub. *)

\* _notify and publish: without a client nothing is scheduled.
Publish(w) ==
    /\ announcing[w] \notin {None, Unread}
    /\ scheduled' = IF connections = {} THEN scheduled ELSE Append(scheduled, announcing[w])
    /\ announcing' = [announcing EXCEPT ![w] = None]
    /\ UNCHANGED <<rows, revision, connections, greeting, wire, page, refresh>>

\* The event loop accepts the page's socket, which joins the clients; then the coroutine
\* goes on to send_initial, before any other, though threads may act in between.
Connect(s) ==
    /\ page.socket = s /\ s \notin connections /\ greeting = None
    /\ connections' = connections \cup {s}
    /\ greeting' = s
    /\ UNCHANGED <<coreVars, scheduled, wire, page, refresh>>

Broken(s) == page.socket # s

SendInitial ==
    /\ greeting # None
    /\ greeting' = None
    /\ IF Broken(greeting)
       THEN connections' = connections \ {greeting} /\ wire' = wire
       ELSE connections' = connections /\ wire' = [wire EXCEPT ![greeting] = Append(@, Full)]
    /\ UNCHANGED <<coreVars, scheduled, page, refresh>>

\* broadcast: to the clients there are now; those it cannot send to leave.
Broadcast ==
    /\ scheduled # <<>> /\ greeting = None
    /\ scheduled' = Tail(scheduled)
    /\ \E dead \in SUBSET {s \in connections : Broken(s)} :
        /\ connections' = connections \ dead
        /\ wire' = [s \in Sockets |-> IF s \in connections /\ ~Broken(s)
                                      THEN Append(wire[s], Head(scheduled)) ELSE wire[s]]
    /\ UNCHANGED <<coreVars, greeting, page, refresh>>

\* The wait for a message of a broken socket ends.
Disconnect(s) ==
    /\ s \in connections /\ Broken(s) /\ greeting # s
    /\ connections' = connections \ {s}
    /\ UNCHANGED <<coreVars, greeting, scheduled, wire, page, refresh>>

-----------------------------------------------------------------------------
(* The page. *)

\* The rows a snapshot tells.
Told(message) == IF message.full THEN RowNames ELSE DOMAIN message.rows

\* onmessage: a full snapshot replaces the rows, a partial one is merged; and what is read
\* for the page replaces them, without those that a query leaves out.
Shows(message, left) ==
    [page EXCEPT
        !.rows = [t \in RowNames |-> IF t \in left THEN None
                                     ELSE IF t \in Told(message) THEN message.rows[t] ELSE @[t]],
        !.hidden = [t \in RowNames |-> IF t \in left THEN message.rows[t]
                                       ELSE IF t \in Told(message) THEN None ELSE @[t]],
        !.at = [t \in RowNames |-> IF t \in Told(message) THEN message.at ELSE @[t]],
        !.newest = [t \in RowNames |->
                        IF t \in Told(message) /\ message.at > @[t] THEN message.at ELSE @[t]]]

\* openSocket, at first and when a socket closed.
OpenSocket(s) ==
    /\ page.socket = None /\ s \notin connections
    /\ page' = [page EXCEPT !.socket = s]
    /\ UNCHANGED <<coreVars, hubVars, refresh>>

\* The socket breaks; what it had to deliver is lost.
SocketCloses ==
    /\ page.socket # None
    /\ wire' = [wire EXCEPT ![page.socket] = <<>>]
    /\ page' = [page EXCEPT !.socket = None]
    /\ UNCHANGED <<coreVars, connections, greeting, scheduled, refresh>>

OnMessage ==
    /\ page.socket # None /\ wire[page.socket] # <<>>
    /\ wire' = [wire EXCEPT ![page.socket] = Tail(@)]
    /\ page' = Shows(Head(wire[page.socket]), {})
    /\ UNCHANGED <<coreVars, connections, greeting, scheduled, refresh>>

\* refreshRows and handleRunQuery, one at a time: GET /uns/rows and POST /uns/query read the
\* rows under the lock.
ReadRows ==
    /\ refresh = None
    /\ refresh' = Full
    /\ UNCHANGED <<coreVars, hubVars, page>>

\* The answer replaces the rows of the page: all of them after a refresh; a query leaves out
\* those it does not select, or beyond its limit, or whose values are not among its columns.
RowsArrive(left) ==
    /\ refresh # None
    /\ page' = Shows(refresh, left)
    /\ refresh' = None
    /\ UNCHANGED <<coreVars, hubVars>>

\* The request fails: the page says so and keeps its rows.
RequestFails ==
    /\ refresh # None
    /\ refresh' = None
    /\ UNCHANGED <<coreVars, hubVars, page>>

NamespaceNext ==
    \/ \E w \in Writers, tags \in SUBSET RowNames, v \in Values :
        LoadModel(w, tags, v) \/ Update(w, tags, v)
    \/ \E w \in Writers : ReadBack(w) \/ Publish(w)
    \/ \E s \in Sockets : Connect(s) \/ Disconnect(s) \/ OpenSocket(s)
    \/ SendInitial \/ Broadcast
    \/ SocketCloses \/ OnMessage \/ ReadRows \/ RequestFails
    \/ \E left \in SUBSET RowNames : RowsArrive(left)

NamespaceSpec == NamespaceInit /\ [][NamespaceNext]_namespaceVars

-----------------------------------------------------------------------------
\* Nothing is on its way to the page, which is connected and was greeted.
PageAtRest ==
    /\ \A w \in Writers : announcing[w] = None
    /\ scheduled = <<>> /\ greeting = None /\ refresh = None
    /\ page.socket \in connections /\ wire[page.socket] = <<>>

\* The page has the value x for a row: it shows it, or a query left the row out with it.
PageHas(t, x) ==
    \/ page.rows[t] = x
    \/ page.rows[t] = None /\ page.hidden[t] = x

\* The page ends with the rows of the namespace, although announcements leave the lock,
\* are dropped without clients and lost with a socket, and join, snapshot and broadcast
\* overlap them, and queries take rows from it: what it lacks was left out by a query and
\* has not changed since.  A row is stale only if older news of it came after newer, from
\* another writer or a slow answer to the page's request.
PageCatchesUp ==
    PageAtRest => \A t \in RowNames : page.at[t] = page.newest[t] => PageHas(t, rows[t])
===============================================================================
