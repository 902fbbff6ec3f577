-------------------------- MODULE MCConnectorRuntime --------------------------
(***************************************************************************)
(* Instances of ConnectorRuntime for TLC.  The larger one has two parts:   *)
(* requests that race for one connector with every fault, and requests one *)
(* at a time for all connectors, with joins that do not time out.          *)
(***************************************************************************)
EXTENDS ConnectorRuntime, TLC

VARIABLE part \* the connector and the configuration raced for, <<>> for one at a time

Serially == part = <<>>

MCInit ==
    /\ Init
    /\ part \in {<<>>} \cup (Connectors \X Configs)

InPart(r) ==
    ~Serially =>
        /\ req'[r].conn \in {None, part[1]}
        /\ row' = [row EXCEPT ![part[1]] = row'[part[1]]]
        /\ row'[part[1]].config \in {None, part[2]}

OneAtATime == Serially => \A q \in Requests : At(q, "idle")
JoinInTime(r) == Serially /\ At(r, "join") => ~Alive(req[r].held)

MCNext ==
    \/ \E r \in Requests : Arrive(r) /\ InPart(r) /\ OneAtATime /\ UNCHANGED part
    \/ \E r \in Requests : Serve(r) /\ InPart(r) /\ JoinInTime(r) /\ UNCHANGED part
    \/ \E r \in Requests : ~Serially /\ RequestDbError(r) /\ UNCHANGED part
    \/ \E w \in Workers : Work(w) /\ UNCHANGED part
    \/ \E w \in Workers : ~Serially /\ WorkerDbError(w) /\ UNCHANGED part
    \/ Boot /\ UNCHANGED part
    \/ Crash /\ UNCHANGED part

MCSpec == MCInit /\ [][MCNext]_<<vars, part>>

\* The whole of the component with its fairness, no part chosen.
LiveInit == Init /\ part = <<>>

LiveSpec ==
    /\ LiveInit
    /\ [][Next /\ UNCHANGED part]_<<vars, part>>
    /\ Fairness

\* One request at a time: at rest the registry and the configurations agree with the
\* table, and a stopped connector leaves no thread, sample, metadata or flag.
SerialRestIsClean == Serially => RegistryAgreesWithTable /\ StoppedLeavesNothing

\* Requests, threads and configurations are interchangeable.
Symmetry ==
    Permutations(Requests) \cup Permutations(Workers) \cup Permutations(Configs)
        \cup Permutations(Connectors)
=============================================================================
