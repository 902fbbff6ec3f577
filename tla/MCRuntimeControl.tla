--------------------------- MODULE MCRuntimeControl ---------------------------
(***************************************************************************)
(* Instances of RuntimeControl for TLC.  The larger one has two parts:     *)
(* requests that race for one project with every fault, and requests one   *)
(* at a time for all projects, without handoffs or crashes.                *)
(***************************************************************************)
EXTENDS RuntimeControl, TLC

VARIABLE part \* the project raced for, None for one request at a time

Serially == part = None

MCInit ==
    /\ Init
    /\ part \in {None} \cup Projects

InPart(p) == Serially \/ p = part

OneAtATime == Serially => Quiet
NoHandoff(r) == Serially => req'[r].op # "handoff"

MCNext ==
    \/ \E r \in Requests, p \in Projects :
        OneAtATime /\ InPart(p) /\ Deploy(r, p) /\ NoHandoff(r) /\ UNCHANGED part
    \/ \E r \in Requests : OneAtATime /\ Start(r) /\ UNCHANGED part
    \/ \E r \in Requests : OneAtATime /\ Stop(r) /\ UNCHANGED part
    \/ \E r \in Requests : OneAtATime /\ Restart(r) /\ UNCHANGED part
    \/ \E r \in Requests : Serve(r) /\ UNCHANGED part
    \/ \E p \in Projects : InPart(p) /\ Generate(p) /\ UNCHANGED part
    \/ \E p \in Projects : ~Serially /\ InPart(p) /\ Export(p) /\ UNCHANGED part
    \/ \E x \in Processes : End(x) /\ UNCHANGED part
    \/ ~Serially /\ Crash /\ UNCHANGED part

MCSpec == MCInit /\ [][MCNext]_<<vars, part>>

\* The whole of the component, no part chosen.
WholeInit == Init /\ part = None
WholeSpec == WholeInit /\ [][Next /\ UNCHANGED part]_<<vars, part>>

\* One request at a time, for any project: one process drives the plant, and the row of a
\* project tells how its last deploy ended.
SerialRowsTell == Serially => OneProcessGoesOn /\ RowTellsOutcome

\* Projects, requests, processes and file names are interchangeable; texts are not,
\* some of them compile.
Symmetry ==
    Permutations(Projects) \cup Permutations(Requests) \cup Permutations(Processes)
        \cup Permutations(Names)
=============================================================================
