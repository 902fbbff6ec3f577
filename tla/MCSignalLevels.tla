---------------------------- MODULE MCSignalLevels ----------------------------
\* SignalState for TLC in two areas, each with what the other leaves out: deployments and new
\* mappings; loads of the behaviour layer, polls, and projects that are not evaluated.
EXTENDS MCSignalState

CONSTANT Others \* bound: the projects that are only loaded, polled and traced
VARIABLE area

Fixed(p) == area = "layer" \/ p \in Others

AreaInit ==
    /\ Init
    /\ area \in {"deploys", "layer"}
    /\ \A p \in Projects : Fixed(p) => mapping[p] # {}

AreaNext ==
    /\ Next
    /\ UNCHANGED area
    /\ \A p \in Projects : Fixed(p) => mapping'[p] = mapping[p]
    /\ \A r \in Requests :
        /\ area = "deploys" => req'[r].pc \notin {"load", "report"} /\ req'[r].proj \notin Others
        /\ area = "layer" => req'[r].pc # "sync"
        /\ req'[r].proj \in Others => req'[r].op = "none" /\ req'[r].pc # "snapshot"

AreaSpec == AreaInit /\ [][AreaNext]_<<vars, area>>
=============================================================================
