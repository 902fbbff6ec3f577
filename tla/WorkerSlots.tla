------------------------------ MODULE WorkerSlots ------------------------------
(***************************************************************************)
(* What the connector runtime promises about threads, without requests,    *)
(* rows or samples: a connector has one slot, a slot is given to a new     *)
(* thread only when it is empty or its owner has ended, and a live thread  *)
(* that lost its slot never gets one again.                                *)
(***************************************************************************)
CONSTANTS Connectors, Workers, None

VARIABLES owner,  \* connector -> the thread that owns its slot, or None
          alive   \* the threads that run

slots == <<owner, alive>>

Owned(w) == \E c \in Connectors : owner[c] = w

Init == owner = [c \in Connectors |-> None] /\ alive = {}

Launch(c) ==
    /\ owner[c] \notin alive
    /\ \E w \in Workers \ alive :
        /\ ~Owned(w)
        /\ owner' = [owner EXCEPT ![c] = w]
        /\ alive' = alive \cup {w}

Retire(c) == owner' = [owner EXCEPT ![c] = None] /\ UNCHANGED alive

End(w) == w \in alive /\ alive' = alive \ {w} /\ UNCHANGED owner

Restart == owner' = [c \in Connectors |-> None] /\ alive' = {}

Next ==
    \/ \E c \in Connectors : Launch(c) \/ Retire(c)
    \/ \E w \in Workers : End(w)
    \/ Restart

Spec == Init /\ [][Next]_slots
=============================================================================
