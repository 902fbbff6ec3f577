-------------------------------- MODULE SqlPool --------------------------------
(***************************************************************************)
(* The pools of connections to the databases of SQL connectors: threads    *)
(* borrow a connection, try it, use it and give it back or drop it, and    *)
(* stopping a connector closes its pool under those that still use it.     *)
(*                                                                         *)
(* One key of the registry is modelled: pools of other keys share nothing  *)
(* with it. A connection is made while the pool's lock is held, so whoever *)
(* needs the lock waits for it. Which idle connection is taken is left     *)
(* open (the code takes the last one): none is better than another.        *)
(***************************************************************************)
EXTENDS Naturals, FiniteSets, PythonNone

CONSTANTS
    Borrowers,  \* the threads that fetch, test, browse or close
    Pools,      \* identities of pools
    Conns,      \* connections to the database
    PoolSize    \* the configured size

ASSUME PoolAssumption ==
    /\ PoolSize \in Nat \ {0}
    /\ IsFiniteSet(Borrowers)
    /\ None \notin Pools \cup Conns \cup Borrowers

VARIABLES
    registered,  \* the pool the registry has under the key, or None
    pool,        \* what each pool keeps, with what it lost since it was made
    borrower     \* where each thread is, in which pool, with which connection

poolVars == <<registered, pool, borrower>>

NewPool == [idle |-> {}, created |-> 0, lock |-> None, lost |-> 0, dropped |-> FALSE, closed |-> FALSE]

PoolType == [idle : SUBSET Conns, created : 0..PoolSize, lock : {None} \cup Borrowers,
             lost : Nat, dropped : BOOLEAN, closed : BOOLEAN]

BorrowerType ==
    [pc : {"away", "take", "reserve", "connect", "wait", "ping", "use", "drop", "drain"},
     pool : {None} \cup Pools, conn : {None} \cup Conns, second : BOOLEAN]

Away == [pc |-> "away", pool |-> None, conn |-> None, second |-> FALSE]

PoolInit ==
    /\ registered = None
    /\ pool = [p \in Pools |-> NewPool]
    /\ borrower = [b \in Borrowers |-> Away]

\* Those that hold a connection of a pool, or have a slot of it to make one.
Out(p) == {b \in Borrowers : borrower[b].pool = p /\ borrower[b].pc \in {"connect", "ping", "use", "drop"}}

Held == {borrower[b].conn : b \in Borrowers} \ {None}

\* A closed connection is as good as a new one: its identity is used again.
Fresh(c) == c \notin Held /\ \A p \in Pools : c \notin pool[p].idle

At(b, pc) == borrower[b].pc = pc

Move(b, pc) == borrower' = [borrower EXCEPT ![b].pc = pc]

Leave(b) == borrower' = [borrower EXCEPT ![b] = Away]

Unlocked(p) == pool[p].lock = None

\* connection() looks its pool up, or makes one; a pool nobody can reach is gone.
GetPool(b) ==
    /\ At(b, "away")
    /\ IF registered # None
       THEN borrower' = [borrower EXCEPT ![b] = [Away EXCEPT !.pc = "take", !.pool = registered]]
            /\ UNCHANGED <<registered, pool>>
       ELSE \E p \in Pools :
            /\ \A other \in Borrowers : borrower[other].pool # p
            /\ registered' = p
            /\ pool' = [pool EXCEPT ![p] = NewPool]
            /\ borrower' = [borrower EXCEPT ![b] = [Away EXCEPT !.pc = "take", !.pool = p]]

\* acquire takes an idle connection without waiting, or finds none.
TakeIdle(b) == LET p == borrower[b].pool IN
    /\ At(b, "take")
    /\ IF pool[p].idle = {}
       THEN Move(b, "reserve") /\ UNCHANGED pool
       ELSE \E c \in pool[p].idle :
            /\ pool' = [pool EXCEPT ![p].idle = @ \ {c}]
            /\ borrower' = [borrower EXCEPT ![b].pc = "ping", ![b].conn = c]
    /\ UNCHANGED registered

\* With the lock: a slot that is left is taken and the lock kept; or it is time to wait.
Reserve(b) == LET p == borrower[b].pool IN
    /\ At(b, "reserve") /\ Unlocked(p)
    /\ IF pool[p].created < PoolSize
       THEN /\ pool' = [pool EXCEPT ![p].created = @ + 1, ![p].lock = b]
            /\ Move(b, "connect")
       ELSE Move(b, "wait") /\ UNCHANGED pool
    /\ UNCHANGED registered

\* The database accepts; or it refuses, and the slot stays taken for nothing.
NewConnection(b) == LET p == borrower[b].pool IN
    /\ At(b, "connect")
    /\ \/ /\ \E c \in Conns : Fresh(c)
          /\ borrower' = [borrower EXCEPT ![b].pc = "ping", ![b].conn = CHOOSE c \in Conns : Fresh(c)]
          /\ pool' = [pool EXCEPT ![p].lock = None]
       \/ Leave(b) /\ pool' = [pool EXCEPT ![p].lock = None, ![p].lost = @ + 1]
    /\ UNCHANGED registered

\* The wait has no limit, and only a connection that is given back ends it.
Wake(b) == LET p == borrower[b].pool IN
    /\ At(b, "wait")
    /\ \E c \in pool[p].idle :
        /\ pool' = [pool EXCEPT ![p].idle = @ \ {c}]
        /\ borrower' = [borrower EXCEPT ![b].pc = "ping", ![b].conn = c]
    /\ UNCHANGED registered

\* A connection that does not answer is dropped for another; the second is not.
Ping(b) == LET p == borrower[b].pool IN
    /\ At(b, "ping")
    /\ \/ Move(b, "use") /\ UNCHANGED pool
       \/ ~borrower[b].second /\ Move(b, "drop") /\ UNCHANGED pool
       \/ borrower[b].second /\ Leave(b) /\ pool' = [pool EXCEPT ![p].lost = @ + 1]
    /\ UNCHANGED registered

\* Mutant: a connection that is given back is counted as closed.
UseTwice(b) == LET p == borrower[b].pool IN
    /\ At(b, "use")
    /\ \/ /\ pool' = [pool EXCEPT ![p].idle = @ \cup {borrower[b].conn}, ![p].created = IF @ = 0 THEN 0 ELSE @ - 1]
          /\ Leave(b)
       \/ /\ borrower' = [borrower EXCEPT ![b].pc = "drop", ![b].second = TRUE]
          /\ UNCHANGED pool
    /\ UNCHANGED registered

\* The query went well and the connection goes back; a full pool drops it. Or it failed.
Use(b) == LET p == borrower[b].pool IN
    /\ At(b, "use")
    /\ \/ /\ Cardinality(pool[p].idle) < PoolSize
          /\ pool' = [pool EXCEPT ![p].idle = @ \cup {borrower[b].conn}]
          /\ Leave(b)
       \/ /\ borrower' = [borrower EXCEPT ![b].pc = "drop", ![b].second = TRUE]
          /\ UNCHANGED pool
    /\ UNCHANGED registered

\* discard closes and, with the lock, counts down. Nobody who waits is told.
Drop(b) == LET p == borrower[b].pool IN
    /\ At(b, "drop") /\ Unlocked(p)
    /\ pool' = [pool EXCEPT ![p].created = IF @ = 0 THEN 0 ELSE @ - 1, ![p].dropped = TRUE]
    /\ IF borrower[b].second
       THEN Leave(b)
       ELSE borrower' = [borrower EXCEPT ![b] = [@ EXCEPT !.pc = "take", !.conn = None, !.second = TRUE]]
    /\ UNCHANGED registered

\* close_pool takes the pool out of the registry,
ClosePool(b) ==
    /\ At(b, "away") /\ registered # None
    /\ registered' = None
    /\ pool' = [pool EXCEPT ![registered].closed = TRUE]
    /\ borrower' = [borrower EXCEPT ![b] = [Away EXCEPT !.pc = "drain", !.pool = registered]]

\* closes one idle connection after the other, and counts from nothing.
Drain(b) == LET p == borrower[b].pool IN
    /\ At(b, "drain")
    /\ \/ /\ \E c \in pool[p].idle : pool' = [pool EXCEPT ![p].idle = @ \ {c}]
          /\ UNCHANGED borrower
       \/ /\ pool[p].idle = {} /\ Unlocked(p)
          /\ pool' = [pool EXCEPT ![p].created = 0]
          /\ Leave(b)
    /\ UNCHANGED registered

PoolNext == \E b \in Borrowers :
    \/ GetPool(b) \/ TakeIdle(b) \/ Reserve(b) \/ NewConnection(b) \/ Wake(b)
    \/ Ping(b) \/ Use(b) \/ Drop(b) \/ ClosePool(b) \/ Drain(b)

PoolSpec == PoolInit /\ [][PoolNext]_poolVars
-----------------------------------------------------------------------------
PoolTypeOK ==
    /\ registered \in {None} \cup Pools
    /\ pool \in [Pools -> PoolType]
    /\ borrower \in [Borrowers -> BorrowerType]

\* No two threads hold one connection, and none that a thread holds is idle in a pool.
OneHolder ==
    \A b \in Borrowers : borrower[b].conn # None =>
        /\ \A other \in Borrowers \ {b} : borrower[other].conn # borrower[b].conn
        /\ \A p \in Pools : borrower[b].conn \notin pool[p].idle

\* Every slot of a pool that is not closed is idle, out or lost: the pool never has more
\* connections than its size, and a thread that waits for one without end, with none idle or
\* out, waits for a slot that was lost, or for one that was dropped and given to nobody.
SlotsAreAccounted ==
    \A p \in Pools : ~pool[p].closed =>
        /\ pool[p].created = Cardinality(pool[p].idle) + Cardinality(Out(p)) + pool[p].lost
        /\ pool[p].idle = {} /\ Out(p) = {} /\ (\E b \in Borrowers : At(b, "wait") /\ borrower[b].pool = p)
             => pool[p].lost > 0 \/ pool[p].dropped

\* A borrowed connection is its borrower's alone, and the pool of a connector that is not being
\* stopped neither exceeds its size nor lets a thread wait in vain, unless a connection failed.
PoolsLend == OneHolder /\ SlotsAreAccounted
===============================================================================
