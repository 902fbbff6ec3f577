---------------------------- MODULE WorkbenchProofs ----------------------------
(***************************************************************************)
(* What is proved of AI connectors, of accounts and teams, of the SQL      *)
(* connection pools, of the live engineering table, of the configuration   *)
(* of connectors and of how Modbus and SQL connectors are read, for any    *)
(* number of connectors, requests, users, teams, borrowers, pools, rows    *)
(* and pages, any values of the fields of a form, any mappings and any     *)
(* rows.                                                                   *)
(***************************************************************************)
EXTENDS AccessControl, AiConnectors, ConnectorConfig, LiveFeed, SampleReading, SqlPool, FiniteSetTheorems,
        SequenceTheorems, TLAPS

-----------------------------------------------------------------------------
(***************************************************************************)
(* AI connectors: types.                                                   *)
(***************************************************************************)
TableType == [AiIds -> {None} \cup BOOLEAN]
ReqType == [op : {"idle", "create", "delete", "activate"}, id : {None} \cup AiIds,
            wasActive : BOOLEAN]

LEMMA AiIdleType == AiIdle \in ReqType /\ AiIdle.op = "idle"
  BY DEF AiIdle, ReqType

LEMMA AiInitType == AiInit => AiTypeOK
  BY AiIdleType, AiAssumption DEF AiInit, AiTypeOK, ReqType

\* Whichever of the two tables a commit leaves has the type.
LEMMA CommitType ==
    ASSUME AiTypeOK, NEW r \in AiRequests, NEW conns \in TableType, CommitTable(r, conns)
    PROVE  AiTypeOK'
<1>1. ai' \in TableType
  BY DEF AiTypeOK, TableType, CommitTable
<1>2. aiReq' \in [AiRequests -> ReqType]
  BY AiIdleType DEF AiTypeOK, ReqType, CommitTable
<1>3. raced' \in BOOLEAN
  BY DEF CommitTable, Watch, Races, AtRest, OneActive, AiTypeOK
<1>4. QED
  BY <1>1, <1>2, <1>3 DEF AiTypeOK, TableType, ReqType

LEMMA AiStepType == ASSUME AiTypeOK, AiNext PROVE AiTypeOK'
<1>1. ai \in TableType /\ aiReq \in [AiRequests -> ReqType]
  BY DEF AiTypeOK, TableType, ReqType
<1>2. PICK r \in AiRequests :
        \/ \E i \in AiIds : ReadActive(r, i)
        \/ \E op \in {"delete", "activate"}, i \in AiIds : ReadRow(r, op, i)
        \/ CreateConnector(r) \/ DeleteConnector(r) \/ ActivateConnector(r)
  BY DEF AiNext
<1>3. ASSUME NEW i \in AiIds, ReadActive(r, i) PROVE AiTypeOK'
  <2>1. [op |-> "create", id |-> i, wasActive |-> Active(ai) # {}] \in ReqType
    BY DEF ReqType
  <2>2. aiReq' \in [AiRequests -> ReqType]
    BY <1>1, <1>3, <2>1 DEF ReadActive
  <2>3. raced' \in BOOLEAN
    BY <1>3 DEF ReadActive, Watch, Races, AtRest, OneActive, AiTypeOK
  <2>4. QED
    BY <1>1, <1>3, <2>2, <2>3 DEF ReadActive, AiTypeOK, TableType, ReqType
<1>4. ASSUME NEW op \in {"delete", "activate"}, NEW i \in AiIds, ReadRow(r, op, i)
      PROVE  AiTypeOK'
  <2>1. ai[i] \in BOOLEAN
    BY <1>1, <1>4 DEF ReadRow, TableType
  <2>2. [op |-> op, id |-> i, wasActive |-> ai[i]] \in ReqType
    BY <2>1 DEF ReqType
  <2>3. aiReq' \in [AiRequests -> ReqType]
    BY <1>1, <1>4, <2>2 DEF ReadRow
  <2>4. raced' \in BOOLEAN
    BY <1>4 DEF ReadRow, Watch, Races, AtRest, OneActive, AiTypeOK
  <2>5. QED
    BY <1>1, <1>4, <2>3, <2>4 DEF ReadRow, AiTypeOK, TableType, ReqType
<1>5. ASSUME CreateConnector(r) PROVE AiTypeOK'
  <2>1. [ai EXCEPT ![aiReq[r].id] = ~aiReq[r].wasActive] \in TableType
    <3>1. (~aiReq[r].wasActive) \in BOOLEAN
      OBVIOUS
    <3>2. QED
      BY <1>1, <3>1 DEF TableType
  <2>2. QED
    BY <1>5, <2>1, CommitType DEF CreateConnector
<1>6. ASSUME DeleteConnector(r) PROVE AiTypeOK'
  <2> DEFINE remaining == [ai EXCEPT ![aiReq[r].id] = None]
  <2>1. remaining \in TableType
    BY <1>1 DEF TableType
  <2>2. \A i \in AiIds : [remaining EXCEPT ![i] = TRUE] \in TableType
    BY <2>1 DEF TableType
  <2>3. Stored(remaining) \subseteq AiIds
    BY DEF Stored
  <2>4. \/ CommitTable(r, remaining)
        \/ \E i \in AiIds : CommitTable(r, [remaining EXCEPT ![i] = TRUE])
    BY <1>6, <2>3 DEF DeleteConnector
  <2>5. QED
    BY <2>1, <2>2, <2>4, CommitType
<1>7. ASSUME ActivateConnector(r) PROVE AiTypeOK'
  <2>1. [i \in AiIds |-> IF ai[i] = None THEN None ELSE i = aiReq[r].id] \in TableType
    BY DEF TableType
  <2>2. QED
    BY <1>7, <2>1, CommitType DEF ActivateConnector
<1>8. QED
  BY <1>2, <1>3, <1>4, <1>5, <1>6, <1>7

\* Every variable of the AI connectors keeps its type, for any connectors and requests.
THEOREM AiTypes == AiSpec => []AiTypeOK
<1>1. ASSUME AiTypeOK, UNCHANGED aiVars PROVE AiTypeOK'
  BY <1>1 DEF AiTypeOK, aiVars
<1>2. AiTypeOK /\ [AiNext]_aiVars => AiTypeOK'
  BY <1>1, AiStepType
<1>3. QED
  BY AiInitType, <1>2, PTL DEF AiSpec

-----------------------------------------------------------------------------
(***************************************************************************)
(* AI connectors: the active one.                                          *)
(*                                                                         *)
(* While nothing has raced, what each request has read still holds, except *)
(* that a creation may have missed a first connector: the index refuses    *)
(* the second active row it then asks for.                                 *)
(***************************************************************************)
ReadHolds(conns, q) ==
    /\ q.op = "create" => q.id \in AiIds /\ conns[q.id] = None
                          /\ (q.wasActive => Active(conns) # {})
    /\ q.op = "activate" => q.id \in AiIds /\ conns[q.id] # None
    /\ q.op = "delete" => q.id \in AiIds /\ conns[q.id] # None /\ q.wasActive = conns[q.id]

Distinct(reqs) ==
    \A r, q \in AiRequests :
        r # q /\ reqs[r].op = "create" /\ reqs[q].op = "create" => reqs[r].id # reqs[q].id

Sound(conns, reqs) ==
    /\ OneActive(conns)
    /\ ~Races(reqs)
    /\ Distinct(reqs)
    /\ \A r \in AiRequests : ReadHolds(conns, reqs[r])

AiInv == AiTypeOK /\ (raced \/ Sound(ai, aiReq))

\* When a step ends with nothing raced, either nothing had raced before it, or it left all
\* requests idle and the table sound.
LEMMA WatchFacts ==
    ASSUME AiTypeOK, AiTypeOK', Watch, ~raced'
    PROVE  /\ ~Races(aiReq')
           /\ ~raced \/ (AtRest(aiReq') /\ OneActive(ai'))
  BY DEF Watch, AiTypeOK

LEMMA IdleIsSound ==
    ASSUME NEW conns \in TableType, NEW reqs \in [AiRequests -> ReqType],
           AtRest(reqs), OneActive(conns)
    PROVE  Sound(conns, reqs)
  BY DEF AtRest, Sound, Races, Distinct, ReadHolds

\* It is enough to look at steps before and after which nothing has raced.
LEMMA Unraced ==
    ASSUME AiInv, AiTypeOK', Watch,
           ~raced /\ ~Races(aiReq') => Sound(ai', aiReq')
    PROVE  AiInv'
<1>1. CASE raced'
  BY <1>1 DEF AiInv
<1>2. CASE ~raced'
  <2>1. ai' \in TableType /\ aiReq' \in [AiRequests -> ReqType]
    BY DEF AiTypeOK, TableType, ReqType
  <2>2. ~Races(aiReq') /\ (~raced \/ (AtRest(aiReq') /\ OneActive(ai')))
    BY <1>2, WatchFacts DEF AiInv
  <2>3. Sound(ai', aiReq')
    BY <2>1, <2>2, IdleIsSound
  <2>4. QED
    BY <2>3 DEF AiInv
<1>3. QED
  BY <1>1, <1>2

\* A commit of a request that leaves the table as it was.
LEMMA FinishKeepsSound ==
    ASSUME NEW conns \in TableType, NEW reqs \in [AiRequests -> ReqType], NEW r \in AiRequests,
           Sound(conns, reqs)
    PROVE  Sound(conns, [reqs EXCEPT ![r] = AiIdle])
  BY AiIdleType DEF Sound, Races, Distinct, ReadHolds, ReqType, TableType

\* A creation, whichever of the two tables it leaves.
LEMMA CreateKeepsSound ==
    ASSUME AiTypeOK, Sound(ai, aiReq), NEW r \in AiRequests, CreateConnector(r)
    PROVE  Sound(ai', aiReq')
<1> DEFINE id == aiReq[r].id
           conns == [ai EXCEPT ![id] = ~aiReq[r].wasActive]
<1>1. ai \in TableType /\ aiReq \in [AiRequests -> ReqType]
  BY DEF AiTypeOK, TableType, ReqType
<1>2. id \in AiIds /\ ai[id] = None /\ (aiReq[r].wasActive => Active(ai) # {})
  BY DEF CreateConnector, Sound, ReadHolds
<1>3. aiReq' = [aiReq EXCEPT ![r] = AiIdle]
  BY DEF CreateConnector, CommitTable
<1>4. CASE ai' = ai
  BY <1>1, <1>3, <1>4, FinishKeepsSound
<1>5. CASE ai' = conns /\ (\A i, j \in Active(conns) : i = j)
  <2>1. aiReq[r].wasActive \in BOOLEAN
    BY <1>1 DEF ReqType
  <2>2. ASSUME aiReq[r].wasActive PROVE OneActive(conns)
    <3>1. conns[id] = FALSE
      BY <1>1, <1>2, <2>2 DEF TableType
    <3>2. Active(conns) = Active(ai)
      BY <1>1, <1>2, <3>1, AiAssumption DEF Active, TableType
    <3>3. PICK i \in AiIds : Active(ai) = {i}
      <4>1. PICK j \in AiIds : ai[j] = TRUE
        BY <1>2, <2>2 DEF Active
      <4>2. j \in Stored(ai)
        BY <4>1, AiAssumption DEF Stored
      <4>3. QED
        BY <4>2 DEF Sound, OneActive
    <3>4. QED
      BY <3>2, <3>3 DEF OneActive
  <2>3. ASSUME ~aiReq[r].wasActive PROVE OneActive(conns)
    <3>1. conns[id] = TRUE
      BY <1>1, <1>2, <2>1, <2>3 DEF TableType
    <3>2. id \in Active(conns)
      BY <1>2, <3>1 DEF Active
    <3>3. Active(conns) = {id}
      BY <1>5, <3>2 DEF Active
    <3>4. QED
      BY <1>2, <3>3 DEF OneActive
  <2>4. OneActive(conns)
    BY <2>1, <2>2, <2>3
  <2>5. ASSUME NEW q \in AiRequests PROVE ReadHolds(conns, aiReq'[q])
    <3>1. CASE q = r
      BY <1>1, <1>3, <3>1, AiIdleType DEF ReadHolds
    <3>2. CASE q # r
      <4>1. aiReq'[q] = aiReq[q] /\ aiReq[q] \in ReqType
        BY <1>1, <1>3, <3>2
      <4>2. ReadHolds(ai, aiReq[q])
        BY DEF Sound
      <4>3. aiReq[q].op # "delete"
        BY <3>2 DEF Sound, Races, CreateConnector
      <4>4. aiReq[q].op = "create" => aiReq[q].id # id
        BY <3>2 DEF Sound, Distinct, CreateConnector
      <4>5. Active(ai) \subseteq Active(conns)
        BY <1>1, <1>2, AiAssumption DEF Active, TableType
      <4>6. \A i \in AiIds : i # id => conns[i] = ai[i]
        BY <1>1 DEF TableType
      <4>7. conns[id] # None
        BY <1>1, <1>2, <2>1, AiAssumption DEF TableType
      <4>8. QED
        BY <4>1, <4>2, <4>3, <4>4, <4>5, <4>6, <4>7 DEF ReadHolds
    <3>3. QED
      BY <3>1, <3>2
  <2>6. ~Races(aiReq') /\ Distinct(aiReq')
    BY <1>1, <1>3, FinishKeepsSound DEF Sound
  <2>7. QED
    BY <1>5, <2>4, <2>5, <2>6 DEF Sound
<1>6. QED
  BY <1>4, <1>5 DEF CreateConnector, CommitTable

\* A deletion beside which nothing runs: the others are idle.
LEMMA DeleteKeepsSound ==
    ASSUME AiTypeOK, Sound(ai, aiReq), NEW r \in AiRequests, DeleteConnector(r)
    PROVE  Sound(ai', aiReq')
<1> DEFINE id == aiReq[r].id
           remaining == [ai EXCEPT ![id] = None]
<1>1. ai \in TableType /\ aiReq \in [AiRequests -> ReqType]
  BY DEF AiTypeOK, TableType, ReqType
<1>2. id \in AiIds /\ ai[id] # None /\ aiReq[r].wasActive = ai[id]
  BY DEF DeleteConnector, Sound, ReadHolds
<1>3. aiReq' = [aiReq EXCEPT ![r] = AiIdle]
  BY DEF DeleteConnector, CommitTable
<1>4. AtRest(aiReq')
  BY <1>1, <1>3, AiIdleType DEF AtRest, Sound, Races, DeleteConnector
<1>5. PICK k \in AiIds : Active(ai) = {k}
  BY <1>2 DEF Sound, OneActive, Stored
<1>6. remaining \in TableType
  BY <1>1 DEF TableType
<1>7. Active(remaining) = Active(ai) \ {id}
  BY <1>1, <1>2, AiAssumption DEF Active, TableType
<1>8. ASSUME ai[id] = TRUE PROVE OneActive(ai')
  <2>1. Active(remaining) = {}
    BY <1>2, <1>5, <1>7, <1>8 DEF Active
  <2>2. ASSUME NEW i \in Stored(remaining)
        PROVE  Active([remaining EXCEPT ![i] = TRUE]) = {i}
    BY <1>6, <2>1 DEF Active, Stored, TableType
  <2>3. \A i \in Stored(remaining) : OneActive([remaining EXCEPT ![i] = TRUE])
    BY <2>2 DEF OneActive, Stored
  <2>4. CASE Stored(remaining) = {} /\ CommitTable(r, remaining)
    <3>1. ai' = remaining
      BY <2>1, <2>4 DEF CommitTable
    <3>2. QED
      BY <3>1, <2>4 DEF OneActive
  <2>5. CASE \E i \in Stored(remaining) : CommitTable(r, [remaining EXCEPT ![i] = TRUE])
    <3>1. PICK i \in Stored(remaining) : CommitTable(r, [remaining EXCEPT ![i] = TRUE])
      BY <2>5
    <3>2. ai' = [remaining EXCEPT ![i] = TRUE]
      BY <2>2, <3>1 DEF CommitTable
    <3>3. QED
      BY <2>3, <3>2
  <2>6. QED
    BY <1>2, <1>8, <2>4, <2>5 DEF DeleteConnector
<1>9. ASSUME ai[id] # TRUE PROVE OneActive(ai')
  <2>1. ai[id] = FALSE
    BY <1>1, <1>2, <1>9 DEF TableType
  <2>2. Active(remaining) = {k}
    BY <1>5, <1>7, <1>9 DEF Active
  <2>3. CommitTable(r, remaining)
    BY <1>2, <2>1 DEF DeleteConnector
  <2>4. ai' = remaining
    BY <2>2, <2>3 DEF CommitTable
  <2>5. QED
    BY <2>2, <2>4 DEF OneActive
<1>10. ai' \in TableType /\ aiReq' \in [AiRequests -> ReqType]
  <2>1. AiNext
    BY DEF AiNext
  <2>2. QED
    BY <2>1, AiStepType DEF AiTypeOK, TableType, ReqType
<1>11. QED
  BY <1>4, <1>8, <1>9, <1>10, IdleIsSound

\* An activation: the row it read is still there.
LEMMA ActivateKeepsSound ==
    ASSUME AiTypeOK, Sound(ai, aiReq), NEW r \in AiRequests, ActivateConnector(r)
    PROVE  Sound(ai', aiReq')
<1> DEFINE id == aiReq[r].id
           conns == [i \in AiIds |-> IF ai[i] = None THEN None ELSE i = id]
<1>1. ai \in TableType /\ aiReq \in [AiRequests -> ReqType]
  BY DEF AiTypeOK, TableType, ReqType
<1>2. id \in AiIds /\ ai[id] # None
  BY DEF ActivateConnector, Sound, ReadHolds
<1>3. aiReq' = [aiReq EXCEPT ![r] = AiIdle]
  BY DEF ActivateConnector, CommitTable
<1>4. Active(conns) = {id}
  BY <1>2, AiAssumption DEF Active
<1>5. ai' = conns
  BY <1>4 DEF ActivateConnector, CommitTable
<1>6. ASSUME NEW q \in AiRequests PROVE ReadHolds(conns, aiReq'[q])
  <2>1. CASE q = r
    BY <1>1, <1>3, <2>1, AiIdleType DEF ReadHolds
  <2>2. CASE q # r
    <3>1. aiReq'[q] = aiReq[q] /\ aiReq[q] \in ReqType
      BY <1>1, <1>3, <2>2
    <3>2. ReadHolds(ai, aiReq[q])
      BY DEF Sound
    <3>3. aiReq[q].op # "delete"
      BY <2>2 DEF Sound, Races, ActivateConnector
    <3>4. \A i \in AiIds : conns[i] = None <=> ai[i] = None
      BY AiAssumption
    <3>5. QED
      BY <1>4, <3>1, <3>2, <3>3, <3>4 DEF ReadHolds
  <2>3. QED
    BY <2>1, <2>2
<1>7. ~Races(aiReq') /\ Distinct(aiReq')
  BY <1>1, <1>3, FinishKeepsSound DEF Sound
<1>8. QED
  BY <1>2, <1>4, <1>5, <1>6, <1>7 DEF Sound, OneActive

LEMMA AiStepSound == ASSUME AiInv, AiNext PROVE AiInv'
<1>1. AiTypeOK /\ AiTypeOK'
  BY AiStepType DEF AiInv
<1>2. ai \in TableType /\ aiReq \in [AiRequests -> ReqType]
  BY <1>1 DEF AiTypeOK, TableType, ReqType
<1>3. PICK r \in AiRequests :
        \/ \E i \in AiIds : ReadActive(r, i)
        \/ \E op \in {"delete", "activate"}, i \in AiIds : ReadRow(r, op, i)
        \/ CreateConnector(r) \/ DeleteConnector(r) \/ ActivateConnector(r)
  BY DEF AiNext
<1>4. Watch
  BY <1>3 DEF ReadActive, ReadRow, CreateConnector, DeleteConnector, ActivateConnector, CommitTable
<1>5. SUFFICES ASSUME ~raced, ~Races(aiReq') PROVE Sound(ai', aiReq')
  BY <1>1, <1>4, Unraced
<1>6. Sound(ai, aiReq)
  BY <1>5 DEF AiInv
<1>7. ASSUME NEW q \in ReqType, aiReq' = [aiReq EXCEPT ![r] = q], ai' = ai, ReadHolds(ai, q),
             q.op = "create" => \A p \in AiRequests : aiReq[p].op = "create" => aiReq[p].id # q.id
      PROVE  Sound(ai', aiReq')
  BY <1>2, <1>5, <1>6, <1>7 DEF Sound, Distinct
<1>8. ASSUME NEW i \in AiIds, ReadActive(r, i) PROVE Sound(ai', aiReq')
  <2> DEFINE q == [op |-> "create", id |-> i, wasActive |-> Active(ai) # {}]
  <2>1. q \in ReqType /\ ReadHolds(ai, q)
    BY <1>8 DEF ReqType, ReadHolds, ReadActive
  <2>2. QED
    BY <1>7, <1>8, <2>1 DEF ReadActive
<1>9. ASSUME NEW op \in {"delete", "activate"}, NEW i \in AiIds, ReadRow(r, op, i)
      PROVE  Sound(ai', aiReq')
  <2> DEFINE q == [op |-> op, id |-> i, wasActive |-> ai[i]]
  <2>1. ai[i] \in BOOLEAN
    BY <1>2, <1>9 DEF ReadRow, TableType
  <2>2. q \in ReqType /\ ReadHolds(ai, q) /\ q.op # "create"
    BY <1>9, <2>1 DEF ReqType, ReadHolds, ReadRow
  <2>3. QED
    BY <1>7, <1>9, <2>2 DEF ReadRow
<1>10. QED
  BY <1>1, <1>3, <1>6, <1>8, <1>9, CreateKeepsSound, DeleteKeepsSound, ActivateKeepsSound

\* However creations, activations and deletions interleave, a user with connectors has
\* exactly one active, unless a deletion ran beside another request.
THEOREM OneActiveConnector == AiSpec => []OneActiveUnlessRaced
<1>1. AiInit => AiInv
  <2>1. ASSUME AiInit PROVE AiInv
    <3>1. Stored(ai) = {}
      BY <2>1 DEF AiInit, Stored
    <3>2. OneActive(ai) /\ AtRest(aiReq)
      BY <2>1, <3>1, AiIdleType DEF AiInit, OneActive, AtRest
    <3>3. AiTypeOK
      BY <2>1, AiInitType
    <3>4. QED
      BY <3>2, <3>3, IdleIsSound DEF AiInv, AiTypeOK, TableType, ReqType
  <2>2. QED
    BY <2>1
<1>2. ASSUME AiInv, UNCHANGED aiVars PROVE AiInv'
  BY <1>2 DEF AiInv, AiTypeOK, aiVars, Sound, OneActive, Races, Distinct, ReadHolds, Stored, Active
<1>3. AiInv /\ [AiNext]_aiVars => AiInv'
  BY <1>2, AiStepSound
<1>4. AiInv => OneActiveUnlessRaced
  BY DEF AiInv, Sound, OneActiveUnlessRaced
<1>5. QED
  BY <1>1, <1>3, <1>4, PTL DEF AiSpec

-----------------------------------------------------------------------------
(***************************************************************************)
(* Accounts and teams: types.                                              *)
(***************************************************************************)
UserTable == [Emails -> {None} \cup UserType]
TeamTable == [TeamIds -> {None} \cup TeamType]

LEMMA UserFacts ==
    /\ \A u \in UserType : u # None
    /\ \A account \in {"sandbox", "paid"}, plan \in {None, "solo", "team"} :
            DefaultUser(account, plan) \in UserType
    /\ \A u \in UserType, role \in Roles : [u EXCEPT !.role = role] \in UserType
    /\ \A t \in TeamIds, role \in Roles :
            [account |-> "paid", plan |-> "team", team |-> t, workspace |-> t, role |-> role]
                \in UserType
  BY AccessNoneAssumption DEF UserType, DefaultUser, Roles

LEMMA GainedFacts ==
    ASSUME NEW u \in UserType, NEW account \in {"sandbox", "paid"},
           NEW plan \in {None, "solo", "team"}
    PROVE  /\ Gained(u, account, plan) \in UserType
           /\ Gained(u, account, plan).team = u.team
           /\ Gained(u, account, plan).workspace = u.workspace
  BY DEF Gained, UserType

LEMMA EnsuredType ==
    ASSUME NEW us \in UserTable, NEW S \in SUBSET Emails
    PROVE  Ensured(us, S) \in UserTable /\ \A e \in S : Ensured(us, S)[e] \in UserType
  BY UserFacts DEF Ensured, UserTable

LEMMA TeamFacts ==
    /\ \A t \in TeamType : t # None /\ t.owner \in Emails
                           /\ t.members \in [Emails -> {None} \cup Roles]
    /\ \A e \in Emails, members \in [Emails -> {None} \cup Roles] :
            [owner |-> e, members |-> members] \in TeamType
  BY AccessNoneAssumption DEF TeamType

LEMMA EmptyType == Empty \in Tables /\ Empty.users \in UserTable /\ Empty.teams \in TeamTable
  BY DEF Empty, Tables, UserTable, TeamTable

LEMMA AccessTypeParts ==
    AccessTypeOK <=> /\ users \in UserTable /\ teams \in TeamTable
                     /\ accessFile \in {None} \cup Tables
  BY DEF AccessTypeOK, UserTable, TeamTable

LEMMA SaveType ==
    ASSUME users' \in UserTable, teams' \in TeamTable, Save
    PROVE  AccessTypeOK'
  BY DEF Save, AccessTypeOK, UserTable, TeamTable, Tables

\* What the guard of an admin's request gives: the team exists.
LEMMA Managed ==
    ASSUME AccessTypeOK, NEW admin \in Emails, MayManage(admin)
    PROVE  Team(admin) \in TeamIds /\ teams[Team(admin)] \in TeamType
<1>1. users[admin] \in UserType
  BY DEF AccessTypeOK, MayManage
<1>2. Team(admin) \in TeamIds
  BY <1>1 DEF UserType, Team, MayManage
<1>3. QED
  BY <1>2 DEF AccessTypeOK, MayManage

LEMMA AccessStepType == ASSUME AccessTypeOK, AccessNext PROVE AccessTypeOK'
<1>1. users \in UserTable /\ teams \in TeamTable /\ accessFile \in {None} \cup Tables
  BY AccessTypeParts
<1>2. ASSUME NEW e \in Emails, NEW account \in {"sandbox", "paid"},
             NEW plan \in {None, "solo", "team"}, Register(e, account, plan)
      PROVE  AccessTypeOK'
  <2>1. CASE users' = [users EXCEPT ![e] = DefaultUser(account, plan)] /\ Save
    <3>1. users' \in UserTable /\ teams' \in TeamTable
      BY <1>1, <1>2, <2>1, UserFacts DEF UserTable, Register
    <3>2. QED
      BY <2>1, <3>1, SaveType
  <2>2. CASE users[e] # None /\ users' = [users EXCEPT ![e] = Gained(users[e], account, plan)]
             /\ UNCHANGED accessFile
    <3>1. users[e] \in UserType
      BY <1>1, <2>2 DEF UserTable
    <3>2. users' \in UserTable
      BY <1>1, <2>2, <3>1, GainedFacts DEF UserTable
    <3>3. QED
      BY <1>1, <1>2, <2>2, <3>2 DEF Register, AccessTypeOK, UserTable, TeamTable
  <2>3. QED
    BY <1>2, <2>1, <2>2 DEF Register
<1>3. ASSUME NEW e \in Emails, NEW t \in TeamIds, CheckoutTeam(e, t) PROVE AccessTypeOK'
  <2> DEFINE known == Ensured(users, {e})
             team == [owner |-> e,
                      members |-> [m \in Emails |->
                        IF m = e THEN "admin"
                        ELSE IF teams[t] = None THEN None ELSE teams[t].members[m]]]
  <2>1. known \in UserTable
    BY <1>1, EnsuredType
  <2>2. team \in TeamType
    BY <1>1, TeamFacts DEF TeamTable, Roles
  <2>3. users' \in UserTable
    BY <1>3, <2>1, UserFacts DEF CheckoutTeam, UserTable, Roles
  <2>4. teams' = [teams EXCEPT ![t] = team]
    BY <1>3 DEF CheckoutTeam
  <2>5. teams' \in TeamTable
    BY <1>1, <2>2, <2>4 DEF TeamTable
  <2>6. QED
    BY <1>3, <2>3, <2>5, SaveType DEF CheckoutTeam
<1>4. ASSUME NEW e \in Emails, CheckoutSolo(e) PROVE AccessTypeOK'
  <2> DEFINE known == Ensured(users, {e})
             u == [account |-> "paid", plan |-> "solo", team |-> None,
                   workspace |-> IF known[e].workspace = None THEN "own" ELSE known[e].workspace,
                   role |-> "admin"]
  <2>1. known \in UserTable /\ known[e] \in UserType
    BY <1>1, EnsuredType
  <2>2. u \in UserType
    BY <2>1 DEF UserType, Roles
  <2>3. users' = [known EXCEPT ![e] = u]
    BY <1>4 DEF CheckoutSolo
  <2>4. users' \in UserTable
    BY <2>1, <2>2, <2>3 DEF UserTable
  <2>5. QED
    BY <1>1, <1>4, <2>4, SaveType DEF CheckoutSolo, TeamTable
<1>5. ASSUME NEW admin \in Emails, NEW S \in SUBSET Emails, InviteTeamMembers(admin, S)
      PROVE  AccessTypeOK'
  <2> DEFINE t == Team(admin)
             members == [e \in Emails |-> IF e \in S THEN "member" ELSE teams[t].members[e]]
  <2>1. t \in TeamIds /\ teams[t] \in TeamType
    BY <1>5, Managed DEF InviteTeamMembers
  <2>2. users' \in UserTable
    BY <1>1, <1>5, <2>1, UserFacts DEF InviteTeamMembers, UserTable, Roles
  <2>3. members \in [Emails -> {None} \cup Roles]
    BY <2>1, TeamFacts DEF Roles
  <2>4. [teams[t] EXCEPT !.members = members] \in TeamType
    BY <2>1, <2>3 DEF TeamType
  <2>5. teams' = [teams EXCEPT ![t] = [teams[t] EXCEPT !.members = members]]
    BY <1>1, <1>5, <2>1 DEF InviteTeamMembers, TeamTable
  <2>6. teams' \in TeamTable
    BY <1>1, <2>4, <2>5 DEF TeamTable
  <2>7. QED
    BY <1>5, <2>2, <2>6, SaveType DEF InviteTeamMembers
<1>6. ASSUME NEW admin \in Emails, NEW e \in Emails, NEW entry \in {None} \cup Roles,
             MayManage(admin), teams' = [teams EXCEPT ![Team(admin)].members[e] = entry]
      PROVE  teams' \in TeamTable
  <2> DEFINE t == Team(admin)
             members == [teams[t].members EXCEPT ![e] = entry]
  <2>1. t \in TeamIds /\ teams[t] \in TeamType
    BY <1>6, Managed
  <2>2. members \in [Emails -> {None} \cup Roles]
    BY <1>6, <2>1, TeamFacts
  <2>3. [teams[t] EXCEPT !.members = members] \in TeamType
    BY <2>1, <2>2 DEF TeamType
  <2>4. teams' = [teams EXCEPT ![t] = [teams[t] EXCEPT !.members = members]]
    BY <1>1, <1>6, <2>1 DEF TeamTable
  <2>5. QED
    BY <1>1, <2>3, <2>4 DEF TeamTable
<1>7. ASSUME NEW admin \in Emails, NEW e \in Emails, RemoveTeamMember(admin, e)
      PROVE  AccessTypeOK'
  <2>1. teams' \in TeamTable
    BY <1>6, <1>7 DEF RemoveTeamMember
  <2>2. users' \in UserTable
    BY <1>1, <1>7, UserFacts DEF RemoveTeamMember, UserTable
  <2>3. QED
    BY <1>7, <2>1, <2>2, SaveType DEF RemoveTeamMember
<1>8. ASSUME NEW admin \in Emails, NEW e \in Emails, NEW role \in {"admin", "member"},
             SetRole(admin, e, role)
      PROVE  AccessTypeOK'
  <2>1. role \in Roles
    BY DEF Roles
  <2>2. teams' \in TeamTable
    BY <1>6, <1>8, <2>1 DEF SetRole
  <2>3. Ensured(users, {e}) \in UserTable /\ Ensured(users, {e})[e] \in UserType
    BY <1>1, EnsuredType
  <2>4. [Ensured(users, {e})[e] EXCEPT !.role = role] \in UserType
    BY <2>1, <2>3, UserFacts
  <2>5. users' = [Ensured(users, {e}) EXCEPT ![e] = [Ensured(users, {e})[e] EXCEPT !.role = role]]
    BY <1>8, <2>3 DEF SetRole, UserTable
  <2>6. users' \in UserTable
    BY <2>3, <2>4, <2>5 DEF UserTable
  <2>7. QED
    BY <1>8, <2>2, <2>6, SaveType DEF SetRole
<1>9. ASSUME Restart PROVE AccessTypeOK'
  BY <1>1, <1>9, EmptyType, AccessNoneAssumption
     DEF Restart, AccessTypeOK, UserTable, TeamTable, Tables
<1>10. QED
  BY <1>2, <1>3, <1>4, <1>5, <1>7, <1>8, <1>9 DEF AccessNext

\* Every variable of accounts and teams keeps its type, for any users and teams.
THEOREM AccessTypes == AccessSpec => []AccessTypeOK
<1>1. AccessInit => AccessTypeOK
  BY EmptyType DEF AccessInit, AccessTypeOK, UserTable, TeamTable
<1>2. ASSUME AccessTypeOK, UNCHANGED accessVars PROVE AccessTypeOK'
  BY <1>2 DEF AccessTypeOK, accessVars
<1>3. AccessTypeOK /\ [AccessNext]_accessVars => AccessTypeOK'
  BY <1>2, AccessStepType
<1>4. QED
  BY <1>1, <1>3, PTL DEF AccessSpec

-----------------------------------------------------------------------------
(***************************************************************************)
(* Accounts and teams: the lists.  What the file holds is as sound as what *)
(* is in memory, since a start of the process may bring it back.           *)
(***************************************************************************)
Lists(us, ts) == ListsTheirUsers(us, ts) /\ ListsItsOwner(ts)

AccessInv ==
    /\ AccessTypeOK
    /\ Lists(users, teams)
    /\ accessFile # None => Lists(accessFile.users, accessFile.teams)

\* Both conjuncts, for the users and the teams of a step.
LEMMA ListsAfter ==
    ASSUME NEW us \in UserTable, NEW ts \in TeamTable,
           \A e \in Emails, t \in TeamIds :
                us[e] # None /\ t \in {us[e].team, us[e].workspace} =>
                    ts[t] # None /\ ts[t].members[e] # None,
           \A t \in TeamIds : ts[t] # None => ts[t].members[ts[t].owner] # None
    PROVE  Lists(us, ts)
  BY DEF Lists, ListsTheirUsers, ListsItsOwner

LEMMA SaveLists ==
    ASSUME AccessTypeOK', Lists(users', teams'), Save
    PROVE  AccessInv'
  BY DEF Save, AccessInv, Lists, ListsTheirUsers, ListsItsOwner

\* A user nobody knew is in no team.
LEMMA EnsuredFacts ==
    ASSUME NEW us \in UserTable, NEW S \in SUBSET Emails, NEW e \in Emails,
           Ensured(us, S)[e] # None
    PROVE  \/ Ensured(us, S)[e] = us[e] /\ us[e] # None
           \/ Ensured(us, S)[e].team = None /\ Ensured(us, S)[e].workspace = None
  BY DEF Ensured, UserTable, DefaultUser

LEMMA RegisterLists ==
    ASSUME AccessInv, AccessTypeOK', NEW e \in Emails, NEW account \in {"sandbox", "paid"},
           NEW plan \in {None, "solo", "team"}, Register(e, account, plan)
    PROVE  AccessInv'
<1>1. users \in UserTable /\ teams \in TeamTable /\ users' \in UserTable /\ teams' = teams
  BY DEF AccessInv, AccessTypeOK, UserTable, TeamTable, Register
<1>2. ASSUME NEW u \in UserType, users' = [users EXCEPT ![e] = u],
             \/ u.team = None /\ u.workspace = None
             \/ users[e] # None /\ u.team = users[e].team /\ u.workspace = users[e].workspace
      PROVE  Lists(users', teams')
  BY <1>1, <1>2, AccessAssumption
     DEF AccessInv, Lists, ListsTheirUsers, ListsItsOwner, UserTable
<1>3. CASE users' = [users EXCEPT ![e] = DefaultUser(account, plan)] /\ Save
  <2>1. DefaultUser(account, plan) \in UserType
        /\ DefaultUser(account, plan).team = None /\ DefaultUser(account, plan).workspace = None
    BY UserFacts DEF DefaultUser
  <2>2. Lists(users', teams')
    BY <1>2, <1>3, <2>1
  <2>3. QED
    BY <1>3, <2>2, SaveLists
<1>4. CASE users[e] # None /\ users' = [users EXCEPT ![e] = Gained(users[e], account, plan)]
           /\ UNCHANGED accessFile
  <2>1. users[e] \in UserType
    BY <1>1, <1>4 DEF UserTable
  <2>2. Lists(users', teams')
    BY <1>2, <1>4, <2>1, GainedFacts
  <2>3. QED
    BY <1>4, <2>2 DEF AccessInv, Lists, ListsTheirUsers, ListsItsOwner
<1>5. QED
  BY <1>3, <1>4 DEF Register

LEMMA CheckoutTeamLists ==
    ASSUME AccessInv, AccessTypeOK', NEW e \in Emails, NEW t \in TeamIds, CheckoutTeam(e, t)
    PROVE  AccessInv'
<1> DEFINE known == Ensured(users, {e})
           team == [owner |-> e,
                    members |-> [m \in Emails |->
                        IF m = e THEN "admin"
                        ELSE IF teams[t] = None THEN None ELSE teams[t].members[m]]]
           us == users'
           ts == teams'
<1>1. users \in UserTable /\ teams \in TeamTable /\ us \in UserTable /\ ts \in TeamTable
  BY DEF AccessInv, AccessTypeOK, UserTable, TeamTable
<1>2. known \in UserTable
  BY <1>1, EnsuredType
<1>3. ts = [teams EXCEPT ![t] = team] /\ team # None
  BY <1>1, TeamFacts DEF CheckoutTeam, Roles, TeamTable
<1>4. ts[t] = team /\ \A d \in TeamIds : d # t => ts[d] = teams[d]
  BY <1>1, <1>3 DEF TeamTable
<1>5. us[e] = [account |-> "paid", plan |-> "team", team |-> t, workspace |-> t, role |-> "admin"]
      /\ \A m \in Emails : m # e => us[m] = known[m]
  BY <1>2 DEF CheckoutTeam, UserTable
<1>6. team.members[e] # None /\ team.owner = e
  BY AccessNoneAssumption DEF Roles
<1>7. ASSUME NEW m \in Emails, NEW d \in TeamIds, us[m] # None,
             d \in {us[m].team, us[m].workspace}
      PROVE  ts[d] # None /\ ts[d].members[m] # None
  <2>1. CASE m = e
    BY <1>3, <1>4, <1>5, <1>6, <1>7, <2>1
  <2>2. CASE m # e
    <3>1. us[m] = known[m] /\ us[m] = users[m]
      BY <1>1, <1>5, <2>2 DEF Ensured, UserTable
    <3>2. teams[d] # None /\ teams[d].members[m] # None
      BY <1>7, <3>1 DEF AccessInv, Lists, ListsTheirUsers
    <3>3. CASE d = t
      BY <1>3, <1>4, <2>2, <3>2, <3>3
    <3>4. CASE d # t
      BY <1>4, <3>2, <3>4
    <3>5. QED
      BY <3>3, <3>4
  <2>3. QED
    BY <2>1, <2>2
<1>8. \A d \in TeamIds : ts[d] # None => ts[d].members[ts[d].owner] # None
  BY <1>4, <1>6 DEF AccessInv, Lists, ListsItsOwner
<1>9. Lists(us, ts)
  BY <1>1, <1>7, <1>8 DEF Lists, ListsTheirUsers, ListsItsOwner
<1>10. QED
  BY <1>9, SaveLists DEF CheckoutTeam

LEMMA CheckoutSoloLists ==
    ASSUME AccessInv, AccessTypeOK', NEW e \in Emails, CheckoutSolo(e)
    PROVE  AccessInv'
<1> DEFINE known == Ensured(users, {e})
<1>1. users \in UserTable /\ teams \in TeamTable /\ users' \in UserTable /\ teams' = teams
  BY DEF AccessInv, AccessTypeOK, UserTable, TeamTable, CheckoutSolo
<1>2. known \in UserTable /\ known[e] \in UserType
  BY <1>1, EnsuredType
<1>3. /\ users'[e].team = None
      /\ users'[e].workspace = IF known[e].workspace = None THEN "own" ELSE known[e].workspace
      /\ \A m \in Emails : m # e => users'[m] = known[m]
  BY <1>2 DEF CheckoutSolo, UserTable
<1>4. known[e] # None
  BY <1>2, UserFacts
<1>5. ASSUME NEW m \in Emails, NEW d \in TeamIds, users'[m] # None,
             d \in {users'[m].team, users'[m].workspace}
      PROVE  teams[d] # None /\ teams[d].members[m] # None
  <2>1. CASE m = e
    <3>1. d = known[e].workspace
      BY <1>3, <1>5, <2>1, AccessAssumption
    <3>2. known[e] = users[e] /\ users[e] # None
      BY <1>1, <1>4, <3>1, EnsuredFacts, AccessAssumption
    <3>3. QED
      BY <2>1, <3>1, <3>2 DEF AccessInv, Lists, ListsTheirUsers
  <2>2. CASE m # e
    <3>1. users'[m] = users[m]
      BY <1>1, <1>3, <2>2 DEF Ensured, UserTable
    <3>2. QED
      BY <1>5, <3>1 DEF AccessInv, Lists, ListsTheirUsers
  <2>3. QED
    BY <2>1, <2>2
<1>6. Lists(users', teams')
  BY <1>1, <1>5 DEF AccessInv, Lists, ListsTheirUsers, ListsItsOwner
<1>7. QED
  BY <1>6, SaveLists DEF CheckoutSolo

LEMMA InviteLists ==
    ASSUME AccessInv, AccessTypeOK', NEW admin \in Emails, NEW S \in SUBSET Emails,
           InviteTeamMembers(admin, S)
    PROVE  AccessInv'
<1> DEFINE t == Team(admin)
           members == [e \in Emails |-> IF e \in S THEN "member" ELSE teams[t].members[e]]
<1>1. users \in UserTable /\ teams \in TeamTable /\ users' \in UserTable /\ teams' \in TeamTable
  BY DEF AccessInv, AccessTypeOK, UserTable, TeamTable
<1>2. t \in TeamIds /\ teams[t] \in TeamType
  BY Managed DEF AccessInv, InviteTeamMembers
<1>3. /\ teams'[t] = [teams[t] EXCEPT !.members = members]
      /\ \A d \in TeamIds : d # t => teams'[d] = teams[d]
  BY <1>1, <1>2 DEF InviteTeamMembers, TeamTable
<1>4. teams'[t].owner = teams[t].owner /\ teams'[t].members = members /\ teams'[t] # None
      /\ teams[t] # None /\ teams[t].owner \in Emails
  <2>1. teams[t] # None /\ teams[t].owner \in Emails
    BY <1>2, TeamFacts
  <2>2. teams'[t].owner = teams[t].owner /\ teams'[t].members = members
    BY <1>2, <1>3 DEF TeamType
  <2>3. teams'[t] \in TeamType
    <3>1. members \in [Emails -> {None} \cup Roles]
      BY <1>2, TeamFacts DEF Roles
    <3>2. QED
      BY <1>2, <1>3, <3>1 DEF TeamType
  <2>4. QED
    BY <2>1, <2>2, <2>3, TeamFacts
<1>5. "member" # None
  BY AccessNoneAssumption DEF Roles
<1>6. \A e \in Emails : teams[t].members[e] # None => members[e] # None
  BY <1>5
<1>7. ASSUME NEW e \in Emails, NEW d \in TeamIds, users'[e] # None,
             d \in {users'[e].team, users'[e].workspace}
      PROVE  teams'[d] # None /\ teams'[d].members[e] # None
  <2>1. CASE e \in S
    <3>1. d = t
      BY <1>7, <2>1 DEF InviteTeamMembers
    <3>2. QED
      BY <1>4, <1>5, <2>1, <3>1
  <2>2. CASE e \notin S
    <3>1. users'[e] = users[e]
      BY <2>2 DEF InviteTeamMembers
    <3>2. teams[d] # None /\ teams[d].members[e] # None
      BY <1>7, <3>1 DEF AccessInv, Lists, ListsTheirUsers
    <3>3. QED
      BY ZenonT(60), <1>3, <1>4, <1>6, <3>2
  <2>3. QED
    BY <2>1, <2>2
<1>8. \A d \in TeamIds : teams'[d] # None => teams'[d].members[teams'[d].owner] # None
  <2>1. teams[t].members[teams[t].owner] # None
    BY <1>2, <1>4 DEF AccessInv, Lists, ListsItsOwner
  <2>2. members[teams[t].owner] # None
    BY <1>4, <1>6, <2>1
  <2>3. QED
    BY <1>3, <1>4, <2>2 DEF AccessInv, Lists, ListsItsOwner
<1>9. Lists(users', teams')
  BY <1>7, <1>8 DEF Lists, ListsTheirUsers, ListsItsOwner
<1>10. QED
  BY <1>9, SaveLists DEF InviteTeamMembers

\* The entry of one member changes; it disappears only if the member leaves all teams and
\* is not the owner.
LEMMA EntryLists ==
    ASSUME AccessInv, AccessTypeOK', NEW admin \in Emails, NEW e \in Emails,
           NEW entry \in {None} \cup Roles, MayManage(admin),
           teams' = [teams EXCEPT ![Team(admin)].members[e] = entry],
           \A m \in Emails : m # e => users'[m] = users[m],
           \/ users'[e].team = None /\ users'[e].workspace = None
              /\ e # teams[Team(admin)].owner
           \/ entry # None /\ users[e] # None /\ users'[e].team = users[e].team
              /\ users'[e].workspace = users[e].workspace
           \/ entry # None /\ users'[e].team = None /\ users'[e].workspace = None,
           Save
    PROVE  AccessInv'
<1> DEFINE t == Team(admin)
           members == [teams[t].members EXCEPT ![e] = entry]
<1>1. users \in UserTable /\ teams \in TeamTable /\ users' \in UserTable /\ teams' \in TeamTable
  BY DEF AccessInv, AccessTypeOK, UserTable, TeamTable
<1>2. t \in TeamIds /\ teams[t] \in TeamType
  BY Managed DEF AccessInv
<1>3. /\ teams'[t] = [teams[t] EXCEPT !.members = members]
      /\ \A d \in TeamIds : d # t => teams'[d] = teams[d]
  BY <1>1, <1>2 DEF TeamTable
<1>4. teams'[t].owner = teams[t].owner /\ teams'[t].members = members /\ teams'[t] # None
      /\ teams[t] # None /\ teams[t].owner \in Emails
      /\ teams[t].members \in [Emails -> {None} \cup Roles]
  BY <1>2, <1>3, TeamFacts, AccessNoneAssumption DEF TeamType, MayManage
<1>5. /\ members[e] = entry
      /\ \A m \in Emails : m # e => members[m] = teams[t].members[m]
  BY <1>4
<1>6. ASSUME NEW m \in Emails, NEW d \in TeamIds, users'[m] # None,
             d \in {users'[m].team, users'[m].workspace}
      PROVE  teams'[d] # None /\ teams'[d].members[m] # None
  <2>1. CASE m = e
    <3>1. entry # None /\ users[e] # None /\ d \in {users[e].team, users[e].workspace}
      BY <1>6, <2>1, AccessAssumption
    <3>2. teams[d] # None /\ teams[d].members[e] # None
      BY <3>1 DEF AccessInv, Lists, ListsTheirUsers
    <3>3. QED
      BY <1>3, <1>4, <1>5, <2>1, <3>1, <3>2
  <2>2. CASE m # e
    <3>1. teams[d] # None /\ teams[d].members[m] # None
      BY <1>6, <2>2 DEF AccessInv, Lists, ListsTheirUsers
    <3>2. QED
      BY <1>3, <1>4, <1>5, <2>2, <3>1
  <2>3. QED
    BY <2>1, <2>2
<1>7. \A d \in TeamIds : teams'[d] # None => teams'[d].members[teams'[d].owner] # None
  BY <1>2, <1>3, <1>4, <1>5 DEF AccessInv, Lists, ListsItsOwner
<1>8. Lists(users', teams')
  BY <1>6, <1>7 DEF Lists, ListsTheirUsers, ListsItsOwner
<1>9. QED
  BY <1>8, SaveLists

LEMMA RemoveLists ==
    ASSUME AccessInv, AccessTypeOK', NEW admin \in Emails, NEW e \in Emails,
           RemoveTeamMember(admin, e)
    PROVE  AccessInv'
<1>1. users'[e].team = None /\ users'[e].workspace = None
      /\ \A m \in Emails : m # e => users'[m] = users[m]
  BY DEF RemoveTeamMember, DefaultUser, AccessInv, AccessTypeOK
<1>2. e # teams[Team(admin)].owner /\ MayManage(admin) /\ Save
      /\ teams' = [teams EXCEPT ![Team(admin)].members[e] = None]
  BY DEF RemoveTeamMember
<1>3. QED
  BY <1>1, <1>2, EntryLists

LEMMA SetRoleLists ==
    ASSUME AccessInv, AccessTypeOK', NEW admin \in Emails, NEW e \in Emails,
           NEW role \in {"admin", "member"}, SetRole(admin, e, role)
    PROVE  AccessInv'
<1> DEFINE known == Ensured(users, {e})
<1>1. users \in UserTable
  BY DEF AccessInv, AccessTypeOK, UserTable
<1>2. known \in UserTable /\ known[e] \in UserType
  BY <1>1, EnsuredType
<1>3. users'[e] = [known[e] EXCEPT !.role = role]
      /\ \A m \in Emails : m # e => users'[m] = known[m]
  BY <1>2 DEF SetRole, UserTable
<1>4. users'[e].team = known[e].team /\ users'[e].workspace = known[e].workspace
  BY <1>2, <1>3 DEF UserType
<1>5. \A m \in Emails : m # e => users'[m] = users[m]
  <2>1. \A m \in Emails : m # e => known[m] = users[m]
    BY DEF Ensured
  <2>2. QED
    BY <1>3, <2>1
<1>6. known[e] # None
  BY <1>2, UserFacts
<1>7. role \in Roles /\ role # None
  BY AccessNoneAssumption DEF Roles
<1>8. \/ users'[e].team = None /\ users'[e].workspace = None
      \/ users[e] # None /\ users'[e].team = users[e].team
         /\ users'[e].workspace = users[e].workspace
  BY <1>1, <1>4, <1>6, EnsuredFacts
<1>9. MayManage(admin) /\ Save /\ teams' = [teams EXCEPT ![Team(admin)].members[e] = role]
  BY DEF SetRole
<1>10. QED
  BY <1>5, <1>7, <1>8, <1>9, EntryLists

LEMMA EmptyLists == Lists(Empty.users, Empty.teams)
  BY DEF Lists, ListsTheirUsers, ListsItsOwner, Empty

LEMMA RestartLists ==
    ASSUME AccessInv, AccessTypeOK', Restart
    PROVE  AccessInv'
<1>1. Lists(users', teams')
  BY EmptyLists DEF AccessInv, Restart
<1>2. accessFile' = accessFile
  BY DEF Restart
<1>3. QED
  BY <1>1, <1>2 DEF AccessInv, Lists, ListsTheirUsers, ListsItsOwner

LEMMA AccessStepLists == ASSUME AccessInv, AccessNext PROVE AccessInv'
<1>1. AccessTypeOK'
  BY AccessStepType DEF AccessInv
<1>2. QED
  BY <1>1, RegisterLists, CheckoutTeamLists, CheckoutSoloLists, InviteLists, RemoveLists,
     SetRoleLists, RestartLists DEF AccessNext

\* However users join and leave, are invited, removed and lost in restarts, whoever is in
\* a team or uses its workspace is on its list, and so is its owner.
THEOREM TeamsListUsers == AccessSpec => []TeamsListTheirUsers
<1>1. ASSUME AccessInit PROVE AccessInv
  <2>1. AccessTypeOK
    BY <1>1, EmptyType DEF AccessInit, AccessTypeOK, UserTable, TeamTable
  <2>2. QED
    BY <1>1, <2>1, EmptyLists DEF AccessInit, AccessInv
<1>2. ASSUME AccessInv, UNCHANGED accessVars PROVE AccessInv'
  BY <1>2 DEF AccessInv, AccessTypeOK, accessVars, Lists, ListsTheirUsers, ListsItsOwner
<1>3. AccessInv /\ [AccessNext]_accessVars => AccessInv'
  BY <1>2, AccessStepLists
<1>4. AccessInv => TeamsListTheirUsers
  BY DEF AccessInv, Lists, TeamsListTheirUsers
<1>5. QED
  BY <1>1, <1>3, <1>4, PTL DEF AccessSpec

-----------------------------------------------------------------------------
(***************************************************************************)
(* SQL connection pools: a connection is in one place only, its pool or    *)
(* the borrower who holds it, and a pool never has more out and idle       *)
(* together than it has slots.  What a step of one borrower does is summed *)
(* up once (PoolEffect); that each part of the invariant is kept follows   *)
(* from that summary alone.                                                *)
(***************************************************************************)
Busy == {"connect", "ping", "use", "drop"}

\* A thread names a pool exactly while it is in one, and a connection exactly while it holds one.
Placed ==
    \A b \in Borrowers :
        /\ borrower[b].pool = None <=> At(b, "away")
        /\ borrower[b].conn # None <=> borrower[b].pc \in {"ping", "use", "drop"}

\* No connection is idle in two pools, and no pool has infinitely many.
Apart ==
    \A p \in Pools :
        /\ IsFiniteSet(pool[p].idle)
        /\ \A q \in Pools \ {p} : pool[p].idle \cap pool[q].idle = {}

\* The pool of the registry is not closed, and one that is drained is.
Opened ==
    /\ registered # None => ~pool[registered].closed
    /\ \A b \in Borrowers : At(b, "drain") => pool[borrower[b].pool].closed

\* What SlotsAreAccounted says of one pool.
Waits(p) == {b \in Borrowers : borrower[b].pool = p /\ At(b, "wait")}
SlotsOf(p) ==
    /\ pool[p].created = Cardinality(pool[p].idle) + Cardinality(Out(p)) + pool[p].lost
    /\ pool[p].idle = {} /\ Out(p) = {} /\ Waits(p) # {} => pool[p].lost > 0 \/ pool[p].dropped

PoolInv == PoolTypeOK /\ Placed /\ Apart /\ OneHolder /\ Opened /\ SlotsAreAccounted

LEMMA SlotsByPool == SlotsAreAccounted <=> \A p \in Pools : ~pool[p].closed => SlotsOf(p)
  BY DEF SlotsAreAccounted, SlotsOf, Waits

LEMMA NewPoolType == NewPool \in PoolType
  BY PoolAssumption DEF NewPool, PoolType

LEMMA AwayType == Away \in BorrowerType
  BY DEF Away, BorrowerType

LEMMA AwayFields == Away.pc = "away" /\ Away.pool = None /\ Away.conn = None
  BY DEF Away

LEMMA PoolInitInv == PoolInit => PoolInv
<1> SUFFICES ASSUME PoolInit PROVE PoolInv
  OBVIOUS
<1> USE DEF PoolInit
<1>1. PoolTypeOK
  BY NewPoolType, AwayType DEF PoolTypeOK
<1>2. Placed /\ OneHolder
  BY DEF Placed, OneHolder, Away, At
<1>3. Apart /\ Opened
  BY FS_EmptySet DEF Apart, Opened, NewPool, Away, At
<1>4. ASSUME NEW p \in Pools PROVE SlotsOf(p)
  <2>1. Out(p) = {} /\ Waits(p) = {}
    BY DEF Out, Waits, Away, At
  <2>2. Cardinality({}) = 0
    BY FS_EmptySet
  <2>3. pool[p].idle = {} /\ pool[p].created = 0 /\ pool[p].lost = 0
    BY DEF NewPool
  <2>4. QED
    BY <2>1, <2>2, <2>3 DEF SlotsOf
<1>5. QED
  BY <1>1, <1>2, <1>3, <1>4, SlotsByPool DEF PoolInv

LEMMA PoolFields ==
    ASSUME PoolTypeOK, NEW p \in Pools
    PROVE  /\ pool[p].idle \in SUBSET Conns /\ pool[p].created \in 0..PoolSize /\ pool[p].lost \in Nat
           /\ pool[p].lock \in {None} \cup Borrowers
           /\ pool[p].dropped \in BOOLEAN /\ pool[p].closed \in BOOLEAN
  BY DEF PoolTypeOK, PoolType

LEMMA BorrowerFields ==
    ASSUME PoolTypeOK, NEW b \in Borrowers
    PROVE  /\ borrower[b].pool \in {None} \cup Pools /\ borrower[b].conn \in {None} \cup Conns
           /\ borrower[b].second \in BOOLEAN
           /\ borrower[b].pc \in {"away", "take", "reserve", "connect", "wait", "ping", "use", "drop", "drain"}
  BY DEF PoolTypeOK, BorrowerType

-----------------------------------------------------------------------------
(***************************************************************************)
(* What a step does to the thread b and the pool p: b becomes "to", p      *)
(* becomes "kept".                                                         *)
(***************************************************************************)
Placing(p, pc, c, second) == [pc |-> pc, pool |-> p, conn |-> c, second |-> second]

LEMMA IsPlacing ==
    ASSUME NEW A, NEW B, NEW C, NEW D, NEW r \in [pc : A, pool : B, conn : C, second : D]
    PROVE  r = Placing(r.pool, r.pc, r.conn, r.second)
  BY DEF Placing

Enters(b, p, to, kept) ==
    /\ At(b, "away") /\ to = Placing(p, "take", None, FALSE) /\ registered' = p
    /\ \/ registered = p /\ kept = pool[p]
       \/ (\A other \in Borrowers : borrower[other].pool # p) /\ kept = NewPool

Takes(b, p, to, kept) ==
    /\ At(b, "take") \/ At(b, "wait")
    /\ \E c \in pool[p].idle : /\ to = Placing(p, "ping", c, borrower[b].second)
                               /\ kept = [pool[p] EXCEPT !.idle = @ \ {c}]

\* The step from one place to the next that takes nothing from the pool.
Goes(b, p, to, kept) ==
    /\ kept = pool[p]
    /\ \E second \in BOOLEAN :
        \/ At(b, "take") /\ to = Placing(p, "reserve", None, second)
        \/ At(b, "reserve") /\ pool[p].created >= PoolSize /\ to = Placing(p, "wait", None, second)
        \/ At(b, "ping") /\ to = Placing(p, "use", borrower[b].conn, second)
        \/ (At(b, "ping") \/ At(b, "use")) /\ to = Placing(p, "drop", borrower[b].conn, second)

Reserves(b, p, to, kept) ==
    /\ At(b, "reserve") /\ pool[p].created < PoolSize
    /\ to = Placing(p, "connect", None, borrower[b].second)
    /\ kept = [pool[p] EXCEPT !.created = @ + 1, !.lock = b]

Connects(b, p, to, kept) ==
    /\ At(b, "connect")
    /\ \E c \in Conns : Fresh(c) /\ to = Placing(p, "ping", c, borrower[b].second)
    /\ kept = [pool[p] EXCEPT !.lock = None]

\* A connection that was not made, or did not answer twice, takes its slot with it.
Loses(b, p, to, kept) ==
    /\ At(b, "connect") \/ At(b, "ping")
    /\ to = Away
    /\ \E lock \in {None} \cup Borrowers : kept = [pool[p] EXCEPT !.lock = lock, !.lost = @ + 1]

GivesBack(b, p, to, kept) ==
    /\ At(b, "use") /\ to = Away
    /\ kept = [pool[p] EXCEPT !.idle = @ \cup {borrower[b].conn}]

Drops(b, p, to, kept) ==
    /\ At(b, "drop") /\ to \in {Away, Placing(p, "take", None, TRUE)}
    /\ kept = [pool[p] EXCEPT !.created = IF @ = 0 THEN 0 ELSE @ - 1, !.dropped = TRUE]

Closes(b, p, to, kept) ==
    /\ At(b, "away") /\ registered = p /\ registered' = None
    /\ to = Placing(p, "drain", None, FALSE) /\ kept = [pool[p] EXCEPT !.closed = TRUE]

Drains(b, p, to, kept) ==
    /\ At(b, "drain")
    /\ \/ to = borrower[b] /\ \E c \in pool[p].idle : kept = [pool[p] EXCEPT !.idle = @ \ {c}]
       \/ to = Away /\ kept = [pool[p] EXCEPT !.created = 0]

Inside(b, p, to, kept) ==
    /\ borrower[b].pool = p /\ registered' = registered
    /\ \/ Takes(b, p, to, kept) \/ Goes(b, p, to, kept) \/ Reserves(b, p, to, kept)
       \/ Connects(b, p, to, kept) \/ Loses(b, p, to, kept) \/ GivesBack(b, p, to, kept)
       \/ Drops(b, p, to, kept) \/ Drains(b, p, to, kept)

Effect(b, p, to, kept) ==
    /\ borrower' = [borrower EXCEPT ![b] = to]
    /\ pool' = [pool EXCEPT ![p] = kept]
    /\ Enters(b, p, to, kept) \/ Closes(b, p, to, kept) \/ Inside(b, p, to, kept)

\* Every step is one of these.
LEMMA PoolEffect ==
    ASSUME PoolTypeOK, Placed, PoolNext
    PROVE  \E b \in Borrowers, p \in Pools : \E to, kept : Effect(b, p, to, kept)
<1>b. PICK b \in Borrowers :
        \/ GetPool(b) \/ TakeIdle(b) \/ Reserve(b) \/ NewConnection(b) \/ Wake(b)
        \/ Ping(b) \/ Use(b) \/ Drop(b) \/ ClosePool(b) \/ Drain(b)
  BY DEF PoolNext
<1> DEFINE old == borrower[b]
           p == borrower[b].pool
           k == pool[p]
<1>n. None \notin Pools
  BY PoolAssumption
<1>r. registered \in {None} \cup Pools /\ pool \in [Pools -> PoolType] /\ borrower \in [Borrowers -> BorrowerType]
  BY DEF PoolTypeOK
<1>o. /\ old = Placing(p, old.pc, old.conn, old.second) /\ old.second \in BOOLEAN
      /\ old.pc \in {"take", "reserve", "connect", "wait"} => old.conn = None
  BY <1>r DEF BorrowerType, Placing, Placed
<1>p. ~At(b, "away") => p \in Pools
  BY BorrowerFields DEF Placed
<1>s. (p \in Pools /\ UNCHANGED pool) => pool' = [pool EXCEPT ![p] = k]
  BY <1>r
<1>m. \A pc : Move(b, pc) => borrower' = [borrower EXCEPT ![b] = Placing(p, pc, old.conn, old.second)]
  BY <1>o, <1>r DEF Move, Placing
<1>a. \A q, pc : [Away EXCEPT !.pc = pc, !.pool = q] = Placing(q, pc, None, FALSE)
  <2> TAKE q, pc
  <2> DEFINE r == [Away EXCEPT !.pc = pc, !.pool = q]
  <2>1. /\ r \in [pc : {pc}, pool : {q}, conn : {None}, second : {FALSE}]
        /\ r.pc = pc /\ r.pool = q /\ r.conn = None /\ r.second = FALSE
    BY DEF Away
  <2> HIDE DEF r
  <2>2. r = Placing(q, pc, None, FALSE)
    BY <2>1, IsPlacing
  <2>3. QED
    BY <2>2 DEF r
<1>c. \A c : [borrower EXCEPT ![b].pc = "ping", ![b].conn = c]
              = [borrower EXCEPT ![b] = Placing(p, "ping", c, old.second)]
  <2> TAKE c
  <2> DEFINE r == [old EXCEPT !.pc = "ping", !.conn = c]
  <2>1. /\ r \in [pc : {"ping"}, pool : {p}, conn : {c}, second : {old.second}]
        /\ r.pc = "ping" /\ r.pool = p /\ r.conn = c /\ r.second = old.second
    BY <1>o DEF Placing
  <2>2. [borrower EXCEPT ![b].pc = "ping", ![b].conn = c] = [borrower EXCEPT ![b] = r]
    BY <1>r
  <2> HIDE DEF r
  <2>3. r = Placing(p, "ping", c, old.second)
    BY <2>1, IsPlacing
  <2>4. QED
    BY <2>2, <2>3
<1>d. [borrower EXCEPT ![b].pc = "drop", ![b].second = TRUE]
        = [borrower EXCEPT ![b] = Placing(p, "drop", old.conn, TRUE)]
  <2> DEFINE r == [old EXCEPT !.pc = "drop", !.second = TRUE]
  <2>1. /\ r \in [pc : {"drop"}, pool : {p}, conn : {old.conn}, second : {TRUE}]
        /\ r.pc = "drop" /\ r.pool = p /\ r.conn = old.conn /\ r.second = TRUE
    BY <1>o DEF Placing
  <2>2. [borrower EXCEPT ![b].pc = "drop", ![b].second = TRUE] = [borrower EXCEPT ![b] = r]
    BY <1>r
  <2> HIDE DEF r
  <2>3. r = Placing(p, "drop", old.conn, TRUE)
    BY <2>1, IsPlacing
  <2>4. QED
    BY <2>2, <2>3
<1>i. ASSUME ~At(b, "away"), registered' = registered, NEW to, NEW kept,
             borrower' = [borrower EXCEPT ![b] = to], pool' = [pool EXCEPT ![p] = kept],
             \/ Takes(b, p, to, kept) \/ Goes(b, p, to, kept) \/ Reserves(b, p, to, kept)
             \/ Connects(b, p, to, kept) \/ Loses(b, p, to, kept) \/ GivesBack(b, p, to, kept)
             \/ Drops(b, p, to, kept) \/ Drains(b, p, to, kept)
      PROVE  \E q \in Pools : \E t, kp : Effect(b, q, t, kp)
  <2>1. p \in Pools /\ Effect(b, p, to, kept)
    BY <1>i, <1>p DEF Effect, Inside
  <2>2. QED
    BY <2>1
<1>1. CASE GetPool(b)
  <2>1. CASE registered # None
    <3>1. Enters(b, registered, Placing(registered, "take", None, FALSE), pool[registered])
      BY <1>1, <2>1 DEF GetPool, Enters
    <3>2. borrower' = [borrower EXCEPT ![b] = Placing(registered, "take", None, FALSE)]
      BY <1>1, <2>1 DEF GetPool, Placing, Away
    <3>3. registered \in Pools /\ pool' = [pool EXCEPT ![registered] = pool[registered]]
      BY <1>1, <2>1, <1>r DEF GetPool
    <3>4. QED
      BY <3>1, <3>2, <3>3 DEF Effect
  <2>2. CASE registered = None
    <3>1. PICK q \in Pools :
            /\ \A other \in Borrowers : borrower[other].pool # q
            /\ registered' = q /\ pool' = [pool EXCEPT ![q] = NewPool]
            /\ borrower' = [borrower EXCEPT ![b] = [Away EXCEPT !.pc = "take", !.pool = q]]
      BY <1>1, <2>2 DEF GetPool
    <3>2. Enters(b, q, Placing(q, "take", None, FALSE), NewPool)
      BY <1>1, <3>1 DEF Enters, GetPool
    <3>3. borrower' = [borrower EXCEPT ![b] = Placing(q, "take", None, FALSE)]
      BY <3>1, <1>a
    <3>4. QED
      BY <3>1, <3>2, <3>3 DEF Effect
  <2>3. QED
    BY <2>1, <2>2
<1>2. CASE TakeIdle(b) \/ Wake(b)
  <2>1. /\ ~At(b, "away") /\ registered' = registered /\ (At(b, "take") \/ At(b, "wait"))
    BY <1>2 DEF TakeIdle, Wake, At
  <2>2. ASSUME NEW c \in k.idle, pool' = [pool EXCEPT ![p].idle = k.idle \ {c}],
               borrower' = [borrower EXCEPT ![b].pc = "ping", ![b].conn = c]
        PROVE  \E q \in Pools : \E t, kp : Effect(b, q, t, kp)
    <3> DEFINE to == Placing(p, "ping", c, old.second)
               kept == [k EXCEPT !.idle = k.idle \ {c}]
    <3>1. borrower' = [borrower EXCEPT ![b] = to] /\ pool' = [pool EXCEPT ![p] = kept]
      BY <2>1, <2>2, <1>c, <1>r, <1>p
    <3>2. Takes(b, p, to, kept)
      BY <2>1, <2>2 DEF Takes
    <3>3. QED
      BY <2>1, <3>1, <3>2, <1>i
  <2>3. CASE TakeIdle(b) /\ k.idle = {}
    <3>1. Move(b, "reserve") /\ UNCHANGED pool /\ At(b, "take")
      BY <2>3 DEF TakeIdle
    <3>2. Goes(b, p, Placing(p, "reserve", old.conn, old.second), k)
      BY <3>1, <1>o DEF Goes, At
    <3>3. QED
      <4>1. borrower' = [borrower EXCEPT ![b] = Placing(p, "reserve", old.conn, old.second)]
        BY <3>1, <1>m
      <4>2. pool' = [pool EXCEPT ![p] = k]
        BY <2>1, <3>1, <1>s, <1>p
      <4>3. QED
        BY <2>1, <3>2, <4>1, <4>2, <1>i
  <2>4. QED
    BY <1>2, <2>2, <2>3 DEF TakeIdle, Wake
<1>3. CASE Reserve(b)
  <2>1. ~At(b, "away") /\ registered' = registered /\ At(b, "reserve") /\ p \in Pools
    BY <1>3, <1>p DEF Reserve, At
  <2>2. CASE k.created < PoolSize
    <3> DEFINE kept == [k EXCEPT !.created = k.created + 1, !.lock = b]
    <3>1. Move(b, "connect") /\ pool' = [pool EXCEPT ![p].created = k.created + 1, ![p].lock = b]
      BY <1>3, <2>2 DEF Reserve
    <3>2. pool' = [pool EXCEPT ![p] = kept]
      BY <3>1, <2>1, <1>r
    <3>3. Reserves(b, p, Placing(p, "connect", old.conn, old.second), kept)
      BY <2>1, <2>2, <1>o DEF Reserves, At
    <3>4. QED
      BY <2>1, <3>1, <3>2, <3>3, <1>i, <1>m
  <2>3. CASE ~(k.created < PoolSize)
    <3>1. Move(b, "wait") /\ UNCHANGED pool
      BY <1>3, <2>3 DEF Reserve
    <3>2. k.created >= PoolSize
      BY <2>1, <2>3, PoolFields, PoolAssumption
    <3>3. Goes(b, p, Placing(p, "wait", old.conn, old.second), k)
      BY <2>1, <3>2, <1>o DEF Goes, At
    <3>4. QED
      BY <2>1, <3>1, <3>3, <1>i, <1>m, <1>s
  <2>4. QED
    BY <2>2, <2>3
<1>4. CASE NewConnection(b)
  <2>1. ~At(b, "away") /\ registered' = registered /\ At(b, "connect") /\ p \in Pools
    BY <1>4, <1>p DEF NewConnection, At
  <2>2. ASSUME \E c \in Conns : Fresh(c),
               borrower' = [borrower EXCEPT ![b].pc = "ping", ![b].conn = CHOOSE c \in Conns : Fresh(c)],
               pool' = [pool EXCEPT ![p].lock = None]
        PROVE  \E q \in Pools : \E t, kp : Effect(b, q, t, kp)
    <3>1. PICK c \in Conns : Fresh(c) /\ borrower' = [borrower EXCEPT ![b].pc = "ping", ![b].conn = c]
      <4>1. (CHOOSE c \in Conns : Fresh(c)) \in Conns /\ Fresh(CHOOSE c \in Conns : Fresh(c))
        BY <2>2
      <4>2. QED
        BY <4>1, <2>2
    <3> DEFINE to == Placing(p, "ping", c, old.second)
               kept == [k EXCEPT !.lock = None]
    <3>2. borrower' = [borrower EXCEPT ![b] = to] /\ pool' = [pool EXCEPT ![p] = kept]
      BY <2>2, <3>1, <1>o, <1>r DEF Placing
    <3>3. Connects(b, p, to, kept)
      BY <2>1, <3>1 DEF Connects
    <3>4. QED
      BY <2>1, <3>2, <3>3, <1>i
  <2>3. ASSUME Leave(b), pool' = [pool EXCEPT ![p].lock = None, ![p].lost = k.lost + 1]
        PROVE  \E q \in Pools : \E t, kp : Effect(b, q, t, kp)
    <3> DEFINE kept == [k EXCEPT !.lock = None, !.lost = k.lost + 1]
    <3>1. borrower' = [borrower EXCEPT ![b] = Away] /\ pool' = [pool EXCEPT ![p] = kept]
      BY <2>1, <2>3, <1>r DEF Leave
    <3>2. Loses(b, p, Away, kept)
      BY <2>1 DEF Loses
    <3>3. QED
      BY <2>1, <3>1, <3>2, <1>i
  <2>4. QED
    BY <1>4, <2>2, <2>3 DEF NewConnection
<1>6. CASE Ping(b)
  <2>1. ~At(b, "away") /\ registered' = registered /\ At(b, "ping") /\ p \in Pools
    BY <1>6, <1>p DEF Ping, At
  <2>2. CASE UNCHANGED pool /\ (Move(b, "use") \/ Move(b, "drop"))
    <3>1. /\ Goes(b, p, Placing(p, "use", old.conn, old.second), k)
          /\ Goes(b, p, Placing(p, "drop", old.conn, old.second), k)
      BY <2>1, <1>o DEF Goes
    <3>2. QED
      BY <2>1, <2>2, <3>1, <1>i, <1>m, <1>s
  <2>3. ASSUME Leave(b), pool' = [pool EXCEPT ![p].lost = k.lost + 1]
        PROVE  \E q \in Pools : \E t, kp : Effect(b, q, t, kp)
    <3> DEFINE kept == [k EXCEPT !.lock = k.lock, !.lost = k.lost + 1]
    <3>1. borrower' = [borrower EXCEPT ![b] = Away] /\ pool' = [pool EXCEPT ![p] = kept]
      BY <2>1, <2>3, <1>r DEF Leave, PoolType
    <3>2. k.lock \in {None} \cup Borrowers
      BY <2>1, PoolFields
    <3>3. Loses(b, p, Away, kept)
      BY <2>1, <3>2 DEF Loses
    <3>4. QED
      BY <2>1, <3>1, <3>3, <1>i
  <2>4. QED
    BY <1>6, <2>2, <2>3 DEF Ping
<1>7. CASE Use(b)
  <2>1. ~At(b, "away") /\ registered' = registered /\ At(b, "use") /\ p \in Pools
    BY <1>7, <1>p DEF Use, At
  <2>2. ASSUME Leave(b), pool' = [pool EXCEPT ![p].idle = k.idle \cup {old.conn}]
        PROVE  \E q \in Pools : \E t, kp : Effect(b, q, t, kp)
    <3> DEFINE kept == [k EXCEPT !.idle = k.idle \cup {old.conn}]
    <3>1. borrower' = [borrower EXCEPT ![b] = Away] /\ pool' = [pool EXCEPT ![p] = kept]
      BY <2>1, <2>2, <1>r DEF Leave
    <3>2. GivesBack(b, p, Away, kept)
      BY <2>1 DEF GivesBack
    <3>3. QED
      BY <2>1, <3>1, <3>2, <1>i
  <2>3. ASSUME UNCHANGED pool, borrower' = [borrower EXCEPT ![b].pc = "drop", ![b].second = TRUE]
        PROVE  \E q \in Pools : \E t, kp : Effect(b, q, t, kp)
    <3> DEFINE to == Placing(p, "drop", old.conn, TRUE)
    <3>1. borrower' = [borrower EXCEPT ![b] = to]
      BY <2>3, <1>d
    <3>2. Goes(b, p, to, k)
      BY <2>1 DEF Goes
    <3>3. QED
      BY <2>1, <2>3, <3>1, <3>2, <1>i, <1>s
  <2>4. QED
    BY <1>7, <2>2, <2>3 DEF Use
<1>8. CASE Drop(b)
  <2>1. ~At(b, "away") /\ registered' = registered /\ At(b, "drop") /\ p \in Pools
    BY <1>8, <1>p DEF Drop, At
  <2> DEFINE kept == [k EXCEPT !.created = IF k.created = 0 THEN 0 ELSE k.created - 1, !.dropped = TRUE]
  <2>2. pool' = [pool EXCEPT ![p] = kept]
    BY <1>8, <2>1, <1>r DEF Drop
  <2>3. PICK to \in {Away, Placing(p, "take", None, TRUE)} : borrower' = [borrower EXCEPT ![b] = to]
    BY <1>8, <1>o, <1>r DEF Drop, Leave, Placing
  <2>4. Drops(b, p, to, kept)
    BY <2>1, <2>3 DEF Drops
  <2>5. QED
    BY <2>1, <2>2, <2>3, <2>4, <1>i
<1>9. CASE ClosePool(b)
  <2> DEFINE to == Placing(registered, "drain", None, FALSE)
             kept == [pool[registered] EXCEPT !.closed = TRUE]
  <2>1. registered \in Pools
    BY <1>9, <1>r DEF ClosePool
  <2>2. borrower' = [borrower EXCEPT ![b] = to] /\ pool' = [pool EXCEPT ![registered] = kept]
    BY <1>9, <2>1, <1>a, <1>r DEF ClosePool
  <2>3. Closes(b, registered, to, kept)
    BY <1>9 DEF ClosePool, Closes
  <2>4. QED
    BY <2>1, <2>2, <2>3 DEF Effect
<1>10. CASE Drain(b)
  <2>1. ~At(b, "away") /\ registered' = registered /\ At(b, "drain") /\ p \in Pools
    BY <1>10, <1>p DEF Drain, At
  <2>2. ASSUME NEW c \in k.idle, pool' = [pool EXCEPT ![p].idle = k.idle \ {c}], UNCHANGED borrower
        PROVE  \E q \in Pools : \E t, kp : Effect(b, q, t, kp)
    <3> DEFINE kept == [k EXCEPT !.idle = k.idle \ {c}]
    <3>1. borrower' = [borrower EXCEPT ![b] = old] /\ pool' = [pool EXCEPT ![p] = kept]
      BY <2>1, <2>2, <1>r
    <3>2. Drains(b, p, old, kept)
      BY <2>1, <2>2 DEF Drains
    <3>3. QED
      BY <2>1, <3>1, <3>2, <1>i
  <2>3. ASSUME Leave(b), pool' = [pool EXCEPT ![p].created = 0]
        PROVE  \E q \in Pools : \E t, kp : Effect(b, q, t, kp)
    <3> DEFINE kept == [k EXCEPT !.created = 0]
    <3>1. borrower' = [borrower EXCEPT ![b] = Away] /\ pool' = [pool EXCEPT ![p] = kept]
      BY <2>1, <2>3, <1>r DEF Leave
    <3>2. Drains(b, p, Away, kept)
      BY <2>1 DEF Drains
    <3>3. QED
      BY <2>1, <3>1, <3>2, <1>i
  <2>4. QED
    BY <1>10, <2>2, <2>3 DEF Drain
<1>11. QED
  BY <1>b, <1>1, <1>2, <1>3, <1>4, <1>6, <1>7, <1>8, <1>9, <1>10
-----------------------------------------------------------------------------
(***************************************************************************)
(* Each conjunct of the invariant is kept by every effect.                 *)
(***************************************************************************)
LEMMA KeptType ==
    ASSUME NEW k \in PoolType
    PROVE  /\ \A idle \in SUBSET Conns : [k EXCEPT !.idle = idle] \in PoolType
           /\ \A created \in 0..PoolSize, lock \in {None} \cup Borrowers :
                [k EXCEPT !.created = created, !.lock = lock] \in PoolType
           /\ \A created \in 0..PoolSize : /\ [k EXCEPT !.created = created] \in PoolType
                                           /\ [k EXCEPT !.created = created, !.dropped = TRUE] \in PoolType
           /\ \A lost \in Nat, lock \in {None} \cup Borrowers :
                [k EXCEPT !.lock = lock, !.lost = lost] \in PoolType
           /\ \A lock \in {None} \cup Borrowers : [k EXCEPT !.lock = lock] \in PoolType
           /\ [k EXCEPT !.closed = TRUE] \in PoolType
  BY DEF PoolType

LEMMA EffectType ==
    ASSUME PoolTypeOK, Placed, NEW b \in Borrowers, NEW p \in Pools, NEW to, NEW kept,
           Effect(b, p, to, kept)
    PROVE  PoolTypeOK' /\ to \in BorrowerType /\ kept \in PoolType
<1>1. PoolSize \in Nat
  BY PoolAssumption
<1>2. /\ pool[p] \in PoolType /\ borrower[b] \in BorrowerType /\ borrower[b].second \in BOOLEAN
      /\ borrower[b].conn \in {None} \cup Conns /\ (At(b, "use") => borrower[b].conn \in Conns)
  BY BorrowerFields DEF PoolTypeOK, Placed, At
<1>3. to \in BorrowerType
  <2>1. \A pc \in {"away", "take", "reserve", "connect", "wait", "ping", "use", "drop", "drain"},
           c \in {None} \cup Conns, second \in BOOLEAN : Placing(p, pc, c, second) \in BorrowerType
    BY DEF Placing, BorrowerType
  <2>2. pool[p].idle \in SUBSET Conns
    BY PoolFields
  <2>3. CASE Enters(b, p, to, kept) \/ Closes(b, p, to, kept)
    BY <2>1, <2>3 DEF Enters, Closes
  <2>4. CASE Takes(b, p, to, kept) \/ Connects(b, p, to, kept) \/ Reserves(b, p, to, kept)
    BY <1>2, <2>1, <2>2, <2>4 DEF Takes, Connects, Reserves
  <2>5. CASE Goes(b, p, to, kept)
    <3>1. PICK second \in BOOLEAN :
            \/ to = Placing(p, "reserve", None, second) \/ to = Placing(p, "wait", None, second)
            \/ to = Placing(p, "use", borrower[b].conn, second)
            \/ to = Placing(p, "drop", borrower[b].conn, second)
      BY <2>5 DEF Goes
    <3>2. QED
      BY <3>1, <1>2, <2>1
  <2>6. CASE Loses(b, p, to, kept) \/ GivesBack(b, p, to, kept) \/ Drops(b, p, to, kept) \/ Drains(b, p, to, kept)
    BY <1>2, <2>1, <2>6, AwayType DEF Loses, GivesBack, Drops, Drains
  <2>7. QED
    BY <2>3, <2>4, <2>5, <2>6 DEF Effect, Inside
<1>4. kept \in PoolType
  <2> DEFINE k == pool[p]
  <2>f. k \in PoolType /\ k.idle \in SUBSET Conns /\ k.created \in 0..PoolSize /\ k.lost \in Nat
    BY <1>2, PoolFields
  <2> HIDE DEF k
  <2>1. CASE Enters(b, p, to, kept) \/ Closes(b, p, to, kept) \/ Goes(b, p, to, kept)
    BY <2>f, <2>1, NewPoolType, KeptType DEF Enters, Closes, Goes, k
  <2>2. CASE Takes(b, p, to, kept) \/ Drains(b, p, to, kept)
    <3>1. (\E c : kept = [k EXCEPT !.idle = k.idle \ {c}]) \/ kept = [k EXCEPT !.created = 0]
      BY <2>2 DEF Takes, Drains, k
    <3>2. \A c : k.idle \ {c} \in SUBSET Conns
      BY <2>f
    <3>3. 0 \in 0..PoolSize
      BY <1>1
    <3>4. QED
      BY <3>1, <3>2, <3>3, <2>f, KeptType
  <2>3. CASE GivesBack(b, p, to, kept)
    <3>1. kept = [k EXCEPT !.idle = k.idle \cup {borrower[b].conn}]
      BY <2>3 DEF GivesBack, k
    <3>2. k.idle \cup {borrower[b].conn} \in SUBSET Conns
      BY <2>3, <2>f, <1>2 DEF GivesBack
    <3>3. QED
      BY <3>1, <3>2, <2>f, KeptType
  <2>4. CASE Connects(b, p, to, kept) \/ Loses(b, p, to, kept)
    <3>1. \/ kept = [k EXCEPT !.lock = None]
          \/ \E lock \in {None} \cup Borrowers : kept = [k EXCEPT !.lock = lock, !.lost = k.lost + 1]
      BY <2>4 DEF Connects, Loses, k
    <3>2. k.lost + 1 \in Nat /\ None \in {None} \cup Borrowers
      BY <2>f
    <3>3. CASE kept = [k EXCEPT !.lock = None]
      BY <3>2, <3>3, <2>f, KeptType
    <3>4. ASSUME NEW lock \in {None} \cup Borrowers, kept = [k EXCEPT !.lock = lock, !.lost = k.lost + 1]
          PROVE  kept \in PoolType
      BY <3>2, <3>4, <2>f, KeptType
    <3>5. QED
      BY <3>1, <3>3, <3>4
  <2>5. CASE Reserves(b, p, to, kept)
    <3>1. k.created < PoolSize /\ kept = [k EXCEPT !.created = k.created + 1, !.lock = b]
      BY <2>5 DEF Reserves, k
    <3>2. k.created + 1 \in 0..PoolSize /\ b \in {None} \cup Borrowers
      BY <3>1, <2>f, <1>1
    <3>3. QED
      BY <3>1, <3>2, <2>f, KeptType
  <2>6. CASE Drops(b, p, to, kept)
    <3>1. PICK n : n = (IF k.created = 0 THEN 0 ELSE k.created - 1)
      OBVIOUS
    <3>2. n \in 0..PoolSize
      BY <3>1, <2>f, <1>1
    <3>3. kept = [k EXCEPT !.created = n, !.dropped = TRUE]
      BY <3>1, <2>6 DEF Drops, k
    <3>4. QED
      BY <3>2, <3>3, <2>f, KeptType
  <2>7. QED
    BY <2>1, <2>2, <2>3, <2>4, <2>5, <2>6 DEF Effect, Inside
<1>5. borrower' \in [Borrowers -> BorrowerType] /\ pool' \in [Pools -> PoolType]
  BY <1>3, <1>4 DEF Effect, PoolTypeOK
<1>6. registered' \in {None} \cup Pools
  BY DEF Effect, Enters, Closes, Inside, PoolTypeOK
<1>7. QED
  BY <1>3, <1>4, <1>5, <1>6 DEF PoolTypeOK

\* Only b and p change, and they become what the effect says.
LEMMA EffectFrame ==
    ASSUME PoolTypeOK, NEW b \in Borrowers, NEW p \in Pools, NEW to, NEW kept,
           Effect(b, p, to, kept)
    PROVE  /\ borrower'[b] = to /\ \A c \in Borrowers \ {b} : borrower'[c] = borrower[c]
           /\ pool'[p] = kept /\ \A q \in Pools \ {p} : pool'[q] = pool[q]
  BY DEF Effect, PoolTypeOK

LEMMA EffectPlaced ==
    ASSUME PoolTypeOK, Placed, NEW b \in Borrowers, NEW p \in Pools, NEW to, NEW kept,
           Effect(b, p, to, kept)
    PROVE  Placed'
<1>1. None \notin Pools /\ None \notin Conns
  BY PoolAssumption
<1>2. pool[p].idle \in SUBSET Conns
  BY PoolFields
<1>3. /\ borrower[b].conn # None <=> borrower[b].pc \in {"ping", "use", "drop"}
      /\ borrower[b].pool = None <=> borrower[b].pc = "away"
  BY DEF Placed, At
<1>4. /\ to.pool = None <=> to.pc = "away"
      /\ to.conn # None <=> to.pc \in {"ping", "use", "drop"}
  <2>1. CASE to = Away
    BY <2>1 DEF Away
  <2>2. CASE to = borrower[b]
    BY <2>2, <1>3
  <2>3. CASE Enters(b, p, to, kept) \/ Closes(b, p, to, kept)
    BY <2>3, <1>1 DEF Enters, Closes, Placing
  <2>4. CASE Takes(b, p, to, kept) \/ Connects(b, p, to, kept) \/ Reserves(b, p, to, kept)
    BY <2>4, <1>1, <1>2 DEF Takes, Connects, Reserves, Placing
  <2>5. CASE Goes(b, p, to, kept)
    BY <2>5, <1>1, <1>3 DEF Goes, Placing, At
  <2>6. CASE Drops(b, p, to, kept)
    BY <2>1, <2>6, <1>1 DEF Drops, Placing
  <2>7. QED
    BY <2>1, <2>2, <2>3, <2>4, <2>5, <2>6 DEF Effect, Inside, Loses, GivesBack, Drains
<1>5. QED
  BY <1>4, EffectFrame DEF Placed, At

LEMMA EffectOpened ==
    ASSUME PoolTypeOK, Placed, Opened, NEW b \in Borrowers, NEW p \in Pools, NEW to, NEW kept,
           Effect(b, p, to, kept)
    PROVE  Opened'
<1>1. None \notin Pools
  BY PoolAssumption
<1>2. pool[p].closed \in BOOLEAN /\ pool[p] \in PoolType /\ registered \in {None} \cup Pools
  BY PoolFields DEF PoolTypeOK
<1>3. Closes(b, p, to, kept) \/ Enters(b, p, to, kept) \/ kept.closed = pool[p].closed
  BY <1>2 DEF Effect, Inside, Takes, Goes, Reserves, Connects, Loses, GivesBack, Drops, Drains, PoolType
<1>4. registered' # None => ~pool'[registered'].closed
  <2>1. CASE Enters(b, p, to, kept)
    <3>1. registered' = p /\ pool'[p] = kept
      <4>1. registered' = p
        BY <2>1 DEF Enters
      <4>2. pool'[p] = kept
        BY EffectFrame
      <4>3. QED
        BY <4>1, <4>2
    <3>2. ~kept.closed
      BY <2>1, <1>1 DEF Enters, Opened, NewPool
    <3>3. QED
      BY <3>1, <3>2
  <2>2. CASE Closes(b, p, to, kept)
    BY <2>2 DEF Closes
  <2>3. CASE registered' = registered /\ kept.closed = pool[p].closed
    BY <2>3, EffectFrame, <1>2 DEF Opened
  <2>4. QED
    BY <1>3, <2>1, <2>2, <2>3 DEF Effect, Inside
<1>5. ASSUME NEW c \in Borrowers, At(c, "drain")' PROVE pool'[borrower'[c].pool].closed
  <2>1. CASE c = b
    <3>1. to.pc = "drain"
      BY <2>1, <1>5, EffectFrame DEF At
    <3>2. CASE Closes(b, p, to, kept)
      BY <3>2, <2>1, <1>2, EffectFrame DEF Closes, Placing, PoolType
    <3>3. CASE Drains(b, p, to, kept) /\ Inside(b, p, to, kept)
      <4>1. to = borrower[b] /\ pool[p].closed /\ kept.closed
        BY <3>1, <3>3, <1>2 DEF Drains, Inside, Away, Opened, PoolType
      <4>2. QED
        BY <4>1, <2>1, <3>3, EffectFrame DEF Inside
    <3>4. ~Goes(b, p, to, kept)
      BY <3>1 DEF Goes, Placing
    <3>5. ~Enters(b, p, to, kept) /\ ~Takes(b, p, to, kept)
      BY <3>1 DEF Enters, Takes, Placing
    <3>6. ~Reserves(b, p, to, kept) /\ ~Connects(b, p, to, kept)
      BY <3>1 DEF Reserves, Connects, Placing
    <3>7. ~Loses(b, p, to, kept) /\ ~GivesBack(b, p, to, kept)
      BY <3>1, AwayFields DEF Loses, GivesBack
    <3>8. ~Drops(b, p, to, kept)
      BY <3>1 DEF Drops, Placing, Away
    <3>9. QED
      BY <3>2, <3>3, <3>4, <3>5, <3>6, <3>7, <3>8 DEF Effect, Inside
  <2>2. CASE c # b
    <3>1. At(c, "drain") /\ borrower'[c] = borrower[c]
      BY <2>2, <1>5, EffectFrame DEF At
    <3>2. pool[borrower[c].pool].closed /\ borrower[c].pool \in Pools
      BY <3>1, BorrowerFields DEF Opened, Placed, At
    <3>3. ~Enters(b, p, to, kept) \/ kept = pool[p] \/ borrower[c].pool # p
      BY DEF Enters
    <3>4. borrower[c].pool = p => kept.closed
      BY <1>2, <1>3, <3>2, <3>3 DEF Closes, PoolType
    <3>5. QED
      BY <3>1, <3>2, <3>4, EffectFrame
  <2>3. QED
    BY <2>1, <2>2
<1>6. QED
  BY <1>4, <1>5 DEF Opened

\* The connections that are idle in p, and the one b has, are those from before or a fresh one.
LEMMA EffectHolder ==
    ASSUME PoolTypeOK, Placed, Apart, OneHolder,
           NEW b \in Borrowers, NEW p \in Pools, NEW to, NEW kept, Effect(b, p, to, kept)
    PROVE  /\ to.conn # None => /\ \A other \in Borrowers \ {b} : borrower[other].conn # to.conn
                                /\ to.conn \notin kept.idle
                                /\ \A q \in Pools \ {p} : to.conn \notin pool[q].idle
           /\ kept.idle \subseteq pool[p].idle \cup ({borrower[b].conn} \ {None, to.conn})
           /\ IsFiniteSet(kept.idle)
<1>1. None \notin Conns /\ pool[p] \in PoolType /\ borrower[b] \in BorrowerType
  BY PoolAssumption DEF PoolTypeOK
<1>2. /\ IsFiniteSet(pool[p].idle) /\ pool[p].idle \in SUBSET Conns
      /\ \A q \in Pools \ {p} : pool[p].idle \cap pool[q].idle = {}
  BY PoolFields DEF Apart
<1>3. borrower[b].conn # None =>
        /\ \A other \in Borrowers \ {b} : borrower[other].conn # borrower[b].conn
        /\ \A q \in Pools : borrower[b].conn \notin pool[q].idle
  BY DEF OneHolder
<1>4. \A c, other \in Borrowers : c \in pool[p].idle => borrower[other].conn # c
  BY <1>1, <1>2 DEF OneHolder
<1>5. CASE to.conn = None /\ kept.idle = pool[p].idle
  BY <1>2, <1>5
<1>6. CASE to.conn = None /\ kept.idle = {}
  BY <1>6, FS_EmptySet
<1>7. CASE Takes(b, p, to, kept) /\ Inside(b, p, to, kept)
  <2>1. PICK c \in pool[p].idle : to.conn = c /\ kept.idle = pool[p].idle \ {c}
    BY <1>1, <1>7 DEF Takes, Placing, PoolType
  <2>2. IsFiniteSet(pool[p].idle \ {c})
    BY <1>2, FS_RemoveElement
  <2>3. \A q \in Pools \ {p} : c \notin pool[q].idle
    BY <1>2
  <2>4. \A other \in Borrowers : borrower[other].conn # c
    BY <2>1, <1>1, <1>2 DEF OneHolder
  <2>5. QED
    BY <2>1, <2>2, <2>3, <2>4
<1>8. CASE Connects(b, p, to, kept)
  <2>1. PICK c \in Conns : Fresh(c) /\ to.conn = c
    BY <1>8 DEF Connects, Placing
  <2>2. kept.idle = pool[p].idle
    BY <1>1, <1>8 DEF Connects, PoolType
  <2>3. QED
    BY <2>1, <2>2, <1>1, <1>2 DEF Fresh, Held
<1>9. CASE Goes(b, p, to, kept)
  <2>1. kept.idle = pool[p].idle /\ to.conn \in {None, borrower[b].conn}
    BY <1>9 DEF Goes, Placing
  <2>2. QED
    BY <2>1, <1>2, <1>3
<1>10. CASE GivesBack(b, p, to, kept)
  <2>1. kept.idle = pool[p].idle \cup {borrower[b].conn} /\ to.conn = None
    BY <1>1, <1>10 DEF GivesBack, Away, PoolType
  <2>2. IsFiniteSet(kept.idle)
    BY SMTT(60), <1>2, <2>1, FS_AddElement
  <2>3. borrower[b].conn # None
    BY <1>10 DEF GivesBack, Placed, At
  <2>4. QED
    BY <2>1, <2>2, <2>3
<1>11. CASE Drains(b, p, to, kept)
  <2>1. to.conn = None
    BY <1>11 DEF Drains, Away, Placed, At
  <2>2. \E c : kept.idle = pool[p].idle \ {c} \/ kept.idle = pool[p].idle
    BY <1>1, <1>11 DEF Drains, PoolType
  <2>3. IsFiniteSet(kept.idle)
    BY <1>2, <2>2, FS_RemoveElement
  <2>4. QED
    BY <2>1, <2>2, <2>3
<1>12. QED
  <2>1. CASE Enters(b, p, to, kept)
    <3>1. to.conn = None
      BY <2>1 DEF Enters, Placing
    <3>2. kept.idle = pool[p].idle \/ kept.idle = {}
      BY <2>1 DEF Enters, NewPool
    <3>3. QED
      BY <3>1, <3>2, <1>5, <1>6
  <2>2. CASE Closes(b, p, to, kept) \/ Loses(b, p, to, kept) \/ Drops(b, p, to, kept) \/ Reserves(b, p, to, kept)
    <3>1. to.conn = None
      <4>1. CASE Closes(b, p, to, kept) \/ Reserves(b, p, to, kept)
        BY <4>1 DEF Closes, Reserves, Placing
      <4>2. CASE Loses(b, p, to, kept) \/ Drops(b, p, to, kept)
        <5>1. Placing(p, "take", None, TRUE).conn = None
          BY DEF Placing
        <5>2. QED
          BY <4>2, <5>1, AwayFields DEF Loses, Drops
      <4>3. QED
        BY <2>2, <4>1, <4>2
    <3>2. kept.idle = pool[p].idle
      BY <2>2, <1>1 DEF Closes, Loses, Drops, Reserves, PoolType
    <3>3. QED
      BY <3>1, <3>2, <1>5
  <2>3. QED
    BY <2>1, <2>2, <1>7, <1>8, <1>9, <1>10, <1>11 DEF Effect, Inside

LEMMA EffectApart ==
    ASSUME PoolTypeOK, Placed, Apart, OneHolder,
           NEW b \in Borrowers, NEW p \in Pools, NEW to, NEW kept, Effect(b, p, to, kept)
    PROVE  Apart' /\ OneHolder'
<1>1. \A q \in Pools \ {p} : kept.idle \cap pool[q].idle = {}
  BY EffectHolder DEF Apart, OneHolder
<1>2. Apart'
  <2>1. ASSUME NEW q \in Pools PROVE IsFiniteSet(pool'[q].idle)
    BY EffectHolder, EffectFrame DEF Apart
  <2>2. ASSUME NEW q \in Pools, NEW r \in Pools \ {q} PROVE pool'[q].idle \cap pool'[r].idle = {}
    BY <1>1, EffectFrame DEF Apart
  <2>3. QED
    BY <2>1, <2>2 DEF Apart
<1>3. ASSUME NEW c \in Borrowers, borrower'[c].conn # None
      PROVE  /\ \A other \in Borrowers \ {c} : borrower'[other].conn # borrower'[c].conn
             /\ \A q \in Pools : borrower'[c].conn \notin pool'[q].idle
  <2>1. CASE c = b
    BY <1>3, <2>1, EffectHolder, EffectFrame
  <2>2. CASE c # b
    <3>1. borrower'[c] = borrower[c] /\ borrower[c].conn # None
      BY <1>3, <2>2, EffectFrame
    <3>2. \A other \in Borrowers \ {c} : borrower'[other].conn # borrower[c].conn
      BY <3>1, <2>2, EffectHolder, EffectFrame DEF OneHolder
    <3>3. borrower[c].conn \notin kept.idle
      BY <3>1, <2>2, EffectHolder DEF OneHolder
    <3>4. QED
      BY <3>1, <3>2, <3>3, EffectFrame DEF OneHolder
  <2>3. QED
    BY <2>1, <2>2
<1>4. QED
  BY <1>2, <1>3 DEF OneHolder
-----------------------------------------------------------------------------
(***************************************************************************)
(* The slots of a pool.                                                    *)
(***************************************************************************)
LEMMA OutIsFinite == ASSUME NEW p PROVE IsFiniteSet(Out(p)) /\ Cardinality(Out(p)) \in Nat
<1>1. Out(p) \in SUBSET Borrowers
  BY DEF Out
<1>2. QED
  BY <1>1, FS_Subset, FS_CardinalityType, PoolAssumption

\* The others stay where they are.
LEMMA EffectOut ==
    ASSUME PoolTypeOK, NEW b \in Borrowers, NEW p \in Pools, NEW to, NEW kept,
           Effect(b, p, to, kept), NEW q \in Pools
    PROVE  /\ Out(q)' = IF to.pool = q /\ to.pc \in Busy THEN Out(q) \cup {b} ELSE Out(q) \ {b}
           /\ Waits(q)' = IF to.pool = q /\ to.pc = "wait" THEN Waits(q) \cup {b} ELSE Waits(q) \ {b}
  BY EffectFrame DEF Out, Waits, Busy, At

LEMMA EffectSlots ==
    ASSUME PoolInv, NEW b \in Borrowers, NEW p \in Pools, NEW to, NEW kept, Effect(b, p, to, kept),
           NEW q \in Pools, ~pool'[q].closed
    PROVE  SlotsOf(q)'
<1> USE DEF PoolInv
<1>1. /\ pool[p] \in PoolType /\ PoolSize \in Nat \ {0} /\ None \notin Pools
      /\ pool[p].created \in Nat /\ pool[p].lost \in Nat /\ pool[p].closed \in BOOLEAN
  BY PoolFields, PoolAssumption DEF PoolTypeOK
<1>2. /\ borrower[b].pool = None <=> At(b, "away")
      /\ borrower[b].pool \in {None, p} /\ to.pool \in {None, p}
  <2>1. borrower[b].pool = None <=> At(b, "away")
    BY DEF Placed
  <2>2. borrower[b].pool \in {None, p}
    BY <2>1 DEF Effect, Enters, Closes, Inside
  <2>3. to.pool \in {None, p}
    <3>1. \A pc, c, second : Placing(p, pc, c, second).pool = p
      BY DEF Placing
    <3>2. CASE Enters(b, p, to, kept) \/ Closes(b, p, to, kept)
      <4>1. to = Placing(p, "take", None, FALSE) \/ to = Placing(p, "drain", None, FALSE)
        BY <3>2 DEF Enters, Closes
      <4>2. QED
        BY <3>1, <4>1
    <3>3. CASE Takes(b, p, to, kept) \/ Goes(b, p, to, kept)
      BY <3>1, <3>3 DEF Takes, Goes
    <3>4. CASE Reserves(b, p, to, kept) \/ Connects(b, p, to, kept)
      BY <3>1, <3>4 DEF Reserves, Connects
    <3>5. CASE Loses(b, p, to, kept) \/ GivesBack(b, p, to, kept)
      BY <3>5, AwayFields DEF Loses, GivesBack
    <3>6. CASE Drops(b, p, to, kept) \/ Drains(b, p, to, kept)
      <4>1. to \in {Away, borrower[b], Placing(p, "take", None, TRUE)}
        BY <3>6 DEF Drops, Drains
      <4>2. QED
        BY <2>2, <3>1, <4>1, AwayFields
    <3>7. QED
      BY <3>2, <3>3, <3>4, <3>5, <3>6 DEF Effect, Inside
  <2>4. QED
    BY <2>1, <2>2, <2>3
<1>3. CASE q # p
  <2>1. b \notin Out(q) /\ b \notin Waits(q)
    BY <1>1, <1>2, <1>3 DEF Out, Waits
  <2>2. Out(q)' = Out(q) /\ Waits(q)' = Waits(q)
    <3>1. to.pool # q
      BY <1>1, <1>2, <1>3
    <3>2. Out(q)' = Out(q) \ {b} /\ Waits(q)' = Waits(q) \ {b}
      BY <3>1, EffectOut
    <3>3. QED
      BY <2>1, <3>2
  <2>3. pool'[q] = pool[q]
    BY <1>3, EffectFrame
  <2>4. SlotsOf(q)
    BY <2>3, SlotsByPool
  <2>5. QED
    BY <2>2, <2>3, <2>4 DEF SlotsOf
<1>4. CASE q = p
  <2> DEFINE n == Cardinality(pool[p].idle)
             m == Cardinality(Out(p))
             k == pool[p]
  <2>k. k \in PoolType /\ kept \in PoolType /\ pool'[p] = kept /\ ~kept.closed
    BY <1>1, <1>4, EffectType, EffectFrame
  <2>c. n \in Nat /\ m \in Nat /\ IsFiniteSet(k.idle) /\ IsFiniteSet(Out(p))
    BY OutIsFinite, FS_CardinalityType DEF Apart
  <2>s. ~k.closed => SlotsOf(p)
    BY SlotsByPool
  <2>i. /\ Cardinality(Out(p) \cup {b}) = IF b \in Out(p) THEN m ELSE m + 1
        /\ Cardinality(Out(p) \ {b}) = IF b \in Out(p) THEN m - 1 ELSE m
        /\ b \in Out(p) => m > 0
    <3>1. /\ Cardinality(Out(p) \cup {b}) = IF b \in Out(p) THEN m ELSE m + 1
          /\ Cardinality(Out(p) \ {b}) = IF b \in Out(p) THEN m - 1 ELSE m
      BY <2>c, FS_AddElement, FS_RemoveElement
    <3>2. b \in Out(p) => m # 0
      BY <2>c, FS_EmptySet
    <3>3. QED
      BY <3>1, <3>2, <2>c
  <2>o. /\ Out(p)' = IF to.pool = p /\ to.pc \in Busy THEN Out(p) \cup {b} ELSE Out(p) \ {b}
        /\ Waits(p)' = IF to.pool = p /\ to.pc = "wait" THEN Waits(p) \cup {b} ELSE Waits(p) \ {b}
    BY EffectOut
  <2>b. /\ b \in Out(p) <=> borrower[b].pool = p /\ borrower[b].pc \in Busy
        /\ b \in Waits(p) <=> borrower[b].pool = p /\ borrower[b].pc = "wait"
    BY DEF Out, Busy, Waits, At
  <2>e. Cardinality({}) = 0
    BY FS_EmptySet
  <2>g. \A pc, c, second : /\ Placing(p, pc, c, second).pool = p
                           /\ Placing(p, pc, c, second).pc = pc
    BY DEF Placing
  <2>1. CASE Enters(b, p, to, kept)
    <3>1. Out(p)' = Out(p) /\ Waits(p)' = Waits(p)
      <4>1. to.pc = "take" /\ borrower[b].pc = "away"
        BY <2>1, <2>g DEF Enters, At
      <4>2. QED
        BY <4>1, <2>o, <2>b DEF Busy
    <3>2. CASE registered = p /\ kept = k
      BY <3>1, <3>2, <2>k, <2>s, <1>4 DEF SlotsOf
    <3>3. CASE (\A other \in Borrowers : borrower[other].pool # p) /\ kept = NewPool
      <4>1. Out(p) = {} /\ Waits(p) = {}
        BY <3>3 DEF Out, Waits
      <4>2. kept.idle = {} /\ kept.created = 0 /\ kept.lost = 0
        BY <3>3 DEF NewPool
      <4>3. QED
        BY <4>1, <4>2, <3>1, <2>k, <2>e, <1>4 DEF SlotsOf
    <3>4. QED
      BY <2>1, <3>2, <3>3 DEF Enters
  <2>2. CASE Closes(b, p, to, kept)
    BY <2>2, <2>k DEF Closes, PoolType
  <2>3. CASE Takes(b, p, to, kept) /\ Inside(b, p, to, kept)
    <3>1. PICK c \in k.idle : to = Placing(p, "ping", c, borrower[b].second) /\ kept = [k EXCEPT !.idle = k.idle \ {c}]
      BY <2>3 DEF Takes
    <3>2. /\ kept.idle = k.idle \ {c} /\ kept.created = k.created /\ kept.lost = k.lost
          /\ kept.closed = k.closed /\ kept.dropped = k.dropped
      BY <3>1, <2>k DEF PoolType
    <3>3. Cardinality(kept.idle) = n - 1
      BY <3>1, <3>2, <2>c, FS_RemoveElement
    <3>4. b \notin Out(p) /\ Out(p)' = Out(p) \cup {b} /\ Cardinality(Out(p)') = m + 1
      <4>1. b \notin Out(p)
        BY <2>3, <2>b DEF Takes, At, Busy
      <4>2. Out(p)' = Out(p) \cup {b}
        BY <3>1, <2>g, <2>o DEF Busy
      <4>3. QED
        BY <4>1, <4>2, <2>i
    <3>5. k.created = n + m + k.lost
      BY <3>2, <2>k, <2>s DEF SlotsOf
    <3>6. kept.created = Cardinality(kept.idle) + Cardinality(Out(p)') + kept.lost
      BY <3>2, <3>3, <3>4, <3>5, <2>c, <1>1
    <3>7. Out(p)' # {}
      BY <3>4
    <3>8. QED
      BY <3>6, <3>7, <2>k, <1>4 DEF SlotsOf
  <2>4. CASE Goes(b, p, to, kept) /\ Inside(b, p, to, kept)
    <3>1. kept = k /\ borrower[b].pool = p /\ SlotsOf(p)
      BY <2>4, <2>k, <2>s DEF Goes, Inside
    <3>2. CASE At(b, "take") /\ \E second : to = Placing(p, "reserve", None, second)
      <4>1. Out(p)' = Out(p) /\ Waits(p)' = Waits(p)
        BY <3>2, <2>g, <2>o, <2>b DEF Busy, At
      <4>2. QED
        BY <3>1, <4>1, <2>k, <1>4 DEF SlotsOf
    <3>3. CASE At(b, "reserve") /\ k.created >= PoolSize /\ \E second : to = Placing(p, "wait", None, second)
      <4>1. Out(p)' = Out(p)
        BY <3>3, <2>g, <2>o, <2>b DEF Busy, At
      <4>2. k.created = n + m + k.lost
        BY <3>1 DEF SlotsOf
      <4>3. k.idle = {} /\ Out(p) = {} => n = 0 /\ m = 0
        BY <2>e
      <4>4. k.idle = {} /\ Out(p) = {} => k.lost > 0
        BY <4>2, <4>3, <3>3, <1>1, <2>c
      <4>5. QED
        BY <3>1, <4>1, <4>4, <2>k, <1>4 DEF SlotsOf
    <3>4. CASE /\ At(b, "ping") \/ At(b, "use")
               /\ \E pc \in {"use", "drop"} : \E second : to = Placing(p, pc, borrower[b].conn, second)
      <4>1. Out(p)' = Out(p) /\ Waits(p)' = Waits(p)
        BY <3>1, <3>4, <2>g, <2>o, <2>b DEF Busy, At
      <4>2. QED
        BY <3>1, <4>1, <2>k, <1>4 DEF SlotsOf
    <3>5. QED
      <4>1. PICK second \in BOOLEAN :
              \/ At(b, "take") /\ to = Placing(p, "reserve", None, second)
              \/ At(b, "reserve") /\ k.created >= PoolSize /\ to = Placing(p, "wait", None, second)
              \/ At(b, "ping") /\ to = Placing(p, "use", borrower[b].conn, second)
              \/ (At(b, "ping") \/ At(b, "use")) /\ to = Placing(p, "drop", borrower[b].conn, second)
        BY <2>4 DEF Goes
      <4>2. QED
        BY <4>1, <3>2, <3>3, <3>4
  <2>5. CASE Reserves(b, p, to, kept) /\ Inside(b, p, to, kept)
    <3>1. /\ kept.idle = k.idle /\ kept.created = k.created + 1 /\ kept.lost = k.lost
          /\ kept.closed = k.closed /\ kept.dropped = k.dropped
      BY <2>5, <2>k DEF Reserves, PoolType
    <3>2. b \notin Out(p) /\ Out(p)' = Out(p) \cup {b}
      BY <2>5, <2>g, <2>o, <2>b DEF Reserves, Busy, At
    <3>3. Cardinality(Out(p)') = m + 1 /\ Out(p)' # {}
      BY <3>2, <2>i
    <3>4. QED
      BY <3>1, <3>3, <2>k, <2>s, <2>c, <1>1, <1>4 DEF SlotsOf
  <2>6. CASE Connects(b, p, to, kept) /\ Inside(b, p, to, kept)
    <3>1. /\ kept.idle = k.idle /\ kept.created = k.created /\ kept.lost = k.lost
          /\ kept.closed = k.closed /\ kept.dropped = k.dropped
      BY <2>6, <2>k DEF Connects, PoolType
    <3>2. Out(p)' = Out(p) /\ Waits(p)' = Waits(p)
      BY <2>6, <2>g, <2>o, <2>b DEF Connects, Inside, Busy, At
    <3>3. QED
      BY <3>1, <3>2, <2>k, <2>s, <1>4 DEF SlotsOf
  <2>7. CASE Loses(b, p, to, kept) /\ Inside(b, p, to, kept)
    <3>1. /\ kept.idle = k.idle /\ kept.created = k.created /\ kept.lost = k.lost + 1
          /\ kept.closed = k.closed
      BY <2>7, <2>k DEF Loses, PoolType
    <3>2. b \in Out(p) /\ Out(p)' = Out(p) \ {b}
      BY <2>7, AwayFields, <1>1, <2>o, <2>b DEF Loses, Inside, Busy, At
    <3>3. Cardinality(Out(p)') = m - 1
      BY <3>2, <2>i
    <3>4. QED
      BY <3>1, <3>3, <2>k, <2>s, <2>c, <1>1, <1>4 DEF SlotsOf
  <2>8. CASE GivesBack(b, p, to, kept) /\ Inside(b, p, to, kept)
    <3>1. /\ kept.idle = k.idle \cup {borrower[b].conn} /\ kept.created = k.created
          /\ kept.lost = k.lost /\ kept.closed = k.closed
      BY <2>8, <2>k DEF GivesBack, PoolType
    <3>2. b \in Out(p) /\ Out(p)' = Out(p) \ {b}
      BY <2>8, AwayFields, <1>1, <2>o, <2>b DEF GivesBack, Inside, Busy, At
    <3>3. Cardinality(Out(p)') = m - 1
      BY <3>2, <2>i
    <3>4. borrower[b].conn \notin k.idle
      BY <2>8 DEF GivesBack, OneHolder, Placed, At
    <3>5. Cardinality(kept.idle) = n + 1
      BY ZenonT(60), <3>1, <3>4, <2>c, FS_AddElement
    <3>6. k.created = n + m + k.lost
      BY <3>1, <2>k, <2>s DEF SlotsOf
    <3>7. kept.created = Cardinality(kept.idle) + Cardinality(Out(p)') + kept.lost
      BY <3>1, <3>3, <3>5, <3>6, <2>c, <1>1
    <3>8. kept.idle # {}
      BY <3>1
    <3>9. QED
      BY <3>7, <3>8, <2>k, <1>4 DEF SlotsOf
  <2>9. CASE Drops(b, p, to, kept) /\ Inside(b, p, to, kept)
    <3>1. /\ kept.idle = k.idle /\ kept.created = (IF k.created = 0 THEN 0 ELSE k.created - 1)
          /\ kept.lost = k.lost /\ kept.dropped /\ kept.closed = k.closed
      BY <2>9, <2>k DEF Drops, PoolType
    <3>2. b \in Out(p) /\ Out(p)' = Out(p) \ {b}
      <4>1. At(b, "drop") /\ borrower[b].pool = p
        BY <2>9 DEF Drops, Inside
      <4>2. to.pc \notin Busy
        <5>1. to = Away \/ to = Placing(p, "take", None, TRUE)
          BY <2>9 DEF Drops
        <5>2. to.pc \in {"away", "take"}
          BY <5>1, AwayFields DEF Placing
        <5>3. QED
          BY <5>2 DEF Busy
      <4>3. QED
        BY <4>1, <4>2, <2>o, <2>b DEF Busy, At
    <3>3. Cardinality(Out(p)') = m - 1 /\ m > 0
      BY <3>2, <2>i
    <3>4. k.created = n + m + k.lost
      BY <3>1, <2>k, <2>s DEF SlotsOf
    <3>5. kept.created = Cardinality(kept.idle) + Cardinality(Out(p)') + kept.lost
      BY <3>1, <3>3, <3>4, <2>c, <1>1
    <3>6. QED
      BY <3>1, <3>5, <2>k, <1>4 DEF SlotsOf
  <2>10. CASE Drains(b, p, to, kept) /\ Inside(b, p, to, kept)
    <3>1. kept.closed = k.closed
      BY <2>10, <2>k DEF Drains, PoolType
    <3>2. k.closed
      BY <2>10 DEF Drains, Inside, Opened
    <3>3. QED
      BY <3>1, <3>2, <2>k
  <2>11. QED
    BY <2>1, <2>2, <2>3, <2>4, <2>5, <2>6, <2>7, <2>8, <2>9, <2>10 DEF Effect, Inside
<1>5. QED
  BY <1>3, <1>4

LEMMA PoolStepInv == ASSUME PoolInv, [PoolNext]_poolVars PROVE PoolInv'
<1>1. CASE PoolNext
  <2>0. PICK b \in Borrowers, p \in Pools : \E to, kept : Effect(b, p, to, kept)
    BY <1>1, PoolEffect DEF PoolInv
  <2>1. PICK to, kept : Effect(b, p, to, kept)
    BY <2>0
  <2>2. PoolTypeOK' /\ Placed' /\ Apart' /\ OneHolder' /\ Opened'
    BY <2>1, EffectType, EffectPlaced, EffectApart, EffectOpened DEF PoolInv
  <2>3. \A q \in Pools : ~pool'[q].closed => SlotsOf(q)'
    BY <2>1, EffectSlots
  <2>4. SlotsAreAccounted'
    BY <2>3 DEF SlotsAreAccounted, SlotsOf, Waits
  <2>5. QED
    BY <2>2, <2>4 DEF PoolInv
<1>2. CASE UNCHANGED poolVars
  BY <1>2 DEF poolVars, PoolInv, PoolTypeOK, Placed, Apart, OneHolder, Opened, SlotsAreAccounted, Out, At
<1>3. QED
  BY <1>1, <1>2

\* No connection is ever lent to two threads or lent while it is idle, and a pool that is not
\* being closed accounts for every one of its slots.
THEOREM PoolsLendSafely == PoolSpec => []PoolsLend
<1>1. PoolInv => PoolsLend
  BY DEF PoolInv, PoolsLend
<1>2. QED
  BY <1>1, PoolInitInv, PoolStepInv, PTL DEF PoolSpec

-----------------------------------------------------------------------------
(***************************************************************************)
(* Live table: a message on its way is at least as new as what it will be  *)
(* shown over.                                                             *)
(***************************************************************************)
\* Writer w has yet to tell the row of t as it is.
Owes(w, t) ==
    \/ job[w].step = "loaded"
    \/ /\ job[w].step \in {"updated", "ready"}
       /\ t \in job[w].message.tags
       /\ job[w].message.rows[t] = Values[t]

\* No writer has.
Told(t) == \A w \in Writers : ~Owes(w, t)

\* A message of seq has the row of t; the last one that has it says x, or was late.
Mentions(seq, t) == \E i \in 1..Len(seq) : t \in seq[i].tags
Says(seq, t, x) ==
    \A i \in 1..Len(seq) :
        t \in seq[i].tags => \/ seq[i].rows[t] = x \/ t \in seq[i].late
                             \/ \E j \in 1..Len(seq) : i < j /\ t \in seq[j].tags

\* The row of t has been sent to every page that is connected.
Announced(t) == Told(t) /\ ~Mentions(broadcasts, t)

\* What a writer has yet to tell of a row is the row as it is, or late, or another writer has
\* yet to tell the row as it is.
JobTells(w) ==
    /\ job[w].step = "idle" => job[w].project = None
    /\ job[w].step = "activate" => job[w].project # None
    /\ job[w].step \in {"loaded", "updated", "ready"} => job[w].message \in Message
    /\ job[w].step \in {"updated", "ready"} =>
          /\ job[w].message.full => job[w].message.tags = Tags
          /\ \A t \in job[w].message.tags : Told(t) => t \in job[w].message.late
JobsTell == \A w \in Writers : JobTells(w)

\* A full table has all rows.
AllFull(seq) == \A i \in 1..Len(seq) : seq[i].full => seq[i].tags = Tags
FullsAreFull == AllFull(broadcasts) /\ \A p \in Pages : AllFull(page[p].inbox)

\* The last broadcast that has a row has it as it is, or is late, unless a writer has yet to
\* tell it.
BroadcastsTell == \A t \in Tags : Told(t) => Says(broadcasts, t, Values[t])

\* So has the last message on its way to a page, once the row has been sent to all.
InboxTold(g) ==
    g.conn # "closed" => \A t \in Tags : Announced(t) => Says(g.inbox, t, Values[t])
InboxTells == \A p \in Pages : InboxTold(page[p])

\* What an open page shows of a row that nothing brings any more, and what the answer of
\* its fetch will show, is the row as it is.
ViewTold(g) ==
    g.conn = "open" =>
        \A t \in Tags : Announced(t) /\ ~Mentions(g.inbox, t) =>
            /\ t \in g.behind \cup g.ignored \/ g.view[t] = Values[t]
            /\ g.answer # None /\ t \notin g.passed => g.answer[t] = Values[t]
ViewTells == \A p \in Pages : ViewTold(page[p])

\* Whose the rows are, and which project is or will be the active one, while nothing went
\* astray.
Own == IF owner = None THEN active ELSE owner
ByActive ==
    ~astray =>
        /\ \A t \in Loaded : rows[t].by \in {None, Own}
        /\ \/ owner \in {None, active}
           \/ \E w \in Writers :
                job[w].project = owner /\ job[w].step \in {"loaded", "ready", "activate"}

ClosedIsEmpty == \A p \in Pages : page[p].conn = "closed" => page[p].inbox = <<>>

-----------------------------------------------------------------------------
(***************************************************************************)
(* Live table: types.                                                      *)
(***************************************************************************)
JobType ==
    [step : {"idle", "push", "loaded", "updated", "ready", "activate"},
     project : {None} \cup Projects, message : {None} \cup Message]

PageType ==
    [conn : {"closed", "joining", "open"}, inbox : Seq(Message), view : Shown,
     lastFull : {None} \cup Ids,
     lastPartial : {None} \cup (Ids \X (SUBSET Tags) \X Nat),
     answer : {None} \cup Shown, passed : SUBSET Tags, fetched : BOOLEAN,
     behind : SUBSET Tags, ignored : SUBSET Tags]

\* A job as a record made of its parts.
Job(s, pr, m) == [step |-> s, project |-> pr, message |-> m]

LEMMA JobMade ==
    ASSUME NEW s \in {"idle", "push", "loaded", "updated", "ready", "activate"},
           NEW pr \in {None} \cup Projects, NEW m \in {None} \cup Message
    PROVE  /\ Job(s, pr, m) \in JobType
           /\ Job(s, pr, m).step = s
           /\ Job(s, pr, m).project = pr
           /\ Job(s, pr, m).message = m
  BY DEF Job, JobType

LEMMA IdleMade == Idle \in JobType /\ Idle.step = "idle" /\ Idle.project = None
  BY DEF Idle, JobType

\* A message as a record made of its parts.
Msg(f, i, r, ts, c, l) == [full |-> f, id |-> i, rows |-> r, tags |-> ts, changed |-> c, late |-> l]

LEMMA MsgMade ==
    ASSUME NEW f \in BOOLEAN, NEW i \in Ids, NEW r \in Shown,
           NEW ts \in SUBSET Tags, NEW c \in SUBSET Tags, NEW l \in SUBSET Tags
    PROVE  /\ Msg(f, i, r, ts, c, l) \in Message
           /\ Msg(f, i, r, ts, c, l).full = f
           /\ Msg(f, i, r, ts, c, l).rows = r
           /\ Msg(f, i, r, ts, c, l).tags = ts
           /\ Msg(f, i, r, ts, c, l).id = i
           /\ Msg(f, i, r, ts, c, l).late = l
  BY DEF Msg, Message

\* A message that is overtaken tells the same, later.
LEMMA OvertakenMade ==
    ASSUME NEW x \in Message, NEW m \in Message
    PROVE  /\ Overtaken(x, m) \in Message
           /\ Overtaken(x, m).full = x.full
           /\ Overtaken(x, m).rows = x.rows
           /\ Overtaken(x, m).tags = x.tags
           /\ Overtaken(x, m).late =
                x.late \cup {t \in m.tags \cap x.tags : m.rows[t] = Values[t] /\ x.rows[t] # Values[t]}
<1> PICK l : l = x.late \cup {t \in m.tags \cap x.tags : m.rows[t] = Values[t] /\ x.rows[t] # Values[t]}
  OBVIOUS
<1>1. l \in SUBSET Tags
  BY DEF Message
<1>2. Overtaken(x, m) = [x EXCEPT !.late = l]
  BY DEF Overtaken
<1>3. x = Msg(x.full, x.id, x.rows, x.tags, x.changed, x.late)
  BY DEF Msg, Message
<1>4. Overtaken(x, m) = Msg(x.full, x.id, x.rows, x.tags, x.changed, l)
  BY <1>2, <1>3 DEF Msg
<1> QED
  BY <1>1, <1>4 DEF Msg, Message

\* Less than, as a relation between numbers.
Below == {ss \in Nat \X Nat : ss[1] < ss[2]}

LEMMA BelowIsWellFounded == IsWellFoundedOn(Below, Nat)
  BY NatLessThanWellFounded DEF OpToRel, Below

\* A set of numbers that has one has a least one.
LEMMA SmallestThere ==
    ASSUME NEW S \in SUBSET Nat, S # {}
    PROVE  \E t \in S : \A u \in S : t <= u
<1>1. PICK t \in S : \A u \in S : ~(<<u, t>> \in Below)
  BY WFMin, BelowIsWellFounded
<1>2. ASSUME NEW u \in S, ~(t <= u) PROVE FALSE
  <2>1. u \in Nat /\ t \in Nat
    OBVIOUS
  <2>2. <<u, t>> \in Nat \X Nat /\ u < t
    BY <1>2, <2>1
  <2>3. <<u, t>> \in Below
    BY <2>2 DEF Below
  <2> QED
    BY <1>1, <2>3
<1> QED
  BY <1>2

LEMMA HasLeast ==
    ASSUME NEW S \in SUBSET Nat, S # {}
    PROVE  Least(S) \in S
  BY SmallestThere DEF Least

\* What rows show, and under which identifier, when they have their type.
LEMMA ShownType ==
    ASSUME rows \in [Tags -> {None} \cup RowType]
    PROVE  /\ Values \in Shown
           /\ TableId \in Ids
           /\ \A t \in Tags : Values[t] = IF rows[t] = None THEN None ELSE rows[t].value
<1>1. \A t \in Tags : (IF rows[t] = None THEN None ELSE rows[t].value) \in {None} \cup Readings
  BY DEF RowType
<1>2. Values \in Shown
  BY <1>1 DEF Values, Shown
<1>3. TableId \in Ids
  <2>1. CASE Loaded = {}
    BY <2>1, FeedAssumption DEF TableId, Ids
  <2>2. CASE Loaded # {}
    <3>1. Loaded \in SUBSET Nat
      BY FeedAssumption DEF Loaded
    <3>2. Least(Loaded) \in Loaded
      BY <2>2, <3>1, HasLeast
    <3>3. rows[Least(Loaded)] \in RowType
      BY <3>2 DEF Loaded
    <3> QED
      BY <2>2, <3>3 DEF TableId, RowType
  <2> QED
    BY <2>1, <2>2
<1> QED
  BY <1>2, <1>3 DEF Values

LEMMA FullMade ==
    ASSUME rows \in [Tags -> {None} \cup RowType], NEW i \in Ids
    PROVE  /\ FullTable(i) \in Message
           /\ FullTable(i).full
           /\ FullTable(i).tags = Tags
           /\ FullTable(i).rows = Values
<1>1. FullTable(i) = Msg(TRUE, i, Values, Tags, {}, {})
  BY DEF FullTable, Msg
<1>2. TRUE \in BOOLEAN /\ Tags \in SUBSET Tags /\ {} \in SUBSET Tags /\ Values \in Shown
  BY ShownType
<1>3. PICK v : v = Values
  OBVIOUS
<1>4. Msg(TRUE, i, v, Tags, {}, {}) \in Message /\ Msg(TRUE, i, v, Tags, {}, {}).full
      /\ Msg(TRUE, i, v, Tags, {}, {}).tags = Tags /\ Msg(TRUE, i, v, Tags, {}, {}).rows = v
  BY <1>2, <1>3 DEF Msg, Message
<1> QED
  BY <1>1, <1>3, <1>4

LEMMA BlankShown == Blank \in Shown
  BY DEF Blank, Shown

LEMMA FeedInitType == FeedInit => FeedTypeOK
<1> SUFFICES ASSUME FeedInit PROVE FeedTypeOK
  OBVIOUS
<1>1. NewPage \in PageType
  BY BlankShown DEF NewPage, PageType
<1>2. Idle \in JobType
  BY IdleMade
<1>3. job \in [Writers -> JobType] /\ page \in [Pages -> PageType]
  BY <1>1, <1>2 DEF FeedInit
<1>4. /\ rows \in [Tags -> {None} \cup RowType] /\ snapshotId \in Ids
      /\ active \in {None} \cup Projects /\ owner \in {None} \cup Projects
      /\ astray \in BOOLEAN /\ broadcasts \in Seq(Message)
  <2>1. rows \in [Tags -> {None} \cup RowType] /\ broadcasts \in Seq(Message)
    BY EmptySeq DEF FeedInit
  <2>2. snapshotId \in Ids
    BY FeedAssumption DEF FeedInit, Ids
  <2> QED
    BY <2>1, <2>2 DEF FeedInit
<1> QED
  BY <1>3, <1>4 DEF FeedTypeOK, JobType, PageType

\* What an update leaves in the rows and makes of them.
Impacted(changed) == (UNION {Impact[t] : t \in changed}) \cap Loaded
RowAfter(t, tags, value, w, id) ==
    IF t \in Impacted(tags \cap Loaded)
    THEN [value |-> IF t \in tags \cap Loaded THEN value ELSE rows[t].value,
          by |-> IF t \in tags \cap Loaded THEN job[w].project ELSE rows[t].by,
          id |-> id]
    ELSE rows[t]

LEMMA RowAfterType ==
    ASSUME FeedTypeOK, NEW w \in Writers, NEW tags \in SUBSET Tags, NEW value \in Readings,
           NEW id \in Ids, NEW t \in Tags
    PROVE  /\ RowAfter(t, tags, value, w, id) \in {None} \cup RowType
           /\ t \in Impacted(tags \cap Loaded) =>
                /\ rows[t] # None
                /\ RowAfter(t, tags, value, w, id) \in RowType
                /\ RowAfter(t, tags, value, w, id).value = IF t \in tags \cap Loaded THEN value ELSE rows[t].value
                /\ RowAfter(t, tags, value, w, id).by = IF t \in tags \cap Loaded THEN job[w].project ELSE rows[t].by
           /\ t \notin Impacted(tags \cap Loaded) => RowAfter(t, tags, value, w, id) = rows[t]
<1>1. rows[t] \in {None} \cup RowType /\ job[w].project \in {None} \cup Projects
  BY DEF FeedTypeOK
<1>2. CASE t \in Impacted(tags \cap Loaded)
  <2>1. rows[t] \in RowType /\ rows[t] # None
    BY <1>1, <1>2 DEF Impacted, Loaded
  <2>2. PICK v : v = IF t \in tags \cap Loaded THEN value ELSE rows[t].value
    OBVIOUS
  <2>3. PICK b : b = IF t \in tags \cap Loaded THEN job[w].project ELSE rows[t].by
    OBVIOUS
  <2>4. v \in Readings /\ b \in {None} \cup Projects
    BY <1>1, <2>1, <2>2, <2>3 DEF RowType
  <2>5. RowAfter(t, tags, value, w, id) = [value |-> v, by |-> b, id |-> id]
    BY <1>2, <2>2, <2>3 DEF RowAfter
  <2> QED
    BY <1>2, <2>1, <2>2, <2>3, <2>4, <2>5 DEF RowType
<1>3. CASE t \notin Impacted(tags \cap Loaded)
  BY <1>1, <1>3 DEF RowAfter
<1> QED
  BY <1>2, <1>3

LEMMA UpdateRows ==
    ASSUME NEW w \in Writers, NEW tags \in SUBSET Tags, NEW value \in Readings, Update(w, tags, value)
    PROVE  rows' = [t \in Tags |-> RowAfter(t, tags, value, w, snapshotId')]
  BY DEF Update, RowAfter, Impacted

\* What an update does, with the message it makes.
LEMMA UpdateMakes ==
    ASSUME FeedTypeOK, NEW w \in Writers, NEW tags \in SUBSET Tags, NEW value \in Readings,
           Update(w, tags, value)
    PROVE  /\ snapshotId' \in Ids
           /\ rows' = [t \in Tags |-> RowAfter(t, tags, value, w, snapshotId')]
           /\ tags \cap Loaded = {} =>
                 job' = [job EXCEPT ![w] = Idle] /\ Impacted(tags \cap Loaded) = {}
           /\ tags \cap Loaded # {} =>
                 \E m \in Message :
                    /\ job' = [job EXCEPT ![w] = Job("updated", None, m)]
                    /\ ~m.full
                    /\ m.tags = Impacted(tags \cap Loaded)
                    /\ \A t \in m.tags : m.rows[t] = rows'[t].value
<1>1. snapshotId' \in Ids
  BY FeedAssumption DEF Update, FeedTypeOK, Ids
<1>2. rows' = [t \in Tags |-> RowAfter(t, tags, value, w, snapshotId')]
  BY UpdateRows
<1>3. Impacted(tags \cap Loaded) \subseteq Tags
  BY DEF Impacted, Loaded
<1>4. CASE tags \cap Loaded = {}
  <2>1. Impacted(tags \cap Loaded) = {}
    BY <1>4 DEF Impacted
  <2>2. job' = [job EXCEPT ![w] = Idle]
    BY <1>4 DEF Update
  <2> QED
    BY <1>1, <1>2, <1>4, <2>1, <2>2
<1>5. CASE tags \cap Loaded # {}
  <2> PICK imp : imp = Impacted(tags \cap Loaded)
    OBVIOUS
  <2> PICK ch : ch = tags \cap Loaded
    OBVIOUS
  <2> PICK id : id = snapshotId'
    OBVIOUS
  <2> PICK r : r = [t \in Tags |-> IF t \in imp THEN rows'[t].value ELSE None]
    OBVIOUS
  <2>1. job' = [job EXCEPT ![w] = Job("updated", None, Msg(FALSE, id, r, imp, ch, {}))]
    BY <1>5 DEF Update, Impacted, Job, Msg
  <2>2. r \in Shown
    <3>1. \A t \in imp : rows'[t].value \in Readings
      <4> SUFFICES ASSUME NEW t \in imp PROVE rows'[t].value \in Readings
        OBVIOUS
      <4>1. t \in Tags /\ rows'[t] = RowAfter(t, tags, value, w, id)
        BY <1>2, <1>3
      <4>2. RowAfter(t, tags, value, w, id) \in RowType
        BY <1>1, <4>1, RowAfterType
      <4> QED
        BY <4>1, <4>2 DEF RowType
    <3> QED
      BY <3>1 DEF Shown
  <2>3. imp \in SUBSET Tags /\ ch \in SUBSET Tags /\ id \in Ids
    BY <1>1, <1>3
  <2>4. PICK m : m = Msg(FALSE, id, r, imp, ch, {})
    OBVIOUS
  <2>5. m \in Message /\ ~m.full /\ m.tags = imp /\ m.rows = r
    BY <2>2, <2>3, <2>4 DEF Msg, Message
  <2>6. \A t \in m.tags : m.rows[t] = rows'[t].value
    BY <2>3, <2>5
  <2> QED
    BY <1>1, <1>2, <1>5, <2>1, <2>4, <2>5, <2>6
<1> QED
  BY <1>4, <1>5

\* What a load does.
LEMMA LoadMakes ==
    ASSUME FeedTypeOK, NEW w \in Writers, NEW project \in {None} \cup Projects,
           NEW tags \in RowSets, NEW value \in Readings, Load(w, project, tags, value)
    PROVE  /\ snapshotId' \in Ids
           /\ rows' \in [Tags -> {None} \cup RowType]
           /\ \A t \in Tags : rows'[t] # None => rows'[t].by = project
           /\ owner' = project /\ ~astray'
           /\ \E m \in Message : job' = [job EXCEPT ![w] = Job("loaded", project, m)]
<1>1. snapshotId' \in Ids
  BY FeedAssumption DEF Load, FeedTypeOK, Ids
<1>2. PICK id \in Ids : id = snapshotId'
  BY <1>1
<1>3. [value |-> value, by |-> project, id |-> id] \in RowType
  BY DEF RowType
<1>4. rows' = [t \in Tags |->
          IF t \in tags THEN [value |-> value, by |-> project, id |-> id] ELSE None]
  BY <1>2 DEF Load
<1>5. PICK m : m = Msg(TRUE, id, Blank, Tags, {}, {})
  OBVIOUS
<1>6. m \in Message
  BY <1>5, BlankShown DEF Msg, Message
<1>7. job' = [job EXCEPT ![w] = Job("loaded", project, m)]
  BY <1>2, <1>5 DEF Load, Job, Msg
<1> QED
  <2>1. rows' \in [Tags -> {None} \cup RowType]
    BY <1>3, <1>4
  <2>2. \A t \in Tags : rows'[t] # None => rows'[t].by = project
    BY <1>4
  <2>3. owner' = project /\ ~astray'
    BY DEF Load
  <2> QED
    BY ZenonT(60), <1>1, <1>6, <1>7, <2>1, <2>2, <2>3

\* What is left of the writers when one of them is through with a message.
LEMMA ThroughMakes ==
    ASSUME FeedTypeOK, JobsTell, NEW w \in Writers, NEW m \in Message, Through(w, m)
    PROVE  /\ job' \in [Writers -> JobType]
           /\ job'[w] = IF job[w].project = None THEN Idle ELSE Job("activate", job[w].project, None)
           /\ \A v \in Writers \ {w} :
                /\ job'[v].step = job[v].step /\ job'[v].project = job[v].project
                /\ job[v].step \notin {"updated", "ready"} => job'[v] = job[v]
                /\ job[v].step \in {"updated", "ready"} => job'[v].message = Overtaken(job[v].message, m)
<1>0. job \in [Writers -> JobType]
  BY DEF FeedTypeOK, JobType
<1>1. job' = [v \in Writers |->
        IF v = w
        THEN IF job[w].project = None THEN Idle ELSE Job("activate", job[w].project, None)
        ELSE IF job[v].step \in {"updated", "ready"}
             THEN [job[v] EXCEPT !.message = Overtaken(job[v].message, m)]
             ELSE job[v]]
  BY DEF Through, Job
<1>2. ASSUME NEW v \in Writers, v # w
      PROVE  /\ job'[v] \in JobType
             /\ job'[v].step = job[v].step /\ job'[v].project = job[v].project
             /\ job[v].step \notin {"updated", "ready"} => job'[v] = job[v]
             /\ job[v].step \in {"updated", "ready"} => job'[v].message = Overtaken(job[v].message, m)
  <2>1. CASE job[v].step \in {"updated", "ready"}
    <3>1. job[v].message \in Message
      BY <2>1 DEF JobsTell, JobTells
    <3> PICK x \in Message : x = Overtaken(job[v].message, m)
      BY <3>1, OvertakenMade
    <3>2. job'[v] = [job[v] EXCEPT !.message = x]
      BY <1>1, <1>2, <2>1
    <3> QED
      BY <1>0, <2>1, <3>2 DEF JobType
  <2>2. CASE job[v].step \notin {"updated", "ready"}
    BY <1>0, <1>1, <1>2, <2>2
  <2> QED
    BY <2>1, <2>2
<1>3. job'[w] = IF job[w].project = None THEN Idle ELSE Job("activate", job[w].project, None)
  BY <1>1
<1>4. job'[w] \in JobType
  BY <1>0, <1>3, IdleMade DEF Job, JobType
<1> QED
  BY <1>1, <1>2, <1>3, <1>4

\* A writer that is through with a message that tells all it owed: what others tell
\* otherwise is late.
LEMMA ThroughTells ==
    ASSUME FeedTypeOK, JobsTell, NEW w \in Writers, NEW m \in Message, Through(w, m), UNCHANGED rows,
           \A t \in Tags : Owes(w, t) => t \in m.tags /\ m.rows[t] = Values[t]
    PROVE  /\ JobsTell'
           /\ \A t \in Tags : Values'[t] = Values[t]
           /\ \A t \in Tags : Told(t)' => Told(t) \/ (t \in m.tags /\ m.rows[t] = Values[t])
<1>1. Values' = Values
  BY DEF Values
<1>2. job'[w].step \in {"idle", "activate"}
  <2>1. job'[w] = IF job[w].project = None THEN Idle ELSE Job("activate", job[w].project, None)
    BY ThroughMakes
  <2> QED
    BY <2>1, IdleMade DEF Job
<1>3. ASSUME NEW v \in Writers, v # w, NEW t \in Tags PROVE Owes(v, t)' <=> Owes(v, t)
  <2>1. CASE job[v].step \in {"updated", "ready"}
    <3>1. job[v].message \in Message
      BY <2>1 DEF JobsTell, JobTells
    <3>2. job'[v].message.tags = job[v].message.tags /\ job'[v].message.rows = job[v].message.rows
      BY <1>3, <2>1, <3>1, ThroughMakes, OvertakenMade
    <3>3. job'[v].step = job[v].step
      BY <1>3, ThroughMakes
    <3> QED
      BY <1>1, <2>1, <3>2, <3>3 DEF Owes
  <2>2. CASE job[v].step \notin {"updated", "ready"}
    <3>1. job'[v] = job[v]
      BY <1>3, <2>2, ThroughMakes
    <3> QED
      BY <2>2, <3>1 DEF Owes
  <2> QED
    BY <2>1, <2>2
<1>4. ASSUME NEW t \in Tags, Told(t)' PROVE Told(t) \/ (t \in m.tags /\ m.rows[t] = Values[t])
  <2> SUFFICES ASSUME ~(t \in m.tags /\ m.rows[t] = Values[t]) PROVE Told(t)
    OBVIOUS
  <2>1. ~Owes(w, t)
    OBVIOUS
  <2>2. \A v \in Writers : ~Owes(v, t)'
    BY <1>4 DEF Told
  <2>3. \A v \in Writers : v # w => ~Owes(v, t)
    BY <1>3, <2>2
  <2> QED
    BY <2>1, <2>3 DEF Told
<1>5. ASSUME NEW v \in Writers, v # w PROVE JobTells(v)'
  <2>1. CASE job[v].step \in {"updated", "ready"}
    <3>1. job[v].message \in Message
      BY <2>1 DEF JobsTell, JobTells
    <3> PICK x \in Message : x = job[v].message
      BY <3>1
    <3>2. /\ job'[v].step = job[v].step
          /\ job'[v].message \in Message
          /\ job'[v].message.full = x.full
          /\ job'[v].message.tags = x.tags
          /\ job'[v].message.late =
                x.late \cup {t \in m.tags \cap x.tags : m.rows[t] = Values[t] /\ x.rows[t] # Values[t]}
      BY <1>5, <2>1, ThroughMakes, OvertakenMade
    <3>3. ASSUME NEW t \in x.tags, Told(t)' PROVE t \in job'[v].message.late
      <4>1. t \in Tags
        BY DEF Message
      <4>2. CASE Told(t)
        BY <2>1, <3>2, <4>2 DEF JobsTell, JobTells
      <4>3. CASE t \in m.tags /\ m.rows[t] = Values[t]
        <5>1. ~Owes(v, t)
          BY <1>3, <1>5, <3>3, <4>1 DEF Told
        <5>2. x.rows[t] # Values[t]
          BY <2>1, <5>1 DEF Owes
        <5> QED
          BY <3>2, <4>3, <5>2
      <4> QED
        BY <1>4, <3>3, <4>1, <4>2, <4>3
    <3>4. x.full => x.tags = Tags
      BY <2>1 DEF JobsTell, JobTells
    <3> QED
      BY <2>1, <3>2, <3>3, <3>4 DEF JobTells
  <2>2. CASE job[v].step \notin {"updated", "ready"}
    <3>1. job'[v] = job[v]
      BY <1>5, <2>2, ThroughMakes
    <3> QED
      BY <2>2, <3>1 DEF JobsTell, JobTells
  <2> QED
    BY <2>1, <2>2
<1>6. JobTells(w)'
  <2>1. CASE job[w].project = None
    <3>1. job'[w] = Idle
      BY <2>1, ThroughMakes
    <3> QED
      BY <3>1, IdleMade DEF JobTells
  <2>2. CASE job[w].project # None
    <3>1. job'[w] = Job("activate", job[w].project, None)
      BY <2>2, ThroughMakes
    <3>2. job'[w].step = "activate" /\ job'[w].project # None
      BY <2>2, <3>1 DEF Job
    <3> QED
      BY <3>2 DEF JobTells
  <2> QED
    BY <2>1, <2>2
<1>7. JobsTell'
  BY <1>5, <1>6 DEF JobsTell
<1> QED
  BY <1>1, <1>4, <1>7

\* The message a writer tells the hub of.
Noticed(w) == IF job[w].step = "loaded" THEN FullTable(job[w].message.id) ELSE job[w].message

LEMMA NoticedMade ==
    ASSUME FeedTypeOK, JobsTell, NEW w \in Writers, job[w].step \in {"loaded", "updated", "ready"}
    PROVE  /\ Noticed(w) \in Message
           /\ Noticed(w).full => Noticed(w).tags = Tags
           /\ job[w].step = "loaded" => Noticed(w).tags = Tags /\ Noticed(w).rows = Values
           /\ \A t \in Tags : Owes(w, t) => t \in Noticed(w).tags /\ Noticed(w).rows[t] = Values[t]
<1>1. CASE job[w].step = "loaded"
  <2>1. job[w].message.id \in Ids
    BY <1>1 DEF JobsTell, JobTells, Message
  <2>2. Noticed(w) = FullTable(job[w].message.id)
    BY <1>1 DEF Noticed
  <2> PICK m : m = Noticed(w)
    OBVIOUS
  <2>3. m \in Message /\ m.tags = Tags /\ m.rows = Values
    BY <2>1, <2>2, FullMade DEF FeedTypeOK
  <2> QED
    BY <1>1, <2>3
<1>2. CASE job[w].step \in {"updated", "ready"}
  <2> PICK m : m = job[w].message
    OBVIOUS
  <2>1. Noticed(w) = m
    BY <1>2 DEF Noticed
  <2>2. m \in Message /\ (m.full => m.tags = Tags)
    BY <1>2 DEF JobsTell, JobTells
  <2>3. \A t \in Tags : Owes(w, t) => t \in m.tags /\ m.rows[t] = Values[t]
    BY <1>2 DEF Owes
  <2> QED
    BY <1>2, <2>1, <2>2, <2>3
<1> QED
  BY <1>1, <1>2

-----------------------------------------------------------------------------
(***************************************************************************)
(* Live table: sequences of messages.                                      *)
(***************************************************************************)
LEMMA AppendTells ==
    ASSUME NEW s \in Seq(Message), NEW m \in Message
    PROVE  /\ Append(s, m) \in Seq(Message)
           /\ \A t : Mentions(Append(s, m), t) <=> Mentions(s, t) \/ t \in m.tags
           /\ \A t, x : (t \in m.tags => m.rows[t] = x \/ t \in m.late) /\ (t \in m.tags \/ Says(s, t, x))
                         => Says(Append(s, m), t, x)
           /\ (m.full => m.tags = Tags) /\ AllFull(s)
                => AllFull(Append(s, m))
<1> PICK n \in Nat : n = Len(s)
  BY LenProperties
<1> PICK a : a = Append(s, m)
  OBVIOUS
<1>1. /\ a \in Seq(Message) /\ Len(a) = n + 1
      /\ \A i \in 1..n : a[i] = s[i]
      /\ a[n + 1] = m
  BY AppendProperties
<1>2. ASSUME NEW t PROVE Mentions(a, t) <=> Mentions(s, t) \/ t \in m.tags
  <2>1. n + 1 \in 1..(n + 1) /\ \A i \in 1..(n + 1) : i \in 1..n \/ i = n + 1
    OBVIOUS
  <2>2. \A i \in 1..n : i \in 1..(n + 1)
    OBVIOUS
  <2> QED
    BY <1>1, <2>1, <2>2 DEF Mentions
<1>3. ASSUME NEW t, NEW x, t \in m.tags => m.rows[t] = x \/ t \in m.late, t \in m.tags \/ Says(s, t, x)
      PROVE  Says(a, t, x)
  <2> SUFFICES ASSUME NEW i \in 1..(n + 1), t \in a[i].tags,
                      ~\E j \in 1..(n + 1) : i < j /\ t \in a[j].tags
               PROVE  a[i].rows[t] = x \/ t \in a[i].late
    BY <1>1 DEF Says
  <2>1. CASE i = n + 1
    BY <1>1, <1>3, <2>1
  <2>2. CASE i # n + 1
    <3>1. i \in 1..n
      BY <2>2
    <3>2. t \notin m.tags
      BY <1>1, <3>1
    <3>3. ~\E j \in 1..n : i < j /\ t \in s[j].tags
      BY <1>1
    <3> QED
      BY <1>1, <1>3, <3>1, <3>2, <3>3 DEF Says
  <2> QED
    BY <2>1, <2>2
<1>4. (m.full => m.tags = Tags) /\ (\A i \in 1..n : s[i].full => s[i].tags = Tags)
          => \A i \in 1..(n + 1) : a[i].full => a[i].tags = Tags
  <2>1. \A i \in 1..(n + 1) : i \in 1..n \/ i = n + 1
    OBVIOUS
  <2> QED
    BY <1>1, <2>1
<1> QED
  BY <1>1, <1>2, <1>3, <1>4 DEF AllFull

LEMMA TailTells ==
    ASSUME NEW s \in Seq(Message), s # <<>>
    PROVE  /\ Head(s) \in Message
           /\ Tail(s) \in Seq(Message)
           /\ \A t : Mentions(s, t) <=> t \in Head(s).tags \/ Mentions(Tail(s), t)
           /\ \A t, x : Says(s, t, x) => Says(Tail(s), t, x)
           /\ \A t, x : Says(s, t, x) /\ t \in Head(s).tags /\ ~Mentions(Tail(s), t)
                         => Head(s).rows[t] = x \/ t \in Head(s).late
           /\ AllFull(s) =>
                /\ Head(s).full => Head(s).tags = Tags
                /\ AllFull(Tail(s))
<1> PICK n \in Nat : n = Len(s)
  BY LenProperties
<1> PICK h : h = Head(s)
  OBVIOUS
<1> PICK r : r = Tail(s)
  OBVIOUS
<1>1. /\ h \in Message /\ r \in Seq(Message) /\ Len(r) = n - 1 /\ h = s[1]
      /\ \A i \in 1..(n - 1) : r[i] = s[i + 1]
  BY HeadTailProperties
<1>2. n >= 1
  BY EmptySeq, LenProperties
<1>3. /\ 1 \in 1..n
      /\ \A i \in 1..n : i = 1 \/ i - 1 \in 1..(n - 1)
      /\ \A i \in 1..(n - 1) : i + 1 \in 1..n
  BY <1>2
<1>4. ASSUME NEW t PROVE Mentions(s, t) <=> t \in h.tags \/ Mentions(r, t)
  <2>1. ASSUME NEW i \in 1..n, t \in s[i].tags PROVE t \in h.tags \/ Mentions(r, t)
    <3>1. CASE i = 1
      BY <1>1, <2>1, <3>1
    <3>2. CASE i # 1
      <4>1. i - 1 \in 1..(n - 1) /\ r[i - 1] = s[i - 1 + 1] /\ i - 1 + 1 = i
        BY <1>1, <1>3, <3>2
      <4> QED
        BY <1>1, <2>1, <4>1 DEF Mentions
    <3> QED
      BY <3>1, <3>2
  <2>2. t \in h.tags => Mentions(s, t)
    BY <1>1, <1>3 DEF Mentions
  <2>3. Mentions(r, t) => Mentions(s, t)
    BY <1>1, <1>3 DEF Mentions
  <2> QED
    BY <2>1, <2>2, <2>3 DEF Mentions
<1>5. ASSUME NEW t, NEW x, Says(s, t, x) PROVE Says(r, t, x)
  <2> SUFFICES ASSUME NEW i \in 1..(n - 1), t \in r[i].tags
               PROVE  r[i].rows[t] = x \/ t \in r[i].late \/ \E j \in 1..(n - 1) : i < j /\ t \in r[j].tags
    BY <1>1 DEF Says
  <2>1. i + 1 \in 1..n /\ r[i] = s[i + 1]
    BY <1>1, <1>3
  <2>2. CASE s[i + 1].rows[t] = x \/ t \in s[i + 1].late
    BY <2>1, <2>2
  <2>3. CASE \E j \in 1..n : i + 1 < j /\ t \in s[j].tags
    <3>1. PICK j \in 1..n : i + 1 < j /\ t \in s[j].tags
      BY <2>3
    <3>2. j - 1 \in 1..(n - 1) /\ i < j - 1 /\ r[j - 1] = s[j - 1 + 1] /\ j - 1 + 1 = j
      BY <1>1, <3>1
    <3> QED
      BY <3>1, <3>2
  <2> QED
    BY <1>5, <2>1, <2>2, <2>3 DEF Says
<1>6. ASSUME NEW t, NEW x, Says(s, t, x), t \in h.tags, ~Mentions(r, t)
      PROVE  h.rows[t] = x \/ t \in h.late
  <2>1. ASSUME NEW j \in 1..n, 1 < j, t \in s[j].tags PROVE FALSE
    <3>1. j - 1 \in 1..(n - 1) /\ r[j - 1] = s[j - 1 + 1] /\ j - 1 + 1 = j
      BY <1>1, <2>1
    <3> QED
      BY <1>1, <1>6, <2>1, <3>1 DEF Mentions
  <2> QED
    BY <1>1, <1>3, <1>6, <2>1 DEF Says
<1>7. (\A i \in 1..n : s[i].full => s[i].tags = Tags) =>
          /\ h.full => h.tags = Tags
          /\ \A i \in 1..(n - 1) : r[i].full => r[i].tags = Tags
  BY <1>1, <1>3
<1> QED
  BY <1>1, <1>4, <1>5, <1>6, <1>7 DEF AllFull

\* Messages that are overtaken.
LEMMA OvertakenTells ==
    ASSUME NEW s \in Seq(Message), NEW m \in Message,
           NEW o, o = [i \in 1..Len(s) |-> Overtaken(s[i], m)]
    PROVE  /\ o \in Seq(Message)
           /\ AllFull(s) => AllFull(o)
           /\ \A t, x : Says(s, t, x) => Says(o, t, x)
           /\ \A t : t \in m.tags /\ m.rows[t] = Values[t] => Says(o, t, Values[t])
<1> PICK n \in Nat : n = Len(s)
  BY LenProperties
<1>1. \A i \in 1..n : s[i] \in Message
  BY ElementOfSeq
<1>2. \A i \in 1..n : /\ o[i] \in Message /\ o[i].full = s[i].full
                      /\ o[i].tags = s[i].tags /\ o[i].rows = s[i].rows
                      /\ o[i].late = s[i].late \cup
                            {t \in m.tags \cap s[i].tags : m.rows[t] = Values[t] /\ s[i].rows[t] # Values[t]}
  <2> SUFFICES ASSUME NEW i \in 1..n
               PROVE  /\ o[i] \in Message /\ o[i].full = s[i].full
                      /\ o[i].tags = s[i].tags /\ o[i].rows = s[i].rows
                      /\ o[i].late = s[i].late \cup
                            {t \in m.tags \cap s[i].tags : m.rows[t] = Values[t] /\ s[i].rows[t] # Values[t]}
    OBVIOUS
  <2>1. o[i] = Overtaken(s[i], m)
    OBVIOUS
  <2> QED
    BY <1>1, <2>1, OvertakenMade, Zenon
<1>3. o \in [1..n -> Message]
  <2>1. o = [i \in 1..n |-> Overtaken(s[i], m)]
    OBVIOUS
  <2>2. \A i \in 1..n : Overtaken(s[i], m) \in Message
    BY <1>1, OvertakenMade
  <2> QED
    BY <2>1, <2>2
<1>4. o \in Seq(Message) /\ Len(o) = n
  BY <1>3, SeqDef, LenProperties
<1>5. AllFull(s) => AllFull(o)
  BY <1>2, <1>4 DEF AllFull
<1>6. \A t, x : Says(s, t, x) => Says(o, t, x)
  BY <1>2, <1>4 DEF Says
<1>7. \A t : t \in m.tags /\ m.rows[t] = Values[t] => Says(o, t, Values[t])
  BY <1>2, <1>4 DEF Says
<1> QED
  BY <1>4, <1>5, <1>6, <1>7

LEMMA NothingTells ==
    ASSUME NEW t
    PROVE  /\ <<>> \in Seq(Message)
           /\ ~Mentions(<<>>, t)
           /\ \A x : Says(<<>>, t, x)
           /\ AllFull(<<>>)
<1>1. Len(<<>>) = 0 /\ <<>> \in Seq(Message)
  BY EmptySeq
<1>2. 1..0 = {}
  OBVIOUS
<1> QED
  BY <1>1, <1>2 DEF Mentions, Says, AllFull

\* A page as a record made of its parts.
Pg(co, in, v, lf, lp, an, pa, fe, be, ig) ==
    [conn |-> co, inbox |-> in, view |-> v, lastFull |-> lf, lastPartial |-> lp,
     answer |-> an, passed |-> pa, fetched |-> fe, behind |-> be, ignored |-> ig]

LEMMA PageParts ==
    ASSUME NEW g \in PageType
    PROVE  g = Pg(g.conn, g.inbox, g.view, g.lastFull, g.lastPartial, g.answer, g.passed, g.fetched, g.behind, g.ignored)
  BY DEF Pg, PageType

\* A page that the answer of its fetch reaches.
ArrivedBehind(q) == {t \in q.passed : t \in q.behind \/ q.answer[t] # q.view[t]}
ArrivedIgnored(q) == q.ignored \cap q.passed
Arrived(q) ==
    Pg(q.conn, q.inbox, q.answer, q.lastFull, q.lastPartial, None, {}, q.fetched, ArrivedBehind(q), ArrivedIgnored(q))

LEMMA PgArrived ==
    ASSUME NEW q \in PageType
    PROVE  [q EXCEPT !.view = q.answer, !.answer = None, !.passed = {}, !.behind = ArrivedBehind(q), !.ignored = ArrivedIgnored(q)] = Arrived(q)
<1>0. q = Pg(q.conn, q.inbox, q.view, q.lastFull, q.lastPartial, q.answer, q.passed, q.fetched, q.behind, q.ignored)
  BY PageParts
<1> PICK q1 : q1 = [q EXCEPT !.view = q.answer]
  OBVIOUS
<1>1. q1 = Pg(q.conn, q.inbox, q.answer, q.lastFull, q.lastPartial, q.answer, q.passed, q.fetched, q.behind, q.ignored)
  BY ZenonT(60), <1>0 DEF Pg
<1> PICK q2 : q2 = [q1 EXCEPT !.answer = None]
  OBVIOUS
<1>2. q2 = Pg(q.conn, q.inbox, q.answer, q.lastFull, q.lastPartial, None, q.passed, q.fetched, q.behind, q.ignored)
  BY ZenonT(60), <1>1 DEF Pg
<1> PICK q3 : q3 = [q2 EXCEPT !.passed = {}]
  OBVIOUS
<1>3. q3 = Pg(q.conn, q.inbox, q.answer, q.lastFull, q.lastPartial, None, {}, q.fetched, q.behind, q.ignored)
  BY ZenonT(60), <1>2 DEF Pg
<1> PICK q4 : q4 = [q3 EXCEPT !.behind = ArrivedBehind(q)]
  OBVIOUS
<1>4. q4 = Pg(q.conn, q.inbox, q.answer, q.lastFull, q.lastPartial, None, {}, q.fetched, ArrivedBehind(q), q.ignored)
  BY ZenonT(60), <1>3 DEF Pg
<1> PICK q5 : q5 = [q4 EXCEPT !.ignored = ArrivedIgnored(q)]
  OBVIOUS
<1>5. q5 = Pg(q.conn, q.inbox, q.answer, q.lastFull, q.lastPartial, None, {}, q.fetched, ArrivedBehind(q), ArrivedIgnored(q))
  BY ZenonT(60), <1>4 DEF Pg
<1> QED
  BY ZenonT(60), <1>5 DEF Arrived

\* A page that takes a message.
Skips(q) == IF Head(q.inbox).full THEN q.lastFull = Head(q.inbox).id
            ELSE q.lastPartial = Signature(Head(q.inbox))
TakenPassed(q) == IF q.answer = None THEN {} ELSE q.passed \cup Head(q.inbox).tags
TakenView(q) ==
    IF Skips(q) THEN q.view
    ELSE [t \in Tags |-> IF t \in Head(q.inbox).tags THEN Head(q.inbox).rows[t] ELSE q.view[t]]
TakenFull(q) == IF Head(q.inbox).full THEN Head(q.inbox).id ELSE q.lastFull
TakenPartial(q) == IF Head(q.inbox).full THEN q.lastPartial ELSE Signature(Head(q.inbox))
TakenBehind(q) ==
    IF Skips(q) THEN q.behind \cup Head(q.inbox).late
    ELSE (q.behind \ Head(q.inbox).tags) \cup Head(q.inbox).late
TakenIgnored(q) ==
    IF Skips(q) THEN q.ignored \cup {t \in Head(q.inbox).tags : Head(q.inbox).rows[t] # q.view[t]}
    ELSE q.ignored \ Head(q.inbox).tags
Taken(q) ==
    Pg(q.conn, Tail(q.inbox), TakenView(q), TakenFull(q), TakenPartial(q), q.answer, TakenPassed(q), q.fetched, TakenBehind(q), TakenIgnored(q))

LEMMA PgTaken ==
    ASSUME NEW q \in PageType
    PROVE  [q EXCEPT !.inbox = Tail(q.inbox), !.passed = TakenPassed(q), !.view = TakenView(q), !.lastFull = TakenFull(q), !.lastPartial = TakenPartial(q), !.behind = TakenBehind(q), !.ignored = TakenIgnored(q)] = Taken(q)
<1>0. q = Pg(q.conn, q.inbox, q.view, q.lastFull, q.lastPartial, q.answer, q.passed, q.fetched, q.behind, q.ignored)
  BY PageParts
<1> PICK q1 : q1 = [q EXCEPT !.inbox = Tail(q.inbox)]
  OBVIOUS
<1>1. q1 = Pg(q.conn, Tail(q.inbox), q.view, q.lastFull, q.lastPartial, q.answer, q.passed, q.fetched, q.behind, q.ignored)
  BY ZenonT(60), <1>0 DEF Pg
<1> PICK q2 : q2 = [q1 EXCEPT !.passed = TakenPassed(q)]
  OBVIOUS
<1>2. q2 = Pg(q.conn, Tail(q.inbox), q.view, q.lastFull, q.lastPartial, q.answer, TakenPassed(q), q.fetched, q.behind, q.ignored)
  BY ZenonT(60), <1>1 DEF Pg
<1> PICK q3 : q3 = [q2 EXCEPT !.view = TakenView(q)]
  OBVIOUS
<1>3. q3 = Pg(q.conn, Tail(q.inbox), TakenView(q), q.lastFull, q.lastPartial, q.answer, TakenPassed(q), q.fetched, q.behind, q.ignored)
  BY ZenonT(60), <1>2 DEF Pg
<1> PICK q4 : q4 = [q3 EXCEPT !.lastFull = TakenFull(q)]
  OBVIOUS
<1>4. q4 = Pg(q.conn, Tail(q.inbox), TakenView(q), TakenFull(q), q.lastPartial, q.answer, TakenPassed(q), q.fetched, q.behind, q.ignored)
  BY ZenonT(60), <1>3 DEF Pg
<1> PICK q5 : q5 = [q4 EXCEPT !.lastPartial = TakenPartial(q)]
  OBVIOUS
<1>5. q5 = Pg(q.conn, Tail(q.inbox), TakenView(q), TakenFull(q), TakenPartial(q), q.answer, TakenPassed(q), q.fetched, q.behind, q.ignored)
  BY ZenonT(60), <1>4 DEF Pg
<1> PICK q6 : q6 = [q5 EXCEPT !.behind = TakenBehind(q)]
  OBVIOUS
<1>6. q6 = Pg(q.conn, Tail(q.inbox), TakenView(q), TakenFull(q), TakenPartial(q), q.answer, TakenPassed(q), q.fetched, TakenBehind(q), q.ignored)
  BY ZenonT(60), <1>5 DEF Pg
<1> PICK q7 : q7 = [q6 EXCEPT !.ignored = TakenIgnored(q)]
  OBVIOUS
<1>7. q7 = Pg(q.conn, Tail(q.inbox), TakenView(q), TakenFull(q), TakenPartial(q), q.answer, TakenPassed(q), q.fetched, TakenBehind(q), TakenIgnored(q))
  BY ZenonT(60), <1>6 DEF Pg
<1> QED
  BY ZenonT(60), <1>7 DEF Taken

\* A page whose fetch is lost.
Left(q) ==
    Pg(q.conn, q.inbox, q.view, q.lastFull, q.lastPartial, None, {}, q.fetched, q.behind, q.ignored)

LEMMA PgLeft ==
    ASSUME NEW q \in PageType
    PROVE  [q EXCEPT !.answer = None, !.passed = {}] = Left(q)
<1>0. q = Pg(q.conn, q.inbox, q.view, q.lastFull, q.lastPartial, q.answer, q.passed, q.fetched, q.behind, q.ignored)
  BY PageParts
<1> PICK q1 : q1 = [q EXCEPT !.answer = None]
  OBVIOUS
<1>1. q1 = Pg(q.conn, q.inbox, q.view, q.lastFull, q.lastPartial, None, q.passed, q.fetched, q.behind, q.ignored)
  BY ZenonT(60), <1>0 DEF Pg
<1> PICK q2 : q2 = [q1 EXCEPT !.passed = {}]
  OBVIOUS
<1>2. q2 = Pg(q.conn, q.inbox, q.view, q.lastFull, q.lastPartial, None, {}, q.fetched, q.behind, q.ignored)
  BY ZenonT(60), <1>1 DEF Pg
<1> QED
  BY ZenonT(60), <1>2 DEF Left

LEMMA PageTyped ==
    ASSUME FeedTypeOK, NEW p \in Pages
    PROVE  page[p] \in PageType
  BY DEF FeedTypeOK, PageType

LEMMA PageSteps ==
    ASSUME FeedTypeOK, NEW p \in Pages
    PROVE  /\ page[p] \in PageType
           /\ Connect(p) => page' = [page EXCEPT ![p] = [page[p] EXCEPT !.conn = "joining"]]
           /\ SendFullSnapshot(p) =>
                page' = [page EXCEPT ![p] =
                            [page[p] EXCEPT !.conn = "open", !.inbox = Append(page[p].inbox, FullTable(TableId))]]
           /\ Disconnect(p) =>
                page' = [page EXCEPT ![p] = [page[p] EXCEPT !.conn = "closed", !.inbox = <<>>]]
           /\ Fetch(p) => page' = [page EXCEPT ![p] = [page[p] EXCEPT !.fetched = TRUE, !.answer = Values]]
<1>1. page \in [Pages -> PageType]
  BY DEF FeedTypeOK, PageType
<1>2. page[p] \in PageType
  BY <1>1
<1>3. Connect(p) => page' = [page EXCEPT ![p] = [page[p] EXCEPT !.conn = "joining"]]
  BY <1>1 DEF Connect
<1>4. SendFullSnapshot(p) =>
                page' = [page EXCEPT ![p] =
                            [page[p] EXCEPT !.conn = "open", !.inbox = Append(page[p].inbox, FullTable(TableId))]]
  BY <1>1 DEF SendFullSnapshot
<1>5. Disconnect(p) =>
                page' = [page EXCEPT ![p] = [page[p] EXCEPT !.conn = "closed", !.inbox = <<>>]]
  BY <1>1 DEF Disconnect, Disconnected
<1>6. Fetch(p) => page' = [page EXCEPT ![p] = [page[p] EXCEPT !.fetched = TRUE, !.answer = Values]]
  BY <1>1 DEF Fetch
<1> QED
  BY <1>2, <1>3, <1>4, <1>5, <1>6

LEMMA SignatureType ==
    ASSUME NEW m \in Message
    PROVE  Signature(m) \in Ids \X (SUBSET Tags) \X Nat
<1>1. IsFiniteSet(m.tags)
  BY FS_Subset, FeedAssumption DEF Message
<1>2. Cardinality(m.tags) \in Nat
  BY <1>1, FS_CardinalityType
<1> QED
  BY <1>2 DEF Message, Signature

LEMMA ConnectEffect ==
    ASSUME FeedTypeOK, NEW p \in Pages, Connect(p)
    PROVE  \E g \in PageType :
             /\ page' = [page EXCEPT ![p] = g]
             /\ g.conn = "joining" /\ g.inbox = page[p].inbox
<1> PICK q \in PageType : q = page[p]
  BY PageTyped
<1> PICK g : g = [q EXCEPT !.conn = "joining"]
  OBVIOUS
<1>1. g = Pg("joining", q.inbox, q.view, q.lastFull, q.lastPartial, q.answer, q.passed, q.fetched, q.behind, q.ignored)
  BY PageParts DEF Pg
<1>2. g \in PageType /\ g.conn = "joining" /\ g.inbox = q.inbox
  BY <1>1 DEF Pg, PageType
<1> QED
  BY ZenonT(60), <1>2, PageSteps

LEMMA SnapshotEffect ==
    ASSUME FeedTypeOK, NEW p \in Pages, SendFullSnapshot(p)
    PROVE  \E g \in PageType, m \in Message :
             /\ page' = [page EXCEPT ![p] = g]
             /\ m.full /\ m.tags = Tags /\ m.rows = Values
             /\ g.conn = "open" /\ g.inbox = Append(page[p].inbox, m)
<1> PICK q \in PageType : q = page[p]
  BY PageTyped
<1> PICK m : m = FullTable(TableId)
  OBVIOUS
<1>1. m \in Message /\ m.full /\ m.tags = Tags /\ m.rows = Values
  BY ShownType, FullMade DEF FeedTypeOK
<1> PICK in : in = Append(q.inbox, m)
  OBVIOUS
<1>2. in \in Seq(Message)
  BY <1>1, AppendTells DEF PageType
<1> PICK g : g = [q EXCEPT !.conn = "open", !.inbox = in]
  OBVIOUS
<1>3. g = Pg("open", in, q.view, q.lastFull, q.lastPartial, q.answer, q.passed, q.fetched, q.behind, q.ignored)
  <2>0. q = Pg(q.conn, q.inbox, q.view, q.lastFull, q.lastPartial, q.answer, q.passed, q.fetched, q.behind, q.ignored)
    BY PageParts
  <2> PICK q1 : q1 = [q EXCEPT !.conn = "open"]
    OBVIOUS
  <2>1. q1 = Pg("open", q.inbox, q.view, q.lastFull, q.lastPartial, q.answer, q.passed, q.fetched, q.behind, q.ignored)
    BY <2>0 DEF Pg
  <2> PICK q2 : q2 = [q1 EXCEPT !.inbox = in]
    OBVIOUS
  <2>2. q2 = Pg("open", in, q.view, q.lastFull, q.lastPartial, q.answer, q.passed, q.fetched, q.behind, q.ignored)
    BY <2>1, ZenonT(60) DEF Pg
  <2> QED
    BY <2>2
<1>4. g \in PageType /\ g.conn = "open" /\ g.inbox = in
  BY <1>2, <1>3 DEF Pg, PageType
<1> QED
  BY ZenonT(60), <1>1, <1>4, PageSteps

\* What is left of a page when its connection is lost.
LEMMA DisconnectedType ==
    ASSUME NEW q \in PageType
    PROVE  /\ [q EXCEPT !.conn = "closed", !.inbox = <<>>] \in PageType
           /\ [q EXCEPT !.conn = "closed", !.inbox = <<>>].conn = "closed"
           /\ [q EXCEPT !.conn = "closed", !.inbox = <<>>].inbox = <<>>
<1> PICK g : g = [q EXCEPT !.conn = "closed", !.inbox = <<>>]
  OBVIOUS
<1>1. g = Pg("closed", <<>>, q.view, q.lastFull, q.lastPartial, q.answer, q.passed, q.fetched, q.behind, q.ignored)
  <2>0. q = Pg(q.conn, q.inbox, q.view, q.lastFull, q.lastPartial, q.answer, q.passed, q.fetched, q.behind, q.ignored)
    BY PageParts
  <2> PICK q1 : q1 = [q EXCEPT !.conn = "closed"]
    OBVIOUS
  <2>1. q1 = Pg("closed", q.inbox, q.view, q.lastFull, q.lastPartial, q.answer, q.passed, q.fetched, q.behind, q.ignored)
    BY <2>0 DEF Pg
  <2> PICK q2 : q2 = [q1 EXCEPT !.inbox = <<>>]
    OBVIOUS
  <2>2. q2 = Pg("closed", <<>>, q.view, q.lastFull, q.lastPartial, q.answer, q.passed, q.fetched, q.behind, q.ignored)
    BY <2>1 DEF Pg
  <2> QED
    BY <2>2
<1>2. <<>> \in Seq(Message)
  BY NothingTells
<1>3. g \in PageType /\ g.conn = "closed" /\ g.inbox = <<>>
  BY <1>1, <1>2 DEF Pg, PageType
<1> QED
  BY <1>3

LEMMA DisconnectEffect ==
    ASSUME FeedTypeOK, NEW p \in Pages, Disconnect(p)
    PROVE  \E g \in PageType :
             page' = [page EXCEPT ![p] = g] /\ g.conn = "closed" /\ g.inbox = <<>>
<1> PICK q \in PageType : q = page[p]
  BY PageTyped
<1> QED
  BY ZenonT(60), PageSteps, DisconnectedType

LEMMA FetchEffect ==
    ASSUME FeedTypeOK, NEW p \in Pages, Fetch(p)
    PROVE  \E g \in PageType :
             /\ page' = [page EXCEPT ![p] = g]
             /\ g.conn = page[p].conn /\ g.inbox = page[p].inbox /\ g.view = page[p].view
             /\ g.behind = page[p].behind /\ g.ignored = page[p].ignored /\ g.answer = Values
<1> PICK q \in PageType : q = page[p]
  BY PageTyped
<1> PICK v \in Shown : v = Values
  BY ShownType DEF FeedTypeOK
<1> PICK g : g = [q EXCEPT !.fetched = TRUE, !.answer = v]
  OBVIOUS
<1>1. g = Pg(q.conn, q.inbox, q.view, q.lastFull, q.lastPartial, v, q.passed, TRUE, q.behind, q.ignored)
  <2>0. q = Pg(q.conn, q.inbox, q.view, q.lastFull, q.lastPartial, q.answer, q.passed, q.fetched, q.behind, q.ignored)
    BY PageParts
  <2> PICK q1 : q1 = [q EXCEPT !.fetched = TRUE]
    OBVIOUS
  <2>1. q1 = Pg(q.conn, q.inbox, q.view, q.lastFull, q.lastPartial, q.answer, q.passed, TRUE, q.behind, q.ignored)
    BY <2>0 DEF Pg
  <2> PICK q2 : q2 = [q1 EXCEPT !.answer = v]
    OBVIOUS
  <2>2. q2 = Pg(q.conn, q.inbox, q.view, q.lastFull, q.lastPartial, v, q.passed, TRUE, q.behind, q.ignored)
    BY <2>1 DEF Pg
  <2> QED
    BY <2>2
<1>2. /\ g \in PageType /\ g.conn = q.conn /\ g.inbox = q.inbox /\ g.view = q.view /\ g.answer = v
      /\ g.behind = q.behind /\ g.ignored = q.ignored
  BY <1>1 DEF Pg, PageType
<1> QED
  BY ZenonT(60), <1>2, PageSteps

LEMMA ArrivedMade ==
    ASSUME NEW q \in PageType, q.answer # None
    PROVE  /\ Arrived(q) \in PageType
           /\ Arrived(q).conn = q.conn /\ Arrived(q).inbox = q.inbox /\ Arrived(q).answer = None
           /\ Arrived(q).view = q.answer
           /\ Arrived(q).behind = ArrivedBehind(q) /\ Arrived(q).ignored = ArrivedIgnored(q)
<1>1. q.answer \in Shown
  BY DEF PageType
<1>2. ArrivedBehind(q) \in SUBSET Tags /\ ArrivedIgnored(q) \in SUBSET Tags
  BY DEF PageType, ArrivedBehind, ArrivedIgnored
<1> QED
  BY <1>1, <1>2 DEF Arrived, Pg, PageType

LEMMA FetchArrivesEffect ==
    ASSUME FeedTypeOK, NEW p \in Pages, FetchArrives(p)
    PROVE  \E g \in PageType :
             /\ page' = [page EXCEPT ![p] = g]
             /\ g.conn = page[p].conn /\ g.inbox = page[p].inbox /\ g.answer = None
             /\ \A t \in page[p].passed :
                    \/ t \in g.behind \cup g.ignored
                    \/ /\ t \notin page[p].behind \cup page[p].ignored
                       /\ g.view[t] = page[p].view[t]
             /\ g.view = page[p].answer
<1> PICK q \in PageType : q = page[p]
  BY PageTyped
<1>0. q.answer # None
  BY DEF FetchArrives
<1> PICK g : g = Arrived(q)
  OBVIOUS
<1>1. /\ g \in PageType /\ g.conn = q.conn /\ g.inbox = q.inbox /\ g.answer = None
      /\ g.view = q.answer /\ g.behind = ArrivedBehind(q) /\ g.ignored = ArrivedIgnored(q)
  BY <1>0, ArrivedMade
<1>2. page' = [page EXCEPT ![p] = g]
  <2>0. p \in DOMAIN page /\ q = page[p]
    BY DEF FeedTypeOK
  <2>1. page' = [page EXCEPT ![p].view = q.answer, ![p].answer = None, ![p].passed = {},
                             ![p].behind = ArrivedBehind(q), ![p].ignored = ArrivedIgnored(q)]
    BY ZenonT(60) DEF FetchArrives, ArrivedBehind, ArrivedIgnored
  <2>2. page' = [page EXCEPT ![p] =
              [q EXCEPT !.view = q.answer, !.answer = None, !.passed = {},
                        !.behind = ArrivedBehind(q), !.ignored = ArrivedIgnored(q)]]
    BY ONLY <2>0, <2>1
  <2> QED
    BY <2>2, PgArrived, Zenon
<1>3. ASSUME NEW t \in q.passed
      PROVE  \/ t \in g.behind \cup g.ignored
             \/ t \notin q.behind \cup q.ignored /\ g.view[t] = q.view[t]
  BY <1>1 DEF ArrivedBehind, ArrivedIgnored
<1> QED
  BY <1>1, <1>2, <1>3

LEMMA TakenMade ==
    ASSUME NEW q \in PageType, NEW h \in Message, h = Head(q.inbox), q.inbox # <<>>
    PROVE  /\ Taken(q) \in PageType
           /\ Taken(q).conn = q.conn /\ Taken(q).inbox = Tail(q.inbox) /\ Taken(q).answer = q.answer
           /\ q.answer # None => q.passed \subseteq Taken(q).passed /\ h.tags \subseteq Taken(q).passed
           /\ h.late \subseteq Taken(q).behind
           /\ \A t \in h.tags : t \in Taken(q).ignored \/ Taken(q).view[t] = h.rows[t]
           /\ \A t \in Tags \ h.tags :
                  /\ t \in q.behind \cup q.ignored => t \in Taken(q).behind \cup Taken(q).ignored
                  /\ Taken(q).view[t] = q.view[t]
<1>1. Tail(q.inbox) \in Seq(Message)
  BY TailTells DEF PageType
<1>2. /\ h.tags \in SUBSET Tags /\ h.late \in SUBSET Tags /\ h.rows \in Shown /\ h.id \in Ids
      /\ q.behind \in SUBSET Tags /\ q.ignored \in SUBSET Tags /\ q.passed \in SUBSET Tags /\ q.view \in Shown
      /\ q.lastFull \in {None} \cup Ids /\ q.lastPartial \in {None} \cup (Ids \X (SUBSET Tags) \X Nat)
      /\ q.conn \in {"closed", "joining", "open"} /\ q.answer \in {None} \cup Shown /\ q.fetched \in BOOLEAN
  BY DEF PageType, Message
<1>3. TakenPassed(q) \in SUBSET Tags /\ TakenBehind(q) \in SUBSET Tags /\ TakenIgnored(q) \in SUBSET Tags
  BY <1>2 DEF TakenPassed, TakenBehind, TakenIgnored
<1>4. TakenView(q) \in Shown
  BY <1>2 DEF TakenView, Shown
<1>5. TakenFull(q) \in {None} \cup Ids
  BY <1>2 DEF TakenFull
<1>6. TakenPartial(q) \in {None} \cup (Ids \X (SUBSET Tags) \X Nat)
  BY <1>2, SignatureType DEF TakenPartial
<1> PICK g : g = Taken(q)
  OBVIOUS
<1>7. /\ g \in PageType
      /\ g.conn = q.conn /\ g.inbox = Tail(q.inbox) /\ g.answer = q.answer /\ g.passed = TakenPassed(q)
      /\ g.view = TakenView(q) /\ g.behind = TakenBehind(q) /\ g.ignored = TakenIgnored(q)
  BY <1>1, <1>2, <1>3, <1>4, <1>5, <1>6 DEF Taken, Pg, PageType
<1>8. q.answer # None => q.passed \subseteq g.passed /\ h.tags \subseteq g.passed
  BY <1>7 DEF TakenPassed
<1>9. h.late \subseteq g.behind
  BY <1>7 DEF TakenBehind
<1>10. \A t \in h.tags : t \in g.ignored \/ g.view[t] = h.rows[t]
  BY <1>2, <1>7 DEF TakenIgnored, TakenView
<1>11. \A t \in Tags \ h.tags :
                  /\ t \in q.behind \cup q.ignored => t \in g.behind \cup g.ignored
                  /\ g.view[t] = q.view[t]
  BY <1>7 DEF TakenIgnored, TakenBehind, TakenView
<1> QED
  BY ZenonT(60), <1>7, <1>8, <1>9, <1>10, <1>11

LEMMA TakeEffect ==
    ASSUME FeedTypeOK, FullsAreFull, NEW p \in Pages, Take(p)
    PROVE  \E g \in PageType, h \in Message :
             /\ page' = [page EXCEPT ![p] = g]
             /\ page[p].inbox # <<>> /\ h = Head(page[p].inbox)
             /\ h.full => h.tags = Tags
             /\ g.conn = page[p].conn /\ g.inbox = Tail(page[p].inbox)
             /\ g.answer = page[p].answer
             /\ page[p].answer # None => page[p].passed \subseteq g.passed /\ h.tags \subseteq g.passed
             /\ h.late \subseteq g.behind
             /\ \A t \in h.tags : t \in g.ignored \/ g.view[t] = h.rows[t]
             /\ \A t \in Tags \ h.tags :
                    /\ t \in page[p].behind \cup page[p].ignored => t \in g.behind \cup g.ignored
                    /\ g.view[t] = page[p].view[t]
<1> PICK q \in PageType : q = page[p]
  BY SMTT(60), PageTyped
<1>1. q.inbox \in Seq(Message) /\ q.inbox # <<>>
  BY DEF Take, PageType
<1> PICK h \in Message : h = Head(q.inbox)
  BY <1>1, TailTells
<1>2. h.full => h.tags = Tags
  BY <1>1, TailTells DEF FullsAreFull
<1>3. page' = [page EXCEPT ![p] = Taken(q)]
  <2>0. p \in DOMAIN page /\ q = page[p]
    BY DEF FeedTypeOK
  <2>1. page' = [page EXCEPT
              ![p].inbox = Tail(q.inbox), ![p].passed = TakenPassed(q), ![p].view = TakenView(q),
              ![p].lastFull = TakenFull(q), ![p].lastPartial = TakenPartial(q),
              ![p].behind = TakenBehind(q), ![p].ignored = TakenIgnored(q)]
    BY ZenonT(60) DEF Take, TakenPassed, TakenView, TakenFull, TakenPartial, TakenBehind, TakenIgnored, Skips
  <2>2. page' = [page EXCEPT ![p] =
              [q EXCEPT !.inbox = Tail(q.inbox), !.passed = TakenPassed(q), !.view = TakenView(q),
                        !.lastFull = TakenFull(q), !.lastPartial = TakenPartial(q),
                        !.behind = TakenBehind(q), !.ignored = TakenIgnored(q)]]
    BY ONLY <2>0, <2>1
  <2> QED
    BY <2>2, PgTaken, Zenon
<1> PICK g : g = Taken(q)
  OBVIOUS
<1>4. g \in PageType
  BY <1>1, TakenMade
<1>5. /\ page' = [page EXCEPT ![p] = g]
      /\ page[p].inbox # <<>> /\ h = Head(page[p].inbox)
      /\ h.full => h.tags = Tags
      /\ g.conn = page[p].conn /\ g.inbox = Tail(page[p].inbox)
      /\ g.answer = page[p].answer
      /\ page[p].answer # None => page[p].passed \subseteq g.passed /\ h.tags \subseteq g.passed
      /\ h.late \subseteq g.behind
      /\ \A t \in h.tags : t \in g.ignored \/ g.view[t] = h.rows[t]
      /\ \A t \in Tags \ h.tags :
              /\ t \in page[p].behind \cup page[p].ignored => t \in g.behind \cup g.ignored
              /\ g.view[t] = page[p].view[t]
  BY <1>1, <1>2, <1>3, TakenMade
<1> QED
  BY <1>4, <1>5, Zenon

LEMMA BroadcastEffect ==
    ASSUME FeedTypeOK, Broadcast
    PROVE  /\ page' \in [Pages -> PageType]
           /\ \A p \in Pages :
                IF page[p].conn = "closed" THEN page'[p] = page[p]
                ELSE /\ page'[p].conn = page[p].conn
                     /\ page'[p].inbox = Append(page[p].inbox, Head(broadcasts))
                     /\ page'[p].view = page[p].view /\ page'[p].behind = page[p].behind
                     /\ page'[p].ignored = page[p].ignored
                     /\ page'[p].answer = page[p].answer /\ page'[p].passed = page[p].passed
<1> PICK h : h = Head(broadcasts)
  OBVIOUS
<1>1. h \in Message
  BY TailTells DEF Broadcast, FeedTypeOK
<1>2. page' = [p \in Pages |-> IF page[p].conn = "closed" THEN page[p]
                               ELSE [page[p] EXCEPT !.inbox = Append(page[p].inbox, h)]]
  BY DEF Broadcast
<1>3. ASSUME NEW p \in Pages
      PROVE  /\ page'[p] \in PageType
             /\ IF page[p].conn = "closed" THEN page'[p] = page[p]
                ELSE /\ page'[p].conn = page[p].conn
                     /\ page'[p].inbox = Append(page[p].inbox, h)
                     /\ page'[p].view = page[p].view /\ page'[p].behind = page[p].behind
                     /\ page'[p].ignored = page[p].ignored
                     /\ page'[p].answer = page[p].answer /\ page'[p].passed = page[p].passed
  <2> PICK q \in PageType : q = page[p]
    BY PageTyped
  <2> PICK in : in = Append(q.inbox, h)
    OBVIOUS
  <2>1. in \in Seq(Message)
    BY <1>1, AppendTells DEF PageType
  <2>2. PICK g : g = [q EXCEPT !.inbox = in]
    OBVIOUS
  <2>3. /\ g \in PageType /\ g.conn = q.conn /\ g.inbox = in /\ g.view = q.view
        /\ g.behind = q.behind /\ g.ignored = q.ignored /\ g.answer = q.answer /\ g.passed = q.passed
    BY <2>1, <2>2 DEF PageType
  <2>4. page'[p] = IF q.conn = "closed" THEN q ELSE g
    BY <1>2, <2>2
  <2> QED
    BY SMTT(60), <2>3, <2>4
<1> QED
  BY <1>2, <1>3

LEMMA RestartEffect ==
    ASSUME FeedTypeOK, ServerRestart
    PROVE  /\ page' \in [Pages -> PageType]
           /\ \A p \in Pages : page'[p].conn = "closed" /\ page'[p].inbox = <<>>
<1>1. page' = [p \in Pages |-> [Disconnected(page[p]) EXCEPT !.answer = None, !.passed = {}]]
  BY DEF ServerRestart
<1>2. ASSUME NEW p \in Pages
      PROVE  page'[p] \in PageType /\ page'[p].conn = "closed" /\ page'[p].inbox = <<>>
  <2> PICK q \in PageType : q = page[p]
    BY PageTyped
  <2> PICK d : d = [q EXCEPT !.conn = "closed", !.inbox = <<>>]
    OBVIOUS
  <2>1. d \in PageType /\ d.conn = "closed" /\ d.inbox = <<>>
    BY DisconnectedType
  <2> PICK g : g = Left(d)
    OBVIOUS
  <2>3. [d EXCEPT !.answer = None, !.passed = {}] = g
    BY <2>1, PgLeft
  <2>4. g \in PageType /\ g.conn = "closed" /\ g.inbox = <<>>
    <3>1. <<>> \in Seq(Message)
      BY NothingTells
    <3> QED
      BY <2>1, <3>1 DEF Left, Pg, PageType
  <2>5. page'[p] = g
    BY <1>1, <2>3 DEF Disconnected
  <2> QED
    BY SMTT(60), <2>4, <2>5
<1> QED
  BY <1>1, <1>2

\* What telling the hub does: the message is dropped, or it is ready to be handed over.
LEMMA NoticeSteps ==
    ASSUME FeedTypeOK, JobsTell, NEW w \in Writers, Notice(w)
    PROVE  /\ job' \in [Writers -> JobType] /\ broadcasts' \in Seq(Message)
           /\ Noticed(w) \in Message
           /\ \/ /\ \A p \in Pages : page[p].conn = "closed"
                 /\ Through(w, Noticed(w))
                 /\ broadcasts' = [i \in 1..Len(broadcasts) |-> Overtaken(broadcasts[i], Noticed(w))]
              \/ /\ job' = [job EXCEPT ![w] = Job("ready", job[w].project, Noticed(w))]
                 /\ UNCHANGED broadcasts
<1>0. job \in [Writers -> JobType] /\ broadcasts \in Seq(Message)
  BY DEF FeedTypeOK, JobType
<1>1. job[w].step \in {"loaded", "updated"}
  BY DEF Notice
<1> PICK m \in Message : m = Noticed(w)
  BY <1>1, NoticedMade
<1>2. CASE \A p \in Pages : page[p].conn = "closed"
  <2>1. Through(w, m) /\ broadcasts' = [i \in 1..Len(broadcasts) |-> Overtaken(broadcasts[i], m)]
    BY <1>2 DEF Notice, Noticed
  <2>2. job' \in [Writers -> JobType]
    BY <2>1, ThroughMakes
  <2>3. broadcasts' \in Seq(Message)
    BY <1>0, <2>1, OvertakenTells
  <2> QED
    BY <1>2, <2>1, <2>2, <2>3
<1>3. CASE ~\A p \in Pages : page[p].conn = "closed"
  <2>1. job' = [job EXCEPT ![w].step = "ready", ![w].message = m] /\ UNCHANGED broadcasts
    BY <1>3 DEF Notice, Noticed
  <2>2. job' = [job EXCEPT ![w] = [[job[w] EXCEPT !.step = "ready"] EXCEPT !.message = m]]
    BY <1>0, <2>1
  <2>3. [[job[w] EXCEPT !.step = "ready"] EXCEPT !.message = m] = Job("ready", job[w].project, m)
    <3> PICK j \in JobType : j = job[w]
      BY <1>0
    <3> PICK r : r = [j EXCEPT !.step = "ready"]
      OBVIOUS
    <3>1. r = Job("ready", j.project, j.message)
      BY DEF Job, JobType
    <3> PICK x : x = [r EXCEPT !.message = m]
      OBVIOUS
    <3>2. x = Job("ready", j.project, m)
      BY <3>1 DEF Job
    <3> QED
      BY <3>2
  <2>4. job' = [job EXCEPT ![w] = Job("ready", job[w].project, m)]
    BY <2>2, <2>3
  <2>5. Job("ready", job[w].project, m) \in JobType
    BY <1>0 DEF Job, JobType
  <2> QED
    BY <1>0, <2>1, <2>4, <2>5
<1> QED
  BY <1>2, <1>3

LEMMA PublishSteps ==
    ASSUME FeedTypeOK, JobsTell, NEW w \in Writers, Publish(w)
    PROVE  /\ job' \in [Writers -> JobType] /\ broadcasts' \in Seq(Message)
           /\ job[w].message \in Message
           /\ Through(w, job[w].message)
           /\ broadcasts' = Append(broadcasts, job[w].message)
<1>1. job[w].message \in Message
  BY DEF JobsTell, JobTells, Publish
<1>2. Through(w, job[w].message) /\ broadcasts' = Append(broadcasts, job[w].message)
  BY DEF Publish
<1>3. job' \in [Writers -> JobType]
  BY <1>1, <1>2, ThroughMakes
<1>4. broadcasts' \in Seq(Message)
  BY <1>1, <1>2, AppendTells DEF FeedTypeOK
<1> QED
  BY <1>1, <1>2, <1>3, <1>4

LEMMA FeedTypeStep == FeedTypeOK /\ JobsTell /\ FullsAreFull /\ [FeedNext]_feedVars => FeedTypeOK'
<1> SUFFICES ASSUME FeedTypeOK, JobsTell, FullsAreFull, [FeedNext]_feedVars PROVE FeedTypeOK'
  OBVIOUS
<1>0. /\ rows \in [Tags -> {None} \cup RowType] /\ snapshotId \in Ids
      /\ active \in {None} \cup Projects /\ owner \in {None} \cup Projects /\ astray \in BOOLEAN
      /\ job \in [Writers -> JobType] /\ broadcasts \in Seq(Message) /\ page \in [Pages -> PageType]
  BY DEF FeedTypeOK, JobType, PageType
<1>9. SUFFICES /\ rows' \in [Tags -> {None} \cup RowType] /\ snapshotId' \in Ids
               /\ active' \in {None} \cup Projects /\ owner' \in {None} \cup Projects /\ astray' \in BOOLEAN
               /\ job' \in [Writers -> JobType] /\ broadcasts' \in Seq(Message) /\ page' \in [Pages -> PageType]
  BY DEF FeedTypeOK, JobType, PageType
<1>1. ASSUME NEW w \in Writers, NEW project \in {None} \cup Projects, NEW tags \in RowSets,
             NEW value \in Readings, Load(w, project, tags, value)
      PROVE  /\ rows' \in [Tags -> {None} \cup RowType] /\ snapshotId' \in Ids /\ job' \in [Writers -> JobType]
             /\ owner' \in {None} \cup Projects /\ astray' \in BOOLEAN
             /\ UNCHANGED <<active, broadcasts, page>>
  <2>1. PICK m \in Message : job' = [job EXCEPT ![w] = Job("loaded", project, m)]
    BY <1>1, LoadMakes
  <2>2. Job("loaded", project, m) \in JobType
    BY DEF Job, JobType
  <2>3. rows' \in [Tags -> {None} \cup RowType] /\ snapshotId' \in Ids
    BY <1>1, LoadMakes
  <2> QED
    BY <1>0, <1>1, <2>1, <2>2, <2>3 DEF Load
<1>2. ASSUME NEW w \in Writers, NEW project \in Projects, CheckActive(w, project)
      PROVE  job' \in [Writers -> JobType] /\ UNCHANGED <<rows, snapshotId, active, owner, astray, broadcasts, page>>
  <2>1. Job("push", project, None) \in JobType
    BY DEF Job, JobType
  <2> QED
    BY <1>0, <1>2, <2>1 DEF CheckActive, Job
<1>3. ASSUME NEW w \in Writers, NEW tags \in SUBSET Tags, NEW value \in Readings, Update(w, tags, value)
      PROVE  /\ rows' \in [Tags -> {None} \cup RowType] /\ snapshotId' \in Ids /\ job' \in [Writers -> JobType] /\ astray' \in BOOLEAN
             /\ UNCHANGED <<active, owner, broadcasts, page>>
  <2>0. snapshotId' \in Ids
    BY <1>3, UpdateMakes
  <2>1. rows' = [t \in Tags |-> RowAfter(t, tags, value, w, snapshotId')]
    BY <1>3, UpdateRows
  <2>2. \A t \in Tags : RowAfter(t, tags, value, w, snapshotId') \in {None} \cup RowType
    BY <2>0, RowAfterType
  <2>3. job' \in [Writers -> JobType]
    <3>1. CASE tags \cap Loaded = {}
      BY <1>0, <1>3, <3>1, UpdateMakes, IdleMade
    <3>2. CASE tags \cap Loaded # {}
      <4>1. PICK m \in Message : job' = [job EXCEPT ![w] = Job("updated", None, m)]
        BY <1>3, <3>2, UpdateMakes
      <4>2. Job("updated", None, m) \in JobType
        BY DEF Job, JobType
      <4> QED
        BY <1>0, <4>1, <4>2
    <3> QED
      BY <3>1, <3>2
  <2>4. UNCHANGED <<active, owner, broadcasts, page>> /\ astray' \in BOOLEAN
    BY <1>3 DEF Update
  <2>5. rows' \in [Tags -> {None} \cup RowType]
    BY <2>1, <2>2
  <2> QED
    BY <2>0, <2>3, <2>4, <2>5
<1>4. ASSUME NEW w \in Writers, Notice(w) \/ Publish(w)
      PROVE  /\ job' \in [Writers -> JobType] /\ broadcasts' \in Seq(Message)
             /\ UNCHANGED <<rows, snapshotId, active, owner, astray, page>>
  <2>1. job' \in [Writers -> JobType] /\ broadcasts' \in Seq(Message)
    BY <1>4, NoticeSteps, PublishSteps
  <2> QED
    BY <1>4, <2>1 DEF Notice, Publish
<1>5. ASSUME NEW w \in Writers, Activate(w)
      PROVE  /\ job' \in [Writers -> JobType] /\ active' \in {None} \cup Projects
             /\ astray' \in BOOLEAN
             /\ UNCHANGED <<rows, snapshotId, owner, broadcasts, page>>
  BY <1>0, <1>5, IdleMade DEF Activate, JobType
<1>6. ASSUME NEW p \in Pages,
             Connect(p) \/ SendFullSnapshot(p) \/ Disconnect(p) \/ Take(p) \/ Fetch(p) \/ FetchArrives(p)
      PROVE  page' \in [Pages -> PageType] /\ UNCHANGED <<rows, snapshotId, active, owner, astray, job, broadcasts>>
  <2>1. \E g \in PageType : page' = [page EXCEPT ![p] = g]
    BY SMTT(60), <1>6, ConnectEffect, SnapshotEffect, DisconnectEffect,
       TakeEffect, FetchEffect, FetchArrivesEffect
  <2>2. UNCHANGED <<rows, snapshotId, active, owner, astray, job, broadcasts>>
    BY Zenon, <1>6 DEF Connect, SendFullSnapshot, Disconnect, Take, Fetch, FetchArrives
  <2> QED
    BY <1>0, <2>1, <2>2
<1>7. ASSUME Broadcast
      PROVE  page' \in [Pages -> PageType] /\ broadcasts' \in Seq(Message) /\ UNCHANGED <<rows, snapshotId, active, owner, astray, job>>
  BY <1>0, <1>7, BroadcastEffect, TailTells DEF Broadcast
<1>8. ASSUME ServerRestart
      PROVE  /\ rows' \in [Tags -> {None} \cup RowType] /\ snapshotId' \in Ids
             /\ active' \in {None} \cup Projects /\ owner' \in {None} \cup Projects /\ astray' \in BOOLEAN
             /\ job' \in [Writers -> JobType] /\ broadcasts' \in Seq(Message) /\ page' \in [Pages -> PageType]
  <2>1. page' \in [Pages -> PageType]
    BY <1>8, RestartEffect
  <2>2. 1 \in Ids
    BY FeedAssumption DEF Ids
  <2>3. broadcasts' \in Seq(Message)
    BY <1>8, NothingTells DEF ServerRestart
  <2> QED
    BY <1>8, <2>1, <2>2, <2>3, IdleMade DEF ServerRestart
<1>10. CASE UNCHANGED feedVars
  BY <1>0, <1>10 DEF feedVars
<1>11. CASE FeedNext
  BY <1>0, <1>1, <1>2, <1>3, <1>4, <1>5, <1>6, <1>7, <1>8, <1>11 DEF FeedNext
<1> QED
  BY <1>10, <1>11

-----------------------------------------------------------------------------
(***************************************************************************)
(* Live table: what is on its way is newer than what is shown.             *)
(***************************************************************************)
TellInv == FullsAreFull /\ BroadcastsTell /\ InboxTells /\ ViewTells

\* A step that touches no message: a row that has nothing on its way after it had
\* nothing on its way before and is as it was.
LEMMA QuietKept ==
    ASSUME TellInv, UNCHANGED <<broadcasts, page>>,
           \A t \in Tags : Told(t)' => Told(t) /\ Values'[t] = Values[t]
    PROVE  TellInv'
<1>1. FullsAreFull'
  BY DEF TellInv, FullsAreFull
<1>2. BroadcastsTell'
  BY DEF TellInv, BroadcastsTell
<1>3. \A t \in Tags : Announced(t)' => Announced(t) /\ Values'[t] = Values[t]
  BY DEF Announced
<1>4. ASSUME NEW p \in Pages PROVE InboxTold(page[p])'
  BY <1>3 DEF TellInv, InboxTells, InboxTold
<1>5. ASSUME NEW p \in Pages PROVE ViewTold(page[p])'
  BY <1>3 DEF TellInv, ViewTells, ViewTold
<1> QED
  BY <1>1, <1>2, <1>4, <1>5 DEF TellInv, InboxTells, ViewTells

\* A step of one page.
LEMMA PageKept ==
    ASSUME FeedTypeOK, TellInv, UNCHANGED <<rows, job, broadcasts>>,
           NEW p \in Pages, NEW g \in PageType, page' = [page EXCEPT ![p] = g],
           AllFull(g.inbox), InboxTold(g), ViewTold(g)
    PROVE  TellInv'
<1>0. page \in [Pages -> PageType]
  BY DEF FeedTypeOK, PageType
<1>1. page'[p] = g /\ \A q \in Pages \ {p} : page'[q] = page[q]
  BY <1>0
<1>2. FullsAreFull'
  BY <1>1 DEF TellInv, FullsAreFull
<1>3. \A t \in Tags : (Told(t)' <=> Told(t)) /\ (Announced(t)' <=> Announced(t)) /\ Values'[t] = Values[t]
  BY DEF Announced, Told, Owes, Values
<1>4. BroadcastsTell'
  BY <1>3 DEF TellInv, BroadcastsTell
<1>5. ASSUME NEW q \in Pages PROVE InboxTold(page[q])' /\ ViewTold(page[q])'
  <2>1. PICK x : x = page'[q]
    OBVIOUS
  <2>2. InboxTold(x) /\ ViewTold(x)
    BY <1>1, <2>1 DEF TellInv, InboxTells, ViewTells
  <2>3. InboxTold(page[q])'
    BY <1>3, <2>1, <2>2 DEF InboxTold
  <2>4. ViewTold(page[q])'
    BY <1>3, <2>1, <2>2 DEF ViewTold
  <2> QED
    BY <2>3, <2>4
<1> QED
  BY <1>2, <1>4, <1>5 DEF TellInv, InboxTells, ViewTells

LEMMA ConnectKeeps ==
    ASSUME FeedTypeOK, TellInv, ClosedIsEmpty, NEW p \in Pages, Connect(p)
    PROVE  TellInv'
<1>1. PICK g \in PageType : page' = [page EXCEPT ![p] = g] /\ g.conn = "joining" /\ g.inbox = page[p].inbox
  BY ConnectEffect
<1>2. g.inbox = <<>>
  BY <1>1 DEF Connect, ClosedIsEmpty
<1>3. AllFull(g.inbox) /\ InboxTold(g)
  BY <1>2, NothingTells DEF InboxTold
<1>4. ViewTold(g)
  BY <1>1 DEF ViewTold
<1> QED
  BY <1>1, <1>3, <1>4, PageKept DEF Connect

LEMMA SnapshotKeeps ==
    ASSUME FeedTypeOK, TellInv, NEW p \in Pages, SendFullSnapshot(p)
    PROVE  TellInv'
<1>1. PICK g \in PageType, m \in Message :
             /\ page' = [page EXCEPT ![p] = g]
             /\ m.full /\ m.tags = Tags /\ m.rows = Values
             /\ g.conn = "open" /\ g.inbox = Append(page[p].inbox, m)
  BY SnapshotEffect
<1>2. page[p].inbox \in Seq(Message) /\ AllFull(page[p].inbox)
  BY PageSteps DEF PageType, TellInv, FullsAreFull
<1>3. AllFull(g.inbox)
  BY <1>1, <1>2, AppendTells
<1>4. \A t \in Tags : Mentions(g.inbox, t) /\ Says(g.inbox, t, Values[t])
  <2>1. ASSUME NEW t \in Tags PROVE Mentions(g.inbox, t) /\ Says(g.inbox, t, Values[t])
    <3>1. PICK v : v = Values[t]
      OBVIOUS
    <3>2. t \in m.tags /\ m.rows[t] = v
      BY <1>1, <3>1
    <3>3. Mentions(Append(page[p].inbox, m), t) /\ Says(Append(page[p].inbox, m), t, v)
      BY <1>2, <3>2, AppendTells
    <3> QED
      BY <1>1, <3>1, <3>3
  <2> QED
    BY <2>1
<1>5. InboxTold(g) /\ ViewTold(g)
  BY <1>4 DEF InboxTold, ViewTold
<1> QED
  BY <1>1, <1>3, <1>5, PageKept DEF SendFullSnapshot

LEMMA DisconnectKeeps ==
    ASSUME FeedTypeOK, TellInv, NEW p \in Pages, Disconnect(p)
    PROVE  TellInv'
<1>1. PICK g \in PageType : page' = [page EXCEPT ![p] = g] /\ g.conn = "closed" /\ g.inbox = <<>>
  BY DisconnectEffect
<1>2. AllFull(g.inbox) /\ InboxTold(g) /\ ViewTold(g)
  BY <1>1, NothingTells DEF InboxTold, ViewTold
<1> QED
  BY <1>1, <1>2, PageKept DEF Disconnect

LEMMA FetchKeeps ==
    ASSUME FeedTypeOK, TellInv, NEW p \in Pages, Fetch(p)
    PROVE  TellInv'
<1>1. PICK g \in PageType :
             /\ page' = [page EXCEPT ![p] = g]
             /\ g.conn = page[p].conn /\ g.inbox = page[p].inbox /\ g.view = page[p].view
             /\ g.behind = page[p].behind /\ g.ignored = page[p].ignored /\ g.answer = Values
  BY FetchEffect
<1>2. AllFull(g.inbox)
  BY <1>1 DEF TellInv, FullsAreFull
<1>3. InboxTold(g)
  BY <1>1 DEF TellInv, InboxTells, InboxTold
<1>4. ViewTold(g)
  BY <1>1 DEF TellInv, ViewTells, ViewTold
<1> QED
  BY <1>1, <1>2, <1>3, <1>4, PageKept DEF Fetch

LEMMA FetchArrivesKeeps ==
    ASSUME FeedTypeOK, TellInv, NEW p \in Pages, FetchArrives(p)
    PROVE  TellInv'
<1>1. PICK g \in PageType :
             /\ page' = [page EXCEPT ![p] = g]
             /\ g.conn = page[p].conn /\ g.inbox = page[p].inbox /\ g.answer = None
             /\ \A t \in page[p].passed :
                    \/ t \in g.behind \cup g.ignored
                    \/ /\ t \notin page[p].behind \cup page[p].ignored
                       /\ g.view[t] = page[p].view[t]
             /\ g.view = page[p].answer
  BY FetchArrivesEffect
<1>2. AllFull(g.inbox)
  BY <1>1 DEF TellInv, FullsAreFull
<1>3. InboxTold(g)
  BY <1>1 DEF TellInv, InboxTells, InboxTold
<1>4. ViewTold(g)
  <2> SUFFICES ASSUME g.conn = "open", NEW t \in Tags, Announced(t), ~Mentions(g.inbox, t)
               PROVE  t \in g.behind \cup g.ignored \/ g.view[t] = Values[t]
    BY <1>1 DEF ViewTold
  <2>1. /\ t \in page[p].behind \cup page[p].ignored \/ page[p].view[t] = Values[t]
        /\ page[p].answer # None /\ t \notin page[p].passed => page[p].answer[t] = Values[t]
    BY <1>1 DEF TellInv, ViewTells, ViewTold
  <2>2. page[p].answer # None
    BY DEF FetchArrives
  <2> QED
    BY <1>1, <2>1, <2>2
<1> QED
  BY <1>1, <1>2, <1>3, <1>4, PageKept DEF FetchArrives

LEMMA TakeKeeps ==
    ASSUME FeedTypeOK, TellInv, NEW p \in Pages, Take(p)
    PROVE  TellInv'
<1>1. PICK g \in PageType, h \in Message :
             /\ page' = [page EXCEPT ![p] = g]
             /\ page[p].inbox # <<>> /\ h = Head(page[p].inbox)
             /\ h.full => h.tags = Tags
             /\ g.conn = page[p].conn /\ g.inbox = Tail(page[p].inbox)
             /\ g.answer = page[p].answer
             /\ page[p].answer # None => page[p].passed \subseteq g.passed /\ h.tags \subseteq g.passed
             /\ h.late \subseteq g.behind
             /\ \A t \in h.tags : t \in g.ignored \/ g.view[t] = h.rows[t]
             /\ \A t \in Tags \ h.tags :
                    /\ t \in page[p].behind \cup page[p].ignored => t \in g.behind \cup g.ignored
                    /\ g.view[t] = page[p].view[t]
  BY TakeEffect DEF TellInv
<1> PICK in \in Seq(Message) : in = page[p].inbox
  BY PageSteps DEF PageType
<1>2. AllFull(in)
  BY DEF TellInv, FullsAreFull
<1>3. AllFull(g.inbox)
  BY <1>1, <1>2, TailTells
<1>4. InboxTold(g)
  <2> SUFFICES ASSUME g.conn # "closed", NEW t \in Tags, Announced(t) PROVE Says(g.inbox, t, Values[t])
    BY DEF InboxTold
  <2>1. Says(in, t, Values[t])
    BY <1>1 DEF TellInv, InboxTells, InboxTold
  <2>2. PICK v : v = Values[t]
    OBVIOUS
  <2>3. Says(Tail(in), t, v)
    BY <1>1, <2>1, <2>2, TailTells
  <2> QED
    BY <1>1, <2>2, <2>3
<1>5. ViewTold(g)
  <2> SUFFICES ASSUME g.conn = "open", NEW t \in Tags, Announced(t), ~Mentions(g.inbox, t)
               PROVE  /\ t \in g.behind \cup g.ignored \/ g.view[t] = Values[t]
                      /\ g.answer # None /\ t \notin g.passed => g.answer[t] = Values[t]
    BY DEF ViewTold
  <2>1. PICK v : v = Values[t]
    OBVIOUS
  <2>2. CASE t \in h.tags
    <3>1. Says(in, t, v)
      BY <1>1, <2>1 DEF TellInv, InboxTells, InboxTold
    <3>2. h.rows[t] = v \/ t \in h.late
      BY <1>1, <2>2, <3>1, TailTells
    <3> QED
      BY <1>1, <2>1, <2>2, <3>2
  <2>3. CASE t \notin h.tags
    <3>1. ~Mentions(in, t)
      BY <1>1, <2>3, TailTells
    <3>2. /\ t \in page[p].behind \cup page[p].ignored \/ page[p].view[t] = v
          /\ page[p].answer # None /\ t \notin page[p].passed => page[p].answer[t] = v
      BY <1>1, <2>1, <3>1 DEF TellInv, ViewTells, ViewTold
    <3> QED
      BY <1>1, <2>1, <2>3, <3>2
  <2> QED
    BY <2>2, <2>3
<1> QED
  BY ZenonT(60), <1>1, <1>3, <1>4, <1>5, PageKept DEF Take

LEMMA BroadcastKeeps ==
    ASSUME FeedTypeOK, TellInv, ClosedIsEmpty, Broadcast
    PROVE  TellInv'
<1> PICK b \in Seq(Message) : b = broadcasts
  BY DEF FeedTypeOK
<1>1. b # <<>> /\ broadcasts' = Tail(b) /\ UNCHANGED <<rows, job>>
  BY DEF Broadcast
<1> PICK h \in Message : h = Head(b)
  BY <1>1, TailTells
<1>2. AllFull(b) /\ (h.full => h.tags = Tags) /\ AllFull(Tail(b))
  BY <1>1, TailTells DEF TellInv, FullsAreFull
<1>3. \A t \in Tags : (Told(t)' <=> Told(t)) /\ Values'[t] = Values[t]
  BY <1>1 DEF Told, Owes, Values
<1>5. BroadcastsTell'
  <2> SUFFICES ASSUME NEW t \in Tags, Told(t)' PROVE Says(broadcasts', t, Values'[t])
    BY DEF BroadcastsTell
  <2>1. PICK v : v = Values[t]
    OBVIOUS
  <2>2. Says(b, t, v)
    BY <1>3, <2>1 DEF TellInv, BroadcastsTell
  <2>3. Says(Tail(b), t, v)
    BY <1>1, <2>2, TailTells
  <2> QED
    BY <1>1, <1>3, <2>1, <2>3
<1>6. ASSUME NEW p \in Pages
      PROVE  AllFull(page'[p].inbox) /\ InboxTold(page[p])' /\ ViewTold(page[p])'
  <2>1. CASE page[p].conn = "closed"
    <3>1. page'[p] = page[p]
      BY <2>1, BroadcastEffect
    <3>2. page'[p].conn = "closed"
      BY <2>1, <3>1
    <3> QED
      BY <3>1, <3>2 DEF TellInv, FullsAreFull, InboxTold, ViewTold
  <2>2. CASE page[p].conn # "closed"
    <3> PICK in \in Seq(Message) : in = page[p].inbox
      BY PageSteps DEF PageType
    <3>1. /\ page'[p].conn = page[p].conn
          /\ page'[p].inbox = Append(in, h)
          /\ page'[p].view = page[p].view
          /\ page'[p].behind = page[p].behind /\ page'[p].ignored = page[p].ignored
          /\ page'[p].answer = page[p].answer /\ page'[p].passed = page[p].passed
      BY <2>2, BroadcastEffect
    <3>2. AllFull(Append(in, h))
      BY <1>2, AppendTells DEF TellInv, FullsAreFull
    <3>4. ASSUME NEW t \in Tags, Announced(t)' PROVE Says(Append(in, h), t, Values[t])
      <4> PICK v : v = Values[t]
        OBVIOUS
      <4>1. Told(t) /\ ~Mentions(Tail(b), t)
        BY <1>1, <1>3, <3>4 DEF Announced
      <4>2. Says(b, t, v)
        BY <4>1 DEF TellInv, BroadcastsTell
      <4>3. t \in h.tags => h.rows[t] = v \/ t \in h.late
        BY <1>1, <4>1, <4>2, TailTells
      <4>4. CASE t \notin h.tags
        <5>1. ~Mentions(b, t)
          BY <1>1, <4>1, <4>4, TailTells
        <5>2. Says(in, t, v)
          BY <2>2, <4>1, <5>1 DEF Announced, TellInv, InboxTells, InboxTold
        <5> QED
          BY <4>4, <5>2, AppendTells
      <4>5. CASE t \in h.tags
        BY <4>3, <4>5, AppendTells
      <4> QED
        BY <4>4, <4>5
    <3>5. ASSUME page[p].conn = "open", NEW t \in Tags, Announced(t)', ~Mentions(Append(in, h), t)
          PROVE  /\ t \in page[p].behind \cup page[p].ignored \/ page[p].view[t] = Values[t]
                 /\ page[p].answer # None /\ t \notin page[p].passed => page[p].answer[t] = Values[t]
      <4>1. ~Mentions(in, t) /\ t \notin h.tags
        BY <3>5, AppendTells
      <4>2. Told(t) /\ ~Mentions(Tail(b), t)
        BY <1>1, <1>3, <3>5 DEF Announced
      <4>3. Announced(t)
        BY <1>1, <4>1, <4>2, TailTells DEF Announced
      <4> QED
        BY <3>5, <4>1, <4>3 DEF TellInv, ViewTells, ViewTold
    <3>6. InboxTold(page[p])'
      BY <1>3, <3>1, <3>4 DEF InboxTold
    <3>7. ViewTold(page[p])'
      BY <1>3, <3>1, <3>5 DEF ViewTold
    <3> QED
      BY <3>1, <3>2, <3>6, <3>7
  <2> QED
    BY <2>1, <2>2
<1>7. FullsAreFull'
  BY <1>1, <1>2, <1>6 DEF FullsAreFull
<1> QED
  BY <1>5, <1>6, <1>7 DEF TellInv, InboxTells, ViewTells


\* What the writers owe stays with what they are doing, while the rows stay.
LEMMA OwesKept ==
    ASSUME UNCHANGED rows, NEW w \in Writers, NEW t,
           \/ job'[w] = job[w]
           \/ ~Owes(w, t) /\ job'[w].step \notin {"loaded", "updated", "ready"}
    PROVE  Owes(w, t)' <=> Owes(w, t)
  BY DEF Owes, Values

\* The message is handed over: the last broadcast with a row of it is this one.
LEMMA PublishKeeps ==
    ASSUME FeedTypeOK, JobsTell, TellInv, NEW w \in Writers, Publish(w)
    PROVE  TellInv'
<1> PICK b \in Seq(Message) : b = broadcasts
  BY DEF FeedTypeOK
<1> PICK m \in Message : m = job[w].message
  BY PublishSteps
<1>0. Through(w, m) /\ broadcasts' = Append(b, m) /\ UNCHANGED <<rows, page>>
  BY PublishSteps DEF Publish
<1>1. \A t \in Tags : Owes(w, t) => t \in m.tags /\ m.rows[t] = Values[t]
  BY DEF Owes, Publish
<1>2. \A t \in Tags : Values'[t] = Values[t]
  BY <1>0 DEF Values
<1>3. ASSUME NEW t \in Tags, Told(t)' PROVE Told(t) \/ (t \in m.tags /\ m.rows[t] = Values[t])
  BY <1>0, <1>1, <1>3, ThroughTells
<1>4. m.full => m.tags = Tags
  BY DEF JobsTell, JobTells, Publish
<1>5. \A t \in m.tags : Told(t) => t \in m.late
  BY DEF JobsTell, JobTells, Publish
<1>6. FullsAreFull'
  BY <1>0, <1>4, AppendTells DEF TellInv, FullsAreFull
<1>7. ASSUME NEW t \in Tags, Told(t)' PROVE Says(Append(b, m), t, Values[t])
  <2> PICK v : v = Values[t]
    OBVIOUS
  <2>1. CASE t \in m.tags
    BY <1>3, <1>5, <1>7, <2>1, AppendTells
  <2>2. CASE t \notin m.tags
    <3>1. Says(b, t, v)
      BY <1>3, <1>7, <2>2 DEF TellInv, BroadcastsTell
    <3> QED
      BY <2>2, <3>1, AppendTells
  <2> QED
    BY <2>1, <2>2
<1>8. BroadcastsTell'
  BY <1>0, <1>2, <1>7 DEF BroadcastsTell
<1>9. \A t \in Tags : Announced(t)' => Announced(t)
  <2> SUFFICES ASSUME NEW t \in Tags, Announced(t)' PROVE Announced(t)
    OBVIOUS
  <2>1. Told(t)' /\ ~Mentions(Append(b, m), t)
    BY <1>0 DEF Announced
  <2>2. ~Mentions(b, t) /\ t \notin m.tags
    BY <2>1, AppendTells
  <2> QED
    BY <1>3, <2>1, <2>2 DEF Announced
<1>10. ASSUME NEW p \in Pages PROVE InboxTold(page[p])' /\ ViewTold(page[p])'
  <2>1. InboxTold(page[p])'
    BY <1>0, <1>2, <1>9 DEF TellInv, InboxTells, InboxTold
  <2>2. ViewTold(page[p])'
    BY <1>0, <1>2, <1>9 DEF TellInv, ViewTells, ViewTold
  <2> QED
    BY <2>1, <2>2
<1> QED
  BY <1>6, <1>8, <1>10 DEF TellInv, InboxTells, ViewTells

\* Telling the hub: nothing is sent without pages, and then no page is behind.
LEMMA NoticeKeeps ==
    ASSUME FeedTypeOK, JobsTell, TellInv, NEW w \in Writers, Notice(w)
    PROVE  TellInv'
<1> PICK b \in Seq(Message) : b = broadcasts
  BY DEF FeedTypeOK
<1> PICK m \in Message : m = Noticed(w)
  BY NoticeSteps
<1>0. UNCHANGED <<rows, page>> /\ job[w].step \in {"loaded", "updated"} /\ job \in [Writers -> JobType]
  BY DEF Notice, FeedTypeOK, JobType
<1>1. \A t \in Tags : Values'[t] = Values[t]
  BY <1>0 DEF Values
<1>2. \A t \in Tags : Owes(w, t) => t \in m.tags /\ m.rows[t] = Values[t]
  BY <1>0, NoticedMade
<1>3. CASE /\ \A p \in Pages : page[p].conn = "closed"
           /\ Through(w, m)
           /\ broadcasts' = [i \in 1..Len(b) |-> Overtaken(b[i], m)]
  <2> PICK o : o = broadcasts'
    OBVIOUS
  <2>0. o = [i \in 1..Len(b) |-> Overtaken(b[i], m)] /\ AllFull(b)
    BY <1>3 DEF TellInv, FullsAreFull
  <2>1. AllFull(o) /\ \A t, x : Says(b, t, x) => Says(o, t, x)
    BY <2>0, OvertakenTells
  <2>2. FullsAreFull'
    BY <1>0, <2>1 DEF TellInv, FullsAreFull
  <2>3. ASSUME NEW t \in Tags, Told(t)' PROVE Says(o, t, Values[t])
    <3> PICK v : v = Values[t]
      OBVIOUS
    <3>1. Told(t) \/ (t \in m.tags /\ m.rows[t] = v)
      BY <1>0, <1>2, <1>3, <2>3, ThroughTells
    <3>2. CASE Told(t)
      <4>1. Says(b, t, v)
        BY <3>2 DEF TellInv, BroadcastsTell
      <4> QED
        BY <2>1, <4>1
    <3>3. CASE t \in m.tags /\ m.rows[t] = v
      BY <2>0, <3>3, OvertakenTells
    <3> QED
      BY <3>1, <3>2, <3>3
  <2>4. BroadcastsTell'
    BY <1>1, <2>3 DEF BroadcastsTell
  <2>5. InboxTells' /\ ViewTells'
    BY <1>0, <1>3 DEF InboxTells, InboxTold, ViewTells, ViewTold
  <2> QED
    BY <2>2, <2>4, <2>5 DEF TellInv
<1>4. CASE job' = [job EXCEPT ![w] = Job("ready", job[w].project, m)] /\ UNCHANGED broadcasts
  <2>1. job'[w].step = "ready" /\ job'[w].message = m /\ \A v \in Writers \ {w} : job'[v] = job[v]
    BY <1>0, <1>4 DEF Job
  <2>2. ASSUME NEW t \in Tags, Told(t)' PROVE Told(t)
    <3>1. \A v \in Writers \ {w} : ~Owes(v, t)
      BY <1>0, <2>1, <2>2, OwesKept DEF Told
    <3>2. ~Owes(w, t)
      BY <1>1, <1>2, <2>1, <2>2 DEF Told, Owes
    <3> QED
      BY <3>1, <3>2 DEF Told
  <2> QED
    BY <1>0, <1>1, <1>4, <2>2, QuietKept
<1> QED
  BY <1>3, <1>4, NoticeSteps

\* An update owes the rows it has an effect on, and leaves the others as they were.
LEMMA UpdateTells ==
    ASSUME FeedTypeOK, JobsTell, NEW w \in Writers, NEW tags \in SUBSET Tags, NEW value \in Readings,
           Update(w, tags, value)
    PROVE  /\ JobsTell'
           /\ \A t \in Tags : Told(t)' => Told(t) /\ Values'[t] = Values[t]
<1>0. /\ job \in [Writers -> JobType] /\ snapshotId' \in Ids
      /\ \A v \in Writers \ {w} : job'[v] = job[v]
      /\ job[w].step \in {"idle", "push"}
  <2>1. job \in [Writers -> JobType]
    BY DEF FeedTypeOK, JobType
  <2>2. snapshotId' \in Ids
    BY UpdateMakes
  <2>3. PICK j : job' = [job EXCEPT ![w] = j]
    BY DEF Update
  <2>4. job[w].step \in {"idle", "push"}
    BY DEF Update
  <2> QED
    BY <2>1, <2>2, <2>3, <2>4
<1>1. rows' = [t \in Tags |-> RowAfter(t, tags, value, w, snapshotId')]
  BY UpdateRows
<1>2. ASSUME NEW t \in Tags, t \notin Impacted(tags \cap Loaded) PROVE Values'[t] = Values[t]
  <2>1. rows'[t] = rows[t]
    BY <1>1, <1>2 DEF RowAfter
  <2> QED
    BY <2>1 DEF Values
<1>3. \/ job'[w] = Idle /\ Impacted(tags \cap Loaded) = {}
      \/ \E m \in Message :
            /\ job'[w].step = "updated" /\ job'[w].message = m /\ ~m.full
            /\ m.tags = Impacted(tags \cap Loaded)
            /\ \A t \in m.tags : m.rows[t] = Values'[t]
  <2>1. CASE tags \cap Loaded = {}
    BY <1>0, <2>1, UpdateMakes
  <2>2. CASE tags \cap Loaded # {}
    <3>0. tags \cap Loaded # {} =>
             \E m \in Message :
                /\ job' = [job EXCEPT ![w] = Job("updated", None, m)]
                /\ ~m.full
                /\ m.tags = Impacted(tags \cap Loaded)
                /\ \A u \in m.tags : m.rows[u] = rows'[u].value
      BY UpdateMakes
    <3>1. PICK m \in Message :
             /\ job' = [job EXCEPT ![w] = Job("updated", None, m)]
             /\ ~m.full
             /\ m.tags = Impacted(tags \cap Loaded)
             /\ \A u \in m.tags : m.rows[u] = rows'[u].value
      BY <2>2, <3>0
    <3>2. job'[w].step = "updated" /\ job'[w].message = m
      BY <1>0, <3>1 DEF Job
    <3>3. ASSUME NEW t \in m.tags PROVE m.rows[t] = Values'[t]
      <4>1. t \in Tags /\ t \in Impacted(tags \cap Loaded)
        BY <3>1 DEF Impacted, Loaded
      <4>2. rows'[t] \in RowType
        BY <1>0, <1>1, <4>1, RowAfterType
      <4>3. rows'[t] # None
        BY <4>2, FeedRowAssumption
      <4> QED
        BY <3>1, <4>1, <4>3 DEF Values
    <3> QED
      BY <3>1, <3>2, <3>3
  <2> QED
    BY <2>1, <2>2
<1>4. ASSUME NEW t, Told(t)' PROVE t \notin Impacted(tags \cap Loaded)
  BY <1>3, <1>4 DEF Told, Owes
<1>5. ASSUME NEW t \in Tags, Told(t)' PROVE Told(t) /\ Values'[t] = Values[t]
  <2>1. Values'[t] = Values[t]
    BY <1>2, <1>4, <1>5
  <2>2. \A v \in Writers \ {w} : ~Owes(v, t)
    BY <1>0, <1>5, <2>1 DEF Told, Owes
  <2>3. ~Owes(w, t)
    BY <1>0 DEF Owes
  <2> QED
    BY <2>1, <2>2, <2>3 DEF Told
<1>6. ASSUME NEW v \in Writers, v # w PROVE JobTells(v)'
  <2>1. job'[v] = job[v]
    BY <1>0, <1>6
  <2>2. job[v].step \in {"updated", "ready"} => job[v].message \in Message
    BY DEF JobsTell, JobTells
  <2> QED
    BY <1>5, <2>1, <2>2 DEF JobsTell, JobTells, Message
<1>7. JobTells(w)'
  <2>1. CASE job'[w] = Idle
    BY <2>1, IdleMade DEF JobTells
  <2>2. CASE \E m \in Message :
            /\ job'[w].step = "updated" /\ job'[w].message = m /\ ~m.full
            /\ m.tags = Impacted(tags \cap Loaded)
            /\ \A t \in m.tags : m.rows[t] = Values'[t]
    BY <1>4, <2>2 DEF JobTells
  <2> QED
    BY <1>3, <2>1, <2>2
<1>8. JobsTell'
  BY <1>6, <1>7 DEF JobsTell
<1> QED
  BY <1>5, <1>8

\* A step of a writer that changes rows or what it is doing, and no message.
LEMMA WriterKeeps ==
    ASSUME FeedTypeOK, JobsTell, TellInv, NEW w \in Writers,
           \/ \E project \in {None} \cup Projects, tags \in RowSets, value \in Readings :
                 Load(w, project, tags, value)
           \/ \E project \in Projects : CheckActive(w, project)
           \/ \E tags \in SUBSET Tags, value \in Readings : Update(w, tags, value)
           \/ Activate(w)
    PROVE  TellInv'
<1>0. job \in [Writers -> JobType]
  BY DEF FeedTypeOK, JobType
<1>1. ASSUME NEW project \in {None} \cup Projects, NEW tags \in RowSets, NEW value \in Readings,
             Load(w, project, tags, value)
      PROVE  TellInv'
  <2>1. PICK m \in Message : job' = [job EXCEPT ![w] = Job("loaded", project, m)]
    BY <1>1, LoadMakes
  <2>2. job'[w].step = "loaded"
    BY <1>0, <2>1 DEF Job
  <2>3. \A t \in Tags : ~Told(t)'
    BY <2>2 DEF Told, Owes
  <2> QED
    BY <1>1, <2>3, QuietKept DEF Load
<1>2. ASSUME CheckActive(w, job'[w].project) \/ Activate(w) PROVE TellInv'
  <2>1. /\ UNCHANGED <<rows, broadcasts, page>>
        /\ job[w].step \in {"idle", "activate"} /\ job'[w].step \in {"idle", "push"}
        /\ \A v \in Writers \ {w} : job'[v] = job[v]
    BY <1>0, <1>2, IdleMade DEF CheckActive, Activate
  <2>2. ASSUME NEW t \in Tags PROVE Told(t)' <=> Told(t)
    <3>1. \A v \in Writers : Owes(v, t)' <=> Owes(v, t)
      BY <2>1, OwesKept DEF Owes
    <3> QED
      BY <3>1 DEF Told
  <2>3. \A t \in Tags : Values'[t] = Values[t]
    BY <2>1 DEF Values
  <2> QED
    BY <2>1, <2>2, <2>3, QuietKept
<1>3. ASSUME NEW tags \in SUBSET Tags, NEW value \in Readings, Update(w, tags, value)
      PROVE  TellInv'
  <2>1. \A t \in Tags : Told(t)' => Told(t) /\ Values'[t] = Values[t]
    BY <1>3, UpdateTells
  <2> QED
    BY <1>3, <2>1, QuietKept DEF Update
<1>4. ASSUME NEW project \in Projects, CheckActive(w, project) PROVE CheckActive(w, job'[w].project)
  <2>1. job'[w].project = project
    BY <1>0, <1>4 DEF CheckActive
  <2> QED
    BY <1>4, <2>1
<1> QED
  BY <1>1, <1>2, <1>3, <1>4

-----------------------------------------------------------------------------
(***************************************************************************)
(* Live table: what the writers are doing, and whose the rows are.         *)
(***************************************************************************)
LEMMA JobsTellStep ==
    ASSUME FeedTypeOK, JobsTell, [FeedNext]_feedVars
    PROVE  JobsTell'
<1>0. job \in [Writers -> JobType]
  BY DEF FeedTypeOK, JobType
<1>1. ASSUME NEW w \in Writers, NEW project \in {None} \cup Projects, NEW tags \in RowSets, NEW value \in Readings,
             Load(w, project, tags, value)
      PROVE  JobsTell'
  <2>1. PICK m \in Message : job' = [job EXCEPT ![w] = Job("loaded", project, m)]
    BY <1>1, LoadMakes
  <2>2. job'[w].step = "loaded" /\ job'[w].message = m /\ \A v \in Writers \ {w} : job'[v] = job[v]
    BY <1>0, <2>1 DEF Job
  <2>3. \A t : ~Told(t)'
    BY <2>2 DEF Told, Owes
  <2>4. ASSUME NEW v \in Writers PROVE JobTells(v)'
    <3>1. CASE v = w
      BY <2>2, <3>1 DEF JobTells
    <3>2. CASE v # w
      BY <2>2, <2>3, <3>2 DEF JobsTell, JobTells
    <3> QED
      BY <3>1, <3>2
  <2> QED
    BY <2>4 DEF JobsTell
<1>2. ASSUME NEW w \in Writers, CheckActive(w, job'[w].project) \/ Activate(w) PROVE JobsTell'
  <2>1. /\ UNCHANGED rows
        /\ job[w].step \in {"idle", "activate"}
        /\ job'[w].step \in {"idle", "push"} /\ (job'[w].step = "idle" => job'[w].project = None)
        /\ \A v \in Writers \ {w} : job'[v] = job[v]
    BY <1>0, <1>2, IdleMade DEF CheckActive, Activate
  <2>2. ASSUME NEW t PROVE Told(t)' <=> Told(t)
    <3>1. \A v \in Writers : Owes(v, t)' <=> Owes(v, t)
      BY <2>1, OwesKept DEF Owes
    <3> QED
      BY <3>1 DEF Told
  <2>3. ASSUME NEW v \in Writers PROVE JobTells(v)'
    <3>1. CASE v = w
      BY <2>1, <3>1 DEF JobTells
    <3>2. CASE v # w
      BY <2>1, <2>2, <3>2 DEF JobsTell, JobTells
    <3> QED
      BY <3>1, <3>2
  <2> QED
    BY <2>3 DEF JobsTell
<1>3. ASSUME NEW w \in Writers, NEW tags \in SUBSET Tags, NEW value \in Readings, Update(w, tags, value)
      PROVE  JobsTell'
  BY <1>3, UpdateTells
<1>4. ASSUME NEW w \in Writers, NEW m \in Message, Through(w, m), UNCHANGED rows,
             \A t \in Tags : Owes(w, t) => t \in m.tags /\ m.rows[t] = Values[t]
      PROVE  JobsTell'
  BY <1>4, ThroughTells
<1>5. ASSUME NEW w \in Writers, NEW m \in Message, Notice(w), m = Noticed(w),
             job' = [job EXCEPT ![w] = Job("ready", job[w].project, m)]
      PROVE  JobsTell'
  <2>0. UNCHANGED rows /\ job[w].step \in {"loaded", "updated"}
    BY <1>5 DEF Notice
  <2>1. job'[w].step = "ready" /\ job'[w].message = m /\ \A v \in Writers \ {w} : job'[v] = job[v]
    BY <1>0, <1>5 DEF Job
  <2>2. ASSUME NEW t \in Tags, Told(t)' PROVE Told(t)
    <3>1. \A v \in Writers \ {w} : ~Owes(v, t)
      BY <2>0, <2>1, <2>2, OwesKept DEF Told
    <3>2. Owes(w, t) => t \in m.tags /\ m.rows[t] = Values[t]
      BY <1>5, <2>0, NoticedMade
    <3>3. Values' = Values
      BY <2>0 DEF Values
    <3>4. ~Owes(w, t)
      BY <2>1, <2>2, <3>2, <3>3 DEF Told, Owes
    <3> QED
      BY <3>1, <3>4 DEF Told
  <2>3. JobTells(w)'
    <3>1. m.full => m.tags = Tags
      BY <1>5, <2>0, NoticedMade
    <3>2. ASSUME NEW t \in m.tags, Told(t)' PROVE t \in m.late
      <4>1. t \in Tags
        BY DEF Message
      <4>2. Told(t)
        BY <2>2, <3>2, <4>1
      <4>3. job[w].step = "updated"
        BY <2>0, <4>2 DEF Told, Owes
      <4>4. m = job[w].message
        BY <1>5, <4>3 DEF Noticed
      <4> QED
        BY <4>2, <4>3, <4>4 DEF JobsTell, JobTells
    <3> QED
      BY <2>1, <3>1, <3>2 DEF JobTells
  <2>4. ASSUME NEW v \in Writers, v # w PROVE JobTells(v)'
    <3>1. job'[v] = job[v]
      BY <2>1, <2>4
    <3>2. job[v].step \in {"updated", "ready"} => job[v].message \in Message
      BY DEF JobsTell, JobTells
    <3>3. \A t \in Tags : Told(t)' => Told(t)
      BY <2>2
    <3> QED
      BY <3>1, <3>2, <3>3 DEF JobsTell, JobTells, Message
  <2> QED
    BY <2>3, <2>4 DEF JobsTell
<1>6. ASSUME NEW w \in Writers, Notice(w) PROVE JobsTell'
  <2>1. PICK m \in Message : m = Noticed(w)
    BY <1>6, NoticeSteps
  <2>2. UNCHANGED rows /\ \A t \in Tags : Owes(w, t) => t \in m.tags /\ m.rows[t] = Values[t]
    BY <1>6, <2>1, NoticedMade DEF Notice
  <2>3. CASE Through(w, m)
    BY <1>4, <2>2, <2>3
  <2>4. CASE job' = [job EXCEPT ![w] = Job("ready", job[w].project, m)]
    BY <1>5, <1>6, <2>1, <2>4
  <2> QED
    BY <1>6, <2>1, <2>3, <2>4, NoticeSteps
<1>7. ASSUME NEW w \in Writers, Publish(w) PROVE JobsTell'
  <2>1. PICK m \in Message : m = job[w].message
    BY <1>7, PublishSteps
  <2>2. UNCHANGED rows /\ \A t \in Tags : Owes(w, t) => t \in m.tags /\ m.rows[t] = Values[t]
    BY <1>7, <2>1 DEF Owes, Publish
  <2> QED
    BY <1>4, <1>7, <2>1, <2>2, PublishSteps
<1>8. ASSUME UNCHANGED <<rows, job>> PROVE JobsTell'
  <2>1. \A t : Told(t)' <=> Told(t)
    BY <1>8 DEF Told, Owes, Values
  <2> QED
    BY <1>8, <2>1 DEF JobsTell, JobTells
<1>9. ASSUME ServerRestart PROVE JobsTell'
  <2>1. \A w \in Writers : job'[w] = Idle
    BY <1>9 DEF ServerRestart
  <2> QED
    BY <2>1, IdleMade DEF JobsTell, JobTells
<1>10. CASE UNCHANGED feedVars
  BY <1>8, <1>10 DEF feedVars
<1>11. CASE FeedNext
  <2>1. ASSUME NEW p \in Pages,
               Connect(p) \/ SendFullSnapshot(p) \/ Disconnect(p) \/ Take(p) \/ Fetch(p) \/ FetchArrives(p)
        PROVE  UNCHANGED <<rows, job>>
    BY Zenon, <2>1 DEF Connect, SendFullSnapshot, Disconnect, Take, Fetch, FetchArrives
  <2>2. Broadcast => UNCHANGED <<rows, job>>
    BY DEF Broadcast
  <2>3. ASSUME NEW w \in Writers, NEW project \in Projects, CheckActive(w, project) PROVE JobsTell'
    <3>1. job'[w].project = project
      BY <1>0, <2>3 DEF CheckActive
    <3> QED
      BY <1>2, <2>3, <3>1
  <2> QED
    BY <1>1, <1>2, <1>3, <1>6, <1>7, <1>8, <1>9, <1>11, <2>1, <2>2, <2>3 DEF FeedNext
<1> QED
  BY <1>10, <1>11

\* Whose the rows are: what is pushed astray, or made active over them, is marked.
LEMMA ByActiveStep ==
    ASSUME FeedTypeOK, JobsTell, ByActive, [FeedNext]_feedVars
    PROVE  ByActive'
<1>0. job \in [Writers -> JobType]
  BY DEF FeedTypeOK, JobType
<1> SUFFICES ASSUME ~astray'
             PROVE  /\ \A t \in Loaded' : rows'[t].by \in {None, Own'}
                    /\ \/ owner' \in {None, active'}
                       \/ \E w \in Writers :
                            job'[w].project = owner' /\ job'[w].step \in {"loaded", "ready", "activate"}
  BY DEF ByActive
<1> DEFINE Goal ==
      /\ \A t \in Loaded' : rows'[t].by \in {None, Own'}
      /\ \/ owner' \in {None, active'}
         \/ \E w \in Writers :
              job'[w].project = owner' /\ job'[w].step \in {"loaded", "ready", "activate"}
<1>1. ASSUME NEW w \in Writers, NEW project \in {None} \cup Projects, NEW tags \in RowSets, NEW value \in Readings,
             Load(w, project, tags, value)
      PROVE  Goal
  <2>1. PICK m \in Message : job' = [job EXCEPT ![w] = Job("loaded", project, m)]
    BY <1>1, LoadMakes
  <2>2. job'[w].step = "loaded" /\ job'[w].project = project
    BY <1>0, <2>1 DEF Job
  <2>3. owner' = project /\ \A t \in Tags : rows'[t] # None => rows'[t].by = project
    BY <1>1, LoadMakes
  <2> QED
    BY <2>2, <2>3 DEF Loaded, Own
\* A step that keeps the rows, the owner and the active project, and what loads are at.
<1>2. ASSUME UNCHANGED <<rows, active, owner, astray>>,
             \A w \in Writers :
                job[w].step \in {"loaded", "ready", "activate"} /\ job[w].project # None =>
                    job'[w].step \in {"loaded", "ready", "activate"} /\ job'[w].project = job[w].project
      PROVE  Goal
  BY <1>2 DEF ByActive, Loaded, Own
<1>3. ASSUME NEW w \in Writers, NEW project \in Projects, CheckActive(w, project) PROVE Goal
  <2>1. \A v \in Writers : v # w => job'[v] = job[v]
    BY <1>0, <1>3 DEF CheckActive
  <2> QED
    BY <1>2, <1>3, <2>1 DEF CheckActive
<1>4. ASSUME NEW w \in Writers, NEW tags \in SUBSET Tags, NEW value \in Readings, Update(w, tags, value)
      PROVE  Goal
  <2>0. /\ job[w].step \in {"idle", "push"} /\ active' = active /\ owner' = owner /\ snapshotId' \in Ids
        /\ ~astray /\ job[w].project \in {None, Own}
    BY <1>4, UpdateMakes DEF Update, Own
  <2>1. \A v \in Writers \ {w} : job'[v] = job[v]
    BY <1>0, <1>4 DEF Update
  <2>2. rows' = [t \in Tags |-> RowAfter(t, tags, value, w, snapshotId')]
    BY <1>4, UpdateRows
  <2>3. Own' = Own
    BY <2>0 DEF Own
  <2>4. ASSUME NEW t \in Loaded' PROVE rows'[t].by \in {None, Own}
    <3>1. t \in Tags /\ rows'[t] # None /\ rows'[t] = RowAfter(t, tags, value, w, snapshotId')
      BY <2>2 DEF Loaded
    <3>2. CASE t \in Impacted(tags \cap Loaded)
      <4>1. t \in Loaded
        BY <3>2 DEF Impacted
      <4>2. rows[t].by \in {None, Own}
        BY <2>0, <4>1 DEF ByActive
      <4>3. rows'[t].by = IF t \in tags \cap Loaded THEN job[w].project ELSE rows[t].by
        BY <2>0, <3>1, <3>2, RowAfterType
      <4> QED
        BY <2>0, <4>2, <4>3
    <3>3. CASE t \notin Impacted(tags \cap Loaded)
      <4>1. rows'[t] = rows[t]
        BY <3>1, <3>3 DEF RowAfter
      <4>2. t \in Loaded
        BY <3>1, <4>1 DEF Loaded
      <4> QED
        BY <2>0, <4>1, <4>2 DEF ByActive
    <3> QED
      BY <3>2, <3>3
  <2>5. \/ owner' \in {None, active'}
        \/ \E v \in Writers :
             job'[v].project = owner' /\ job'[v].step \in {"loaded", "ready", "activate"}
    BY <2>0, <2>1 DEF ByActive
  <2> QED
    BY <2>3, <2>4, <2>5
<1>5. ASSUME NEW w \in Writers, NEW m \in Message, Through(w, m), UNCHANGED <<rows, active, owner, astray>>
      PROVE  Goal
  <2>1. job[w].project # None => job'[w].step = "activate" /\ job'[w].project = job[w].project
    <3>1. job[w].project # None => job'[w] = Job("activate", job[w].project, None)
      BY <1>5, ThroughMakes
    <3> QED
      BY <3>1 DEF Job
  <2>2. \A v \in Writers \ {w} : job'[v].step = job[v].step /\ job'[v].project = job[v].project
    BY <1>5, ThroughMakes
  <2> QED
    BY <1>2, <1>5, <2>1, <2>2
<1>6. ASSUME NEW w \in Writers, Notice(w) PROVE Goal
  <2>0. UNCHANGED <<rows, active, owner, astray>>
    BY <1>6 DEF Notice
  <2>1. CASE job' = [job EXCEPT ![w] = Job("ready", job[w].project, Noticed(w))]
    <3>1. /\ job'[w].step = "ready" /\ job'[w].project = job[w].project
          /\ \A v \in Writers \ {w} : job'[v] = job[v]
      BY <1>0, <2>1 DEF Job
    <3> QED
      BY <1>2, <2>0, <3>1
  <2> QED
    BY <1>5, <1>6, <2>0, <2>1, NoticeSteps
<1>7. ASSUME NEW w \in Writers, Publish(w) PROVE Goal
  <2>0. UNCHANGED <<rows, active, owner, astray>>
    BY <1>7 DEF Publish
  <2> QED
    BY <1>5, <1>7, <2>0, PublishSteps
<1>8. ASSUME NEW w \in Writers, Activate(w) PROVE Goal
  <2>1. owner = job[w].project /\ ~astray /\ active' = job[w].project /\ owner' = owner /\ rows' = rows
    BY <1>8 DEF Activate
  <2>2. job[w].project # None
    BY <1>8 DEF Activate, JobsTell, JobTells
  <2>3. Own' = Own
    BY <2>1, <2>2 DEF Own
  <2> QED
    BY <2>1, <2>3 DEF ByActive, Loaded
<1>9. ASSUME UNCHANGED <<rows, active, owner, astray, job>> PROVE Goal
  BY <1>2, <1>9
<1>10. ASSUME ServerRestart PROVE Goal
  <2>1. rows' = [t \in Tags |-> None] /\ owner' = None
    BY <1>10 DEF ServerRestart
  <2>2. Loaded' = {}
    BY <2>1 DEF Loaded
  <2> QED
    BY <2>1, <2>2
<1>11. CASE UNCHANGED feedVars
  BY <1>9, <1>11 DEF feedVars
<1>12. CASE FeedNext
  <2>1. ASSUME NEW p \in Pages,
               Connect(p) \/ SendFullSnapshot(p) \/ Disconnect(p) \/ Take(p) \/ Fetch(p) \/ FetchArrives(p)
        PROVE  UNCHANGED <<rows, active, owner, astray, job>>
    BY Zenon, <2>1 DEF Connect, SendFullSnapshot, Disconnect, Take, Fetch, FetchArrives
  <2>2. Broadcast => UNCHANGED <<rows, active, owner, astray, job>>
    BY DEF Broadcast
  <2> HIDE DEF Goal
  <2>3. Goal
    BY <1>1, <1>3, <1>4, <1>6, <1>7, <1>8, <1>9, <1>10, <1>12, <2>1, <2>2 DEF FeedNext
  <2> QED
    BY SMTT(60), <2>3 DEF Goal
<1> QED
  BY <1>11, <1>12

LEMMA ClosedIsEmptyStep ==
    ASSUME FeedTypeOK, FullsAreFull, ClosedIsEmpty, [FeedNext]_feedVars
    PROVE  ClosedIsEmpty'
<1>0. page \in [Pages -> PageType]
  BY DEF FeedTypeOK, PageType
<1>1. ASSUME NEW p \in Pages, Connect(p) \/ SendFullSnapshot(p) \/ Disconnect(p) \/ Take(p) \/ Fetch(p) \/ FetchArrives(p)
      PROVE  ClosedIsEmpty'
  <2>1. ASSUME NEW g \in PageType, page' = [page EXCEPT ![p] = g], g.conn = "closed" => g.inbox = <<>>
        PROVE  ClosedIsEmpty'
    BY <1>0, <2>1 DEF ClosedIsEmpty
  <2>2. \E g \in PageType : page' = [page EXCEPT ![p] = g] /\ (g.conn = "closed" => g.inbox = <<>>)
    <3>1. Connect(p) => \E g \in PageType : page' = [page EXCEPT ![p] = g] /\ g.conn = "joining"
      BY ConnectEffect
    <3>2. SendFullSnapshot(p) => \E g \in PageType : page' = [page EXCEPT ![p] = g] /\ g.conn = "open"
      BY SnapshotEffect
    <3>3. Disconnect(p) => \E g \in PageType : page' = [page EXCEPT ![p] = g] /\ g.inbox = <<>>
      BY DisconnectEffect
    <3>4. Take(p) => \E g \in PageType : page' = [page EXCEPT ![p] = g] /\ g.conn = page[p].conn /\ page[p].inbox # <<>>
      BY TakeEffect
    <3>5. Fetch(p) => \E g \in PageType : page' = [page EXCEPT ![p] = g] /\ g.conn = page[p].conn /\ g.inbox = page[p].inbox
      BY FetchEffect
    <3>6. FetchArrives(p) => \E g \in PageType : page' = [page EXCEPT ![p] = g] /\ g.conn = page[p].conn /\ g.inbox = page[p].inbox
      BY FetchArrivesEffect
    <3>7. page[p].conn = "closed" => page[p].inbox = <<>>
      BY DEF ClosedIsEmpty
    <3>8. "joining" # "closed" /\ "open" # "closed"
      OBVIOUS
    <3> QED
      BY <1>1, <3>1, <3>2, <3>3, <3>4, <3>5, <3>6, <3>7, <3>8
  <2> QED
    BY <2>1, <2>2
<1>2. ASSUME Broadcast PROVE ClosedIsEmpty'
  <2>1. \A p \in Pages : IF page[p].conn = "closed" THEN page'[p] = page[p] ELSE page'[p].conn = page[p].conn
    BY <1>2, BroadcastEffect
  <2> QED
    BY <2>1 DEF ClosedIsEmpty
<1>3. ASSUME ServerRestart PROVE ClosedIsEmpty'
  BY <1>3, RestartEffect DEF ClosedIsEmpty
<1>4. ASSUME UNCHANGED page PROVE ClosedIsEmpty'
  BY <1>4 DEF ClosedIsEmpty
<1>5. CASE UNCHANGED feedVars
  BY <1>4, <1>5 DEF feedVars
<1>6. CASE FeedNext
  BY <1>1, <1>2, <1>3, <1>4, <1>6 DEF FeedNext, Load, CheckActive, Update, Notice, Publish, Activate
<1> QED
  BY <1>5, <1>6

LEMMA TellStep ==
    ASSUME FeedTypeOK, JobsTell, TellInv, ClosedIsEmpty, [FeedNext]_feedVars
    PROVE  TellInv'
<1>1. ASSUME ServerRestart PROVE TellInv'
  <2>1. /\ broadcasts' = <<>>
        /\ \A p \in Pages : page'[p].conn = "closed" /\ page'[p].inbox = <<>>
    BY <1>1, RestartEffect DEF ServerRestart
  <2>2. FullsAreFull'
    BY <2>1, NothingTells DEF FullsAreFull
  <2>3. BroadcastsTell' /\ InboxTells' /\ ViewTells'
    BY <2>1, NothingTells DEF BroadcastsTell, InboxTells, InboxTold, ViewTells, ViewTold
  <2> QED
    BY <2>2, <2>3 DEF TellInv
<1>2. ASSUME UNCHANGED <<rows, job, broadcasts, page>> PROVE TellInv'
  <2>1. \A t \in Tags : (Told(t)' <=> Told(t)) /\ Values'[t] = Values[t]
    BY <1>2 DEF Told, Owes, Values
  <2> QED
    BY <1>2, <2>1, QuietKept
<1>3. CASE UNCHANGED feedVars
  BY <1>2, <1>3 DEF feedVars
<1>4. CASE FeedNext
  <2>1. ASSUME NEW w \in Writers,
               \/ \E project \in {None} \cup Projects, tags \in RowSets, value \in Readings :
                     Load(w, project, tags, value)
               \/ \E project \in Projects : CheckActive(w, project)
               \/ \E tags \in (SUBSET Tags) \ {{}}, value \in Readings : Update(w, tags, value)
               \/ Notice(w)
               \/ Publish(w)
               \/ Activate(w)
        PROVE  TellInv'
    BY <2>1, WriterKeeps, NoticeKeeps, PublishKeeps
  <2>2. ASSUME NEW p \in Pages,
               Connect(p) \/ SendFullSnapshot(p) \/ Disconnect(p) \/ Take(p) \/ Fetch(p) \/ FetchArrives(p)
        PROVE  TellInv'
    BY <2>2, ConnectKeeps, SnapshotKeeps, DisconnectKeeps, TakeKeeps, FetchKeeps, FetchArrivesKeeps
  <2> QED
    BY <1>1, <1>4, <2>1, <2>2, BroadcastKeeps DEF FeedNext
<1> QED
  BY <1>3, <1>4

\* The inductive invariant of the live table.
FeedInv == FeedTypeOK /\ JobsTell /\ TellInv /\ ByActive /\ ClosedIsEmpty

LEMMA FeedInvInit == FeedInit => FeedInv
<1> SUFFICES ASSUME FeedInit PROVE FeedInv
  OBVIOUS
<1>1. FeedTypeOK
  BY FeedInitType
<1>2. \A w \in Writers : job[w].step = "idle" /\ job[w].project = None
  BY IdleMade DEF FeedInit
<1>3. \A p \in Pages : page[p].conn = "closed" /\ page[p].inbox = <<>>
  BY DEF FeedInit, NewPage
<1>4. Loaded = {} /\ owner = None
  BY DEF FeedInit, Loaded
<1>5. JobsTell /\ ByActive
  BY <1>2, <1>4 DEF JobsTell, JobTells, ByActive
<1>6. FullsAreFull
  BY <1>3, NothingTells DEF FullsAreFull, FeedInit
<1>7. BroadcastsTell
  BY NothingTells DEF BroadcastsTell, FeedInit
<1>8. InboxTells /\ ViewTells /\ ClosedIsEmpty
  BY <1>3 DEF InboxTells, InboxTold, ViewTells, ViewTold, ClosedIsEmpty
<1> QED
  BY <1>1, <1>5, <1>6, <1>7, <1>8 DEF FeedInv, TellInv

LEMMA FeedInvStep ==
    ASSUME FeedInv, [FeedNext]_feedVars
    PROVE  FeedInv'
<1>1. FeedTypeOK'
  BY FeedTypeStep DEF FeedInv, TellInv
<1>2. JobsTell' /\ ByActive'
  BY JobsTellStep, ByActiveStep DEF FeedInv
<1>3. TellInv'
  BY TellStep DEF FeedInv
<1>4. ClosedIsEmpty'
  BY ClosedIsEmptyStep DEF FeedInv, TellInv
<1> QED
  BY <1>1, <1>2, <1>3, <1>4 DEF FeedInv

LEMMA FeedInvAgrees == FeedInv => LiveTableAgrees
<1> SUFFICES ASSUME FeedInv PROVE LiveTableAgrees
  OBVIOUS
<1>1. RowsAreTheActiveProjects
  <2>1. AllIdle => \A w \in Writers : job[w].step = "idle"
    BY IdleMade DEF AllIdle
  <2> QED
    BY <2>1 DEF RowsAreTheActiveProjects, FeedInv, ByActive, Own
<1>2. ASSUME NEW p \in Pages, Settled(p), NEW t \in Tags
      PROVE  page[p].view[t] = Values[t] \/ t \in page[p].behind \cup page[p].ignored
  <2>1. AllIdle /\ broadcasts = <<>> /\ page[p].conn = "open" /\ page[p].inbox = <<>>
    BY <1>2 DEF Settled
  <2>2. Announced(t) /\ ~Mentions(page[p].inbox, t)
    BY <2>1, NothingTells, IdleMade DEF AllIdle, Announced, Told, Owes
  <2> QED
    BY <2>1, <2>2 DEF FeedInv, TellInv, ViewTells, ViewTold
<1> QED
  BY <1>1, <1>2 DEF LiveTableAgrees, FeedCatchesUp

\* With any number of requests, pages, projects and tags: between requests the rows are the
\* active project's, unless one went astray, and a page that nothing is on its way to shows
\* every row, unless an overtaken message or answer brought it or the page ignored its news.
THEOREM TableAgrees == FeedSpec => []LiveTableAgrees
<1>1. FeedInit => FeedInv
  BY FeedInvInit
<1>2. FeedInv /\ [FeedNext]_feedVars => FeedInv'
  BY FeedInvStep
<1>3. FeedInv => LiveTableAgrees
  BY FeedInvAgrees
<1> QED
  BY <1>1, <1>2, <1>3, PTL DEF FeedSpec

-----------------------------------------------------------------------------
(***************************************************************************)
(* Connector configuration: what was filled in is filled in again as it is. *)
(***************************************************************************)
\* A default that is neither missing nor zero is kept, whatever the next default would be.
LEMMA FilledStays ==
    /\ \A value, default, other : default # None => Or(Or(value, default), other) = Or(value, default)
    /\ \A value, default : OrNumber(OrNumber(value, default), default) = OrNumber(value, default)
  BY DEF Or, OrNumber

LEMMA NoneIsNoDefault ==
    /\ "anonymous" # None /\ "fc6" # None /\ "postgresql" # None /\ "latest_row" # None
    /\ "custom_query" # None /\ "table" # None /\ "osisoft_pi" # None /\ "snapshot" # None
    /\ "sql" # None
    /\ \A n \in Int : n # None
    /\ \A nodes \in SUBSET OpcuaNodes : nodes # None
  BY FormAssumption, Zenon

LEMMA PortsAreThere == \A port \in Ports : port # 0 /\ port # None
<1>1. \A port \in Ports : port \in Int /\ port # 0
  BY DEF Ports
<1> QED BY <1>1, NoneIsNoDefault

LEMMA OpcuaStays ==
    ASSUME NEW c, IsFormOf("opcua", c), FitOpcua(OpcuaFilled(c))
    PROVE  /\ IsFormOf("opcua", OpcuaFilled(c))
           /\ OpcuaFilled(OpcuaFilled(c)) = OpcuaFilled(c)
<1> DEFINE D == FormFields["opcua"]
           ids == NodesGiven(c)
           auth == Or(c.auth, "anonymous")
           timeout == OrNumber(c.timeout, 60000)
           text == IF c.text # None THEN c.text ELSE IF c.subscription = None THEN ids ELSE {}
           sub == IF c.subscription = None THEN [nodes |-> ids] ELSE c.subscription
           user == IF auth = "username_password" THEN c.username ELSE None
<1>0. DOMAIN c = D
  BY DEF IsFormOf
<1>1. PICK r : r = OpcuaFilled(c)
  OBVIOUS
<1>2. r = Filled(c, [ids |-> ids, subscription |-> sub, text |-> text, auth |-> auth,
                     timeout |-> timeout, username |-> user])
  BY <1>1 DEF OpcuaFilled
<1>3. /\ DOMAIN r = D /\ r = [field \in D |-> r[field]]
      /\ r.ids = ids /\ r.subscription = sub /\ r.text = text /\ r.auth = auth
      /\ r.timeout = timeout /\ r.username = user
  <2> HIDE DEF ids, auth, timeout, text, sub, user
  <2> QED BY <1>0, <1>2, SMT DEF Filled, FormFields
<1>4. ids # {}
  BY <1>1, <1>3 DEF FitOpcua
<1>5. ids \in SUBSET OpcuaNodes
  BY SMT DEF IsFormOf, NodesGiven
<1>6. IsFormOf("opcua", r)
  <2>1. text \in {None} \cup SUBSET OpcuaNodes
    BY <1>5, SMT DEF IsFormOf
  <2>2. sub \in {None} \cup [nodes : SUBSET OpcuaNodes]
    BY <1>5, SMT DEF IsFormOf
  <2> QED BY <1>3, <1>5, <2>1, <2>2, SMT DEF IsFormOf
<1>7. NodesGiven(r) = r.ids
  BY <1>3, <1>4 DEF NodesGiven
<1>8. /\ Or(r.auth, "anonymous") = r.auth
      /\ OrNumber(r.timeout, 60000) = r.timeout
  BY <1>3, FilledStays, NoneIsNoDefault
<1>9. /\ (IF r.subscription = None THEN [nodes |-> r.ids] ELSE r.subscription) = r.subscription
      /\ (IF r.text # None THEN r.text ELSE IF r.subscription = None THEN r.ids ELSE {}) = r.text
      /\ (IF r.auth = "username_password" THEN r.username ELSE None) = r.username
  BY <1>3, <1>5, NoneIsNoDefault
<1>10. Filled(r, [ids |-> r.ids, subscription |-> r.subscription, text |-> r.text, auth |-> r.auth,
                  timeout |-> r.timeout, username |-> r.username]) = r
  BY ONLY <1>3, SMT DEF Filled, FormFields
<1>11. OpcuaFilled(r) = r
  BY ONLY <1>7, <1>8, <1>9, <1>10 DEF OpcuaFilled
<1> QED BY <1>1, <1>6, <1>11

\* MQTT: the URL that is written says what the fields say, unless the address is an IPv6 one.
LEMMA MqttStays ==
    ASSUME NEW c, IsFormOf("mqtt", c), FitMqtt(MqttFilled(c))
    PROVE  /\ IsFormOf("mqtt", MqttFilled(c))
           /\ MqttFilled(c).host # "ipv6" =>
                /\ MqttFilled(MqttFilled(c)) = MqttFilled(c)
                /\ MqttHost(MqttFilled(c)) = MqttFilled(c).host
                /\ MqttPort(MqttFilled(c)) = MqttFilled(c).port
<1> DEFINE D == FormFields["mqtt"]
           host == MqttHost(c)
           port == MqttPort(c)
           tls == c.tls \/ (c.url # None /\ c.url.tls)
           keep == OrNumber(c.keep, 30)
           qos == OrNumber(c.qos, 0)
           url == Written(tls, host, port)
<1>0. DOMAIN c = D
  BY DEF IsFormOf
<1>1. PICK r : r = MqttFilled(c)
  OBVIOUS
<1>2. r = Filled(c, [url |-> url, host |-> host, port |-> port, qos |-> qos, keep |-> keep, tls |-> tls])
  BY <1>1 DEF MqttFilled
<1>3. /\ DOMAIN r = D /\ r = [field \in D |-> r[field]]
      /\ r.url = url /\ r.host = host /\ r.port = port /\ r.qos = qos /\ r.keep = keep
      /\ r.tls = tls
  <2> HIDE DEF url, host, port, qos, keep, tls
  <2> QED BY <1>0, <1>2, SMT DEF Filled, FormFields
<1>4. r.url.port = r.port /\ r.url.tls = r.tls /\ (r.host # "ipv6" => r.url.host = r.host)
  BY <1>3 DEF Written
<1>5. r.port # 0 /\ r.port # None
  <2>1. r.port \in Ports
    BY <1>1 DEF FitMqtt
  <2> QED BY <2>1, PortsAreThere
<1>6. IsFormOf("mqtt", r)
  BY <1>3 DEF IsFormOf
<1>7. OrNumber(r.qos, 0) = r.qos /\ OrNumber(r.keep, 30) = r.keep
  BY <1>3, FilledStays
<1>8. r.tls \in BOOLEAN
  BY <1>3
<1>9. (r.tls \/ (r.url # None /\ r.url.tls)) = r.tls
  BY <1>4, <1>8
<1>10. ASSUME r.host # "ipv6"
       PROVE  MqttFilled(r) = r /\ MqttHost(r) = r.host /\ MqttPort(r) = r.port
  <2>1. MqttHost(r) = r.host
    BY <1>4, <1>10 DEF MqttHost
  <2>2. MqttPort(r) = r.port
    BY <1>4, <1>5 DEF MqttPort, OrNumber
  <2>3. Written(r.tls, r.host, r.port) = r.url
    BY <1>3, <1>10 DEF Written
  <2>4. Filled(r, [url |-> r.url, host |-> r.host, port |-> r.port, qos |-> r.qos,
                   keep |-> r.keep, tls |-> r.tls]) = r
    BY ONLY <1>3, SMT DEF Filled, FormFields
  <2>5. MqttFilled(r) = r
    BY ONLY <1>7, <1>9, <2>1, <2>2, <2>3, <2>4 DEF MqttFilled
  <2> QED BY <2>1, <2>2, <2>5
<1> QED BY <1>1, <1>6, <1>10

\* Modbus: every register too.
LEMMA ModbusStays ==
    ASSUME NEW c, IsFormOf("modbus_tcp", c)
    PROVE  /\ IsFormOf("modbus_tcp", ModbusFilled(c))
           /\ ModbusFilled(ModbusFilled(c)) = ModbusFilled(c)
<1> DEFINE D == FormFields["modbus_tcp"]
           registers == {RegisterFilled(m) : m \in c.mappings}
<1>0. DOMAIN c = D /\ \A m \in c.mappings : DOMAIN m = RegisterFields
  BY DEF IsFormOf
<1>1. PICK r : r = ModbusFilled(c)
  OBVIOUS
<1>2. /\ DOMAIN r = D /\ r = [field \in D |-> r[field]]
      /\ r.port = OrNumber(c.port, 502) /\ r.unit = OrNumber(c.unit, 1)
      /\ r.timeout = OrNumber(c.timeout, 5000) /\ r.retries = OrNumber(c.retries, 2)
      /\ r.window = OrNumber(c.window, 120) /\ r.rate = OrNumber(c.rate, 1000)
      /\ r.function = Or(c.function, "fc6")
      /\ r.mappings = registers
  <2>1. r = Filled(c, [port |-> OrNumber(c.port, 502), unit |-> OrNumber(c.unit, 1),
               timeout |-> OrNumber(c.timeout, 5000), retries |-> OrNumber(c.retries, 2),
               window |-> OrNumber(c.window, 120), rate |-> OrNumber(c.rate, 1000),
               function |-> Or(c.function, "fc6"),
               mappings |-> registers])
    BY <1>1 DEF ModbusFilled
  <2> HIDE DEF registers
  <2> QED BY <1>0, <2>1, SMT DEF Filled, FormFields
<1>3. ASSUME NEW m, DOMAIN m = RegisterFields
      PROVE  DOMAIN RegisterFilled(m) = RegisterFields
             /\ RegisterFilled(RegisterFilled(m)) = RegisterFilled(m)
  <2>1. PICK q : q = RegisterFilled(m)
    OBVIOUS
  <2>2. /\ DOMAIN q = RegisterFields /\ q = [field \in RegisterFields |-> q[field]]
        /\ q.address = OrNumber(m.address, 0) /\ q.quantity = OrNumber(m.quantity, 1)
    BY <1>3, <2>1, SMT DEF Filled, RegisterFilled, RegisterFields
  <2>3. OrNumber(q.address, 0) = q.address /\ OrNumber(q.quantity, 1) = q.quantity
    BY <2>2, FilledStays
  <2>4. Filled(q, [address |-> q.address, quantity |-> q.quantity]) = q
    BY ONLY <2>2, SMT DEF Filled, RegisterFields
  <2>5. RegisterFilled(q) = q
    BY ONLY <2>3, <2>4 DEF RegisterFilled
  <2> QED BY <2>1, <2>2, <2>5
<1>4. \A m \in r.mappings : DOMAIN m = RegisterFields /\ RegisterFilled(m) = m
  BY <1>0, <1>2, <1>3
<1>5. {RegisterFilled(m) : m \in r.mappings} = r.mappings
  BY ONLY <1>4
<1>6. IsFormOf("modbus_tcp", r)
  BY <1>2, <1>4 DEF IsFormOf
<1>7. /\ OrNumber(r.port, 502) = r.port /\ OrNumber(r.unit, 1) = r.unit
      /\ OrNumber(r.timeout, 5000) = r.timeout /\ OrNumber(r.retries, 2) = r.retries
      /\ OrNumber(r.window, 120) = r.window /\ OrNumber(r.rate, 1000) = r.rate
  BY <1>2, FilledStays
<1>8. Or(r.function, "fc6") = r.function
  BY <1>2, FilledStays, NoneIsNoDefault
<1>9. Filled(r, [port |-> r.port, unit |-> r.unit, timeout |-> r.timeout, retries |-> r.retries,
                 window |-> r.window, rate |-> r.rate, function |-> r.function,
                 mappings |-> r.mappings]) = r
  BY ONLY <1>2, SMT DEF Filled, FormFields
<1>10. ModbusFilled(r) = r
  BY ONLY <1>5, <1>7, <1>8, <1>9 DEF ModbusFilled
<1> QED BY <1>1, <1>6, <1>10

\* SQL: the port goes with the database, and a query has one place.
LEMMA SqlStays ==
    ASSUME NEW c, IsFormOf("sql", c)
    PROVE  /\ IsFormOf("sql", SqlFilled(c))
           /\ SqlFilled(SqlFilled(c)) = SqlFilled(c)
           /\ Filled(SqlFilled(c), [query |-> SqlFilled(c).query]) = SqlFilled(c)
<1> DEFINE D == FormFields["sql"]
           db == Or(c.db, "postgresql")
           mode == Or(c.mode, IF c.query # None THEN "custom_query" ELSE "table")
<1>0. DOMAIN c = D
  BY DEF IsFormOf
<1>1. PICK f : f = ConnectionFilled(c)
  OBVIOUS
<1>2. PICK r : r = SqlFilled(c)
  OBVIOUS
<1>3. f = Filled(c, [db |-> db, port |-> OrNumber(c.port, DefaultPort(db)), pool |-> OrNumber(c.pool, 5)])
  BY <1>1 DEF ConnectionFilled
<1>4. r = Filled(f, [mode |-> mode, refresh |-> Or(c.refresh, "latest_row"),
                     custom |-> Or(c.custom, c.query), query |-> None])
  BY <1>1, <1>2 DEF SqlFilled
<1>5. /\ DOMAIN r = D /\ r = [field \in D |-> r[field]]
      /\ r.db = db /\ r.port = OrNumber(c.port, DefaultPort(db))
      /\ r.pool = OrNumber(c.pool, 5) /\ r.refresh = Or(c.refresh, "latest_row")
      /\ r.mode = mode /\ r.query = None
  <2> HIDE DEF db, mode
  <2> QED BY <1>0, <1>3, <1>4, SMT DEF Filled, FormFields
<1>6. /\ Or(r.db, "postgresql") = r.db /\ OrNumber(r.port, DefaultPort(r.db)) = r.port
      /\ OrNumber(r.pool, 5) = r.pool /\ Or(r.refresh, "latest_row") = r.refresh
  BY <1>5, FilledStays, NoneIsNoDefault
<1>7. Or(r.mode, IF r.query # None THEN "custom_query" ELSE "table") = r.mode
  <2>1. mode # None
    BY NoneIsNoDefault DEF Or
  <2> QED BY <1>5, <2>1 DEF Or
<1>8. Or(r.custom, r.query) = r.custom
  BY <1>5 DEF Or
<1>9. /\ Filled(r, [db |-> r.db, port |-> r.port, pool |-> r.pool]) = r
      /\ Filled(r, [mode |-> r.mode, refresh |-> r.refresh, custom |-> r.custom, query |-> None]) = r
      /\ Filled(r, [query |-> r.query]) = r
  BY ONLY <1>5, SMT DEF Filled, FormFields
<1>10. ConnectionFilled(r) = r
  BY ONLY <1>6, <1>9 DEF ConnectionFilled
<1>11. SqlFilled(r) = r
  BY ONLY <1>6, <1>7, <1>8, <1>9, <1>10 DEF SqlFilled
<1> QED BY <1>2, <1>5, <1>9, <1>11 DEF IsFormOf

\* Historians: the fields of the makes and modes that are not used are cleared once.
LEMMA HistoryStays ==
    ASSUME NEW c, DOMAIN c = FormFields["historian"]
    PROVE  /\ DOMAIN HistoryFilled(c) = FormFields["historian"]
           /\ \A r : /\ r = [field \in FormFields["historian"] |-> r[field]]
                     /\ \A field \in {"subtype", "retrieval", "range", "points", "auth"} :
                            r[field] = HistoryFilled(c)[field]
                     => HistoryFilled(r) = r
<1> DEFINE D == FormFields["historian"]
<1>1. PICK f : f = HistoryFilled(c)
  OBVIOUS
<1>2. /\ DOMAIN f = D /\ f.subtype = Or(c.subtype, "osisoft_pi")
      /\ f.retrieval = Or(c.retrieval, "snapshot") /\ f.range = OrNumber(c.range, 1)
      /\ f.points = OrNumber(c.points, 500) /\ f.auth = Or(c.auth, "anonymous")
  BY <1>1, SMT DEF HistoryFilled, Filled, FormFields
<1>3. ASSUME NEW r, r = [field \in D |-> r[field]],
             \A field \in {"subtype", "retrieval", "range", "points", "auth"} : r[field] = f[field]
      PROVE  HistoryFilled(r) = r
  <2>1. /\ Or(r.subtype, "osisoft_pi") = r.subtype /\ Or(r.retrieval, "snapshot") = r.retrieval
        /\ Or(r.auth, "anonymous") = r.auth
        /\ OrNumber(r.range, 1) = r.range /\ OrNumber(r.points, 500) = r.points
    <3>1. /\ r.subtype = f.subtype /\ r.retrieval = f.retrieval /\ r.range = f.range
          /\ r.points = f.points /\ r.auth = f.auth
      BY ONLY <1>3
    <3> QED BY <3>1, <1>2, FilledStays, NoneIsNoDefault
  <2>2. Filled(r, [subtype |-> r.subtype, retrieval |-> r.retrieval, range |-> r.range,
                   points |-> r.points, auth |-> r.auth]) = r
    BY ONLY <1>3, SMT DEF Filled, FormFields
  <2> QED BY ONLY <2>1, <2>2 DEF HistoryFilled
<1> QED BY <1>1, <1>2, <1>3

LEMMA HistorianStays ==
    ASSUME NEW c, IsFormOf("historian", c)
    PROVE  /\ IsFormOf("historian", HistorianFilled(c))
           /\ HistorianFilled(HistorianFilled(c)) = HistorianFilled(c)
<1> DEFINE D == FormFields["historian"]
           Kept == {"subtype", "retrieval", "range", "points", "auth"}
<1>0. DOMAIN c = D
  BY DEF IsFormOf
<1>1. PICK f : f = HistoryFilled(c)
  OBVIOUS
<1>2. PICK r : r = HistorianFilled(c)
  OBVIOUS
<1>3. DOMAIN f = D
  BY <1>0, <1>1, HistoryStays
<1>4. ASSUME r = [field \in D |-> r[field]], \A field \in Kept : r[field] = f[field]
      PROVE  HistoryFilled(r) = r /\ IsFormOf("historian", r)
  <2>1. HistoryFilled(r) = r
    BY <1>0, <1>1, <1>4, HistoryStays
  <2>2. DOMAIN r = D
    BY ONLY <1>4
  <2> QED BY <2>1, <2>2 DEF IsFormOf
<1>5. CASE f.subtype = "osisoft_pi"
  <2>1. r = PiFilled(f)
    BY <1>1, <1>2, <1>5 DEF HistorianFilled
  <2>2. /\ r = [field \in D |-> r[field]] /\ \A field \in Kept : r[field] = f[field]
        /\ r.mode = None /\ r.db = None /\ r.port = None /\ r.query = None
        /\ r.url = None /\ r.timeout = None /\ r.fields = FALSE
    BY <1>3, <2>1, SMT DEF PiFilled, Filled, FormFields
  <2>3. PiFilled(r) = r
    <3>1. Filled(r, [mode |-> r.mode, db |-> r.db, port |-> r.port, query |-> r.query,
                     url |-> r.url, timeout |-> r.timeout, fields |-> r.fields]) = r
      BY ONLY <2>2, SMT DEF Filled, FormFields
    <3> QED BY <2>2, <3>1 DEF PiFilled
  <2>4. HistorianFilled(r) = r
    BY <1>4, <1>5, <2>2, <2>3 DEF HistorianFilled
  <2> QED BY <1>2, <1>4, <2>2, <2>4
<1>6. CASE f.subtype # "osisoft_pi" /\ f.mode \in {None, "sql"}
  <2>1. r = SqlHistorianFilled(f)
    BY <1>1, <1>2, <1>6 DEF HistorianFilled
  <2>2. /\ r = [field \in D |-> r[field]] /\ \A field \in Kept : r[field] = f[field]
        /\ r.mode = "sql" /\ r.server = FALSE /\ r.mappings = {} /\ r.url = None /\ r.timeout = None
        /\ r.db = Or(f.db, "postgresql") /\ r.port = OrNumber(f.port, DefaultPort(r.db))
    BY <1>3, <2>1, SMT DEF SqlHistorianFilled, Filled, FormFields
  <2>3. SqlHistorianFilled(r) = r
    <3>1. Filled(r, [mode |-> r.mode, server |-> r.server, mappings |-> r.mappings, url |-> r.url,
                     timeout |-> r.timeout, db |-> r.db, port |-> r.port]) = r
      <4>1. r = [field \in D |-> r[field]]
        BY <2>2
      <4> QED BY ONLY <4>1, SMT DEF Filled, FormFields
    <3>2. Or(r.db, "postgresql") = r.db /\ OrNumber(r.port, DefaultPort(r.db)) = r.port
      BY <2>2, FilledStays, NoneIsNoDefault
    <3>3. r.mode = "sql" /\ r.server = FALSE /\ r.mappings = {} /\ r.url = None /\ r.timeout = None
      BY <2>2
    <3> QED BY ONLY <3>1, <3>2, <3>3 DEF SqlHistorianFilled
  <2>4. HistorianFilled(r) = r
    BY <1>4, <1>6, <2>2, <2>3 DEF HistorianFilled
  <2> QED BY <1>2, <1>4, <2>2, <2>4
<1>7. CASE f.subtype # "osisoft_pi" /\ f.mode \notin {None, "sql"}
  <2>1. r = RestHistorianFilled(f)
    BY <1>1, <1>2, <1>7 DEF HistorianFilled
  <2>2. /\ r = [field \in D |-> r[field]] /\ \A field \in Kept : r[field] = f[field]
        /\ r.mode = f.mode /\ r.server = FALSE /\ r.mappings = {}
        /\ r.timeout = OrNumber(f.timeout, 15000) /\ r.db = None /\ r.port = None /\ r.query = None
    BY <1>3, <2>1, SMT DEF RestHistorianFilled, Filled, FormFields
  <2>3. RestHistorianFilled(r) = r
    <3>1. Filled(r, [server |-> r.server, mappings |-> r.mappings,
                     timeout |-> r.timeout, db |-> r.db, port |-> r.port, query |-> r.query]) = r
      <4>1. r = [field \in D |-> r[field]]
        BY <2>2
      <4> QED BY ONLY <4>1, SMT DEF Filled, FormFields
    <3>2. OrNumber(r.timeout, 15000) = r.timeout
      BY <2>2, FilledStays
    <3>3. r.server = FALSE /\ r.mappings = {} /\ r.db = None /\ r.port = None /\ r.query = None
      BY <2>2
    <3>4. PICK timeout : timeout = OrNumber(r.timeout, 15000)
      OBVIOUS
    <3>5. RestHistorianFilled(r) =
            Filled(r, [server |-> FALSE, mappings |-> {}, timeout |-> timeout,
                       db |-> None, port |-> None, query |-> None])
      BY ONLY <3>4 DEF RestHistorianFilled
    <3>6. timeout = r.timeout
      BY <3>2, <3>4
    <3> QED BY ONLY <3>1, <3>3, <3>5, <3>6
  <2>4. HistorianFilled(r) = r
    BY <1>4, <1>7, <2>2, <2>3 DEF HistorianFilled
  <2> QED BY <1>2, <1>4, <2>2, <2>4
<1> QED BY <1>5, <1>6, <1>7

\* Whatever the type, what was validated once is validated again, unchanged.
LEMMA NormalizedStays ==
    ASSUME NEW type \in DOMAIN FormFields, NEW c, IsFormOf(type, c), Normalized(type, c) # None
    PROVE  /\ IsFormOf(type, Normalized(type, c))
           /\ ~(type = "mqtt" /\ Normalized(type, c).host = "ipv6")
                => Normalized(type, Normalized(type, c)) = Normalized(type, c)
<1>1. type \in {"opcua", "mqtt", "modbus_tcp", "sql", "historian"}
  BY DEF FormFields
<1>2. CASE type = "opcua"
  <2>1. OpcuaConfig(c) = OpcuaFilled(c) /\ FitOpcua(OpcuaFilled(c))
    BY <1>2 DEF Normalized, OpcuaConfig, Accept
  <2>2. OpcuaConfig(OpcuaFilled(c)) = OpcuaFilled(c)
    BY <1>2, <2>1, OpcuaStays DEF OpcuaConfig, Accept
  <2> QED BY <1>2, <2>1, <2>2, OpcuaStays DEF Normalized
<1>3. CASE type = "mqtt"
  <2>1. MqttConfig(c) = MqttFilled(c) /\ FitMqtt(MqttFilled(c))
    BY <1>3 DEF Normalized, MqttConfig, Accept
  <2>2. MqttFilled(c).host # "ipv6" => MqttConfig(MqttFilled(c)) = MqttFilled(c)
    BY <1>3, <2>1, MqttStays DEF MqttConfig, Accept
  <2> QED BY <1>3, <2>1, <2>2, MqttStays DEF Normalized
<1>4. CASE type = "modbus_tcp"
  <2>1. ModbusConfig(c) = ModbusFilled(c) /\ FitModbus(ModbusFilled(c))
    BY <1>4 DEF Normalized, ModbusConfig, Accept
  <2>2. ModbusConfig(ModbusFilled(c)) = ModbusFilled(c)
    BY <1>4, <2>1, ModbusStays DEF ModbusConfig, Accept
  <2> QED BY <1>4, <2>1, <2>2, ModbusStays DEF Normalized
<1>5. CASE type = "sql"
  <2>1. SqlConfig(c) = SqlFilled(c) /\ FitSql(SqlFilled(c))
    BY <1>5 DEF Normalized, SqlConfig, Accept
  <2>2. SqlConfig(SqlFilled(c)) = SqlFilled(c)
    BY <1>5, <2>1, SqlStays DEF SqlConfig, Accept
  <2> QED BY <1>5, <2>1, <2>2, SqlStays DEF Normalized
<1>6. CASE type = "historian"
  <2>1. HistorianConfig(c) = HistorianFilled(c) /\ FitHistorian(HistorianFilled(c))
    BY <1>6 DEF Normalized, HistorianConfig, Accept
  <2>2. HistorianConfig(HistorianFilled(c)) = HistorianFilled(c)
    BY <1>6, <2>1, HistorianStays DEF HistorianConfig, Accept
  <2> QED BY <1>6, <2>1, <2>2, HistorianStays DEF Normalized
<1> QED BY <1>1, <1>2, <1>3, <1>4, <1>5, <1>6

\* What the services make of a row that a save has made.
LEMMA ServicesRead ==
    ASSUME NEW type \in DOMAIN FormFields, NEW c, IsFormOf(type, c),
           NEW r, r = Normalized(type, c), r # None
    PROVE  /\ type = "modbus_tcp" => ModbusService(r) = r
           /\ type = "sql" => SqlService(r) = r
           /\ type = "mqtt" /\ r.host # "ipv6" => MqttHost(r) = r.host /\ MqttPort(r) = r.port
<1>1. ASSUME type = "modbus_tcp" PROVE ModbusService(r) = r
  <2>1. r = ModbusFilled(c) /\ FitModbus(r)
    BY <1>1 DEF Normalized, ModbusConfig, Accept
  <2>2. ModbusFilled(r) = r
    BY <1>1, <2>1, ModbusStays
  <2>3. r.host # None /\ r.mappings # {}
    BY <2>1 DEF FitModbus
  <2> QED BY <2>2, <2>3 DEF ModbusService, Accept
<1>2. ASSUME type = "sql" PROVE SqlService(r) = r
  <2>1. r = SqlFilled(c) /\ FitSql(r)
    BY <1>2 DEF Normalized, SqlConfig, Accept
  <2>2. SqlFilled(r) = r /\ Filled(r, [query |-> r.query]) = r
    BY <1>2, <2>1, SqlStays
  <2>3. FitConnection(r) /\ FitQuery(r)
    BY <2>1 DEF FitSql
  <2> QED BY <2>2, <2>3 DEF SqlService, Accept
<1>3. ASSUME type = "mqtt", r.host # "ipv6"
      PROVE  MqttHost(r) = r.host /\ MqttPort(r) = r.port
  <2>1. r = MqttFilled(c) /\ FitMqtt(MqttFilled(c))
    BY <1>3 DEF Normalized, MqttConfig, Accept
  <2> QED BY <1>3, <2>1, MqttStays
<1> QED BY <1>1, <1>2, <1>3

-----------------------------------------------------------------------------
\* A client's form has the fields of a type it may have started with, and the row is what a
\* save has made of one.
FormInv ==
    /\ DOMAIN form = {"type", "config"}
    /\ \E f \in FirstForms : form.type = f.type
    /\ IsFormOf(form.type, form.config)
    /\ saved # None => \E type \in DOMAIN FormFields : \E config :
          /\ saved.type = type /\ saved.config = Normalized(type, config)
          /\ IsFormOf(type, config) /\ Normalized(type, config) # None

\* Editing a field leaves a form of the type: what a field may hold does not depend on the others.
LEMMA EditedForm ==
    ASSUME NEW type, NEW c, NEW d, NEW field, NEW value,
           IsFormOf(type, c), IsFormOf(type, d), IsFormOf(type, [d EXCEPT ![field] = value]),
           field \in DOMAIN d
    PROVE  IsFormOf(type, [c EXCEPT ![field] = value])
<1>1. PICK e : e = [c EXCEPT ![field] = value]
  OBVIOUS
<1>2. PICK g : g = [d EXCEPT ![field] = value]
  OBVIOUS
<1>3. DOMAIN c = FormFields[type] /\ DOMAIN d = FormFields[type] /\ IsFormOf(type, g)
  BY <1>2 DEF IsFormOf
<1>4. /\ DOMAIN e = FormFields[type]
      /\ \A other \in FormFields[type] : e[other] = g[other] \/ e[other] = c[other]
  BY ONLY <1>1, <1>2, <1>3, field \in DOMAIN d
<1>5. ASSUME type = "opcua"
      PROVE  /\ e.ids \in SUBSET OpcuaNodes /\ e.text \in {None} \cup SUBSET OpcuaNodes
             /\ e.subscription \in {None} \cup [nodes : SUBSET OpcuaNodes]
  <2>1. "ids" \in FormFields[type] /\ "text" \in FormFields[type] /\ "subscription" \in FormFields[type]
    BY <1>5 DEF FormFields
  <2>2. /\ e.ids = g.ids \/ e.ids = c.ids
        /\ e.text = g.text \/ e.text = c.text
        /\ e.subscription = g.subscription \/ e.subscription = c.subscription
    BY ONLY <1>4, <2>1
  <2> QED BY <1>3, <1>5, <2>2 DEF IsFormOf
<1>6. ASSUME type = "modbus_tcp"
      PROVE  \A m \in e.mappings : DOMAIN m = RegisterFields
  <2>1. "mappings" \in FormFields[type]
    BY <1>6 DEF FormFields
  <2>2. e.mappings = g.mappings \/ e.mappings = c.mappings
    BY ONLY <1>4, <2>1
  <2> QED BY <1>3, <1>6, <2>2 DEF IsFormOf
<1> QED BY <1>1, <1>4, <1>5, <1>6 DEF IsFormOf

LEMMA FormInitInv == FormInit => FormInv
<1> SUFFICES ASSUME FormInit PROVE FormInv
  OBVIOUS
<1>1. form \in FirstForms /\ saved = None
  BY DEF FormInit
<1>2. DOMAIN form = {"type", "config"} /\ IsFormOf(form.type, form.config)
  BY <1>1, FormAssumption
<1> QED BY <1>1, <1>2 DEF FormInv

LEMMA EditKeeps ==
    ASSUME FormInv, NEW field \in DOMAIN FormValues[form.type],
           NEW value \in FormValues[form.type][field], Edit(field, value)
    PROVE  FormInv'
<1>1. PICK f \in FirstForms : form.type = f.type
  BY DEF FormInv
<1>2. /\ IsFormOf(f.type, f.config) /\ field \in DOMAIN f.config
      /\ IsFormOf(f.type, [f.config EXCEPT ![field] = value])
  BY <1>1, FormAssumption
<1>3. PICK c : c = form.config
  OBVIOUS
<1>4. PICK e : e = [c EXCEPT ![field] = value]
  OBVIOUS
<1>5. form' = [form EXCEPT !.config = e]
  BY <1>3, <1>4 DEF Edit
<1>6. DOMAIN form' = {"type", "config"} /\ form'.type = form.type /\ form'.config = e
  BY <1>5 DEF FormInv
<1>7. IsFormOf(form.type, e)
  BY <1>1, <1>2, <1>3, <1>4, EditedForm DEF FormInv
<1>8. saved' = saved
  BY DEF Edit
<1> QED BY <1>6, <1>7, <1>8 DEF FormInv

LEMMA SaveKeeps ==
    ASSUME FormInv, SaveForm
    PROVE  FormInv'
<1>1. form.type \in DOMAIN FormFields
  BY FormAssumption DEF FormInv
<1>2. PICK c : c = Normalized(form.type, form.config)
  OBVIOUS
<1>3. c # None /\ form' = [form EXCEPT !.config = c] /\ saved' = form'
  BY <1>2 DEF SaveForm
<1>4. DOMAIN form' = {"type", "config"} /\ form'.type = form.type /\ form'.config = c
  BY <1>3 DEF FormInv
<1>5. IsFormOf(form.type, form.config)
  BY DEF FormInv
<1>6. IsFormOf(form.type, c)
  BY <1>1, <1>2, <1>3, <1>5, NormalizedStays
<1> QED BY <1>1, <1>2, <1>3, <1>4, <1>5, <1>6 DEF FormInv

LEMMA FormInvKept == FormInv => FormsAreKept
<1> SUFFICES ASSUME FormInv, saved # None PROVE FormsAreKept
  BY DEF FormsAreKept, SavingIsStable, ServicesReadTheRow
<1>0. PICK type \in DOMAIN FormFields : \E config :
        /\ saved.type = type /\ saved.config = Normalized(type, config)
        /\ IsFormOf(type, config) /\ Normalized(type, config) # None
  BY DEF FormInv
<1>1. PICK config :
        /\ saved.type = type /\ saved.config = Normalized(type, config)
        /\ IsFormOf(type, config) /\ Normalized(type, config) # None
  BY <1>0
<1>2. SavingIsStable
  BY <1>1, NormalizedStays DEF SavingIsStable
<1>3. ServicesReadTheRow
  BY <1>1, ServicesRead DEF ServicesReadTheRow
<1> QED BY <1>2, <1>3 DEF FormsAreKept

\* Of every type and whatever a user has entered, saving what was saved changes nothing,
\* the services of Modbus and SQL accept the row and read what it says, and a SQL pool is
\* closed under the name it was opened with; only MQTT brokers with IPv6 addresses are
\* excepted.
THEOREM FormsStay == FormSpec => []FormsAreKept
<1>1. FormInv /\ [FormNext]_formVars => FormInv'
  <2> SUFFICES ASSUME FormInv, [FormNext]_formVars PROVE FormInv'
    OBVIOUS
  <2>1. ASSUME NEW field \in DOMAIN FormValues[form.type],
               NEW value \in FormValues[form.type][field], Edit(field, value)
        PROVE  FormInv'
    BY <2>1, EditKeeps
  <2>2. CASE SaveForm
    BY <2>2, SaveKeeps
  <2>3. CASE UNCHANGED formVars
    BY <2>3 DEF FormInv, formVars
  <2> QED BY <2>1, <2>2, <2>3 DEF FormNext
<1>2. FormInv => FormsAreKept
  BY FormInvKept
<1> QED BY FormInitInv, <1>1, <1>2, PTL DEF FormSpec

-----------------------------------------------------------------------------
(***************************************************************************)
(* Readings of SQL connectors: the row a tag's live value is of.           *)
(***************************************************************************)
TableOK == table \in Seq(RowTags)

\* A set of positions that has one has a last one.
LEMMA HasLast ==
    ASSUME NEW n \in Nat, NEW S \in SUBSET (1..n), S # {}
    PROVE  \E x \in S : \A y \in S : y <= x
<1> DEFINE T == {n - x : x \in S}
<1>1. T \in SUBSET Nat /\ T # {}
  <2>1. \A x \in S : n - x \in Nat
    OBVIOUS
  <2> QED BY <2>1
<1> HIDE DEF T
<1>2. PICK t \in T : \A u \in T : t <= u
  BY <1>1, SmallestThere
<1>3. PICK x \in S : t = n - x
  BY DEF T
<1>4. ASSUME NEW y \in S PROVE y <= x
  <2>1. n - x <= n - y
    BY <1>2, <1>3 DEF T
  <2> QED BY <2>1
<1> QED BY <1>4

LEMMA OrderTold == TableOK => LiveTellsTheOrder
<1> SUFFICES ASSUME TableOK, NEW tag \in UNION RowTags
    PROVE  LET of == {r \in DOMAIN table : tag \in table[r]}
               oldest == Live(Answer(FALSE), tag)
           IN
           /\ Live(Answer(TRUE), tag) = (IF Len(table) \in of THEN Len(table) ELSE None)
           /\ of # {} => oldest \in of /\ \A r \in of : oldest <= r
  BY DEF LiveTellsTheOrder
<1> DEFINE of == {r \in DOMAIN table : tag \in table[r]}
           n == Len(table)
<1>1. n \in Nat /\ DOMAIN table = 1..n
  BY DEF TableOK
<1>2. Live(Answer(TRUE), tag) = (IF n \in of THEN n ELSE None)
  <2>1. CASE n = 0
    <3>1. Answer(TRUE) = [i \in 1..0 |-> n + 1 - i]
      BY <2>1 DEF Answer
    <3>2. DOMAIN Answer(TRUE) = {}
      <4>1. DOMAIN Answer(TRUE) = 1..0
        BY <3>1, Zenon
      <4>2. 1..0 = {}
        OBVIOUS
      <4> QED BY ONLY <4>1, <4>2
    <3>3. n \notin of
      BY <1>1, <2>1
    <3> QED BY <3>2, <3>3 DEF Live
  <2>2. CASE n > 0
    <3>1. Answer(TRUE) = <<n>>
      BY <2>2 DEF Answer
    <3>2. DOMAIN Answer(TRUE) = {1} /\ Answer(TRUE)[1] = n
      <4>1. <<n>> \in Seq({n}) /\ Len(<<n>>) = 1 /\ <<n>>[1] = n
        OBVIOUS
      <4>2. DOMAIN <<n>> = 1..1
        BY <4>1, LenProperties
      <4>3. 1..1 = {1}
        OBVIOUS
      <4> QED BY <3>1, <4>1, <4>2, <4>3
    <3>3. n \in of <=> tag \in table[n]
      BY <1>1, <2>2
    <3> DEFINE S == {i \in DOMAIN Answer(TRUE) : tag \in table[Answer(TRUE)[i]]}
    <3>4. S = IF n \in of THEN {1} ELSE {}
      BY <3>2, <3>3
    <3>5. Live(Answer(TRUE), tag) = IF S = {} THEN None
                                    ELSE Answer(TRUE)[CHOOSE i \in S : \A j \in S : j <= i]
      BY DEF Live
    <3> HIDE DEF S, of, n
    <3>6. ASSUME n \in of PROVE (CHOOSE i \in S : \A j \in S : j <= i) = 1
      <4>1. S = {1}
        BY <3>4, <3>6
      <4> QED BY ONLY <4>1
    <3>7. CASE n \in of
      BY <3>2, <3>4, <3>5, <3>6, <3>7
    <3>8. CASE n \notin of
      BY <3>4, <3>5, <3>8
    <3> QED BY <3>7, <3>8
  <2>3. n = 0 \/ n > 0
    BY <1>1
  <2> QED BY <2>1, <2>2, <2>3
<1>3. ASSUME of # {}
      PROVE  Live(Answer(FALSE), tag) \in of /\ \A r \in of : Live(Answer(FALSE), tag) <= r
  <2> DEFINE answer == Answer(FALSE)
             S == {i \in DOMAIN answer : tag \in table[answer[i]]}
  <2>1. answer = [i \in 1..n |-> n + 1 - i]
    BY DEF Answer
  <2>2. DOMAIN answer = 1..n /\ \A i \in 1..n : answer[i] = n + 1 - i /\ answer[i] \in 1..n
    <3>1. n \in Nat
      BY <1>1
    <3> HIDE DEF answer, n
    <3> QED BY ONLY <2>1, <3>1
  <2>3. \A r \in of : n + 1 - r \in S /\ n + 1 - r \in 1..n /\ answer[n + 1 - r] = r
    <3> SUFFICES ASSUME NEW r \in of PROVE n + 1 - r \in S /\ n + 1 - r \in 1..n /\ answer[n + 1 - r] = r
      OBVIOUS
    <3>1. r \in 1..n /\ tag \in table[r] /\ n + 1 - r \in 1..n
      BY <1>1
    <3>2. answer[n + 1 - r] = r
      <4>1. n + 1 - (n + 1 - r) = r
        BY <1>1, <3>1
      <4> QED BY <2>2, <3>1, <4>1
    <3> QED BY <2>2, <3>1, <3>2
  <2>4. Live(answer, tag) = IF S = {} THEN None ELSE answer[CHOOSE i \in S : \A j \in S : j <= i]
    BY DEF Live
  <2>5. S \in SUBSET (1..n) /\ \A i \in S : answer[i] \in of
    BY <1>1, <2>2
  <2> HIDE DEF S, of, n, answer
  <2>6. S # {}
    BY <1>3, <2>3
  <2>7. \E x \in S : \A y \in S : y <= x
    BY <1>1, <2>5, <2>6, HasLast
  <2>8. PICK i \in S : i = (CHOOSE x \in S : \A y \in S : y <= x) /\ \A y \in S : y <= i
    BY <2>7
  <2>9. Live(answer, tag) = answer[i]
    BY <2>4, <2>6, <2>8
  <2>10. ASSUME NEW r \in of PROVE answer[i] <= r
    <3>1. n + 1 - r <= i /\ n + 1 - r \in 1..n /\ i \in 1..n
      BY <2>3, <2>5, <2>8
    <3>2. answer[i] = n + 1 - i
      BY <2>2, <3>1
    <3>3. r \in Int /\ n \in Int /\ i \in Int
      BY <1>1, <3>1 DEF of
    <3> QED BY ONLY <3>1, <3>2, <3>3
  <2> QED BY <2>5, <2>8, <2>9, <2>10 DEF answer
<1> QED BY <1>2, <1>3

-----------------------------------------------------------------------------
(***************************************************************************)
(* Readings of Modbus connectors: the order of the mappings of a type.     *)
(***************************************************************************)
MappingsOK == mappings \in Seq(Registers)

Beneath(S, B, i) == {j \in S : <<j, i>> \in B}
StrictOrder(S, B) ==
    /\ \A i \in S : <<i, i>> \notin B
    /\ \A i, j \in S : i # j => <<i, j>> \in B \/ <<j, i>> \in B
    /\ \A i, j, k \in S : <<i, j>> \in B /\ <<j, k>> \in B => <<i, k>> \in B

\* Whoever is before another has fewer beneath it.
LEMMA FewerBeneath ==
    ASSUME NEW S, NEW B, IsFiniteSet(S), StrictOrder(S, B), NEW i \in S, NEW j \in S,
           <<i, j>> \in B
    PROVE  Cardinality(Beneath(S, B, i)) < Cardinality(Beneath(S, B, j))
<1>1. IsFiniteSet(Beneath(S, B, i)) /\ IsFiniteSet(Beneath(S, B, j))
  <2>1. Beneath(S, B, i) \subseteq S /\ Beneath(S, B, j) \subseteq S
    BY DEF Beneath
  <2> QED BY <2>1, FS_Subset
<1>2. i \notin Beneath(S, B, i) /\ i \in Beneath(S, B, j)
  BY DEF Beneath, StrictOrder
<1>3. Beneath(S, B, i) \subseteq Beneath(S, B, j)
  BY DEF Beneath, StrictOrder
<1>4. /\ Cardinality(Beneath(S, B, i)) <= Cardinality(Beneath(S, B, j))
      /\ Cardinality(Beneath(S, B, i)) = Cardinality(Beneath(S, B, j))
            => Beneath(S, B, i) = Beneath(S, B, j)
  BY <1>1, <1>3, FS_Subset
<1>5. Cardinality(Beneath(S, B, i)) \in Nat /\ Cardinality(Beneath(S, B, j)) \in Nat
  BY <1>1, FS_CardinalityType
<1> QED BY <1>2, <1>4, <1>5

\* In a strict order, every number below the size is how many somebody has beneath it.
LEMMA Ranked ==
    ASSUME NEW S, NEW B, IsFiniteSet(S), StrictOrder(S, B)
    PROVE  /\ Cardinality(S) \in Nat
           /\ \A k \in 1..Cardinality(S) : \E i \in S : Cardinality(Beneath(S, B, i)) = k - 1
           /\ \A i, j \in S : Cardinality(Beneath(S, B, i)) < Cardinality(Beneath(S, B, j))
                  => <<i, j>> \in B
<1> DEFINE c == Cardinality(S)
           rank == [i \in S |-> Cardinality(Beneath(S, B, i)) + 1]
<1>1. c \in Nat
  BY FS_CardinalityType
<1>2. ASSUME NEW i \in S PROVE rank[i] \in 1..c /\ Cardinality(Beneath(S, B, i)) \in Nat
  <2>1. Beneath(S, B, i) \subseteq S /\ i \notin Beneath(S, B, i)
    BY DEF Beneath, StrictOrder
  <2>2. Cardinality(Beneath(S, B, i)) <= c /\ Beneath(S, B, i) # S /\ IsFiniteSet(Beneath(S, B, i))
        /\ (Cardinality(Beneath(S, B, i)) = c => Beneath(S, B, i) = S)
    BY <2>1, FS_Subset
  <2>3. Cardinality(Beneath(S, B, i)) \in Nat
    BY <2>2, FS_CardinalityType
  <2>4. rank[i] = Cardinality(Beneath(S, B, i)) + 1
    OBVIOUS
  <2> HIDE DEF c, rank
  <2> QED BY <1>1, <2>2, <2>3, <2>4
<1>3. ASSUME NEW i \in S, NEW j \in S, Cardinality(Beneath(S, B, i)) < Cardinality(Beneath(S, B, j))
      PROVE  <<i, j>> \in B
  <2>1. i # j
    BY <1>2, <1>3
  <2>2. CASE <<j, i>> \in B
    <3>1. Cardinality(Beneath(S, B, j)) < Cardinality(Beneath(S, B, i))
      BY <2>2, FewerBeneath
    <3> QED BY <1>2, <1>3, <3>1
  <2> QED BY <2>1, <2>2 DEF StrictOrder
<1>4. ASSUME NEW i \in S, NEW j \in S, i # j PROVE rank[i] # rank[j]
  <2>1. CASE <<i, j>> \in B
    <3>1. Cardinality(Beneath(S, B, i)) < Cardinality(Beneath(S, B, j))
      BY <2>1, FewerBeneath
    <3> QED BY <1>2, <3>1
  <2>2. CASE <<j, i>> \in B
    <3>1. Cardinality(Beneath(S, B, j)) < Cardinality(Beneath(S, B, i))
      BY <2>2, FewerBeneath
    <3> QED BY <1>2, <3>1
  <2> QED BY <1>4, <2>1, <2>2 DEF StrictOrder
<1>5. rank \in Injection(S, 1..c)
  <2>1. rank \in [S -> 1..c]
    BY <1>2
  <2> HIDE DEF rank, c
  <2> QED BY <1>4, <2>1 DEF Injection, IsInjective
<1>6. IsFiniteSet(1..c) /\ Cardinality(1..c) = c
  <2>1. 1 \in Int /\ c \in Int
    BY <1>1
  <2>2. IsFiniteSet(1..c) /\ Cardinality(1..c) = IF 1 > c THEN 0 ELSE c - 1 + 1
    BY <2>1, FS_Interval
  <2> HIDE DEF c
  <2> QED BY <1>1, <2>2
<1>7. rank \in Surjection(S, 1..c)
  <2> HIDE DEF rank
  <2> QED BY <1>5, <1>6, FS_Injection
<1>8. ASSUME NEW k \in 1..c PROVE \E i \in S : Cardinality(Beneath(S, B, i)) = k - 1
  <2>1. PICK i \in S : rank[i] = k
    <3> HIDE DEF rank, c
    <3> QED BY <1>7 DEF Surjection
  <2>2. Cardinality(Beneath(S, B, i)) + 1 = k
    BY <2>1
  <2>3. Cardinality(Beneath(S, B, i)) = k - 1
    <3>1. k \in Int /\ Cardinality(Beneath(S, B, i)) \in Nat
      BY <1>1, <1>2
    <3> QED BY ONLY <2>2, <3>1
  <2> QED BY <2>3
<1> QED BY <1>1, <1>3, <1>8

\* The mappings of a type, by address.
LEMMA OrderedByAddress ==
    ASSUME MappingsOK, NEW register
    PROVE  /\ Ordered(register) \in Seq(Registers)
           /\ \A i, j \in 1..Len(Ordered(register)) : i < j =>
                  Ordered(register)[i].address <= Ordered(register)[j].address
<1> DEFINE mine == {i \in DOMAIN mappings : mappings[i].register = register}
           Before(i, j) ==
               \/ mappings[i].address < mappings[j].address
               \/ mappings[i].address = mappings[j].address /\ i < j
           B == {ij \in mine \X mine : Before(ij[1], ij[2])}
           c == Cardinality(mine)
           Ith(n) == CHOOSE i \in mine : Cardinality({j \in mine : Before(j, i)}) = n - 1
           o == Ordered(register)
<1>1. DOMAIN mappings = 1..Len(mappings) /\ Len(mappings) \in Nat
      /\ \A i \in DOMAIN mappings : mappings[i] \in Registers
  BY DEF MappingsOK
<1>2. IsFiniteSet(mine)
  <2>1. 1 \in Int /\ Len(mappings) \in Int
    BY <1>1
  <2>2. IsFiniteSet(1..Len(mappings))
    BY <2>1, FS_Interval
  <2>3. mine \subseteq 1..Len(mappings)
    BY <1>1
  <2> QED BY <2>2, <2>3, FS_Subset
<1>3. \A i \in mine : mappings[i].address \in Nat /\ i \in Nat /\ mappings[i] \in Registers
  BY <1>1, ReadingAssumption
<1>4. \A i, j \in mine : <<i, j>> \in B <=> Before(i, j)
  OBVIOUS
<1>5. StrictOrder(mine, B)
  <2> HIDE DEF mine, B
  <2> QED BY <1>3, <1>4 DEF StrictOrder
<1>6. \A i \in mine : {j \in mine : Before(j, i)} = Beneath(mine, B, i)
  <2> SUFFICES ASSUME NEW i \in mine PROVE {j \in mine : Before(j, i)} = Beneath(mine, B, i)
    OBVIOUS
  <2> HIDE DEF mine, B, Before
  <2> QED BY <1>4 DEF Beneath
<1>7. c \in Nat
  BY <1>2, FS_CardinalityType
<1>8. ASSUME NEW n \in 1..c
      PROVE  Ith(n) \in mine /\ Cardinality(Beneath(mine, B, Ith(n))) = n - 1
  <2>1. \E i \in mine : Cardinality(Beneath(mine, B, i)) = n - 1
    <3>1. \A k \in 1..Cardinality(mine) : \E i \in mine : Cardinality(Beneath(mine, B, i)) = k - 1
      <4> HIDE DEF mine, B
      <4> QED BY <1>2, <1>5, Ranked
    <3> QED BY <3>1
  <2>2. \E i \in mine : Cardinality({j \in mine : Before(j, i)}) = n - 1
    BY <1>6, <2>1
  <2>3. Ith(n) \in mine /\ Cardinality({j \in mine : Before(j, Ith(n))}) = n - 1
    <3> HIDE DEF mine, Before
    <3> QED BY <2>2
  <2> HIDE DEF Ith, mine, B, Before
  <2> QED BY <1>6, <2>3
<1>9. o = [n \in 1..c |-> mappings[Ith(n)]]
  BY DEF Ordered
<1>10. \A n \in 1..c : o[n] = mappings[Ith(n)] /\ o[n] \in Registers
  <2> HIDE DEF Ith, mine, o
  <2> QED BY <1>3, <1>8, <1>9
<1>11. o \in Seq(Registers) /\ Len(o) = c
  <2>1. o \in [1..c -> Registers]
    <3> DEFINE v(n) == mappings[Ith(n)]
    <3>1. o = [n \in 1..c |-> v(n)] /\ \A n \in 1..c : v(n) \in Registers
      BY <1>3, <1>8, <1>9
    <3> HIDE DEF v, c, o
    <3> QED BY <3>1
  <2> HIDE DEF o, c
  <2> QED BY <1>7, <2>1
<1>12. ASSUME NEW i \in 1..c, NEW j \in 1..c, i < j PROVE o[i].address <= o[j].address
  <2>1. Ith(i) \in mine /\ Ith(j) \in mine
        /\ Cardinality(Beneath(mine, B, Ith(i))) < Cardinality(Beneath(mine, B, Ith(j)))
    <3> HIDE DEF Ith, mine, B
    <3>1. i \in Int /\ j \in Int
      BY <1>7
    <3> QED BY <1>8, <1>12, <3>1
  <2>2. <<Ith(i), Ith(j)>> \in B
    <3> HIDE DEF Ith, mine, B
    <3> QED BY <1>2, <1>5, <2>1, Ranked
  <2>3. Before(Ith(i), Ith(j))
    <3> HIDE DEF Ith, mine, B, Before
    <3> QED BY <1>4, <2>1, <2>2
  <2>4. mappings[Ith(i)].address <= mappings[Ith(j)].address
    <3> HIDE DEF Ith, mine, B
    <3> QED BY <1>3, <2>1, <2>3
  <2> HIDE DEF o, Ith, c
  <2> QED BY <1>10, <2>4
<1> HIDE DEF o, c
<1> QED BY <1>11, <1>12 DEF o

-----------------------------------------------------------------------------
(***************************************************************************)
(* The windows: each holds the mappings of some stretch of registers       *)
(* without gaps.                                                           *)
(***************************************************************************)
LEMMA RegisterShape ==
    ASSUME NEW m \in Registers
    PROVE  /\ m.address \in Nat
           /\ Span(m) \in Nat /\ Span(m) > 0
           /\ End(m) \in Nat /\ End(m) = m.address + Span(m)
<1>1. m.address \in Nat /\ m.quantity \in Nat /\ m.quantity > 0 /\ m.data \in DataTypes
  BY ReadingAssumption
<1>2. Words(m) \in Nat /\ Words(m) > 0
  <2>1. CASE m.data \in {"bool", "uint16", "int16"}
    BY <2>1 DEF Words
  <2>2. CASE m.data \in {"uint32", "int32", "float32"}
    BY <2>2 DEF Words
  <2>3. CASE m.data \in {"uint64", "int64", "float64"}
    BY <2>3 DEF Words
  <2>4. CASE m.data = "string"
    BY <1>1, <2>4 DEF Words
  <2> QED BY <1>1, <2>1, <2>2, <2>3, <2>4 DEF DataTypes
<1>3. Span(m) \in Nat /\ Span(m) > 0
  BY <1>1, <1>2 DEF Span
<1> QED BY <1>1, <1>3 DEF End

\* The mappings of a window: by address, no gap before any, none but the first too far out.
Ascending(list) == \A i, j \in 1..Len(list) : i < j => list[i].address <= list[j].address
NoGap(list) == \A i \in 1..Len(list) : i > 1 => \E j \in 1..Len(list) : j < i /\ list[i].address <= End(list[j])
Bounded(list) == \A i \in 1..Len(list) : i > 1 => End(list[i]) - list[1].address <= WindowSize
Tiled(list) ==
    /\ list \in Seq(Registers) /\ Len(list) > 0
    /\ Ascending(list) /\ NoGap(list) /\ Bounded(list)

\* One of the mappings of a list ends last.
LEMMA EndsLast ==
    ASSUME NEW list \in Seq(Registers), Len(list) > 0
    PROVE  \E i \in 1..Len(list) : \A j \in 1..Len(list) : End(list[j]) <= End(list[i])
<1> DEFINE Furthest(n) == \E i \in 1..n : \A j \in 1..n : End(list[j]) <= End(list[i])
           Bad == {n \in 1..Len(list) : ~Furthest(n)}
<1>1. Len(list) \in Nat /\ \A i \in 1..Len(list) : End(list[i]) \in Nat
  BY RegisterShape
<1>2. Bad \in SUBSET Nat
  BY <1>1
<1>3. CASE Bad # {}
  <2>1. PICK n \in Bad : \A k \in Bad : n <= k
    BY <1>2, <1>3, SmallestThere
  <2>2. n \in 1..Len(list) /\ n \in Nat /\ ~Furthest(n)
    BY <1>1
  <2>3. CASE n = 1
    BY <1>1, <2>2, <2>3
  <2>4. CASE n # 1
    <3>1. n - 1 \in 1..Len(list) /\ ~(n <= n - 1)
      BY <1>1, <2>2, <2>4
    <3>2. Furthest(n - 1)
      <4> HIDE DEF Furthest
      <4> QED BY <2>1, <3>1
    <3>3. PICK i \in 1..(n - 1) : \A j \in 1..(n - 1) : End(list[j]) <= End(list[i])
      BY <3>2
    <3>4. i \in 1..Len(list) /\ i \in 1..n /\ n \in 1..n
          /\ \A j \in 1..n : j = n \/ j \in 1..(n - 1)
      BY SMTT(60), <1>1, <2>2, <3>1
    <3>5. End(list[i]) \in Nat /\ End(list[n]) \in Nat
          /\ \A j \in 1..(n - 1) : End(list[j]) \in Nat
      <4>1. \A j \in 1..(n - 1) : j \in 1..Len(list)
        BY <1>1, <2>2
      <4> QED BY ONLY <1>1, <2>2, <3>4, <4>1
    <3>6. CASE End(list[n]) <= End(list[i])
      BY <2>2, <3>3, <3>4, <3>6
    <3>7. CASE ~(End(list[n]) <= End(list[i]))
      <4>1. \A j \in 1..n : End(list[j]) <= End(list[n])
        <5> SUFFICES ASSUME NEW j \in 1..n PROVE End(list[j]) <= End(list[n])
          OBVIOUS
        <5>1. CASE j = n
          BY ONLY <3>5, <5>1
        <5>2. CASE j \in 1..(n - 1)
          <6>1. End(list[j]) <= End(list[i]) /\ End(list[j]) \in Nat
            BY ONLY <3>3, <3>5, <5>2
          <6> QED BY ONLY <3>5, <3>7, <6>1
        <5> QED BY ONLY <3>4, <5>1, <5>2, j \in 1..n
      <4> QED BY <2>2, <3>4, <4>1
    <3> QED BY <3>6, <3>7
  <2> QED BY <2>3, <2>4
<1>4. CASE Bad = {}
  <2>1. Len(list) \in 1..Len(list)
    BY <1>1
  <2>2. Furthest(Len(list))
    <3> HIDE DEF Furthest
    <3> QED BY <1>4, <2>1
  <2> QED BY <2>2
<1> QED BY <1>3, <1>4

\* What a window says of its mappings.
LEMMA WindowTold ==
    ASSUME NEW list \in Seq(Registers), Len(list) > 0
    PROVE  /\ Window(list).start = list[1].address /\ Window(list).mappings = list
           /\ Window(list).start \in Nat /\ Window(list).count \in Int
           /\ \A i \in 1..Len(list) : End(list[i]) <= Window(list).start + Window(list).count
           /\ \E i \in 1..Len(list) : End(list[i]) = Window(list).start + Window(list).count
<1> DEFINE ends == {End(list[i]) : i \in DOMAIN list}
           e == CHOOSE e \in ends : \A i \in DOMAIN list : End(list[i]) <= e
           s == list[1].address
<1>1. Len(list) \in Nat /\ DOMAIN list = 1..Len(list) /\ \A i \in 1..Len(list) : End(list[i]) \in Nat
  BY RegisterShape
<1>2. s \in Nat
  <2>1. 1 \in 1..Len(list)
    BY <1>1
  <2> QED BY <2>1, RegisterShape
<1>3. \E x \in ends : \A i \in DOMAIN list : End(list[i]) <= x
  BY <1>1, EndsLast
<1>4. e \in ends /\ \A i \in DOMAIN list : End(list[i]) <= e
  <2> HIDE DEF ends
  <2> QED BY <1>3
<1>5. Window(list) = [start |-> s, count |-> e - s, mappings |-> list]
  BY DEF Window
<1>6. PICK i \in 1..Len(list) : e = End(list[i])
  BY <1>1, <1>4
<1> HIDE DEF e, s, ends
<1>7. e \in Nat
  BY <1>1, <1>6
<1>8. Window(list).start = s /\ Window(list).count = e - s /\ Window(list).mappings = list
  BY <1>5
<1>9. s + (e - s) = e /\ e - s \in Int
  BY <1>2, <1>7
<1> QED BY <1>1, <1>2, <1>4, <1>6, <1>8, <1>9 DEF s

\* What is cut out of a reply for a mapping is what a device answers when it is asked for that
\* mapping alone.
LEMMA CutIsExact ==
    ASSUME NEW list, Tiled(list), NEW i \in 1..Len(list)
    PROVE  Decoded(list[i], Cut(list[i], Window(list))) = ReadAlone(list[i])
<1> DEFINE w == Window(list)
           m == list[i]
           S == {m.register} \X Int
           r == Reply(m.register, w)
           a == m.address - w.start + 1
           b == m.address - w.start + Span(m)
           alone == [k \in 1..Span(m) |-> <<m.register, m.address + k - 1>>]
<1>1. Len(list) \in Nat /\ m \in Registers /\ 1 \in 1..Len(list)
  BY DEF Tiled
<1>2. /\ w.start = list[1].address /\ w.start \in Nat /\ w.count \in Int
      /\ End(m) <= w.start + w.count
  BY WindowTold DEF Tiled
<1>3. m.address \in Nat /\ Span(m) \in Nat /\ End(m) = m.address + Span(m)
  BY <1>1, RegisterShape
<1>4. w.start <= m.address
  <2>1. CASE i = 1
    BY <1>2, <1>3, <2>1
  <2>2. CASE i # 1
    BY <1>1, <1>2, <2>2 DEF Tiled, Ascending
  <2> QED BY <2>1, <2>2
<1>5. a \in Int /\ b \in Int /\ a >= 1 /\ b <= w.count
  <2>1. w.start \in Int /\ m.address \in Int /\ Span(m) \in Int /\ w.count \in Int /\ w.start <= m.address
        /\ m.address + Span(m) <= w.start + w.count
    BY <1>2, <1>3, <1>4
  <2> HIDE DEF w, m
  <2> QED BY ONLY <2>1
<1>6. r = [k \in 1..w.count |-> <<m.register, w.start + k - 1>>]
  BY DEF Reply
<1>7. \A k \in a..b : k \in 1..w.count /\ r[k] = <<m.register, w.start + k - 1>> /\ r[k] \in S
  <2> SUFFICES ASSUME NEW k \in a..b
      PROVE k \in 1..w.count /\ r[k] = <<m.register, w.start + k - 1>> /\ r[k] \in S
    OBVIOUS
  <2>1. k \in 1..w.count
    <3> HIDE DEF a, b, w
    <3> QED BY <1>2, <1>5
  <2>2. r[k] = <<m.register, w.start + k - 1>>
    <3> HIDE DEF r, w, m, a, b
    <3> QED BY <1>6, <2>1
  <2>3. w.start + k - 1 \in Int
    <3> HIDE DEF w
    <3> QED BY <1>2, <2>1
  <2> HIDE DEF r, w, m, a, b
  <2> QED BY <2>1, <2>2, <2>3 DEF S
<1>8. /\ SubSeq(r, a, b) \in Seq(S)
      /\ Len(SubSeq(r, a, b)) = IF a <= b THEN b - a + 1 ELSE 0
      /\ \A k \in 1..(b - a + 1) : SubSeq(r, a, b)[k] = r[a + k - 1]
  <2> HIDE DEF a, b, r, S
  <2> QED BY <1>5, <1>7, SubSeqProperties
<1>9. b - a + 1 = Span(m)
  <2> HIDE DEF w, m
  <2> QED BY <1>2, <1>3
<1>10. Len(SubSeq(r, a, b)) = Span(m)
  <2> HIDE DEF w, m, r, a, b
  <2> QED BY <1>3, <1>5, <1>8, <1>9
<1>11. alone \in Seq(S) /\ Len(alone) = Span(m) /\ \A k \in 1..Span(m) : alone[k] = <<m.register, m.address + k - 1>>
  <2>1. \A k \in 1..Span(m) : m.address + k - 1 \in Int
    BY <1>3
  <2> HIDE DEF m
  <2> QED BY <1>3, <2>1
<1>12. \A k \in 1..Span(m) : SubSeq(r, a, b)[k] = alone[k]
  <2> SUFFICES ASSUME NEW k \in 1..Span(m) PROVE SubSeq(r, a, b)[k] = alone[k]
    OBVIOUS
  <2>1. SubSeq(r, a, b)[k] = r[a + k - 1]
    <3> HIDE DEF a, b, r, m, w
    <3> QED BY <1>8, <1>9
  <2>2. a + k - 1 \in a..b
    <3>1. a \in Int /\ b \in Int /\ k \in 1..(b - a + 1)
      <4> HIDE DEF a, b, m
      <4> QED BY <1>5, <1>9
    <3> HIDE DEF a, b
    <3> QED BY ONLY <3>1
  <2>3. r[a + k - 1] = <<m.register, w.start + (a + k - 1) - 1>>
    <3> HIDE DEF a, b, r, m, w
    <3> QED BY <1>7, <2>2
  <2>4. w.start + (a + k - 1) - 1 = m.address + k - 1
    <3>1. w.start \in Int /\ m.address \in Int /\ k \in Int
      BY <1>2, <1>3
    <3> HIDE DEF w, m
    <3> QED BY ONLY <3>1
  <2>5. alone[k] = <<m.register, m.address + k - 1>>
    BY <1>11
  <2> HIDE DEF a, b, r, m, w, alone
  <2> QED BY <2>1, <2>3, <2>4, <2>5
<1>13. SubSeq(r, a, b) = alone
  <2> HIDE DEF a, b, r, m, w, alone, S
  <2> QED BY <1>8, <1>10, <1>11, <1>12, SeqEqual
<1> QED BY <1>13 DEF Cut, ReadAlone

\* No register is asked for that no mapping names.
LEMMA NoneIdle ==
    ASSUME NEW list, Tiled(list), NEW a \in Int,
           Window(list).start <= a, a < Window(list).start + Window(list).count
    PROVE  \E i \in 1..Len(list) : list[i].address <= a /\ a < End(list[i])
<1> DEFINE T == {i \in 1..Len(list) : a < End(list[i])}
<1>1. list \in Seq(Registers) /\ Len(list) \in Nat /\ Len(list) > 0
      /\ \A i \in 1..Len(list) : list[i].address \in Nat /\ End(list[i]) \in Nat
  BY RegisterShape DEF Tiled
<1>2. Window(list).start = list[1].address
      /\ \E i \in 1..Len(list) : End(list[i]) = Window(list).start + Window(list).count
  BY <1>1, WindowTold
<1>3. T \in SUBSET Nat /\ T # {}
  BY <1>1, <1>2
<1>4. PICK i \in T : \A j \in T : i <= j
  BY <1>3, SmallestThere
<1>5. i \in 1..Len(list) /\ a < End(list[i])
  OBVIOUS
<1>6. CASE i = 1
  BY <1>2, <1>5, <1>6
<1>7. CASE i # 1
  <2>1. PICK j \in 1..Len(list) : j < i /\ list[i].address <= End(list[j])
    BY <1>1, <1>5, <1>7 DEF Tiled, NoGap
  <2>2. ~(a < End(list[j]))
    BY <1>1, <1>4, <1>5, <2>1
  <2>3. list[i].address \in Int /\ End(list[j]) \in Int
    BY <1>1, <1>5, <2>1
  <2>4. list[i].address <= a
    BY ONLY <2>1, <2>2, <2>3, a \in Int
  <2> QED BY <1>5, <2>4
<1> QED BY <1>6, <1>7

\* A window is longer than allowed only if a mapping is.
LEMMA NoneTooLong ==
    ASSUME NEW list, Tiled(list)
    PROVE  Window(list).count <= WindowSize \/ \E i \in 1..Len(list) : Span(list[i]) > WindowSize
<1>1. list \in Seq(Registers) /\ Len(list) \in Nat /\ Len(list) > 0
      /\ \A i \in 1..Len(list) : /\ list[i].address \in Nat /\ Span(list[i]) \in Nat
                                 /\ End(list[i]) = list[i].address + Span(list[i])
  BY RegisterShape DEF Tiled
<1>2. Window(list).start = list[1].address /\ Window(list).start \in Nat /\ Window(list).count \in Int
  BY <1>1, WindowTold
<1>3. PICK i \in 1..Len(list) : End(list[i]) = Window(list).start + Window(list).count
  BY <1>1, WindowTold
<1>4. Span(list[i]) \in Nat /\ list[i].address \in Nat /\ End(list[i]) = list[i].address + Span(list[i])
  BY <1>1
<1>5. WindowSize \in Nat
  BY ReadingAssumption
<1>6. CASE i = 1
  <2>1. Window(list).count = Span(list[i])
    BY <1>2, <1>3, <1>4, <1>6
  <2> QED BY <1>4, <1>5, <2>1
<1>7. CASE i # 1
  <2>1. End(list[i]) - list[1].address <= WindowSize
    BY <1>7 DEF Tiled, Bounded
  <2>2. Window(list).count <= WindowSize
    BY <1>2, <1>3, <1>4, <1>5, <2>1
  <2> QED BY <2>2
<1> QED BY <1>6, <1>7

-----------------------------------------------------------------------------
(***************************************************************************)
(* The lists of mappings that windows are made of, one mapping after the   *)
(* other: joined, they are the mappings in their order.                    *)
(***************************************************************************)
\* The recursion of FlattenSeq: f joins the first n sequences.
Joined(seqs, f, n) ==
    f = [i \in 1..n |-> IF i = 1 THEN seqs[i] ELSE f[i - 1] \o seqs[i]]

\* Any number of sequences can be joined.
LEMMA JoinedExists ==
    ASSUME NEW n \in Nat, NEW seqs PROVE \E f : Joined(seqs, f, n)
<1> DEFINE Bad == {k \in Nat : ~ \E f : Joined(seqs, f, k)}
<1> SUFFICES ASSUME Bad # {} PROVE FALSE
  OBVIOUS
<1>1. Bad \in SUBSET Nat
  OBVIOUS
<1>2. PICK k \in Bad : \A j \in Bad : k <= j
  BY <1>1, SmallestThere
<1>3. k \in Nat /\ ~ \E f : Joined(seqs, f, k)
  OBVIOUS
<1>4. CASE k = 0
  <2>1. Joined(seqs, [i \in 1..0 |-> seqs[i]], 0)
    BY DEF Joined
  <2> QED
    BY <1>3, <1>4, <2>1
<1>5. CASE k # 0
  <2>1. k - 1 \in Nat /\ k - 1 < k
    BY <1>3, <1>5
  <2>2. PICK f : Joined(seqs, f, k - 1)
    BY <2>1, <1>2, <1>3
  <2> DEFINE g == [i \in 1..k |-> IF i < k THEN f[i]
                                  ELSE IF i = 1 THEN seqs[i] ELSE f[i - 1] \o seqs[i]]
  <2>3. \A j \in 1..k : j < k => g[j] = f[j]
    OBVIOUS
  <2>4. g[k] = IF k = 1 THEN seqs[k] ELSE f[k - 1] \o seqs[k]
    BY <1>3, <1>5
  <2>5. g = [i \in 1..k |-> g[i]]
    OBVIOUS
  <2> HIDE DEF g
  <2>6. ASSUME NEW i \in 1..k PROVE g[i] = IF i = 1 THEN seqs[i] ELSE g[i - 1] \o seqs[i]
    <3>1. CASE i = 1
      <4>1. CASE i = k
        BY <3>1, <4>1, <2>4
      <4>2. CASE i # k
        <5>1. i \in 1..(k - 1) /\ i < k
          BY <4>2, <1>3
        <5>2. f[i] = seqs[i]
          BY <5>1, <2>2, <3>1 DEF Joined
        <5> QED
          BY <5>1, <5>2, <3>1, <2>3
      <4> QED
        BY <4>1, <4>2
    <3>2. CASE i # 1
      <4>1. i - 1 \in 1..k /\ i - 1 < k /\ i \in Nat
        BY <3>2, <1>3
      <4>2. g[i - 1] = f[i - 1]
        BY <4>1, <2>3
      <4>3. CASE i = k
        BY <4>2, <4>3, <3>2, <2>4
      <4>4. CASE i # k
        <5>1. i \in 1..(k - 1) /\ i < k
          BY <4>4, <1>3
        <5>2. f[i] = f[i - 1] \o seqs[i]
          BY <5>1, <2>2, <3>2 DEF Joined
        <5> QED
          BY <5>1, <5>2, <4>2, <3>2, <2>3
      <4> QED
        BY <4>3, <4>4
    <3> QED
      BY <3>1, <3>2
  <2>7. Joined(seqs, g, k)
    BY <2>6, <2>5 DEF Joined
  <2> QED
    BY <2>7, <1>3
<1> QED
  BY <1>4, <1>5

Alike(s, t, n) == \A i \in 1..n : s[i] = t[i]

\* Two joins of sequences that begin alike begin alike.
LEMMA JoinedAlike ==
    ASSUME NEW n \in Nat, NEW k \in Nat, n <= k, NEW s, NEW t, Alike(s, t, n),
           NEW f, NEW g, Joined(s, f, n), Joined(t, g, k)
    PROVE  Alike(f, g, n)
<1> DEFINE Bad == {i \in 1..n : f[i] # g[i]}
<1> SUFFICES ASSUME Bad # {} PROVE FALSE
  BY DEF Alike
<1>1. Bad \in SUBSET Nat
  OBVIOUS
<1>2. PICK i \in Bad : \A j \in Bad : i <= j
  BY <1>1, SmallestThere
<1>3. i \in 1..n /\ i \in Nat /\ f[i] # g[i] /\ i \in 1..k /\ s[i] = t[i]
  BY DEF Alike
<1>4. /\ f[i] = IF i = 1 THEN s[i] ELSE f[i - 1] \o s[i]
      /\ g[i] = IF i = 1 THEN t[i] ELSE g[i - 1] \o t[i]
  BY <1>3 DEF Joined
<1>5. i # 1
  BY <1>3, <1>4
<1>6. i - 1 \in 1..n /\ ~(i <= i - 1)
  BY <1>3, <1>5
<1>7. f[i - 1] = g[i - 1]
  BY <1>2, <1>6
<1> QED BY <1>3, <1>4, <1>5, <1>7

LEMMA JoinedLast ==
    ASSUME NEW n \in Nat, n # 0, NEW s, NEW f, Joined(s, f, n)
    PROVE  f[n] = IF n = 1 THEN s[n] ELSE f[n - 1] \o s[n]
<1>1. n \in 1..n
  OBVIOUS
<1> QED BY <1>1 DEF Joined

\* What is joined, and how a sequence more joins to it.
LEMMA Flattened ==
    ASSUME NEW T, NEW s \in Seq(Seq(T)), NEW x \in Seq(T)
    PROVE  FlattenSeq(Append(s, x)) = IF Len(s) = 0 THEN x ELSE FlattenSeq(s) \o x
<1> DEFINE n == Len(s)
           t == Append(s, x)
           f == CHOOSE f : Joined(s, f, n)
           g == CHOOSE g : Joined(t, g, n + 1)
<1>1. n \in Nat /\ n + 1 \in Nat /\ Len(t) = n + 1 /\ (\A i \in 1..n : t[i] = s[i]) /\ t[n + 1] = x
  OBVIOUS
<1>2. Joined(t, g, n + 1)
  <2> HIDE DEF t, n
  <2> QED BY <1>1, JoinedExists
<1>3. FlattenSeq(t) = g[n + 1]
  <2> HIDE DEF t, n
  <2> QED BY <1>1 DEF FlattenSeq, Joined
<1>4. g[n + 1] = IF n + 1 = 1 THEN t[n + 1] ELSE g[n] \o t[n + 1]
  <2>1. n + 1 # 0 /\ n + 1 - 1 = n
    BY <1>1
  <2> HIDE DEF t, g, n
  <2>2. g[n + 1] = IF n + 1 = 1 THEN t[n + 1] ELSE g[n + 1 - 1] \o t[n + 1]
    BY <1>1, <1>2, <2>1, JoinedLast
  <2> QED BY <2>1, <2>2
<1>5. CASE n = 0
  <2> HIDE DEF t, g
  <2> QED BY <1>1, <1>3, <1>4, <1>5 DEF t
<1>6. CASE n # 0
  <2>1. Joined(s, f, n)
    <3> HIDE DEF n
    <3> QED BY <1>1, JoinedExists
  <2>2. FlattenSeq(s) = f[n]
    BY <1>6 DEF FlattenSeq, Joined
  <2>3. n \in 1..n /\ n <= n + 1
    BY <1>1, <1>6
  <2>4. f[n] = g[n]
    <3> HIDE DEF f, g, t, n
    <3>1. Alike(s, t, n)
      BY <1>1 DEF Alike
    <3>2. Alike(f, g, n)
      BY <1>1, <1>2, <2>1, <2>3, <3>1, JoinedAlike
    <3>3. f[n] = g[n]
      BY <2>3, <3>2 DEF Alike
    <3> QED BY <3>3
  <2> HIDE DEF f, g, t, n
  <2>5. FlattenSeq(t) = FlattenSeq(s) \o x
    BY <1>1, <1>3, <1>4, <1>6, <2>2, <2>4
  <2> QED BY <1>6, <2>5 DEF t, n
<1> QED BY <1>5, <1>6

\* The recursion of the lists, up to the n-th mapping.
Filling(o, batch, f, n) ==
    f = [i \in 0..n |-> IF i = 0 THEN <<>> ELSE Put(f[i - 1], o[i], batch)]

LEMMA FillingExists ==
    ASSUME NEW n \in Nat, NEW o, NEW batch PROVE \E f : Filling(o, batch, f, n)
<1> DEFINE Bad == {k \in Nat : ~ \E f : Filling(o, batch, f, k)}
<1> SUFFICES ASSUME Bad # {} PROVE FALSE
  OBVIOUS
<1>1. Bad \in SUBSET Nat
  OBVIOUS
<1>2. PICK k \in Bad : \A j \in Bad : k <= j
  BY <1>1, SmallestThere
<1>3. k \in Nat /\ ~ \E f : Filling(o, batch, f, k)
  OBVIOUS
<1>4. CASE k = 0
  <2> DEFINE f == [i \in 0..0 |-> <<>>]
  <2>1. \A i \in 0..0 : i = 0
    OBVIOUS
  <2>2. Filling(o, batch, f, 0)
    BY <2>1 DEF Filling
  <2> QED
    BY <1>3, <1>4, <2>2
<1>5. CASE k # 0
  <2>1. k - 1 \in Nat /\ k - 1 < k
    BY <1>3, <1>5
  <2>2. PICK f : Filling(o, batch, f, k - 1)
    BY <2>1, <1>2, <1>3
  <2> DEFINE g == [i \in 0..k |-> IF i < k THEN f[i] ELSE Put(f[k - 1], o[k], batch)]
  <2>3. \A j \in 0..k : j < k => g[j] = f[j]
    OBVIOUS
  <2>4. g[k] = Put(f[k - 1], o[k], batch)
    BY <1>3, <1>5
  <2>5. g = [i \in 0..k |-> g[i]]
    OBVIOUS
  <2> HIDE DEF g
  <2>6. ASSUME NEW i \in 0..k PROVE g[i] = IF i = 0 THEN <<>> ELSE Put(g[i - 1], o[i], batch)
    <3>1. CASE i = 0
      <4>1. i \in 0..(k - 1) /\ i < k
        BY <1>3, <1>5, <3>1
      <4>2. f[i] = <<>>
        BY <4>1, <2>2, <3>1 DEF Filling
      <4> QED BY <4>1, <4>2, <3>1, <2>3
    <3>2. CASE i # 0
      <4>1. i - 1 \in 0..k /\ i - 1 < k /\ i \in Nat
        BY <3>2, <1>3
      <4>2. g[i - 1] = f[i - 1]
        BY <4>1, <2>3
      <4>3. CASE i = k
        BY <4>2, <4>3, <3>2, <2>4
      <4>4. CASE i # k
        <5>1. i \in 0..(k - 1) /\ i < k
          BY <4>4, <1>3
        <5>2. f[i] = Put(f[i - 1], o[i], batch)
          BY <5>1, <2>2, <3>2 DEF Filling
        <5> QED
          BY <5>1, <5>2, <4>2, <3>2, <2>3
      <4> QED
        BY <4>3, <4>4
    <3> QED
      BY <3>1, <3>2
  <2>7. Filling(o, batch, g, k)
    BY <2>6, <2>5 DEF Filling
  <2> QED
    BY <2>7, <1>3
<1> QED
  BY <1>4, <1>5

\* A mapping on its own is a window.
LEMMA AloneIsTiled ==
    ASSUME NEW m \in Registers PROVE Tiled(<<m>>)
<1>1. <<m>> \in Seq(Registers) /\ Len(<<m>>) = 1 /\ \A i \in 1..1 : i = 1
  OBVIOUS
<1> QED BY <1>1 DEF Tiled, Ascending, NoGap, Bounded

\* A mapping that joins the ones before it does so without a gap, nor too far out.
LEMMA JoinedIsTiled ==
    ASSUME NEW list, Tiled(list), NEW m \in Registers, Joins(list, m),
           \A i \in 1..Len(list) : list[i].address <= m.address
    PROVE  Tiled(Append(list, m))
<1> DEFINE l == Append(list, m)
           n == Len(list)
<1>1. list \in Seq(Registers) /\ n \in Nat /\ n > 0
  BY DEF Tiled
<1>2. l \in Seq(Registers) /\ Len(l) = n + 1 /\ (\A i \in 1..n : l[i] = list[i]) /\ l[n + 1] = m
  BY <1>1
<1>3. /\ m.address <= Window(list).start + Window(list).count
      /\ End(m) - Window(list).start <= WindowSize
  BY DEF Joins
<1>4. Window(list).start = list[1].address
      /\ \E i \in 1..n : End(list[i]) = Window(list).start + Window(list).count
  BY <1>1, WindowTold
<1>5. \A i \in 1..(n + 1) : i = n + 1 \/ i \in 1..n
  BY <1>1
<1>6. 1 \in 1..n /\ l[1] = list[1]
  BY <1>1, <1>2
<1> HIDE DEF l
<1>7. Ascending(l)
  <2> SUFFICES ASSUME NEW i \in 1..(n + 1), NEW j \in 1..(n + 1), i < j
      PROVE l[i].address <= l[j].address
    BY <1>2 DEF Ascending
  <2>1. i \in 1..n
    BY <1>1
  <2>2. CASE j = n + 1
    BY <1>2, <2>1, <2>2
  <2>3. CASE j \in 1..n
    BY <1>2, <2>1, <2>3 DEF Tiled, Ascending
  <2> QED BY <1>5, <2>2, <2>3
<1>8. NoGap(l)
  <2> SUFFICES ASSUME NEW i \in 1..(n + 1), i > 1
      PROVE \E j \in 1..(n + 1) : j < i /\ l[i].address <= End(l[j])
    BY <1>2 DEF NoGap
  <2>1. \A j \in 1..n : j \in 1..(n + 1) /\ j < n + 1
    BY <1>1
  <2>2. CASE i = n + 1
    <3>1. PICK j \in 1..n : End(list[j]) = Window(list).start + Window(list).count
      BY <1>4
    <3> QED BY <1>2, <1>3, <2>1, <2>2, <3>1
  <2>3. CASE i \in 1..n
    <3>1. PICK j \in 1..n : j < i /\ list[i].address <= End(list[j])
      BY <2>3 DEF Tiled, NoGap
    <3> QED BY <1>2, <2>1, <2>3, <3>1
  <2> QED BY <1>5, <2>2, <2>3
<1>9. Bounded(l)
  <2> SUFFICES ASSUME NEW i \in 1..(n + 1), i > 1
      PROVE End(l[i]) - l[1].address <= WindowSize
    BY <1>2 DEF Bounded
  <2>1. CASE i = n + 1
    BY <1>2, <1>3, <1>4, <1>6, <2>1
  <2>2. CASE i \in 1..n
    BY <1>2, <1>6, <2>2 DEF Tiled, Bounded
  <2> QED BY <1>5, <2>1, <2>2
<1> QED BY <1>1, <1>2, <1>7, <1>8, <1>9 DEF Tiled, l

\* Joined sequences of T are sequences of T.
LEMMA JoinedIsSeq ==
    ASSUME NEW T, NEW n \in Nat, NEW seqs, \A i \in 1..n : seqs[i] \in Seq(T),
           NEW f, Joined(seqs, f, n)
    PROVE  \A i \in 1..n : f[i] \in Seq(T)
<1> DEFINE Bad == {i \in 1..n : f[i] \notin Seq(T)}
<1> SUFFICES ASSUME Bad # {} PROVE FALSE
  OBVIOUS
<1>1. Bad \in SUBSET Nat
  OBVIOUS
<1>2. PICK i \in Bad : \A j \in Bad : i <= j
  BY <1>1, SmallestThere
<1>3. i \in 1..n /\ i \in Nat /\ f[i] \notin Seq(T)
  OBVIOUS
<1>4. f[i] = IF i = 1 THEN seqs[i] ELSE f[i - 1] \o seqs[i]
  BY <1>3 DEF Joined
<1>5. CASE i = 1
  BY <1>3, <1>4, <1>5
<1>6. CASE i # 1
  <2>1. i - 1 \in 1..n /\ i - 1 < i
    BY <1>3, <1>6
  <2>2. f[i - 1] \in Seq(T)
    BY <2>1, <1>2, <1>3
  <2>3. seqs[i] \in Seq(T)
    BY <1>3
  <2>4. f[i - 1] \o seqs[i] \in Seq(T)
    BY <2>2, <2>3, ConcatProperties
  <2> QED
    BY <1>3, <1>4, <1>6, <2>4
<1> QED
  BY <1>5, <1>6

LEMMA FlattenedIsSeq ==
    ASSUME NEW T, NEW s \in Seq(Seq(T)), Len(s) # 0
    PROVE  FlattenSeq(s) \in Seq(T)
<1> DEFINE n == Len(s)
           f == CHOOSE f : Joined(s, f, n)
<1>1. n \in Nat /\ n \in 1..n /\ \A i \in 1..n : s[i] \in Seq(T)
  OBVIOUS
<1>2. Joined(s, f, n)
  <2> HIDE DEF n
  <2> QED BY <1>1, JoinedExists
<1>3. FlattenSeq(s) = f[n]
  BY DEF FlattenSeq, Joined
<1>4. \A i \in 1..n : f[i] \in Seq(T)
  <2> HIDE DEF n, f
  <2> QED BY <1>1, <1>2, JoinedIsSeq
<1> QED BY <1>1, <1>3, <1>4

\* The lists are made of the first n mappings: each is a window's, and joined they are them.
Packed(lists, o, n) ==
    /\ lists \in Seq(Seq(Registers))
    /\ n > 0 => Len(lists) > 0
    /\ \A w \in 1..Len(lists) : Tiled(lists[w])
    /\ \A w \in 1..Len(lists) : \A i \in 1..Len(lists[w]) :
          \E k \in 1..n : lists[w][i] = o[k]
    /\ FlattenSeq(lists) = SubSeq(o, 1, n)

LEMMA NonePacked ==
    ASSUME NEW o PROVE Packed(<<>>, o, 0)
<1>1. <<>> \in Seq(Seq(Registers)) /\ Len(<<>>) = 0 /\ ~(0 > 0)
  OBVIOUS
<1>2. FlattenSeq(<<>>) = <<>>
  BY <1>1 DEF FlattenSeq
<1>3. SubSeq(o, 1, 0) = <<>>
  BY SubSeqEmpty
<1>4. \A w \in 1..Len(<<>>) : FALSE
  BY <1>1
<1> QED BY ONLY <1>1, <1>2, <1>3, <1>4 DEF Packed

\* The first mappings and one more.
LEMMA OneMore ==
    ASSUME NEW o \in Seq(Registers), NEW n \in 1..Len(o)
    PROVE  SubSeq(o, 1, n) = SubSeq(o, 1, n - 1) \o <<o[n]>>
<1>1. 1 \in 1..Len(o) /\ n \in 1..Len(o)
  OBVIOUS
<1> QED BY <1>1, SubSeqRecursiveSecond

\* The next mapping is put into the last list, if it joins, or begins one.
LEMMA PutIsPacked ==
    ASSUME NEW o \in Seq(Registers), Ascending(o), NEW n \in 1..Len(o), NEW batch,
           NEW lists, Packed(lists, o, n - 1)
    PROVE  Packed(Put(lists, o[n], batch), o, n)
<1> DEFINE m == o[n]
           c == Len(lists)
<1>1. lists \in Seq(Seq(Registers)) /\ c \in Nat /\ m \in Registers /\ n \in Nat /\ n > 0
  BY DEF Packed
<1>2. SubSeq(o, 1, n) = FlattenSeq(lists) \o <<m>>
  BY OneMore DEF Packed
<1>3. CASE batch /\ lists # <<>> /\ Joins(Last(lists), m)
  <2> DEFINE L == Last(lists)
             F == Front(lists)
             x == Append(L, m)
             new == Append(F, x)
  <2>1. Put(lists, m, batch) = new
    BY <1>3 DEF Put
  <2>2. c > 0 /\ c \in 1..c
    BY <1>1, <1>3
  <2>3. L = lists[c] /\ Tiled(L) /\ L \in Seq(Registers)
    BY <1>1, <2>2 DEF Last, Packed, Tiled
  <2>4. F \in Seq(Seq(Registers)) /\ Len(F) = c - 1 /\ \A w \in 1..(c - 1) : F[w] = lists[w]
    <3>1. 1 \in Int /\ c - 1 \in Int /\ \A w \in 1..(c - 1) : lists[w] \in Seq(Registers)
      BY <1>1, <2>2
    <3>2. /\ F \in Seq(Seq(Registers)) /\ Len(F) = IF 1 <= c - 1 THEN c - 1 - 1 + 1 ELSE 0
          /\ \A w \in 1..(c - 1 - 1 + 1) : F[w] = lists[1 + w - 1]
      <4> HIDE DEF c
      <4> QED BY <3>1, SubSeqProperties DEF Front, c
    <3>3. c - 1 - 1 + 1 = c - 1 /\ \A w \in 1..(c - 1) : 1 + w - 1 = w
      BY <1>1
    <3> HIDE DEF F, c
    <3> QED BY <1>1, <2>2, <3>2, <3>3
  <2>5. x \in Seq(Registers)
    BY <1>1, <2>3
  <2>6. Append(F, L) \in Seq(Seq(Registers)) /\ Len(Append(F, L)) = c
        /\ \A w \in 1..c : Append(F, L)[w] = lists[w]
    <3> HIDE DEF F, L
    <3> QED BY <1>1, <2>2, <2>3, <2>4
  <2>7. Append(F, L) = lists
    <3> HIDE DEF F, L
    <3> QED BY <1>1, <2>6, SeqEqual
  <2>8. FlattenSeq(new) = FlattenSeq(lists) \o <<m>>
    <3> HIDE DEF F, L, x
    <3>1. FlattenSeq(lists) = IF Len(F) = 0 THEN L ELSE FlattenSeq(F) \o L
      BY <2>3, <2>4, <2>7, Flattened
    <3>2. FlattenSeq(new) = IF Len(F) = 0 THEN x ELSE FlattenSeq(F) \o x
      BY <2>4, <2>5, Flattened
    <3>3. x = L \o <<m>> /\ <<m>> \in Seq(Registers)
      BY SMTT(60), <1>1, <2>3 DEF x
    <3>4. ASSUME Len(F) # 0 PROVE FlattenSeq(F) \o (L \o <<m>>) = (FlattenSeq(F) \o L) \o <<m>>
      <4>1. FlattenSeq(F) \in Seq(Registers)
        BY <2>4, <3>4, FlattenedIsSeq
      <4>2. L \in Seq(Registers) /\ <<m>> \in Seq(Registers)
        BY <2>3, <3>3
      <4> HIDE DEF m
      <4> QED BY ONLY <4>1, <4>2, ConcatAssociative
    <3> QED BY <3>1, <3>2, <3>3, <3>4
  <2>9. new \in Seq(Seq(Registers)) /\ Len(new) = c /\ new[c] = x
        /\ \A w \in 1..c : w = c \/ (w \in 1..(c - 1) /\ new[w] = lists[w])
    <3> HIDE DEF F, x
    <3>1. new \in Seq(Seq(Registers)) /\ Len(new) = Len(F) + 1 /\ new[Len(F) + 1] = x
          /\ \A w \in 1..Len(F) : new[w] = F[w]
      BY <2>4, <2>5
    <3> HIDE DEF new
    <3>2. Len(new) = c /\ new[c] = x
      BY <1>1, <2>4, <3>1
    <3>3. \A w \in 1..(c - 1) : new[w] = lists[w]
      BY <2>4, <3>1
    <3>4. \A w \in 1..c : w = c \/ w \in 1..(c - 1)
      BY <1>1
    <3> HIDE DEF c
    <3>5. \A w \in 1..c : w = c \/ (w \in 1..(c - 1) /\ new[w] = lists[w])
      BY ONLY <3>3, <3>4
    <3> QED BY ONLY <3>1, <3>2, <3>5
  <2>10. \A i \in 1..Len(L) : \E k \in 1..(n - 1) : L[i] = o[k]
    <3>1. \A w \in 1..c : \A i \in 1..Len(lists[w]) : \E k \in 1..(n - 1) : lists[w][i] = o[k]
      BY DEF Packed
    <3> HIDE DEF L, c
    <3> QED BY ONLY <2>2, <2>3, <3>1
  <2>11. Tiled(x)
    <3>1. ASSUME NEW i \in 1..Len(L) PROVE L[i].address <= m.address
      <4>1. PICK k \in 1..(n - 1) : L[i] = o[k]
        BY <2>10
      <4>2. k \in 1..Len(o) /\ k < n
        BY <1>1
      <4> QED BY <4>1, <4>2 DEF Ascending
    <3>2. Joins(L, m)
      BY <1>3
    <3> HIDE DEF L, m
    <3> QED BY <1>1, <2>3, <3>1, <3>2, JoinedIsTiled DEF x
  <2>12. \A i \in 1..Len(x) : \E k \in 1..n : x[i] = o[k]
    <3>1. Len(L) \in Nat /\ Len(x) = Len(L) + 1 /\ (\A i \in 1..Len(L) : x[i] = L[i]) /\ x[Len(L) + 1] = o[n]
      <4> HIDE DEF L
      <4> QED BY <1>1, <2>3
    <3>2. \A i \in 1..Len(x) : i = Len(L) + 1 \/ i \in 1..Len(L)
      BY <3>1
    <3>3. n \in 1..n /\ \A k \in 1..(n - 1) : k \in 1..n
      BY <1>1
    <3> HIDE DEF x, L, m
    <3> QED BY <2>10, <3>1, <3>2, <3>3
  <2>13. \A w \in 1..c : Tiled(new[w])
    <3> HIDE DEF new, x
    <3> QED BY <1>1, <2>9, <2>11 DEF Packed
  <2>14. \A w \in 1..c : \A i \in 1..Len(new[w]) : \E k \in 1..n : new[w][i] = o[k]
    <3> SUFFICES ASSUME NEW w \in 1..c, NEW i \in 1..Len(new[w]) PROVE \E k \in 1..n : new[w][i] = o[k]
      OBVIOUS
    <3> HIDE DEF new, x, L
    <3>1. CASE w = c
      BY <2>9, <2>12, <3>1
    <3>2. CASE w \in 1..(c - 1) /\ new[w] = lists[w]
      <4>1. PICK k \in 1..(n - 1) : lists[w][i] = o[k]
        BY <3>2 DEF Packed
      <4>2. k \in 1..n
        BY <1>1
      <4> QED BY <3>2, <4>1, <4>2
    <3> QED BY <2>9, <3>1, <3>2
  <2> HIDE DEF new
  <2>15. FlattenSeq(new) = SubSeq(o, 1, n) /\ new \in Seq(Seq(Registers)) /\ Len(new) = c
    BY <1>2, <2>8, <2>9
  <2>16. Packed(new, o, n)
    <3> HIDE DEF c
    <3> QED BY ONLY <2>2, <2>13, <2>14, <2>15 DEF Packed
  <2> QED BY <2>1, <2>16
<1>4. CASE ~(batch /\ lists # <<>> /\ Joins(Last(lists), m))
  <2> DEFINE new == Append(lists, <<m>>)
  <2>1. Put(lists, m, batch) = new
    BY <1>4 DEF Put
  <2>2. <<m>> \in Seq(Registers) /\ Len(<<m>>) = 1 /\ <<m>>[1] = m /\ \A i \in 1..1 : i = 1
    BY <1>1
  <2>3. /\ new \in Seq(Seq(Registers)) /\ Len(new) = c + 1 /\ new[c + 1] = <<m>>
        /\ \A w \in 1..(c + 1) : w = c + 1 \/ (w \in 1..c /\ new[w] = lists[w])
    <3> HIDE DEF m
    <3> QED BY <1>1, <2>2
  <2>4. FlattenSeq(new) = SubSeq(o, 1, n)
    <3>1. FlattenSeq(new) = IF c = 0 THEN <<m>> ELSE FlattenSeq(lists) \o <<m>>
      BY <1>1, <2>2, Flattened
    <3>2. CASE c = 0
      <4>1. n - 1 = 0
        BY <1>1, <3>2 DEF Packed
      <4>2. SubSeq(o, 1, n - 1) = <<>>
        BY <4>1, SubSeqEmpty
      <4>3. <<>> \o <<m>> = <<m>>
        BY <2>2, ConcatEmptySeq
      <4>4. SubSeq(o, 1, n) = <<m>>
        BY <4>2, <4>3, OneMore
      <4> QED BY <3>1, <3>2, <4>4
    <3>3. CASE c # 0
      BY <1>2, <3>1, <3>3
    <3> QED BY <3>2, <3>3
  <2>5. \A w \in 1..(c + 1) : Tiled(new[w])
    <3> HIDE DEF new, m
    <3> QED BY <1>1, <2>3, AloneIsTiled DEF Packed
  <2>6. \A w \in 1..(c + 1) : \A i \in 1..Len(new[w]) : \E k \in 1..n : new[w][i] = o[k]
    <3> SUFFICES ASSUME NEW w \in 1..(c + 1), NEW i \in 1..Len(new[w]) PROVE \E k \in 1..n : new[w][i] = o[k]
      OBVIOUS
    <3> HIDE DEF new
    <3>1. CASE w = c + 1
      <4>1. n \in 1..n
        BY <1>1
      <4> QED BY <2>2, <2>3, <3>1, <4>1
    <3>2. CASE w \in 1..c /\ new[w] = lists[w]
      <4>1. PICK k \in 1..(n - 1) : lists[w][i] = o[k]
        BY <3>2 DEF Packed
      <4>2. k \in 1..n
        BY <1>1
      <4> QED BY <3>2, <4>1, <4>2
    <3> QED BY <2>3, <3>1, <3>2
  <2>7. c + 1 > 0
    BY <1>1
  <2> HIDE DEF new
  <2> QED BY <2>1, <2>3, <2>4, <2>5, <2>6, <2>7 DEF Packed
<1> QED BY <1>3, <1>4

\* All lists together.
LEMMA ListsArePacked ==
    ASSUME NEW o \in Seq(Registers), Ascending(o), NEW batch
    PROVE  Packed(ListsOf(o, batch), o, Len(o))
<1> DEFINE N == Len(o)
           f == CHOOSE f : Filling(o, batch, f, N)
           Bad == {n \in 0..N : ~Packed(f[n], o, n)}
<1>1. N \in Nat
  OBVIOUS
<1>2. Filling(o, batch, f, N)
  <2> HIDE DEF N
  <2> QED BY <1>1, FillingExists
<1>3. ListsOf(o, batch) = f[N]
  BY DEF ListsOf, Filling
<1> HIDE DEF f, N
<1>4. \A n \in 0..N : f[n] = IF n = 0 THEN <<>> ELSE Put(f[n - 1], o[n], batch)
  BY <1>2 DEF Filling
<1>5. Bad \in SUBSET Nat
  BY <1>1
<1>6. CASE Bad # {}
  <2>1. PICK n \in Bad : \A k \in Bad : n <= k
    BY <1>5, <1>6, SmallestThere
  <2>2. n \in 0..N /\ n \in Nat /\ ~Packed(f[n], o, n)
    BY <1>1
  <2>3. CASE n = 0
    <3>1. f[n] = <<>>
      BY <1>4, <2>2, <2>3
    <3> QED BY <2>2, <2>3, <3>1, NonePacked
  <2>4. CASE n # 0
    <3>1. n - 1 \in 0..N /\ ~(n <= n - 1) /\ n \in 1..N
      BY <1>1, <2>2, <2>4
    <3>2. Packed(f[n - 1], o, n - 1)
      BY <2>1, <3>1
    <3>3. f[n] = Put(f[n - 1], o[n], batch)
      BY <1>4, <2>2, <2>4
    <3>4. Packed(Put(f[n - 1], o[n], batch), o, n)
      BY <3>1, <3>2, PutIsPacked DEF N
    <3> QED BY <2>2, <3>3, <3>4
  <2> QED BY <2>3, <2>4
<1>7. CASE Bad = {}
  <2>1. N \in 0..N
    BY <1>1
  <2>2. Packed(f[N], o, N)
    BY <1>7, <2>1
  <2> QED BY <1>3, <2>2 DEF N
<1> QED BY <1>6, <1>7

LEMMA Batched == MappingsOK => BatchingIsInvisible
<1> SUFFICES ASSUME MappingsOK, NEW register \in RegisterTypes, NEW batch \in BOOLEAN
    PROVE  LET ordered == Ordered(register)
               windows == WindowsOf(ordered, batch)
           IN
           /\ FlattenSeq([w \in DOMAIN windows |-> windows[w].mappings]) = ordered
           /\ \A w \in Range(windows) :
               /\ \A m \in Range(w.mappings) : Decoded(m, Cut(m, w)) = ReadAlone(m)
               /\ \A a \in w.start..(w.start + w.count - 1) :
                   \E m \in Range(w.mappings) : m.address <= a /\ a < End(m)
               /\ w.count <= WindowSize \/ \E m \in Range(w.mappings) : Span(m) > WindowSize
  BY DEF BatchingIsInvisible
<1> DEFINE o == Ordered(register)
           lists == ListsOf(o, batch)
           windows == WindowsOf(o, batch)
           c == Len(lists)
<1>1. o \in Seq(Registers) /\ Ascending(o)
  <2> HIDE DEF o
  <2> QED BY OrderedByAddress DEF o, Ascending
<1>2. Packed(lists, o, Len(o))
  <2> HIDE DEF o
  <2> QED BY <1>1, ListsArePacked
<1> HIDE DEF o
<1>3. windows = [w \in DOMAIN lists |-> Window(lists[w])]
  BY DEF WindowsOf
<1>4. lists \in Seq(Seq(Registers)) /\ c \in Nat /\ DOMAIN lists = 1..c
  BY <1>2 DEF Packed
<1> HIDE DEF lists, windows
<1>5. DOMAIN windows = 1..c /\ \A w \in 1..c : windows[w] = Window(lists[w])
  BY <1>3, <1>4
<1>6. \A w \in 1..c : /\ Tiled(lists[w]) /\ lists[w] \in Seq(Registers) /\ Len(lists[w]) > 0
                      /\ DOMAIN lists[w] = 1..Len(lists[w])
  BY <1>2 DEF Packed, Tiled
<1>7. FlattenSeq([w \in DOMAIN windows |-> windows[w].mappings]) = o
  <2> DEFINE all == [w \in DOMAIN windows |-> windows[w].mappings]
  <2>1. ASSUME NEW w \in 1..c PROVE windows[w].mappings = lists[w]
    <3>1. Window(lists[w]).mappings = lists[w]
      BY <1>6, WindowTold
    <3> QED BY <1>5, <3>1
  <2>2. all = [w \in 1..c |-> lists[w]]
    BY <1>5, <2>1
  <2>3. lists = [w \in 1..c |-> lists[w]]
    BY <1>4
  <2>4. FlattenSeq(lists) = o
    BY <1>1, <1>2, SubSeqFull DEF Packed
  <2> QED BY <2>2, <2>3, <2>4
<1>8. ASSUME NEW v \in 1..c
      PROVE  /\ \A m \in Range(windows[v].mappings) : Decoded(m, Cut(m, windows[v])) = ReadAlone(m)
             /\ \A a \in windows[v].start..(windows[v].start + windows[v].count - 1) :
                 \E m \in Range(windows[v].mappings) : m.address <= a /\ a < End(m)
             /\ windows[v].count <= WindowSize \/ \E m \in Range(windows[v].mappings) : Span(m) > WindowSize
  <2> DEFINE L == lists[v]
             w == windows[v]
  <2>1. w = Window(L) /\ w.mappings = L /\ Tiled(L) /\ DOMAIN L = 1..Len(L)
        /\ w.start \in Nat /\ w.count \in Int
    <3>1. Window(lists[v]).mappings = lists[v] /\ Window(lists[v]).start \in Nat
          /\ Window(lists[v]).count \in Int
      BY <1>6, WindowTold
    <3> QED BY <1>5, <1>6, <3>1
  <2>2. Range(w.mappings) = {L[i] : i \in 1..Len(L)}
    BY <2>1 DEF Range
  <2> HIDE DEF L, w
  <2>3. \A m \in Range(w.mappings) : Decoded(m, Cut(m, w)) = ReadAlone(m)
    BY <2>1, <2>2, CutIsExact
  <2>4. \A a \in w.start..(w.start + w.count - 1) : \E m \in Range(w.mappings) : m.address <= a /\ a < End(m)
    <3> SUFFICES ASSUME NEW a \in w.start..(w.start + w.count - 1)
        PROVE \E m \in Range(w.mappings) : m.address <= a /\ a < End(m)
      OBVIOUS
    <3>1. a \in Int /\ w.start <= a /\ a < w.start + w.count
      BY <2>1
    <3>2. PICK i \in 1..Len(L) : L[i].address <= a /\ a < End(L[i])
      BY <2>1, <3>1, NoneIdle
    <3> QED BY <2>2, <3>2
  <2>5. w.count <= WindowSize \/ \E m \in Range(w.mappings) : Span(m) > WindowSize
    BY <2>1, <2>2, NoneTooLong
  <2> QED BY <2>3, <2>4, <2>5 DEF w
<1>9. Range(windows) = {windows[v] : v \in 1..c}
  BY <1>5 DEF Range
<1>10. \A w \in Range(windows) :
           /\ \A m \in Range(w.mappings) : Decoded(m, Cut(m, w)) = ReadAlone(m)
           /\ \A a \in w.start..(w.start + w.count - 1) :
               \E m \in Range(w.mappings) : m.address <= a /\ a < End(m)
           /\ w.count <= WindowSize \/ \E m \in Range(w.mappings) : Span(m) > WindowSize
  BY <1>8, <1>9
<1> QED BY <1>7, <1>10 DEF o, windows

-----------------------------------------------------------------------------
LEMMA ReadingsTyped == ReadingSpec => [](MappingsOK /\ TableOK)
<1>1. ReadingInit => MappingsOK /\ TableOK
  BY DEF ReadingInit, MappingsOK, TableOK
<1>2. ASSUME MappingsOK, TableOK, [ReadingNext]_readingVars PROVE MappingsOK' /\ TableOK'
  <2>1. ASSUME NEW m \in Registers, AddMapping(m) PROVE MappingsOK' /\ TableOK'
    BY <1>2, <2>1 DEF AddMapping, MappingsOK, TableOK
  <2>2. ASSUME NEW tags \in RowTags, AddRow(tags) PROVE MappingsOK' /\ TableOK'
    BY <1>2, <2>2 DEF AddRow, MappingsOK, TableOK
  <2>3. CASE UNCHANGED readingVars
    BY <1>2, <2>3 DEF readingVars, MappingsOK, TableOK
  <2> QED BY <1>2, <2>1, <2>2, <2>3 DEF ReadingNext
<1> QED BY <1>1, <1>2, PTL DEF ReadingSpec

\* However a poll of a connector reads, each tag gets the value it is to get: what windows cut
\* out of their replies is what each mapping would be answered alone, and of the rows the order
\* tells.  Of any mappings, in any order, and any rows.
THEOREM PollsStayTrue == ReadingSpec => []PollsReadTheTags
<1>1. MappingsOK /\ TableOK => PollsReadTheTags
  BY Batched, OrderTold DEF PollsReadTheTags
<1> QED BY <1>1, ReadingsTyped, PTL
=============================================================================
