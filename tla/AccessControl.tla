---------------------------- MODULE AccessControl ----------------------------
(***************************************************************************)
(* Accounts and teams (services/access_control_service.py behind           *)
(* api/routes/access_control.py).  The service keeps one dictionary in     *)
(* memory and _save writes it whole to a file, which the next start of the *)
(* process reads back.  A user has a plan, a team, a workspace and a role; *)
(* a team has an owner and a list of members with their roles.  The two    *)
(* tables are changed by separate statements of each handler.              *)
(*                                                                         *)
(* Requests are taken one at a time.  Sessions, the count of sandbox       *)
(* exports, maintenance and the set-up prompt do not touch users' teams    *)
(* and are left out.                                                       *)
(***************************************************************************)
EXTENDS Integers, FiniteSets, PythonNone

CONSTANTS
    Emails,       \* normalised e-mail addresses
    TeamIds,      \* the team-<hex> identifiers that can be drawn
    MemberLimit   \* TEAM_MEMBER_LIMIT: members of a team beside its owner

ASSUME AccessAssumption ==
    /\ IsFiniteSet(Emails)
    /\ MemberLimit \in Nat
    /\ None \notin Emails \cup TeamIds \cup {"own", "sandbox", "paid", "solo", "team"}
    /\ "own" \notin TeamIds

VARIABLES
    users,      \* _state["users"]: address -> user, None before its first request
    teams,      \* _state["teams"]: identifier -> team, None before it is created
    accessFile  \* what access_control.json holds; None when it cannot be read

accessVars == <<users, teams, accessFile>>

Roles == {"viewer", "member", "admin"}
UserType ==
    [account : {"sandbox", "paid"}, plan : {None, "solo", "team"},
     team : {None} \cup TeamIds, workspace : {None, "own"} \cup TeamIds, role : Roles]
TeamType == [owner : Emails, members : [Emails -> {None} \cup Roles]]
Tables == [users : [Emails -> {None} \cup UserType], teams : [TeamIds -> {None} \cup TeamType]]

ASSUME AccessNoneAssumption == None \notin UserType \cup TeamType \cup Tables \cup Roles

Empty == [users |-> [e \in Emails |-> None], teams |-> [t \in TeamIds |-> None]]

DefaultUser(account, plan) ==
    [account |-> account, plan |-> plan, team |-> None, workspace |-> None, role |-> "viewer"]

AccessInit ==
    /\ users = Empty.users
    /\ teams = Empty.teams
    /\ accessFile = Empty

\* _save: the file is truncated before it is written, so a write that fails leaves a
\* file that _load cannot read.
Save == accessFile' \in {[users |-> users', teams |-> teams'], None}

\* ensure_user of an address the service has not seen creates a sandbox viewer.
Ensured(us, S) ==
    [e \in Emails |-> IF e \in S /\ us[e] = None THEN DefaultUser("sandbox", None) ELSE us[e]]

Team(e) == users[e].team
MembersOf(t) == {e \in Emails : teams[t].members[e] # None}

Gained(u, account, plan) ==
    [u EXCEPT !.plan = IF u.plan = None THEN plan ELSE u.plan,
              !.account = IF u.account = "sandbox" THEN account ELSE u.account]

\* /access/register, and what every request does first for the address it names: a
\* known user only gains a plan or a paid account, and nothing is written to the file.
Register(e, account, plan) ==
    /\ UNCHANGED teams
    /\ \/ /\ users[e] = None
          /\ users' = [users EXCEPT ![e] = DefaultUser(account, plan)]
          /\ Save
       \/ /\ users[e] # None
          /\ users' = [users EXCEPT ![e] = Gained(users[e], account, plan)]
          /\ UNCHANGED accessFile

\* complete_checkout with the team plan: the user keeps the team it is in, which it now
\* owns, or gets a new one.
CheckoutTeam(e, t) ==
    LET known == Ensured(users, {e}) IN
    /\ IF known[e].team = None THEN teams[t] = None ELSE t = known[e].team
    /\ users' = [known EXCEPT ![e] =
            [account |-> "paid", plan |-> "team", team |-> t, workspace |-> t, role |-> "admin"]]
    /\ teams' = [teams EXCEPT ![t] =
            [owner |-> e,
             members |-> [m \in Emails |->
                IF m = e THEN "admin" ELSE IF teams[t] = None THEN None ELSE teams[t].members[m]]]]
    /\ Save

\* complete_checkout with the solo plan: the user leaves its team but stays in the
\* team's list, and keeps the workspace it has.
CheckoutSolo(e) ==
    LET known == Ensured(users, {e}) IN
    /\ users' = [known EXCEPT ![e] =
            [account |-> "paid", plan |-> "solo", team |-> None,
             workspace |-> IF known[e].workspace = None THEN "own" ELSE known[e].workspace,
             role |-> "admin"]]
    /\ UNCHANGED teams
    /\ Save

\* An admin of a team that exists: what the three handlers below check first.
MayManage(admin) ==
    /\ users[admin] # None
    /\ users[admin].role = "admin"
    /\ Team(admin) # None
    /\ teams[Team(admin)] # None

\* invite_team_members: the addresses may be unknown, or belong to another team, which
\* they leave without leaving its list.
InviteTeamMembers(admin, S) ==
    /\ MayManage(admin)
    /\ LET t == Team(admin) IN
       /\ S \cap MembersOf(t) = {}
       /\ Cardinality(MembersOf(t) \ {teams[t].owner}) + Cardinality(S) <= MemberLimit
       /\ users' = [e \in Emails |->
            IF e \in S
            THEN [account |-> "paid", plan |-> "team", team |-> t, workspace |-> t,
                  role |-> "member"]
            ELSE users[e]]
       /\ teams' = [teams EXCEPT ![t].members =
            [e \in Emails |-> IF e \in S THEN "member" ELSE teams[t].members[e]]]
       /\ Save

\* Mutant: the member keeps its workspace.
RemoveKeepsWorkspace(admin, e) ==
    /\ MayManage(admin)
    /\ LET t == Team(admin) IN
       /\ e # teams[t].owner
       /\ e \in MembersOf(t)
       /\ teams' = [teams EXCEPT ![t].members[e] = None]
       /\ users' = [users EXCEPT ![e] =
            [DefaultUser("sandbox", None) EXCEPT !.workspace = IF users[e] = None THEN None
                                                               ELSE users[e].workspace]]
       /\ Save

\* remove_team_member: the member becomes a sandbox viewer, whatever team it is in now.
RemoveTeamMember(admin, e) ==
    /\ MayManage(admin)
    /\ LET t == Team(admin) IN
       /\ e # teams[t].owner
       /\ e \in MembersOf(t)
       /\ teams' = [teams EXCEPT ![t].members[e] = None]
       /\ users' = [users EXCEPT ![e] = DefaultUser("sandbox", None)]
       /\ Save

\* set_role changes the entry in the list and the role of the user, whatever team it is
\* in now.
SetRole(admin, e, role) ==
    /\ MayManage(admin)
    /\ LET t == Team(admin) IN
       /\ e \in MembersOf(t)
       /\ teams' = [teams EXCEPT ![t].members[e] = role]
       /\ users' = [Ensured(users, {e}) EXCEPT ![e].role = role]
       /\ Save

\* The process ends, and the next one reads the file: changes that were not saved are
\* lost, and everything is when the file cannot be read.
Restart ==
    LET read == IF accessFile = None THEN Empty ELSE accessFile IN
    /\ users' = read.users
    /\ teams' = read.teams
    /\ UNCHANGED accessFile

AccessNext ==
    \/ \E e \in Emails, account \in {"sandbox", "paid"}, plan \in {None, "solo", "team"} :
            Register(e, account, plan)
    \/ \E e \in Emails, t \in TeamIds : CheckoutTeam(e, t)
    \/ \E e \in Emails : CheckoutSolo(e)
    \/ \E admin \in Emails, S \in SUBSET Emails : InviteTeamMembers(admin, S)
    \/ \E admin \in Emails, e \in Emails : RemoveTeamMember(admin, e)
    \/ \E admin \in Emails, e \in Emails, role \in {"admin", "member"} : SetRole(admin, e, role)
    \/ Restart

AccessSpec == AccessInit /\ [][AccessNext]_accessVars

-----------------------------------------------------------------------------
AccessTypeOK ==
    /\ users \in [Emails -> {None} \cup UserType]
    /\ teams \in [TeamIds -> {None} \cup TeamType]
    /\ accessFile \in {None} \cup Tables

\* Whoever is in a team, or works in its workspace, is on the list its admins see: the
\* list is the only way to take the workspace away from a user.
ListsTheirUsers(us, ts) ==
    \A e \in Emails, t \in TeamIds :
        us[e] # None /\ t \in {us[e].team, us[e].workspace} =>
            ts[t] # None /\ ts[t].members[e] # None

\* A team's owner is on its list.
ListsItsOwner(ts) ==
    \A t \in TeamIds : ts[t] # None => ts[t].members[ts[t].owner] # None

\* However users join and leave (checkout, invitation, removal, a second team, a
\* restart), whoever is in a team or uses its workspace is on the list of members, and so
\* is its owner.
TeamsListTheirUsers == ListsTheirUsers(users, teams) /\ ListsItsOwner(teams)
=============================================================================
