----------------------------- MODULE Workspace -----------------------------
(***************************************************************************)
(* Organizations, their members and apps, and accounts, as the dashboard's *)
(* routes and the Payload hooks change them.                               *)
(*                                                                         *)
(* A route reads what its checks need (role, limits, cooldowns) outside    *)
(* the transaction that then writes and cascades: every operation is a     *)
(* step that checks and a step that writes, and two requests interleave.   *)
(* The writes rest on the schema: a membership is unique, and a row cannot *)
(* refer to an organization or an account that is gone.                    *)
(***************************************************************************)
EXTENDS Integers, FiniteSets

CONSTANTS Accounts,   \* accounts, each with its Personal Workspace
          Admins,     \* those with the admin role
          Requests,   \* requests of the dashboard at one time
          MaxOrgs,    \* bound: organizations ever created
          MaxRequests, \* bound: requests submitted
          AppIds,     \* bound: apps at one time
          MaxOwned,   \* organizations one account may own (5 in the code)
          MaxApps     \* apps of one organization (30 in the code)

ASSUME WorkspaceAssumption ==
  /\ Admins \subseteq Accounts /\ IsFiniteSet(Accounts) /\ IsFiniteSet(AppIds)
  /\ IsFiniteSet(Requests) /\ Requests # {}
  /\ MaxOrgs \in Nat /\ MaxRequests \in Nat /\ MaxOwned \in Nat \ {0} /\ MaxApps \in Nat \ {0}
  /\ MaxOrgs >= Cardinality(Accounts)

VARIABLES
  accounts,    \* users
  orgs,        \* organizations that exist
  created,     \* organizations created so far
  role,        \* organization-members
  app,         \* apps: the organization, or 0
  deletedOrg,  \* accounts with a row of deleted-organizations in its cooldown
  removed,     \* rows of deleted-organization-members in their cooldown
  submitted,   \* requests submitted so far
  request,     \* requests between their check and their write
  overlapped   \* history: accounts that ran two deletions of organizations at once

workVars == <<accounts, orgs, created, role, app, deletedOrg, removed, submitted, request, overlapped>>
workRows == <<accounts, orgs, created, role, app, deletedOrg, removed>>

Orgs == 1..MaxOrgs
Roles == {"none", "member", "admin", "owner"}
NoRequest == [op |-> "none"]
Personal == CHOOSE f \in [Accounts -> 1..Cardinality(Accounts)] :
                 \A a, b \in Accounts : f[a] = f[b] => a = b

WorkInit ==
  /\ accounts = Accounts
  /\ orgs = 1..Cardinality(Accounts) /\ created = Cardinality(Accounts)
  /\ role = [o \in Orgs |-> [u \in Accounts |-> IF Personal[u] = o THEN "owner" ELSE "none"]]
  /\ app = [a \in AppIds |-> 0]
  /\ deletedOrg = {} /\ removed = {} /\ overlapped = {}
  /\ submitted = 0 /\ request = [r \in Requests |-> NoRequest]

Owned(u) == {o \in orgs : role[o][u] = "owner"}
AppsOf(o) == {a \in AppIds : app[a] = o}
Manages(u, o) == role[o][u] \in {"owner", "admin"}    \* verifyOrgAccess by default

Submit(r, fields) ==
  /\ request[r].op = "none" /\ submitted < MaxRequests
  /\ submitted' = submitted + 1
  /\ request' = [request EXCEPT ![r] = fields]
  /\ UNCHANGED workRows
Doing(r, op) == request[r].op = op /\ request' = [request EXCEPT ![r] = NoRequest] /\ UNCHANGED submitted
\* The write fails: nothing of its transaction stays.
Refuse == UNCHANGED <<workRows, overlapped>>
-----------------------------------------------------------------------------
(* Creation of an organization *)

\* (Without the limit.)
MayAlwaysCreate(u) == u \notin deletedOrg

\* The reads of the hook see committed rows only.
MayCreate(u) == Cardinality(Owned(u)) < MaxOwned /\ u \notin deletedOrg

CreateOrganization(r, u) ==
  /\ u \in accounts /\ MayCreate(u)
  /\ Submit(r, [op |-> "create", user |-> u])
  /\ UNCHANGED overlapped

InsertOrganization(r) ==
  LET u == request[r].user IN
  /\ Doing(r, "create")
  /\ IF u \in accounts /\ created < MaxOrgs
       THEN /\ created' = created + 1 /\ orgs' = orgs \cup {created + 1}
            /\ role' = [role EXCEPT ![created + 1][u] = "owner"]
            /\ UNCHANGED <<accounts, app, deletedOrg, removed, overlapped>>
       ELSE Refuse
-----------------------------------------------------------------------------
(* Its deletion *)

DeletionOf(u) == {r \in Requests : request[r].op = "delete" /\ request[r].user = u}

\* (Without the count of the owned organizations.)
DeleteAnyOrganization(r, u, o) ==
  /\ u \in accounts /\ o \in orgs /\ role[o][u] = "owner"
  /\ Submit(r, [op |-> "delete", user |-> u, org |-> o])
  /\ overlapped' = IF DeletionOf(u) = {} THEN overlapped ELSE overlapped \cup {u}

DeleteOrganization(r, u, o) ==
  /\ u \in accounts /\ o \in orgs /\ role[o][u] = "owner"
  /\ Cardinality(Owned(u)) > 1
  /\ Submit(r, [op |-> "delete", user |-> u, org |-> o])
  /\ overlapped' = IF DeletionOf(u) = {} THEN overlapped ELSE overlapped \cup {u}

\* The rows that go with organizations, and the records their hooks write.
Erase(gone, by, people) ==
  /\ orgs' = orgs \ gone
  /\ role' = [o \in Orgs |-> [u \in Accounts |-> IF o \in gone \/ u \in people THEN "none" ELSE role[o][u]]]
  /\ app' = [a \in AppIds |-> IF app[a] \in gone THEN 0 ELSE app[a]]
  /\ deletedOrg' = IF gone = {} THEN deletedOrg ELSE deletedOrg \cup {by}
  /\ removed' = removed \cup {m \in Orgs \X Accounts :
                                role[m[1]][m[2]] # "none" /\ (m[1] \in gone \/ m[2] \in people)}

EraseOrganization(r) ==
  LET o == request[r].org IN
  /\ Doing(r, "delete")
  /\ IF o \in orgs
       THEN Erase({o}, request[r].user, {}) /\ UNCHANGED <<accounts, created, overlapped>>
       ELSE Refuse
-----------------------------------------------------------------------------
(* Members *)

AddMember(r, u, o, t, as) ==
  /\ o \in orgs /\ Manages(u, o) /\ as \in {"admin", "member"}
  /\ t \in accounts /\ role[o][t] = "none" /\ <<o, t>> \notin removed
  /\ Submit(r, [op |-> "add", org |-> o, target |-> t, role |-> as])
  /\ UNCHANGED overlapped

InsertMember(r) ==
  LET o == request[r].org  t == request[r].target IN
  /\ Doing(r, "add")
  /\ IF o \in orgs /\ t \in accounts /\ role[o][t] = "none"
       THEN /\ role' = [role EXCEPT ![o][t] = request[r].role]
            /\ UNCHANGED <<accounts, orgs, created, app, deletedOrg, removed, overlapped>>
       ELSE Refuse

\* Owners do not leave; admins remove members and themselves; members themselves.
RemoveMember(r, u, o, t) ==
  /\ o \in orgs /\ role[o][u] # "none" /\ role[o][t] # "none"
  /\ role[o][u] = "member" => t = u
  /\ role[o][u] = "owner" => t # u
  /\ role[o][u] = "admin" /\ t # u => role[o][t] = "member"
  /\ Submit(r, [op |-> "remove", org |-> o, target |-> t])
  /\ UNCHANGED overlapped

DeleteMember(r) ==
  LET o == request[r].org  t == request[r].target IN
  /\ Doing(r, "remove")
  /\ IF role[o][t] # "none"
       THEN /\ role' = [role EXCEPT ![o][t] = "none"]
            /\ removed' = removed \cup {<<o, t>>}
            /\ UNCHANGED <<accounts, orgs, created, app, deletedOrg, overlapped>>
       ELSE Refuse

\* (Without the check that it is not the caller's own role.)
UpdateAnyRole(r, u, o, t, as) ==
  /\ o \in orgs /\ role[o][u] = "owner" /\ as \in {"admin", "member"}
  /\ role[o][t] # "none"
  /\ Submit(r, [op |-> "role", org |-> o, target |-> t, role |-> as])
  /\ UNCHANGED overlapped

UpdateRole(r, u, o, t, as) ==
  /\ o \in orgs /\ role[o][u] = "owner" /\ as \in {"admin", "member"}
  /\ role[o][t] # "none" /\ t # u
  /\ Submit(r, [op |-> "role", org |-> o, target |-> t, role |-> as])
  /\ UNCHANGED overlapped

WriteRole(r) ==
  LET o == request[r].org  t == request[r].target IN
  /\ Doing(r, "role")
  /\ IF role[o][t] # "none"
       THEN /\ role' = [role EXCEPT ![o][t] = request[r].role]
            /\ UNCHANGED <<accounts, orgs, created, app, deletedOrg, removed, overlapped>>
       ELSE Refuse
-----------------------------------------------------------------------------
(* Apps *)

CreateApp(r, u, o) ==
  /\ o \in orgs /\ Manages(u, o)
  /\ Cardinality(AppsOf(o)) < MaxApps
  /\ Submit(r, [op |-> "app", org |-> o])
  /\ UNCHANGED overlapped

InsertApp(r) ==
  LET o == request[r].org IN
  /\ Doing(r, "app")
  /\ IF o \in orgs /\ \E a \in AppIds : app[a] = 0
       THEN \E a \in AppIds :
              /\ app[a] = 0
              /\ app' = [app EXCEPT ![a] = o]
              /\ UNCHANGED <<accounts, orgs, created, role, deletedOrg, removed, overlapped>>
       ELSE Refuse

DeleteApp(u, a) ==
  /\ app[a] # 0 /\ Manages(u, app[a])
  /\ app' = [app EXCEPT ![a] = 0]
  /\ UNCHANGED <<accounts, orgs, created, role, deletedOrg, removed, submitted, request, overlapped>>
-----------------------------------------------------------------------------
(* Accounts *)

\* Refused while an app of an owned organization is switched on, which is not
\* kept here: an app may be off.
DeleteAccount(r, u) ==
  /\ u \in accounts
  /\ Submit(r, [op |-> "account", user |-> u])
  /\ UNCHANGED overlapped

\* (The cascade leaves the organizations the account owns.)
EraseAccountOnly(r) ==
  LET u == request[r].user IN
  /\ Doing(r, "account")
  /\ IF u \in accounts \ Admins
       THEN Erase({}, u, {u}) /\ accounts' = accounts \ {u} /\ UNCHANGED <<created, overlapped>>
       ELSE Refuse

\* The owned organizations go in the account's transaction, which fails as a
\* whole if one of them cannot be deleted.
EraseAccount(r) ==
  LET u == request[r].user IN
  /\ Doing(r, "account")
  /\ IF u \in accounts \ Admins
       THEN Erase(Owned(u), u, {u}) /\ accounts' = accounts \ {u} /\ UNCHANGED <<created, overlapped>>
       ELSE Refuse

RequestFails(r) == request[r].op # "none" /\ Doing(r, request[r].op) /\ Refuse

\* A day later.
Cooldowns ==
  /\ deletedOrg \cup removed # {}
  /\ deletedOrg' = {} /\ removed' = {}
  /\ UNCHANGED <<accounts, orgs, created, role, app, submitted, request, overlapped>>

WorkNext ==
  \/ \E r \in Requests :
       \/ InsertOrganization(r) \/ EraseOrganization(r) \/ InsertMember(r) \/ DeleteMember(r) \/ WriteRole(r)
       \/ InsertApp(r) \/ EraseAccount(r) \/ RequestFails(r)
       \/ \E u \in Accounts :
            \/ CreateOrganization(r, u) \/ DeleteAccount(r, u)
            \/ \E o \in Orgs : DeleteOrganization(r, u, o) \/ CreateApp(r, u, o)
            \/ \E o \in Orgs, t \in Accounts : RemoveMember(r, u, o, t)
            \/ \E o \in Orgs, t \in Accounts, as \in Roles : AddMember(r, u, o, t, as) \/ UpdateRole(r, u, o, t, as)
  \/ \E u \in Accounts, a \in AppIds : DeleteApp(u, a)
  \/ Cooldowns

WorkSpec == WorkInit /\ [][WorkNext]_workVars
-----------------------------------------------------------------------------
(* Properties *)

WorkTypeOK ==
  /\ accounts \subseteq Accounts /\ created \in 0..MaxOrgs /\ orgs \subseteq 1..created
  /\ role \in [Orgs -> [Accounts -> Roles]]
  /\ app \in [AppIds -> 0..MaxOrgs]
  /\ deletedOrg \subseteq Accounts /\ removed \subseteq Orgs \X Accounts
  /\ overlapped \subseteq Accounts

\* An organization has exactly one owner, an account that exists.
OneOwner == \A o \in orgs : Cardinality({u \in accounts : role[o][u] = "owner"}) = 1

\* Nothing is left of an organization or an account that is gone.
NoOrphans ==
  /\ \A o \in Orgs, u \in Accounts : role[o][u] # "none" => o \in orgs /\ u \in accounts
  /\ \A a \in AppIds : app[a] # 0 => app[a] \in orgs

\* An account keeps at least one organization, unless it deleted two of them at
\* the same time: each deletion then counted the other's.
LastOrganizationKept == \A u \in accounts \ overlapped : Owned(u) # {}

\* Whatever two requests interleave, every organization has its owner, every
\* account an organization, and no row outlives what it belongs to.
Ownership == OneOwner /\ NoOrphans /\ LastOrganizationKept

\* The limits are checked before the write, so simultaneous requests overrun
\* them, but only by the requests that were in flight at once.
InFlight(ops, o, u) == {r \in Requests : /\ request[r].op = ops
                                         /\ ops = "create" => request[r].user = u
                                         /\ ops = "app" => request[r].org = o}
LimitsOverrunByRacesOnly ==
  LET others == Cardinality(Requests) - 1 IN
  /\ \A u \in accounts : Cardinality(Owned(u)) + Cardinality(InFlight("create", 0, u)) <= MaxOwned + others
  /\ \A o \in orgs : Cardinality(AppsOf(o)) + Cardinality(InFlight("app", o, 0)) <= MaxApps + others

\* Requests that interleave neither orphan anything nor overrun a limit by more
\* than the requests in flight.
WorkspaceSound == Ownership /\ LimitsOverrunByRacesOnly
=============================================================================
