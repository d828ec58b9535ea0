--------------------------- MODULE WorkspaceProofs --------------------------
(***************************************************************************)
(* What is proved of organizations, members and accounts, for any number   *)
(* of accounts, requests and apps, and any limits; and of the file of a    *)
(* Cloud transfer, for any number of records; and that the run in which    *)
(* both are checked beside a transaction is no other system.               *)
(***************************************************************************)
EXTENDS MCAwaited, FiniteSetTheorems, FunctionTheorems, SequenceTheorems, TLAPS

\* The requests between their check and their write.
Operation ==
  {NoRequest}
  \cup [op : {"create", "account"}, user : Accounts]
  \cup [op : {"delete"}, user : Accounts, org : Orgs]
  \cup [op : {"add", "role"}, org : Orgs, target : Accounts, role : {"admin", "member"}]
  \cup [op : {"remove"}, org : Orgs, target : Accounts]
  \cup [op : {"app"}, org : Orgs]

WorkTyped ==
  /\ accounts \subseteq Accounts /\ created \in 0..MaxOrgs /\ orgs \subseteq 1..created
  /\ role \in [Orgs -> [Accounts -> Roles]]
  /\ app \in [AppIds -> 0..MaxOrgs]
  /\ deletedOrg \subseteq Accounts /\ removed \subseteq Orgs \X Accounts
  /\ overlapped \subseteq Accounts
  /\ request \in [Requests -> Operation]

\* An organization that exists has one owner, and nothing else does.
SoleOwner == \A o \in orgs : \E u \in accounts : \A w \in Accounts : role[o][w] = "owner" <=> w = u

\* Nobody becomes the owner of an organization that was there when a request
\* was checked: who was no owner then is none when it is written.
TargetsOwnNothing ==
  \A r \in Requests :
    /\ request[r].op \in {"role", "remove"} =>
         request[r].org <= created /\ role[request[r].org][request[r].target] # "owner"
    /\ request[r].op = "delete" =>
         /\ request[r].org <= created
         /\ \A w \in Accounts \ {request[r].user} : role[request[r].org][w] # "owner"

\* An account that did not overlap its deletions deletes one organization at a
\* time, and has another.
DeletionsApart ==
  \A u \in accounts \ overlapped :
    /\ Owned(u) # {}
    /\ \A r \in DeletionOf(u) : Owned(u) \ {request[r].org} # {}
    /\ \A r, s \in DeletionOf(u) : r = s

WorkInv == WorkTyped /\ SoleOwner /\ NoOrphans /\ TargetsOwnNothing /\ DeletionsApart /\ LimitsOverrunByRacesOnly

-----------------------------------------------------------------------------
(* Types, and what one step changes *)

\* A set, and what it is after an element came or went.
LEMMA CountMoved ==
  ASSUME NEW S, IsFiniteSet(S), NEW A \in SUBSET S, NEW B \in SUBSET S
  PROVE  /\ Cardinality(A) \in Nat /\ Cardinality(B) \in Nat
         /\ B \subseteq A => Cardinality(B) <= Cardinality(A)
         /\ \A r \in A : B \subseteq A \ {r} => Cardinality(B) + 1 <= Cardinality(A)
         /\ \A r : B \subseteq A \cup {r} => Cardinality(B) <= Cardinality(A) + 1
<1>1. IsFiniteSet(A) /\ IsFiniteSet(B) /\ Cardinality(A) \in Nat /\ Cardinality(B) \in Nat
  BY FS_Subset, FS_CardinalityType
<1>2. B \subseteq A => Cardinality(B) <= Cardinality(A)
  BY <1>1, FS_Subset
<1>3. ASSUME NEW r \in A, B \subseteq A \ {r}
      PROVE  Cardinality(B) + 1 <= Cardinality(A)
  <2>1. IsFiniteSet(A \ {r}) /\ Cardinality(A \ {r}) = Cardinality(A) - 1
    BY <1>1, FS_RemoveElement
  <2>2. Cardinality(B) <= Cardinality(A \ {r})
    BY <1>3, <2>1, FS_Subset
  <2> QED
    BY <1>1, <2>1, <2>2
<1>4. ASSUME NEW r, B \subseteq A \cup {r}
      PROVE  Cardinality(B) <= Cardinality(A) + 1
  <2>1. IsFiniteSet(A \cup {r}) /\ Cardinality(A \cup {r}) = IF r \in A THEN Cardinality(A) ELSE Cardinality(A) + 1
    BY <1>1, FS_AddElement
  <2>2. Cardinality(B) <= Cardinality(A \cup {r})
    BY <1>4, <2>1, FS_Subset
  <2> QED
    BY <1>1, <2>1, <2>2
<1> QED
  BY <1>1, <1>2, <1>3, <1>4

\* What a request carries between its check and its write.
LEMMA Shape ==
  ASSUME WorkTyped, NEW r \in Requests
  PROVE  /\ request[r] \in Operation
         /\ request[r].op \in {"none", "create", "account", "delete", "add", "role", "remove", "app"}
         /\ request[r].op \in {"create", "account", "delete"} => request[r].user \in Accounts
         /\ request[r].op \in {"delete", "add", "role", "remove", "app"} => request[r].org \in Orgs
         /\ request[r].op \in {"add", "role", "remove"} => request[r].target \in Accounts
         /\ request[r].op \in {"add", "role"} => request[r].role \in {"admin", "member"}
<1>1. request[r] \in Operation
  BY DEF WorkTyped
<1> QED
  BY <1>1 DEF Operation, NoRequest

\* A request is submitted with what its check saw, and the rows stay.
LEMMA Submits ==
  ASSUME WorkTyped, NEW r \in Requests, NEW fields \in Operation, Submit(r, fields)
  PROVE  /\ UNCHANGED workRows /\ request[r].op = "none" /\ request'[r] = fields
         /\ \A x \in Requests \ {r} : request'[x] = request[x]
         /\ request' \in [Requests -> Operation]
  BY DEF Submit, WorkTyped

\* A request ends.
LEMMA Does ==
  ASSUME WorkTyped, NEW r \in Requests, NEW op, Doing(r, op)
  PROVE  /\ request[r].op = op /\ request'[r] = NoRequest
         /\ \A x \in Requests \ {r} : request'[x] = request[x]
         /\ request' \in [Requests -> Operation]
  BY DEF Doing, WorkTyped, Operation

\* One role of one organization is written.
OneRole(o, t, as) ==
  /\ role' \in [Orgs -> [Accounts -> Roles]] /\ role'[o][t] = as
  /\ \A p \in Orgs, u \in Accounts : p # o \/ u # t => role'[p][u] = role[p][u]

\* Writing one role into the function leaves its type and every other role.
LEMMA RoleWritten ==
  ASSUME WorkTyped, NEW o \in Orgs, NEW t \in Accounts, NEW as \in Roles, role' = [role EXCEPT ![o][t] = as]
  PROVE  OneRole(o, t, as)
<1>1. role \in [Orgs -> [Accounts -> Roles]] /\ role[o] \in [Accounts -> Roles]
  BY DEF WorkTyped
<1> DEFINE row == [role[o] EXCEPT ![t] = as]
<1>2. row \in [Accounts -> Roles] /\ row[t] = as /\ \A u \in Accounts \ {t} : row[u] = role[o][u]
  BY <1>1
<1>3. role' = [role EXCEPT ![o] = row]
  BY <1>1
<1> HIDE DEF row
<1>4. role' \in [Orgs -> [Accounts -> Roles]] /\ role'[o] = row /\ \A p \in Orgs \ {o} : role'[p] = role[p]
  BY <1>1, <1>2, <1>3
<1> QED
  BY <1>2, <1>4 DEF OneRole

\* What is submitted: the rows stay, a request that was none carries what its
\* check found.
Submitted(r) ==
  /\ UNCHANGED workRows /\ request' \in [Requests -> Operation]
  /\ request[r].op = "none" /\ \A x \in Requests \ {r} : request'[x] = request[x]
  /\ \/ overlapped' = overlapped /\ request'[r].op \in {"create", "add", "role", "remove", "app", "account"}
     \/ /\ request'[r].op = "delete"
        /\ overlapped' = IF DeletionOf(request'[r].user) = {} THEN overlapped ELSE overlapped \cup {request'[r].user}
  /\ request'[r].op = "create" => MayCreate(request'[r].user)
  /\ request'[r].op = "app" => Cardinality(AppsOf(request'[r].org)) < MaxApps
  /\ request'[r].op \in {"role", "remove"} =>
       request'[r].org \in orgs /\ (SoleOwner => role[request'[r].org][request'[r].target] # "owner")
  /\ request'[r].op = "delete" =>
       /\ request'[r].user \in accounts /\ request'[r].org \in Owned(request'[r].user)
       /\ Cardinality(Owned(request'[r].user)) > 1

\* A request that is submitted changes that request only.
LEMMA SubmittedStep ==
  ASSUME WorkTyped, NEW r \in Requests, NEW u \in Accounts, NEW o \in Orgs, NEW t \in Accounts, NEW as \in Roles,
         \/ CreateOrganization(r, u) \/ DeleteAccount(r, u)
         \/ DeleteOrganization(r, u, o) \/ CreateApp(r, u, o)
         \/ RemoveMember(r, u, o, t) \/ AddMember(r, u, o, t, as) \/ UpdateRole(r, u, o, t, as)
  PROVE  Submitted(r)
<1>1. CASE CreateOrganization(r, u)
  <2> DEFINE fields == [op |-> "create", user |-> u]
  <2>1. fields \in Operation /\ fields.op = "create" /\ fields.user = u
    BY DEF Operation
  <2>2. Submit(r, fields)
    BY <1>1 DEF CreateOrganization
  <2> HIDE DEF fields
  <2> QED
    BY <1>1, <2>1, <2>2, Submits DEF CreateOrganization, Submitted
<1>2. CASE DeleteAccount(r, u)
  <2> DEFINE fields == [op |-> "account", user |-> u]
  <2>1. fields \in Operation /\ fields.op = "account"
    BY DEF Operation
  <2>2. Submit(r, fields)
    BY <1>2 DEF DeleteAccount
  <2> HIDE DEF fields
  <2> QED
    BY <1>2, <2>1, <2>2, Submits DEF DeleteAccount, Submitted
<1>3. CASE DeleteOrganization(r, u, o)
  <2> DEFINE fields == [op |-> "delete", user |-> u, org |-> o]
  <2>1. fields \in Operation /\ fields.op = "delete" /\ fields.user = u /\ fields.org = o
    BY DEF Operation
  <2>2. Submit(r, fields)
    BY <1>3 DEF DeleteOrganization
  <2> HIDE DEF fields
  <2> QED
    BY <1>3, <2>1, <2>2, Submits DEF DeleteOrganization, Submitted, Owned
<1>4. CASE CreateApp(r, u, o)
  <2> DEFINE fields == [op |-> "app", org |-> o]
  <2>1. fields \in Operation /\ fields.op = "app" /\ fields.org = o
    BY DEF Operation
  <2>2. Submit(r, fields)
    BY <1>4 DEF CreateApp
  <2> HIDE DEF fields
  <2> QED
    BY <1>4, <2>1, <2>2, Submits DEF CreateApp, Submitted
<1>5. CASE RemoveMember(r, u, o, t)
  <2> DEFINE fields == [op |-> "remove", org |-> o, target |-> t]
  <2>1. fields \in Operation /\ fields.op = "remove" /\ fields.org = o /\ fields.target = t
    BY DEF Operation
  <2>2. Submit(r, fields)
    BY <1>5 DEF RemoveMember
  <2> HIDE DEF fields
  <2>3. SoleOwner => role[o][t] # "owner"
    BY <1>5 DEF RemoveMember, SoleOwner, WorkTyped, Roles
  <2> QED
    BY <1>5, <2>1, <2>2, <2>3, Submits DEF RemoveMember, Submitted
<1>6. CASE AddMember(r, u, o, t, as)
  <2> DEFINE fields == [op |-> "add", org |-> o, target |-> t, role |-> as]
  <2>1. fields \in Operation /\ fields.op = "add"
    BY <1>6 DEF AddMember, Operation
  <2>2. Submit(r, fields)
    BY <1>6 DEF AddMember
  <2> HIDE DEF fields
  <2> QED
    BY <1>6, <2>1, <2>2, Submits DEF AddMember, Submitted
<1>7. CASE UpdateRole(r, u, o, t, as)
  <2> DEFINE fields == [op |-> "role", org |-> o, target |-> t, role |-> as]
  <2>1. fields \in Operation /\ fields.op = "role" /\ fields.org = o /\ fields.target = t
    BY <1>7 DEF UpdateRole, Operation
  <2>2. Submit(r, fields)
    BY <1>7 DEF UpdateRole
  <2> HIDE DEF fields
  <2>3. SoleOwner => role[o][t] # "owner"
    BY <1>7 DEF UpdateRole, SoleOwner
  <2> QED
    BY <1>7, <2>1, <2>2, <2>3, Submits DEF UpdateRole, Submitted
<1> QED
  BY <1>1, <1>2, <1>3, <1>4, <1>5, <1>6, <1>7

\* A request ends, written or refused.
RequestEnded(r) ==
  /\ request' \in [Requests -> Operation] /\ request'[r] = NoRequest
  /\ \A x \in Requests \ {r} : request'[x] = request[x]
  /\ overlapped' = overlapped

RowsTyped ==
  /\ role \in [Orgs -> [Accounts -> Roles]] /\ app \in [AppIds -> 0..MaxOrgs]
  /\ deletedOrg \subseteq Accounts /\ removed \subseteq Orgs \X Accounts

\* What leaves accounts, organizations and their owners as they are.
RowsKept ==
  /\ accounts' = accounts /\ orgs' = orgs /\ created' = created /\ RowsTyped'
  /\ \A o \in Orgs, u \in Accounts :
       /\ role'[o][u] = "owner" <=> role[o][u] = "owner"
       /\ role'[o][u] # "none" => role[o][u] # "none" \/ (o \in orgs /\ u \in accounts)
AppsKept == \A a \in AppIds : app'[a] \in {app[a], 0}
AppAdded(o) ==
  o \in orgs /\ \E a \in AppIds : app'[a] = o /\ \A b \in AppIds \ {a} : app'[b] = app[b]

\* A new organization, with its owner.
Grown(u) ==
  /\ u \in accounts /\ created < MaxOrgs /\ created' = created + 1 /\ orgs' = orgs \cup {created + 1}
  /\ RowsTyped' /\ accounts' = accounts /\ app' = app
  /\ role'[created + 1][u] = "owner"
  /\ \A p \in Orgs, w \in Accounts : p # created + 1 \/ w # u => role'[p][w] = role[p][w]

\* Organizations and accounts that go, with what belongs to them.
Erased(gone, people) ==
  /\ orgs' = orgs \ gone /\ accounts' = accounts \ people /\ created' = created /\ RowsTyped'
  /\ \A o \in Orgs, u \in Accounts : role'[o][u] = IF o \in gone \/ u \in people THEN "none" ELSE role[o][u]
  /\ \A a \in AppIds : app'[a] = IF app[a] \in gone THEN 0 ELSE app[a]

\* The rows after a cascade.
LEMMA Cascade ==
  ASSUME WorkTyped, NEW gone \in SUBSET Orgs, NEW by \in Accounts, NEW people \in SUBSET Accounts, Erase(gone, by, people),
         accounts' = accounts \ people, created' = created
  PROVE  Erased(gone, people)
<1>1. role' \in [Orgs -> [Accounts -> Roles]]
  <2>1. "none" \in Roles /\ \A o \in Orgs, u \in Accounts : role[o][u] \in Roles
    BY DEF WorkTyped, Roles
  <2> DEFINE Row(o) == [u \in Accounts |-> IF o \in gone \/ u \in people THEN "none" ELSE role[o][u]]
  <2>2. \A o \in Orgs : Row(o) \in [Accounts -> Roles]
    BY <2>1
  <2>3. role' = [o \in Orgs |-> Row(o)]
    BY DEF Erase
  <2> HIDE DEF Row
  <2> QED
    BY <2>2, <2>3
<1>3. app' \in [AppIds -> 0..MaxOrgs]
  BY WorkspaceAssumption DEF Erase, WorkTyped
<1>2. deletedOrg' \subseteq Accounts /\ removed' \subseteq Orgs \X Accounts
  BY DEF Erase, WorkTyped
<1> QED
  BY <1>1, <1>2, <1>3 DEF Erase, Erased, RowsTyped

\* A write that is refused, or fails.
LEMMA Refused ==
  ASSUME WorkTyped, Refuse
  PROVE  RowsKept /\ AppsKept
  BY DEF Refuse, workRows, RowsKept, AppsKept, RowsTyped, WorkTyped

\* One role is written, of somebody who is no owner.
LEMMA RoleKept ==
  ASSUME WorkTyped, NEW o \in Orgs, NEW t \in Accounts, NEW as \in Roles \ {"owner"},
         role[o][t] # "owner", as = "none" \/ role[o][t] # "none" \/ (o \in orgs /\ t \in accounts),
         role' = [role EXCEPT ![o][t] = as], removed' \subseteq Orgs \X Accounts,
         UNCHANGED <<accounts, orgs, created, app, deletedOrg>>
  PROVE  RowsKept /\ AppsKept
<1>1. OneRole(o, t, as)
  BY RoleWritten
<1> USE DEF OneRole
<1>2. RowsTyped' /\ AppsKept
  BY <1>1 DEF RowsTyped, WorkTyped, AppsKept
<1>3. ASSUME NEW p \in Orgs, NEW u \in Accounts
      PROVE  /\ role'[p][u] = "owner" <=> role[p][u] = "owner"
             /\ role'[p][u] # "none" => role[p][u] # "none" \/ (p \in orgs /\ u \in accounts)
  <2>1. CASE p = o /\ u = t
    BY <1>1, <2>1
  <2>2. CASE p # o \/ u # t
    BY <1>1, <2>2
  <2> QED
    BY <2>1, <2>2
<1> QED
  BY <1>2, <1>3 DEF RowsKept

\* What a write does.
LEMMA WriteStep ==
  ASSUME WorkTyped, TargetsOwnNothing, NEW r \in Requests,
         \/ InsertOrganization(r) \/ EraseOrganization(r) \/ InsertMember(r) \/ DeleteMember(r) \/ WriteRole(r)
         \/ InsertApp(r) \/ EraseAccount(r) \/ RequestFails(r)
  PROVE  /\ RequestEnded(r)
         /\ \/ RowsKept /\ AppsKept
            \/ request[r].op = "app" /\ RowsKept /\ AppAdded(request[r].org)
            \/ request[r].op = "create" /\ Grown(request[r].user)
            \/ request[r].op = "delete" /\ request[r].org \in orgs /\ Erased({request[r].org}, {})
            \/ request[r].op = "account" /\ Erased(Owned(request[r].user), {request[r].user})
<1>0. orgs \subseteq Orgs /\ Roles = {"none", "member", "admin", "owner"} /\ created \in 0..MaxOrgs /\ MaxOrgs \in Nat
  BY WorkspaceAssumption DEF WorkTyped, Orgs, Roles
<1>1. CASE InsertOrganization(r)
  <2> DEFINE u == request[r].user
  <2>1. Doing(r, "create")
    BY <1>1 DEF InsertOrganization
  <2>2. RequestEnded(r) /\ request[r].op = "create" /\ u \in Accounts
    BY <1>1, <2>1, Does, Shape DEF InsertOrganization, RequestEnded, Refuse
  <2>3. CASE u \in accounts /\ created < MaxOrgs
    <3>1. created + 1 \in Orgs
      BY <1>0, <2>3 DEF Orgs
    <3>2. /\ created' = created + 1 /\ orgs' = orgs \cup {created + 1}
          /\ role' = [role EXCEPT ![created + 1][u] = "owner"]
          /\ UNCHANGED <<accounts, app, deletedOrg, removed>>
      BY <1>1, <2>3 DEF InsertOrganization
    <3>3. Grown(u)
      <4>1. /\ role' \in [Orgs -> [Accounts -> Roles]] /\ role'[created + 1][u] = "owner"
            /\ \A p \in Orgs, w \in Accounts : p # created + 1 \/ w # u => role'[p][w] = role[p][w]
        <5> DEFINE n == created + 1
        <5>1. n \in Orgs /\ u \in Accounts /\ "owner" \in Roles /\ role' = [role EXCEPT ![n][u] = "owner"]
          BY <1>0, <2>2, <3>1, <3>2
        <5> HIDE DEF n, u
        <5>2. OneRole(n, u, "owner")
          BY <5>1, RoleWritten
        <5> QED
          BY <5>2 DEF n, OneRole
      <4> QED
        BY <2>3, <3>2, <4>1 DEF Grown, RowsTyped, WorkTyped
    <3> QED
      BY <2>2, <3>3
  <2>4. CASE ~(u \in accounts /\ created < MaxOrgs)
    BY <1>1, <2>2, <2>4, Refused DEF InsertOrganization
  <2> QED
    BY <2>3, <2>4
<1>2. CASE EraseOrganization(r)
  <2>1. Doing(r, "delete")
    BY <1>2 DEF EraseOrganization
  <2>2. RequestEnded(r) /\ request[r].op = "delete" /\ request[r].org \in Orgs /\ request[r].user \in Accounts
    BY <1>2, <2>1, Does, Shape DEF EraseOrganization, RequestEnded, Refuse
  <2>3. CASE request[r].org \in orgs
    <3>1. Erase({request[r].org}, request[r].user, {}) /\ accounts' = accounts /\ created' = created
      BY <1>2, <2>3 DEF EraseOrganization
    <3>2. Erased({request[r].org}, {})
      BY <2>2, <3>1, Cascade
    <3> QED
      BY <2>2, <2>3, <3>2
  <2>4. CASE request[r].org \notin orgs
    BY <1>2, <2>2, <2>4, Refused DEF EraseOrganization
  <2> QED
    BY <2>3, <2>4
<1>3. CASE InsertMember(r)
  <2> DEFINE o == request[r].org
             t == request[r].target
  <2>1. Doing(r, "add")
    BY <1>3 DEF InsertMember
  <2>2. RequestEnded(r) /\ o \in Orgs /\ t \in Accounts /\ request[r].role \in {"admin", "member"}
    BY <1>3, <2>1, Does, Shape DEF InsertMember, RequestEnded, Refuse
  <2>3. CASE o \in orgs /\ t \in accounts /\ role[o][t] = "none"
    BY <1>0, <1>3, <2>2, <2>3, RoleKept DEF InsertMember, WorkTyped
  <2>4. CASE ~(o \in orgs /\ t \in accounts /\ role[o][t] = "none")
    BY <1>3, <2>2, <2>4, Refused DEF InsertMember
  <2> QED
    BY <2>3, <2>4
<1>4. CASE DeleteMember(r)
  <2> DEFINE o == request[r].org
             t == request[r].target
  <2>1. Doing(r, "remove")
    BY <1>4 DEF DeleteMember
  <2>2. RequestEnded(r) /\ o \in Orgs /\ t \in Accounts /\ role[o][t] # "owner"
    BY <1>4, <2>1, Does, Shape DEF DeleteMember, RequestEnded, Refuse, TargetsOwnNothing
  <2>3. CASE role[o][t] # "none"
    <3>1. removed' \subseteq Orgs \X Accounts
      BY <1>4, <2>2, <2>3 DEF DeleteMember, WorkTyped
    <3> QED
      <4>1. "none" \in Roles \ {"owner"}
        BY <1>0
      <4>2. role' = [role EXCEPT ![o][t] = "none"] /\ UNCHANGED <<accounts, orgs, created, app, deletedOrg>>
        BY <1>4, <2>3 DEF DeleteMember
      <4>3. RowsKept /\ AppsKept
        BY <2>2, <3>1, <4>1, <4>2, RoleKept
      <4> QED
        BY <2>2, <4>3
  <2>4. CASE role[o][t] = "none"
    BY <1>4, <2>2, <2>4, Refused DEF DeleteMember
  <2> QED
    BY <2>3, <2>4
<1>5. CASE WriteRole(r)
  <2> DEFINE o == request[r].org
             t == request[r].target
  <2>1. Doing(r, "role")
    BY <1>5 DEF WriteRole
  <2>2. RequestEnded(r) /\ o \in Orgs /\ t \in Accounts /\ role[o][t] # "owner" /\ request[r].role \in {"admin", "member"}
    BY <1>5, <2>1, Does, Shape DEF WriteRole, RequestEnded, Refuse, TargetsOwnNothing
  <2>3. CASE role[o][t] # "none"
    BY <1>0, <1>5, <2>2, <2>3, RoleKept DEF WriteRole, WorkTyped
  <2>4. CASE role[o][t] = "none"
    BY <1>5, <2>2, <2>4, Refused DEF WriteRole
  <2> QED
    BY <2>3, <2>4
<1>6. CASE InsertApp(r)
  <2> DEFINE o == request[r].org
  <2>1. Doing(r, "app")
    BY <1>6 DEF InsertApp
  <2>2. RequestEnded(r) /\ request[r].op = "app" /\ o \in Orgs
    BY <1>6, <2>1, Does, Shape DEF InsertApp, RequestEnded, Refuse
  <2>3. CASE o \in orgs /\ \E a \in AppIds : app[a] = 0
    <3>1. PICK a \in AppIds :
            app' = [app EXCEPT ![a] = o] /\ UNCHANGED <<accounts, orgs, created, role, deletedOrg, removed>>
      BY <1>6, <2>3 DEF InsertApp
    <3>2. app' \in [AppIds -> 0..MaxOrgs] /\ app'[a] = o /\ \A b \in AppIds \ {a} : app'[b] = app[b]
      BY <2>2, <3>1 DEF WorkTyped, Orgs
    <3>3. RowsKept
      BY <3>1, <3>2 DEF RowsKept, RowsTyped, WorkTyped
    <3> QED
      BY <2>2, <2>3, <3>2, <3>3 DEF AppAdded
  <2>4. CASE ~(o \in orgs /\ \E a \in AppIds : app[a] = 0)
    BY <1>6, <2>2, <2>4, Refused DEF InsertApp
  <2> QED
    BY <2>3, <2>4
<1>7. CASE EraseAccount(r)
  <2> DEFINE u == request[r].user
  <2>1. Doing(r, "account")
    BY <1>7 DEF EraseAccount
  <2>2. RequestEnded(r) /\ request[r].op = "account" /\ u \in Accounts
    BY <1>7, <2>1, Does, Shape DEF EraseAccount, RequestEnded, Refuse
  <2>3. CASE u \in accounts \ Admins
    <3>1. Erase(Owned(u), u, {u}) /\ accounts' = accounts \ {u} /\ created' = created
      BY <1>7, <2>3 DEF EraseAccount
    <3>2. Owned(u) \in SUBSET Orgs /\ {u} \in SUBSET Accounts
      BY <1>0, <2>2 DEF Owned
    <3>3. Erased(Owned(u), {u})
      BY <2>2, <3>1, <3>2, Cascade
    <3> QED
      BY <2>2, <3>3
  <2>4. CASE u \notin accounts \ Admins
    BY <1>7, <2>2, <2>4, Refused DEF EraseAccount
  <2> QED
    BY <2>3, <2>4
<1>8. CASE RequestFails(r)
  <2>1. Doing(r, request[r].op) /\ Refuse
    BY <1>8 DEF RequestFails
  <2> QED
    BY <2>1, Does, Refused DEF RequestEnded, Refuse
<1> QED
  BY <1>1, <1>2, <1>3, <1>4, <1>5, <1>6, <1>7, <1>8

\* Every step submits, writes, deletes an app, ends a cooldown, or does nothing.
LEMMA WorkKinds ==
  ASSUME WorkTyped, TargetsOwnNothing, [WorkNext]_workVars
  PROVE  \/ \E r \in Requests : Submitted(r)
         \/ \E r \in Requests :
              /\ RequestEnded(r)
              /\ \/ RowsKept /\ AppsKept
                 \/ request[r].op = "app" /\ RowsKept /\ AppAdded(request[r].org)
                 \/ request[r].op = "create" /\ Grown(request[r].user)
                 \/ request[r].op = "delete" /\ request[r].org \in orgs /\ Erased({request[r].org}, {})
                 \/ request[r].op = "account" /\ Erased(Owned(request[r].user), {request[r].user})
         \/ RowsKept /\ AppsKept /\ request' = request /\ overlapped' = overlapped
<1>1. ASSUME NEW u \in Accounts, NEW a \in AppIds, DeleteApp(u, a)
      PROVE  RowsKept /\ AppsKept /\ request' = request /\ overlapped' = overlapped
  <2>1. app' = [app EXCEPT ![a] = 0] /\ app \in [AppIds -> 0..MaxOrgs] /\ 0 \in 0..MaxOrgs
    BY <1>1, WorkspaceAssumption DEF DeleteApp, WorkTyped
  <2>2. app' \in [AppIds -> 0..MaxOrgs] /\ AppsKept
    BY <2>1 DEF AppsKept
  <2> QED
    BY <1>1, <2>2 DEF DeleteApp, RowsKept, RowsTyped, WorkTyped
<1>2. CASE Cooldowns
  BY <1>2 DEF Cooldowns, RowsKept, AppsKept, RowsTyped, WorkTyped
<1>3. CASE UNCHANGED workVars
  BY <1>3 DEF workVars, RowsKept, AppsKept, RowsTyped, WorkTyped
<1>4. ASSUME NEW r \in Requests, NEW u \in Accounts,
             \/ CreateOrganization(r, u) \/ DeleteAccount(r, u)
             \/ \E o \in Orgs : DeleteOrganization(r, u, o) \/ CreateApp(r, u, o)
             \/ \E o \in Orgs, t \in Accounts : RemoveMember(r, u, o, t)
             \/ \E o \in Orgs, t \in Accounts, as \in Roles : AddMember(r, u, o, t, as) \/ UpdateRole(r, u, o, t, as)
      PROVE  Submitted(r)
  <2>1. "none" \in Roles
    BY DEF Roles
  <2>2. CASE CreateOrganization(r, u) \/ DeleteAccount(r, u)
    <3>1. Cardinality(Accounts) \in Nat /\ Cardinality(Accounts) # 0
      BY WorkspaceAssumption, FS_CardinalityType, FS_EmptySet
    <3>2. 1 \in Orgs
      BY <3>1, WorkspaceAssumption DEF Orgs
    <3> QED
      BY <2>1, <2>2, <3>2, SubmittedStep
  <2>3. CASE \E o \in Orgs : DeleteOrganization(r, u, o) \/ CreateApp(r, u, o)
    BY <2>1, <2>3, SubmittedStep
  <2>4. CASE \E o \in Orgs, t \in Accounts : RemoveMember(r, u, o, t)
    BY <2>1, <2>4, SubmittedStep
  <2>5. CASE \E o \in Orgs, t \in Accounts, as \in Roles : AddMember(r, u, o, t, as) \/ UpdateRole(r, u, o, t, as)
    BY <2>5, SubmittedStep
  <2> QED
    BY <1>4, <2>2, <2>3, <2>4, <2>5
<1> QED
  BY <1>1, <1>2, <1>3, <1>4, WriteStep DEF WorkNext

-----------------------------------------------------------------------------
(* The invariant, part by part *)

\* Every step keeps the types.
LEMMA WorkTypedStep ==
  ASSUME WorkTyped, TargetsOwnNothing, [WorkNext]_workVars
  PROVE  WorkTyped'
<1>0. created \in 0..MaxOrgs /\ MaxOrgs \in Nat /\ orgs \subseteq 1..created /\ accounts \subseteq Accounts
  BY WorkspaceAssumption DEF WorkTyped
<1>1. ASSUME NEW r \in Requests, Submitted(r)
      PROVE  WorkTyped'
  <2>1. overlapped' \subseteq Accounts
    BY <1>0, <1>1 DEF Submitted, WorkTyped
  <2> QED
    BY <1>1, <2>1 DEF Submitted, workRows, WorkTyped
<1>2. ASSUME RowsKept, request' \in [Requests -> Operation], overlapped' = overlapped
      PROVE  WorkTyped'
  BY <1>2 DEF RowsKept, RowsTyped, WorkTyped
<1>3. ASSUME NEW r \in Requests, RequestEnded(r), NEW u \in Accounts, Grown(u)
      PROVE  WorkTyped'
  <2>0. created < MaxOrgs /\ created' = created + 1 /\ orgs' = orgs \cup {created + 1}
    BY <1>3 DEF Grown
  <2>1. created' \in 0..MaxOrgs /\ orgs' \subseteq 1..created'
    BY <1>0, <2>0
  <2> QED
    BY <1>3, <2>1 DEF Grown, RequestEnded, RowsTyped, WorkTyped
<1>4. ASSUME NEW r \in Requests, RequestEnded(r), NEW gone, NEW people, Erased(gone, people)
      PROVE  WorkTyped'
  BY <1>0, <1>4 DEF Erased, RequestEnded, RowsTyped, WorkTyped
<1>5. request \in [Requests -> Operation]
  BY DEF WorkTyped
<1> QED
  BY <1>1, <1>2, <1>3, <1>4, <1>5, WorkKinds, Shape DEF RequestEnded

\* Whoever comes or goes, an organization has one owner, and nothing outlives
\* what it belongs to.
LEMMA OwnersStep ==
  ASSUME WorkTyped, SoleOwner, NoOrphans, TargetsOwnNothing, [WorkNext]_workVars
  PROVE  SoleOwner' /\ NoOrphans'
<1>0. /\ created \in 0..MaxOrgs /\ orgs \subseteq 1..created /\ orgs \subseteq Orgs /\ accounts \subseteq Accounts
      /\ MaxOrgs \in Nat /\ 0 \notin orgs
  BY WorkspaceAssumption DEF WorkTyped, Orgs
<1>1. ASSUME NEW r \in Requests, Submitted(r)
      PROVE  SoleOwner' /\ NoOrphans'
  BY <1>1 DEF Submitted, workRows, SoleOwner, NoOrphans
<1>2. ASSUME RowsKept, AppsKept \/ \E o \in orgs : AppAdded(o)
      PROVE  SoleOwner' /\ NoOrphans'
  <2>1. SoleOwner'
    BY <1>0, <1>2 DEF RowsKept, SoleOwner
  <2>2. \A o \in Orgs, u \in Accounts : role'[o][u] # "none" => o \in orgs' /\ u \in accounts'
    BY <1>2 DEF RowsKept, NoOrphans
  <2>3. \A a \in AppIds : app'[a] # 0 => app'[a] \in orgs'
    BY <1>2 DEF RowsKept, AppsKept, AppAdded, NoOrphans
  <2> QED
    BY <2>1, <2>2, <2>3 DEF NoOrphans
<1>3. ASSUME NEW u \in Accounts, Grown(u)
      PROVE  SoleOwner' /\ NoOrphans'
  <2> DEFINE new == created + 1
  <2>1. new \in Orgs /\ new \notin orgs /\ new # 0
    BY <1>0, <1>3 DEF Grown, Orgs
  <2>2. /\ u \in accounts /\ orgs' = orgs \cup {new} /\ accounts' = accounts /\ app' = app /\ role'[new][u] = "owner"
        /\ \A p \in Orgs, w \in Accounts : p # new \/ w # u => role'[p][w] = role[p][w]
    BY <1>3 DEF Grown
  <2> HIDE DEF new
  <2>3. \A w \in Accounts : role[new][w] = "none"
    BY <2>1 DEF NoOrphans
  <2>4. SoleOwner'
    <3>1. \A w \in Accounts : role'[new][w] = "owner" <=> w = u
      BY <2>1, <2>2, <2>3
    <3>2. ASSUME NEW o \in orgs
          PROVE  \E v \in accounts : \A w \in Accounts : role'[o][w] = "owner" <=> w = v
      BY <1>0, <2>1, <2>2 DEF SoleOwner
    <3> QED
      BY <2>2, <3>1, <3>2 DEF SoleOwner
  <2>5. NoOrphans'
    BY <2>1, <2>2 DEF NoOrphans
  <2> QED
    BY <2>4, <2>5
<1>4. ASSUME NEW gone, NEW people, Erased(gone, people),
             \A o \in orgs \ gone, v \in people : role[o][v] # "owner"
      PROVE  SoleOwner' /\ NoOrphans'
  <2>1. ASSUME NEW o \in orgs'
        PROVE  \E v \in accounts' : \A w \in Accounts : role'[o][w] = "owner" <=> w = v
    <3>1. o \in orgs \ gone /\ o \in Orgs
      BY <1>0, <1>4, <2>1 DEF Erased
    <3>2. PICK v \in accounts : \A w \in Accounts : role[o][w] = "owner" <=> w = v
      BY <3>1 DEF SoleOwner
    <3>3. v \notin people /\ v \in Accounts
      BY <1>0, <1>4, <3>1, <3>2
    <3>4. v \in accounts'
      BY <1>4, <3>3 DEF Erased
    <3>5. \A w \in Accounts : role'[o][w] = "owner" <=> w = v
      BY <1>4, <3>1, <3>2, <3>3 DEF Erased
    <3> QED
      BY <3>4, <3>5
  <2>2. NoOrphans'
    BY <1>4 DEF Erased, NoOrphans
  <2> QED
    BY <2>1, <2>2 DEF SoleOwner
<1>5. ASSUME NEW u
      PROVE  \A o \in orgs \ Owned(u), v \in {u} : role[o][v] # "owner"
  BY DEF Owned
<1> QED
  BY <1>1, <1>2, <1>3, <1>4, <1>5, WorkKinds, Shape DEF AppAdded

\* Who is to be written or deleted does not become an owner.
LEMMA TargetsStep ==
  ASSUME WorkTyped, SoleOwner, TargetsOwnNothing, [WorkNext]_workVars
  PROVE  TargetsOwnNothing'
<1>0. created \in Nat /\ orgs \subseteq 1..created /\ orgs \subseteq Orgs /\ accounts \subseteq Accounts
  BY WorkspaceAssumption DEF WorkTyped, Orgs
<1>1. ASSUME NEW r \in Requests, Submitted(r)
      PROVE  TargetsOwnNothing'
  <2>1. role' = role /\ created' = created
    BY <1>1 DEF Submitted, workRows
  <2>0. \A o \in orgs : o <= created
    BY <1>0
  <2>2. ASSUME request'[r].op \in {"role", "remove"}
        PROVE  request'[r].org <= created /\ role[request'[r].org][request'[r].target] # "owner"
    <3>1. request'[r].org \in orgs
      BY <1>1, <2>2 DEF Submitted
    <3>2. role[request'[r].org][request'[r].target] # "owner"
      BY <1>1, <2>2 DEF Submitted
    <3> QED
      BY <2>0, <3>1, <3>2
  <2>3. ASSUME request'[r].op = "delete"
        PROVE  /\ request'[r].org <= created
               /\ \A w \in Accounts \ {request'[r].user} : role[request'[r].org][w] # "owner"
    <3> DEFINE o == request'[r].org
               u == request'[r].user
    <3>1. o \in orgs /\ role[o][u] = "owner" /\ u \in Accounts
      BY <1>0, <1>1, <2>3 DEF Submitted, Owned
    <3> HIDE DEF o, u
    <3>2. PICK v \in accounts : \A w \in Accounts : role[o][w] = "owner" <=> w = v
      BY <3>1 DEF SoleOwner
    <3>3. \A w \in Accounts \ {u} : role[o][w] # "owner"
      BY <3>1, <3>2
    <3>4. o <= created
      BY <2>0, <3>1
    <3> QED
      BY <3>3, <3>4 DEF o, u
  <2>4. \A x \in Requests \ {r} : request'[x] = request[x]
    BY <1>1 DEF Submitted
  <2> QED
    BY <2>1, <2>2, <2>3, <2>4 DEF TargetsOwnNothing
<1>2. ASSUME created <= created', \A x \in Requests : request'[x] \in {request[x], NoRequest},
             \A o \in Orgs, w \in Accounts : role'[o][w] = "owner" => role[o][w] = "owner" \/ o > created,
             created' \in Nat
      PROVE  TargetsOwnNothing'
  <2> SUFFICES ASSUME NEW x \in Requests, request'[x].op \in {"role", "remove", "delete"}
               PROVE  /\ request'[x].op \in {"role", "remove"} =>
                           /\ request'[x].org <= created'
                           /\ role'[request'[x].org][request'[x].target] # "owner"
                      /\ request'[x].op = "delete" =>
                           /\ request'[x].org <= created'
                           /\ \A w \in Accounts \ {request'[x].user} : role'[request'[x].org][w] # "owner"
    BY DEF TargetsOwnNothing
  <2>1. request'[x] = request[x]
    BY <1>2 DEF NoRequest
  <2>2. request[x].org \in Orgs /\ request[x].org <= created
    BY <2>1, Shape DEF TargetsOwnNothing
  <2>3. \A w \in Accounts : role'[request[x].org][w] = "owner" => role[request[x].org][w] = "owner"
    <3>1. ~(request[x].org > created)
      BY <1>0, <2>2 DEF Orgs
    <3> QED
      BY <1>2, <2>2, <3>1
  <2>4. request[x].org <= created'
    BY <1>0, <1>2, <2>2 DEF Orgs
  <2>5. request[x].op \in {"role", "remove"} => request[x].target \in Accounts
    BY Shape
  <2> QED
    BY <2>1, <2>3, <2>4, <2>5 DEF TargetsOwnNothing
<1>3. ASSUME RowsKept, \A x \in Requests : request'[x] \in {request[x], NoRequest}
      PROVE  TargetsOwnNothing'
  <2>1. created' = created /\ \A o \in Orgs, w \in Accounts : role'[o][w] = "owner" => role[o][w] = "owner"
    BY <1>3 DEF RowsKept
  <2>2. created' \in Nat /\ created <= created'
    BY <1>0, <2>1
  <2> QED
    BY <1>2, <1>3, <2>1, <2>2
<1>4. ASSUME NEW u \in Accounts, Grown(u), \A x \in Requests : request'[x] \in {request[x], NoRequest}
      PROVE  TargetsOwnNothing'
  <2>1. created' = created + 1
    BY <1>4 DEF Grown
  <2>2. created' \in Nat /\ created <= created' /\ created' > created
    BY <1>0, <2>1
  <2>3. \A o \in Orgs, w \in Accounts : role'[o][w] = role[o][w] \/ o = created'
    BY <1>4, <2>1 DEF Grown
  <2> QED
    BY <1>2, <1>4, <2>2, <2>3
<1>5. ASSUME NEW gone, NEW people, Erased(gone, people), \A x \in Requests : request'[x] \in {request[x], NoRequest}
      PROVE  TargetsOwnNothing'
  <2>1. created' = created /\ \A o \in Orgs, w \in Accounts : role'[o][w] = "owner" => role[o][w] = "owner"
    BY <1>5 DEF Erased
  <2>2. created' \in Nat /\ created <= created'
    BY <1>0, <2>1
  <2> QED
    BY <1>2, <1>5, <2>1, <2>2
<1> QED
  BY <1>1, <1>3, <1>4, <1>5, WorkKinds, Shape DEF RequestEnded

\* An account that deletes one organization at a time keeps another.
LEMMA DeletionsStep ==
  ASSUME WorkTyped, SoleOwner, TargetsOwnNothing, DeletionsApart, [WorkNext]_workVars
  PROVE  DeletionsApart'
<1>0. /\ created \in 0..MaxOrgs /\ orgs \subseteq 1..created /\ orgs \subseteq Orgs /\ accounts \subseteq Accounts
      /\ MaxOrgs \in Nat
  BY WorkspaceAssumption DEF WorkTyped, Orgs
<1>1. ASSUME NEW r \in Requests, Submitted(r)
      PROVE  DeletionsApart'
  <2> SUFFICES ASSUME NEW u \in accounts, u \notin overlapped'
               PROVE  /\ Owned(u)' # {}
                      /\ \A x \in DeletionOf(u)' : Owned(u)' \ {request'[x].org} # {}
                      /\ \A x, y \in DeletionOf(u)' : x = y
    BY <1>1 DEF DeletionsApart, Submitted, workRows
  <2>1. u \notin overlapped /\ Owned(u)' = Owned(u) /\ request[r].op = "none"
    BY <1>1 DEF Submitted, workRows, Owned
  <2>2. /\ Owned(u) # {} /\ \A x \in DeletionOf(u) : Owned(u) \ {request[x].org} # {}
        /\ \A x, y \in DeletionOf(u) : x = y
    BY <2>1 DEF DeletionsApart
  <2>3. \A x \in Requests \ {r} : request'[x] = request[x]
    BY <1>1 DEF Submitted
  <2>4. CASE request'[r].op = "delete" /\ request'[r].user = u
    <3>1. DeletionOf(u) = {}
      BY <1>1, <2>1, <2>4 DEF Submitted
    <3>2. DeletionOf(u)' \subseteq {r}
      BY <2>3, <3>1 DEF DeletionOf
    <3>3. Cardinality(Owned(u)) > 1
      BY <1>1, <2>4 DEF Submitted
    <3>4. Owned(u) \ {request'[r].org} # {}
      <4> SUFFICES ASSUME Owned(u) \subseteq {request'[r].org}
                   PROVE  FALSE
        OBVIOUS
      <4>1. IsFiniteSet({request'[r].org}) /\ Cardinality({request'[r].org}) = 1
        BY FS_Singleton
      <4>2. Cardinality(Owned(u)) <= 1 /\ Cardinality(Owned(u)) \in Nat
        BY <4>1, FS_Subset, FS_CardinalityType
      <4> QED
        BY <3>3, <4>2
    <3> QED
      BY <2>1, <2>2, <3>2, <3>4
  <2>5. CASE ~(request'[r].op = "delete" /\ request'[r].user = u)
    <3>1. DeletionOf(u)' \subseteq DeletionOf(u) /\ r \notin DeletionOf(u)'
      BY <2>3, <2>5 DEF DeletionOf
    <3>2. \A x \in DeletionOf(u)' : request'[x] = request[x]
      BY <2>3, <3>1 DEF DeletionOf
    <3> QED
      BY <2>1, <2>2, <3>1, <3>2
  <2> QED
    BY <2>4, <2>5
\* A request that ends leaves fewer deletions: the account needs its other organization.
<1>2. ASSUME NEW r, \A x \in Requests \ {r} : request'[x] = request[x],
             r \in Requests => request'[r] = NoRequest, overlapped' = overlapped, accounts' \subseteq accounts,
             \A u \in accounts' \ overlapped :
               /\ Owned(u)' # {}
               /\ \A x \in DeletionOf(u) \ {r} : Owned(u)' \ {request[x].org} # {}
      PROVE  DeletionsApart'
  <2> SUFFICES ASSUME NEW u \in accounts' \ overlapped
               PROVE  /\ Owned(u)' # {}
                      /\ \A x \in DeletionOf(u)' : Owned(u)' \ {request'[x].org} # {}
                      /\ \A x, y \in DeletionOf(u)' : x = y
    BY <1>2 DEF DeletionsApart
  <2>1. DeletionOf(u)' \subseteq DeletionOf(u) \ {r}
    BY <1>2 DEF DeletionOf, NoRequest
  <2>2. \A x \in DeletionOf(u)' : request'[x] = request[x]
    BY <1>2, <2>1 DEF DeletionOf
  <2>3. \A x, y \in DeletionOf(u) : x = y
    BY <1>2 DEF DeletionsApart
  <2> QED
    BY <1>2, <2>1, <2>2, <2>3
<1>3. ASSUME NEW r, \A x \in Requests \ {r} : request'[x] = request[x],
             r \in Requests => request'[r] = NoRequest, overlapped' = overlapped, accounts' \subseteq accounts,
             \A u \in accounts' : Owned(u) \subseteq Owned(u)'
      PROVE  DeletionsApart'
  <2>1. ASSUME NEW u \in accounts' \ overlapped
        PROVE  Owned(u)' # {} /\ \A x \in DeletionOf(u) \ {r} : Owned(u)' \ {request[x].org} # {}
    <3>1. /\ Owned(u) \subseteq Owned(u)' /\ Owned(u) # {}
          /\ \A x \in DeletionOf(u) : Owned(u) \ {request[x].org} # {}
      BY <1>3, <2>1 DEF DeletionsApart
    <3> QED
      BY <3>1
  <2>2. \A u \in accounts' \ overlapped :
          Owned(u)' # {} /\ \A x \in DeletionOf(u) \ {r} : Owned(u)' \ {request[x].org} # {}
    BY <2>1
  <2>3. /\ \A x \in Requests \ {r} : request'[x] = request[x]
        /\ r \in Requests => request'[r] = NoRequest
        /\ overlapped' = overlapped /\ accounts' \subseteq accounts
    BY <1>3
  <2> QED
    BY <1>2, <2>2, <2>3
<1>4. ASSUME RowsKept
      PROVE  accounts' \subseteq accounts /\ \A u \in accounts' : Owned(u) \subseteq Owned(u)'
  BY <1>0, <1>4 DEF RowsKept, Owned
<1>5. ASSUME NEW v \in Accounts, Grown(v)
      PROVE  accounts' \subseteq accounts /\ \A u \in accounts' : Owned(u) \subseteq Owned(u)'
  <2>1. orgs \subseteq orgs' /\ accounts' = accounts
    BY <1>5 DEF Grown
  <2>2. \A o \in orgs : o # created + 1
    BY <1>0
  <2>3. \A o \in orgs, u \in accounts : role'[o][u] = role[o][u]
    BY <1>0, <1>5, <2>2 DEF Grown
  <2> QED
    BY <2>1, <2>3 DEF Owned
<1>6. ASSUME NEW r \in Requests, request[r].op = "delete", RequestEnded(r), Erased({request[r].org}, {})
      PROVE  DeletionsApart'
  <2> DEFINE o == request[r].org
             v == request[r].user
  <2>1. accounts' = accounts /\ \A u \in accounts : Owned(u)' = Owned(u) \ {o}
    <3>1. accounts' = accounts /\ orgs' = orgs \ {o}
      BY <1>6 DEF Erased
    <3>2. \A p \in orgs \ {o}, u \in accounts : role'[p][u] = role[p][u]
      BY <1>0, <1>6 DEF Erased
    <3> QED
      BY <3>1, <3>2 DEF Owned
  <2>2. ASSUME NEW u \in accounts \ overlapped
        PROVE  Owned(u)' # {} /\ \A x \in DeletionOf(u) \ {r} : Owned(u)' \ {request[x].org} # {}
    <3>1. CASE u = v
      <4>1. r \in DeletionOf(u)
        BY <1>6, <3>1 DEF DeletionOf
      <4> QED
        BY <2>1, <4>1 DEF DeletionsApart
    <3>2. CASE u # v
      <4>1. u \in Accounts \ {v}
        BY <1>0, <3>2
      <4>2. role[o][u] # "owner"
        BY <1>6, <4>1 DEF TargetsOwnNothing
      <4>3. o \notin Owned(u)
        BY <4>2 DEF Owned
      <4> QED
        BY <2>1, <4>3 DEF DeletionsApart
    <3> QED
      BY <3>1, <3>2
  <2>3. /\ \A x \in Requests \ {r} : request'[x] = request[x]
        /\ request'[r] = NoRequest /\ overlapped' = overlapped
    BY <1>6 DEF RequestEnded
  <2>4. \A u \in accounts' \ overlapped :
          Owned(u)' # {} /\ \A x \in DeletionOf(u) \ {r} : Owned(u)' \ {request[x].org} # {}
    BY <2>1, <2>2
  <2> QED
    BY <1>2, <2>1, <2>3, <2>4
<1>7. ASSUME NEW v \in Accounts, Erased(Owned(v), {v})
      PROVE  accounts' \subseteq accounts /\ \A u \in accounts' : Owned(u) \subseteq Owned(u)'
  <2>1. accounts' = accounts \ {v} /\ orgs' = orgs \ Owned(v)
    BY <1>7 DEF Erased
  <2>2. ASSUME NEW u \in accounts', NEW o \in Owned(u)
        PROVE  o \in Owned(u)'
    <3>1. u \in Accounts /\ u # v /\ o \in orgs /\ o \in Orgs /\ role[o][u] = "owner"
      BY <1>0, <2>1, <2>2 DEF Owned
    <3>2. PICK w \in accounts : \A z \in Accounts : role[o][z] = "owner" <=> z = w
      BY <3>1 DEF SoleOwner
    <3>3. o \notin Owned(v)
      BY <3>1, <3>2 DEF Owned
    <3>4. role'[o][u] = role[o][u]
      BY <1>7, <3>1, <3>3 DEF Erased
    <3> QED
      BY <2>1, <3>1, <3>3, <3>4 DEF Owned
  <2> QED
    BY <2>1, <2>2
<1>8. ASSUME RowsKept, request' = request, overlapped' = overlapped
      PROVE  DeletionsApart'
  BY <1>4, <1>8 DEF DeletionsApart, DeletionOf, RowsKept, Owned
<1>9. ASSUME NEW r \in Requests, RequestEnded(r), RowsKept
      PROVE  DeletionsApart'
  BY <1>3, <1>4, <1>9 DEF RequestEnded
<1>10. ASSUME NEW r \in Requests, RequestEnded(r), request[r].op = "create", Grown(request[r].user)
       PROVE  DeletionsApart'
  BY <1>3, <1>5, <1>10, Shape DEF RequestEnded
<1>11. ASSUME NEW r \in Requests, RequestEnded(r), request[r].op = "account", Erased(Owned(request[r].user), {request[r].user})
       PROVE  DeletionsApart'
  BY <1>3, <1>7, <1>11, Shape DEF RequestEnded
<1> QED
  BY <1>1, <1>6, <1>8, <1>9, <1>10, <1>11, WorkKinds

\* What exists and what is in flight: both only shrink, or one moves over.
LEMMA SumMoved ==
  ASSUME NEW S, IsFiniteSet(S), NEW T, IsFiniteSet(T), NEW A \in SUBSET S, NEW A2 \in SUBSET S,
         NEW B \in SUBSET T, NEW B2 \in SUBSET T, NEW L \in Int
  PROVE  /\ A2 \subseteq A /\ B2 \subseteq B /\ Cardinality(A) + Cardinality(B) <= L =>
              Cardinality(A2) + Cardinality(B2) <= L
         /\ Cardinality(A2) <= Cardinality(A) + 1 /\ Cardinality(B2) + 1 <= Cardinality(B)
              /\ Cardinality(A) + Cardinality(B) <= L => Cardinality(A2) + Cardinality(B2) <= L
         /\ \A M \in Int : Cardinality(A2) < M => Cardinality(A2) + Cardinality(B2) <= M + (Cardinality(T) - 1)
<1>1. /\ Cardinality(A) \in Nat /\ Cardinality(A2) \in Nat
      /\ A2 \subseteq A => Cardinality(A2) <= Cardinality(A)
      /\ \A a : A2 \subseteq A \cup {a} => Cardinality(A2) <= Cardinality(A) + 1
  BY CountMoved
<1>2. /\ Cardinality(B) \in Nat /\ Cardinality(B2) \in Nat
      /\ B2 \subseteq B => Cardinality(B2) <= Cardinality(B)
      /\ \A r \in B : B2 \subseteq B \ {r} => Cardinality(B2) + 1 <= Cardinality(B)
  BY CountMoved
<1>3. Cardinality(B2) <= Cardinality(T) /\ Cardinality(T) \in Nat
  BY FS_Subset, FS_CardinalityType
<1>4. A2 \subseteq A /\ B2 \subseteq B /\ Cardinality(A) + Cardinality(B) <= L =>
        Cardinality(A2) + Cardinality(B2) <= L
  BY <1>1, <1>2
<1>5. Cardinality(A2) <= Cardinality(A) + 1 /\ Cardinality(B2) + 1 <= Cardinality(B)
        /\ Cardinality(A) + Cardinality(B) <= L => Cardinality(A2) + Cardinality(B2) <= L
  BY <1>1, <1>2
<1>6. ASSUME NEW M \in Int, Cardinality(A2) < M
      PROVE  Cardinality(A2) + Cardinality(B2) <= M + (Cardinality(T) - 1)
  BY <1>1, <1>2, <1>3, <1>6
<1> QED
  BY <1>4, <1>5, <1>6

Creating(u) == InFlight("create", 0, u)
Building(o) == InFlight("app", o, 0)
OwnLimit(u) == Cardinality(Owned(u)) + Cardinality(Creating(u)) <= MaxOwned + (Cardinality(Requests) - 1)
AppLimit(o) == Cardinality(AppsOf(o)) + Cardinality(Building(o)) <= MaxApps + (Cardinality(Requests) - 1)

\* What is counted is finite, before a step and after it.
LEMMA FiniteCounts ==
  ASSUME WorkTyped, WorkTyped'
  PROVE  /\ IsFiniteSet(Orgs) /\ IsFiniteSet(AppIds) /\ IsFiniteSet(Requests)
         /\ MaxOwned + (Cardinality(Requests) - 1) \in Int /\ MaxApps + (Cardinality(Requests) - 1) \in Int
         /\ \A u : /\ Owned(u) \in SUBSET Orgs /\ Owned(u)' \in SUBSET Orgs
                   /\ Creating(u) \in SUBSET Requests /\ Creating(u)' \in SUBSET Requests
         /\ \A o : /\ AppsOf(o) \in SUBSET AppIds /\ AppsOf(o)' \in SUBSET AppIds
                   /\ Building(o) \in SUBSET Requests /\ Building(o)' \in SUBSET Requests
<1>1. IsFiniteSet(Orgs) /\ Cardinality(Requests) \in Nat
  BY WorkspaceAssumption, FS_Interval, FS_CardinalityType DEF Orgs
<1>2. orgs \subseteq Orgs /\ orgs' \subseteq Orgs
  BY WorkspaceAssumption DEF WorkTyped, Orgs
<1> QED
  BY <1>1, <1>2, WorkspaceAssumption DEF Owned, AppsOf, Creating, Building, InFlight

\* Who owns no more and asks for no more stays within the limit, and so does
\* who turns a request into an organization, or asks below the limit.
LEMMA OwnLimitKept ==
  ASSUME WorkTyped, WorkTyped', NEW u,
         \/ OwnLimit(u) /\ Owned(u)' \subseteq Owned(u) /\ Creating(u)' \subseteq Creating(u)
         \/ OwnLimit(u) /\ \E r \in Creating(u) : \E o : Owned(u)' \subseteq Owned(u) \cup {o} /\ Creating(u)' \subseteq Creating(u) \ {r}
         \/ Cardinality(Owned(u)') < MaxOwned
  PROVE  OwnLimit(u)'
<1> DEFINE A == Owned(u)
           A2 == Owned(u)'
           B == Creating(u)
           B2 == Creating(u)'
           L == MaxOwned + (Cardinality(Requests) - 1)
<1>1. /\ IsFiniteSet(Orgs) /\ IsFiniteSet(Requests) /\ L \in Int /\ MaxOwned \in Int
      /\ A \in SUBSET Orgs /\ A2 \in SUBSET Orgs /\ B \in SUBSET Requests /\ B2 \in SUBSET Requests
  BY FiniteCounts, WorkspaceAssumption
<1>2. /\ A2 \subseteq A /\ B2 \subseteq B /\ Cardinality(A) + Cardinality(B) <= L => Cardinality(A2) + Cardinality(B2) <= L
      /\ Cardinality(A2) <= Cardinality(A) + 1 /\ Cardinality(B2) + 1 <= Cardinality(B)
           /\ Cardinality(A) + Cardinality(B) <= L => Cardinality(A2) + Cardinality(B2) <= L
      /\ \A M \in Int : Cardinality(A2) < M => Cardinality(A2) + Cardinality(B2) <= M + (Cardinality(Requests) - 1)
  <2> HIDE DEF A, A2, B, B2, L
  <2> QED
    BY <1>1, SumMoved
<1>3. Cardinality(A2) + Cardinality(B2) <= L
  <2>1. ASSUME NEW r \in B, NEW a, A2 \subseteq A \cup {a}, B2 \subseteq B \ {r}
        PROVE  Cardinality(A2) <= Cardinality(A) + 1 /\ Cardinality(B2) + 1 <= Cardinality(B)
    <3> HIDE DEF A, A2, B, B2, L
    <3>1. Cardinality(A2) <= Cardinality(A) + 1
      BY <1>1, <2>1, CountMoved
    <3>2. Cardinality(B2) + 1 <= Cardinality(B)
      BY <1>1, <2>1, CountMoved
    <3> QED
      BY <3>1, <3>2
  <2> QED
    BY <1>1, <1>2, <2>1 DEF OwnLimit
<1> QED
  BY <1>3 DEF OwnLimit

\* The same of an organization and its apps.
LEMMA AppLimitKept ==
  ASSUME WorkTyped, WorkTyped', NEW o,
         \/ AppLimit(o) /\ AppsOf(o)' \subseteq AppsOf(o) /\ Building(o)' \subseteq Building(o)
         \/ AppLimit(o) /\ \E r \in Building(o) : \E a : AppsOf(o)' \subseteq AppsOf(o) \cup {a} /\ Building(o)' \subseteq Building(o) \ {r}
         \/ Cardinality(AppsOf(o)') < MaxApps
  PROVE  AppLimit(o)'
<1> DEFINE A == AppsOf(o)
           A2 == AppsOf(o)'
           B == Building(o)
           B2 == Building(o)'
           L == MaxApps + (Cardinality(Requests) - 1)
<1>1. /\ IsFiniteSet(AppIds) /\ IsFiniteSet(Requests) /\ L \in Int /\ MaxApps \in Int
      /\ A \in SUBSET AppIds /\ A2 \in SUBSET AppIds /\ B \in SUBSET Requests /\ B2 \in SUBSET Requests
  BY FiniteCounts, WorkspaceAssumption
<1>2. /\ A2 \subseteq A /\ B2 \subseteq B /\ Cardinality(A) + Cardinality(B) <= L => Cardinality(A2) + Cardinality(B2) <= L
      /\ Cardinality(A2) <= Cardinality(A) + 1 /\ Cardinality(B2) + 1 <= Cardinality(B)
           /\ Cardinality(A) + Cardinality(B) <= L => Cardinality(A2) + Cardinality(B2) <= L
      /\ \A M \in Int : Cardinality(A2) < M => Cardinality(A2) + Cardinality(B2) <= M + (Cardinality(Requests) - 1)
  <2> HIDE DEF A, A2, B, B2, L
  <2> QED
    BY <1>1, SumMoved
<1>3. Cardinality(A2) + Cardinality(B2) <= L
  <2>1. ASSUME NEW r \in B, NEW a, A2 \subseteq A \cup {a}, B2 \subseteq B \ {r}
        PROVE  Cardinality(A2) <= Cardinality(A) + 1 /\ Cardinality(B2) + 1 <= Cardinality(B)
    <3> HIDE DEF A, A2, B, B2, L
    <3>1. Cardinality(A2) <= Cardinality(A) + 1
      BY <1>1, <2>1, CountMoved
    <3>2. Cardinality(B2) + 1 <= Cardinality(B)
      BY <1>1, <2>1, CountMoved
    <3> QED
      BY <3>1, <3>2
  <2> QED
    BY <1>1, <1>2, <2>1 DEF AppLimit
<1> QED
  BY <1>3 DEF AppLimit

\* Each limit is overrun by no more than the requests that were checked together.
LEMMA LimitsStep ==
  ASSUME WorkTyped, WorkTyped', NoOrphans, TargetsOwnNothing, LimitsOverrunByRacesOnly, [WorkNext]_workVars
  PROVE  LimitsOverrunByRacesOnly'
<1>0. /\ created \in 0..MaxOrgs /\ orgs \subseteq 1..created /\ orgs \subseteq Orgs /\ accounts \subseteq Accounts
      /\ MaxOrgs \in Nat /\ 0 \notin orgs
  BY WorkspaceAssumption DEF WorkTyped, Orgs
<1>1. (\A u \in accounts : OwnLimit(u)) /\ (\A o \in orgs : AppLimit(o))
  BY DEF LimitsOverrunByRacesOnly, OwnLimit, AppLimit, Creating, Building
<1> SUFFICES (\A u \in accounts' : OwnLimit(u)') /\ (\A o \in orgs' : AppLimit(o)')
  BY DEF LimitsOverrunByRacesOnly, OwnLimit, AppLimit, Creating, Building
<1>2. ASSUME NEW r \in Requests, Submitted(r)
      PROVE  (\A u \in accounts' : OwnLimit(u)') /\ (\A o \in orgs' : AppLimit(o)')
  <2>1. /\ accounts' = accounts /\ orgs' = orgs /\ \A u : Owned(u)' = Owned(u)
        /\ \A o : AppsOf(o)' = AppsOf(o)
    BY <1>2 DEF Submitted, workRows, Owned, AppsOf
  <2>2. \A x \in Requests \ {r} : request'[x] = request[x]
    BY <1>2 DEF Submitted
  <2>3. ASSUME NEW u \in accounts
        PROVE  OwnLimit(u)'
    <3>1. CASE request'[r].op = "create" /\ request'[r].user = u
      <4>1. Cardinality(Owned(u)) < MaxOwned
        BY <1>2, <3>1 DEF Submitted, MayCreate
      <4> QED
        BY <2>1, <4>1, OwnLimitKept
    <3>2. CASE ~(request'[r].op = "create" /\ request'[r].user = u)
      <4>1. Creating(u)' \subseteq Creating(u)
        BY <2>2, <3>2 DEF Creating, InFlight
      <4> QED
        BY <1>1, <2>1, <4>1, OwnLimitKept
    <3> QED
      BY <3>1, <3>2
  <2>4. ASSUME NEW o \in orgs
        PROVE  AppLimit(o)'
    <3>1. CASE request'[r].op = "app" /\ request'[r].org = o
      <4>1. Cardinality(AppsOf(o)) < MaxApps
        BY <1>2, <3>1 DEF Submitted
      <4> QED
        BY <2>1, <4>1, AppLimitKept
    <3>2. CASE ~(request'[r].op = "app" /\ request'[r].org = o)
      <4>1. Building(o)' \subseteq Building(o)
        BY <2>2, <3>2 DEF Building, InFlight
      <4> QED
        BY <1>1, <2>1, <4>1, AppLimitKept
    <3> QED
      BY <3>1, <3>2
  <2> QED
    BY <2>1, <2>3, <2>4
\* A request that ends is in flight no more.
<1>3. ASSUME NEW r \in Requests, RequestEnded(r)
      PROVE  /\ \A u : Creating(u)' \subseteq Creating(u) \ {r}
             /\ \A o : Building(o)' \subseteq Building(o) \ {r}
  BY <1>3 DEF RequestEnded, NoRequest, Creating, Building, InFlight
<1>4. ASSUME accounts' \subseteq accounts, orgs' \subseteq orgs,
             \A u : Creating(u)' \subseteq Creating(u), \A o : Building(o)' \subseteq Building(o),
             \A u \in accounts' : Owned(u)' \subseteq Owned(u), \A o \in orgs' : AppsOf(o)' \subseteq AppsOf(o)
      PROVE  (\A u \in accounts' : OwnLimit(u)') /\ (\A o \in orgs' : AppLimit(o)')
  <2>1. ASSUME NEW u \in accounts'
        PROVE  OwnLimit(u)'
    <3>1. OwnLimit(u) /\ Owned(u)' \subseteq Owned(u) /\ Creating(u)' \subseteq Creating(u)
      BY <1>1, <1>4, <2>1
    <3> QED
      BY <3>1, OwnLimitKept
  <2>2. ASSUME NEW o \in orgs'
        PROVE  AppLimit(o)'
    <3>1. AppLimit(o) /\ AppsOf(o)' \subseteq AppsOf(o) /\ Building(o)' \subseteq Building(o)
      BY <1>1, <1>4, <2>2
    <3> QED
      BY <3>1, AppLimitKept
  <2> QED
    BY <2>1, <2>2
<1>5. ASSUME RowsKept
      PROVE  accounts' = accounts /\ orgs' = orgs /\ \A u \in accounts' : Owned(u)' \subseteq Owned(u)
  BY <1>0, <1>5 DEF RowsKept, Owned
<1>6. ASSUME AppsKept
      PROVE  \A o \in orgs : AppsOf(o)' \subseteq AppsOf(o)
  BY <1>0, <1>6 DEF AppsKept, AppsOf
<1>7. ASSUME RowsKept, AppsKept, request' = request
      PROVE  (\A u \in accounts' : OwnLimit(u)') /\ (\A o \in orgs' : AppLimit(o)')
  <2>1. (\A u : Creating(u)' \subseteq Creating(u)) /\ (\A o : Building(o)' \subseteq Building(o))
    BY <1>7 DEF Creating, Building, InFlight
  <2> QED
    BY <1>4, <1>5, <1>6, <1>7, <2>1
<1>8. ASSUME NEW r \in Requests, RequestEnded(r), RowsKept, AppsKept
      PROVE  (\A u \in accounts' : OwnLimit(u)') /\ (\A o \in orgs' : AppLimit(o)')
  <2>1. (\A u : Creating(u)' \subseteq Creating(u)) /\ (\A o : Building(o)' \subseteq Building(o))
    BY <1>3, <1>8
  <2> QED
    BY <1>4, <1>5, <1>6, <1>8, <2>1
<1>9. ASSUME NEW r \in Requests, RequestEnded(r), request[r].op = "app", RowsKept, AppAdded(request[r].org)
      PROVE  (\A u \in accounts' : OwnLimit(u)') /\ (\A o \in orgs' : AppLimit(o)')
  <2>1. PICK a \in AppIds : app'[a] = request[r].org /\ \A b \in AppIds \ {a} : app'[b] = app[b]
    BY <1>9 DEF AppAdded
  <2>2. accounts' = accounts /\ orgs' = orgs /\ \A u \in accounts' : Owned(u)' \subseteq Owned(u)
    BY <1>5, <1>9
  <2>3. ASSUME NEW u \in accounts'
        PROVE  OwnLimit(u)'
    <3>1. OwnLimit(u) /\ Owned(u)' \subseteq Owned(u) /\ Creating(u)' \subseteq Creating(u)
      BY <1>1, <1>3, <1>9, <2>2, <2>3
    <3> QED
      BY <3>1, OwnLimitKept
  <2>4. ASSUME NEW o \in orgs'
        PROVE  AppLimit(o)'
    <3>1. AppLimit(o) /\ Building(o)' \subseteq Building(o) \ {r}
      BY <1>1, <1>3, <1>9, <2>2, <2>4
    <3>2. CASE o = request[r].org
      <4>1. r \in Building(o) /\ AppsOf(o)' \subseteq AppsOf(o) \cup {a}
        BY <1>9, <2>1, <3>2 DEF Building, InFlight, AppsOf
      <4> QED
        BY <3>1, <4>1, AppLimitKept
    <3>3. CASE o # request[r].org
      <4>1. AppsOf(o)' \subseteq AppsOf(o) /\ Building(o)' \subseteq Building(o)
        BY <2>1, <3>1, <3>3 DEF AppsOf
      <4> QED
        BY <3>1, <4>1, AppLimitKept
    <3> QED
      BY <3>2, <3>3
  <2> QED
    BY <2>3, <2>4
<1>10. ASSUME NEW r \in Requests, RequestEnded(r), request[r].op = "create", Grown(request[r].user)
       PROVE  (\A u \in accounts' : OwnLimit(u)') /\ (\A o \in orgs' : AppLimit(o)')
  <2> DEFINE new == created + 1
             v == request[r].user
  <2>1. /\ orgs' = orgs \cup {new} /\ accounts' = accounts /\ app' = app /\ v \in accounts
        /\ \A p \in Orgs, w \in Accounts : p # new \/ w # v => role'[p][w] = role[p][w]
    BY <1>10 DEF Grown
  <2>2. new \in Orgs /\ new \notin orgs /\ new # 0
    BY <1>0, <1>10 DEF Grown, Orgs
  <2> HIDE DEF new
  <2>3. ASSUME NEW u \in accounts'
        PROVE  OwnLimit(u)'
    <3>1. OwnLimit(u) /\ Creating(u)' \subseteq Creating(u) \ {r} /\ u \in Accounts
      BY <1>0, <1>1, <1>3, <1>10, <2>1, <2>3
    <3>2. \A o \in orgs : role'[o][u] = role[o][u]
      BY <1>0, <2>1, <2>2, <3>1
    <3>3. CASE u = v
      <4>1. r \in Creating(u) /\ Owned(u)' \subseteq Owned(u) \cup {new}
        BY <1>10, <2>1, <3>2, <3>3 DEF Creating, InFlight, Owned
      <4> QED
        BY <3>1, <4>1, OwnLimitKept
    <3>4. CASE u # v
      <4>1. role'[new][u] # "owner"
        BY <2>1, <2>2, <3>1, <3>4 DEF NoOrphans
      <4>2. Owned(u)' \subseteq Owned(u) /\ Creating(u)' \subseteq Creating(u)
        BY <2>1, <3>1, <3>2, <4>1 DEF Owned
      <4> QED
        BY <3>1, <4>2, OwnLimitKept
    <3> QED
      BY <3>3, <3>4
  <2>4. ASSUME NEW o \in orgs'
        PROVE  AppLimit(o)'
    <3>1. AppsOf(o)' = AppsOf(o)
      BY <2>1 DEF AppsOf
    <3>2. CASE o = new
      <4>1. AppsOf(o) = {}
        BY <2>2, <3>2 DEF AppsOf, NoOrphans
      <4>2. Cardinality(AppsOf(o)') < MaxApps
        BY <3>1, <4>1, FS_EmptySet, WorkspaceAssumption
      <4> QED
        BY <4>2, AppLimitKept
    <3>3. CASE o \in orgs
      <4>1. AppLimit(o) /\ Building(o)' \subseteq Building(o)
        BY <1>1, <1>3, <1>10, <3>3
      <4> QED
        BY <3>1, <4>1, AppLimitKept
    <3> QED
      BY <2>1, <2>4, <3>2, <3>3
  <2> QED
    BY <2>3, <2>4
<1>11. ASSUME NEW r \in Requests, RequestEnded(r), NEW gone, NEW people, Erased(gone, people)
       PROVE  (\A u \in accounts' : OwnLimit(u)') /\ (\A o \in orgs' : AppLimit(o)')
  <2>1. /\ accounts' \subseteq accounts /\ orgs' \subseteq orgs
        /\ (\A u : Creating(u)' \subseteq Creating(u)) /\ (\A o : Building(o)' \subseteq Building(o))
    BY <1>3, <1>11 DEF Erased
  <2>2. \A u \in accounts' : Owned(u)' \subseteq Owned(u)
    BY <1>0, <1>11, <2>1 DEF Erased, Owned
  <2>3. \A o \in orgs' : AppsOf(o)' \subseteq AppsOf(o)
    BY <1>0, <1>11, <2>1 DEF Erased, AppsOf
  <2> QED
    BY <1>4, <2>1, <2>2, <2>3
<1> QED
  BY <1>2, <1>7, <1>8, <1>9, <1>10, <1>11, WorkKinds

\* Every account has one Personal Workspace, and every organization is one at the start.
LEMMA PersonalWorkspaces ==
  /\ Cardinality(Accounts) \in Nat /\ Personal \in [Accounts -> 1..Cardinality(Accounts)]
  /\ \A a, b \in Accounts : Personal[a] = Personal[b] => a = b
  /\ \A o \in 1..Cardinality(Accounts) : \E a \in Accounts : Personal[a] = o
<1> DEFINE N == Cardinality(Accounts)
<1>1. IsFiniteSet(Accounts) /\ N \in Nat
  BY WorkspaceAssumption, FS_CardinalityType
<1>2. IsFiniteSet(1..N) /\ Cardinality(1..N) = N
  BY <1>1, FS_Interval
<1>3. ExistsBijection(Accounts, 1..N)
  BY <1>1, <1>2, FS_SameCardinalityBij
<1>4. \E f \in [Accounts -> 1..N] : \A a, b \in Accounts : f[a] = f[b] => a = b
  <2>1. PICK f : f \in Bijection(Accounts, 1..N)
    BY <1>3 DEF ExistsBijection
  <2>2. f \in [Accounts -> 1..N] /\ f \in Injection(Accounts, 1..N)
    BY <2>1, Fun_BijectionProperties
  <2>3. \A a, b \in Accounts : f[a] = f[b] => a = b
    BY <2>2, Fun_InjectionProperties
  <2> QED
    BY <2>2, <2>3
<1>5. Personal \in [Accounts -> 1..N] /\ \A a, b \in Accounts : Personal[a] = Personal[b] => a = b
  BY <1>4 DEF Personal
<1>6. Personal \in Injection(Accounts, 1..N)
  BY <1>5, Fun_IsInj
<1>7. Personal \in Surjection(Accounts, 1..N)
  BY <1>1, <1>2, <1>6, FS_Injection
<1> QED
  BY <1>1, <1>5, <1>7, Fun_SurjectionProperties

\* Every account starts with its own organization, and nothing else.
LEMMA WorkStart ==
  ASSUME WorkInit
  PROVE  WorkInv
<1> DEFINE N == Cardinality(Accounts)
<1>1. /\ N \in 0..MaxOrgs /\ MaxOrgs \in Nat /\ created = N /\ orgs = 1..N /\ accounts = Accounts /\ orgs \subseteq Orgs
      /\ Personal \in [Accounts -> 1..N]
      /\ \A a, b \in Accounts : Personal[a] = Personal[b] => a = b
      /\ \A o \in 1..N : \E a \in Accounts : Personal[a] = o
  BY WorkspaceAssumption, PersonalWorkspaces DEF WorkInit, Orgs
<1> HIDE DEF N
<1>2. role \in [Orgs -> [Accounts -> Roles]]
  BY DEF WorkInit, Roles
<1>3. \A o \in Orgs, u \in Accounts : role[o][u] = IF Personal[u] = o THEN "owner" ELSE "none"
  BY DEF WorkInit
<1>4. WorkTyped
  BY <1>1, <1>2 DEF WorkInit, WorkTyped, Operation
<1>5. SoleOwner
  <2> SUFFICES ASSUME NEW o \in orgs
               PROVE  \E u \in accounts : \A w \in Accounts : role[o][w] = "owner" <=> w = u
    BY DEF SoleOwner
  <2>1. PICK u \in Accounts : Personal[u] = o
    BY <1>1
  <2>2. \A w \in Accounts : role[o][w] = "owner" <=> w = u
    BY <1>1, <1>3, <2>1
  <2> QED
    BY <1>1, <2>2
<1>6. NoOrphans
  BY <1>1, <1>3 DEF WorkInit, NoOrphans
<1>7. \A r \in Requests : request[r] = NoRequest /\ request[r].op = "none"
  BY DEF WorkInit, NoRequest
<1>8. TargetsOwnNothing
  BY <1>7 DEF TargetsOwnNothing
<1>9. \A u \in Accounts : Owned(u) = {Personal[u]}
  BY <1>1, <1>3 DEF Owned
<1>10. DeletionsApart
  BY <1>1, <1>7, <1>9, SMTT(30) DEF DeletionsApart, DeletionOf
<1>11. Cardinality(Requests) \in Nat /\ Cardinality(Requests) > 0
  BY WorkspaceAssumption, FS_CardinalityType, FS_EmptySet
<1>12. (\A u : Creating(u) = {}) /\ \A o : Building(o) = {}
  BY <1>7 DEF Creating, Building, InFlight
<1>13. LimitsOverrunByRacesOnly
  <2>1. ASSUME NEW u \in accounts
        PROVE  OwnLimit(u)
    <3>1. Owned(u) = {Personal[u]} /\ Cardinality({Personal[u]}) = 1
      BY <1>1, <1>9, FS_Singleton
    <3>2. Creating(u) = {} /\ Cardinality({}) = 0
      BY <1>12, FS_EmptySet
    <3>3. Cardinality(Owned(u)) = 1 /\ Cardinality(Creating(u)) = 0
      BY <3>1, <3>2
    <3> QED
      BY <1>11, <3>3, WorkspaceAssumption DEF OwnLimit
  <2>2. ASSUME NEW o \in orgs
        PROVE  AppLimit(o)
    <3>1. AppsOf(o) = {}
      BY <1>1 DEF WorkInit, AppsOf
    <3>2. Cardinality(AppsOf(o)) = 0 /\ Cardinality(Building(o)) = 0
      BY <1>12, <3>1, FS_EmptySet
    <3> QED
      BY <1>11, <3>2, WorkspaceAssumption DEF AppLimit
  <2> QED
    BY <2>1, <2>2 DEF LimitsOverrunByRacesOnly, OwnLimit, AppLimit, Creating, Building
<1> QED
  BY <1>4, <1>5, <1>6, <1>8, <1>10, <1>13 DEF WorkInv

\* It holds in every reachable state.
LEMMA WorkInvariant == WorkSpec => []WorkInv
<1>1. WorkInv /\ [WorkNext]_workVars => WorkInv'
  <2> SUFFICES ASSUME WorkInv, [WorkNext]_workVars
               PROVE  WorkInv'
    OBVIOUS
  <2>1. WorkTyped /\ SoleOwner /\ NoOrphans /\ TargetsOwnNothing /\ DeletionsApart /\ LimitsOverrunByRacesOnly
    BY DEF WorkInv
  <2>2. WorkTyped'
    BY <2>1, WorkTypedStep
  <2> QED
    BY <2>1, <2>2, OwnersStep, TargetsStep, DeletionsStep, LimitsStep DEF WorkInv
<1> QED
  BY WorkStart, <1>1, PTL DEF WorkSpec

\* Accounts, organizations, roles and apps have their types, and no organization
\* has a number that was not given out.
THEOREM WorkTypes == WorkSpec => []WorkTypeOK
<1>1. WorkInv => WorkTypeOK
  BY DEF WorkInv, WorkTyped, WorkTypeOK
<1> QED
  BY <1>1, WorkInvariant, PTL

\* Whatever requests interleave between check and write: one owner for every
\* organization, nothing left of what is gone, an organization for every account
\* that deletes one at a time, and no limit overrun by more than the requests
\* that were checked together.
THEOREM WorkspaceHolds == WorkSpec => []WorkspaceSound
<1>1. WorkInv => WorkspaceSound
  <2> SUFFICES ASSUME WorkInv
               PROVE  WorkspaceSound
    OBVIOUS
  <2>1. ASSUME NEW o \in orgs
        PROVE  Cardinality({u \in accounts : role[o][u] = "owner"}) = 1
    <3>1. PICK v \in accounts : \A w \in Accounts : role[o][w] = "owner" <=> w = v
      BY DEF WorkInv, SoleOwner
    <3>2. {u \in accounts : role[o][u] = "owner"} = {v}
      BY <3>1 DEF WorkInv, WorkTyped
    <3> QED
      BY <3>2, FS_Singleton
  <2>2. LastOrganizationKept
    BY DEF WorkInv, DeletionsApart, LastOrganizationKept
  <2> QED
    BY <2>1, <2>2 DEF WorkspaceSound, Ownership, OneOwner, WorkInv
<1> QED
  BY <1>1, WorkInvariant, PTL

-----------------------------------------------------------------------------
(* The file of a Cloud transfer *)

Frames == [final : BOOLEAN, records : Seq(Record),
           sealed : [header : {"header"}, index : Nat, final : BOOLEAN]]
Readers == [at : {"header", "frames", "trailer", "finish", "done", "not-an-export", "corrupt", "invalid-record"},
            index : Nat, lines : Seq(Record)]

ExportTyped ==
  /\ written \in Seq(Record) /\ buffered \in Seq(Record) /\ yielded \in Seq(Record)
  /\ writer \in {"open", "closed", "broken"} /\ damages \in 0 .. MaxDamages
  /\ file \in [header : Header, frames : Seq(Frames)]
  /\ reader \in Readers /\ reader.index <= Len(file.frames)

\* The frame sealed with the number k holds the records from cut[k] + 1 to cut[k + 1].
Piece(cut, f) ==
  LET k == f.sealed.index
  IN /\ cut[k] <= cut[k + 1] /\ cut[k + 1] <= Len(written)
     /\ f.records = SubSeq(written, cut[k] + 1, cut[k + 1])
     /\ f.sealed.final => writer = "closed" /\ cut[k + 1] = Len(written)
Pieces(cut) == {f \in Frames : Piece(cut, f)}

\* Damages reorder and repeat the pieces and change none of what is sealed; the
\* reader has read the pieces one by one from the first.
CutAt(cut) ==
  /\ cut \in [Nat -> Nat] /\ cut[0] = 0
  /\ file.frames \in Seq(Pieces(cut))
  /\ writer = "open" =>
       /\ cut[Len(file.frames)] <= Len(written)
       /\ buffered = SubSeq(written, cut[Len(file.frames)] + 1, Len(written))
       /\ \A i \in DOMAIN file.frames : file.frames[i].sealed.index < Len(file.frames)
  /\ cut[reader.index] <= Len(written)
  /\ yielded \o reader.lines = SubSeq(written, 1, cut[reader.index])
  /\ reader.at \in {"trailer", "finish", "done"} => writer = "closed" /\ cut[reader.index] = Len(written)

ReaderWaits ==
  /\ writer = "open" => reader.at = "header"
  /\ reader.at = "header" => reader.index = 0 /\ reader.lines = <<>> /\ yielded = <<>>
  /\ reader.at = "done" => reader.lines = <<>>

ExportInv == ExportTyped /\ ReaderWaits /\ \E cut : CutAt(cut)

\* The numbers up to n.
LEMMA UpTo ==
  ASSUME NEW n \in Nat
  PROVE  0 \in 0 .. n /\ n \in 0 .. n /\ \A k \in Nat : k < n => k \in 0 .. n /\ k + 1 \in 0 .. n
  OBVIOUS

\* What was written stays where it was when another record follows.
LEMMA PartOfAppend ==
  ASSUME NEW S, NEW s \in Seq(S), NEW e \in S, NEW m \in Nat \ {0}, NEW n \in 0 .. Len(s)
  PROVE  SubSeq(Append(s, e), m, n) = SubSeq(s, m, n)
<1>1. CASE m <= n
  <2>1. m \in 1 .. Len(s) /\ n \in 1 .. Len(s) /\ <<e>> \in Seq(S)
    BY <1>1
  <2> QED
    BY <2>1, AppendIsConcat, SubSeqOfConcat1
<1>2. CASE n < m
  BY <1>2, SubSeqEmpty
<1> QED
  BY <1>1, <1>2

\* What is appended is at the end.
LEMMA EndOfAppend ==
  ASSUME NEW S, NEW s \in Seq(S), NEW e \in S
  PROVE  Append(s, e)[Len(s) + 1] = e
  BY AppendProperties

\* A sequence is its first element followed by the others.
LEMMA SplitFirst ==
  ASSUME NEW S, NEW s \in Seq(S), s # <<>>
  PROVE  s = <<Head(s)>> \o Tail(s)
<1>1. Len(s) \in Nat \ {0} /\ 1 \in 1 .. Len(s) /\ Len(s) \in 1 .. Len(s)
  BY EmptySeq
<1>2. SubSeq(s, 1, Len(s)) = <<s[1]>> \o SubSeq(s, 2, Len(s))
  BY <1>1, SubSeqRecursiveFirst
<1>3. SubSeq(s, 1, Len(s)) = s /\ Tail(s) = SubSeq(s, 2, Len(s))
  BY SubSeqFull, TailIsSubSeq
<1>4. Head(SubSeq(s, 1, Len(s))) = s[1]
  BY <1>1, HeadTailOfSubSeq
<1> QED
  BY <1>2, <1>3, <1>4

\* A damage of a file leaves a sequence of frames that it was made of.
LEMMA SequenceEdited ==
  ASSUME NEW S, NEW s \in Seq(S), NEW i \in DOMAIN s
  PROVE  /\ RemoveAt(s, i) \in Seq(S) /\ InsertAt(s, i, s[i]) \in Seq(S)
         /\ i < Len(s) => [s EXCEPT ![i] = s[i + 1], ![i + 1] = s[i]] \in Seq(S)
<1>1. i \in 1 .. Len(s) /\ s[i] \in S /\ <<s[i]>> \in Seq(S)
  BY LenProperties, ElementOfSeq
<1>2. SubSeq(s, 1, i - 1) \in Seq(S) /\ SubSeq(s, i, Len(s)) \in Seq(S) /\ SubSeq(s, i + 1, Len(s)) \in Seq(S)
  BY <1>1, SubSeqProperties, ElementOfSeq
<1>3. RemoveAt(s, i) \in Seq(S)
  BY <1>2, ConcatProperties DEF RemoveAt
<1>4. InsertAt(s, i, s[i]) \in Seq(S)
  BY <1>1, <1>2, ConcatProperties DEF InsertAt
<1>5. ASSUME i < Len(s)
      PROVE  [s EXCEPT ![i] = s[i + 1], ![i + 1] = s[i]] \in Seq(S)
  <2>1. i + 1 \in 1 .. Len(s) /\ s[i + 1] \in S
    BY <1>1, <1>5, ElementOfSeq
  <2>2. [s EXCEPT ![i] = s[i + 1]] \in Seq(S) /\ Len([s EXCEPT ![i] = s[i + 1]]) = Len(s)
    BY <1>1, <2>1, ExceptSeq
  <2> QED
    BY <1>1, <2>1, <2>2, ExceptSeq
<1> QED
  BY <1>3, <1>4, <1>5

\* The invariant says what the property says.
LEMMA ReadIsWrittenFollows == ExportInv => ReadIsWritten
<1> SUFFICES ASSUME ExportInv
             PROVE  ReadIsWritten
  OBVIOUS
<1>1. PICK cut : CutAt(cut)
  BY DEF ExportInv
<1>2. written \in Seq(Record) /\ yielded \in Seq(Record) /\ reader.lines \in Seq(Record) /\ reader.index \in Nat
  BY DEF ExportInv, ExportTyped, Readers
<1>3. cut[reader.index] \in 0 .. Len(written)
  BY <1>1, <1>2, LenProperties DEF CutAt
<1> DEFINE n == cut[reader.index]
           read == yielded \o reader.lines
<1>4. read = SubSeq(written, 1, n)
  BY <1>1 DEF CutAt
<1>5. Len(read) = n /\ Len(read) = Len(yielded) + Len(reader.lines) /\ \A i \in 1 .. Len(yielded) : yielded[i] = read[i]
  <2>1. \A i \in 1 .. n : written[i] \in Record
    BY <1>2, <1>3, ElementOfSeq
  <2>2. Len(read) = n
    BY <1>3, <1>4, <2>1, SubSeqProperties
  <2>3. /\ Len(read) = Len(yielded) + Len(reader.lines)
        /\ \A i \in 1 .. Len(yielded) + Len(reader.lines) : read[i] = IF i <= Len(yielded) THEN yielded[i]
                                                                       ELSE reader.lines[i - Len(yielded)]
    BY <1>2, ConcatProperties
  <2>4. Len(yielded) \in Nat /\ Len(reader.lines) \in Nat
    BY <1>2, LenProperties
  <2> QED
    BY <2>2, <2>3, <2>4
<1>6. \A i \in 1 .. n : read[i] = written[i]
  BY <1>2, <1>3, <1>4, SubSeqProperties, ElementOfSeq
<1>7. IsPrefix(yielded, written)
  <2>1. Len(yielded) <= n /\ Len(yielded) <= Len(written) /\ Len(yielded) \in Nat
    BY <1>2, <1>3, <1>5, LenProperties
  <2>2. SubSeq(yielded, 1, Len(yielded)) = yielded
    BY <1>2, SubSeqFull
  <2> DEFINE start == SubSeq(written, 1, Len(yielded))
  <2>3. start \in Seq(Record) /\ Len(start) = Len(yielded) /\ \A i \in 1 .. Len(yielded) : start[i] = written[i]
    BY <1>2, <2>1, SubSeqProperties, ElementOfSeq
  <2>4. \A i \in 1 .. Len(yielded) : yielded[i] = start[i]
    BY <1>5, <1>6, <2>1, <2>3
  <2>5. yielded = start
    BY <1>2, <2>3, <2>4, SeqEqual
  <2> QED
    BY <2>1, <2>2, <2>5 DEF IsPrefix
<1>8. ASSUME reader.at = "done"
      PROVE  writer = "closed" /\ yielded = written
  <2>1. writer = "closed" /\ n = Len(written) /\ reader.lines = <<>>
    BY <1>1, <1>8 DEF CutAt, ExportInv, ReaderWaits
  <2>2. read = yielded
    BY <1>2, <2>1, ConcatEmptySeq
  <2> QED
    BY <1>2, <1>4, <2>1, <2>2, SubSeqFull
<1> QED
  BY <1>7, <1>8 DEF ReadIsWritten

\* The writer: a record is buffered, a frame is sealed, the stream ends or breaks.
LEMMA WriterStep ==
  ASSUME ExportInv,
         \/ \E record \in Record : WriteRecord(record)
         \/ WriteChunk \/ Flush \/ BreakOff
  PROVE  ExportInv'
<1> USE ExportAssumption
<1>1. PICK cut : CutAt(cut)
  BY DEF ExportInv
<1>2. PICK n \in Nat : n = Len(file.frames)
  BY LenProperties DEF ExportInv, ExportTyped
<1>3. /\ writer = "open" /\ reader.at = "header" /\ reader.index = 0 /\ reader.lines = <<>> /\ yielded = <<>>
      /\ UNCHANGED <<damages, reader, yielded>>
  BY DEF ExportInv, ReaderWaits, WriteRecord, WriteChunk, Flush, BreakOff
<1>4. cut \in [Nat -> Nat]
  BY <1>1 DEF CutAt
<1>5. /\ cut \in [Nat -> Nat] /\ cut[0] = 0 /\ cut[n] <= Len(written)
      /\ buffered = SubSeq(written, cut[n] + 1, Len(written))
      /\ \A i \in DOMAIN file.frames : file.frames[i].sealed.index < n
  BY <1>1, <1>3, <1>2 DEF CutAt
<1>6. /\ file.frames \in Seq(Frames) /\ written \in Seq(Record) /\ buffered \in Seq(Record)
      /\ Len(written) \in Nat
  BY LenProperties DEF ExportInv, ExportTyped
<1>7. file.frames \in Seq(Pieces(cut)) /\ \A i \in DOMAIN file.frames : file.frames[i] \in Pieces(cut)
  BY <1>1, LenProperties, ElementOfSeq DEF CutAt
<1> DEFINE Unread(c) ==
             /\ c[reader'.index] <= Len(written)'
             /\ yielded' \o reader'.lines = SubSeq(written', 1, c[reader'.index])
             /\ reader'.at \notin {"trailer", "finish", "done"}
<1>8. ASSUME NEW c, c[0] = 0, Len(written)' \in Nat
      PROVE  Unread(c)
  <2>1. <<>> \o <<>> = <<>>
    BY EmptySeq, ConcatEmptySeq
  <2>2. SubSeq(written', 1, 0) = <<>>
    BY SubSeqEmpty
  <2>3. reader'.index = 0 /\ reader'.lines = <<>> /\ yielded' = <<>> /\ reader'.at = "header"
    BY <1>3
  <2>4. c[reader'.index] = 0
    BY <1>8, <2>3
  <2>5. c[reader'.index] <= Len(written)'
    BY <1>8, <2>4
  <2> QED
    BY <2>1, <2>2, <2>3, <2>4, <2>5
<1> HIDE DEF Unread
<1>9. ASSUME NEW record \in Record, WriteRecord(record)
      PROVE  ExportInv'
  <2>1. written' = Append(written, record) /\ buffered' = Append(buffered, record) /\ UNCHANGED <<writer, file>>
    BY <1>9 DEF WriteRecord
  <2>2. written' \in Seq(Record) /\ buffered' \in Seq(Record) /\ Len(written') = Len(written) + 1
        /\ written'[Len(written')] = record
    BY <1>6, <2>1, AppendProperties
  <2>3. ExportTyped' /\ ReaderWaits'
    BY <1>3, <2>1, <2>2, SMTT(30) DEF ExportInv, ExportTyped, ReaderWaits
  <2>4. ASSUME NEW f \in Pieces(cut)
        PROVE  f \in Pieces(cut)'
    <3> DEFINE k == f.sealed.index
    <3>1. f \in Frames /\ Piece(cut, f)
      BY <2>4 DEF Pieces
    <3>2. k \in Nat
      BY <3>1 DEF Frames
    <3>3. cut[k] \in Nat /\ cut[k + 1] \in Nat /\ cut[k] + 1 \in Nat \ {0}
      <4> HIDE DEF k
      <4> QED
        BY <1>4, <3>2
    <3>4. /\ cut[k + 1] \in 0 .. Len(written) /\ ~f.sealed.final
          /\ cut[k] <= cut[k + 1] /\ f.records = SubSeq(written, cut[k] + 1, cut[k + 1])
      BY <1>3, <1>6, <3>1, <3>3 DEF Piece
    <3>5. f.records = SubSeq(written', cut[k] + 1, cut[k + 1])
      BY <1>6, <2>1, <3>3, <3>4, PartOfAppend, ZenonT(30)
    <3> QED
      BY <1>6, <2>2, <3>1, <3>4, <3>5 DEF Pieces, Piece
  <2>5. file'.frames \in Seq(Pieces(cut)')
    BY <1>7, <2>1, <2>4, SeqMonotonic
  <2>6. buffered' = SubSeq(written', cut[n] + 1, Len(written'))
    <3> DEFINE c == cut[n]
    <3>1. c \in Nat /\ c <= Len(written)
      BY <1>5, <1>6
    <3>2. c + 1 \in Nat \ {0} /\ Len(written) \in 0 .. Len(written) /\ Len(written') - 1 = Len(written)
          /\ c + 1 \in 1 .. Len(written') /\ Len(written') \in c + 1 .. Len(written')
      BY <1>6, <2>2, <3>1
    <3> HIDE DEF c
    <3>3. SubSeq(written', c + 1, Len(written')) = SubSeq(written', c + 1, Len(written') - 1) \o <<written'[Len(written')]>>
      BY <2>2, <3>2, SubSeqRecursiveSecond
    <3>4. SubSeq(written', c + 1, Len(written)) = SubSeq(written, c + 1, Len(written))
      BY <1>6, <2>1, <3>2, PartOfAppend
    <3>5. SubSeq(written, c + 1, Len(written)) = buffered
      BY <1>5 DEF c
    <3>6. Append(buffered, record) = buffered \o <<record>>
      BY <1>6, AppendIsConcat
    <3>7. buffered' = SubSeq(written', c + 1, Len(written'))
      BY <2>1, <2>2, <3>2, <3>3, <3>4, <3>5, <3>6
    <3> QED
      BY <3>7 DEF c
  <2>7. cut[n] <= Len(written') /\ Len(written)' \in Nat
    <3>1. cut[n] \in Nat
      BY <1>5, <1>2
    <3> QED
      BY <1>5, <1>6, <2>2, <3>1
  <2>8. CutAt(cut)'
    <3>1. Unread(cut) /\ Len(file'.frames) = n
      BY <1>5, <1>8, <1>2, <2>1, <2>7
    <3>2. \A i \in DOMAIN file'.frames : file'.frames[i].sealed.index < n
      BY <1>5, <2>1
    <3> QED
      BY <1>5, <2>5, <2>6, <2>7, <3>1, <3>2 DEF CutAt, Unread
  <2> QED
    BY <2>3, <2>8 DEF ExportInv
<1>10. ASSUME NEW final \in BOOLEAN, AddFrame(final), UNCHANGED written,
             writer' = IF final THEN "closed" ELSE "open"
      PROVE  ExportInv'
  <2> DEFINE last == Seal(buffered, final)
  <2>1. file'.frames = Append(file.frames, last) /\ file'.header = file.header /\ buffered' = <<>>
        /\ file' = [file EXCEPT !.frames = Append(file.frames, last)]
    BY <1>10 DEF AddFrame, ExportInv, ExportTyped
  <2>2. last \in Frames /\ last.sealed.index = n /\ last.records = buffered /\ last.sealed.final = final
    BY <1>6, <1>2 DEF Seal, Frames
  <2> HIDE DEF last
  <2>3. PICK next \in [Nat -> Nat] : next[n + 1] = Len(written) /\ \A k \in 0 .. n : next[k] = cut[k]
    <3> DEFINE longer == [k \in Nat |-> IF k = n + 1 THEN Len(written) ELSE cut[k]]
    <3>1. longer \in [Nat -> Nat]
      BY <1>5, <1>6
    <3>2. longer[n + 1] = Len(written) /\ \A k \in 0 .. n : longer[k] = cut[k]
      BY <1>6
    <3> QED
      BY <3>1, <3>2
  <2>4. next[0] = 0 /\ next[n] = cut[n] /\ \A k \in Nat : k < n => next[k] = cut[k] /\ next[k + 1] = cut[k + 1]
    <3>1. 0 \in 0 .. n /\ n \in 0 .. n /\ \A k \in Nat : k < n => k \in 0 .. n /\ k + 1 \in 0 .. n
      BY <1>2, UpTo
    <3> QED
      BY <1>5, <2>3, <3>1
  <2>5. file'.frames \in Seq(Frames) /\ Len(file'.frames) = n + 1 /\ DOMAIN file'.frames = 1 .. n + 1
        /\ file'.frames[n + 1] = last
        /\ \A i \in 1 .. n : file'.frames[i] = file.frames[i]
    <3>1. file'.frames \in Seq(Frames) /\ Len(file'.frames) = n + 1 /\ file'.frames[n + 1] = last
          /\ \A i \in 1 .. n : file'.frames[i] = file.frames[i]
      <4>1. Append(file.frames, last) \in Seq(Frames) /\ Len(Append(file.frames, last)) = Len(file.frames) + 1
        BY <1>6, <2>2, AppendProperties
      <4>2. Append(file.frames, last)[Len(file.frames) + 1] = last
        BY <1>6, <2>2, EndOfAppend
      <4>3. \A i \in 1 .. Len(file.frames) : Append(file.frames, last)[i] = file.frames[i]
        BY <1>6, <2>2, AppendProperties
      <4> QED
        BY <1>2, <2>1, <4>1, <4>2, <4>3
    <3> QED
      BY <3>1, LenProperties
  <2>6. ExportTyped' /\ ReaderWaits'
    <3>1. file' \in [header : Header, frames : Seq(Frames)]
      BY <2>1, <2>5 DEF ExportInv, ExportTyped
    <3>2. buffered' \in Seq(Record) /\ writer' \in {"open", "closed", "broken"}
      BY <1>10, <2>1, EmptySeq
    <3>3. reader' = reader /\ reader.index <= Len(file'.frames) /\ written' = written /\ yielded' = yielded /\ damages' = damages
      BY <1>3, <1>10, <1>2, <2>5, SMTT(30)
    <3>4. ExportTyped'
      BY <3>1, <3>2, <3>3 DEF ExportInv, ExportTyped
    <3> QED
      BY <1>3, <3>3, <3>4 DEF ReaderWaits
  <2>7. last \in Pieces(next)'
    <3>1. next[n] <= next[n + 1] /\ next[n + 1] <= Len(written) /\ Len(written') = Len(written)
      BY <1>5, <1>6, <1>10, <2>3, <2>4
    <3>2. last.records = SubSeq(written', next[n] + 1, next[n + 1])
      BY <1>5, <1>10, <2>2, <2>3, <2>4
    <3>3. last.sealed.final => writer' = "closed" /\ next[n + 1] = Len(written')
      BY <1>10, <2>2, <2>3, SMTT(40)
    <3> QED
      BY <2>2, <3>1, <3>2, <3>3 DEF Pieces, Piece
  <2>8. ASSUME NEW i \in 1 .. n
        PROVE  file.frames[i] \in Pieces(next)' /\ file.frames[i].sealed.index < n + 1
    <3> DEFINE f == file.frames[i]
               k == f.sealed.index
    <3>1. i \in DOMAIN file.frames
      BY <1>6, <1>2, LenProperties
    <3>2. f \in Frames /\ k \in Nat /\ k < n /\ Piece(cut, f)
      BY <1>5, <1>7, <3>1, Zenon DEF Pieces, Frames
    <3>3. next[k] = cut[k] /\ next[k + 1] = cut[k + 1] /\ ~f.sealed.final
      BY <1>3, <2>4, <3>2, ZenonT(40) DEF Piece
    <3>4. /\ cut[k] <= cut[k + 1] /\ cut[k + 1] <= Len(written)
          /\ f.records = SubSeq(written, cut[k] + 1, cut[k + 1])
      BY <3>2, SMTT(40) DEF Piece
    <3>5. /\ next[k] <= next[k + 1] /\ next[k + 1] <= Len(written')
          /\ f.records = SubSeq(written', next[k] + 1, next[k + 1])
      BY <1>10, <3>3, <3>4, Zenon
    <3>6. k < n + 1
      <4> HIDE DEF k
      <4> QED
        BY <3>2
    <3> QED
      BY <3>2, <3>3, <3>5, <3>6, Zenon DEF Pieces, Piece
  <2>9. file'.frames \in Seq(Pieces(next)')
    <3>1. file.frames \in Seq(Pieces(next)')
      <4>1. file.frames \in Seq(Range(file.frames))
        BY <1>6, SeqOfRange
      <4>2. Range(file.frames) = {file.frames[i] : i \in 1 .. n}
        BY <1>6, <1>2, RangeEquality
      <4>3. Range(file.frames) \subseteq Pieces(next)'
        BY <2>8, <4>2
      <4> QED
        BY <4>1, <4>3, SeqMonotonic
    <3> QED
      BY <2>1, <2>7, <3>1, AppendProperties
  <2>10. buffered' = SubSeq(written', next[n + 1] + 1, Len(written'))
    BY <1>6, <1>10, <2>1, <2>3, SubSeqEmpty
  <2>11. \A i \in 1 .. n + 1 : file'.frames[i].sealed.index < n + 1
    <3>1. ASSUME NEW i \in 1 .. n + 1
          PROVE  file'.frames[i].sealed.index < n + 1
      <4>1. CASE i = n + 1
        <5>1. file'.frames[i] = last
          BY <2>5, <4>1
        <5>2. n < n + 1
          OBVIOUS
        <5> QED
          BY <2>2, <5>1, <5>2
      <4>2. CASE i # n + 1
        <5>1. i \in 1 .. n
          BY <4>2
        <5> QED
          BY <2>5, <2>8, <5>1
      <4> QED
        BY <4>1, <4>2
    <3> QED
      BY <3>1
  <2>12. CutAt(next)'
    <3>1. Unread(next) /\ next[n + 1] <= Len(written')
      BY <1>6, <1>10, <1>8, <2>3, <2>4
    <3> QED
      BY <2>3, <2>5, <2>9, <2>10, <2>11, <2>4, <3>1 DEF CutAt, Unread
  <2> QED
    BY <2>6, <2>12 DEF ExportInv
<1>11. CASE BreakOff
  <2>1. ExportTyped' /\ ReaderWaits'
    BY <1>3, <1>11 DEF BreakOff, ExportInv, ExportTyped, ReaderWaits
  <2>2. Pieces(cut) \subseteq Pieces(cut)'
    BY <1>3, <1>11 DEF BreakOff, Pieces, Piece
  <2>3. file'.frames \in Seq(Pieces(cut)')
    BY <1>7, <1>11, <2>2, SeqMonotonic DEF BreakOff
  <2>4. CutAt(cut)'
    BY <1>5, <1>6, <1>11, <1>8, <2>3 DEF BreakOff, CutAt, Unread
  <2> QED
    BY <2>1, <2>4 DEF ExportInv
<1> QED
  BY <1>3, <1>9, <1>10, <1>11 DEF WriteChunk, Flush

\* On its way the file may lose, repeat, swap or change frames and its header.
LEMMA DamageStep ==
  ASSUME ExportInv,
         \/ \E header \in Header : ChangeHeader(header)
         \/ \E i \in DOMAIN file.frames : DropFrame(i) \/ RepeatFrame(i) \/ SwapFrames(i) \/ FlipFlag(i)
  PROVE  ExportInv'
<1>1. PICK cut : CutAt(cut)
  BY DEF ExportInv
<1>2. /\ writer # "open" /\ reader.at = "header" /\ damages' = damages + 1 /\ damages < MaxDamages
      /\ UNCHANGED <<written, buffered, writer, reader, yielded>>
  BY DEF ChangeHeader, DropFrame, RepeatFrame, SwapFrames, FlipFlag, Rearrange, Transit, written_
<1>3. file \in [header : Header, frames : Seq(Frames)] /\ file.frames \in Seq(Pieces(cut))
  BY <1>1 DEF ExportInv, ExportTyped, CutAt
<1>4. file'.header \in Header /\ file'.frames \in Seq(Pieces(cut)) /\ file' = [header |-> file'.header, frames |-> file'.frames]
  <2>1. ASSUME NEW header \in Header, ChangeHeader(header)
        PROVE  file' = [file EXCEPT !.header = header]
    BY <2>1 DEF ChangeHeader, Transit
  <2>2. ASSUME NEW i \in DOMAIN file.frames, DropFrame(i) \/ RepeatFrame(i) \/ SwapFrames(i) \/ FlipFlag(i)
        PROVE  \E frames \in Seq(Pieces(cut)) : file' = [file EXCEPT !.frames = frames]
    <3> DEFINE flipped == [file.frames EXCEPT ![i].final = ~@]
    <3>1. flipped \in Seq(Pieces(cut))
      <4> DEFINE f == [file.frames[i] EXCEPT !.final = ~@]
      <4>1. i \in 1 .. Len(file.frames) /\ file.frames[i] \in Pieces(cut)
        BY <1>3, LenProperties, ElementOfSeq
      <4>2. f \in Frames /\ f.sealed = file.frames[i].sealed /\ f.records = file.frames[i].records
        BY <4>1 DEF Pieces, Frames
      <4>3. f \in Pieces(cut)
        BY <4>1, <4>2 DEF Pieces, Piece
      <4>4. [file.frames EXCEPT ![i] = f] \in Seq(Pieces(cut))
        BY <1>3, <4>1, <4>3, ExceptSeq
      <4> QED
        BY <4>4
    <3>2. CASE DropFrame(i)
      BY <1>3, <3>2, SequenceEdited DEF DropFrame, Rearrange, Transit
    <3>3. CASE RepeatFrame(i)
      BY <1>3, <3>3, SequenceEdited DEF RepeatFrame, Rearrange, Transit
    <3>4. CASE SwapFrames(i)
      BY <1>3, <3>4, SequenceEdited DEF SwapFrames, Rearrange, Transit
    <3>5. CASE FlipFlag(i)
      BY <3>1, <3>5 DEF FlipFlag, Rearrange, Transit
    <3> QED
      BY <2>2, <3>2, <3>3, <3>4, <3>5
  <2>3. CASE \E header \in Header : file' = [file EXCEPT !.header = header]
    BY <1>3, <2>3
  <2>4. CASE \E frames \in Seq(Pieces(cut)) : file' = [file EXCEPT !.frames = frames]
    BY <1>3, <2>4
  <2> QED
    BY <2>1, <2>2, <2>3, <2>4
<1>5. Pieces(cut)' = Pieces(cut)
  BY <1>2 DEF Pieces, Piece
<1>6. CutAt(cut)'
  BY <1>1, <1>2, <1>4, <1>5 DEF CutAt
<1>7. ExportTyped' /\ ReaderWaits'
  <2>1. file'.frames \in Seq(Frames) /\ Len(file'.frames) \in Nat
    BY <1>4, SeqMonotonic, LenProperties DEF Pieces
  <2>2. file' \in [header : Header, frames : Seq(Frames)]
    BY <1>4, <2>1
  <2>3. reader' = reader /\ reader.index = 0 /\ 0 <= Len(file'.frames)
    BY <1>2, <2>1 DEF ExportInv, ReaderWaits
  <2>4. damages' \in 0 .. MaxDamages
    BY <1>2, ExportAssumption DEF ExportInv, ExportTyped
  <2> QED
    BY <1>2, <2>2, <2>3, <2>4 DEF ExportInv, ExportTyped, ReaderWaits
<1> QED
  BY <1>6, <1>7 DEF ExportInv

\* The reader takes a frame only where it was sealed, and passes its records on.
LEMMA ReaderStep ==
  ASSUME ExportInv, ReadHeader \/ ReadFrame \/ ReadTrailer \/ ReadRecord \/ FinishReading
  PROVE  ExportInv'
<1>1. PICK cut : CutAt(cut)
  BY DEF ExportInv
<1>2. UNCHANGED <<written, buffered, writer, file, damages>>
  BY DEF ReadHeader, ReadFrame, ReadTrailer, ReadRecord, FinishReading, written_
<1>3. Pieces(cut)' = Pieces(cut)
  BY <1>2 DEF Pieces, Piece
<1>4. /\ reader \in Readers /\ yielded \in Seq(Record) /\ written \in Seq(Record)
      /\ file.frames \in Seq(Frames) /\ reader.index <= Len(file.frames)
  BY DEF ExportInv, ExportTyped
<1>5. writer # "open"
  <2>1. reader.at = "header" => reader.lines = <<>>
    BY DEF ExportInv, ReaderWaits
  <2> QED
    BY <2>1 DEF ReadHeader, ReadFrame, ReadTrailer, ReadRecord, FinishReading, Reading, ExportInv, ReaderWaits
<1>6. SUFFICES /\ reader' \in Readers /\ yielded' \in Seq(Record) /\ reader'.index <= Len(file.frames)
               /\ reader'.at # "header" /\ (reader'.at = "done" => reader'.lines = <<>>)
               /\ cut[reader'.index] <= Len(written)
               /\ yielded' \o reader'.lines = SubSeq(written, 1, cut[reader'.index])
               /\ reader'.at \in {"trailer", "finish", "done"} =>
                    writer = "closed" /\ cut[reader'.index] = Len(written)
  <2>1. CutAt(cut)'
    BY <1>1, <1>2, <1>3, <1>5, <1>6 DEF CutAt
  <2>2. ExportTyped' /\ ReaderWaits'
    BY <1>2, <1>5, <1>6 DEF ExportInv, ExportTyped, ReaderWaits
  <2> QED
    BY <2>1, <2>2 DEF ExportInv
<1>7. /\ cut[reader.index] <= Len(written)
      /\ yielded \o reader.lines = SubSeq(written, 1, cut[reader.index])
      /\ reader.at \in {"trailer", "finish", "done"} => writer = "closed" /\ cut[reader.index] = Len(written)
  BY <1>1 DEF CutAt
<1>8. ASSUME NEW to \in {"frames", "finish", "done", "not-an-export", "corrupt", "invalid-record"},
             ReaderGoes(to), UNCHANGED yielded,
             to = "done" => reader.lines = <<>>, to \in {"finish", "done"} => reader.at \in {"trailer", "finish"}
      PROVE  /\ reader' \in Readers /\ reader'.index = reader.index /\ reader'.lines = reader.lines /\ reader'.at = to
             /\ yielded' = yielded
  BY <1>4, <1>8 DEF ReaderGoes, Readers
<1>9. CASE ReadHeader \/ ReadTrailer \/ FinishReading
  <2>1. PICK to \in {"frames", "finish", "done", "not-an-export", "corrupt"} :
          /\ ReaderGoes(to) /\ UNCHANGED yielded
          /\ to = "done" => reader.lines = <<>>
          /\ to \in {"finish", "done"} => reader.at \in {"trailer", "finish"}
    BY <1>9 DEF ReadHeader, ReadTrailer, FinishReading, Reading
  <2> QED
    BY <1>4, <1>7, <1>8, <2>1
<1>10. CASE ReadFrame
  <2>1. CASE ReaderGoes("corrupt")
    BY <1>4, <1>7, <1>8, <1>10, <2>1 DEF ReadFrame
  <2> DEFINE f == file.frames[reader.index + 1]
             k == reader.index
  <2>2. CASE ~ReaderGoes("corrupt")
    <3>1. /\ k < Len(file.frames) /\ f.sealed.index = k /\ f.sealed.final = f.final
          /\ reader' = [at |-> IF f.final THEN "trailer" ELSE "frames", index |-> k + 1, lines |-> f.records]
          /\ reader.lines = <<>> /\ yielded' = yielded
      BY <1>10, <2>2 DEF ReadFrame, Authentic
    <3>2. k \in Nat /\ k + 1 \in 1 .. Len(file.frames)
      BY <1>4, <3>1, LenProperties DEF Readers
    <3>3. f \in Pieces(cut)
      BY <1>1, <3>2, ElementOfSeq DEF CutAt
    <3>4. /\ f.records \in Seq(Record) /\ f.final \in BOOLEAN /\ cut[k] \in Nat /\ cut[k + 1] \in Nat
          /\ cut[k] <= cut[k + 1] /\ cut[k + 1] <= Len(written)
          /\ f.records = SubSeq(written, cut[k] + 1, cut[k + 1])
          /\ f.final => writer = "closed" /\ cut[k + 1] = Len(written)
      <4>1. f \in Frames /\ Piece(cut, f)
        BY <3>3 DEF Pieces
      <4>2. cut \in [Nat -> Nat]
        BY <1>1 DEF CutAt
      <4>3. cut[k] \in Nat /\ cut[k + 1] \in Nat
        <5> HIDE DEF k
        <5> QED
          BY <3>2, <4>2, SMTT(30)
      <4>4. f.records \in Seq(Record) /\ f.final \in BOOLEAN
        BY <4>1 DEF Frames
      <4> HIDE DEF f, k
      <4> QED
        BY <3>1, <4>1, <4>3, <4>4 DEF Piece
    <3>5. yielded = SubSeq(written, 1, cut[k])
      BY <1>4, <1>7, <3>1, ConcatEmptySeq, SMTT(30)
    <3>6. yielded \o f.records = SubSeq(written, 1, cut[k + 1])
      <4> DEFINE from == cut[k]
                 to == cut[k + 1]
      <4>1. 1 \in 1 .. Len(written) + 1 /\ from \in 1 - 1 .. Len(written) /\ to \in from .. Len(written)
        BY <1>4, <3>4, LenProperties
      <4> HIDE DEF from, to
      <4>2. SubSeq(written, 1, from) \o SubSeq(written, from + 1, to) = SubSeq(written, 1, to)
        BY <1>4, <4>1, ConcatAdjacentSubSeq
      <4> QED
        BY <3>4, <3>5, <4>2 DEF from, to
    <3> HIDE DEF f, k
    <3>7. reader' \in Readers /\ reader'.index = k + 1 /\ reader'.lines = f.records /\ reader'.at # "header"
          /\ reader'.at # "done" /\ (reader'.at \in {"trailer", "finish", "done"} => f.final)
      <4>1. CASE f.final = TRUE
        <5>1. reader' = [at |-> "trailer", index |-> k + 1, lines |-> f.records]
          BY <3>1, <4>1
        <5>2. k + 1 \in Nat
          BY <3>2
        <5> QED
          BY <3>4, <4>1, <5>1, <5>2 DEF Readers
      <4>2. CASE f.final = FALSE
        <5>1. reader' = [at |-> "frames", index |-> k + 1, lines |-> f.records]
          BY <3>1, <4>2
        <5>2. k + 1 \in Nat
          BY <3>2
        <5> QED
          BY <3>4, <4>2, <5>1, <5>2 DEF Readers
      <4> QED
        BY <3>4, <4>1, <4>2
    <3>8. k + 1 <= Len(file.frames)
      BY <3>2
    <3> QED
      BY <1>4, <3>1, <3>4, <3>6, <3>7, <3>8
  <2> QED
    BY <2>1, <2>2
<1>11. CASE ReadRecord
  <2>1. reader.lines \in Seq(Record) /\ reader.lines # <<>> /\ reader.at \in {"frames", "trailer", "finish"}
    BY <1>4, <1>11 DEF ReadRecord, Readers
  <2> DEFINE record == Head(reader.lines)
             rest == Tail(reader.lines)
  <2>2. CASE Verdict(record) = "ok"
    <3>1. yielded' = Append(yielded, record) /\ reader' = [reader EXCEPT !.lines = rest]
      BY <1>11, <2>2 DEF ReadRecord
    <3>2. record \in Record /\ rest \in Seq(Record) /\ <<record>> \in Seq(Record) /\ reader.lines = <<record>> \o rest
      BY <2>1, HeadTailProperties, SplitFirst
    <3>3. yielded' \in Seq(Record) /\ yielded' = yielded \o <<record>>
      BY <1>4, <3>1, <3>2, AppendProperties, AppendIsConcat
    <3>4. yielded' \o rest = yielded \o reader.lines
      <4> HIDE DEF record, rest
      <4>1. (yielded \o <<record>>) \o rest = yielded \o (<<record>> \o rest)
        BY <1>4, <3>2, ConcatAssociative
      <4> QED
        BY <3>2, <3>3, <4>1
    <3> HIDE DEF rest
    <3>5. reader' \in Readers /\ reader'.index = reader.index /\ reader'.lines = rest /\ reader'.at = reader.at
      BY <1>4, <3>1, <3>2 DEF Readers
    <3> QED
      BY <1>4, <1>7, <2>1, <3>3, <3>4, <3>5
  <2>3. CASE Verdict(record) # "ok"
    <3>1. ReaderGoes(Verdict(record)) /\ UNCHANGED yielded /\ Verdict(record) \in {"corrupt", "invalid-record"}
      BY <1>11, <2>3 DEF ReadRecord, Verdict
    <3> QED
      BY <1>4, <1>7, <1>8, <3>1
  <2> QED
    BY <2>2, <2>3
<1> QED
  BY <1>9, <1>10, <1>11

\* The invariant of the file and its reader holds from the start on.
LEMMA ExportHolds == ExportSpec => []ExportInv
<1>1. ExportInit => ExportInv
  <2> SUFFICES ASSUME ExportInit
               PROVE  ExportInv
    OBVIOUS
  <2> DEFINE none == [k \in Nat |-> 0]
  <2>1. <<>> \in Seq(Record) /\ <<>> \in Seq(Frames) /\ <<>> \in Seq(Pieces(none)) /\ Len(<<>>) = 0 /\ <<>> \o <<>> = <<>>
    BY EmptySeq, ConcatEmptySeq
  <2>2. \A s, n : n = 0 => SubSeq(s, 1, n) = <<>>
    BY SubSeqEmpty
  <2>3. ExportTyped /\ ReaderWaits
    BY <2>1, ExportAssumption DEF ExportInit, ExportTyped, ReaderWaits, Readers, Header
  <2>4. CutAt(none)
    BY <2>1, <2>2 DEF ExportInit, CutAt
  <2> QED
    BY <2>3, <2>4 DEF ExportInv
<1>2. ExportInv /\ [ExportNext]_exportVars => ExportInv'
  <2> SUFFICES ASSUME ExportInv, [ExportNext]_exportVars
               PROVE  ExportInv'
    OBVIOUS
  <2>1. CASE UNCHANGED exportVars
    BY <2>1 DEF exportVars, ExportInv, ExportTyped, ReaderWaits, CutAt, Pieces, Piece
  <2> QED
    BY <2>1, WriterStep, DamageStep, ReaderStep, SMTT(30) DEF ExportNext
<1> QED
  BY <1>1, <1>2, PTL DEF ExportSpec

\* The type invariant of the export file, for any number of records and damages.
THEOREM ExportTypes == ExportSpec => []ExportTypeOK
<1>1. ExportInv => ExportTypeOK
  BY DEF ExportInv, ExportTyped, Readers, ExportTypeOK
<1> QED
  BY <1>1, ExportHolds, PTL

\* ReadIsWritten: whatever happens to the file on its way, what the importer is
\* given is the beginning of what the exporter wrote, and a file that is read to
\* its end is the whole of a finished export, for any number of records and damages.
THEOREM ReadHolds == ExportSpec => []ReadIsWritten
  BY ExportHolds, ReadIsWrittenFollows, PTL

-----------------------------------------------------------------------------
(* The run in which both are checked beside the lifecycle of a transaction *)

\* The part that acts makes the steps it makes alone, the others keep their initial
\* states: what is proved of the three components holds in every behaviour of the run.
THEOREM AwaitedIsComponents ==
  AwaitedSpec => Init /\ [][Next]_vars /\ WorkSpec /\ ExportSpec
<1>1. AwaitedInit => Init /\ WorkInit /\ ExportInit
  BY DEF AwaitedInit
<1>2. ASSUME [AwaitedNext]_awaitedVars
      PROVE  [Next]_vars /\ [WorkNext]_workVars /\ [ExportNext]_exportVars
  <2>1. CASE awaitedVars' = awaitedVars
    BY <2>1 DEF awaitedVars
  <2>2. CASE OnlyPart("lifecycle") /\ Next
    BY <2>2 DEF OnlyPart
  <2>3. CASE OnlyPart("workspace") /\ WorkNext
    BY <2>3 DEF OnlyPart
  <2>4. CASE OnlyPart("export") /\ ExportNext
    BY <2>4 DEF OnlyPart
  <2> QED
    BY <1>2, <2>1, <2>2, <2>3, <2>4 DEF AwaitedNext
<1> QED
  BY <1>1, <1>2, PTL DEF AwaitedSpec, WorkSpec, ExportSpec

\* WorkspaceSound and ReadIsWritten in the behaviours of that run.
THEOREM AwaitedHolds == AwaitedSpec => [](WorkspaceSound /\ ReadIsWritten)
  BY AwaitedIsComponents, WorkspaceHolds, ReadHolds, PTL
=============================================================================
