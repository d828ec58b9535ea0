------------------------------- MODULE Cascades -------------------------------
(***************************************************************************)
(* What goes with a row that the dashboard deletes.  Payload's hooks       *)
(* delete the children first, then the row's own DELETE carries out the    *)
(* actions of the foreign keys; all of it is one database transaction,     *)
(* and the engine, the cron, the import and other requests write rows        *)
(* between its statements (read committed).                                *)
(*                                                                         *)
(* Abstractions.  A row is its table, a number and the rows its foreign    *)
(* keys refer to.  Who may delete what is in Workspace.  The rows a hook   *)
(* finds are deleted one after the other.  One deletion runs at a time.    *)
(* Tables that only the full edition writes (bills, passkeys, wallets)     *)
(* have no rows.                                                           *)
(***************************************************************************)
EXTENDS Naturals, Sequences, SequencesExt

CONSTANTS Initial,      \* rows there are at first
          Writable,     \* rows that are written later
          Targets,      \* rows that somebody deletes
          Owning,       \* memberships, by number, with the role of an owner
          MaxWrites,    \* bound: rows written in a behaviour
          MaxDeletions  \* bound: deletions in a behaviour

VARIABLES
  committed,   \* the committed rows
  deletion,    \* the running deletion, or the last one
  budget       \* writes and deletions so far

cascadeVars == <<committed, deletion, budget>>
-----------------------------------------------------------------------------
(* The schema: the foreign keys of each table.  Payload generates SET NULL for *)
(* every one of them, and NOT NULL for the required ones.                      *)

Required(table) == [to |-> table, required |-> TRUE, action |-> "set null"]
Optional(table) == [to |-> table, required |-> FALSE, action |-> "set null"]
PartOf(table) == [to |-> table, required |-> TRUE, action |-> "cascade"]

userKeys == {}
userPartKeys == {PartOf("user")}
organizationKeys == {}
memberKeys == {Required("organization"), Required("user")}
appKeys == {Required("organization")}
appPartKeys == {PartOf("app")}
endpointKeys == {Required("app")}
endpointPartKeys == {PartOf("endpoint")}
paymentKeys == {Required("app"), Required("organization")}
invoiceKeys == {Required("app"), Required("organization"), Required("payment")}
ledgerKeys == {Required("organization")}
transactionKeys == {Required("organization"), Optional("app"), Optional("invoice")}

\* Mutant: the key as Payload generates it.
deliveryKeysGenerated == {Required("endpoint")}

deliveryKeys == {PartOf("endpoint")}

Keys ==
  [user |-> userKeys, userPart |-> userPartKeys, organization |-> organizationKeys, member |-> memberKeys,
   app |-> appKeys, appPart |-> appPartKeys, endpoint |-> endpointKeys,
   endpointPart |-> endpointPartKeys, delivery |-> deliveryKeys, payment |-> paymentKeys,
   invoice |-> invoiceKeys, ledger |-> ledgerKeys, transaction |-> transactionKeys]

TableNames == DOMAIN Keys

\* x refers to r by the key.
Refers(x, key, r) == key.to = r.table /\ key.to \in DOMAIN x.refs /\ x.refs[key.to] = r.id

\* A row has what its table requires; what belongs to an invoice belongs to an app.
RowTyped(x) ==
  /\ x = [table |-> x.table, id |-> x.id, refs |-> x.refs] /\ x.table \in TableNames
  /\ DOMAIN x.refs \subseteq {key.to : key \in Keys[x.table]}
  /\ \A key \in Keys[x.table] : key.required => key.to \in DOMAIN x.refs
  /\ "invoice" \in DOMAIN x.refs => "app" \in DOMAIN x.refs

\* It is of the app and the organization of the row it refers to: an app never
\* moves, and whoever records a row looks at the app it is for.
Agrees(x, r) ==
  r.table \in DOMAIN x.refs /\ x.refs[r.table] = r.id =>
    \A t \in {"app", "organization"} \cap DOMAIN x.refs \cap DOMAIN r.refs : x.refs[t] = r.refs[t]

ASSUME CascadeAssumption ==
  /\ \A x \in Initial \cup Writable : RowTyped(x) /\ \A r \in Initial \cup Writable : Agrees(x, r)
  /\ \A x, y \in Initial : x.id = y.id => x = y
  /\ \A x \in Initial : \A t \in DOMAIN x.refs : \E r \in Initial : r.table = t /\ r.id = x.refs[t]
  /\ \A r \in Targets : r.table \in {"user", "organization", "app", "endpoint", "payment"}
  /\ MaxWrites \in Nat /\ MaxDeletions \in Nat
-----------------------------------------------------------------------------
(* The hooks: what is deleted before a row, in order *)

Children(table, r) == [do |-> "find", table |-> table, of |-> r]
OrganizationsOf(r) == [do |-> "owned", table |-> "organization", of |-> r]
DeleteRow(r) == [do |-> "row", table |-> r.table, of |-> r]
DeleteRows(rows) == [do |-> "rows", rows |-> rows]

userHook(r) == <<OrganizationsOf(r), Children("member", r)>>

organizationHook(r) == <<Children("member", r), Children("app", r), Children("transaction", r)>>

\* Mutant: the payment methods go before the invoices that name them.
appHookSwapped(r) ==
  <<Children("transaction", r), Children("endpoint", r), Children("payment", r), Children("invoice", r)>>

appHook(r) ==
  <<Children("transaction", r), Children("endpoint", r), Children("invoice", r), Children("payment", r)>>

Hook(r) ==
  CASE r.table = "user" -> userHook(r)
    [] r.table = "organization" -> organizationHook(r)
    [] r.table = "app" -> appHook(r)
    [] OTHER -> <<>>

\* The statements that delete a row.
Deleting(r) == Hook(r) \o <<DeleteRow(r)>>
-----------------------------------------------------------------------------
(* Deletions and the writes of others *)

\* The rows and the keys <<row, table>> that the transaction has deleted and set
\* to null, the rows others wrote since it began, the rows it failed on.
NoDeletion == [state |-> "none", target |-> "none", todo |-> <<>>,
               gone |-> {}, nulls |-> {}, late |-> {}, blockers |-> {}]

Running == deletion.state = "running"

CascadeInit ==
  /\ committed = Initial
  /\ deletion = NoDeletion
  /\ budget = [writes |-> 0, deletions |-> 0]

\* Another process writes a row.  The rows it refers to must exist; one that the
\* running deletion has deleted makes the insert wait for the end of it.
WriteRow(x) ==
  /\ budget.writes < MaxWrites
  /\ \A r \in committed : r.id # x.id
  /\ \A t \in DOMAIN x.refs : \E r \in committed \ deletion.gone : r.table = t /\ r.id = x.refs[t]
  /\ committed' = committed \cup {x}
  /\ deletion' = IF Running THEN [deletion EXCEPT !.late = @ \cup {x}] ELSE deletion
  /\ budget' = [budget EXCEPT !.writes = @ + 1]

StartDeletion(r) ==
  /\ ~Running
  /\ budget.deletions < MaxDeletions
  /\ r \in committed
  /\ deletion' = [NoDeletion EXCEPT !.state = "running", !.target = r.table, !.todo = Deleting(r)]
  /\ budget' = [budget EXCEPT !.deletions = @ + 1]
  /\ UNCHANGED committed

\* The keys, of rows the transaction sees, that refer to r.
Pointing(r) ==
  UNION {{<<x, key>> : key \in {k \in Keys[x.table] : Refers(x, k, r) /\ <<x, k.to>> \notin deletion.nulls}} :
         x \in committed \ deletion.gone}

\* The rows a statement of a hook finds.
Found(step) ==
  LET pointing == {p[1] : p \in Pointing(step.of)} IN
  IF step.do = "find"
    THEN {x \in pointing : x.table = step.table}
    ELSE {r \in committed \ deletion.gone :
            r.table = "organization" /\ \E x \in pointing : x.id \in Owning /\ x.refs["organization"] = r.id}

\* A hook finds the rows it deletes,
RunHook ==
  /\ Running /\ deletion.todo # <<>>
  /\ LET step == Head(deletion.todo) IN
     /\ step.do \in {"find", "owned"}
     /\ deletion' = [deletion EXCEPT !.todo = <<DeleteRows(Found(step))>> \o Tail(@)]
  /\ UNCHANGED <<committed, budget>>

\* and deletes them in any order, each with the hook of its own table.
DeleteFound ==
  /\ Running /\ deletion.todo # <<>>
  /\ LET step == Head(deletion.todo) IN
     /\ step.do = "rows"
     /\ \/ step.rows = {} /\ deletion' = [deletion EXCEPT !.todo = Tail(@)]
        \/ \E r \in step.rows : deletion' =
             [deletion EXCEPT !.todo = Deleting(r) \o <<DeleteRows(step.rows \ {r})>> \o Tail(@)]
  /\ UNCHANGED <<committed, budget>>

\* The DELETE of a row carries out the actions of the keys that refer to it, and
\* fails, with the whole transaction, where a required key would become null.
RunDelete ==
  /\ Running /\ deletion.todo # <<>>
  /\ LET r == Head(deletion.todo).of
         pointing == Pointing(r)
         broken == {p \in pointing : p[2].action = "set null" /\ p[2].required}
     IN
     /\ Head(deletion.todo).do = "row"
     /\ IF broken # {}
          THEN deletion' = [deletion EXCEPT !.state = "failed", !.todo = <<>>,
                                            !.gone = {}, !.nulls = {}, !.blockers = {p[1] : p \in broken}]
          ELSE deletion' = [deletion EXCEPT
                 !.todo = Tail(@),
                 !.gone = @ \cup {r} \cup {p[1] : p \in {q \in pointing : q[2].action = "cascade"}},
                 !.nulls = @ \cup {<<p[1], p[2].to>> : p \in {q \in pointing : q[2].action = "set null"}}]
  /\ UNCHANGED <<committed, budget>>

Commit ==
  /\ Running /\ deletion.todo = <<>>
  /\ committed' = {[x EXCEPT !.refs = Restrict(@, {t \in DOMAIN @ : <<x, t>> \notin deletion.nulls})] :
                x \in committed \ deletion.gone}
  /\ deletion' = [deletion EXCEPT !.state = "done", !.gone = {}]
  /\ UNCHANGED budget

CascadeNext ==
  \/ \E x \in Writable : WriteRow(x)
  \/ \E r \in Targets : StartDeletion(r)
  \/ RunHook \/ DeleteFound \/ RunDelete \/ Commit

CascadeSpec == CascadeInit /\ [][CascadeNext]_cascadeVars
-----------------------------------------------------------------------------
(* Properties *)

CascadeTypeOK ==
  /\ \A r \in committed : r.table \in TableNames /\ DOMAIN r.refs \subseteq {key.to : key \in Keys[r.table]}
  /\ deletion.state \in {"none", "running", "failed", "done"}
  /\ deletion.late \subseteq Writable /\ (Running => deletion.gone \subseteq committed)
  /\ budget.writes \in 0..MaxWrites /\ budget.deletions \in 0..MaxDeletions

\* A row that a deletion may rightly meet: one written since it began, a row of
\* the immutable ledger, an invoice in the name of a payment method.  A
\* delivery never stops a deletion, however late it is written.
Excused(x) ==
  /\ x.table # "delivery"
  /\ \/ x \in deletion.late
     \/ x.table = "ledger"
     \/ x.table = "invoice" /\ deletion.target = "payment"

\* The hooks and the actions of the foreign keys together delete whatever was
\* there when the deletion began: it fails only over a row written meanwhile
\* (or one that is kept on purpose), and only a transaction recorded
\* meanwhile outlives its app.
DeletionsFailByRacesOnly ==
  /\ deletion.state = "failed" => \A x \in deletion.blockers : Excused(x)
  /\ deletion.state = "done" => \A n \in deletion.nulls : n[1] \in deletion.late
=============================================================================
