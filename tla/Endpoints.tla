------------------------------ MODULE Endpoints ------------------------------
(***************************************************************************)
(* The webhook endpoints of one organization, as the routes of the         *)
(* dashboard create, change, roll and delete them.  An organization may    *)
(* have one endpoint on localhost: the route looks for another before it   *)
(* begins, the hook of the collection before it writes, and no constraint  *)
(* of the database backs either.                                           *)
(*                                                                         *)
(* Abstractions.  A URL is on localhost or not; the app of an endpoint,    *)
(* its secret and its other columns do not matter here.  The 200 newest    *)
(* endpoints that the checks look at are all there are (README).  Time     *)
(* counts the beginnings and writes of requests.                           *)
(***************************************************************************)
EXTENDS Naturals, FiniteSets

CONSTANTS Savers,         \* requests that may be in flight at once
          EndpointIds,    \* endpoints that may ever be created
          MaxPerApp,      \* 500 in the code
          MaxTime         \* bound: beginnings and writes in a behaviour

ASSUME EndpointBounds == MaxTime \in Nat

VARIABLES
  endpoint,     \* the row of each endpoint
  saving,       \* the request of each saver
  time

endpointVars == <<endpoint, saving, time>>

NoEndpoint == [there |-> FALSE, local |-> FALSE, active |-> FALSE, began |-> 0, wrote |-> 0]
NotSaving == [op |-> "none", id |-> 0, url |-> "kept", step |-> "none", began |-> 0]

EndpointInit ==
  /\ endpoint = [e \in EndpointIds |-> NoEndpoint]
  /\ saving = [s \in Savers |-> NotSaving]
  /\ time = 0

There == {e \in EndpointIds : endpoint[e].there}

\* Mutant: an endpoint that is switched off does not count.
OtherActiveLocal(e) == \E f \in There \ {e} : endpoint[f].local /\ endpoint[f].active

\* isLocalhostUrl of the rows the checks find, but for the endpoint itself.
OtherLocal(e) == \E f \in There \ {e} : endpoint[f].local

\* Routes and hook look at the URL an endpoint will have.
WillBeLocal(s) ==
  \/ saving[s].url = "local"
  \/ saving[s].url = "kept" /\ endpoint[saving[s].id].local

Tick == time < MaxTime /\ time' = time + 1

Begin(s, request) ==
  /\ saving[s].op = "none"
  /\ Tick
  /\ saving' = [saving EXCEPT ![s] = [request EXCEPT !.began = time]]
  /\ UNCHANGED endpoint

Taken(e) == e \in There \/ \E s \in Savers : saving[s].id = e

\* POST of the collection; the new endpoint takes the least free number.
CreateEndpoint(s, e, url) ==
  /\ ~Taken(e) /\ \A f \in EndpointIds : f < e => Taken(f)
  /\ url # "kept"
  /\ Begin(s, [NotSaving EXCEPT !.op = "create", !.id = e, !.url = url, !.step = "route"])

\* PATCH of an endpoint: a new URL, or another field.
ChangeEndpoint(s, e, url) ==
  /\ e \in There
  /\ Begin(s, [NotSaving EXCEPT !.op = "change", !.id = e, !.url = url, !.step = "route"])

\* POST roll: the hook runs, the check of the route does not.
RollEndpoint(s, e) ==
  /\ e \in There
  /\ Begin(s, [NotSaving EXCEPT !.op = "roll", !.id = e, !.step = "hook"])

RefuseSave(s) == saving' = [saving EXCEPT ![s] = NotSaving] /\ UNCHANGED <<endpoint, time>>
GoOn(s, step) == saving' = [saving EXCEPT ![s].step = step] /\ UNCHANGED <<endpoint, time>>

\* The check of the route looks only at a URL that the request brings.
CheckRoute(s) ==
  /\ saving[s].step = "route"
  /\ IF saving[s].url = "local" /\ OtherLocal(saving[s].id) THEN RefuseSave(s) ELSE GoOn(s, "hook")

\* Webhook-endpoints.beforeChange: the number of endpoints of an app, the
\* other endpoint on localhost.
CheckHook(s) ==
  /\ saving[s].step = "hook"
  /\ IF \/ saving[s].op = "create" /\ Cardinality(There) >= MaxPerApp
        \/ saving[s].op # "create" /\ saving[s].id \notin There
        \/ WillBeLocal(s) /\ OtherLocal(saving[s].id)
       THEN RefuseSave(s) ELSE GoOn(s, "write")

\* The row is written as the request has it; one that is gone by now is not found.
WriteEndpoint(s) ==
  LET r == saving[s] IN
  /\ r.step = "write"
  /\ Tick
  /\ saving' = [saving EXCEPT ![s] = NotSaving]
  /\ endpoint' =
       CASE r.op = "create" ->
              [endpoint EXCEPT ![r.id] = [there |-> TRUE, local |-> r.url = "local", active |-> TRUE,
                                          began |-> r.began, wrote |-> time]]
         [] r.op = "change" /\ r.id \in There /\ r.url # "kept" ->
              [endpoint EXCEPT ![r.id].local = (r.url = "local"), ![r.id].began = r.began, ![r.id].wrote = time]
         [] r.op = "change" /\ r.id \in There /\ r.url = "kept" ->
              [endpoint EXCEPT ![r.id].active = ~@]
         [] OTHER -> endpoint

DeleteEndpoint(e) ==
  /\ e \in There
  /\ Tick
  /\ endpoint' = [endpoint EXCEPT ![e] = NoEndpoint]
  /\ UNCHANGED saving

EndpointNext ==
  \/ \E s \in Savers :
       \/ CheckRoute(s) \/ CheckHook(s) \/ WriteEndpoint(s)
       \/ \E e \in EndpointIds :
            \/ RollEndpoint(s, e)
            \/ \E url \in {"local", "public", "kept"} : CreateEndpoint(s, e, url) \/ ChangeEndpoint(s, e, url)
  \/ \E e \in EndpointIds : DeleteEndpoint(e)

EndpointSpec == EndpointInit /\ [][EndpointNext]_endpointVars
-----------------------------------------------------------------------------
(* Properties *)

EndpointTypeOK ==
  /\ endpoint \in [EndpointIds -> [there : BOOLEAN, local : BOOLEAN, active : BOOLEAN,
                                   began : 0..MaxTime, wrote : 0..MaxTime]]
  /\ \A s \in Savers : /\ saving[s].op \in {"none", "create", "change", "roll"}
                       /\ saving[s].step \in {"none", "route", "hook", "write"}
                       /\ saving[s].url \in {"local", "public", "kept"}
  /\ time \in 0..MaxTime

\* An organization has two endpoints on localhost only if the requests that
\* made them so were in flight at the same time: "Enforce maximum of 1
\* localhost webhook per organization" holds for requests one after the other.
OneLocalhost ==
  \A e, f \in There :
    (e # f /\ endpoint[e].local /\ endpoint[f].local)
    => endpoint[e].began < endpoint[f].wrote /\ endpoint[f].began < endpoint[e].wrote
=============================================================================
