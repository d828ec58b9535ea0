----------------------------- MODULE MCServices -----------------------------
(* Fifteen components that share no variable, checked in one run: in a       *)
(* behaviour one of them, the part, acts, and the others keep their initial  *)
(* states.                                                                   *)
EXTENDS SecretRotation, TwoFactor, Outbox, Intake, CloudImport, Partitions,
        KeyRotation, ProviderTracking, Cascades, Endpoints, Relay,
        SetupScreen, ImportScreen, AmlScreening, AccessReview, TLC

CONSTANTS boot1, boot2, revoke1, Requests

VARIABLE part

servicesVars == <<part, secretVars, factorVars, outboxVars, intakeVars,
                  importVars, partitionVars, rotationVars, trackingVars,
                  cascadeVars, endpointVars, relayVars, setupVars, wizardVars, screeningVars, reviewVars>>

\* Requests, runs, imports and cron tasks are numbered alike, so that one
\* permutation serves all.
MCTasks == {boot1, boot2, revoke1} \cup Requests
MCKindOf ==
  boot1 :> "boot" @@ boot2 :> "boot" @@ revoke1 :> "revoke" @@ [r \in Requests |-> "cron"]
Sym == Permutations(Requests)

\* An account that owns the organization with one row of every table, another
\* account, and a second row of each table that others may write meanwhile.
MCRow(table, id, refs) == [table |-> table, id |-> id, refs |-> refs]
MCOfApp == [organization |-> 3, app |-> 5]
MCInitial ==
  {MCRow("user", 1, <<>>), MCRow("userPart", 2, [user |-> 1]), MCRow("organization", 3, <<>>),
   MCRow("member", 4, [organization |-> 3, user |-> 1]), MCRow("app", 5, [organization |-> 3]),
   MCRow("appPart", 6, [app |-> 5]), MCRow("endpoint", 7, [app |-> 5]),
   MCRow("endpointPart", 8, [endpoint |-> 7]), MCRow("delivery", 9, [endpoint |-> 7]),
   MCRow("payment", 10, MCOfApp), MCRow("invoice", 11, [payment |-> 10] @@ MCOfApp),
   MCRow("transaction", 12, [invoice |-> 11] @@ MCOfApp), MCRow("user", 13, <<>>)}
MCWritable ==
  {MCRow("member", 14, [organization |-> 3, user |-> 13]), MCRow("app", 15, [organization |-> 3]),
   MCRow("endpoint", 16, [app |-> 5]), MCRow("delivery", 17, [endpoint |-> 7]),
   MCRow("payment", 18, MCOfApp), MCRow("invoice", 19, [payment |-> 10] @@ MCOfApp),
   MCRow("transaction", 20, MCOfApp), MCRow("ledger", 21, [organization |-> 3])}
MCTargets == {r \in MCInitial : r.table \in {"user", "organization", "app", "endpoint", "payment"}}

Components == {"secret", "factor", "outbox", "intake", "import", "partitions", "rotation", "tracking",
               "cascades", "endpoints", "relay", "setup", "wizard", "screening", "review"}

ServicesInit ==
  /\ part \in Components
  /\ SecretInit /\ FactorInit /\ OutboxInit
  /\ IntakeInit /\ ImportInit /\ PartitionInit
  /\ RotationInit /\ TrackingInit /\ CascadeInit /\ EndpointInit /\ RelayInit
  /\ SetupInit /\ WizardInit /\ ScreeningInit /\ ReviewInit
  /\ part # "factor" => user = Off
  /\ part # "outbox" => event.kind = "quota"
  /\ part # "rotation" => stored = [v \in Values |-> [key |-> "old", content |-> 0]]
  /\ part # "tracking" => via = "evm" /\ settings = {}

OnlyPart(p) ==
  /\ part = p /\ UNCHANGED part
  /\ IF p = "secret" THEN TRUE ELSE UNCHANGED secretVars
  /\ IF p = "factor" THEN TRUE ELSE UNCHANGED factorVars
  /\ IF p = "outbox" THEN TRUE ELSE UNCHANGED outboxVars
  /\ IF p = "intake" THEN TRUE ELSE UNCHANGED intakeVars
  /\ IF p = "import" THEN TRUE ELSE UNCHANGED importVars
  /\ IF p = "partitions" THEN TRUE ELSE UNCHANGED partitionVars
  /\ IF p = "rotation" THEN TRUE ELSE UNCHANGED rotationVars
  /\ IF p = "tracking" THEN TRUE ELSE UNCHANGED trackingVars
  /\ IF p = "cascades" THEN TRUE ELSE UNCHANGED cascadeVars
  /\ IF p = "endpoints" THEN TRUE ELSE UNCHANGED endpointVars
  /\ IF p = "relay" THEN TRUE ELSE UNCHANGED relayVars
  /\ IF p = "setup" THEN TRUE ELSE UNCHANGED setupVars
  /\ IF p = "wizard" THEN TRUE ELSE UNCHANGED wizardVars
  /\ IF p = "screening" THEN TRUE ELSE UNCHANGED screeningVars
  /\ IF p = "review" THEN TRUE ELSE UNCHANGED reviewVars

ServicesNext ==
  \/ OnlyPart("secret") /\ SecretNext
  \/ OnlyPart("factor") /\ FactorNext
  \/ OnlyPart("outbox") /\ OutboxNext
  \/ OnlyPart("intake") /\ IntakeNext
  \/ OnlyPart("import") /\ ImportNext
  \/ OnlyPart("partitions") /\ PartitionNext
  \/ OnlyPart("rotation") /\ RotationNext
  \/ OnlyPart("tracking") /\ TrackingNext
  \/ OnlyPart("cascades") /\ CascadeNext
  \/ OnlyPart("endpoints") /\ EndpointNext
  \/ OnlyPart("relay") /\ RelayNext
  \/ OnlyPart("setup") /\ SetupNext
  \/ OnlyPart("wizard") /\ WizardNext
  \/ OnlyPart("screening") /\ ScreeningNext
  \/ OnlyPart("review") /\ ReviewNext

ServicesSpec == ServicesInit /\ [][ServicesNext]_servicesVars

\* The view of TLC: the others have their initial values, which depend on the part only.
Acting ==
  CASE part = "secret" -> <<part, secretVars>>
    [] part = "factor" -> <<part, factorVars>>
    [] part = "outbox" -> <<part, outboxVars>>
    [] part = "intake" -> <<part, intakeVars>>
    [] part = "import" -> <<part, importVars>>
    [] part = "partitions" -> <<part, partitionVars>>
    [] part = "rotation" -> <<part, rotationVars>>
    [] part = "tracking" -> <<part, trackingVars>>
    [] part = "cascades" -> <<part, cascadeVars>>
    [] part = "endpoints" -> <<part, endpointVars>>
    [] part = "relay" -> <<part, relayVars>>
    [] part = "setup" -> <<part, setupVars>>
    [] part = "wizard" -> <<part, wizardVars>>
    [] part = "screening" -> <<part, screeningVars>>
    [] part = "review" -> <<part, reviewVars>>
-----------------------------------------------------------------------------
\* The type invariant of the component that acts.
TypesOK ==
  CASE part = "secret" -> SecretTypeOK
    [] part = "factor" -> FactorTypeOK
    [] part = "outbox" -> OutboxTypeOK
    [] part = "intake" -> IntakeTypeOK
    [] part = "import" -> ImportTypeOK
    [] part = "partitions" -> PartitionTypeOK
    [] part = "rotation" -> RotationTypeOK
    [] part = "tracking" -> TrackingTypeOK
    [] part = "cascades" -> CascadeTypeOK
    [] part = "endpoints" -> EndpointTypeOK
    [] part = "relay" -> RelayTypeOK
    [] part = "setup" -> SetupTypeOK
    [] part = "wizard" -> WizardTypeOK
    [] part = "screening" -> ScreeningTypeOK
    [] part = "review" -> ReviewTypeOK
=============================================================================
