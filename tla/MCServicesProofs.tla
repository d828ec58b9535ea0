-------------------------- MODULE MCServicesProofs --------------------------
(***************************************************************************)
(* The components that one run checks together: a behaviour of that run is *)
(* a behaviour of each of them, so that all that is proved of a component  *)
(* holds of the run, for every value of the constants.                     *)
(***************************************************************************)
EXTENDS MCServices, ServiceProofs, DashboardProofs, SecretProofs

-----------------------------------------------------------------------------
\* One component acts and the others keep their states: to each of them a step
\* of the composition is a step of its own or a stutter.
LEMMA ServicesStep ==
  ASSUME [ServicesNext]_servicesVars
  PROVE
    /\ [SecretNext]_secretVars /\ [FactorNext]_factorVars /\ [OutboxNext]_outboxVars
    /\ [IntakeNext]_intakeVars /\ [ImportNext]_importVars /\ [PartitionNext]_partitionVars
    /\ [RotationNext]_rotationVars /\ [TrackingNext]_trackingVars /\ [CascadeNext]_cascadeVars
    /\ [EndpointNext]_endpointVars /\ [RelayNext]_relayVars /\ [SetupNext]_setupVars
    /\ [WizardNext]_wizardVars /\ [ScreeningNext]_screeningVars /\ [ReviewNext]_reviewVars
<1>1. CASE servicesVars' = servicesVars
  BY <1>1 DEF servicesVars
<1>2. CASE OnlyPart("secret") /\ SecretNext
  BY <1>2 DEF OnlyPart
<1>3. CASE OnlyPart("factor") /\ FactorNext
  BY <1>3 DEF OnlyPart
<1>4. CASE OnlyPart("outbox") /\ OutboxNext
  BY <1>4 DEF OnlyPart
<1>5. CASE OnlyPart("intake") /\ IntakeNext
  BY <1>5 DEF OnlyPart
<1>6. CASE OnlyPart("import") /\ ImportNext
  BY <1>6 DEF OnlyPart
<1>7. CASE OnlyPart("partitions") /\ PartitionNext
  BY <1>7 DEF OnlyPart
<1>8. CASE OnlyPart("rotation") /\ RotationNext
  BY <1>8 DEF OnlyPart
<1>9. CASE OnlyPart("tracking") /\ TrackingNext
  BY <1>9 DEF OnlyPart
<1>10. CASE OnlyPart("cascades") /\ CascadeNext
  BY <1>10 DEF OnlyPart
<1>11. CASE OnlyPart("endpoints") /\ EndpointNext
  BY <1>11 DEF OnlyPart
<1>12. CASE OnlyPart("relay") /\ RelayNext
  BY <1>12 DEF OnlyPart
<1>13. CASE OnlyPart("setup") /\ SetupNext
  BY <1>13 DEF OnlyPart
<1>14. CASE OnlyPart("wizard") /\ WizardNext
  BY <1>14 DEF OnlyPart
<1>15. CASE OnlyPart("screening") /\ ScreeningNext
  BY <1>15 DEF OnlyPart
<1>16. CASE OnlyPart("review") /\ ReviewNext
  BY <1>16 DEF OnlyPart
<1> QED
  BY <1>1, <1>2, <1>3, <1>4, <1>5, <1>6, <1>7, <1>8, <1>9, <1>10, <1>11, <1>12, <1>13, <1>14, <1>15,
     <1>16, SMTT(30) DEF ServicesNext

\* The composition in which the services are checked adds nothing to what each
\* component does alone and takes nothing from it but its turn.
THEOREM ServicesAreComponents ==
  ServicesSpec =>
    /\ SecretSpec /\ FactorSpec /\ OutboxSpec /\ IntakeSpec /\ ImportSpec
    /\ PartitionSpec /\ RotationSpec /\ TrackingSpec /\ CascadeSpec /\ EndpointSpec
    /\ RelaySpec /\ SetupSpec /\ WizardSpec /\ ScreeningSpec /\ ReviewSpec
<1>1. ServicesInit =>
        /\ SecretInit /\ FactorInit /\ OutboxInit /\ IntakeInit /\ ImportInit
        /\ PartitionInit /\ RotationInit /\ TrackingInit /\ CascadeInit /\ EndpointInit
        /\ RelayInit /\ SetupInit /\ WizardInit /\ ScreeningInit /\ ReviewInit
  BY DEF ServicesInit
<1>2. [ServicesNext]_servicesVars =>
        /\ [SecretNext]_secretVars /\ [FactorNext]_factorVars /\ [OutboxNext]_outboxVars
        /\ [IntakeNext]_intakeVars /\ [ImportNext]_importVars /\ [PartitionNext]_partitionVars
        /\ [RotationNext]_rotationVars /\ [TrackingNext]_trackingVars /\ [CascadeNext]_cascadeVars
        /\ [EndpointNext]_endpointVars /\ [RelayNext]_relayVars /\ [SetupNext]_setupVars
        /\ [WizardNext]_wizardVars /\ [ScreeningNext]_screeningVars /\ [ReviewNext]_reviewVars
  BY ServicesStep
<1> QED
  BY <1>1, <1>2, PTL
     DEF ServicesSpec, SecretSpec, FactorSpec, OutboxSpec, IntakeSpec, ImportSpec, PartitionSpec,
     RotationSpec, TrackingSpec, CascadeSpec, EndpointSpec, RelaySpec, SetupSpec, WizardSpec,
     ScreeningSpec, ReviewSpec

\* TypesOK: whichever of the fifteen components acts, its state has its type: no
\* interleaving of requests, crons, workers and deaths takes a column, a key, a
\* counter or a local variable out of the values the code gives it.
THEOREM ServicesTyped == ServicesSpec => []TypesOK
<1>1. ASSUME part \in Components,
             SecretTypeOK,
             FactorTypeOK,
             OutboxTypeOK,
             IntakeTypeOK,
             ImportTypeOK,
             PartitionTypeOK,
             RotationTypeOK,
             TrackingTypeOK,
             CascadeTypeOK,
             EndpointTypeOK,
             RelayTypeOK,
             SetupTypeOK,
             WizardTypeOK,
             ScreeningTypeOK,
             ReviewTypeOK
      PROVE  TypesOK
  BY <1>1 DEF TypesOK, Components
<1>2. ServicesInit => part \in Components
  BY DEF ServicesInit
<1>3. part \in Components /\ [ServicesNext]_servicesVars => (part \in Components)'
  BY DEF ServicesNext, OnlyPart, servicesVars
<1>4. ServicesSpec => [](part \in Components)
  BY <1>2, <1>3, PTL DEF ServicesSpec
<1> QED
  BY <1>1, <1>4, ServicesAreComponents, SecretTypes, FactorTypes, OutboxTypes, IntakeTypes,
     ImportTypes, PartitionTypes, RotationTypes, TrackingTypes, CascadeTypes, EndpointTypes,
     RelayTypes, SetupTypes, WizardTypes, ScreeningTypes, ReviewTypes, PTL
=============================================================================
