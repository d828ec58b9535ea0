----------------------------- MODULE KeyRotation -----------------------------
(***************************************************************************)
(* The rotation of ENCRYPTION_KEY: the script that re-encrypts the stored  *)
(* secrets field by field, each from a snapshot of its column, while the   *)
(* services go on writing with the key they have; the operator runs it     *)
(* again until it completes, then gives the services the new key.  Two of  *)
(* the script's fields stand for all of them, one table for each.          *)
(***************************************************************************)
EXTENDS Naturals, Sequences

CONSTANTS SecretRows,     \* the rows of each table
          MaxRotations,   \* bound: runs of the script
          MaxSaved,       \* bound: values saved by the services
          MaxMishaps       \* bound: updates that fail, runs that die

ASSUME RotationBounds == MaxRotations \in Nat /\ MaxSaved \in Nat /\ MaxMishaps \in Nat

\* The fields the script goes through, and all those stored encrypted.
ROTATED_FIELDS == <<"secretKey", "signingSecret">>
StoredFields == {"secretKey", "signingSecret", "goPlusApiKey"}
Values == StoredFields \X SecretRows
Rotated(v) == \E i \in DOMAIN ROTATED_FIELDS : v[1] = ROTATED_FIELDS[i]

\* A value is plain text of an older record, encrypted with one of the two
\* keys, or unreadable with both; its content is the number of its save.
Secret == [key : {"plain", "old", "new", "neither"}, content : 0..MaxSaved]

VARIABLES stored,      \* the values in the database
          serviceKey,  \* ENCRYPTION_KEY of the services
          script,      \* the run: its step, field, snapshot, rows to do, whether a record failed
          verdict,     \* what the last run said: "none", "INCOMPLETE", "Completed"
          rotations, saves, mishaps,  \* counters of the bounds
          saved        \* history: the values a service has saved

rotationVars == <<stored, serviceKey, script, verdict, rotations, saves, mishaps, saved>>

NoSnapshot == [r \in SecretRows |-> [key |-> "plain", content |-> 0]]
NotRunning == [step |-> "off", field |-> 1, found |-> NoSnapshot, todo |-> {}, failed |-> FALSE]

RotationTypeOK ==
  /\ stored \in [Values -> Secret]
  /\ serviceKey \in {"old", "new"}
  /\ script \in [step : {"off", "select", "rotate"}, field : DOMAIN ROTATED_FIELDS,
                 found : [SecretRows -> Secret], todo : SUBSET SecretRows, failed : BOOLEAN]
  /\ verdict \in {"none", "INCOMPLETE", "Completed"}
  /\ rotations \in 0..MaxRotations /\ saves \in 0..MaxSaved /\ mishaps \in 0..MaxMishaps
  /\ saved \subseteq Values

\* One of the values may be an older record's, or a damaged one.
RotationInit ==
  /\ \E v \in Values, key \in {"old", "plain", "neither"} :
       stored = [w \in Values |-> [key |-> IF w = v THEN key ELSE "old", content |-> 0]]
  /\ serviceKey = "old" /\ script = NotRunning /\ verdict = "none"
  /\ rotations = 0 /\ saves = 0 /\ mishaps = 0 /\ saved = {}

Field == ROTATED_FIELDS[script.field]
Mishap == mishaps < MaxMishaps /\ mishaps' = mishaps + 1
-----------------------------------------------------------------------------
(* The script *)

StartRotation ==
  /\ script.step = "off" /\ serviceKey = "old"
  /\ rotations < MaxRotations
  /\ rotations' = rotations + 1
  /\ script' = [NotRunning EXCEPT !.step = "select"]
  /\ verdict' = "none"
  /\ UNCHANGED <<stored, serviceKey, saves, mishaps, saved>>

\* One SELECT reads the whole column.
SelectField ==
  /\ script.step = "select"
  /\ script' = [script EXCEPT !.step = "rotate", !.todo = SecretRows,
                              !.found = [r \in SecretRows |-> stored[<<Field, r>>]]]
  /\ UNCHANGED <<stored, serviceKey, verdict, rotations, saves, mishaps, saved>>

\* The record read is re-encrypted and written by its id, whatever the row
\* holds by now; one in plain text or on the new key is skipped, and one that
\* neither key decrypts fails.
RotateRecord(r) ==
  /\ script.step = "rotate" /\ r \in script.todo
  /\ script' = [script EXCEPT !.todo = @ \ {r}, !.failed = @ \/ script.found[r].key = "neither"]
  /\ stored' = IF script.found[r].key = "old"
               THEN [stored EXCEPT ![<<Field, r>>] = [script.found[r] EXCEPT !.key = "new"]]
               ELSE stored
  /\ UNCHANGED <<serviceKey, verdict, rotations, saves, mishaps, saved>>

\* Mutant: a failed update is not counted.
UpdateFailsUncounted(r) ==
  /\ script.step = "rotate" /\ r \in script.todo /\ script.found[r].key = "old"
  /\ Mishap
  /\ script' = [script EXCEPT !.todo = @ \ {r}]
  /\ UNCHANGED <<stored, serviceKey, verdict, rotations, saves, saved>>

\* The update of a record fails: counted, and the run goes on.
UpdateFails(r) ==
  /\ script.step = "rotate" /\ r \in script.todo /\ script.found[r].key = "old"
  /\ Mishap
  /\ script' = [script EXCEPT !.todo = @ \ {r}, !.failed = TRUE]
  /\ UNCHANGED <<stored, serviceKey, verdict, rotations, saves, saved>>

NextField ==
  /\ script.step = "rotate" /\ script.todo = {}
  /\ script.field < Len(ROTATED_FIELDS)
  /\ script' = [script EXCEPT !.step = "select", !.field = @ + 1, !.found = NoSnapshot]
  /\ UNCHANGED <<stored, serviceKey, verdict, rotations, saves, mishaps, saved>>

EndRotation ==
  /\ script.step = "rotate" /\ script.todo = {}
  /\ script.field = Len(ROTATED_FIELDS)
  /\ script' = NotRunning
  /\ verdict' = IF script.failed THEN "INCOMPLETE" ELSE "Completed"
  /\ UNCHANGED <<stored, serviceKey, rotations, saves, mishaps, saved>>

\* A select that throws, or the end of the process.
RotationDies ==
  /\ script.step # "off"
  /\ Mishap
  /\ script' = NotRunning
  /\ UNCHANGED <<stored, serviceKey, verdict, rotations, saves, saved>>
-----------------------------------------------------------------------------
(* The services and the operator *)

\* A service encrypts a new value with the key it runs with.
SaveValue(v) ==
  /\ saves < MaxSaved
  /\ saves' = saves + 1
  /\ stored' = [stored EXCEPT ![v] = [key |-> serviceKey, content |-> saves + 1]]
  /\ saved' = saved \cup {v}
  /\ UNCHANGED <<serviceKey, script, verdict, rotations, mishaps>>

\* Once a run has ended with "Rotation Completed".
SwitchKey ==
  /\ script.step = "off" /\ verdict = "Completed" /\ serviceKey = "old"
  /\ serviceKey' = "new"
  /\ UNCHANGED <<stored, script, verdict, rotations, saves, mishaps, saved>>

RotationNext ==
  \/ StartRotation \/ SelectField \/ NextField \/ EndRotation \/ RotationDies \/ SwitchKey
  \/ \E r \in SecretRows : RotateRecord(r) \/ UpdateFails(r)
  \/ \E v \in Values : SaveValue(v)

RotationSpec == RotationInit /\ [][RotationNext]_rotationVars
-----------------------------------------------------------------------------
Readable(v) == stored[v].key \in {"plain", serviceKey}

\* However often the script died, failed on a record and ran again, a value of
\* its fields that no service saved meanwhile has its first content, and the
\* services can read it once they have the new key.
RotationKeepsValues ==
  \A v \in Values \ saved :
    /\ stored[v].content = 0
    /\ (serviceKey = "new" /\ Rotated(v)) => Readable(v)

\* The claim that the script "re-encrypts every stored secret": with the new
\* key the services read every value that nobody saved meanwhile, unless it
\* was damaged before.
SecretsReadableAfterSwitch ==
  serviceKey = "new" => \A v \in Values \ saved : Readable(v) \/ stored[v].key = "neither"
=============================================================================
