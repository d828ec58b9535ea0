---------------------------- MODULE ServiceProofs ---------------------------
(***************************************************************************)
(* What is proved of the outbox, of the intake of transactions and its AML *)
(* check, of what a tracker reports, of the webhook relay and of the       *)
(* monthly partitions, for any number of runs, requests, clients and       *)
(* months and any number of faults.                                        *)
(***************************************************************************)
EXTENDS Outbox, Intake, ProviderTracking, Relay, AmlScreening, Partitions, FiniteSetTheorems,
        SequenceTheorems, TLAPS

\* A set of actors, and what it is after one of them moved.
LEMMA CountMoved ==
  ASSUME NEW S, IsFiniteSet(S), NEW A \in SUBSET S, NEW B \in SUBSET S
  PROVE  /\ Cardinality(A) \in Nat /\ Cardinality(B) \in Nat
         /\ B \subseteq A => Cardinality(B) <= Cardinality(A)
         /\ \A r \in A : B \subseteq A \ {r} => Cardinality(B) + 1 <= Cardinality(A)
         /\ \A r : B \subseteq A \cup {r} => Cardinality(B) <= Cardinality(A) + 1
<1>1. IsFiniteSet(A) /\ IsFiniteSet(B) /\ Cardinality(A) \in Nat /\ Cardinality(B) \in Nat
  BY FS_Subset, FS_CardinalityType
<1>2. B \subseteq A => Cardinality(B) <= Cardinality(A)
  BY <1>1, FS_Subset
<1>3. ASSUME NEW r \in A, B \subseteq A \ {r}
      PROVE  Cardinality(B) + 1 <= Cardinality(A)
  <2>1. IsFiniteSet(A \ {r}) /\ Cardinality(A \ {r}) = Cardinality(A) - 1
    BY <1>1, FS_RemoveElement
  <2>2. Cardinality(B) <= Cardinality(A \ {r})
    BY <1>3, <2>1, FS_Subset
  <2> QED
    BY <1>1, <2>1, <2>2
<1>4. ASSUME NEW r, B \subseteq A \cup {r}
      PROVE  Cardinality(B) <= Cardinality(A) + 1
  <2>1. IsFiniteSet(A \cup {r}) /\ Cardinality(A \cup {r}) = IF r \in A THEN Cardinality(A) ELSE Cardinality(A) + 1
    BY <1>1, FS_AddElement
  <2>2. Cardinality(B) <= Cardinality(A \cup {r})
    BY <1>4, <2>1, FS_Subset
  <2> QED
    BY <1>1, <2>1, <2>2
<1> QED
  BY <1>1, <1>2, <1>3, <1>4

-----------------------------------------------------------------------------
(* The outbox *)

Caches == {"limit", "secret", "public", "notified"}
Places == {"idle", "handle", "retry", "mark", "giveUp", "catch"} \cup Caches

OutboxTyped ==
  /\ event \in [kind : {"quota", "noOrganization", "unknown"},
                status : {"pending", "processed", "failed", "deleted"},
                attempts : 0..MaxEventAttempts, due : BOOLEAN]
  /\ caches \subseteq Caches /\ retryOrg \in BOOLEAN
  /\ run \in [Runs -> [at : Places, attempts : 0..MaxEventAttempts]]
  /\ faults \in 0..MaxFaults /\ tried \in Nat

\* Every failure that was written down, or is about to be, was a fault.
Catching == {r \in Runs : run[r].at = "catch"}
TriesAreFaults == tried + Cardinality(Catching) <= faults

\* The caches that a run has dropped when it is at a place.
DroppedAt(place) ==
  CASE place = "secret" -> {"limit"}
    [] place = "public" -> {"limit", "secret"}
    [] place = "notified" -> {"limit", "secret", "public"}
    [] place \in {"retry", "mark"} -> Caches
    [] OTHER -> {}

\* Nobody puts an old entry back, so what a run has done stays done.
EffectsDone ==
  event.kind = "quota" =>
    /\ \A r \in Runs : /\ run[r].at # "giveUp"
                       /\ caches \cap DroppedAt(run[r].at) = {}
                       /\ run[r].at = "mark" => retryOrg
    /\ event.status \in {"processed", "deleted"} => Applied

\* No attempt is added to those that failed: a run works from the number in the
\* row, which is less than the limit, and adds one when it fails.
AttemptsFailed ==
  /\ event.attempts <= tried
  /\ event.status = "pending" => event.attempts < MaxEventAttempts
  /\ event.status = "failed" /\ event.kind = "quota" => tried >= MaxEventAttempts
  /\ \A r \in Runs :
       /\ run[r].attempts <= IF run[r].at = "catch" THEN tried + 1 ELSE tried
       /\ run[r].at \notin {"idle", "catch"} => run[r].attempts < MaxEventAttempts

OutboxInv == OutboxTyped /\ TriesAreFaults /\ EffectsDone /\ AttemptsFailed

\* One run moves; nothing else is known of the others.
LEMMA RunMoves ==
  ASSUME OutboxTyped, NEW r \in Runs, NEW from, NEW to \in Places, RunGoes(r, from, to)
  PROVE  /\ run' \in [Runs -> [at : Places, attempts : 0..MaxEventAttempts]]
         /\ run[r].at = from /\ run'[r].at = to /\ run'[r].attempts = run[r].attempts
         /\ \A x \in Runs \ {r} : run'[x] = run[x]
<1>1. run \in [Runs -> [at : Places, attempts : 0..MaxEventAttempts]] /\ run[r].at = from
  BY DEF OutboxTyped, RunGoes
<1>2. run' = [run EXCEPT ![r].at = to]
  BY DEF RunGoes
<1>3. run'[r] = [run[r] EXCEPT !.at = to] /\ \A x \in Runs \ {r} : run'[x] = run[x]
  BY <1>1, <1>2
<1>4. run'[r] \in [at : Places, attempts : 0..MaxEventAttempts] /\ run'[r].at = to /\ run'[r].attempts = run[r].attempts
  BY <1>1, <1>3
<1> QED
  BY <1>1, <1>2, <1>3, <1>4

\* An update by id.
LEMMA RunBecomes ==
  ASSUME OutboxTyped, NEW status \in {"pending", "processed", "failed"}, NEW n \in 0..MaxEventAttempts,
         NEW due \in BOOLEAN, EventBecomes(status, n, due)
  PROVE  /\ event' \in [kind : {"quota", "noOrganization", "unknown"},
                        status : {"pending", "processed", "failed", "deleted"},
                        attempts : 0..MaxEventAttempts, due : BOOLEAN]
         /\ event'.kind = event.kind
         /\ \/ event' = event /\ event.status = "deleted"
            \/ event'.status = status /\ event'.attempts = n
  BY DEF OutboxTyped, EventBecomes

\* Only a run that failed is added to those that catch, by a fault; one that
\* leaves is counted.
LEMMA CatchingMoves ==
  ASSUME OutboxTyped, TriesAreFaults, NEW r \in Runs, \A x \in Runs \ {r} : run'[x] = run[x],
         tried' \in Nat, faults' \in Nat,
         \/ tried' = tried /\ faults' >= faults /\ (run'[r].at = "catch" => run[r].at = "catch")
         \/ tried' = tried /\ faults' = faults + 1
         \/ tried' = tried + 1 /\ faults' = faults /\ run[r].at = "catch" /\ run'[r].at # "catch"
  PROVE  TriesAreFaults'
<1>1. /\ Catching \in SUBSET Runs /\ Catching' \in SUBSET Runs /\ IsFiniteSet(Runs)
      /\ tried \in Nat /\ faults \in Nat
  BY OutboxAssumption DEF Catching, OutboxTyped
<1>2. Cardinality(Catching) \in Nat /\ Cardinality(Catching') \in Nat
  BY <1>1, CountMoved
<1>3. CASE tried' = tried /\ faults' >= faults /\ (run'[r].at = "catch" => run[r].at = "catch")
  <2>1. Catching' \subseteq Catching
    BY <1>3 DEF Catching
  <2>2. Cardinality(Catching') <= Cardinality(Catching)
    BY <1>1, <2>1, CountMoved
  <2> QED
    BY <1>1, <1>2, <1>3, <2>2 DEF TriesAreFaults
<1>4. CASE tried' = tried /\ faults' = faults + 1
  <2>1. Catching' \subseteq Catching \cup {r}
    BY DEF Catching
  <2>2. Cardinality(Catching') <= Cardinality(Catching) + 1
    BY <1>1, <2>1, CountMoved
  <2> QED
    BY <1>1, <1>2, <1>4, <2>2 DEF TriesAreFaults
<1>5. CASE tried' = tried + 1 /\ faults' = faults /\ run[r].at = "catch" /\ run'[r].at # "catch"
  <2>1. r \in Catching /\ Catching' \subseteq Catching \ {r}
    BY <1>5 DEF Catching
  <2>2. Cardinality(Catching') + 1 <= Cardinality(Catching)
    BY <1>1, <2>1, CountMoved
  <2> QED
    BY <1>1, <1>2, <1>5, <2>2 DEF TriesAreFaults
<1> QED
  BY <1>3, <1>4, <1>5

\* Every step of the outbox keeps its invariant, action by action.
LEMMA OutboxStepInv ==
  ASSUME OutboxInv, [OutboxNext]_outboxVars
  PROVE  OutboxInv'
<1> USE DEF outside
<1>0. /\ OutboxTyped /\ TriesAreFaults /\ EffectsDone /\ AttemptsFailed
      /\ event.attempts \in 0..MaxEventAttempts /\ event.due \in BOOLEAN
      /\ \A r \in Runs : run[r].attempts \in 0..MaxEventAttempts /\ run[r].at \in Places
      /\ faults \in Nat /\ tried \in Nat /\ MaxFaults \in Nat /\ MaxEventAttempts = 4
  BY OutboxAssumption DEF OutboxInv, OutboxTyped, MaxEventAttempts
<1>1. CASE \E pruned \in BOOLEAN : Register(pruned)
  BY <1>0, <1>1 DEF Register, OutboxInv, OutboxTyped, TriesAreFaults, Catching, EffectsDone, Applied, AttemptsFailed
<1>2. ASSUME NEW r \in Runs, Select(r)
      PROVE  OutboxInv'
  <2>1. [at |-> "handle", attempts |-> event.attempts] \in [at : Places, attempts : 0..MaxEventAttempts]
    BY <1>0 DEF Places
  <2>2. /\ run' \in [Runs -> [at : Places, attempts : 0..MaxEventAttempts]]
        /\ run'[r].at = "handle" /\ run'[r].attempts = event.attempts
        /\ \A x \in Runs \ {r} : run'[x] = run[x]
    BY <1>0, <1>2, <2>1 DEF Select, OutboxTyped
  <2>3. OutboxTyped' /\ event' = event /\ caches' = caches /\ retryOrg' = retryOrg /\ tried' = tried /\ faults' = faults
    BY <1>0, <1>2, <2>2 DEF Select, OutboxTyped
  <2>4. TriesAreFaults'
    BY <1>0, <2>2, <2>3, CatchingMoves
  <2>5. EffectsDone'
    BY <1>0, <2>2, <2>3 DEF EffectsDone, DroppedAt, Applied
  <2>6. AttemptsFailed'
    BY <1>0, <1>2, <2>2, <2>3 DEF AttemptsFailed, Select
  <2> QED
    BY <2>3, <2>4, <2>5, <2>6 DEF OutboxInv
<1>3. ASSUME NEW r \in Runs, Handle(r)
      PROVE  OutboxInv'
  <2> DEFINE to == CASE event.kind = "quota" -> "limit" [] event.kind = "noOrganization" -> "mark" [] OTHER -> "giveUp"
  <2>1. to \in Places /\ (event.kind = "quota" => to = "limit") /\ to \notin {"idle", "catch"}
    BY DEF Places, Caches
  <2>2. RunGoes(r, "handle", to)
    BY <1>3 DEF Handle
  <2> HIDE DEF to
  <2>3. /\ run' \in [Runs -> [at : Places, attempts : 0..MaxEventAttempts]]
        /\ run[r].at = "handle" /\ run'[r].at = to /\ run'[r].attempts = run[r].attempts
        /\ \A x \in Runs \ {r} : run'[x] = run[x]
    BY <1>0, <2>1, <2>2, RunMoves
  <2>4. OutboxTyped' /\ event' = event /\ caches' = caches /\ retryOrg' = retryOrg /\ tried' = tried /\ faults' = faults
    BY <1>0, <1>3, <2>3 DEF Handle, OutboxTyped
  <2>5. TriesAreFaults'
    BY <1>0, <2>1, <2>3, <2>4, CatchingMoves
  <2>6. EffectsDone'
    BY <1>0, <2>1, <2>3, <2>4 DEF EffectsDone, DroppedAt, Applied
  <2>7. AttemptsFailed'
    BY <1>0, <2>1, <2>3, <2>4 DEF AttemptsFailed
  <2> QED
    BY <2>4, <2>5, <2>6, <2>7 DEF OutboxInv
<1>4. ASSUME NEW r \in Runs, Bust(r)
      PROVE  OutboxInv'
  <2> DEFINE from == run[r].at
             to == AfterDel[from]
  <2>1. from \in Caches /\ to \in Places /\ to \notin {"idle", "catch", "mark", "giveUp"} /\ caches' = caches \ {from}
    BY <1>4 DEF Bust, AfterDel, Places, Caches
  <2>2. caches \cap DroppedAt(from) = {} => caches' \cap DroppedAt(to) = {}
    BY <1>0, <2>1 DEF AfterDel, Caches, DroppedAt, OutboxTyped
  <2>3. RunGoes(r, from, to)
    BY <1>4 DEF Bust
  <2> HIDE DEF to
  <2>4. /\ run' \in [Runs -> [at : Places, attempts : 0..MaxEventAttempts]]
        /\ run'[r].at = to /\ run'[r].attempts = run[r].attempts
        /\ \A x \in Runs \ {r} : run'[x] = run[x]
    BY <1>0, <2>1, <2>3, RunMoves
  <2>5. /\ OutboxTyped' /\ event' = event /\ caches' \subseteq caches /\ retryOrg' = retryOrg /\ tried' = tried
        /\ faults' = faults
    BY <1>0, <1>4, <2>4 DEF Bust, OutboxTyped
  <2>6. TriesAreFaults'
    BY <1>0, <2>1, <2>4, <2>5, CatchingMoves
  <2>7. EffectsDone'
    <3>1. ASSUME event.kind = "quota", NEW x \in Runs
          PROVE  /\ run'[x].at # "giveUp" /\ caches' \cap DroppedAt(run'[x].at) = {}
                 /\ run'[x].at = "mark" => retryOrg
      <4>1. CASE x = r
        BY <1>0, <2>1, <2>2, <2>4, <3>1, <4>1 DEF EffectsDone
      <4>2. CASE x # r
        BY <1>0, <2>4, <2>5, <3>1, <4>2 DEF EffectsDone
      <4> QED
        BY <4>1, <4>2
    <3>2. Applied => Applied'
      BY <2>5 DEF Applied
    <3> QED
      BY <1>0, <2>5, <3>1, <3>2 DEF EffectsDone
  <2>8. AttemptsFailed'
    BY <1>0, <2>1, <2>4, <2>5 DEF AttemptsFailed, Caches
  <2> QED
    BY <2>5, <2>6, <2>7, <2>8 DEF OutboxInv
<1>5. ASSUME NEW r \in Runs, QueueRetry(r)
      PROVE  OutboxInv'
  <2>1. /\ run' \in [Runs -> [at : Places, attempts : 0..MaxEventAttempts]]
        /\ run[r].at = "retry" /\ run'[r].at = "mark" /\ run'[r].attempts = run[r].attempts
        /\ \A x \in Runs \ {r} : run'[x] = run[x]
    BY <1>0, <1>5, RunMoves DEF QueueRetry, Places
  <2>2. /\ OutboxTyped' /\ event' = event /\ caches' = caches /\ retryOrg' = TRUE /\ tried' = tried
        /\ faults' = faults
    BY <1>0, <1>5, <2>1 DEF QueueRetry, OutboxTyped
  <2>3. TriesAreFaults'
    BY <1>0, <2>1, <2>2, CatchingMoves
  <2>4. EffectsDone'
    BY <1>0, <2>1, <2>2 DEF EffectsDone, DroppedAt, Applied
  <2>5. AttemptsFailed'
    BY <1>0, <2>1, <2>2 DEF AttemptsFailed
  <2> QED
    BY <2>2, <2>3, <2>4, <2>5 DEF OutboxInv
<1>6. ASSUME NEW r \in Runs, NEW status \in {"processed", "failed"}, NEW from \in {"mark", "giveUp"},
             status = "processed" <=> from = "mark", RunGoes(r, from, "idle"),
             EventBecomes(status, event.attempts, event.due), UNCHANGED <<outside, faults, tried>>
      PROVE  OutboxInv'
  <2>1. /\ run' \in [Runs -> [at : Places, attempts : 0..MaxEventAttempts]]
        /\ run[r].at = from /\ run'[r].at = "idle" /\ run'[r].attempts = run[r].attempts
        /\ \A x \in Runs \ {r} : run'[x] = run[x]
    BY <1>0, <1>6, RunMoves DEF Places
  <2>2. /\ event' \in [kind : {"quota", "noOrganization", "unknown"},
                       status : {"pending", "processed", "failed", "deleted"},
                       attempts : 0..MaxEventAttempts, due : BOOLEAN]
        /\ event'.kind = event.kind /\ event'.attempts = event.attempts
        /\ \/ event' = event /\ event.status = "deleted"
           \/ event'.status = status
    BY <1>0, <1>6, RunBecomes
  <2>3. OutboxTyped' /\ caches' = caches /\ retryOrg' = retryOrg /\ tried' = tried /\ faults' = faults
    BY <1>0, <1>6, <2>1, <2>2 DEF OutboxTyped
  <2>4. TriesAreFaults'
    BY <1>0, <2>1, <2>3, CatchingMoves
  <2>5. EffectsDone'
    <3>1. ASSUME event.kind = "quota"
          PROVE  from = "mark" /\ Applied
      BY <1>0, <2>1, <3>1 DEF EffectsDone, DroppedAt, OutboxTyped, Applied
    <3> QED
      BY <1>0, <1>6, <2>1, <2>2, <2>3, <3>1 DEF EffectsDone, DroppedAt, Applied
  <2>6. AttemptsFailed'
    <3>1. event.kind = "quota" => status = "processed"
      BY <1>0, <1>6, <2>1 DEF EffectsDone
    <3> QED
      BY <1>0, <2>1, <2>2, <2>3, <3>1 DEF AttemptsFailed
  <2> QED
    BY <2>3, <2>4, <2>5, <2>6 DEF OutboxInv
<1>7. ASSUME NEW r \in Runs, Fail(r) \/ Die(r)
      PROVE  OutboxInv'
  <2>1. PICK new \in [at : {"idle", "catch"}, attempts : 0..MaxEventAttempts] :
          /\ run' = [run EXCEPT ![r] = new]
          /\ new.at = "idle" => new.attempts = 0
          /\ new.at = "catch" => new.attempts <= tried + 1
    <3>1. CASE Fail(r)
      <4>1. run[r].at \notin {"idle", "catch"}
        BY <3>1 DEF Fail, AfterDel
      <4>2. run[r].attempts < 4 /\ run[r].attempts <= tried
        BY <1>0, <4>1 DEF AttemptsFailed
      <4> DEFINE failing == [at |-> "catch", attempts |-> run[r].attempts + 1]
      <4>3. failing \in [at : {"idle", "catch"}, attempts : 0..MaxEventAttempts]
        BY <1>0, <4>2
      <4>4. run' = [run EXCEPT ![r] = failing]
        BY <3>1 DEF Fail
      <4>5. failing.at = "catch" /\ failing.attempts <= tried + 1
        BY <1>0, <4>2
      <4> HIDE DEF failing
      <4> QED
        BY <4>3, <4>4, <4>5
    <3>2. CASE Die(r)
      <4>1. run' = [run EXCEPT ![r] = NoRun] /\ NoRun.at = "idle" /\ NoRun.attempts = 0
        BY <3>2 DEF Die, NoRun
      <4>2. NoRun \in [at : {"idle", "catch"}, attempts : 0..MaxEventAttempts]
        BY <1>0 DEF NoRun
      <4> QED
        BY <4>1, <4>2
    <3> QED
      BY <1>7, <3>1, <3>2
  <2>2. /\ run' \in [Runs -> [at : Places, attempts : 0..MaxEventAttempts]]
        /\ run'[r] = new /\ \A x \in Runs \ {r} : run'[x] = run[x]
    BY <1>0, <2>1 DEF OutboxTyped, Places
  <2>3. /\ OutboxTyped' /\ event' = event /\ caches' = caches /\ retryOrg' = retryOrg /\ tried' = tried
        /\ faults' = faults + 1
    BY <1>0, <1>7, <2>2 DEF Fail, Die, OutboxTyped
  <2>4. TriesAreFaults'
    BY <1>0, <2>2, <2>3, CatchingMoves
  <2>5. EffectsDone'
    BY <1>0, <2>1, <2>2, <2>3 DEF EffectsDone, DroppedAt, Applied
  <2>6. AttemptsFailed'
    BY <1>0, <2>1, <2>2, <2>3 DEF AttemptsFailed
  <2> QED
    BY <2>3, <2>4, <2>5, <2>6 DEF OutboxInv
<1>8. ASSUME NEW r \in Runs, Catch(r)
      PROVE  OutboxInv'
  <2> DEFINE n == run[r].attempts
             status == IF n < MaxEventAttempts THEN "pending" ELSE "failed"
             due == n >= MaxEventAttempts
  <2>1. /\ run' \in [Runs -> [at : Places, attempts : 0..MaxEventAttempts]]
        /\ run[r].at = "catch" /\ run'[r].at = "idle" /\ run'[r].attempts = n
        /\ \A x \in Runs \ {r} : run'[x] = run[x]
    BY <1>0, <1>8, RunMoves DEF Catch, Places
  <2>2. n \in 0..MaxEventAttempts /\ n <= tried + 1
    BY <1>0, <2>1 DEF AttemptsFailed
  <2>3. due \in BOOLEAN
    BY SMT
  <2>4. status \in {"pending", "failed"} /\ (status = "pending" => n < 4) /\ (status = "failed" => n >= 4)
    BY <1>0, <2>2
  <2>5. EventBecomes(status, n, due) /\ tried' = tried + 1 /\ UNCHANGED <<outside, faults>>
    BY <1>8 DEF Catch
  <2> HIDE DEF n, status, due
  <2>6. /\ event' \in [kind : {"quota", "noOrganization", "unknown"},
                       status : {"pending", "processed", "failed", "deleted"},
                       attempts : 0..MaxEventAttempts, due : BOOLEAN]
        /\ event'.kind = event.kind
        /\ \/ event' = event /\ event.status = "deleted"
           \/ event'.status = status /\ event'.attempts = n
    BY <1>0, <2>2, <2>3, <2>4, <2>5, RunBecomes
  <2>7. OutboxTyped' /\ caches' = caches /\ retryOrg' = retryOrg /\ tried' = tried + 1 /\ faults' = faults
    BY <1>0, <2>1, <2>5, <2>6 DEF OutboxTyped
  <2>8. TriesAreFaults'
    BY <1>0, <2>1, <2>7, CatchingMoves
  <2>9. EffectsDone'
    BY <1>0, <2>1, <2>4, <2>6, <2>7 DEF EffectsDone, DroppedAt, Applied
  <2>10. AttemptsFailed'
    BY <1>0, <2>1, <2>2, <2>4, <2>6, <2>7 DEF AttemptsFailed
  <2> QED
    BY <2>7, <2>8, <2>9, <2>10 DEF OutboxInv
<1>9. CASE ComesDue \/ CleanUp
  <2>1. /\ event' \in [kind : {"quota", "noOrganization", "unknown"},
                       status : {"pending", "processed", "failed", "deleted"},
                       attempts : 0..MaxEventAttempts, due : BOOLEAN]
        /\ event'.kind = event.kind /\ event'.attempts = event.attempts
        /\ \/ event'.status = event.status
           \/ event.status = "processed" /\ event'.status = "deleted"
        /\ UNCHANGED <<outside, run, faults, tried>>
    BY <1>0, <1>9 DEF ComesDue, CleanUp, OutboxTyped
  <2> QED
    BY <1>0, <2>1 DEF OutboxInv, OutboxTyped, TriesAreFaults, Catching, EffectsDone, Applied, AttemptsFailed
<1>10. CASE UNCHANGED outboxVars
  BY <1>0, <1>10 DEF outboxVars, OutboxInv, OutboxTyped, TriesAreFaults, Catching, EffectsDone, Applied, AttemptsFailed
<1>11. ASSUME NEW r \in Runs, Mark(r) \/ GiveUp(r)
       PROVE  OutboxInv'
  BY <1>6, <1>11 DEF Mark, GiveUp
<1> QED
  BY <1>1, <1>2, <1>3, <1>4, <1>5, <1>7, <1>8, <1>9, <1>10, <1>11 DEF OutboxNext, OutboxStep

\* Before anything happens.
LEMMA OutboxStart ==
  ASSUME OutboxInit
  PROVE  OutboxInv
<1>0. PICK kind \in {"quota", "noOrganization", "unknown"} :
        event = [kind |-> kind, status |-> "pending", attempts |-> 0, due |-> TRUE]
  BY DEF OutboxInit
<1>1. /\ event.status = "pending" /\ event.attempts = 0
      /\ caches = Caches /\ retryOrg = FALSE /\ faults = 0 /\ tried = 0
      /\ \A r \in Runs : run[r] = NoRun
      /\ run = [r \in Runs |-> NoRun]
  BY <1>0 DEF OutboxInit, Caches
<1>2. OutboxTyped
  <2>1. NoRun \in [at : Places, attempts : 0..MaxEventAttempts]
    BY DEF NoRun, Places, MaxEventAttempts
  <2>2. event \in [kind : {"quota", "noOrganization", "unknown"},
                   status : {"pending", "processed", "failed", "deleted"},
                   attempts : 0..MaxEventAttempts, due : BOOLEAN]
    <3>1. 0 \in 0..MaxEventAttempts
      BY DEF MaxEventAttempts
    <3> HIDE DEF MaxEventAttempts
    <3> QED
      BY <1>0, <3>1
  <2>3. run \in [Runs -> [at : Places, attempts : 0..MaxEventAttempts]]
    BY <1>1, <2>1
  <2>4. caches \subseteq Caches /\ retryOrg \in BOOLEAN
    BY <1>1, Zenon
  <2>5. faults \in 0..MaxFaults /\ tried \in Nat
    BY <1>1, OutboxAssumption
  <2> QED
    BY <2>2, <2>3, <2>4, <2>5 DEF OutboxTyped
<1>3. Catching = {}
  BY <1>1 DEF Catching, NoRun
<1>4. Cardinality(Catching) = 0
  BY <1>3, FS_EmptySet
<1>5. TriesAreFaults
  BY <1>1, <1>4 DEF TriesAreFaults
<1>6. EffectsDone /\ AttemptsFailed
  BY <1>1 DEF EffectsDone, AttemptsFailed, NoRun, DroppedAt, MaxEventAttempts
<1> QED
  BY <1>2, <1>5, <1>6 DEF OutboxInv

\* The row of the event and the runs have their types: no run counts more
\* attempts than the limit, and no more failures are written down than happened.
THEOREM OutboxTypes == OutboxSpec => []OutboxTypeOK
<1>1. OutboxInv => OutboxTypeOK
  <2> SUFFICES ASSUME OutboxInv
               PROVE  OutboxTypeOK
    OBVIOUS
  <2>1. Catching \in SUBSET Runs
    BY DEF Catching
  <2>2. Cardinality(Catching) \in Nat
    BY <2>1, OutboxAssumption, CountMoved
  <2>3. tried \in 0..MaxFaults
    BY <2>2, OutboxAssumption DEF OutboxInv, OutboxTyped, TriesAreFaults
  <2> QED
    BY <2>3 DEF OutboxInv, OutboxTyped, OutboxTypeOK
<1> QED
  BY <1>1, OutboxStart, OutboxStepInv, PTL DEF OutboxSpec

\* However many servers run the job and whichever of them die: an event of an
\* organization's quota that counts as processed had every effect, and one that
\* is given up on failed as often as the limit says.
THEOREM QuotaEvents == OutboxSpec => []QuotaEventHonored
<1>1. OutboxInv => QuotaEventHonored
  BY DEF OutboxInv, EffectsDone, AttemptsFailed, QuotaEventHonored
<1> QED
  BY <1>1, OutboxStart, OutboxStepInv, PTL DEF OutboxSpec

-----------------------------------------------------------------------------
(* The intake *)

Inside == {"read", "insert", "track", "screen", "unlock"}
Screening == [at : {"update"}, verdict : Verdicts, row : {NoSender}] \cup [at : {"dispatch"}, verdict : Verdicts, row : Row]

IntakeTyped ==
  /\ syncLock \in Senders \cup {NoSender}
  /\ rows \in Seq(Row)
  /\ jobs \in [{"track", "aml"} -> JobStage]
  /\ sender \in [Senders -> [at : Inside \cup {"idle", "lock"}, aml : BOOLEAN]]
  /\ jobs["track"] = "active" => tracker \in Row
  /\ jobs["aml"] = "active" => screening \in Screening
  /\ lapses \in Nat /\ told \subseteq AmlStatus

\* Whoever is in the handler without holding the lock lost it to one that
\* expired, or to the DEL of a request that had lost its own.
Strays == {s \in Senders : sender[s].at \in Inside /\ syncLock # s}
StraysLapsed == Cardinality(Strays) <= lapses

\* Nobody inserts on an old read but those that were inside before the first row.
Inserting == {s \in Senders : sender[s].at = "insert"}
RowsCounted == rows # <<>> => Len(rows) + Cardinality(Inserting) <= 1 + lapses

\* A job is queued by a request that has inserted its row.
JobsHaveRow ==
  rows = <<>> => /\ jobs["track"] = "none" /\ jobs["aml"] = "none"
                 /\ \A s \in Senders : sender[s].at \notin {"track", "screen"}

\* The verdict in a final row was told, or somebody who will tell it has it.
Due ==
  \/ rows[1].aml \in told
  \/ jobs["track"] = "active" /\ tracker.final /\ tracker.aml = rows[1].aml
  \/ jobs["aml"] = "waiting"
  \/ /\ jobs["aml"] = "active"
     /\ \/ screening.at = "update"
        \/ screening.row.final /\ screening.row.aml = rows[1].aml
ToldOrDue ==
  Len(rows) = 1 =>
    /\ jobs["track"] = "ended" => broken \/ rows[1].final
    /\ jobs["track"] = "active" /\ tracker.final => rows[1].final
    /\ rows[1].final => staleRead \/ broken \/ Due

IntakeInv == IntakeTyped /\ StraysLapsed /\ RowsCounted /\ JobsHaveRow /\ ToldOrDue

\* One request moves.
LEMMA SenderMoves ==
  ASSUME IntakeTyped, NEW s \in Senders, NEW from, NEW to \in Inside \cup {"idle", "lock"}, Move(s, from, to)
  PROVE  /\ sender' \in [Senders -> [at : Inside \cup {"idle", "lock"}, aml : BOOLEAN]]
         /\ sender[s].at = from /\ sender'[s].at = to
         /\ \A x \in Senders \ {s} : sender'[x] = sender[x]
<1> DEFINE new == [at |-> to, aml |-> sender[s].aml /\ to \notin {"unlock", "idle"}]
<1>1. sender \in [Senders -> [at : Inside \cup {"idle", "lock"}, aml : BOOLEAN]]
  BY DEF IntakeTyped
<1>2. (sender[s].aml /\ to \notin {"unlock", "idle"}) \in BOOLEAN
  OBVIOUS
<1>3. new \in [at : Inside \cup {"idle", "lock"}, aml : BOOLEAN] /\ new.at = to
  BY <1>2
<1>4. sender' = [sender EXCEPT ![s] = new] /\ sender[s].at = from
  BY DEF Move
<1> HIDE DEF new
<1> QED
  BY <1>1, <1>3, <1>4

\* An update of the rows, by key, makes the same number of rows.
LEMMA RowsUpdated ==
  ASSUME IntakeTyped, NEW new \in [1..Len(rows) -> Row], rows' = new
  PROVE  rows' \in Seq(Row) /\ Len(rows') = Len(rows)
<1>1. Len(rows) \in Nat
  BY DEF IntakeTyped
<1>2. new \in UNION {[1..n -> Row] : n \in Nat}
  BY <1>1
<1>3. new \in Seq(Row)
  BY <1>2, SeqDef
<1>4. DOMAIN new = 1..Len(rows)
  OBVIOUS
<1>5. Len(new) = Len(rows)
  BY <1>1, <1>3, <1>4, LenProperties
<1> QED
  BY <1>3, <1>5

\* The terminal update and the update of the verdict, row by row.
LEMMA RowsFinal ==
  ASSUME IntakeTyped, rows' = [i \in 1..Len(rows) |-> [rows[i] EXCEPT !.final = TRUE]]
  PROVE  /\ rows' \in Seq(Row) /\ Len(rows') = Len(rows)
         /\ \A i \in 1..Len(rows) : rows'[i].final /\ rows'[i].aml = rows[i].aml
<1>1. \A i \in 1..Len(rows) : rows[i] \in Row
  BY DEF IntakeTyped
<1>2. \A i \in 1..Len(rows) :
        LET r == [rows[i] EXCEPT !.final = TRUE] IN r \in Row /\ r.final /\ r.aml = rows[i].aml
  BY <1>1 DEF Row
<1>3. rows' \in [1..Len(rows) -> Row]
  BY <1>2
<1> QED
  BY <1>2, <1>3, RowsUpdated

\* A verdict is stored in every row of the transaction and leaves the rest of
\* them.
LEMMA RowsJudged ==
  ASSUME IntakeTyped, NEW verdict \in Verdicts,
         rows' = [i \in 1..Len(rows) |-> [rows[i] EXCEPT !.aml = verdict]]
  PROVE  /\ rows' \in Seq(Row) /\ Len(rows') = Len(rows)
         /\ \A i \in 1..Len(rows) : rows'[i].final = rows[i].final /\ rows'[i].aml = verdict
<1>1. \A i \in 1..Len(rows) : rows[i] \in Row
  BY DEF IntakeTyped
<1>2. \A i \in 1..Len(rows) :
        LET r == [rows[i] EXCEPT !.aml = verdict] IN r \in Row /\ r.aml = verdict /\ r.final = rows[i].final
  BY <1>1 DEF Row, AmlStatus
<1>3. rows' \in [1..Len(rows) -> Row]
  BY <1>2
<1> QED
  BY <1>2, <1>3, RowsUpdated

\* The two jobs are queued, taken and ended one by one.
LEMMA JobMoves ==
  ASSUME IntakeTyped, NEW queue \in {"track", "aml"}, NEW phase \in JobStage, jobs' = [jobs EXCEPT ![queue] = phase]
  PROVE  /\ jobs' \in [{"track", "aml"} -> JobStage] /\ jobs'[queue] = phase
         /\ \A other \in {"track", "aml"} \ {queue} : jobs'[other] = jobs[other]
  BY DEF IntakeTyped

\* A job is queued once.
LEMMA JobQueued ==
  ASSUME IntakeTyped, NEW queue \in {"track", "aml"}, Queued(queue)
  PROVE  /\ jobs' \in [{"track", "aml"} -> JobStage]
         /\ jobs'[queue] = IF jobs[queue] = "none" THEN "waiting" ELSE jobs[queue]
         /\ \A other \in {"track", "aml"} \ {queue} : jobs'[other] = jobs[other]
<1>1. /\ jobs[queue] \in JobStage
      /\ jobs' = [jobs EXCEPT ![queue] = IF jobs[queue] = "none" THEN "waiting" ELSE jobs[queue]]
  BY DEF IntakeTyped, Queued
<1> QED
  BY <1>1, JobMoves DEF JobStage

\* What a request can do, besides inserting its row: it takes a step, and may
\* take the lock, free it or queue a job.
Handled(s) ==
  /\ UNCHANGED <<rows, jobState>>
  /\ sender' \in [Senders -> [at : Inside \cup {"idle", "lock"}, aml : BOOLEAN]]
  /\ \A x \in Senders \ {s} : sender'[x] = sender[x]
  /\ sender'[s].at = "insert" => rows = <<>>
  /\ sender'[s].at \in {"track", "screen"} => sender[s].at = "track"
  /\ lapses' = lapses
  /\ \/ /\ syncLock' = syncLock /\ UNCHANGED jobs
        /\ sender[s].at \in {"idle", "lock"} => sender'[s].at \in {"idle", "lock"}
     \/ syncLock = NoSender /\ syncLock' = s /\ UNCHANGED jobs /\ sender'[s].at = "read"
     \/ syncLock' = NoSender /\ UNCHANGED jobs /\ sender[s].at = "unlock" /\ sender'[s].at = "idle"
     \/ /\ syncLock' = syncLock /\ sender[s].at \in {"track", "screen"}
        /\ Queued("track") \/ Queued("aml")

\* Every step of a request but its insert is one of these.
LEMMA Handles ==
  ASSUME IntakeTyped, NEW s \in Senders,
         \/ SendStep(s) /\ ~Insert(s)
         \/ SendFails(s) \/ SendDies(s) \/ \E on \in BOOLEAN : Send(s, on)
  PROVE  Handled(s)
<1> DEFINE Typed == sender' \in [Senders -> [at : Inside \cup {"idle", "lock"}, aml : BOOLEAN]]
           Others == \A x \in Senders \ {s} : sender'[x] = sender[x]
<1>1. CASE AcquireLock(s)
  <2>1. Typed /\ Others /\ sender'[s].at = "read"
    BY <1>1, SenderMoves DEF AcquireLock, Inside
  <2> QED
    BY <1>1, <2>1 DEF AcquireLock, Handled
<1>2. CASE RefusedSync(s)
  <2>1. Typed /\ Others /\ sender'[s].at = "idle"
    BY <1>2, SenderMoves DEF RefusedSync, Inside
  <2> QED
    BY <1>2, <2>1 DEF RefusedSync, Handled
<1>3. CASE ReadExisting(s)
  <2>1. PICK next \in {"insert", "unlock"} : Move(s, "read", next) /\ (rows # <<>> => next = "unlock")
    BY <1>3 DEF ReadExisting
  <2>2. Typed /\ Others /\ sender[s].at = "read" /\ sender'[s].at = next
    BY <2>1, SenderMoves DEF Inside
  <2> QED
    BY <1>3, <2>1, <2>2 DEF ReadExisting, Handled
<1>4. CASE EnqueueTracking(s)
  <2>1. PICK next \in {"screen", "unlock"} : Move(s, "track", next)
    BY <1>4 DEF EnqueueTracking
  <2>2. Typed /\ Others /\ sender[s].at = "track" /\ sender'[s].at = next
    BY <2>1, SenderMoves DEF Inside
  <2> QED
    BY <1>4, <2>2 DEF EnqueueTracking, Handled
<1>5. CASE EnqueueScreening(s)
  <2>1. Typed /\ Others /\ sender[s].at = "screen" /\ sender'[s].at = "unlock"
    BY <1>5, SenderMoves DEF EnqueueScreening, Inside
  <2> QED
    BY <1>5, <2>1 DEF EnqueueScreening, Handled
<1>6. CASE ReleaseSyncLock(s)
  <2>1. Typed /\ Others /\ sender[s].at = "unlock" /\ sender'[s].at = "idle"
    BY <1>6, SenderMoves DEF ReleaseSyncLock, Inside
  <2> QED
    BY <1>6, <2>1 DEF ReleaseSyncLock, Handled
<1>7. CASE SendFails(s)
  <2>1. PICK from \in {"read", "insert", "track", "screen"} : Move(s, from, "unlock")
    BY <1>7 DEF SendFails
  <2>2. Typed /\ Others /\ sender[s].at = from /\ sender'[s].at = "unlock"
    BY <2>1, SenderMoves DEF Inside
  <2> QED
    BY <1>7, <2>2 DEF SendFails, Handled
<1>8. CASE SendDies(s)
  <2>1. Typed /\ Others /\ sender'[s].at = "idle"
    BY <1>8, SenderMoves DEF SendDies, Inside
  <2> QED
    BY <1>8, <2>1 DEF SendDies, Handled
<1>9. ASSUME NEW on \in BOOLEAN, Send(s, on)
      PROVE  Handled(s)
  <2>1. Typed /\ Others /\ sender'[s].at = "lock" /\ sender[s].at = "idle"
    BY <1>9 DEF Send, IntakeTyped, Inside
  <2> QED
    BY <1>9, <2>1 DEF Send, Handled
<1> QED
  BY <1>1, <1>2, <1>3, <1>4, <1>5, <1>6, <1>7, <1>8, <1>9 DEF SendStep

\* The row of a request is inserted.
LEMMA Inserts ==
  ASSUME IntakeTyped, NEW s \in Senders, Insert(s)
  PROVE  /\ UNCHANGED <<syncLock, jobs, lapses, jobState>>
         /\ sender' \in [Senders -> [at : Inside \cup {"idle", "lock"}, aml : BOOLEAN]]
         /\ \A x \in Senders \ {s} : sender'[x] = sender[x]
         /\ sender[s].at = "insert" /\ sender'[s].at = "track"
         /\ rows' \in Seq(Row) /\ Len(rows') = Len(rows) + 1 /\ rows' # <<>> /\ ~rows'[Len(rows) + 1].final
<1>1. /\ sender' \in [Senders -> [at : Inside \cup {"idle", "lock"}, aml : BOOLEAN]]
      /\ \A x \in Senders \ {s} : sender'[x] = sender[x]
      /\ sender[s].at = "insert" /\ sender'[s].at = "track"
  BY SenderMoves DEF Insert, Inside
<1> DEFINE inserted == [aml |-> IF sender[s].aml THEN "pending" ELSE "not_applicable", final |-> FALSE]
<1>2. inserted \in Row /\ ~inserted.final
  BY DEF Row, AmlStatus
<1>3. rows' = Append(rows, inserted) /\ rows \in Seq(Row)
  BY DEF Insert, IntakeTyped
<1> HIDE DEF inserted
<1>4. rows' \in Seq(Row) /\ Len(rows') = Len(rows) + 1 /\ rows'[Len(rows) + 1] = inserted /\ rows' # <<>>
  BY <1>2, <1>3
<1> QED
  BY <1>1, <1>2, <1>4 DEF Insert

\* The jobs leave the requests alone; they start only if they were queued.
Jobs == \/ \E i \in 1..Len(rows) : TrackerRead(i) \/ SaveVerdict(i)
        \/ TrackerFinishes \/ TrackerDispatches \/ TrackerBreaks
        \/ \E outcome \in Verdicts : Check(outcome)
        \/ TellVerdict \/ ScreeningFails \/ ScreeningStalls

\* The jobs leave the locks and requests alone and lose no row.
LEMMA JobsStep ==
  ASSUME IntakeTyped, Jobs
  PROVE  /\ UNCHANGED intake
         /\ rows' \in Seq(Row) /\ Len(rows') = Len(rows)
         /\ jobs["track"] # "none" \/ jobs["aml"] # "none"
<1> USE DEF IntakeTyped
<1>1. CASE TrackerFinishes
  BY <1>1, RowsFinal DEF TrackerFinishes
<1>2. ASSUME NEW i \in 1..Len(rows), SaveVerdict(i)
      PROVE  rows' \in Seq(Row) /\ Len(rows') = Len(rows) /\ jobs["aml"] # "none" /\ UNCHANGED intake
  <2>1. screening.verdict \in Verdicts
    BY <1>2 DEF SaveVerdict, Screening
  <2> QED
    BY <1>2, <2>1, RowsJudged DEF SaveVerdict
<1>3. ASSUME NEW i \in 1..Len(rows), TrackerRead(i)
      PROVE  UNCHANGED <<intake, rows>> /\ jobs["track"] # "none"
  BY <1>3 DEF TrackerRead
<1>4. CASE TrackerDispatches \/ TrackerBreaks
  BY <1>4 DEF TrackerDispatches, TrackerBreaks
<1>5. CASE (\E outcome \in Verdicts : Check(outcome)) \/ TellVerdict \/ ScreeningFails \/ ScreeningStalls
  BY <1>5 DEF Check, TellVerdict, ScreeningFails, ScreeningStalls
<1> QED
  BY <1>1, <1>2, <1>3, <1>4, <1>5 DEF Jobs

\* Every step is one of a request, its insertion, the end of the lock's time to
\* live, or a step of the jobs.
LEMMA IntakeKinds ==
  ASSUME IntakeTyped, [IntakeNext]_intakeVars
  PROVE  \/ \E s \in Senders : Handled(s)
         \/ \E s \in Senders : Insert(s)
         \/ LapseLock \/ Jobs \/ UNCHANGED intakeVars
  BY Handles DEF IntakeNext, SendStep, Jobs

\* The types of what the jobs hold.
LEMMA JobsTyped ==
  ASSUME IntakeTyped, Jobs
  PROVE  IntakeTyped'
<1> USE DEF IntakeTyped, intake
<1>0. UNCHANGED intake /\ rows' \in Seq(Row)
  BY JobsStep
<1>1. ASSUME NEW i \in 1..Len(rows), TrackerRead(i)
      PROVE  IntakeTyped'
  <2>1. rows[i] \in Row
    BY <1>1
  <2>2. CASE rows[i].final
    <3>1. jobs' \in [{"track", "aml"} -> JobStage] /\ jobs'["track"] = "ended" /\ jobs'["aml"] = jobs["aml"]
      BY <1>1, <2>2, JobMoves DEF TrackerRead, TrackerEnds, JobStage
    <3> QED
      BY <1>0, <1>1, <3>1 DEF TrackerRead
  <2>3. CASE ~rows[i].final
    <3>1. jobs' = [jobs EXCEPT !["track"] = "active"] /\ tracker' = rows[i]
      BY <1>1, <2>3 DEF TrackerRead
    <3>2. jobs' \in [{"track", "aml"} -> JobStage] /\ jobs'["aml"] = jobs["aml"]
      BY <3>1, JobMoves DEF JobStage
    <3> QED
      BY <1>0, <1>1, <2>1, <3>1, <3>2 DEF TrackerRead
  <2> QED
    BY <2>2, <2>3
<1>2. CASE TrackerFinishes
  <2>1. tracker \in Row
    BY <1>2 DEF TrackerFinishes
  <2>2. [tracker EXCEPT !.final = TRUE] \in Row
    BY <2>1 DEF Row
  <2> QED
    BY <1>0, <1>2, <2>2 DEF TrackerFinishes
<1>3. CASE TrackerDispatches \/ TrackerBreaks
  <2>1. jobs["track"] = "active" /\ jobs' = [jobs EXCEPT !["track"] = "ended"]
    BY <1>3 DEF TrackerDispatches, TrackerBreaks, TrackerEnds
  <2>2. jobs' \in [{"track", "aml"} -> JobStage] /\ jobs'["track"] = "ended" /\ jobs'["aml"] = jobs["aml"]
    BY <2>1, JobMoves DEF JobStage
  <2>3. told' \subseteq AmlStatus
    BY <1>3, <2>1 DEF TrackerDispatches, TrackerBreaks, Row
  <2> QED
    BY <1>0, <1>3, <2>2, <2>3 DEF TrackerDispatches, TrackerBreaks
<1>4. ASSUME NEW outcome \in Verdicts, Check(outcome)
      PROVE  IntakeTyped'
  <2>1. jobs' = [jobs EXCEPT !["aml"] = "active"]
    BY <1>4 DEF Check
  <2>2. jobs' \in [{"track", "aml"} -> JobStage] /\ jobs'["track"] = jobs["track"]
    BY <2>1, JobMoves DEF JobStage
  <2>3. [at |-> "update", verdict |-> outcome, row |-> NoSender] \in Screening
    BY DEF Screening
  <2> QED
    BY <1>0, <1>4, <2>2, <2>3 DEF Check
<1>5. ASSUME NEW i \in 1..Len(rows), SaveVerdict(i)
      PROVE  IntakeTyped'
  <2>1. screening \in Screening /\ rows'[i] \in Row /\ screening.verdict \in Verdicts
    <3>1. screening \in Screening /\ screening.verdict \in Verdicts
      BY <1>5 DEF SaveVerdict, Screening
    <3>2. Len(rows') = Len(rows)
      BY <1>5, JobsStep DEF Jobs
    <3> QED
      BY <1>0, <3>1, <3>2
  <2>2. [screening EXCEPT !.at = "dispatch", !.row = rows'[i]] \in Screening
    <3> DEFINE updated == rows'[i]
    <3> HIDE DEF updated
    <3> QED
      BY <2>1 DEF Screening, updated
  <2> QED
    BY <1>0, <1>5, <2>2 DEF SaveVerdict
<1>6. ASSUME jobs["aml"] = "active", jobs' = [jobs EXCEPT !["aml"] = "ended"] \/ jobs' = [jobs EXCEPT !["aml"] = "waiting"],
             UNCHANGED tracker, told' \subseteq AmlStatus
      PROVE  IntakeTyped'
  <2>1. jobs' \in [{"track", "aml"} -> JobStage] /\ jobs'["track"] = jobs["track"] /\ jobs'["aml"] # "active"
    BY <1>6, JobMoves DEF JobStage
  <2> QED
    BY <1>0, <1>6, <2>1
<1>7. CASE TellVerdict
  <2>1. told' \subseteq AmlStatus
    BY <1>7 DEF TellVerdict, Screening, Row
  <2> QED
    BY <1>6, <1>7, <2>1 DEF TellVerdict, ScreeningEnds
<1>8. CASE ScreeningFails
  <2>1. [at |-> "update", verdict |-> "failed", row |-> NoSender] \in Screening
    BY DEF Screening, Verdicts
  <2>2. CASE screening.verdict = "failed"
    BY <1>6, <1>8, <2>2 DEF ScreeningFails, ScreeningEnds
  <2>3. CASE screening.verdict # "failed"
    BY <1>0, <1>8, <2>1, <2>3 DEF ScreeningFails
  <2> QED
    BY <2>2, <2>3
<1>9. CASE ScreeningStalls
  BY <1>6, <1>9 DEF ScreeningStalls
<1> QED
  BY <1>1, <1>2, <1>3, <1>4, <1>5, <1>7, <1>8, <1>9 DEF Jobs

\* Every step keeps the types.
LEMMA IntakeTypedStep ==
  ASSUME IntakeTyped, [IntakeNext]_intakeVars
  PROVE  IntakeTyped'
<1>1. ASSUME NEW s \in Senders, Handled(s)
      PROVE  IntakeTyped'
  <2>1. /\ jobs' \in [{"track", "aml"} -> JobStage]
        /\ jobs'["track"] = "active" => jobs["track"] = "active"
        /\ jobs'["aml"] = "active" => jobs["aml"] = "active"
    BY <1>1, JobQueued DEF Handled, IntakeTyped
  <2>2. syncLock' \in Senders \cup {NoSender}
    BY <1>1 DEF Handled, IntakeTyped
  <2> QED
    BY <1>1, <2>1, <2>2 DEF Handled, IntakeTyped, jobState
<1>2. ASSUME NEW s \in Senders, Insert(s)
      PROVE  IntakeTyped'
  BY <1>2, Inserts DEF IntakeTyped, jobState
<1>3. CASE LapseLock
  BY <1>3 DEF LapseLock, IntakeTyped, jobState
<1>4. CASE UNCHANGED intakeVars
  BY <1>4 DEF intakeVars, IntakeTyped
<1> QED
  BY <1>1, <1>2, <1>3, <1>4, IntakeKinds, JobsTyped

\* Only a lock that expires under its request, or a request that lost its own,
\* makes a stray.
LEMMA StraysStep ==
  ASSUME IntakeTyped, StraysLapsed, [IntakeNext]_intakeVars
  PROVE  StraysLapsed'
<1>0. /\ Strays \in SUBSET Senders /\ Strays' \in SUBSET Senders /\ IsFiniteSet(Senders)
      /\ NoSender \notin Senders /\ lapses \in Nat
  BY IntakeAssumption DEF Strays, IntakeTyped
<1>1. Cardinality(Strays) \in Nat /\ Cardinality(Strays') \in Nat
  BY <1>0, CountMoved
<1>2. ASSUME Strays' \subseteq Strays, lapses' \in Nat, lapses <= lapses'
      PROVE  StraysLapsed'
  <2>1. Cardinality(Strays') <= Cardinality(Strays)
    BY <1>0, <1>2, CountMoved
  <2> QED
    BY <1>0, <1>1, <1>2, <2>1 DEF StraysLapsed
<1>3. ASSUME NEW s \in Senders, Handled(s)
      PROVE  StraysLapsed'
  <2>0. lapses' = lapses /\ \A x \in Senders \ {s} : sender'[x] = sender[x]
    BY <1>3 DEF Handled
  <2>1. CASE syncLock' = syncLock /\ (sender[s].at \in {"idle", "lock"} => sender'[s].at \in {"idle", "lock"})
    <3>1. sender[s].at \in Inside \cup {"idle", "lock"}
      BY DEF IntakeTyped
    <3>2. Strays' \subseteq Strays
      BY <2>0, <2>1, <3>1 DEF Strays, Inside
    <3> QED
      BY <1>0, <1>2, <2>0, <3>2
  <2>2. CASE syncLock = NoSender /\ syncLock' = s
    <3>1. Strays' \subseteq Strays
      BY <1>0, <2>0, <2>2 DEF Strays
    <3> QED
      BY <1>0, <1>2, <2>0, <3>1
  <2>3. CASE syncLock' = NoSender /\ sender[s].at = "unlock" /\ sender'[s].at = "idle"
    <3>1. CASE syncLock = s
      <4>1. Strays' \subseteq Strays
        BY <2>0, <2>3, <3>1 DEF Strays, Inside
      <4> QED
        BY <1>0, <1>2, <2>0, <4>1
    <3>2. CASE syncLock # s
      <4> DEFINE left == Strays \ {s}
      <4>1. s \in Strays /\ left \in SUBSET Senders
        BY <2>3, <3>2 DEF Strays, Inside
      <4>2. Strays' \subseteq left \cup {syncLock}
        BY <2>0, <2>3 DEF Strays, Inside
      <4>3. Cardinality(left) + 1 <= Cardinality(Strays) /\ Cardinality(left) \in Nat
        BY <1>0, <4>1, CountMoved
      <4> HIDE DEF left
      <4>4. Cardinality(Strays') <= Cardinality(left) + 1
        BY <1>0, <4>1, <4>2, CountMoved
      <4> QED
        BY <1>0, <1>1, <2>0, <4>3, <4>4 DEF StraysLapsed
    <3> QED
      BY <3>1, <3>2
  <2> QED
    BY <1>3, <2>1, <2>2, <2>3 DEF Handled
<1>4. ASSUME NEW s \in Senders, Insert(s)
      PROVE  StraysLapsed'
  <2>1. /\ syncLock' = syncLock /\ lapses' = lapses /\ \A x \in Senders \ {s} : sender'[x] = sender[x]
        /\ sender[s].at = "insert"
    BY <1>4, Inserts
  <2>2. Strays' \subseteq Strays
    BY <2>1 DEF Strays, Inside
  <2> QED
    BY <1>0, <1>2, <2>1, <2>2
<1>5. CASE LapseLock
  <2>1. sender' = sender /\ syncLock' = NoSender /\ syncLock \in Senders
    BY <1>5 DEF LapseLock, IntakeTyped
  <2>2. Strays' \subseteq Strays \cup {syncLock}
    BY <2>1 DEF Strays
  <2>3. CASE sender[syncLock].at \in {"idle", "lock"}
    <3>1. Strays' \subseteq Strays /\ lapses' = lapses
      BY <1>5, <2>1, <2>3 DEF LapseLock, Strays, Inside
    <3> QED
      BY <1>0, <1>2, <3>1
  <2>4. CASE sender[syncLock].at \notin {"idle", "lock"}
    <3>1. lapses' = lapses + 1
      BY <1>5, <2>4 DEF LapseLock
    <3>2. Cardinality(Strays') <= Cardinality(Strays) + 1
      BY <1>0, <2>2, CountMoved
    <3> QED
      BY <1>0, <1>1, <3>1, <3>2 DEF StraysLapsed
  <2> QED
    BY <2>3, <2>4
<1>6. CASE Jobs \/ UNCHANGED intakeVars
  <2>1. sender' = sender /\ syncLock' = syncLock /\ lapses' = lapses
    BY <1>6, JobsStep DEF intakeVars, intake
  <2>2. Strays' \subseteq Strays
    BY <2>1 DEF Strays
  <2> QED
    BY <1>0, <1>2, <2>1, <2>2
<1> QED
  BY <1>3, <1>4, <1>5, <1>6, IntakeKinds

\* A second row is inserted only by a request that was inside before the first.
LEMMA RowsStep ==
  ASSUME IntakeTyped, StraysLapsed, RowsCounted, [IntakeNext]_intakeVars
  PROVE  RowsCounted'
<1>0. /\ Inserting \in SUBSET Senders /\ Inserting' \in SUBSET Senders /\ IsFiniteSet(Senders)
      /\ lapses \in Nat /\ Len(rows) \in Nat
  BY IntakeAssumption DEF Inserting, IntakeTyped
<1>1. Cardinality(Inserting) \in Nat /\ Cardinality(Inserting') \in Nat
  BY <1>0, CountMoved
<1>2. ASSUME Inserting' \subseteq Inserting, Len(rows') = Len(rows), rows' # <<>> => rows # <<>>,
             lapses' \in Nat, lapses <= lapses'
      PROVE  RowsCounted'
  <2>1. Cardinality(Inserting') <= Cardinality(Inserting)
    BY <1>0, <1>2, CountMoved
  <2> QED
    BY <1>0, <1>1, <1>2, <2>1 DEF RowsCounted
<1>3. ASSUME NEW s \in Senders, Handled(s)
      PROVE  RowsCounted'
  <2>1. rows' = rows /\ lapses' = lapses /\ \A x \in Senders \ {s} : sender'[x] = sender[x]
    BY <1>3 DEF Handled
  <2>2. CASE sender'[s].at = "insert"
    BY <1>3, <2>1, <2>2 DEF Handled, RowsCounted
  <2>3. CASE sender'[s].at # "insert"
    <3>1. Inserting' \subseteq Inserting
      BY <2>1, <2>3 DEF Inserting
    <3> QED
      BY <1>0, <1>2, <2>1, <3>1
  <2> QED
    BY <2>2, <2>3
<1>4. ASSUME NEW s \in Senders, Insert(s)
      PROVE  RowsCounted'
  <2>1. /\ lapses' = lapses /\ \A x \in Senders \ {s} : sender'[x] = sender[x]
        /\ sender[s].at = "insert" /\ sender'[s].at = "track" /\ Len(rows') = Len(rows) + 1
    BY <1>4, Inserts
  <2>2. s \in Inserting /\ Inserting' \subseteq Inserting \ {s}
    BY <2>1 DEF Inserting
  <2>3. Cardinality(Inserting') + 1 <= Cardinality(Inserting)
    BY <1>0, <2>2, CountMoved
  <2>4. CASE rows # <<>>
    BY <1>0, <1>1, <2>1, <2>3, <2>4 DEF RowsCounted
  <2>5. CASE rows = <<>>
    <3>1. Strays \in SUBSET Senders /\ Inserting \subseteq Strays \cup {syncLock}
      BY DEF Inserting, Strays, Inside
    <3>2. Cardinality(Inserting) <= Cardinality(Strays) + 1 /\ Cardinality(Strays) \in Nat
      BY <1>0, <3>1, CountMoved
    <3>3. Len(rows) = 0
      BY <2>5
    <3> QED
      BY <1>0, <1>1, <2>1, <2>3, <3>2, <3>3 DEF RowsCounted, StraysLapsed
  <2> QED
    BY <2>4, <2>5
<1>5. CASE LapseLock
  <2>1. sender' = sender /\ rows' = rows /\ lapses' \in Nat /\ lapses <= lapses'
    BY <1>0, <1>5 DEF LapseLock
  <2>2. Inserting' \subseteq Inserting
    BY <2>1 DEF Inserting
  <2> QED
    BY <1>2, <2>1, <2>2
<1>6. CASE Jobs \/ UNCHANGED intakeVars
  <2>1. sender' = sender /\ Len(rows') = Len(rows) /\ lapses' = lapses /\ (rows' # <<>> => rows # <<>>)
    BY <1>0, <1>6, JobsStep DEF intakeVars, intake, IntakeTyped
  <2>2. Inserting' \subseteq Inserting
    BY <2>1 DEF Inserting
  <2> QED
    BY <1>0, <1>2, <2>1, <2>2
<1> QED
  BY <1>3, <1>4, <1>5, <1>6, IntakeKinds

\* No job before the row.
LEMMA JobsHaveRowStep ==
  ASSUME IntakeTyped, JobsHaveRow, [IntakeNext]_intakeVars
  PROVE  JobsHaveRow'
<1>1. ASSUME NEW s \in Senders, Handled(s)
      PROVE  JobsHaveRow'
  <2>1. CASE rows # <<>>
    BY <1>1, <2>1 DEF Handled, JobsHaveRow
  <2>2. CASE rows = <<>>
    BY <1>1, <2>2 DEF Handled, JobsHaveRow
  <2> QED
    BY <2>1, <2>2
<1>2. ASSUME NEW s \in Senders, Insert(s)
      PROVE  JobsHaveRow'
  BY <1>2, Inserts DEF JobsHaveRow
<1>3. CASE LapseLock \/ UNCHANGED intakeVars
  BY <1>3 DEF LapseLock, intakeVars, jobState, JobsHaveRow
<1>4. CASE Jobs
  <2>1. rows' \in Seq(Row) /\ Len(rows') = Len(rows) /\ (jobs["track"] # "none" \/ jobs["aml"] # "none")
    BY <1>4, JobsStep
  <2>2. rows # <<>> => rows' # <<>>
    BY <2>1 DEF IntakeTyped
  <2> QED
    BY <2>1, <2>2 DEF JobsHaveRow
<1> QED
  BY <1>1, <1>2, <1>3, <1>4, IntakeKinds

\* A verdict in a final row keeps somebody who tells it.
LEMMA ToldStep ==
  ASSUME IntakeTyped, JobsHaveRow, ToldOrDue, [IntakeNext]_intakeVars
  PROVE  ToldOrDue'
<1>0. Len(rows) \in Nat /\ (Len(rows) = 1 => rows[1] \in Row)
  BY DEF IntakeTyped
<1>1. ASSUME NEW s \in Senders, Handled(s)
      PROVE  ToldOrDue'
  <2>1. UNCHANGED <<rows, tracker, screening, told, staleRead, broken>>
    BY <1>1 DEF Handled, jobState
  <2>2. /\ jobs'["track"] = "ended" => jobs["track"] = "ended"
        /\ jobs["track"] = "active" <=> jobs'["track"] = "active"
        /\ jobs["aml"] = "waiting" => jobs'["aml"] = "waiting"
        /\ jobs["aml"] = "active" => jobs'["aml"] = "active"
    BY <1>1, JobQueued DEF Handled
  <2>3. Due => Due'
    BY <2>1, <2>2 DEF Due
  <2> QED
    BY <2>1, <2>2, <2>3 DEF ToldOrDue
<1>2. ASSUME NEW s \in Senders, Insert(s)
      PROVE  ToldOrDue'
  <2>1. Len(rows') = Len(rows) + 1 /\ ~rows'[Len(rows) + 1].final /\ jobs' = jobs
    BY <1>2, Inserts
  <2>2. Len(rows) = 0 => rows = <<>>
    BY DEF IntakeTyped
  <2> QED
    <3> SUFFICES ASSUME Len(rows') = 1
                 PROVE  jobs'["track"] = "none" /\ ~rows'[1].final
      BY DEF ToldOrDue
    <3> DEFINE n == Len(rows)
    <3>1. n \in Nat /\ n + 1 = 1
      BY <1>0, <2>1, Zenon
    <3> HIDE DEF n
    <3>2. n = 0
      BY <3>1
    <3> USE DEF n
    <3> QED
      BY <2>1, <2>2, <3>2 DEF JobsHaveRow
<1>3. CASE LapseLock \/ UNCHANGED intakeVars
  BY <1>3 DEF LapseLock, intakeVars, jobState, ToldOrDue, Due
<1>4. ASSUME NEW i \in 1..Len(rows), TrackerRead(i)
      PROVE  ToldOrDue'
  <2>1. UNCHANGED <<rows, screening, told, staleRead, broken>> /\ jobs["track"] = "waiting"
    BY <1>4 DEF TrackerRead
  <2>2. CASE rows[i].final
    <3>1. jobs'["track"] = "ended" /\ jobs'["aml"] = jobs["aml"]
      BY <1>4, <2>2, JobMoves DEF TrackerRead, TrackerEnds, JobStage
    <3> QED
      BY <1>4, <2>1, <2>2, <3>1 DEF ToldOrDue, Due
  <2>3. CASE ~rows[i].final
    <3>1. jobs'["track"] = "active" /\ jobs'["aml"] = jobs["aml"] /\ tracker' = rows[i]
      BY <1>4, <2>3, JobMoves DEF TrackerRead, JobStage
    <3> QED
      BY <1>4, <2>1, <2>3, <3>1 DEF ToldOrDue, Due
  <2> QED
    BY <2>2, <2>3
<1>5. CASE TrackerFinishes
  <2>1. /\ Len(rows') = Len(rows) /\ jobs' = jobs /\ broken' = broken /\ jobs["track"] = "active"
        /\ \A i \in 1..Len(rows) : rows'[i].final /\ rows'[i].aml = rows[i].aml
    BY <1>5, RowsFinal DEF TrackerFinishes
  <2>2. tracker'.final /\ tracker'.aml = tracker.aml
    BY <1>5, <2>1 DEF TrackerFinishes, IntakeTyped, Row
  <2>3. ~staleRead' => \A i \in 1..Len(rows) : rows[i].aml = tracker.aml
    BY <1>5 DEF TrackerFinishes
  <2> QED
    BY <1>0, <2>1, <2>2, <2>3 DEF ToldOrDue, Due
<1>6. CASE TrackerDispatches
  <2>1. jobs'["track"] = "ended" /\ jobs'["aml"] = jobs["aml"]
    BY <1>6, JobMoves DEF TrackerDispatches, TrackerEnds, JobStage
  <2> QED
    BY <1>6, <2>1 DEF TrackerDispatches, ToldOrDue, Due
<1>7. CASE TrackerBreaks
  <2>1. jobs'["track"] = "ended" /\ rows' = rows /\ broken'
    BY <1>7, JobMoves DEF TrackerBreaks, TrackerEnds, JobStage
  <2> QED
    BY <2>1 DEF ToldOrDue
<1>8. ASSUME NEW outcome \in Verdicts, Check(outcome)
      PROVE  ToldOrDue'
  <2>1. /\ jobs'["aml"] = "active" /\ jobs'["track"] = jobs["track"] /\ screening'.at = "update"
        /\ UNCHANGED <<rows, tracker, told, staleRead, broken>>
    BY <1>8, JobMoves DEF Check, JobStage
  <2> QED
    BY <2>1 DEF ToldOrDue, Due
<1>9. ASSUME NEW i \in 1..Len(rows), SaveVerdict(i)
      PROVE  ToldOrDue'
  <2>1. screening \in Screening /\ screening.verdict \in Verdicts /\ jobs["aml"] = "active"
    BY <1>9 DEF SaveVerdict, IntakeTyped, Screening
  <2>2. /\ Len(rows') = Len(rows) /\ jobs' = jobs /\ UNCHANGED <<tracker, told, staleRead, broken>>
        /\ \A k \in 1..Len(rows) : rows'[k].final = rows[k].final
    BY <1>9, <2>1, RowsJudged DEF SaveVerdict
  <2>3. screening'.row = rows'[i]
    <3> DEFINE updated == rows'[i]
    <3>1. screening' = [screening EXCEPT !.at = "dispatch", !.row = updated]
      BY <1>9 DEF SaveVerdict
    <3> HIDE DEF updated
    <3>2. screening'.row = updated
      BY <2>1, <3>1 DEF Screening
    <3> QED
      BY <3>2 DEF updated
  <2> QED
    BY <1>0, <2>1, <2>2, <2>3 DEF ToldOrDue, Due
<1>10. CASE TellVerdict
  <2>1. jobs'["aml"] = "ended" /\ jobs'["track"] = jobs["track"] /\ UNCHANGED <<rows, tracker, staleRead, broken>>
    BY <1>10, JobMoves DEF TellVerdict, ScreeningEnds, JobStage
  <2>2. screening.at = "dispatch" /\ told \subseteq told' /\ (screening.row.final => screening.row.aml \in told')
    BY <1>10 DEF TellVerdict
  <2>3. jobs["aml"] = "active"
    BY <1>10 DEF TellVerdict
  <2>4. Due => Due'
    BY <2>1, <2>2, <2>3 DEF Due
  <2> QED
    BY <2>1, <2>4 DEF ToldOrDue
<1>11. CASE ScreeningFails
  <2>1. CASE screening.verdict = "failed"
    <3>1. jobs'["track"] = jobs["track"] /\ broken' /\ UNCHANGED <<rows, tracker>>
      BY <1>11, <2>1, JobMoves DEF ScreeningFails, ScreeningEnds, JobStage
    <3> QED
      BY <3>1 DEF ToldOrDue
  <2>2. CASE screening.verdict # "failed"
    <3>1. screening'.at = "update" /\ jobs["aml"] = "active" /\ UNCHANGED <<jobs, rows, tracker, told, staleRead, broken>>
      BY <1>11, <2>2 DEF ScreeningFails
    <3> QED
      BY <3>1 DEF ToldOrDue, Due
  <2> QED
    BY <2>1, <2>2
<1>12. CASE ScreeningStalls
  <2>1. jobs'["aml"] = "waiting" /\ jobs'["track"] = jobs["track"] /\ UNCHANGED <<rows, tracker, told, staleRead, broken>>
    BY <1>12, JobMoves DEF ScreeningStalls, JobStage
  <2> QED
    BY <2>1 DEF ToldOrDue, Due
<1> QED
  BY <1>1, <1>2, <1>3, <1>4, <1>5, <1>6, <1>7, <1>8, <1>9, <1>10, <1>11, <1>12, IntakeKinds DEF Jobs

\* The invariant of the intake, before anything happens.
LEMMA IntakeStart ==
  ASSUME IntakeInit
  PROVE  IntakeInv
<1>1. IntakeTyped
  <2>1. [at |-> "idle", aml |-> FALSE] \in [at : Inside \cup {"idle", "lock"}, aml : BOOLEAN]
    OBVIOUS
  <2>2. sender \in [Senders -> [at : Inside \cup {"idle", "lock"}, aml : BOOLEAN]]
    BY <2>1 DEF IntakeInit
  <2>3. jobs \in [{"track", "aml"} -> JobStage] /\ jobs["track"] = "none" /\ jobs["aml"] = "none"
    BY DEF IntakeInit, JobStage
  <2>4. syncLock \in Senders \cup {NoSender} /\ rows \in Seq(Row) /\ lapses \in Nat /\ told \subseteq AmlStatus
    BY DEF IntakeInit
  <2> QED
    BY <2>2, <2>3, <2>4 DEF IntakeTyped
<1>2. Strays = {} /\ rows = <<>> /\ \A s \in Senders : sender[s].at = "idle"
  BY DEF IntakeInit, Strays, Inside
<1>3. Cardinality(Strays) = 0
  BY <1>2, FS_EmptySet
<1>4. StraysLapsed /\ RowsCounted
  BY <1>2, <1>3 DEF IntakeInit, StraysLapsed, RowsCounted
<1>5. JobsHaveRow /\ ToldOrDue
  BY <1>2 DEF IntakeInit, JobsHaveRow, ToldOrDue
<1> QED
  BY <1>1, <1>4, <1>5 DEF IntakeInv

\* It holds in every reachable state.
LEMMA IntakeInvariant == IntakeSpec => []IntakeInv
<1>1. IntakeInv /\ [IntakeNext]_intakeVars => IntakeInv'
  BY IntakeTypedStep, StraysStep, RowsStep, JobsHaveRowStep, ToldStep DEF IntakeInv
<1> QED
  BY IntakeStart, <1>1, PTL DEF IntakeSpec

\* The lock, the rows, the jobs and what was told have their types.
THEOREM IntakeTypes == IntakeSpec => []IntakeTypeOK
<1>1. IntakeInv => IntakeTypeOK
  BY DEF IntakeInv, IntakeTyped, IntakeTypeOK
<1> QED
  BY <1>1, IntakeInvariant, PTL

\* However many requests race for the lock, lose it or die in it, and however
\* the two jobs interleave: at most one row, and one more for every lock that
\* expired under its request; and with one row, the verdict that stands was told,
\* but for the two cases that ScreeningTold names.
THEOREM IntakeHolds == IntakeSpec => []IntakeSound
<1>1. IntakeInv => IntakeSound
  <2> SUFFICES ASSUME IntakeInv
               PROVE  OneRowPerLock /\ ScreeningTold
    BY DEF IntakeSound
  <2>1. OneRowPerLock
    <3>1. Inserting \in SUBSET Senders /\ Len(rows) \in Nat /\ lapses \in Nat
      BY DEF Inserting, IntakeInv, IntakeTyped
    <3>2. Cardinality(Inserting) \in Nat
      BY <3>1, IntakeAssumption, CountMoved
    <3>3. rows = <<>> => Len(rows) = 0
      OBVIOUS
    <3> QED
      BY <3>1, <3>2, <3>3 DEF OneRowPerLock, IntakeInv, RowsCounted
  <2>2. ScreeningTold
    BY DEF ScreeningTold, IntakeInv, ToldOrDue, Due
  <2> QED
    BY <2>1, <2>2
<1> QED
  BY <1>1, IntakeInvariant, PTL

-----------------------------------------------------------------------------
(* What a tracker reports *)

\* Only a transaction that is pending is tracked.
TrackedIsPending == stage # "off" => row.status = "pending"

\* A hash of a bundle is that of an operation that succeeded, or that failed and
\* was retried if the row is pending again.
HashOfBundle ==
  /\ bundled => chain \in {"Success", "Failed"}
  /\ bufferedHash => chain = "Success"
  /\ retriedHash => chain = "Failed"
  /\ row.hash => chain \in {"Success", "Failed"}
  /\ row.hash /\ row.status = "pending" => chain = "Success" \/ retriedHash
  /\ via = "userOp" /\ stage = "receipt" => chain = "Success" \/ retriedHash

\* What is about to be written is real.
ReportIsReal ==
  stage = "write" =>
    /\ report.hash => chain \in {"Success", "Failed"}
    /\ report.status = "Success" => chain = "Success" \/ retriedHash
    /\ report.status = "Replaced" => chain = "Replaced"
    /\ report.status = "Failed" => chain = "Failed" \/ timedOut

TrackingInv == TrackingTypeOK /\ TrackedIsPending /\ HashOfBundle /\ ReportIsReal /\ ReportedIsReal

\* No step of the chain, a tracker, the buffer or a retry breaks the invariant.
LEMMA TrackingStep ==
  ASSUME TrackingInv, [TrackingNext]_trackingVars
  PROVE  TrackingInv'
<1> USE LaunchBounds DEF TrackingInv, TrackingTypeOK, TrackedIsPending, HashOfBundle, ReportIsReal, ReportedIsReal,
                         chainVars, countVars, pastVars, Reports
<1>0. /\ launches < MaxLaunches => launches + 1 \in 0..MaxLaunches
      /\ Trouble => troubles' \in 0..MaxTroubles
  BY DEF Trouble
<1>16. ASSUME via' = via
      PROVE  SettingsOf(via)' = SettingsOf(via)
  BY <1>16 DEF SettingsOf
<1>1. CASE Decide
  BY <1>1, <1>16 DEF Decide
<1>2. CASE RefuseEndpoint
  BY <1>0, <1>2, <1>16 DEF RefuseEndpoint
<1>3. ASSUME NEW step \in {"receipt", "poll", "bundler"}, Launch(step),
             via = "userOp" /\ step = "receipt" => row.hash
      PROVE  TrackingInv'
  BY <1>0, <1>3, <1>16 DEF Launch
<1>4. CASE LaunchEvm \/ LaunchSolana \/ LaunchGelato \/ LaunchSafe \/ LaunchUserOp
  BY <1>3, <1>4 DEF LaunchEvm, LaunchSolana, LaunchGelato, LaunchSafe, LaunchUserOp
<1>5. CASE Bundled
  BY <1>5, <1>16 DEF Bundled
<1>6. ASSUME NEW status \in Reports, NEW hash \in BOOLEAN, Reporting(status, hash), timedOut' \in BOOLEAN, stage # "off",
             hash => chain \in {"Success", "Failed"},
             status = "Success" => chain = "Success" \/ retriedHash,
             status = "Replaced" => chain = "Replaced",
             status = "Failed" => chain = "Failed" \/ timedOut'
      PROVE  TrackingInv'
  BY <1>6, <1>16 DEF Reporting
<1>7. CASE BundledWithoutHash \/ OperationFailed
  BY <1>6, <1>7 DEF BundledWithoutHash, OperationFailed
<1>8. CASE ReceiptOfBundle \/ BundleTimesOut
  BY <1>6, <1>8 DEF ReceiptOfBundle, BundleTimesOut
<1>9. CASE ReceiptOfTransaction \/ TransactionTimesOut
  BY <1>6, <1>9 DEF ReceiptOfTransaction, TransactionTimesOut
<1>10. CASE SolanaAnswers \/ GelatoAnswers \/ SafeAnswers
  BY <1>6, <1>10 DEF SolanaAnswers, GelatoAnswers, SafeAnswers, Polled
<1>11. CASE WriteReport
  BY <1>11, <1>16 DEF WriteReport, NoReport
<1>12. CASE WriteFails \/ TrackerDies
  <2>1. NoReport \in [status : Reports, hash : BOOLEAN]
    BY DEF NoReport
  <2>2. /\ stage' = "off" /\ report' = NoReport /\ (bufferedHash' = bufferedHash \/ bufferedHash' = FALSE) /\ Trouble
        /\ UNCHANGED <<chainVars, row, launches, pastVars>>
    BY <1>12, Zenon DEF WriteFails, TrackerDies
  <2>3. bufferedHash' \in BOOLEAN /\ (bufferedHash' => bufferedHash)
    <3>1. CASE bufferedHash' = bufferedHash
      BY <3>1
    <3>2. CASE bufferedHash' = FALSE
      BY <3>2
    <3> QED
      BY <2>2, <3>1, <3>2
  <2>4. TrackingTypeOK'
    BY <1>0, <1>16, <2>1, <2>2, <2>3
  <2>5. TrackedIsPending' /\ HashOfBundle' /\ ReportIsReal' /\ ReportedIsReal'
    BY <2>2, <2>3
  <2> QED
    BY <2>4, <2>5
<1>13. CASE FlushHash
  BY <1>13, <1>16 DEF FlushHash
<1>14. CASE RetryTracking
  <2>1. /\ row' = [row EXCEPT !.status = "pending"]
        /\ (bufferedHash' = bufferedHash \/ bufferedHash' = FALSE) /\ retriedHash' = (retriedHash \/ (row.hash /\ chain = "Failed"))
        /\ UNCHANGED <<chainVars, stage, report, countVars, timedOut>>
    BY <1>14, Zenon DEF RetryTracking
  <2>2. row'.status = "pending" /\ row'.hash = row.hash /\ row' \in [status : {"pending"}, hash : BOOLEAN]
    BY <2>1
  <2>3. /\ retriedHash' \in BOOLEAN /\ (retriedHash' <=> retriedHash \/ (row.hash /\ chain = "Failed"))
        /\ bufferedHash' \in BOOLEAN /\ (bufferedHash' => bufferedHash)
    <3>1. retriedHash' \in BOOLEAN /\ (retriedHash' <=> retriedHash \/ (row.hash /\ chain = "Failed"))
      BY <2>1
    <3>2. CASE bufferedHash' = bufferedHash
      BY <3>1, <3>2
    <3>3. CASE bufferedHash' = FALSE
      BY <3>1, <3>3
    <3> QED
      BY <2>1, <3>2, <3>3
  <2>4. TrackingTypeOK'
    BY <1>16, <2>1, <2>2, <2>3
  <2>5. HashOfBundle'
    BY <2>1, <2>2, <2>3
  <2>6. ReportIsReal' /\ TrackedIsPending' /\ ReportedIsReal'
    BY <2>1, <2>2, <2>3
  <2> QED
    BY <2>4, <2>5, <2>6
<1>15. CASE UNCHANGED trackingVars
  BY <1>15, <1>16 DEF trackingVars
<1> QED
  BY <1>1, <1>2, <1>4, <1>5, <1>7, <1>8, <1>9, <1>10, <1>11, <1>12, <1>13, <1>14, <1>15 DEF TrackingNext

\* The invariant of a tracker.
LEMMA TrackingInvariant == TrackingSpec => []TrackingInv
<1>1. TrackingInit => TrackingInv
  <2> SUFFICES ASSUME TrackingInit
               PROVE  TrackingInv
    OBVIOUS
  <2>1. 0 \in 0..MaxLaunches /\ 0 \in 0..MaxTroubles /\ NoReport \in [status : Reports, hash : BOOLEAN]
    BY LaunchBounds DEF NoReport, Reports
  <2>2. TrackingTypeOK
    BY <2>1 DEF TrackingInit, TrackingTypeOK
  <2>3. TrackedIsPending /\ HashOfBundle /\ ReportIsReal /\ ReportedIsReal
    BY DEF TrackingInit, TrackedIsPending, HashOfBundle, ReportIsReal, ReportedIsReal
  <2> QED
    BY <2>2, <2>3 DEF TrackingInv
<1>2. TrackingInv /\ [TrackingNext]_trackingVars => TrackingInv'
  BY TrackingStep
<1> QED
  BY <1>1, <1>2, PTL DEF TrackingSpec

\* TrackingTypeOK: whichever provider it polls and however often it is launched
\* again, the row, the tracker and the chain are in states that they have.
THEOREM TrackingTypes == TrackingSpec => []TrackingTypeOK
<1>1. TrackingInv => TrackingTypeOK
  BY DEF TrackingInv
<1> QED
  BY <1>1, TrackingInvariant, PTL

\* ReportedIsReal: whatever the provider, the failing writes, the deaths and the
\* retries, the status in the row is what the chain says or the end of a time
\* limit, but for a UserOperation retried with the hash of the bundle it failed in.
THEOREM ReportsHold == TrackingSpec => []ReportedIsReal
<1>1. TrackingInv => ReportedIsReal
  BY DEF TrackingInv
<1> QED
  BY <1>1, TrackingInvariant, PTL
-----------------------------------------------------------------------------
(* The relay of one replica *)

StreamSteps == {"off", "lookup", "store", "admitted", "open"}
Streams == [step : StreamSteps, secret : Nat, set : Sets \cup {0}, alive : BOOLEAN, stale : Int]

RelayTyped ==
  /\ endpointRow \in [there : BOOLEAN, active : BOOLEAN, local : BOOLEAN, secret : RolledSecrets]
  /\ endpointRow.secret <= endpointSaves + 1
  /\ stopped \in [RolledSecrets -> Nat] /\ authCache \in [RolledSecrets -> 0..NotCached]
  /\ listener \in [Listeners -> Streams]
  /\ \A c \in Listeners : listener[c].step # "off" => listener[c].secret \in RolledSecrets
  /\ channel \in Sets \cup {0} /\ members \in [Sets -> SUBSET Listeners] /\ subscribed \in BOOLEAN
  /\ today \in 0..LastDay /\ endpointSaves \in 0..MaxSaves /\ relayTroubles \in Nat

\* Without a failure the channel of an open stream is the one set there is, and
\* a channel that exists is subscribed to.
Heard(c) ==
  listener[c].step = "open" /\ listener[c].alive =>
    channel # 0 /\ listener[c].set = channel /\ c \in members[channel]
HeardWithoutTrouble ==
  relayTroubles = 0 => (channel # 0 => subscribed) /\ \A c \in Listeners : Heard(c)

\* What a request or the cache knows of a secret was true at most a day ago.
KnownRecently ==
  /\ \A k \in RolledSecrets : StaleDays(k) >= 0
  /\ \A k \in RolledSecrets : authCache[k] # NotCached =>
       authCache[k] <= today /\ StaleDays(k) <= today - authCache[k] /\ today - authCache[k] <= 1
  /\ \A c \in Listeners :
       /\ listener[c].step = "store" => StaleDays(listener[c].secret) = 0
       /\ listener[c].step = "admitted" => StaleDays(listener[c].secret) <= 1
       /\ listener[c].stale <= 1

RelayInv == RelayTyped /\ HeardWithoutTrouble /\ KnownRecently

\* There are more sets than streams refer to.
LEMMA FreshSetExists ==
  ASSUME RelayTyped, channel = 0
  PROVE  FreshSet \in Sets
<1> USE RelayBounds
<1>1. SUFFICES \E i \in Sets : \A c \in Listeners : listener[c].set # i
  BY DEF FreshSet, Sets
<1>2. SUFFICES ASSUME \A i \in Sets : \E c \in Listeners : listener[c].set = i
               PROVE  FALSE
  OBVIOUS
<1> DEFINE Using == {c \in Listeners : listener[c].set \in Sets}
           setOf == [c \in Using |-> listener[c].set]
<1>3. IsFiniteSet(Using) /\ Cardinality(Using) <= Cardinality(Listeners) /\ Cardinality(Using) \in Nat
  BY FS_Subset, FS_CardinalityType
<1>4. setOf \in Surjection(Using, Sets)
  BY <1>2 DEF Surjection
<1>5. Cardinality(Sets) <= Cardinality(Using)
  BY <1>3, <1>4, FS_Surjection
<1>6. Cardinality(Sets) = Cardinality(Listeners) + 1
  <2>1. Cardinality(Listeners) \in Nat
    BY FS_CardinalityType
  <2> QED
    BY <2>1, FS_Interval DEF Sets
<1>7. Cardinality(Listeners) \in Nat
  BY FS_CardinalityType
<1> QED
  BY <1>3, <1>5, <1>6, <1>7

\* A change of the endpoint makes no knowledge older than it is.
LEMMA SaveRowStep ==
  ASSUME RelayInv, SaveRow
  PROVE  RelayInv'
<1> USE RelayBounds DEF RelayInv, RelayTyped
<1>1. RelayTyped'
  <2>1. endpointRow.secret + 1 \in RolledSecrets /\ endpointSaves + 1 \in 0..MaxSaves
    BY DEF SaveRow, RolledSecrets
  <2>2. endpointRow'.secret \in RolledSecrets /\ endpointRow'.secret <= endpointSaves' + 1
        /\ endpointRow' \in [there : BOOLEAN, active : BOOLEAN, local : BOOLEAN, secret : RolledSecrets]
    <3>1. endpointRow' \in {[endpointRow EXCEPT !.active = ~endpointRow.active],
                            [endpointRow EXCEPT !.local = ~endpointRow.local],
                            [endpointRow EXCEPT !.secret = endpointRow.secret + 1],
                            [endpointRow EXCEPT !.there = FALSE]}
          /\ endpointSaves' = endpointSaves + 1
      BY DEF SaveRow
    <3>2. endpointRow' \in [there : BOOLEAN, active : BOOLEAN, local : BOOLEAN, secret : RolledSecrets]
      BY <2>1, <3>1
    <3>3. endpointRow'.secret \in {endpointRow.secret, endpointRow.secret + 1}
      BY <3>1
    <3>4. endpointRow.secret \in Nat
      BY DEF RolledSecrets
    <3> QED
      BY <2>1, <3>1, <3>2, <3>3, <3>4
  <2>3. stopped' \in [RolledSecrets -> Nat]
    BY DEF SaveRow
  <2>4. UNCHANGED <<authCache, listener, channel, members, subscribed, today, relayTroubles>>
        /\ endpointSaves' = endpointSaves + 1
    BY DEF SaveRow, registry
  <2> QED
    BY <2>1, <2>2, <2>3, <2>4
<1>2. ASSUME NEW k \in RolledSecrets
      PROVE  0 <= StaleDays(k)' /\ StaleDays(k)' <= StaleDays(k)
  <2>1. 0 <= StaleDays(k)
    BY <1>2 DEF KnownRecently
  <2>2. CASE Good(k)
    <3>1. endpointRow.secret = k /\ StaleDays(k) = 0 /\ stopped'[k] = today
      BY <2>2 DEF SaveRow, Good, StaleDays
    <3> QED
      BY <3>1 DEF SaveRow, StaleDays
  <2>3. CASE ~Good(k)
    <3>1. stopped'[k] = stopped[k] /\ StaleDays(k) = today - stopped[k]
      BY <2>3 DEF SaveRow, StaleDays, Good
    <3> QED
      BY <2>1, <3>1 DEF SaveRow, StaleDays
  <2> QED
    BY <2>2, <2>3
<1>3. HeardWithoutTrouble'
  BY DEF SaveRow, HeardWithoutTrouble, Heard, registry
<1>4. KnownRecently'
  <2>1. \A k \in RolledSecrets : StaleDays(k) \in Int /\ StaleDays(k)' \in Int
    BY <1>1 DEF StaleDays
  <2> QED
    BY <1>2, <2>1 DEF SaveRow, KnownRecently
<1> QED
  BY <1>1, <1>3, <1>4

\* A day later what is still cached is a day older; nobody is being admitted.
LEMMA NextDayStep ==
  ASSUME RelayInv, NextDay
  PROVE  RelayInv'
<1> USE RelayBounds DEF RelayInv, RelayTyped
<1>1. today' = today + 1 /\ today' \in 0..LastDay
      /\ UNCHANGED <<endpointRow, stopped, listener, channel, members, subscribed, endpointSaves, relayTroubles>>
  BY DEF NextDay, registry
<1>2. \A k \in RolledSecrets : authCache'[k] # NotCached => authCache'[k] = authCache[k] /\ authCache[k] = today
  BY DEF NextDay
<1>3. RelayTyped'
  <2>1. authCache' \in [RolledSecrets -> 0..NotCached]
    BY DEF NextDay, NotCached
  <2> QED
    BY <1>1, <2>1
<1>4. \A k \in RolledSecrets : /\ StaleDays(k) \in Int /\ StaleDays(k)' \in Int
                               /\ 0 <= StaleDays(k)' /\ StaleDays(k)' <= StaleDays(k) + 1
  BY <1>1, <1>3 DEF StaleDays, Good, KnownRecently
<1>5. KnownRecently'
  BY <1>1, <1>2, <1>4 DEF KnownRecently, NextDay, NotCached
<1>6. HeardWithoutTrouble'
  BY <1>1 DEF HeardWithoutTrouble, Heard
<1> QED
  BY <1>3, <1>5, <1>6

\* A step of a client, a message or a restart: time and the endpoint stand still,
\* so what was known is known as it was.
LEMMA KnownAsBefore ==
  ASSUME RelayInv, UNCHANGED <<endpointRow, stopped, today>>,
         \A k \in RolledSecrets : authCache'[k] \in {authCache[k], today} /\
           (authCache'[k] # authCache[k] => StaleDays(k) <= 0),
         \A c \in Listeners :
           /\ listener'[c].step = "store" => StaleDays(listener'[c].secret) = 0
           /\ listener'[c].step = "admitted" => StaleDays(listener'[c].secret) <= 1
           /\ listener'[c].stale <= 1
  PROVE  KnownRecently'
<1>1. \A k : StaleDays(k)' = StaleDays(k)
  BY DEF StaleDays, Good
<1> QED
  BY <1>1 DEF RelayInv, RelayTyped, KnownRecently

\* A client asks, is looked up, and its check is stored.
LEMMA AskingStep ==
  ASSUME RelayInv, NEW c \in Listeners,
         (\E k \in RolledSecrets : AskForStream(c, k)) \/ LookUp(c) \/ StoreAuth(c) \/ LeaveEarly(c)
  PROVE  RelayInv'
<1> USE RelayBounds DEF RelayInv, RelayTyped
<1>1. Disconnected \in Streams
  BY SMTT(30) DEF Disconnected, Streams, StreamSteps
<1>2. \A d \in Listeners \ {c} : listener'[d] = listener[d]
  BY ZenonT(30) DEF AskForStream, LookUp, StoreAuth, LeaveEarly, Advance
<1>3. UNCHANGED <<endpointRow, stopped, channel, members, subscribed, today, endpointSaves>>
      /\ relayTroubles' \in {relayTroubles, relayTroubles + 1}
  BY DEF AskForStream, LookUp, StoreAuth, LeaveEarly, registry, dayAndSaves, RelayTrouble
<1>4. /\ listener' \in [Listeners -> Streams] /\ listener'[c].stale \in {listener[c].stale, 0}
      /\ listener'[c].step # "off" => listener'[c].secret \in RolledSecrets
      /\ listener'[c].step # "open"
      /\ listener'[c].step = "store" => StaleDays(listener'[c].secret) = 0
      /\ listener'[c].step = "admitted" => StaleDays(listener'[c].secret) <= 1
  <2>1. ASSUME NEW k \in RolledSecrets, AskForStream(c, k)
        PROVE  /\ listener' \in [Listeners -> Streams] /\ listener'[c].stale \in {listener[c].stale, 0}
               /\ listener'[c].step \in {"lookup", "admitted"} /\ listener'[c].secret \in RolledSecrets
               /\ listener'[c].step = "admitted" => StaleDays(listener'[c].secret) <= 1
    <3>1. authCache[k] # NotCached => StaleDays(k) <= 1
      <4>1. StaleDays(k) \in Int
        BY DEF StaleDays
      <4> QED
        BY <4>1 DEF KnownRecently
    <3>2. \E step \in {"lookup", "admitted"} :
            /\ listener' = [listener EXCEPT ![c] = [Disconnected EXCEPT !.step = step, !.secret = k, !.alive = TRUE]]
            /\ step = "admitted" => authCache[k] # NotCached
      BY <2>1 DEF AskForStream
    <3>3. PICK step \in {"lookup", "admitted"} :
            /\ listener' = [listener EXCEPT ![c] = [Disconnected EXCEPT !.step = step, !.secret = k, !.alive = TRUE]]
            /\ step = "admitted" => authCache[k] # NotCached
      BY <3>2
    <3>4. listener'[c] = [step |-> step, secret |-> k, set |-> 0, alive |-> TRUE, stale |-> 0]
      BY <3>3 DEF Disconnected
    <3>5. listener'[c] \in Streams
      BY <3>4 DEF Streams, StreamSteps, RolledSecrets
    <3> QED
      BY <3>1, <3>3, <3>4, <3>5, ZenonT(40)
  <2>2. CASE LookUp(c)
    BY <1>1, <2>2 DEF LookUp, Disconnected, Streams, StreamSteps, StaleDays
  <2>3. CASE StoreAuth(c)
    BY <2>3 DEF StoreAuth, Advance, Streams, StreamSteps, KnownRecently
  <2>4. CASE LeaveEarly(c)
    BY <2>4, ZenonT(30) DEF LeaveEarly, Streams, StreamSteps, KnownRecently
  <2> QED
    BY <2>1, <2>2, <2>3, <2>4
<1>5. /\ authCache' \in [RolledSecrets -> 0..NotCached]
      /\ \A k \in RolledSecrets : authCache'[k] \in {authCache[k], today} /\
           (authCache'[k] # authCache[k] => StaleDays(k) <= 0)
  <2>1. CASE StoreAuth(c)
    BY <2>1 DEF StoreAuth, KnownRecently, NotCached
  <2>2. CASE UNCHANGED authCache
    BY <2>2
  <2> QED
    BY <2>1, <2>2 DEF AskForStream, LookUp, LeaveEarly
<1>6. KnownRecently'
  <2>1. listener'[c].stale <= 1
    BY <1>4 DEF KnownRecently
  <2>2. \A d \in Listeners \ {c} : /\ listener'[d].step = "store" => StaleDays(listener'[d].secret) = 0
                                   /\ listener'[d].step = "admitted" => StaleDays(listener'[d].secret) <= 1
                                   /\ listener'[d].stale <= 1
    BY <1>2 DEF KnownRecently
  <2> QED
    BY <1>3, <1>4, <1>5, <2>1, <2>2, KnownAsBefore
<1>7. HeardWithoutTrouble'
  BY <1>2, <1>3, <1>4 DEF HeardWithoutTrouble, Heard
<1>8. RelayTyped'
  BY <1>2, <1>3, <1>4, <1>5
<1> QED
  BY <1>6, <1>7, <1>8

\* A stream opens: it joins the set of the channel, or a fresh one.
LEMMA JoinStep ==
  ASSUME RelayInv, NEW c \in Listeners, JoinChannel(c)
  PROVE  RelayInv'
<1> USE RelayBounds DEF RelayInv, RelayTyped
<1> DEFINE set == IF channel = 0 THEN FreshSet ELSE channel
           joined == (IF channel = 0 THEN {} ELSE members[set]) \cup {c}
<1>1. set \in Sets /\ set # 0 /\ joined \subseteq Listeners /\ c \in joined
  <2>1. set \in Sets
    BY FreshSetExists
  <2>2. 0 \notin Sets
    BY DEF Sets
  <2>3. members[set] \subseteq Listeners
    BY <2>1
  <2> HIDE DEF set
  <2> QED
    BY <2>1, <2>2, <2>3
<1>2. /\ listener[c].step = "admitted" /\ channel' = set /\ members' = [members EXCEPT ![set] = joined]
      /\ listener' = [listener EXCEPT ![c].step = "open", ![c].set = set, ![c].stale = StaleDays(listener[c].secret)]
      /\ UNCHANGED <<endpointRow, stopped, authCache, today, endpointSaves>>
      /\ \/ subscribed' = TRUE /\ UNCHANGED relayTroubles /\ joined = {c}
         \/ relayTroubles' = relayTroubles + 1 /\ UNCHANGED subscribed
         \/ UNCHANGED <<subscribed, relayTroubles>> /\ joined # {c}
  BY DEF JoinChannel, dayAndSaves, RelayTrouble
<1>3. joined # {c} => channel # 0 /\ joined = members[channel] \cup {c}
  OBVIOUS
<1>4. channel # 0 => set = channel /\ members[channel] \subseteq joined
  OBVIOUS
<1> HIDE DEF set, joined
<1>5. StaleDays(listener[c].secret) \in Int /\ StaleDays(listener[c].secret) <= 1
  BY <1>2 DEF StaleDays, KnownRecently
<1>6. /\ listener'[c] = [listener[c] EXCEPT !.step = "open", !.set = set, !.stale = StaleDays(listener[c].secret)]
      /\ \A d \in Listeners \ {c} : listener'[d] = listener[d]
  BY <1>2
<1>7. listener' \in [Listeners -> Streams] /\ listener'[c].step = "open" /\ listener'[c].set = set
      /\ listener'[c].secret \in RolledSecrets /\ listener'[c].stale <= 1
  <2> DEFINE days == StaleDays(listener[c].secret)
  <2>1. days \in Int /\ days <= 1
    BY <1>5
  <2>2. listener'[c] = [listener[c] EXCEPT !.step = "open", !.set = set, !.stale = days]
    BY <1>6
  <2>3. listener[c] \in Streams /\ listener[c].secret \in RolledSecrets
    BY <1>2
  <2> HIDE DEF days
  <2>4. listener'[c] \in Streams /\ listener'[c].step = "open" /\ listener'[c].set = set
        /\ listener'[c].secret = listener[c].secret /\ listener'[c].stale = days
    BY <1>1, <2>1, <2>2, <2>3 DEF Streams, StreamSteps
  <2>5. listener' \in [Listeners -> Streams]
    BY <1>2, <1>6, <2>4
  <2> QED
    BY <2>1, <2>3, <2>4, <2>5
<1>8. RelayTyped'
  <2>1. members' \in [Sets -> SUBSET Listeners] /\ channel' \in Sets
    BY <1>1, <1>2
  <2>2. \A d \in Listeners : listener'[d].step # "off" => listener'[d].secret \in RolledSecrets
    BY <1>6, <1>7
  <2>3. subscribed' \in BOOLEAN
    BY <1>2, Zenon
  <2>4. relayTroubles' \in Nat
    <3>1. relayTroubles' \in {relayTroubles, relayTroubles + 1}
      BY <1>2, Zenon
    <3> QED
      BY <3>1
  <2> QED
    BY <1>2, <1>7, <2>1, <2>2, <2>3, <2>4
<1>9. HeardWithoutTrouble'
  <2>1. ASSUME relayTroubles' = 0
        PROVE  subscribed' /\ \A d \in Listeners : Heard(d)'
    <3>1. relayTroubles = 0 /\ subscribed'
      BY <1>2, <1>3, <2>1 DEF HeardWithoutTrouble
    <3>2. Heard(c)'
      BY <1>1, <1>2, <1>7 DEF Heard
    <3>3. ASSUME NEW d \in Listeners \ {c}
          PROVE  Heard(d)'
      BY <1>1, <1>2, <1>4, <1>6, <3>1 DEF Heard, HeardWithoutTrouble
    <3> QED
      BY <3>1, <3>2, <3>3
  <2> QED
    BY <2>1 DEF HeardWithoutTrouble
<1>10. KnownRecently'
  BY <1>2, <1>6, <1>7, KnownAsBefore DEF KnownRecently
<1> QED
  BY <1>8, <1>9, <1>10

\* Streams end, are swept, or all stop with the replica.
LEMMA LeavingStep ==
  ASSUME RelayInv, \/ RelayMessage \/ Heartbeat \/ RestartRelay
                   \/ \E c \in Listeners : LeaveStream(c) \/ WriteThrows(c)
  PROVE  RelayInv'
<1> USE RelayBounds DEF RelayInv, RelayTyped
<1>1. Disconnected \in Streams /\ Disconnected.step = "off" /\ Disconnected.stale = 0
  BY DEF Disconnected, Streams, StreamSteps
<1>2. /\ UNCHANGED <<endpointRow, stopped, authCache, today, endpointSaves>>
      /\ relayTroubles' \in {relayTroubles, relayTroubles + 1}
      /\ listener' \in [Listeners -> Streams]
      /\ \A c \in Listeners : listener'[c] \in {listener[c], Disconnected}
      /\ members' \in [Sets -> SUBSET Listeners] /\ channel' \in {channel, 0} /\ subscribed' \in BOOLEAN
  <2> DEFINE Ends ==
        /\ UNCHANGED <<endpointRow, stopped, authCache, today, endpointSaves>>
        /\ relayTroubles' \in {relayTroubles, relayTroubles + 1}
        /\ listener' \in [Listeners -> Streams]
        /\ \A c \in Listeners : listener'[c] \in {listener[c], Disconnected}
        /\ members' \in [Sets -> SUBSET Listeners] /\ channel' \in {channel, 0} /\ subscribed' \in BOOLEAN
  <2>1. ASSUME NEW set \in Sets, DropDead(set)
        PROVE  /\ listener' \in [Listeners -> Streams] /\ members' \in [Sets -> SUBSET Listeners]
               /\ \A c \in Listeners : listener'[c] \in {listener[c], Disconnected}
    BY <1>1, <2>1 DEF DropDead
  <2>2. CASE RelayMessage
    BY <2>1, <2>2 DEF RelayMessage, dayAndSaves
  <2>3. CASE Heartbeat
    BY <2>1, <2>3 DEF Heartbeat, dayAndSaves
  <2>4. CASE RestartRelay
    BY <1>1, <2>4 DEF RestartRelay, dayAndSaves
  <2>5. ASSUME NEW c \in Listeners, LeaveStream(c)
        PROVE  Ends
    BY <1>1, <2>5 DEF LeaveStream, dayAndSaves
  <2>6. ASSUME NEW c \in Listeners, WriteThrows(c)
        PROVE  Ends
    BY <2>6 DEF WriteThrows, dayAndSaves, RelayTrouble
  <2> QED
    BY <2>2, <2>3, <2>4, <2>5, <2>6
<1>3. RelayTyped'
  BY <1>1, <1>2
<1>4. KnownRecently'
  <2>1. \A c \in Listeners : /\ listener'[c].step = "store" => StaleDays(listener'[c].secret) = 0
                             /\ listener'[c].step = "admitted" => StaleDays(listener'[c].secret) <= 1
                             /\ listener'[c].stale <= 1
    BY <1>1, <1>2 DEF KnownRecently
  <2> QED
    BY <1>2, <2>1, KnownAsBefore
<1>5. ASSUME relayTroubles' = 0
      PROVE  (channel' # 0 => subscribed') /\ \A c \in Listeners : Heard(c)'
  <2> USE DEF HeardWithoutTrouble, Heard
  <2>1. relayTroubles = 0
    BY <1>2, <1>5
  <2>2. CASE RelayMessage
    BY <1>1, <2>1, <2>2 DEF RelayMessage, DropDead
  <2>3. CASE Heartbeat
    <3>1. \A c \in Listeners : listener'[c].step = "open" /\ listener'[c].alive =>
            listener'[c] = listener[c] /\ c \in members'[channel]
      BY <1>1, <2>1, <2>3 DEF Heartbeat, DropDead
    <3> QED
      BY <1>1, <2>1, <2>3, <3>1 DEF Heartbeat
  <2>4. CASE RestartRelay
    BY <1>1, <2>4 DEF RestartRelay
  <2>5. ASSUME NEW c \in Listeners, LeaveStream(c)
        PROVE  (channel' # 0 => subscribed') /\ \A d \in Listeners : Heard(d)'
    <3>1. listener[c].set = channel /\ channel \in Sets
      BY <2>1, <2>5 DEF LeaveStream
    <3>2. \A d \in Listeners : listener'[d].step = "open" /\ listener'[d].alive =>
            d # c /\ listener'[d] = listener[d] /\ d \in members'[channel]
      BY <1>1, <2>1, <2>5, <3>1 DEF LeaveStream
    <3> QED
      BY <2>1, <2>5, <3>1, <3>2 DEF LeaveStream
  <2>6. ASSUME NEW c \in Listeners, WriteThrows(c)
        PROVE  FALSE
    BY <1>5, <2>6, <2>1 DEF WriteThrows, RelayTrouble
  <2> QED
    BY <2>2, <2>3, <2>4, <2>5, <2>6
<1> QED
  BY <1>3, <1>4, <1>5 DEF HeardWithoutTrouble

\* The invariant of the relay.
LEMMA RelayInvariant == RelaySpec => []RelayInv
<1>1. RelayInit => RelayInv
  <2> SUFFICES ASSUME RelayInit
               PROVE  RelayInv
    OBVIOUS
  <2>1. Disconnected \in Streams /\ Disconnected.step = "off" /\ Disconnected.stale = 0
    BY DEF Disconnected, Streams, StreamSteps
  <2>2. 1 \in RolledSecrets /\ NotCached \in 0..NotCached /\ today = 0 /\ today \in 0..LastDay
        /\ endpointSaves \in 0..MaxSaves
    BY RelayBounds DEF RelayInit, RolledSecrets, NotCached
  <2>3. RelayTyped
    <3>1. /\ endpointRow \in [there : BOOLEAN, active : BOOLEAN, local : BOOLEAN, secret : RolledSecrets]
          /\ endpointRow.secret = 1 /\ endpointSaves = 0 /\ relayTroubles = 0
      BY <2>2 DEF RelayInit
    <3>2. stopped \in [RolledSecrets -> Nat] /\ authCache \in [RolledSecrets -> 0..NotCached]
      BY <2>2 DEF RelayInit
    <3>3. listener \in [Listeners -> Streams] /\ \A c \in Listeners : listener[c].step = "off"
      BY <2>1 DEF RelayInit
    <3>4. channel = 0 /\ members \in [Sets -> SUBSET Listeners] /\ subscribed \in BOOLEAN
      BY DEF RelayInit
    <3>5. endpointRow.secret <= endpointSaves + 1 /\ relayTroubles \in Nat
      BY <3>1
    <3> QED
      BY <2>2, <3>1, <3>2, <3>3, <3>4, <3>5 DEF RelayTyped
  <2>4. \A k \in RolledSecrets : StaleDays(k) = 0
    BY <2>2 DEF RelayInit, StaleDays
  <2>5. HeardWithoutTrouble
    BY <2>1 DEF RelayInit, HeardWithoutTrouble, Heard
  <2>6. KnownRecently
    BY <2>1, <2>2, <2>4 DEF RelayInit, KnownRecently
  <2> QED
    BY <2>3, <2>5, <2>6 DEF RelayInv
<1>2. RelayInv /\ [RelayNext]_relayVars => RelayInv'
  <2> SUFFICES ASSUME RelayInv, [RelayNext]_relayVars
               PROVE  RelayInv'
    OBVIOUS
  <2>1. CASE UNCHANGED relayVars
    BY <2>1 DEF relayVars, RelayInv, RelayTyped, HeardWithoutTrouble, Heard, KnownRecently, StaleDays, Good
  <2> QED
    BY <2>1, SaveRowStep, NextDayStep, AskingStep, JoinStep, LeavingStep DEF RelayNext
<1> QED
  BY <1>1, <1>2, PTL DEF RelaySpec

\* A day is none after the last one, and troubles are counted.
DaysBounded == stopped \in [RolledSecrets -> 0..LastDay] /\ relayTroubles \in 0..MaxRelayTroubles

\* Only a save of the endpoint writes a day, the one it is.
LEMMA DaysStep ==
  ASSUME RelayInv, DaysBounded, [RelayNext]_relayVars
  PROVE  DaysBounded'
<1>1. today \in 0..LastDay /\ stopped \in [RolledSecrets -> 0..LastDay]
  BY SMTT(30) DEF RelayInv, RelayTyped, DaysBounded
<1>2. relayTroubles' \in {relayTroubles, relayTroubles + 1}
      /\ (relayTroubles' # relayTroubles => relayTroubles < MaxRelayTroubles)
  BY ZenonT(30) DEF RelayNext, SaveRow, RelayMessage, Heartbeat, RestartRelay, NextDay, LookUp, StoreAuth, JoinChannel,
     LeaveStream, LeaveEarly, WriteThrows, AskForStream, relayVars, RelayTrouble
<1>3. stopped' \in [RolledSecrets -> 0..LastDay]
  <2>1. CASE SaveRow
    <3>1. PICK d : stopped' = [stopped EXCEPT ![endpointRow.secret] = d]
                   /\ d \in {today, stopped[endpointRow.secret]}
      BY <2>1, ZenonT(30) DEF SaveRow
    <3>2. d \in 0..LastDay
      BY <1>1, <3>1 DEF RelayInv, RelayTyped
    <3> QED
      BY <1>1, <3>1, <3>2
  <2>2. CASE ~SaveRow
    BY <1>1, <2>2, ZenonT(30) DEF RelayNext, RelayMessage, Heartbeat, RestartRelay, NextDay, LookUp, StoreAuth,
       JoinChannel, LeaveStream, LeaveEarly, WriteThrows, AskForStream, relayVars
  <2> QED
    BY <2>1, <2>2
<1> QED
  BY <1>2, <1>3, RelayBounds DEF DaysBounded

\* RelayTypeOK: however streams open, leave and break and the replica restarts, a
\* stream is in a set that there is, only streams are in the sets, and every
\* secret's check and switching-off has a day that there was.
THEOREM RelayTypes == RelaySpec => []RelayTypeOK
<1>1. RelayInit => DaysBounded
  BY RelayBounds DEF RelayInit, DaysBounded
<1>2. RelayInv /\ DaysBounded => RelayTypeOK
  BY DEF RelayInv, RelayTyped, DaysBounded, RelayTypeOK, Streams, StreamSteps
<1> QED
  BY <1>1, <1>2, RelayInvariant, DaysStep, PTL DEF RelaySpec

\* RelayServes: whoever has an open stream is heard unless a subscription failed or
\* a write threw, and a secret opens streams for the day its check is cached and
\* no longer, for any number of clients, days and changes.
THEOREM RelayHolds == RelaySpec => []RelayServes
<1>1. RelayInv => RelayServes
  BY DEF RelayInv, RelayTyped, HeardWithoutTrouble, Heard, KnownRecently, RelayServes, ListenersHear, AdmissionsRecent
<1> QED
  BY <1>1, RelayInvariant, PTL
-----------------------------------------------------------------------------
(* The AML check *)

CheckSteps == {"idle", "report", "token", "get", "saveToken", "scan", "saveReport", "answered", "failed"}
CachedTokens == [key : KeyPairs, got : HalfHours, until : 0..(LastTick + TOKEN_TTL)]
CachedReports == [risk : BOOLEAN, until : 0..(LastTick + REPORT_TTL)]
CheckRecords == [at : CheckSteps, network : Networks, key : KeyPairs, since : HalfHours, token : CachedTokens, risk : BOOLEAN]

CachesTyped ==
  /\ tick \in HalfHours /\ risky \in BOOLEAN /\ turned \in 0..tick
  /\ cachedToken \in CachedTokens /\ amlReports \in [Networks -> CachedReports]
  /\ turns \in 0..MaxTurns /\ noAnswers \in 0..MaxNoAnswers
ChecksTyped == checking \in [Checks -> CheckRecords]

\* A cached token was got within the check that saved it, and a cached report
\* that GoPlus no longer gives was given until it turned.
TokenAges == Cached(cachedToken) => tick < cachedToken.until /\ cachedToken.until <= cachedToken.got + TOKEN_TTL + 1
ReportAges(cached) ==
  Cached(cached) => /\ tick < cached.until /\ cached.until <= tick + REPORT_TTL
                    /\ cached.risk # risky => cached.until <= turned + REPORT_TTL + 1
CachesAge == TokenAges /\ \A n \in Networks : ReportAges(amlReports[n])

\* A check goes on for one tick at most, so what it asked for itself is as
\* old as that, and what it took from a cache as old as that and its time to live.
CheckAges(check) ==
  /\ check.at # "idle" => check.since <= tick /\ tick <= check.since + 1
  /\ check.at = "saveToken" => check.since <= check.token.got
  /\ check.at = "scan" => check.since <= check.token.got + TOKEN_TTL
  /\ check.at = "saveReport" /\ check.risk # risky => check.since <= turned
  /\ check.at = "answered" /\ check.risk # risky => check.since <= turned + REPORT_TTL
ChecksAge == \A c \in Checks : CheckAges(checking[c])

ScreeningInv == CachesTyped /\ ChecksTyped /\ CachesAge /\ ChecksAge

\* A step of one check, while time and GoPlus stand still.
LEMMA OneCheck ==
  ASSUME ChecksTyped, ChecksAge, UNCHANGED elsewhere, NEW c \in Checks, NEW check \in CheckRecords,
         CheckAges(check), checking' = [checking EXCEPT ![c] = check]
  PROVE  ChecksTyped' /\ ChecksAge'
<1>1. ChecksTyped'
  BY DEF ChecksTyped
<1>2. ASSUME NEW d \in Checks
      PROVE  CheckAges(checking[d])'
  <2>1. tick' = tick /\ risky' = risky /\ turned' = turned
    BY DEF elsewhere
  <2>2. CASE d = c
    <3>1. checking'[d] = check
      BY <2>2 DEF ChecksTyped
    <3> QED
      BY <2>1, <3>1 DEF CheckAges
  <2>3. CASE d # c
    <3>1. checking'[d] = checking[d]
      BY <2>3 DEF ChecksTyped
    <3> QED
      BY <2>1, <3>1 DEF CheckAges, ChecksAge
  <2> QED
    BY <2>2, <2>3
<1> QED
  BY <1>1, <1>2 DEF ChecksAge

\* Such a step that leaves the caches alone.
LEMMA CachesStay ==
  ASSUME CachesTyped, CachesAge, UNCHANGED <<elsewhere, cachedToken, amlReports>>, UNCHANGED noAnswers \/ NoAnswer
  PROVE  CachesTyped' /\ CachesAge'
<1>1. /\ tick' = tick /\ risky' = risky /\ turned' = turned /\ turns' = turns
      /\ cachedToken' = cachedToken /\ amlReports' = amlReports
  BY DEF elsewhere
<1>2. noAnswers' \in 0..MaxNoAnswers
  BY ScreeningBounds DEF NoAnswer, CachesTyped
<1>3. CachesTyped'
  BY <1>1, <1>2 DEF CachesTyped
<1>4. CachesAge'
  BY <1>1 DEF CachesAge, TokenAges, ReportAges, Cached
<1> QED
  BY <1>3, <1>4

\* The token and the check of the initial state.
LEMMA NothingYet == NoToken \in CachedTokens /\ NothingCached \in CachedReports /\ NotChecking \in CheckRecords /\ 0 \in HalfHours
<1>1. 0 \in HalfHours /\ 0 \in 0..(LastTick + TOKEN_TTL) /\ 0 \in 0..(LastTick + REPORT_TTL)
  BY ScreeningBounds DEF HalfHours
<1>2. NoToken \in CachedTokens /\ NothingCached \in CachedReports
  BY <1>1 DEF NoToken, CachedTokens, KeyPairs, NothingCached, CachedReports
<1> QED
  BY <1>1, <1>2 DEF NotChecking, CheckRecords, CheckSteps, Networks, KeyPairs

\* The steps of a check that write no cache.
LEMMA CheckStep ==
  ASSUME ScreeningInv, NEW c \in Checks,
         \/ ScreenSender(c) \/ ScreenPayer(c) \/ ReportHit(c) \/ ReportMiss(c) \/ TokenHit(c) \/ TokenMiss(c)
         \/ GetToken(c) \/ ScanAddress(c) \/ ScanRefused(c) \/ SaveLost(c) \/ GoPlusFails(c) \/ EndCheck(c)
  PROVE  ScreeningInv'
<1>0. CachesTyped /\ ChecksTyped /\ CachesAge /\ ChecksAge
  BY DEF ScreeningInv
<1>1. PICK old \in CheckRecords : old = checking[c]
  BY <1>0 DEF ChecksTyped
<1>2. CheckAges(old)
  BY <1>0, <1>1 DEF ChecksAge
<1>3. /\ old.since \in Nat /\ tick \in Nat /\ turned \in Nat /\ turned <= tick /\ tick \in HalfHours
      /\ TOKEN_TTL \in Nat /\ REPORT_TTL \in Nat /\ LastTick \in Nat
      /\ old.network \in Networks /\ old.key \in KeyPairs
  BY <1>0, ScreeningBounds DEF CachesTyped, CheckRecords, HalfHours
<1>4. SUFFICES ASSUME UNCHANGED <<elsewhere, cachedToken, amlReports>>, UNCHANGED noAnswers \/ NoAnswer
               PROVE  \E check \in CheckRecords : CheckAges(check) /\ checking' = [checking EXCEPT ![c] = check]
  <2>1. UNCHANGED <<elsewhere, cachedToken, amlReports>> /\ (UNCHANGED noAnswers \/ NoAnswer)
    BY DEF ScreenSender, ScreenPayer, BeginCheck, ReportHit, ReportMiss, TokenHit, TokenMiss, GetToken,
           ScanAddress, ScanRefused, SaveLost, GoPlusFails, EndCheck
  <2>2. CachesTyped' /\ CachesAge'
    BY <1>0, <2>1, CachesStay
  <2>3. UNCHANGED elsewhere
    BY <2>1
  <2> QED
    BY <1>0, <1>4, <2>1, <2>2, <2>3, OneCheck, SMTT(30) DEF ScreeningInv
<1>5. ASSUME NEW to \in CheckSteps, to \notin {"idle", "saveToken", "scan", "saveReport", "answered"},
             NEW from \in CheckSteps, from # "idle", GoesOn(c, from, to)
      PROVE  \E check \in CheckRecords : CheckAges(check) /\ checking' = [checking EXCEPT ![c] = check]
  <2>1. [old EXCEPT !.at = to] \in CheckRecords /\ old.at # "idle"
    BY <1>1, <1>5 DEF CheckRecords, GoesOn
  <2>2. CheckAges([old EXCEPT !.at = to])
    BY <1>2, <1>5, <2>1 DEF CheckAges, CheckRecords
  <2> QED
    BY <1>1, <1>5, <2>1, <2>2 DEF GoesOn
<1>6. ASSUME NEW custom \in AppKeys \cup {NoKeys}, NEW n \in Networks, BeginCheck(c, custom, n)
      PROVE  \E check \in CheckRecords : CheckAges(check) /\ checking' = [checking EXCEPT ![c] = check]
  <2>1. PICK key \in KeyPairs : key = CredentialsFor(custom)
    BY DEF CredentialsFor, KeyPairs
  <2>2. PICK network \in Networks : network = EffectiveChain(n)
    BY DEF EffectiveChain, Networks
  <2> DEFINE check == [NotChecking EXCEPT !.at = IF key = NoKeys THEN "failed" ELSE "report",
                                          !.key = key, !.network = network, !.since = tick]
  <2>3. checking' = [checking EXCEPT ![c] = check]
    BY <1>6, <2>1, <2>2 DEF BeginCheck
  <2>4. PICK start \in {"failed", "report"} : start = IF key = NoKeys THEN "failed" ELSE "report"
    OBVIOUS
  <2>5. /\ [NotChecking EXCEPT !.at = start, !.key = key, !.network = network, !.since = tick]
             \in [at : {"failed", "report"}, network : Networks, key : KeyPairs, since : {tick}, token : CachedTokens, risk : BOOLEAN]
    BY <1>3, <2>1, <2>2, <2>4, NothingYet DEF CheckRecords
  <2>6. check \in CheckRecords /\ CheckAges(check)
    BY <1>3, <2>4, <2>5 DEF CheckRecords, CheckSteps, CheckAges
  <2> QED
    BY <2>3, <2>6
<1>7. CASE ScreenSender(c) \/ ScreenPayer(c)
  BY <1>6, <1>7 DEF ScreenSender, ScreenPayer
<1>8. CASE ReportHit(c)
  <2>1. PICK cached \in CachedReports : cached = amlReports[old.network]
    BY <1>0, <1>3 DEF CachesTyped
  <2>2. /\ old.at = "report" /\ Cached(cached) /\ ReportAges(cached)
        /\ checking' = [checking EXCEPT ![c] = [old EXCEPT !.at = "answered", !.risk = cached.risk]]
    BY <1>0, <1>1, <1>3, <1>8, <2>1 DEF ReportHit, CachesAge
  <2>3. cached.until \in Nat /\ cached.risk \in BOOLEAN
    BY DEF CachedReports
  <2>4. cached.risk # risky => old.since <= turned + REPORT_TTL
    BY <1>2, <1>3, <2>2, <2>3 DEF ReportAges, CheckAges
  <2>5. [old EXCEPT !.at = "answered", !.risk = cached.risk] \in CheckRecords
    BY <2>3 DEF CheckRecords, CheckSteps
  <2>6. CheckAges([old EXCEPT !.at = "answered", !.risk = cached.risk])
    BY <1>2, <2>2, <2>4 DEF CheckAges, CheckRecords
  <2> QED
    BY <2>2, <2>5, <2>6
<1>9. CASE ReportMiss(c) \/ TokenMiss(c) \/ ScanRefused(c) \/ GoPlusFails(c)
  BY <1>5, <1>9 DEF ReportMiss, TokenMiss, ScanRefused, GoPlusFails, CheckSteps
<1>10. CASE TokenHit(c)
  <2>1. PICK token \in CachedTokens : token = cachedToken
    BY <1>0 DEF CachesTyped
  <2>2. /\ old.at = "token" /\ checking' = [checking EXCEPT ![c] = [old EXCEPT !.at = "scan", !.token = token]]
        /\ token.until # 0 /\ tick < token.until /\ token.until <= token.got + TOKEN_TTL + 1
    BY <1>0, <1>1, <1>10, <2>1 DEF TokenHit, CachesAge, TokenAges, Cached
  <2>3. token.until \in Nat /\ token.got \in Nat
    BY DEF CachedTokens, HalfHours
  <2>4. old.since <= token.got + TOKEN_TTL
    BY <1>2, <1>3, <2>2, <2>3 DEF CheckAges
  <2>5. [old EXCEPT !.at = "scan", !.token = token] \in CheckRecords
    BY DEF CheckRecords, CheckSteps
  <2>6. CheckAges([old EXCEPT !.at = "scan", !.token = token])
    BY <1>2, <2>2, <2>4 DEF CheckAges, CheckRecords
  <2> QED
    BY <2>2, <2>5, <2>6
<1>11. CASE GetToken(c)
  <2>1. PICK token \in CachedTokens : token = [key |-> old.key, got |-> tick, until |-> 0]
    <3>1. 0 \in 0..(LastTick + TOKEN_TTL)
      BY <1>3
    <3> QED
      BY <1>3, <3>1 DEF CachedTokens
  <2>2. old.at = "get" /\ checking' = [checking EXCEPT ![c] = [old EXCEPT !.at = "saveToken", !.token = token]]
    BY <1>1, <1>11, <2>1 DEF GetToken
  <2>3. [old EXCEPT !.at = "saveToken", !.token = token] \in CheckRecords
    BY DEF CheckRecords, CheckSteps
  <2>4. CheckAges([old EXCEPT !.at = "saveToken", !.token = token])
    BY <1>2, <2>1, <2>2 DEF CheckAges, CheckRecords
  <2> QED
    BY <2>2, <2>3, <2>4
<1>12. CASE ScanAddress(c)
  <2>1. old.at = "scan" /\ checking' = [checking EXCEPT ![c] = [old EXCEPT !.at = "saveReport", !.token = NoToken, !.risk = risky]]
    BY <1>1, <1>12 DEF ScanAddress
  <2>2. [old EXCEPT !.at = "saveReport", !.token = NoToken, !.risk = risky] \in CheckRecords
    BY <1>0, NothingYet DEF CheckRecords, CheckSteps, CachesTyped
  <2>3. CheckAges([old EXCEPT !.at = "saveReport", !.token = NoToken, !.risk = risky])
    BY <1>2, <2>1 DEF CheckAges, CheckRecords
  <2> QED
    BY <2>1, <2>2, <2>3
<1>13. CASE SaveLost(c)
  <2>1. CASE GoesOn(c, "saveToken", "scan")
    <3>1. [old EXCEPT !.at = "scan"] \in CheckRecords /\ old.at = "saveToken" /\ old.token.got \in Nat
      BY <1>1, <2>1 DEF CheckRecords, CheckSteps, GoesOn, CachedTokens, HalfHours
    <3>2. old.since <= old.token.got + TOKEN_TTL
      BY <1>2, <1>3, <3>1 DEF CheckAges
    <3>3. CheckAges([old EXCEPT !.at = "scan"])
      BY <1>2, <3>1, <3>2 DEF CheckAges, CheckRecords
    <3> QED
      BY <1>1, <2>1, <3>1, <3>3 DEF GoesOn
  <2>2. CASE GoesOn(c, "saveReport", "answered")
    <3>1. [old EXCEPT !.at = "answered"] \in CheckRecords /\ old.at = "saveReport"
      BY <1>1, <2>2 DEF CheckRecords, CheckSteps, GoesOn
    <3>2. old.risk # risky => old.since <= turned + REPORT_TTL
      BY <1>2, <1>3, <3>1 DEF CheckAges
    <3>3. CheckAges([old EXCEPT !.at = "answered"])
      BY <1>2, <3>1, <3>2 DEF CheckAges, CheckRecords
    <3> QED
      BY <1>1, <2>2, <3>1, <3>3 DEF GoesOn
  <2> QED
    BY <1>13, <2>1, <2>2 DEF SaveLost
<1>14. CASE EndCheck(c)
  <2>1. checking' = [checking EXCEPT ![c] = NotChecking] /\ NotChecking \in CheckRecords
    BY <1>14, NothingYet DEF EndCheck
  <2>2. CheckAges(NotChecking)
    BY DEF CheckAges, NotChecking
  <2> QED
    BY <2>1, <2>2
<1> QED
  BY <1>7, <1>8, <1>9, <1>10, <1>11, <1>12, <1>13, <1>14

\* The steps that write a cache.
LEMMA CacheWriteStep ==
  ASSUME ScreeningInv, NEW c \in Checks, SaveToken(c) \/ SaveReport(c)
  PROVE  ScreeningInv'
<1>0. CachesTyped /\ ChecksTyped /\ CachesAge /\ ChecksAge
  BY DEF ScreeningInv
<1>1. PICK old \in CheckRecords : old = checking[c]
  BY <1>0 DEF ChecksTyped
<1>2. CheckAges(old)
  BY <1>0, <1>1 DEF ChecksAge
<1>3. /\ old.since \in Nat /\ tick \in Nat /\ turned \in Nat /\ turned <= tick /\ tick <= LastTick
      /\ TOKEN_TTL \in Nat /\ TOKEN_TTL > 0 /\ REPORT_TTL \in Nat /\ REPORT_TTL > 0 /\ LastTick \in Nat
      /\ old.token \in CachedTokens /\ old.token.got \in Nat /\ old.network \in Networks /\ old.risk \in BOOLEAN
  BY <1>0, ScreeningBounds DEF CachesTyped, CheckRecords, HalfHours, CachedTokens
<1>4. CASE SaveToken(c)
  <2>1. PICK token \in CachedTokens : token = [old.token EXCEPT !.until = tick + TOKEN_TTL]
    <3>1. tick + TOKEN_TTL \in 0..(LastTick + TOKEN_TTL)
      BY <1>3
    <3> QED
      BY <1>3, <3>1 DEF CachedTokens
  <2>2. token.until = tick + TOKEN_TTL /\ token.got = old.token.got
    BY <1>3, <2>1 DEF CachedTokens
  <2>3. /\ old.at = "saveToken" /\ checking' = [checking EXCEPT ![c] = [old EXCEPT !.at = "scan"]]
        /\ cachedToken' = token /\ UNCHANGED elsewhere /\ amlReports' = amlReports /\ noAnswers' = noAnswers
    BY <1>1, <1>4, <2>1 DEF SaveToken, GoesOn
  <2>4. tick' = tick /\ risky' = risky /\ turned' = turned /\ turns' = turns
    BY <2>3 DEF elsewhere
  <2>5. CachesTyped'
    BY <1>0, <2>3, <2>4 DEF CachesTyped
  <2>6. CachesAge'
    <3>1. tick <= old.since + 1 /\ old.since <= old.token.got
      BY <1>2, <2>3 DEF CheckAges
    <3>2. tick < token.until /\ token.until <= token.got + TOKEN_TTL + 1
      BY <1>3, <2>2, <3>1
    <3>3. TokenAges'
      BY <2>3, <2>4, <3>2 DEF TokenAges
    <3>4. \A n \in Networks : ReportAges(amlReports[n])'
      BY <1>0, <2>3, <2>4 DEF CachesAge, ReportAges, Cached
    <3> QED
      BY <3>3, <3>4 DEF CachesAge
  <2>7. [old EXCEPT !.at = "scan"] \in CheckRecords
    BY DEF CheckRecords, CheckSteps
  <2>8. old.since <= old.token.got + TOKEN_TTL
    BY <1>2, <1>3, <2>3 DEF CheckAges
  <2>9. CheckAges([old EXCEPT !.at = "scan"])
    BY <1>2, <2>3, <2>8 DEF CheckAges, CheckRecords
  <2> QED
    BY <1>0, <2>3, <2>5, <2>6, <2>7, <2>9, OneCheck DEF ScreeningInv
<1>5. CASE SaveReport(c)
  <2>1. PICK cached \in CachedReports : cached = [risk |-> old.risk, until |-> tick + REPORT_TTL]
    <3>1. tick + REPORT_TTL \in 0..(LastTick + REPORT_TTL)
      BY <1>3
    <3> QED
      BY <1>3, <3>1 DEF CachedReports
  <2>2. /\ old.at = "saveReport" /\ checking' = [checking EXCEPT ![c] = [old EXCEPT !.at = "answered"]]
        /\ amlReports' = [amlReports EXCEPT ![old.network] = cached]
        /\ UNCHANGED elsewhere /\ cachedToken' = cachedToken /\ noAnswers' = noAnswers
    BY <1>1, <1>5, <2>1 DEF SaveReport, GoesOn
  <2>3. tick' = tick /\ risky' = risky /\ turned' = turned /\ turns' = turns
    BY <2>2 DEF elsewhere
  <2>4. CachesTyped'
    BY <1>0, <2>2, <2>3 DEF CachesTyped
  <2>5. CachesAge'
    <3>1. tick <= old.since + 1 /\ (old.risk # risky => old.since <= turned)
      BY <1>2, <2>2 DEF CheckAges
    <3>2. /\ tick < tick + REPORT_TTL
          /\ old.risk # risky => tick + REPORT_TTL <= turned + REPORT_TTL + 1
      BY <1>3, <3>1
    <3>3. ReportAges(cached)
      BY <1>3, <2>1, <3>2 DEF ReportAges
    <3>4. ASSUME NEW n \in Networks
          PROVE  ReportAges(amlReports[n])'
      <4>1. amlReports'[n] = cached \/ amlReports'[n] = amlReports[n]
        BY <1>0, <2>2 DEF CachesTyped
      <4> QED
        BY <1>0, <2>3, <3>3, <4>1 DEF CachesAge, ReportAges, Cached
    <3>5. TokenAges'
      BY <1>0, <2>2, <2>3 DEF CachesAge, TokenAges, Cached
    <3> QED
      BY <3>4, <3>5 DEF CachesAge
  <2>6. [old EXCEPT !.at = "answered"] \in CheckRecords
    BY DEF CheckRecords, CheckSteps
  <2>7. old.risk # risky => old.since <= turned + REPORT_TTL
    BY <1>2, <1>3, <2>2 DEF CheckAges
  <2>8. CheckAges([old EXCEPT !.at = "answered"])
    BY <1>2, <2>2, <2>7 DEF CheckAges, CheckRecords
  <2> QED
    BY <1>0, <2>2, <2>4, <2>5, <2>6, <2>8, OneCheck DEF ScreeningInv
<1> QED
  BY <1>4, <1>5

\* Time passes while no check is a tick old, and drops what has expired.
LEMMA TimeStep ==
  ASSUME ScreeningInv, HalfHourPasses
  PROVE  ScreeningInv'
<1>0. CachesTyped /\ ChecksTyped /\ CachesAge /\ ChecksAge
  BY DEF ScreeningInv
<1>1. /\ tick' = tick + 1 /\ tick < LastTick /\ checking' = checking /\ risky' = risky /\ turned' = turned
      /\ turns' = turns /\ noAnswers' = noAnswers
      /\ cachedToken' = IF cachedToken.until = tick' THEN NoToken ELSE cachedToken
      /\ amlReports' = [n \in Networks |-> IF amlReports[n].until = tick' THEN NothingCached ELSE amlReports[n]]
  BY DEF HalfHourPasses
<1>2. /\ tick \in Nat /\ turned \in 0..tick /\ tick' \in HalfHours /\ turned' \in 0..tick'
      /\ TOKEN_TTL \in Nat /\ REPORT_TTL \in Nat
  BY <1>0, <1>1, ScreeningBounds DEF CachesTyped, HalfHours
<1>3. CachesTyped'
  BY <1>0, <1>1, <1>2, NothingYet DEF CachesTyped
<1>4. CachesAge'
  <2>1. TokenAges'
    <3>1. CASE cachedToken' = NoToken
      BY <3>1 DEF TokenAges, Cached, NoToken
    <3>2. CASE cachedToken' = cachedToken /\ cachedToken.until # tick'
      <4>1. cachedToken.until \in Nat
        BY <1>0 DEF CachesTyped, CachedTokens
      <4> QED
        BY <1>0, <1>1, <1>2, <3>2, <4>1 DEF CachesAge, TokenAges, Cached
    <3> QED
      BY <1>1, <3>1, <3>2
  <2>2. ASSUME NEW n \in Networks
        PROVE  ReportAges(amlReports[n])'
    <3>1. PICK cached \in CachedReports : cached = amlReports[n]
      BY <1>0 DEF CachesTyped
    <3>2. cached.until \in Nat /\ ReportAges(cached)
      BY <1>0, <3>1 DEF CachedReports, CachesAge
    <3>3. CASE amlReports'[n] = NothingCached
      BY <3>3 DEF ReportAges, Cached, NothingCached
    <3>4. CASE amlReports'[n] = cached /\ cached.until # tick'
      <4>1. CASE cached.until = 0
        BY <3>4, <4>1 DEF ReportAges, Cached
      <4>2. CASE cached.until # 0
        <5>1. /\ tick < cached.until /\ cached.until <= tick + REPORT_TTL
              /\ cached.risk # risky => cached.until <= turned + REPORT_TTL + 1
          BY <3>2, <4>2 DEF ReportAges, Cached
        <5>2. tick' < cached.until /\ cached.until <= tick' + REPORT_TTL
          BY <1>1, <1>2, <3>2, <3>4, <5>1
        <5> QED
          BY <1>1, <3>4, <5>1, <5>2 DEF ReportAges
      <4> QED
        BY <4>1, <4>2
    <3> QED
      BY <1>1, <3>1, <3>3, <3>4
  <2> QED
    BY <2>1, <2>2 DEF CachesAge
<1>5. ChecksTyped'
  BY <1>0, <1>1 DEF ChecksTyped
<1>6. ChecksAge'
  <2>1. ASSUME NEW c \in Checks
        PROVE  CheckAges(checking[c])'
    <3>1. PICK check \in CheckRecords : check = checking[c]
      BY <1>0 DEF ChecksTyped
    <3>2. CheckAges(check) /\ (check.at = "idle" \/ check.since = tick) /\ check.since \in Nat
      BY <1>0, <3>1 DEF ChecksAge, HalfHourPasses, CheckRecords, HalfHours
    <3>3. check.at # "idle" => check.since <= tick' /\ tick' <= check.since + 1
      BY <1>1, <1>2, <3>2
    <3> QED
      BY <1>1, <3>1, <3>2, <3>3 DEF CheckAges
  <2> QED
    BY <2>1 DEF ChecksAge
<1> QED
  BY <1>3, <1>4, <1>5, <1>6 DEF ScreeningInv

\* GoPlus changes what it says: what was true till now turns now.
LEMMA TurnStep ==
  ASSUME ScreeningInv, Turn
  PROVE  ScreeningInv'
<1>0. CachesTyped /\ ChecksTyped /\ CachesAge /\ ChecksAge
  BY DEF ScreeningInv
<1>1. /\ turns' = turns + 1 /\ turns < MaxTurns /\ risky' = ~risky /\ turned' = tick /\ tick' = tick
      /\ cachedToken' = cachedToken /\ amlReports' = amlReports /\ checking' = checking /\ noAnswers' = noAnswers
  BY DEF Turn
<1>2. tick \in Nat /\ turned' \in 0..tick' /\ turns' \in 0..MaxTurns /\ REPORT_TTL \in Nat /\ risky' \in BOOLEAN
  BY <1>0, <1>1, ScreeningBounds DEF CachesTyped, HalfHours
<1>3. CachesTyped'
  BY <1>0, <1>1, <1>2 DEF CachesTyped
<1>4. CachesAge'
  <2>1. TokenAges'
    BY <1>0, <1>1 DEF CachesAge, TokenAges, Cached
  <2>2. ASSUME NEW n \in Networks
        PROVE  ReportAges(amlReports[n])'
    <3>1. PICK cached \in CachedReports : cached = amlReports[n]
      BY <1>0 DEF CachesTyped
    <3>2. cached.until \in Nat /\ ReportAges(cached)
      BY <1>0, <3>1 DEF CachedReports, CachesAge
    <3>3. cached.until <= tick + REPORT_TTL => cached.until <= turned' + REPORT_TTL + 1
      BY <1>1, <1>2, <3>2
    <3> QED
      BY <1>1, <3>1, <3>2, <3>3 DEF ReportAges, Cached
  <2> QED
    BY <2>1, <2>2 DEF CachesAge
<1>5. ChecksTyped'
  BY <1>0, <1>1 DEF ChecksTyped
<1>6. ChecksAge'
  <2>1. ASSUME NEW c \in Checks
        PROVE  CheckAges(checking[c])'
    <3>1. PICK check \in CheckRecords : check = checking[c]
      BY <1>0 DEF ChecksTyped
    <3>2. CheckAges(check) /\ check.since \in Nat
      BY <1>0, <3>1 DEF ChecksAge, CheckRecords, HalfHours
    <3>3. check.at # "idle" => check.since <= turned' /\ check.since <= turned' + REPORT_TTL
      BY <1>1, <1>2, <3>2 DEF CheckAges
    <3> QED
      BY <1>1, <3>1, <3>2, <3>3 DEF CheckAges
  <2> QED
    BY <2>1 DEF ChecksAge
<1> QED
  BY <1>3, <1>4, <1>5, <1>6 DEF ScreeningInv

\* Nothing is cached and nobody checks at first.
LEMMA ScreeningInvInit == ScreeningInit => ScreeningInv
<1> SUFFICES ASSUME ScreeningInit
             PROVE  ScreeningInv
  OBVIOUS
<1>1. CachesTyped
  <2>1. 0 \in 0..MaxTurns /\ 0 \in 0..MaxNoAnswers /\ 0 \in 0..0
    BY ScreeningBounds
  <2> QED
    BY <2>1, NothingYet DEF ScreeningInit, CachesTyped
<1>2. ChecksTyped
  BY NothingYet DEF ScreeningInit, ChecksTyped
<1>3. CachesAge
  BY DEF ScreeningInit, CachesAge, TokenAges, ReportAges, Cached, NoToken, NothingCached
<1>4. ChecksAge
  BY DEF ScreeningInit, ChecksAge, CheckAges, NotChecking
<1> QED
  BY <1>1, <1>2, <1>3, <1>4 DEF ScreeningInv

\* Any step of the checks, of time and of GoPlus.
LEMMA ScreeningInvStep == ScreeningInv /\ [ScreeningNext]_screeningVars => ScreeningInv'
<1> SUFFICES ASSUME ScreeningInv, [ScreeningNext]_screeningVars
             PROVE  ScreeningInv'
  OBVIOUS
<1>1. ASSUME NEW c \in Checks,
             \/ ScreenSender(c) \/ ScreenPayer(c) \/ ReportHit(c) \/ ReportMiss(c) \/ TokenHit(c) \/ TokenMiss(c)
             \/ GetToken(c) \/ ScanAddress(c) \/ ScanRefused(c) \/ SaveLost(c) \/ GoPlusFails(c) \/ EndCheck(c)
      PROVE  ScreeningInv'
  BY <1>1, CheckStep
<1>2. ASSUME NEW c \in Checks, SaveToken(c) \/ SaveReport(c)
      PROVE  ScreeningInv'
  BY <1>2, CacheWriteStep
<1>3. CASE HalfHourPasses
  BY <1>3, TimeStep
<1>4. CASE Turn
  BY <1>4, TurnStep
<1>5. CASE UNCHANGED screeningVars
  BY <1>5 DEF screeningVars, ScreeningInv, CachesTyped, ChecksTyped, CachesAge, TokenAges, ReportAges, Cached, ChecksAge, CheckAges
<1> QED
  BY <1>1, <1>2, <1>3, <1>4, <1>5 DEF ScreeningNext

\* ScreeningTypeOK: the caches and the checks keep their form.
THEOREM ScreeningTypes == ScreeningSpec => []ScreeningTypeOK
<1>1. ScreeningInv => ScreeningTypeOK
  <2> SUFFICES ASSUME ScreeningInv
               PROVE  ScreeningTypeOK
    OBVIOUS
  <2>1. turned \in HalfHours
    BY ScreeningBounds DEF ScreeningInv, CachesTyped, HalfHours
  <2>2. ASSUME NEW c \in Checks
        PROVE  checking[c] \in CheckRecords
    BY DEF ScreeningInv, ChecksTyped
  <2> QED
    BY <2>1, <2>2 DEF ScreeningInv, CachesTyped, ScreeningTypeOK, CheckRecords, CheckSteps, CachedTokens, CachedReports
<1> QED
  BY <1>1, ScreeningInvInit, ScreeningInvStep, PTL DEF ScreeningSpec

\* VerdictsAreRecent: a verdict that GoPlus no longer gives is answered for the
\* report's time to live and one tick at most after it changed, and no check
\* goes with a token older than the token's time to live and one tick.
THEOREM VerdictsHold == ScreeningSpec => []VerdictsAreRecent
<1>1. ScreeningInv => VerdictsAreRecent
  <2> SUFFICES ASSUME ScreeningInv, NEW c \in Checks
               PROVE  /\ checking[c].at = "answered" /\ checking[c].risk # risky => tick <= turned + REPORT_TTL + 1
                      /\ checking[c].at = "scan" => tick <= checking[c].token.got + TOKEN_TTL + 1
    BY DEF VerdictsAreRecent
  <2>1. PICK check \in CheckRecords : check = checking[c]
    BY DEF ScreeningInv, ChecksTyped
  <2>2. /\ check.since \in Nat /\ check.token.got \in Nat /\ tick \in Nat /\ turned \in Nat
        /\ TOKEN_TTL \in Nat /\ REPORT_TTL \in Nat
    BY ScreeningBounds DEF ScreeningInv, CachesTyped, CheckRecords, CachedTokens, HalfHours
  <2>3. CheckAges(check)
    BY <2>1 DEF ScreeningInv, ChecksAge
  <2> QED
    BY <2>1, <2>2, <2>3 DEF CheckAges
<1> QED
  BY <1>1, ScreeningInvInit, ScreeningInvStep, PTL DEF ScreeningSpec
-----------------------------------------------------------------------------
(* The monthly partitions *)

\* What a run may have to do: the three months of it, or expired ones.
JobTyped ==
  \/ job = NoJob
  \/ job \in [task : {"ensure"}, todo : Seq(Tables \X (month..(month + 2))), complete : BOOLEAN]
  \/ job \in [task : {"drop"}, todo : Seq({m \in Months : Expired(m)}), complete : BOOLEAN]

\* What is still to do, or else it is done already: of a run that makes partitions,
EnsureIsThorough ==
  job.task = "ensure" /\ job.complete =>
    \A t \in Tables, m \in month..(month + 2) : m \in attached[t] \/ \E i \in 1..Len(job.todo) : job.todo[i] = <<t, m>>
\* and of one that drops them.
DropIsThorough ==
  job.task = "drop" /\ job.complete =>
    \A m \in attached[Logs] : Expired(m) => \E i \in 1..Len(job.todo) : job.todo[i] = m

\* A table that is no partition any more has expired: its name is in nobody's way.
DetachedExpired == \A m \in detached : Expired(m)

\* What was made is there for two months, from now on; what was dropped is gone.
EnsuredStay ==
  ensuredIn # Never =>
    ensuredIn <= month /\ \A t \in Tables, m \in month..(ensuredIn + 2) : m \in attached[t]
DroppedAreGone ==
  droppedIn # Never =>
    droppedIn <= month /\ (droppedIn = month => \A m \in attached[Logs] : ~Expired(m))

PartitionInv ==
  /\ PartitionTypeOK /\ JobTyped /\ EnsureIsThorough /\ DropIsThorough
  /\ DetachedExpired /\ EnsuredStay /\ DroppedAreGone

\* A statement that is done is taken off the head of what is to do.
LEMMA TakenOff ==
  ASSUME NEW S, NEW s \in Seq(S), s # <<>>
  PROVE  /\ Head(s) \in S /\ Tail(s) \in Seq(S)
         /\ \A i \in 1..Len(s) : s[i] = Head(s) \/ \E k \in 1..Len(Tail(s)) : Tail(s)[k] = s[i]
<1>1. /\ Head(s) \in S /\ Tail(s) \in Seq(S) /\ Len(Tail(s)) = Len(s) - 1
      /\ \A i \in 1..Len(Tail(s)) : Tail(s)[i] = s[i + 1]
  BY HeadTailProperties
<1>2. Len(s) \in Nat
  OBVIOUS
<1>3. ASSUME NEW i \in 1..Len(s)
      PROVE  s[i] = Head(s) \/ \E k \in 1..Len(Tail(s)) : Tail(s)[k] = s[i]
  <2>1. CASE i = 1
    BY <2>1
  <2>2. CASE i # 1
    <3>1. i - 1 \in 1..Len(Tail(s)) /\ (i - 1) + 1 = i
      BY <1>1, <1>2, <2>2
    <3>2. Tail(s)[i - 1] = s[i]
      BY <1>1, <3>1
    <3> QED
      BY <3>1, <3>2
  <2> QED
    BY <2>1, <2>2
<1> QED
  BY <1>1, <1>3

\* SetToSeq lists every element of a finite set.
LEMMA SetListed ==
  ASSUME NEW S, IsFiniteSet(S)
  PROVE  /\ SetToSeq(S) \in Seq(S)
         /\ \A x \in S : \E i \in 1..Len(SetToSeq(S)) : SetToSeq(S)[i] = x
<1> DEFINE n == Cardinality(S)
<1>1. n \in Nat /\ ExistsBijection(1..n, S)
  BY FS_CardinalityType
<1>2. PICK f \in [1..n -> S] : IsInjective(f)
  BY <1>1 DEF ExistsBijection, Bijection, Injection, IsInjective
<1>3. SetToSeq(S) \in [1..n -> S] /\ IsInjective(SetToSeq(S))
  <2>1. \E g \in [1..n -> S] : IsInjective(g)
    BY <1>2
  <2> QED
    BY <2>1 DEF SetToSeq
<1> DEFINE g == SetToSeq(S)
<1>4. g \in Injection(1..n, S)
  BY <1>3 DEF Injection
<1>5. Cardinality(1..n) = n
  BY <1>1, FS_Interval
<1>6. g \in Surjection(1..n, S)
  BY <1>4, <1>5, FS_Injection
<1>7. g \in Seq(S) /\ Len(g) = n
  BY <1>1, <1>3
<1> QED
  BY <1>6, <1>7 DEF Surjection

\* What has expired is behind the three months that are made.
LEMMA ExpiredIsPast ==
  ASSUME PartitionTypeOK
  PROVE  /\ month \in Nat /\ KeepMonths \in Nat \ {0} /\ LastMonth \in Nat /\ month <= LastMonth
         /\ month..(month + 2) \subseteq Months
         /\ \A m \in Months : m \in Int /\ (Expired(m) => m < month)
BY PartitionAssumption DEF PartitionTypeOK, Months, Expired

\* Nothing is attached, and no run has begun.
LEMMA PartitionStart == PartitionInit => PartitionInv
BY PartitionAssumption DEF PartitionInit, PartitionInv, PartitionTypeOK, JobTyped, EnsureIsThorough, DropIsThorough,
   DetachedExpired, EnsuredStay, DroppedAreGone, NoJob, Tables, Logs

\* The invariant gives what the service counts on.
LEMMA InvariantInTime == PartitionInv => PartitionsInTime
BY PartitionAssumption DEF PartitionInv, PartitionTypeOK, EnsuredStay, DroppedAreGone, PartitionsInTime

\* A month begins between two runs.
LEMMA MonthPasses ==
  ASSUME PartitionInv, NextMonth
  PROVE  PartitionInv'
<1>1. job = NoJob /\ job' = NoJob /\ month' = month + 1 /\ month < LastMonth
      /\ attached' = attached /\ detached' = detached /\ ensuredIn' = ensuredIn /\ droppedIn' = droppedIn
  BY DEF NextMonth, tables, done
<1>2. month \in Nat /\ KeepMonths \in Nat \ {0} /\ LastMonth \in Nat
  BY ExpiredIsPast DEF PartitionInv
<1>3. PartitionTypeOK'
  BY <1>1, <1>2 DEF PartitionInv, PartitionTypeOK
<1>4. JobTyped' /\ EnsureIsThorough' /\ DropIsThorough'
  BY <1>1 DEF NoJob, JobTyped, EnsureIsThorough, DropIsThorough
<1>5. DetachedExpired'
  BY <1>1, <1>2 DEF PartitionInv, PartitionTypeOK, DetachedExpired, Expired, Months
<1>6. EnsuredStay'
  BY <1>1, <1>2, PartitionAssumption DEF PartitionInv, PartitionTypeOK, EnsuredStay
<1>7. DroppedAreGone'
  BY <1>1, <1>2, PartitionAssumption DEF PartitionInv, PartitionTypeOK, DroppedAreGone
<1> QED
  BY <1>3, <1>4, <1>5, <1>6, <1>7 DEF PartitionInv

\* A run lists both tables in each of the three months.
LEMMA EnsureBegins ==
  ASSUME PartitionInv, Ensure
  PROVE  PartitionInv'
<1> DEFINE months == <<month, month + 1, month + 2>>
           three == month..(month + 2)
           todo == InMonths(months)
<1>1. /\ job = NoJob /\ job' = [task |-> "ensure", todo |-> todo, complete |-> TRUE]
      /\ month' = month /\ attached' = attached /\ detached' = detached
      /\ ensuredIn' = ensuredIn /\ droppedIn' = droppedIn
  BY DEF Ensure, Begins, NoJob, tables, done
<1>2. month \in Nat
  BY ExpiredIsPast DEF PartitionInv
<1> DEFINE first == [i \in 1..Len(months) |-> <<"transactions", months[i]>>]
           second == [i \in 1..Len(months) |-> <<Logs, months[i]>>]
<1>3. Len(months) = 3 /\ months[1] = month /\ months[2] = month + 1 /\ months[3] = month + 2
  OBVIOUS
<1>4. \A i \in 1..3 : months[i] \in three
  BY <1>2, <1>3
<1>5. first \in Seq(Tables \X three) /\ second \in Seq(Tables \X three) /\ Len(first) = 3 /\ Len(second) = 3
  BY <1>3, <1>4 DEF Tables
<1>6. /\ todo \in Seq(Tables \X three) /\ Len(todo) = 6
      /\ \A i \in 1..3 : todo[i] = <<"transactions", months[i]>> /\ todo[i + 3] = <<Logs, months[i]>>
  <2>1. todo = first \o second
    BY DEF InMonths
  <2> DEFINE Statement == Tables \X three
  <2> HIDE DEF first, second, todo, Statement
  <2>2. first \in Seq(Statement) /\ second \in Seq(Statement) /\ Len(first) = 3 /\ Len(second) = 3
    BY <1>5 DEF Statement
  <2>3. /\ first \o second \in Seq(Statement) /\ Len(first \o second) = Len(first) + Len(second)
        /\ \A i \in 1..(Len(first) + Len(second)) :
             (first \o second)[i] = IF i <= Len(first) THEN first[i] ELSE second[i - Len(first)]
    BY <2>2, ConcatProperties
  <2>4. todo \in Seq(Statement) /\ Len(todo) = 6
    BY <2>2, <2>3, <2>1
  <2>5. \A i \in 1..3 : todo[i] = first[i] /\ todo[i + 3] = second[i]
    BY <2>2, <2>3, <2>1
  <2> QED
    BY <2>4, <2>5, <1>3 DEF first, second, Statement
<1>7. \A t \in Tables, m \in three : \E i \in 1..6 : todo[i] = <<t, m>>
  <2> SUFFICES ASSUME NEW t \in Tables, NEW m \in three
               PROVE  \E i \in 1..6 : todo[i] = <<t, m>>
    OBVIOUS
  <2> HIDE DEF todo, months
  <2>1. PICK i \in 1..3 : months[i] = m
    BY <1>2, <1>3
  <2>2. CASE t = "transactions"
    BY <1>6, <2>1, <2>2
  <2>3. CASE t = Logs
    BY <1>6, <2>1, <2>3
  <2> QED
    BY <2>2, <2>3 DEF Tables
<1> HIDE DEF todo, months
<1>8. JobTyped'
  BY <1>1, <1>6 DEF JobTyped
<1>9. EnsureIsThorough'
  <2>1. month' = month /\ job'.todo = todo /\ Len(job'.todo) = 6
    BY <1>1, <1>6
  <2> QED
    BY <1>7, <2>1 DEF EnsureIsThorough
<1> QED
  BY <1>1, <1>8, <1>9 DEF PartitionInv, PartitionTypeOK, DropIsThorough, DetachedExpired, EnsuredStay,
     DroppedAreGone, Expired

\* A run lists the partitions that have expired.
LEMMA DropBegins ==
  ASSUME PartitionInv, DropExpired
  PROVE  PartitionInv'
<1> DEFINE expired == {m \in attached[Logs] : Expired(m)}
           todo == SetToSeq(expired)
<1>1. /\ job = NoJob /\ job' = [task |-> "drop", todo |-> todo, complete |-> TRUE]
      /\ month' = month /\ attached' = attached /\ detached' = detached
      /\ ensuredIn' = ensuredIn /\ droppedIn' = droppedIn
  BY DEF DropExpired, Begins, NoJob, tables, done
<1>2. IsFiniteSet(Months)
  BY FS_Interval, PartitionAssumption DEF Months
<1>3. expired \in SUBSET {m \in Months : Expired(m)} /\ expired \in SUBSET Months
  BY DEF PartitionInv, PartitionTypeOK, Tables
<1>4. IsFiniteSet(expired)
  BY <1>2, <1>3, FS_Subset
<1>5. todo \in Seq(expired) /\ \A x \in expired : \E i \in 1..Len(todo) : todo[i] = x
  BY <1>4, SetListed
<1> HIDE DEF todo
<1>6. todo \in Seq({m \in Months : Expired(m)})
  BY <1>3, <1>5
<1>7. JobTyped'
  BY <1>1, <1>6 DEF JobTyped, Expired
<1>8. DropIsThorough'
  BY <1>1, <1>5 DEF DropIsThorough, Expired
<1> QED
  BY <1>1, <1>7, <1>8 DEF PartitionInv, PartitionTypeOK, EnsureIsThorough, DetachedExpired, EnsuredStay,
     DroppedAreGone, Expired

\* CREATE TABLE, for the head of the list.
LEMMA PartitionCreated ==
  ASSUME PartitionInv, CreatePartition
  PROVE  PartitionInv'
<1>1. /\ job.task = "ensure" /\ job.todo # <<>> /\ job' = [job EXCEPT !.todo = Tail(@)]
      /\ month' = month /\ detached' = detached /\ ensuredIn' = ensuredIn /\ droppedIn' = droppedIn
      /\ Create(Head(job.todo)[1], Head(job.todo)[2])
  BY DEF CreatePartition, Does, done
<1> DEFINE three == month..(month + 2)
           t == Head(job.todo)[1]
           m == Head(job.todo)[2]
<1>2. job \in [task : {"ensure"}, todo : Seq(Tables \X three), complete : BOOLEAN]
  BY <1>1 DEF PartitionInv, JobTyped, NoJob
<1>3. /\ month \in Nat /\ KeepMonths \in Nat \ {0} /\ three \subseteq Months
      /\ \A n \in Months : n \in Int /\ (Expired(n) => n < month)
  BY ExpiredIsPast DEF PartitionInv
<1>4. /\ Head(job.todo) \in Tables \X three /\ Tail(job.todo) \in Seq(Tables \X three)
      /\ \A i \in 1..Len(job.todo) :
           job.todo[i] = Head(job.todo) \/ \E k \in 1..Len(Tail(job.todo)) : Tail(job.todo)[k] = job.todo[i]
  BY <1>1, <1>2, TakenOff
<1>5. t \in Tables /\ m \in three /\ Head(job.todo) = <<t, m>>
  BY <1>4
<1> HIDE DEF t, m
<1>6. m \notin detached /\ ~Expired(m)
  BY <1>3, <1>5 DEF PartitionInv, DetachedExpired, PartitionTypeOK
<1>7. attached' = [attached EXCEPT ![t] = @ \cup {m}]
  BY <1>1, <1>6 DEF Create, t, m
<1>8. /\ attached' \in [Tables -> SUBSET Months] /\ m \in attached'[t]
      /\ \A u \in Tables : attached[u] \subseteq attached'[u] /\ attached'[u] \subseteq attached[u] \cup {m}
  BY <1>3, <1>5, <1>7 DEF PartitionInv, PartitionTypeOK
<1>9. job' = [task |-> "ensure", todo |-> Tail(job.todo), complete |-> job.complete]
  BY <1>1, <1>2
<1>10. PartitionTypeOK'
  BY <1>1, <1>8 DEF PartitionInv, PartitionTypeOK
<1>11. JobTyped' /\ DropIsThorough'
  BY <1>1, <1>2, <1>4, <1>9 DEF JobTyped, DropIsThorough
<1>12. EnsureIsThorough'
  <2> SUFFICES ASSUME job.complete, NEW u \in Tables, NEW n \in three, n \notin attached'[u]
               PROVE  \E k \in 1..Len(Tail(job.todo)) : Tail(job.todo)[k] = <<u, n>>
    <3>1. job'.todo = Tail(job.todo) /\ job'.complete = job.complete
      BY <1>9
    <3> HIDE DEF three
    <3>2. (month..(month + 2))' = three
      BY <1>1 DEF three
    <3> QED
      BY <3>1, <3>2 DEF EnsureIsThorough
  <2>1. PICK i \in 1..Len(job.todo) : job.todo[i] = <<u, n>>
    BY <1>1, <1>8 DEF PartitionInv, EnsureIsThorough
  <2>2. <<u, n>> # Head(job.todo)
    BY <1>5, <1>8
  <2> QED
    BY <1>4, <2>1, <2>2
<1>13. DetachedExpired'
  BY <1>1 DEF PartitionInv, DetachedExpired, Expired
<1>14. EnsuredStay'
  BY <1>1, <1>8 DEF PartitionInv, EnsuredStay
<1>15. DroppedAreGone'
  BY <1>1, <1>6, <1>8 DEF PartitionInv, DroppedAreGone, Expired, Tables
<1> QED
  BY <1>10, <1>11, <1>12, <1>13, <1>14, <1>15 DEF PartitionInv

\* DETACH and DROP, for the head of the list; the DROP may fail.
LEMMA PartitionDropped ==
  ASSUME PartitionInv, NEW dropped \in BOOLEAN, DropPartition(dropped)
  PROVE  PartitionInv'
<1> DEFINE m == Head(job.todo)
           Expiring == {n \in Months : Expired(n)}
<1>1. /\ job.task = "drop" /\ job.todo # <<>> /\ job' = [job EXCEPT !.todo = Tail(@)]
      /\ month' = month /\ ensuredIn' = ensuredIn /\ droppedIn' = droppedIn
      /\ attached' = [attached EXCEPT ![Logs] = @ \ {m}]
      /\ detached' \subseteq detached \cup {m}
  BY DEF DropPartition, Does, done
<1>2. job \in [task : {"drop"}, todo : Seq(Expiring), complete : BOOLEAN]
  BY <1>1 DEF PartitionInv, JobTyped, NoJob
<1>3. /\ m \in Expiring /\ Tail(job.todo) \in Seq(Expiring)
      /\ \A i \in 1..Len(job.todo) :
           job.todo[i] = m \/ \E k \in 1..Len(Tail(job.todo)) : Tail(job.todo)[k] = job.todo[i]
  BY <1>1, <1>2, TakenOff
<1> HIDE DEF m
<1>4. month \in Nat /\ m < month /\ m \in Int /\ \A n \in Months : n \in Int
  BY <1>3, ExpiredIsPast DEF PartitionInv
<1>5. /\ attached' \in [Tables -> SUBSET Months] /\ attached'[Logs] = attached[Logs] \ {m}
      /\ \A u \in Tables : attached[u] \ {m} \subseteq attached'[u] /\ attached'[u] \subseteq attached[u]
  BY <1>1 DEF PartitionInv, PartitionTypeOK, Tables
<1>6. job' = [task |-> "drop", todo |-> Tail(job.todo), complete |-> job.complete]
  BY <1>1, <1>2
<1>7. PartitionTypeOK'
  BY <1>1, <1>3, <1>5 DEF PartitionInv, PartitionTypeOK
<1>8. JobTyped' /\ EnsureIsThorough'
  BY <1>1, <1>2, <1>3, <1>6 DEF JobTyped, EnsureIsThorough, Expired
<1>9. DropIsThorough'
  <2> SUFFICES ASSUME job.complete, NEW n \in attached[Logs] \ {m}, Expired(n)
               PROVE  \E k \in 1..Len(Tail(job.todo)) : Tail(job.todo)[k] = n
    BY <1>1, <1>5, <1>6 DEF DropIsThorough, Expired
  <2> QED
    BY <1>1, <1>3 DEF PartitionInv, DropIsThorough
<1>10. DetachedExpired'
  BY <1>1, <1>3 DEF PartitionInv, DetachedExpired, Expired
<1>11. EnsuredStay'
  <2> SUFFICES ASSUME ensuredIn # Never
               PROVE  /\ ensuredIn <= month
                      /\ \A u \in Tables, n \in month..(ensuredIn + 2) : n \in attached'[u]
    BY <1>1 DEF EnsuredStay
  <2>1. ensuredIn \in Nat
    BY DEF PartitionInv, PartitionTypeOK
  <2> QED
    BY <1>4, <1>5, <2>1 DEF PartitionInv, EnsuredStay
<1>12. DroppedAreGone'
  BY <1>1, <1>5 DEF PartitionInv, DroppedAreGone, Expired
<1> QED
  BY <1>7, <1>8, <1>9, <1>10, <1>11, <1>12 DEF PartitionInv

\* The import of a past month makes its partitions under a run.
LEMMA MonthImported ==
  ASSUME PartitionInv, NEW m \in Months, ImportMonth(m)
  PROVE  PartitionInv'
<1>1. /\ month' = month /\ detached' = detached /\ ensuredIn' = ensuredIn
      /\ droppedIn' = IF Expired(m) THEN Never ELSE droppedIn
      /\ job' = IF Expired(m) /\ job.task = "drop" THEN [job EXCEPT !.complete = FALSE] ELSE job
  BY DEF ImportMonth
<1>2. /\ attached' \in [Tables -> SUBSET Months]
      /\ \A u \in Tables : attached[u] \subseteq attached'[u] /\ attached'[u] \subseteq attached[u] \cup {m}
  BY DEF ImportMonth, Create, PartitionInv, PartitionTypeOK, Tables
<1>3. PartitionTypeOK'
  BY <1>1, <1>2 DEF PartitionInv, PartitionTypeOK
<1>4. JobTyped'
  <2>1. CASE job \in [task : {"drop"}, todo : Seq({n \in Months : Expired(n)}), complete : BOOLEAN]
    <3>1. job' \in [task : {"drop"}, todo : Seq({n \in Months : Expired(n)}), complete : BOOLEAN]
      BY <1>1, <2>1
    <3> QED
      BY <1>1, <3>1 DEF JobTyped, Expired
  <2>2. CASE ~(job \in [task : {"drop"}, todo : Seq({n \in Months : Expired(n)}), complete : BOOLEAN])
    <3>1. job.task # "drop" /\ job' = job
      BY <1>1, <2>2 DEF PartitionInv, JobTyped, NoJob
    <3> QED
      BY <1>1, <2>2, <3>1 DEF PartitionInv, JobTyped
  <2> QED
    BY <2>1, <2>2
<1>5. EnsureIsThorough'
  <2>1. CASE job.task = "ensure"
    BY <1>1, <1>2, <2>1 DEF PartitionInv, EnsureIsThorough
  <2>2. CASE job.task # "ensure"
    <3>1. job'.task # "ensure"
      BY <1>1, <2>2 DEF PartitionInv, JobTyped, NoJob
    <3> QED
      BY <3>1 DEF EnsureIsThorough
  <2> QED
    BY <2>1, <2>2
<1>6. DropIsThorough'
  <2>1. CASE Expired(m) /\ job.task = "drop"
    <3>1. job'.complete = FALSE
      BY <1>1, <2>1 DEF PartitionInv, JobTyped, NoJob
    <3> QED
      BY <3>1 DEF DropIsThorough
  <2>2. CASE ~(Expired(m) /\ job.task = "drop")
    BY <1>1, <1>2, <2>2 DEF PartitionInv, DropIsThorough, Expired, Tables
  <2> QED
    BY <2>1, <2>2
<1>7. DetachedExpired'
  BY <1>1 DEF PartitionInv, DetachedExpired, Expired
<1>8. EnsuredStay'
  BY <1>1, <1>2 DEF PartitionInv, EnsuredStay
<1>9. DroppedAreGone'
  BY <1>1, <1>2 DEF PartitionInv, DroppedAreGone, Expired, Tables
<1> QED
  BY <1>3, <1>4, <1>5, <1>6, <1>7, <1>8, <1>9 DEF PartitionInv

\* A statement that fails leaves the run incomplete.
LEMMA StatementFailed ==
  ASSUME PartitionInv, StatementFails
  PROVE  PartitionInv'
<1>1. /\ job.todo # <<>> /\ job' = [job EXCEPT !.todo = Tail(@), !.complete = FALSE]
      /\ month' = month /\ attached' = attached /\ detached' = detached
      /\ ensuredIn' = ensuredIn /\ droppedIn' = droppedIn
  BY DEF StatementFails, tables, done
<1>2. JobTyped' /\ job'.complete = FALSE
  <2>1. CASE job \in [task : {"ensure"}, todo : Seq(Tables \X (month..(month + 2))), complete : BOOLEAN]
    <3>1. Tail(job.todo) \in Seq(Tables \X (month..(month + 2)))
      BY <1>1, <2>1, TakenOff
    <3> QED
      BY <1>1, <2>1, <3>1 DEF JobTyped
  <2>2. CASE job \in [task : {"drop"}, todo : Seq({m \in Months : Expired(m)}), complete : BOOLEAN]
    <3>1. Tail(job.todo) \in Seq({m \in Months : Expired(m)})
      BY <1>1, <2>2, TakenOff
    <3> QED
      BY <1>1, <2>2, <3>1 DEF JobTyped, Expired
  <2> QED
    BY <1>1, <2>1, <2>2 DEF PartitionInv, JobTyped, NoJob
<1> QED
  BY <1>1, <1>2 DEF PartitionInv, PartitionTypeOK, EnsureIsThorough, DropIsThorough, DetachedExpired, EnsuredStay,
     DroppedAreGone, Expired

\* A run that went through without a failure counts.
LEMMA MaintenanceFinished ==
  ASSUME PartitionInv, FinishMaintenance
  PROVE  PartitionInv'
<1>1. /\ job.task # "none" /\ job.todo = <<>> /\ job' = NoJob
      /\ ensuredIn' = IF job.task = "ensure" /\ job.complete THEN month ELSE ensuredIn
      /\ droppedIn' = IF job.task = "drop" /\ job.complete THEN month ELSE droppedIn
      /\ month' = month /\ attached' = attached /\ detached' = detached
  BY DEF FinishMaintenance, tables
<1>2. month \in 0..LastMonth /\ month \in Nat
  BY ExpiredIsPast DEF PartitionInv, PartitionTypeOK
<1>3. PartitionTypeOK'
  BY <1>1, <1>2 DEF PartitionInv, PartitionTypeOK
<1>4. JobTyped' /\ EnsureIsThorough' /\ DropIsThorough'
  BY <1>1 DEF JobTyped, EnsureIsThorough, DropIsThorough, NoJob
<1>5. DetachedExpired'
  BY <1>1 DEF PartitionInv, DetachedExpired, Expired
<1>6. EnsuredStay'
  BY <1>1, <1>2 DEF PartitionInv, EnsuredStay, EnsureIsThorough
<1>7. DroppedAreGone'
  BY <1>1, <1>2 DEF PartitionInv, DroppedAreGone, DropIsThorough, Expired
<1> QED
  BY <1>3, <1>4, <1>5, <1>6, <1>7 DEF PartitionInv

\* Whatever happens next.
LEMMA PartitionStep == PartitionInv /\ [PartitionNext]_partitionVars => PartitionInv'
<1> SUFFICES ASSUME PartitionInv, [PartitionNext]_partitionVars
             PROVE  PartitionInv'
  OBVIOUS
<1>1. CASE UNCHANGED partitionVars
  BY <1>1 DEF partitionVars, PartitionInv, PartitionTypeOK, JobTyped, EnsureIsThorough, DropIsThorough,
     DetachedExpired, EnsuredStay, DroppedAreGone, Expired
<1> QED
  BY <1>1, MonthPasses, EnsureBegins, PartitionCreated, DropBegins, StatementFailed, MaintenanceFinished, MonthImported, PartitionDropped DEF PartitionNext

\* Whatever nights are missed, statements fail and past months are imported, the
\* months, the partitions and the job of PartitionManagerService keep their types.
THEOREM PartitionTypes == PartitionSpec => []PartitionTypeOK
<1>1. PartitionInv => PartitionTypeOK
  BY DEF PartitionInv
<1> QED
  BY PartitionStart, PartitionStep, <1>1, PTL DEF PartitionSpec

\* A row inserted now finds its partition for two months after the last full run
\* of ensurePartitions, and after a night whose DROPs went through no expired
\* delivery log is attached, for any retention and any number of months.
THEOREM PartitionsHold == PartitionSpec => []PartitionsInTime
BY PartitionStart, PartitionStep, InvariantInTime, PTL DEF PartitionSpec
=============================================================================
