----------------------------- MODULE GuardCache -----------------------------
(***************************************************************************)
(* The guard's caches of an app and of its organization's limit            *)
(* (EngineGuard), against what the dashboard changes: an app edited,       *)
(* rolled or deleted, an organization's status or balance edited, usage    *)
(* billed.  One app; its entry is cached under the public key and under    *)
(* the hash of each secret key a request presents.                         *)
(*                                                                         *)
(* Payload runs a change and its hooks in one transaction, so the hooks    *)
(* invalidate before the commit or after it: a background sync may run at  *)
(* any time from then on, fail, or time out.                               *)
(***************************************************************************)
EXTENDS Integers, FiniteSets

CONSTANTS Guards,      \* requests in the guard at one time
          MaxKey,      \* bound: secret keys of the app, rolled one after the other
          MaxChanges,  \* bound: changes made
          Absent       \* no entry

ASSUME GuardAssumption == MaxKey \in Nat \ {0} /\ MaxChanges \in Nat

VARIABLES
  row,       \* Postgres: the app and its organization's status
  balance,   \* Postgres: the organization's quotaBalance, by version
  meta,      \* Redis: {lookup}:meta
  limit,     \* Redis: {org}:limit
  guard,     \* requests in the guard
  change,    \* the change in progress in the dashboard
  syncs,     \* background syncs not yet run
  changes,   \* changes so far
  missed     \* history: entries that no invalidation will reach any more

guardVars == <<row, balance, meta, limit, guard, change, syncs, changes, missed>>
database == <<row, balance>>
dashboard == <<change, syncs, changes>>

PublicKey == 0
Lookups == PublicKey..MaxKey     \* the public key and the hashes of the secret keys
Entry == [active : BOOLEAN, open : BOOLEAN, ttl : BOOLEAN]
LimitEntry == [balance : 0..MaxChanges, ttl : BOOLEAN]

\* No entry is none of the entries, keys and balances.
ASSUME AbsentAssumption == Absent \notin Entry \cup LimitEntry \cup Nat

NoGuard == [at |-> "idle", lookup |-> PublicKey, app |-> Absent, limit |-> Absent]
NoChange == [at |-> "idle", row |-> Absent, dels |-> {}, old |-> Absent]
Sync == [dels : SUBSET Lookups, limit : 0..MaxChanges \cup {Absent}]

GuardInit ==
  /\ row = [key |-> 1, active |-> TRUE, open |-> TRUE, live |-> TRUE]
  /\ balance = 0
  /\ meta = [l \in Lookups |-> Absent] /\ limit = Absent
  /\ guard = [g \in Guards |-> NoGuard]
  /\ change = NoChange /\ syncs = {} /\ changes = 0
  /\ missed = {}

\* What the database says of a key: the entry it deserves, or none.
Found(r, l) == r.live /\ l \in {PublicKey, r.key}
Truth(r, l) == IF Found(r, l) THEN [active |-> r.active, open |-> r.open, ttl |-> TRUE] ELSE Absent
Stale(l) == meta[l] # Absent /\ (~Found(row, l) \/ [meta[l] EXCEPT !.ttl = TRUE] # Truth(row, l))
-----------------------------------------------------------------------------
(* resolveAppWithCache and processAuthorizedRequest *)

Guarded(g, record) == guard' = [guard EXCEPT ![g] = record]
Advance(g, step) == guard' = [guard EXCEPT ![g].at = step]

\* GET of the entry: a hit is used as it is.
LookUp(g, l) ==
  /\ guard[g].at = "idle"
  /\ Guarded(g, [at |-> IF meta[l] = Absent THEN "read" ELSE "decide",
                 lookup |-> l, app |-> meta[l], limit |-> Absent])
  /\ UNCHANGED <<database, meta, limit, dashboard, missed>>

\* A miss reads the app; a key nobody has is refused.
ReadApp(g) ==
  LET found == Truth(row, guard[g].lookup) IN
  /\ guard[g].at = "read"
  /\ Guarded(g, IF found = Absent THEN NoGuard ELSE [guard[g] EXCEPT !.at = "fill", !.app = found])
  /\ UNCHANGED <<database, meta, limit, dashboard, missed>>

\* (Without a time to live.)
FillAppForever(g) ==
  LET l == guard[g].lookup IN
  /\ guard[g].at = "fill"
  /\ meta' = [meta EXCEPT ![l] = [guard[g].app EXCEPT !.ttl = FALSE]]
  /\ missed' = IF guard[g].app = Truth(row, l) THEN missed ELSE missed \cup {l}
  /\ Advance(g, "decide")
  /\ UNCHANGED <<database, limit, dashboard>>

\* SET with five minutes to live, of what was read some time ago.
FillApp(g) ==
  LET l == guard[g].lookup IN
  /\ guard[g].at = "fill"
  /\ meta' = [meta EXCEPT ![l] = guard[g].app]
  /\ missed' = IF guard[g].app = Truth(row, l) THEN missed ELSE missed \cup {l}
  /\ Advance(g, "decide")
  /\ UNCHANGED <<database, limit, dashboard>>

\* A disabled app, a closed intake, or the cached limit: the request ends.
Decide(g) ==
  LET seen == guard[g].app IN
  /\ guard[g].at = "decide"
  /\ Guarded(g, IF ~seen.active \/ ~seen.open \/ limit # Absent
                  THEN NoGuard ELSE [NoGuard EXCEPT !.at = "readLimit"])
  /\ UNCHANGED <<database, meta, limit, dashboard, missed>>

ReadLimit(g) ==
  /\ guard[g].at = "readLimit"
  /\ Guarded(g, [NoGuard EXCEPT !.at = "fillLimit", !.limit = balance])
  /\ UNCHANGED <<database, meta, limit, dashboard, missed>>

\* (Without a time to live.)
FillLimitForever(g) ==
  /\ guard[g].at = "fillLimit"
  /\ limit' = [balance |-> guard[g].limit, ttl |-> FALSE]
  /\ Guarded(g, NoGuard)
  /\ UNCHANGED <<database, meta, dashboard, missed>>

\* SET with seven days to live.
FillLimit(g) ==
  /\ guard[g].at = "fillLimit"
  /\ limit' = [balance |-> guard[g].limit, ttl |-> TRUE]
  /\ Guarded(g, NoGuard)
  /\ UNCHANGED <<database, meta, dashboard, missed>>

\* The request is cut off, or a command of it fails.
GuardFails(g) ==
  /\ guard[g].at # "idle"
  /\ Guarded(g, NoGuard)
  /\ UNCHANGED <<database, meta, limit, dashboard, missed>>
-----------------------------------------------------------------------------
(* The dashboard *)

\* A change writes its row and runs its hooks, which spawn a sync.
Begin(newRow, sync, old) ==
  /\ change.at = "idle" /\ changes < MaxChanges
  /\ changes' = changes + 1
  /\ change' = [at |-> "commit", row |-> newRow, dels |-> sync.dels, old |-> old]
  /\ syncs' = syncs \cup {sync}
  /\ UNCHANGED <<database, meta, guard, missed>>

\* (The hook misses the hash, which Payload hides.)
EditAppPublicOnly(active) ==
  /\ row.live /\ row.active # active
  /\ Begin([row EXCEPT !.active = active], [dels |-> {PublicKey}, limit |-> balance], Absent)
  /\ UNCHANGED limit

\* PATCH of an app: the hook looks up the hidden hash and drops both entries.
EditApp(active) ==
  /\ row.live /\ row.active # active
  /\ Begin([row EXCEPT !.active = active], [dels |-> {PublicKey, row.key}, limit |-> balance], Absent)
  /\ UNCHANGED limit

\* The roll read the old hash before: the hook drops the entry of the new key,
\* the route that of the old one after the commit.
RollKey ==
  /\ row.live /\ row.key < MaxKey
  /\ Begin([row EXCEPT !.key = @ + 1], [dels |-> {PublicKey, row.key + 1}, limit |-> balance], row.key)
  /\ UNCHANGED limit

\* beforeDelete keeps the hash for the sync that afterDelete spawns.
RemoveApp ==
  /\ row.live
  /\ Begin([row EXCEPT !.live = FALSE], [dels |-> {PublicKey, row.key}, limit |-> Absent], Absent)
  /\ UNCHANGED limit

\* The organization's status or rate: its hook sets the limit, awaited, and
\* drops the entries of its apps in the background.
EditOrganization(open) ==
  /\ row.open # open
  /\ Begin([row EXCEPT !.open = open],
           [dels |-> IF row.live THEN {PublicKey, row.key} ELSE {}, limit |-> Absent], Absent)
  /\ limit' \in {limit, [balance |-> balance, ttl |-> TRUE]}

Commit ==
  /\ change.at = "commit"
  /\ row' = change.row
  /\ change' = IF change.old = Absent THEN NoChange ELSE [change EXCEPT !.at = "drop"]
  /\ missed' = missed \cup {l \in Lookups : /\ meta[l] \notin {Absent, Truth(change.row, l)}
                                            /\ l \in change.dels
                                            /\ \A s \in syncs : l \notin s.dels}
  /\ UNCHANGED <<balance, meta, limit, guard, syncs, changes>>

\* The roll's own DEL, which may fail.
DropOldKey(fails) ==
  /\ change.at = "drop"
  /\ meta' = IF fails THEN meta ELSE [meta EXCEPT ![change.old] = Absent]
  /\ missed' = IF fails THEN missed \cup {change.old} ELSE missed
  /\ change' = NoChange
  /\ UNCHANGED <<database, limit, guard, syncs, changes>>

\* bgRedisSync: reads the balance at some moment, then one pipeline.
RunSync(s) ==
  /\ s \in syncs /\ syncs' = syncs \ {s}
  /\ meta' = [l \in Lookups |-> IF l \in s.dels THEN Absent ELSE meta[l]]
  /\ IF s.limit = Absent
       THEN UNCHANGED limit
       ELSE \E read \in s.limit..balance : limit' = [balance |-> read, ttl |-> TRUE]
  /\ UNCHANGED <<database, guard, change, changes, missed>>

\* Its failure is logged and nothing else.
LoseSync(s) ==
  /\ s \in syncs /\ syncs' = syncs \ {s}
  /\ missed' = missed \cup s.dels
  /\ UNCHANGED <<database, meta, limit, guard, change, changes>>

\* processSyncKey of the usage cron: the balance falls, then the limit goes.
\* The cron dies between the two, or Redis refuses.
Bill(fails) ==
  /\ changes < MaxChanges /\ changes' = changes + 1
  /\ balance' = balance + 1
  /\ limit' = IF fails THEN limit ELSE Absent
  /\ UNCHANGED <<row, meta, guard, change, syncs, missed>>
-----------------------------------------------------------------------------
ExpireMeta(l) ==
  /\ meta[l] # Absent /\ meta[l].ttl
  /\ meta' = [meta EXCEPT ![l] = Absent]
  /\ missed' = missed \ {l}
  /\ UNCHANGED <<database, limit, guard, dashboard>>

ExpireLimit ==
  /\ limit # Absent /\ limit.ttl
  /\ limit' = Absent
  /\ UNCHANGED <<database, meta, guard, dashboard, missed>>

GuardStep(g) ==
  ReadApp(g) \/ FillApp(g) \/ Decide(g) \/ ReadLimit(g) \/ FillLimit(g)

GuardNext ==
  \/ \E g \in Guards : GuardStep(g) \/ GuardFails(g) \/ \E l \in Lookups : LookUp(g, l)
  \/ \E on \in BOOLEAN : EditApp(on) \/ EditOrganization(on) \/ DropOldKey(on) \/ Bill(on)
  \/ RollKey \/ RemoveApp \/ Commit
  \/ \E s \in syncs : RunSync(s) \/ LoseSync(s)
  \/ \E l \in Lookups : ExpireMeta(l)
  \/ ExpireLimit

GuardSpec == GuardInit /\ [][GuardNext]_guardVars

\* A request that is in the guard ends; Redis drops what has expired.
GuardFairness ==
  /\ \A g \in Guards : WF_guardVars(GuardStep(g))
  /\ \A l \in Lookups : WF_guardVars(ExpireMeta(l))
  /\ WF_guardVars(ExpireLimit) /\ WF_guardVars(Commit)
  /\ WF_guardVars(\E fails \in BOOLEAN : DropOldKey(fails))
  /\ WF_guardVars(\E s \in syncs : RunSync(s) \/ LoseSync(s))
-----------------------------------------------------------------------------
(* Properties *)

GuardTypeOK ==
  /\ row \in [key : 1..MaxKey, active : BOOLEAN, open : BOOLEAN, live : BOOLEAN]
  /\ balance \in 0..MaxChanges /\ changes \in 0..MaxChanges
  /\ meta \in [Lookups -> Entry \cup {Absent}]
  /\ limit \in LimitEntry \cup {Absent}
  /\ \A g \in Guards : guard[g].lookup \in Lookups
  /\ syncs \subseteq Sync
  /\ missed \subseteq Lookups

\* The only ways to an entry that disagrees with the database: its change is
\* not through with its invalidations, one of them was lost or ran before the
\* commit, or a request had read the row before it.
StaleEntryExplained ==
  \A l \in Lookups : Stale(l) =>
    \/ l \in missed
    \/ \E s \in syncs : l \in s.dels
    \/ change.at = "drop" /\ change.old = l

\* A secret key that was rolled, and both keys of a deleted app, stop working
\* for good, whatever invalidation was lost and whatever request was in the
\* guard and fills an entry afterwards.
Gone(l) == ~row.live \/ l \in 1..(row.key - 1)
GoneKeysDie == <>[](\A l \in Lookups : Gone(l) => meta[l] = Absent)

\* A limit that a raced fill or an app edit took from an older balance gives
\* way to the present one.
LimitRecovers == []<>(limit = Absent \/ limit.balance = balance)

\* No stale entry lasts.
CachesRecover == GoneKeysDie /\ LimitRecovers
=============================================================================
