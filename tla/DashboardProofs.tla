--------------------------- MODULE DashboardProofs --------------------------
(***************************************************************************)
(* What is proved of the dashboard where requests read, decide and write   *)
(* in separate steps: the reviews of access, the webhook endpoints, the    *)
(* wizard of an import, the import itself, the field that sets up the      *)
(* second factor; and of what goes with a row that is deleted. For any     *)
(* number of admins, requests, runs, records and rows.                     *)
(***************************************************************************)
EXTENDS AccessReview, Endpoints, ImportScreen, CloudImport, SetupScreen, Cascades, FiniteSetTheorems,
        FunctionTheorems, SequenceTheorems, TLAPS

(* AccessReview *)

\* A review names every session it says it collected, and once it is confirmed
\* every one of its period is explained.
Sound(r) ==
  /\ \A s \in Sessions : s <= r.collectedUntil => r.sessions[s] # "absent"
  /\ Confirmed(r) =>
       \A s \in Sessions : s <= r.periodTo /\ s <= r.collectedUntil => r.sessions[s] = "explained"

\* What is stored and what is about to be stored are sound.
EveryVersionSound ==
  /\ Sound(review)
  /\ \A w \in Writers : change[w].at = "write" => Sound(change[w].next)

\* Who decided on the review as it still is, decided on one not yet confirmed.
DecidedBefore ==
  \A w \in Writers : change[w].at = "write" /\ ~change[w].late => ~Confirmed(review)

\* The first confirmation is remembered, and stands while no write was late.
FirstStands ==
  /\ ~Confirmed(signed) => signed = Draft /\ ~Confirmed(review)
  /\ ~raced /\ Confirmed(signed) => review = signed

ReviewInv == ReviewTypeOK /\ EveryVersionSound /\ DecidedBefore /\ FirstStands

\* What an admin may store of a sound draft is a sound record, a draft or not.
LEMMA KeptIsSound ==
  ASSUME ReviewTypeOK, Sound(review), ~Confirmed(review), NEW w \in Writers,
         NEW explained \in SUBSET Sessions
  PROVE  /\ Kept(w, explained) \in [Sessions -> Explanation]
         /\ \A s \in Sessions : s <= review.collectedUntil => Kept(w, explained)[s] # "absent"
         /\ (\A s \in Sessions : Kept(w, explained)[s] # "blank") =>
              \A s \in Sessions : s <= review.collectedUntil => Kept(w, explained)[s] = "explained"
<1>1. \A s \in Sessions : review.sessions[s] \in Explanation
  BY DEF ReviewTypeOK, ReviewRecord
<1>2. \A s \in Sessions : Kept(w, explained)[s] =
        (IF review.sessions[s] = "absent" THEN "absent"
         ELSE IF s \in explained THEN "explained" ELSE review.sessions[s])
  BY DEF Kept
<1>3. Kept(w, explained) \in [Sessions -> Explanation]
  BY <1>1 DEF Kept, Explanation
<1>4. \A s \in Sessions : s <= review.collectedUntil => Kept(w, explained)[s] # "absent"
  BY <1>1, <1>2 DEF Sound, Explanation
<1> QED
  BY <1>1, <1>3, <1>4 DEF Explanation

\* A decision, whoever takes it, is a sound record made from a draft.
LEMMA DecisionStep ==
  ASSUME ReviewInv, NEW w \in Writers, NEW next \in ReviewRecord,
         ~Confirmed(review), Sound(next), Decided(w, next),
         UNCHANGED <<moment, review, changesBegun, signed, raced>>
  PROVE  ReviewInv'
<1> DEFINE new == [NotChanging EXCEPT !.at = "write", !.next = next]
<1>1. new \in [at : {"idle", "found", "write"}, found : ReviewRecord, next : ReviewRecord, late : BOOLEAN]
      /\ new.at = "write" /\ new.next = next /\ new.late = FALSE
  <2>1. Draft \in ReviewRecord
    BY ReviewBounds DEF Draft, ReviewRecord, Explanation, Moments
  <2> QED
    BY <2>1 DEF NotChanging
<1>2. change' = [change EXCEPT ![w] = new]
  BY DEF Decided
<1> HIDE DEF new
<1>3. ReviewTypeOK'
  BY <1>1, <1>2 DEF ReviewInv, ReviewTypeOK
<1>4. EveryVersionSound'
  <2>1. Sound(review)'
    BY DEF ReviewInv, EveryVersionSound, Sound, Confirmed
  <2>2. \A x \in Writers : change'[x].at = "write" => Sound(change'[x].next)
    BY <1>1, <1>2 DEF ReviewInv, ReviewTypeOK, EveryVersionSound
  <2> QED
    BY <2>1, <2>2 DEF EveryVersionSound, Sound, Confirmed
<1>5. DecidedBefore' /\ FirstStands'
  BY <1>1, <1>2 DEF ReviewInv, DecidedBefore, FirstStands, Confirmed
<1> QED
  BY <1>3, <1>4, <1>5 DEF ReviewInv

\* A request is turned down, or just begun: nothing is about to be stored by it.
LEMMA NoDecisionStep ==
  ASSUME ReviewInv, NEW w \in Writers,
         NEW new \in [at : {"idle", "found"}, found : ReviewRecord, next : ReviewRecord, late : BOOLEAN],
         change' = [change EXCEPT ![w] = new], changesBegun' \in 0..MaxChanges,
         UNCHANGED <<moment, review, signed, raced>>
  PROVE  ReviewInv'
<1>1. ReviewTypeOK'
  BY DEF ReviewInv, ReviewTypeOK
<1>2. \A x \in Writers : change'[x].at = "write" => change'[x] = change[x]
  BY DEF ReviewInv, ReviewTypeOK
<1>3. EveryVersionSound' /\ DecidedBefore' /\ FirstStands'
  BY <1>2 DEF ReviewInv, EveryVersionSound, DecidedBefore, FirstStands, Sound, Confirmed
<1> QED
  BY <1>1, <1>3 DEF ReviewInv

\* The update of the row: whoever decided earlier than this is late from now on.
LEMMA WriteReviewStep ==
  ASSUME ReviewInv, NEW w \in Writers, WriteReview(w)
  PROVE  ReviewInv'
<1> DEFINE Change == [at : {"idle", "found", "write"}, found : ReviewRecord,
                      next : ReviewRecord, late : BOOLEAN]
<1>0. /\ change \in [Writers -> Change] /\ Draft \in ReviewRecord /\ NotChanging \in Change
      /\ review \in ReviewRecord /\ change[w].next \in ReviewRecord
      /\ review' = change[w].next /\ Sound(change[w].next)
  <2>1. Draft \in ReviewRecord
    BY ReviewBounds DEF Draft, ReviewRecord, Explanation, Moments
  <2> QED
    BY <2>1 DEF ReviewInv, ReviewTypeOK, EveryVersionSound, WriteReview, NotChanging
<1>1. \A x \in Writers : x # w =>
         /\ change'[x] \in Change /\ change'[x].at = change[x].at /\ change'[x].next = change[x].next
         /\ change'[x].late = (change[x].at = "write")
  BY <1>0 DEF WriteReview
<1>2. change'[w] = NotChanging /\ DOMAIN change' = Writers /\ change' = [x \in Writers |-> change'[x]]
  BY DEF WriteReview
<1>3. change' \in [Writers -> Change]
  BY <1>0, <1>1, <1>2
<1>4. raced' \in BOOLEAN /\ (~raced' => ~raced /\ ~change[w].late)
  BY <1>0 DEF ReviewInv, ReviewTypeOK, WriteReview
<1>5. signed' = (IF signed = Draft /\ Confirmed(change[w].next) THEN change[w].next ELSE signed)
      /\ signed' \in ReviewRecord
  BY <1>0 DEF ReviewInv, ReviewTypeOK, WriteReview
<1>6. ReviewTypeOK'
  BY <1>0, <1>3, <1>4, <1>5 DEF ReviewInv, ReviewTypeOK, WriteReview
<1>7. EveryVersionSound'
  <2>1. \A x \in Writers : change'[x].at = "write" => Sound(change'[x].next)
    BY <1>0, <1>1, <1>2 DEF ReviewInv, EveryVersionSound, NotChanging
  <2> QED
    BY <1>0, <2>1 DEF EveryVersionSound, Sound, Confirmed
<1>8. DecidedBefore'
  BY <1>1, <1>2 DEF DecidedBefore, NotChanging
<1>9. FirstStands'
  <2>1. ~Confirmed(Draft)
    BY DEF Confirmed, Draft
  <2>2. ~Confirmed(signed') => signed' = Draft /\ ~Confirmed(review')
    BY <1>0, <1>5, <2>1 DEF ReviewInv, FirstStands
  <2>3. ~raced' /\ Confirmed(signed') => review' = signed'
    <3> SUFFICES ASSUME ~raced', Confirmed(signed')
                 PROVE  review' = signed'
      OBVIOUS
    <3>1. ~Confirmed(review)
      BY <1>4 DEF ReviewInv, DecidedBefore, WriteReview
    <3>2. ~Confirmed(signed) /\ signed = Draft
      BY <1>4, <3>1 DEF ReviewInv, FirstStands
    <3> QED
      BY <1>0, <1>5, <2>1, <3>2
  <2> QED
    BY <2>2, <2>3 DEF FirstStands, Confirmed
<1> QED
  BY <1>6, <1>7, <1>8, <1>9 DEF ReviewInv

\* Every step keeps the invariant of the reviews.
LEMMA ReviewStep ==
  ASSUME ReviewInv, [ReviewNext]_reviewVars
  PROVE  ReviewInv'
<1>0. /\ ReviewTypeOK /\ Draft \in ReviewRecord /\ Sound(review)
      /\ NotChanging \in [at : {"idle", "found"}, found : ReviewRecord, next : ReviewRecord, late : BOOLEAN]
      /\ changesBegun \in 0..MaxChanges /\ review \in ReviewRecord /\ moment \in Moments
      /\ change \in [Writers -> [at : {"idle", "found", "write"}, found : ReviewRecord,
                                 next : ReviewRecord, late : BOOLEAN]]
  <2>1. Draft \in ReviewRecord
    BY ReviewBounds DEF Draft, ReviewRecord, Explanation, Moments
  <2> QED
    BY <2>1 DEF ReviewInv, ReviewTypeOK, EveryVersionSound, NotChanging
<1>1. ASSUME NEW w \in Writers, OpenReview(w)
      PROVE  ReviewInv'
  <2>1. [NotChanging EXCEPT !.at = "found", !.found = review]
          \in [at : {"idle", "found"}, found : ReviewRecord, next : ReviewRecord, late : BOOLEAN]
    BY <1>0
  <2>2. changesBegun' \in 0..MaxChanges
    BY <1>0, <1>1, ReviewBounds DEF OpenReview
  <2> QED
    BY <1>1, <2>1, <2>2, NoDecisionStep DEF OpenReview
<1>2. ASSUME NEW w \in Writers, WriteReview(w)
      PROVE  ReviewInv'
  BY <1>2, WriteReviewStep
<1>3. CASE Collect
  <2>1. Collector \in Writers
    BY DEF Writers
  <2>2. CASE Confirmed(review)
    BY <1>0, <1>3, <2>1, <2>2, NoDecisionStep DEF Collect, TurnedDown
  <2>3. CASE ~Confirmed(review)
    <3> DEFINE gathered == [s \in Sessions |->
                   LET was == change[Collector].found.sessions[s]
                   IN IF was = "absent" /\ s <= moment THEN "blank" ELSE was]
               status == IF moment = WeekEnd THEN "ready" ELSE review.status
               next == [review EXCEPT !.status = status, !.sessions = gathered, !.collectedUntil = moment]
    <3>1. gathered \in [Sessions -> Explanation] /\ \A s \in Sessions : s <= moment => gathered[s] # "absent"
      <4>1. change[Collector].found.sessions \in [Sessions -> Explanation]
        BY <1>0, <2>1 DEF ReviewRecord
      <4> QED
        BY <4>1 DEF Explanation
    <3>2. status \in {"collecting", "ready"}
      BY <1>0, <2>3 DEF Confirmed, ReviewRecord
    <3>3. Decided(Collector, next)
      BY <1>3, <2>3 DEF Collect
    <3> HIDE DEF gathered, status
    <3>4. next \in ReviewRecord /\ next.status = status /\ next.sessions = gathered /\ next.collectedUntil = moment
      BY <1>0, <3>1, <3>2 DEF ReviewRecord
    <3>5. Sound(next)
      BY <3>1, <3>2, <3>4 DEF Sound, Confirmed
    <3> HIDE DEF next
    <3> QED
      BY <1>3, <2>1, <2>3, <3>3, <3>4, <3>5, DecisionStep DEF Collect
  <2> QED
    BY <2>2, <2>3
<1>4. ASSUME NEW w \in Reviewers, NEW explained \in SUBSET Sessions,
             SaveDraft(w, explained) \/ ConfirmReview(w, explained)
      PROVE  ReviewInv'
  <2> DEFINE kept == Kept(w, explained)
             saved == [review EXCEPT !.sessions = kept]
             period == IF review.status = "collecting" /\ review.periodTo > moment
                         THEN review.collectedUntil ELSE review.periodTo
             signedOff == [review EXCEPT !.status = "confirmed", !.sessions = kept, !.periodTo = period]
  <2>1. w \in Writers
    BY DEF Writers
  <2>2. UNCHANGED <<moment, review, changesBegun, signed, raced>>
    BY <1>4 DEF SaveDraft, ConfirmReview
  <2>3. CASE TurnedDown(w)
    BY <1>0, <2>1, <2>2, <2>3, NoDecisionStep DEF TurnedDown
  <2>4. CASE ~Confirmed(review) /\ Decided(w, saved)
    <3>1. saved \in ReviewRecord /\ saved.status = review.status /\ saved.sessions = kept
          /\ saved.collectedUntil = review.collectedUntil
      BY <1>0, <2>1, <2>4, KeptIsSound DEF ReviewRecord
    <3>2. Sound(saved)
      BY <1>0, <2>1, <2>4, <3>1, KeptIsSound DEF Sound, Confirmed
    <3> HIDE DEF saved
    <3> QED
      BY <2>1, <2>2, <2>4, <3>1, <3>2, DecisionStep
  <2>5. CASE ~Confirmed(review) /\ (\A s \in Sessions : kept[s] # "blank") /\ Decided(w, signedOff)
    <3>1. period \in Moments
      BY <1>0 DEF ReviewRecord
    <3>2. kept \in [Sessions -> Explanation]
          /\ \A s \in Sessions : s <= review.collectedUntil => kept[s] = "explained"
      BY <1>0, <2>1, <2>5, KeptIsSound
    <3> HIDE DEF period, kept
    <3>3. signedOff \in ReviewRecord /\ signedOff.sessions = kept
          /\ signedOff.collectedUntil = review.collectedUntil
      BY <1>0, <3>1, <3>2 DEF ReviewRecord
    <3>4. Sound(signedOff)
      BY <3>2, <3>3 DEF Sound, Confirmed
    <3> HIDE DEF signedOff
    <3> QED
      BY <2>1, <2>2, <2>5, <3>3, <3>4, DecisionStep
  <2> QED
    BY <1>4, <2>3, <2>4, <2>5 DEF SaveDraft, ConfirmReview
<1>5. CASE MomentPasses
  BY <1>0, <1>5, ReviewBounds DEF MomentPasses, ReviewInv, ReviewTypeOK, EveryVersionSound, DecidedBefore,
     FirstStands, Sound, Confirmed, Moments
<1>6. CASE UNCHANGED reviewVars
  BY <1>6 DEF reviewVars, ReviewInv, ReviewTypeOK, EveryVersionSound, DecidedBefore, FirstStands, Sound, Confirmed
<1> QED
  BY <1>1, <1>2, <1>3, <1>4, <1>5, <1>6 DEF ReviewNext

\* The invariant of a review.
LEMMA ReviewInvariant == ReviewSpec => []ReviewInv
<1>1. ReviewInit => ReviewInv
  <2> SUFFICES ASSUME ReviewInit
               PROVE  ReviewInv
    OBVIOUS
  <2>1. Draft \in ReviewRecord
    BY ReviewBounds DEF Draft, ReviewRecord, Explanation, Moments
  <2>2. ReviewTypeOK
    <3>1. change = [w \in Writers |-> NotChanging]
          /\ NotChanging \in [at : {"idle", "found", "write"}, found : ReviewRecord, next : ReviewRecord, late : BOOLEAN]
      BY <2>1 DEF ReviewInit, NotChanging
    <3>2. moment \in Moments /\ changesBegun \in 0..MaxChanges
      BY ReviewBounds DEF ReviewInit, Moments
    <3>3. raced \in BOOLEAN
      BY Zenon DEF ReviewInit
    <3> QED
      BY <2>1, <3>1, <3>2, <3>3 DEF ReviewInit, ReviewTypeOK
  <2>3. Sound(Draft) /\ ~Confirmed(Draft)
    BY DEF Sound, Confirmed, Draft, Sessions
  <2> QED
    BY <2>2, <2>3 DEF ReviewInit, ReviewInv, EveryVersionSound, DecidedBefore, FirstStands, NotChanging
<1> QED
  BY <1>1, ReviewStep, PTL DEF ReviewSpec

\* ReviewTypeOK: whatever admins save at once, a review, its versions and the saves
\* under way have the fields and stages of the code.
THEOREM ReviewTypes == ReviewSpec => []ReviewTypeOK
<1>1. ReviewInv => ReviewTypeOK
  BY DEF ReviewInv
<1> QED
  BY <1>1, ReviewInvariant, PTL

\* However old a form is and whatever the collector adds meanwhile: a confirmed
\* review stays as it was confirmed and accounts for every session collected in
\* its period, unless two writes were decided on the same review.
THEOREM ReviewHolds == ReviewSpec => []ReviewStands
<1>1. ReviewInv => ReviewStands
  BY DEF ReviewInv, EveryVersionSound, FirstStands, Sound, ReviewStands
<1> QED
  BY <1>1, ReviewInvariant, PTL
-----------------------------------------------------------------------------
(* Endpoints *)

\* The requests and rows as they are, with the times a row carries behind now.
Timed ==
  /\ time \in Nat
  /\ endpoint \in [EndpointIds -> [there : BOOLEAN, local : BOOLEAN, active : BOOLEAN, began : Nat, wrote : Nat]]
  /\ saving \in [Savers -> [op : {"none", "create", "change", "roll"}, id : EndpointIds \cup {0},
                           url : {"local", "public", "kept"}, step : {"none", "route", "hook", "write"},
                           began : Nat]]
  /\ \A e \in There : endpoint[e].began <= endpoint[e].wrote /\ endpoint[e].wrote < time
  /\ \A s \in Savers : saving[s].op # "none" => saving[s].began < time /\ saving[s].id \in EndpointIds
  /\ \A s \in Savers : saving[s].step # "none" => saving[s].op # "none"

\* Who is about to write a URL on localhost found no other endpoint there: any
\* that is there now was written after the request began.
FoundNone ==
  \A s \in Savers, e \in There :
    (saving[s].step = "write" /\ saving[s].op \in {"create", "change"} /\ saving[s].url = "local"
       /\ e # saving[s].id /\ endpoint[e].local)
    => saving[s].began < endpoint[e].wrote

EndpointInv == Timed /\ FoundNone /\ OneLocalhost

\* A request steps on without writing: it is checked, turned down or begun.
LEMMA RequestStep ==
  ASSUME EndpointInv, NEW s \in Savers, UNCHANGED endpoint,
         NEW new \in [op : {"none", "create", "change", "roll"}, id : EndpointIds \cup {0},
                      url : {"local", "public", "kept"}, step : {"none", "route", "hook", "write"}, began : Nat],
         saving' = [saving EXCEPT ![s] = new], time' \in {time, time + 1},
         new.op # "none" => new.began < time' /\ new.id \in EndpointIds,
         new.step # "none" => new.op # "none",
         (new.step = "write" /\ new.op \in {"create", "change"} /\ new.url = "local") => ~OtherLocal(new.id)
  PROVE  EndpointInv'
<1>1. There' = There
  BY DEF There
<1>2. time' \in Nat /\ time <= time'
  BY DEF EndpointInv, Timed
<1>3. \A e \in There : e \in EndpointIds /\ endpoint[e].began \in Nat /\ endpoint[e].wrote \in Nat
  BY DEF EndpointInv, Timed, There
<1>4. \A r \in Savers : saving[r].began \in Nat
  BY DEF EndpointInv, Timed
<1>5. \A e \in There' : endpoint'[e].began <= endpoint'[e].wrote /\ endpoint'[e].wrote < time'
  BY <1>1, <1>2, <1>3 DEF EndpointInv, Timed
<1>6. \A r \in Savers : saving'[r].op # "none" => saving'[r].began < time' /\ saving'[r].id \in EndpointIds
  BY <1>2, <1>4 DEF EndpointInv, Timed
<1>7. Timed'
  BY <1>2, <1>5, <1>6 DEF EndpointInv, Timed
<1>8. FoundNone'
  BY <1>1 DEF EndpointInv, Timed, FoundNone, OtherLocal
<1> QED
  BY <1>1, <1>7, <1>8 DEF EndpointInv, OneLocalhost

\* A row is written, switched or deleted.  What becomes local is written now,
\* after every other request and row began, and was decided on before all
\* others on localhost were written.
LEMMA RowStep ==
  ASSUME EndpointInv, NEW e \in EndpointIds, time' = time + 1,
         NEW row \in [there : BOOLEAN, local : BOOLEAN, active : BOOLEAN, began : Nat, wrote : Nat],
         endpoint' = [endpoint EXCEPT ![e] = row],
         \A r \in Savers : saving'[r] = saving[r] \/ saving'[r] = NotSaving,
         saving' \in [Savers -> [op : {"none", "create", "change", "roll"}, id : EndpointIds \cup {0},
                      url : {"local", "public", "kept"}, step : {"none", "route", "hook", "write"}, began : Nat]],
         row.there => row.began <= row.wrote /\ row.wrote <= time,
         row.there /\ row.local =>
           \/ e \in There /\ endpoint[e].local /\ row.began = endpoint[e].began /\ row.wrote = endpoint[e].wrote
           \/ /\ row.wrote = time /\ row.began < time
              /\ \A f \in There \ {e} : endpoint[f].local => row.began < endpoint[f].wrote
  PROVE  EndpointInv'
<1>1. /\ time \in Nat /\ time' \in Nat
      /\ endpoint \in [EndpointIds -> [there : BOOLEAN, local : BOOLEAN, active : BOOLEAN, began : Nat, wrote : Nat]]
      /\ endpoint' \in [EndpointIds -> [there : BOOLEAN, local : BOOLEAN, active : BOOLEAN, began : Nat, wrote : Nat]]
  BY DEF EndpointInv, Timed
<1>2. \A f \in There' : /\ f \in EndpointIds
                        /\ \/ f = e /\ endpoint'[f] = row /\ row.there
                           \/ f # e /\ f \in There /\ endpoint'[f] = endpoint[f]
  <2>1. \A f \in EndpointIds : endpoint'[f] = IF f = e THEN row ELSE endpoint[f]
    BY <1>1
  <2> QED
    BY <2>1 DEF There
<1>3. \A f \in There : /\ endpoint[f].began \in Nat /\ endpoint[f].wrote \in Nat
                        /\ endpoint[f].began <= endpoint[f].wrote /\ endpoint[f].wrote < time
  BY <1>1 DEF EndpointInv, Timed, There
<1>4. row.began \in Nat /\ row.wrote \in Nat
  OBVIOUS
<1>5. \A f \in There' : endpoint'[f].began <= endpoint'[f].wrote /\ endpoint'[f].wrote < time'
  BY <1>1, <1>2, <1>3, <1>4
<1>6. \A r \in Savers : saving'[r].op # "none" => saving'[r] = saving[r]
  BY DEF NotSaving
<1>7. \A r \in Savers : saving'[r].step # "none" => saving'[r] = saving[r] /\ saving[r].began < time
                                                    /\ saving[r].began \in Nat
  BY DEF NotSaving, EndpointInv, Timed
<1>8. Timed'
  <2>1. \A r \in Savers : saving'[r].op # "none" => saving'[r].began < time' /\ saving'[r].id \in EndpointIds
    BY <1>1, <1>6 DEF EndpointInv, Timed
  <2>2. \A r \in Savers : saving'[r].step # "none" => saving'[r].op # "none"
    BY <1>7 DEF EndpointInv, Timed
  <2> QED
    BY <1>1, <1>5, <2>1, <2>2 DEF Timed
<1>9. FoundNone'
  <2> SUFFICES ASSUME NEW r \in Savers, NEW f \in There',
                      saving'[r].step = "write", saving'[r].op \in {"create", "change"}, saving'[r].url = "local",
                      f # saving'[r].id, endpoint'[f].local
               PROVE  saving'[r].began < endpoint'[f].wrote
    BY DEF FoundNone
  <2>1. saving'[r] = saving[r] /\ saving[r].began < time
    BY <1>7
  <2>2. CASE f # e
    BY <1>2, <2>1, <2>2 DEF EndpointInv, FoundNone
  <2>3. CASE f = e
    BY <1>2, <2>1, <2>3 DEF EndpointInv, FoundNone
  <2> QED
    BY <2>2, <2>3
<1>10. OneLocalhost'
  <2> SUFFICES ASSUME NEW f \in There', NEW g \in There', f # g, endpoint'[f].local, endpoint'[g].local
               PROVE  endpoint'[f].began < endpoint'[g].wrote /\ endpoint'[g].began < endpoint'[f].wrote
    BY DEF OneLocalhost
  <2>1. \A h \in There : h # e /\ endpoint[h].local /\ row.there /\ row.local =>
           row.began < endpoint[h].wrote /\ endpoint[h].began < row.wrote
    BY <1>1, <1>3, <1>4 DEF EndpointInv, OneLocalhost
  <2>2. CASE f # e /\ g # e
    BY <1>2, <2>2 DEF EndpointInv, OneLocalhost
  <2>3. CASE f = e
    BY <1>2, <2>1, <2>3
  <2>4. CASE g = e
    BY <1>2, <2>1, <2>4
  <2> QED
    BY <2>2, <2>3, <2>4
<1> QED
  BY <1>8, <1>9, <1>10 DEF EndpointInv

\* Every step keeps the invariant of the endpoints.
LEMMA EndpointStep ==
  ASSUME EndpointInv, [EndpointNext]_endpointVars
  PROVE  EndpointInv'
<1> DEFINE Request == [op : {"none", "create", "change", "roll"}, id : EndpointIds \cup {0},
                       url : {"local", "public", "kept"}, step : {"none", "route", "hook", "write"}, began : Nat]
           Endpoint == [there : BOOLEAN, local : BOOLEAN, active : BOOLEAN, began : Nat, wrote : Nat]
<1>0. /\ time \in Nat /\ saving \in [Savers -> Request] /\ endpoint \in [EndpointIds -> Endpoint]
      /\ NotSaving \in Request /\ NotSaving.step = "none" /\ NotSaving.op = "none"
      /\ NoEndpoint \in Endpoint /\ ~NoEndpoint.there
      /\ There \subseteq EndpointIds
  BY DEF EndpointInv, Timed, NotSaving, NoEndpoint, There
<1>1. ASSUME NEW s \in Savers, NEW request \in Request, Begin(s, request),
             request.op # "none", request.id \in EndpointIds, request.step # "write"
      PROVE  EndpointInv'
  <2> DEFINE new == [request EXCEPT !.began = time]
  <2>1. new \in Request /\ new.op # "none" /\ new.id \in EndpointIds /\ new.began = time /\ new.step # "write"
    BY <1>0, <1>1
  <2>2. saving' = [saving EXCEPT ![s] = new] /\ time' = time + 1 /\ UNCHANGED endpoint
    BY <1>1 DEF Begin, Tick
  <2> HIDE DEF new
  <2>3. time < time + 1
    BY <1>0
  <2> QED
    BY <2>1, <2>2, <2>3, RequestStep
<1>2. ASSUME NEW s \in Savers, NEW e \in EndpointIds, NEW url \in {"local", "public", "kept"},
             CreateEndpoint(s, e, url) \/ ChangeEndpoint(s, e, url) \/ RollEndpoint(s, e)
      PROVE  EndpointInv'
  <2>1. CASE CreateEndpoint(s, e, url)
    <3> DEFINE request == [NotSaving EXCEPT !.op = "create", !.id = e, !.url = url, !.step = "route"]
    <3>1. request \in Request /\ request.op = "create" /\ request.id = e /\ request.step = "route"
      BY <1>0
    <3>2. Begin(s, request)
      BY <2>1, <3>1 DEF CreateEndpoint
    <3> HIDE DEF request
    <3> QED
      BY <1>1, <3>1, <3>2
  <2>2. CASE ChangeEndpoint(s, e, url)
    <3> DEFINE request == [NotSaving EXCEPT !.op = "change", !.id = e, !.url = url, !.step = "route"]
    <3>1. request \in Request /\ request.op = "change" /\ request.id = e /\ request.step = "route"
      BY <1>0
    <3>2. Begin(s, request)
      BY <2>2, <3>1 DEF ChangeEndpoint
    <3> HIDE DEF request
    <3> QED
      BY <1>1, <3>1, <3>2
  <2>3. CASE RollEndpoint(s, e)
    <3> DEFINE request == [NotSaving EXCEPT !.op = "roll", !.id = e, !.step = "hook"]
    <3>1. request \in Request /\ request.op = "roll" /\ request.id = e /\ request.step = "hook"
      BY <1>0
    <3>2. Begin(s, request)
      BY <2>3, <3>1 DEF RollEndpoint
    <3> HIDE DEF request
    <3> QED
      BY <1>1, <3>1, <3>2
  <2> QED
    BY <1>2, <2>1, <2>2, <2>3
<1>3. ASSUME NEW s \in Savers, CheckRoute(s) \/ CheckHook(s)
      PROVE  EndpointInv'
  <2>1. CASE RefuseSave(s)
    BY <1>0, <2>1, RequestStep DEF RefuseSave
  <2>2. ASSUME NEW step \in {"hook", "write"}, GoOn(s, step), saving[s].step # "none",
               step = "write" => (WillBeLocal(s) => ~OtherLocal(saving[s].id))
        PROVE  EndpointInv'
    <3> DEFINE new == [saving[s] EXCEPT !.step = step]
    <3>1. new \in Request /\ new.op = saving[s].op /\ new.id = saving[s].id /\ new.url = saving[s].url
          /\ new.began = saving[s].began /\ new.step = step
      BY <1>0
    <3>2. saving' = [saving EXCEPT ![s] = new] /\ UNCHANGED <<endpoint, time>>
      BY <1>0, <2>2 DEF GoOn
    <3>3. new.op # "none" /\ new.began < time /\ new.id \in EndpointIds
      BY <2>2, <3>1 DEF EndpointInv, Timed
    <3>4. (new.step = "write" /\ new.url = "local") => ~OtherLocal(new.id)
      BY <2>2, <3>1 DEF WillBeLocal
    <3> HIDE DEF new
    <3> QED
      BY <3>1, <3>2, <3>3, <3>4, RequestStep
  <2>3. \/ RefuseSave(s)
        \/ GoOn(s, "hook") /\ saving[s].step # "none"
        \/ /\ GoOn(s, "write") /\ saving[s].step # "none"
           /\ WillBeLocal(s) => ~OtherLocal(saving[s].id)
    BY <1>3 DEF CheckRoute, CheckHook
  <2> QED
    BY <2>1, <2>2, <2>3
<1>4. ASSUME NEW s \in Savers, WriteEndpoint(s)
      PROVE  EndpointInv'
  <2> DEFINE r == saving[s]
             e == r.id
             created == [there |-> TRUE, local |-> r.url = "local", active |-> TRUE, began |-> r.began, wrote |-> time]
             moved == [endpoint[e] EXCEPT !.local = (r.url = "local"), !.began = r.began, !.wrote = time]
             switched == [endpoint[e] EXCEPT !.active = ~@]
  <2>1. /\ r \in Request /\ r.step = "write" /\ r.began < time /\ e \in EndpointIds /\ time' = time + 1
        /\ saving' \in [Savers -> Request]
        /\ \A x \in Savers : saving'[x] = saving[x] \/ saving'[x] = NotSaving
    BY <1>0, <1>4 DEF WriteEndpoint, Tick, EndpointInv, Timed
  <2>2. (r.op \in {"create", "change"} /\ r.url = "local") =>
          \A f \in There \ {e} : endpoint[f].local => r.began < endpoint[f].wrote
    BY <2>1 DEF EndpointInv, FoundNone
  <2>3. CASE r.op = "create"
    <3>1. endpoint' = [endpoint EXCEPT ![e] = created]
      BY <1>4, <2>3 DEF WriteEndpoint
    <3>2. created \in Endpoint
      BY <1>0, <2>1
    <3>3. created.wrote = time /\ created.began = r.began /\ (created.local => r.url = "local")
      OBVIOUS
    <3> HIDE DEF created, e, r
    <3>4. created.there => created.began <= created.wrote /\ created.wrote <= time
      BY <1>0, <2>1, <3>2, <3>3
    <3> QED
      BY <2>1, <2>2, <2>3, <3>1, <3>2, <3>3, <3>4, RowStep
  <2>4. CASE r.op = "change" /\ e \in There /\ r.url # "kept"
    <3>1. endpoint' = [endpoint EXCEPT ![e] = moved]
      BY <1>0, <1>4, <2>4 DEF WriteEndpoint
    <3>2. moved \in Endpoint /\ moved.wrote = time /\ moved.began = r.began /\ (moved.local => r.url = "local")
      BY <1>0, <2>1
    <3> HIDE DEF moved, e, r
    <3>4. moved.there => moved.began <= moved.wrote /\ moved.wrote <= time
      BY <1>0, <2>1, <3>2
    <3> QED
      BY <2>1, <2>2, <2>4, <3>1, <3>2, <3>4, RowStep
  <2>5. CASE r.op = "change" /\ e \in There /\ r.url = "kept"
    <3>1. endpoint' = [endpoint EXCEPT ![e] = switched]
      BY <1>0, <1>4, <2>5 DEF WriteEndpoint
    <3>2. switched \in Endpoint /\ switched.wrote = endpoint[e].wrote /\ switched.began = endpoint[e].began
          /\ switched.local = endpoint[e].local /\ switched.there = endpoint[e].there
      BY <1>0, <2>1, ZenonT(40)
    <3>3. endpoint[e].began <= endpoint[e].wrote /\ endpoint[e].wrote < time
      BY <2>5 DEF EndpointInv, Timed
    <3> HIDE DEF switched, e, r
    <3>4. switched.began <= switched.wrote /\ switched.wrote <= time
      BY <1>0, <2>1, <3>2, <3>3
    <3> QED
      BY <2>1, <2>5, <3>1, <3>2, <3>4, RowStep
  <2>6. CASE endpoint' = endpoint
    <3>1. NotSaving.op = "none"
      BY DEF NotSaving
    <3>2. saving' = [saving EXCEPT ![s] = NotSaving]
      BY <1>4 DEF WriteEndpoint
    <3> QED
      BY <1>0, <2>1, <2>6, <3>2, RequestStep
  <2> QED
    BY <1>4, <2>3, <2>4, <2>5, <2>6 DEF WriteEndpoint
<1>5. ASSUME NEW e \in EndpointIds, DeleteEndpoint(e)
      PROVE  EndpointInv'
  BY <1>0, <1>5, RowStep DEF DeleteEndpoint, Tick
<1>6. CASE UNCHANGED endpointVars
  BY <1>6 DEF endpointVars, EndpointInv, Timed, FoundNone, OneLocalhost, There
<1> QED
  BY <1>2, <1>3, <1>4, <1>5, <1>6 DEF EndpointNext

\* The invariant of the endpoints.
LEMMA EndpointInvariant == EndpointSpec => []EndpointInv
<1>1. EndpointInit => EndpointInv
  BY DEF EndpointInit, EndpointInv, Timed, FoundNone, OneLocalhost, There, NoEndpoint, NotSaving
<1> QED
  BY <1>1, EndpointStep, PTL DEF EndpointSpec

\* No time is later than now.
TimesBounded ==
  /\ time \in 0..MaxTime
  /\ \A e \in EndpointIds : endpoint[e].began \in 0..MaxTime /\ endpoint[e].wrote \in 0..MaxTime
  /\ \A s \in Savers : saving[s].began \in 0..MaxTime

\* A request takes the time it begins from the clock, and a row that it writes the time of both.
LEMMA TimesStep ==
  ASSUME EndpointInv, TimesBounded, [EndpointNext]_endpointVars
  PROVE  TimesBounded'
<1>0. /\ Timed /\ NoEndpoint.began \in 0..MaxTime /\ NoEndpoint.wrote \in 0..MaxTime /\ NotSaving.began \in 0..MaxTime
      /\ Tick => time' \in 0..MaxTime
  BY EndpointBounds DEF EndpointInv, TimesBounded, NoEndpoint, NotSaving, Tick
<1>1. ASSUME NEW s \in Savers, NEW request, request \in [op : {"none", "create", "change", "roll"}, id : EndpointIds \cup {0},
                           url : {"local", "public", "kept"}, step : {"none", "route", "hook", "write"}, began : Nat], Begin(s, request)
      PROVE  TimesBounded'
  <2>1. saving'[s].began = time /\ \A r \in Savers \ {s} : saving'[r] = saving[r]
    BY <1>0, <1>1 DEF Begin, Timed
  <2> QED
    BY <1>0, <1>1, <2>1 DEF Begin, TimesBounded
<1>2. ASSUME NEW s \in Savers, NEW e \in EndpointIds,
             RollEndpoint(s, e) \/ \E url \in {"local", "public", "kept"} : CreateEndpoint(s, e, url) \/ ChangeEndpoint(s, e, url)
      PROVE  TimesBounded'
  BY <1>1, <1>2 DEF RollEndpoint, CreateEndpoint, ChangeEndpoint, NotSaving
<1>3. ASSUME NEW s \in Savers, CheckRoute(s) \/ CheckHook(s)
      PROVE  TimesBounded'
  <2>1. UNCHANGED <<endpoint, time>> /\ saving'[s].began \in {saving[s].began, NotSaving.began}
        /\ \A r \in Savers \ {s} : saving'[r] = saving[r]
    BY <1>0, <1>3, SMTT(30) DEF CheckRoute, CheckHook, RefuseSave, GoOn, Timed
  <2> QED
    BY <1>0, <2>1 DEF TimesBounded
<1>4. ASSUME NEW s \in Savers, WriteEndpoint(s)
      PROVE  TimesBounded'
  <2>1. saving'[s] = NotSaving /\ \A r \in Savers \ {s} : saving'[r] = saving[r]
    BY <1>0, <1>4 DEF WriteEndpoint, Timed
  <2>2. saving[s].id \in EndpointIds /\ saving[s].op # "none"
    BY <1>0, <1>4 DEF WriteEndpoint, Timed
  <2>3. \A e \in EndpointIds : /\ endpoint'[e].began \in {endpoint[e].began, saving[s].began}
                               /\ endpoint'[e].wrote \in {endpoint[e].wrote, time}
    BY <1>0, <1>4, <2>2 DEF WriteEndpoint, Timed
  <2> QED
    BY <1>0, <1>4, <2>1, <2>3 DEF TimesBounded, WriteEndpoint
<1>5. ASSUME NEW e \in EndpointIds, DeleteEndpoint(e)
      PROVE  TimesBounded'
  BY <1>0, <1>5 DEF DeleteEndpoint, TimesBounded, Timed
<1>6. CASE UNCHANGED endpointVars
  BY <1>6 DEF endpointVars, TimesBounded
<1> QED
  BY <1>2, <1>3, <1>4, <1>5, <1>6 DEF EndpointNext

\* EndpointTypeOK: the requests under way and the rows they leave are of the kinds
\* the routes and hooks write, at times of the clock.
THEOREM EndpointTypes == EndpointSpec => []EndpointTypeOK
<1>1. EndpointInit => TimesBounded
  BY EndpointBounds DEF EndpointInit, TimesBounded, NoEndpoint, NotSaving
<1>2. EndpointInv /\ TimesBounded => EndpointTypeOK
  <2> SUFFICES ASSUME EndpointInv, TimesBounded
               PROVE  EndpointTypeOK
    OBVIOUS
  <2>1. \A e \in EndpointIds : endpoint[e] \in [there : BOOLEAN, local : BOOLEAN, active : BOOLEAN,
                                                began : 0..MaxTime, wrote : 0..MaxTime]
    BY DEF EndpointInv, Timed, TimesBounded
  <2> QED
    BY <2>1 DEF EndpointInv, Timed, TimesBounded, EndpointTypeOK
<1> QED
  BY <1>1, <1>2, EndpointInvariant, TimesStep, PTL DEF EndpointSpec

\* An organization has two endpoints on localhost only if the requests that made
\* them so were in flight at the same time: the checks of the route and of the
\* hook enforce the limit on requests one after the other.
THEOREM OneLocalhostHolds == EndpointSpec => []OneLocalhost
<1>1. EndpointInv => OneLocalhost
  BY DEF EndpointInv
<1> QED
  BY <1>1, EndpointInvariant, PTL

-----------------------------------------------------------------------------
(* The wizard of an import *)

Chosen == Inputs \cup {NoInput}
Wizards == [step : {"select", "review", "importing", "done"}, input : Chosen, plan : Chosen, report : Chosen,
            busy : BOOLEAN, password : BOOLEAN, error : BOOLEAN]
WizardCalls == [to : {"none", "analyze", "authorize", "apply", "stream"}, input : Chosen, told : BOOLEAN]

WizardTyped ==
  /\ wizard \in Wizards /\ call \in WizardCalls /\ reviewed \in Chosen
  /\ swapped \in BOOLEAN /\ cutLate \in BOOLEAN /\ clicks \in 0..MaxClicks

\* The wizard is busy while it waits; where it is tells what it waits for.
WaitsWhere ==
  /\ wizard.busy <=> call.to # "none"
  /\ call.to = "analyze" => wizard.step = "select" /\ call.input # NoInput
  /\ call.to \in {"authorize", "apply"} => wizard.step = "review" /\ wizard.plan # NoInput
  /\ wizard.step = "importing" <=> call.to = "stream" /\ ~call.told
  /\ call.to \in {"authorize", "apply", "stream"} => call.input # NoInput
  /\ call.told => call.to = "stream"

\* What each section shows is there, and is of the input it was made from.
ShowsWhatIsThere ==
  /\ wizard.step = "select" => wizard.plan = NoInput
  /\ wizard.step = "review" => wizard.plan # NoInput \/ cutLate
  /\ wizard.step = "importing" => wizard.plan # NoInput
  /\ wizard.step = "done" => wizard.report # NoInput
  /\ wizard.plan # NoInput => wizard.input # NoInput
  /\ wizard.plan # NoInput /\ ~swapped => wizard.input = wizard.plan
  /\ call.to = "analyze" /\ ~swapped => wizard.input = call.input
  /\ call.to = "analyze" => wizard.input # NoInput
  /\ call.to \in {"authorize", "apply", "stream"} /\ ~swapped => call.input = reviewed

WizardInv == WizardTyped /\ WaitsWhere /\ ShowsWhatIsThere

\* What the user and the answers do to the wizard keeps its invariant.
LEMMA WizardStep ==
  ASSUME WizardInv, [WizardNext]_wizardVars
  PROVE  WizardInv'
<1> USE WizardAssumption DEF WizardInv, WizardTyped, WaitsWhere, ShowsWhatIsThere, Wizards, WizardCalls, Chosen
<1>0. clicks < MaxClicks => clicks + 1 \in 0..MaxClicks
  OBVIOUS
<1>1. ASSUME NEW i \in Inputs, ChooseInput(i)
      PROVE  WizardInv'
  BY <1>0, <1>1 DEF ChooseInput, Press, Section
<1>2. CASE Analyze
  BY <1>0, <1>2 DEF Analyze, Press, Section, NoCall
<1>3. CASE TypePassword
  BY <1>0, <1>3 DEF TypePassword, Press, Section
<1>4. CASE RunImport
  BY <1>0, <1>4 DEF RunImport, Press, Section, NoCall
<1>5. CASE ResetWizard
  BY <1>0, <1>5 DEF ResetWizard, Press, Section, StartOver
<1>6. CASE PlanArrives
  BY <1>6 DEF PlanArrives, Answer, NoCall
<1>7. CASE RequestRefused
  BY <1>7 DEF RequestRefused, Answer, NoCall
<1>8. CASE Authorized
  BY <1>8 DEF Authorized, Answer
<1>9. CASE StreamBegins
  BY <1>9 DEF StreamBegins, Answer
<1>10. CASE DoneArrives
  BY <1>10 DEF DoneArrives, Answer
<1>11. CASE ErrorArrives
  BY <1>11 DEF ErrorArrives, Answer
<1>12. CASE StreamEnds
  BY <1>12 DEF StreamEnds, Answer, NoCall
<1>13. CASE ConnectionLost
  BY <1>13 DEF ConnectionLost, Answer, NoCall
<1>14. CASE UNCHANGED wizardVars
  BY <1>14 DEF wizardVars
<1> QED
  BY <1>1, <1>2, <1>3, <1>4, <1>5, <1>6, <1>7, <1>8, <1>9, <1>10, <1>11, <1>12, <1>13, <1>14 DEF WizardNext

\* The invariant of the wizard.
LEMMA WizardInvariant == WizardSpec => []WizardInv
<1>1. WizardInit => WizardInv
  <2> SUFFICES ASSUME WizardInit
               PROVE  WizardInv
    OBVIOUS
  <2>1. 0 \in 0..MaxClicks /\ NoInput \in Chosen
    BY WizardAssumption DEF Chosen
  <2>2. StartOver \in Wizards /\ NoCall \in WizardCalls
    BY <2>1 DEF StartOver, Wizards, NoCall, WizardCalls
  <2>3. WizardTyped
    BY <2>1, <2>2 DEF WizardInit, WizardTyped
  <2>4. WaitsWhere /\ ShowsWhatIsThere
    BY DEF WizardInit, WaitsWhere, ShowsWhatIsThere, StartOver, NoCall
  <2> QED
    BY <2>3, <2>4 DEF WizardInv
<1>2. WizardInv /\ [WizardNext]_wizardVars => WizardInv'
  BY WizardStep
<1> QED
  BY <1>1, <1>2, PTL DEF WizardSpec

\* WizardTypeOK: in whatever order files, answers and presses come, the wizard is
\* on one of its steps, with files that were chosen or none.
THEOREM WizardTypes == WizardSpec => []WizardTypeOK
<1>1. WizardInv => WizardTypeOK
  BY DEF WizardInv, WizardTyped, WizardTypeOK, Wizards, WizardCalls, Chosen
<1> QED
  BY <1>1, WizardInvariant, PTL

\* WizardShowsTheImport: whatever is clicked and whatever answer is late, what is
\* imported was reviewed, and some part of the wizard can be used.
THEOREM WizardHolds == WizardSpec => []WizardShowsTheImport
<1>1. WizardInv => WizardShowsTheImport
  BY DEF WizardInv, WizardTyped, WaitsWhere, ShowsWhatIsThere, WizardShowsTheImport, Section, Wizards, WizardCalls
<1> QED
  BY <1>1, WizardInvariant, PTL

-----------------------------------------------------------------------------
(* The rows of an import that are still pending *)

ImportedRows == [version : {1, 2}, pending : BOOLEAN]
ImportSteps == {"idle", "plan", "organization", "owner", "app", "payment", "endpoint", "invoice", "transactions", "queue"}
ImportRuns == [at : ImportSteps, file : Export \cup {Free}, create : SUBSET Config, endpoint : BOOLEAN,
               left : SUBSET Txs, pending : SUBSET Txs]

ImportTyped ==
  /\ import \in [Imports -> ImportRuns]
  /\ txRows \in [Txs -> ImportedRows \cup {Free}]
  /\ trackJobs \subseteq Txs /\ unqueued \subseteq Txs

\* A run works on a file, and what it or a tracker has to do has a row.
HandsOnRows ==
  /\ \A i \in Imports : /\ import[i].at # "idle" => import[i].file \in Export
                        /\ import[i].at = "idle" => import[i].pending = {}
                        /\ \A t \in import[i].pending : txRows[t] # Free
  /\ \A t \in trackJobs : txRows[t] # Free

ImportInv == ImportTyped /\ HandsOnRows /\ PendingIsTracked

\* A run that goes on and writes no transaction.
GoesOnWithout(i) ==
  /\ UNCHANGED <<txRows, trackJobs, unqueued>>
  /\ import' \in [Imports -> ImportRuns] /\ \A j \in Imports \ {i} : import'[j] = import[j]
  /\ import'[i].pending = import[i].pending
  /\ import'[i].at = "idle" => import[i].pending = {}
  /\ import'[i].at # "idle" => import'[i].file \in Export

\* Such a step keeps the invariant.
LEMMA GoesOnKeeps ==
  ASSUME ImportInv, NEW i \in Imports, GoesOnWithout(i)
  PROVE  ImportInv'
<1>1. ImportTyped'
  BY DEF ImportInv, ImportTyped, GoesOnWithout
<1>2. \A j \in Imports : import'[j].pending = import[j].pending
  BY DEF GoesOnWithout
<1>3. HandsOnRows'
  BY <1>2 DEF ImportInv, HandsOnRows, GoesOnWithout
<1>4. PendingIsTracked'
  BY <1>2 DEF ImportInv, PendingIsTracked, GoesOnWithout
<1> QED
  BY <1>1, <1>3, <1>4 DEF ImportInv

\* The steps that write the configuration are of that kind.
LEMMA ConfigStep ==
  ASSUME ImportInv, NEW i \in Imports,
         \/ Plan(i) \/ ImportOrganization(i) \/ ImportOwner(i) \/ ImportApp(i) \/ InsertPayment(i)
         \/ \E ok \in BOOLEAN : ImportEndpoint(i, ok)
         \/ InsertInvoice(i) \/ WriteDeliveries(i)
  PROVE  GoesOnWithout(i)
<1>1. PICK run \in ImportRuns : run = import[i]
  BY DEF ImportInv, ImportTyped
<1>2. run.at # "idle" => run.file \in Export
  BY <1>1 DEF ImportInv, HandsOnRows
<1>3. import \in [Imports -> ImportRuns]
  BY DEF ImportInv, ImportTyped
<1>4. ASSUME NEW from \in ImportSteps, from # "idle", NEW to \in ImportSteps, to # "idle", ImportStep(i, from, to),
             UNCHANGED <<txRows, trackJobs, unqueued>>
      PROVE  GoesOnWithout(i)
  <2>1. [run EXCEPT !.at = to] \in ImportRuns /\ run.at # "idle"
    BY <1>1, <1>4 DEF ImportRuns, ImportStep
  <2>2. import' = [import EXCEPT ![i] = [run EXCEPT !.at = to]]
    BY <1>1, <1>4 DEF ImportStep
  <2>3. [run EXCEPT !.at = to].at = to /\ [run EXCEPT !.at = to].pending = run.pending /\ [run EXCEPT !.at = to].file = run.file
    BY DEF ImportRuns
  <2> QED
    BY <1>1, <1>2, <1>3, <1>4, <2>1, <2>2, <2>3 DEF GoesOnWithout
<1>5. CASE Plan(i)
  <2>1. PICK refused \in SUBSET {"endpoint"} :
           import' = [import EXCEPT ![i].at = "organization", ![i].create = Config \ (node \cup refused),
                                    ![i].endpoint = refused = {}, ![i].left = Txs]
    BY <1>5 DEF Plan
  <2>2. /\ import' \in [Imports -> ImportRuns] /\ \A j \in Imports \ {i} : import'[j] = import[j]
        /\ import'[i].at = "organization" /\ import'[i].pending = run.pending /\ import'[i].file = run.file
    BY <1>1, <1>3, <2>1 DEF ImportRuns, ImportSteps
  <2>3. run.at # "idle" /\ UNCHANGED <<txRows, trackJobs, unqueued>>
    BY <1>1, <1>5 DEF Plan, nodeState, history
  <2> QED
    BY <1>1, <1>2, <2>2, <2>3 DEF GoesOnWithout
<1>6. CASE ImportOrganization(i)
  BY <1>4, <1>6 DEF ImportOrganization, ImportSteps, history
<1>7. CASE ImportOwner(i) \/ ImportApp(i) \/ InsertPayment(i) \/ InsertInvoice(i)
  BY <1>4, <1>7 DEF ImportOwner, ImportApp, InsertPayment, InsertInvoice, ImportSteps, history
<1>8. ASSUME NEW ok \in BOOLEAN, ImportEndpoint(i, ok)
      PROVE  GoesOnWithout(i)
  <2>1. PICK free \in BOOLEAN : free = (run.endpoint /\ (("endpoint" \in run.create) => ok))
    OBVIOUS
  <2>2. PICK next : next = [run EXCEPT !.at = "invoice", !.endpoint = free]
    OBVIOUS
  <2>3. next \in ImportRuns /\ next.at = "invoice" /\ next.pending = run.pending /\ next.file = run.file
    BY <2>2 DEF ImportRuns, ImportSteps
  <2>4. import' = [import EXCEPT ![i] = next] /\ run.at # "idle" /\ UNCHANGED <<txRows, trackJobs, unqueued>>
    BY <1>1, <1>8, <2>1, <2>2 DEF ImportEndpoint, history
  <2> QED
    BY <1>1, <1>2, <1>3, <2>3, <2>4 DEF GoesOnWithout
<1>9. CASE WriteDeliveries(i)
  BY <1>4, <1>9 DEF WriteDeliveries, ImportSteps, history
<1> QED
  BY <1>5, <1>6, <1>7, <1>8, <1>9

\* A run begins, stops with what it has not queued, or is done.
LEMMA RunStep ==
  ASSUME ImportInv, NEW i \in Imports,
         (\E exported \in Export : Apply(i, exported)) \/ Break(i) \/ ImporterDies(i) \/ Done(i)
  PROVE  ImportInv'
<1>0. ImportTyped /\ HandsOnRows /\ PendingIsTracked /\ import \in [Imports -> ImportRuns] /\ {} \subseteq Txs
  BY DEF ImportInv, ImportTyped
<1>1. /\ NoImport \in ImportRuns /\ NoImport.at = "idle" /\ NoImport.pending = {}
      /\ \A exported \in Export : LET run == [NoImport EXCEPT !.at = "plan", !.file = exported]
                                  IN run \in ImportRuns /\ run.at = "plan" /\ run.pending = {} /\ run.file = exported
  BY DEF NoImport, ImportRuns, ImportSteps
<1>2. ASSUME NEW exported \in Export, Apply(i, exported)
      PROVE  ImportInv'
  <2>1. UNCHANGED <<txRows, trackJobs, unqueued>> /\ import[i].at = "idle" /\ import[i].pending = {}
    BY <1>0, <1>2 DEF Apply, nodeState, history, HandsOnRows
  <2>2. CASE UNCHANGED import
    BY <1>0, <2>1, <2>2 DEF ImportInv, ImportTyped, HandsOnRows, PendingIsTracked
  <2>3. CASE import' = [import EXCEPT ![i] = [NoImport EXCEPT !.at = "plan", !.file = exported]]
    <3>1. GoesOnWithout(i)
      BY <1>0, <1>1, <2>1, <2>3 DEF GoesOnWithout
    <3> QED
      BY <3>1, GoesOnKeeps
  <2> QED
    BY <1>2, <2>2, <2>3 DEF Apply
<1>3. CASE Break(i) \/ ImporterDies(i)
  <2>1. /\ UNCHANGED <<txRows, trackJobs>> /\ unqueued' = unqueued \cup import[i].pending
        /\ import' = [import EXCEPT ![i] = NoImport] /\ import[i].pending \subseteq Txs
    BY <1>0, <1>3 DEF Break, ImporterDies, Stops, Ends, nodeState, ImportRuns
  <2>2. import' \in [Imports -> ImportRuns] /\ import'[i] = NoImport /\ \A j \in Imports \ {i} : import'[j] = import[j]
    BY <1>0, <1>1, <2>1
  <2>3. ImportTyped'
    BY <1>0, <2>1, <2>2 DEF ImportTyped
  <2>4. HandsOnRows'
    BY <1>0, <1>1, <2>1, <2>2 DEF HandsOnRows
  <2>5. PendingIsTracked'
    BY <1>0, <2>1, <2>2 DEF PendingIsTracked
  <2> QED
    BY <2>3, <2>4, <2>5 DEF ImportInv
<1>4. CASE Done(i)
  <2>1. /\ UNCHANGED <<txRows, trackJobs, unqueued>> /\ import[i].pending = {} /\ import' = [import EXCEPT ![i] = NoImport]
    BY <1>4 DEF Done, Ends, nodeState
  <2>2. GoesOnWithout(i)
    BY <1>0, <1>1, <2>1 DEF GoesOnWithout
  <2> QED
    BY <2>2, GoesOnKeeps
<1> QED
  BY <1>2, <1>3, <1>4

\* A run writes a transaction, or queues one.
LEMMA WriteStep ==
  ASSUME ImportInv, NEW i \in Imports, NEW t \in Txs, WriteTransactions(i, t) \/ QueuePending(i, t)
  PROVE  ImportInv'
<1>0. ImportTyped /\ HandsOnRows /\ PendingIsTracked /\ import \in [Imports -> ImportRuns]
  BY DEF ImportInv, ImportTyped
<1>1. PICK run \in ImportRuns : run = import[i]
  BY <1>0
<1>2. CASE WriteTransactions(i, t)
  <2> DEFINE Writes == run.pending \cup (IF WrittenPending(i, t) THEN {t} ELSE {})
  <2>1. run.at = "transactions" /\ run.file \in Export /\ run.file \in ImportedRows /\ run.file # Free
    BY <1>0, <1>1, <1>2, FreeAssumption DEF WriteTransactions, Write, HandsOnRows, Export, ImportedRows
  <2>2. /\ txRows' = IF Newer(i, t) THEN [txRows EXCEPT ![t] = run.file] ELSE txRows
        /\ import' = [import EXCEPT ![i].left = @ \ {t}, ![i].pending = Writes]
        /\ UNCHANGED <<trackJobs, unqueued>>
    BY <1>1, <1>2 DEF WriteTransactions, Write, history
  <2>3. Writes \subseteq Txs /\ run.pending \subseteq Writes /\ Writes \subseteq run.pending \cup {t}
    BY DEF ImportRuns
  <2> HIDE DEF Writes
  <2>4. /\ import' \in [Imports -> ImportRuns] /\ \A j \in Imports \ {i} : import'[j] = import[j]
        /\ import'[i].at = "transactions" /\ import'[i].file = run.file /\ import'[i].pending = Writes
    BY <1>0, <1>1, <2>1, <2>2, <2>3 DEF ImportRuns
  <2>5. /\ txRows' \in [Txs -> ImportedRows \cup {Free}] /\ \A u \in Txs \ {t} : txRows'[u] = txRows[u]
        /\ txRows'[t] = IF Newer(i, t) THEN run.file ELSE txRows[t]
    BY <1>0, <2>1, <2>2 DEF ImportTyped
  <2>6. ImportTyped'
    BY <1>0, <2>2, <2>4, <2>5 DEF ImportTyped
  <2>7. \A u \in Txs : txRows[u] # Free => txRows'[u] # Free
    BY <2>1, <2>5
  <2>8. txRows'[t] # Free
    BY <2>1, <2>5 DEF Newer
  <2>9. HandsOnRows'
    <3>1. ASSUME NEW u \in Writes
          PROVE  txRows'[u] # Free
      BY <1>0, <1>1, <2>3, <2>7, <2>8, <3>1 DEF HandsOnRows, ImportRuns
    <3>2. ASSUME NEW j \in Imports \ {i}, NEW u \in import[j].pending
          PROVE  txRows'[u] # Free
      BY <1>0, <2>7 DEF HandsOnRows, ImportRuns
    <3>3. ASSUME NEW u \in trackJobs
          PROVE  txRows'[u] # Free
      BY <1>0, <2>7 DEF HandsOnRows, ImportTyped
    <3> QED
      BY <1>0, <2>1, <2>2, <2>4, <3>1, <3>2, <3>3 DEF HandsOnRows
  <2>10. PendingIsTracked'
    <3>1. ASSUME NEW u \in Txs, txRows'[u] # Free, txRows'[u].pending
          PROVE  u \in trackJobs \cup unqueued \/ \E j \in Imports : u \in import'[j].pending
      <4>1. CASE txRows'[u] = txRows[u]
        BY <1>0, <1>1, <2>3, <2>4, <3>1, <4>1 DEF PendingIsTracked
      <4>2. CASE u = t /\ Newer(i, t)
        <5>1. WrittenPending(i, t)
          BY <1>1, <2>5, <3>1, <4>2 DEF WrittenPending
        <5>2. t \in Writes
          BY <5>1 DEF Writes
        <5> QED
          BY <2>4, <4>2, <5>2
      <4> QED
        BY <2>5, <4>1, <4>2
    <3> QED
      BY <2>2, <3>1 DEF PendingIsTracked
  <2> QED
    BY <2>6, <2>9, <2>10 DEF ImportInv
<1>3. CASE QueuePending(i, t)
  <2>1. /\ run.at = "queue" /\ t \in run.pending /\ trackJobs' = trackJobs \cup {t} /\ UNCHANGED <<txRows, unqueued>>
        /\ import' = [import EXCEPT ![i].pending = @ \ {t}]
    BY <1>1, <1>3 DEF QueuePending, history
  <2>2. /\ import' \in [Imports -> ImportRuns] /\ \A j \in Imports \ {i} : import'[j] = import[j]
        /\ import'[i].at = "queue" /\ import'[i].file = run.file /\ import'[i].pending = run.pending \ {t}
    BY <1>0, <1>1, <2>1 DEF ImportRuns
  <2>3. ImportTyped'
    BY <1>0, <2>1, <2>2 DEF ImportTyped
  <2>4. HandsOnRows'
    BY <1>0, <1>1, <2>1, <2>2 DEF HandsOnRows
  <2>5. PendingIsTracked'
    <3>1. ASSUME NEW u \in Txs, txRows[u] # Free, txRows[u].pending
          PROVE  u \in trackJobs' \cup unqueued \/ \E j \in Imports : u \in import'[j].pending
      BY <1>0, <1>1, <2>1, <2>2, <3>1 DEF PendingIsTracked
    <3> QED
      BY <2>1, <3>1 DEF PendingIsTracked
  <2> QED
    BY <2>3, <2>4, <2>5 DEF ImportInv
<1> QED
  BY <1>2, <1>3

\* The node's tracker finishes a row: it is not pending any more.
LEMMA FinishStep ==
  ASSUME ImportInv, NEW t \in Txs, TrackerFinishesImported(t)
  PROVE  ImportInv'
<1>0. ImportTyped /\ HandsOnRows /\ PendingIsTracked
  BY DEF ImportInv
<1>1. /\ t \in trackJobs /\ trackJobs' = trackJobs \ {t} /\ unqueued' = unqueued \ {t} /\ import' = import
      /\ txRows' = [txRows EXCEPT ![t].pending = FALSE]
  BY DEF TrackerFinishesImported
<1>2. PICK r \in ImportedRows : r = txRows[t]
  BY <1>0, <1>1 DEF ImportTyped, HandsOnRows
<1>3. [r EXCEPT !.pending = FALSE] \in ImportedRows /\ [r EXCEPT !.pending = FALSE].pending = FALSE
  BY DEF ImportedRows
<1>4. Free \notin ImportedRows
  BY FreeAssumption DEF ImportedRows
<1>5. /\ txRows' \in [Txs -> ImportedRows \cup {Free}] /\ \A u \in Txs \ {t} : txRows'[u] = txRows[u]
      /\ txRows'[t] = [r EXCEPT !.pending = FALSE]
  BY <1>0, <1>1, <1>2, <1>3 DEF ImportTyped
<1>6. ImportTyped'
  BY <1>0, <1>1, <1>5 DEF ImportTyped
<1>7. HandsOnRows'
  BY <1>0, <1>1, <1>3, <1>4, <1>5 DEF HandsOnRows, ImportTyped, ImportRuns
<1>8. PendingIsTracked'
  BY <1>0, <1>1, <1>3, <1>5 DEF PendingIsTracked
<1> QED
  BY <1>6, <1>7, <1>8 DEF ImportInv

\* The invariant of an import.
LEMMA ImportInvariant == ImportSpec => []ImportInv
<1>1. ImportInit => ImportInv
  BY DEF ImportInit, ImportInv, ImportTyped, HandsOnRows, PendingIsTracked, NoImport, ImportRuns, ImportSteps
<1>2. ImportInv /\ [ImportNext]_importVars => ImportInv'
  <2> SUFFICES ASSUME ImportInv, [ImportNext]_importVars
               PROVE  ImportInv'
    OBVIOUS
  <2>1. CASE Authorize \/ ImportTokenExpires \/ LockRunsOut \/ UNCHANGED importVars
    <3>1. UNCHANGED <<import, txRows, trackJobs, unqueued>>
      BY <2>1 DEF Authorize, ImportTokenExpires, LockRunsOut, importVars, nodeState, history
    <3> QED
      BY <3>1 DEF ImportInv, ImportTyped, HandsOnRows, PendingIsTracked
  <2>2. ASSUME NEW i \in Imports,
               \/ Plan(i) \/ ImportOrganization(i) \/ ImportOwner(i) \/ ImportApp(i) \/ InsertPayment(i)
               \/ \E ok \in BOOLEAN : ImportEndpoint(i, ok)
               \/ InsertInvoice(i) \/ WriteDeliveries(i)
        PROVE  ImportInv'
    BY <2>2, ConfigStep, GoesOnKeeps
  <2>3. ASSUME NEW i \in Imports, (\E exported \in Export : Apply(i, exported)) \/ Break(i) \/ ImporterDies(i) \/ Done(i)
        PROVE  ImportInv'
    BY <2>3, RunStep
  <2>4. ASSUME NEW i \in Imports, NEW t \in Txs, WriteTransactions(i, t) \/ QueuePending(i, t)
        PROVE  ImportInv'
    BY <2>4, WriteStep
  <2>5. ASSUME NEW t \in Txs, TrackerFinishesImported(t)
        PROVE  ImportInv'
    BY <2>5, FinishStep
  <2> QED
    BY <2>1, <2>2, <2>3, <2>4, <2>5 DEF ImportNext
<1> QED
  BY <1>1, <1>2, PTL DEF ImportSpec

ActiveRuns == {i \in Imports : import[i].at # "idle"}

\* Each import that was confirmed has its token, runs, is done or is lost.
RunsCounted ==
  /\ running \in Imports \cup {Free} /\ node \subseteq Config
  /\ tokens \in Nat /\ doneRuns \in Nat /\ confirmed \in 0..MaxImports
  /\ IsFiniteSet(ActiveRuns) /\ tokens + doneRuns + Cardinality(ActiveRuns) <= confirmed

\* A run that goes on is still the one run.
LEMMA RunGoesOn ==
  ASSUME ImportInv, RunsCounted, NEW i \in Imports, import[i].at # "idle", import'[i].at # "idle",
         \A j \in Imports \ {i} : import'[j] = import[j],
         UNCHANGED <<running, tokens, doneRuns, confirmed>>, node' \subseteq Config
  PROVE  RunsCounted'
<1>1. ActiveRuns' = ActiveRuns
  BY DEF ActiveRuns
<1> QED
  BY <1>1 DEF RunsCounted

\* One that ends is none any more.
LEMMA RunEnds ==
  ASSUME ImportInv, RunsCounted, NEW i \in Imports, import[i].at # "idle",
         import' = [import EXCEPT ![i] = NoImport], running' \in {running, Free},
         doneRuns' \in {doneRuns, doneRuns + 1}, UNCHANGED <<node, tokens, confirmed>>
  PROVE  RunsCounted'
<1>1. ActiveRuns' = ActiveRuns \ {i} /\ i \in ActiveRuns
  BY DEF ActiveRuns, ImportInv, ImportTyped, NoImport
<1>2. IsFiniteSet(ActiveRuns') /\ Cardinality(ActiveRuns') = Cardinality(ActiveRuns) - 1 /\ Cardinality(ActiveRuns) \in Nat
  BY <1>1, FS_RemoveElement, FS_CardinalityType DEF RunsCounted
<1> QED
  BY <1>2 DEF RunsCounted

\* One that begins takes a token.
LEMMA RunBegins ==
  ASSUME ImportInv, RunsCounted, NEW i \in Imports, NEW file \in Export, Apply(i, file)
  PROVE  RunsCounted'
<1>0. tokens \in Nat /\ tokens > 0 /\ tokens' = tokens - 1 /\ UNCHANGED <<node, doneRuns, confirmed>>
  BY DEF Apply, nodeState, history, RunsCounted
<1>1. CASE running = Free
  <2>1. running' = i /\ import' = [import EXCEPT ![i] = [NoImport EXCEPT !.at = "plan", !.file = file]]
    BY <1>1 DEF Apply
  <2>2. ActiveRuns' = ActiveRuns \cup {i}
    BY <2>1 DEF ActiveRuns, ImportInv, ImportTyped, NoImport
  <2>3. IsFiniteSet(ActiveRuns') /\ Cardinality(ActiveRuns') <= Cardinality(ActiveRuns) + 1
        /\ Cardinality(ActiveRuns) \in Nat /\ Cardinality(ActiveRuns') \in Nat
    <3>1. IsFiniteSet(ActiveRuns) /\ Cardinality(ActiveRuns) \in Nat
      BY FS_CardinalityType DEF RunsCounted
    <3>2. IsFiniteSet(ActiveRuns \cup {i}) /\ Cardinality(ActiveRuns \cup {i}) \in {Cardinality(ActiveRuns), Cardinality(ActiveRuns) + 1}
      BY <3>1, FS_AddElement, Zenon
    <3> QED
      BY <2>2, <3>1, <3>2
  <2> QED
    BY <1>0, <2>1, <2>3 DEF RunsCounted
<1>2. CASE running # Free
  <2>1. UNCHANGED <<running, import>>
    BY <1>2 DEF Apply
  <2>2. ActiveRuns' = ActiveRuns /\ Cardinality(ActiveRuns) \in Nat
    BY <2>1, FS_CardinalityType DEF ActiveRuns, RunsCounted
  <2> QED
    BY <1>0, <2>1, <2>2 DEF RunsCounted
<1> QED
  BY <1>1, <1>2

\* A run that starts consumes a confirmation, and one that is over was counted.
LEMMA RunsStep ==
  ASSUME ImportInv, RunsCounted, [ImportNext]_importVars
  PROVE  RunsCounted'
<1>0. Cardinality(ActiveRuns) \in Nat
  BY FS_CardinalityType DEF RunsCounted
<1>1. CASE Authorize \/ ImportTokenExpires \/ LockRunsOut \/ UNCHANGED importVars
  <2>1. UNCHANGED <<import, node, doneRuns>> /\ running' \in {running, Free}
        /\ \/ confirmed' = confirmed + 1 /\ confirmed < MaxImports /\ tokens' = tokens + 1
           \/ confirmed' = confirmed /\ tokens > 0 /\ tokens' = tokens - 1
           \/ UNCHANGED <<confirmed, tokens>>
    BY <1>1 DEF Authorize, ImportTokenExpires, LockRunsOut, nodeState, history, importVars
  <2>2. ActiveRuns' = ActiveRuns
    BY <2>1 DEF ActiveRuns
  <2>3. tokens' \in Nat /\ confirmed' \in 0..MaxImports /\ tokens' + doneRuns + Cardinality(ActiveRuns) <= confirmed'
    BY <1>0, <2>1, ImportAssumption DEF RunsCounted
  <2> QED
    BY <2>1, <2>2, <2>3 DEF RunsCounted
<1>2. ASSUME NEW i \in Imports,
             \/ Plan(i) \/ ImportOrganization(i) \/ ImportOwner(i) \/ ImportApp(i) \/ InsertPayment(i)
             \/ \E ok \in BOOLEAN : ImportEndpoint(i, ok)
             \/ InsertInvoice(i) \/ WriteDeliveries(i)
             \/ \E t \in Txs : WriteTransactions(i, t) \/ QueuePending(i, t)
      PROVE  RunsCounted'
  <2>1. import[i].at # "idle" /\ import'[i].at # "idle" /\ \A j \in Imports \ {i} : import'[j] = import[j]
    <3>1. import \in [Imports -> ImportRuns]
      BY DEF ImportInv, ImportTyped
    <3>2. CASE Plan(i)
      <4>1. PICK refused \in SUBSET {"endpoint"} :
              import' = [import EXCEPT ![i].at = "organization", ![i].create = Config \ (node \cup refused),
                                       ![i].endpoint = refused = {}, ![i].left = Txs]
        BY <3>2 DEF Plan
      <4>2. import[i].at = "plan"
        BY <3>2 DEF Plan
      <4> QED
        BY <3>1, <4>1, <4>2 DEF ImportRuns, ImportSteps
    <3>3. CASE ImportOrganization(i) \/ ImportOwner(i) \/ ImportApp(i) \/ InsertPayment(i) \/ InsertInvoice(i)
               \/ WriteDeliveries(i)
      BY <3>1, <3>3 DEF ImportOrganization, ImportOwner, ImportApp, InsertPayment, InsertInvoice, WriteDeliveries,
         ImportStep, ImportRuns
    <3>4. ASSUME NEW ok \in BOOLEAN, ImportEndpoint(i, ok)
          PROVE  import[i].at # "idle" /\ import'[i].at # "idle" /\ \A j \in Imports \ {i} : import'[j] = import[j]
      BY <3>1, <3>4 DEF ImportEndpoint
    <3>5. ASSUME NEW t \in Txs, WriteTransactions(i, t) \/ QueuePending(i, t)
          PROVE  import[i].at # "idle" /\ import'[i].at # "idle" /\ \A j \in Imports \ {i} : import'[j] = import[j]
      BY <3>1, <3>5 DEF WriteTransactions, Write, QueuePending, ImportRuns
    <3> QED
      BY <1>2, <3>2, <3>3, <3>4, <3>5
  <2>2. UNCHANGED <<running, tokens, doneRuns, confirmed>>
    BY <1>2 DEF Plan, ImportOrganization, ImportOwner, ImportApp, InsertPayment, ImportEndpoint, InsertInvoice,
       WriteDeliveries, WriteTransactions, Write, QueuePending, history
  <2>3. node' \subseteq Config
    BY <1>2 DEF Plan, ImportOrganization, ImportOwner, ImportApp, InsertPayment, ImportEndpoint, InsertInvoice,
       WriteDeliveries, WriteTransactions, Write, QueuePending, nodeState, Config, RunsCounted
  <2> QED
    BY <2>1, <2>2, <2>3, RunGoesOn
<1>3. ASSUME NEW i \in Imports, Break(i) \/ ImporterDies(i) \/ Done(i)
      PROVE  RunsCounted'
  BY <1>3, RunEnds DEF Break, ImporterDies, Done, Stops, Ends, nodeState
<1>4. ASSUME NEW t \in Txs, TrackerFinishesImported(t)
      PROVE  RunsCounted'
  BY <1>4 DEF TrackerFinishesImported, RunsCounted, ActiveRuns
<1> QED
  BY <1>1, <1>2, <1>3, <1>4, RunBegins DEF ImportNext

\* ImportTypeOK: tokens and finished runs are no more than there were imports confirmed, and
\* nothing but the configuration and the transactions of the export is written.
THEOREM ImportTypes == ImportSpec => []ImportTypeOK
<1>1. ImportInit => RunsCounted
  <2> SUFFICES ASSUME ImportInit
               PROVE  RunsCounted
    OBVIOUS
  <2>1. ActiveRuns = {}
    BY DEF ImportInit, ActiveRuns, NoImport
  <2>2. IsFiniteSet(ActiveRuns) /\ Cardinality(ActiveRuns) = 0
    BY <2>1, FS_EmptySet
  <2> QED
    BY <2>2, ImportAssumption DEF ImportInit, RunsCounted
<1>2. ImportInv /\ RunsCounted => ImportTypeOK
  <2> SUFFICES ASSUME ImportInv, RunsCounted
               PROVE  ImportTypeOK
    OBVIOUS
  <2>1. tokens \in 0..MaxImports /\ doneRuns \in 0..MaxImports
    BY ImportAssumption, FS_CardinalityType DEF RunsCounted
  <2>2. ImportedRows = Export \cup [version : {1}, pending : {FALSE}]
    BY DEF ImportedRows, Export
  <2>3. txRows \in [Txs -> Export \cup {Free} \cup [version : {1}, pending : {FALSE}]]
    BY <2>2, ImportedRows \cup {Free} = Export \cup {Free} \cup [version : {1}, pending : {FALSE}]
    DEF ImportInv, ImportTyped
  <2> QED
    BY <2>1, <2>3 DEF ImportInv, ImportTyped, RunsCounted, ImportTypeOK
<1> QED
  BY <1>1, <1>2, ImportInvariant, RunsStep, PTL DEF ImportSpec

\* PendingIsTracked: no pending row of an import is forgotten, unless the run that
\* wrote it stopped before it queued.
THEOREM PendingHolds == ImportSpec => []PendingIsTracked
<1>1. ImportInv => PendingIsTracked
  BY DEF ImportInv
<1> QED
  BY <1>1, ImportInvariant, PTL
-----------------------------------------------------------------------------
(* The field that sets the second factor up *)

Sites == [on : BOOLEAN, secret : Nat, backup : Nat, offered : Nat, secrets : Nat, codes : Nat]
Fields == [stage : {"idle", "enrolling", "backup-code", "disabling"}, loading : BOOLEAN, qr : Nat, code : Nat,
           backup : Nat, on : BOOLEAN]
FieldRequests == [id : Nat, kind : {"generate", "enable", "disable"}, code : Nat,
                  state : {"sent", "checked", "answered", "refused"}, value : Nat]

SetupTyped ==
  /\ site \in Sites /\ screen \in Fields /\ inFlight \subseteq FieldRequests
  /\ requestsSent \in Nat /\ messy \in BOOLEAN

\* A request is of the view it was sent from, or of the idle field after Cancel,
\* and an answer tells what the account has become.
SentFromView(r) ==
  /\ r.kind = "generate" => screen.stage = "idle" /\ ~screen.on
  /\ r.kind = "enable" => screen.stage \in {"idle", "enrolling"} /\ ~screen.on
  /\ r.kind = "disable" => screen.stage \in {"idle", "disabling"} /\ screen.on
  /\ r.state = "checked" => r.kind = "enable" /\ ~site.on
  /\ r.state = "answered" =>
       /\ r.kind = "generate" => site.offered \in {0, r.value}
       /\ r.kind = "enable" => site.on /\ site.backup = r.value /\ r.value # 0
       /\ r.kind = "disable" => ~site.on

\* The answer of a request that switched the second factor is on its way.
SwitchToTell == \E r \in inFlight : r.state = "answered" /\ r.kind \in {"enable", "disable"}

\* What the field shows of the account when no requests have overlapped.
FieldFollows ==
  /\ \A r1, r2 \in inFlight : r1 = r2
  /\ \A r \in inFlight : SentFromView(r)
  /\ ~SwitchToTell => screen.on = site.on /\ (site.on => site.backup \in shownCodes)
  /\ screen.stage = "backup-code" => inFlight = {} /\ site.on /\ screen.on /\ screen.backup = site.backup
  /\ screen.stage = "enrolling" => ~screen.on /\ site.offered \in {0, screen.qr}
  /\ screen.stage = "disabling" => screen.on

SetupInv == SetupTyped /\ (~messy => FieldFollows)

\* The view of each stage.
LEMMA ViewOfStage ==
  /\ View = "backup" => screen.stage = "backup-code"
  /\ View = "enrolling" <=> screen.stage = "enrolling"
  /\ View = "disabling" <=> screen.stage = "disabling"
  /\ View = "enabled" => screen.stage \notin {"enrolling", "disabling"} /\ screen.on
  /\ View = "disabled" => screen.stage \notin {"enrolling", "disabling"} /\ ~screen.on
<1>1. CASE screen.stage = "backup-code" /\ screen.backup # 0
  BY <1>1 DEF View
<1>2. CASE screen.stage \in {"enrolling", "disabling"}
  BY <1>2 DEF View
<1>3. CASE ~(screen.stage = "backup-code" /\ screen.backup # 0) /\ screen.stage \notin {"enrolling", "disabling"}
  <2>1. View = IF screen.on THEN "enabled" ELSE "disabled"
    BY <1>3 DEF View
  <2> QED
    BY <1>3, <2>1
<1> QED
  BY <1>1, <1>2, <1>3

\* No click, route or answer breaks the invariant.
LEMMA SetupStep ==
  ASSUME SetupInv, [SetupNext]_setupVars
  PROVE  SetupInv'
<1> USE SetupBounds DEF SetupInv, SetupTyped, Sites, Fields, FieldRequests, FieldFollows, SentFromView, SwitchToTell
<1>1. ASSUME NEW kind \in {"generate", "enable", "disable"}, SendRequest(kind),
             kind = "generate" => View = "disabled",
             kind = "enable" => screen.stage = "enrolling",
             kind = "disable" => screen.stage = "disabling"
      PROVE  SetupInv'
  <2> DEFINE new == [id |-> requestsSent', kind |-> kind, code |-> screen.code, state |-> "sent", value |-> 0]
  <2>1. new \in FieldRequests /\ new.kind = kind /\ new.state = "sent"
    BY <1>1 DEF SendRequest
  <2>2. inFlight' = inFlight \cup {new} /\ UNCHANGED <<site, shownCodes>>
        /\ screen' = [screen EXCEPT !.loading = TRUE] /\ messy' = (messy \/ inFlight # {})
    BY <1>1 DEF SendRequest
  <2> HIDE DEF new
  <2>3. SetupTyped'
    <3>1. requestsSent' \in Nat /\ messy' \in BOOLEAN
      BY <1>1, <2>2 DEF SendRequest
    <3>2. screen' \in Fields /\ inFlight' \subseteq FieldRequests /\ site' \in Sites
      BY <2>1, <2>2
    <3> QED
      BY <3>1, <3>2
  <2>4. ASSUME ~messy'
        PROVE  FieldFollows'
    <3>1. ~messy /\ inFlight = {} /\ inFlight' = {new}
      BY <2>2, <2>4
    <3>2. screen.stage # "backup-code" \/ kind = "generate"
      BY <1>1
    <3>3. screen.stage = "backup-code" => screen.on
      BY <3>1
    <3> QED
      BY <1>1, <2>1, <2>2, <3>1, <3>2, <3>3, ViewOfStage
  <2> QED
    BY <2>3, <2>4
<1>2. ASSUME Show(ResetField(screen))
      PROVE  SetupInv'
  BY <1>2, ZenonT(40) DEF Show, ResetField
<1>3. ASSUME TypeCode
      PROVE  SetupInv'
  BY <1>3 DEF TypeCode, Show, WrongCode
<1>4. CASE BackupView \/ EnrollView \/ DisableView \/ DisabledView
  BY <1>1, <1>2, <1>3, <1>4, ViewOfStage DEF BackupView, EnrollView, DisableView, DisabledView, ConfirmCode
<1>5. CASE EnabledView
  <2>1. screen' = [screen EXCEPT !.code = 0, !.stage = "disabling"] /\ screen.on
        /\ UNCHANGED <<site, inFlight, requestsSent, messy, shownCodes>>
    BY <1>5, ViewOfStage DEF EnabledView, Show
  <2>2. ~messy => \A r \in inFlight : screen.stage # "enrolling" /\ r.kind = "disable"
    BY <2>1
  <2> QED
    BY <2>1, <2>2
<1>6. CASE ReloadPage
  BY <1>6 DEF ReloadPage, Fresh
<1>7. CASE OfferExpires
  BY <1>7 DEF OfferExpires
<1> DEFINE Moves(r, q, state, value) ==
             /\ q.kind = r.kind /\ q.state = state /\ q.value = value
             /\ inFlight = {r} /\ inFlight' = {q} /\ screen.stage # "backup-code"
<1>8. ASSUME NEW r \in inFlight, NEW state \in {"sent", "checked", "answered", "refused"}, NEW value \in Nat,
             Becomes(r, state, value), site' \in Sites, UNCHANGED <<screen, requestsSent>>, messy' \in BOOLEAN,
             messy => messy'
      PROVE  SetupTyped' /\ (~messy' => \E q : Moves(r, q, state, value))
  <2> DEFINE q == [r EXCEPT !.state = state, !.value = value]
  <2>1. q \in FieldRequests /\ q.kind = r.kind /\ q.state = state /\ q.value = value
    OBVIOUS
  <2>2. inFlight' = (inFlight \ {r}) \cup {q}
    BY <1>8 DEF Becomes
  <2> HIDE DEF q
  <2>3. SetupTyped'
    BY <1>8, <2>1, <2>2
  <2>4. ~messy' => inFlight = {r} /\ inFlight' = {q} /\ screen.stage # "backup-code"
    BY <1>8, <2>2
  <2> QED
    BY <2>1, <2>3, <2>4
<1>9. ASSUME NEW r \in inFlight, RefuseRequest(r) \/ CheckEnable(r) \/ AnswerLost(r)
      PROVE  SetupInv'
  <2>1. UNCHANGED <<site, screen, requestsSent, shownCodes>> /\ messy' \in BOOLEAN /\ (messy => messy')
        /\ site.offered \in Nat
    BY <1>9 DEF RefuseRequest, CheckEnable, AnswerLost
  <2>2. CASE RefuseRequest(r)
    <3>1. Becomes(r, "refused", 0) /\ r.state = "sent" /\ messy' = messy
      BY <2>2 DEF RefuseRequest
    <3>2. SetupTyped' /\ (~messy' => \E q : Moves(r, q, "refused", 0))
      BY <1>8, <2>1, <3>1
    <3> QED
      BY <2>1, <3>1, <3>2
  <2>3. CASE CheckEnable(r)
    <3>1. Becomes(r, "checked", site.offered) /\ r.state = "sent" /\ r.kind = "enable" /\ ~site.on /\ messy' = messy
      BY <2>3 DEF CheckEnable
    <3>2. SetupTyped' /\ (~messy' => \E q : Moves(r, q, "checked", site.offered))
      BY <1>8, <2>1, <3>1
    <3> QED
      BY <2>1, <3>1, <3>2
  <2>4. CASE AnswerLost(r)
    <3>1. Becomes(r, "refused", 0) /\ messy' = TRUE
      BY <2>4 DEF AnswerLost
    <3> QED
      BY <1>8, <2>1, <3>1
  <2> QED
    BY <1>9, <2>2, <2>3, <2>4
<1>10. ASSUME NEW r \in inFlight, GenerateSecret(r)
       PROVE  SetupInv'
  <2>1. site \in Sites /\ site' = [site EXCEPT !.secrets = site.secrets + 1, !.offered = site.secrets + 1] /\ ~site.on
    BY <1>10 DEF GenerateSecret
  <2>2. site' \in Sites /\ site'.secrets \in Nat /\ site'.offered = site'.secrets /\ site'.on = site.on
        /\ site'.backup = site.backup /\ ~site.on
    <3> HIDE DEF SetupInv, SetupTyped, FieldFollows
    <3> DEFINE next == site.secrets + 1
    <3>1. next \in Nat /\ site' = [site EXCEPT !.secrets = next, !.offered = next]
      BY <2>1
    <3> HIDE DEF next
    <3> QED
      BY <2>1, <3>1
  <2>3. Becomes(r, "answered", site'.secrets) /\ UNCHANGED <<screen, requestsSent, messy, shownCodes>>
        /\ r.kind = "generate"
    BY <1>10 DEF GenerateSecret
  <2>4. SetupTyped' /\ (~messy' => \E q : Moves(r, q, "answered", site'.secrets))
    BY <1>8, <2>2, <2>3
  <2> QED
    BY <2>2, <2>3, <2>4
<1>11. ASSUME NEW r \in inFlight, WriteEnable(r)
       PROVE  SetupInv'
  <2>1. /\ site \in Sites /\ r.value \in Nat
        /\ site' = [site EXCEPT !.on = TRUE, !.secret = r.value, !.backup = site.codes + 1,
                                !.codes = site.codes + 1, !.offered = 0]
    BY <1>11 DEF WriteEnable
  <2>2. site' \in Sites /\ site'.backup \in Nat \ {0} /\ site'.on
    <3> HIDE DEF SetupInv, SetupTyped, FieldFollows
    <3> DEFINE next == site.codes + 1
    <3>1. next \in Nat \ {0}
          /\ site' = [site EXCEPT !.on = TRUE, !.secret = r.value, !.backup = next, !.codes = next, !.offered = 0]
      BY <2>1
    <3> HIDE DEF next
    <3>2. site' = [on |-> TRUE, secret |-> r.value, backup |-> next, offered |-> 0,
                   secrets |-> site.secrets, codes |-> next]
      BY <2>1, <3>1
    <3>3. site.secrets \in Nat /\ r.value \in Nat /\ next \in Nat
      BY <2>1, <3>1
    <3>4. site' \in Sites
      BY <3>2, <3>3
    <3>5. site'.backup = next /\ site'.on
      BY <3>2
    <3> QED
      BY <3>1, <3>4, <3>5
  <2>3. Becomes(r, "answered", site'.backup) /\ UNCHANGED <<screen, requestsSent, messy, shownCodes>>
        /\ r.kind = "enable"
    BY <1>11 DEF WriteEnable
  <2>4. SetupTyped' /\ (~messy' => \E q : Moves(r, q, "answered", site'.backup))
    BY <1>8, <2>2, <2>3
  <2>5. ASSUME ~messy'
        PROVE  FieldFollows'
    <3>1. PICK q : Moves(r, q, "answered", site'.backup)
      BY <2>4, <2>5
    <3>2. screen' = screen /\ r.kind = "enable" /\ q.kind = "enable" /\ q.state = "answered" /\ q.value = site'.backup
      BY <2>3, <3>1
    <3>3. screen'.stage \in {"idle", "enrolling"} /\ ~screen'.on
      BY <2>3, <2>5, <3>1
    <3>4. SwitchToTell'
      BY <3>1, <3>2
    <3>5. SentFromView(q)'
      BY <2>2, <3>2, <3>3
    <3>6. \A other \in inFlight' : other = q
      BY <3>1
    <3>7. screen'.stage # "backup-code" /\ screen'.stage # "disabling"
      BY <3>3
    <3>8. screen'.stage = "enrolling" => site'.offered = 0
      BY <2>1
    <3> QED
      BY <3>3, <3>4, <3>5, <3>6, <3>7, <3>8
  <2> QED
    BY <2>4, <2>5
<1>12. ASSUME NEW r \in inFlight, SwitchOff(r)
       PROVE  SetupInv'
  <2>1. site \in Sites /\ site' = [site EXCEPT !.on = FALSE, !.secret = 0, !.backup = 0]
    BY <1>12 DEF SwitchOff
  <2>2. site' \in Sites /\ ~site'.on
    <3> HIDE DEF SetupInv, SetupTyped, FieldFollows
    <3> QED
      BY <2>1
  <2>3. Becomes(r, "answered", 0) /\ UNCHANGED <<screen, requestsSent, messy, shownCodes>>
        /\ r.kind = "disable"
    BY <1>12 DEF SwitchOff
  <2>4. SetupTyped' /\ (~messy' => \E q : Moves(r, q, "answered", 0))
    BY <1>8, <2>2, <2>3
  <2> QED
    BY <2>2, <2>3, <2>4
<1>13. ASSUME NEW r \in inFlight, startEnroll(r)
       PROVE  SetupInv'
  BY <1>13, ZenonT(40) DEF startEnroll, Answered
<1>14. ASSUME NEW r \in inFlight, confirmEnroll(r)
       PROVE  SetupInv'
  <2>1. r.kind = "enable" /\ inFlight' = inFlight \ {r} /\ UNCHANGED <<site, requestsSent, messy>>
    BY <1>14 DEF confirmEnroll, Answered
  <2>2. CASE r.state = "answered"
    <3>1. screen' = [screen EXCEPT !.on = TRUE, !.backup = r.value, !.stage = "backup-code", !.loading = FALSE]
      BY <1>14, <2>2 DEF confirmEnroll, Answered
    <3>2. shownCodes' = shownCodes \cup ({r.value} \ {0})
      BY <1>14, <3>1 DEF confirmEnroll
    <3>3. SetupTyped'
      BY <2>1, <3>1
    <3>4. ASSUME ~messy'
          PROVE  FieldFollows'
      <4>1. inFlight' = {} /\ site.on /\ site.backup = r.value /\ r.value # 0
        BY <2>1, <2>2, <3>4
      <4>2. screen'.stage = "backup-code" /\ screen'.on /\ screen'.backup = r.value
        BY <3>1
      <4> QED
        BY <2>1, <3>2, <4>1, <4>2
    <3> QED
      BY <3>3, <3>4
  <2>3. CASE r.state # "answered"
    <3>1. screen' = [screen EXCEPT !.loading = FALSE] /\ r.state = "refused"
      BY <1>14, <2>3 DEF confirmEnroll, Answered
    <3>2. shownCodes \subseteq shownCodes'
      BY <1>14 DEF confirmEnroll
    <3> QED
      BY <2>1, <2>3, <3>1, <3>2, ZenonT(40)
  <2> QED
    BY <2>2, <2>3
<1>15. ASSUME NEW r \in inFlight, confirmDisable(r)
       PROVE  SetupInv'
  BY <1>15, ZenonT(40) DEF confirmDisable, Answered, ResetField
<1>16. CASE UNCHANGED setupVars
  BY <1>16 DEF setupVars
<1> QED
  BY <1>4, <1>5, <1>6, <1>7, <1>9, <1>10, <1>11, <1>12, <1>13, <1>14, <1>15, <1>16 DEF SetupNext

\* The invariant of the field.
LEMMA SetupInvariant == SetupSpec => []SetupInv
<1>1. SetupInit => SetupInv
  <2> SUFFICES ASSUME SetupInit
               PROVE  SetupTyped /\ FieldFollows
    BY DEF SetupInv
  <2>1. inFlight = {} /\ site.on = FALSE /\ screen.on = FALSE /\ screen.stage = "idle"
    BY DEF SetupInit, Fresh
  <2>2. SetupTyped
    BY DEF SetupInit, SetupTyped, Sites, Fields, FieldRequests, Fresh
  <2> QED
    BY <2>1, <2>2 DEF FieldFollows, SwitchToTell
<1>2. SetupInv /\ [SetupNext]_setupVars => SetupInv'
  BY SetupStep
<1> QED
  BY <1>1, <1>2, PTL DEF SetupSpec

\* The requests that a route may still answer.
OpenRequests == {r \in inFlight : r.state \in {"sent", "checked"}}

\* Every recovery code was made by a request, which is open no longer.
CodesCounted == IsFiniteSet(OpenRequests) /\ site.codes + Cardinality(OpenRequests) <= requestsSent

\* What the field shows and the answers tell was made by the site.
SecretsMade ==
  /\ requestsSent \in 0..MaxSent
  /\ site.secrets \in 0..MaxOffered /\ site.offered \in 0..site.secrets
  /\ screen.qr \in 0..site.secrets /\ screen.code \in 0..WrongCode
  /\ screen.backup \in 0..site.codes /\ shownCodes \subseteq 1..site.codes
  /\ \A r \in inFlight : r.state = "answered" =>
       /\ r.kind = "generate" => r.value \in 0..site.secrets
       /\ r.kind = "enable" => r.value \in 0..site.codes

\* A route that is done with a request leaves the others open.
LEMMA OpenBecomes ==
  ASSUME SetupTyped, CodesCounted, NEW r \in inFlight, NEW state \in {"checked", "answered", "refused"}, NEW value \in Nat,
         Becomes(r, state, value), state = "checked" => r.state = "sent"
  PROVE  /\ IsFiniteSet(OpenRequests') /\ Cardinality(OpenRequests') \in Nat /\ Cardinality(OpenRequests) \in Nat
         /\ Cardinality(OpenRequests') <= Cardinality(OpenRequests)
         /\ (r.state = "checked" /\ state = "answered") => Cardinality(OpenRequests') = Cardinality(OpenRequests) - 1
<1> DEFINE q == [r EXCEPT !.state = state, !.value = value]
           others == OpenRequests \ {r}
<1>1. q.state = state /\ inFlight' = (inFlight \ {r}) \cup {q}
  BY DEF Becomes, SetupTyped, FieldRequests
<1>2. IsFiniteSet(OpenRequests) /\ Cardinality(OpenRequests) \in Nat
  BY FS_CardinalityType DEF CodesCounted
<1>3. /\ IsFiniteSet(others) /\ Cardinality(others) \in Nat
      /\ Cardinality(others) = IF r \in OpenRequests THEN Cardinality(OpenRequests) - 1 ELSE Cardinality(OpenRequests)
  BY <1>2, FS_RemoveElement, FS_CardinalityType
<1>4. CASE state = "checked"
  <2>1. OpenRequests' = others \cup {q} /\ r \in OpenRequests
    BY <1>1, <1>4 DEF OpenRequests
  <2>2. IsFiniteSet(others \cup {q}) /\ Cardinality(others \cup {q}) \in {Cardinality(others), Cardinality(others) + 1}
    <3> HIDE DEF others, q
    <3> QED
      BY <1>3, FS_AddElement, Zenon
  <2> HIDE DEF others, q
  <2> QED
    BY <1>2, <1>3, <1>4, <2>1, <2>2
<1>5. CASE state # "checked"
  <2>1. OpenRequests' = others
    BY <1>1, <1>5 DEF OpenRequests
  <2>2. r.state = "checked" => r \in OpenRequests
    BY DEF OpenRequests
  <2> HIDE DEF others, q
  <2> QED
    BY <1>2, <1>3, <2>1, <2>2
<1> QED
  BY <1>4, <1>5

\* What a route makes of a request it has answered before the screen has.
LEMMA ValuesBecome ==
  ASSUME SetupTyped, NEW r \in inFlight, NEW state \in {"checked", "answered", "refused"}, NEW value \in Nat,
         Becomes(r, state, value), NEW x \in inFlight'
  PROVE  x \in inFlight \/ (x.kind = r.kind /\ x.state = state /\ x.value = value)
BY DEF Becomes, SetupTyped, FieldRequests

\* The routes make secrets and codes, and tell them.
LEMMA RoutesMake ==
  ASSUME SetupInv, SecretsMade, CodesCounted, NEW r \in inFlight,
         RefuseRequest(r) \/ GenerateSecret(r) \/ CheckEnable(r) \/ WriteEnable(r) \/ SwitchOff(r) \/ AnswerLost(r)
  PROVE  SecretsMade' /\ CodesCounted'
<1>0. SetupTyped /\ site \in Sites /\ r.value \in Nat /\ requestsSent \in Nat
  BY DEF SetupInv, SetupTyped, FieldRequests
<1>1. UNCHANGED <<screen, requestsSent, shownCodes>>
  BY DEF RefuseRequest, GenerateSecret, CheckEnable, WriteEnable, SwitchOff, AnswerLost
<1>2. ASSUME NEW state \in {"checked", "answered", "refused"}, NEW value \in Nat, Becomes(r, state, value),
             state = "checked" => r.state = "sent",
             site'.secrets \in site.secrets..MaxOffered, site'.offered \in 0..site'.secrets,
             \/ site'.codes = site.codes
             \/ site'.codes = site.codes + 1 /\ r.state = "checked" /\ state = "answered",
             (state = "answered" /\ r.kind = "generate") => value \in 0..site'.secrets,
             (state = "answered" /\ r.kind = "enable") => value \in 0..site'.codes
      PROVE  SecretsMade' /\ CodesCounted'
  <2>1. site.codes \in Nat /\ site'.codes \in Nat /\ site.codes <= site'.codes
        /\ site.secrets \in Nat /\ site'.secrets \in Nat /\ site.secrets <= site'.secrets
    BY <1>0, <1>2 DEF Sites
  <2>2. \A x \in inFlight' : x.state = "answered" =>
          /\ x.kind = "generate" => x.value \in 0..site'.secrets
          /\ x.kind = "enable" => x.value \in 0..site'.codes
    <3> TAKE x \in inFlight'
    <3>1. CASE x \in inFlight
      BY <2>1, <3>1 DEF SecretsMade
    <3>2. CASE x.kind = r.kind /\ x.state = state /\ x.value = value
      BY <1>2, <3>2
    <3> QED
      BY <1>0, <1>2, <3>1, <3>2, ValuesBecome
  <2>3. SecretsMade'
    <3>1. site'.secrets \in 0..MaxOffered /\ site'.offered \in 0..site'.secrets
      BY <1>2, <2>1, SetupBounds
    <3>2. screen'.qr \in 0..site'.secrets /\ screen'.code \in 0..WrongCode' /\ screen'.backup \in 0..site'.codes
          /\ requestsSent' \in 0..MaxSent
      BY <1>1, <2>1 DEF SecretsMade, WrongCode
    <3>3. shownCodes' \subseteq 1..site'.codes
      BY <1>1, <2>1 DEF SecretsMade
    <3> QED
      BY <2>2, <3>1, <3>2, <3>3 DEF SecretsMade, WrongCode
  <2>4. CodesCounted'
    <3>1. /\ IsFiniteSet(OpenRequests') /\ Cardinality(OpenRequests') \in Nat /\ Cardinality(OpenRequests) \in Nat
          /\ Cardinality(OpenRequests') <= Cardinality(OpenRequests)
          /\ (r.state = "checked" /\ state = "answered") => Cardinality(OpenRequests') = Cardinality(OpenRequests) - 1
      BY <1>0, <1>2, OpenBecomes
    <3> QED
      BY <1>0, <1>1, <1>2, <2>1, <3>1 DEF CodesCounted
  <2> QED
    BY <2>3, <2>4
<1>3. /\ site.secrets \in 0..MaxOffered /\ site.offered \in 0..site.secrets /\ site.codes \in Nat
  BY <1>0 DEF SecretsMade, Sites
<1>4. CASE RefuseRequest(r) \/ AnswerLost(r)
  <2>1. Becomes(r, "refused", 0) /\ site' = site
    BY <1>4 DEF RefuseRequest, AnswerLost
  <2> QED
    BY <1>2, <1>3, <2>1, SetupBounds
<1>5. CASE CheckEnable(r)
  <2>1. Becomes(r, "checked", site.offered) /\ site' = site /\ r.state = "sent"
    BY <1>5 DEF CheckEnable
  <2> QED
    BY <1>2, <1>3, <2>1, SetupBounds
<1>6. CASE GenerateSecret(r)
  <2>1. /\ site.secrets < MaxOffered /\ r.kind = "generate" /\ Becomes(r, "answered", site'.secrets)
        /\ site' = [site EXCEPT !.secrets = site.secrets + 1, !.offered = site.secrets + 1]
    BY <1>6 DEF GenerateSecret
  <2>2. site'.secrets = site.secrets + 1 /\ site'.offered = site.secrets + 1 /\ site'.codes = site.codes
    BY <1>0, <2>1 DEF Sites
  <2> QED
    BY <1>2, <1>3, <2>1, <2>2, SetupBounds
<1>7. CASE WriteEnable(r)
  <2>1. /\ r.state = "checked" /\ r.kind = "enable" /\ Becomes(r, "answered", site'.backup)
        /\ site' = [site EXCEPT !.on = TRUE, !.secret = r.value, !.backup = site.codes + 1,
                                !.codes = site.codes + 1, !.offered = 0]
    BY <1>7 DEF WriteEnable
  <2>2. site'.secrets = site.secrets /\ site'.offered = 0 /\ site'.codes = site.codes + 1
        /\ site'.backup = site.codes + 1
    BY <1>0, <2>1 DEF Sites
  <2> QED
    BY <1>2, <1>3, <2>1, <2>2, SetupBounds
<1>8. CASE SwitchOff(r)
  <2>1. /\ r.kind = "disable" /\ Becomes(r, "answered", 0)
        /\ site' = [site EXCEPT !.on = FALSE, !.secret = 0, !.backup = 0]
    BY <1>8 DEF SwitchOff
  <2>2. site'.secrets = site.secrets /\ site'.offered = site.offered /\ site'.codes = site.codes
    BY <1>0, <2>1 DEF Sites
  <2> QED
    BY <1>2, <1>3, <2>1, <2>2, SetupBounds
<1> QED
  BY <1>4, <1>5, <1>6, <1>7, <1>8

\* A request is one that is open.
LEMMA SendCounted ==
  ASSUME SetupInv, SecretsMade, CodesCounted, NEW kind \in {"generate", "enable", "disable"}, SendRequest(kind)
  PROVE  SecretsMade' /\ CodesCounted'
<1> DEFINE new == [id |-> requestsSent', kind |-> kind, code |-> screen.code, state |-> "sent", value |-> 0]
<1>1. /\ new.state = "sent" /\ inFlight' = inFlight \cup {new} /\ UNCHANGED <<site, shownCodes>>
      /\ screen' = [screen EXCEPT !.loading = TRUE] /\ requestsSent' = requestsSent + 1 /\ requestsSent < MaxSent
  BY DEF SendRequest
<1>2. screen \in Fields /\ site \in Sites
  BY DEF SetupInv, SetupTyped
<1>3. screen'.qr = screen.qr /\ screen'.code = screen.code /\ screen'.backup = screen.backup
  BY <1>1, <1>2 DEF Fields
<1>4. OpenRequests' = OpenRequests \cup {new}
  BY <1>1 DEF OpenRequests
<1> HIDE DEF new
<1>5. IsFiniteSet(OpenRequests) /\ Cardinality(OpenRequests) \in Nat
  BY FS_CardinalityType DEF CodesCounted
<1>6. IsFiniteSet(OpenRequests') /\ Cardinality(OpenRequests') \in {Cardinality(OpenRequests), Cardinality(OpenRequests) + 1}
  BY <1>4, <1>5, FS_AddElement, Zenon
<1>7. SecretsMade'
  BY <1>1, <1>3, SetupBounds DEF SecretsMade, WrongCode
<1>8. CodesCounted'
  <2>1. site.codes \in Nat /\ requestsSent \in Nat
    BY <1>2, SetupBounds DEF Sites, SecretsMade
  <2> QED
    BY <1>1, <1>5, <1>6, <2>1 DEF CodesCounted
<1> QED
  BY <1>7, <1>8

\* The screen shows what was made, and the one new code that an answer brings.
LEMMA ScreenShows ==
  ASSUME SetupInv, SecretsMade, CodesCounted,
         \/ BackupView \/ EnrollView \/ DisableView \/ EnabledView \/ DisabledView \/ ReloadPage \/ OfferExpires
         \/ \E r \in inFlight : startEnroll(r) \/ confirmEnroll(r) \/ confirmDisable(r)
         \/ UNCHANGED setupVars
  PROVE  SecretsMade' /\ CodesCounted'
<1>0. screen \in Fields /\ site \in Sites /\ inFlight \subseteq FieldRequests /\ requestsSent \in Nat
      /\ site.secrets \in Nat /\ site.codes \in Nat
  BY DEF SetupInv, SetupTyped, Sites
<1>1. ASSUME screen'.qr \in 0..site.secrets, screen'.code \in 0..WrongCode, screen'.backup \in 0..site.codes,
             shownCodes' \subseteq 1..site.codes, inFlight' \subseteq inFlight, OpenRequests' = OpenRequests,
             UNCHANGED <<site, requestsSent>>
      PROVE  SecretsMade' /\ CodesCounted'
  BY <1>1 DEF SecretsMade, CodesCounted, WrongCode
<1>2. ASSUME NEW s \in Fields, Show(s), s.qr \in 0..site.secrets, s.code \in 0..WrongCode, s.backup \in 0..site.codes
      PROVE  SecretsMade' /\ CodesCounted'
  BY <1>1, <1>2 DEF Show, OpenRequests, SecretsMade
<1>3. CASE Show(ResetField(screen))
  <2>1. ResetField(screen) \in Fields /\ ResetField(screen).qr = 0 /\ ResetField(screen).code = 0
        /\ ResetField(screen).backup = screen.backup
    BY <1>0 DEF ResetField, Fields
  <2> QED
    BY <1>0, <1>2, <1>3, <2>1, SetupBounds DEF SecretsMade, WrongCode
<1>4. CASE TypeCode
  <2>1. PICK code \in 1..site.secrets \cup {WrongCode} : Show([screen EXCEPT !.code = code])
    BY <1>4 DEF TypeCode
  <2>2. code \in 0..WrongCode /\ code \in Nat
    BY SetupBounds DEF SecretsMade, WrongCode
  <2>3. [screen EXCEPT !.code = code] \in Fields /\ [screen EXCEPT !.code = code].qr = screen.qr
        /\ [screen EXCEPT !.code = code].code = code /\ [screen EXCEPT !.code = code].backup = screen.backup
    BY <1>0, <2>2 DEF Fields
  <2> QED
    BY <1>2, <2>1, <2>2, <2>3 DEF SecretsMade
<1>5. CASE BackupView \/ EnrollView \/ DisableView \/ DisabledView
  BY <1>3, <1>4, <1>5, SendCounted DEF BackupView, EnrollView, DisableView, DisabledView, ConfirmCode
<1>6. CASE EnabledView
  <2> DEFINE s == [screen EXCEPT !.code = 0, !.stage = "disabling"]
  <2>1. s \in Fields /\ s.qr = screen.qr /\ s.code = 0 /\ s.backup = screen.backup /\ Show(s)
    BY <1>0, <1>6 DEF Fields, EnabledView
  <2> HIDE DEF s
  <2> QED
    BY <1>2, <2>1, SetupBounds DEF SecretsMade, WrongCode
<1>7. CASE ReloadPage
  <2>1. OpenRequests' = {} /\ inFlight' = {} /\ UNCHANGED <<site, requestsSent, shownCodes>>
        /\ screen'.qr = 0 /\ screen'.code = 0 /\ screen'.backup = 0
    BY <1>7 DEF ReloadPage, Fresh, OpenRequests
  <2>2. IsFiniteSet({}) /\ Cardinality({}) = 0 /\ Cardinality(OpenRequests) \in Nat
    BY FS_EmptySet, FS_CardinalityType DEF CodesCounted
  <2>3. CodesCounted'
    BY <1>0, <2>1, <2>2 DEF CodesCounted
  <2>4. SecretsMade'
    BY <1>0, <2>1, SetupBounds DEF SecretsMade, WrongCode
  <2> QED
    BY <2>3, <2>4
<1>8. CASE OfferExpires
  <2>1. site'.offered = 0 /\ site'.secrets = site.secrets /\ site'.codes = site.codes
        /\ UNCHANGED <<screen, inFlight, requestsSent, shownCodes>>
    BY <1>0, <1>8 DEF OfferExpires, Sites
  <2>2. OpenRequests' = OpenRequests
    BY <2>1 DEF OpenRequests
  <2> QED
    BY <1>0, <2>1, <2>2 DEF SecretsMade, CodesCounted, WrongCode
<1>9. ASSUME NEW r \in inFlight, r.state \in {"answered", "refused"}, inFlight' = inFlight \ {r}
      PROVE  inFlight' \subseteq inFlight /\ OpenRequests' = OpenRequests
  BY <1>9 DEF OpenRequests
<1>10. ASSUME NEW r \in inFlight, startEnroll(r) \/ confirmDisable(r)
       PROVE  SecretsMade' /\ CodesCounted'
  <2>1. /\ r.state \in {"answered", "refused"} /\ inFlight' = inFlight \ {r}
        /\ UNCHANGED <<site, requestsSent, shownCodes>>
        /\ startEnroll(r) => r.kind = "generate"
    BY <1>10 DEF startEnroll, confirmDisable, Answered
  <2>2. screen'.qr \in {screen.qr, 0} \cup (IF r.state = "answered" /\ r.kind = "generate" THEN {r.value} ELSE {})
        /\ screen'.code \in {screen.code, 0} /\ screen'.backup = screen.backup
    BY <1>0, <1>10 DEF startEnroll, confirmDisable, Answered, ResetField, Fields
  <2>3. screen'.qr \in 0..site.secrets /\ screen'.code \in 0..WrongCode /\ screen'.backup \in 0..site.codes
    BY <1>0, <2>2, SetupBounds DEF SecretsMade, WrongCode
  <2>4. shownCodes' \subseteq 1..site.codes
    BY <2>1 DEF SecretsMade
  <2> QED
    BY <1>1, <1>9, <2>1, <2>3, <2>4
<1>11. ASSUME NEW r \in inFlight, confirmEnroll(r)
       PROVE  SecretsMade' /\ CodesCounted'
  <2>1. /\ r.state \in {"answered", "refused"} /\ inFlight' = inFlight \ {r} /\ r.kind = "enable"
        /\ UNCHANGED <<site, requestsSent>> /\ shownCodes' = shownCodes \cup ({screen'.backup} \ {0})
    BY <1>11 DEF confirmEnroll, Answered
  <2>2. screen'.qr = screen.qr /\ screen'.code = screen.code
        /\ screen'.backup \in {screen.backup} \cup (IF r.state = "answered" THEN {r.value} ELSE {})
    BY <1>0, <1>11 DEF confirmEnroll, Answered, Fields
  <2>3. screen'.qr \in 0..site.secrets /\ screen'.code \in 0..WrongCode /\ screen'.backup \in 0..site.codes
    BY <2>1, <2>2 DEF SecretsMade
  <2>4. {screen'.backup} \ {0} \subseteq 1..site.codes
    BY <1>0, <2>3
  <2>5. shownCodes' \subseteq 1..site.codes
    BY <2>1, <2>4 DEF SecretsMade
  <2> QED
    BY <1>1, <1>9, <2>1, <2>3, <2>5
<1>12. CASE UNCHANGED setupVars
  BY <1>12 DEF setupVars, SecretsMade, CodesCounted, OpenRequests, WrongCode
<1> QED
  BY <1>5, <1>6, <1>7, <1>8, <1>10, <1>11, <1>12

\* SetupTypeOK: no more codes are made than requests sent, the field shows none that was not
\* made, and none counts as shown that was not.
THEOREM SetupTypes == SetupSpec => []SetupTypeOK
<1>1. SetupInit => SecretsMade /\ CodesCounted
  <2> SUFFICES ASSUME SetupInit
               PROVE  SecretsMade /\ CodesCounted
    OBVIOUS
  <2>1. OpenRequests = {}
    BY DEF SetupInit, OpenRequests
  <2>2. IsFiniteSet(OpenRequests) /\ Cardinality(OpenRequests) = 0
    BY <2>1, FS_EmptySet
  <2>3. SecretsMade
    BY SetupBounds DEF SetupInit, SecretsMade, Fresh, WrongCode
  <2> QED
    BY <2>2, <2>3 DEF SetupInit, CodesCounted
<1>2. SetupInv /\ SecretsMade /\ CodesCounted /\ [SetupNext]_setupVars => SecretsMade' /\ CodesCounted'
  BY RoutesMake, ScreenShows DEF SetupNext
<1>3. SetupInv /\ SecretsMade /\ CodesCounted => SetupTypeOK
  <2> SUFFICES ASSUME SetupInv, SecretsMade, CodesCounted
               PROVE  SetupTypeOK
    OBVIOUS
  <2>1. Cardinality(OpenRequests) \in Nat /\ site.codes \in Nat
    BY FS_CardinalityType DEF CodesCounted, SetupInv, SetupTyped, Sites
  <2>2. site.codes \in 0..MaxSent
    BY <2>1, SetupBounds DEF CodesCounted, SecretsMade
  <2>3. site.offered \in 0..MaxOffered /\ screen.qr \in 0..MaxOffered
    BY SetupBounds DEF SecretsMade
  <2> QED
    BY <2>2, <2>3 DEF SetupInv, SetupTyped, Sites, Fields, FieldRequests, SecretsMade, SetupTypeOK
<1> QED
  BY <1>1, <1>2, <1>3, SetupInvariant, PTL DEF SetupSpec

\* ScreenTellsTruth: while requests come one after the other, whatever is cancelled,
\* the field says whether the second factor is on, and the recovery code on record
\* was on the screen, for any number of secrets and requests.
THEOREM ScreenHolds == SetupSpec => []ScreenTellsTruth
<1>1. SetupInv => ScreenTellsTruth
  BY ViewOfStage DEF SetupInv, FieldFollows, SwitchToTell, ScreenTellsTruth
<1> QED
  BY <1>1, SetupInvariant, PTL

-----------------------------------------------------------------------------
(* The deletion of a row *)

\* x refers to r, by a key that must be null without r.
Names(x, r) == r.table \in DOMAIN x.refs /\ x.refs[r.table] = r.id
Holds(x, r) == Names(x, r) /\ \E key \in Keys[x.table] : key.to = r.table /\ key.action = "set null"

\* What the transaction has left.
Left == committed \ deletion.gone

\* The rows that a hook is to delete: not one written meanwhile, or kept on purpose.
KeptOnPurpose(x) == x.table = "ledger" \/ (x.table = "invoice" /\ deletion.target = "payment")
Doomed == {x \in Left : x \notin deletion.late /\ ~KeptOnPurpose(x)}

Statements(rows) ==
  [do : {"row"}, table : TableNames, of : rows] \cup [do : {"rows"}, rows : SUBSET rows]
    \cup [do : {"find"}, table : TableNames, of : rows] \cup [do : {"owned"}, table : {"organization"}, of : rows]

\* A statement that x must be gone for, while the rows are there: the DELETE of a row
\* it holds, or of an invoice or a payment method, which have no hook of their own.
Needs(step, x, rows) ==
  \/ step.do = "row" /\ Holds(x, step.of)
  \/ step.do = "rows" /\ \E r \in step.rows : r.table \in {"invoice", "payment"} /\ Holds(x, r)
  \/ step.do = "find" /\ step.table \in {"invoice", "payment"}
       /\ \E r \in rows : r.table = step.table /\ Names(r, step.of) /\ Holds(x, r)

\* A statement that x goes with: its own DELETE or that of its app, or one that will find them.
OfApp(x, a) == a.table = "app" /\ Names(x, a) /\ x.table \in {"transaction", "endpoint", "invoice", "payment"}
Takes(step, x, rows) ==
  \/ step.do = "row" /\ step.of = x
  \/ step.do = "rows" /\ (x \in step.rows \/ \E a \in step.rows : OfApp(x, a))
  \/ step.do = "find" /\ x.table = step.table /\ Names(x, step.of)
  \/ step.do = "find" /\ step.table = "app" /\ \E a \in rows : OfApp(x, a) /\ Names(a, step.of)

\* Whatever a statement needs gone goes with one before it.
Ordered(todo, doomed, rows) ==
  \A p \in 1..Len(todo), x \in doomed : Needs(todo[p], x, rows) => \E q \in 1..(p - 1) : Takes(todo[q], x, rows)

TodoInOrder ==
  Running => deletion.todo \in Seq(Statements(committed)) /\ Ordered(deletion.todo, Doomed, Left)

\* The rows there are: each one of those the constants name, but for what was set to null.
Was(x, y) ==
  /\ x.table = y.table /\ x.id = y.id /\ DOMAIN x.refs \subseteq DOMAIN y.refs
  /\ \A t \in DOMAIN x.refs : x.refs[t] = y.refs[t]
Whole(rows) ==
  /\ \A x \in rows : RowTyped(x)
  /\ \A x, y \in rows : x.id = y.id => x = y
  /\ \A x, r \in rows : Agrees(x, r)
CommittedWhole ==
  /\ Whole(committed)
  /\ \A x \in committed : \A t \in DOMAIN x.refs : \E r \in committed : r.table = t /\ r.id = x.refs[t]
  /\ \A x \in committed : \E y \in Initial \cup Writable : Was(x, y)

\* What the transaction did: what it has left refers to what it has left.
LeftWhole ==
  Running =>
    /\ deletion.gone \subseteq committed /\ \A n \in deletion.nulls : n[1] \in committed
    /\ \A x \in Left : \A t \in DOMAIN x.refs :
         <<x, t>> \notin deletion.nulls => \E r \in Left : r.table = t /\ r.id = x.refs[t]
    /\ \A x \in committed, r \in committed : <<x, r.table>> \in deletion.nulls /\ Names(x, r) => r \in deletion.gone
\* Only the transactions that were recorded meanwhile lose their app or their invoice.
NullsAreLate ==
  \A n \in deletion.nulls :
    n = <<n[1], n[2]>> /\ n[1] \in deletion.late /\ n[1].table = "transaction" /\ n[2] \in {"app", "invoice"}
DeletionTyped ==
  /\ deletion = [state |-> deletion.state, target |-> deletion.target, todo |-> deletion.todo, gone |-> deletion.gone,
                 nulls |-> deletion.nulls, late |-> deletion.late, blockers |-> deletion.blockers]
  /\ deletion.state \in {"none", "running", "failed", "done"}
  /\ deletion.late \subseteq Writable /\ (~Running => deletion.gone = {})
  /\ budget = [writes |-> budget.writes, deletions |-> budget.deletions]
  /\ budget.writes \in 0..MaxWrites /\ budget.deletions \in 0..MaxDeletions
FailsByRacesOnly == deletion.state = "failed" => \A x \in deletion.blockers : Excused(x)

CascadeInv ==
  /\ DeletionTyped /\ CommittedWhole /\ LeftWhole /\ NullsAreLate /\ TodoInOrder /\ FailsByRacesOnly

(* The schema *)

Parts == {"userPart", "appPart", "endpointPart", "delivery"}

\* The foreign keys, as the schema lists them.
LEMMA KeyFacts ==
  ASSUME NEW table \in TableNames, NEW key \in Keys[table]
  PROVE  /\ key.action \in {"set null", "cascade"} /\ (key.action = "cascade" <=> table \in Parts)
         /\ key.to \in TableNames \ Parts
         /\ key.action = "set null" /\ ~key.required => table = "transaction" /\ key.to \in {"app", "invoice"}
         /\ key.required /\ table = "transaction" => key.to = "organization"
         /\ key.action = "set null" =>
              /\ key.to = "user" => table = "member"
              /\ key.to = "organization" => table \in {"member", "app", "payment", "invoice", "ledger", "transaction"}
              /\ key.to = "app" => table \in {"endpoint", "payment", "invoice", "transaction"}
              /\ key.to = "payment" => table = "invoice"
              /\ key.to = "invoice" => table = "transaction"
              /\ key.to \in {"user", "organization", "app", "payment", "invoice"}
<1> DEFINE Names13 == {"user", "userPart", "organization", "member", "app", "appPart", "endpoint", "endpointPart",
                       "delivery", "payment", "invoice", "ledger", "transaction"}
<1>1. TableNames = Names13
  BY DEF TableNames, Keys
<1>2. /\ Keys["user"] = userKeys /\ Keys["userPart"] = userPartKeys /\ Keys["organization"] = organizationKeys
      /\ Keys["member"] = memberKeys /\ Keys["app"] = appKeys /\ Keys["appPart"] = appPartKeys
      /\ Keys["endpoint"] = endpointKeys /\ Keys["endpointPart"] = endpointPartKeys /\ Keys["delivery"] = deliveryKeys
      /\ Keys["payment"] = paymentKeys /\ Keys["invoice"] = invoiceKeys /\ Keys["ledger"] = ledgerKeys
      /\ Keys["transaction"] = transactionKeys
  BY DEF Keys
<1>3. \A t : /\ Required(t).to = t /\ Required(t).required /\ Required(t).action = "set null"
              /\ Optional(t).to = t /\ ~Optional(t).required /\ Optional(t).action = "set null"
              /\ PartOf(t).to = t /\ PartOf(t).action = "cascade"
  BY DEF Required, Optional, PartOf
<1>4. \/ \E t : key = Required(t) /\
           \/ table = "member" /\ t \in {"organization", "user"}
           \/ table \in {"app", "ledger", "transaction"} /\ t = "organization"
           \/ table = "endpoint" /\ t = "app"
           \/ table = "payment" /\ t \in {"app", "organization"}
           \/ table = "invoice" /\ t \in {"app", "organization", "payment"}
      \/ \E t \in {"app", "invoice"} : key = Optional(t) /\ table = "transaction"
      \/ \E t \in {"user", "app", "endpoint"} : key = PartOf(t) /\ table \in Parts
  BY <1>1, <1>2 DEF userKeys, userPartKeys, organizationKeys, memberKeys, appKeys, appPartKeys, endpointKeys,
     endpointPartKeys, deliveryKeys, paymentKeys, invoiceKeys, ledgerKeys, transactionKeys, Parts
<1>5. CASE \E t : key = Required(t) /\
           \/ table = "member" /\ t \in {"organization", "user"}
           \/ table \in {"app", "ledger", "transaction"} /\ t = "organization"
           \/ table = "endpoint" /\ t = "app"
           \/ table = "payment" /\ t \in {"app", "organization"}
           \/ table = "invoice" /\ t \in {"app", "organization", "payment"}
  <2>1. PICK t : key = Required(t) /\
           \/ table = "member" /\ t \in {"organization", "user"}
           \/ table \in {"app", "ledger", "transaction"} /\ t = "organization"
           \/ table = "endpoint" /\ t = "app"
           \/ table = "payment" /\ t \in {"app", "organization"}
           \/ table = "invoice" /\ t \in {"app", "organization", "payment"}
    BY <1>5
  <2>2. key.to = t /\ key.required /\ key.action = "set null" /\ t \in TableNames \ Parts /\ table \notin Parts
    BY <1>1, <1>3, <2>1 DEF Parts
  <2> QED
    BY <2>1, <2>2
<1>6. CASE \E t \in {"app", "invoice"} : key = Optional(t) /\ table = "transaction"
  BY <1>1, <1>3, <1>6 DEF Parts
<1>7. CASE \E t \in {"user", "app", "endpoint"} : key = PartOf(t) /\ table \in Parts
  <2>1. PICK t \in {"user", "app", "endpoint"} : key = PartOf(t) /\ table \in Parts
    BY <1>7
  <2>2. key.to = t /\ key.action = "cascade" /\ "cascade" # "set null"
    BY <1>3, <2>1
  <2>3. t \in TableNames \ Parts
    BY <1>1 DEF Parts
  <2>4. table # "transaction"
    BY <2>1 DEF Parts
  <2> QED
    BY <2>1, <2>2, <2>3, <2>4
<1> QED
  BY <1>4, <1>5, <1>6, <1>7

\* The database acts on a key in one of two ways; nothing refers to what goes with another row.
LEMMA KeyActions ==
  ASSUME NEW table \in TableNames, NEW key \in Keys[table]
  PROVE  key.action \in {"set null", "cascade"} /\ (key.action = "cascade" <=> table \in Parts) /\ key.to \notin Parts
BY KeyFacts

\* Null can only become what a transaction says of its app and its invoice.
LEMMA NullableKeys ==
  ASSUME NEW table \in TableNames, NEW key \in Keys[table], key.action = "set null", ~key.required
  PROVE  table = "transaction" /\ key.to \in {"app", "invoice"}
BY KeyFacts

\* The columns of an app, of a payment method and of an invoice that are never null.
LEMMA RequiredKeys ==
  ASSUME NEW x, RowTyped(x)
  PROVE  /\ x.table \in {"app", "payment", "invoice"} => "organization" \in DOMAIN x.refs
         /\ x.table \in {"payment", "invoice"} => "app" \in DOMAIN x.refs
<1>1. /\ Keys["app"] = appKeys /\ Keys["payment"] = paymentKeys /\ Keys["invoice"] = invoiceKeys
  BY DEF Keys
<1>2. /\ Required("organization") \in appKeys /\ Required("organization") \in paymentKeys /\ Required("organization") \in invoiceKeys
      /\ Required("app") \in paymentKeys /\ Required("app") \in invoiceKeys
  BY DEF appKeys, paymentKeys, invoiceKeys
<1>3. \A t : Required(t).to = t /\ Required(t).required
  BY DEF Required
<1> QED
  BY <1>1, <1>2, <1>3 DEF RowTyped

\* What holds a row is of a table with such a key to that of the row.
LEMMA HeldBy ==
  ASSUME NEW x, RowTyped(x), NEW r, Holds(x, r)
  PROVE  /\ r.table = "user" => x.table = "member"
         /\ r.table = "organization" => x.table \in {"member", "app", "payment", "invoice", "ledger", "transaction"}
         /\ r.table = "app" => x.table \in {"endpoint", "payment", "invoice", "transaction"}
         /\ r.table = "payment" => x.table = "invoice"
         /\ r.table = "invoice" => x.table = "transaction"
         /\ r.table \in {"user", "organization", "app", "payment", "invoice"}
         /\ Names(x, r)
<1>1. PICK key \in Keys[x.table] : key.to = r.table /\ key.action = "set null"
  BY DEF Holds
<1>2. x.table \in TableNames
  BY DEF RowTyped
<1>3. Names(x, r)
  BY DEF Holds
<1>4. /\ key.to \in {"user", "organization", "app", "payment", "invoice"}
      /\ key.to = "user" => x.table = "member"
      /\ key.to = "organization" => x.table \in {"member", "app", "payment", "invoice", "ledger", "transaction"}
      /\ key.to = "app" => x.table \in {"endpoint", "payment", "invoice", "transaction"}
      /\ key.to = "payment" => x.table = "invoice"
      /\ key.to = "invoice" => x.table = "transaction"
  BY <1>1, <1>2, KeyFacts
<1> QED
  BY <1>1, <1>3, <1>4

\* What belongs to an app would be held by it.
LEMMA OfAppHeld ==
  ASSUME NEW x, RowTyped(x), NEW a, OfApp(x, a)
  PROVE  Holds(x, a)
<1>1. Names(x, a) /\ a.table = "app" /\ x.table \in TableNames \ Parts
  BY DEF OfApp, RowTyped, Parts
<1>2. PICK key \in Keys[x.table] : key.to = "app"
  BY <1>1 DEF RowTyped, Names
<1>3. key.action = "set null"
  BY <1>1, <1>2, KeyFacts
<1> QED
  BY <1>1, <1>2, <1>3 DEF Holds

(* Sequences of statements *)

\* A sequence stays one over a larger set.
LEMMA Longer ==
  ASSUME NEW S, NEW T, S \subseteq T, NEW s \in Seq(S)
  PROVE  s \in Seq(T)
<1>1. Len(s) \in Nat /\ s \in [1..Len(s) -> S]
  BY LenProperties
<1>2. s \in [1..Len(s) -> T]
  BY <1>1
<1> QED
  BY <1>1, <1>2, SeqDef

\* The head of what is to do is replaced by other statements.
LEMMA Replaced ==
  ASSUME NEW S, NEW s \in Seq(S), NEW todo \in Seq(S), todo # <<>>,
         NEW X, NEW Y, Y \subseteq X, NEW L, NEW M,
         Ordered(todo, X, L), Ordered(s, Y, M),
         \A x \in Y, step \in S : Needs(step, x, M) => Needs(step, x, L),
         \A x \in Y, step \in S : step # Head(todo) /\ Takes(step, x, L) => Takes(step, x, M),
         \A x \in Y : Takes(Head(todo), x, L) => \E q \in 1..Len(s) : Takes(s[q], x, M)
  PROVE  s \o Tail(todo) \in Seq(S) /\ Ordered(s \o Tail(todo), Y, M)
<1> DEFINE n == Len(s)
           new == s \o Tail(todo)
<1>1. /\ Tail(todo) \in Seq(S) /\ Len(Tail(todo)) = Len(todo) - 1 /\ Len(todo) \in Nat \ {0} /\ n \in Nat
      /\ \A i \in 1..Len(Tail(todo)) : Tail(todo)[i] = todo[i + 1]
      /\ \A i \in 1..Len(todo) : todo[i] \in S
      /\ Head(todo) = todo[1]
  BY HeadTailProperties, LenProperties, ElementOfSeq, EmptySeq
<1>2. /\ new \in Seq(S) /\ Len(new) = n + Len(Tail(todo))
      /\ \A i \in 1..(n + Len(Tail(todo))) : new[i] = IF i <= n THEN s[i] ELSE Tail(todo)[i - n]
  BY <1>1, ConcatProperties
<1> HIDE DEF new
<1>3. /\ \A i \in 1..n : new[i] = s[i]
      /\ \A i \in 2..Len(todo) : new[i - 1 + n] = todo[i]
  <2>1. ASSUME NEW i \in 2..Len(todo)
        PROVE  new[i - 1 + n] = todo[i]
    <3>1. i - 1 \in 1..Len(Tail(todo)) /\ i - 1 + n \in 1..(n + Len(Tail(todo))) /\ ~(i - 1 + n <= n) /\ (i - 1 + n) - n = i - 1
      BY <1>1
    <3>2. new[i - 1 + n] = Tail(todo)[i - 1] /\ Tail(todo)[i - 1] = todo[(i - 1) + 1]
      BY <1>1, <1>2, <3>1
    <3> QED
      BY <3>2
  <2> QED
    BY <1>1, <1>2, <2>1, SMTT(30)
<1>4. ASSUME NEW p \in 1..Len(new), NEW x \in Y, Needs(new[p], x, M)
      PROVE  \E q \in 1..(p - 1) : Takes(new[q], x, M)
  <2>1. CASE p <= n
    <3>1. PICK q \in 1..(p - 1) : Takes(s[q], x, M)
      BY <1>1, <1>3, <1>4, <2>1 DEF Ordered
    <3> QED
      BY <1>1, <1>3, <2>1, <3>1
  <2>2. CASE p > n
    <3> DEFINE i == p - n + 1
    <3>1. i \in 2..Len(todo) /\ p = i - 1 + n
      BY <1>1, <1>2, <2>2
    <3>2. new[p] = todo[i] /\ todo[i] \in S
      BY <1>1, <1>3, <3>1
    <3>3. Needs(todo[i], x, L)
      BY <1>4, <3>2
    <3>4. PICK q \in 1..(i - 1) : Takes(todo[q], x, L)
      <4>1. i \in 1..Len(todo) /\ x \in X
        BY <1>1, <3>1
      <4> HIDE DEF i
      <4> QED
        BY <3>3, <4>1 DEF Ordered
    <3>5. CASE todo[q] = Head(todo)
      <4>1. PICK k \in 1..n : Takes(s[k], x, M)
        BY <3>4, <3>5
      <4> QED
        BY <1>1, <1>3, <2>2, <4>1
    <3>6. CASE todo[q] # Head(todo)
      <4>1. q \in 2..Len(todo) /\ todo[q] \in S
        BY <1>1, <3>1, <3>6
      <4>2. Takes(todo[q], x, M) /\ new[q - 1 + n] = todo[q]
        BY <1>3, <3>4, <3>6, <4>1
      <4>3. q - 1 + n \in 1..(p - 1)
        BY <1>1, <3>1, <4>1
      <4> QED
        BY <4>2, <4>3
    <3> QED
      BY <3>5, <3>6
  <2> QED
    BY <1>1, <2>1, <2>2
<1>5. Ordered(new, Y, M)
  BY <1>4 DEF Ordered
<1> QED
  BY <1>2, <1>5 DEF new

(* The hooks *)

\* A deletion ends with the DELETE of the row itself.
LEMMA DeletingForm ==
  ASSUME NEW rows, NEW r \in rows, r.table \in TableNames
  PROVE  /\ Deleting(r) \in Seq(Statements(rows))
         /\ \E p \in 1..Len(Deleting(r)) : Deleting(r)[p] = DeleteRow(r)
<1> DEFINE S == Statements(rows)
<1>1. \A t \in TableNames : Children(t, r) \in S
  BY DEF Children, Statements
<1>2. OrganizationsOf(r) \in S /\ DeleteRow(r) \in S
  BY DEF OrganizationsOf, DeleteRow, Statements
<1>3. {"user", "organization", "member", "app", "transaction", "endpoint", "invoice", "payment"} \subseteq TableNames
  BY DEF TableNames, Keys
<1> HIDE DEF S
<1>4. Hook(r) \in Seq(S)
  <2>1. userHook(r) \in Seq(S)
    BY <1>1, <1>2, <1>3 DEF userHook
  <2>2. organizationHook(r) \in Seq(S)
    BY <1>1, <1>3 DEF organizationHook
  <2>3. appHook(r) \in Seq(S)
    BY <1>1, <1>3 DEF appHook
  <2> QED
    BY <2>1, <2>2, <2>3 DEF Hook
<1>5. <<DeleteRow(r)>> \in Seq(S) /\ Len(<<DeleteRow(r)>>) = 1 /\ <<DeleteRow(r)>>[1] = DeleteRow(r)
  BY <1>2
<1>6. /\ Deleting(r) \in Seq(S) /\ Len(Deleting(r)) = Len(Hook(r)) + 1 /\ Len(Hook(r)) \in Nat
      /\ Deleting(r)[Len(Hook(r)) + 1] = DeleteRow(r)
  BY <1>4, <1>5, ConcatProperties, LenProperties DEF Deleting
<1> QED
  BY <1>6 DEF S
\* An element after a sequence makes the sequence that is longer by it.
LEMMA Appended ==
  ASSUME NEW S, NEW s \in Seq(S), NEW e \in S, NEW w \in Seq(S), Len(w) = Len(s) + 1,
         \A i \in 1..Len(s) : w[i] = s[i], w[Len(s) + 1] = e
  PROVE  s \o <<e>> = w
<1>1. <<e>> \in Seq(S) /\ Len(<<e>>) = 1 /\ <<e>>[1] = e /\ Len(s) \in Nat
  BY LenProperties
<1>2. /\ s \o <<e>> \in Seq(S) /\ Len(s \o <<e>>) = Len(s) + 1
      /\ \A i \in 1..(Len(s) + 1) : (s \o <<e>>)[i] = IF i <= Len(s) THEN s[i] ELSE <<e>>[i - Len(s)]
  BY <1>1, ConcatProperties
<1> DEFINE u == s \o <<e>>
<1> HIDE DEF u
<1>3. ASSUME NEW i \in 1..Len(u)
      PROVE  u[i] = w[i]
  BY <1>1, <1>2 DEF u
<1> QED
  BY <1>1, <1>2, <1>3, SeqEqual DEF u

\* The short ones, written out.
LEMMA AppendedTuples ==
  /\ \A a, b, c : <<a, b>> \o <<c>> = <<a, b, c>>
  /\ \A a, b, c, d : <<a, b, c>> \o <<d>> = <<a, b, c, d>>
  /\ \A a, b, c, d, e : <<a, b, c, d>> \o <<e>> = <<a, b, c, d, e>>
<1>1. ASSUME NEW a, NEW b, NEW c
      PROVE  <<a, b>> \o <<c>> = <<a, b, c>>
  <2> DEFINE S == {a, b, c}
             s == <<a, b>>
             w == <<a, b, c>>
  <2>1. /\ s \in Seq(S) /\ w \in Seq(S) /\ c \in S /\ Len(w) = Len(s) + 1
        /\ (\A i \in 1..Len(s) : w[i] = s[i]) /\ w[Len(s) + 1] = c
    OBVIOUS
  <2> HIDE DEF s, w, S
  <2>2. s \o <<c>> = w
    BY <2>1, Appended
  <2> QED
    BY <2>2 DEF s, w
<1>2. ASSUME NEW a, NEW b, NEW c, NEW d
      PROVE  <<a, b, c>> \o <<d>> = <<a, b, c, d>>
  <2> DEFINE S == {a, b, c, d}
             s == <<a, b, c>>
             w == <<a, b, c, d>>
  <2>1. /\ s \in Seq(S) /\ w \in Seq(S) /\ d \in S /\ Len(w) = Len(s) + 1
        /\ (\A i \in 1..Len(s) : w[i] = s[i]) /\ w[Len(s) + 1] = d
    OBVIOUS
  <2> HIDE DEF s, w, S
  <2>2. s \o <<d>> = w
    BY <2>1, Appended
  <2> QED
    BY <2>2 DEF s, w
<1>3. ASSUME NEW a, NEW b, NEW c, NEW d, NEW e
      PROVE  <<a, b, c, d>> \o <<e>> = <<a, b, c, d, e>>
  <2> DEFINE S == {a, b, c, d, e}
             s == <<a, b, c, d>>
             w == <<a, b, c, d, e>>
  <2>1. /\ s \in Seq(S) /\ w \in Seq(S) /\ e \in S /\ Len(w) = Len(s) + 1
        /\ (\A i \in 1..Len(s) : w[i] = s[i]) /\ w[Len(s) + 1] = e
    OBVIOUS
  <2> HIDE DEF s, w, S
  <2>2. s \o <<e>> = w
    BY <2>1, Appended
  <2> QED
    BY <2>2 DEF s, w
<1> QED
  BY <1>1, <1>2, <1>3

\* The statements that delete a row, by its table.
LEMMA DeletingSteps ==
  ASSUME NEW r
  PROVE  /\ r.table = "user" => Deleting(r) = <<OrganizationsOf(r), Children("member", r), DeleteRow(r)>>
         /\ r.table = "organization" =>
              Deleting(r) = <<Children("member", r), Children("app", r), Children("transaction", r), DeleteRow(r)>>
         /\ r.table = "app" =>
              Deleting(r) = <<Children("transaction", r), Children("endpoint", r), Children("invoice", r),
                              Children("payment", r), DeleteRow(r)>>
         /\ r.table \notin {"user", "organization", "app"} => Deleting(r) = <<DeleteRow(r)>>
<1>1. ASSUME r.table = "user"
      PROVE  Deleting(r) = <<OrganizationsOf(r), Children("member", r), DeleteRow(r)>>
  <2>1. Hook(r) = <<OrganizationsOf(r), Children("member", r)>>
    BY <1>1 DEF Hook, userHook
  <2>2. <<OrganizationsOf(r), Children("member", r)>> \o <<DeleteRow(r)>>
          = <<OrganizationsOf(r), Children("member", r), DeleteRow(r)>>
    BY AppendedTuples
  <2> QED
    BY <2>1, <2>2 DEF Deleting
<1>2. ASSUME r.table = "organization"
      PROVE  Deleting(r) = <<Children("member", r), Children("app", r), Children("transaction", r), DeleteRow(r)>>
  <2>1. Hook(r) = <<Children("member", r), Children("app", r), Children("transaction", r)>>
    BY <1>2 DEF Hook, organizationHook
  <2>2. <<Children("member", r), Children("app", r), Children("transaction", r)>> \o <<DeleteRow(r)>>
          = <<Children("member", r), Children("app", r), Children("transaction", r), DeleteRow(r)>>
    BY AppendedTuples
  <2> QED
    BY <2>1, <2>2 DEF Deleting
<1>3. ASSUME r.table = "app"
      PROVE  Deleting(r) = <<Children("transaction", r), Children("endpoint", r), Children("invoice", r),
                            Children("payment", r), DeleteRow(r)>>
  <2>1. Hook(r) = <<Children("transaction", r), Children("endpoint", r), Children("invoice", r), Children("payment", r)>>
    BY <1>3 DEF Hook, appHook
  <2>2. <<Children("transaction", r), Children("endpoint", r), Children("invoice", r), Children("payment", r)>> \o <<DeleteRow(r)>>
          = <<Children("transaction", r), Children("endpoint", r), Children("invoice", r),
                            Children("payment", r), DeleteRow(r)>>
    BY AppendedTuples
  <2> QED
    BY <2>1, <2>2 DEF Deleting
<1>4. ASSUME r.table \notin {"user", "organization", "app"}
      PROVE  Deleting(r) = <<DeleteRow(r)>>
  <2>1. Hook(r) = <<>>
    BY <1>4 DEF Hook
  <2> QED
    BY <2>1 DEF Deleting
<1> QED
  BY <1>1, <1>2, <1>3, <1>4

\* What each of them needs.
LEMMA StepNeeds ==
  ASSUME NEW r, NEW x, NEW L, NEW table
  PROVE  /\ Needs(DeleteRow(r), x, L) <=> Holds(x, r)
         /\ ~Needs(OrganizationsOf(r), x, L)
         /\ Needs(Children(table, r), x, L) <=>
              table \in {"invoice", "payment"} /\ \E y \in L : y.table = table /\ Names(y, r) /\ Holds(x, y)
         /\ Takes(DeleteRow(r), r, L)
         /\ x.table = table /\ Names(x, r) => Takes(Children(table, r), x, L)
         /\ (\E a \in L : OfApp(x, a) /\ Names(a, r)) => Takes(Children("app", r), x, L)
<1>1. /\ DeleteRow(r).do = "row" /\ DeleteRow(r).of = r
      /\ OrganizationsOf(r).do = "owned"
      /\ \A t : Children(t, r).do = "find" /\ Children(t, r).table = t /\ Children(t, r).of = r
  BY DEF DeleteRow, OrganizationsOf, Children
<1> QED
  BY <1>1 DEF Needs, Takes

\* What belongs to an app goes with one of the statements of its hook.
LEMMA AppTakes ==
  ASSUME NEW a, NEW x, OfApp(x, a), NEW L
  PROVE  \E p \in 1..Len(Deleting(a)) : Takes(Deleting(a)[p], x, L)
<1>1. /\ Len(Deleting(a)) = 5
      /\ Deleting(a)[1] = Children("transaction", a) /\ Deleting(a)[2] = Children("endpoint", a)
      /\ Deleting(a)[3] = Children("invoice", a) /\ Deleting(a)[4] = Children("payment", a)
  BY DeletingSteps DEF OfApp
<1>2. /\ Names(x, a) /\ x.table \in {"transaction", "endpoint", "invoice", "payment"}
  BY DEF OfApp
<1>3. Takes(Children(x.table, a), x, L)
  BY <1>2, StepNeeds
<1> QED
  BY <1>1, <1>2, <1>3

\* In the hooks whatever a statement needs gone goes before.
LEMMA HookOrdered ==
  ASSUME NEW L, Whole(L), NEW x \in L, x.table # "ledger",
         \A t \in DOMAIN x.refs : \E y \in L : y.table = t /\ y.id = x.refs[t],
         NEW r, r.table \in {"invoice", "payment"} => ~Holds(x, r),
         NEW p \in 1..Len(Deleting(r)), Needs(Deleting(r)[p], x, L)
  PROVE  \E q \in 1..(p - 1) : Takes(Deleting(r)[q], x, L)
<1>0. /\ Needs(DeleteRow(r), x, L) <=> Holds(x, r)
      /\ ~Needs(OrganizationsOf(r), x, L)
      /\ \A t \in {"member", "app", "transaction", "endpoint"} : ~Needs(Children(t, r), x, L)
  BY StepNeeds
<1>1. RowTyped(x) /\ x.table \in TableNames /\ \A y \in L : RowTyped(y) /\ Agrees(x, y)
  BY DEF Whole, RowTyped
<1>2. CASE r.table = "user"
  <2>1. Deleting(r) = <<OrganizationsOf(r), Children("member", r), DeleteRow(r)>>
    BY <1>2, DeletingSteps
  <2>2. p = 3 /\ Holds(x, r)
    <3>1. \/ p = 1 /\ Needs(OrganizationsOf(r), x, L)
          \/ p = 2 /\ Needs(Children("member", r), x, L)
          \/ p = 3 /\ Needs(DeleteRow(r), x, L)
      BY <2>1
    <3> QED
      BY <1>0, <3>1
  <2>3. x.table = "member" /\ Names(x, r)
    BY <1>1, <1>2, <2>2, HeldBy
  <2>4. Takes(Deleting(r)[2], x, L)
    BY <2>1, <2>3, StepNeeds
  <2> QED
    BY <2>2, <2>4
<1>3. CASE r.table = "organization"
  <2>1. Deleting(r) = <<Children("member", r), Children("app", r), Children("transaction", r), DeleteRow(r)>>
    BY <1>3, DeletingSteps
  <2>2. p = 4 /\ Holds(x, r)
    <3>1. \/ p = 1 /\ Needs(Children("member", r), x, L)
          \/ p = 2 /\ Needs(Children("app", r), x, L)
          \/ p = 3 /\ Needs(Children("transaction", r), x, L)
          \/ p = 4 /\ Needs(DeleteRow(r), x, L)
      BY <2>1
    <3> QED
      BY <1>0, <3>1
  <2>3. x.table \in {"member", "app", "payment", "invoice", "transaction"} /\ Names(x, r)
    BY <1>1, <1>3, <2>2, HeldBy
  <2>4. CASE x.table \in {"member", "app", "transaction"}
    <3>1. Takes(Children(x.table, r), x, L)
      BY <2>3, StepNeeds
    <3> QED
      BY <2>1, <2>2, <2>4, <3>1
  <2>5. CASE x.table \in {"payment", "invoice"}
    <3>1. PICK a \in L : a.table = "app" /\ a.id = x.refs["app"]
      BY <1>1, <2>5, RequiredKeys
    <3>2. OfApp(x, a)
      BY <1>1, <2>5, <3>1, RequiredKeys DEF OfApp, Names
    <3>3. /\ "organization" \in DOMAIN x.refs /\ "organization" \in DOMAIN a.refs
          /\ x.refs["organization"] = r.id
      BY <1>1, <1>3, <2>3, <2>5, <3>1, RequiredKeys DEF Names
    <3>4. x.refs["organization"] = a.refs["organization"]
      BY <1>1, <3>2, <3>3 DEF Agrees, OfApp, Names
    <3>5. Names(a, r)
      BY <1>3, <3>3, <3>4 DEF Names
    <3>6. Takes(Deleting(r)[2], x, L)
      BY <2>1, <3>2, <3>5, StepNeeds
    <3> QED
      BY <2>2, <3>6
  <2> QED
    BY <2>3, <2>4, <2>5
<1>4. CASE r.table = "app"
  <2>1. Deleting(r) = <<Children("transaction", r), Children("endpoint", r), Children("invoice", r),
                        Children("payment", r), DeleteRow(r)>>
    BY <1>4, DeletingSteps
  <2>2. \/ p = 5 /\ Holds(x, r)
        \/ p = 3 /\ \E y \in L : y.table = "invoice" /\ Names(y, r) /\ Holds(x, y)
        \/ p = 4 /\ \E y \in L : y.table = "payment" /\ Names(y, r) /\ Holds(x, y)
    <3>1. \/ p = 1 /\ Needs(Children("transaction", r), x, L)
          \/ p = 2 /\ Needs(Children("endpoint", r), x, L)
          \/ p = 3 /\ Needs(Children("invoice", r), x, L)
          \/ p = 4 /\ Needs(Children("payment", r), x, L)
          \/ p = 5 /\ Needs(DeleteRow(r), x, L)
      BY <2>1
    <3> QED
      BY <3>1, StepNeeds
  <2>3. CASE p = 5 /\ Holds(x, r)
    <3>1. x.table \in {"transaction", "endpoint", "invoice", "payment"} /\ Names(x, r)
      BY <1>1, <1>4, <2>3, HeldBy
    <3>2. Takes(Children(x.table, r), x, L)
      BY <3>1, StepNeeds
    <3> QED
      BY <2>1, <2>3, <3>1, <3>2
  <2>4. ASSUME NEW y \in L, Names(y, r), Holds(x, y), NEW child,
               \/ child = "transaction" /\ y.table = "invoice"
               \/ child = "invoice" /\ y.table = "payment"
        PROVE  x.table = child /\ Takes(Children(child, r), x, L)
    <3>1. x.table = child /\ Names(x, y)
      BY <1>1, <2>4, HeldBy
    <3>2. "app" \in DOMAIN x.refs
      BY <1>1, <2>4, <3>1, RequiredKeys DEF RowTyped, Names
    <3>3. y.refs["app"] = r.id /\ "app" \in DOMAIN y.refs
      BY <1>4, <2>4 DEF Names
    <3>4. x.refs["app"] = y.refs["app"]
      BY <1>1, <3>1, <3>2, <3>3 DEF Agrees, Names
    <3>5. Names(x, r)
      BY <1>4, <3>2, <3>3, <3>4 DEF Names
    <3> QED
      BY <3>1, <3>5, StepNeeds
  <2>5. CASE p = 3 /\ \E y \in L : y.table = "invoice" /\ Names(y, r) /\ Holds(x, y)
    <3>1. Takes(Deleting(r)[1], x, L)
      BY <2>1, <2>4, <2>5
    <3> QED
      BY <2>5, <3>1
  <2>6. CASE p = 4 /\ \E y \in L : y.table = "payment" /\ Names(y, r) /\ Holds(x, y)
    <3>1. Takes(Deleting(r)[3], x, L)
      BY <2>1, <2>4, <2>6
    <3> QED
      BY <2>6, <3>1
  <2> QED
    BY <2>2, <2>3, <2>5, <2>6
<1>5. CASE r.table \notin {"user", "organization", "app"}
  <2>1. Deleting(r) = <<DeleteRow(r)>>
    BY <1>5, DeletingSteps
  <2>2. Needs(DeleteRow(r), x, L)
    BY <2>1
  <2>3. Holds(x, r)
    BY <2>2, StepNeeds
  <2> QED
    BY <1>1, <1>5, <2>3, HeldBy
<1> QED
  BY <1>2, <1>3, <1>4, <1>5

(* What a statement finds *)

\* The keys that refer to r, of the rows that are left.
LEMMA PointingRows ==
  ASSUME NEW r
  PROVE  /\ \A p \in Pointing(r) :
              /\ p = <<p[1], p[2]>> /\ p[1] \in Left /\ p[2] \in Keys[p[1].table]
              /\ Refers(p[1], p[2], r) /\ <<p[1], p[2].to>> \notin deletion.nulls
         /\ \A x \in Left : \A key \in Keys[x.table] :
              Refers(x, key, r) /\ <<x, key.to>> \notin deletion.nulls => <<x, key>> \in Pointing(r)
<1> DEFINE Of(x) == {<<x, key>> : key \in {k \in Keys[x.table] : Refers(x, k, r) /\ <<x, k.to>> \notin deletion.nulls}}
<1>1. Pointing(r) = UNION {Of(x) : x \in Left}
  BY DEF Pointing, Left
<1>2. ASSUME NEW p \in Pointing(r)
      PROVE  /\ p = <<p[1], p[2]>> /\ p[1] \in Left /\ p[2] \in Keys[p[1].table]
             /\ Refers(p[1], p[2], r) /\ <<p[1], p[2].to>> \notin deletion.nulls
  <2>1. PICK x \in Left : p \in Of(x)
    BY <1>1
  <2>2. PICK k \in Keys[x.table] : p = <<x, k>> /\ Refers(x, k, r) /\ <<x, k.to>> \notin deletion.nulls
    BY <2>1
  <2> QED
    BY <2>2
<1>3. ASSUME NEW x \in Left, NEW key \in Keys[x.table], Refers(x, key, r), <<x, key.to>> \notin deletion.nulls
      PROVE  <<x, key>> \in Pointing(r)
  <2>1. <<x, key>> \in Of(x)
    BY <1>3
  <2>2. Of(x) \in {Of(y) : y \in Left}
    OBVIOUS
  <2> HIDE DEF Of
  <2> QED
    BY <1>1, <2>1, <2>2
<1> QED
  BY <1>2, <1>3

\* A row names another by a key of its table.
LEMMA NamesByKey ==
  ASSUME NEW x, RowTyped(x), NEW r
  PROVE  Names(x, r) <=> \E key \in Keys[x.table] : Refers(x, key, r)
BY DEF RowTyped, Names, Refers

\* A hook finds the rows it is after, and those that were there all of them.
LEMMA FoundRows ==
  ASSUME CommittedWhole, NullsAreLate, NEW step, step.do \in {"find", "owned"}
  PROVE  /\ Found(step) \subseteq Left
         /\ step.do = "find" => \A y \in Found(step) : y.table = step.table /\ Names(y, step.of)
         /\ step.do = "owned" => \A y \in Found(step) : y.table = "organization"
         /\ step.do = "find" => \A y \in Left :
              y.table = step.table /\ Names(y, step.of) /\ (y \notin deletion.late \/ y.table # "transaction")
                => y \in Found(step)
<1>1. \A x \in Left : RowTyped(x)
  BY DEF CommittedWhole, Whole, Left
<1>2. CASE step.do = "find"
  <2>1. Found(step) = {x \in {p[1] : p \in Pointing(step.of)} : x.table = step.table}
    BY <1>2 DEF Found
  <2>2. ASSUME NEW y \in Found(step)
        PROVE  y \in Left /\ y.table = step.table /\ Names(y, step.of)
    <3>1. PICK p \in Pointing(step.of) : y = p[1] /\ y.table = step.table
      BY <2>1
    <3>2. y \in Left /\ p[2] \in Keys[y.table] /\ Refers(y, p[2], step.of)
      BY <3>1, PointingRows
    <3> QED
      BY <1>1, <3>1, <3>2, NamesByKey
  <2>3. ASSUME NEW y \in Left, y.table = step.table, Names(y, step.of), y \notin deletion.late \/ y.table # "transaction"
        PROVE  y \in Found(step)
    <3>1. PICK key \in Keys[y.table] : Refers(y, key, step.of)
      BY <1>1, <2>3, NamesByKey
    <3>2. <<y, key.to>> \notin deletion.nulls
      <4>1. \A n \in deletion.nulls : n[1] \in deletion.late /\ n[1].table = "transaction"
        BY DEF NullsAreLate
      <4>2. <<y, key.to>>[1] = y
        OBVIOUS
      <4> QED
        BY <2>3, <4>1, <4>2
    <3>3. <<y, key>> \in Pointing(step.of) /\ <<y, key>>[1] = y
      BY <3>1, <3>2, PointingRows
    <3> QED
      BY <2>1, <2>3, <3>3
  <2> QED
    BY <1>2, <2>2, <2>3
<1>3. CASE step.do = "owned"
  BY <1>3 DEF Found, Left
<1> QED
  BY <1>2, <1>3

(* The steps *)

\* The rows that a hook must delete have everything they refer to.
LEMMA DoomedRows ==
  ASSUME CascadeInv, Running, NEW x \in Doomed
  PROVE  /\ x \in Left /\ x \in committed /\ x \notin deletion.late /\ x.table # "ledger" /\ RowTyped(x)
         /\ \A t : <<x, t>> \notin deletion.nulls
         /\ \A t \in DOMAIN x.refs : \E y \in Left : y.table = t /\ y.id = x.refs[t]
<1>1. x \in Left /\ x \in committed /\ x \notin deletion.late /\ x.table # "ledger"
  BY DEF Doomed, KeptOnPurpose, Left
<1>2. RowTyped(x)
  BY <1>1 DEF CascadeInv, CommittedWhole, Whole
<1>3. \A t : <<x, t>> \notin deletion.nulls
  <2>1. \A n \in deletion.nulls : n[1] \in deletion.late
    BY DEF CascadeInv, NullsAreLate
  <2>2. \A t : <<x, t>>[1] = x
    OBVIOUS
  <2> QED
    BY <1>1, <2>1, <2>2
<1>4. \A t \in DOMAIN x.refs : \E y \in Left : y.table = t /\ y.id = x.refs[t]
  BY <1>1, <1>3 DEF CascadeInv, LeftWhole
<1> QED
  BY <1>1, <1>2, <1>3, <1>4

\* What is left is as typed, numbered and agreed as what is committed.
LEMMA LeftIsWhole ==
  ASSUME CascadeInv
  PROVE  Whole(Left)
BY DEF CascadeInv, CommittedWhole, Whole, Left

\* The rows there are at first.
LEMMA CascadeInitially ==
  ASSUME CascadeInit
  PROVE  CascadeInv
<1>1. committed = Initial /\ deletion = NoDeletion /\ budget = [writes |-> 0, deletions |-> 0]
  BY DEF CascadeInit
<1>2. DeletionTyped
  BY <1>1, CascadeAssumption DEF DeletionTyped, NoDeletion, Running
<1>3. CommittedWhole
  <2>1. \A x \in Initial : Was(x, x)
    BY DEF Was
  <2>2. Whole(Initial)
    BY CascadeAssumption DEF Whole
  <2> QED
    BY <1>1, <2>1, <2>2, CascadeAssumption DEF CommittedWhole
<1>4. ~Running /\ deletion.nulls = {} /\ deletion.state = "none"
  BY <1>1 DEF NoDeletion, Running
<1> QED
  BY <1>2, <1>3, <1>4 DEF CascadeInv, LeftWhole, NullsAreLate, TodoInOrder, FailsByRacesOnly

\* A row that is written: the ones there are do not name it, and agree with it.
LEMMA WrittenWhole ==
  ASSUME CommittedWhole, NEW x \in Writable, \A r \in committed : r.id # x.id,
         \A t \in DOMAIN x.refs : \E r \in committed : r.table = t /\ r.id = x.refs[t]
  PROVE  /\ \A y \in committed : ~Names(y, x)
         /\ Whole(committed \cup {x})
         /\ \A y \in committed \cup {x} : \A t \in DOMAIN y.refs :
              \E r \in committed \cup {x} : r.table = t /\ r.id = y.refs[t]
         /\ \A y \in committed \cup {x} : \E z \in Initial \cup Writable : Was(y, z)
<1>1. \A y \in committed : ~Names(y, x)
  <2>1. ASSUME NEW y \in committed, Names(y, x)
        PROVE  FALSE
    <3>1. PICK r \in committed : r.table = x.table /\ r.id = y.refs[x.table]
      BY <2>1 DEF CommittedWhole, Names
    <3> QED
      BY <2>1, <3>1 DEF Names
  <2> QED
    BY <2>1
<1>2. RowTyped(x) /\ \A r \in Initial \cup Writable : Agrees(x, r)
  BY CascadeAssumption
<1>3. ASSUME NEW r \in committed
      PROVE  Agrees(x, r) /\ Agrees(r, x)
  <2>1. PICK y \in Initial \cup Writable : Was(r, y)
    BY DEF CommittedWhole
  <2>2. Agrees(x, y)
    BY <1>2
  <2>3. Agrees(x, r)
    BY <2>1, <2>2 DEF Was, Agrees
  <2>4. Agrees(r, x)
    BY <1>1 DEF Agrees, Names
  <2> QED
    BY <2>3, <2>4
<1>4. Whole(committed \cup {x})
  <2>1. \A y, r \in committed \cup {x} : Agrees(y, r)
    BY <1>2, <1>3 DEF CommittedWhole, Whole
  <2>2. \A y \in committed \cup {x} : RowTyped(y)
    BY <1>2 DEF CommittedWhole, Whole
  <2>3. \A y, r \in committed \cup {x} : y.id = r.id => y = r
    BY DEF CommittedWhole, Whole
  <2> QED
    BY <2>1, <2>2, <2>3 DEF Whole
<1>5. \A y \in committed \cup {x} : \A t \in DOMAIN y.refs :
        \E r \in committed \cup {x} : r.table = t /\ r.id = y.refs[t]
  BY DEF CommittedWhole
<1>6. \A y \in committed \cup {x} : \E z \in Initial \cup Writable : Was(y, z)
  <2>1. Was(x, x)
    BY DEF Was
  <2> QED
    BY <2>1 DEF CommittedWhole
<1> QED
  BY <1>1, <1>4, <1>5, <1>6

\* More rows make no more statements needed first, unless a row that is to go names them.
LEMMA OrderedLater ==
  ASSUME NEW S, NEW todo \in Seq(S), NEW X, NEW L, NEW M, L \subseteq M, Ordered(todo, X, L),
         \A x \in X, r \in M \ L : ~Names(x, r)
  PROVE  Ordered(todo, X, M)
<1>1. ASSUME NEW x \in X, NEW step, Needs(step, x, M)
      PROVE  Needs(step, x, L)
  BY <1>1 DEF Needs, Holds
<1>2. ASSUME NEW x \in X, NEW step, Takes(step, x, L)
      PROVE  Takes(step, x, M)
  BY <1>2 DEF Takes
<1> QED
  BY <1>1, <1>2 DEF Ordered

\* A row that is written while a deletion runs is late, and nobody names it yet.
LEMMA WriteKeeps ==
  ASSUME CascadeInv, NEW x \in Writable, WriteRow(x)
  PROVE  CascadeInv'
<1>1. /\ committed' = committed \cup {x}
      /\ \A r \in committed : r.id # x.id
      /\ \A t \in DOMAIN x.refs : \E r \in Left : r.table = t /\ r.id = x.refs[t]
  BY DEF WriteRow, Left
<1>2. /\ \A y \in committed : ~Names(y, x)
      /\ CommittedWhole'
  <2>1. CommittedWhole
    BY DEF CascadeInv
  <2>2. \A t \in DOMAIN x.refs : \E r \in committed : r.table = t /\ r.id = x.refs[t]
    BY <1>1 DEF Left
  <2> QED
    BY <1>1, <2>1, <2>2, WrittenWhole DEF CommittedWhole, Whole
<1>3. /\ deletion' = [deletion EXCEPT !.late = deletion'.late]
      /\ deletion'.late = IF Running THEN deletion.late \cup {x} ELSE deletion.late
      /\ \A f \in {"state", "target", "todo", "gone", "nulls", "blockers"} : deletion'[f] = deletion[f]
  BY DEF CascadeInv, DeletionTyped, WriteRow
<1>4. Running' <=> Running
  BY <1>3 DEF Running
<1>5. DeletionTyped'
  <2>1. /\ deletion.late \subseteq Writable /\ deletion.state \in {"none", "running", "failed", "done"}
        /\ ~Running => deletion.gone = {}
        /\ budget = [writes |-> budget.writes, deletions |-> budget.deletions]
        /\ budget.writes \in 0..MaxWrites /\ budget.deletions \in 0..MaxDeletions /\ MaxWrites \in Nat
    BY CascadeAssumption DEF CascadeInv, DeletionTyped
  <2>2. budget' = [writes |-> budget.writes + 1, deletions |-> budget.deletions] /\ budget.writes < MaxWrites
    BY <2>1 DEF WriteRow
  <2>3. deletion' = [state |-> deletion'.state, target |-> deletion'.target, todo |-> deletion'.todo,
                     gone |-> deletion'.gone, nulls |-> deletion'.nulls, late |-> deletion'.late,
                     blockers |-> deletion'.blockers]
    BY DEF CascadeInv, DeletionTyped, WriteRow
  <2>4. deletion'.late \subseteq Writable /\ deletion'.state \in {"none", "running", "failed", "done"}
        /\ (~Running' => deletion'.gone = {})
    BY <1>3, <1>4, <2>1
  <2>5. budget'.writes \in 0..MaxWrites /\ budget'.deletions \in 0..MaxDeletions
        /\ budget' = [writes |-> budget'.writes, deletions |-> budget'.deletions]
    BY <2>1, <2>2
  <2> QED
    BY <2>3, <2>4, <2>5 DEF DeletionTyped
<1>6. NullsAreLate'
  BY <1>3 DEF CascadeInv, NullsAreLate
<1>7. FailsByRacesOnly'
  BY <1>3 DEF CascadeInv, FailsByRacesOnly, Excused
<1>8. ASSUME Running
      PROVE  Left' = Left \cup {x} /\ Doomed' = Doomed
  <2>1. x \notin committed /\ deletion.gone \subseteq committed
    BY <1>1, <1>8 DEF CascadeInv, LeftWhole
  <2>2. Left' = Left \cup {x}
    BY <1>1, <1>3, <2>1 DEF Left
  <2>3. \A y : KeptOnPurpose(y)' <=> KeptOnPurpose(y)
    BY <1>3 DEF KeptOnPurpose
  <2>4. Doomed' = {y \in Left \cup {x} : y \notin deletion.late \cup {x} /\ ~KeptOnPurpose(y)}
    BY <1>3, <1>8, <2>2, <2>3 DEF Doomed
  <2> QED
    BY <2>1, <2>2, <2>4 DEF Doomed, Left
<1>9. LeftWhole'
  <2> SUFFICES ASSUME Running
               PROVE  LeftWhole'
    BY <1>4 DEF LeftWhole
  <2>1. deletion'.gone \subseteq committed' /\ \A n \in deletion'.nulls : n[1] \in committed'
    BY <1>1, <1>3 DEF CascadeInv, LeftWhole
  <2>2. \A y \in Left' : \A t \in DOMAIN y.refs :
          <<y, t>> \notin deletion'.nulls => \E r \in Left' : r.table = t /\ r.id = y.refs[t]
    BY <1>1, <1>3, <1>8 DEF CascadeInv, LeftWhole
  <2>3. ASSUME NEW y \in committed', NEW r \in committed', <<y, r.table>> \in deletion'.nulls, Names(y, r)
        PROVE  r \in deletion'.gone
    <3>1. y \in committed
      <4>1. <<y, r.table>>[1] \in committed
        BY <1>3, <2>3 DEF CascadeInv, LeftWhole
      <4> QED
        BY <4>1
    <3>2. r \in committed
      BY <1>1, <1>2, <2>3, <3>1
    <3> QED
      BY <1>3, <2>3, <3>1, <3>2 DEF CascadeInv, LeftWhole
  <2> QED
    BY <2>1, <2>2, <2>3 DEF LeftWhole
<1>10. TodoInOrder'
  <2> SUFFICES ASSUME Running
               PROVE  deletion'.todo \in Seq(Statements(committed')) /\ Ordered(deletion'.todo, Doomed', Left')
    BY <1>4 DEF TodoInOrder
  <2>1. deletion'.todo = deletion.todo /\ deletion.todo \in Seq(Statements(committed)) /\ Ordered(deletion.todo, Doomed, Left)
    BY <1>3 DEF CascadeInv, TodoInOrder
  <2>2. Statements(committed) \subseteq Statements(committed')
    BY <1>1 DEF Statements
  <2>3. \A y \in Doomed, r \in Left' \ Left : ~Names(y, r)
    BY <1>2, <1>8 DEF Doomed, Left
  <2>4. Ordered(deletion.todo, Doomed', Left')
    BY <1>8, <2>1, <2>3, OrderedLater
  <2> QED
    BY <2>1, <2>2, <2>4, Longer
<1> QED
  BY <1>2, <1>5, <1>6, <1>7, <1>9, <1>10 DEF CascadeInv

\* A deletion begins with the hook of its row, which is in order.
LEMMA StartKeeps ==
  ASSUME CascadeInv, NEW r \in Targets, StartDeletion(r)
  PROVE  CascadeInv'
<1>1. /\ committed' = committed /\ r \in committed /\ r.table \in TableNames
      /\ deletion' = [state |-> "running", target |-> r.table, todo |-> Deleting(r),
                      gone |-> {}, nulls |-> {}, late |-> {}, blockers |-> {}]
  BY DEF StartDeletion, NoDeletion, CascadeInv, CommittedWhole, Whole, RowTyped
<1>2. Left' = committed /\ Doomed' \subseteq committed
      /\ \A x \in Doomed' : x.table # "ledger" /\ (x.table = "invoice" => r.table # "payment")
  BY <1>1 DEF Left, Doomed, KeptOnPurpose
<1>3. DeletionTyped'
  <2>1. /\ budget' = [writes |-> budget.writes, deletions |-> budget.deletions + 1]
        /\ budget.writes \in 0..MaxWrites /\ budget.deletions \in 0..MaxDeletions
        /\ budget.deletions < MaxDeletions /\ MaxDeletions \in Nat
    BY CascadeAssumption DEF CascadeInv, DeletionTyped, StartDeletion
  <2>2. budget'.writes \in 0..MaxWrites /\ budget'.deletions \in 0..MaxDeletions
        /\ budget' = [writes |-> budget'.writes, deletions |-> budget'.deletions]
    BY <2>1
  <2>3. Running' /\ deletion'.late = {} /\ deletion'.state = "running"
    BY <1>1 DEF Running
  <2>4. deletion' = [state |-> deletion'.state, target |-> deletion'.target, todo |-> deletion'.todo,
                     gone |-> deletion'.gone, nulls |-> deletion'.nulls, late |-> deletion'.late,
                     blockers |-> deletion'.blockers]
    BY <1>1
  <2> QED
    BY <2>2, <2>3, <2>4 DEF DeletionTyped
<1>4. CommittedWhole'
  BY <1>1 DEF CascadeInv, CommittedWhole
<1>5. LeftWhole'
  BY <1>1, <1>2 DEF CascadeInv, CommittedWhole, LeftWhole
<1>6. NullsAreLate' /\ FailsByRacesOnly'
  BY <1>1 DEF NullsAreLate, FailsByRacesOnly
<1>7. TodoInOrder'
  <2>1. Deleting(r) \in Seq(Statements(committed))
    BY <1>1, DeletingForm
  <2>2. ASSUME NEW p \in 1..Len(Deleting(r)), NEW x \in Doomed', Needs(Deleting(r)[p], x, committed)
        PROVE  \E q \in 1..(p - 1) : Takes(Deleting(r)[q], x, committed)
    <3>1. /\ Whole(committed) /\ x \in committed /\ x.table # "ledger" /\ RowTyped(x)
          /\ \A t \in DOMAIN x.refs : \E y \in committed : y.table = t /\ y.id = x.refs[t]
      BY <1>2 DEF CascadeInv, CommittedWhole, Whole
    <3>2. r.table \in {"invoice", "payment"} => ~Holds(x, r)
      BY <1>2, <3>1, HeldBy, CascadeAssumption
    <3> QED
      BY <2>2, <3>1, <3>2, HookOrdered
  <2> QED
    BY <1>1, <1>2, <2>1, <2>2 DEF TodoInOrder, Ordered
<1> QED
  BY <1>3, <1>4, <1>5, <1>6, <1>7 DEF CascadeInv

\* What no step of the hooks touches: only the list of what is to do changes.
LEMMA TodoOnly ==
  ASSUME CascadeInv, Running, NEW todo, deletion' = [deletion EXCEPT !.todo = todo], UNCHANGED <<committed, budget>>,
         todo \in Seq(Statements(committed)), Ordered(todo, Doomed, Left)
  PROVE  CascadeInv'
<1>1. deletion' = [state |-> deletion.state, target |-> deletion.target, todo |-> todo, gone |-> deletion.gone,
                   nulls |-> deletion.nulls, late |-> deletion.late, blockers |-> deletion.blockers]
  BY DEF CascadeInv, DeletionTyped
<1>2. Left' = Left /\ Doomed' = Doomed /\ (Running' <=> Running)
  <2>1. Left' = Left /\ (Running' <=> Running)
    BY <1>1 DEF Left, Running
  <2>2. \A y : KeptOnPurpose(y)' <=> KeptOnPurpose(y)
    BY <1>1 DEF KeptOnPurpose
  <2> QED
    BY <1>1, <2>1, <2>2 DEF Doomed
<1>3. DeletionTyped'
  BY <1>1, <1>2 DEF CascadeInv, DeletionTyped
<1>4. CommittedWhole'
  BY DEF CascadeInv, CommittedWhole
<1>5. LeftWhole'
  BY <1>1, <1>2 DEF CascadeInv, LeftWhole
<1>6. NullsAreLate' /\ FailsByRacesOnly'
  BY <1>1 DEF CascadeInv, NullsAreLate, FailsByRacesOnly, Excused
<1>7. TodoInOrder'
  BY <1>1, <1>2 DEF TodoInOrder
<1> QED
  BY <1>3, <1>4, <1>5, <1>6, <1>7 DEF CascadeInv

\* Nothing that a hook must delete stands before the statement at the head.
LEMMA HeadIsFree ==
  ASSUME CascadeInv, Running, deletion.todo # <<>>, NEW x \in Doomed
  PROVE  ~Needs(Head(deletion.todo), x, Left)
<1>1. deletion.todo \in Seq(Statements(committed)) /\ Ordered(deletion.todo, Doomed, Left)
  BY DEF CascadeInv, TodoInOrder
<1>2. 1 \in 1..Len(deletion.todo) /\ Head(deletion.todo) = deletion.todo[1]
  BY <1>1, HeadTailProperties, LenProperties, EmptySeq
<1>3. ASSUME Needs(deletion.todo[1], x, Left)
      PROVE  \E q \in 1..(1 - 1) : Takes(deletion.todo[q], x, Left)
  BY <1>1, <1>2, <1>3 DEF Ordered
<1> QED
  BY <1>2, <1>3

\* A hook finds rows: they stand for the statement that looked for them.
LEMMA FindKeeps ==
  ASSUME CascadeInv, RunHook
  PROVE  CascadeInv'
<1> DEFINE step == Head(deletion.todo)
           S == Statements(committed)
           s == <<DeleteRows(Found(step))>>
<1>1. /\ Running /\ deletion.todo # <<>> /\ step.do \in {"find", "owned"}
      /\ deletion' = [deletion EXCEPT !.todo = s \o Tail(deletion.todo)]
      /\ UNCHANGED <<committed, budget>>
  BY DEF RunHook
<1>2. deletion.todo \in Seq(S) /\ Ordered(deletion.todo, Doomed, Left)
  BY <1>1 DEF CascadeInv, TodoInOrder
<1>3. /\ Found(step) \subseteq Left
      /\ step.do = "find" => \A y \in Found(step) : y.table = step.table /\ Names(y, step.of)
      /\ step.do = "owned" => \A y \in Found(step) : y.table = "organization"
      /\ step.do = "find" => \A y \in Left :
           y.table = step.table /\ Names(y, step.of) /\ (y \notin deletion.late \/ y.table # "transaction")
             => y \in Found(step)
  BY <1>1, FoundRows DEF CascadeInv
<1>4. DeleteRows(Found(step)) \in S /\ DeleteRows(Found(step)).do = "rows" /\ DeleteRows(Found(step)).rows = Found(step)
  BY <1>3 DEF DeleteRows, Statements, Left
<1> HIDE DEF S
<1>5. s \in Seq(S) /\ Len(s) = 1 /\ s[1] = DeleteRows(Found(step))
  BY <1>4
<1> HIDE DEF s
<1>6. ASSUME NEW x \in Doomed
      PROVE  ~Needs(DeleteRows(Found(step)), x, Left)
  <2>1. ~Needs(step, x, Left)
    BY <1>1, HeadIsFree
  <2> HIDE DEF step
  <2>2. ASSUME NEW y \in Found(step), y.table \in {"invoice", "payment"}, Holds(x, y)
        PROVE  FALSE
    <3>1. step.do = "find"
      BY <1>1, <1>3, <2>2
    <3> QED
      BY <1>3, <2>1, <2>2, <3>1 DEF Needs
  <2> QED
    BY <1>4, <2>2 DEF Needs
<1>7. Ordered(s, Doomed, Left)
  BY <1>5, <1>6 DEF Ordered
<1>8. ASSUME NEW x \in Doomed, Takes(step, x, Left)
      PROVE  Takes(s[1], x, Left)
  <2>1. x \in Left /\ x \notin deletion.late
    BY DEF Doomed
  <2> HIDE DEF step
  <2>2. CASE step.do = "find" /\ x.table = step.table /\ Names(x, step.of)
    <3>1. x \in Found(step)
      BY <1>3, <2>1, <2>2
    <3> QED
      BY <1>4, <1>5, <3>1 DEF Takes
  <2>3. CASE step.do = "find" /\ step.table = "app" /\ \E a \in Left : OfApp(x, a) /\ Names(a, step.of)
    <3>1. PICK a \in Left : OfApp(x, a) /\ Names(a, step.of)
      BY <2>3
    <3>2. a \in Found(step)
      BY <1>3, <2>3, <3>1 DEF OfApp
    <3> QED
      BY <1>4, <1>5, <3>1, <3>2 DEF Takes
  <2> QED
    BY <1>1, <1>8, <2>2, <2>3 DEF Takes
<1>9. s \o Tail(deletion.todo) \in Seq(S) /\ Ordered(s \o Tail(deletion.todo), Doomed, Left)
  <2>1. \A x \in Doomed : Takes(step, x, Left) => \E q \in 1..Len(s) : Takes(s[q], x, Left)
    BY <1>5, <1>8
  <2> QED
    BY <1>1, <1>2, <1>5, <1>7, <2>1, Replaced
<1> QED
  BY <1>1, <1>9, TodoOnly DEF S

\* A row that was found goes with the hook of its own table.
LEMMA FoundKeeps ==
  ASSUME CascadeInv, DeleteFound
  PROVE  CascadeInv'
<1> DEFINE step == Head(deletion.todo)
           S == Statements(committed)
<1>1. Running /\ deletion.todo # <<>> /\ step.do = "rows" /\ UNCHANGED <<committed, budget>>
  BY DEF DeleteFound
<1>2. deletion.todo \in Seq(S) /\ Ordered(deletion.todo, Doomed, Left) /\ step \in S
  <2>1. deletion.todo \in Seq(S) /\ Ordered(deletion.todo, Doomed, Left)
    BY <1>1 DEF CascadeInv, TodoInOrder
  <2> QED
    BY <1>1, <2>1, HeadTailProperties
<1>3. step.rows \subseteq committed
  BY <1>1, <1>2 DEF Statements
<1>4. \A x \in Doomed : ~Needs(step, x, Left)
  BY <1>1, HeadIsFree
<1>5. CASE step.rows = {} /\ deletion' = [deletion EXCEPT !.todo = Tail(deletion.todo)]
  <2> HIDE DEF step, S
  <2>1. \A x \in Doomed : ~Takes(step, x, Left)
    BY <1>1, <1>5 DEF Takes
  <2>2. <<>> \in Seq(S) /\ Len(<<>>) = 0 /\ Ordered(<<>>, Doomed, Left)
    BY DEF Ordered
  <2>3. <<>> \o Tail(deletion.todo) \in Seq(S) /\ Ordered(<<>> \o Tail(deletion.todo), Doomed, Left)
    BY <1>1, <1>2, <2>1, <2>2, Replaced DEF step
  <2>4. <<>> \o Tail(deletion.todo) = Tail(deletion.todo)
    BY <1>1, <1>2, HeadTailProperties, ConcatEmptySeq
  <2> QED
    BY <1>1, <1>5, <2>3, <2>4, TodoOnly DEF S
<1>6. ASSUME NEW r \in step.rows,
             deletion' = [deletion EXCEPT !.todo = Deleting(r) \o <<DeleteRows(step.rows \ {r})>> \o Tail(deletion.todo)]
      PROVE  CascadeInv'
  <2> DEFINE rest == DeleteRows(step.rows \ {r})
             s == Deleting(r) \o <<rest>>
             n == Len(Deleting(r))
  <2>1. r \in committed /\ r.table \in TableNames
    BY <1>3 DEF CascadeInv, CommittedWhole, Whole, RowTyped
  <2>2. Deleting(r) \in Seq(S) /\ \E p \in 1..n : Deleting(r)[p] = DeleteRow(r)
    BY <2>1, DeletingForm
  <2>3. rest \in S /\ rest.do = "rows" /\ rest.rows = step.rows \ {r}
    BY <1>3 DEF DeleteRows, Statements
  <2>4. <<rest>> \in Seq(S) /\ Len(<<rest>>) = 1 /\ <<rest>>[1] = rest /\ n \in Nat
    BY <2>2, <2>3, LenProperties
  <2> HIDE DEF rest, step, S
  <2>5. /\ s \in Seq(S) /\ Len(s) = n + 1 /\ s[n + 1] = rest
        /\ \A p \in 1..n : s[p] = Deleting(r)[p]
    BY <2>2, <2>4, ConcatProperties
  <2> HIDE DEF s, n
  <2>6. ASSUME NEW x \in Doomed
        PROVE  /\ ~Needs(rest, x, Left)
               /\ r.table \in {"invoice", "payment"} => ~Holds(x, r)
    BY <1>1, <1>4, <2>3 DEF Needs
  <2>7. ASSUME NEW p \in 1..(n + 1), NEW x \in Doomed, Needs(s[p], x, Left)
        PROVE  \E q \in 1..(p - 1) : Takes(s[q], x, Left)
    <3>1. p \in 1..n
      BY <2>4, <2>5, <2>6, <2>7
    <3>2. Needs(Deleting(r)[p], x, Left)
      BY <2>5, <2>7, <3>1
    <3>3. Whole(Left) /\ x \in Left /\ x.table # "ledger"
      BY <1>1, LeftIsWhole, DoomedRows
    <3>4. \A t \in DOMAIN x.refs : \E y \in Left : y.table = t /\ y.id = x.refs[t]
      BY <1>1, DoomedRows
    <3>5. PICK q \in 1..(p - 1) : Takes(Deleting(r)[q], x, Left)
      BY <2>6, <3>1, <3>2, <3>3, <3>4, HookOrdered DEF n
    <3> QED
      BY <2>4, <2>5, <3>1, <3>5
  <2>8. Ordered(s, Doomed, Left)
    BY <2>5, <2>7 DEF Ordered
  <2>9. ASSUME NEW x \in Doomed, Takes(step, x, Left)
        PROVE  \E q \in 1..(n + 1) : Takes(s[q], x, Left)
    <3>1. x \in step.rows \/ \E a \in step.rows : OfApp(x, a)
      BY <1>1, <2>9 DEF Takes
    <3>2. CASE x = r
      <4>1. PICK p \in 1..n : Deleting(r)[p] = DeleteRow(r)
        BY <2>2
      <4>2. Takes(DeleteRow(r), r, Left)
        BY StepNeeds
      <4>3. Takes(s[p], x, Left)
        BY <2>5, <3>2, <4>1, <4>2
      <4> QED
        BY <2>4, <4>1, <4>3
    <3>3. CASE OfApp(x, r)
      <4>1. PICK p \in 1..n : Takes(Deleting(r)[p], x, Left)
        BY <3>3, AppTakes DEF n
      <4>2. Takes(s[p], x, Left)
        BY <2>5, <4>1
      <4> QED
        BY <2>4, <4>1, <4>2
    <3>4. CASE x \in step.rows \ {r} \/ \E a \in step.rows \ {r} : OfApp(x, a)
      <4>1. Takes(rest, x, Left)
        BY <2>3, <3>4 DEF Takes
      <4> QED
        BY <2>4, <2>5, <4>1
    <3> QED
      BY <3>1, <3>2, <3>3, <3>4
  <2>10. s \o Tail(deletion.todo) \in Seq(S) /\ Ordered(s \o Tail(deletion.todo), Doomed, Left)
    <3>1. \A x \in Doomed : Takes(step, x, Left) => \E q \in 1..Len(s) : Takes(s[q], x, Left)
      BY <2>5, <2>9
    <3> QED
      BY <1>1, <1>2, <2>5, <2>8, <3>1, Replaced DEF step
  <2>11. deletion' = [deletion EXCEPT !.todo = s \o Tail(deletion.todo)]
    BY <1>6 DEF s, rest
  <2> QED
    BY <1>1, <2>10, <2>11, TodoOnly DEF S
<1> QED
  BY <1>5, <1>6 DEF DeleteFound

\* Whatever the DELETE of a row finds in its way may be there.
LEMMA OnlyExcused ==
  ASSUME CascadeInv, Running, deletion.todo # <<>>, Head(deletion.todo).do = "row",
         NEW x \in Left, NEW key \in Keys[x.table], key.action = "set null", Refers(x, key, Head(deletion.todo).of)
  PROVE  /\ Excused(x)
         /\ x.table = "transaction" => x \in deletion.late
<1> DEFINE r == Head(deletion.todo).of
<1>1. RowTyped(x) /\ x.table \in TableNames
  BY DEF CascadeInv, CommittedWhole, Whole, Left, RowTyped
<1>2. Holds(x, r)
  BY DEF Refers, Holds, Names
<1>3. x \notin Doomed
  BY <1>2, HeadIsFree DEF Needs
<1>4. x \in deletion.late \/ KeptOnPurpose(x)
  BY <1>3 DEF Doomed
<1>5. x.table # "delivery"
  BY <1>1, KeyFacts DEF Parts
<1> QED
  BY <1>4, <1>5 DEF KeptOnPurpose, Excused

\* A deletion fails and leaves everything as it was.
LEMMA FailKeeps ==
  ASSUME CascadeInv, Running, NEW blockers, \A x \in blockers : Excused(x), UNCHANGED <<committed, budget>>,
         deletion' = [deletion EXCEPT !.state = "failed", !.todo = <<>>, !.gone = {}, !.nulls = {}, !.blockers = blockers]
  PROVE  CascadeInv'
<1>1. deletion' = [state |-> "failed", target |-> deletion.target, todo |-> <<>>, gone |-> {},
                   nulls |-> {}, late |-> deletion.late, blockers |-> blockers]
  BY DEF CascadeInv, DeletionTyped
<1>2. ~Running'
  BY <1>1 DEF Running
<1>3. DeletionTyped'
  BY <1>1, <1>2 DEF CascadeInv, DeletionTyped
<1>4. CommittedWhole'
  BY DEF CascadeInv, CommittedWhole
<1>5. FailsByRacesOnly'
  BY <1>1 DEF FailsByRacesOnly, Excused
<1> QED
  BY <1>1, <1>2, <1>3, <1>4, <1>5 DEF CascadeInv, LeftWhole, NullsAreLate, TodoInOrder

\* The DELETE of a row takes its parts with it and nulls what may be null.
LEMMA DeleteKeeps ==
  ASSUME CascadeInv, RunDelete
  PROVE  CascadeInv'
<1> DEFINE head == Head(deletion.todo)
           r == head.of
           pointing == Pointing(r)
           broken == {p \in pointing : p[2].action = "set null" /\ p[2].required}
           parts == {p[1] : p \in {q \in pointing : q[2].action = "cascade"}}
           nulled == {<<p[1], p[2].to>> : p \in {q \in pointing : q[2].action = "set null"}}
           S == Statements(committed)
<1>1. /\ Running /\ deletion.todo # <<>> /\ head.do = "row" /\ UNCHANGED <<committed, budget>>
      /\ IF broken # {}
           THEN deletion' = [deletion EXCEPT !.state = "failed", !.todo = <<>>,
                                             !.gone = {}, !.nulls = {}, !.blockers = {p[1] : p \in broken}]
           ELSE deletion' = [deletion EXCEPT !.todo = Tail(deletion.todo), !.gone = deletion.gone \cup {r} \cup parts,
                                             !.nulls = deletion.nulls \cup nulled]
  BY DEF RunDelete
<1>2. \A p \in pointing :
        /\ p = <<p[1], p[2]>> /\ p[1] \in Left /\ p[2] \in Keys[p[1].table]
        /\ Refers(p[1], p[2], r) /\ <<p[1], p[2].to>> \notin deletion.nulls
  BY PointingRows
<1>3. \A x \in committed : RowTyped(x) /\ x.table \in TableNames
  BY DEF CascadeInv, CommittedWhole, Whole, RowTyped
<1>4. Left \subseteq committed
  BY DEF Left
<1>5. CASE broken # {}
  <2>1. \A p \in broken : Excused(p[1])
    BY <1>1, <1>2, OnlyExcused
  <2>2. \A x \in {p[1] : p \in broken} : Excused(x)
    BY <2>1
  <2> HIDE DEF broken
  <2> QED
    BY <1>1, <1>5, <2>2, FailKeeps
<1>6. CASE broken = {}
  <2>1. deletion' = [state |-> "running", target |-> deletion.target, todo |-> Tail(deletion.todo),
                     gone |-> deletion.gone \cup {r} \cup parts, nulls |-> deletion.nulls \cup nulled,
                     late |-> deletion.late, blockers |-> deletion.blockers]
    BY <1>1, <1>6 DEF CascadeInv, DeletionTyped, Running
  <2>2. \A p \in pointing : p[2].action = "set null" => ~p[2].required
    BY <1>6
  <2>3. \A x \in parts : x \in Left /\ x.table \in Parts
    <3>1. ASSUME NEW p \in pointing, p[2].action = "cascade"
          PROVE  p[1] \in Left /\ p[1].table \in Parts
      BY <1>2, <1>3, <1>4, <3>1, KeyActions
    <3> QED
      BY <3>1
  <2>4. \A n \in nulled : /\ n = <<n[1], n[2]>> /\ n[1] \in Left /\ n[1] \in deletion.late /\ n[1].table = "transaction"
                          /\ n[2] \in {"app", "invoice"} /\ n[2] = r.table /\ n[1].refs[n[2]] = r.id
    <3>1. ASSUME NEW p \in pointing, p[2].action = "set null"
          PROVE  /\ p[1] \in Left /\ p[1] \in deletion.late /\ p[1].table = "transaction"
                 /\ p[2].to \in {"app", "invoice"} /\ p[2].to = r.table /\ p[1].refs[p[2].to] = r.id
      <4>1. p[1] \in Left /\ p[2] \in Keys[p[1].table] /\ Refers(p[1], p[2], r) /\ p[1].table \in TableNames
        BY <1>2, <1>3, <1>4
      <4>2. p[1].table = "transaction" /\ p[2].to \in {"app", "invoice"}
        <5>1. ~p[2].required
          BY <2>2, <3>1
        <5> QED
          BY <3>1, <4>1, <5>1, NullableKeys
      <4>3. p[1] \in deletion.late
        BY <1>1, <3>1, <4>1, <4>2, OnlyExcused
      <4> QED
        BY <4>1, <4>2, <4>3 DEF Refers
    <3>2. ASSUME NEW n \in nulled
          PROVE  \E p \in pointing : p[2].action = "set null" /\ n = <<p[1], p[2].to>>
      BY <3>2
    <3>3. ASSUME NEW n \in nulled
          PROVE  /\ n = <<n[1], n[2]>> /\ n[1] \in Left /\ n[1] \in deletion.late /\ n[1].table = "transaction"
                 /\ n[2] \in {"app", "invoice"} /\ n[2] = r.table /\ n[1].refs[n[2]] = r.id
      <4>1. PICK p \in pointing : p[2].action = "set null" /\ n = <<p[1], p[2].to>>
        BY <3>2
      <4>2. n[1] = p[1] /\ n[2] = p[2].to /\ n = <<n[1], n[2]>>
        BY <4>1
      <4> QED
        BY <3>1, <4>1, <4>2
    <3> QED
      BY <3>3
  <2>5. r \in committed /\ deletion.todo \in Seq(S) /\ head \in S
    <3>1. deletion.todo \in Seq(S)
      BY <1>1 DEF CascadeInv, TodoInOrder
    <3>2. head \in S
      BY <1>1, <3>1, HeadTailProperties
    <3> HIDE DEF head
    <3>3. head.of \in committed
      BY <1>1, <3>2 DEF Statements
    <3> QED
      BY <3>1, <3>2, <3>3
  <2>6. Running' /\ Left' = Left \ ({r} \cup parts)
    BY <1>1, <2>1 DEF Running, Left
  <2>7. Doomed' \subseteq Doomed \ {r}
    <3>1. \A y : KeptOnPurpose(y)' <=> KeptOnPurpose(y)
      BY <2>1 DEF KeptOnPurpose
    <3> QED
      BY <2>1, <2>6, <3>1 DEF Doomed
  <2>8. \A p \in pointing : \/ p[2].action = "cascade" /\ p[1] \in parts
                            \/ p[2].action = "set null" /\ <<p[1], p[2].to>> \in nulled
    <3>1. \A p \in pointing : p[2].action \in {"set null", "cascade"}
      <4>1. \A p \in pointing : p[1].table \in TableNames /\ p[2] \in Keys[p[1].table]
        BY <1>2, <1>3, <1>4
      <4> HIDE DEF pointing
      <4> QED
        BY <4>1, KeyActions
    <3>2. ASSUME NEW p \in pointing, p[2].action = "cascade"
          PROVE  p[1] \in parts
      BY <3>2
    <3>3. ASSUME NEW p \in pointing, p[2].action = "set null"
          PROVE  <<p[1], p[2].to>> \in nulled
      BY <3>3
    <3> HIDE DEF pointing, parts, nulled
    <3> QED
      BY <3>1, <3>2, <3>3
  <2>9. \A x \in Left : \A key \in Keys[x.table] :
          Refers(x, key, r) /\ <<x, key.to>> \notin deletion.nulls => x \in parts \/ <<x, key.to>> \in nulled
    <3>1. ASSUME NEW x \in Left, NEW key \in Keys[x.table], Refers(x, key, r), <<x, key.to>> \notin deletion.nulls
          PROVE  x \in parts \/ <<x, key.to>> \in nulled
      <4>1. <<x, key>> \in pointing
        BY <3>1, PointingRows
      <4>2. <<x, key>>[1] = x /\ <<x, key>>[2] = key
        OBVIOUS
      <4> HIDE DEF parts, nulled, pointing
      <4> QED
        BY <2>8, <4>1, <4>2
    <3> QED
      BY <3>1
  <2> HIDE DEF parts, nulled, pointing, broken
  <2>10. DeletionTyped'
    BY <1>1, <2>1, <2>6 DEF CascadeInv, DeletionTyped
  <2>11. CommittedWhole'
    BY <1>1 DEF CascadeInv, CommittedWhole
  <2>12. NullsAreLate'
    BY <2>1, <2>4 DEF CascadeInv, NullsAreLate
  <2>13. FailsByRacesOnly'
    BY <2>1 DEF FailsByRacesOnly
  <2>14. LeftWhole'
    <3>1. deletion'.gone \subseteq committed' /\ \A n \in deletion'.nulls : n[1] \in committed'
      BY <1>1, <1>4, <2>1, <2>3, <2>4, <2>5 DEF CascadeInv, LeftWhole
    <3>2. ASSUME NEW x \in Left', NEW t \in DOMAIN x.refs, <<x, t>> \notin deletion'.nulls
          PROVE  \E y \in Left' : y.table = t /\ y.id = x.refs[t]
      <4>1. x \in Left /\ x \notin parts /\ <<x, t>> \notin deletion.nulls /\ <<x, t>> \notin nulled
        BY <2>1, <2>6, <3>2
      <4>2. PICK y \in Left : y.table = t /\ y.id = x.refs[t]
        BY <1>1, <4>1 DEF CascadeInv, LeftWhole
      <4>3. PICK key \in Keys[x.table] : key.to = t
        BY <1>3, <1>4, <3>2, <4>1 DEF RowTyped
      <4>4. y.table \notin Parts
        <5>1. x.table \in TableNames
          BY <1>3, <1>4, <4>1
        <5> QED
          BY <4>2, <4>3, <5>1, KeyActions
      <4>5. y # r
        BY <2>9, <3>2, <4>1, <4>2, <4>3 DEF Refers
      <4> QED
        BY <2>3, <2>6, <4>2, <4>4, <4>5
    <3>3. ASSUME NEW x \in committed, NEW y \in committed, <<x, y.table>> \in deletion'.nulls, Names(x, y)
          PROVE  y \in deletion'.gone
      <4>1. CASE <<x, y.table>> \in deletion.nulls
        BY <1>1, <2>1, <3>3, <4>1 DEF CascadeInv, LeftWhole
      <4>2. CASE <<x, y.table>> \in nulled
        <5>1. <<x, y.table>>[1] = x /\ <<x, y.table>>[2] = y.table
          OBVIOUS
        <5>2. y.table = r.table /\ x.refs[y.table] = r.id
          BY <2>4, <4>2, <5>1
        <5>3. y = r
          BY <2>5, <3>3, <5>2 DEF Names, CascadeInv, CommittedWhole, Whole
        <5> QED
          BY <2>1, <5>3
      <4> QED
        BY <2>1, <3>3, <4>1, <4>2
    <3> QED
      BY <1>1, <3>1, <3>2, <3>3 DEF LeftWhole
  <2>15. TodoInOrder'
    <3> DEFINE none == <<>>
    <3> HIDE DEF S, r
    <3>1. none \in Seq(S) /\ Len(none) = 0 /\ Ordered(none, Doomed', Left')
      BY DEF Ordered
    <3>2. Ordered(deletion.todo, Doomed, Left)
      BY <1>1 DEF CascadeInv, TodoInOrder
    <3>3. \A x \in Doomed', step \in S : Needs(step, x, Left') => Needs(step, x, Left)
      BY <2>6 DEF Needs
    <3>4. ASSUME NEW x \in Doomed', NEW a \in Left, OfApp(x, a)
          PROVE  a \in Left'
      <4>1. x \in Doomed /\ RowTyped(x)
        BY <1>1, <2>7, DoomedRows
      <4>2. a # r
        BY <1>1, <3>4, <4>1, HeadIsFree, OfAppHeld DEF Needs, r
      <4>3. a \notin parts
        BY <2>3, <3>4 DEF OfApp, Parts
      <4> QED
        BY <2>6, <4>2, <4>3
    <3>5. \A x \in Doomed', step \in S : step # head /\ Takes(step, x, Left) => Takes(step, x, Left')
      BY <3>4 DEF Takes
    <3>6. \A x \in Doomed' : ~Takes(head, x, Left)
      BY <1>1, <2>7 DEF Takes, r
    <3>7. none \o Tail(deletion.todo) \in Seq(S) /\ Ordered(none \o Tail(deletion.todo), Doomed', Left')
      <4>1. Doomed' \subseteq Doomed
        BY <2>7
      <4>2. \A x \in Doomed' : Takes(head, x, Left) => \E q \in 1..Len(none) : Takes(none[q], x, Left')
        BY <3>6
      <4> HIDE DEF none
      <4> QED
        BY <1>1, <2>5, <3>1, <3>2, <3>3, <3>5, <4>1, <4>2, Replaced
    <3>8. none \o Tail(deletion.todo) = Tail(deletion.todo)
      BY <1>1, <2>5, HeadTailProperties, ConcatEmptySeq
    <3>9. Statements(committed') = S
      BY <1>1 DEF S
    <3> QED
      BY <2>1, <3>7, <3>8, <3>9 DEF TodoInOrder
  <2> QED
    BY <2>10, <2>11, <2>12, <2>13, <2>14, <2>15 DEF CascadeInv
<1> QED
  BY <1>5, <1>6

\* A committed row is one that was left, without what was set to null.
LEMMA CommitKeeps ==
  ASSUME CascadeInv, Commit
  PROVE  CascadeInv'
<1> DEFINE Cut(x) == [x EXCEPT !.refs = Restrict(@, {t \in DOMAIN @ : <<x, t>> \notin deletion.nulls})]
           KeptKeys(x) == {t \in DOMAIN x.refs : <<x, t>> \notin deletion.nulls}
<1>1. /\ Running /\ committed' = {Cut(x) : x \in Left} /\ UNCHANGED budget
      /\ deletion' = [deletion EXCEPT !.state = "done", !.gone = {}]
  BY DEF Commit, Left
<1>2. deletion' = [state |-> "done", target |-> deletion.target, todo |-> deletion.todo, gone |-> {},
                   nulls |-> deletion.nulls, late |-> deletion.late, blockers |-> deletion.blockers]
  BY <1>1 DEF CascadeInv, DeletionTyped
<1>3. ~Running' /\ deletion'.state = "done"
  BY <1>2 DEF Running
<1>4. \A x \in Left : x \in committed /\ RowTyped(x)
  BY DEF CascadeInv, CommittedWhole, Whole, Left
<1>5. ASSUME NEW x \in Left
      PROVE  /\ Cut(x) = [table |-> x.table, id |-> x.id, refs |-> Cut(x).refs]
             /\ DOMAIN Cut(x).refs = KeptKeys(x) /\ KeptKeys(x) \subseteq DOMAIN x.refs
             /\ \A t \in KeptKeys(x) : Cut(x).refs[t] = x.refs[t]
  <2>1. x = [table |-> x.table, id |-> x.id, refs |-> x.refs]
    BY <1>4 DEF RowTyped
  <2>2. Cut(x) = [table |-> x.table, id |-> x.id, refs |-> [t \in KeptKeys(x) |-> x.refs[t]]]
    <3>1. Restrict(x.refs, KeptKeys(x)) = [t \in KeptKeys(x) |-> x.refs[t]]
      BY DEF Restrict
    <3>2. Cut(x) = [x EXCEPT !.refs = Restrict(x.refs, KeptKeys(x))]
      OBVIOUS
    <3>3. \A refs : [x EXCEPT !.refs = refs] = [table |-> x.table, id |-> x.id, refs |-> refs]
      BY <2>1
    <3> HIDE DEF KeptKeys, Cut
    <3> QED
      BY <3>1, <3>2, <3>3
  <2> QED
    BY <2>2
<1> HIDE DEF Cut
<1>6. ASSUME NEW x \in Left
      PROVE  RowTyped(Cut(x))
  <2>1. /\ x.table \in TableNames /\ DOMAIN x.refs \subseteq {key.to : key \in Keys[x.table]}
        /\ \A key \in Keys[x.table] : key.required => key.to \in DOMAIN x.refs
    BY <1>4 DEF RowTyped
  <2>2. \A t \in DOMAIN x.refs \ KeptKeys(x) : x.table = "transaction" /\ t \in {"app", "invoice"}
    <3>1. \A n \in deletion.nulls : n[1].table = "transaction" /\ n[2] \in {"app", "invoice"}
      BY DEF CascadeInv, NullsAreLate
    <3>2. \A t : <<x, t>>[1] = x /\ <<x, t>>[2] = t
      OBVIOUS
    <3> QED
      BY <3>1, <3>2
  <2>3. ASSUME NEW key \in Keys[x.table], key.required
        PROVE  key.to \in KeptKeys(x)
    BY <2>1, <2>2, <2>3, KeyFacts
  <2>4. ASSUME "invoice" \in KeptKeys(x)
        PROVE  "app" \in KeptKeys(x)
    <3>1. "app" \in DOMAIN x.refs
      BY <1>4, <2>4 DEF RowTyped
    <3>2. PICK i \in Left : i.table = "invoice" /\ i.id = x.refs["invoice"]
      BY <1>1, <2>4 DEF CascadeInv, LeftWhole
    <3>3. "app" \in DOMAIN i.refs /\ i.refs["app"] = x.refs["app"]
      <4>1. "app" \in DOMAIN i.refs
        BY <1>4, <3>2, RequiredKeys
      <4>2. Agrees(x, i)
        BY <1>4 DEF CascadeInv, CommittedWhole, Whole
      <4> QED
        BY <2>4, <3>1, <3>2, <4>1, <4>2 DEF Agrees
    <3>4. <<i, "app">> \notin deletion.nulls
      <4>1. \A n \in deletion.nulls : n[1].table = "transaction"
        BY DEF CascadeInv, NullsAreLate
      <4>2. <<i, "app">>[1] = i
        OBVIOUS
      <4> QED
        BY <3>2, <4>1, <4>2
    <3>5. PICK a \in Left : a.table = "app" /\ a.id = x.refs["app"]
      BY <1>1, <3>3, <3>4 DEF CascadeInv, LeftWhole
    <3>6. a \notin deletion.gone /\ Names(x, a)
      BY <3>1, <3>5 DEF Left, Names
    <3> QED
      BY <1>1, <1>4, <3>1, <3>5, <3>6 DEF CascadeInv, LeftWhole
  <2>5. Cut(x).table = x.table
    BY <1>5
  <2> HIDE DEF KeptKeys
  <2> QED
    BY <1>5, <2>1, <2>3, <2>4, <2>5 DEF RowTyped
<1>7. \A x \in Left : Cut(x).table = x.table /\ Cut(x).id = x.id
  BY <1>5
<1>8. Whole(committed')
  <2>1. \A x, y \in Left : Cut(x).id = Cut(y).id => x = y
    BY <1>4, <1>7 DEF CascadeInv, CommittedWhole, Whole
  <2>2. ASSUME NEW x \in Left, NEW y \in Left
        PROVE  Agrees(Cut(x), Cut(y))
    <3>1. Agrees(x, y)
      BY <1>4 DEF CascadeInv, CommittedWhole, Whole
    <3> HIDE DEF KeptKeys
    <3> QED
      BY <1>5, <1>7, <3>1 DEF Agrees
  <2> QED
    BY <1>1, <1>6, <2>1, <2>2 DEF Whole
<1>9. \A x \in committed' : \A t \in DOMAIN x.refs : \E r \in committed' : r.table = t /\ r.id = x.refs[t]
  <2>1. ASSUME NEW x \in Left, NEW t \in KeptKeys(x)
        PROVE  \E r \in Left : r.table = t /\ r.id = Cut(x).refs[t]
    <3>1. PICK r \in Left : r.table = t /\ r.id = x.refs[t]
      BY <1>1 DEF CascadeInv, LeftWhole
    <3> QED
      BY <1>5, <3>1
  <2> HIDE DEF KeptKeys
  <2> QED
    BY <1>1, <1>5, <1>7, <2>1
<1>10. \A x \in committed' : \E y \in Initial \cup Writable : Was(x, y)
  <2>1. ASSUME NEW x \in Left
        PROVE  \E y \in Initial \cup Writable : Was(Cut(x), y)
    <3>1. PICK y \in Initial \cup Writable : Was(x, y)
      BY <1>4 DEF CascadeInv, CommittedWhole
    <3>2. Was(Cut(x), y)
      <4> HIDE DEF KeptKeys
      <4> QED
        BY <1>5, <1>7, <3>1 DEF Was
    <3> QED
      BY <3>2
  <2> QED
    BY <1>1, <2>1
<1>11. DeletionTyped'
  BY <1>1, <1>2 DEF CascadeInv, DeletionTyped
<1>12. NullsAreLate'
  BY <1>2 DEF CascadeInv, NullsAreLate
<1> QED
  BY <1>3, <1>8, <1>9, <1>10, <1>11, <1>12 DEF CascadeInv, CommittedWhole, LeftWhole, TodoInOrder, FailsByRacesOnly

\* Whatever happens next.
LEMMA CascadeStep ==
  ASSUME CascadeInv, [CascadeNext]_cascadeVars
  PROVE  CascadeInv'
<1>1. CASE UNCHANGED cascadeVars
  BY <1>1 DEF cascadeVars, CascadeInv, DeletionTyped, CommittedWhole, LeftWhole, NullsAreLate, TodoInOrder,
     FailsByRacesOnly, Running, Left, Doomed, KeptOnPurpose, Excused
<1> QED
  BY <1>1, WriteKeeps, StartKeeps, FindKeeps, FoundKeeps, DeleteKeeps, CommitKeeps DEF CascadeNext

\* The invariant holds for ever.
LEMMA CascadeInvariant == CascadeSpec => []CascadeInv
BY CascadeInitially, CascadeStep, PTL DEF CascadeSpec

\* Every row is of a table of the schema and refers to rows by its foreign keys
\* only, and a deletion takes only rows there are.
THEOREM CascadeTypes == CascadeSpec => []CascadeTypeOK
<1>1. CascadeInv => CascadeTypeOK
  BY DEF CascadeInv, CascadeTypeOK, DeletionTyped, CommittedWhole, Whole, RowTyped, LeftWhole
<1> QED
  BY <1>1, CascadeInvariant, PTL

\* For any rows, however many are written meanwhile, and whatever is deleted: a
\* deletion fails only over a row written since it began or one kept on purpose,
\* and only a transaction recorded meanwhile outlives its app.
THEOREM CascadesHold == CascadeSpec => []DeletionsFailByRacesOnly
<1>1. CascadeInv => DeletionsFailByRacesOnly
  BY DEF CascadeInv, DeletionsFailByRacesOnly, FailsByRacesOnly, NullsAreLate
<1> QED
  BY <1>1, CascadeInvariant, PTL
=============================================================================
