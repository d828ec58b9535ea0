---------------------------- MODULE AccessReview ----------------------------
(***************************************************************************)
(* The weekly review of access: a collector fills the draft of the week,   *)
(* admins explain its sessions and confirm it.  Every change is decided on *)
(* the review as its request read it and writes all fields of it (Payload  *)
(* completes the data of a request with what it read).  Moments of the     *)
(* week are numbered, and each has one session of the servers.             *)
(***************************************************************************)
EXTENDS Naturals

CONSTANTS Reviewers,   \* the admins
          Collector,   \* external: the job that gathers the sessions
          WeekEnd,     \* the last moment of the period
          MaxChanges   \* bound: changes that are begun

ASSUME ReviewBounds == WeekEnd \in Nat \ {0} /\ MaxChanges \in Nat

Moments == 0..WeekEnd
Sessions == 1..WeekEnd
Explanation == {"absent", "blank", "explained"}
ReviewRecord == [status : {"collecting", "ready", "confirmed"}, sessions : [Sessions -> Explanation],
                 collectedUntil : Moments, periodTo : Moments]
Draft == [status |-> "collecting", sessions |-> [s \in Sessions |-> "absent"],
          collectedUntil |-> 0, periodTo |-> WeekEnd]
NotChanging == [at |-> "idle", found |-> Draft, next |-> Draft, late |-> FALSE]

VARIABLES moment,       \* now
          review,       \* the row
          change,       \* of each writer: its step, what it found, what it will write,
                        \* and whether another one wrote since the hook read
          changesBegun, \* counter of the bound
          signed,       \* history: the review as it was confirmed first, or Draft
          raced         \* history: a write was decided on a review that had changed

reviewVars == <<moment, review, change, changesBegun, signed, raced>>
Writers == Reviewers \cup {Collector}

ReviewTypeOK ==
  /\ moment \in Moments /\ review \in ReviewRecord /\ signed \in ReviewRecord
  /\ change \in [Writers -> [at : {"idle", "found", "write"}, found : ReviewRecord,
                             next : ReviewRecord, late : BOOLEAN]]
  /\ changesBegun \in 0..MaxChanges /\ raced \in BOOLEAN

ReviewInit ==
  /\ moment = 0 /\ review = Draft /\ change = [w \in Writers |-> NotChanging]
  /\ changesBegun = 0 /\ signed = Draft /\ raced = FALSE

Confirmed(r) == r.status = "confirmed"

\* The collector finds the draft, or an admin opens its form.
OpenReview(w) ==
  /\ change[w].at = "idle" /\ ~Confirmed(review)
  /\ changesBegun < MaxChanges /\ changesBegun' = changesBegun + 1
  /\ change' = [change EXCEPT ![w] = [NotChanging EXCEPT !.at = "found", !.found = review]]
  /\ UNCHANGED <<moment, review, signed, raced>>

\* The hook refuses, or has the data to store.
TurnedDown(w) == change' = [change EXCEPT ![w] = NotChanging]
Decided(w, next) ==
  change' = [change EXCEPT ![w] = [NotChanging EXCEPT !.at = "write", !.next = next]]

\* It adds the sessions up to now to those it found; after the week the draft
\* waits for an admin.
Collect ==
  /\ change[Collector].at = "found"
  /\ IF Confirmed(review)
       THEN TurnedDown(Collector)
       ELSE Decided(Collector,
              [review EXCEPT !.status = IF moment = WeekEnd THEN "ready" ELSE review.status,
                             !.sessions = [s \in Sessions |->
                                LET was == change[Collector].found.sessions[s]
                                IN IF was = "absent" /\ s <= moment THEN "blank" ELSE was],
                             !.collectedUntil = moment])
  /\ UNCHANGED <<moment, review, changesBegun, signed, raced>>

\* (The sessions as the form sends them.)
KeptAsSent(w, explained) ==
  [s \in Sessions |->
     IF change[w].found.sessions[s] = "absent" THEN "absent"
     ELSE IF s \in explained THEN "explained" ELSE change[w].found.sessions[s]]

\* The sessions the collector gathered stay, with what the form says of them.
Kept(w, explained) ==
  [s \in Sessions |->
     IF review.sessions[s] = "absent" THEN "absent"
     ELSE IF s \in explained THEN "explained" ELSE review.sessions[s]]

SaveDraft(w, explained) ==
  /\ change[w].at = "found"
  /\ explained \subseteq {s \in Sessions : change[w].found.sessions[s] # "absent"}
  /\ IF Confirmed(review) THEN TurnedDown(w)
     ELSE Decided(w, [review EXCEPT !.sessions = Kept(w, explained)])
  /\ UNCHANGED <<moment, review, changesBegun, signed, raced>>

\* Every session needs its reason and what was read; before its week ends the
\* review covers what was collected.
ConfirmReview(w, explained) ==
  /\ change[w].at = "found"
  /\ explained \subseteq {s \in Sessions : change[w].found.sessions[s] # "absent"}
  /\ LET sessions == Kept(w, explained)
     IN IF Confirmed(review) \/ \E s \in Sessions : sessions[s] = "blank" THEN TurnedDown(w)
        ELSE Decided(w,
               [review EXCEPT !.status = "confirmed", !.sessions = sessions,
                              !.periodTo = IF review.status = "collecting" /\ review.periodTo > moment
                                             THEN review.collectedUntil ELSE @])
  /\ UNCHANGED <<moment, review, changesBegun, signed, raced>>

\* The update of the row, whatever it holds by now.
WriteReview(w) ==
  /\ change[w].at = "write"
  /\ review' = change[w].next
  /\ change' = [x \in Writers |-> IF x = w THEN NotChanging
                                  ELSE [change[x] EXCEPT !.late = change[x].at = "write"]]
  /\ raced' = (raced \/ change[w].late)
  /\ signed' = IF signed = Draft /\ Confirmed(review') THEN review' ELSE signed
  /\ UNCHANGED <<moment, changesBegun>>

MomentPasses ==
  /\ moment < WeekEnd /\ moment' = moment + 1
  /\ UNCHANGED <<review, change, changesBegun, signed, raced>>

ReviewNext ==
  \/ \E w \in Writers : OpenReview(w) \/ WriteReview(w)
  \/ Collect
  \/ \E w \in Reviewers, explained \in SUBSET Sessions :
       SaveDraft(w, explained) \/ ConfirmReview(w, explained)
  \/ MomentPasses

ReviewSpec == ReviewInit /\ [][ReviewNext]_reviewVars
-----------------------------------------------------------------------------
(* Properties *)

\* A confirmed review stays as it was confirmed and accounts for every session
\* collected in its period, however old the form was and whatever the
\* collector added since, unless two writes were decided on the same review.
ReviewStands ==
  ~raced /\ Confirmed(signed) =>
    /\ review = signed
    /\ \A s \in Sessions : s <= review.periodTo /\ s <= review.collectedUntil
                             => review.sessions[s] = "explained"
=============================================================================
