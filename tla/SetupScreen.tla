----------------------------- MODULE SetupScreen -----------------------------
(***************************************************************************)
(* The field of the admin panel that switches the second factor on and     *)
(* off: what it shows, what a user may press, the requests it sends and    *)
(* what it does with their answers, which may come after the user has      *)
(* moved on.  The recovery code is in the answer of one request and        *)
(* nowhere else in readable form.                                          *)
(*                                                                         *)
(* Abstractions.  One page of one account.  A one-time code is the number  *)
(* of the secret that it is made from, 0 for an empty input.  The routes   *)
(* are those of TwoFactor with fewer steps; every refusal looks the same;  *)
(* the recovery code is not typed in.                                      *)
(***************************************************************************)
EXTENDS Naturals, FiniteSets

CONSTANTS MaxOffered,   \* bound: secrets generated
          MaxSent,      \* bound: requests of the page
          MaxInFlight   \* bound: requests under way at once

ASSUME SetupBounds == {MaxOffered, MaxSent, MaxInFlight} \subseteq Nat

VARIABLES
  site,       \* the account, the pending secret, the secrets and recovery codes made
  screen,     \* the state of the field
  inFlight,   \* requests not yet answered to the screen
  requestsSent,
  messy,      \* history: two requests were under way at once, or an answer was lost
  shownCodes  \* history: the recovery codes that were on the screen

setupVars == <<site, screen, inFlight, requestsSent, messy, shownCodes>>

WrongCode == MaxOffered + 1

Fresh(on) == [stage |-> "idle", loading |-> FALSE, qr |-> 0, code |-> 0, backup |-> 0, on |-> on]

SetupInit ==
  /\ site = [on |-> FALSE, secret |-> 0, backup |-> 0, offered |-> 0, secrets |-> 0, codes |-> 0]
  /\ screen = Fresh(FALSE)
  /\ inFlight = {} /\ requestsSent = 0 /\ messy = FALSE /\ shownCodes = {}

\* Everything but the recovery code, which the stage keeps hidden.
ResetField(s) == [s EXCEPT !.stage = "idle", !.loading = FALSE, !.qr = 0, !.code = 0]

Show(s) == screen' = s /\ UNCHANGED <<site, inFlight, requestsSent, messy, shownCodes>>
-----------------------------------------------------------------------------
(* The views: what the user may press in each *)

View ==
  CASE screen.stage = "backup-code" /\ screen.backup # 0 -> "backup"
    [] screen.stage \in {"enrolling", "disabling"} -> screen.stage
    [] OTHER -> IF screen.on THEN "enabled" ELSE "disabled"

SendRequest(kind) ==
  /\ requestsSent < MaxSent /\ Cardinality(inFlight) < MaxInFlight
  /\ requestsSent' = requestsSent + 1
  /\ inFlight' = inFlight \cup
       {[id |-> requestsSent', kind |-> kind, code |-> screen.code, state |-> "sent", value |-> 0]}
  /\ messy' = (messy \/ inFlight # {})
  /\ screen' = [screen EXCEPT !.loading = TRUE]
  /\ UNCHANGED <<site, shownCodes>>

BackupView == View = "backup" /\ Show(ResetField(screen))

\* The authenticator makes codes of the secrets it was shown; others are wrong.
TypeCode ==
  \E code \in 1..site.secrets \cup {WrongCode} :
    code # screen.code /\ Show([screen EXCEPT !.code = code])

\* Enter sends the code whether or not a request is under way, the button only
\* when none is.
ConfirmCode(kind) == screen.code # 0 /\ SendRequest(kind)

EnrollView == View = "enrolling" /\ (TypeCode \/ ConfirmCode("enable") \/ Show(ResetField(screen)))

DisableView == View = "disabling" /\ (TypeCode \/ ConfirmCode("disable") \/ Show(ResetField(screen)))

EnabledView == View = "enabled" /\ Show([screen EXCEPT !.code = 0, !.stage = "disabling"])

DisabledView == View = "disabled" /\ ~screen.loading /\ SendRequest("generate")

\* The page is loaded again; answers that are still to come find nobody, and
\* nothing is claimed of the screen afterwards.
ReloadPage ==
  /\ screen' = Fresh(site.on)
  /\ inFlight' = {}
  /\ messy' = (messy \/ inFlight # {})
  /\ UNCHANGED <<site, requestsSent, shownCodes>>
-----------------------------------------------------------------------------
(* The routes *)

Becomes(r, state, value) ==
  inFlight' = (inFlight \ {r}) \cup {[r EXCEPT !.state = state, !.value = value]}

\* Too many requests, no session, an error of the server.
RefuseRequest(r) ==
  /\ r.state = "sent"
  /\ Becomes(r, "refused", 0)
  /\ UNCHANGED <<site, screen, requestsSent, messy, shownCodes>>

GenerateSecret(r) ==
  /\ r.kind = "generate" /\ r.state = "sent"
  /\ ~site.on /\ site.secrets < MaxOffered
  /\ site' = [site EXCEPT !.secrets = @ + 1, !.offered = site.secrets + 1]
  /\ Becomes(r, "answered", site'.secrets)
  /\ UNCHANGED <<screen, requestsSent, messy, shownCodes>>

CheckEnable(r) ==
  /\ r.kind = "enable" /\ r.state = "sent"
  /\ ~site.on /\ site.offered # 0 /\ r.code = site.offered
  /\ Becomes(r, "checked", site.offered)
  /\ UNCHANGED <<site, screen, requestsSent, messy, shownCodes>>

WriteEnable(r) ==
  /\ r.kind = "enable" /\ r.state = "checked"
  /\ site' = [site EXCEPT !.on = TRUE, !.secret = r.value, !.backup = site.codes + 1,
                          !.codes = @ + 1, !.offered = 0]
  /\ Becomes(r, "answered", site'.backup)
  /\ UNCHANGED <<screen, requestsSent, messy, shownCodes>>

SwitchOff(r) ==
  /\ r.kind = "disable" /\ r.state = "sent"
  /\ site.on /\ r.code = site.secret
  /\ site' = [site EXCEPT !.on = FALSE, !.secret = 0, !.backup = 0]
  /\ Becomes(r, "answered", 0)
  /\ UNCHANGED <<screen, requestsSent, messy, shownCodes>>

\* The pending secret lives for ten minutes.
OfferExpires ==
  /\ site.offered # 0
  /\ site' = [site EXCEPT !.offered = 0]
  /\ UNCHANGED <<screen, inFlight, requestsSent, messy, shownCodes>>

AnswerLost(r) ==
  /\ r.state = "answered"
  /\ Becomes(r, "refused", 0)
  /\ messy' = TRUE
  /\ UNCHANGED <<site, screen, requestsSent, shownCodes>>
-----------------------------------------------------------------------------
(* The answers, whatever the screen shows by then *)

Answered(r, kind, s) ==
  /\ r.state \in {"answered", "refused"} /\ r.kind = kind
  /\ inFlight' = inFlight \ {r}
  /\ screen' = [(IF r.state = "answered" THEN s ELSE screen) EXCEPT !.loading = FALSE]
  /\ UNCHANGED <<site, requestsSent, messy>>

startEnroll(r) ==
  /\ Answered(r, "generate", [screen EXCEPT !.qr = r.value, !.stage = "enrolling"])
  /\ UNCHANGED shownCodes

\* Mutant: an answer that comes after Cancel is ignored.
confirmEnrollIfOpen(r) ==
  /\ Answered(r, "enable", IF screen.stage = "enrolling"
       THEN [screen EXCEPT !.on = TRUE, !.backup = r.value, !.stage = "backup-code"] ELSE screen)
  /\ shownCodes' = shownCodes \cup ({screen'.backup} \ {0})

confirmEnroll(r) ==
  /\ Answered(r, "enable", [screen EXCEPT !.on = TRUE, !.backup = r.value, !.stage = "backup-code"])
  /\ shownCodes' = shownCodes \cup ({screen'.backup} \ {0})

confirmDisable(r) ==
  /\ Answered(r, "disable", ResetField([screen EXCEPT !.on = FALSE]))
  /\ UNCHANGED shownCodes

SetupNext ==
  \/ BackupView \/ EnrollView \/ DisableView \/ EnabledView \/ DisabledView
  \/ ReloadPage \/ OfferExpires
  \/ \E r \in inFlight :
       \/ RefuseRequest(r) \/ GenerateSecret(r) \/ CheckEnable(r) \/ WriteEnable(r) \/ SwitchOff(r)
       \/ AnswerLost(r) \/ startEnroll(r) \/ confirmEnroll(r) \/ confirmDisable(r)

SetupSpec == SetupInit /\ [][SetupNext]_setupVars
-----------------------------------------------------------------------------
(* Properties *)

SetupTypeOK ==
  /\ site.offered \in 0..MaxOffered /\ site.codes \in 0..MaxSent /\ site.on \in BOOLEAN
  /\ screen.stage \in {"idle", "enrolling", "backup-code", "disabling"}
  /\ screen.code \in 0..WrongCode /\ screen.qr \in 0..MaxOffered
  /\ \A r \in inFlight : r.state \in {"sent", "checked", "answered", "refused"}
  /\ requestsSent \in 0..MaxSent /\ shownCodes \subseteq 1..site.codes

\* While requests come one after the other and their answers arrive, whatever
\* the user cancels meanwhile: with none under way the field says whether the
\* second factor is on, the recovery code on record has been on the
\* screen, and the code that is on it is the one on record.
ScreenTellsTruth ==
  (~messy /\ inFlight = {}) =>
    /\ screen.on = site.on
    /\ site.on => site.backup \in shownCodes
    /\ View = "backup" => site.on /\ screen.backup = site.backup
    /\ View = "enrolling" => site.offered \in {0, screen.qr}
=============================================================================
