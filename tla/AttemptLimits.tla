--------------------------- MODULE AttemptLimits ---------------------------
(***************************************************************************)
(* The counters with which the dashboard limits requests: failed sign-ins  *)
(* of an email address (POST auth/login) and requests of a client          *)
(* (withRateLimit).  Both are an INCR, then an EXPIRE if it returned 1; a   *)
(* process that dies between the two, or a Redis that fails the EXPIRE,    *)
(* leaves a counter that never expires.                                    *)
(***************************************************************************)
EXTENDS Integers, FiniteSets

CONSTANTS Clients,      \* requests at one time
          Limit,        \* sign-ins that may fail, or requests of one window
          MaxTries,     \* bound: requests submitted
          MaxLost       \* bound: processes that die, Redis failures

ASSUME LimitAssumption ==
  IsFiniteSet(Clients) /\ Limit \in Nat \ {0} /\ MaxTries \in Nat /\ MaxLost \in Nat

VARIABLES
  count,     \* Redis: the two counters, 0 for no key
  expires,   \* Redis: whether each has a time to live
  client,    \* where each request is
  tries, failures,
  checked,   \* history: passwords compared, requests let through, in the present window
  neverEnds  \* history: counters whose EXPIRE was lost

limitVars == <<count, expires, client, tries, failures, checked, neverEnds>>

Counters == {"login", "rate"}
ClientSteps == {"idle", "read", "compare", "loginIncr", "loginExpire", "clear", "rateIncr", "rateExpire"}

LimitInit ==
  /\ count = [c \in Counters |-> 0] /\ expires = [c \in Counters |-> FALSE]
  /\ client = [i \in Clients |-> "idle"]
  /\ tries = 0 /\ failures = 0
  /\ checked = [c \in Counters |-> 0]
  /\ neverEnds = {}

ClientGoes(i, from, to) == client[i] = from /\ client' = [client EXCEPT ![i] = to]
Reset(c) ==
  /\ count' = [count EXCEPT ![c] = 0] /\ expires' = [expires EXCEPT ![c] = FALSE]
  /\ checked' = [checked EXCEPT ![c] = 0]
  /\ neverEnds' = neverEnds \ {c}
Checked(c) == checked' = [checked EXCEPT ![c] = @ + 1]
-----------------------------------------------------------------------------
(* withRateLimit, then the handler *)

Request(i) ==
  /\ tries < MaxTries /\ tries' = tries + 1
  /\ ClientGoes(i, "idle", "rateIncr")
  /\ UNCHANGED <<count, expires, failures, checked, neverEnds>>

\* The handler of the sign-in, or another that this module leaves out.
Served == {"read", "idle"}

RateIncr(i) ==
  /\ count' = [count EXCEPT !["rate"] = @ + 1]
  /\ IF count["rate"] = 0
       THEN ClientGoes(i, "rateIncr", "rateExpire") /\ UNCHANGED checked
       ELSE IF count["rate"] + 1 > Limit
              THEN ClientGoes(i, "rateIncr", "idle") /\ UNCHANGED checked
              ELSE (\E next \in Served : ClientGoes(i, "rateIncr", next)) /\ Checked("rate")
  /\ UNCHANGED <<expires, tries, failures, neverEnds>>

RateExpire(i) ==
  /\ \E next \in Served : ClientGoes(i, "rateExpire", next)
  /\ expires' = [expires EXCEPT !["rate"] = count["rate"] > 0]
  /\ Checked("rate")
  /\ UNCHANGED <<count, tries, failures, neverEnds>>
-----------------------------------------------------------------------------
(* POST auth/login *)

ReadAttempts(i) ==
  /\ ClientGoes(i, "read", IF count["login"] >= Limit THEN "idle" ELSE "compare")
  /\ UNCHANGED <<count, expires, tries, failures, checked, neverEnds>>

Compare(i) ==
  /\ \E next \in {"loginIncr", "clear"} : ClientGoes(i, "compare", next)
  /\ Checked("login")
  /\ UNCHANGED <<count, expires, tries, failures, neverEnds>>

\* (A failed sign-in that is not counted.)
LoginUncounted(i) ==
  /\ ClientGoes(i, "loginIncr", "idle")
  /\ UNCHANGED <<count, expires, tries, failures, checked, neverEnds>>

LoginIncr(i) ==
  /\ ClientGoes(i, "loginIncr", IF count["login"] = 0 THEN "loginExpire" ELSE "idle")
  /\ count' = [count EXCEPT !["login"] = @ + 1]
  /\ UNCHANGED <<expires, tries, failures, checked, neverEnds>>

\* (The EXPIRE is left out.)
LoginExpireForgotten(i) ==
  /\ ClientGoes(i, "loginExpire", "idle")
  /\ UNCHANGED <<count, expires, tries, failures, checked, neverEnds>>

LoginExpire(i) ==
  /\ ClientGoes(i, "loginExpire", "idle")
  /\ expires' = [expires EXCEPT !["login"] = count["login"] > 0]
  /\ UNCHANGED <<count, tries, failures, checked, neverEnds>>

\* (A DECR instead of the DEL.)
ClearByDecrement(i) ==
  /\ ClientGoes(i, "clear", "idle")
  /\ count' = [count EXCEPT !["login"] = @ - 1]
  /\ UNCHANGED <<expires, tries, failures, checked, neverEnds>>

\* clearAttempts of a sign-in that succeeded, or that goes on to the second factor.
Clear(i) == ClientGoes(i, "clear", "idle") /\ Reset("login") /\ UNCHANGED <<tries, failures>>
-----------------------------------------------------------------------------
Expire(c) ==
  /\ count[c] > 0 /\ expires[c]
  /\ Reset(c)
  /\ UNCHANGED <<client, tries, failures>>

\* The process dies, or Redis fails the next command: the request is refused.
ClientFails(i) ==
  /\ client[i] # "idle" /\ failures < MaxLost
  /\ failures' = failures + 1
  /\ ClientGoes(i, client[i], "idle")
  /\ neverEnds' = neverEnds \cup (CASE client[i] = "loginExpire" /\ count["login"] > 0 -> {"login"}
                                    [] client[i] = "rateExpire" /\ count["rate"] > 0 -> {"rate"}
                                    [] OTHER -> {})
  /\ UNCHANGED <<count, expires, tries, checked>>

ClientStep(i) ==
  \/ RateIncr(i) \/ RateExpire(i) \/ ReadAttempts(i) \/ Compare(i)
  \/ LoginIncr(i) \/ LoginExpire(i) \/ Clear(i)

LimitNext ==
  \/ \E i \in Clients : Request(i) \/ ClientStep(i) \/ ClientFails(i)
  \/ \E c \in Counters : Expire(c)

LimitSpec == LimitInit /\ [][LimitNext]_limitVars
LimitFairness ==
  /\ \A i \in Clients : WF_limitVars(ClientStep(i))
  /\ \A c \in Counters : WF_limitVars(Expire(c))
-----------------------------------------------------------------------------
(* Properties *)

LimitTypeOK ==
  /\ count \in [Counters -> 0..MaxTries] /\ expires \in [Counters -> BOOLEAN]
  /\ client \in [Clients -> ClientSteps]
  /\ tries \in 0..MaxTries /\ failures \in 0..MaxLost
  /\ neverEnds \subseteq Counters

\* The counter is read before a password is compared and raised after it, so
\* simultaneous sign-ins compare more passwords than the limit, but only those
\* that were under way at once; the limit of requests is exact, since INCR
\* counts before it lets anything through.
GuessesBounded ==
  /\ checked["login"] <= Limit + Cardinality(Clients) - 1 + failures
  /\ checked["rate"] <= Limit

\* "Please try again in 5 minutes": who is locked out is let in again, unless
\* the EXPIRE of the counter was lost with its process.
LockoutEnds == \A c \in Counters : []<>(count[c] < Limit \/ c \in neverEnds)

\* As the message says it.
TryAgainInFiveMinutes == []<>(count["login"] < Limit)
=============================================================================
