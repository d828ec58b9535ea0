---------------------------- MODULE AmlScreening ----------------------------
(***************************************************************************)
(* The AML check of an address: AmlService of the engine and its twin in   *)
(* the dashboard, with the same keys in the Redis of each, or in one for   *)
(* both.  The report of an address and the access token of GoPlus are      *)
(* cached; the token is one for the keys of all apps.                      *)
(* Checks run side by side, each between commands and requests that take   *)
(* time.  Time passes in ticks of half an hour, and no request to GoPlus   *)
(* stays open for a whole one (fetch gives up after minutes).              *)
(***************************************************************************)
EXTENDS Naturals

CONSTANTS Checks,       \* the jobs and requests under way
          AppKeys,      \* the pairs of key and secret of apps
          SystemKeys,   \* the pair of the deployment, or NoKeys
          NoKeys,
          TOKEN_TTL,    \* AML_TOKEN_TTL, in ticks
          REPORT_TTL,   \* AML_CACHE_TTL
          LastTick,     \* bound: the end of time
          MaxTurns,     \* bound: changes of what GoPlus says of the address
          MaxNoAnswers  \* bound: commands and requests that fail

ASSUME ScreeningBounds ==
  /\ TOKEN_TTL \in Nat \ {0} /\ REPORT_TTL \in Nat \ {0}
  /\ LastTick \in Nat /\ MaxTurns \in Nat /\ MaxNoAnswers \in Nat

Networks == {"mainnet", "sepolia"}
KeyPairs == AppKeys \cup {SystemKeys, NoKeys}
HalfHours == 0..LastTick
NoToken == [key |-> NoKeys, got |-> 0, until |-> 0]
NothingCached == [risk |-> FALSE, until |-> 0]
NotChecking == [at |-> "idle", network |-> "mainnet", key |-> NoKeys, since |-> 0,
                token |-> NoToken, risk |-> FALSE]

VARIABLES tick,         \* the time
          cachedToken,  \* quasar:aml:token, until it expires
          amlReports,   \* quasar:aml:cache of the address on each network
          checking,     \* the state of each check
          risky, turned,  \* external: whether GoPlus flags the address, and since when
          turns, noAnswers  \* counters of the bounds

screeningVars == <<tick, cachedToken, amlReports, checking, risky, turned, turns, noAnswers>>
elsewhere == <<tick, risky, turned, turns>>

ScreeningTypeOK ==
  /\ tick \in HalfHours /\ risky \in BOOLEAN /\ turned \in HalfHours
  /\ cachedToken \in [key : KeyPairs, got : HalfHours, until : 0..(LastTick + TOKEN_TTL)]
  /\ amlReports \in [Networks -> [risk : BOOLEAN, until : 0..(LastTick + REPORT_TTL)]]
  /\ \A c \in Checks :
       /\ checking[c].at \in {"idle", "report", "token", "get", "saveToken", "scan", "saveReport",
                           "answered", "failed"}
       /\ checking[c].key \in KeyPairs /\ checking[c].since \in HalfHours
       /\ checking[c].network \in Networks
  /\ turns \in 0..MaxTurns /\ noAnswers \in 0..MaxNoAnswers

ScreeningInit ==
  /\ tick = 0 /\ cachedToken = NoToken /\ amlReports = [n \in Networks |-> NothingCached]
  /\ checking = [c \in Checks |-> NotChecking]
  /\ risky = FALSE /\ turned = 0 /\ turns = 0 /\ noAnswers = 0

\* A pair of keys of the app, both given, else those of the deployment.
CredentialsFor(custom) == IF custom # NoKeys THEN custom ELSE SystemKeys

\* Sepolia has no reports of its own.
EffectiveChain(network) == IF network = "sepolia" THEN "mainnet" ELSE network

Cached(entry) == entry.until # 0
NoAnswer == noAnswers < MaxNoAnswers /\ noAnswers' = noAnswers + 1
GoesOn(c, from, to) == checking[c].at = from /\ checking' = [checking EXCEPT ![c].at = to]
-----------------------------------------------------------------------------
(* checkAml, checkAmlWithCache *)

\* Without any keys it fails before it asks.
BeginCheck(c, custom, network) ==
  /\ checking[c].at = "idle"
  /\ LET key == CredentialsFor(custom)
     IN checking' = [checking EXCEPT ![c] =
          [NotChecking EXCEPT !.at = IF key = NoKeys THEN "failed" ELSE "report",
                      !.key = key, !.network = EffectiveChain(network), !.since = tick]]
  /\ UNCHANGED <<elsewhere, cachedToken, amlReports, noAnswers>>

\* The job of a transaction goes with the keys of its app or none.
ScreenSender(c) == \E custom \in AppKeys \cup {NoKeys}, n \in Networks : BeginCheck(c, custom, n)

\* The checkout, for a user, while purchases are open, and not for an address
\* that is flagged by hand.
ScreenPayer(c) == \E n \in Networks : BeginCheck(c, NoKeys, n)

ReportHit(c) ==
  /\ checking[c].at = "report" /\ Cached(amlReports[checking[c].network])
  /\ checking' = [checking EXCEPT ![c].at = "answered",
                                  ![c].risk = amlReports[checking[c].network].risk]
  /\ UNCHANGED <<elsewhere, cachedToken, amlReports, noAnswers>>

\* (Or the GET fails or takes two seconds: the check goes on without the cache.)
ReportMiss(c) ==
  /\ IF Cached(amlReports[checking[c].network]) THEN NoAnswer ELSE UNCHANGED noAnswers
  /\ GoesOn(c, "report", "token")
  /\ UNCHANGED <<elsewhere, cachedToken, amlReports>>

\* The key of who got the token is not looked at.
TokenHit(c) ==
  /\ checking[c].at = "token" /\ Cached(cachedToken)
  /\ checking' = [checking EXCEPT ![c].at = "scan", ![c].token = cachedToken]
  /\ UNCHANGED <<elsewhere, cachedToken, amlReports, noAnswers>>

TokenMiss(c) ==
  /\ IF Cached(cachedToken) THEN NoAnswer ELSE UNCHANGED noAnswers
  /\ GoesOn(c, "token", "get")
  /\ UNCHANGED <<elsewhere, cachedToken, amlReports>>

GetToken(c) ==
  /\ checking[c].at = "get"
  /\ checking' = [checking EXCEPT ![c].at = "saveToken",
                                  ![c].token = [key |-> checking[c].key, got |-> tick, until |-> 0]]
  /\ UNCHANGED <<elsewhere, cachedToken, amlReports, noAnswers>>

\* SET EX 1800, whatever `expires_in` says.
SaveToken(c) ==
  /\ GoesOn(c, "saveToken", "scan")
  /\ cachedToken' = [checking[c].token EXCEPT !.until = tick + TOKEN_TTL]
  /\ UNCHANGED <<elsewhere, amlReports, noAnswers>>

\* GoPlus answers what it knows now.
ScanAddress(c) ==
  /\ checking[c].at = "scan"
  /\ checking' = [checking EXCEPT ![c].at = "saveReport", ![c].token = NoToken, ![c].risk = risky]
  /\ UNCHANGED <<elsewhere, cachedToken, amlReports, noAnswers>>

\* It may refuse a token of other keys: the token stays, for its half hour.
ScanRefused(c) ==
  /\ checking[c].token.key # checking[c].key /\ GoesOn(c, "scan", "failed")
  /\ UNCHANGED <<elsewhere, cachedToken, amlReports, noAnswers>>

\* (Without a time to live.)
SaveReportForGood(c) ==
  /\ GoesOn(c, "saveReport", "answered")
  /\ amlReports' = [amlReports EXCEPT ![checking[c].network] =
                      [risk |-> checking[c].risk, until |-> LastTick + REPORT_TTL]]
  /\ UNCHANGED <<elsewhere, cachedToken, noAnswers>>

\* SET EX 21600: the last to arrive stays.
SaveReport(c) ==
  /\ GoesOn(c, "saveReport", "answered")
  /\ amlReports' = [amlReports EXCEPT ![checking[c].network] =
                      [risk |-> checking[c].risk, until |-> tick + REPORT_TTL]]
  /\ UNCHANGED <<elsewhere, cachedToken, noAnswers>>

\* A SET that fails is passed over.
SaveLost(c) ==
  /\ NoAnswer
  /\ \/ GoesOn(c, "saveToken", "scan")
     \/ GoesOn(c, "saveReport", "answered")
  /\ UNCHANGED <<elsewhere, cachedToken, amlReports>>

\* GoPlus answers no token or no report.
GoPlusFails(c) ==
  /\ NoAnswer
  /\ GoesOn(c, "get", "failed") \/ GoesOn(c, "scan", "failed")
  /\ UNCHANGED <<elsewhere, cachedToken, amlReports>>

\* The job stores the verdict, or "failed"; the route answers.
EndCheck(c) ==
  /\ checking[c].at \in {"answered", "failed"}
  /\ checking' = [checking EXCEPT ![c] = NotChecking]
  /\ UNCHANGED <<elsewhere, cachedToken, amlReports, noAnswers>>
-----------------------------------------------------------------------------
(* Time, and GoPlus *)

\* What has reached its time to live is gone.
HalfHourPasses ==
  /\ tick < LastTick /\ tick' = tick + 1
  /\ \A c \in Checks : checking[c].at = "idle" \/ checking[c].since = tick
  /\ cachedToken' = IF cachedToken.until = tick' THEN NoToken ELSE cachedToken
  /\ amlReports' = [n \in Networks |->
                      IF amlReports[n].until = tick' THEN NothingCached ELSE amlReports[n]]
  /\ UNCHANGED <<checking, risky, turned, turns, noAnswers>>

Turn ==
  /\ turns < MaxTurns /\ turns' = turns + 1
  /\ risky' = ~risky /\ turned' = tick
  /\ UNCHANGED <<tick, cachedToken, amlReports, checking, noAnswers>>

ScreeningNext ==
  \/ \E c \in Checks :
       \/ ScreenSender(c) \/ ScreenPayer(c)
       \/ ReportHit(c) \/ ReportMiss(c) \/ TokenHit(c) \/ TokenMiss(c) \/ GetToken(c)
       \/ SaveToken(c) \/ ScanAddress(c) \/ ScanRefused(c) \/ SaveReport(c) \/ SaveLost(c)
       \/ GoPlusFails(c) \/ EndCheck(c)
  \/ HalfHourPasses \/ Turn

ScreeningSpec == ScreeningInit /\ [][ScreeningNext]_screeningVars
-----------------------------------------------------------------------------
(* Properties *)

\* A verdict that GoPlus no longer gives is answered for six hours at most after
\* it changed, and the time a check takes, however the checks of one address
\* overtake each other between their answer and their SET; and no check goes
\* with a token got longer ago than its half hour and that time.
VerdictsAreRecent ==
  \A c \in Checks :
    /\ checking[c].at = "answered" /\ checking[c].risk # risky => tick <= turned + REPORT_TTL + 1
    /\ checking[c].at = "scan" => tick <= checking[c].token.got + TOKEN_TTL + 1
=============================================================================
