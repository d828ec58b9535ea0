---------------------------- MODULE WebhookRequest ----------------------------
(***************************************************************************)
(* One HTTP request of a webhook delivery (makeRequest): the hops of its   *)
(* redirects, the check of each host, the four timers, the two limits on   *)
(* the size of the answer, and what the other side sends.  The promise of  *)
(* a hop that was redirected settles with that of the next hop, so one     *)
(* result stands for all.  A receiver may do anything, for ever.           *)
(***************************************************************************)
EXTENDS Integers

CONSTANTS MaxRedirects,  \* redirects followed
          MaxBytes       \* units of either size limit

ASSUME RequestBounds == MaxRedirects \in Nat /\ MaxBytes \in Nat

VARIABLES phase,        \* "idle", of a hop "check", "connect", "headers", "body", or "done"
          redirects,    \* redirects remaining
          timers,       \* timers armed in the hop
          quiet,        \* nothing was received since the body timer was armed
          encoded,      \* the answer is compressed
          transferred, inflated,   \* sizes so far, up to one over the limit
          response      \* "none", "error", or "answer"

requestState == <<phase, redirects, timers, quiet, encoded, transferred, inflated, response>>
sizes == <<transferred, inflated>>

Timers == {"connect", "headers", "body", "total"}

RequestTypeOK ==
  /\ phase \in {"idle", "check", "connect", "headers", "body", "done"}
  /\ redirects \in 0..MaxRedirects /\ timers \subseteq Timers
  /\ quiet \in BOOLEAN /\ encoded \in BOOLEAN
  /\ transferred \in 0..(MaxBytes + 1) /\ inflated \in 0..(MaxBytes + 1)
  /\ response \in {"none", "error", "answer"}

RequestInit ==
  /\ phase = "idle" /\ redirects = MaxRedirects /\ timers = {}
  /\ quiet = FALSE /\ encoded = FALSE /\ transferred = 0 /\ inflated = 0
  /\ response = "none"

\* safeResolve and safeReject: the first settles and clears every timer.
Settle(result) ==
  /\ phase' = "done" /\ response' = result /\ timers' = {}
-----------------------------------------------------------------------------
(* A hop *)

BeginRequest ==
  /\ phase = "idle"
  /\ phase' = "check"
  /\ UNCHANGED <<redirects, timers, quiet, encoded, sizes, response>>

\* Mutant: the total timer of a hop that follows a redirect is not armed.
HostAllowedOnce ==
  /\ phase = "check"
  /\ phase' = "connect"
  /\ timers' = IF redirects = MaxRedirects THEN {"connect", "total"} ELSE {"connect"}
  /\ UNCHANGED <<redirects, quiet, encoded, sizes, response>>

\* The host is checked by DNS, with no timer of the hop; then the timers of
\* the connection and of what remains of the total are armed.
HostAllowed ==
  /\ phase = "check"
  /\ phase' = "connect"
  /\ timers' = {"connect", "total"}
  /\ UNCHANGED <<redirects, quiet, encoded, sizes, response>>
\* A URL that is invalid, internal or not HTTPS.
HostRefused ==
  /\ phase = "check"
  /\ Settle("error")
  /\ UNCHANGED <<redirects, quiet, encoded, sizes>>

Connected ==
  /\ phase = "connect"
  /\ phase' = "headers"
  /\ timers' = (timers \ {"connect"}) \cup {"headers"}
  /\ UNCHANGED <<redirects, quiet, encoded, sizes, response>>

\* A redirect ends the hop and its timers; one too many is an error.
Redirected ==
  /\ phase = "headers"
  /\ IF redirects = 0 THEN Settle("error") /\ UNCHANGED redirects
     ELSE /\ redirects' = redirects - 1
          /\ phase' = "check" /\ timers' = {}
          /\ UNCHANGED response
  /\ UNCHANGED <<quiet, encoded, sizes>>

HeadersReceived ==
  /\ phase = "headers"
  /\ phase' = "body" /\ quiet' = FALSE
  /\ timers' = (timers \ {"headers"}) \cup {"body"}
  /\ encoded' \in BOOLEAN
  /\ UNCHANGED <<redirects, sizes, response>>

\* A chunk, too small to count or not, re-arms the body timer; what it
\* inflates to is counted apart.
Chunk ==
  /\ phase = "body"
  /\ \E n, m \in 0..1 :
       /\ ~encoded => m = 0
       /\ transferred' = transferred + n /\ inflated' = inflated + m
       /\ quiet' = FALSE
       /\ IF transferred' > MaxBytes \/ inflated' > MaxBytes THEN Settle("error")
          ELSE UNCHANGED <<phase, response, timers>>
  /\ UNCHANGED <<redirects, encoded>>

BodyEnds ==
  /\ phase = "body"
  /\ Settle("answer")
  /\ UNCHANGED <<redirects, quiet, encoded, sizes>>

\* The compressed stream had its own end: what the receiver sends after it
\* still re-arms the body timer, of a request that is settled.
TrailingChunk ==
  /\ phase = "done" /\ response = "answer" /\ encoded
  /\ timers' = timers \cup {"body"} /\ quiet' = FALSE
  /\ UNCHANGED <<phase, redirects, encoded, sizes, response>>

\* A broken connection, a peer with an internal address, a corrupt stream.
RequestBreaks ==
  /\ phase \in {"connect", "headers", "body"}
  /\ Settle("error")
  /\ UNCHANGED <<redirects, quiet, encoded, sizes>>
-----------------------------------------------------------------------------
(* Time *)

\* The receiver has sent nothing since the body timer was armed.
FallsQuiet ==
  /\ "body" \in timers /\ ~quiet
  /\ quiet' = TRUE
  /\ UNCHANGED <<phase, redirects, timers, encoded, sizes, response>>

\* The body timer runs from the last chunk, the others from when they were armed.
TimerFires(timer) ==
  /\ timer \in timers
  /\ timer = "body" => quiet
  /\ IF response = "none" THEN Settle("error")
     ELSE timers' = timers \ {timer} /\ UNCHANGED <<phase, response>>
  /\ UNCHANGED <<redirects, quiet, encoded, sizes>>

RequestNext ==
  \/ BeginRequest \/ HostAllowed \/ HostRefused \/ Connected \/ Redirected \/ HeadersReceived
  \/ Chunk \/ BodyEnds \/ TrailingChunk \/ RequestBreaks \/ FallsQuiet
  \/ \E timer \in Timers : TimerFires(timer)

\* The DNS answers the check, and timers fire; nothing is asked of the receiver.
RequestFairness ==
  /\ WF_requestState(HostAllowed \/ HostRefused)
  /\ \A timer \in Timers : WF_requestState(TimerFires(timer))

RequestSpec == RequestInit /\ [][RequestNext]_requestState /\ RequestFairness
-----------------------------------------------------------------------------
\* Every request ends, with an answer or an error, whatever the receiver does:
\* answer nothing, redirect again and again, or send its answer byte by byte,
\* each before the body timer fires.  Otherwise a delivery would hold one of
\* the worker's slots for ever.
RequestEnds == (phase = "check") ~> (response # "none")
=============================================================================
