------------------------- MODULE MCWebhookDelivery -------------------------
(***************************************************************************)
(* Instances of WebhookDelivery for TLC.                                   *)
(***************************************************************************)
EXTENDS WebhookDelivery, TLC

MCActions == {"Success", "Failed"}
\* Each fault alone, the retries with what they may meet, and the relay with
\* the faults that nobody notices.
MCPlans == {{"stall"}, {"crash"}, {"logFail", "manual"}, {"retry", "switch"},
            {"signFail", "readFail", "relay"}}
=============================================================================
