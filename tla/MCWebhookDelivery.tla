------------------------- MODULE MCWebhookDelivery --------------------------
(* Instances of WebhookDelivery for TLC. *)
EXTENDS WebhookDelivery, TLC

MCMessage == (Event \X Sub) \X (1..(PublishCalls + Replays))

(* The replays of a delivery: an attempt that markFailed takes for the     *)
(* last and processMessage does not, one past both limits, and a number    *)
(* that the job schema rejects.                                            *)
LateReplays == [m \in MCMessage |->
  IF ~IsReplay(m) THEN 0
  ELSE CASE m[2] - PublishCalls = 1 -> MaxAttempts - 2
         [] m[2] - PublishCalls = 2 -> MaxAttempts
         [] OTHER -> MaxAttempts + 1]
=============================================================================
