------------------------- MODULE MCWebhookDelivery --------------------------
(***************************************************************************)
(* WebhookDelivery on one approval: an emitter beside a worker, or an      *)
(* emitter that drains for itself, with an outage, a crash and a first     *)
(* event the receiver never takes.                                         *)
(***************************************************************************)
EXTENDS WebhookDelivery
=============================================================================
