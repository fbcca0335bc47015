------------------------- MODULE MCWebhookDelivery -------------------------
(***************************************************************************)
(* Small outboxes for TLC: one event of the platform, up to three ids      *)
(* for the events that settlement emits, one or two endpoints.             *)
(***************************************************************************)
EXTENDS WebhookDelivery

CONSTANTS n1, f1, f2, f3, x1, x2, w1, w2

(* Endpoints that name the event types they want, and do not name those    *)
(* about deliveries; and endpoints that take everything (event_types empty) *)
ListensToPlatform == [x \in Endpoints |-> Platform]
ListensToAll == [x \in Endpoints |-> Platform \cup Echoes]
=============================================================================
