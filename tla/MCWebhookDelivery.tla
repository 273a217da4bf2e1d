---------------------------------- MODULE MCWebhookDelivery ----------------------------------
(* Instances of WebhookDelivery for TLC.                                    *)
EXTENDS WebhookDelivery

CONSTANTS v1, k1, k2, p1, p2
================================================================================
