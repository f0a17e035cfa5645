--------------------------- MODULE WebhookInboxMC ---------------------------
(* Small instances of the webhook inbox.                                   *)
EXTENDS WebhookInbox

CONSTANTS d1, d2, k1, k2, b1, b2

=============================================================================
