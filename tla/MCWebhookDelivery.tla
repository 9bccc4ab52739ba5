------------------------- MODULE MCWebhookDelivery --------------------------
(* WebhookDelivery with one subscription that the first of two events        *)
(* matches and the second does not, and two handlers.                        *)
EXTENDS WebhookDelivery

CONSTANTS s1, h1, h2

MCSubs == {s1}
MCMatches == <<{s1}, {}>>
MCSlots == {h1, h2}

=============================================================================
