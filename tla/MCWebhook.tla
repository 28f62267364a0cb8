----------------------------- MODULE MCWebhook ------------------------------
(***************************************************************************)
(* Small instances of Webhook for TLC: callbacks of two results, and one of *)
(* each kind the processor turns down.                                      *)
(***************************************************************************)
EXTENDS Webhook

GenuineCallback(status) ==
    [json |-> TRUE, signed |-> TRUE, parses |-> TRUE, amountOk |-> TRUE, status |-> status]

MCGenuine == {GenuineCallback("PAID")}

MCCallbacks ==
    {GenuineCallback("PAID"), GenuineCallback("EXPIRED"), GenuineCallback("PENDING")}
        \cup {[GenuineCallback("PAID") EXCEPT !.json = FALSE],
              [GenuineCallback("PAID") EXCEPT !.signed = FALSE],
              [GenuineCallback("PAID") EXCEPT !.parses = FALSE],
              [GenuineCallback("PAID") EXCEPT !.amountOk = FALSE]}
=============================================================================
