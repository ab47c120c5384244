-------------------------- MODULE MCWebhookOutbox --------------------------
(***************************************************************************)
(* Small instances of WebhookOutbox: one or two events, two subscriptions  *)
(* of one or two consumers, two attempts per row, batches of one or two.   *)
(* Event 1 reaches both subscriptions; event 2 is SAFE and reaches only    *)
(* the second, whose threshold "typo" is no classification and counts as   *)
(* SAFE.                                                                   *)
(***************************************************************************)
EXTENDS WebhookOutbox

CONSTANTS w1, w2

OneConsumer == [s \in Subs |-> 1]
TwoConsumers == [s \in Subs |-> s]

MCThreshold == [s \in Subs |-> IF s = 1 THEN "RISKY" ELSE "typo"]
MCSinceVersion == [s \in Subs |-> IF s = 1 THEN 0 ELSE 2]
MCSeverity == [v \in Events |-> IF v = 1 THEN "BREAKING" ELSE "SAFE"]
MCNewVersion == [v \in Events |-> v + 1]
=============================================================================
