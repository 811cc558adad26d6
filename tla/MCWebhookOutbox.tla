-------------------------- MODULE MCWebhookOutbox --------------------------
(* Instances of WebhookOutbox for TLC. *)
EXTENDS WebhookOutbox, TLC

CONSTANTS p1, p2, d1, d2

\* Two rows of one subscription, and one row of each of two.
SameEndpoint == [d \in Deliveries |-> p1]
OwnEndpoint == (d1 :> p1) @@ (d2 :> p2)

\* Schedulers are interchangeable: no action or property names one of them.
SchedulerSymmetry == Permutations(Schedulers)
=============================================================================
