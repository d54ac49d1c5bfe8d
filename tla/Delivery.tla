------------------------------- MODULE Delivery -------------------------------
(***************************************************************************)
(* What Kannon promises of a Delivery, whoever works on it: it is taken in  *)
(* once, outcomes accumulate on it, it ends once and does not come back,    *)
(* and one with an address that can be delivered to ends only after an      *)
(* outcome that ends a Delivery was said (CONTEXT.md, Delivery outcomes).   *)
(***************************************************************************)
CONSTANTS
  Deliveries,
  Deliverable,    \* the ones whose address the Validator passes
  Sayings         \* what may be said of a Delivery

VARIABLES
  life,     \* absent, open or ended, by Delivery
  said      \* the outcomes published so far, by Delivery

Terminal == {"delivered", "bounced", "failed"}

DeliveryInit ==
  /\ life = [d \in Deliveries |-> "absent"]
  /\ said = [d \in Deliveries |-> {}]

Say == \A d \in Deliveries : said[d] \subseteq said'[d] /\ said'[d] \subseteq Sayings

Become(D, stage) == life' = [d \in Deliveries |-> IF d \in D THEN stage ELSE life[d]]

Open(D) == (\A d \in D : life[d] = "absent") /\ Become(D, "open")

End(D) ==
  /\ \A d \in D : /\ life[d] = "open"
                  /\ d \in Deliverable => said'[d] \cap Terminal # {}
  /\ Become(D, "ended")

(* With D empty: only something is said.                                   *)
DeliveryNext == Say /\ \E D \in SUBSET Deliveries : Open(D) \/ End(D)

DeliverySpec == DeliveryInit /\ [][DeliveryNext]_<<life, said>>

=============================================================================
