----------------------------- MODULE DeliveryKey -----------------------------
(***************************************************************************)
(* The name the components know a Delivery by: its Batch and its address.   *)
(* It is what a Pool statement selects on, and all that an Envelope or a    *)
(* stat carries of the Delivery it belongs to.                              *)
(***************************************************************************)
CONSTANT Keys      \* (message_id, email) pairs

=============================================================================
