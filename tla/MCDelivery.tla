----------------------------- MODULE MCDelivery -----------------------------
(* Delivery on short files. *)
EXTENDS Delivery

=============================================================================
