----------------------------- MODULE MCSections -----------------------------
(* Sections on a small instance. *)
EXTENDS Sections, TLC
=============================================================================
