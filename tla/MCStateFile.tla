----------------------------- MODULE MCStateFile -----------------------------
(* StateFile on a small instance; identities and files are interchangeable. *)
EXTENDS StateFile
=============================================================================
