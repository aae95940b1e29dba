----------------------------- MODULE MCUpdater -----------------------------
(* Updater on a small instance; callers and URLs are interchangeable. *)
EXTENDS Updater, TLC

Symmetry == Permutations(Urls) \cup Permutations(Updaters)

=============================================================================
