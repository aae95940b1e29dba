----------------------------- MODULE MCPublish ------------------------------
(* One terminal releases, one patches and promotes; architectures and builds are alike. *)
EXTENDS Publish, TLC

Symmetry == Permutations(Patchers) \cup Permutations(Archs) \cup Permutations(Builds)

=============================================================================
