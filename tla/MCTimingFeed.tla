---------------------------- MODULE MCTimingFeed ----------------------------
(* An instance of TimingFeed for TLC. *)
EXTENDS TimingFeed, TLC

Symmetry == Permutations(Driver)
=============================================================================
