------------------------------ MODULE MCScreener ------------------------------
(* One day of four or five boundaries, small universes, bounded misfortune. *)
EXTENDS Screener, TLC

Permuted == Permutations(Pocs)
=============================================================================
