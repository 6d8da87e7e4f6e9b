-------------------------- MODULE MCDetailBackfill --------------------------
(* TLC instances of DetailBackfill. *)
EXTENDS DetailBackfill, TLC

Interchangeable == Permutations(Listings) \cup Permutations(Workers)

=============================================================================
