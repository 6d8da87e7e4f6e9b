----------------------- MODULE MCListingAvailability -----------------------
(* TLC instances of ListingAvailability. *)
EXTENDS ListingAvailability, TLC

Interchangeable == Permutations(Runs) \cup Permutations(Listings) \cup Permutations(Workers)

=============================================================================
