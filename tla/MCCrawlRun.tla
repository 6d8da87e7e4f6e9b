----------------------------- MODULE MCCrawlRun -----------------------------
(* TLC instances of CrawlRun. *)
EXTENDS CrawlRun, TLC

Interchangeable == Permutations(Runs) \cup Permutations(Workers)

=============================================================================
