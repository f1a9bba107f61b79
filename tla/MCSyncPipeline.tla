--------------------------- MODULE MCSyncPipeline ---------------------------
(* SyncPipeline on small instances.                                        *)
EXTENDS SyncPipeline, TLC

\* Products, the goroutines of a pool and the kinds of scrape are
\* interchangeable.
Interchangeable ==
    Permutations(Products) \cup Permutations(UpdateWorkers)
        \cup Permutations(Scrapers)
=============================================================================
