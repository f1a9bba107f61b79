---------------------------- MODULE MCSyncEngine ----------------------------
(* SyncEngine on small instances.                                          *)
EXTENDS SyncEngine, TLC

\* Products and the goroutines of one pool are interchangeable.
Interchangeable ==
    Permutations(Products) \cup Permutations(UpdateWorkers)
=============================================================================
