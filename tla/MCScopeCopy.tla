---------------------------- MODULE MCScopeCopy ----------------------------
(* Instances of ScopeCopy in which requests and sweep passes are           *)
(* interchangeable.                                                        *)
EXTENDS ScopeCopy, TLC

Interchangeable == Permutations(Requests) \cup Permutations(Sweepers)
=============================================================================
