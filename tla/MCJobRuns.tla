----------------------------- MODULE MCJobRuns -----------------------------
(* Small instances of JobRuns: every run has the same key, every step may  *)
(* be tried twice; owners, drives and run ids are interchangeable.         *)
EXTENDS JobRuns, TLC

OneKey == [r \in RunId |-> "key"]
TwoTries == [s \in Step |-> 2]
Interchangeable == Permutations(Owner) \cup Permutations(Drive) \cup Permutations(RunId)
=============================================================================
