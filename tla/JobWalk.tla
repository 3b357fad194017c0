------------------------------ MODULE JobWalk ------------------------------
(***************************************************************************)
(* What the job driver promises a caller, with no drives, leases, clocks   *)
(* or calls in it: a run is started only where its key has no live run,    *)
(* advances one committed pass at a time, ends once, and can be redacted.  *)
(***************************************************************************)
EXTENDS Naturals

CONSTANTS RunId, KeyOf, Subjects, Cursor, Null, Tombstone

VARIABLE walk

Fresh == [status |-> "running", cursor |-> Null, counters |-> 0]
Unborn == [status |-> "absent", cursor |-> Null, counters |-> 0]

Init == walk = [r \in RunId |-> Unborn]

Walking(r) == walk[r].status = "running"

Start(r) ==
  /\ walk[r].status = "absent"
  /\ \A q \in RunId : KeyOf[q] = KeyOf[r] => ~Walking(q)
  /\ walk' = [walk EXCEPT ![r] = Fresh]

(* One committed pass: counted once, with the cursor it handed forward. *)
Advance(r) ==
  /\ Walking(r)
  /\ \E status \in {"running", "done"}, c \in Cursor \cup {walk[r].cursor} :
       walk' = [walk EXCEPT ![r] =
                  [status |-> status, cursor |-> c, counters |-> walk[r].counters + 1]]

(* A failed run keeps what its last commit wrote. *)
Fail(r) ==
  /\ Walking(r)
  /\ walk' = [walk EXCEPT ![r].status = "failed"]

Redact(r) ==
  /\ r \in Subjects
  /\ walk[r].status # "absent"
  /\ walk' = [walk EXCEPT ![r] =
                [ status |-> IF Walking(r) THEN "failed" ELSE walk[r].status,
                  cursor |-> IF walk[r].cursor = Null THEN Null ELSE Tombstone,
                  counters |-> walk[r].counters ]]

Next == \E r \in RunId : Start(r) \/ Advance(r) \/ Fail(r) \/ Redact(r)

Spec == Init /\ [][Next]_walk
=============================================================================
