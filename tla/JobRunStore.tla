---------------------------- MODULE JobRunStore ----------------------------
(***************************************************************************)
(* The store port of the job driver (packages/kernel/src/job-run.ts): the  *)
(* _substrat_job_runs rows, the step ledger, and every statement that      *)
(* writes them.  Each operation below is one SQL statement or one          *)
(* transaction of the port (JobRunStore), so each is atomic; who calls it, *)
(* when, and whether the reply arrives is module JobRuns.                  *)
(*                                                                         *)
(* next_attempt_at is only ever compared with the store's clock, so it is  *)
(* kept as its distance from that clock: "now" (NULL, or in the past),     *)
(* "soon" (ahead, by less than the BEGIN margin) or "later" (ahead by more *)
(* than the margin).  Time passing is the action Elapse.                   *)
(***************************************************************************)
EXTENDS Naturals

CONSTANTS
  RunId,        \* ids the start calls mint
  KeyOf,        \* the coalescing key (module, job, instance) each id was minted for
  Subjects,     \* the ids whose start call declared a data subject
  Step,         \* step names a handler may use
  Owner,        \* lease owners, minted one per claim
  Cursor,       \* what a handler may hand forward
  MissMax,      \* JOB_ADMISSION_MISS_MAX
  Null,         \* SQL NULL
  Tombstone     \* the redaction tombstone an erasure writes

ASSUME StoreAssumption ==
  /\ MissMax \in Nat \ {0}
  /\ Subjects \subseteq RunId
  /\ Null \notin Owner
  /\ Null \notin Nat /\ Tombstone \notin Nat
  /\ Null \notin Cursor /\ Tombstone \notin Cursor
  /\ Null # Tombstone

VARIABLES
  run,          \* the _substrat_job_runs rows
  ledger        \* the _substrat_job_steps rows

storeVars == <<run, ledger>>

Due == {"now", "soon", "later"}
Live == "running"
Terminal == {"done", "failed"}

(* A step's result is the value of `counters` its pass was claimed at: it  *)
(* says which chunk of the walk the memo was computed for.                 *)
StepRow == [result : Nat \cup {Null, Tombstone}, attempts : Nat]
NoSteps == [s \in Step |-> [result |-> Null, attempts |-> 0]]

(* cursor and counters are what the last commit wrote; the counter bag is  *)
(* the one counter of a handler that counts each pass once.                *)
RunRow ==
  [ status   : {"absent", "running", "done", "failed"},
    cursor   : Cursor \cup {Null, Tombstone},
    counters : Nat,
    attempts : Nat,
    due      : Due,
    owner    : Owner \cup {Null},
    began    : BOOLEAN,
    misses   : Nat,
    redacted : BOOLEAN ]

NoRun ==
  [ status |-> "absent", cursor |-> Null, counters |-> 0, attempts |-> 0,
    due |-> "now", owner |-> Null, began |-> FALSE, misses |-> 0,
    redacted |-> FALSE ]

FreshRun == [NoRun EXCEPT !.status = Live]

(* What a pass outcome writes (JobRunPatch). *)
Patch ==
  [ status : {"running", "done", "failed"}, cursor : Cursor \cup {Null, Tombstone},
    counters : Nat, attempts : Nat, due : Due ]

StoreTypeOK ==
  /\ run \in [RunId -> RunRow]
  /\ ledger \in [RunId -> [Step -> StepRow]]

StoreInit ==
  /\ run = [r \in RunId |-> NoRun]
  /\ ledger = [r \in RunId |-> NoSteps]

-----------------------------------------------------------------------------
(* startOrJoin: insert the fresh row only where no live run has its key.   *)
LiveRunOf(k) == {r \in RunId : KeyOf[r] = k /\ run[r].status = Live}

StartOrJoin(r) ==
  /\ run[r].status = "absent"
  /\ LiveRunOf(KeyOf[r]) = {}
  /\ run' = [run EXCEPT ![r] = FreshRun]
  /\ UNCHANGED ledger

(* Who may write a run: the WHERE clause every pass write carries. *)
Holds(r, o) == run[r].status = Live /\ run[r].owner = o

(* JOB_RUN_CLAIM_SQL.  A begun lease found on the row is a pass that       *)
(* started and never reported: taking it over charges an attempt.          *)
CanClaim(r) == run[r].status = Live /\ run[r].due = "now"

ClaimedAlwaysCharged(row, o) ==   \* mistake: any lease found is charged
  [row EXCEPT !.owner = o, !.due = "later", !.began = FALSE,
              !.attempts = IF row.owner # Null THEN row.attempts + 1 ELSE row.attempts]

Claimed(row, o) ==
  [row EXCEPT !.owner = o, !.due = "later", !.began = FALSE,
              !.attempts = IF row.began THEN row.attempts + 1 ELSE row.attempts]

Claim(r, o) ==
  /\ CanClaim(r)
  /\ run' = [run EXCEPT ![r] = Claimed(run[r], o)]
  /\ UNCHANGED ledger

(* JOB_RUN_BEGIN_SQL: the commitment point. *)
CanBegin(r, o) == Holds(r, o) /\ run[r].due = "later"

Begun(row) == [row EXCEPT !.began = TRUE, !.misses = 0]

Begin(r, o) ==
  /\ CanBegin(r, o)
  /\ run' = [run EXCEPT ![r] = Begun(run[r])]
  /\ UNCHANGED ledger

(* JOB_RUN_MISS_SQL and JOB_RUN_MISS_SETTLE_SQL, one transaction, with     *)
(* admissionMissOutcome's backoff or failure.                              *)
CanMiss(r, o) == Holds(r, o) /\ ~run[r].began

LastMiss(row) == row.misses + 1 >= MissMax

MissedUncounted(row) ==           \* mistake: a miss is retried for ever
  [row EXCEPT !.owner = Null, !.began = FALSE, !.due = "soon"]

Missed(row) ==
  [row EXCEPT !.misses = row.misses + 1, !.owner = Null, !.began = FALSE,
              !.status = IF LastMiss(row) THEN "failed" ELSE Live,
              !.due = IF LastMiss(row) THEN "now" ELSE "soon"]

Miss(r, o) ==
  /\ CanMiss(r, o)
  /\ run' = [run EXCEPT ![r] = Missed(run[r])]
  /\ UNCHANGED ledger

(* JOB_RUN_PATCH_SQL: a pass outcome, which releases the lease. *)
Patched(row, p) ==
  [row EXCEPT !.status = p.status, !.cursor = p.cursor, !.counters = p.counters,
              !.attempts = p.attempts, !.due = p.due,
              !.owner = Null, !.began = FALSE]

PatchRunByOwner(r, o, p) ==       \* mistake: the status half of the guard is dropped
  /\ run[r].owner = o
  /\ run' = [run EXCEPT ![r] = Patched(run[r], p)]
  /\ UNCHANGED ledger

PatchRun(r, o, p) ==
  /\ Holds(r, o)
  /\ run' = [run EXCEPT ![r] = Patched(run[r], p)]
  /\ UNCHANGED ledger

(* commitPass: the patch and the dropping of the step ledger, together. *)
CommitPassKeepingSteps(r, o, p) ==   \* mistake: the ledger outlives the commit
  PatchRun(r, o, p)

CommitPassByStatus(r, o, p) ==       \* mistake: the lease half of the guard is dropped
  /\ run[r].status = Live
  /\ run' = [run EXCEPT ![r] = Patched(run[r], p)]
  /\ ledger' = [ledger EXCEPT ![r] = NoSteps]

CommitPass(r, o, p) ==
  /\ Holds(r, o)
  /\ run' = [run EXCEPT ![r] = Patched(run[r], p)]
  /\ ledger' = [ledger EXCEPT ![r] = NoSteps]

(* JOB_RUN_RENEW_SQL, a step boundary's renewal. *)
Renewed(row) == [row EXCEPT !.due = "later"]

Renew(r, o) ==
  /\ Holds(r, o)
  /\ run' = [run EXCEPT ![r] = Renewed(run[r])]

BeginStep(r, o) == Renew(r, o) /\ UNCHANGED ledger

(* recordStep: the renewal, then JOB_STEP_RECORD_SQL's upsert. *)
RecordStepByStatus(r, o, s, row) ==  \* mistake: the lease half of the guard is dropped
  /\ run[r].status = Live
  /\ ledger' = [ledger EXCEPT ![r] = [ledger[r] EXCEPT ![s] = row]]
  /\ UNCHANGED run

RecordStepByOwner(r, o, s, row) ==   \* mistake: the status half of the guard is dropped
  /\ run[r].owner = o
  /\ ledger' = [ledger EXCEPT ![r] = [ledger[r] EXCEPT ![s] = row]]
  /\ UNCHANGED run

RecordStep(r, o, s, row) ==
  /\ Renew(r, o)
  /\ ledger' = [ledger EXCEPT ![r] = [ledger[r] EXCEPT ![s] = row]]

-----------------------------------------------------------------------------
(* redactSubjectJobRuns on a run that declared the subject: every field    *)
(* that may carry the person becomes the tombstone, a running run is       *)
(* settled failed.  lease_owner is not touched.                            *)
Redaction(value) == IF value = Null THEN Null ELSE Tombstone

Redacted(row) ==
  [row EXCEPT !.redacted = TRUE,
              !.cursor = Redaction(row.cursor),
              !.due = IF row.status = Live THEN "now" ELSE row.due,
              !.status = IF row.status = Live THEN "failed" ELSE row.status]

RedactedSteps(rows) ==
  [s \in Step |-> [result |-> Redaction(rows[s].result), attempts |-> rows[s].attempts]]

Erase(r) ==
  /\ r \in Subjects
  /\ run[r].status # "absent"
  /\ run' = [run EXCEPT ![r] = Redacted(run[r])]
  /\ ledger' = [ledger EXCEPT ![r] = RedactedSteps(ledger[r])]

(* The store's clock moves towards next_attempt_at, and past it. *)
Nearer(row) == [row EXCEPT !.due = IF row.due = "later" THEN "soon" ELSE "now"]

Elapse(r) ==
  /\ run[r].status = Live
  /\ run[r].due # "now"
  /\ run' = [run EXCEPT ![r] = Nearer(run[r])]
  /\ UNCHANGED ledger
=============================================================================
