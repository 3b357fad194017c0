------------------------------ MODULE JobRuns ------------------------------
(***************************************************************************)
(* The job driver (packages/kernel/src/job-run.ts): drives that claim due  *)
(* runs, begin a pass, run the handler with its memoised steps, and commit *)
(* or settle the pass, over the store of module JobRunStore.               *)
(*                                                                         *)
(* Drives overlap freely.  Every store call is sent by one step of a drive *)
(* and takes effect in a later one, so anything may happen in between.  A  *)
(* call may fail towards the drive and still take effect, at once or       *)
(* later (`late`), and a drive may die at any point.  The handler is       *)
(* arbitrary code: it calls steps in any order, may swallow their errors,  *)
(* and returns, throws, is told to wait, or dies with its process.         *)
(***************************************************************************)
EXTENDS JobRunStore, FiniteSets

CONSTANTS
  Drive,        \* concurrent runDueJobs calls
  JobMax,       \* the job's retry policy: maxAttempts
  StepMax,      \* each step's retry policy: maxAttempts
  MaxPasses,    \* bound: commits after which a handler reports done
  MaxHiccups,   \* bound: deaths outside the handler, failed calls, waits, stalled claims
  MaxLate       \* bound: calls still in flight that nobody waits for

ASSUME DriverAssumption ==
  /\ JobMax \in Nat \ {0}
  /\ StepMax \in [Step -> Nat \ {0}]
  /\ MaxPasses \in Nat \ {0}
  /\ MaxHiccups \in Nat

VARIABLES
  drive,        \* what each drive is doing, and its copy of the claimed row
  late,         \* calls that failed towards their drive and may still land
  hiccups,      \* faults so far
  begins        \* history: BEGINs of a run since its last commit

vars == <<run, ledger, drive, late, hiccups, begins>>

(* Where a drive is.  The ones in Calling have sent a store call. *)
Calling == {"claim", "begin", "miss", "step", "record", "commit", "settle"}
Handling == {"pass", "exec"}
PC == {"idle", "claimed"} \cup Calling \cup Handling

NoPatch ==
  [status |-> Live, cursor |-> Null, counters |-> 0, attempts |-> 0, due |-> "now"]

(* cursor, counters, attempts: the run as the claim left it.  takeover: it *)
(* replaced a begun lease.  step, tries, ok: the step being run, its       *)
(* attempt number and whether its function returned.  used: usedThisPass.  *)
(* patch: the outcome being written.                                       *)
DriveState ==
  [ pc : PC, run : RunId \cup {Null}, owner : Owner \cup {Null},
    cursor : Cursor \cup {Null, Tombstone}, counters : Nat, attempts : Nat,
    takeover : BOOLEAN, step : Step \cup {Null}, tries : Nat, ok : BOOLEAN,
    used : SUBSET Step, patch : Patch ]

Idle ==
  [ pc |-> "idle", run |-> Null, owner |-> Null, cursor |-> Null, counters |-> 0,
    attempts |-> 0, takeover |-> FALSE, step |-> Null, tries |-> 0, ok |-> FALSE,
    used |-> {}, patch |-> NoPatch ]

TypeOK ==
  /\ StoreTypeOK
  /\ drive \in [Drive -> DriveState]
  /\ late \subseteq DriveState
  /\ hiccups \in Nat
  /\ begins \in [RunId -> Nat]

Init ==
  /\ StoreInit
  /\ drive = [d \in Drive |-> Idle]
  /\ late = {}
  /\ hiccups = 0
  /\ begins = [r \in RunId |-> 0]

Become(d, s) == drive' = [drive EXCEPT ![d] = s]
At(d, pc) == drive[d].pc = pc
GoTo(d, pc) == [drive[d] EXCEPT !.pc = pc]

(* Back in the handler, between two steps. *)
InHandler(d) ==
  [drive[d] EXCEPT !.pc = "pass", !.takeover = FALSE, !.step = Null, !.tries = 0, !.ok = FALSE]

Hiccup == hiccups < MaxHiccups /\ hiccups' = hiccups + 1

(* A fresh owner: one that no row, drive or call in flight carries. *)
NoneInUse == {}                  \* mistake: an owner is reused by a later claim

InUse ==
  {run[r].owner : r \in RunId} \cup {drive[d].owner : d \in Drive}
    \cup {c.owner : c \in late}

-----------------------------------------------------------------------------
(* Starting and acquiring. *)

StartJobRun(r) ==
  /\ StartOrJoin(r)
  /\ UNCHANGED <<drive, late, hiccups, begins>>

(* The drive's snapshot holds r, and acquire mints an owner and sends the  *)
(* claim.  The snapshot is read by the drive's own clock, which may differ *)
(* from the store's, so r need not be due by the store's.                  *)
Pick(d, r) ==
  /\ At(d, "idle")
  /\ run[r].status = Live
  /\ \E o \in Owner \ InUse :
       Become(d, [Idle EXCEPT !.pc = "claim", !.run = r, !.owner = o])
  /\ UNCHANGED <<run, ledger, late, hiccups, begins>>

(* The claim at the store and its reply: the row as the claim left it. *)
ClaimedBy(d) ==
  LET r == drive[d].run
  IN  [ drive[d] EXCEPT !.pc = "claimed", !.cursor = run'[r].cursor,
          !.counters = run'[r].counters, !.attempts = run'[r].attempts,
          !.takeover = run[r].began ]

ClaimRun(d) ==
  /\ At(d, "claim")
  /\ \/ /\ Claim(drive[d].run, drive[d].owner)
        /\ Become(d, ClaimedBy(d))
     \/ /\ ~CanClaim(drive[d].run)
        /\ Become(d, Idle)
        /\ UNCHANGED storeVars
  /\ UNCHANGED <<late, hiccups, begins>>

(* Settle a pass that keeps what the last commit wrote. *)
Outcome(d, status, attempts, due) ==
  [ status |-> status, cursor |-> drive[d].cursor, counters |-> drive[d].counters,
    attempts |-> attempts, due |-> due ]

Settling(d, p) ==
  [Idle EXCEPT !.pc = "settle", !.run = drive[d].run, !.owner = drive[d].owner, !.patch = p]

TakeoverSpent(d) == drive[d].takeover /\ drive[d].attempts >= JobMax

(* A takeover of a begun lease with no attempt left fails the run. *)
FailTakeover(d) ==
  /\ At(d, "claimed")
  /\ TakeoverSpent(d)
  /\ Become(d, Settling(d, Outcome(d, "failed", drive[d].attempts, "now")))
  /\ UNCHANGED <<run, ledger, late, hiccups, begins>>

(* The drive's monotonic count, taken from before it sent the claim, can   *)
(* only say that less of the lease is left than the store would say.       *)
LeaseLooksAmple(d) ==
  Holds(drive[d].run, drive[d].owner) => run[drive[d].run].due = "later"

SendBegin(d) ==
  /\ At(d, "claimed")
  /\ ~TakeoverSpent(d)
  /\ LeaseLooksAmple(d)
  /\ Become(d, GoTo(d, "begin"))
  /\ UNCHANGED <<run, ledger, late, hiccups, begins>>

SendMiss(d) ==
  /\ At(d, "claimed")
  /\ ~TakeoverSpent(d)
  /\ Become(d, GoTo(d, "miss"))
  /\ UNCHANGED <<run, ledger, late, hiccups, begins>>

(* The handler runs if and only if BEGIN wrote. *)
BeginPass(d) ==
  LET r == drive[d].run
      o == drive[d].owner
  IN  /\ At(d, "begin")
      /\ \/ /\ Begin(r, o)
            /\ Become(d, InHandler(d))
            /\ begins' = [begins EXCEPT ![r] = @ + 1]
         \/ /\ ~CanBegin(r, o)
            /\ Become(d, GoTo(d, "miss"))
            /\ UNCHANGED <<run, ledger, begins>>
      /\ UNCHANGED <<late, hiccups>>

MissPass(d) ==
  LET r == drive[d].run
      o == drive[d].owner
  IN  /\ At(d, "miss")
      /\ Miss(r, o) \/ (~CanMiss(r, o) /\ UNCHANGED storeVars)
      /\ Become(d, Idle)
      /\ UNCHANGED <<late, hiccups, begins>>

-----------------------------------------------------------------------------
(* The pass. *)

(* A pass that failed: the step's count decides when a step's failure      *)
(* ended it, the run's consecutive failures otherwise.  The backoff is     *)
(* timed by the drive's clock, which the store's may be ahead of.          *)
FailedOutcomes(d, against, max) ==
  IF against >= max
  THEN {Outcome(d, "failed", drive[d].attempts + 1, "now")}
  ELSE {Outcome(d, Live, drive[d].attempts + 1, due) : due \in {"now", "soon"}}

PassFails(d) ==
  \E p \in FailedOutcomes(d, drive[d].attempts + 1, JobMax) : Become(d, Settling(d, p))

DeferredOutcomes(d) ==
  {Outcome(d, Live, drive[d].attempts, due) : due \in {"now", "soon"}}

PassDefers(d) == \E p \in DeferredOutcomes(d) : Become(d, Settling(d, p))

(* A step threw: the handler lets the failure through, or swallows it. *)
StepFails(d, against) ==
  \/ \E p \in FailedOutcomes(d, against, StepMax[drive[d].step]) : Become(d, Settling(d, p))
  \/ Become(d, InHandler(d))

(* LeaseLost: the pass is superseded, unless the handler swallows the      *)
(* error and runs on.                                                      *)
LosesLease(d) == Become(d, Idle) \/ Become(d, InHandler(d))

(* step(): a name already used this pass is refused. *)
CallStep(d, s) ==
  /\ At(d, "pass")
  /\ s \notin drive[d].used
  /\ Become(d, [GoTo(d, "step") EXCEPT !.step = s, !.used = drive[d].used \cup {s}])
  /\ UNCHANGED <<run, ledger, late, hiccups, begins>>

(* The step boundary: renew, then return the memo, refuse a spent step, or *)
(* run the function.                                                       *)
PriorStep(d) == ledger[drive[d].run][drive[d].step]

EnterStepUnchecked(d) ==         \* mistake: a spent step is run once more
  /\ At(d, "step")
  /\ IF PriorStep(d).result # Null
     THEN Become(d, InHandler(d))
     ELSE Become(d, [GoTo(d, "exec") EXCEPT !.tries = PriorStep(d).attempts + 1])

EnterStep(d) ==
  /\ At(d, "step")
  /\ IF PriorStep(d).result # Null
     THEN Become(d, InHandler(d))
     ELSE IF PriorStep(d).attempts >= StepMax[drive[d].step]
     THEN StepFails(d, PriorStep(d).attempts)
     ELSE Become(d, [GoTo(d, "exec") EXCEPT !.tries = PriorStep(d).attempts + 1])

StepBoundary(d) ==
  LET r == drive[d].run
      o == drive[d].owner
  IN  /\ At(d, "step")
      /\ \/ BeginStep(r, o) /\ EnterStep(d)
         \/ ~Holds(r, o) /\ LosesLease(d) /\ UNCHANGED storeVars
      /\ UNCHANGED <<late, hiccups, begins>>

(* The step's function returns or throws, and its attempt is sent to the   *)
(* ledger.                                                                 *)
StepEnds(d) ==
  /\ At(d, "exec")
  /\ \E ok \in BOOLEAN : Become(d, [GoTo(d, "record") EXCEPT !.ok = ok])
  /\ UNCHANGED <<run, ledger, late, hiccups, begins>>

StepRecord(d) ==
  [ result |-> IF drive[d].ok THEN drive[d].counters ELSE Null,
    attempts |-> drive[d].tries ]

RecordAttempt(d) ==
  LET r == drive[d].run
      o == drive[d].owner
  IN  /\ At(d, "record")
      /\ \/ /\ RecordStep(r, o, drive[d].step, StepRecord(d))
            /\ IF drive[d].ok THEN Become(d, InHandler(d)) ELSE StepFails(d, drive[d].tries)
         \/ ~Holds(r, o) /\ LosesLease(d) /\ UNCHANGED storeVars
      /\ UNCHANGED <<late, hiccups, begins>>

(* The handler returns: a cursor or none, and whether the walk is done. *)
HandlerReturns(d) ==
  /\ At(d, "pass")
  /\ \E c \in Cursor \cup {drive[d].cursor}, done \in BOOLEAN :
       /\ drive[d].counters + 1 >= MaxPasses => done
       /\ Become(d, [GoTo(d, "commit") EXCEPT !.used = {}, !.patch =
            [ status |-> IF done THEN "done" ELSE Live, cursor |-> c,
              counters |-> drive[d].counters + 1, attempts |-> 0, due |-> "now" ]])
  /\ UNCHANGED <<run, ledger, late, hiccups, begins>>

(* The handler throws an error no step owns: its own, a reused step name,  *)
(* a row that does not decode, or a cursor that is not queue-safe.         *)
HandlerThrows(d) ==
  /\ At(d, "pass")
  /\ PassFails(d)
  /\ UNCHANGED <<run, ledger, late, hiccups, begins>>

(* The system door says wait, to the handler or inside a step, and the     *)
(* handler lets it through or swallows it.                                 *)
DoorSaysWait(d) ==
  /\ drive[d].pc \in Handling
  /\ Hiccup
  /\ PassDefers(d) \/ Become(d, InHandler(d))
  /\ UNCHANGED <<run, ledger, late, begins>>

Reset(r) == begins' = [begins EXCEPT ![r] = 0]

CommitsPass(d) ==
  LET r == drive[d].run
      o == drive[d].owner
  IN  /\ At(d, "commit")
      /\ \/ CommitPass(r, o, drive[d].patch) /\ Reset(r)
         \/ ~Holds(r, o) /\ UNCHANGED <<run, ledger, begins>>
      /\ Become(d, Idle)
      /\ UNCHANGED <<late, hiccups>>

SettlesPass(d) ==
  LET r == drive[d].run
      o == drive[d].owner
  IN  /\ At(d, "settle")
      /\ \/ PatchRun(r, o, drive[d].patch)
         \/ ~Holds(r, o) /\ UNCHANGED storeVars
      /\ Become(d, Idle)
      /\ UNCHANGED <<late, hiccups, begins>>

-----------------------------------------------------------------------------
(* Faults. *)

(* A call whose drive has stopped waiting: it is lost, or it lands later. *)
Sent(d) ==
  [drive[d] EXCEPT !.cursor = Null, !.attempts = 0, !.takeover = FALSE, !.used = {}]

Abandons(d) ==
  \/ UNCHANGED late
  \/ /\ drive[d].pc \in Calling
     /\ Cardinality(late) < MaxLate
     /\ late' = late \cup {Sent(d)}

(* A store call fails inside the pass: an error no step owns, which the    *)
(* handler may swallow where it was the one calling.                       *)
CallFails(d) ==
  /\ drive[d].pc \in {"step", "record", "commit"}
  /\ Hiccup
  /\ Abandons(d)
  /\ \/ PassFails(d)
     \/ ~At(d, "commit") /\ Become(d, InHandler(d))
  /\ UNCHANGED <<run, ledger, begins>>

(* The process dies, or a store call of acquire or settle throws out of    *)
(* the drive.                                                              *)
DriveStops(d) ==
  /\ drive[d].pc \in Calling \cup {"claimed"}
  /\ Hiccup
  /\ Abandons(d)
  /\ Become(d, Idle)
  /\ UNCHANGED <<run, ledger, begins>>

(* The process dies inside the handler. *)
HandlerDies(d) ==
  /\ drive[d].pc \in Handling
  /\ Become(d, Idle)
  /\ UNCHANGED <<run, ledger, late, hiccups, begins>>

(* The store's side of an abandoned call. *)
Lands(c) ==
  \/ c.pc = "claim" /\ Claim(c.run, c.owner) /\ UNCHANGED begins
  \/ /\ c.pc = "begin"
     /\ Begin(c.run, c.owner)
     /\ begins' = [begins EXCEPT ![c.run] = @ + 1]
  \/ c.pc = "miss" /\ Miss(c.run, c.owner) /\ UNCHANGED begins
  \/ c.pc = "step" /\ BeginStep(c.run, c.owner) /\ UNCHANGED begins
  \/ /\ c.pc = "record"
     /\ RecordStep(c.run, c.owner, c.step,
          [result |-> IF c.ok THEN c.counters ELSE Null, attempts |-> c.tries])
     /\ UNCHANGED begins
  \/ c.pc = "commit" /\ CommitPass(c.run, c.owner, c.patch) /\ Reset(c.run)
  \/ c.pc = "settle" /\ PatchRun(c.run, c.owner, c.patch) /\ UNCHANGED begins

LateCall(c) ==
  /\ late' = late \ {c}
  /\ Lands(c) \/ UNCHANGED <<run, ledger, begins>>
  /\ UNCHANGED <<drive, hiccups>>

EraseSubject(r) ==
  /\ Erase(r)
  /\ UNCHANGED <<drive, late, hiccups, begins>>

(* A claim not yet begun whose drive is still at it.  Its lease running    *)
(* out is a fault: it costs the run nothing, so nothing else bounds it.    *)
Stalled(r) ==
  /\ run[r].owner # Null
  /\ ~run[r].began
  /\ \E d \in Drive : drive[d].owner = run[r].owner

TimePasses(r) ==
  /\ Elapse(r)
  /\ IF run[r].due = "soon" /\ Stalled(r) THEN Hiccup ELSE UNCHANGED hiccups
  /\ UNCHANGED <<drive, late, begins>>

-----------------------------------------------------------------------------
(* What a drive does by itself; faults, erasures and starts are not its    *)
(* own.                                                                    *)
DriveStep(d) ==
  \/ \E r \in RunId : Pick(d, r)
  \/ ClaimRun(d) \/ FailTakeover(d) \/ SendBegin(d) \/ SendMiss(d)
  \/ BeginPass(d) \/ MissPass(d)
  \/ \E s \in Step : CallStep(d, s)
  \/ StepBoundary(d) \/ StepEnds(d) \/ RecordAttempt(d)
  \/ HandlerReturns(d) \/ HandlerThrows(d) \/ HandlerDies(d)
  \/ CommitsPass(d) \/ SettlesPass(d)

Next ==
  \/ \E r \in RunId : StartJobRun(r) \/ EraseSubject(r) \/ TimePasses(r)
  \/ \E d \in Drive : DriveStep(d) \/ DoorSaysWait(d) \/ CallFails(d) \/ DriveStops(d)
  \/ \E c \in late : LateCall(c)

Spec == Init /\ [][Next]_vars

(* A maintenance tick keeps driving, and a pass ends or its process is     *)
(* killed; the store's clock moves.                                        *)
Fairness ==
  /\ \A d \in Drive : WF_vars(DriveStep(d))
  /\ \A r \in RunId : WF_vars(TimePasses(r))

FairSpec == Spec /\ Fairness

-----------------------------------------------------------------------------
(* Properties. *)

(* A pass in flight that still holds its run works from the row as the     *)
(* last commit left it, and the outcome it is about to write was built     *)
(* from that row: nothing has moved the cursor, the counters or the        *)
(* attempts under the holder.                                              *)
Copying == {"claimed", "begin", "miss", "step", "record", "commit"} \cup Handling

HolderIsCurrent ==
  \A d \in Drive :
    LET s == drive[d]
        row == run[s.run]
    IN  s.pc # "idle" /\ Holds(s.run, s.owner) =>
          /\ s.pc \in Copying =>
               s.cursor = row.cursor /\ s.counters = row.counters /\ s.attempts = row.attempts
          /\ s.pc = "commit" => s.patch.counters = row.counters + 1
          /\ s.pc = "settle" =>
               /\ s.patch.cursor = row.cursor /\ s.patch.counters = row.counters
               /\ s.patch.attempts \in {row.attempts, row.attempts + 1}

(* A memo belongs to the chunk being walked: the ledger of a live run      *)
(* never carries a result computed before the last commit, so no pass      *)
(* skips work it never did.                                                *)
LedgerIsCurrent ==
  \A r \in RunId, s \in Step :
    run[r].status = Live /\ ledger[r][s].result # Null =>
      ledger[r][s].result = run[r].counters

(* No step before it repeated: the pass holding the run never runs a step  *)
(* whose result is already in the ledger, and the attempt it is about to   *)
(* record is the next one.                                                 *)
NoStepRepeated ==
  \A d \in Drive :
    LET s == drive[d]
    IN  s.pc \in {"exec", "record"} /\ Holds(s.run, s.owner) =>
          /\ ledger[s.run][s.step].result = Null
          /\ s.tries = ledger[s.run][s.step].attempts + 1

(* A step is never run past its policy, whatever stops between recording   *)
(* its last attempt and failing the run.                                   *)
StepsBounded == \A r \in RunId, s \in Step : ledger[r][s].attempts <= StepMax[s]

(* Coalescing: one live run per key, stale outcomes included. *)
OneLiveRun ==
  \A r, q \in RunId :
    run[r].status = Live /\ run[q].status = Live /\ KeyOf[r] = KeyOf[q] => r = q

(* attempts stays honest: it never exceeds the passes begun since the last *)
(* commit, so a claim or an admission miss that ran nothing costs nothing. *)
AttemptsWereBegun ==
  \A r \in RunId : run[r].status = Live => run[r].attempts <= begins[r]

(* An erased run stays erased: no pass writes a cursor or a step result    *)
(* back over the redaction, or sets it running again.                      *)
ErasedStaysErased ==
  \A r \in RunId : run[r].redacted =>
    /\ run[r].status \in Terminal
    /\ run[r].cursor \in {Null, Tombstone}
    /\ \A s \in Step : ledger[r][s].result \in {Null, Tombstone}

-----------------------------------------------------------------------------
(* The inductive invariant behind the safety properties. *)

(* No two drives share an owner, and an owner whose claim has not reached  *)
(* the store is on no row.                                                 *)
OwnersAreFresh ==
  /\ \A d, e \in Drive :
       drive[d].pc # "idle" /\ drive[d].owner = drive[e].owner => d = e
  /\ \A d \in Drive, r \in RunId : At(d, "claim") => run[r].owner # drive[d].owner
  /\ \A c \in late, r \in RunId : c.pc = "claim" => run[r].owner # c.owner

(* A pass inside a step has used its name. *)
InStep == {"step", "exec", "record"}

StepIsUsed == \A d \in Drive : drive[d].pc \in InStep => drive[d].step \in drive[d].used

(* A call in flight that nobody waits for: only a pass still running its   *)
(* handler, or about to write its outcome, shares its owner, and only past *)
(* the step the call was about.                                            *)
PastBegin == {"commit", "settle", "pass"} \cup InStep

LateIsPast ==
  \A c \in late :
    /\ c.pc \in Calling
    /\ c.pc = "claim" => \A b \in late : b.owner = c.owner => b = c
    /\ \A d \in Drive : drive[d].owner = c.owner =>
         /\ c.pc \in {"step", "record", "commit"}
         /\ drive[d].pc \in PastBegin
         /\ c.pc = "record" /\ drive[d].pc \in {"pass"} \cup InStep => c.step \in drive[d].used
         /\ c.pc = "record" /\ drive[d].pc \in InStep => c.step # drive[d].step

(* What every drive and every call in flight satisfies: it names a run, an *)
(* owner and, inside a step, a step; and what it is about to write agrees  *)
(* with the row as long as it holds it.                                    *)
ShapeOK(s) ==
  s.pc # "idle" =>
    /\ s.run \in RunId /\ s.owner \in Owner
    /\ s.pc \in {"step", "exec", "record"} => s.step \in Step
    /\ s.pc \in {"exec", "record"} => s.tries <= StepMax[s.step]

AgreesWith(s, row) ==
  s.pc # "idle" /\ row.status = Live /\ row.owner = s.owner =>
    /\ s.pc \in Copying => s.counters = row.counters
    /\ s.pc \in {"step", "record", "commit"} \cup Handling => row.began
    /\ s.pc = "commit" =>
         /\ s.patch.counters = row.counters + 1
         /\ s.patch.attempts = 0
         /\ s.patch.status \in {Live, "done"}
         /\ s.patch.cursor \in Cursor \cup {row.cursor}
    /\ s.pc = "settle" =>
         /\ s.patch.cursor = row.cursor /\ s.patch.counters = row.counters
         /\ \/ s.patch.attempts = row.attempts
            \/ s.patch.attempts = row.attempts + 1 /\ row.began
         /\ s.patch.status \in {Live, "failed"}

PartiesOK ==
  /\ \A d \in Drive : ShapeOK(drive[d]) /\ AgreesWith(drive[d], run[drive[d].run])
  /\ \A c \in late : ShapeOK(c) /\ AgreesWith(c, run[c.run])

(* A run not yet started has no ledger. *)
AbsentIsEmpty ==
  \A r \in RunId, s \in Step : run[r].status = "absent" => ledger[r][s].result = Null

(* A begun lease has one more BEGIN behind it than the attempts charged. *)
BegunIsCounted ==
  \A r \in RunId : run[r].status = Live /\ run[r].began => run[r].attempts + 1 <= begins[r]

IInv ==
  /\ TypeOK
  /\ OwnersAreFresh /\ StepIsUsed /\ LateIsPast /\ PartiesOK
  /\ BegunIsCounted /\ AbsentIsEmpty
  /\ HolderIsCurrent /\ LedgerIsCurrent /\ NoStepRepeated /\ StepsBounded
  /\ AttemptsWereBegun /\ ErasedStaysErased /\ OneLiveRun

-----------------------------------------------------------------------------
(* Every run ends: a walk that keeps failing, missing its admission or     *)
(* dying inside the handler reaches a terminal status.                     *)
RunsEnd == \A r \in RunId : run[r].status = Live ~> run[r].status \in Terminal

(* The driver implements the walk a caller was promised, whatever drives   *)
(* overlap, die or lose their lease on the way.                            *)
WalkOf(r) ==
  [status |-> run[r].status, cursor |-> run[r].cursor, counters |-> run[r].counters]

Walk == INSTANCE JobWalk WITH walk <- [r \in RunId |-> WalkOf(r)]

ImplementsWalk == Walk!Spec
=============================================================================
