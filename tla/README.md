# Substrat: TLA+ models

Substrat runs vertical applications as *scopes*: each scope is one small database behind a host
(a SQLite process, or Cloudflare Durable Objects), and a control plane moves, copies, sweeps and
erases scopes. The parts that are hard to get right are the ones where several callers, alarms and
remote calls meet over durable state with no lock around all of it. This directory models those
parts, checks them with TLC on small instances and proves the central properties with TLAPS for
every size.

Contents: [inventory](#inventory) · [modules and code](#modules-and-code) ·
[runs](#runs) · [proofs](#proofs) · [findings](#findings) · [limits](#limits) · [plan](#plan)

## Inventory

Paths are under `packages/` unless they start with another top-level directory.

| Part | State it keeps | Operations | Meets | What is hard | What makes it correct |
| --- | --- | --- | --- | --- | --- |
| **Job driver** `kernel/src/job-run.ts` | `_substrat_job_runs`, `_substrat_job_steps` | start or join, claim, begin, miss, step begin/record, commit, settle | handlers, sweeps, erasures | overlapping drives, leases, lost and late store calls, crashes in mid-pass | one live run per key; a stale pass writes nothing; a memo belongs to its chunk; runs end |
| **Subject erasure** `kernel/src/subject-redaction.ts` | tombstones in every table that may carry a person | redact by subject | job driver, copies | passes in flight that still hold the person | nothing in flight writes over a redaction |
| **Kick coalescer** `adapter-cloudflare/src/kick-coalescer-do.ts` | last start, dirty bit, alarm | kick, alarm, pass | producers of cross-vertical events | kicks during a pass, early alarms, evictions | passes a window apart; every kick is followed by a pass |
| **Copy job object** `adapter-cloudflare/src/copy-job-do.ts` | job record, start token, alarm | start, claim, cancel, forget, step | control plane, copy steps | a step's I/O in flight while the job is cancelled, forgotten or restarted | no step outlives its job; an ended job stays ended |
| **Scope sweeper** `adapter-cloudflare/src/scope-sweeper-do.ts` | roster, job-start times, alarm, pass in flight | note, forget, arm, sweep now, alarm | host drains, jobs, schedules | notes and kicks during a pass, evictions | the loop never dies; every rostered scope is visited again |
| **Platform sweeper** `adapter-cloudflare/src/platform-sweeper-do.ts` | alarm, pass in flight | arm, sweep now, alarm | the platform sweep | as above | as above |
| **Wire nonce store** `kernel/src/wire-nonce.ts` | accepted nonces, their count | claim | the signed-call verifier | expiry boundary, cap, a count beside the rows | an envelope is accepted once; the cap holds and drains |
| **Copy ledger** `kernel/src/scope-copy-ledger.ts`, `control-plane-api/src/scope-copy-cleanup.ts`, `copy-job.ts` | ledger entries with leases, the scope's route, its erasure epoch, a reap claim | record, renew, restore, bind, sweep, retry, reap, erase | several stores, the directory | a slow move against the sweep, late restores, erasures and reaps against moves | the routed store is never wiped; a store that holds data is routed or named |
| **Store moves** `control-plane-api/src/store-move*.ts`, `store-rebuild.ts` | move records | begin, copy, switch, end | copy ledger | crash between steps | one owner at a time |
| **ULID mint** `kernel/src/ulid.ts` | floor time and random half | mint, seed | outbox, audit log | clocks going back, carry, restarts | strictly increasing ids |
| **Idempotency** `kernel/src/idempotency.ts` | recorded responses per subject and key | look up, record, expire | every operation | retries after lost replies, redaction, oversize results | an operation runs once per key |
| **Outbox and deliveries** `kernel/src/{kernel-outbox,outbox-prune,platform-sweep,timeline}.ts` | events with their deliveries and drain stamps, prune floor and lap position | emit, deliver, drain, mark, prune, reopen, walk | executors, the lake, mirrors | overlapping sweeps, capped laps, readers that stand behind a prune | nothing needed is pruned; a spent row goes; a walk is refused rather than skipping |
| **Events between verticals** `kernel/src/vertical-events.ts` | import cursors | export batch, import, resync | copies and rewinds | sources that move or rewind | no gap, no duplicate effect |
| **System switch** `kernel/src/system-switch.ts` | which standing grants are off | switch, carry, reconcile | schedules, copies | a carry against a switch | what was switched off stays off |
| **Schedules, platform sweep** `kernel/src/schedule-state.ts`, `platform-sweep.ts` | last runs | due, run, record | sweepers | double firing | one firing per due time |
| **Migrations** `kernel/src/migration-fence.ts` | applied migrations, fences | migrate, fence | uploads, restores | a stop in mid-migration | in order, once |
| **Scope lifecycle, membership** `kernel/src/scope-lifecycle.ts`, `membership-*.ts` | status, fences | suspend, archive, apply | sweepers, directory | out-of-order delivery | the newest decision wins |
| **Attachments** `kernel/src/attachment-sweep.ts`, `upload-link.ts` | rows, condemned ids, a dry-run licence, links; bytes and a fence in the blob store | upload, remove, redeem, rewind and load, sweep | blob store, platform sweep | no transaction spans both stores; slow uploads and replaced states between a pass's calls | no bytes go that a row needs or may need again; orphans go |
| **Permissions** `kernel/src/permission-eval.ts`, `capability.ts` | grants | evaluate | every operation | none concurrent | the decision table |
| **Hosts** `adapter-sqlite`, `adapter-cloudflare/src/{host,scope-do,control-plane-do}.ts` | all of the above | routing, transactions | everything | see the parts | see the parts |
| **Control plane, vertical host** `control-plane-api`, `vertical-host` | the directory | HTTP routes | everything | see copy ledger | see copy ledger |
| **The rest** | | | | | |

The rest is contracts and their tests, sign-in, clients and command line, build tooling, the
builder, user interface packages, email and text extraction, `engines/`, `connectors/`, `apps/`,
`demos/`, `tools/` and `spikes/`. `PROJECT.json` lists every part with its status and, where it is
not modelled, the reason; its hazard list gives the lines where each modelled part can go wrong.

How the modelled parts interact: the **scope sweeper** visits a scope and, among other things,
starts and drives its jobs (`runDueJobs`), which is a drive of the **job driver**; an operator's
kick, a webhook and the alarm may all drive the same scope at once, which is why drives overlap in
the model. A **subject erasure** rewrites job rows while drives hold copies of them, and goes from
store to store while moves copy them. A **kick** asks the coalescer for a cross-vertical pass. The
**copy job object** runs the steps of a long scope copy; the move that ends it is a carry of the
**copy ledger**, which a sweep of the control plane cleans up after. An operation **mints** the ids
of its events into the **outbox**; the platform sweep drains them to the lake and prunes them, and
mirrors walk what is left. An upload puts its bytes into the tenant's blob store before its row goes
into the scope; the platform sweep has the scope judge what no row names, and **rewinds and loads**
of the scope hold it off with a fence.

## Modules and code

Every module starts with a comment that says what one action stands for. `PROJECT.json` maps each
definition to its lines. Operators marked `mistake:` or `Mutant:` are plausible bugs; nothing uses
them, they show that each property notices one.

**`JobRunStore`**: the store port. `run` and `ledger` are the two tables; each operator is one
statement or transaction of the port with its `WHERE` as the guard (`Claim` =
`JOB_RUN_CLAIM_SQL`, `Begin` = `JOB_RUN_BEGIN_SQL`, `Miss` = the miss and its settlement,
`PatchRun`, `CommitPass`, `Renew`/`BeginStep`/`RecordStep`) and `Erase` is
`redactSubjectJobRuns`. `next_attempt_at` is its distance from the store's clock: due now, soon
(closer than the BEGIN margin) or later. A step's memo is the value of the counter its pass was
claimed at, so a memo of an earlier chunk is recognisable.

**`JobRuns`**: the driver over that store. A drive goes idle → claim → claimed → begin (or miss) →
pass ⇄ step → exec → record → commit or settle. A store call is *sent* in one step and *takes
effect* in another; it may fail towards the drive and land later (`late`), and drives and handlers
die. The handler is arbitrary: it calls steps in any order, swallows their errors or not, returns,
throws, or is told to wait.

**`JobWalk`**: what a caller is promised (one run per key, advanced one commit at a time, ended
once, redactable), with no drives in it. `JobRuns!ImplementsWalk` is the refinement.

**`KickCoalescer`**, **`CopyJob`**, **`ScopeSweeper`**: three Durable Objects. Storage calls close
an object's input gate, so the run of storage calls between two waits for something outside the
object is one action; what waits *inside* the object (a cancel and a forget woken by the same
step's end) is not ordered by the gate and is modelled call by call. An eviction drops what is in
memory; an alarm handler it cuts off is called again by the runtime, a request is not. A reset
between two writes of one request is its own case (`NoteCut` and `FinishCut`, the second disjunct of
the other two modules' `Reset`). Times are ages or times left, so that the state space is finite without a
bound on time. `ScopeSweeper` visits each entry it read: hold check, drain, the job-start gate
(whose time is read before `startJobs` is called and stored, in a step of its own, after it
returned), the rest. `since`, `unrecorded` and `adrift` are history: the last success, the scopes
whose last success left no time stored, and that a `finally` was cut off with its alarm gone.

**`WireNonce`**: one claim is one transaction and one action. `Purges` is the set of purges the
`ORDER BY until_s LIMIT` allows (rows of equal age in any order).

**`ScopeCopy`**: one scope across its scripts. `dir` is the directory's row (route, erasure epoch,
reap claim), `copies` the ledger (per move a source and a destination entry with state, load stamp,
write revision and the sweep pass that owns it), `store` what each script holds (rows, load stamp,
write revision, tombstone), `mover` a carry or an adopt at the call it is about to make, `restore`
its calls on the way to a store, `sweeper` a pass of the ledger sweep, `eraser` and `reaper` those
two requests, `owed` the user writes that were acknowledged, `confirmed` the moves whose bind
landed. A move goes Begin → RecordSource → RecordDestination → Renew → Export →
ReadDestination → CheckRoute → SendRestore → (Restore lands, or its reply is lost) → RecheckSource
(a changed source is carried again from a fresh export, `CarryAgain`, whose entries supersede the stale
ones, up to `ExportAttempts`) → Bind → settle the source (release what is still live, carry it again, or wipe it) → finish the
destination; a refused step goes to the drop path, a failed one settles both entries retained.
Every call is a step, a move may die between any two, and its restore may land after that. The
lease of a move and the fence of its restore are its own `clock`, in three phases (`Tick`): restores
may land, the fence has lapsed, the lease is over. A move may begin whatever entries earlier ones left
(retained, kept, eligible or pending after a death) and whatever is still under way; `MaxExtras` only
bounds how many begin beside another, together with lost replies, resent calls and user requests. A
move's clock stands still where nothing asks for it: with no entry pending and no restore on the way. `slips` is history, and names the calls
that came in an order the code does not guard against: a move that began beside another, a restore
that landed after its move's entries were settled or over a copy that is routed or may be bound, an
adopt that bound after the scope had moved, a recarry settled after the route had moved, a write into
an unbound copy. The properties `…InOrder` say what holds until such a slip, in every
behaviour, the ones with lost replies and overlapping moves included; what the code's comments say
without exception is shown false by a run (`scope_late`, see [findings](#findings)) or told under
[limits](#limits).

**`Outbox`**: one scope's events. An id is a pair of millisecond and random half, ordered by
`Below`, which is what the base-32 text sorts by. `Minted` is `createUlid`, `Wake` an eviction
followed by `seedFrom` the highest stored id. `Operation` emits under a clock that no one orders
and may roll back. `Dispatch` is a module consumer's delivery; `RecordExecutorAttempt` is the
journal write of an executor pass, in any order, because passes claim nothing and overlap. A sweep
pass is ReadUndrained → Ship → Mark → PruneDrained, each its own step on the scope's queue, and may
fail at any of them; `Redrain` reopens drained rows in batches. `ReadPage` and `Resync` are a
mirror that keeps a watermark. `shipped`, `mirror.base` and `mirror.ahead` are history: what the
sink confirmed, the floor the walk began under, and what the walk still owes its reader.

**`AttachmentSweep`**: one scope's attachments. `blobs` and `fence` are in the blob store; `scope` is
the scope's store (rows, tombstones, licence); `saved` are past states of it, each a bookmark while
it is within `Reach` and a dump for ever. `Put`, `Add`, `Remove`, `DeleteBytes` and `Abandon` are the
two-store protocol of an upload and a removal. `Replace` writes the fence, and the `Rewind` or `Load`
lands later or fails. A pass goes Begin → List → Judge (a batch at a time) → License for a dry run,
or → Recheck → Delete (one object at a time) → Settle, and may fail before any of them. `listed`,
`removed` and `overtaken` (the passes that were deleting when a replacement began) are history. `Begin` takes the clock, the scope's verdict and the first look at the fence
in one step: the two reads come after the clock, and a fence or a lost licence they would meet
later only stops the pass.

**`MCJobRuns`**, **`MCScopeCopy`** and **`MCOutbox`** give the models their constant functions, sets
and symmetry. **`*_proofs`** hold the theorems.

## Runs

| Run | Checks | Shows |
| --- | --- | --- |
| `job_passes` | `HolderIsCurrent LedgerIsCurrent NoStepRepeated StepsBounded AttemptsWereBegun ErasedStaysErased ImplementsWalk` | two overlapping drives, one memoised step with two tries, two commits, a fault, a call in flight, an erasure; every store write is a step of the abstract walk |
| `job_runs_end` | `OneLiveRun RunsEnd` | two starts under one key: one live run at all times, and each ends under fair drives and a moving clock |
| `kick` | `TrailingPassArmed PassesApart LosslessUnreset` | rate bound with resets and early alarms; until a reset no kick is lost |
| `copy_job` | `StepIsCurrent CopyingIsDriven NoRevival HeldIsKept FinishedGoes` | cancels, forgets, claims and resets around the running step; until a reset a copying job moves on and a finished one is dropped |
| `copy_job_forgotten` | `ForgottenStaysGone` (violated) | see findings |
| `sweeper` | `TypeOK LoopAliveUncut StartsApartRecorded VisitedAgain` | the loop survives every interleaving of notes, forgets, kicks, alarms and resets but one, a scope that stays is visited again and again, and job starts whose time was stored are an interval apart |
| `wire_nonce` | `TypeOK AcceptedOnce CountIsRows FullMeansNeeded` | one acceptance, an honest count, a cap that drains |
| `scope_moves` | `OneActs EveryCopyNamedInOrder RoutedIsLiveInOrder ErasedInOrder ReapedInOrder NothingLostInTurn` | two carries in turn, back or side by side, that die anywhere and carry a changed source again, with one lost reply, resent call or user write, the sweep, and an erasure or a reap |
| `scope_adopts` | `MovesInOrder PendingSettles` | `RoutedIsLiveInOrder`, `ErasedInOrder` and `ReapedInOrder`, with two adopts onto the serving script; the ledger comes to hold no pending entry |
| `scope_late` | `NothingComesBack` (violated) | see findings |
| `outbox` | `WalkSkipsNothing IdsAscend PrunedIsSpent SpentGoes` | mint, wake, deliveries, capped drains and prunes, reopened rows and a paging mirror in any order |
| `attachment_sweep` | `OnlyListed NeededBytesStay OrphansGo` | two uploads and a removal beside passes that judge and delete one object each and die anywhere, with a rewind or load between their calls; the deletes of a pass that a replacement overtook are exempt |

**Bounds.** *Jobs*: two drives are what overlap takes (holder and latecomer), a third owner lets a
claim follow both; `JobMax = StepMax = 2` is the least that tells a last attempt from another;
`MaxPasses = 2` gives a ledger an earlier chunk to be confused with; one `MaxHiccups` fault and one
call in flight; deaths inside a handler cost an attempt and need no bound. `job_runs_end` takes two
runs of one key with one pass each and two misses, and leaves out steps (they only add ways to fail)
and faults, and with them late calls.
*Kicks*: a window of three ticks has a beginning, a middle and an end; four kicks are two per
window. *Copy job*: two tokens are a job and its successor, two callers a cancel beside a forget.
*Sweeper*: two scopes with one worker make one wait for the other; two ticks between job starts;
two resets. *Nonces*: a cap of two and three nonces fill the store and then ask for more; a purge
batch of one leaves expired rows behind; four seconds let an envelope pass both its bounds.
*Scope copies*: a home and a second script (`scope_moves`) or the serving script (`scope_adopts`); two
moves, which is what a move back, a retry and an overlap take, and one that carries a source again;
one sweep pass at a time (which may die and be followed by another); two events among the starts
of moves, erasures and reaps and the deaths of passes; and one extra, which is a move beside another, a lost
reply, a resent call or, in `scope_moves`, a user's request. A larger instance was tried beside the runs: two extras with the adopts. 
*Outbox*: three events are a row that can be spent, a
newer one of its type or entity, and a state move; every cap and page is one, so that every pass
meets a cap and resumes; the operations' clock takes two values and jumps either way; one reopening;
`RandMax = 0` makes every mint of the same millisecond carry, and the theorems hold for any
`RandMax`.
*Attachments*: two ids, each batch and each limit one, so that a licence names one orphan and not the
other, and a pass leaves work for the next; passes follow each other and may die, and the theorems
have them overlap; one saved state to go back to, once. Every time is at its boundary: a fence and a
licence hold one tick, an upload takes as long as the grace and the retention, a bookmark is of this
very tick, so that each is just within what the assumption asks; the clock ticks once, and everything
the sweep does happens after it. The theorems hold for all times.
Symmetry is used only where no liveness is checked, over sets whose members only differ by name.

**Deadlock** is not checked for jobs, kicks, copy jobs, scope copies, the outbox and
attachments: all runs have ended and no clock is left to move, a burst of kicks is over, every token
is spent, the scope is gone, every event has been emitted and read, or nothing is left to upload.

**Fairness.** *Jobs*: a drive keeps taking steps, because a maintenance tick drives every scope
again and again and a pass ends or its process is killed; the store's clock moves. Erasures,
faults and starts have no fairness. A claim whose lease runs out before it begins, its drive still
at work, costs the run nothing, so nothing in the code bounds it: the model counts it as a fault.
*Kicks*: time passes, a due alarm is delivered, a run returns or throws. *Copy job*: the same,
with strong fairness for the alarm, which queues behind calls (`SF(Alarm)`), and steps end because
each is one page. *Sweeper*: an alarm that is set fires, a call to the host returns or throws; and
opening a pass does not throw for ever (`SF(OnAlarm(Open))`): it builds the host from the
environment and reads the object's own storage. `VisitedAgain` excepts a loop whose alarm was lost
(`adrift`) and that nobody arms again. *Scope copies*: time passes for a move, an export
ends (it reads one store or fails), a sweep pass that has begun goes on, and an expired entry is
claimed in the end (`SF(ClaimExpired)`: the sweep runs every quarter of an hour and other claims
come in between); requests have no fairness and may die. *Outbox*: a pass begins again and again,
and neither the sink nor the scope fails for ever (`SF` of `Ship`, `Mark` and of `PruneDrained` in
the scope's hour, which comes daily). *Attachments*: an upload is one request and ends; the phase
visits the scope again and again, with a destructive pass where it is licensed (`SF`, for dry runs
by hand may come in between), else a dry run; passes do not fail for ever (`<>[]`: from some
point on a pass that begins runs to its end); and because a licence lapses with time, a dry run is due
also where only the end of the bounded clock keeps one in force.

## Proofs

Nine modules of models, eight of proofs, all checked by TLAPS with no assumption beyond the named
`ASSUME`s of the models (sizes are naturals, `Null`, `None` and `Never` are not values).

**Job driver** (`JobRuns_proofs`). `TypeCorrect` needs, beside the types, `ShapeOK`: a drive or a
call in flight that is not idle names a run and an owner, and a step while in a step, else a
write would leave the tables' domain. Each statement has its row lemma; `DriveLands` shows that
whatever a drive does to the store is a landing of a call, so drives and late calls share one
proof. `Coalesces`, `ErasureIsFinal` and `StepsStayBounded` come from one invariant (`Settled`):
`LandsOnLive` shows that a landing touches only a live row, so a run that has ended or was
redacted is out of every stale pass's reach, and a landed step record is within its policy because
`tries` is (`ShapeOK`).

The rest needs to know *who* a stale call can still speak for. The inductive invariant is `Driven`:
`Settled`, and `Owned` (no two drives share an owner, an owner whose claim has not landed is on no row,
a pass inside a step has used its name, and a call nobody waits for shares its owner only with a pass that
is past what the call was about), and `Agreeing` (every drive and every call in flight agrees with its
row, *if* it still holds it: the copy it works from and the patch it is about to write are the row's, and
a step about to run has no memo), and `Counted` and `Memoised` row by row. `HolderIsCurrent` alone is not
inductive: a late step record with the holder's own owner could land under it, which only
`Owned` excludes. The step that carries the proof is `LandsKeeps`: whatever call lands, it keeps
every row for every owner but the one it lands for (`KeptFor`), because every statement is
conditional on the owner it names and a claim mints a fresh one. `HolderStaysCurrent`,
`StepsNotRepeated`, `MemosStayCurrent`, `AttemptsStayHonest` and `InvariantHolds` follow.
`DriverImplementsWalk` is the refinement: with `Driven`, each landing is one step of `JobWalk` or none
(`LandsWalks`; a commit that lands is the holder's, so its counters are the row's and one), and what
callers do from outside is a `Start`, a `Redact` or none (`OutsideWalks`).

**Kick coalescer**. `RateBound` from `AgeIsTrue`: the stored start is the real one, and the object
forgets only a start that is a full window old. `NoKickForgotten` holds until the object is reset.

**Copy job**. `NoStepOutlives` and `EndedStaysEnded` from `CallsOK`: a call halfway through its
storage calls met no running step, and the record a cancel read has since only been dropped or
cancelled. `HeldStaysDone` from the same. `CopyingStaysDriven` needs `Armed`: a cancel about to set its
alarm has left a cancelled job or none, and a copying job has a token.

**Scope sweeper**. `LoopNeverDies` from `noted ⊆ roster` and the property itself: every step that
takes the alarm away is handling it, and the step that ends handling sets it if the roster is not
empty; only a reset that cuts that step off after a joined alarm returned breaks the chain, and then
`adrift` stands until an alarm is set. `StartsKeepApart` from: where the last success was recorded the
stored time is as old as that success, a call that is out began after it, and a time the call's put
is yet to store is the call's; a reset between the call and the put makes the scope unrecorded, and
the next put ends that. `OnlyDrainedStarts` isolates the one step that calls `startJobs`.
`PoolStaysBounded`: only the pool's own start of a visit adds to the visits under way, and it asks
for room first.

**Wire nonces**. `NoReplay` from `AcceptedIsHeld`: an accepted envelope is held until it is too
late to accept it. `CountWithinCap` and `CountedRight` follow the count through purge and insert
with the cardinality theorems. `FullIsHonest`: a full answer means the purge took nothing, and a purge that takes
nothing had nothing to take.

**Scope copies** (`ScopeCopy_proofs`). `TypeCorrect`, and `BindOrSweep` from `IInv` of the model: a
move past its start has its two scripts (`Begun`), a move knows the recarry it made
(`KnowsRecarry`), a pass works on a recorded entry and never decides to leave it pending
(`PassesDecide`), and a move whose bind landed is past its records and has no pending or owned entry
(`ConfirmedIsPast`). The last is the point: a bind needs both entries pending and unowned, a claim
takes only a pending one, so whichever lands first shuts out the other. It holds for any number of
overlapping moves and passes.

Its other invariants are only model-checked.

**Outbox** (`Outbox_proofs`). `EventsAscend` from `MintAhead`, the mint is not behind any stored id,
with `FloorHeld` and `MirrorHeld`: something above the floor, and something at or above the mirror's
position, is still stored. A wake seeds from the highest stored id only, so this rests on
`SpentLeaves`: the newest event of a type, and the newest of an entity that is no state move, are
never spent, and a prune cannot take the top of the table. `MirrorsMissNothing` from `WalkFloor`
(the floor has not gone back since the walk began, and a continuation stands under the walk's first
floor) and `Owed` (what the walk owes is stored, or at the floor or under it, and then the floor has
moved since the walk began or the row was below it all along).
`PruneLeaves` adds `StampedIsShipped`: a drain stamp is only given to what the sink confirmed.
`Least`, `Greatest`, `HighestIs`, `FirstAreFirst` and `LatestIs` are the lemmas about the order and
its first and last elements; finite non-empty sets of ids have them because milliseconds are
well-founded.

**Attachments** (`AttachmentSweep_proofs`). One inductive invariant, `IInv`, for all four theorems.
`Sound` says of the scope *and of every state it can be put back to* that a tombstone has no row, was
listed and is no older than its id, and that its licence was listed; `Dated` that a pass judges only
ids minted before its instant; with `Known` these give `NeverBoth` (only proved, no run checks it)
and `DryRunFirst`. `BytesAreSafe` adds three parts. `Clocked`: an upload and a replacement are in time. `Placed`: a saved row that is
not in the scope was removed by a user, or was saved before the last fence's replacement landed, so
by `Reach + Arming < FenceFor` no rewind brings it back once the fence is over. `Doomed`: as long as no
fence holds a pass, no replacement is on its way, and what the pass condemned has no row and gets
none, because its tombstone outlives its upload (`TombstoneStays`, from `Slow <= Retention`). A
pass that was overtaken, by a replacement that began after its last look at the fence, is outside
the theorem; there the claim would be false (see [limits](#limits)).

**Only model-checked**: all liveness (`RunsEnd`, `LosslessUnreset`, `FinishedGoes`,
`VisitedAgain`, `PendingSettles`, `SpentGoes`, `OrphansGo`), which this prover does not do, and of the
scope copies `NothingLostInTurn`, `EveryCopyNamedInOrder`, `RoutedIsLiveInOrder`, `ErasedInOrder` and
`ReapedInOrder`. Every other invariant and action property that a run expects to pass is stated by a
theorem, type invariants included.

## Findings

Each is a disagreement between a comment and the code, with a run that shows the behaviour.

1. **A forgotten copy job can come back** (`copy_job_forgotten`, `copy-job-do.ts:155`). A cancel
   and a forget that waited for the same step go on together; the cancel reads the record, the
   forget deletes everything, the cancel puts the record back. The comment at line 98 says a
   forgotten job stays gone.
2. **A restore can land after a reap or an erasure** (`scope_late`, `api.ts:4984`). A move whose restore
   call failed towards it settles its entries at once, while the call may be on its way and inside
   its fence; the reap or the erasure then meets no pending entry, goes through every store, and the
   restore refills one. The comments at `scope-copy-ledger.ts:222` and `scope-copy-cleanup.ts:225` say
   that a restore which is not refused committed before either.

## Limits

- A handler of the job driver runs its steps one after another; steps run concurrently inside one
  pass are not modelled. An erasure is of a run that declared the subject.
- A takeover that charges the last attempt and whose drive stops before it settles leaves an
  unbegun lease, and the next claim may begin one more pass; the model has this, and no property
  says that `attempts` never exceeds the policy.
- The counter bag of a job is one counter that a handler raises once per pass.
- `LosslessUnreset` and `NoKickForgotten` except a coalescer that was reset. A kick that joins a
  running pass stores only the dirty bit (`kick-coalescer-do.ts:85`) and the alarm is set in the
  pass's `finally`: if the object is reset while a pass that a *kick* started runs, no trailing pass
  follows until another kick, although the comment at line 69 calls coalescing lossless within one
  window.
- `copy-job-do.ts`'s `markNewest` is left out; `CopyingIsDriven` is claimed without resets,
  because a reset between start's two writes leaves a copying record with no alarm.
- `LoopAliveUncut` and `VisitedAgain` except one reset. The next alarm is set in the `finally` of the
  request that started the pass (`scope-sweeper-do.ts:293`); an `alarm()` that joined a pass a kick
  had started returns with it, and a reset before that `finally` has set the alarm leaves none until
  somebody notes a scope or arms the loop. The comments at line 196 and at
  `platform-sweeper-do.ts:78` say the loop never dies.
- `StartsApartRecorded` excepts a success whose time was not stored: a reset, or a failed put, after
  `startJobs` succeeded (`scope-sweeper-do.ts:351`) lets the next pass start the jobs again inside
  the interval, which the comment at line 143 calls the minimum time between successful calls.
- What a sweeper's visit does inside the host is a call that returns or throws; a scope forgotten
  during a pass is still visited once, and its job-start time is stored again. The rest of the storage
  calls of one request are not cut apart by resets: a cut there leaves what a reset before or after
  it leaves.
- `WireNonce` takes the envelope the verifier passes on; signature checks are not modelled, and a
  store that is loaded or wiped forgets its nonces, as the code says it does.
- What the slips of `ScopeCopy` except, beside the late restore of finding 2. *Restore over*: two carries
  to one script overlap, the second restores over the first one's copy, is refused and reads the
  route, the first binds, and the second's drop, fenced only on its own stamp (`api.ts:5250`), wipes
  the routed store, although the comment at line 5126 says the copy is wiped unless the scope now
  routes there; and `restoreCarryingSwitches` retries its call (line 4168), so the first call of an
  adopt, which expects no marker, may land after the second was answered and the scope bound.
  *Stale recarry*: a carry that found its destination wiped carries its source again and settles
  that entry done however it went (line 5434); if the scope was bound elsewhere meanwhile, nothing names
  the copy, although the comment at line 5433 says the scope routes to it. *Stale bind*: an adopt
  binds on the erasure epoch and its lease alone (`moveScopeRow` without an expected binding), so it may
  bind what it exported before, or after, another move left with the data.
- `NothingLostInTurn` asks for no slip at all. With *overlap* a carry's drop, which compares no
  revision (`api.ts:5250`), takes a write: after a carry back out of its destination has bound, it wipes
  that destination with what a user wrote there after the carry back had looked at it for the last time,
  although the comment at line 5154 leaves such writes to the source wipe's fence. A *late write*, of
  a request that was on its way for a whole move, goes the same way when it lands in a copy not
  yet bound; and one into a retained source may be restored over by a later move back.
- A tombstone left in a store keeps an erasure refused until it is cleared.
- `bringClearForward` (`api.ts:5306`) is left out: a source that only lost its copy marker is kept,
  like any other changed source. A call of `settleCarriedSource` that fails goes on to the destination in
  the code; the model has the request die, or go on.
- `ScopeCopy` does not order the clocks of different moves; a pass claims one entry at a time and
  sweep leases are not timed; an adopt's restore expects no load marker; releasing a live source,
  and exporting and recording a recarry, are one step each; a wipe call that fails is covered by the
  death of its caller. Staged transfers, the backfill of old entries, deployments without the fence
  and other store drivers are left out.
- `Outbox` has a scope's own events only: no copies, imports or hop filter, no undecodable rows, no
  held scopes, no retry times, no loads that seed the mint again. A mirror's walk is promised what
  lies above the floor it began under: a row below that floor which outlived it and is pruned later
  leaves the floor where it is, so the walk goes on and does not see that row, though
  `outbox-prune.ts:31` speaks of refusing rather than a silent hole. A filtered walk may end its
  resync below the floor and be refused at each poll. A drain that shipped to the old lake table and
  stamps after the rebuild's instant is not reopened (`Redrain` takes the instant as it comes). Two
  executor passes may take one event, and the later journal write wins whatever it says.
- `NeededBytesStay` leaves out the deletes of a pass that was overtaken. The fence is read before the
  first delete and not between deletes (`attachment-sweep.ts:610`), and a replacement takes the
  tombstones away with the rest: a rewind or load that begins during the deletes goes unseen, and an
  upload still on its way, or a second load with the row, is then no longer refused, while the pass
  deletes its bytes. The comment at line 110 says that a restore which raced a pass must not land a
  row whose bytes that pass is deleting.
- `AttachmentSweep`: bytes of a row a user removed are exempt (a rewind brings that row back without
  them), and so are rows that only a dump older than every bookmark still holds. One request per id
  at a time. Batches are any of what is left (the code goes in key order), the minute of skew a
  licence's stamp may have is none, and the read and the write of `settleLicence` are one step, both
  of which only narrow the licence. The licence's cap is above the pass's limit and left out, and so
  are a limit of zero, a fence that cannot be parsed, a tenant with no bucket, the refusals of copies
  and of scopes that are not live, the platform's own look at the admin log, upload links and text
  extraction.
- Byte limits, encodings, error texts and reports are left out everywhere.

## Plan

In this order; each with its runs, hazards and theorems.

1. **Scope copies, further**: an abstract specification (one store, moved atomically) and the refinement;
   store moves and rebuilds on top.
2. **Idempotency** and the **executor passes** over `Outbox`: an operation and its events commit
   together and run once per key; retries with their times.
3. **Events between verticals** and the **system switch**, both across copies.
4. **Migrations**, **membership** and **lifecycle**, **connect and upload links**,
   the **platform sweeper** as an instance of the sweeper's loop.
5. Engines with a state machine worth a model (booking, workorder), as room allows.
