-------------------------------- MODULE Outbox --------------------------------
(***************************************************************************)
(* A scope's outbox: the ids its events are minted under (kernel/src/      *)
(* ulid.ts and the scope object's wake), the deliveries to consumers and   *)
(* executors, the sweep's drain to the lake and the prune that follows it  *)
(* (kernel/src/platform-sweep.ts, outbox-prune.ts), the reopening of       *)
(* drained rows, and a mirror that walks the outbox from a watermark       *)
(* (kernel/src/timeline.ts).                                               *)
(*                                                                         *)
(* An operation, a dispatch, a prune and every other call on the scope's   *)
(* queue is one transaction, hence one step.  The sweep and the executors  *)
(* run elsewhere: each of their calls is a step of its own.                *)
(***************************************************************************)
EXTENDS Integers, FiniteSets

CONSTANTS
    Kinds,          \* the events the modules emit: <<type, entity>>
    MoveTypes,      \* the kernel's entity state moves
    Exported,       \* types another vertical reads
    Consumed,       \* types a module consumer subscribes to
    Executed,       \* types an executor subscribes to
    Filter,         \* the entities the mirror walks
    Sweeps,         \* passes of the platform sweep
    None,           \* SQL NULL, or undefined
    RandMax,        \* an id's random half is 0..RandMax
    Budget,         \* events one pass drains
    PruneLimit, ScanLimit,  \* rows one pass deletes and examines
    RedrainBatch,   \* rows one call reopens
    PageLimit,      \* entries of a page
    Retention,      \* how long a drained row is kept
    MaxNow, MaxClock, MaxMints, MaxRedrains      \* bounds

\* An id is its millisecond and its random half.
Id == Nat \X (0..RandMax)

ASSUME OutboxAssumption ==
    /\ {RandMax, Retention, MaxNow, MaxClock, MaxMints, MaxRedrains} \subseteq Nat
    /\ {Budget, PruneLimit, ScanLimit, RedrainBatch, PageLimit}
            \subseteq Nat \ {0}
    /\ None \notin Nat \cup Id

VARIABLES
    now,        \* the coordinator's clock
    mint,       \* the scope object's ULID state, in memory
    outbox,     \* id -> row, with the row's deliveries
    prune,      \* the floor and where the lap stopped
    sweep,      \* per pass of the platform sweep
    mirror,     \* a reader's cursor; base and ahead say what it owes its reader
    shipped,    \* what the sink confirmed
    left        \* what the bounds have left

vars == <<now, mint, outbox, prune, sweep, mirror, shipped, left>>

Types    == {k[1] : k \in Kinds}
Entities == {k[2] : k \in Kinds}

Ids == DOMAIN outbox

\* Ids sort by their millisecond, then by their random half.
Below(e, f) == e[1] < f[1] \/ (e[1] = f[1] /\ e[2] < f[2])

Highest(S) == CHOOSE e \in S : \A f \in S \ {e} : Below(f, e)

\* The k first of S, by id.
First(S, k) == {e \in S : Cardinality({f \in S : Below(f, e)}) < k}

-----------------------------------------------------------------------------
(* The mint: the last id minted in the object's life, or None. *)

\* createUlid: a clock not past the last mint steps the random half, and its carry the time.
Minted(at, r) ==
    IF mint = None THEN <<at, r>>
    ELSE IF at > mint[1] THEN <<at, r>>
    ELSE IF mint[2] < RandMax THEN <<mint[1], mint[2] + 1>>
    ELSE <<mint[1] + 1, r>>

\* seedFrom a fresh mint: both halves of the highest stored id.
Seed == IF Ids = {} THEN None ELSE Highest(Ids)

\* Mutant: the object wakes with nothing but its clock.
WakeUnseeded ==
    /\ mint' = None
    /\ UNCHANGED <<now, outbox, prune, sweep, mirror, shipped, left>>

\* The scope object is evicted, or stops, and wakes.
Wake ==
    /\ mint' = Seed
    /\ UNCHANGED <<now, outbox, prune, sweep, mirror, shipped, left>>

-----------------------------------------------------------------------------
(* Operations and their deliveries. *)

\* A module consumer's delivery: not journalled, made, or dead-lettered.  An executor's: a
\* terminal success or not yet one, be it never tried, retrying, refused or given up.
Fresh(k) == [type |-> k[1], entity |-> k[2], stamp |-> None,
             consumer |-> "none", executor |-> "open"]

Insert(e, k) == [f \in Ids \cup {e} |-> IF f = e THEN Fresh(k) ELSE outbox[f]]

\* An operation emits at its own instant, which no clock orders; it commits, or rolls back
\* and leaves the mint where it stands.
Operation(k, at, r) ==
    LET e == Minted(at, r)
    IN  /\ left.mints > 0
        /\ left' = [left EXCEPT !.mints = @ - 1]
        /\ mint' = e
        /\ \/ /\ outbox' = Insert(e, k)
              /\ mirror' = IF mirror.id # None /\ k[2] \in Filter
                           THEN [mirror EXCEPT !.ahead = @ \cup {e}] ELSE mirror
           \/ UNCHANGED <<outbox, mirror>>
        /\ UNCHANGED <<now, prune, sweep, shipped>>

\* dispatch: a consumer is tried once, in the transaction that journals it.
Dispatch(e) ==
    /\ e \in Ids /\ outbox[e].type \in Consumed /\ outbox[e].consumer = "none"
    /\ \E outcome \in {"ok", "dead"} :
          outbox' = [outbox EXCEPT ![e].consumer = outcome]
    /\ UNCHANGED <<now, mint, prune, sweep, mirror, shipped, left>>

\* recordExecutorAttempt: the upsert a pass over the executors ends an attempt with, whatever
\* the row holds by then.  Passes claim nothing and overlap, so any outcome may follow any.
RecordExecutorAttempt(e, outcome) ==
    /\ e \in Ids /\ outbox[e].type \in Executed
    /\ outbox' = [outbox EXCEPT ![e].executor = outcome]
    /\ UNCHANGED <<now, mint, prune, sweep, mirror, shipped, left>>

-----------------------------------------------------------------------------
(* The sweep: drain, then prune. *)

NoPass == [pc |-> "idle", batch |-> {}, before |-> 0]

Undrained == {e \in Ids : outbox[e].stamp = None}

\* The pass fixes its horizon, then reads the oldest events not yet shipped.
ReadUndrained(w) ==
    LET batch == First(Undrained, Budget)
    IN  /\ sweep[w].pc = "idle"
        /\ sweep' = [sweep EXCEPT ![w] =
                [pc |-> IF batch = {} THEN "prune" ELSE "ship", batch |-> batch,
                 before |-> now - Retention]]
        /\ UNCHANGED <<now, mint, outbox, prune, mirror, shipped, left>>

Ship(w) ==
    /\ sweep[w].pc = "ship"
    /\ shipped' = shipped \cup sweep[w].batch
    /\ sweep' = [sweep EXCEPT ![w].pc = "mark"]
    /\ UNCHANGED <<now, mint, outbox, prune, mirror, left>>

\* markEventsDrained: only an undrained row is stamped.
Mark(w) ==
    /\ sweep[w].pc = "mark"
    /\ outbox' = [e \in Ids |-> IF e \in sweep[w].batch /\ outbox[e].stamp = None
                                THEN [outbox[e] EXCEPT !.stamp = now] ELSE outbox[e]]
    /\ sweep' = [sweep EXCEPT ![w].pc = "prune", ![w].batch = {}]
    /\ UNCHANGED <<now, mint, prune, mirror, shipped, left>>

\* A throw anywhere ends the pass for this scope; what was not stamped is read again.
PassFails(w) ==
    /\ sweep[w].pc # "idle"
    /\ sweep' = [sweep EXCEPT ![w] = NoPass]
    /\ UNCHANGED <<now, mint, outbox, prune, mirror, shipped, left>>

\* redrainEvents: the oldest rows stamped before an instant that is not in the future.
Redrain(before) ==
    LET batch == First({e \in Ids : outbox[e].stamp # None /\ outbox[e].stamp < before},
                       RedrainBatch)
    IN  /\ left.redrains > 0 /\ batch # {}
        /\ left' = [left EXCEPT !.redrains = @ - 1]
        /\ outbox' = [e \in Ids |-> IF e \in batch THEN [outbox[e] EXCEPT !.stamp = None]
                                    ELSE outbox[e]]
        /\ UNCHANGED <<now, mint, prune, sweep, mirror, shipped>>

-----------------------------------------------------------------------------
(* The prune.  Rows are examined by when they were drained, then by id. *)

NoPrune == [through |-> None, at |-> None, id |-> None]

Precedes(e, f) ==
    \/ outbox[e].stamp < outbox[f].stamp
    \/ outbox[e].stamp = outbox[f].stamp /\ Below(e, f)

Earliest(S, k) == {e \in S : Cardinality({f \in S : Precedes(f, e)}) < k}
Latest(S) == CHOOSE e \in S : \A f \in S \ {e} : Precedes(f, e)

\* Rows drained before the horizon, after the position the last pass stopped at.
Window(before) ==
    {e \in Ids : /\ outbox[e].stamp # None
                 /\ outbox[e].stamp < before
                 /\ prune.at # None =>
                       \/ outbox[e].stamp > prune.at
                       \/ outbox[e].stamp = prune.at /\ Below(prune.id, e)}

\* Every local subscriber has a terminal success for it.
Delivered(e) ==
    /\ outbox[e].type \in Consumed => outbox[e].consumer = "ok"
    /\ outbox[e].type \in Executed => outbox[e].executor = "ok"

\* Mutant: any newer row of the entity will do.
SpentWithMoves(e) ==
    /\ outbox[e].type \notin Exported
    /\ Delivered(e)
    /\ \E n \in Ids : Below(e, n) /\ outbox[n].entity = outbox[e].entity
    /\ \E t \in Ids : Below(e, t) /\ outbox[t].type = outbox[e].type

\* Nothing here still needs the row.
Spent(e) ==
    /\ outbox[e].type \notin Exported
    /\ Delivered(e)
    /\ \E n \in Ids : /\ Below(e, n) /\ outbox[n].entity = outbox[e].entity
                      /\ outbox[n].type \notin MoveTypes
    /\ \E t \in Ids : Below(e, t) /\ outbox[t].type = outbox[e].type

\* Mutant: a lap that met the scan cap starts over.
StopAtDeletes(scanned, judged) ==
    IF Cardinality(judged) = PruneLimit THEN Latest(judged) ELSE None

\* Where the next pass starts: at the cap this one met, or nowhere.
StopAt(scanned, judged) ==
    IF Cardinality(judged) = PruneLimit THEN Latest(judged)
    ELSE IF Cardinality(scanned) = ScanLimit THEN Latest(scanned)
    ELSE None

\* The highest id ever removed.
Raised(ids) ==
    IF ids = {} \/ (prune.through # None /\ Below(Highest(ids), prune.through))
    THEN prune.through ELSE Highest(ids)

\* pruneDrainedOutbox: a lap in progress goes on whether or not one is due.
PruneDrained(w, due) ==
    LET scanned == Earliest(Window(sweep[w].before), ScanLimit)
        judged  == Earliest({e \in scanned : Spent(e)}, PruneLimit)
        stop    == StopAt(scanned, judged)
    IN  /\ sweep[w].pc = "prune"
        /\ sweep' = [sweep EXCEPT ![w] = NoPass]
        /\ IF prune.at = None /\ ~due
           THEN UNCHANGED <<outbox, prune>>
           ELSE /\ outbox' = [e \in Ids \ judged |-> outbox[e]]
                /\ prune' = [through |-> Raised(judged),
                             at |-> IF stop = None THEN None ELSE outbox[stop].stamp,
                             id |-> stop]
        /\ UNCHANGED <<now, mint, mirror, shipped, left>>

-----------------------------------------------------------------------------
(* The mirror. *)

\* under: the floor a continuation was minted under.  base and ahead are history: the floor
\* when the walk began, and what it found or was emitted since and it has not applied.
NoWalk == [id |-> None, under |-> None, base |-> None, ahead |-> {}]

\* Mutant: a watermark is never too old.
CursorHoldsAlways == TRUE

\* walkCursorPastFloor: a bare id not below the floor, or a continuation under this floor.
CursorHolds ==
    /\ mirror.under # None => mirror.under = prune.through
    /\ None \notin {mirror.id, prune.through} /\ mirror.under = None
            => ~Below(mirror.id, prune.through)

Walked == {e \in Ids : outbox[e].entity \in Filter}

Page == First({e \in Walked : mirror.id = None \/ Below(mirror.id, e)}, PageLimit)

\* walkCursorAt: below the floor a full page hands out a continuation; a mirror that has a
\* short page keeps the last id it applied.
Continued(page) ==
    LET last == Highest(page)
    IN  [id |-> last,
         under |-> IF Cardinality(page) = PageLimit /\ prune.through # None
                      /\ Below(last, prune.through)
                   THEN prune.through ELSE None]

\* A page is read and applied; an empty one from the start leaves the mirror with no cursor.
ReadPage ==
    LET cursor == IF Page = {} THEN [id |-> mirror.id, under |-> None] ELSE Continued(Page)
    IN  /\ CursorHolds
        /\ mirror' = IF cursor.id = None THEN NoWalk ELSE
               [id |-> cursor.id, under |-> cursor.under,
                base |-> IF mirror.id = None THEN prune.through ELSE mirror.base,
                ahead |-> (IF mirror.id = None THEN Walked ELSE mirror.ahead) \ Page]
        /\ UNCHANGED <<now, mint, outbox, prune, sweep, shipped, left>>

\* WatermarkPruned: the mirror reads from the start.
Resync ==
    /\ ~CursorHolds
    /\ mirror' = NoWalk
    /\ UNCHANGED <<now, mint, outbox, prune, sweep, shipped, left>>

-----------------------------------------------------------------------------
Tick ==
    /\ now < MaxNow
    /\ now' = now + 1
    /\ UNCHANGED <<mint, outbox, prune, sweep, mirror, shipped, left>>

Init ==
    /\ now = 0
    /\ mint = None
    /\ outbox = [e \in {} |-> Fresh(<<None, None>>)]
    /\ prune = NoPrune
    /\ sweep = [w \in Sweeps |-> NoPass]
    /\ mirror = NoWalk
    /\ shipped = {}
    /\ left = [mints |-> MaxMints, redrains |-> MaxRedrains]

Sweep(w) ==
    \/ ReadUndrained(w) \/ Ship(w) \/ Mark(w)
    \/ \E due \in BOOLEAN : PruneDrained(w, due)

Next ==
    \/ \E k \in Kinds, at \in 0..MaxClock, r \in 0..RandMax : Operation(k, at, r)
    \/ \E e \in Ids : Dispatch(e)
    \/ \E e \in Ids, outcome \in {"open", "ok"} : RecordExecutorAttempt(e, outcome)
    \/ \E w \in Sweeps : Sweep(w) \/ PassFails(w)
    \/ \E before \in 0..now : Redrain(before)
    \/ ReadPage \/ Resync \/ Wake \/ Tick

Spec == Init /\ [][Next]_vars

\* The sweep runs again and again and does not fail for ever; a scope's hour comes every day.
Fairness ==
    \A w \in Sweeps :
        /\ WF_vars(ReadUndrained(w)) /\ SF_vars(Ship(w)) /\ SF_vars(Mark(w))
        /\ SF_vars(PruneDrained(w, TRUE))

FairSpec == Spec /\ Fairness

-----------------------------------------------------------------------------
(* Properties. *)

RowType    == [type : Types, entity : Entities, stamp : Nat \cup {None},
               consumer : {"none", "ok", "dead"},
               executor : {"open", "ok"}]
PassType   == [pc : {"idle", "ship", "mark", "prune"}, batch : SUBSET Id, before : Int]
MirrorType == [id : Id \cup {None}, under : Id \cup {None}, base : Id \cup {None},
               ahead : SUBSET Id]

\* Every variable holds a value of its kind, and the lap's position is whole or absent.
TypeOK ==
    /\ now \in Nat
    /\ mint \in Id \cup {None}
    /\ Ids \subseteq Id /\ outbox \in [Ids -> RowType]
    /\ prune \in [through : Id \cup {None}, at : Nat \cup {None}, id : Id \cup {None}]
    /\ (prune.at = None) <=> (prune.id = None)
    /\ sweep \in [Sweeps -> PassType]
    /\ mirror \in MirrorType
    /\ shipped \subseteq Id
    /\ left \in [mints : Nat, redrains : Nat]

\* ORDER BY id is the order in which a scope's events were committed, for every reader that
\* resumes after an id: an event sorts above every event before it, above the mirror's
\* watermark and above all that was ever pruned, however the clock moves and whatever the
\* object forgot when it stopped (createUlid, seedFrom).
IdsAscend ==
    [][\A e \in DOMAIN outbox' \ Ids :
          \A f \in Ids \cup ({mirror.id, prune.through} \ {None}) : Below(f, e)]_vars

\* A walk that is not refused skips nothing: every event it found when it began, or that was
\* emitted since, above the floor it began under, is applied before the walk goes past it
\* (walkCursorPastFloor, walkCursorAt).
WalkSkipsNothing ==
    \A e \in mirror.ahead :
        Below(mirror.id, e) \/ (mirror.base # None /\ Below(e, mirror.base))

\* A prune removes only what the sink confirmed, and whatever the batch, the newest event of
\* the row's type, which freshness reads, and the entity's version, the newest of its events
\* that is no state move, are still there after it (pruneDrainedOutbox).
PrunedIsSpent ==
    [][\A e \in Ids \ DOMAIN outbox' :
          /\ e \in shipped
          /\ \E t \in DOMAIN outbox' : Below(e, t) /\ outbox[t].type = outbox[e].type
          /\ \E n \in DOMAIN outbox' : /\ Below(e, n) /\ outbox[n].entity = outbox[e].entity
                                       /\ outbox[n].type \notin MoveTypes]_vars

\* Ids an instance can mint.
Mintable == (0..(MaxClock + MaxMints - 1)) \X (0..RandMax)

\* However many rows must be stepped past, and however the caps cut the passes, a row that
\* nothing needs does not stay for ever (OUTBOX_PRUNE_BATCH, OUTBOX_PRUNE_SCAN).
SpentGoes ==
    \A e \in Mintable :
        []<>~(e \in Ids /\ outbox[e].stamp \in 0..(now - Retention - 1) /\ Spent(e))
=============================================================================
