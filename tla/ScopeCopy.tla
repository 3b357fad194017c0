------------------------------ MODULE ScopeCopy ------------------------------
(***************************************************************************)
(* One scope's copies in its scripts: the directory row that routes it,    *)
(* the copy ledger (kernel/src/scope-copy-ledger.ts and the control-plane  *)
(* object's table), the moves that copy its data from one script to        *)
(* another and bind it there (control-plane-api/src/api.ts: carry and      *)
(* adopt), the sweep over the ledger (scope-copy-cleanup.ts), subject      *)
(* erasure, reap, and the store each script holds (scope-do.ts).           *)
(*                                                                         *)
(* Every call is a step of its own, so any two requests interleave between *)
(* calls.  A request may die between two steps with its restore on the     *)
(* way, and a reply may be lost while its call still lands.  Two calls     *)
(* that only settle entries one after the other are one step.              *)
(***************************************************************************)
EXTENDS Naturals, FiniteSets

CONSTANTS
    Scripts,        \* the deployments that can hold the scope's store
    Home,           \* the script the scope is provisioned in
    Serving,        \* the vertical's serving script: where an adopt moves to
    Requests,       \* ids of the moves a request makes
    Recarries,      \* ids of the moves that carry a source again
    Sweepers,       \* passes of the ledger sweep, each with its own owner id
    Writes,         \* user writes
    Person,         \* the data subject's row
    None,           \* SQL NULL
    ExportAttempts, \* CARRY_EXPORT_ATTEMPTS: exports a carry tries before it gives up
    MaxExtras,      \* bound: user requests, lost replies and moves begun beside another, together
    MaxEvents       \* bound: move, erasure and reap requests and dead passes, together

ASSUME ScopeCopyAssumption ==
    /\ Home \in Scripts
    /\ IsFiniteSet(Requests \cup Recarries)
    /\ None \notin Scripts \cup Requests \cup Recarries \cup Sweepers \cup Nat
    /\ Requests \cap Recarries = {}
    /\ (Requests \cup Recarries \cup {None}) \cap ((Requests \cup Recarries) \X {"export"}) = {}
    /\ Person \notin Writes
    /\ {ExportAttempts, MaxExtras, MaxEvents} \subseteq Nat

VARIABLES
    dir,        \* the scope's row: route, erasure epoch, reap claim, deleted;
                \* erased: the subject's key is destroyed
    copies,     \* the ledger: one entry per move and role
    clock,      \* per move: restores may land, fence lapsed, lease over
    store,      \* per script: rows, load stamp, write revision, markers
    mover,      \* per move: the request that runs it
    restore,    \* per move: its restore calls on the way to the store
    sweeper,    \* per sweep pass
    eraser,     \* the subject erasure request
    reaper,     \* the reap request
    req,        \* per user write: the script its request was routed to
    owed,       \* the rows a store committed and answered, and no erasure took
    confirmed,  \* moves whose bind landed
    slips,      \* history: the kinds of calls that came in an order the code's comments rule out
    left        \* what the bounds have left

users == <<req, owed>>
jobs  == <<sweeper, eraser, reaper>>
vars  == <<dir, copies, clock, store, mover, restore, users, jobs, confirmed, slips, left>>

\* A move's id is also the load stamp its restore leaves.
Moves == Requests \cup Recarries

\* The load stamp a move's export mints for a store that has none.
Minted(m) == <<m, "export">>

Rows   == Writes \cup {Person}
Roles  == {"source", "destination"}
States == {"none", "pending", "eligible", "retained", "kept", "done"}

-----------------------------------------------------------------------------
(* The store a script holds for the scope. *)

\* held: the store has its tenant receipt, which every user call is checked against.
Empty == [rows |-> {}, stamp |-> None, rev |-> 0, tomb |-> FALSE, kept |-> FALSE, held |-> FALSE]

LoadMarker(st) == [stamp |-> st.stamp, rev |-> st.rev]

\* loadTables: a load replaces every row and the stamp; the revision moves on.
Load(st, rows, stamp, tomb) ==
    [rows |-> rows, stamp |-> stamp, rev |-> st.rev + 1, tomb |-> tomb, kept |-> FALSE,
     held |-> ~tomb]

\* A write commits unless the store holds the carried-away tombstone.
Write(st, rows) == [st EXCEPT !.rows = rows, !.rev = @ + 1]

\* Mutant: the wipe compares the load stamp only.
WipeTakesWritten(st, stamp, rev) ==
    /\ ~st.kept
    /\ st.stamp = stamp

\* wipeCarried: the tombstone loaded under the expected stamp (and revision).
WipeTakes(st, stamp, rev) ==
    /\ ~st.kept
    /\ st.stamp = stamp
    /\ rev \in {None, st.rev}

\* A refused wipe keeps a copy that was written since, or changed at all.
Keeps(st, stamp, rev, protect) ==
    /\ ~st.tomb
    /\ \/ rev # None /\ st.stamp = stamp /\ st.rev # rev
       \/ protect /\ (st.stamp # stamp \/ (rev # None /\ st.rev # rev))

Wipe(st, stamp, rev, protect) ==
    IF WipeTakes(st, stamp, rev) THEN Load(st, {}, None, TRUE)
    ELSE IF st.kept THEN Write(st, st.rows)
    ELSE IF Keeps(st, stamp, rev, protect)
         THEN [Write(st, st.rows) EXCEPT !.kept = TRUE]
    ELSE st

-----------------------------------------------------------------------------
(* The ledger. *)

Script(m, role) == IF role = "source" THEN mover[m].from ELSE mover[m].to

Entries == Moves \X Roles
Entry(e) == copies[e[1]][e[2]]

NotDone == {e \in Entries : Entry(e).state \notin {"none", "done"}}

NoPending == \A e \in Entries : Entry(e).state # "pending"

\* Mutant: neither the lease nor the sweep's claim is asked.
LiveWhilePending(m) ==
    /\ \E r \in Roles : copies[m][r].state # "none"
    /\ \A r \in Roles : copies[m][r].state \in {"none", "pending"}

\* COPY_MOVE_LIVE_PREDICATE, and what a renewal requires.
Live(m) ==
    /\ \E r \in Roles : copies[m][r].state # "none"
    /\ \A r \in Roles : copies[m][r].state # "none" =>
          /\ copies[m][r].state = "pending"
          /\ copies[m][r].owner = None
          /\ clock[m] # "over"

\* settleScopeScriptCopy: a done entry is never taken back; the marker is replaced.
Settled(e, state, stamp, rev) ==
    IF e.state # "none" /\ (e.state # "done" \/ state = "done")
    THEN [e EXCEPT !.state = state, !.stamp = stamp, !.rev = rev]
    ELSE e

Settle(m, role, state) ==
    copies' = [copies EXCEPT ![m][role] = Settled(@, state, None, None)]

SettleBoth(m, source, destination) ==
    copies' = [copies EXCEPT ![m] =
        [r \in Roles |-> Settled(@[r], IF r = "source" THEN source ELSE destination,
                                 None, None)]]

\* Mutant: only the source is named.
RecordSourceOnly(m, role, stamp) ==
    copies' = IF role = "source"
              THEN [copies EXCEPT ![m][role] =
                        [state |-> "pending", stamp |-> stamp, rev |-> None, owner |-> None]]
              ELSE copies

RecordScopeScriptCopy(m, role, stamp) ==
    copies' = [copies EXCEPT ![m][role] =
        [state |-> "pending", stamp |-> stamp, rev |-> None, owner |-> None]]

-----------------------------------------------------------------------------
(* The moves. *)

NoMarker  == [stamp |-> None, rev |-> 0]
NoRestore == [flying |-> 0, rows |-> {}, tomb |-> FALSE, expect |-> None]

Idle == [pc |-> "idle", kind |-> None, from |-> None, to |-> None, epoch |-> 0,
         rows |-> {}, tomb |-> FALSE, marker |-> NoMarker, dest |-> NoMarker, seen |-> None,
         tries |-> 1]

\* A move that is over keeps only the scripts its ledger entries name.
Over(v) == [Idle EXCEPT !.pc = "over", !.from = v.from, !.to = v.to, !.kind = v.kind]

Places ==
    {"idle", "source", "destination", "export", "marker", "route", "send", "sent", "restored",
     "bind", "bound", "failed", "drop", "dropwipe", "dropped", "undropped", "live", "wiped?",
     "again", "recarry", "recarrying", "promote", "wipe", "wiped", "unwiped", "finish", "over"}

Goto(m, pc) == mover' = [mover EXCEPT ![m].pc = pc]
Finish(m)   == mover' = [mover EXCEPT ![m] = Over(@)]

At(m, pc) == mover[m].pc = pc

\* A move is under way while its request runs or a restore it sent can still land.
UnderWay ==
    {m \in Moves : \/ mover[m].pc \notin {"idle", "over"}
                   \/ restore[m].flying > 0 /\ clock[m] = "open"}

\* One more event, or one more of the extras, of the bounds.
Event == left.events > 0 /\ left' = [left EXCEPT !.events = @ - 1]
Extra == left.extras > 0 /\ left' = [left EXCEPT !.extras = @ - 1]

\* The request reads the scope's row: carryEnds, adoptScopeOntoServing.
Begin(m, kind, to) ==
    /\ At(m, "idle") /\ ~dir.gone
    /\ left.events > 0 /\ (UnderWay # {} => left.extras > 0)
    /\ left' = [left EXCEPT !.events = @ - 1, !.extras = IF UnderWay = {} THEN @ ELSE @ - 1]
    /\ to # dir.route
    /\ IF kind = "adopt" THEN to = Serving ELSE Serving \notin {to, dir.route}
    /\ mover' = [mover EXCEPT ![m] = [Idle EXCEPT
            !.pc = "source", !.kind = kind, !.from = dir.route, !.to = to]]
    /\ slips' = slips \cup (IF UnderWay = {} THEN {} ELSE {"overlap"})
    /\ UNCHANGED <<dir, copies, clock, store, restore, users, jobs, confirmed>>

\* The source is named before anything else; refused under a reap claim.
RecordSource(m) ==
    /\ At(m, "source")
    /\ IF dir.reaping \/ dir.gone
       THEN Finish(m) /\ UNCHANGED copies
       ELSE RecordScopeScriptCopy(m, "source", None) /\ Goto(m, "destination")
    /\ UNCHANGED <<dir, clock, store, restore, users, jobs, confirmed, slips, left>>

\* Then the destination, with the stamp the restore will leave, and the epoch.
RecordDestination(m) ==
    /\ At(m, "destination")
    /\ IF dir.reaping \/ dir.gone
       THEN Goto(m, "failed") /\ UNCHANGED copies
       ELSE /\ RecordScopeScriptCopy(m, "destination", m)
            /\ mover' = [mover EXCEPT ![m].pc = "export", ![m].epoch = dir.epoch]
    /\ UNCHANGED <<dir, clock, store, restore, users, jobs, confirmed, slips, left>>

\* A background copy renews its move's lease before it goes on.
Renew(m) ==
    /\ At(m, "export") /\ mover[m].kind = "carry"
    /\ Live(m) /\ clock[m] = "lapsed"
    /\ clock' = [clock EXCEPT ![m] = "open"]
    /\ UNCHANGED <<dir, copies, store, mover, restore, users, jobs, confirmed, slips, left>>

\* The export reads the store whole, and stamps one that has no stamp.
Export(m) ==
    LET s  == mover[m].from
        st == IF store[s].stamp = None /\ ~store[s].tomb
              THEN [Write(store[s], store[s].rows) EXCEPT !.stamp = Minted(m)]
              ELSE store[s]
    IN  /\ At(m, "export")
        /\ store' = [store EXCEPT ![s] = st]
        /\ mover' = [mover EXCEPT ![m] = [@ EXCEPT
                !.pc = IF mover[m].kind = "adopt" THEN "send" ELSE "marker",
                !.rows = st.rows, !.tomb = st.tomb, !.marker = LoadMarker(st)]]
        /\ UNCHANGED <<dir, copies, clock, restore, users, jobs, confirmed, slips, left>>

\* carryFinish: what the destination holds, read before the route is.
ReadDestination(m) ==
    /\ At(m, "marker")
    /\ mover' = [mover EXCEPT ![m].pc = "route", ![m].dest = LoadMarker(store[mover[m].to])]
    /\ UNCHANGED <<dir, copies, clock, store, restore, users, jobs, confirmed, slips, left>>

\* carryFinish: a scope re-pointed since, or a wiped source, moves nothing.
CheckRoute(m) ==
    /\ At(m, "route")
    /\ IF dir.gone \/ dir.route # mover[m].from \/ mover[m].tomb
       THEN Goto(m, "failed") ELSE Goto(m, "send")
    /\ UNCHANGED <<dir, copies, clock, store, restore, users, jobs, confirmed, slips, left>>

\* restoreCarryingSwitches: only a carry expects the marker it read.
SendRestore(m) ==
    /\ At(m, "send")
    /\ restore' = [restore EXCEPT ![m] =
            [flying |-> 1, rows |-> mover[m].rows, tomb |-> mover[m].tomb,
             expect |-> IF mover[m].kind = "carry" THEN mover[m].dest ELSE None]]
    /\ mover' = [mover EXCEPT ![m] = [@ EXCEPT !.pc = "sent", !.rows = {}, !.dest = NoMarker]]
    /\ UNCHANGED <<dir, copies, clock, store, users, jobs, confirmed, slips, left>>

\* The store takes a restore inside its fence, into no kept copy, unchanged.
RestoreTakes(m) ==
    LET st == store[mover[m].to]
    IN  /\ clock[m] = "open"
        /\ ~st.kept
        /\ restore[m].expect \in {None, LoadMarker(st)}

\* One call fewer on the way.
Landed(x) == IF x.flying = 1 THEN NoRestore ELSE [x EXCEPT !.flying = x.flying - 1]

\* It lands although the ledger has settled every entry of its move.
LateRestore(m) ==
    IF \E r \in Roles : copies[m][r].state = "pending" THEN {} ELSE {"late restore"}

\* It lands on the store the scope routes to, or on a copy that may still be bound.
OverACopy(m) ==
    IF \/ dir.route = mover[m].to
       \/ \E n \in Moves \ {m} : mover[n].pc \in {"restored", "bind"} /\ mover[n].to = mover[m].to
    THEN {"restore over"} ELSE {}

\* One restore call reaches the store; its reply reaches a request that waits.
Restore(m) ==
    LET s == mover[m].to
    IN  /\ restore[m].flying > 0
        /\ restore' = [restore EXCEPT ![m] = Landed(restore[m])]
        /\ \/ /\ RestoreTakes(m)
              /\ store' = [store EXCEPT ![s] =
                                Load(@, restore[m].rows, m, restore[m].tomb)]
              /\ IF At(m, "sent") THEN Goto(m, "restored") ELSE UNCHANGED mover
              /\ slips' = slips \cup LateRestore(m) \cup OverACopy(m)
           \/ /\ ~RestoreTakes(m)
              /\ IF At(m, "sent") THEN Goto(m, "failed") ELSE UNCHANGED mover
              /\ UNCHANGED <<store, slips>>
        /\ UNCHANGED <<dir, copies, clock, users, jobs, confirmed, left>>

\* The request gives its call up while it is still on the way.
LoseRestore(m) ==
    /\ At(m, "sent") /\ Extra
    /\ Goto(m, "failed")
    /\ UNCHANGED <<dir, copies, clock, store, restore, users, jobs, confirmed, slips>>

\* retryTransient: the call failed towards the request, which sends it again.
ResendRestore(m) ==
    /\ At(m, "sent") /\ Extra
    /\ restore' = [restore EXCEPT ![m].flying = @ + 1]
    /\ UNCHANGED <<dir, copies, clock, store, mover, users, jobs, confirmed, slips>>

\* The carry whose place another export of its source is to take.
Awaited(n) == \E m \in Moves : At(m, "again") /\ mover[m].seen = n

SourceChanged(m) == LoadMarker(store[mover[m].from]) # mover[m].marker

\* bindAfterCarry, step 0: a source changed since its export is not bound.  The
\* marker may be unreadable, and not every caller carries a changed source again.
RecheckSource(m) ==
    /\ At(m, "restored") /\ mover[m].kind = "carry" /\ ~Awaited(m)
    /\ \/ ~SourceChanged(m) /\ Goto(m, "bind")
       \/ Goto(m, "drop")
    /\ UNCHANGED <<dir, copies, clock, store, restore, users, jobs, confirmed, slips, left>>

\* The same carry again from a fresh export, with entries of its own.
CarryAgain(m, n) ==
    /\ At(m, "restored") /\ mover[m].kind = "carry" /\ ~Awaited(m)
    /\ SourceChanged(m) /\ mover[m].tries < ExportAttempts
    /\ At(n, "idle")
    /\ mover' = [mover EXCEPT
            ![m] = [@ EXCEPT !.pc = "again", !.seen = n],
            ![n] = [Idle EXCEPT !.pc = "source", !.kind = "carry", !.from = mover[m].from,
                                !.to = mover[m].to, !.tries = mover[m].tries + 1]]
    /\ UNCHANGED <<dir, copies, clock, store, restore, users, jobs, confirmed, slips, left>>

\* supersedeMove: the fresh carry restored over the stale one's copy.
SupersedeMove(m) ==
    /\ At(m, "again") /\ At(mover[m].seen, "restored")
    /\ SettleBoth(m, "done", "done")
    /\ Finish(m)
    /\ UNCHANGED <<dir, clock, store, restore, users, jobs, confirmed, slips, left>>

\* The fresh carry failed: the stale one is dropped.
AgainFails(m) ==
    /\ At(m, "again") /\ At(mover[m].seen, "over")
    /\ Goto(m, "drop")
    /\ UNCHANGED <<dir, copies, clock, store, restore, users, jobs, confirmed, slips, left>>

BindReady(m) ==
    \/ At(m, "bind")
    \/ At(m, "restored") /\ mover[m].kind = "adopt"

\* Mutant: the bind does not ask whether its move is live.
BindTakesLate(m) ==
    /\ ~dir.gone /\ ~dir.reaping
    /\ dir.epoch = mover[m].epoch
    /\ mover[m].kind = "carry" => dir.route = mover[m].from

\* moveScopeRow: a carry is conditional on the binding it read; an adopt is not.
BindTakes(m) ==
    /\ ~dir.gone /\ ~dir.reaping
    /\ dir.epoch = mover[m].epoch
    /\ mover[m].kind = "carry" => dir.route = mover[m].from
    /\ Live(m)

\* COPY_MOVE_CONFIRM_SQL, in the bind's own write.
Confirm(m) ==
    copies' = [copies EXCEPT ![m] = [r \in Roles |->
        IF r = "destination" THEN [copies[m][r] EXCEPT !.state = "done"]
        ELSE [copies[m][r] EXCEPT
                !.state = IF mover[m].kind = "adopt" /\ mover[m].marker.stamp # None
                          THEN "eligible" ELSE "retained",
                !.stamp = mover[m].marker.stamp, !.rev = mover[m].marker.rev]]]

\* An adopt binds although the scope has moved on since it read the route, or had moved
\* on, and its source was wiped, when it exported.
StaleBind(m) == IF dir.route = mover[m].from /\ ~mover[m].tomb THEN {} ELSE {"stale bind"}

Bind(m) ==
    /\ BindReady(m) /\ BindTakes(m)
    /\ dir' = [dir EXCEPT !.route = mover[m].to]
    /\ Confirm(m)
    /\ confirmed' = confirmed \cup {m}
    /\ slips' = slips \cup StaleBind(m)
    /\ IF mover[m].kind = "adopt" THEN Finish(m) ELSE Goto(m, "bound")
    /\ UNCHANGED <<clock, store, restore, users, jobs, left>>

BindRefused(m) ==
    /\ BindReady(m) /\ ~BindTakes(m)
    /\ Goto(m, IF mover[m].kind = "adopt" THEN "failed" ELSE "drop")
    /\ UNCHANGED <<dir, copies, clock, store, restore, users, jobs, confirmed, slips, left>>

\* The bind landed and its reply was lost: the request settles as if refused.
BindUnheard(m) ==
    /\ BindReady(m) /\ BindTakes(m) /\ Extra
    /\ dir' = [dir EXCEPT !.route = mover[m].to]
    /\ Confirm(m)
    /\ confirmed' = confirmed \cup {m}
    /\ slips' = slips \cup StaleBind(m)
    /\ Goto(m, IF mover[m].kind = "adopt" THEN "failed" ELSE "drop")
    /\ UNCHANGED <<clock, store, restore, users, jobs>>

\* settleCarryRetained, and an adopt's catch: neither end is discarded.
SettleRetained(m) ==
    /\ At(m, "failed") /\ mover[m].kind # "recarry"
    /\ SettleBoth(m, "retained", "retained")
    /\ Finish(m)
    /\ UNCHANGED <<dir, clock, store, restore, users, jobs, confirmed, slips, left>>

CurrentRoute == IF dir.gone THEN None ELSE dir.route

\* dropUnboundCopy: a destination that routes is left alone.
DropRead(m) ==
    /\ At(m, "drop")
    /\ IF CurrentRoute = mover[m].to
       THEN SettleBoth(m, "retained", "done") /\ Finish(m)
       ELSE /\ mover' = [mover EXCEPT ![m].pc = "dropwipe", ![m].seen = CurrentRoute]
            /\ UNCHANGED copies
    /\ UNCHANGED <<dir, clock, store, restore, users, jobs, confirmed, slips, left>>

\* dropUnboundCopy: the wipe, fenced on the stamp this move restored.
DropWipe(m) ==
    LET s == mover[m].to
        dest == IF WipeTakes(store[s], m, None) THEN "done" ELSE "retained"
    IN  /\ At(m, "dropwipe")
        /\ store' = [store EXCEPT ![s] = Wipe(@, m, None, FALSE)]
        /\ Goto(m, IF dest = "done" THEN "dropped" ELSE "undropped")
        /\ UNCHANGED <<dir, copies, clock, restore, users, jobs, confirmed, slips, left>>

DropSettle(m) ==
    /\ At(m, "dropped") \/ At(m, "undropped")
    /\ SettleBoth(m, IF mover[m].seen = mover[m].from THEN "done" ELSE "retained",
                     IF At(m, "dropped") THEN "done" ELSE "retained")
    /\ Finish(m)
    /\ UNCHANGED <<dir, clock, store, restore, users, jobs, confirmed, slips, left>>

\* settleCarriedSource: a scope bound elsewhere since drops this copy.
ReadBound(m) ==
    /\ At(m, "bound")
    /\ Goto(m, IF CurrentRoute = mover[m].to THEN "live" ELSE "drop")
    /\ UNCHANGED <<dir, copies, clock, store, restore, users, jobs, confirmed, slips, left>>

\* releaseIfLive: the kept marker comes off a store the scope routes to.
Released(s) ==
    IF store[s].kept /\ CurrentRoute = s
    THEN [store EXCEPT ![s] = [Write(@, @.rows) EXCEPT !.kept = FALSE]]
    ELSE store

ReleaseIfLive(m) ==
    /\ At(m, "live")
    /\ store' = Released(mover[m].to)
    /\ Goto(m, "wiped?")
    /\ UNCHANGED <<dir, copies, clock, restore, users, jobs, confirmed, slips, left>>

\* isCarriedAway: a wipe overtook this carry's restore.
CheckTombstone(m) ==
    /\ At(m, "wiped?")
    /\ Goto(m, IF store[mover[m].to].tomb THEN "recarry" ELSE "promote")
    /\ UNCHANGED <<dir, copies, clock, store, restore, users, jobs, confirmed, slips, left>>

\* The source is carried again, as a move of its own with its own entry.
Recarry(m, n) ==
    LET st == store[mover[m].from]
    IN  /\ At(m, "recarry") /\ At(n, "idle")
        /\ IF st.tomb \/ dir.reaping \/ dir.gone
           THEN Goto(m, "finish") /\ UNCHANGED copies
           ELSE /\ RecordScopeScriptCopy(n, "destination", n)
                /\ mover' = [mover EXCEPT
                        ![m] = [@ EXCEPT !.pc = "recarrying", !.marker = LoadMarker(st), !.seen = n],
                        ![n] = [Idle EXCEPT !.pc = "send", !.kind = "recarry", !.from = mover[m].from,
                                            !.to = mover[m].to, !.rows = st.rows]]
        /\ UNCHANGED <<dir, clock, store, restore, users, jobs, confirmed, slips, left>>

\* Settled done however it went: the scope routes to the store it went to.
SettleRecarry(m) ==
    LET n == mover[m].seen
    IN  /\ At(m, "recarrying") /\ (At(n, "restored") \/ At(n, "failed"))
        /\ Settle(n, "destination", "done")
        /\ mover' = [mover EXCEPT
                ![m].pc = IF At(n, "restored") /\ ~store[mover[m].to].tomb
                          THEN "promote" ELSE "finish",
                ![m].seen = None, ![n] = Over(@)]
        /\ slips' = IF CurrentRoute = mover[m].to THEN slips ELSE slips \cup {"stale recarry"}
        /\ UNCHANGED <<dir, clock, store, restore, users, jobs, confirmed, left>>

\* Only now may the sweep wipe the source: the destination holds the data.
PromoteSource(m) ==
    /\ At(m, "promote")
    /\ copies' = [copies EXCEPT ![m]["source"] =
            Settled(@, "eligible", mover[m].marker.stamp, mover[m].marker.rev)]
    /\ Goto(m, IF copies[m]["source"].state = "done" THEN "finish" ELSE "wipe")
    /\ UNCHANGED <<dir, clock, store, restore, users, jobs, confirmed, slips, left>>

\* keepOrWipeSource: the wipe, fenced on all the export read.
WipeSource(m) ==
    LET s == mover[m].from
        k == mover[m].marker
    IN  /\ At(m, "wipe")
        /\ store' = [store EXCEPT ![s] = Wipe(@, k.stamp, k.rev, TRUE)]
        /\ Goto(m, IF WipeTakes(store[s], k.stamp, k.rev) THEN "wiped" ELSE "unwiped")
        /\ UNCHANGED <<dir, copies, clock, restore, users, jobs, confirmed, slips, left>>

\* keepOrWipeSource: a refused wipe's copy is kept, unless it routes again.
SettleSource(m) ==
    LET s == mover[m].from
        k == mover[m].marker
    IN  /\ At(m, "wiped") \/ At(m, "unwiped")
        /\ IF At(m, "unwiped") /\ CurrentRoute = s
           THEN store' = Released(s) /\ UNCHANGED copies
           ELSE /\ copies' = [copies EXCEPT ![m]["source"] =
                        Settled(@, IF At(m, "wiped") THEN "done" ELSE "kept", k.stamp, k.rev)]
                /\ UNCHANGED store
        /\ Goto(m, "finish")
        /\ UNCHANGED <<dir, clock, restore, users, jobs, confirmed, slips, left>>

\* finishDestination: done while it routes, else dropped like an unbound copy.
FinishDestination(m) ==
    /\ At(m, "finish")
    /\ IF CurrentRoute = mover[m].to
       THEN Settle(m, "destination", "done") /\ Finish(m)
       ELSE Goto(m, "drop") /\ UNCHANGED copies
    /\ UNCHANGED <<dir, clock, store, restore, users, jobs, confirmed, slips, left>>

\* The request dies; what it already sent may still land.
Die(m) ==
    /\ mover[m].pc \notin {"idle", "over"} /\ mover[m].kind # "recarry" /\ ~Awaited(m)
    /\ mover' = [n \in Moves |-> IF n = m \/ (mover[m].pc \in {"again", "recarrying"} /\ n = mover[m].seen)
                                 THEN Over(mover[n]) ELSE mover[n]]
    /\ UNCHANGED <<dir, copies, clock, store, restore, users, jobs, confirmed, slips, left>>

\* Time: the restore fence lapses a margin before the lease runs out.  Nothing asks for the time
\* of a move that has no pending entry and no restore on the way.
Tick(m) ==
    /\ (\E r \in Roles : copies[m][r].state = "pending") \/ restore[m].flying > 0
    /\ clock[m] # "over"
    /\ clock' = [clock EXCEPT ![m] = IF @ = "open" THEN "lapsed" ELSE "over"]
    /\ UNCHANGED <<dir, copies, store, mover, restore, users, jobs, confirmed, slips, left>>

Move(m) ==
    \/ m \in Requests /\ \E kind \in {"carry", "adopt"}, to \in Scripts : Begin(m, kind, to)
    \/ RecordSource(m) \/ RecordDestination(m) \/ Renew(m) \/ Export(m)
    \/ ReadDestination(m) \/ CheckRoute(m) \/ SendRestore(m)
    \/ Restore(m) \/ LoseRestore(m) \/ ResendRestore(m)
    \/ RecheckSource(m) \/ (\E n \in Recarries : CarryAgain(m, n)) \/ SupersedeMove(m) \/ AgainFails(m)
    \/ Bind(m) \/ BindRefused(m) \/ BindUnheard(m)
    \/ SettleRetained(m) \/ DropRead(m) \/ DropWipe(m) \/ DropSettle(m)
    \/ ReadBound(m) \/ ReleaseIfLive(m) \/ CheckTombstone(m)
    \/ (\E n \in Recarries : Recarry(m, n)) \/ SettleRecarry(m)
    \/ PromoteSource(m) \/ WipeSource(m) \/ SettleSource(m)
    \/ FinishDestination(m) \/ Die(m) \/ Tick(m)

-----------------------------------------------------------------------------
(* The ledger sweep. *)

NoPass == [pc |-> "idle", entry |-> None, stamp |-> None, rev |-> None, verdict |-> None]

Pass(w, pc, verdict) ==
    sweeper' = [sweeper EXCEPT ![w].pc = pc, ![w].verdict = verdict]

\* Mutant: an entry a pass claimed is never claimed again.
ClaimExpiredOnce(w, e) ==
    /\ sweeper[w].pc = "idle"
    /\ Entry(e).state = "pending" /\ clock[e[1]] = "over" /\ Entry(e).owner = None
    /\ copies' = [copies EXCEPT ![e[1]][e[2]].owner = w]
    /\ sweeper' = [sweeper EXCEPT ![w] = [NoPass EXCEPT
            !.pc = "expired", !.entry = e, !.stamp = Entry(e).stamp]]
    /\ UNCHANGED <<dir, clock, store, mover, restore, users, eraser, reaper, confirmed, slips, left>>

\* claimExpiredScopeScriptCopies: an expired entry, or one whose sweep expired.
ClaimExpired(w, e) ==
    /\ sweeper[w].pc = "idle"
    /\ Entry(e).state = "pending" /\ clock[e[1]] = "over"
    /\ copies' = [copies EXCEPT ![e[1]][e[2]].owner = w]
    /\ sweeper' = [sweeper EXCEPT ![w] = [NoPass EXCEPT
            !.pc = "expired", !.entry = e, !.stamp = Entry(e).stamp]]
    /\ UNCHANGED <<dir, clock, store, mover, restore, users, eraser, reaper, confirmed, slips, left>>

\* settledStateOf: what the route and the entry decide before any wipe.
SettledState(w) ==
    LET e == sweeper[w].entry
    IN  /\ sweeper[w].pc = "expired"
        /\ IF ~dir.gone /\ dir.route = Script(e[1], e[2]) THEN Pass(w, "settle", "done")
           ELSE IF dir.gone \/ e[2] = "source" THEN Pass(w, "settle", "retained")
           ELSE Pass(w, "wipe", None)
        /\ UNCHANGED <<dir, copies, clock, store, mover, restore, users, eraser, reaper,
                       confirmed, slips, left>>

\* settledStateOf: an unbound destination is wiped under the move's own stamp.
WipeExpired(w) ==
    LET s == Script(sweeper[w].entry[1], "destination")
        k == sweeper[w].stamp
    IN  /\ sweeper[w].pc = "wipe"
        /\ store' = [store EXCEPT ![s] = Wipe(@, k, None, FALSE)]
        /\ Pass(w, "settle", IF WipeTakes(store[s], k, None) THEN "done" ELSE "retained")
        /\ UNCHANGED <<dir, copies, clock, mover, restore, users, eraser, reaper, confirmed, slips, left>>

\* settleScopeScriptCopy with claimedBy: only an entry this pass still owns.
SettleExpired(w) ==
    LET e == sweeper[w].entry
    IN  /\ sweeper[w].pc = "settle"
        /\ copies' = IF Entry(e).state = "pending" /\ Entry(e).owner = w
                     THEN [copies EXCEPT ![e[1]][e[2]] =
                                Settled(@, sweeper[w].verdict, None, None)]
                     ELSE copies
        /\ sweeper' = [sweeper EXCEPT ![w] = NoPass]
        /\ UNCHANGED <<dir, clock, store, mover, restore, users, eraser, reaper, confirmed, slips, left>>

\* retryScopeScriptCopies: an eligible source as the listing read it.
PickEligible(w, m) ==
    /\ sweeper[w].pc = "idle"
    /\ copies[m]["source"].state = "eligible"
    /\ sweeper' = [sweeper EXCEPT ![w] = [NoPass EXCEPT
            !.pc = "eligible", !.entry = <<m, "source">>,
            !.stamp = copies[m]["source"].stamp, !.rev = copies[m]["source"].rev]]
    /\ UNCHANGED <<dir, copies, clock, store, mover, restore, users, eraser, reaper,
                   confirmed, slips, left>>

\* retryScopeScriptCopy: skipped while the scope routes to it.
RetryRead(w) ==
    LET e == sweeper[w].entry
    IN  /\ sweeper[w].pc = "eligible"
        /\ IF dir.gone \/ dir.route = Script(e[1], e[2])
           THEN sweeper' = [sweeper EXCEPT ![w] = NoPass]
           ELSE Pass(w, "retry", None)
        /\ UNCHANGED <<dir, copies, clock, store, mover, restore, users, eraser, reaper,
                       confirmed, slips, left>>

\* retryScopeScriptCopy: the wipe, and the tombstone that proves an earlier one.
RetryWipe(w) ==
    LET s  == Script(sweeper[w].entry[1], "source")
        st == Wipe(store[s], sweeper[w].stamp, sweeper[w].rev, TRUE)
    IN  /\ sweeper[w].pc = "retry"
        /\ store' = [store EXCEPT ![s] = st]
        /\ Pass(w, "record", IF st.tomb THEN "done" ELSE "kept")
        /\ UNCHANGED <<dir, copies, clock, mover, restore, users, eraser, reaper, confirmed, slips, left>>

RetrySettle(w) ==
    LET e == sweeper[w].entry
    IN  /\ sweeper[w].pc = "record"
        /\ copies' = [copies EXCEPT ![e[1]][e[2]] =
                Settled(@, sweeper[w].verdict, sweeper[w].stamp, sweeper[w].rev)]
        /\ sweeper' = [sweeper EXCEPT ![w] = NoPass]
        /\ UNCHANGED <<dir, clock, store, mover, restore, users, eraser, reaper, confirmed, slips, left>>

\* A pass that fails or dies leaves its entry claimed, or eligible.
PassDies(w) ==
    /\ sweeper[w].pc # "idle"
    /\ Event
    /\ sweeper' = [sweeper EXCEPT ![w] = NoPass]
    /\ UNCHANGED <<dir, copies, clock, store, mover, restore, users, eraser, reaper, confirmed, slips>>

Sweep(w) ==
    \/ \E e \in Entries : ClaimExpired(w, e)
    \/ SettledState(w) \/ WipeExpired(w) \/ SettleExpired(w)
    \/ \E m \in Moves : PickEligible(w, m)
    \/ RetryRead(w) \/ RetryWipe(w) \/ RetrySettle(w)

-----------------------------------------------------------------------------
(* Subject erasure. *)

NoErasure == [pc |-> "idle", refs |-> {}, route |-> None, count |-> 0, epoch |-> 0]

Recorded == {e \in Entries : Entry(e).state # "none"}

NamedScripts == {Script(e[1], e[2]) : e \in NotDone}

EraseBegin ==
    /\ eraser.pc = "idle" /\ ~dir.gone
    /\ Event
    /\ eraser' = [NoErasure EXCEPT !.pc = "list", !.route = dir.route]
    /\ UNCHANGED <<dir, copies, clock, store, mover, restore, users, sweeper, reaper, confirmed, slips>>

\* The inventory: refused while any move is pending.
EraseList ==
    /\ eraser.pc = "list"
    /\ eraser' = IF ~NoPending \/ dir.gone THEN NoErasure
                 ELSE [eraser EXCEPT !.pc = "redact", !.count = Cardinality(Recorded),
                        !.epoch = dir.epoch, !.refs = NamedScripts \cup {eraser.route}]
    /\ UNCHANGED <<dir, copies, clock, store, mover, restore, users, sweeper, reaper,
                   confirmed, slips, left>>

\* redactSubject in one script's store; a tombstone refuses it, and the erasure fails.
EraseRedact(s) ==
    /\ eraser.pc = "redact" /\ s \in eraser.refs
    /\ IF store[s].tomb
       THEN eraser' = NoErasure /\ UNCHANGED <<store, owed>>
       ELSE /\ store' = [store EXCEPT ![s] = Write(@, @.rows \ {Person})]
            /\ owed' = owed \ {Person}
            /\ eraser' = [eraser EXCEPT !.refs = @ \ {s}]
    /\ UNCHANGED <<dir, copies, clock, mover, restore, req, sweeper, reaper, confirmed, slips, left>>

\* Mutant: the claim asks nothing of the ledger.
EraseClaimUncounted ==
    /\ eraser.pc = "redact" /\ eraser.refs = {}
    /\ dir' = IF ~dir.gone /\ dir.route = eraser.route /\ dir.epoch = eraser.epoch
              THEN [dir EXCEPT !.epoch = @ + 1, !.erased = TRUE]
              ELSE dir
    /\ eraser' = NoErasure
    /\ UNCHANGED <<copies, clock, store, mover, restore, users, sweeper, reaper, confirmed, slips, left>>

\* SUBJECT_ERASURE_CLAIM_SQL, then the key goes.
EraseClaim ==
    /\ eraser.pc = "redact" /\ eraser.refs = {}
    /\ dir' = IF /\ ~dir.gone /\ NoPending
                 /\ dir.route = eraser.route /\ dir.epoch = eraser.epoch
                 /\ Cardinality(Recorded) = eraser.count
              THEN [dir EXCEPT !.epoch = @ + 1, !.erased = TRUE]
              ELSE dir
    /\ eraser' = NoErasure
    /\ UNCHANGED <<copies, clock, store, mover, restore, users, sweeper, reaper, confirmed, slips, left>>

Erase == EraseBegin \/ EraseList \/ (\E s \in Scripts : EraseRedact(s)) \/ EraseClaim

-----------------------------------------------------------------------------
(* Reap. *)

NoReap == [pc |-> "idle", refs |-> {}, listed |-> {}]

\* beginScopeScriptReap: refused while any move is pending; a claim held resumes.
ReapClaim ==
    /\ reaper.pc = "idle" /\ ~dir.gone
    /\ \/ dir.reaping /\ UNCHANGED left
       \/ ~dir.reaping /\ NoPending /\ Event
    /\ dir' = [dir EXCEPT !.reaping = TRUE]
    /\ reaper' = [NoReap EXCEPT !.pc = "list"]
    /\ UNCHANGED <<copies, clock, store, mover, restore, users, sweeper, eraser, confirmed, slips>>

ReapList ==
    /\ reaper.pc = "list"
    /\ reaper' = [pc |-> "delete", listed |-> NotDone,
                  refs |-> NamedScripts \cup {dir.route}]
    /\ UNCHANGED <<dir, copies, clock, store, mover, restore, users, sweeper, eraser,
                   confirmed, slips, left>>

ReapDelete(s) ==
    /\ reaper.pc = "delete" /\ s \in reaper.refs
    /\ store' = [store EXCEPT ![s] = Empty]
    /\ reaper' = [reaper EXCEPT !.refs = @ \ {s}]
    /\ UNCHANGED <<dir, copies, clock, mover, restore, users, sweeper, eraser, confirmed, slips, left>>

\* Only after every delete are the entries settled, one by one.
ReapSettle(e) ==
    /\ reaper.pc = "delete" /\ reaper.refs = {} /\ e \in reaper.listed
    /\ Settle(e[1], e[2], "done")
    /\ reaper' = [reaper EXCEPT !.listed = @ \ {e}]
    /\ UNCHANGED <<dir, clock, store, mover, restore, users, sweeper, eraser, confirmed, slips, left>>

\* Mutant: the row goes first.
ReapRowFirst ==
    /\ reaper.pc = "delete"
    /\ dir' = [dir EXCEPT !.gone = TRUE]
    /\ reaper' = NoReap
    /\ UNCHANGED <<copies, clock, store, mover, restore, users, sweeper, eraser, confirmed, slips, left>>

ReapRow ==
    /\ reaper.pc = "delete" /\ reaper.refs = {} /\ reaper.listed = {}
    /\ dir' = [dir EXCEPT !.gone = TRUE]
    /\ reaper' = NoReap
    /\ UNCHANGED <<copies, clock, store, mover, restore, users, sweeper, eraser, confirmed, slips, left>>

\* A delete fails or the request dies; the claim stays, and a retry resumes it.
ReapFails ==
    /\ reaper.pc # "idle"
    /\ reaper' = NoReap
    /\ UNCHANGED <<dir, copies, clock, store, mover, restore, users, sweeper, eraser,
                   confirmed, slips, left>>

Reap ==
    \/ ReapClaim \/ ReapList \/ ReapRow \/ ReapFails
    \/ \E s \in Scripts : ReapDelete(s)
    \/ \E e \in Entries : ReapSettle(e)

-----------------------------------------------------------------------------
(* A user's request reads the route, and writes where it was sent. *)

UserBegin(w) ==
    /\ req[w] = None /\ w \notin owed /\ ~dir.gone /\ ~dir.reaping
    /\ Extra
    /\ req' = [req EXCEPT ![w] = dir.route]
    /\ UNCHANGED <<dir, copies, clock, store, mover, restore, owed, jobs, confirmed, slips>>

\* It lands in a copy that a drop may yet take, which compares no revision.
LateWrite(s) ==
    IF s # dir.route /\ \E m \in Moves : store[s].stamp = m /\ (m \in confirmed => ~At(m, "over"))
    THEN {"late write"} ELSE {}

UserWrite(w) ==
    LET s == req[w]
    IN  /\ s # None
        /\ req' = [req EXCEPT ![w] = None]
        /\ IF store[s].held
           THEN /\ store' = [store EXCEPT ![s] = Write(@, @.rows \cup {w})]
                /\ owed' = owed \cup {w}
                /\ slips' = slips \cup LateWrite(s)
           ELSE UNCHANGED <<store, owed, slips>>
        /\ UNCHANGED <<dir, copies, clock, mover, restore, jobs, confirmed, left>>

-----------------------------------------------------------------------------
Init ==
    /\ dir = [route |-> Home, epoch |-> 0, reaping |-> FALSE, gone |-> FALSE, erased |-> FALSE]
    /\ copies = [m \in Moves |-> [r \in Roles |->
                    [state |-> "none", stamp |-> None, rev |-> None, owner |-> None]]]
    /\ clock = [m \in Moves |-> "open"]
    /\ store = [s \in Scripts |-> IF s = Home
                    THEN [Empty EXCEPT !.rows = {Person}, !.held = TRUE] ELSE Empty]
    /\ mover = [m \in Moves |-> Idle]
    /\ restore = [m \in Moves |-> NoRestore]
    /\ sweeper = [w \in Sweepers |-> NoPass]
    /\ eraser = NoErasure
    /\ reaper = NoReap
    /\ req = [w \in Writes |-> None]
    /\ owed = {Person}
    /\ confirmed = {}
    /\ slips = {}
    /\ left = [extras |-> MaxExtras, events |-> MaxEvents]

Next ==
    \/ \E m \in Moves : Move(m)
    \/ \E w \in Sweepers : Sweep(w) \/ PassDies(w)
    \/ Erase
    \/ Reap
    \/ \E w \in Writes : UserBegin(w) \/ UserWrite(w)

Spec == Init /\ [][Next]_vars

\* Time passes, a copy under way goes on, a pass that is not stopped ends, and
\* every scheduled pass begins with the expired entries.
Fairness ==
    /\ \A m \in Moves : WF_vars(Tick(m)) /\ WF_vars(Export(m))
    /\ \A w \in Sweepers :
          WF_vars(Sweep(w)) /\ SF_vars(\E e \in Entries : ClaimExpired(w, e))

FairSpec == Spec /\ Fairness

-----------------------------------------------------------------------------
(* Properties. *)

Slips == {"overlap", "late restore", "restore over", "stale bind", "stale recarry", "late write"}

Ends    == Scripts \cup {None}
Stamps  == Moves \cup {Minted(m) : m \in Moves} \cup {None}
Revs    == Nat \cup {None}
Markers == [stamp : Stamps, rev : Nat]

\* A restore that expects nothing is told from one that expects a marker.
ASSUME MarkersAreTold == None \notin Markers

DirType     == [route : Scripts, epoch : Nat, reaping : BOOLEAN, gone : BOOLEAN, erased : BOOLEAN]
EntryType   == [state : States, stamp : Stamps, rev : Revs, owner : Sweepers \cup {None}]
StoreType   == [rows : SUBSET Rows, stamp : Stamps, rev : Nat,
                tomb : BOOLEAN, kept : BOOLEAN, held : BOOLEAN]
MoverType   == [pc : Places, kind : {"carry", "adopt", "recarry", None}, from : Ends, to : Ends,
                epoch : Nat, rows : SUBSET Rows, tomb : BOOLEAN, marker : Markers,
                dest : Markers, seen : Moves \cup Ends, tries : Nat]
RestoreType == [flying : Nat, rows : SUBSET Rows, tomb : BOOLEAN, expect : Markers \cup {None}]
PassType    == [pc : {"idle", "expired", "wipe", "settle", "eligible", "retry", "record"},
                entry : Entries \cup {None}, stamp : Stamps, rev : Revs,
                verdict : States \cup {None}]
EraserType  == {v \in [pc : {"idle", "list", "redact"}, refs : SUBSET Scripts, route : Ends,
                      count : Nat, epoch : Nat] : v.pc = "idle" \/ v.route \in Scripts}
ReaperType  == [pc : {"idle", "list", "delete"}, refs : SUBSET Scripts, listed : SUBSET Entries]
LeftType    == [extras : Nat, events : Nat]

\* Every variable holds a value of its kind.
TypeOK ==
    /\ dir \in DirType
    /\ copies \in [Moves -> [Roles -> EntryType]]
    /\ clock \in [Moves -> {"open", "lapsed", "over"}]
    /\ store \in [Scripts -> StoreType]
    /\ mover \in [Moves -> MoverType]
    /\ restore \in [Moves -> RestoreType]
    /\ sweeper \in [Sweepers -> PassType]
    /\ eraser \in EraserType
    /\ reaper \in ReaperType
    /\ req \in [Writes -> Ends]
    /\ owed \subseteq Rows
    /\ confirmed \subseteq Moves
    /\ slips \subseteq Slips
    /\ left \in LeftType

\* Where moves run one after the other (whatever each left behind) and no call slips in late,
\* every wipe of a store that is not the route, whoever sends it and whenever it lands, takes
\* only what the route has (wipeStore's stamp and revision, dropUnboundCopy, retryScopeScriptCopy).
\* With overlapping carries it fails: a drop compares no revision.
NothingLostInTurn ==
    [][\A s \in Scripts \ {dir.route} :
          ~store[s].tomb /\ store'[s].tomb /\ ~dir.reaping /\ slips = {} =>
             owed \cap store[s].rows \subseteq store[dir.route].rows]_vars

\* The slips after which a store may hold what the ledger does not know of.
Unlisted == {"late restore", "stale bind", "stale recarry"}

\* A store that holds anything of the scope is the route or a script some entry names.
EveryCopyNamed ==
    dir.gone \/ \A s \in Scripts : store[s].rows # {} => s \in NamedScripts \cup {dir.route}

\* Whatever moves overlap and whatever replies are lost, a store that holds anything of the scope
\* is the route or a script some entry names, unless one of those slips happened: entries are
\* recorded before a restore is sent, and an entry ends only when its store is wiped or routed.
EveryCopyNamedInOrder == slips \cap Unlisted = {} => EveryCopyNamed

\* Once an erasure has destroyed the subject's key no store holds the subject.
ErasedEverywhere == dir.erased => \A s \in Scripts : Person \notin store[s].rows

\* Whatever was copied or bound while the erasure went from store to store, none holds the
\* subject once its key is destroyed, unless one of those slips happened (the claim counts
\* entries, and compares the route and the epoch).
ErasedInOrder == slips \cap Unlisted = {} => ErasedEverywhere

\* Once a reap has removed the scope's row no store holds what it held.
ReapedEverywhere == dir.gone => \A s \in Scripts : Person \notin store[s].rows

\* Although the reap deletes through script after script, may fail between any two and is
\* resumed, no store holds what it held once the row is gone, unless one of those slips happened.
ReapedInOrder == slips \cap Unlisted = {} => ReapedEverywhere

\* After an erasure or a reap nothing comes back, whatever call was on its way: "A restore that is
\* not refused therefore committed before any of them" (CopyRestoreFence).  It fails: a request
\* that gives its restore up settles its entries while the call may still land (settleCarryRetained).
NothingComesBack == ErasedEverywhere /\ ReapedEverywhere

\* The slips after which a wipe may take what another move binds.
Overtaken == {"restore over", "stale bind", "stale recarry"}

\* The store the scope routes to is never a wiped copy.
RoutedIsLive == dir.gone \/ ~store[dir.route].tomb

\* Whatever move back, drop or sweep is under way, the store the scope routes to is never a
\* wiped copy, unless one of those slips happened: every wipe carries the stamp its move or its
\* export saw, and the store refuses it under another (wipeCarried, the bind's live predicate).
RoutedIsLiveInOrder == slips \cap Overtaken = {} => RoutedIsLive

\* The three for moves that expect neither the route nor a marker: an adopt's restore replaces
\* what it finds, and its bind asks for its lease and the epoch alone (adoptScopeOntoServing).
MovesInOrder == RoutedIsLiveInOrder /\ ErasedInOrder /\ ReapedInOrder

\* Whatever moves and passes die, the sweep brings the ledger to hold no pending entry again
\* (claimExpiredScopeScriptCopies), so that an erasure or a reap refused with "retry" gets through.
PendingSettles == []<>NoPending

\* A bind or a sweep acts on a move, never both: no pass ever owns an entry of a move whose
\* bind landed.
OneActs == \A m \in confirmed : \A r \in Roles : copies[m][r].owner = None

-----------------------------------------------------------------------------
(* What OneActs rests on. *)

\* A move that began knows its scripts; one that did not has left nothing, and no pass owns
\* an entry that was never recorded.
Begun ==
    \A m \in Moves :
        /\ mover[m].pc # "idle" => mover[m].from \in Scripts /\ mover[m].to \in Scripts
        /\ mover[m].pc = "idle" => /\ restore[m].flying = 0
                                  /\ \A r \in Roles : copies[m][r].state = "none"
        /\ \A r \in Roles : copies[m][r].state = "none" => copies[m][r].owner = None

\* A carry that waits for its source to be carried again knows the move that does it.
KnowsRecarry ==
    \A m \in Moves : mover[m].pc \in {"again", "recarrying"} =>
        mover[m].seen \in Moves /\ mover[mover[m].seen].pc # "idle"

\* A pass works on a recorded entry, and never decides to leave it pending.
PassesDecide ==
    \A w \in Sweepers :
        /\ sweeper[w].pc # "idle" => /\ sweeper[w].entry \in Entries
                                    /\ Entry(sweeper[w].entry).state # "none"
        /\ sweeper[w].pc \in {"settle", "record"} =>
              sweeper[w].verdict \in {"done", "retained", "kept"}

\* A confirmed move is past its records, and none of its entries is pending again.
ConfirmedIsPast ==
    \A m \in confirmed :
        /\ mover[m].pc \notin {"idle", "source", "destination"}
        /\ \A r \in Roles : copies[m][r].state # "pending" /\ copies[m][r].owner = None

IInv == TypeOK /\ Begun /\ KnowsRecarry /\ PassesDecide /\ ConfirmedIsPast
=============================================================================
