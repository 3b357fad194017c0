--------------------------- MODULE ScopeCopy_proofs ---------------------------
(***************************************************************************)
(* For any number of scripts, overlapping moves, passes and lost replies:  *)
(* every variable keeps its type, and a bind or a sweep acts on a move,    *)
(* never both.  The inductive invariant IInv adds to the types that a move *)
(* which began knows its scripts, that no pass decides to leave an entry   *)
(* pending, and that a confirmed move is past its records.                 *)
(***************************************************************************)
EXTENDS ScopeCopy, FiniteSetTheorems, TLAPS

-----------------------------------------------------------------------------
(* The store and the ledger's entries. *)

\* What a load leaves is a store.
LEMMA LoadType ==
    ASSUME NEW st \in StoreType, NEW rows \in SUBSET Rows, NEW stamp \in Stamps, NEW tomb \in BOOLEAN
    PROVE  Load(st, rows, stamp, tomb) \in StoreType
  BY DEF Load, StoreType

\* What a write leaves is a store.
LEMMA WriteType ==
    ASSUME NEW st \in StoreType, NEW rows \in SUBSET Rows
    PROVE  Write(st, rows) \in StoreType
  <1>1. st.rev + 1 \in Nat
    BY DEF StoreType
  <1>2. [st EXCEPT !.rows = rows] \in StoreType
    BY DEF StoreType
  <1>3. [[st EXCEPT !.rows = rows] EXCEPT !.rev = st.rev + 1] \in StoreType
    BY <1>1, <1>2 DEF StoreType
  <1> QED  BY <1>3 DEF Write, StoreType

\* What a fenced wipe leaves is a store, whether it ran, was refused or kept the copy.
LEMMA WipeType ==
    ASSUME NEW st \in StoreType, NEW stamp, NEW rev, NEW protect
    PROVE  Wipe(st, stamp, rev, protect) \in StoreType
  <1>1. st.rows \in SUBSET Rows
    BY DEF StoreType
  <1>2. Load(st, {}, None, TRUE) \in StoreType
    BY LoadType DEF Stamps, Ends
  <1>3. Write(st, st.rows) \in StoreType
    BY <1>1, WriteType
  <1>4. [Write(st, st.rows) EXCEPT !.kept = TRUE] \in StoreType
    BY <1>3 DEF StoreType
  <1> QED  BY <1>2, <1>3, <1>4 DEF Wipe

\* An entry settled keeps its owner, and is recorded, or pending, only as it was.
LEMMA SettledEntry ==
    ASSUME NEW e \in EntryType, NEW state \in States \ {"none", "pending"},
           NEW stamp \in Stamps, NEW rev \in Revs
    PROVE  /\ Settled(e, state, stamp, rev) \in EntryType
           /\ Settled(e, state, stamp, rev).owner = e.owner
           /\ Settled(e, state, stamp, rev).state = "none" <=> e.state = "none"
           /\ Settled(e, state, stamp, rev).state = "pending" => e.state = "pending"
  BY DEF Settled, EntryType

-----------------------------------------------------------------------------
(* Steps that only settle entries and take movers on. *)

SettlesOnly ==
    /\ copies' \in [Moves -> [Roles -> EntryType]]
    /\ \A n \in Moves, r \in Roles :
          /\ copies'[n][r].owner = copies[n][r].owner
          /\ copies'[n][r].state = "none" <=> copies[n][r].state = "none"
          /\ copies'[n][r].state = "pending" => copies[n][r].state = "pending"

\* A carry that waits for the move that carries its source again.
Waiting == {"again", "recarrying"}

MoversGoOn ==
    /\ mover' \in [Moves -> MoverType]
    /\ \A n \in Moves :
          /\ mover'[n].from = mover[n].from /\ mover'[n].to = mover[n].to
          /\ mover'[n].pc = "idle" <=> mover[n].pc = "idle"
          /\ mover'[n].pc \in {"source", "destination"} => mover[n].pc \in {"source", "destination"}
          /\ mover'[n].pc \in Waiting => mover[n].pc \in Waiting /\ mover'[n].seen = mover[n].seen

RestoresGoOn ==
    /\ restore' \in [Moves -> RestoreType]
    /\ \A n \in Moves : mover[n].pc = "idle" => restore'[n] = restore[n]

\* A step that changes nothing of the three goes on.
LEMMA Unchanged ==
    /\ TypeOK /\ UNCHANGED copies => SettlesOnly
    /\ TypeOK /\ UNCHANGED mover => MoversGoOn
    /\ TypeOK /\ UNCHANGED restore => RestoresGoOn
  BY DEF TypeOK, SettlesOnly, MoversGoOn, RestoresGoOn

\* Settling one entry settles only.
LEMMA SettleOne ==
    ASSUME TypeOK, NEW m \in Moves, NEW role \in Roles,
           NEW state \in States \ {"none", "pending"}, NEW stamp \in Stamps, NEW rev \in Revs,
           copies' = [copies EXCEPT ![m][role] = Settled(@, state, stamp, rev)]
    PROVE  SettlesOnly
  <1>1. copies[m][role] \in EntryType
    BY DEF TypeOK
  <1>2. \A n \in Moves, r \in Roles :
            copies'[n][r] = IF n = m /\ r = role THEN Settled(copies[m][role], state, stamp, rev)
                                                ELSE copies[n][r]
    BY DEF TypeOK
  <1>3. copies' \in [Moves -> [Roles -> EntryType]]
    BY <1>1, SettledEntry DEF TypeOK
  <1> QED  BY <1>1, <1>2, <1>3, SettledEntry DEF SettlesOnly

\* Settling both entries of a move settles only.
LEMMA SettleTwo ==
    ASSUME TypeOK, NEW m \in Moves, NEW s \in States \ {"none", "pending"},
           NEW d \in States \ {"none", "pending"}, SettleBoth(m, s, d)
    PROVE  SettlesOnly
  <1>1. \A r \in Roles : copies[m][r] \in EntryType
    BY DEF TypeOK
  <1>2. None \in Stamps /\ None \in Revs
    BY DEF Stamps, Ends, Revs
  <1>3. \A n \in Moves, r \in Roles :
            copies'[n][r] = IF n = m THEN Settled(copies[m][r], IF r = "source" THEN s ELSE d, None, None)
                                     ELSE copies[n][r]
    BY DEF TypeOK, SettleBoth
  <1>4. copies' \in [Moves -> [Roles -> EntryType]]
    BY <1>1, <1>2, SettledEntry DEF TypeOK, SettleBoth
  <1> QED  BY <1>1, <1>2, <1>3, <1>4, SettledEntry DEF SettlesOnly

\* A mover that began and goes on to a later place with a value of its type goes on.
LEMMA MoverGoes ==
    ASSUME TypeOK, NEW m \in Moves, NEW v \in MoverType,
           mover' = [mover EXCEPT ![m] = v],
           mover[m].pc # "idle", v.from = mover[m].from, v.to = mover[m].to,
           v.pc \notin {"idle", "source", "destination"} \cup Waiting
    PROVE  MoversGoOn
  BY DEF TypeOK, MoversGoOn, Waiting

LEMMA GotoGoes ==
    ASSUME TypeOK, NEW m \in Moves, NEW pc \in Places \ ({"idle", "source", "destination"} \cup Waiting),
           Goto(m, pc), mover[m].pc # "idle"
    PROVE  MoversGoOn
  <1>1. mover[m] \in MoverType
    BY DEF TypeOK
  <1>2. [mover[m] EXCEPT !.pc = pc] \in MoverType
    BY <1>1 DEF MoverType
  <1> QED  BY <1>1, <1>2, MoverGoes DEF Goto, MoverType, Waiting

\* A mover that is over has a value of its type, at its scripts.
LEMMA OverType ==
    ASSUME NEW v \in MoverType
    PROVE  /\ Over(v) \in MoverType
           /\ Over(v).pc = "over" /\ Over(v).from = v.from /\ Over(v).to = v.to
  BY ZenonT(60) DEF Over, Idle, NoMarker, MoverType, Places, Markers, Stamps, Ends

LEMMA FinishGoes ==
    ASSUME TypeOK, NEW m \in Moves, Finish(m), mover[m].pc # "idle"
    PROVE  MoversGoOn
  <1>1. mover[m] \in MoverType
    BY DEF TypeOK
  <1> QED  BY <1>1, OverType, MoverGoes DEF Finish, Waiting

\* The rest of the invariant survives a step that settles entries, takes movers
\* and restores on, and leaves the passes and the confirmed moves alone.
LEMMA Frame ==
    ASSUME IInv, SettlesOnly, MoversGoOn, RestoresGoOn,
           UNCHANGED <<sweeper, confirmed>>
    PROVE  Begun' /\ KnowsRecarry' /\ PassesDecide' /\ ConfirmedIsPast'
  <1>1. Begun'
    <2> SUFFICES ASSUME NEW m \in Moves
                 PROVE  /\ mover'[m].pc # "idle" => mover'[m].from \in Scripts /\ mover'[m].to \in Scripts
                        /\ mover'[m].pc = "idle" => /\ restore'[m].flying = 0
                                                   /\ \A r \in Roles : copies'[m][r].state = "none"
                        /\ \A r \in Roles : copies'[m][r].state = "none" => copies'[m][r].owner = None
      BY DEF Begun
    <2>1. /\ mover'[m].from = mover[m].from /\ mover'[m].to = mover[m].to
          /\ mover'[m].pc = "idle" <=> mover[m].pc = "idle"
      BY DEF MoversGoOn
    <2>2. mover[m].pc = "idle" => restore'[m] = restore[m]
      BY DEF RestoresGoOn
    <2>3. \A r \in Roles : /\ copies'[m][r].state = "none" <=> copies[m][r].state = "none"
                           /\ copies'[m][r].owner = copies[m][r].owner
      BY DEF SettlesOnly
    <2> QED  BY <2>1, <2>2, <2>3 DEF IInv, Begun
  <1>2. PassesDecide'
    <2> SUFFICES ASSUME NEW w \in Sweepers
                 PROVE  /\ sweeper[w].pc # "idle" => /\ sweeper[w].entry \in Entries
                                                    /\ Entry(sweeper[w].entry)'.state # "none"
                        /\ sweeper[w].pc \in {"settle", "record"} =>
                              sweeper[w].verdict \in {"done", "retained", "kept"}
      BY DEF PassesDecide, Entry
    <2>1. sweeper[w].pc # "idle" => /\ sweeper[w].entry[1] \in Moves /\ sweeper[w].entry[2] \in Roles
                                    /\ Entry(sweeper[w].entry).state # "none"
      BY DEF IInv, PassesDecide, Entries
    <2>2. sweeper[w].pc # "idle" => Entry(sweeper[w].entry)'.state # "none"
      BY <2>1 DEF SettlesOnly, Entry
    <2> QED  BY <2>2 DEF IInv, PassesDecide
  <1>3. ConfirmedIsPast'
    <2> SUFFICES ASSUME NEW m \in confirmed
                 PROVE  /\ mover'[m].pc \notin {"idle", "source", "destination"}
                        /\ \A r \in Roles : copies'[m][r].state # "pending" /\ copies'[m][r].owner = None
      BY DEF ConfirmedIsPast
    <2>1. m \in Moves
      BY DEF IInv, TypeOK
    <2>2. mover[m].pc \notin {"idle", "source", "destination"}
      BY DEF IInv, ConfirmedIsPast
    <2>3. \A r \in Roles : copies[m][r].state # "pending" /\ copies[m][r].owner = None
      BY DEF IInv, ConfirmedIsPast
    <2>4. mover'[m].pc \notin {"idle", "source", "destination"}
      BY <2>1, <2>2 DEF MoversGoOn
    <2> QED  BY <2>1, <2>3, <2>4 DEF SettlesOnly
  <1>4. KnowsRecarry'
    BY DEF IInv, KnowsRecarry, MoversGoOn, Waiting
  <1> QED  BY <1>1, <1>2, <1>3, <1>4

OthersTyped ==
    /\ dir' \in DirType
    /\ clock' \in [Moves -> {"open", "lapsed", "over"}]
    /\ store' \in [Scripts -> StoreType]
    /\ eraser' \in EraserType
    /\ reaper' \in ReaperType
    /\ req' \in [Writes -> Ends]
    /\ owed' \subseteq Rows
    /\ slips' \subseteq Slips
    /\ left' \in LeftType

\* Such a step keeps the whole invariant when the other variables keep their types.
LEMMA Kept ==
    ASSUME IInv, SettlesOnly, MoversGoOn, RestoresGoOn, OthersTyped,
           UNCHANGED <<sweeper, confirmed>>
    PROVE  IInv'
  <1>1. TypeOK'
    BY DEF IInv, TypeOK, SettlesOnly, MoversGoOn, RestoresGoOn, OthersTyped
  <1> QED  BY <1>1, Frame DEF IInv

\* One event, one extra, or the two of a move begun beside another leave the bounds typed.
LEMMA LeftTyped ==
    ASSUME TypeOK
    PROVE  /\ Event \/ Extra => left' \in LeftType
           /\ left.events > 0 /\ (UnderWay # {} => left.extras > 0)
              /\ left' = [left EXCEPT !.events = @ - 1, !.extras = IF UnderWay = {} THEN @ ELSE @ - 1] =>
                 left' \in LeftType
  <1>1. left \in LeftType
    BY DEF TypeOK
  <1>2. left.extras > 0 => left.extras - 1 \in Nat
    BY <1>1 DEF LeftType
  <1>3. left.events > 0 => left.events - 1 \in Nat
    BY <1>1 DEF LeftType
  <1> QED  BY <1>1, <1>2, <1>3 DEF Event, Extra, LeftType

\* Every slip a step notes is one of the kinds.
LEMMA SlipsTyped ==
    ASSUME TypeOK,
           \/ \E m \in Moves : slips' = slips \cup LateRestore(m) \cup OverACopy(m)
           \/ \E m \in Moves : slips' = slips \cup StaleBind(m)
           \/ \E s \in Scripts : slips' = slips \cup LateWrite(s)
           \/ slips' \in {slips, slips \cup {"overlap"}, slips \cup {"stale recarry"}}
    PROVE  slips' \subseteq Slips
  <1>1. slips \subseteq Slips
    BY DEF TypeOK
  <1>2. \A m \in Moves : LateRestore(m) \cup OverACopy(m) \cup StaleBind(m) \subseteq Slips
    BY DEF LateRestore, OverACopy, StaleBind, Slips
  <1>3. \A s \in Scripts : LateWrite(s) \subseteq Slips
    BY DEF LateWrite, Slips
  <1>4. "overlap" \in Slips /\ "stale recarry" \in Slips
    BY DEF Slips
  <1> QED  BY <1>1, <1>2, <1>3, <1>4

\* The fields of a mover and of a store, one by one.
LEMMA Parts ==
    ASSUME IInv, NEW m \in Moves
    PROVE  /\ mover[m] \in MoverType
           /\ restore[m] \in RestoreType
           /\ mover[m].pc # "idle" => /\ mover[m].from \in Scripts /\ mover[m].to \in Scripts
                                      /\ store[mover[m].from] \in StoreType
                                      /\ store[mover[m].to] \in StoreType
           /\ restore[m].flying > 0 => mover[m].pc # "idle"
  <1>1. mover[m] \in MoverType /\ restore[m] \in RestoreType
    BY DEF IInv, TypeOK
  <1>2. mover[m].pc # "idle" => mover[m].from \in Scripts /\ mover[m].to \in Scripts
    BY DEF IInv, Begun
  <1>3. \A s \in Scripts : store[s] \in StoreType
    BY DEF IInv, TypeOK
  <1>4. mover[m].pc = "idle" => restore[m].flying = 0
    BY DEF IInv, Begun
  <1> QED  BY <1>1, <1>2, <1>3, <1>4

-----------------------------------------------------------------------------
(* The actions of a move. *)

\* A step that only takes one mover to its next place, and settles nothing.
LEMMA PlaceSteps ==
    ASSUME IInv, NEW m \in Moves,
           \/ CheckRoute(m) \/ RecheckSource(m) \/ AgainFails(m) \/ BindRefused(m)
           \/ ReadBound(m) \/ CheckTombstone(m)
    PROVE  IInv'
  <1>0. TypeOK
    BY DEF IInv
  <1>1. mover[m].pc # "idle"
    BY DEF CheckRoute, RecheckSource, AgainFails, BindRefused, BindReady, ReadBound, CheckTombstone, At
  <1>2. \E pc \in Places \ ({"idle", "source", "destination"} \cup Waiting) : Goto(m, pc)
    BY DEF CheckRoute, RecheckSource, AgainFails, BindRefused, ReadBound, CheckTombstone, Places, Waiting
  <1>3. UNCHANGED <<dir, copies, clock, store, restore, users, jobs, confirmed, slips, left>>
    BY DEF CheckRoute, RecheckSource, AgainFails, BindRefused, ReadBound, CheckTombstone
  <1>4. UNCHANGED <<dir, copies, clock, store, restore, req, owed, sweeper, eraser, reaper,
                    confirmed, slips, left>>
    BY <1>3 DEF users, jobs
  <1>5. OthersTyped
    BY <1>0, <1>4 DEF TypeOK, OthersTyped
  <1>6. MoversGoOn
    BY <1>0, <1>1, <1>2, GotoGoes
  <1> QED  BY <1>0, <1>4, <1>5, <1>6, Unchanged, Kept

\* A request that read the scope's row has named nothing yet.
LEMMA BeginStep ==
    ASSUME IInv, NEW m \in Moves, NEW kind \in {"carry", "adopt"}, NEW to \in Scripts,
           Begin(m, kind, to)
    PROVE  IInv'
  <1> DEFINE v == [Idle EXCEPT !.pc = "source", !.kind = kind, !.from = dir.route, !.to = to]
  <1>0. TypeOK
    BY DEF IInv
  <1>1. UNCHANGED <<dir, copies, clock, store, restore, req, owed, sweeper, eraser, reaper, confirmed>>
    BY DEF Begin, users, jobs
  <1>2. mover' = [mover EXCEPT ![m] = v] /\ mover[m].pc = "idle"
    BY DEF Begin, At
  <1>3. v \in MoverType /\ v.from \in Scripts /\ v.to \in Scripts /\ v.pc = "source"
    BY <1>0 DEF Idle, NoMarker, MoverType, Places, Markers, Stamps, Ends, TypeOK, DirType
  <1>4. left' \in LeftType
    BY <1>0, LeftTyped DEF Begin
  <1>4a. slips' \subseteq Slips
    BY <1>0, SlipsTyped DEF Begin
  <1>5. TypeOK'
    BY <1>0, <1>1, <1>2, <1>3, <1>4, <1>4a DEF TypeOK
  <1>6. m \notin confirmed
    BY <1>2 DEF IInv, ConfirmedIsPast
  <1>7. \A n \in Moves : mover'[n] = IF n = m THEN v ELSE mover[n]
    BY <1>0, <1>2 DEF TypeOK
  <1>8. Begun'
    BY <1>1, <1>3, <1>7 DEF IInv, Begun
  <1>9. PassesDecide'
    BY <1>1 DEF IInv, PassesDecide, Entry
  <1>10. ConfirmedIsPast'
    BY <1>0, <1>1, <1>6, <1>7 DEF IInv, ConfirmedIsPast, TypeOK
  <1>11. KnowsRecarry'
    BY <1>3, <1>7, ZenonT(60) DEF IInv, KnowsRecarry
  <1> QED  BY <1>5, <1>8, <1>9, <1>10, <1>11 DEF IInv

\* A carry whose source changed begins again, as a move of its own that has named nothing yet.
LEMMA CarryAgainStep ==
    ASSUME IInv, NEW m \in Moves, NEW n \in Recarries, CarryAgain(m, n)
    PROVE  IInv'
  <1> DEFINE v == [mover[m] EXCEPT !.pc = "again", !.seen = n]
             u == [Idle EXCEPT !.pc = "source", !.kind = "carry", !.from = mover[m].from,
                               !.to = mover[m].to, !.tries = mover[m].tries + 1]
  <1>0. TypeOK /\ n \in Moves
    BY DEF IInv, Moves
  <1>1. mover[m].pc = "restored" /\ mover[n].pc = "idle" /\ n # m
    BY DEF CarryAgain, At
  <1>2. UNCHANGED <<dir, copies, clock, store, restore, req, owed, sweeper, eraser, reaper,
                    confirmed, slips, left>>
    BY DEF CarryAgain, users, jobs
  <1>3. mover' = [mover EXCEPT ![m] = v, ![n] = u]
    BY <1>0, <1>1 DEF CarryAgain, TypeOK
  <1>4. mover[m] \in MoverType /\ mover[m].from \in Scripts /\ mover[m].to \in Scripts
    BY <1>1, Parts
  <1>5. v \in MoverType /\ v.pc = "again" /\ v.from = mover[m].from /\ v.to = mover[m].to /\ v.seen = n
    BY <1>0, <1>4 DEF MoverType, Places
  <1>6. u \in MoverType /\ u.pc = "source" /\ u.from = mover[m].from /\ u.to = mover[m].to
    <2>1. mover[m].tries + 1 \in Nat
      BY <1>4 DEF MoverType
    <2> QED  BY <1>4, <2>1, ZenonT(60) DEF MoverType, Places, Idle, NoMarker, Markers, Stamps, Ends
  <1>7. \A k \in Moves : mover'[k] = IF k = m THEN v ELSE IF k = n THEN u ELSE mover[k]
    BY <1>0, <1>1, <1>3 DEF TypeOK
  <1>8. mover' \in [Moves -> MoverType]
    BY <1>0, <1>3, <1>5, <1>6 DEF TypeOK
  <1> HIDE DEF u, v
  <1>9. TypeOK'
    BY <1>0, <1>2, <1>8 DEF TypeOK
  <1>10. n \notin confirmed
    BY <1>1 DEF IInv, ConfirmedIsPast
  <1>11. Begun'
    BY <1>1, <1>2, <1>4, <1>5, <1>6, <1>7 DEF IInv, Begun
  <1>12. PassesDecide'
    BY <1>2 DEF IInv, PassesDecide, Entry
  <1>13. ConfirmedIsPast'
    BY <1>0, <1>2, <1>5, <1>7, <1>10 DEF IInv, ConfirmedIsPast, TypeOK
  <1>14. KnowsRecarry'
    BY <1>0, <1>1, <1>5, <1>6, <1>7 DEF IInv, KnowsRecarry
  <1> QED  BY <1>9, <1>11, <1>12, <1>13, <1>14 DEF IInv

\* A move that is not confirmed and has begun may name a script.
LEMMA RecordsEntry ==
    ASSUME IInv, NEW m \in Moves, NEW role \in Roles, NEW stamp \in Stamps,
           RecordScopeScriptCopy(m, role, stamp), m \notin confirmed,
           mover' \in [Moves -> MoverType], KnowsRecarry',
           mover'[m].pc # "idle",
           \A n \in Moves : mover'[n].pc # "idle" =>
                               mover'[n].from \in Scripts /\ mover'[n].to \in Scripts,
           \A n \in Moves : mover'[n].pc = "idle" => mover[n].pc = "idle",
           \A n \in confirmed : mover'[n].pc \notin {"idle", "source", "destination"},
           UNCHANGED <<dir, clock, store, restore, req, owed, sweeper, eraser, reaper, confirmed, slips, left>>
    PROVE  IInv'
  <1> DEFINE e == [state |-> "pending", stamp |-> stamp, rev |-> None, owner |-> None]
  <1>0. TypeOK
    BY DEF IInv
  <1>1. e \in EntryType /\ e.state = "pending"
    BY DEF EntryType, States, Revs
  <1>2. copies' \in [Moves -> [Roles -> EntryType]]
    BY <1>0, <1>1 DEF TypeOK, RecordScopeScriptCopy
  <1>3. \A n \in Moves, r \in Roles : copies'[n][r] = IF n = m /\ r = role THEN e ELSE copies[n][r]
    BY <1>0 DEF TypeOK, RecordScopeScriptCopy
  <1>4. TypeOK'
    BY <1>0, <1>2 DEF TypeOK
  <1>5. Begun'
    BY <1>3 DEF IInv, Begun
  <1>6. PassesDecide'
    BY <1>1, <1>3 DEF IInv, PassesDecide, Entry, Entries
  <1>7. ConfirmedIsPast'
    BY <1>0, <1>3 DEF IInv, ConfirmedIsPast, TypeOK
  <1> QED  BY <1>4, <1>5, <1>6, <1>7 DEF IInv

\* A refused record ends or fails the move; one that lands names the source.
LEMMA RecordSourceStep ==
    ASSUME IInv, NEW m \in Moves, RecordSource(m)
    PROVE  IInv'
  <1>0. TypeOK
    BY DEF IInv
  <1>1. mover[m].pc = "source"
    BY DEF RecordSource, At
  <1>2. UNCHANGED <<dir, clock, store, restore, req, owed, sweeper, eraser, reaper, confirmed, slips, left>>
    BY DEF RecordSource, users, jobs
  <1>3. CASE dir.reaping \/ dir.gone
    <2>1. Finish(m) /\ UNCHANGED copies
      BY <1>3 DEF RecordSource
    <2>2. MoversGoOn
      BY <1>0, <1>1, <2>1, FinishGoes
    <2>3. OthersTyped
      BY <1>0, <1>2 DEF TypeOK, OthersTyped
    <2> QED  BY <1>0, <1>2, <2>1, <2>2, <2>3, Unchanged, Kept
  <1>4. CASE ~(dir.reaping \/ dir.gone)
    <2>1. RecordScopeScriptCopy(m, "source", None) /\ Goto(m, "destination")
      BY <1>4 DEF RecordSource
    <2>2. mover[m] \in MoverType /\ mover[m].from \in Scripts /\ mover[m].to \in Scripts
      BY <1>1, Parts
    <2>3. [mover[m] EXCEPT !.pc = "destination"] \in MoverType
      BY <2>2 DEF MoverType, Places
    <2>4. mover' \in [Moves -> MoverType]
      BY <1>0, <2>1, <2>3 DEF Goto, TypeOK
    <2>5. \A n \in Moves : mover'[n] = IF n = m THEN [mover[m] EXCEPT !.pc = "destination"] ELSE mover[n]
      BY <1>0, <2>1 DEF Goto, TypeOK
    <2>6. m \notin confirmed
      BY <1>1 DEF IInv, ConfirmedIsPast
    <2>7. mover'[m].pc = "destination" /\ mover'[m].from = mover[m].from /\ mover'[m].to = mover[m].to
      BY <2>2, <2>5 DEF MoverType
    <2>8. \A n \in Moves : mover'[n].pc # "idle" => mover'[n].from \in Scripts /\ mover'[n].to \in Scripts
      BY <2>2, <2>5, <2>7, Parts
    <2>9. \A n \in Moves : mover'[n].pc = "idle" => mover[n].pc = "idle"
      BY <2>5, <2>7
    <2>10. \A n \in confirmed : mover'[n].pc \notin {"idle", "source", "destination"}
      BY <1>0, <2>5, <2>6 DEF IInv, ConfirmedIsPast, TypeOK
    <2>12. KnowsRecarry'
      BY <2>5, <2>7 DEF IInv, KnowsRecarry
    <2> QED
      BY <1>2, <2>1, <2>4, <2>6, <2>7, <2>8, <2>9, <2>10, <2>12, RecordsEntry DEF Roles, Stamps, Ends
  <1> QED  BY <1>3, <1>4

LEMMA RecordDestinationStep ==
    ASSUME IInv, NEW m \in Moves, RecordDestination(m)
    PROVE  IInv'
  <1> DEFINE v == [mover[m] EXCEPT !.pc = "export", !.epoch = dir.epoch]
  <1>0. TypeOK
    BY DEF IInv
  <1>1. mover[m].pc = "destination"
    BY DEF RecordDestination, At
  <1>2. UNCHANGED <<dir, clock, store, restore, req, owed, sweeper, eraser, reaper, confirmed, slips, left>>
    BY DEF RecordDestination, users, jobs
  <1>3. CASE dir.reaping \/ dir.gone
    <2>1. Goto(m, "failed") /\ UNCHANGED copies
      BY <1>3 DEF RecordDestination
    <2>2. MoversGoOn
      BY <1>0, <1>1, <2>1, GotoGoes DEF Places, Waiting
    <2>3. OthersTyped
      BY <1>0, <1>2 DEF TypeOK, OthersTyped
    <2> QED  BY <1>0, <1>2, <2>1, <2>2, <2>3, Unchanged, Kept
  <1>4. CASE ~(dir.reaping \/ dir.gone)
    <2>1. RecordScopeScriptCopy(m, "destination", m) /\ mover' = [mover EXCEPT ![m] = v]
      BY <1>0, <1>4 DEF RecordDestination, TypeOK
    <2>2. mover[m] \in MoverType /\ mover[m].from \in Scripts /\ mover[m].to \in Scripts
      BY <1>1, Parts
    <2>3. v \in MoverType
      BY <1>0, <2>2 DEF MoverType, Places, TypeOK, DirType
    <2>4. mover' \in [Moves -> MoverType]
      BY <1>0, <2>1, <2>3 DEF TypeOK
    <2>5. \A n \in Moves : mover'[n] = IF n = m THEN v ELSE mover[n]
      BY <1>0, <2>1 DEF TypeOK
    <2>6. m \notin confirmed
      BY <1>1 DEF IInv, ConfirmedIsPast
    <2>7. mover'[m].pc = "export" /\ mover'[m].from = mover[m].from /\ mover'[m].to = mover[m].to
      BY <2>2, <2>5 DEF MoverType
    <2>8. \A n \in Moves : mover'[n].pc # "idle" => mover'[n].from \in Scripts /\ mover'[n].to \in Scripts
      BY <2>2, <2>5, <2>7, Parts
    <2>9. \A n \in Moves : mover'[n].pc = "idle" => mover[n].pc = "idle"
      BY <2>5, <2>7
    <2>10. \A n \in confirmed : mover'[n].pc \notin {"idle", "source", "destination"}
      BY <1>0, <2>5, <2>6 DEF IInv, ConfirmedIsPast, TypeOK
    <2>12. KnowsRecarry'
      BY <2>5, <2>7 DEF IInv, KnowsRecarry
    <2> QED
      BY <1>2, <2>1, <2>4, <2>6, <2>7, <2>8, <2>9, <2>10, <2>12, RecordsEntry DEF Roles, Stamps
  <1> QED  BY <1>3, <1>4

\* A source carried again is a move of its own, which nothing confirmed.
LEMMA RecarryStep ==
    ASSUME IInv, NEW m \in Moves, NEW n \in Recarries, Recarry(m, n)
    PROVE  IInv'
  <1> DEFINE st == store[mover[m].from]
             v  == [mover[m] EXCEPT !.pc = "recarrying", !.marker = LoadMarker(st), !.seen = n]
             u  == [Idle EXCEPT !.pc = "send", !.kind = "recarry", !.from = mover[m].from,
                                !.to = mover[m].to, !.rows = st.rows]
  <1>0. TypeOK /\ n \in Moves
    BY DEF IInv, Moves
  <1>1. mover[m].pc = "recarry" /\ mover[n].pc = "idle" /\ n # m
    BY DEF Recarry, At
  <1>2. UNCHANGED <<dir, clock, store, restore, req, owed, sweeper, eraser, reaper, confirmed, slips, left>>
    BY DEF Recarry, users, jobs
  <1>3. CASE st.tomb \/ dir.reaping \/ dir.gone
    <2>1. Goto(m, "finish") /\ UNCHANGED copies
      BY <1>3 DEF Recarry
    <2>2. MoversGoOn
      BY <1>0, <1>1, <2>1, GotoGoes DEF Places, Waiting
    <2>3. OthersTyped
      BY <1>0, <1>2, SMTT(30) DEF TypeOK, OthersTyped
    <2> QED  BY <1>0, <1>2, <2>1, <2>2, <2>3, Unchanged, Kept
  <1>4. CASE ~(st.tomb \/ dir.reaping \/ dir.gone)
    <2>1. RecordScopeScriptCopy(n, "destination", n) /\ mover' = [mover EXCEPT ![m] = v, ![n] = u]
      BY <1>0, <1>1, <1>4 DEF Recarry, TypeOK
    <2>2. mover[m] \in MoverType /\ mover[m].from \in Scripts /\ mover[m].to \in Scripts /\ st \in StoreType
      BY <1>1, Parts
    <2>3. v \in MoverType /\ v.pc = "recarrying" /\ v.from = mover[m].from /\ v.to = mover[m].to
          /\ v.seen = n
      BY <1>0, <2>2 DEF MoverType, Places, StoreType, LoadMarker, Markers, Stamps
    <2>4. u \in MoverType /\ u.pc = "send" /\ u.from = mover[m].from /\ u.to = mover[m].to
      BY <2>2, ZenonT(60) DEF MoverType, Places, StoreType, Idle, NoMarker, Markers, Stamps, Ends
    <2>5. \A k \in Moves : mover'[k] = IF k = m THEN v ELSE IF k = n THEN u ELSE mover[k]
      BY <1>0, <1>1, <2>1 DEF TypeOK
    <2>6. mover' \in [Moves -> MoverType]
      BY <1>0, <2>1, <2>3, <2>4 DEF TypeOK
    <2>7. n \notin confirmed
      BY <1>1 DEF IInv, ConfirmedIsPast
    <2>8. \A k \in Moves : mover'[k].pc # "idle" => mover'[k].from \in Scripts /\ mover'[k].to \in Scripts
      BY <2>2, <2>3, <2>4, <2>5, Parts
    <2>9. \A k \in Moves : mover'[k].pc = "idle" => mover[k].pc = "idle"
      BY <2>3, <2>4, <2>5
    <2>10. \A k \in confirmed : mover'[k].pc \notin {"idle", "source", "destination"}
      BY <1>0, <2>3, <2>5, <2>7 DEF IInv, ConfirmedIsPast, TypeOK
    <2>11. mover'[n].pc # "idle"
      BY <1>0, <1>1, <2>4, <2>5
    <2> HIDE DEF u, v
    <2>12. KnowsRecarry'
      BY <1>0, <1>1, <2>3, <2>4, <2>5 DEF IInv, KnowsRecarry
    <2> USE DEF u, v
    <2> QED
      BY <1>0, <1>2, <2>1, <2>6, <2>7, <2>8, <2>9, <2>10, <2>11, <2>12, RecordsEntry DEF Roles, Stamps
  <1> QED  BY <1>3, <1>4

\* Time and renewals move only a clock.
LEMMA ClockSteps ==
    ASSUME IInv, NEW m \in Moves, Renew(m) \/ Tick(m)
    PROVE  IInv'
  <1>0. TypeOK
    BY DEF IInv
  <1>1. UNCHANGED <<dir, copies, store, mover, restore, req, owed, sweeper, eraser, reaper,
                    confirmed, slips, left>>
    BY DEF Renew, Tick, users, jobs
  <1>2. clock' \in [Moves -> {"open", "lapsed", "over"}]
    BY <1>0 DEF Renew, Tick, TypeOK
  <1>3. OthersTyped
    BY <1>0, <1>1, <1>2 DEF TypeOK, OthersTyped
  <1> QED  BY <1>0, <1>1, <1>3, Unchanged, Kept

\* The export stamps a store and reads it; the marker of the destination is read.
LEMMA ReadSteps ==
    ASSUME IInv, NEW m \in Moves, Export(m) \/ ReadDestination(m)
    PROVE  IInv'
  <1>0. TypeOK
    BY DEF IInv
  <1>1. mover[m].pc # "idle"
    BY DEF Export, ReadDestination, At
  <1>2. UNCHANGED <<dir, copies, clock, restore, req, owed, sweeper, eraser, reaper, confirmed, slips, left>>
    BY DEF Export, ReadDestination, users, jobs
  <1>3. /\ mover[m] \in MoverType /\ mover[m].from \in Scripts /\ mover[m].to \in Scripts
        /\ store[mover[m].from] \in StoreType /\ store[mover[m].to] \in StoreType
    BY <1>1, Parts
  <1>4. CASE ReadDestination(m)
    <2> DEFINE v == [mover[m] EXCEPT !.pc = "route", !.dest = LoadMarker(store[mover[m].to])]
    <2>1. mover' = [mover EXCEPT ![m] = v] /\ UNCHANGED store
      BY <1>0, <1>4 DEF ReadDestination, TypeOK
    <2>2. v \in MoverType /\ v.pc = "route" /\ v.from = mover[m].from /\ v.to = mover[m].to
      BY <1>3 DEF MoverType, Places, StoreType, LoadMarker, Markers
    <2>3. MoversGoOn
      BY <1>0, <1>1, <2>1, <2>2, MoverGoes DEF Waiting
    <2>4. OthersTyped
      BY <1>0, <1>2, <2>1 DEF TypeOK, OthersTyped
    <2> QED  BY <1>0, <1>2, <2>3, <2>4, Unchanged, Kept
  <1>5. CASE Export(m)
    <2> DEFINE s  == mover[m].from
               st == IF store[s].stamp = None /\ ~store[s].tomb
                     THEN [Write(store[s], store[s].rows) EXCEPT !.stamp = Minted(m)]
                     ELSE store[s]
               pc == IF mover[m].kind = "adopt" THEN "send" ELSE "marker"
               v  == [mover[m] EXCEPT !.pc = pc, !.rows = st.rows, !.tomb = st.tomb,
                                      !.marker = LoadMarker(st)]
    <2>1. mover' = [mover EXCEPT ![m] = v] /\ store' = [store EXCEPT ![s] = st]
      BY <1>5 DEF Export
    <2>2. Write(store[s], store[s].rows) \in StoreType
      BY <1>3, WriteType DEF StoreType
    <2>3. [Write(store[s], store[s].rows) EXCEPT !.stamp = Minted(m)] \in StoreType
      BY <1>3, <2>2 DEF StoreType, Stamps, Ends
    <2>4. st \in StoreType
      BY <1>3, <2>3
    <2> HIDE DEF st
    <2>5. v \in MoverType /\ v.pc \in {"send", "marker"} /\ v.from = mover[m].from /\ v.to = mover[m].to
      BY <1>3, <2>4, ZenonT(60) DEF MoverType, Places, StoreType, LoadMarker, Markers
    <2>6. MoversGoOn
      BY <1>0, <1>1, <2>1, <2>5, MoverGoes DEF Waiting
    <2>7. OthersTyped
      BY <1>0, <1>2, <2>1, <2>4 DEF TypeOK, OthersTyped
    <2> QED  BY <1>0, <1>2, <2>6, <2>7, Unchanged, Kept
  <1> QED  BY <1>4, <1>5

\* A restore goes out, comes in, is given up or is sent again.
LEMMA RestoreSteps ==
    ASSUME IInv, NEW m \in Moves,
           SendRestore(m) \/ Restore(m) \/ LoseRestore(m) \/ ResendRestore(m)
    PROVE  IInv'
  <1>0. TypeOK
    BY DEF IInv
  <1>1. mover[m].pc # "idle"
    BY Parts DEF SendRestore, Restore, LoseRestore, ResendRestore, At
  <1>2. UNCHANGED <<dir, copies, clock, req, owed, sweeper, eraser, reaper, confirmed>>
    BY DEF SendRestore, Restore, LoseRestore, ResendRestore, users, jobs
  <1>3. /\ mover[m] \in MoverType /\ restore[m] \in RestoreType
        /\ mover[m].to \in Scripts /\ store[mover[m].to] \in StoreType
    BY <1>1, Parts
  <1>3a. slips' \subseteq Slips
    BY <1>0, SlipsTyped DEF SendRestore, Restore, LoseRestore, ResendRestore
  <1>4. ASSUME NEW x \in RestoreType, restore' = [restore EXCEPT ![m] = x]
        PROVE  RestoresGoOn
    BY <1>0, <1>1, <1>4 DEF TypeOK, RestoresGoOn
  <1>5. CASE SendRestore(m)
    <2> DEFINE x == [flying |-> 1, rows |-> mover[m].rows, tomb |-> mover[m].tomb,
                     expect |-> IF mover[m].kind = "carry" THEN mover[m].dest ELSE None]
               v == [mover[m] EXCEPT !.pc = "sent", !.rows = {}, !.dest = NoMarker]
    <2>1. restore' = [restore EXCEPT ![m] = x] /\ mover' = [mover EXCEPT ![m] = v] /\ UNCHANGED <<store, left>>
      BY <1>5 DEF SendRestore
    <2>2. x \in RestoreType
      BY <1>3 DEF MoverType, RestoreType
    <2>3. v \in MoverType /\ v.pc = "sent" /\ v.from = mover[m].from /\ v.to = mover[m].to
      BY <1>3 DEF MoverType, Places, NoMarker, Markers, Stamps, Ends
    <2>4. MoversGoOn
      BY <1>0, <1>1, <2>1, <2>3, MoverGoes DEF Waiting
    <2>5. OthersTyped
      BY <1>0, <1>2, <1>3a, <2>1 DEF TypeOK, OthersTyped
    <2> QED  BY <1>0, <1>2, <1>4, <2>1, <2>2, <2>4, <2>5, Unchanged, Kept
  <1>6. CASE Restore(m)
    <2> DEFINE x == Landed(restore[m])
               l == Load(store[mover[m].to], restore[m].rows, m, restore[m].tomb)
    <2>1. restore' = [restore EXCEPT ![m] = x] /\ UNCHANGED left
      BY <1>6 DEF Restore
    <2>2. restore[m].flying \in Nat /\ restore[m].flying > 0
      BY <1>3, <1>6 DEF Restore, RestoreType
    <2>3. restore[m].flying - 1 \in Nat
      BY <2>2
    <2>4. x \in RestoreType
      BY <1>3, <2>3 DEF RestoreType, NoRestore, Landed
    <2>5. l \in StoreType
      BY <1>3, LoadType DEF RestoreType, Stamps
    <2>6. store' \in [Scripts -> StoreType]
      BY <1>0, <1>6, <2>5 DEF Restore, TypeOK
    <2>7. Goto(m, "restored") \/ Goto(m, "failed") \/ UNCHANGED mover
      BY <1>6 DEF Restore
    <2>8. MoversGoOn
      BY <1>0, <1>1, <2>7, GotoGoes, Unchanged DEF Places, Waiting
    <2>9. OthersTyped
      BY <1>0, <1>2, <1>3a, <2>1, <2>6 DEF TypeOK, OthersTyped
    <2> HIDE DEF x
    <2> QED  BY <1>0, <1>2, <1>4, <2>1, <2>4, <2>8, <2>9, Unchanged, Kept
  <1>7. CASE LoseRestore(m)
    <2>1. Goto(m, "failed") /\ UNCHANGED <<restore, store>>
      BY <1>7 DEF LoseRestore
    <2>2. left' \in LeftType
      BY <1>0, <1>7, LeftTyped DEF LoseRestore
    <2>3. MoversGoOn
      BY <1>0, <1>1, <2>1, GotoGoes DEF Places, Waiting
    <2>4. OthersTyped
      BY <1>0, <1>2, <1>3a, <2>1, <2>2 DEF TypeOK, OthersTyped
    <2> QED  BY <1>0, <1>2, <2>1, <2>3, <2>4, Unchanged, Kept
  <1>8. CASE ResendRestore(m)
    <2> DEFINE x == [restore[m] EXCEPT !.flying = @ + 1]
    <2>1. restore' = [restore EXCEPT ![m] = x] /\ UNCHANGED <<mover, store>>
      BY <1>0, <1>8 DEF ResendRestore, TypeOK
    <2>2. left' \in LeftType
      BY <1>0, <1>8, LeftTyped DEF ResendRestore
    <2>3. restore[m].flying + 1 \in Nat
      BY <1>3 DEF RestoreType
    <2>4. x \in RestoreType
      BY <1>3, <2>3 DEF RestoreType
    <2>5. OthersTyped
      BY <1>0, <1>2, <1>3a, <2>1, <2>2 DEF TypeOK, OthersTyped
    <2> HIDE DEF x
    <2> QED  BY <1>0, <1>2, <1>4, <2>1, <2>4, <2>5, Unchanged, Kept
  <1> QED  BY <1>5, <1>6, <1>7, <1>8

\* A bind confirms a move whose entries are all pending and unclaimed, and settles them.
LEMMA BindSteps ==
    ASSUME IInv, NEW m \in Moves, Bind(m) \/ BindUnheard(m)
    PROVE  IInv'
  <1> DEFINE c == [r \in Roles |->
                      IF r = "destination" THEN [copies[m][r] EXCEPT !.state = "done"]
                      ELSE [copies[m][r] EXCEPT
                              !.state = IF mover[m].kind = "adopt" /\ mover[m].marker.stamp # None
                                        THEN "eligible" ELSE "retained",
                              !.stamp = mover[m].marker.stamp, !.rev = mover[m].marker.rev]]
  <1>0. TypeOK
    BY DEF IInv
  <1>1. /\ mover[m].pc \in {"bind", "restored"} /\ Live(m) /\ copies' = [copies EXCEPT ![m] = c]
        /\ confirmed' = confirmed \cup {m} /\ dir' = [dir EXCEPT !.route = mover[m].to]
    BY DEF Bind, BindUnheard, BindReady, BindTakes, At, Confirm
  <1>2. UNCHANGED <<clock, store, restore, req, owed, sweeper, eraser, reaper>>
    BY DEF Bind, BindUnheard, users, jobs
  <1>3. mover[m] \in MoverType /\ mover[m].to \in Scripts
    BY <1>1, Parts
  <1>4. \A r \in Roles : copies[m][r] \in EntryType /\ copies[m][r].owner = None
    <2> SUFFICES ASSUME NEW r \in Roles
                 PROVE  copies[m][r] \in EntryType /\ copies[m][r].owner = None
      OBVIOUS
    <2> HIDE DEF c
    <2>1. copies[m][r] \in EntryType
      BY <1>0 DEF TypeOK
    <2>2. CASE copies[m][r].state = "none"
      BY <2>1, <2>2 DEF IInv, Begun
    <2>3. CASE copies[m][r].state # "none"
      <3>1. Live(m)
        BY <1>1
      <3> QED  BY <2>1, <2>3, <3>1 DEF Live
    <2> QED  BY <2>2, <2>3
  <1>5. \A r \in Roles : /\ c[r] \in EntryType /\ c[r].owner = None
                         /\ c[r].state \notin {"none", "pending"}
    <2>1. mover[m].marker.stamp \in Stamps /\ mover[m].marker.rev \in Revs
      BY <1>3 DEF MoverType, Markers, Revs
    <2> DEFINE state == IF mover[m].kind = "adopt" /\ mover[m].marker.stamp # None
                        THEN "eligible" ELSE "retained"
    <2>2. state \in States /\ state \notin {"none", "pending"}
      BY DEF States
    <2> HIDE DEF state
    <2> SUFFICES ASSUME NEW r \in Roles
                 PROVE  /\ c[r] \in EntryType /\ c[r].owner = None
                        /\ c[r].state \notin {"none", "pending"}
      OBVIOUS
    <2>3. CASE r = "destination"
      <3>1. c[r] = [copies[m][r] EXCEPT !.state = "done"]
        BY <2>3
      <3> HIDE DEF c
      <3> QED  BY <1>4, <3>1 DEF EntryType, States
    <2>4. CASE r # "destination"
      <3>1. c[r] = [copies[m][r] EXCEPT !.state = state, !.stamp = mover[m].marker.stamp,
                                        !.rev = mover[m].marker.rev]
        BY <2>4 DEF state
      <3> HIDE DEF c
      <3> QED  BY <1>4, <2>1, <2>2, <3>1 DEF EntryType
    <2> QED  BY <2>3, <2>4
  <1>6. c \in [Roles -> EntryType]
    BY <1>5
  <1> HIDE DEF c
  <1>7. \A n \in Moves : copies'[n] = IF n = m THEN c ELSE copies[n]
    BY <1>0, <1>1 DEF TypeOK
  <1>8. MoversGoOn
    <2>1. Finish(m) \/ \E pc \in {"bound", "failed", "drop"} : Goto(m, pc)
      BY DEF Bind, BindUnheard
    <2> QED  BY <1>0, <1>1, <2>1, FinishGoes, GotoGoes DEF Places, Waiting
  <1>9. left' \in LeftType
    BY <1>0, LeftTyped DEF Bind, BindUnheard, TypeOK
  <1>10. TypeOK'
    <2>0. slips' \subseteq Slips
      BY <1>0, SlipsTyped DEF Bind, BindUnheard
    <2>1. dir' \in DirType
      BY <1>0, <1>1, <1>3 DEF TypeOK, DirType
    <2>2. copies' \in [Moves -> [Roles -> EntryType]]
      BY <1>0, <1>1, <1>6 DEF TypeOK
    <2> QED  BY <1>0, <1>1, <1>2, <1>8, <1>9, <2>0, <2>1, <2>2 DEF TypeOK, MoversGoOn
  <1>11. Begun'
    BY <1>1, <1>2, <1>5, <1>7, <1>8 DEF IInv, Begun, MoversGoOn
  <1>12. PassesDecide'
    <2>1. \A n \in Moves, r \in Roles : copies[n][r].state # "none" => copies'[n][r].state # "none"
      BY <1>5, <1>7
    <2> QED  BY <1>2, <2>1 DEF IInv, PassesDecide, Entry, Entries
  <1>13. ConfirmedIsPast'
    <2> SUFFICES ASSUME NEW n \in confirmed'
                 PROVE  /\ mover'[n].pc \notin {"idle", "source", "destination"}
                        /\ \A r \in Roles : copies'[n][r].state # "pending" /\ copies'[n][r].owner = None
      BY DEF ConfirmedIsPast
    <2>1. n \in Moves
      BY <1>0, <1>1 DEF TypeOK
    <2>2. mover[n].pc \notin {"idle", "source", "destination"}
      BY <1>1 DEF IInv, ConfirmedIsPast
    <2>3. mover'[n].pc \notin {"idle", "source", "destination"}
      BY <1>8, <2>1, <2>2 DEF MoversGoOn
    <2>4. n # m => \A r \in Roles : copies[n][r].state # "pending" /\ copies[n][r].owner = None
      BY <1>1 DEF IInv, ConfirmedIsPast
    <2> QED  BY <1>5, <1>7, <2>1, <2>3, <2>4
  <1>14. KnowsRecarry'
    BY <1>8 DEF IInv, KnowsRecarry, MoversGoOn, Waiting
  <1> QED  BY <1>10, <1>11, <1>12, <1>13, <1>14, SMTT(30) DEF IInv

\* A step that settles entries and takes its mover on, or ends it.
LEMMA SettleSteps ==
    ASSUME IInv, NEW m \in Moves,
           \/ SettleRetained(m) \/ DropRead(m) \/ DropSettle(m) \/ PromoteSource(m)
           \/ FinishDestination(m) \/ SupersedeMove(m)
    PROVE  IInv'
  <1>0. TypeOK
    BY DEF IInv
  <1>1. mover[m].pc # "idle"
    BY DEF SettleRetained, DropRead, DropSettle, PromoteSource, FinishDestination,
           SupersedeMove, At
  <1>2. UNCHANGED <<dir, clock, store, restore, req, owed, sweeper, eraser, reaper, confirmed, slips, left>>
    BY DEF SettleRetained, DropRead, DropSettle, PromoteSource, FinishDestination,
           SupersedeMove, users, jobs
  <1>3. OthersTyped
    BY <1>0, <1>2 DEF TypeOK, OthersTyped
  <1>4. mover[m] \in MoverType
    BY Parts
  <1>5. SettlesOnly
    <2>1. \A s, d \in States \ {"none", "pending"} : SettleBoth(m, s, d) => SettlesOnly
      BY <1>0, SettleTwo
    <2>2. mover[m].marker.stamp \in Stamps /\ mover[m].marker.rev \in Revs
      BY <1>4 DEF MoverType, Markers, Revs
    <2>3. CASE SettleRetained(m)
      BY <2>1, <2>3 DEF SettleRetained, States
    <2>4. CASE DropRead(m)
      BY <1>0, <2>1, <2>4, Unchanged DEF DropRead, States
    <2>5. CASE DropSettle(m)
      BY <2>1, <2>5 DEF DropSettle, States
    <2>6. CASE PromoteSource(m)
      BY <1>0, <2>2, <2>6, SettleOne DEF PromoteSource, States, Roles
    <2>7. CASE FinishDestination(m)
      <3>1. None \in Stamps /\ None \in Revs
        BY DEF Stamps, Ends, Revs
      <3> QED  BY <1>0, <2>7, <3>1, SettleOne, Unchanged DEF FinishDestination, Settle, States, Roles
    <2>8. CASE SupersedeMove(m)
      BY <2>1, <2>8 DEF SupersedeMove, States
    <2> QED  BY <2>3, <2>4, <2>5, <2>6, <2>7, <2>8
  <1>6. MoversGoOn
    <2>1. CASE SettleRetained(m) \/ DropSettle(m) \/ PromoteSource(m) \/ FinishDestination(m)
               \/ SupersedeMove(m)
      <3>1. Finish(m) \/ \E pc \in {"finish", "wipe", "drop"} : Goto(m, pc)
        BY <2>1 DEF SettleRetained, DropSettle, PromoteSource, FinishDestination, SupersedeMove
      <3> QED  BY <1>0, <1>1, <3>1, FinishGoes, GotoGoes DEF Places, Waiting
    <2>2. CASE DropRead(m)
      <3> DEFINE v == [mover[m] EXCEPT !.pc = "dropwipe", !.seen = CurrentRoute]
      <3>1. Finish(m) \/ mover' = [mover EXCEPT ![m] = v]
        BY <1>0, <2>2 DEF DropRead, TypeOK
      <3>2. CurrentRoute \in Moves \cup Ends
        BY <1>0 DEF CurrentRoute, TypeOK, DirType, Ends
      <3>3. v \in MoverType /\ v.pc = "dropwipe" /\ v.from = mover[m].from /\ v.to = mover[m].to
        BY <1>4, <3>2 DEF MoverType, Places
      <3> QED  BY <1>0, <1>1, <3>1, <3>3, FinishGoes, MoverGoes DEF Waiting
    <2> QED  BY <2>1, <2>2
  <1> QED  BY <1>0, <1>2, <1>3, <1>5, <1>6, Unchanged, Kept

\* A step that wipes a store, or takes the kept marker off it.
LEMMA WipeSteps ==
    ASSUME IInv, NEW m \in Moves,
           DropWipe(m) \/ ReleaseIfLive(m) \/ WipeSource(m) \/ SettleSource(m)
    PROVE  IInv'
  <1>0. TypeOK
    BY DEF IInv
  <1>1. mover[m].pc # "idle"
    BY DEF DropWipe, ReleaseIfLive, WipeSource, SettleSource, At
  <1>2. UNCHANGED <<dir, clock, restore, req, owed, sweeper, eraser, reaper, confirmed, slips, left>>
    BY DEF DropWipe, ReleaseIfLive, WipeSource, SettleSource, users, jobs
  <1>3. /\ mover[m] \in MoverType /\ mover[m].from \in Scripts /\ mover[m].to \in Scripts
        /\ store[mover[m].from] \in StoreType /\ store[mover[m].to] \in StoreType
    BY <1>1, Parts
  <1>4. ASSUME NEW s \in Scripts, store' = Released(s) \/ \E a, b, c : store' = [store EXCEPT ![s] = Wipe(@, a, b, c)]
        PROVE  store' \in [Scripts -> StoreType]
    <2>1. store[s] \in StoreType
      BY <1>0 DEF TypeOK
    <2>2. Write(store[s], store[s].rows) \in StoreType
      BY <2>1, WriteType DEF StoreType
    <2>3. [Write(store[s], store[s].rows) EXCEPT !.kept = FALSE] \in StoreType
      BY <2>2 DEF StoreType
    <2>4. Released(s) \in [Scripts -> StoreType]
      BY <1>0, <2>3 DEF Released, TypeOK
    <2>5. \A a, b, c : [store EXCEPT ![s] = Wipe(@, a, b, c)] \in [Scripts -> StoreType]
      BY <1>0, <2>1, WipeType DEF TypeOK
    <2> QED  BY <1>4, <2>4, <2>5
  <1>5. store' \in [Scripts -> StoreType]
    <2>1. CASE DropWipe(m)
      BY <1>3, <1>4, <2>1 DEF DropWipe
    <2>2. CASE ReleaseIfLive(m)
      BY <1>3, <1>4, <2>2 DEF ReleaseIfLive
    <2>3. CASE WipeSource(m)
      BY <1>3, <1>4, <2>3 DEF WipeSource
    <2>4. CASE SettleSource(m)
      BY <1>0, <1>3, <1>4, <2>4 DEF SettleSource, TypeOK
    <2> QED  BY <2>1, <2>2, <2>3, <2>4
  <1>6. SettlesOnly
    <2>1. mover[m].marker.stamp \in Stamps /\ mover[m].marker.rev \in Revs
      BY <1>3 DEF MoverType, Markers, Revs
    <2>2. CASE SettleSource(m)
      BY <1>0, <2>1, <2>2, SettleOne, Unchanged DEF SettleSource, States, Roles
    <2>3. CASE ~SettleSource(m)
      BY <1>0, <2>3, Unchanged DEF DropWipe, ReleaseIfLive, WipeSource
    <2> QED  BY <2>2, <2>3
  <1>7. MoversGoOn
    <2>1. \E pc \in {"dropped", "undropped", "wiped?", "wiped", "unwiped", "finish"} : Goto(m, pc)
      BY DEF DropWipe, ReleaseIfLive, WipeSource, SettleSource
    <2> QED  BY <1>0, <1>1, <2>1, GotoGoes DEF Places, Waiting
  <1>8. OthersTyped
    BY <1>0, <1>2, <1>5 DEF TypeOK, OthersTyped
  <1> QED  BY <1>0, <1>2, <1>6, <1>7, <1>8, Unchanged, Kept

\* The move that carried the source again ends with the carry's settlement of its entry.
LEMMA SettleRecarryStep ==
    ASSUME IInv, NEW m \in Moves, SettleRecarry(m)
    PROVE  IInv'
  <1> DEFINE n  == mover[m].seen
             pc == IF mover[n].pc = "restored" /\ ~store[mover[m].to].tomb THEN "promote" ELSE "finish"
             v  == [mover[m] EXCEPT !.pc = pc, !.seen = None]
  <1>0. TypeOK
    BY DEF IInv
  <1>1. mover[m].pc = "recarrying" /\ mover[n].pc \in {"restored", "failed"} /\ n # m
    BY DEF SettleRecarry, At
  <1>2. n \in Moves
    BY <1>1 DEF IInv, KnowsRecarry
  <1>3. UNCHANGED <<dir, clock, store, restore, req, owed, sweeper, eraser, reaper, confirmed, left>>
    BY DEF SettleRecarry, users, jobs
  <1>4. SettlesOnly
    <2>1. None \in Stamps /\ None \in Revs
      BY DEF Stamps, Ends, Revs
    <2> QED  BY <1>0, <1>2, <2>1, SettleOne DEF SettleRecarry, Settle, States, Roles
  <1>5. mover[m] \in MoverType /\ mover[n] \in MoverType
    BY <1>0, <1>2 DEF TypeOK
  <1>6. v \in MoverType /\ v.pc \in {"promote", "finish"} /\ v.from = mover[m].from /\ v.to = mover[m].to
    <2>1. pc \in {"promote", "finish"}
      OBVIOUS
    <2> HIDE DEF pc
    <2> QED  BY <1>5, <2>1 DEF MoverType, Places, Stamps, Ends
  <1>7. mover' = [mover EXCEPT ![m] = v, ![n] = Over(mover[n])]
    BY <1>0, <1>1, <1>2 DEF SettleRecarry, At, TypeOK
  <1> HIDE DEF v
  <1>8. \A k \in Moves : mover'[k] = IF k = n THEN Over(mover[n]) ELSE IF k = m THEN v ELSE mover[k]
    BY <1>0, <1>1, <1>2, <1>7 DEF TypeOK
  <1>9. mover' \in [Moves -> MoverType]
    BY <1>0, <1>5, <1>6, <1>7, OverType DEF TypeOK
  <1>10. MoversGoOn
    BY <1>1, <1>5, <1>6, <1>8, <1>9, OverType DEF MoversGoOn, Waiting
  <1>11. OthersTyped
    BY <1>0, <1>3, SlipsTyped DEF TypeOK, OthersTyped, SettleRecarry
  <1> QED  BY <1>0, <1>3, <1>4, <1>10, <1>11, Unchanged, Kept

\* A request that dies takes the move it waits for with it.
LEMMA DieStep ==
    ASSUME IInv, NEW m \in Moves, Die(m)
    PROVE  IInv'
  <1>0. TypeOK
    BY DEF IInv
  <1>1. UNCHANGED <<dir, copies, clock, store, restore, req, owed, sweeper, eraser, reaper,
                    confirmed, slips, left>>
    BY DEF Die, users, jobs
  <1>2. \A n \in Moves : \/ mover'[n] = mover[n]
                         \/ mover'[n] = Over(mover[n]) /\ mover[n].pc # "idle"
    BY DEF Die, At, IInv, KnowsRecarry
  <1>3. \A n \in Moves : mover[n] \in MoverType
    BY <1>0 DEF TypeOK
  <1>4. mover' \in [Moves -> MoverType]
    BY <1>3, OverType DEF Die
  <1>5. MoversGoOn
    BY <1>2, <1>3, <1>4, OverType DEF MoversGoOn, Waiting
  <1>6. OthersTyped
    BY <1>0, <1>1 DEF TypeOK, OthersTyped
  <1> QED  BY <1>0, <1>1, <1>5, <1>6, Unchanged, Kept


-----------------------------------------------------------------------------
(* The sweep. *)

PassesTyped ==
    /\ sweeper' \in [Sweepers -> PassType]
    /\ \A w \in Sweepers :
          /\ sweeper'[w].pc # "idle" => /\ sweeper'[w].entry \in Entries
                                       /\ Entry(sweeper'[w].entry).state # "none"
          /\ sweeper'[w].pc \in {"settle", "record"} =>
                sweeper'[w].verdict \in {"done", "retained", "kept"}

\* A step of a pass keeps the invariant when it claims no entry of a confirmed move.
LEMMA SweepKept ==
    ASSUME IInv, PassesTyped, OthersTyped, copies' \in [Moves -> [Roles -> EntryType]],
           \A n \in Moves, r \in Roles :
              /\ copies'[n][r].state = "none" <=> copies[n][r].state = "none"
              /\ copies'[n][r].state = "pending" => copies[n][r].state = "pending"
              /\ copies'[n][r].owner # copies[n][r].owner => copies[n][r].state = "pending",
           UNCHANGED <<mover, restore, confirmed>>
    PROVE  IInv'
  <1>1. TypeOK'
    BY DEF IInv, TypeOK, PassesTyped, OthersTyped
  <1>2. Begun'
    BY DEF IInv, Begun
  <1>3. PassesDecide'
    <2> SUFFICES ASSUME NEW w \in Sweepers
                 PROVE  /\ sweeper'[w].pc # "idle" => /\ sweeper'[w].entry \in Entries
                                                     /\ Entry(sweeper[w].entry)'.state # "none"
                        /\ sweeper'[w].pc \in {"settle", "record"} =>
                              sweeper'[w].verdict \in {"done", "retained", "kept"}
      BY DEF PassesDecide, Entry
    <2>1. sweeper'[w].pc # "idle" => /\ sweeper'[w].entry[1] \in Moves /\ sweeper'[w].entry[2] \in Roles
                                     /\ copies[sweeper'[w].entry[1]][sweeper'[w].entry[2]].state # "none"
      BY DEF PassesTyped, Entries, Entry
    <2>2. sweeper'[w].pc # "idle" => Entry(sweeper[w].entry)'.state # "none"
      BY <2>1 DEF Entry
    <2> QED  BY <2>2 DEF PassesTyped
  <1>4. ConfirmedIsPast'
    <2> SUFFICES ASSUME NEW m \in confirmed, NEW r \in Roles
                 PROVE  /\ mover[m].pc \notin {"idle", "source", "destination"}
                        /\ copies'[m][r].state # "pending" /\ copies'[m][r].owner = None
      BY DEF ConfirmedIsPast, Roles
    <2>1. m \in Moves
      BY DEF IInv, TypeOK
    <2>2. copies[m][r].state # "pending" /\ copies[m][r].owner = None
      BY DEF IInv, ConfirmedIsPast
    <2> QED  BY <2>1, <2>2 DEF IInv, ConfirmedIsPast
  <1>5. KnowsRecarry'
    BY DEF IInv, KnowsRecarry
  <1> QED  BY <1>1, <1>2, <1>3, <1>4, <1>5 DEF IInv

\* One pass going on with a value of its type.
LEMMA PassGoes ==
    ASSUME IInv, NEW w \in Sweepers, NEW v \in PassType, sweeper' = [sweeper EXCEPT ![w] = v],
           v.pc # "idle" => v.entry \in Entries /\ Entry(v.entry).state # "none",
           v.pc \in {"settle", "record"} => v.verdict \in {"done", "retained", "kept"}
    PROVE  PassesTyped
  <1>1. \A u \in Sweepers : sweeper'[u] = IF u = w THEN v ELSE sweeper[u]
    BY DEF IInv, TypeOK
  <1>2. sweeper' \in [Sweepers -> PassType]
    BY DEF IInv, TypeOK
  <1> QED  BY <1>1, <1>2 DEF IInv, PassesDecide, PassesTyped

\* What a pass works on.
LEMMA PassParts ==
    ASSUME IInv, NEW w \in Sweepers, sweeper[w].pc # "idle"
    PROVE  /\ sweeper[w] \in PassType
           /\ sweeper[w].entry \in Entries
           /\ sweeper[w].entry[1] \in Moves /\ sweeper[w].entry[2] \in Roles
           /\ Entry(sweeper[w].entry).state # "none"
           /\ Entry(sweeper[w].entry) \in EntryType
           /\ mover[sweeper[w].entry[1]].pc # "idle"
           /\ \A r \in Roles : Script(sweeper[w].entry[1], r) \in Scripts
  <1>1. sweeper[w] \in PassType
    BY DEF IInv, TypeOK
  <1>2. sweeper[w].entry \in Entries /\ Entry(sweeper[w].entry).state # "none"
    BY DEF IInv, PassesDecide
  <1>3. sweeper[w].entry[1] \in Moves /\ sweeper[w].entry[2] \in Roles
    BY <1>2 DEF Entries
  <1>4. Entry(sweeper[w].entry) \in EntryType
    BY <1>3 DEF Entry, IInv, TypeOK
  <1>5. mover[sweeper[w].entry[1]].pc # "idle"
    BY <1>2, <1>3 DEF IInv, Begun, Entry
  <1> QED  BY <1>1, <1>2, <1>3, <1>4, <1>5 DEF IInv, Begun, Script

\* A pass that is over has a value of its type.
LEMMA NoPassType == NoPass \in PassType /\ NoPass.pc = "idle"
  BY DEF NoPass, PassType, Stamps, Ends, Revs

\* An expired entry is pending, so no bind landed on its move: a pass may claim it.
LEMMA ClaimStep ==
    ASSUME IInv, NEW w \in Sweepers, NEW e \in Entries, ClaimExpired(w, e)
    PROVE  IInv'
  <1> DEFINE v == [NoPass EXCEPT !.pc = "expired", !.entry = e, !.stamp = Entry(e).stamp]
  <1>0. TypeOK
    BY DEF IInv
  <1>1. UNCHANGED <<dir, clock, store, mover, restore, req, owed, eraser, reaper, confirmed, slips, left>>
    BY DEF ClaimExpired, users
  <1>2. OthersTyped
    BY <1>0, <1>1 DEF TypeOK, OthersTyped
  <1>3. e[1] \in Moves /\ e[2] \in Roles /\ Entry(e) \in EntryType
    BY <1>0 DEF Entries, Entry, TypeOK
  <1>4. Entry(e).state = "pending" /\ Entry(e) = copies[e[1]][e[2]]
    BY DEF ClaimExpired, Entry
  <1>5. v \in PassType /\ v.entry = e /\ v.pc = "expired"
    BY <1>3 DEF NoPass, PassType, EntryType, Stamps, Ends, Revs
  <1>6. PassesTyped
    BY <1>4, <1>5, PassGoes DEF ClaimExpired
  <1>7. copies' = [copies EXCEPT ![e[1]][e[2]] = [copies[e[1]][e[2]] EXCEPT !.owner = w]]
    BY <1>0, <1>3 DEF ClaimExpired, TypeOK
  <1>8. [copies[e[1]][e[2]] EXCEPT !.owner = w] \in EntryType
    BY <1>3, <1>4 DEF EntryType
  <1>9. copies' \in [Moves -> [Roles -> EntryType]]
    BY <1>0, <1>7, <1>8 DEF TypeOK
  <1>10. \A n \in Moves, r \in Roles :
            copies'[n][r] = IF n = e[1] /\ r = e[2] THEN [copies[e[1]][e[2]] EXCEPT !.owner = w]
                                                    ELSE copies[n][r]
    BY <1>0, <1>3, <1>7 DEF TypeOK
  <1>11. [copies[e[1]][e[2]] EXCEPT !.owner = w].state = "pending"
    BY <1>3, <1>4 DEF EntryType
  <1> QED  BY <1>1, <1>2, <1>4, <1>6, <1>9, <1>10, <1>11, SweepKept

\* A pass that only reads the route, wipes a store, picks a source or stops.
LEMMA PassSteps ==
    ASSUME IInv, NEW w \in Sweepers,
           \/ SettledState(w) \/ WipeExpired(w) \/ RetryRead(w) \/ RetryWipe(w) \/ PassDies(w)
           \/ \E m \in Moves : PickEligible(w, m)
    PROVE  IInv'
  <1>0. TypeOK
    BY SMTT(30) DEF IInv
  <1>1. UNCHANGED <<dir, copies, clock, mover, restore, req, owed, eraser, reaper, confirmed, slips>>
    BY DEF SettledState, WipeExpired, RetryRead, RetryWipe, PassDies, PickEligible, users
  <1>2. left' \in LeftType
    BY <1>0, LeftTyped DEF SettledState, WipeExpired, RetryRead, RetryWipe, PassDies, PickEligible, TypeOK
  <1>3. ASSUME NEW s \in Scripts, NEW a, NEW b, NEW c
        PROVE  [store EXCEPT ![s] = Wipe(store[s], a, b, c)] \in [Scripts -> StoreType]
    <2>1. Wipe(store[s], a, b, c) \in StoreType
      BY <1>0, WipeType DEF TypeOK
    <2> QED  BY <1>0, <2>1 DEF TypeOK
  <1>4. store' \in [Scripts -> StoreType]
    <2>1. CASE WipeExpired(w) \/ RetryWipe(w)
      <3>1. \A r \in Roles : Script(sweeper[w].entry[1], r) \in Scripts
        BY <2>1, PassParts DEF WipeExpired, RetryWipe
      <3>2. Script(sweeper[w].entry[1], "source") \in Scripts /\ Script(sweeper[w].entry[1], "destination") \in Scripts
        BY <3>1 DEF Roles
      <3>3. CASE WipeExpired(w)
        BY <1>3, <3>2, <3>3 DEF WipeExpired
      <3>4. CASE RetryWipe(w)
        BY <1>3, <3>2, <3>4 DEF RetryWipe
      <3> QED  BY <2>1, <3>3, <3>4
    <2>2. CASE ~(WipeExpired(w) \/ RetryWipe(w))
      BY <1>0, <2>2 DEF SettledState, RetryRead, PassDies, PickEligible, TypeOK
    <2> QED  BY <2>1, <2>2
  <1>5. OthersTyped
    BY <1>0, <1>1, <1>2, <1>4 DEF TypeOK, OthersTyped
  <1>6. ASSUME NEW pc \in {"settle", "wipe", "retry", "record"}, NEW verdict \in {"done", "retained", "kept", None},
               pc \in {"settle", "record"} => verdict \in {"done", "retained", "kept"},
               Pass(w, pc, verdict), sweeper[w].pc # "idle"
        PROVE  PassesTyped
    <2> DEFINE v == [sweeper[w] EXCEPT !.pc = pc, !.verdict = verdict]
    <2>1. sweeper' = [sweeper EXCEPT ![w] = v]
      BY <1>0, <1>6 DEF Pass, TypeOK
    <2>2. /\ sweeper[w] \in PassType
          /\ sweeper[w].entry \in Entries /\ Entry(sweeper[w].entry).state # "none"
      BY <1>6, PassParts
    <2>3. v \in PassType /\ v.pc = pc /\ v.verdict = verdict /\ v.entry = sweeper[w].entry
      BY <2>2 DEF PassType, States
    <2> HIDE DEF v
    <2>4. pc \in {"settle", "record"} => verdict \in {"done", "retained", "kept"}
      BY <1>6
    <2> QED  BY <2>1, <2>2, <2>3, <2>4, PassGoes
  <1>7. PassesTyped
    <2>1. CASE sweeper' = [sweeper EXCEPT ![w] = NoPass]
      BY <2>1, NoPassType, PassGoes
    <2>2. CASE \E m \in Moves : PickEligible(w, m)
      <3> PICK m \in Moves : PickEligible(w, m)
        BY <2>2
      <3> DEFINE v == [NoPass EXCEPT !.pc = "eligible", !.entry = <<m, "source">>,
                          !.stamp = copies[m]["source"].stamp, !.rev = copies[m]["source"].rev]
      <3>1. copies[m]["source"] \in EntryType
        BY <1>0 DEF TypeOK, Roles
      <3>2. <<m, "source">> \in Entries /\ Entry(<<m, "source">>).state # "none"
        BY DEF PickEligible, Entries, Roles, Entry
      <3>3. v \in PassType /\ v.entry = <<m, "source">> /\ v.pc = "eligible"
        BY <3>1, <3>2 DEF NoPass, PassType, EntryType
      <3> QED  BY <3>2, <3>3, PassGoes DEF PickEligible
    <2>3. CASE \E pc \in {"settle", "record"}, verdict \in {"done", "retained", "kept"} :
                  Pass(w, pc, verdict) /\ sweeper[w].pc # "idle"
      BY <1>6, <2>3
    <2>4. CASE \E pc \in {"wipe", "retry"} : Pass(w, pc, None) /\ sweeper[w].pc # "idle"
      BY <1>6, <2>4
    <2> QED  BY <2>1, <2>2, <2>3, <2>4 DEF SettledState, WipeExpired, RetryRead, RetryWipe, PassDies
  <1>8. copies' \in [Moves -> [Roles -> EntryType]]
    BY <1>0, <1>1 DEF TypeOK
  <1> QED  BY <1>1, <1>5, <1>7, <1>8, SweepKept

\* A pass records what it decided, and is over.
LEMMA PassSettles ==
    ASSUME IInv, NEW w \in Sweepers, SettleExpired(w) \/ RetrySettle(w)
    PROVE  IInv'
  <1>0. TypeOK
    BY DEF IInv
  <1>1. UNCHANGED <<dir, clock, store, mover, restore, req, owed, eraser, reaper, confirmed, slips, left>>
    BY DEF SettleExpired, RetrySettle, users
  <1>2. OthersTyped
    BY <1>0, <1>1 DEF TypeOK, OthersTyped
  <1>3. PassesTyped
    BY NoPassType, PassGoes DEF SettleExpired, RetrySettle
  <1>4. /\ sweeper[w].entry[1] \in Moves /\ sweeper[w].entry[2] \in Roles
        /\ sweeper[w].stamp \in Stamps /\ sweeper[w].rev \in Revs
    BY PassParts DEF SettleExpired, RetrySettle, PassType
  <1>5. sweeper[w].verdict \in States \ {"none", "pending"}
    BY DEF SettleExpired, RetrySettle, IInv, PassesDecide, States
  <1>6. None \in Stamps /\ None \in Revs
    BY DEF Stamps, Ends, Revs
  <1>7. SettlesOnly
    BY <1>0, <1>4, <1>5, <1>6, SettleOne, Unchanged DEF SettleExpired, RetrySettle
  <1> QED  BY <1>1, <1>2, <1>3, <1>7, SweepKept DEF SettlesOnly


-----------------------------------------------------------------------------
(* Erasure, reap and the users. *)

\* The ledger's entries are finitely many, and name only scripts.
LEMMA LedgerCounts ==
    ASSUME IInv
    PROVE  Cardinality(Recorded) \in Nat /\ NamedScripts \subseteq Scripts
  <1>1. IsFiniteSet(Roles)
    <2>1. IsFiniteSet({"source"}) /\ {"source"} \cup {"destination"} = Roles
      BY FS_Singleton DEF Roles
    <2> QED  BY <2>1, FS_AddElement
  <1>2. IsFiniteSet(Moves)
    BY ScopeCopyAssumption DEF Moves
  <1>3. IsFiniteSet(Entries)
    BY <1>1, <1>2, FS_Product DEF Entries
  <1>4. Recorded \in SUBSET Entries
    BY DEF Recorded
  <1>5. Cardinality(Recorded) \in Nat
    BY <1>3, <1>4, FS_Subset, FS_CardinalityType
  <1>6. ASSUME NEW e \in NotDone
        PROVE  Script(e[1], e[2]) \in Scripts
    <2>1. e[1] \in Moves /\ e[2] \in Roles /\ copies[e[1]][e[2]].state # "none"
      BY DEF NotDone, Entries, Entry
    <2>2. mover[e[1]].pc # "idle"
      BY <2>1 DEF IInv, Begun
    <2> QED  BY <2>1, <2>2 DEF IInv, Begun, Script
  <1> QED  BY <1>5, <1>6 DEF NamedScripts

\* A step of the erasure, the reap or a user that leaves the ledger, the moves and the passes alone.
LEMMA OtherKept ==
    ASSUME IInv, OthersTyped, UNCHANGED <<copies, mover, restore, sweeper, confirmed>>
    PROVE  IInv'
  <1>1. TypeOK
    BY DEF IInv
  <1> QED  BY <1>1, Unchanged, Kept

\* A step of the erasure counts and names what the ledger holds, redacts or claims; it moves nothing.
LEMMA EraseSteps ==
    ASSUME IInv, Erase
    PROVE  IInv'
  <1>0. TypeOK
    BY DEF IInv
  <1>1. UNCHANGED <<copies, clock, mover, restore, req, sweeper, reaper, confirmed, slips>>
    BY DEF Erase, EraseBegin, EraseList, EraseRedact, EraseClaim, users
  <1>2. NoErasure \in EraserType
    BY DEF NoErasure, EraserType, Ends
  <1>3. /\ dir.route \in Scripts /\ dir.epoch \in Nat
        /\ eraser.route \in Ends /\ eraser.refs \in SUBSET Scripts /\ eraser \in EraserType
    BY <1>0 DEF TypeOK, DirType, EraserType
  <1>4. CASE EraseBegin
    <2>1. eraser' \in EraserType
      BY <1>3, <1>4 DEF EraseBegin, NoErasure, EraserType, Ends
    <2>2. OthersTyped
      BY <1>0, <1>1, <1>4, <2>1, LeftTyped DEF EraseBegin, TypeOK, OthersTyped, users
    <2> QED  BY <1>1, <2>2, OtherKept
  <1>5. CASE EraseList
    <2>1. eraser.pc = "list"
      BY <1>5 DEF EraseList
    <2>2. eraser' \in EraserType
      <3>1. NamedScripts \cup {eraser.route} \in SUBSET Scripts /\ Cardinality(Recorded) \in Nat
        BY <1>3, <2>1, LedgerCounts DEF EraserType
      <3> QED  BY <1>2, <1>3, <1>5, <3>1 DEF EraseList, EraserType
    <2>3. OthersTyped
      BY <1>0, <1>1, <1>5, <2>2 DEF EraseList, TypeOK, OthersTyped, users
    <2> QED  BY <1>1, <2>3, OtherKept
  <1>6. CASE \E s \in Scripts : EraseRedact(s)
    <2> PICK s \in Scripts : EraseRedact(s)
      BY <1>6
    <2>1. Write(store[s], store[s].rows \ {Person}) \in StoreType
      BY <1>0, WriteType DEF TypeOK, StoreType
    <2>2. store' \in [Scripts -> StoreType] /\ owed' \subseteq Rows
      BY <1>0, <2>1 DEF EraseRedact, TypeOK
    <2>3. eraser' \in EraserType
      <3>1. [eraser EXCEPT !.refs = eraser.refs \ {s}] \in EraserType
        BY <1>3 DEF EraserType
      <3> QED  BY <1>2, <3>1 DEF EraseRedact
    <2>4. OthersTyped
      BY <1>0, <1>1, <2>2, <2>3 DEF EraseRedact, TypeOK, OthersTyped
    <2> QED  BY <1>1, <2>4, OtherKept
  <1>7. CASE EraseClaim
    <2>0. dir.epoch + 1 \in Nat
      BY <1>3
    <2>1. [dir EXCEPT !.epoch = dir.epoch + 1, !.erased = TRUE] \in DirType
      BY <1>0, <2>0 DEF TypeOK, DirType
    <2>2. dir' \in DirType
      BY <1>0, <1>7, <2>1 DEF EraseClaim, TypeOK
    <2>3. OthersTyped
      BY <1>0, <1>1, <1>2, <1>7, <2>2 DEF EraseClaim, TypeOK, OthersTyped, users
    <2> QED  BY <1>1, <2>3, OtherKept
  <1> QED  BY <1>4, <1>5, <1>6, <1>7 DEF Erase

\* A step of the reap claims, lists, deletes, settles entries done or gives up.
LEMMA ReapSteps ==
    ASSUME IInv, Reap
    PROVE  IInv'
  <1>0. TypeOK
    BY DEF IInv
  <1>1. UNCHANGED <<clock, mover, restore, req, owed, sweeper, eraser, confirmed, slips>>
    BY DEF Reap, ReapClaim, ReapList, ReapRow, ReapFails, ReapDelete, ReapSettle, users
  <1>2. NoReap \in ReaperType /\ dir \in DirType /\ reaper \in ReaperType
    BY <1>0 DEF NoReap, ReaperType, TypeOK
  <1>3. Empty \in StoreType
    BY DEF Empty, StoreType, Stamps, Ends
  <1>4. CASE ReapClaim
    <2>1. dir' \in DirType /\ reaper' \in ReaperType
      BY <1>2, <1>4 DEF ReapClaim, DirType, ReaperType, NoReap
    <2>2. left' \in LeftType
      BY <1>0, <1>4, LeftTyped DEF ReapClaim, TypeOK
    <2>3. OthersTyped
      BY <1>0, <1>1, <1>4, <2>1, <2>2 DEF ReapClaim, TypeOK, OthersTyped
    <2> QED  BY <1>1, <1>4, <2>3, OtherKept DEF ReapClaim
  <1>5. CASE ReapList
    <2>1. NotDone \subseteq Entries
      BY DEF NotDone
    <2>2. NamedScripts \cup {dir.route} \subseteq Scripts
      BY <1>2, LedgerCounts DEF DirType
    <2>3. reaper' \in ReaperType
      BY <1>5, <2>1, <2>2 DEF ReapList, ReaperType
    <2>4. OthersTyped
      BY <1>0, <1>1, <1>5, <2>3 DEF ReapList, TypeOK, OthersTyped
    <2> QED  BY <1>1, <1>5, <2>4, OtherKept DEF ReapList
  <1>6. CASE ReapRow \/ ReapFails
    <2>1. dir' \in DirType
      BY <1>2, <1>6 DEF ReapRow, ReapFails, DirType
    <2>2. OthersTyped
      BY <1>0, <1>1, <1>2, <1>6, <2>1 DEF ReapRow, ReapFails, TypeOK, OthersTyped
    <2> QED  BY <1>1, <1>6, <2>2, OtherKept DEF ReapRow, ReapFails
  <1>7. CASE \E s \in Scripts : ReapDelete(s)
    <2> PICK s \in Scripts : ReapDelete(s)
      BY <1>7
    <2>1. store' \in [Scripts -> StoreType]
      BY <1>0, <1>3 DEF ReapDelete, TypeOK
    <2>2. reaper' \in ReaperType
      BY <1>2 DEF ReapDelete, ReaperType
    <2>3. OthersTyped
      BY <1>0, <1>1, <2>1, <2>2 DEF ReapDelete, TypeOK, OthersTyped
    <2> QED  BY <1>1, <2>3, OtherKept DEF ReapDelete
  <1>8. CASE \E e \in Entries : ReapSettle(e)
    <2> PICK e \in Entries : ReapSettle(e)
      BY <1>8
    <2>1. e[1] \in Moves /\ e[2] \in Roles /\ None \in Stamps /\ None \in Revs
      BY DEF Entries, Stamps, Ends, Revs
    <2>2. SettlesOnly
      BY <1>0, <2>1, SettleOne DEF ReapSettle, Settle, States
    <2>3. reaper' \in ReaperType
      BY <1>2 DEF ReapSettle, ReaperType
    <2>4. OthersTyped
      BY <1>0, <1>1, <2>3 DEF ReapSettle, TypeOK, OthersTyped
    <2> QED  BY <1>0, <1>1, <2>2, <2>4, Unchanged, Kept
  <1> QED  BY <1>4, <1>5, <1>6, <1>7, <1>8 DEF Reap

\* A user request reads the route and writes where it was sent.
LEMMA UserSteps ==
    ASSUME IInv, NEW w \in Writes, UserBegin(w) \/ UserWrite(w)
    PROVE  IInv'
  <1>0. TypeOK
    BY DEF IInv
  <1>1. UNCHANGED <<dir, copies, clock, mover, restore, sweeper, eraser, reaper, confirmed>>
    BY DEF UserBegin, UserWrite, jobs
  <1>a. left' \in LeftType
    BY <1>0, LeftTyped DEF UserBegin, UserWrite, TypeOK
  <1>2. req' \in [Writes -> Ends]
    BY <1>0 DEF UserBegin, UserWrite, TypeOK, DirType, Ends
  <1>3. store' \in [Scripts -> StoreType] /\ owed' \subseteq Rows
    <2>1. CASE UserBegin(w)
      BY <1>0, <2>1 DEF UserBegin, TypeOK
    <2>2. CASE UserWrite(w)
      <3>1. req[w] \in Scripts
        BY <1>0, <2>2 DEF UserWrite, TypeOK, Ends
      <3>2. store[req[w]] \in StoreType /\ w \in Rows
        BY <1>0, <3>1 DEF TypeOK, Rows
      <3>3. Write(store[req[w]], store[req[w]].rows \cup {w}) \in StoreType
        BY <3>2, WriteType DEF StoreType
      <3> QED  BY <1>0, <2>2, <3>2, <3>3 DEF UserWrite, TypeOK
    <2> QED  BY <2>1, <2>2
  <1>4. slips' \subseteq Slips
    <2>1. CASE UserBegin(w)
      BY <1>0, <2>1 DEF UserBegin, TypeOK
    <2>2. CASE UserWrite(w)
      BY <1>0, <2>2, SlipsTyped DEF UserWrite, TypeOK, Ends
    <2> QED  BY <2>1, <2>2
  <1>5. OthersTyped
    BY <1>0, <1>1, <1>a, <1>2, <1>3, <1>4 DEF TypeOK, OthersTyped
  <1> QED  BY <1>1, <1>5, OtherKept


-----------------------------------------------------------------------------
(* The theorems. *)

\* At the start nothing is recorded, moved, claimed or confirmed.
LEMMA InitHolds == Init => IInv
  <1> SUFFICES ASSUME Init PROVE IInv
    OBVIOUS
  <1>1. dir \in DirType
    BY ScopeCopyAssumption DEF Init, DirType
  <1>2. copies \in [Moves -> [Roles -> EntryType]]
    BY DEF Init, EntryType, States, Stamps, Ends, Revs
  <1>3. store \in [Scripts -> StoreType]
    BY DEF Init, Empty, StoreType, Stamps, Ends, Rows
  <1>4. mover \in [Moves -> MoverType]
    BY DEF Init, Idle, NoMarker, MoverType, Places, Markers, Stamps, Ends
  <1>5. restore \in [Moves -> RestoreType]
    BY DEF Init, NoRestore, RestoreType
  <1>6. sweeper \in [Sweepers -> PassType]
    BY NoPassType DEF Init
  <1>7. eraser \in EraserType /\ reaper \in ReaperType
    BY DEF Init, NoErasure, EraserType, Ends, NoReap, ReaperType
  <1>8. left \in LeftType
    BY ScopeCopyAssumption DEF Init, LeftType
  <1>9. TypeOK
    BY <1>1, <1>2, <1>3, <1>4, <1>5, <1>6, <1>7, <1>8 DEF Init, TypeOK, Ends, Rows
  <1>10. Begun /\ KnowsRecarry
    BY DEF Init, Begun, KnowsRecarry, Idle, NoRestore
  <1>11. PassesDecide /\ ConfirmedIsPast
    BY NoPassType DEF Init, PassesDecide, ConfirmedIsPast
  <1> QED  BY <1>9, <1>10, <1>11 DEF IInv

\* Every step keeps the invariant, one lemma for each kind of step.
LEMMA StepKeeps ==
    ASSUME IInv, [Next]_vars
    PROVE  IInv'
  <1>1. ASSUME NEW m \in Moves, Move(m)
        PROVE  IInv'
    <2>1. CASE \E kind \in {"carry", "adopt"}, to \in Scripts : Begin(m, kind, to)
      BY <2>1, BeginStep
    <2>2. CASE \E n \in Recarries : Recarry(m, n)
      BY <2>2, RecarryStep
    <2>2a. CASE \E n \in Recarries : CarryAgain(m, n)
      BY <2>2a, CarryAgainStep
    <2>3. CASE \/ RecordSource(m) \/ RecordDestination(m) \/ Renew(m) \/ Tick(m) \/ Export(m)
               \/ ReadDestination(m) \/ CheckRoute(m) \/ RecheckSource(m) \/ AgainFails(m) \/ BindRefused(m)
               \/ ReadBound(m) \/ CheckTombstone(m)
      BY <2>3, RecordSourceStep, RecordDestinationStep, ClockSteps, ReadSteps, PlaceSteps
    <2>4. CASE \/ SendRestore(m) \/ Restore(m) \/ LoseRestore(m) \/ ResendRestore(m)
               \/ Bind(m) \/ BindUnheard(m)
      BY <2>4, RestoreSteps, BindSteps
    <2>5. CASE \/ SettleRetained(m) \/ DropRead(m) \/ DropSettle(m) \/ PromoteSource(m)
               \/ FinishDestination(m) \/ DropWipe(m) \/ ReleaseIfLive(m) \/ WipeSource(m)
               \/ SettleSource(m) \/ SettleRecarry(m) \/ SupersedeMove(m) \/ Die(m)
      BY <2>5, SettleSteps, WipeSteps, SettleRecarryStep, DieStep
    <2> QED  BY <1>1, <2>1, <2>2, <2>2a, <2>3, <2>4, <2>5 DEF Move
  <1>2. ASSUME NEW w \in Sweepers, Sweep(w) \/ PassDies(w)
        PROVE  IInv'
    BY <1>2, ClaimStep, PassSteps, PassSettles DEF Sweep
  <1>3. CASE Erase \/ Reap
    BY <1>3, EraseSteps, ReapSteps
  <1>4. ASSUME NEW w \in Writes, UserBegin(w) \/ UserWrite(w)
        PROVE  IInv'
    BY <1>4, UserSteps
  <1>5. CASE UNCHANGED vars
    <2>1. UNCHANGED <<dir, copies, clock, store, mover, restore, req, owed, sweeper, eraser,
                      reaper, confirmed, slips, left>>
      BY <1>5 DEF vars, users, jobs
    <2>2. OthersTyped
      BY <2>1 DEF IInv, TypeOK, OthersTyped
    <2> QED  BY <2>1, <2>2, OtherKept
  <1> QED  BY <1>1, <1>2, <1>3, <1>4, <1>5 DEF Next

\* IInv is an invariant of the copies, the moves and the sweep.
LEMMA Invariant == Spec => []IInv
  BY InitHolds, StepKeeps, PTL DEF Spec

\* Whatever interleaves, dies or is lost, the row, the ledger, the stores and the requests of
\* control-plane-api's moves keep their types.
THEOREM TypeCorrect == Spec => []TypeOK
  <1>1. IInv => TypeOK
    BY DEF IInv
  <1> QED  BY <1>1, Invariant, PTL

\* The live predicate of a bind (scope-copy-ledger.ts) and the sweep's claim exclude each other:
\* no pass ever owns an entry of a move whose bind landed.
THEOREM BindOrSweep == Spec => []OneActs
  <1>1. IInv => OneActs
    BY DEF IInv, ConfirmedIsPast, OneActs
  <1> QED  BY <1>1, Invariant, PTL
=============================================================================
