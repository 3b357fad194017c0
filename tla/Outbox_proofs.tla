---------------------------- MODULE Outbox_proofs ----------------------------
(***************************************************************************)
(* The order of a scope's events, what its prune may remove and what a     *)
(* mirror may miss, for every instance of Outbox.                          *)
(***************************************************************************)
EXTENDS Outbox, FiniteSetTheorems, WellFoundedInduction, TLAPS

-----------------------------------------------------------------------------
(* Order.                                                                  *)

LEMMA Least ==
  ASSUME NEW T \in SUBSET Nat, T # {}
  PROVE  \E x \in T : \A y \in T : x <= y
  <1> DEFINE R == OpToRel(<, Nat)
  <1>1. IsWellFoundedOn(R, Nat)
    BY NatLessThanWellFounded
  <1>2. T \subseteq Nat
    OBVIOUS
  <1> HIDE DEF R
  <1>3. PICK x \in T : \A y \in T : ~ (<<y, x>> \in R)
    BY <1>1, <1>2, WFMin
  <1>4. \A y \in T : <<y, x>> \in R <=> y < x
    BY <1>2 DEF R, OpToRel
  <1>5. \A y \in T : ~(y < x)
    BY <1>3, <1>4
  <1>6. \A y \in T : y \in Nat /\ x \in Nat
    BY <1>2
  <1>7. \A y \in T : x <= y
    BY <1>5, <1>6
  <1> QED  BY <1>7

LEMMA Greatest ==
  ASSUME NEW T \in SUBSET Nat, T # {}, NEW b \in Nat, \A t \in T : t <= b
  PROVE  \E x \in T : \A y \in T : y <= x
  <1> DEFINE D == {b - t : t \in T}
  <1>1. \A t \in T : t \in Nat /\ b - t \in Nat
    OBVIOUS
  <1>2. D \in SUBSET Nat
    BY <1>1
  <1>3. D # {}
    OBVIOUS
  <1> HIDE DEF D
  <1>4. PICK d \in D : \A e \in D : d <= e
    BY <1>2, <1>3, Least
  <1>5. PICK x \in T : d = b - x
    BY <1>4 DEF D
  <1>6. \A y \in T : b - y \in D
    BY DEF D
  <1>7. \A y \in T : b - x <= b - y
    BY <1>4, <1>5, <1>6
  <1>8. \A y \in T : y <= x
    BY <1>7, <1>1
  <1> QED  BY <1>8

\* Below is a strict order of the ids.
LEMMA IdOrder ==
  /\ \A e \in Id : ~Below(e, e)
  /\ \A e, f, g \in Id : Below(e, f) /\ Below(f, g) => Below(e, g)
  /\ \A e, f \in Id : Below(e, f) \/ Below(f, e) \/ e = f
  <1>1. \A e \in Id : e[1] \in Nat /\ e[2] \in Int /\ e = <<e[1], e[2]>>
    BY OutboxAssumption DEF Id
  <1>2. \A e \in Id : ~Below(e, e)
    BY <1>1 DEF Below
  <1>3. \A e, f, g \in Id : Below(e, f) /\ Below(f, g) => Below(e, g)
    BY <1>1 DEF Below
  <1>4. \A e, f \in Id : Below(e, f) \/ Below(f, e) \/ e = f
    <2> SUFFICES ASSUME NEW e \in Id, NEW f \in Id, ~Below(e, f), ~Below(f, e)
                 PROVE  e = f
      OBVIOUS
    <2>1. e[1] = f[1] /\ e[2] = f[2]
      BY <1>1 DEF Below
    <2> QED  BY <2>1, <1>1
  <1> QED  BY <1>2, <1>3, <1>4

\* A set of ids no later than some millisecond has a highest one, and Highest is it.
LEMMA HighestIs ==
  ASSUME NEW S \in SUBSET Id, S # {}, NEW b \in Nat, \A s \in S : s[1] <= b
  PROVE  /\ Highest(S) \in S
         /\ \A f \in S : f # Highest(S) => Below(f, Highest(S))
  <1>0. /\ RandMax \in Nat
        /\ \A e \in S : e[1] \in Nat /\ e[2] \in 0..RandMax /\ e = <<e[1], e[2]>>
    BY OutboxAssumption DEF Id
  <1> DEFINE Times == {s[1] : s \in S}
  <1>1. Times \in SUBSET Nat /\ Times # {} /\ \A t \in Times : t <= b
    BY <1>0
  <1> HIDE DEF Times
  <1>2. PICK t \in Times : \A u \in Times : u <= t
    BY <1>1, Greatest
  <1> DEFINE Rands == {s[2] : s \in {q \in S : q[1] = t}}
  <1>3. Rands \in SUBSET Nat /\ Rands # {} /\ \A r \in Rands : r <= RandMax
    BY <1>0, <1>2 DEF Times
  <1> HIDE DEF Rands
  <1>4. PICK r \in Rands : \A u \in Rands : u <= r
    BY <1>0, <1>3, Greatest
  <1>5. PICK e \in S : e[1] = t /\ e[2] = r
    BY <1>4 DEF Rands
  <1>6. ASSUME NEW f \in S \ {e}
        PROVE  Below(f, e)
    <2>1. f[1] <= e[1]
      BY <1>2, <1>5 DEF Times
    <2>2. f[1] = e[1] => f[2] <= e[2]
      BY <1>4, <1>5 DEF Rands
    <2>3. f[1] # e[1] \/ f[2] # e[2]
      BY <1>0
    <2> QED  BY <2>1, <2>2, <2>3, <1>0 DEF Below
  <1>7. \E h \in S : \A f \in S \ {h} : Below(f, h)
    BY <1>6
  <1> QED  BY <1>7 DEF Highest

\* What the first k leave out is above all of them.
LEMMA FirstAreFirst ==
  ASSUME NEW S \in SUBSET Id, IsFiniteSet(S), NEW k \in Nat,
         NEW last \in First(S, k), NEW e \in S, e \notin First(S, k)
  PROVE  Below(last, e)
  <1> DEFINE Under(x) == {f \in S : Below(f, x)}
  <1>1. last \in S /\ Cardinality(Under(last)) < k /\ ~(Cardinality(Under(e)) < k)
    BY DEF First
  <1>2. /\ IsFiniteSet(Under(last)) /\ IsFiniteSet(Under(e))
        /\ Cardinality(Under(last)) \in Nat /\ Cardinality(Under(e)) \in Nat
    BY FS_Subset, FS_CardinalityType
  <1>3. ASSUME Below(e, last)
        PROVE  FALSE
    <2>1. Under(e) \subseteq Under(last)
      BY <1>1, <1>3, IdOrder
    <2>2. Cardinality(Under(e)) <= Cardinality(Under(last))
      BY <1>2, <2>1, FS_Subset
    <2> QED  BY <1>1, <1>2, <2>2
  <1>4. e # last
    OBVIOUS
  <1> QED  BY <1>1, <1>3, <1>4, IdOrder

\* Rows stamped no later than now have a latest one, and Latest is it.
LEMMA LatestIs ==
  ASSUME NEW S \in SUBSET Ids, S # {}, Ids \subseteq Id, now \in Nat,
         NEW b \in Nat, \A e \in Ids : e[1] <= b,
         \A e \in S : outbox[e].stamp \in Nat /\ outbox[e].stamp <= now
  PROVE  Latest(S) \in S
  <1> DEFINE Stamps == {outbox[e].stamp : e \in S}
  <1>1. Stamps \in SUBSET Nat /\ Stamps # {} /\ \A t \in Stamps : t <= now
    OBVIOUS
  <1> HIDE DEF Stamps
  <1>2. PICK t \in Stamps : \A u \in Stamps : u <= t
    BY <1>1, Greatest
  <1> DEFINE Last == {e \in S : outbox[e].stamp = t}
  <1>3. Last \in SUBSET Id /\ Last # {} /\ \A e \in Last : e[1] <= b
    BY <1>2 DEF Stamps
  <1> DEFINE h == Highest(Last)
  <1> HIDE DEF Last
  <1>4. h \in Last /\ \A f \in Last : f # h => Below(f, h)
    BY <1>3, HighestIs
  <1> HIDE DEF h
  <1>5. h \in S /\ outbox[h].stamp = t
    BY <1>4 DEF Last
  <1>6. ASSUME NEW f \in S \ {h}
        PROVE  Precedes(f, h)
    <2>1. outbox[f].stamp <= t /\ outbox[f].stamp \in Nat /\ t \in Nat
      BY <1>1, <1>2 DEF Stamps
    <2>2. CASE outbox[f].stamp = t
      <3>1. Below(f, h)
        BY <2>2, <1>4 DEF Last
      <3> QED  BY <3>1, <2>2, <1>5 DEF Precedes
    <2>3. CASE outbox[f].stamp # t
      BY <2>1, <2>3, <1>5 DEF Precedes
    <2> QED  BY <2>2, <2>3
  <1>7. \E e \in S : \A f \in S \ {e} : Precedes(f, e)
    BY <1>5, <1>6
  <1> QED  BY <1>7 DEF Latest

-----------------------------------------------------------------------------
(* The inductive invariant.                                                *)

\* The mint is not behind any stored id.
MintAhead == \A f \in Ids : mint # None /\ ~Below(mint, f)

\* The floor is a removed id, and something above it is stored.
FloorHeld ==
    prune.through # None =>
        prune.through \notin Ids /\ \E t \in Ids : Below(prune.through, t)

\* Something is stored at the mirror's position or above it.
MirrorHeld == mirror.id # None => \E t \in Ids : ~Below(t, mirror.id)

\* A stamp is a past instant at which the sink had the row.
StampedIsShipped ==
    /\ \A e \in Ids : outbox[e].stamp # None => outbox[e].stamp <= now /\ e \in shipped
    /\ \A w \in Sweeps : sweep[w].pc = "mark" => sweep[w].batch \subseteq shipped

\* The floor has not gone back since the walk began, and a continuation is of a walk under
\* whose first floor it still stands.
WalkFloor ==
    mirror.id # None =>
        /\ mirror.under # None => mirror.under = mirror.base
        /\ mirror.base # None => prune.through # None /\ ~Below(prune.through, mirror.base)

\* What the walk owes is stored, or at the floor or under it, and then the floor has moved
\* since the walk began or the row was below it all along.
Owed ==
    \A e \in mirror.ahead :
        /\ e \in Ids => outbox[e].entity \in Filter
        /\ e \notin Ids => /\ prune.through # None
                           /\ ~Below(prune.through, e)
                           /\ mirror.base = prune.through => Below(e, mirror.base)

NothingOwed == mirror.id = None => mirror.ahead = {}

IInv ==
    /\ TypeOK
    /\ IsFiniteSet(Ids)
    /\ MintAhead
    /\ FloorHeld
    /\ MirrorHeld
    /\ StampedIsShipped
    /\ WalkFloor
    /\ Owed
    /\ NothingOwed
    /\ WalkSkipsNothing

\* The stored ids are no later than the mint's millisecond, so that HighestIs applies to them.
LEMMA IdsBounded ==
  ASSUME IInv
  PROVE  \E b \in Nat : \A e \in Ids : e[1] <= b
  <1>1. Ids \subseteq Id /\ mint \in Id \cup {None} /\ MintAhead
    BY DEF IInv, TypeOK
  <1>2. CASE Ids = {}
    BY <1>2
  <1>3. CASE Ids # {}
    <2>1. mint \in Id
      BY <1>1, <1>3 DEF MintAhead
    <2>2. mint[1] \in Nat /\ \A e \in Ids : e[1] \in Nat
      BY <1>1, <2>1 DEF Id
    <2>3. \A e \in Ids : e[1] <= mint[1]
      BY <1>1, <2>2 DEF MintAhead, Below
    <2> QED  BY <2>2, <2>3
  <1> QED  BY <1>2, <1>3

\* So every set of stored ids has a highest one.
LEMMA HighestStored ==
  ASSUME IInv, NEW S \in SUBSET Ids, S # {}
  PROVE  /\ Highest(S) \in S
         /\ \A f \in S : f # Highest(S) => Below(f, Highest(S))
  <1>1. S \in SUBSET Id
    BY DEF IInv, TypeOK
  <1>2. PICK b \in Nat : \A e \in Ids : e[1] <= b
    BY IdsBounded
  <1>3. \A e \in S : e[1] <= b
    BY <1>2
  <1> QED  BY <1>1, <1>3, HighestIs

LEMMA InitHolds == Init => IInv
  <1> SUFFICES ASSUME Init PROVE IInv
    OBVIOUS
  <1>1. Ids = {}
    BY DEF Init, Ids
  <1>2. TypeOK
    <2>1. outbox \in [Ids -> RowType]
      BY <1>1 DEF Init, Ids
    <2>2. left \in [mints : Nat, redrains : Nat]
      BY OutboxAssumption DEF Init
    <2> QED  BY <1>1, <2>1, <2>2 DEF Init, TypeOK, NoPrune, NoPass, NoWalk, PassType, MirrorType
  <1>3. IsFiniteSet(Ids)
    BY <1>1, FS_EmptySet
  <1>4. MintAhead /\ FloorHeld /\ MirrorHeld /\ StampedIsShipped
    BY <1>1 DEF Init, MintAhead, FloorHeld, MirrorHeld, StampedIsShipped, NoPrune, NoWalk, NoPass
  <1>5. WalkFloor /\ Owed /\ NothingOwed /\ WalkSkipsNothing
    BY DEF Init, WalkFloor, Owed, NothingOwed, WalkSkipsNothing, NoWalk
  <1> QED  BY <1>2, <1>3, <1>4, <1>5 DEF IInv

\* A step that leaves the mint, the prune and the mirror, and the stored ids with their
\* entities, keeps what is said of them.
LEMMA RowsKept ==
  ASSUME IInv, Ids' = Ids, \A e \in Ids : outbox'[e].entity = outbox[e].entity,
         UNCHANGED <<mint, prune, mirror>>
  PROVE  /\ IsFiniteSet(Ids') /\ MintAhead' /\ FloorHeld' /\ MirrorHeld'
         /\ WalkFloor' /\ Owed' /\ NothingOwed' /\ WalkSkipsNothing'
  <1>1. IsFiniteSet(Ids') /\ MintAhead' /\ FloorHeld' /\ MirrorHeld'
    BY DEF IInv, MintAhead, FloorHeld, MirrorHeld
  <1>2. WalkFloor' /\ NothingOwed' /\ WalkSkipsNothing'
    BY DEF IInv, WalkFloor, NothingOwed, WalkSkipsNothing
  <1>3. Owed'
    BY DEF IInv, Owed
  <1> QED  BY <1>1, <1>2, <1>3

-----------------------------------------------------------------------------
(* The steps.                                                              *)

LEMMA WakeKeeps == IInv /\ Wake => IInv'
  <1> SUFFICES ASSUME IInv, Wake PROVE IInv'
    OBVIOUS
  <1>1. UNCHANGED <<now, outbox, prune, sweep, mirror, shipped, left>> /\ mint' = Seed /\ Ids' = Ids
    BY DEF Wake, Ids
  <1>2. Ids # {} => /\ Highest(Ids) \in Ids
                    /\ \A f \in Ids : f # Highest(Ids) => Below(f, Highest(Ids))
    BY HighestStored
  <1>3. Ids \subseteq Id
    BY DEF IInv, TypeOK
  <1>4. mint' \in Id \cup {None}
    BY <1>1, <1>2, <1>3 DEF Seed
  <1>5. TypeOK'
    BY <1>1, <1>4 DEF IInv, TypeOK, RowType, PassType, MirrorType
  <1>6. MintAhead'
    <2> SUFFICES ASSUME NEW f \in Ids PROVE mint' # None /\ ~Below(mint', f)
      BY <1>1 DEF MintAhead
    <2>1. mint' = Highest(Ids) /\ mint' \in Id /\ f \in Id /\ None \notin Id
      BY <1>1, <1>2, <1>3, OutboxAssumption DEF Seed
    <2>2. f = mint' \/ Below(f, mint')
      BY <1>2, <2>1
    <2> QED  BY <2>1, <2>2, IdOrder
  <1>7. IsFiniteSet(Ids') /\ FloorHeld' /\ MirrorHeld' /\ StampedIsShipped'
    BY <1>1 DEF IInv, FloorHeld, MirrorHeld, StampedIsShipped
  <1>8. WalkFloor' /\ Owed' /\ NothingOwed' /\ WalkSkipsNothing'
    BY <1>1 DEF IInv, WalkFloor, Owed, NothingOwed, WalkSkipsNothing
  <1> QED  BY <1>5, <1>6, <1>7, <1>8 DEF IInv

\* Steps of the sweep that leave the rows.
LEMMA SweepKeeps ==
  ASSUME IInv, NEW w \in Sweeps, ReadUndrained(w) \/ Ship(w) \/ PassFails(w)
  PROVE  IInv'
  <1>1. UNCHANGED <<now, outbox, mint, prune, mirror, left>> /\ Ids' = Ids
    BY DEF ReadUndrained, Ship, PassFails, Ids
  <1>2. Ids \subseteq Id /\ sweep \in [Sweeps -> PassType] /\ shipped \subseteq Id /\ now \in Nat
    BY DEF IInv, TypeOK
  <1>3. /\ sweep' \in [Sweeps -> PassType] /\ shipped' \subseteq Id /\ shipped \subseteq shipped'
        /\ \A v \in Sweeps : sweep'[v].pc = "mark" => sweep'[v].batch \subseteq shipped'
    <2>1. \A v \in Sweeps : sweep[v].pc = "mark" => sweep[v].batch \subseteq shipped
      BY DEF IInv, StampedIsShipped
    <2>2. CASE ReadUndrained(w)
      <3> DEFINE batch == First(Undrained, Budget)
                 pass  == [pc |-> IF batch = {} THEN "prune" ELSE "ship", batch |-> batch,
                           before |-> now - Retention]
      <3>1. batch \subseteq Ids
        BY DEF First, Undrained
      <3>2. sweep' = [sweep EXCEPT ![w] = pass] /\ shipped' = shipped
        BY <2>2 DEF ReadUndrained
      <3> HIDE DEF batch
      <3>3. pass \in PassType /\ pass.pc # "mark"
        BY <1>2, <3>1, OutboxAssumption DEF PassType
      <3> HIDE DEF pass
      <3> QED  BY <1>2, <2>1, <3>2, <3>3
    <2>3. CASE Ship(w)
      <3>1. /\ shipped' = shipped \cup sweep[w].batch
            /\ sweep' = [sweep EXCEPT ![w].pc = "mark"]
        BY <2>3 DEF Ship
      <3>2. sweep[w].batch \subseteq Id
        BY <1>2 DEF PassType
      <3>3. sweep' \in [Sweeps -> PassType]
        BY <1>2, <3>1 DEF PassType
      <3>4. ASSUME NEW v \in Sweeps, sweep'[v].pc = "mark"
            PROVE  sweep'[v].batch \subseteq shipped'
        <4>1. CASE v = w
          BY <4>1, <1>2, <3>1 DEF PassType
        <4>2. CASE v # w
          BY <4>2, <1>2, <2>1, <3>1, <3>4
        <4> QED  BY <4>1, <4>2
      <3> QED  BY <1>2, <3>1, <3>2, <3>3, <3>4
    <2>4. CASE PassFails(w)
      BY <1>2, <2>1, <2>4 DEF PassFails, NoPass, PassType
    <2> QED  BY <2>2, <2>3, <2>4
  <1>4. TypeOK'
    BY <1>1, <1>3 DEF IInv, TypeOK, RowType, MirrorType
  <1>5. StampedIsShipped'
    BY <1>1, <1>3 DEF IInv, StampedIsShipped
  <1> QED  BY <1>1, <1>4, <1>5, RowsKept DEF IInv

\* A delivery journalled, by a consumer's dispatch or by a pass over the executors.
LEMMA JournalKeeps ==
  ASSUME IInv, NEW e,
         Dispatch(e) \/ \E outcome \in {"open", "ok"} : RecordExecutorAttempt(e, outcome)
  PROVE  IInv'
  <1>1. UNCHANGED <<now, mint, prune, sweep, mirror, shipped, left>>
    BY DEF Dispatch, RecordExecutorAttempt
  <1>2. Ids \subseteq Id /\ outbox \in [Ids -> RowType] /\ e \in Ids
    BY DEF IInv, TypeOK, Dispatch, RecordExecutorAttempt
  <1>3. /\ outbox' \in [Ids -> RowType]
        /\ \A f \in Ids : /\ outbox'[f].entity = outbox[f].entity
                          /\ outbox'[f].stamp = outbox[f].stamp
    <2>1. CASE Dispatch(e)
      <3>1. PICK outcome \in {"ok", "dead"} : outbox' = [outbox EXCEPT ![e].consumer = outcome]
        BY <2>1 DEF Dispatch
      <3> QED  BY <1>2, <3>1 DEF RowType
    <2>2. ASSUME NEW outcome \in {"open", "ok"}, RecordExecutorAttempt(e, outcome)
          PROVE  /\ outbox' \in [Ids -> RowType]
                 /\ \A f \in Ids : /\ outbox'[f].entity = outbox[f].entity
                                   /\ outbox'[f].stamp = outbox[f].stamp
      <3>1. outbox' = [outbox EXCEPT ![e].executor = outcome]
        BY <2>2 DEF RecordExecutorAttempt
      <3> QED  BY <1>2, <3>1 DEF RowType
    <2> QED  BY <2>1, <2>2
  <1>4. Ids' = Ids
    BY <1>3 DEF Ids
  <1>5. TypeOK'
    BY <1>1, <1>3, <1>4 DEF IInv, TypeOK, RowType, PassType, MirrorType
  <1>6. StampedIsShipped'
    BY <1>1, <1>3, <1>4 DEF IInv, StampedIsShipped
  <1> QED  BY <1>1, <1>3, <1>4, <1>5, <1>6, RowsKept DEF IInv

\* Drained rows stamped, or reopened.
LEMMA StampKeeps ==
  ASSUME IInv, (\E w \in Sweeps : Mark(w)) \/ (\E before \in 0..now : Redrain(before))
  PROVE  IInv'
  <1>1. UNCHANGED <<now, mint, prune, mirror, shipped>>
    BY DEF Mark, Redrain
  <1>2. /\ Ids \subseteq Id /\ outbox \in [Ids -> RowType] /\ now \in Nat
        /\ sweep \in [Sweeps -> PassType] /\ left \in [mints : Nat, redrains : Nat]
        /\ StampedIsShipped
    BY DEF IInv, TypeOK
  <1> DEFINE Kept ==
        /\ outbox' \in [Ids -> RowType]
        /\ \A f \in Ids : /\ outbox'[f].entity = outbox[f].entity
                          /\ outbox'[f].stamp # None =>
                                outbox'[f].stamp <= now /\ f \in shipped
        /\ sweep' \in [Sweeps -> PassType]
        /\ \A v \in Sweeps : sweep'[v].pc = "mark" => sweep'[v].batch \subseteq shipped
        /\ left' \in [mints : Nat, redrains : Nat]
  <1>3. Kept
    <2>1. ASSUME NEW w \in Sweeps, Mark(w)
          PROVE  Kept
      <3> DEFINE Row(e) == IF e \in sweep[w].batch /\ outbox[e].stamp = None
                           THEN [outbox[e] EXCEPT !.stamp = now] ELSE outbox[e]
      <3>1. /\ outbox' = [e \in Ids |-> Row(e)]
            /\ sweep' = [sweep EXCEPT ![w].pc = "prune", ![w].batch = {}]
            /\ left' = left /\ sweep[w].pc = "mark"
        BY <2>1 DEF Mark
      <3>2. \A f \in Ids : /\ Row(f) \in RowType /\ Row(f).entity = outbox[f].entity
                           /\ Row(f).stamp = outbox[f].stamp
                              \/ (Row(f).stamp = now /\ f \in sweep[w].batch)
        BY <1>2 DEF RowType
      <3> HIDE DEF Row
      <3>3. outbox' \in [Ids -> RowType] /\ \A f \in Ids : outbox'[f] = Row(f)
        <4>1. outbox' = [e \in Ids |-> Row(e)]
          BY <3>1
        <4>2. \A f \in Ids : Row(f) \in RowType
          BY <3>2
        <4> QED  BY <4>1, <4>2, Zenon
      <3>4. sweep[w].batch \subseteq shipped
        BY <1>2, <3>1 DEF StampedIsShipped
      <3>5. \A f \in Ids : outbox'[f].stamp # None => outbox'[f].stamp <= now /\ f \in shipped
        BY <1>2, <3>2, <3>3, <3>4 DEF StampedIsShipped
      <3>6. sweep' \in [Sweeps -> PassType]
        BY <1>2, <3>1 DEF PassType
      <3>7. \A v \in Sweeps : sweep'[v].pc = "mark" => sweep'[v].batch \subseteq shipped
        BY <1>2, <3>1 DEF StampedIsShipped, PassType
      <3> QED  BY <1>2, <3>1, <3>2, <3>3, <3>5, <3>6, <3>7
    <2>2. ASSUME NEW before \in 0..now, Redrain(before)
          PROVE  Kept
      <3> DEFINE batch  == First({e \in Ids : outbox[e].stamp # None /\ outbox[e].stamp < before},
                                 RedrainBatch)
                 Row(e) == IF e \in batch THEN [outbox[e] EXCEPT !.stamp = None] ELSE outbox[e]
      <3>1. /\ outbox' = [e \in Ids |-> Row(e)]
            /\ left.redrains > 0 /\ left' = [left EXCEPT !.redrains = @ - 1]
            /\ sweep' = sweep
        BY <2>2 DEF Redrain
      <3> HIDE DEF batch
      <3>2. \A f \in Ids : /\ Row(f) \in RowType /\ Row(f).entity = outbox[f].entity
                           /\ Row(f).stamp = outbox[f].stamp \/ Row(f).stamp = None
        BY <1>2 DEF RowType
      <3> HIDE DEF Row
      <3>3. outbox' \in [Ids -> RowType] /\ \A f \in Ids : outbox'[f] = Row(f)
        <4>1. outbox' = [e \in Ids |-> Row(e)]
          BY <3>1
        <4>2. \A f \in Ids : Row(f) \in RowType
          BY <3>2
        <4> QED  BY <4>1, <4>2, Zenon
      <3>4. left' \in [mints : Nat, redrains : Nat]
        BY <1>2, <3>1
      <3> QED  BY <1>2, <3>1, <3>2, <3>3, <3>4 DEF StampedIsShipped
    <2> QED  BY <2>1, <2>2
  <1> HIDE DEF Kept
  <1>4. /\ Ids' = Ids
        /\ \A f \in Ids : outbox'[f].entity = outbox[f].entity
        /\ \A f \in Ids : outbox'[f].stamp # None => outbox'[f].stamp <= now /\ f \in shipped
        /\ \A v \in Sweeps : sweep'[v].pc = "mark" => sweep'[v].batch \subseteq shipped
    <2>1. outbox' \in [Ids -> RowType]
      BY <1>3 DEF Kept
    <2>2. Ids' = Ids
      BY <2>1, Zenon DEF Ids
    <2> QED  BY <1>3, <2>2 DEF Kept
  <1>5. TypeOK'
    BY <1>1, <1>3, <1>4 DEF Kept, IInv, TypeOK, RowType, PassType, MirrorType
  <1>6. StampedIsShipped'
    BY <1>1, <1>4 DEF StampedIsShipped
  <1> QED  BY <1>1, <1>4, <1>5, <1>6, RowsKept DEF IInv

LEMMA TickKeeps == IInv /\ Tick => IInv'
  <1> SUFFICES ASSUME IInv, Tick PROVE IInv'
    OBVIOUS
  <1>1. /\ UNCHANGED <<mint, outbox, prune, sweep, mirror, shipped, left>> /\ Ids' = Ids
        /\ now \in Nat /\ now' = now + 1
    BY DEF Tick, Ids, IInv, TypeOK
  <1>2. TypeOK'
    BY <1>1 DEF IInv, TypeOK, RowType, PassType, MirrorType
  <1>3. StampedIsShipped'
    <2>1. \A e \in Ids : outbox[e].stamp # None => outbox[e].stamp \in Nat
      BY DEF IInv, TypeOK, RowType
    <2> QED  BY <1>1, <2>1 DEF IInv, StampedIsShipped
  <1> QED  BY <1>1, <1>2, <1>3, RowsKept DEF IInv

\* What the mint hands out is above the mint, hence above all that is stored, the floor and
\* the mirror's position.
LEMMA MintedAbove ==
  ASSUME IInv, NEW at \in 0..MaxClock, NEW r \in 0..RandMax
  PROVE  /\ Minted(at, r) \in Id
         /\ mint # None => Below(mint, Minted(at, r))
         /\ \A f \in Ids \cup ({mirror.id, prune.through} \ {None}) : Below(f, Minted(at, r))
  <1> DEFINE e == Minted(at, r)
  <1>1. /\ mint \in Id \cup {None} /\ Ids \subseteq Id /\ at \in Nat /\ RandMax \in Nat
        /\ mirror.id \in Id \cup {None} /\ prune.through \in Id \cup {None}
    BY OutboxAssumption DEF IInv, TypeOK, MirrorType
  <1>2. e \in Id
    BY <1>1 DEF Minted, Id
  <1>3. mint # None => Below(mint, e)
    BY <1>1 DEF Minted, Id, Below
  <1> HIDE DEF e
  <1>4. \A f \in Ids : Below(f, e)
    <2> SUFFICES ASSUME NEW f \in Ids PROVE Below(f, e)
      OBVIOUS
    <2>1. mint # None /\ ~Below(mint, f) /\ mint \in Id /\ f \in Id
      BY <1>1 DEF IInv, MintAhead
    <2> QED  BY <1>2, <1>3, <2>1, IdOrder
  <1>5. prune.through # None => Below(prune.through, e)
    <2> SUFFICES ASSUME prune.through # None PROVE Below(prune.through, e)
      OBVIOUS
    <2>1. PICK t \in Ids : Below(prune.through, t)
      BY DEF IInv, FloorHeld
    <2> QED  BY <1>1, <1>2, <1>4, <2>1, IdOrder
  <1>6. mirror.id # None => Below(mirror.id, e)
    <2> SUFFICES ASSUME mirror.id # None PROVE Below(mirror.id, e)
      OBVIOUS
    <2>1. PICK t \in Ids : ~Below(t, mirror.id)
      BY DEF IInv, MirrorHeld
    <2> QED  BY <1>1, <1>2, <1>4, <2>1, IdOrder
  <1> QED  BY <1>2, <1>3, <1>4, <1>5, <1>6 DEF e

LEMMA OperationKeeps ==
  ASSUME IInv, NEW k \in Kinds, NEW at \in 0..MaxClock, NEW r \in 0..RandMax, Operation(k, at, r)
  PROVE  IInv'
  <1> DEFINE e == Minted(at, r)
  <1>1. /\ e \in Id
        /\ mint # None => Below(mint, e)
        /\ \A f \in Ids \cup ({mirror.id, prune.through} \ {None}) : Below(f, e)
    BY MintedAbove
  <1>2. /\ left.mints > 0 /\ left' = [left EXCEPT !.mints = @ - 1] /\ mint' = e
        /\ UNCHANGED <<now, prune, sweep, shipped>>
        /\ \/ /\ outbox' = Insert(e, k)
              /\ mirror' = IF mirror.id # None /\ k[2] \in Filter
                           THEN [mirror EXCEPT !.ahead = @ \cup {e}] ELSE mirror
           \/ UNCHANGED <<outbox, mirror>>
    BY DEF Operation
  <1> HIDE DEF e
  <1>3. /\ mint \in Id \cup {None} /\ Ids \subseteq Id /\ outbox \in [Ids -> RowType]
        /\ mirror \in MirrorType /\ prune.through \in Id \cup {None}
        /\ left \in [mints : Nat, redrains : Nat] /\ None \notin Id
    BY OutboxAssumption DEF IInv, TypeOK
  <1>4. left' \in [mints : Nat, redrains : Nat]
    BY <1>2, <1>3
  <1>5. CASE UNCHANGED <<outbox, mirror>>
    <2>1. Ids' = Ids
      BY <1>5 DEF Ids
    <2>2. TypeOK'
      BY <1>1, <1>2, <1>4, <1>5, <2>1 DEF IInv, TypeOK, RowType, PassType, MirrorType
    <2>3. MintAhead'
      <3> SUFFICES ASSUME NEW f \in Ids PROVE e # None /\ ~Below(e, f)
        BY <1>2, <2>1 DEF MintAhead
      <3> QED  BY <1>1, <1>3, IdOrder
    <2>4. IsFiniteSet(Ids') /\ FloorHeld' /\ MirrorHeld' /\ StampedIsShipped'
      BY <1>2, <1>5, <2>1 DEF IInv, FloorHeld, MirrorHeld, StampedIsShipped
    <2>5. WalkFloor' /\ Owed' /\ NothingOwed' /\ WalkSkipsNothing'
      BY <1>2, <1>5, <2>1 DEF IInv, WalkFloor, Owed, NothingOwed, WalkSkipsNothing
    <2> QED  BY <2>2, <2>3, <2>4, <2>5 DEF IInv
  <1>6. CASE /\ outbox' = Insert(e, k)
             /\ mirror' = IF mirror.id # None /\ k[2] \in Filter
                          THEN [mirror EXCEPT !.ahead = @ \cup {e}] ELSE mirror
    <2>1. e \notin Ids
      BY <1>1, <1>3, IdOrder
    <2>2. Fresh(k) \in RowType /\ Fresh(k).entity = k[2] /\ Fresh(k).stamp = None
      BY DEF Fresh, RowType, Types, Entities
    <2>3. /\ outbox' \in [Ids \cup {e} -> RowType] /\ outbox'[e] = Fresh(k)
          /\ \A f \in Ids : outbox'[f] = outbox[f]
      BY <1>3, <1>6, <2>1, <2>2 DEF Insert
    <2>4. Ids' = Ids \cup {e}
      BY <2>3, Zenon DEF Ids
    <2>5. /\ mirror' \in MirrorType
          /\ mirror'.id = mirror.id /\ mirror'.under = mirror.under /\ mirror'.base = mirror.base
          /\ mirror.ahead \subseteq mirror'.ahead /\ mirror'.ahead \subseteq mirror.ahead \cup {e}
          /\ e \in mirror'.ahead /\ e \notin mirror.ahead => mirror.id # None /\ k[2] \in Filter
      BY <1>1, <1>3, <1>6 DEF MirrorType
    <2>6. TypeOK'
      BY <1>1, <1>2, <1>3, <1>4, <2>3, <2>4, <2>5 DEF IInv, TypeOK, PassType
    <2>7. IsFiniteSet(Ids')
      BY <2>4, FS_AddElement DEF IInv
    <2>8. MintAhead'
      <3> SUFFICES ASSUME NEW f \in Ids \cup {e} PROVE e # None /\ ~Below(e, f)
        BY <1>2, <2>4 DEF MintAhead
      <3> QED  BY <1>1, <1>3, IdOrder
    <2>9. FloorHeld'
      <3>1. prune.through # None => prune.through # e
        BY <1>1, <1>3, IdOrder
      <3> QED  BY <1>2, <2>4, <3>1 DEF IInv, FloorHeld
    <2>10. MirrorHeld'
      BY <2>4, <2>5 DEF IInv, MirrorHeld
    <2>11. StampedIsShipped'
      BY <1>2, <2>2, <2>3, <2>4 DEF IInv, StampedIsShipped
    <2>12. WalkFloor'
      BY <1>2, <2>5 DEF IInv, WalkFloor
    <2>13. NothingOwed'
      <3> SUFFICES ASSUME mirror.id = None PROVE mirror'.ahead = {}
        BY <2>5 DEF NothingOwed
      <3>1. mirror' = mirror
        BY <1>6
      <3> QED  BY <3>1 DEF IInv, NothingOwed
    <2>14. Owed'
      <3> SUFFICES ASSUME NEW f \in mirror'.ahead
                   PROVE  /\ f \in Ids' => outbox'[f].entity \in Filter
                          /\ f \notin Ids' => /\ prune.through # None
                                              /\ ~Below(prune.through, f)
                                              /\ mirror.base = prune.through
                                                    => Below(f, mirror.base)
        BY <1>2, <2>5 DEF Owed
      <3>1. CASE f \in mirror.ahead /\ f # e
        BY <3>1, <2>3, <2>4 DEF IInv, Owed
      <3>2. CASE f = e
        <4>1. e \in mirror.ahead => prune.through # None /\ ~Below(prune.through, e)
          BY <2>1 DEF IInv, Owed
        <4>2. e \notin mirror.ahead
          BY <1>1, <4>1
        <4> QED  BY <3>2, <4>2, <2>2, <2>3, <2>4, <2>5
      <3> QED  BY <3>1, <3>2, <2>5
    <2>15. WalkSkipsNothing'
      <3> SUFFICES ASSUME NEW f \in mirror'.ahead
                   PROVE  Below(mirror.id, f) \/ (mirror.base # None /\ Below(f, mirror.base))
        BY <2>5 DEF WalkSkipsNothing
      <3>1. CASE f \in mirror.ahead
        BY <3>1 DEF IInv, WalkSkipsNothing
      <3>2. CASE f \notin mirror.ahead
        <4>1. f = e /\ mirror.id # None
          BY <3>2, <2>5
        <4> QED  BY <4>1, <1>1
      <3> QED  BY <3>1, <3>2
    <2> QED  BY <2>6, <2>7, <2>8, <2>9, <2>10, <2>11, <2>12, <2>13, <2>14, <2>15 DEF IInv
  <1> QED  BY <1>2, <1>5, <1>6

LEMMA ResyncKeeps == IInv /\ Resync => IInv'
  <1> SUFFICES ASSUME IInv, Resync PROVE IInv'
    OBVIOUS
  <1>1. UNCHANGED <<now, mint, outbox, prune, sweep, shipped, left>> /\ Ids' = Ids /\ mirror' = NoWalk
    BY DEF Resync, Ids
  <1>2. TypeOK'
    BY <1>1 DEF IInv, TypeOK, RowType, PassType, MirrorType, NoWalk
  <1>3. IsFiniteSet(Ids') /\ MintAhead' /\ FloorHeld' /\ StampedIsShipped'
    BY <1>1 DEF IInv, MintAhead, FloorHeld, StampedIsShipped
  <1>4. MirrorHeld' /\ WalkFloor' /\ Owed' /\ NothingOwed' /\ WalkSkipsNothing'
    BY <1>1 DEF NoWalk, MirrorHeld, WalkFloor, Owed, NothingOwed, WalkSkipsNothing
  <1> QED  BY <1>2, <1>3, <1>4 DEF IInv

\* A page that is not refused: nothing the walk owes is between its old position and its new
\* one, unless the row was below the floor the walk began under.
LEMMA ReadPageKeeps == IInv /\ ReadPage => IInv'
  <1> SUFFICES ASSUME IInv, ReadPage PROVE IInv'
    OBVIOUS
  <1>1. UNCHANGED <<now, mint, outbox, prune, sweep, shipped, left>> /\ Ids' = Ids /\ CursorHolds
    BY DEF ReadPage, Ids
  <1>2. /\ Ids \subseteq Id /\ mirror \in MirrorType /\ prune.through \in Id \cup {None}
        /\ IsFiniteSet(Ids) /\ None \notin Id /\ PageLimit \in Nat
    BY OutboxAssumption DEF IInv, TypeOK
  <1>3. mirror.id \in Id \cup {None} /\ mirror.base \in Id \cup {None} /\ mirror.ahead \subseteq Id
    BY <1>2 DEF MirrorType
  <1> DEFINE S == {e \in Walked : mirror.id = None \/ Below(mirror.id, e)}
  <1>4. /\ S \subseteq Ids /\ S \in SUBSET Id /\ IsFiniteSet(S) /\ Page = First(S, PageLimit)
        /\ Page \subseteq S /\ Walked \subseteq Ids
    BY <1>2, FS_Subset DEF Page, First, Walked
  <1> HIDE DEF S
  <1>5. IsFiniteSet(Ids') /\ MintAhead' /\ FloorHeld' /\ StampedIsShipped'
    BY <1>1 DEF IInv, MintAhead, FloorHeld, StampedIsShipped
  <1>6. CASE Page = {}
    <2>1. mirror' = IF mirror.id = None THEN NoWalk
                    ELSE [id |-> mirror.id, under |-> None, base |-> mirror.base,
                          ahead |-> mirror.ahead]
      BY <1>6 DEF ReadPage
    <2>2. CASE mirror.id = None
      <3>1. mirror' = NoWalk
        BY <2>1, <2>2
      <3>2. TypeOK'
        BY <1>1, <3>1 DEF IInv, TypeOK, RowType, PassType, MirrorType, NoWalk
      <3>3. MirrorHeld' /\ WalkFloor' /\ Owed' /\ NothingOwed' /\ WalkSkipsNothing'
        BY <3>1 DEF NoWalk, MirrorHeld, WalkFloor, Owed, NothingOwed, WalkSkipsNothing
      <3> QED  BY <1>5, <3>2, <3>3 DEF IInv
    <2>3. CASE mirror.id # None
      <3>1. /\ mirror' \in MirrorType
            /\ mirror'.id = mirror.id /\ mirror'.under = None /\ mirror'.base = mirror.base
            /\ mirror'.ahead = mirror.ahead
        BY <1>2, <1>3, <2>1, <2>3 DEF MirrorType
      <3>2. TypeOK'
        BY <1>1, <3>1 DEF IInv, TypeOK, RowType, PassType
      <3>3. MirrorHeld' /\ WalkFloor' /\ NothingOwed' /\ WalkSkipsNothing'
        BY <1>1, <3>1 DEF IInv, MirrorHeld, WalkFloor, NothingOwed, WalkSkipsNothing
      <3>4. Owed'
        BY <1>1, <3>1 DEF IInv, Owed
      <3> QED  BY <1>5, <3>2, <3>3, <3>4 DEF IInv
    <2> QED  BY <2>2, <2>3
  <1>7. CASE Page # {}
    <2> DEFINE last  == Highest(Page)
               under == IF Cardinality(Page) = PageLimit /\ prune.through # None
                           /\ Below(last, prune.through)
                        THEN prune.through ELSE None
               base  == IF mirror.id = None THEN prune.through ELSE mirror.base
               ahead == (IF mirror.id = None THEN Walked ELSE mirror.ahead) \ Page
    <2>1. last \in Page
      BY <1>4, <1>7, HighestStored
    <2>2. last \in Id /\ last \in Ids /\ last # None
      BY <1>2, <1>4, <2>1
    <2>3. mirror' = [id |-> last, under |-> under, base |-> base, ahead |-> ahead]
      BY <1>7, <2>2 DEF ReadPage, Continued
    <2>4. \A e \in S : e \notin Page => Below(last, e)
      BY <1>2, <1>4, <2>1, FirstAreFirst
    <2>5. mirror.id # None => Below(mirror.id, last)
      BY <1>4, <2>1 DEF S
    <2> HIDE DEF last
    <2>6. mirror' \in MirrorType
      BY <1>2, <1>3, <1>4, <2>2, <2>3 DEF MirrorType
    <2>7. /\ mirror'.id = last /\ mirror'.under = under /\ mirror'.base = base
          /\ mirror'.ahead = ahead
      BY <2>3
    <2>8. under # None => under = prune.through /\ Below(last, prune.through)
      OBVIOUS
    <2> HIDE DEF under, base, ahead
    <2>9. TypeOK'
      BY <1>1, <2>6 DEF IInv, TypeOK, RowType, PassType
    <2>10. MirrorHeld'
      <3>1. ~Below(last, last)
        BY <2>2, IdOrder
      <3> QED  BY <1>1, <2>2, <2>7, <3>1 DEF MirrorHeld
    <2>11. NothingOwed'
      BY <2>2, <2>7 DEF NothingOwed
    <2>12. CASE mirror.id = None
      <3>1. base = prune.through /\ ahead = Walked \ Page /\ S = Walked
        BY <2>12 DEF base, ahead, S
      <3>2. WalkFloor'
        <4>1. prune.through # None => ~Below(prune.through, prune.through)
          BY <1>2, IdOrder
        <4> QED  BY <1>1, <2>7, <2>8, <3>1, <4>1 DEF WalkFloor
      <3>3. Owed'
        BY <1>1, <1>4, <2>7, <3>1 DEF Owed, Walked
      <3>4. WalkSkipsNothing'
        BY <2>4, <2>7, <3>1 DEF WalkSkipsNothing
      <3> QED  BY <1>5, <2>9, <2>10, <2>11, <3>2, <3>3, <3>4 DEF IInv
    <2>13. CASE mirror.id # None
      <3>1. base = mirror.base /\ ahead = mirror.ahead \ Page /\ mirror.id \in Id
        BY <1>3, <2>13 DEF base, ahead
      <3>2. /\ mirror.under # None => /\ mirror.under = prune.through
                                      /\ mirror.base = prune.through
            /\ mirror.under = None /\ prune.through # None => ~Below(mirror.id, prune.through)
        BY <1>1, <2>13 DEF IInv, WalkFloor, CursorHolds
      <3>3. WalkFloor'
        <4>1. under # None => under = base
          <5> SUFFICES ASSUME under # None PROVE mirror.under # None
            BY <2>8, <3>1, <3>2
          <5>1. prune.through \in Id /\ Below(last, prune.through)
            BY <1>2, <2>8
          <5>2. Below(mirror.id, prune.through)
            BY <2>2, <2>5, <2>13, <3>1, <5>1, IdOrder
          <5> QED  BY <1>2, <3>2, <5>1, <5>2
        <4> QED  BY <1>1, <2>7, <2>13, <3>1, <4>1 DEF IInv, WalkFloor
      <3>4. Owed'
        BY <1>1, <2>7, <3>1 DEF IInv, Owed
      <3>5. WalkSkipsNothing'
        <4> SUFFICES ASSUME NEW e \in mirror.ahead, e \notin Page,
                            ~(mirror.base # None /\ Below(e, mirror.base))
                     PROVE  Below(last, e)
          BY <2>7, <3>1 DEF WalkSkipsNothing
        <4>1. Below(mirror.id, e)
          BY DEF IInv, WalkSkipsNothing
        <4>2. CASE e \in Ids
          <5>1. e \in S
            BY <4>1, <4>2 DEF IInv, Owed, S, Walked
          <5> QED  BY <2>4, <5>1
        <4>3. CASE e \notin Ids
          <5>1. /\ prune.through # None /\ ~Below(prune.through, e)
                /\ mirror.base = prune.through => Below(e, mirror.base)
            BY <4>3 DEF IInv, Owed
          <5>2. mirror.under = None
            BY <3>2, <5>1, <1>2
          <5>3. ~Below(mirror.id, prune.through)
            BY <3>2, <5>1, <5>2
          <5>4. e \in Id /\ prune.through \in Id
            BY <1>2, <1>3, <5>1
          <5> QED  BY <3>1, <4>1, <5>1, <5>3, <5>4, IdOrder
        <4> QED  BY <4>2, <4>3
      <3> QED  BY <1>5, <2>9, <2>10, <2>11, <3>3, <3>4, <3>5 DEF IInv
    <2> QED  BY <2>12, <2>13
  <1> QED  BY <1>6, <1>7

\* What a prune deletes: shipped rows that are spent; and where it stops.
LEMMA PruneFacts ==
  ASSUME IInv, NEW w \in Sweeps, NEW due \in BOOLEAN, PruneDrained(w, due),
         ~(prune.at = None /\ ~due)
  PROVE  \E judged \in SUBSET Ids, stop \in Ids \cup {None} :
            /\ \A e \in judged : Spent(e) /\ e \in shipped
            /\ outbox' = [e \in Ids \ judged |-> outbox[e]]
            /\ prune' = [through |-> Raised(judged),
                         at |-> IF stop = None THEN None ELSE outbox[stop].stamp, id |-> stop]
            /\ stop # None => outbox[stop].stamp \in Nat
  <1> DEFINE scanned == Earliest(Window(sweep[w].before), ScanLimit)
             judged  == Earliest({e \in scanned : Spent(e)}, PruneLimit)
             stop    == StopAt(scanned, judged)
  <1>1. /\ outbox' = [e \in Ids \ judged |-> outbox[e]]
        /\ prune' = [through |-> Raised(judged),
                     at |-> IF stop = None THEN None ELSE outbox[stop].stamp, id |-> stop]
    BY DEF PruneDrained
  <1>2. scanned \subseteq Window(sweep[w].before)
    BY DEF Earliest
  <1>3. judged \subseteq scanned /\ \A e \in judged : Spent(e)
    BY DEF Earliest
  <1> HIDE DEF scanned, judged
  <1>4. scanned \subseteq Ids /\ \A e \in scanned : outbox[e].stamp # None
    BY <1>2 DEF Window
  <1>5. \A e \in scanned : /\ outbox[e].stamp \in Nat /\ outbox[e].stamp <= now
                           /\ e \in shipped
    BY <1>4 DEF IInv, TypeOK, RowType, StampedIsShipped
  <1>6. PICK b \in Nat : \A e \in Ids : e[1] <= b
    BY IdsBounded
  <1>7. Ids \subseteq Id /\ now \in Nat
    BY DEF IInv, TypeOK
  <1>8. \A T \in SUBSET scanned : T # {} => Latest(T) \in T
    <2> SUFFICES ASSUME NEW T \in SUBSET scanned, T # {} PROVE Latest(T) \in T
      OBVIOUS
    <2>1. /\ T \in SUBSET Ids
          /\ \A e \in T : outbox[e].stamp \in Nat /\ outbox[e].stamp <= now
      BY <1>4, <1>5
    <2> QED  BY <1>6, <1>7, <2>1, LatestIs
  <1>9. /\ Cardinality(judged) = PruneLimit => judged # {}
        /\ Cardinality(scanned) = ScanLimit => scanned # {}
    BY FS_EmptySet, OutboxAssumption
  <1>10. stop \in scanned \cup {None}
    BY <1>3, <1>8, <1>9 DEF StopAt
  <1> HIDE DEF stop
  <1>11. /\ judged \in SUBSET Ids /\ stop \in Ids \cup {None}
         /\ \A e \in judged : Spent(e) /\ e \in shipped
         /\ stop # None => outbox[stop].stamp \in Nat
    BY <1>3, <1>4, <1>5, <1>10
  <1> QED  BY <1>1, <1>11

\* The highest of the rows that share something with a spent row and that it needs above it
\* is not spent: no prune removes it, whatever else it removes.
LEMMA SpentLeaves ==
  ASSUME IInv, NEW judged \in SUBSET Ids, \A e \in judged : Spent(e), NEW e \in judged
  PROVE  /\ \E t \in Ids \ judged : Below(e, t) /\ outbox[t].type = outbox[e].type
         /\ \E n \in Ids \ judged : /\ Below(e, n) /\ outbox[n].entity = outbox[e].entity
                                    /\ outbox[n].type \notin MoveTypes
  <1>1. Ids \subseteq Id
    BY DEF IInv, TypeOK
  <1>2. \E t \in Ids \ judged : Below(e, t) /\ outbox[t].type = outbox[e].type
    <2> DEFINE T == {t \in Ids : Below(e, t) /\ outbox[t].type = outbox[e].type}
               h == Highest(T)
    <2>1. T \in SUBSET Ids /\ T # {}
      BY DEF Spent
    <2>2. h \in T /\ \A f \in T : f # h => Below(f, h)
      BY <2>1, HighestStored
    <2> HIDE DEF h
    <2>3. ASSUME h \in judged
          PROVE  FALSE
      <3>1. PICK t \in Ids : Below(h, t) /\ outbox[t].type = outbox[h].type
        BY <2>3 DEF Spent
      <3>2. t \in T
        BY <1>1, <2>2, <3>1, IdOrder
      <3>3. t = h \/ Below(t, h)
        BY <2>2, <3>2
      <3> QED  BY <1>1, <2>2, <3>1, <3>3, IdOrder
    <2> QED  BY <2>2, <2>3
  <1>3. \E n \in Ids \ judged : /\ Below(e, n) /\ outbox[n].entity = outbox[e].entity
                                /\ outbox[n].type \notin MoveTypes
    <2> DEFINE N == {n \in Ids : /\ Below(e, n) /\ outbox[n].entity = outbox[e].entity
                                 /\ outbox[n].type \notin MoveTypes}
               h == Highest(N)
    <2>1. N \in SUBSET Ids /\ N # {}
      BY DEF Spent
    <2>2. h \in N /\ \A f \in N : f # h => Below(f, h)
      BY <2>1, HighestStored
    <2> HIDE DEF h
    <2>3. ASSUME h \in judged
          PROVE  FALSE
      <3>1. PICK n \in Ids : /\ Below(h, n) /\ outbox[n].entity = outbox[h].entity
                             /\ outbox[n].type \notin MoveTypes
        BY <2>3 DEF Spent
      <3>2. n \in N
        BY <1>1, <2>2, <3>1, IdOrder
      <3>3. n = h \/ Below(n, h)
        BY <2>2, <3>2
      <3> QED  BY <1>1, <2>2, <3>1, <3>3, IdOrder
    <2> QED  BY <2>2, <2>3
  <1> QED  BY <1>2, <1>3

\* The floor only rises, and covers all that was just removed.
LEMMA FloorRises ==
  ASSUME IInv, NEW judged \in SUBSET Ids
  PROVE  /\ Raised(judged) \in judged \cup {prune.through}
         /\ \A e \in judged : Raised(judged) # None /\ ~Below(Raised(judged), e)
         /\ prune.through # None =>
                Raised(judged) # None /\ ~Below(Raised(judged), prune.through)
  <1>1. Ids \subseteq Id /\ prune.through \in Id \cup {None} /\ None \notin Id
    BY OutboxAssumption DEF IInv, TypeOK
  <1>2. CASE judged = {}
    BY <1>1, <1>2, IdOrder DEF Raised
  <1>3. CASE judged # {}
    <2> DEFINE h == Highest(judged)
    <2>1. h \in judged /\ \A f \in judged : f # h => Below(f, h)
      BY <1>3, HighestStored
    <2>2. Raised(judged) = IF prune.through # None /\ Below(h, prune.through)
                           THEN prune.through ELSE h
      BY <1>3 DEF Raised
    <2> HIDE DEF h
    <2>3. h \in Id /\ \A f \in judged : f \in Id /\ ~Below(h, f)
      BY <1>1, <2>1, IdOrder
    <2>4. CASE prune.through # None /\ Below(h, prune.through)
      <3>1. Raised(judged) = prune.through /\ prune.through \in Id
        BY <1>1, <2>2, <2>4
      <3>2. \A f \in judged : ~Below(prune.through, f)
        BY <2>3, <2>4, <3>1, IdOrder
      <3> QED  BY <1>1, <2>4, <3>1, <3>2, IdOrder
    <2>5. CASE ~(prune.through # None /\ Below(h, prune.through))
      BY <1>1, <2>1, <2>2, <2>3, <2>5
    <2> QED  BY <2>4, <2>5
  <1> QED  BY <1>2, <1>3

LEMMA PruneKeeps ==
  ASSUME IInv, NEW w \in Sweeps, NEW due \in BOOLEAN, PruneDrained(w, due)
  PROVE  IInv'
  <1>1. UNCHANGED <<now, mint, mirror, shipped, left>> /\ sweep' = [sweep EXCEPT ![w] = NoPass]
    BY DEF PruneDrained
  <1>2. /\ Ids \subseteq Id /\ outbox \in [Ids -> RowType] /\ sweep \in [Sweeps -> PassType]
        /\ prune.through \in Id \cup {None} /\ None \notin Id
        /\ mirror \in MirrorType
    BY OutboxAssumption DEF IInv, TypeOK
  <1>3. /\ sweep' \in [Sweeps -> PassType]
        /\ \A v \in Sweeps : sweep'[v].pc = "mark" => sweep'[v].batch \subseteq shipped
    BY <1>1, <1>2 DEF IInv, StampedIsShipped, NoPass, PassType
  <1>4. CASE prune.at = None /\ ~due
    <2>1. UNCHANGED <<outbox, prune>> /\ Ids' = Ids
      BY <1>4 DEF PruneDrained, Ids
    <2>2. TypeOK'
      BY <1>1, <1>3, <2>1 DEF IInv, TypeOK, RowType, MirrorType
    <2>3. StampedIsShipped'
      BY <1>1, <1>3, <2>1 DEF IInv, StampedIsShipped
    <2> QED  BY <1>1, <2>1, <2>2, <2>3, RowsKept DEF IInv
  <1>5. CASE ~(prune.at = None /\ ~due)
    <2>1. PICK judged \in SUBSET Ids, stop \in Ids \cup {None} :
            /\ \A e \in judged : Spent(e) /\ e \in shipped
            /\ outbox' = [e \in Ids \ judged |-> outbox[e]]
            /\ prune' = [through |-> Raised(judged),
                         at |-> IF stop = None THEN None ELSE outbox[stop].stamp, id |-> stop]
            /\ stop # None => outbox[stop].stamp \in Nat
      BY <1>5, PruneFacts
    <2>2. Ids' = Ids \ judged
      BY <2>1 DEF Ids
    <2>3. /\ \A f \in Ids \ judged : outbox'[f] = outbox[f]
          /\ outbox' \in [Ids \ judged -> RowType]
      BY <1>2, <2>1
    <2> DEFINE through == Raised(judged)
    <2>4. /\ prune'.through = through
          /\ through \in judged \cup {prune.through}
          /\ \A e \in judged : through # None /\ ~Below(through, e)
          /\ prune.through # None => through # None /\ ~Below(through, prune.through)
      BY <2>1, FloorRises
    <2> HIDE DEF through
    <2>5. through \in Id \cup {None}
      BY <1>2, <2>4
    <2>6. TypeOK'
      <3>1. /\ prune' \in [through : Id \cup {None}, at : Nat \cup {None}, id : Id \cup {None}]
            /\ (prune'.at = None) <=> (prune'.id = None)
        BY <1>2, <2>1, <2>4, <2>5, OutboxAssumption DEF through
      <3> QED  BY <1>1, <1>2, <1>3, <2>2, <2>3, <3>1 DEF IInv, TypeOK
    <2>7. IsFiniteSet(Ids')
      BY <2>2, FS_Subset DEF IInv
    <2>8. MintAhead'
      BY <1>1, <2>2 DEF IInv, MintAhead
    <2>9. StampedIsShipped'
      BY <1>1, <1>3, <2>2, <2>3 DEF IInv, StampedIsShipped
    <2>10. \A e \in Ids : \E t \in Ids \ judged : e = t \/ Below(e, t)
      <3> SUFFICES ASSUME NEW e \in Ids, e \in judged
                   PROVE  \E t \in Ids \ judged : Below(e, t)
        OBVIOUS
      <3> QED  BY <2>1, SpentLeaves
    <2>11. FloorHeld'
      <3> SUFFICES ASSUME through # None
                   PROVE  through \notin Ids \ judged /\ \E t \in Ids \ judged : Below(through, t)
        BY <2>2, <2>4 DEF FloorHeld
      <3>1. CASE through \in judged
        BY <2>10, <3>1
      <3>2. CASE through \notin judged
        <4>1. through = prune.through
          BY <2>4, <3>2
        <4>2. PICK u \in Ids : through \notin Ids /\ Below(through, u)
          BY <4>1 DEF IInv, FloorHeld
        <4>3. PICK t \in Ids \ judged : u = t \/ Below(u, t)
          BY <2>10
        <4>4. Below(through, t)
          BY <1>2, <2>5, <4>2, <4>3, IdOrder
        <4> QED  BY <4>2, <4>4
      <3> QED  BY <3>1, <3>2
    <2>12. MirrorHeld'
      <3> SUFFICES ASSUME mirror.id # None
                   PROVE  \E t \in Ids \ judged : ~Below(t, mirror.id)
        BY <1>1, <2>2 DEF MirrorHeld
      <3>1. mirror.id \in Id
        BY <1>2 DEF MirrorType
      <3>2. PICK u \in Ids : ~Below(u, mirror.id)
        BY DEF IInv, MirrorHeld
      <3>3. PICK t \in Ids \ judged : u = t \/ Below(u, t)
        BY <2>10
      <3>4. ~Below(t, mirror.id)
        BY <1>2, <3>1, <3>2, <3>3, IdOrder
      <3> QED  BY <3>4
    <2>13. NothingOwed' /\ WalkSkipsNothing'
      BY <1>1 DEF IInv, NothingOwed, WalkSkipsNothing
    <2>14. mirror.base \in Id \cup {None} /\ mirror.ahead \subseteq Id
      BY <1>2 DEF MirrorType
    <2>15. ASSUME mirror.id # None, mirror.base # None
           PROVE  /\ prune.through \in Id /\ through \in Id
                  /\ ~Below(prune.through, mirror.base) /\ ~Below(through, mirror.base)
                  /\ mirror.base = through => prune.through = through
      <3>1. /\ prune.through \in Id /\ through \in Id
            /\ ~Below(prune.through, mirror.base) /\ ~Below(through, prune.through)
        BY <1>2, <2>4, <2>5, <2>15 DEF IInv, WalkFloor
      <3> QED  BY <2>14, <2>15, <3>1, IdOrder
    <2>16. WalkFloor'
      <3>1. mirror.id # None => (mirror.under # None => mirror.under = mirror.base)
        BY DEF IInv, WalkFloor
      <3>2. mirror.id # None /\ mirror.base # None =>
               through # None /\ ~Below(through, mirror.base)
        BY <1>2, <2>15
      <3> QED  BY <1>1, <2>4, <3>1, <3>2 DEF WalkFloor
    <2>17. Owed'
      <3> SUFFICES ASSUME NEW e \in mirror.ahead
                   PROVE  /\ e \in Ids \ judged => outbox[e].entity \in Filter
                          /\ e \notin Ids \ judged => /\ through # None
                                                      /\ ~Below(through, e)
                                                      /\ mirror.base = through => Below(e, mirror.base)
        BY <1>1, <2>2, <2>3, <2>4 DEF Owed
      <3>1. /\ e \in Ids => outbox[e].entity \in Filter
            /\ mirror.id # None
        BY DEF IInv, Owed, NothingOwed
      <3>2. CASE e \in judged
        <4>1. through # None /\ ~Below(through, e)
          BY <2>4, <3>2
        <4>2. ASSUME mirror.base = through
              PROVE  Below(e, mirror.base)
          <5>1. prune.through = through /\ through \in Id
            BY <2>15, <3>1, <4>1, <4>2
          <5>2. prune.through \notin Ids
            BY <4>1, <5>1 DEF IInv, FloorHeld
          <5> QED  BY <2>14, <4>1, <4>2, <5>1, <5>2, <3>2, IdOrder
        <4> QED  BY <3>2, <4>1, <4>2
      <3>3. CASE e \notin Ids
        <4>1. /\ prune.through # None /\ ~Below(prune.through, e)
              /\ mirror.base = prune.through => Below(e, mirror.base)
          BY <3>3 DEF IInv, Owed
        <4>2. /\ prune.through \in Id /\ through \in Id /\ e \in Id /\ through # None
              /\ ~Below(through, prune.through)
          BY <1>2, <2>4, <2>5, <2>14, <4>1
        <4>3. ~Below(through, e)
          BY <4>1, <4>2, IdOrder
        <4>4. ASSUME mirror.base = through
              PROVE  mirror.base = prune.through
          BY <2>15, <3>1, <4>2, <4>4
        <4> QED  BY <3>3, <4>1, <4>2, <4>3, <4>4
      <3> QED  BY <3>1, <3>2, <3>3
    <2> QED  BY <2>6, <2>7, <2>8, <2>9, <2>11, <2>12, <2>13, <2>16, <2>17 DEF IInv
  <1> QED  BY <1>4, <1>5

LEMMA StepKeeps == IInv /\ [Next]_vars => IInv'
  <1> SUFFICES ASSUME IInv, [Next]_vars PROVE IInv'
    OBVIOUS
  <1>1. CASE UNCHANGED vars
    <2>1. UNCHANGED <<now, mint, outbox, prune, sweep, mirror, shipped, left>> /\ Ids' = Ids
      BY <1>1 DEF vars, Ids
    <2>2. TypeOK'
      BY <2>1 DEF IInv, TypeOK, RowType, PassType, MirrorType
    <2>3. StampedIsShipped'
      BY <2>1 DEF IInv, StampedIsShipped
    <2> QED  BY <2>1, <2>2, <2>3, RowsKept DEF IInv
  <1>2. ASSUME NEW w \in Sweeps, Sweep(w) \/ PassFails(w)
        PROVE  IInv'
    BY <1>2, SweepKeeps, StampKeeps, PruneKeeps DEF Sweep
  <1>3. CASE Next
    BY <1>2, <1>3, OperationKeeps, JournalKeeps, StampKeeps, ReadPageKeeps, ResyncKeeps,
       WakeKeeps, TickKeeps DEF Next
  <1> QED  BY <1>1, <1>3

\* IInv is an invariant of the outbox.
LEMMA Invariant == Spec => []IInv
  BY InitHolds, StepKeeps, PTL DEF Spec

-----------------------------------------------------------------------------
(* Theorems.                                                               *)

\* The mint, the outbox, its sweep and prune and the mirror keep their types.
THEOREM TypeCorrect == Spec => []TypeOK
  <1>1. IInv => TypeOK
    BY DEF IInv
  <1> QED  BY <1>1, Invariant, PTL

\* A walk that is not refused skips nothing above the floor it began under
\* (walkCursorPastFloor, walkCursorAt), for any page size, any caps and any pace of the prune.
THEOREM MirrorsMissNothing == Spec => []WalkSkipsNothing
  <1>1. IInv => WalkSkipsNothing
    BY DEF IInv
  <1> QED  BY <1>1, Invariant, PTL

\* createUlid and seedFrom: whatever the clock does and whenever the object wakes, a committed
\* event sorts above all that was committed, pruned or read before it.
THEOREM EventsAscend == Spec => IdsAscend
  <1> DEFINE Step == \A e \in DOMAIN outbox' \ Ids :
                        \A f \in Ids \cup ({mirror.id, prune.through} \ {None}) : Below(f, e)
  <1>1. IInv /\ [Next]_vars => [Step]_vars
    <2> SUFFICES ASSUME IInv, Next, NEW e \in DOMAIN outbox' \ Ids,
                        NEW f \in Ids \cup ({mirror.id, prune.through} \ {None})
                 PROVE  Below(f, e)
      OBVIOUS
    <2>1. ASSUME NEW k \in Kinds, NEW at \in 0..MaxClock, NEW r \in 0..RandMax,
                 Operation(k, at, r)
          PROVE  Below(f, e)
      <3>1. e = Minted(at, r)
        BY <2>1 DEF Operation, Insert, Ids
      <3> QED  BY <3>1, MintedAbove
    <2>2. ASSUME NEW w \in Sweeps, Sweep(w) \/ PassFails(w)
          PROVE  FALSE
      BY <2>2 DEF Sweep, PassFails, ReadUndrained, Ship, Mark, PruneDrained, Ids
    <2>3. ASSUME NEW g \in Ids, Dispatch(g) \/ \E o \in {"open", "ok"} : RecordExecutorAttempt(g, o)
          PROVE  FALSE
      BY <2>3 DEF Dispatch, RecordExecutorAttempt, Ids
    <2>4. ASSUME (\E before \in 0..now : Redrain(before)) \/ ReadPage \/ Resync \/ Wake \/ Tick
          PROVE  FALSE
      BY <2>4 DEF Redrain, ReadPage, Resync, Wake, Tick, Ids
    <2> QED  BY <2>1, <2>2, <2>3, <2>4 DEF Next
  <1>2. Spec => [][Step]_vars
    BY <1>1, Invariant, PTL DEF Spec
  <1> QED  BY <1>2 DEF IdsAscend

\* pruneDrainedOutbox: whatever the batch, the caps and the deliveries, what a prune removes
\* had been shipped, and the newest event of its type and its entity's version stay.
THEOREM PruneLeaves == Spec => PrunedIsSpent
  <1> DEFINE Step == \A e \in Ids \ DOMAIN outbox' :
          /\ e \in shipped
          /\ \E t \in DOMAIN outbox' : Below(e, t) /\ outbox[t].type = outbox[e].type
          /\ \E n \in DOMAIN outbox' : /\ Below(e, n) /\ outbox[n].entity = outbox[e].entity
                                       /\ outbox[n].type \notin MoveTypes
  <1>1. IInv /\ [Next]_vars => [Step]_vars
    <2> SUFFICES ASSUME IInv, Next, NEW e \in Ids \ DOMAIN outbox'
                 PROVE  /\ e \in shipped
                        /\ \E t \in DOMAIN outbox' : Below(e, t) /\ outbox[t].type = outbox[e].type
                        /\ \E n \in DOMAIN outbox' :
                              /\ Below(e, n) /\ outbox[n].entity = outbox[e].entity
                              /\ outbox[n].type \notin MoveTypes
      OBVIOUS
    <2>1. ASSUME NEW w \in Sweeps, NEW due \in BOOLEAN, PruneDrained(w, due)
          PROVE  \E judged \in SUBSET Ids :
                    /\ e \in judged /\ DOMAIN outbox' = Ids \ judged
                    /\ \A f \in judged : Spent(f) /\ f \in shipped
      <3>1. ~(prune.at = None /\ ~due)
        BY <2>1 DEF PruneDrained, Ids
      <3>2. PICK judged \in SUBSET Ids :
                /\ \A f \in judged : Spent(f) /\ f \in shipped
                /\ outbox' = [f \in Ids \ judged |-> outbox[f]]
        BY <2>1, <3>1, PruneFacts
      <3>3. DOMAIN outbox' = Ids \ judged
        BY <3>2
      <3> QED  BY <3>2, <3>3
    <2>2. ASSUME NEW w \in Sweeps, ReadUndrained(w) \/ Ship(w) \/ Mark(w) \/ PassFails(w)
          PROVE  FALSE
      BY <2>2 DEF PassFails, ReadUndrained, Ship, Mark, Ids
    <2>3. ASSUME NEW g \in Ids, Dispatch(g) \/ \E o \in {"open", "ok"} : RecordExecutorAttempt(g, o)
          PROVE  FALSE
      BY <2>3 DEF Dispatch, RecordExecutorAttempt, Ids
    <2>4. ASSUME (\E before \in 0..now : Redrain(before)) \/ ReadPage \/ Resync \/ Wake \/ Tick
          PROVE  FALSE
      BY <2>4 DEF Redrain, ReadPage, Resync, Wake, Tick, Ids
    <2>5. ASSUME NEW k \in Kinds, NEW at \in 0..MaxClock, NEW r \in 0..RandMax,
                 Operation(k, at, r)
          PROVE  FALSE
      BY <2>5 DEF Operation, Insert, Ids
    <2>6. PICK judged \in SUBSET Ids :
              /\ e \in judged /\ DOMAIN outbox' = Ids \ judged
              /\ \A f \in judged : Spent(f) /\ f \in shipped
      BY <2>1, <2>2, <2>3, <2>4, <2>5 DEF Next, Sweep
    <2> QED  BY <2>6, SpentLeaves
  <1>2. Spec => [][Step]_vars
    BY <1>1, Invariant, PTL DEF Spec
  <1> QED  BY <1>2 DEF PrunedIsSpent
=============================================================================
