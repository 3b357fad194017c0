--------------------------- MODULE JobRuns_proofs ---------------------------
(***************************************************************************)
(* Proofs about the job driver, for any number of drives, runs, steps and  *)
(* calls in flight, and any retry policy.                                  *)
(***************************************************************************)
EXTENDS JobRuns, TLAPS

(* Typing, with the part of the inductive invariant that typing needs. *)
DrivesShaped ==
  /\ drive \in [Drive -> DriveState]
  /\ \A d \in Drive : ShapeOK(drive[d])

RestShaped ==
  /\ late \subseteq DriveState
  /\ \A c \in late : ShapeOK(c)
  /\ hiccups \in Nat
  /\ begins \in [RunId -> Nat]

Shaped == StoreTypeOK /\ DrivesShaped /\ RestShaped

(* Each statement writes a well-formed row. *)
LEMMA RowTypes ==
  ASSUME NEW row \in RunRow, NEW o \in Owner \cup {Null}
  PROVE  /\ FreshRun \in RunRow
         /\ Claimed(row, o) \in RunRow
         /\ Begun(row) \in RunRow
         /\ Missed(row) \in RunRow
         /\ Renewed(row) \in RunRow
         /\ Redacted(row) \in RunRow
         /\ Nearer(row) \in RunRow
         /\ \A p \in Patch : Patched(row, p) \in RunRow
<1> USE StoreAssumption DEF RunRow, Due, Live
<1>1. FreshRun \in RunRow
  BY DEF FreshRun, NoRun
<1>2. Claimed(row, o) \in RunRow
  <2>1. row.attempts \in Nat /\ row.attempts + 1 \in Nat
    OBVIOUS
  <2>2. CASE row.began
    BY <2>1, <2>2 DEF Claimed
  <2>3. CASE ~row.began
    BY <2>1, <2>3 DEF Claimed
  <2> QED BY <2>2, <2>3
<1>3. Begun(row) \in RunRow
  BY DEF Begun
<1>4. Missed(row) \in RunRow
  <2>1. row.misses + 1 \in Nat
    OBVIOUS
  <2>2. CASE LastMiss(row)
    BY <2>1, <2>2 DEF Missed
  <2>3. CASE ~LastMiss(row)
    BY <2>1, <2>3 DEF Missed
  <2> QED BY <2>2, <2>3
<1>5. Renewed(row) \in RunRow
  BY DEF Renewed
<1>6. Redacted(row) \in RunRow
  BY DEF Redacted, Redaction
<1>7. Nearer(row) \in RunRow
  BY DEF Nearer
<1>8. \A p \in Patch : Patched(row, p) \in RunRow
  BY DEF Patched, Patch
<1> QED BY <1>1, <1>2, <1>3, <1>4, <1>5, <1>6, <1>7, <1>8

LEMMA StoreTypes ==
  ASSUME StoreTypeOK, NEW r \in RunId, NEW o \in Owner \cup {Null}
  PROVE  /\ StartOrJoin(r) => StoreTypeOK'
         /\ Claim(r, o) => StoreTypeOK'
         /\ Begin(r, o) => StoreTypeOK'
         /\ Miss(r, o) => StoreTypeOK'
         /\ Elapse(r) => StoreTypeOK'
         /\ BeginStep(r, o) => StoreTypeOK'
         /\ Erase(r) => StoreTypeOK'
         /\ \A p \in Patch : PatchRun(r, o, p) => StoreTypeOK'
         /\ \A p \in Patch : CommitPass(r, o, p) => StoreTypeOK'
         /\ \A s \in Step, row \in StepRow : RecordStep(r, o, s, row) => StoreTypeOK'
<1> USE DEF StoreTypeOK
<1>0. run[r] \in RunRow
  OBVIOUS
<1>r. /\ FreshRun \in RunRow
      /\ Claimed(run[r], o) \in RunRow
      /\ Begun(run[r]) \in RunRow
      /\ Missed(run[r]) \in RunRow
      /\ Renewed(run[r]) \in RunRow
      /\ Redacted(run[r]) \in RunRow
      /\ Nearer(run[r]) \in RunRow
      /\ \A p \in Patch : Patched(run[r], p) \in RunRow
  BY <1>0, RowTypes
<1>1. NoSteps \in [Step -> StepRow]
  BY DEF NoSteps, StepRow
<1>2. RedactedSteps(ledger[r]) \in [Step -> StepRow]
  BY DEF RedactedSteps, Redaction, StepRow
<1>3. StartOrJoin(r) => StoreTypeOK'
  BY <1>r DEF StartOrJoin
<1>4. Claim(r, o) => StoreTypeOK'
  BY <1>r DEF Claim
<1>5. Begin(r, o) => StoreTypeOK'
  BY <1>r DEF Begin
<1>6. Miss(r, o) => StoreTypeOK'
  BY <1>r DEF Miss
<1>7. Elapse(r) => StoreTypeOK'
  BY <1>r DEF Elapse
<1>8. BeginStep(r, o) => StoreTypeOK'
  BY <1>r DEF BeginStep, Renew
<1>9. Erase(r) => StoreTypeOK'
  BY <1>r, <1>2 DEF Erase
<1>10. \A p \in Patch : PatchRun(r, o, p) => StoreTypeOK'
  BY <1>r DEF PatchRun
<1>11. \A p \in Patch : CommitPass(r, o, p) => StoreTypeOK'
  BY <1>r, <1>1 DEF CommitPass
<1>12. \A s \in Step, row \in StepRow : RecordStep(r, o, s, row) => StoreTypeOK'
  BY <1>r DEF RecordStep, Renew
<1> QED BY <1>3, <1>4, <1>5, <1>6, <1>7, <1>8, <1>9, <1>10, <1>11, <1>12

-----------------------------------------------------------------------------
(* The states a drive moves to. *)

LEMMA IdleShaped == Idle \in DriveState /\ ShapeOK(Idle)
BY DEF Idle, DriveState, PC, NoPatch, Patch, Due, Live, ShapeOK

LEMMA PickShaped ==
  ASSUME NEW r \in RunId, NEW o \in Owner
  PROVE  LET x == [Idle EXCEPT !.pc = "claim", !.run = r, !.owner = o]
         IN  x \in DriveState /\ ShapeOK(x)
BY IdleShaped DEF Idle, DriveState, PC, Calling, ShapeOK

LEMMA MoveShaped ==
  ASSUME NEW s \in DriveState, ShapeOK(s), s.pc # "idle"
  PROVE  /\ \A pc \in {"begin", "miss"} :
              [s EXCEPT !.pc = pc] \in DriveState /\ ShapeOK([s EXCEPT !.pc = pc])
         /\ \A c \in Cursor \cup {Null, Tombstone}, n, m \in Nat, t \in BOOLEAN :
              LET x == [s EXCEPT !.pc = "claimed", !.cursor = c, !.counters = n,
                                 !.attempts = m, !.takeover = t]
              IN  x \in DriveState /\ ShapeOK(x)
         /\ LET x == [s EXCEPT !.pc = "pass", !.takeover = FALSE, !.step = Null,
                               !.tries = 0, !.ok = FALSE]
            IN  x \in DriveState /\ ShapeOK(x)
         /\ \A p \in Patch :
              LET x == [Idle EXCEPT !.pc = "settle", !.run = s.run, !.owner = s.owner,
                                    !.patch = p]
              IN  x \in DriveState /\ ShapeOK(x)
         /\ \A p \in Patch :
              LET x == [[s EXCEPT !.pc = "commit"] EXCEPT !.used = {}, !.patch = p]
              IN  x \in DriveState /\ ShapeOK(x)
         /\ LET x == [s EXCEPT !.cursor = Null, !.attempts = 0, !.takeover = FALSE, !.used = {}]
            IN  x \in DriveState /\ ShapeOK(x)
<1> USE DEF DriveState, PC, Calling, Handling, ShapeOK
<1>1. \A pc \in {"begin", "miss"} :
        [s EXCEPT !.pc = pc] \in DriveState /\ ShapeOK([s EXCEPT !.pc = pc])
  OBVIOUS
<1>2. \A c \in Cursor \cup {Null, Tombstone}, n, m \in Nat, t \in BOOLEAN :
        LET x == [s EXCEPT !.pc = "claimed", !.cursor = c, !.counters = n,
                           !.attempts = m, !.takeover = t]
        IN  x \in DriveState /\ ShapeOK(x)
  <2> TAKE c \in Cursor \cup {Null, Tombstone}, n, m \in Nat, t \in BOOLEAN
  <2> DEFINE x == [s EXCEPT !.pc = "claimed", !.cursor = c, !.counters = n,
                            !.attempts = m, !.takeover = t]
  <2>1. CASE t
    BY <2>1
  <2>2. CASE ~t
    BY <2>2
  <2> QED BY <2>1, <2>2
<1>3. LET x == [s EXCEPT !.pc = "pass", !.takeover = FALSE, !.step = Null,
                         !.tries = 0, !.ok = FALSE]
      IN  x \in DriveState /\ ShapeOK(x)
  OBVIOUS
<1>4. \A p \in Patch :
        LET x == [Idle EXCEPT !.pc = "settle", !.run = s.run, !.owner = s.owner, !.patch = p]
        IN  x \in DriveState /\ ShapeOK(x)
  BY IdleShaped DEF Idle
<1>5. \A p \in Patch :
        LET x == [[s EXCEPT !.pc = "commit"] EXCEPT !.used = {}, !.patch = p]
        IN  x \in DriveState /\ ShapeOK(x)
  OBVIOUS
<1>6. LET x == [s EXCEPT !.cursor = Null, !.attempts = 0, !.takeover = FALSE, !.used = {}]
      IN  x \in DriveState /\ ShapeOK(x)
  OBVIOUS
<1> QED BY <1>1, <1>2, <1>3, <1>4, <1>5, <1>6

LEMMA StepShaped ==
  ASSUME NEW s \in DriveState, ShapeOK(s), s.pc # "idle"
  PROVE  /\ \A e \in Step :
              LET x == [[s EXCEPT !.pc = "step"] EXCEPT !.step = e, !.used = s.used \cup {e}]
              IN  x \in DriveState /\ ShapeOK(x)
         /\ \A n \in Nat : s.pc = "step" /\ n <= StepMax[s.step] =>
              LET x == [[s EXCEPT !.pc = "exec"] EXCEPT !.tries = n]
              IN  x \in DriveState /\ ShapeOK(x)
         /\ \A ok \in BOOLEAN : s.pc = "exec" =>
              LET x == [[s EXCEPT !.pc = "record"] EXCEPT !.ok = ok]
              IN  x \in DriveState /\ ShapeOK(x)
<1> USE DEF DriveState, PC, Calling, Handling, ShapeOK
<1>1. \A e \in Step :
        LET x == [[s EXCEPT !.pc = "step"] EXCEPT !.step = e, !.used = s.used \cup {e}]
        IN  x \in DriveState /\ ShapeOK(x)
  OBVIOUS
<1>2. \A n \in Nat : s.pc = "step" /\ n <= StepMax[s.step] =>
        LET x == [[s EXCEPT !.pc = "exec"] EXCEPT !.tries = n]
        IN  x \in DriveState /\ ShapeOK(x)
  OBVIOUS
<1>3. \A ok \in BOOLEAN : s.pc = "exec" =>
        LET x == [[s EXCEPT !.pc = "record"] EXCEPT !.ok = ok]
        IN  x \in DriveState /\ ShapeOK(x)
  OBVIOUS
<1> QED BY <1>1, <1>2, <1>3

-----------------------------------------------------------------------------
(* Every action keeps the drives shaped. *)

LEMMA Becomes ==
  ASSUME DrivesShaped, NEW d \in Drive, NEW x \in DriveState, ShapeOK(x), Become(d, x)
  PROVE  DrivesShaped'
BY DEF DrivesShaped, Become, ShapeOK

LEMMA DriveFacts ==
  ASSUME DrivesShaped, NEW d \in Drive, drive[d].pc # "idle"
  PROVE  /\ drive[d] \in DriveState /\ ShapeOK(drive[d])
         /\ drive[d].run \in RunId /\ drive[d].owner \in Owner
         /\ drive[d].patch \in Patch
         /\ drive[d].cursor \in Cursor \cup {Null, Tombstone}
         /\ drive[d].counters \in Nat /\ drive[d].attempts \in Nat /\ drive[d].tries \in Nat
         /\ drive[d].ok \in BOOLEAN
         /\ drive[d].pc \in {"step", "exec", "record"} => drive[d].step \in Step
BY DEF DrivesShaped, DriveState, ShapeOK

LEMMA GoesIdle ==
  ASSUME DrivesShaped, NEW d \in Drive, Become(d, Idle)
  PROVE  DrivesShaped'
BY Becomes, IdleShaped

LEMMA GoesBack ==
  ASSUME DrivesShaped, NEW d \in Drive, drive[d].pc # "idle", Become(d, InHandler(d))
  PROVE  DrivesShaped'
<1>1. InHandler(d) \in DriveState /\ ShapeOK(InHandler(d))
  BY DriveFacts, MoveShaped DEF InHandler
<1> QED BY <1>1, Becomes

LEMMA GoesSettling ==
  ASSUME DrivesShaped, NEW d \in Drive, drive[d].pc # "idle",
         NEW p \in Patch, Become(d, Settling(d, p))
  PROVE  DrivesShaped'
<1>1. Settling(d, p) \in DriveState /\ ShapeOK(Settling(d, p))
  BY DriveFacts, MoveShaped DEF Settling
<1> QED BY <1>1, Becomes

LEMMA OutcomeTypes ==
  ASSUME DrivesShaped, NEW d \in Drive, drive[d].pc # "idle"
  PROVE  /\ \A status \in {"running", "failed"}, n \in Nat, due \in Due :
              Outcome(d, status, n, due) \in Patch
         /\ \A against, max \in Nat : FailedOutcomes(d, against, max) \subseteq Patch
         /\ DeferredOutcomes(d) \subseteq Patch
<1>1. \A status \in {"running", "failed"}, n \in Nat, due \in Due :
        Outcome(d, status, n, due) \in Patch
  BY DriveFacts DEF Outcome, Patch
<1>2. drive[d].attempts \in Nat /\ drive[d].attempts + 1 \in Nat
  BY DriveFacts
<1>3. \A against, max \in Nat : FailedOutcomes(d, against, max) \subseteq Patch
  BY <1>1, <1>2 DEF FailedOutcomes, Due, Live
<1>4. DeferredOutcomes(d) \subseteq Patch
  BY <1>1, <1>2 DEF DeferredOutcomes, Due, Live
<1> QED BY <1>1, <1>3, <1>4

LEMMA PassEnding ==
  ASSUME DrivesShaped, NEW d \in Drive, drive[d].pc # "idle"
  PROVE  /\ PassFails(d) => DrivesShaped'
         /\ PassDefers(d) => DrivesShaped'
         /\ LosesLease(d) => DrivesShaped'
         /\ \A against \in Nat :
              drive[d].step \in Step /\ StepFails(d, against) => DrivesShaped'
<1> USE DriverAssumption
<1>1. drive[d].attempts + 1 \in Nat /\ JobMax \in Nat
  BY DriveFacts
<1>2. PassFails(d) => DrivesShaped'
  BY <1>1, OutcomeTypes, GoesSettling DEF PassFails
<1>3. PassDefers(d) => DrivesShaped'
  BY OutcomeTypes, GoesSettling DEF PassDefers
<1>4. LosesLease(d) => DrivesShaped'
  BY GoesIdle, GoesBack DEF LosesLease
<1>5. ASSUME NEW against \in Nat, drive[d].step \in Step, StepFails(d, against)
      PROVE  DrivesShaped'
  <2>1. StepMax[drive[d].step] \in Nat
    BY <1>5
  <2> QED BY <1>5, <2>1, OutcomeTypes, GoesSettling, GoesBack DEF StepFails
<1> QED BY <1>2, <1>3, <1>4, <1>5

-----------------------------------------------------------------------------
(* Shaped is inductive. *)

LEMMA DriveTypes ==
  ASSUME Shaped, NEW d \in Drive
  PROVE  /\ \A r \in RunId : Pick(d, r) => DrivesShaped'
         /\ ClaimRun(d) => DrivesShaped'
         /\ FailTakeover(d) => DrivesShaped'
         /\ SendBegin(d) => DrivesShaped'
         /\ SendMiss(d) => DrivesShaped'
         /\ BeginPass(d) => DrivesShaped'
         /\ MissPass(d) => DrivesShaped'
<1> USE DEF Shaped, At
<1>1. \A r \in RunId : Pick(d, r) => DrivesShaped'
  BY PickShaped, Becomes DEF Pick
<1>2. ASSUME ClaimRun(d) PROVE DrivesShaped'
  <2>1. drive[d].pc # "idle"
    BY <1>2 DEF ClaimRun
  <2>2. CASE Become(d, Idle)
    BY <2>2, GoesIdle
  <2>3. CASE Claim(drive[d].run, drive[d].owner) /\ Become(d, ClaimedBy(d))
    <3>1. StoreTypeOK'
      BY <2>1, <2>3, DriveFacts, StoreTypes
    <3>2. /\ run[drive[d].run] \in RunRow
          /\ run'[drive[d].run] \in RunRow
      BY <2>1, <3>1, DriveFacts DEF StoreTypeOK
    <3>3. ClaimedBy(d) \in DriveState /\ ShapeOK(ClaimedBy(d))
      <4>1. /\ run'[drive[d].run].cursor \in Cursor \cup {Null, Tombstone}
            /\ run'[drive[d].run].counters \in Nat
            /\ run'[drive[d].run].attempts \in Nat
            /\ run[drive[d].run].began \in BOOLEAN
        BY <3>2 DEF RunRow
      <4>2. drive[d] \in DriveState /\ ShapeOK(drive[d])
        BY <2>1, DriveFacts
      <4>3. \A c \in Cursor \cup {Null, Tombstone}, n, m \in Nat, t \in BOOLEAN :
              LET x == [drive[d] EXCEPT !.pc = "claimed", !.cursor = c, !.counters = n,
                                        !.attempts = m, !.takeover = t]
              IN  x \in DriveState /\ ShapeOK(x)
        BY <2>1, <4>2, MoveShaped
      <4> QED BY <4>1, <4>3 DEF ClaimedBy
    <3> QED BY <2>3, <3>3, Becomes
  <2> QED BY <1>2, <2>2, <2>3 DEF ClaimRun
<1>3. FailTakeover(d) => DrivesShaped'
  BY OutcomeTypes, DriveFacts, GoesSettling DEF FailTakeover, Due
<1>4. ASSUME SendBegin(d) \/ SendMiss(d) \/ (BeginPass(d) /\ Become(d, GoTo(d, "miss")))
      PROVE  DrivesShaped'
  <2>1. drive[d].pc # "idle" /\ \E pc \in {"begin", "miss"} : Become(d, GoTo(d, pc))
    BY <1>4 DEF SendBegin, SendMiss, BeginPass
  <2> QED BY <2>1, DriveFacts, MoveShaped, Becomes DEF GoTo
<1>5. BeginPass(d) => DrivesShaped'
  BY <1>4, GoesBack DEF BeginPass
<1>6. MissPass(d) => DrivesShaped'
  BY GoesIdle DEF MissPass
<1> QED BY <1>1, <1>2, <1>3, <1>4, <1>5, <1>6

LEMMA PassTypes ==
  ASSUME Shaped, NEW d \in Drive
  PROVE  /\ \A e \in Step : CallStep(d, e) => DrivesShaped'
         /\ StepBoundary(d) => DrivesShaped'
         /\ StepEnds(d) => DrivesShaped'
         /\ RecordAttempt(d) => DrivesShaped'
         /\ HandlerReturns(d) => DrivesShaped'
         /\ HandlerThrows(d) => DrivesShaped'
         /\ DoorSaysWait(d) => DrivesShaped'
         /\ CommitsPass(d) => DrivesShaped'
         /\ SettlesPass(d) => DrivesShaped'
         /\ CallFails(d) => DrivesShaped'
         /\ DriveStops(d) => DrivesShaped'
         /\ HandlerDies(d) => DrivesShaped'
<1> USE DEF Shaped, At, Calling, Handling
<1>1. \A e \in Step : CallStep(d, e) => DrivesShaped'
  BY DriveFacts, StepShaped, Becomes DEF CallStep, GoTo
<1>2. ASSUME StepBoundary(d) PROVE DrivesShaped'
  <2>1. drive[d].pc = "step" /\ drive[d].step \in Step /\ drive[d].run \in RunId
    BY <1>2, DriveFacts DEF StepBoundary
  <2>2. PriorStep(d).attempts \in Nat /\ StepMax[drive[d].step] \in Nat
    BY <2>1, DriverAssumption DEF PriorStep, StoreTypeOK, StepRow
  <2>3. CASE LosesLease(d)
    BY <2>1, <2>3, PassEnding
  <2>4. CASE EnterStep(d)
    <3>1. CASE Become(d, InHandler(d))
      BY <2>1, <3>1, GoesBack
    <3>2. CASE StepFails(d, PriorStep(d).attempts)
      BY <2>1, <2>2, <3>2, PassEnding
    <3>3. CASE /\ PriorStep(d).attempts < StepMax[drive[d].step]
               /\ Become(d, [GoTo(d, "exec") EXCEPT !.tries = PriorStep(d).attempts + 1])
      <4>1. /\ PriorStep(d).attempts + 1 \in Nat
            /\ PriorStep(d).attempts + 1 <= StepMax[drive[d].step]
        BY <2>2, <3>3
      <4> QED BY <2>1, <3>3, <4>1, DriveFacts, StepShaped, Becomes DEF GoTo
    <3> QED BY <2>2, <2>4, <3>1, <3>2, <3>3 DEF EnterStep
  <2> QED BY <1>2, <2>3, <2>4 DEF StepBoundary
<1>3. StepEnds(d) => DrivesShaped'
  BY DriveFacts, StepShaped, Becomes DEF StepEnds, GoTo
<1>4. ASSUME RecordAttempt(d) PROVE DrivesShaped'
  <2>1. drive[d].pc = "record" /\ drive[d].step \in Step /\ drive[d].tries \in Nat
    BY <1>4, DriveFacts DEF RecordAttempt
  <2>2. LosesLease(d) \/ Become(d, InHandler(d)) \/ StepFails(d, drive[d].tries)
    BY <1>4 DEF RecordAttempt
  <2> QED BY <2>1, <2>2, PassEnding, GoesBack
<1>5. ASSUME HandlerReturns(d) PROVE DrivesShaped'
  <2>1. drive[d].pc = "pass"
    BY <1>5 DEF HandlerReturns
  <2>2. PICK c \in Cursor \cup {drive[d].cursor}, done \in BOOLEAN :
          Become(d, [GoTo(d, "commit") EXCEPT !.used = {}, !.patch =
            [ status |-> IF done THEN "done" ELSE Live, cursor |-> c,
              counters |-> drive[d].counters + 1, attempts |-> 0, due |-> "now" ]])
    BY <1>5 DEF HandlerReturns
  <2>3. drive[d].counters + 1 \in Nat /\ c \in Cursor \cup {Null, Tombstone}
    BY <2>1, DriveFacts
  <2>4. [ status |-> IF done THEN "done" ELSE Live, cursor |-> c,
          counters |-> drive[d].counters + 1, attempts |-> 0, due |-> "now" ] \in Patch
    BY <2>3 DEF Patch, Due, Live
  <2> QED BY <2>1, <2>2, <2>4, DriveFacts, MoveShaped, Becomes DEF GoTo
<1>6. HandlerThrows(d) => DrivesShaped'
  BY PassEnding DEF HandlerThrows
<1>7. DoorSaysWait(d) => DrivesShaped'
  BY PassEnding, GoesBack DEF DoorSaysWait
<1>8. CallFails(d) => DrivesShaped'
  BY PassEnding, GoesBack DEF CallFails
<1>9. CommitsPass(d) \/ SettlesPass(d) \/ DriveStops(d) \/ HandlerDies(d) => DrivesShaped'
  BY GoesIdle DEF CommitsPass, SettlesPass, DriveStops, HandlerDies
<1> QED BY <1>1, <1>2, <1>3, <1>4, <1>5, <1>6, <1>7, <1>8, <1>9

(* What a drive does besides faults, and the faults. *)
DriveFault(d) == DoorSaysWait(d) \/ CallFails(d) \/ DriveStops(d)

(* A drive touches the store only by the call it has sent. *)
LEMMA DriveLands ==
  ASSUME NEW d \in Drive, DriveStep(d) \/ DriveFault(d)
  PROVE  \/ Lands(drive[d])
         \/ UNCHANGED <<run, ledger, begins>>
<1> USE DEF At, storeVars, Lands
<1>1. ASSUME NEW r \in RunId, Pick(d, r) PROVE UNCHANGED <<run, ledger, begins>>
  BY <1>1 DEF Pick
<1>2. ASSUME NEW e \in Step, CallStep(d, e) PROVE UNCHANGED <<run, ledger, begins>>
  BY <1>2 DEF CallStep
<1>3. CASE FailTakeover(d) \/ SendBegin(d) \/ SendMiss(d) \/ StepEnds(d)
           \/ HandlerReturns(d) \/ HandlerThrows(d) \/ HandlerDies(d) \/ DriveFault(d)
  BY <1>3 DEF FailTakeover, SendBegin, SendMiss, StepEnds, HandlerReturns, HandlerThrows,
              HandlerDies, DriveFault, DoorSaysWait, CallFails, DriveStops
<1>4. CASE ClaimRun(d)
  BY <1>4 DEF ClaimRun
<1>5. CASE BeginPass(d)
  BY <1>5 DEF BeginPass
<1>6. CASE MissPass(d)
  BY <1>6 DEF MissPass
<1>7. CASE StepBoundary(d)
  BY <1>7 DEF StepBoundary
<1>8. CASE RecordAttempt(d)
  BY <1>8 DEF RecordAttempt, StepRecord
<1>9. CASE CommitsPass(d)
  BY <1>9 DEF CommitsPass
<1>10. CASE SettlesPass(d)
  BY <1>10 DEF SettlesPass
<1> QED BY <1>1, <1>2, <1>3, <1>4, <1>5, <1>6, <1>7, <1>8, <1>9, <1>10 DEF DriveStep

LEMMA LandsTypes ==
  ASSUME StoreTypeOK, begins \in [RunId -> Nat],
         NEW s \in DriveState, ShapeOK(s), Lands(s)
  PROVE  StoreTypeOK' /\ begins' \in [RunId -> Nat]
<1>1. s.pc # "idle"
  BY DEF Lands
<1>2. /\ s.run \in RunId /\ s.owner \in Owner /\ s.patch \in Patch
      /\ s.pc = "record" => s.step \in Step
  BY <1>1 DEF ShapeOK, DriveState
<1>3. [result |-> IF s.ok THEN s.counters ELSE Null, attempts |-> s.tries] \in StepRow
  BY DEF DriveState, StepRow
<1>4. StoreTypeOK'
  BY <1>2, <1>3, StoreTypes DEF Lands
<1>5. begins[s.run] + 1 \in Nat
  BY <1>2
<1>6. begins' \in [RunId -> Nat]
  BY <1>5 DEF Lands, Reset
<1> QED BY <1>4, <1>6

LEMMA LateTypes ==
  ASSUME Shaped, NEW d \in Drive, DriveStep(d) \/ DriveFault(d)
  PROVE  /\ late' \subseteq DriveState
         /\ \A c \in late' : ShapeOK(c)
         /\ hiccups' \in Nat
<1> USE DEF Shaped, RestShaped, At, Calling, Handling
<1>1. CASE UNCHANGED <<late, hiccups>>
  BY <1>1
<1>2. CASE /\ Abandons(d) \/ UNCHANGED late
           /\ Hiccup
           /\ drive[d].pc # "idle"
  <2>1. Sent(d) \in DriveState /\ ShapeOK(Sent(d))
    BY <1>2, DriveFacts, MoveShaped DEF Sent
  <2> QED BY <1>2, <2>1 DEF Abandons, Hiccup
<1>3. DriveStep(d) => UNCHANGED <<late, hiccups>>
  BY DEF DriveStep, Pick, ClaimRun, FailTakeover, SendBegin, SendMiss, BeginPass, MissPass,
         CallStep, StepBoundary, StepEnds, RecordAttempt, HandlerReturns, HandlerThrows,
         HandlerDies, CommitsPass, SettlesPass
<1>4. DriveFault(d) => /\ Abandons(d) \/ UNCHANGED late
                       /\ Hiccup
                       /\ drive[d].pc # "idle"
  BY DEF DriveFault, DoorSaysWait, CallFails, DriveStops
<1> QED BY <1>1, <1>2, <1>3, <1>4

LEMMA ShapedStep == ASSUME Shaped, [Next]_vars PROVE Shaped'
<1>1. ASSUME NEW d \in Drive, DriveStep(d) \/ DriveFault(d) PROVE Shaped'
  <2>1. DrivesShaped'
    BY <1>1, DriveTypes, PassTypes DEF DriveStep, DriveFault
  <2>2. StoreTypeOK' /\ begins' \in [RunId -> Nat]
    <3>1. CASE UNCHANGED <<run, ledger, begins>>
      BY <3>1 DEF Shaped, RestShaped, StoreTypeOK
    <3>2. CASE Lands(drive[d])
      <4>1. drive[d] \in DriveState /\ ShapeOK(drive[d])
        BY DEF Shaped, DrivesShaped
      <4> QED BY <3>2, <4>1, LandsTypes DEF Shaped, RestShaped
    <3> QED BY <1>1, <3>1, <3>2, DriveLands
  <2>3. RestShaped'
    BY <1>1, <2>2, LateTypes DEF RestShaped, ShapeOK
  <2> QED BY <2>1, <2>2, <2>3 DEF Shaped
<1>2. ASSUME NEW c \in late, LateCall(c) PROVE Shaped'
  <2>1. c \in DriveState /\ ShapeOK(c)
    BY <1>2 DEF Shaped, RestShaped
  <2>2. StoreTypeOK' /\ begins' \in [RunId -> Nat]
    <3>1. CASE UNCHANGED <<run, ledger, begins>>
      BY <3>1 DEF Shaped, RestShaped, StoreTypeOK
    <3>2. CASE Lands(c)
      BY <2>1, <3>2, LandsTypes DEF Shaped, RestShaped
    <3> QED BY <1>2, <3>1, <3>2 DEF LateCall
  <2> QED BY <1>2, <2>2 DEF LateCall, Shaped, RestShaped, DrivesShaped, ShapeOK
<1>3. ASSUME NEW r \in RunId, StartJobRun(r) \/ EraseSubject(r) \/ TimePasses(r) PROVE Shaped'
  <2>1. StoreTypeOK'
    BY <1>3, StoreTypes DEF Shaped, StartJobRun, EraseSubject, TimePasses
  <2>2. UNCHANGED <<drive, late, begins>> /\ hiccups' \in Nat
    BY <1>3 DEF StartJobRun, EraseSubject, TimePasses, Hiccup, Shaped, RestShaped
  <2> QED BY <2>1, <2>2 DEF Shaped, RestShaped, DrivesShaped, ShapeOK
<1>4. CASE UNCHANGED vars
  BY <1>4 DEF vars, Shaped, RestShaped, DrivesShaped, ShapeOK, StoreTypeOK
<1> QED BY <1>1, <1>2, <1>3, <1>4 DEF Next, DriveFault

LEMMA ShapedInit == Init => Shaped
BY IdleShaped, StoreAssumption
   DEF Init, StoreInit, Shaped, DrivesShaped, RestShaped, StoreTypeOK, RunRow, NoRun, Due,
       StepRow, NoSteps, ShapeOK

(* Every row, every drive and every call in flight is well formed. *)
THEOREM TypeCorrect == Spec => []TypeOK
<1>1. Shaped => TypeOK
  BY DEF Shaped, DrivesShaped, RestShaped, TypeOK
<1> QED BY ShapedInit, ShapedStep, <1>1, PTL DEF Spec

-----------------------------------------------------------------------------
(* A call that lands writes one live row and never marks it redacted: a    *)
(* run that has ended is out of every drive's reach.                       *)

LEMMA RowsKeepRedaction ==
  ASSUME NEW row \in RunRow, NEW o, NEW p
  PROVE  /\ Claimed(row, o).redacted = row.redacted
         /\ Begun(row).redacted = row.redacted
         /\ Missed(row).redacted = row.redacted
         /\ Renewed(row).redacted = row.redacted
         /\ Nearer(row).redacted = row.redacted
         /\ Patched(row, p).redacted = row.redacted
BY DEF RunRow, Claimed, Begun, Missed, Renewed, Nearer, Patched

LEMMA LandsOnLive ==
  ASSUME StoreTypeOK, NEW s \in DriveState, ShapeOK(s), Lands(s)
  PROVE  /\ run[s.run].status = Live
         /\ \A r \in RunId : r # s.run => run'[r] = run[r] /\ ledger'[r] = ledger[r]
         /\ run'[s.run].redacted = run[s.run].redacted
<1>1. s.run \in RunId /\ run[s.run] \in RunRow
  BY DEF Lands, ShapeOK, StoreTypeOK
<1>2. run[s.run].status = Live
  BY DEF Lands, Claim, CanClaim, Begin, CanBegin, Miss, CanMiss, BeginStep, RecordStep, Renew,
         CommitPass, PatchRun, Holds
<1>3. \E row : /\ run' = [run EXCEPT ![s.run] = row]
               /\ row.redacted = run[s.run].redacted
  BY <1>1, RowsKeepRedaction
     DEF Lands, Claim, Begin, Miss, BeginStep, RecordStep, Renew, CommitPass, PatchRun
<1>4. \/ UNCHANGED ledger
      \/ \E rows : ledger' = [ledger EXCEPT ![s.run] = rows]
  BY DEF Lands, Claim, Begin, Miss, BeginStep, RecordStep, Renew, CommitPass, PatchRun
<1>5. \A r \in RunId : r # s.run => run'[r] = run[r]
  BY <1>1, <1>3 DEF StoreTypeOK
<1>6. \A r \in RunId : r # s.run => ledger'[r] = ledger[r]
  BY <1>1, <1>4 DEF StoreTypeOK
<1>7. run'[s.run].redacted = run[s.run].redacted
  BY <1>1, <1>3 DEF StoreTypeOK
<1> QED BY <1>2, <1>5, <1>6, <1>7

LEMMA LandsKeepsSteps ==
  ASSUME StoreTypeOK, StepsBounded, NEW s \in DriveState, ShapeOK(s), Lands(s)
  PROVE  StepsBounded'
<1> USE DriverAssumption
<1>1. s.run \in RunId
  BY DEF Lands, ShapeOK
<1>2. CASE UNCHANGED ledger
  BY <1>2 DEF StepsBounded
<1>3. CASE ledger' = [ledger EXCEPT ![s.run] = NoSteps]
  <2>1. \A e \in Step : NoSteps[e].attempts = 0 /\ StepMax[e] \in Nat
    BY DEF NoSteps
  <2> QED BY <1>1, <1>3, <2>1 DEF StepsBounded, StoreTypeOK
<1>4. CASE /\ s.pc = "record"
           /\ ledger' = [ledger EXCEPT ![s.run] = [ledger[s.run] EXCEPT ![s.step] =
                [result |-> IF s.ok THEN s.counters ELSE Null, attempts |-> s.tries]]]
  <2>1. s.step \in Step /\ s.tries <= StepMax[s.step]
    BY <1>4 DEF ShapeOK
  <2> DEFINE rows == [ledger[s.run] EXCEPT ![s.step] =
                [result |-> IF s.ok THEN s.counters ELSE Null, attempts |-> s.tries]]
  <2>2. \A e \in Step : rows[e].attempts <= StepMax[e]
    BY <1>1, <2>1 DEF StepsBounded, StoreTypeOK
  <2>3. ledger' = [ledger EXCEPT ![s.run] = rows]
    BY <1>4
  <2> HIDE DEF rows
  <2> QED BY <1>1, <2>2, <2>3 DEF StepsBounded, StoreTypeOK
<1> QED BY <1>2, <1>3, <1>4
     DEF Lands, Claim, Begin, Miss, BeginStep, RecordStep, CommitPass, PatchRun

(* What holds of the store whatever the drives' copies say. *)
Settled == Shaped /\ OneLiveRun /\ ErasedStaysErased /\ StepsBounded

LEMMA LandsSettled ==
  ASSUME Settled, NEW s \in DriveState, ShapeOK(s), Lands(s)
  PROVE  OneLiveRun' /\ ErasedStaysErased' /\ StepsBounded'
<1> USE DEF Settled, Shaped
<1>1. \A r \in RunId : /\ run'[r].status = Live => run[r].status = Live
                       /\ run'[r].redacted => run[r].redacted
  BY LandsOnLive
<1>2. OneLiveRun'
  BY <1>1 DEF OneLiveRun
<1>3. ASSUME NEW r \in RunId, run'[r].redacted
      PROVE  run'[r] = run[r] /\ ledger'[r] = ledger[r] /\ run[r].redacted
  BY <1>1, <1>3, LandsOnLive DEF ErasedStaysErased, Terminal, Live
<1>4. ErasedStaysErased'
  BY <1>3 DEF ErasedStaysErased
<1> QED BY <1>2, <1>4, LandsKeepsSteps

LEMMA StartSettled ==
  ASSUME Settled, NEW r \in RunId, StartOrJoin(r)
  PROVE  OneLiveRun' /\ ErasedStaysErased' /\ StepsBounded'
<1> USE DEF Settled, Shaped, StoreTypeOK
<1>1. FreshRun.status = Live /\ FreshRun.redacted = FALSE
  BY DEF FreshRun, NoRun
<1>2. OneLiveRun'
  BY DEF StartOrJoin, LiveRunOf, OneLiveRun
<1>3. ErasedStaysErased'
  BY <1>1 DEF StartOrJoin, ErasedStaysErased
<1>4. StepsBounded'
  BY DEF StartOrJoin, StepsBounded
<1> QED BY <1>2, <1>3, <1>4

LEMMA EraseSettled ==
  ASSUME Settled, NEW r \in RunId, Erase(r)
  PROVE  OneLiveRun' /\ ErasedStaysErased' /\ StepsBounded'
<1> USE DEF Settled, Shaped, StoreTypeOK
<1>0. run[r] \in RunRow
  OBVIOUS
<1>1. /\ Redacted(run[r]).status \in Terminal
      /\ Redacted(run[r]).cursor \in {Null, Tombstone}
  BY <1>0 DEF Erase, Redacted, Redaction, RunRow, Terminal, Live
<1>2. \A e \in Step : /\ RedactedSteps(ledger[r])[e].result \in {Null, Tombstone}
                      /\ RedactedSteps(ledger[r])[e].attempts = ledger[r][e].attempts
  BY DEF RedactedSteps, Redaction
<1>3. /\ run'[r] = Redacted(run[r]) /\ ledger'[r] = RedactedSteps(ledger[r])
      /\ \A q \in RunId : q # r => run'[q] = run[q] /\ ledger'[q] = ledger[q]
  BY DEF Erase
<1>4. \A q \in RunId : run'[q].status = Live => run[q].status = Live
  BY <1>1, <1>3 DEF Terminal, Live
<1>5. OneLiveRun'
  BY <1>4 DEF OneLiveRun
<1>6. ErasedStaysErased'
  <2> SUFFICES ASSUME NEW q \in RunId, run'[q].redacted
               PROVE  /\ run'[q].status \in Terminal
                      /\ run'[q].cursor \in {Null, Tombstone}
                      /\ \A e \in Step : ledger'[q][e].result \in {Null, Tombstone}
    BY DEF ErasedStaysErased
  <2>1. CASE q = r
    BY <1>1, <1>2, <1>3, <2>1
  <2>2. CASE q # r
    BY <1>3, <2>2 DEF ErasedStaysErased
  <2> QED BY <2>1, <2>2
<1>7. StepsBounded'
  BY <1>2, <1>3 DEF StepsBounded
<1> QED BY <1>5, <1>6, <1>7

LEMMA ElapseSettled ==
  ASSUME Settled, NEW r \in RunId, Elapse(r)
  PROVE  OneLiveRun' /\ ErasedStaysErased' /\ StepsBounded'
<1> USE DEF Settled, Shaped, StoreTypeOK
<1>0. run[r] \in RunRow
  OBVIOUS
<1>1. /\ Nearer(run[r]).redacted = run[r].redacted
      /\ Nearer(run[r]).status = run[r].status
      /\ Nearer(run[r]).cursor = run[r].cursor
  BY <1>0 DEF RunRow, Nearer
<1>2. \A q \in RunId : /\ run'[q].redacted = run[q].redacted
                       /\ run'[q].status = run[q].status
                       /\ run'[q].cursor = run[q].cursor
  BY <1>1 DEF Elapse
<1>3. ledger' = ledger
  BY DEF Elapse
<1> QED BY <1>2, <1>3 DEF OneLiveRun, ErasedStaysErased, StepsBounded

LEMMA SettledStep == ASSUME Settled, [Next]_vars PROVE Settled'
<1>0. Shaped'
  BY ShapedStep DEF Settled
<1>s. CASE UNCHANGED <<run, ledger>>
  BY <1>0, <1>s DEF Settled, OneLiveRun, ErasedStaysErased, StepsBounded
<1>1. ASSUME NEW d \in Drive, DriveStep(d) \/ DriveFault(d) PROVE Settled'
  <2>1. drive[d] \in DriveState /\ ShapeOK(drive[d])
    BY DEF Settled, Shaped, DrivesShaped
  <2> QED BY <1>0, <1>1, <1>s, <2>1, DriveLands, LandsSettled DEF Settled
<1>2. ASSUME NEW c \in late, LateCall(c) PROVE Settled'
  <2>1. c \in DriveState /\ ShapeOK(c)
    BY DEF Settled, Shaped, RestShaped
  <2> QED BY <1>0, <1>2, <1>s, <2>1, LandsSettled DEF Settled, LateCall
<1>3. ASSUME NEW r \in RunId, StartJobRun(r) \/ EraseSubject(r) \/ TimePasses(r)
      PROVE  Settled'
  BY <1>0, <1>3, StartSettled, EraseSettled, ElapseSettled
     DEF Settled, StartJobRun, EraseSubject, TimePasses
<1>4. CASE UNCHANGED vars
  BY <1>4, <1>s DEF vars
<1> QED BY <1>1, <1>2, <1>3, <1>4 DEF Next, DriveFault

LEMMA SettledInit == Init => Settled
<1> SUFFICES ASSUME Init PROVE Settled
  OBVIOUS
<1>1. \A r \in RunId : run[r].status = "absent" /\ run[r].redacted = FALSE
  BY DEF Init, StoreInit, NoRun
<1>2. \A r \in RunId, e \in Step : ledger[r][e].attempts = 0
  BY DEF Init, StoreInit, NoSteps
<1> QED BY <1>1, <1>2, ShapedInit, DriverAssumption
     DEF Settled, OneLiveRun, ErasedStaysErased, StepsBounded, Live

(* Coalescing, for any number of starts, drives and keys: a run that ended *)
(* is never set running again, so the check at its start stays good.       *)
THEOREM Coalesces == Spec => []OneLiveRun
BY SettledInit, SettledStep, PTL DEF Spec, Settled

(* An erasure is final, whatever pass is in flight when it lands. *)
THEOREM ErasureIsFinal == Spec => []ErasedStaysErased
BY SettledInit, SettledStep, PTL DEF Spec, Settled

(* No step is recorded past its own retry policy. *)
THEOREM StepsStayBounded == Spec => []StepsBounded
BY SettledInit, SettledStep, PTL DEF Spec, Settled

-----------------------------------------------------------------------------
(* What a drive's copy of the row says beyond AgreesWith: while it holds   *)
(* the run, its cursor and attempts are the row's, and the step it runs is *)
(* the ledger's next attempt.                                              *)
Follows(s, row, steps) ==
  s.pc # "idle" /\ row.status = Live /\ row.owner = s.owner =>
    /\ s.pc \in Copying => s.cursor = row.cursor /\ s.attempts = row.attempts
    /\ s.pc \in {"exec", "record"} =>
         /\ steps[s.step].result = Null
         /\ s.tries = steps[s.step].attempts + 1

(* new is old as far as the holder o can tell: if o holds it now, o held   *)
(* it before, and nothing of the walk has moved.                           *)
KeptFor(o, old, new) ==
  new.status = Live /\ new.owner = o =>
    /\ old.status = Live /\ old.owner = o
    /\ new.cursor = old.cursor /\ new.counters = old.counters /\ new.attempts = old.attempts
    /\ old.began => new.began

(* Every statement but the claim keeps the row for whoever holds it after. *)
LEMMA RowsKept ==
  ASSUME NEW row \in RunRow, NEW o \in Owner, NEW p \in Patch
  PROVE  /\ KeptFor(o, row, row)
         /\ KeptFor(o, row, Begun(row))
         /\ KeptFor(o, row, Missed(row))
         /\ KeptFor(o, row, Renewed(row))
         /\ KeptFor(o, row, Nearer(row))
         /\ KeptFor(o, row, Patched(row, p))
         /\ KeptFor(o, row, FreshRun)
         /\ row.status # "absent" => KeptFor(o, row, Redacted(row))
         /\ \A q : q # o => KeptFor(o, row, Claimed(row, q))
<1> USE StoreAssumption DEF KeptFor, RunRow
<1>1. KeptFor(o, row, row)
  OBVIOUS
<1>2. KeptFor(o, row, Begun(row))
  BY DEF Begun
<1>3. KeptFor(o, row, Missed(row))
  BY DEF Missed
<1>4. KeptFor(o, row, Renewed(row))
  BY DEF Renewed
<1>5. KeptFor(o, row, Nearer(row))
  BY DEF Nearer
<1>6. KeptFor(o, row, Patched(row, p))
  BY DEF Patched
<1>7. KeptFor(o, row, FreshRun)
  BY DEF FreshRun, NoRun
<1>8. row.status # "absent" => KeptFor(o, row, Redacted(row))
  BY DEF Redacted, Live
<1>9. \A q : q # o => KeptFor(o, row, Claimed(row, q))
  BY DEF Claimed
<1> QED BY <1>1, <1>2, <1>3, <1>4, <1>5, <1>6, <1>7, <1>8, <1>9

(* So a call that lands keeps every row for every other owner, and the     *)
(* ledger except for the step its own pass records.                        *)
LEMMA LandsKeeps ==
  ASSUME StoreTypeOK, NEW s \in DriveState, ShapeOK(s), Lands(s), NEW r \in RunId, NEW o \in Owner,
         ~(s.pc = "claim" /\ s.owner = o)
  PROVE  /\ KeptFor(o, run[r], run'[r])
         /\ run'[r].status = Live /\ run'[r].owner = o =>
              \A e \in Step : \/ ledger'[r][e] = ledger[r][e]
                              \/ s.pc = "record" /\ s.owner = o /\ s.step = e
<1>1. /\ s.run \in RunId /\ s.owner \in Owner /\ s.patch \in Patch
      /\ run[s.run] \in RunRow /\ run[r] \in RunRow
      /\ s.pc = "record" => s.step \in Step
  BY DEF Lands, ShapeOK, StoreTypeOK, DriveState
<1>2. KeptFor(o, run[r], run'[r])
  <2>1. CASE r # s.run
    BY <1>1, <2>1, LandsOnLive, RowsKept
  <2>2. CASE r = s.run
    BY <1>1, <2>2, RowsKept
       DEF Lands, Claim, Begin, Miss, BeginStep, RecordStep, Renew, CommitPass, PatchRun,
           StoreTypeOK
  <2> QED BY <2>1, <2>2
<1>3. ASSUME run'[r].status = Live, run'[r].owner = o, NEW e \in Step
      PROVE  \/ ledger'[r][e] = ledger[r][e]
             \/ s.pc = "record" /\ s.owner = o /\ s.step = e
  <2>1. CASE r # s.run
    BY <2>1, LandsOnLive
  <2>2. CASE r = s.run /\ s.pc = "commit"
    <3>1. run'[r] = Patched(run[r], s.patch)
      BY <1>1, <2>2 DEF Lands, CommitPass, StoreTypeOK
    <3>2. run'[r].owner = Null
      BY <1>1, <3>1 DEF Patched, RunRow
    <3> QED BY <1>3, <3>2, StoreAssumption
  <2>3. CASE r = s.run /\ s.pc = "record"
    <3>1. run[r].owner = s.owner
      BY <2>3 DEF Lands, RecordStep, Renew, Holds
    <3>2. run'[r].owner = run[r].owner
      BY <1>1, <2>3 DEF Lands, RecordStep, Renew, Renewed, StoreTypeOK, RunRow
    <3>3. ledger[r] \in [Step -> StepRow]
      BY DEF StoreTypeOK
    <3>4. ledger'[r] = [ledger[r] EXCEPT ![s.step] =
            [result |-> IF s.ok THEN s.counters ELSE Null, attempts |-> s.tries]]
      BY <1>1, <2>3 DEF Lands, RecordStep, StoreTypeOK
    <3>5. s.step # e => ledger'[r][e] = ledger[r][e]
      BY <3>3, <3>4
    <3> QED BY <1>3, <2>3, <3>1, <3>2, <3>5
  <2>4. CASE s.pc # "commit" /\ s.pc # "record"
    BY <2>4 DEF Lands, Claim, Begin, Miss, BeginStep, PatchRun
  <2> QED BY <2>1, <2>2, <2>3, <2>4
<1> QED BY <1>2, <1>3

(* A party that does not move stays in agreement with a row kept for it. *)
LEMMA AgreesKept ==
  ASSUME NEW s, NEW old, NEW new, s.pc # "idle" => KeptFor(s.owner, old, new),
         AgreesWith(s, old)
  PROVE  AgreesWith(s, new)
BY DEF AgreesWith, KeptFor

LEMMA FollowsKept ==
  ASSUME NEW s, NEW old, NEW new, NEW steps, NEW newSteps,
         s.pc # "idle" => KeptFor(s.owner, old, new),
         Follows(s, old, steps),
         new.status = Live /\ new.owner = s.owner /\ s.pc \in {"exec", "record"} =>
           newSteps[s.step] = steps[s.step]
  PROVE  Follows(s, new, newSteps)
BY DEF Follows, KeptFor

-----------------------------------------------------------------------------
(* How a drive moves: it mints an owner, goes idle, or goes on under the   *)
(* owner it has, and then past the begin it stays past it.                 *)
Mints(d, x) ==
  /\ drive[d].pc = "idle" /\ x.pc = "claim"
  /\ x.owner \in Owner \ InUse

Continues(s, x) ==
  /\ s.pc # "idle" /\ x.pc \notin {"idle", "claim"}
  /\ x.owner = s.owner /\ x.run = s.run
  /\ s.pc \in PastBegin => x.pc \in PastBegin
  /\ x.pc \in {"pass"} \cup InStep =>
       s.pc \in {"begin", "pass"} \cup InStep /\ s.used \subseteq x.used
  /\ x.pc \in InStep =>
       \/ s.pc \in InStep /\ x.step = s.step
       \/ s.pc = "pass" /\ x.step \in x.used /\ x.step \notin s.used

LEMMA Continuations ==
  ASSUME NEW s \in DriveState, s.pc # "idle"
  PROVE  /\ \A c, n, m, t : s.pc = "claim" =>
              Continues(s, [s EXCEPT !.pc = "claimed", !.cursor = c, !.counters = n,
                                     !.attempts = m, !.takeover = t])
         /\ \A pc \in {"begin", "miss"} : s.pc \in {"claimed", "begin"} =>
              Continues(s, [s EXCEPT !.pc = pc])
         /\ s.pc \in {"begin", "pass"} \cup InStep =>
              Continues(s, [s EXCEPT !.pc = "pass", !.takeover = FALSE, !.step = Null,
                                     !.tries = 0, !.ok = FALSE])
         /\ \A p : Continues(s, [Idle EXCEPT !.pc = "settle", !.run = s.run,
                                             !.owner = s.owner, !.patch = p])
         /\ \A e \in Step : s.pc = "pass" /\ e \notin s.used =>
              Continues(s, [[s EXCEPT !.pc = "step"] EXCEPT !.step = e, !.used = s.used \cup {e}])
         /\ \A n : s.pc = "step" => Continues(s, [[s EXCEPT !.pc = "exec"] EXCEPT !.tries = n])
         /\ \A ok : s.pc = "exec" => Continues(s, [[s EXCEPT !.pc = "record"] EXCEPT !.ok = ok])
         /\ \A p : s.pc = "pass" =>
              Continues(s, [[s EXCEPT !.pc = "commit"] EXCEPT !.used = {}, !.patch = p])
<1> USE DEF Continues, DriveState, PastBegin, InStep
<1>1. \A c, n, m, t : s.pc = "claim" =>
        Continues(s, [s EXCEPT !.pc = "claimed", !.cursor = c, !.counters = n,
                               !.attempts = m, !.takeover = t])
  OBVIOUS
<1>2. \A pc \in {"begin", "miss"} : s.pc \in {"claimed", "begin"} =>
        Continues(s, [s EXCEPT !.pc = pc])
  OBVIOUS
<1>3. s.pc \in {"begin", "pass"} \cup InStep =>
        Continues(s, [s EXCEPT !.pc = "pass", !.takeover = FALSE, !.step = Null,
                               !.tries = 0, !.ok = FALSE])
  OBVIOUS
<1>4. \A p : Continues(s, [Idle EXCEPT !.pc = "settle", !.run = s.run,
                                      !.owner = s.owner, !.patch = p])
  BY DEF Idle
<1>5. \A e \in Step : s.pc = "pass" /\ e \notin s.used =>
        Continues(s, [[s EXCEPT !.pc = "step"] EXCEPT !.step = e, !.used = s.used \cup {e}])
  OBVIOUS
<1>6. \A n : s.pc = "step" => Continues(s, [[s EXCEPT !.pc = "exec"] EXCEPT !.tries = n])
  OBVIOUS
<1>7. \A ok : s.pc = "exec" => Continues(s, [[s EXCEPT !.pc = "record"] EXCEPT !.ok = ok])
  OBVIOUS
<1>8. \A p : s.pc = "pass" =>
        Continues(s, [[s EXCEPT !.pc = "commit"] EXCEPT !.used = {}, !.patch = p])
  OBVIOUS
<1> QED BY <1>1, <1>2, <1>3, <1>4, <1>5, <1>6, <1>7, <1>8

(* The ways a pass ends or goes back to its handler. *)
LEMMA EndingMoves ==
  ASSUME DrivesShaped, NEW d \in Drive, drive[d].pc # "idle"
  PROVE  /\ \A p : Become(d, Settling(d, p)) =>
              \E x : Become(d, x) /\ Continues(drive[d], x)
         /\ PassFails(d) \/ PassDefers(d) =>
              \E x : Become(d, x) /\ Continues(drive[d], x)
         /\ drive[d].pc \in {"begin", "pass"} \cup InStep /\ Become(d, InHandler(d)) =>
              \E x : Become(d, x) /\ Continues(drive[d], x)
         /\ \A n : drive[d].pc \in InStep /\ StepFails(d, n) =>
              \E x : Become(d, x) /\ Continues(drive[d], x)
         /\ drive[d].pc \in InStep /\ LosesLease(d) =>
              \/ Become(d, Idle)
              \/ \E x : Become(d, x) /\ Continues(drive[d], x)
<1>0. drive[d] \in DriveState
  BY DriveFacts
<1>1. \A p : Continues(drive[d], Settling(d, p))
  BY <1>0, Continuations DEF Settling
<1>2. drive[d].pc \in {"begin", "pass"} \cup InStep => Continues(drive[d], InHandler(d))
  BY <1>0, Continuations DEF InHandler
<1>3. PassFails(d) \/ PassDefers(d) => \E p : Become(d, Settling(d, p))
  BY DEF PassFails, PassDefers
<1>4. \A n : StepFails(d, n) => (\E p : Become(d, Settling(d, p))) \/ Become(d, InHandler(d))
  BY DEF StepFails
<1> QED BY <1>1, <1>2, <1>3, <1>4 DEF LosesLease

LEMMA DriveMoves ==
  ASSUME DrivesShaped, NEW d \in Drive, DriveStep(d) \/ DriveFault(d)
  PROVE  \E x : /\ Become(d, x)
                /\ x = Idle \/ Mints(d, x) \/ Continues(drive[d], x)
<1> DEFINE Goes == Become(d, Idle) \/ \E x : Become(d, x) /\ Continues(drive[d], x)
<1> SUFFICES Goes \/ \E x : Become(d, x) /\ Mints(d, x)
  OBVIOUS
<1> USE DEF At, InStep, Handling
<1>1. ASSUME NEW r \in RunId, Pick(d, r) PROVE \E x : Become(d, x) /\ Mints(d, x)
  <2>1. PICK o \in Owner \ InUse :
          Become(d, [Idle EXCEPT !.pc = "claim", !.run = r, !.owner = o])
    BY <1>1 DEF Pick
  <2>2. Mints(d, [Idle EXCEPT !.pc = "claim", !.run = r, !.owner = o])
    BY <1>1 DEF Pick, Mints, Idle
  <2> QED BY <2>1, <2>2
<1>a. drive[d].pc # "idle" => drive[d] \in DriveState
  BY DriveFacts
<1>2. CASE ClaimRun(d)
  <2>1. drive[d].pc = "claim" /\ (Become(d, Idle) \/ Become(d, ClaimedBy(d)))
    BY <1>2 DEF ClaimRun
  <2>2. Continues(drive[d], ClaimedBy(d))
    BY <1>a, <2>1, Continuations DEF ClaimedBy
  <2> QED BY <2>1, <2>2
<1>3. CASE FailTakeover(d)
  BY <1>3, EndingMoves DEF FailTakeover
<1>4. CASE SendBegin(d) \/ SendMiss(d)
  BY <1>4, <1>a, Continuations DEF SendBegin, SendMiss, GoTo
<1>5. CASE BeginPass(d)
  BY <1>5, <1>a, Continuations, EndingMoves DEF BeginPass, GoTo
<1>6. CASE MissPass(d) \/ HandlerDies(d) \/ CommitsPass(d) \/ SettlesPass(d) \/ DriveStops(d)
  BY <1>6 DEF MissPass, HandlerDies, CommitsPass, SettlesPass, DriveStops
<1>7. ASSUME NEW e \in Step, CallStep(d, e) PROVE Goes
  <2> DEFINE x == [[drive[d] EXCEPT !.pc = "step"] EXCEPT
                     !.step = e, !.used = drive[d].used \cup {e}]
  <2>1. drive[d].pc = "pass" /\ e \notin drive[d].used /\ Become(d, x)
    BY <1>7 DEF CallStep, GoTo
  <2>2. Continues(drive[d], x)
    BY <1>a, <2>1, Continuations
  <2> QED BY <2>1, <2>2
<1>8. CASE StepBoundary(d)
  BY <1>8, <1>a, Continuations, EndingMoves DEF StepBoundary, EnterStep, GoTo
<1>9. CASE StepEnds(d)
  BY <1>9, <1>a, Continuations DEF StepEnds, GoTo
<1>10. CASE RecordAttempt(d)
  BY <1>10, <1>a, EndingMoves DEF RecordAttempt
<1>11. CASE HandlerReturns(d)
  <2> DEFINE x(p) == [[drive[d] EXCEPT !.pc = "commit"] EXCEPT !.used = {}, !.patch = p]
  <2>1. drive[d].pc = "pass" /\ \E p : Become(d, x(p))
    BY <1>11 DEF HandlerReturns, GoTo
  <2>2. \A p : Continues(drive[d], x(p))
    BY <1>a, <2>1, Continuations
  <2> HIDE DEF x
  <2> QED BY <2>1, <2>2
<1>12. CASE HandlerThrows(d)
  BY <1>12, EndingMoves DEF HandlerThrows
<1>13. CASE DoorSaysWait(d)
  BY <1>13, EndingMoves DEF DoorSaysWait
<1>14. CASE CallFails(d)
  BY <1>14, EndingMoves DEF CallFails
<1> QED BY <1>1, <1>2, <1>3, <1>4, <1>5, <1>6, <1>7, <1>8, <1>9, <1>10, <1>11, <1>12, <1>13, <1>14
     DEF DriveStep, DriveFault

(* A drive abandons a call by going idle, or by ending the pass or going   *)
(* back to the handler from a call of the pass.                            *)
Leaves(d, x) ==
  /\ late' = late \cup {Sent(d)}
  /\ drive[d].pc \in Calling
  /\ UNCHANGED <<run, ledger, begins>>
  /\ \/ x = Idle
     \/ drive[d].pc \in {"step", "record", "commit"} /\ x.pc = "settle"
     \/ drive[d].pc \in {"step", "record"} /\ x = InHandler(d)

LEMMA DriveLeaves ==
  ASSUME DrivesShaped, NEW d \in Drive, DriveStep(d) \/ DriveFault(d)
  PROVE  late' = late \/ Leaves(d, drive'[d])
<1>1. DriveStep(d) \/ DoorSaysWait(d) => late' = late
  BY DEF DriveStep, Pick, ClaimRun, FailTakeover, SendBegin, SendMiss, BeginPass, MissPass,
         CallStep, StepBoundary, StepEnds, RecordAttempt, HandlerReturns, HandlerThrows,
         HandlerDies, CommitsPass, SettlesPass, DoorSaysWait
<1>2. \A x : Become(d, x) => drive'[d] = x
  BY DEF DrivesShaped, Become
<1>3. CASE CallFails(d)
  <2>1. CASE PassFails(d)
    <3>1. drive'[d].pc = "settle"
      BY <1>2, <2>1 DEF PassFails, Settling, Idle
    <3> QED BY <1>3, <3>1 DEF CallFails, Abandons, Leaves
  <2>2. CASE ~At(d, "commit") /\ Become(d, InHandler(d))
    BY <1>2, <1>3, <2>2 DEF CallFails, Abandons, Leaves, At
  <2> QED BY <1>3, <2>1, <2>2 DEF CallFails
<1>4. CASE DriveStops(d)
  BY <1>2, <1>4 DEF DriveStops, Abandons, Leaves
<1> QED BY <1>1, <1>3, <1>4 DEF DriveFault

(* Only a claim puts an owner on a row. *)
LEMMA LandsOwner ==
  ASSUME StoreTypeOK, NEW s \in DriveState, ShapeOK(s), Lands(s), NEW r \in RunId
  PROVE  \/ run'[r].owner \in {run[r].owner, Null}
         \/ s.pc = "claim" /\ run'[r].owner = s.owner
<1>1. CASE r # s.run
  BY <1>1, LandsOnLive
<1>2. CASE r = s.run
  <2>1. run[r] \in RunRow /\ r \in DOMAIN run
    BY DEF StoreTypeOK
  <2>2. /\ \A o : Claimed(run[r], o).owner = o
        /\ Begun(run[r]).owner = run[r].owner
        /\ Missed(run[r]).owner = Null
        /\ Renewed(run[r]).owner = run[r].owner
        /\ \A p : Patched(run[r], p).owner = Null
    BY <2>1 DEF RunRow, Claimed, Begun, Missed, Renewed, Patched
  <2> QED BY <1>2, <2>1, <2>2
       DEF Lands, Claim, Begin, Miss, BeginStep, RecordStep, Renew, CommitPass, PatchRun
<1> QED BY <1>1, <1>2

(* Who owns what: the part of the invariant that is about identities. *)
Owned == OwnersAreFresh /\ StepIsUsed /\ LateIsPast

LEMMA DriveOwned ==
  ASSUME Shaped, Owned, NEW d \in Drive, DriveStep(d) \/ DriveFault(d)
  PROVE  Owned'
<1> USE StoreAssumption DEF Shaped, Owned
<1>1. PICK x : Become(d, x) /\ (x = Idle \/ Mints(d, x) \/ Continues(drive[d], x))
  BY DriveMoves
<1>2. /\ drive'[d] = x
      /\ \A e \in Drive : e # d => drive'[e] = drive[e]
  BY <1>1 DEF Become, DrivesShaped
<1>3. /\ Idle.pc = "idle" /\ Idle.owner = Null
      /\ \A e \in Drive : drive[e].pc # "idle" => drive[e].owner \in Owner
  BY DEF Idle, DrivesShaped, ShapeOK
<1>4. Mints(d, x) => /\ x.owner \in Owner
                     /\ \A e \in Drive : drive[e].owner # x.owner
                     /\ \A r \in RunId : run[r].owner # x.owner
                     /\ \A c \in late : c.owner # x.owner
  BY DEF Mints, InUse
<1>5. /\ \/ late' = late
         \/ Leaves(d, x)
      /\ Sent(d).pc = drive[d].pc /\ Sent(d).owner = drive[d].owner
      /\ Sent(d).step = drive[d].step
  <2>1. drive[d] \in DriveState
    BY DEF DrivesShaped
  <2> QED BY <1>2, <2>1, DriveLeaves DEF Sent, DriveState
<1>6. \A r \in RunId : \/ run'[r].owner \in {run[r].owner, Null}
                       \/ drive[d].pc = "claim" /\ run'[r].owner = drive[d].owner
  <2>1. drive[d] \in DriveState /\ ShapeOK(drive[d])
    BY DEF DrivesShaped
  <2> QED BY <2>1, DriveLands, LandsOwner
<1>7. \A e, f \in Drive : drive'[e].pc # "idle" /\ drive'[e].owner = drive'[f].owner => e = f
  BY <1>1, <1>2, <1>3, <1>4 DEF OwnersAreFresh, Continues
<1>8. StepIsUsed'
  BY <1>1, <1>2, <1>3 DEF StepIsUsed, Continues, Mints, InStep
<1>9. \A c \in late, e \in Drive : drive[e].owner = c.owner => drive[e].pc # "claim"
  BY DEF LateIsPast, PastBegin, InStep
<1>10. \A e \in Drive, r \in RunId : drive'[e].pc = "claim" => run'[r].owner # drive'[e].owner
  <2> SUFFICES ASSUME NEW e \in Drive, NEW r \in RunId, drive'[e].pc = "claim"
               PROVE  run'[r].owner # drive'[e].owner
    OBVIOUS
  <2>1. CASE e = d
    <3>1. Mints(d, x)
      BY <1>1, <1>2, <1>3, <2>1 DEF Continues
    <3>2. drive[d].pc = "idle"
      BY <3>1 DEF Mints
    <3> QED BY <1>2, <1>4, <1>6, <2>1, <3>1, <3>2
  <2>2. CASE e # d
    <3>1. drive'[e] = drive[e] /\ drive[e].owner \in Owner /\ drive[e].owner # run[r].owner
      BY <1>2, <1>3, <2>2 DEF OwnersAreFresh, At
    <3>2. drive[d].pc = "claim" => drive[d].owner # drive[e].owner
      BY <2>2 DEF OwnersAreFresh
    <3> QED BY <1>6, <3>1, <3>2
  <2> QED BY <2>1, <2>2
<1>11. \A c \in late', r \in RunId : c.pc = "claim" => run'[r].owner # c.owner
  <2> SUFFICES ASSUME NEW c \in late', NEW r \in RunId, c.pc = "claim"
               PROVE  run'[r].owner # c.owner
    OBVIOUS
  <2>1. CASE c \in late
    <3>1. c.owner \in Owner /\ run[r].owner # c.owner
      BY <2>1 DEF OwnersAreFresh, RestShaped, ShapeOK
    <3>2. drive[d].owner # c.owner
      BY <2>1 DEF LateIsPast
    <3> QED BY <1>6, <3>1, <3>2
  <2>2. CASE c = Sent(d) /\ Leaves(d, x)
    BY <1>5, <2>2 DEF Leaves, OwnersAreFresh, At
  <2> QED BY <1>5, <2>1, <2>2 DEF Leaves
<1>12. OwnersAreFresh'
  BY <1>7, <1>10, <1>11 DEF OwnersAreFresh, At
<1>13. ASSUME NEW c \in late, NEW e \in Drive, drive'[e].owner = c.owner
      PROVE  /\ c.pc \in {"step", "record", "commit"}
             /\ drive'[e].pc \in PastBegin
             /\ c.pc = "record" /\ drive'[e].pc \in {"pass"} \cup InStep => c.step \in drive'[e].used
             /\ c.pc = "record" /\ drive'[e].pc \in InStep => c.step # drive'[e].step
  <2>1. CASE e # d
    BY <1>2, <1>13, <2>1 DEF LateIsPast
  <2>2. CASE e = d
    <3>1. c.owner \in Owner
      BY DEF RestShaped, ShapeOK, LateIsPast, Calling
    <3>2. Continues(drive[d], x)
      BY <1>1, <1>2, <1>3, <1>4, <1>13, <2>2, <3>1
    <3>3. drive[d].owner = c.owner
      BY <1>2, <1>13, <2>2, <3>2 DEF Continues
    <3>4. /\ c.pc \in {"step", "record", "commit"}
          /\ drive[d].pc \in PastBegin
          /\ c.pc = "record" /\ drive[d].pc \in {"pass"} \cup InStep => c.step \in drive[d].used
          /\ c.pc = "record" /\ drive[d].pc \in InStep => c.step # drive[d].step
      BY <3>3 DEF LateIsPast
    <3> QED BY <1>2, <2>2, <3>2, <3>4 DEF Continues, PastBegin, InStep
  <2> QED BY <2>1, <2>2
<1>14. ASSUME Leaves(d, x), NEW e \in Drive, drive'[e].owner = drive[d].owner
      PROVE  /\ drive[d].pc \in {"step", "record", "commit"}
             /\ drive'[e].pc \in PastBegin
             /\ drive[d].pc = "record" /\ drive'[e].pc \in {"pass"} \cup InStep =>
                  drive[d].step \in drive'[e].used
             /\ drive'[e].pc \notin InStep
  <2>1. drive[d].pc # "idle" /\ drive[d] \in DriveState
    BY <1>14 DEF Leaves, Calling, DrivesShaped
  <2>2. e = d
    BY <1>2, <1>14, <2>1 DEF OwnersAreFresh
  <2>3. x # Idle
    BY <1>2, <1>3, <1>14, <2>1, <2>2
  <2>4. InHandler(d).pc = "pass" /\ InHandler(d).used = drive[d].used
    BY <2>1 DEF InHandler, DriveState
  <2> QED BY <1>2, <1>14, <2>2, <2>3, <2>4 DEF Leaves, PastBegin, InStep, StepIsUsed
<1>15. LateIsPast'
  <2> SUFFICES ASSUME NEW c \in late'
               PROVE  /\ c.pc \in Calling
                      /\ c.pc = "claim" => \A b \in late' : b.owner = c.owner => b = c
                      /\ \A e \in Drive : drive'[e].owner = c.owner =>
                           /\ c.pc \in {"step", "record", "commit"}
                           /\ drive'[e].pc \in PastBegin
                           /\ c.pc = "record" /\ drive'[e].pc \in {"pass"} \cup InStep =>
                                c.step \in drive'[e].used
                           /\ c.pc = "record" /\ drive'[e].pc \in InStep =>
                                c.step # drive'[e].step
    BY DEF LateIsPast
  <2>1. c.pc \in Calling
    BY <1>5 DEF LateIsPast, Leaves
  <2>2. ASSUME c.pc = "claim", NEW b \in late', b.owner = c.owner PROVE b = c
    <3>1. CASE c \in late
      <4>1. drive[d].owner # c.owner
        BY <2>2, <3>1 DEF LateIsPast
      <4>2. b \in late
        BY <1>5, <2>2, <4>1 DEF Leaves
      <4> QED BY <2>2, <3>1, <4>2 DEF LateIsPast
    <3>2. CASE c \notin late
      <4>1. c = Sent(d) /\ drive[d].pc = "claim"
        BY <1>5, <2>2, <3>2 DEF Leaves
      <4>2. b \notin late
        BY <1>5, <1>9, <2>2, <4>1
      <4> QED BY <1>5, <4>1, <4>2 DEF Leaves
    <3> QED BY <3>1, <3>2
  <2>3. CASE c \in late
    BY <1>13, <2>1, <2>2, <2>3
  <2>4. CASE c \notin late
    <3>1. c = Sent(d) /\ Leaves(d, x)
      BY <1>5, <2>4 DEF Leaves
    <3> QED BY <1>5, <1>14, <2>1, <2>2, <3>1
  <2> QED BY <2>3, <2>4
<1> QED BY <1>8, <1>12, <1>15

LEMMA LateOwned ==
  ASSUME Shaped, Owned, NEW c \in late, LateCall(c)
  PROVE  Owned'
<1> USE StoreAssumption DEF Shaped, Owned
<1>1. drive' = drive /\ late' = late \ {c}
  BY DEF LateCall
<1>2. \A r \in RunId : \/ run'[r].owner \in {run[r].owner, Null}
                       \/ c.pc = "claim" /\ run'[r].owner = c.owner
  <2>1. c \in DriveState /\ ShapeOK(c)
    BY DEF RestShaped
  <2> QED BY <2>1, LandsOwner DEF LateCall
<1>3. StepIsUsed'
  BY <1>1 DEF StepIsUsed
<1>4. LateIsPast'
  BY <1>1 DEF LateIsPast
<1>5. ASSUME NEW e \in Drive, NEW r \in RunId, At(e, "claim")
      PROVE  run'[r].owner # drive[e].owner
  <2>1. drive[e].owner \in Owner /\ run[r].owner # drive[e].owner
    BY <1>5 DEF OwnersAreFresh, DrivesShaped, ShapeOK, At
  <2>2. c.owner # drive[e].owner
    BY <1>5 DEF LateIsPast, PastBegin, InStep, At
  <2> QED BY <1>2, <2>1, <2>2
<1>6. ASSUME NEW b \in late', NEW r \in RunId, b.pc = "claim"
      PROVE  run'[r].owner # b.owner
  <2>1. b \in late /\ b # c /\ b.owner \in Owner
    BY <1>1, <1>6 DEF RestShaped, ShapeOK
  <2>2. run[r].owner # b.owner /\ b.owner # c.owner
    BY <1>6, <2>1 DEF OwnersAreFresh, LateIsPast
  <2> QED BY <1>2, <2>1, <2>2
<1>7. OwnersAreFresh'
  BY <1>1, <1>5, <1>6 DEF OwnersAreFresh, At
<1> QED BY <1>3, <1>4, <1>7

(* What the caller, the erasure and the clock do to the rows. *)
Outside(r) == StartJobRun(r) \/ EraseSubject(r) \/ TimePasses(r)

LEMMA OutsideRows ==
  ASSUME StoreTypeOK, NEW r \in RunId, Outside(r)
  PROVE  /\ UNCHANGED <<drive, late, begins>>
         /\ \A q \in RunId : q # r => run'[q] = run[q] /\ ledger'[q] = ledger[q]
         /\ \/ run[r].status = "absent" /\ run'[r] = FreshRun /\ ledger'[r] = ledger[r]
            \/ /\ run[r].status # "absent" /\ r \in Subjects
               /\ run'[r] = Redacted(run[r]) /\ ledger'[r] = RedactedSteps(ledger[r])
            \/ run'[r] = Nearer(run[r]) /\ ledger'[r] = ledger[r]
BY DEF Outside, StartJobRun, StartOrJoin, EraseSubject, Erase, TimePasses, Elapse, StoreTypeOK

LEMMA OutsideKeeps ==
  ASSUME StoreTypeOK, NEW r \in RunId, Outside(r), NEW q \in RunId, NEW o \in Owner
  PROVE  /\ KeptFor(o, run[q], run'[q])
         /\ run'[q].status = Live /\ run'[q].owner = o => ledger'[q] = ledger[q]
         /\ run'[q].owner \in {run[q].owner, Null}
<1>1. run[q] \in RunRow /\ run[r] \in RunRow
  BY DEF StoreTypeOK
<1>2. PICK p : p \in Patch
  BY IdleShaped DEF DriveState
<1>3. KeptFor(o, run[q], run'[q])
  BY <1>1, <1>2, OutsideRows, RowsKept
<1>4. Redacted(run[r]).status # Live
  BY <1>1 DEF Redacted, RunRow, Live
<1>5. run'[q].status = Live /\ run'[q].owner = o => ledger'[q] = ledger[q]
  BY <1>4, OutsideRows
<1>6. /\ FreshRun.owner = Null
      /\ Redacted(run[r]).owner = run[r].owner
      /\ Nearer(run[r]).owner = run[r].owner
  BY <1>1 DEF FreshRun, NoRun, Redacted, Nearer, RunRow
<1> QED BY <1>3, <1>5, <1>6, OutsideRows

LEMMA OutsideOwned ==
  ASSUME Shaped, Owned, NEW r \in RunId, Outside(r)
  PROVE  Owned'
<1> USE StoreAssumption DEF Shaped, Owned
<1>1. drive' = drive /\ late' = late
  BY OutsideRows
<1>2. \A q \in RunId, o \in Owner : run'[q].owner = o => run[q].owner = o
  BY OutsideKeeps
<1>3. StepIsUsed' /\ LateIsPast'
  BY <1>1 DEF StepIsUsed, LateIsPast
<1>4. \A e \in Drive, q \in RunId : At(e, "claim") => run'[q].owner # drive[e].owner
  BY <1>2 DEF OwnersAreFresh, DrivesShaped, ShapeOK, At
<1>5. \A c \in late, q \in RunId : c.pc = "claim" => run'[q].owner # c.owner
  BY <1>2 DEF OwnersAreFresh, RestShaped, ShapeOK
<1>6. OwnersAreFresh'
  BY <1>1, <1>4, <1>5 DEF OwnersAreFresh, At
<1> QED BY <1>3, <1>6

LEMMA OwnedStep ==
  ASSUME Shaped, Owned, [Next]_vars
  PROVE  Owned'
<1>1. CASE UNCHANGED vars
  BY <1>1 DEF vars, Owned, OwnersAreFresh, StepIsUsed, LateIsPast, At
<1> QED BY <1>1, DriveOwned, LateOwned, OutsideOwned DEF Next, DriveFault, Outside

LEMMA OwnedInit == Init => Owned
BY DEF Init, Owned, OwnersAreFresh, StepIsUsed, LateIsPast, At, Idle, InStep

-----------------------------------------------------------------------------
(* A drive in agreement with its row moves to a state in agreement with    *)
(* the row its step leaves, as long as that is kept for it.                *)
Agreed(s, row, steps) == AgreesWith(s, row) /\ Follows(s, row, steps)

LEMMA UnheldAgrees ==
  /\ \A row, steps : Agreed(Idle, row, steps)
  /\ \A r, o, row, steps :
       Agreed([Idle EXCEPT !.pc = "claim", !.run = r, !.owner = o], row, steps)
BY DEF Agreed, AgreesWith, Follows, Idle, Copying, Handling

LEMMA ClaimedAgrees ==
  ASSUME NEW s \in DriveState, NEW row, NEW steps, NEW t
  PROVE  Agreed([s EXCEPT !.pc = "claimed", !.cursor = row.cursor, !.counters = row.counters,
                          !.attempts = row.attempts, !.takeover = t], row, steps)
BY DEF Agreed, AgreesWith, Follows, DriveState, Copying, Handling

LEMMA WaitingAgrees ==
  ASSUME NEW s \in DriveState, s.pc \in {"claimed", "begin"}, NEW row, NEW steps,
         Agreed(s, row, steps), NEW pc \in {"begin", "miss"}
  PROVE  Agreed([s EXCEPT !.pc = pc], row, steps)
BY DEF Agreed, AgreesWith, Follows, DriveState, Copying, Handling

LEMMA BackAgrees ==
  ASSUME NEW s \in DriveState, s.pc \in Copying,
         NEW old, NEW new, NEW steps, NEW newSteps,
         Agreed(s, old, steps), KeptFor(s.owner, old, new),
         new.status = Live /\ new.owner = s.owner =>
           new.began \/ s.pc \in {"step", "record", "commit"} \cup Handling
  PROVE  Agreed([s EXCEPT !.pc = "pass", !.takeover = FALSE, !.step = Null,
                          !.tries = 0, !.ok = FALSE], new, newSteps)
<1> DEFINE x == [s EXCEPT !.pc = "pass", !.takeover = FALSE, !.step = Null,
                          !.tries = 0, !.ok = FALSE]
<1>1. /\ x.pc = "pass" /\ x.owner = s.owner /\ x.cursor = s.cursor
      /\ x.counters = s.counters /\ x.attempts = s.attempts
  BY DEF DriveState
<1>2. s.pc # "idle"
  BY DEF Copying, Handling
<1>3. ASSUME new.status = Live, new.owner = s.owner
      PROVE  /\ s.cursor = new.cursor /\ s.counters = new.counters /\ s.attempts = new.attempts
             /\ new.began
  <2>1. /\ old.status = Live /\ old.owner = s.owner
        /\ new.cursor = old.cursor /\ new.counters = old.counters /\ new.attempts = old.attempts
        /\ old.began => new.began
    BY <1>3 DEF KeptFor
  <2>2. s.cursor = old.cursor /\ s.counters = old.counters /\ s.attempts = old.attempts
    BY <1>2, <2>1 DEF Agreed, AgreesWith, Follows
  <2>3. s.pc \in {"step", "record", "commit"} \cup Handling => old.began
    BY <1>2, <2>1 DEF Agreed, AgreesWith
  <2> QED BY <1>3, <2>1, <2>2, <2>3
<1> HIDE DEF x
<1>4. Agreed(x, new, newSteps)
  BY <1>1, <1>3 DEF Agreed, AgreesWith, Follows
<1> QED BY <1>4 DEF x

LEMMA SettlingAgrees ==
  ASSUME NEW s \in DriveState, s.pc \in Copying,
         NEW old, NEW new, NEW steps, NEW newSteps,
         Agreed(s, old, steps), KeptFor(s.owner, old, new),
         NEW p, p.cursor = s.cursor, p.counters = s.counters, p.status \in {Live, "failed"},
         \/ p.attempts = s.attempts
         \/ p.attempts = s.attempts + 1 /\ s.pc \in {"step", "record", "commit"} \cup Handling
  PROVE  Agreed([Idle EXCEPT !.pc = "settle", !.run = s.run, !.owner = s.owner, !.patch = p],
                new, newSteps)
<1> DEFINE x == [Idle EXCEPT !.pc = "settle", !.run = s.run, !.owner = s.owner, !.patch = p]
<1>1. x.pc = "settle" /\ x.owner = s.owner /\ x.patch = p
  BY DEF Idle
<1>2. s.pc # "idle" /\ "settle" \notin Copying
  BY DEF Copying, Handling
<1>3. ASSUME new.status = Live, new.owner = s.owner
      PROVE  /\ p.cursor = new.cursor /\ p.counters = new.counters
             /\ \/ p.attempts = new.attempts
                \/ p.attempts = new.attempts + 1 /\ new.began
  <2>1. /\ old.status = Live /\ old.owner = s.owner
        /\ new.cursor = old.cursor /\ new.counters = old.counters /\ new.attempts = old.attempts
        /\ old.began => new.began
    BY <1>3 DEF KeptFor
  <2>2. s.cursor = old.cursor /\ s.counters = old.counters /\ s.attempts = old.attempts
    BY <1>2, <2>1 DEF Agreed, AgreesWith, Follows
  <2>3. s.pc \in {"step", "record", "commit"} \cup Handling => old.began
    BY <1>2, <2>1 DEF Agreed, AgreesWith
  <2> QED BY <1>3, <2>1, <2>2, <2>3
<1> HIDE DEF x
<1>4. Agreed(x, new, newSteps)
  BY <1>1, <1>2, <1>3 DEF Agreed, AgreesWith, Follows, Handling
<1> QED BY <1>4 DEF x

LEMMA CommittingAgrees ==
  ASSUME NEW s \in DriveState, s.pc = "pass", NEW row, NEW steps, Agreed(s, row, steps),
         NEW p, p.cursor \in Cursor \cup {s.cursor}, p.counters = s.counters + 1,
         p.attempts = 0, p.status \in {Live, "done"}
  PROVE  Agreed([[s EXCEPT !.pc = "commit"] EXCEPT !.used = {}, !.patch = p], row, steps)
<1> DEFINE x == [[s EXCEPT !.pc = "commit"] EXCEPT !.used = {}, !.patch = p]
<1>1. /\ x.pc = "commit" /\ x.owner = s.owner /\ x.cursor = s.cursor
      /\ x.counters = s.counters /\ x.attempts = s.attempts /\ x.patch = p
  BY DEF DriveState
<1> HIDE DEF x
<1>2. Agreed(x, row, steps)
  BY <1>1 DEF Agreed, AgreesWith, Follows, Copying, Handling
<1> QED BY <1>2 DEF x

(* Into a step and through it. *)
LEMMA SteppingAgrees ==
  ASSUME NEW s \in DriveState, NEW old, NEW row, NEW steps, Agreed(s, old, steps),
         KeptFor(s.owner, old, row)
  PROVE  /\ \A e, u : s.pc = "pass" =>
              Agreed([[s EXCEPT !.pc = "step"] EXCEPT !.step = e, !.used = u], row, steps)
         /\ s.pc = "step" /\ steps[s.step].result = Null =>
              Agreed([[s EXCEPT !.pc = "exec"] EXCEPT !.tries = steps[s.step].attempts + 1],
                     row, steps)
         /\ \A ok : s.pc = "exec" =>
              Agreed([[s EXCEPT !.pc = "record"] EXCEPT !.ok = ok], row, steps)
<1> DEFINE Stays(x) == /\ x.pc \in InStep /\ s.pc \in {"pass", "step", "exec"}
                       /\ x.owner = s.owner /\ x.cursor = s.cursor
                       /\ x.counters = s.counters /\ x.attempts = s.attempts
           NextTry(x) == /\ steps[x.step].result = Null
                       /\ x.tries = steps[x.step].attempts + 1
<1>1. row.status = Live /\ row.owner = s.owner =>
        old.status = Live /\ old.owner = s.owner
  BY DEF KeptFor
<1>2. ASSUME NEW x, Stays(x),
             row.status = Live /\ row.owner = s.owner /\ x.pc \in {"exec", "record"} => NextTry(x)
      PROVE  Agreed(x, row, steps)
  BY <1>2 DEF Agreed, AgreesWith, Follows, KeptFor, InStep, Copying, Handling
<1>3. ASSUME NEW e, NEW u, s.pc = "pass"
      PROVE  Agreed([[s EXCEPT !.pc = "step"] EXCEPT !.step = e, !.used = u], row, steps)
  <2> DEFINE x == [[s EXCEPT !.pc = "step"] EXCEPT !.step = e, !.used = u]
  <2>1. Stays(x) /\ x.pc = "step"
    BY <1>3 DEF DriveState, InStep
  <2> HIDE DEF x
  <2>2. Agreed(x, row, steps)
    BY <1>2, <2>1
  <2> QED BY <2>2 DEF x
<1>4. ASSUME s.pc = "step", steps[s.step].result = Null
      PROVE  Agreed([[s EXCEPT !.pc = "exec"] EXCEPT !.tries = steps[s.step].attempts + 1],
                    row, steps)
  <2> DEFINE x == [[s EXCEPT !.pc = "exec"] EXCEPT !.tries = steps[s.step].attempts + 1]
  <2>1. Stays(x) /\ NextTry(x)
    BY <1>4 DEF DriveState, InStep
  <2> HIDE DEF x
  <2>2. Agreed(x, row, steps)
    BY <1>2, <2>1
  <2> QED BY <2>2 DEF x
<1>5. ASSUME NEW ok, s.pc = "exec"
      PROVE  Agreed([[s EXCEPT !.pc = "record"] EXCEPT !.ok = ok], row, steps)
  <2> DEFINE x == [[s EXCEPT !.pc = "record"] EXCEPT !.ok = ok]
  <2>1. Stays(x) /\ x.step = s.step /\ x.tries = s.tries
    BY <1>5 DEF DriveState, InStep
  <2>2. old.status = Live /\ old.owner = s.owner =>
          steps[s.step].result = Null /\ s.tries = steps[s.step].attempts + 1
    BY <1>5 DEF Agreed, Follows
  <2> HIDE DEF x
  <2>3. Agreed(x, row, steps)
    BY <1>1, <1>2, <2>1, <2>2
  <2> QED BY <2>3 DEF x
<1> QED BY <1>3, <1>4, <1>5

(* Every drive and every call in flight agrees with its row. *)
Agreeing ==
  /\ \A d \in Drive : Agreed(drive[d], run[drive[d].run], ledger[drive[d].run])
  /\ \A c \in late : AgreesWith(c, run[c.run])

(* The drive that moves comes to rest in agreement with its row. *)
MovesAgreed(d) ==
  \E x : Become(d, x) /\ Agreed(x, run'[x.run], ledger'[x.run])

LEMMA MoverKeeps ==
  ASSUME Shaped, NEW d \in Drive, DriveStep(d) \/ DriveFault(d),
         drive[d].pc \notin {"idle", "claim"}
  PROVE  KeptFor(drive[d].owner, run[drive[d].run], run'[drive[d].run])
<1>1. /\ drive[d] \in DriveState /\ ShapeOK(drive[d])
      /\ drive[d].run \in RunId /\ drive[d].owner \in Owner /\ drive[d].patch \in Patch
  BY DriveFacts DEF Shaped
<1>2. CASE UNCHANGED <<run, ledger, begins>>
  BY <1>1, <1>2, RowsKept DEF Shaped, StoreTypeOK
<1>3. CASE Lands(drive[d])
  BY <1>1, <1>3, LandsKeeps DEF Shaped
<1> QED BY <1>2, <1>3, DriveLands

LEMMA MoverBack ==
  ASSUME Shaped, Agreeing, NEW d \in Drive, DriveStep(d) \/ DriveFault(d),
         drive[d].pc \in Copying, Become(d, InHandler(d)),
         \/ drive[d].pc \in {"step", "record", "commit"} \cup Handling
         \/ run'[drive[d].run].began
  PROVE  MovesAgreed(d)
<1>1. drive[d].pc \notin {"idle", "claim"}
  BY DEF Copying, Handling
<1>2. /\ drive[d] \in DriveState
      /\ Agreed(drive[d], run[drive[d].run], ledger[drive[d].run])
  BY <1>1, DriveFacts DEF Shaped, Agreeing
<1>3. InHandler(d).run = drive[d].run
  BY <1>2 DEF InHandler, DriveState
<1>4. Agreed(InHandler(d), run'[drive[d].run], ledger'[drive[d].run])
  BY <1>1, <1>2, MoverKeeps, BackAgrees DEF InHandler
<1> QED BY <1>3, <1>4 DEF MovesAgreed

LEMMA MoverSettles ==
  ASSUME Shaped, Agreeing, NEW d \in Drive, DriveStep(d) \/ DriveFault(d),
         drive[d].pc \in Copying, NEW p, Become(d, Settling(d, p)),
         p.cursor = drive[d].cursor, p.counters = drive[d].counters, p.status \in {Live, "failed"},
         \/ p.attempts = drive[d].attempts
         \/ /\ p.attempts = drive[d].attempts + 1
            /\ drive[d].pc \in {"step", "record", "commit"} \cup Handling
  PROVE  MovesAgreed(d)
<1>1. drive[d].pc \notin {"idle", "claim"}
  BY DEF Copying, Handling
<1>2. /\ drive[d] \in DriveState
      /\ Agreed(drive[d], run[drive[d].run], ledger[drive[d].run])
  BY <1>1, DriveFacts DEF Shaped, Agreeing
<1>3. Settling(d, p).run = drive[d].run
  BY DEF Settling, Idle
<1>4. KeptFor(drive[d].owner, run[drive[d].run], run'[drive[d].run])
  BY <1>1, MoverKeeps
<1>5. Agreed(Settling(d, p), run'[drive[d].run], ledger'[drive[d].run])
  BY <1>2, <1>4, SettlingAgrees DEF Settling
<1> QED BY <1>3, <1>5 DEF MovesAgreed

(* A pass that fails, defers, or lets a step's failure through. *)
LEMMA MoverEnds ==
  ASSUME Shaped, Agreeing, NEW d \in Drive, DriveStep(d) \/ DriveFault(d),
         drive[d].pc \in {"step", "record", "commit"} \cup Handling
  PROVE  /\ PassFails(d) => MovesAgreed(d)
         /\ PassDefers(d) => MovesAgreed(d)
         /\ \A n : StepFails(d, n) => MovesAgreed(d)
         /\ Become(d, Idle) => MovesAgreed(d)
         /\ Become(d, InHandler(d)) => MovesAgreed(d)
<1>1. drive[d].pc \in Copying
  BY DEF Copying, Handling
<1>2. \A n, m : \A p \in FailedOutcomes(d, n, m) :
        /\ p.cursor = drive[d].cursor /\ p.counters = drive[d].counters
        /\ p.status \in {Live, "failed"} /\ p.attempts = drive[d].attempts + 1
  BY DEF FailedOutcomes, Outcome
<1>3. \A p \in DeferredOutcomes(d) :
        /\ p.cursor = drive[d].cursor /\ p.counters = drive[d].counters
        /\ p.status \in {Live, "failed"} /\ p.attempts = drive[d].attempts
  BY DEF DeferredOutcomes, Outcome
<1>4. PassFails(d) => MovesAgreed(d)
  BY <1>1, <1>2, MoverSettles DEF PassFails
<1>5. PassDefers(d) => MovesAgreed(d)
  BY <1>1, <1>3, MoverSettles DEF PassDefers
<1>6. Become(d, InHandler(d)) => MovesAgreed(d)
  BY <1>1, MoverBack
<1>7. \A n : StepFails(d, n) => MovesAgreed(d)
  BY <1>1, <1>2, <1>6, MoverSettles DEF StepFails
<1>8. Become(d, Idle) => MovesAgreed(d)
  BY UnheldAgrees DEF MovesAgreed
<1> QED BY <1>4, <1>5, <1>6, <1>7, <1>8

LEMMA DriveAgrees ==
  ASSUME Shaped, Agreeing, NEW d \in Drive, DriveStep(d) \/ DriveFault(d)
  PROVE  MovesAgreed(d)
<1> USE DEF At, Handling
<1> DEFINE r == drive[d].run
<1>a. drive[d].pc # "idle" => /\ drive[d] \in DriveState /\ r \in RunId
                              /\ run[r] \in RunRow
                              /\ Agreed(drive[d], run[r], ledger[r])
  BY DriveFacts DEF Shaped, Agreeing, StoreTypeOK
<1>b. Become(d, Idle) => MovesAgreed(d)
  BY UnheldAgrees DEF MovesAgreed
<1>1. ASSUME NEW q \in RunId, Pick(d, q) PROVE MovesAgreed(d)
  BY <1>1, UnheldAgrees DEF Pick, MovesAgreed
<1>2. CASE ClaimRun(d)
  <2>1. drive[d].pc = "claim" /\ (Become(d, Idle) \/ Become(d, ClaimedBy(d)))
    BY <1>2 DEF ClaimRun
  <2>2. ClaimedBy(d).run = r /\ Agreed(ClaimedBy(d), run'[r], ledger'[r])
    <3>1. drive[d] \in DriveState
      BY <1>a, <2>1
    <3>2. ClaimedBy(d).run = r
      BY <3>1 DEF ClaimedBy, DriveState
    <3> QED BY <3>1, <3>2, ClaimedAgrees DEF ClaimedBy
  <2> QED BY <1>b, <2>1, <2>2 DEF MovesAgreed
<1>3. CASE FailTakeover(d)
  <2> DEFINE p == Outcome(d, "failed", drive[d].attempts, "now")
  <2>1. drive[d].pc \in Copying /\ Become(d, Settling(d, p))
    BY <1>3 DEF FailTakeover, Copying
  <2>2. /\ p.cursor = drive[d].cursor /\ p.counters = drive[d].counters
        /\ p.status \in {Live, "failed"} /\ p.attempts = drive[d].attempts
    BY DEF Outcome
  <2> HIDE DEF p
  <2> QED BY <2>1, <2>2, MoverSettles
<1>4. ASSUME drive[d].pc \in {"claimed", "begin"}, NEW pc \in {"begin", "miss"},
             Become(d, GoTo(d, pc)), UNCHANGED <<run, ledger>>
      PROVE  MovesAgreed(d)
  <2>1. drive[d].pc # "idle"
    BY <1>4
  <2>2. GoTo(d, pc).run = r
    BY <1>a, <2>1 DEF GoTo, DriveState
  <2>3. Agreed(GoTo(d, pc), run'[r], ledger'[r])
    BY <1>a, <1>4, <2>1, WaitingAgrees DEF GoTo
  <2> QED BY <1>4, <2>2, <2>3 DEF MovesAgreed
<1>5. CASE SendBegin(d) \/ SendMiss(d)
  BY <1>4, <1>5 DEF SendBegin, SendMiss
<1>6. CASE BeginPass(d)
  <2>1. drive[d].pc = "begin" /\ drive[d].pc \in Copying
    BY <1>6 DEF BeginPass, Copying
  <2>2. CASE Begin(r, drive[d].owner) /\ Become(d, InHandler(d))
    <3>1. run'[r] = Begun(run[r]) /\ Begun(run[r]).began
      BY <1>a, <2>1, <2>2 DEF Begin, Begun, Shaped, StoreTypeOK, RunRow
    <3> QED BY <2>1, <2>2, <3>1, MoverBack
  <2>3. CASE Become(d, GoTo(d, "miss")) /\ UNCHANGED <<run, ledger>>
    BY <1>4, <2>1, <2>3
  <2> QED BY <1>6, <2>2, <2>3 DEF BeginPass
<1>7. CASE MissPass(d) \/ HandlerDies(d) \/ CommitsPass(d) \/ SettlesPass(d) \/ DriveStops(d)
  BY <1>7, <1>b DEF MissPass, HandlerDies, CommitsPass, SettlesPass, DriveStops
<1>k. drive[d].pc \notin {"idle", "claim"} => KeptFor(drive[d].owner, run[r], run'[r])
  BY MoverKeeps
<1>8. ASSUME NEW e \in Step, CallStep(d, e) PROVE MovesAgreed(d)
  <2> DEFINE x == [[drive[d] EXCEPT !.pc = "step"] EXCEPT
                     !.step = e, !.used = drive[d].used \cup {e}]
  <2>1. drive[d].pc = "pass" /\ Become(d, x) /\ UNCHANGED <<run, ledger>>
    BY <1>8 DEF CallStep, GoTo
  <2>2. x.run = r
    BY <1>a, <2>1 DEF DriveState
  <2>3. Agreed(x, run'[r], ledger'[r])
    BY <1>a, <1>k, <2>1, SteppingAgrees
  <2> QED BY <2>1, <2>2, <2>3 DEF MovesAgreed
<1>9. CASE StepBoundary(d)
  <2>1. drive[d].pc = "step"
    BY <1>9 DEF StepBoundary
  <2>2. CASE LosesLease(d)
    BY <2>1, <2>2, MoverEnds DEF LosesLease
  <2>3. CASE EnterStep(d) /\ BeginStep(r, drive[d].owner)
    <3>1. CASE Become(d, InHandler(d)) \/ StepFails(d, PriorStep(d).attempts)
      BY <2>1, <3>1, MoverEnds
    <3>2. CASE /\ PriorStep(d).result = Null
               /\ Become(d, [GoTo(d, "exec") EXCEPT !.tries = PriorStep(d).attempts + 1])
      <4> DEFINE x == [[drive[d] EXCEPT !.pc = "exec"] EXCEPT
                         !.tries = ledger[r][drive[d].step].attempts + 1]
      <4>1. Become(d, x) /\ ledger' = ledger /\ ledger[r][drive[d].step].result = Null
        BY <2>3, <3>2 DEF GoTo, PriorStep, BeginStep
      <4>2. x.run = r
        BY <1>a, <2>1 DEF DriveState
      <4>3. Agreed(x, run'[r], ledger'[r])
        BY <1>a, <1>k, <2>1, <4>1, SteppingAgrees
      <4> QED BY <4>1, <4>2, <4>3 DEF MovesAgreed
    <3> QED BY <2>3, <3>1, <3>2 DEF EnterStep
  <2> QED BY <1>9, <2>2, <2>3 DEF StepBoundary
<1>10. CASE StepEnds(d)
  <2>1. PICK ok \in BOOLEAN : Become(d, [[drive[d] EXCEPT !.pc = "record"] EXCEPT !.ok = ok])
    BY <1>10 DEF StepEnds, GoTo
  <2> DEFINE x == [[drive[d] EXCEPT !.pc = "record"] EXCEPT !.ok = ok]
  <2>2. drive[d].pc = "exec" /\ UNCHANGED <<run, ledger>>
    BY <1>10 DEF StepEnds
  <2>3. x.run = r
    BY <1>a, <2>2 DEF DriveState
  <2>4. Agreed(x, run'[r], ledger'[r])
    BY <1>a, <1>k, <2>2, SteppingAgrees
  <2> QED BY <2>1, <2>3, <2>4 DEF MovesAgreed
<1>11. CASE RecordAttempt(d)
  BY <1>11, MoverEnds DEF RecordAttempt, LosesLease
<1>12. CASE HandlerReturns(d)
  <2>1. drive[d].pc = "pass" /\ UNCHANGED <<run, ledger>>
    BY <1>12 DEF HandlerReturns
  <2>2. PICK c \in Cursor \cup {drive[d].cursor}, done \in BOOLEAN :
          Become(d, [GoTo(d, "commit") EXCEPT !.used = {}, !.patch =
            [ status |-> IF done THEN "done" ELSE Live, cursor |-> c,
              counters |-> drive[d].counters + 1, attempts |-> 0, due |-> "now" ]])
    BY <1>12 DEF HandlerReturns
  <2> DEFINE p == [ status |-> IF done THEN "done" ELSE Live, cursor |-> c,
                    counters |-> drive[d].counters + 1, attempts |-> 0, due |-> "now" ]
             x == [[drive[d] EXCEPT !.pc = "commit"] EXCEPT !.used = {}, !.patch = p]
  <2>3. Become(d, x)
    BY <2>2 DEF GoTo
  <2>4. x.run = r
    BY <1>a, <2>1 DEF DriveState
  <2>5. /\ p.cursor \in Cursor \cup {drive[d].cursor} /\ p.counters = drive[d].counters + 1
        /\ p.attempts = 0 /\ p.status \in {Live, "done"}
    OBVIOUS
  <2> HIDE DEF p
  <2>6. Agreed(x, run'[r], ledger'[r])
    BY <1>a, <2>1, <2>5, CommittingAgrees
  <2> QED BY <2>3, <2>4, <2>6 DEF MovesAgreed
<1>13. CASE HandlerThrows(d)
  BY <1>13, MoverEnds DEF HandlerThrows
<1>14. CASE DoorSaysWait(d)
  BY <1>14, MoverEnds DEF DoorSaysWait
<1>15. CASE CallFails(d)
  BY <1>15, MoverEnds DEF CallFails
<1> QED BY <1>1, <1>2, <1>3, <1>5, <1>6, <1>7, <1>8, <1>9, <1>10, <1>11, <1>12, <1>13,
           <1>14, <1>15
     DEF DriveStep, DriveFault

(* The others stay in agreement, whoever moves. *)
LEMMA DriveAgreeing ==
  ASSUME Shaped, Owned, Agreeing, NEW d \in Drive, DriveStep(d) \/ DriveFault(d)
  PROVE  Agreeing'
<1> USE DEF Shaped, Owned
<1>0. drive[d] \in DriveState /\ ShapeOK(drive[d])
  BY DEF DrivesShaped
<1>1. PICK x : Become(d, x) /\ Agreed(x, run'[x.run], ledger'[x.run])
  BY DriveAgrees DEF MovesAgreed
<1>2. /\ drive'[d] = x
      /\ \A e \in Drive : e # d => drive'[e] = drive[e]
  BY <1>1 DEF Become, DrivesShaped
<1>3. ASSUME NEW r \in RunId, NEW o \in Owner, ~(drive[d].pc = "claim" /\ drive[d].owner = o)
      PROVE  /\ KeptFor(o, run[r], run'[r])
             /\ drive[d].owner # o /\ run'[r].status = Live /\ run'[r].owner = o =>
                  \A e \in Step : ledger'[r][e] = ledger[r][e]
  <2>1. CASE UNCHANGED <<run, ledger, begins>>
    <3>1. run[r] \in RunRow /\ NoPatch \in Patch
      BY DEF StoreTypeOK, NoPatch, Patch, Due, Live
    <3> QED BY <2>1, <3>1, RowsKept
  <2>2. CASE Lands(drive[d])
    BY <1>0, <1>3, <2>2, LandsKeeps
  <2> QED BY <2>1, <2>2, DriveLands
<1>4. ASSUME NEW e \in Drive
      PROVE  Agreed(drive'[e], run'[drive'[e].run], ledger'[drive'[e].run])
  <2>1. CASE e = d
    BY <1>1, <1>2, <2>1
  <2>2. CASE e # d /\ drive[e].pc = "idle"
    BY <1>2, <2>2 DEF Agreed, AgreesWith, Follows
  <2>3. CASE e # d /\ drive[e].pc # "idle"
    <3>1. /\ drive[e].run \in RunId /\ drive[e].owner \in Owner
          /\ drive[e].pc \in {"exec", "record"} => drive[e].step \in Step
      BY <2>3, DriveFacts
    <3>2. drive[d].owner # drive[e].owner
      BY <2>3 DEF OwnersAreFresh
    <3>3. Agreed(drive[e], run[drive[e].run], ledger[drive[e].run])
      BY DEF Agreeing
    <3>4. Agreed(drive[e], run'[drive[e].run], ledger'[drive[e].run])
      BY <1>3, <3>1, <3>2, <3>3, AgreesKept, FollowsKept DEF Agreed
    <3> QED BY <1>2, <2>3, <3>4
  <2> QED BY <2>1, <2>2, <2>3
<1>5. ASSUME NEW c \in late' PROVE AgreesWith(c, run'[c.run])
  <2>1. CASE c \in late
    <3>1. c.run \in RunId /\ c.owner \in Owner
      BY <2>1 DEF RestShaped, ShapeOK, LateIsPast, Calling
    <3>2. ~(drive[d].pc = "claim" /\ drive[d].owner = c.owner)
      BY <2>1 DEF LateIsPast, PastBegin, InStep
    <3>3. AgreesWith(c, run[c.run])
      BY <2>1 DEF Agreeing
    <3> QED BY <1>3, <3>1, <3>2, <3>3, AgreesKept
  <2>2. CASE c = Sent(d) /\ UNCHANGED run
    <3>1. /\ c.pc = drive[d].pc /\ c.owner = drive[d].owner /\ c.run = drive[d].run
          /\ c.counters = drive[d].counters /\ c.patch = drive[d].patch
      BY <1>0, <2>2 DEF Sent, DriveState
    <3>2. AgreesWith(drive[d], run[drive[d].run])
      BY DEF Agreeing, Agreed
    <3> QED BY <2>2, <3>1, <3>2 DEF AgreesWith
  <2> QED BY <2>1, <2>2, DriveLeaves DEF Leaves
<1> QED BY <1>4, <1>5 DEF Agreeing

LEMMA LateAgreeing ==
  ASSUME Shaped, Owned, Agreeing, NEW c \in late, LateCall(c)
  PROVE  Agreeing'
<1> USE DEF Shaped, Owned
<1>0. c \in DriveState /\ ShapeOK(c)
  BY DEF RestShaped
<1>1. drive' = drive /\ late' = late \ {c}
  BY DEF LateCall
<1>2. ASSUME NEW r \in RunId, NEW o \in Owner, ~(c.pc = "claim" /\ c.owner = o)
      PROVE  /\ KeptFor(o, run[r], run'[r])
             /\ run'[r].status = Live /\ run'[r].owner = o =>
                  \A e \in Step : \/ ledger'[r][e] = ledger[r][e]
                                  \/ c.pc = "record" /\ c.owner = o /\ c.step = e
  <2>1. CASE UNCHANGED <<run, ledger, begins>>
    <3>1. run[r] \in RunRow /\ NoPatch \in Patch
      BY DEF StoreTypeOK, NoPatch, Patch, Due, Live
    <3> QED BY <2>1, <3>1, RowsKept
  <2>2. CASE Lands(c)
    BY <1>0, <1>2, <2>2, LandsKeeps
  <2> QED BY <2>1, <2>2 DEF LateCall
<1>3. ASSUME NEW e \in Drive
      PROVE  Agreed(drive[e], run'[drive[e].run], ledger'[drive[e].run])
  <2>1. CASE drive[e].pc = "idle"
    BY <2>1 DEF Agreed, AgreesWith, Follows
  <2>2. CASE drive[e].pc # "idle"
    <3>1. /\ drive[e].run \in RunId /\ drive[e].owner \in Owner
          /\ drive[e].pc \in {"exec", "record"} => drive[e].step \in Step
      BY <2>2, DriveFacts
    <3>2. /\ ~(c.pc = "claim" /\ c.owner = drive[e].owner)
          /\ drive[e].pc \in {"exec", "record"} =>
               ~(c.pc = "record" /\ c.owner = drive[e].owner /\ c.step = drive[e].step)
      BY DEF LateIsPast, InStep
    <3>3. Agreed(drive[e], run[drive[e].run], ledger[drive[e].run])
      BY DEF Agreeing
    <3> QED BY <1>2, <3>1, <3>2, <3>3, AgreesKept, FollowsKept DEF Agreed
  <2> QED BY <2>1, <2>2
<1>4. ASSUME NEW b \in late' PROVE AgreesWith(b, run'[b.run])
  <2>1. b \in late /\ b # c /\ b.run \in RunId /\ b.owner \in Owner
    BY <1>1 DEF RestShaped, ShapeOK, LateIsPast, Calling
  <2>2. ~(c.pc = "claim" /\ c.owner = b.owner)
    BY <2>1 DEF LateIsPast
  <2>3. AgreesWith(b, run[b.run])
    BY <2>1 DEF Agreeing
  <2> QED BY <1>2, <2>1, <2>2, <2>3, AgreesKept
<1> QED BY <1>1, <1>3, <1>4 DEF Agreeing

LEMMA OutsideAgreeing ==
  ASSUME Shaped, Owned, Agreeing, NEW r \in RunId, Outside(r)
  PROVE  Agreeing'
<1> USE DEF Shaped
<1>1. drive' = drive /\ late' = late
  BY OutsideRows
<1>2. ASSUME NEW e \in Drive
      PROVE  Agreed(drive[e], run'[drive[e].run], ledger'[drive[e].run])
  <2>1. CASE drive[e].pc = "idle"
    BY <2>1 DEF Agreed, AgreesWith, Follows
  <2>2. CASE drive[e].pc # "idle"
    <3>1. drive[e].run \in RunId /\ drive[e].owner \in Owner
      BY <2>2, DriveFacts
    <3>2. Agreed(drive[e], run[drive[e].run], ledger[drive[e].run])
      BY DEF Agreeing
    <3> QED BY <3>1, <3>2, OutsideKeeps, AgreesKept, FollowsKept DEF Agreed
  <2> QED BY <2>1, <2>2
<1>3. ASSUME NEW c \in late PROVE AgreesWith(c, run'[c.run])
  <2>1. c.run \in RunId /\ c.owner \in Owner /\ AgreesWith(c, run[c.run])
    BY DEF RestShaped, ShapeOK, Owned, LateIsPast, Calling, Agreeing
  <2> QED BY <2>1, OutsideKeeps, AgreesKept
<1> QED BY <1>1, <1>2, <1>3 DEF Agreeing

LEMMA AgreeingStep ==
  ASSUME Shaped, Owned, Agreeing, [Next]_vars
  PROVE  Agreeing'
<1>1. CASE UNCHANGED vars
  BY <1>1 DEF vars, Agreeing, Agreed, AgreesWith, Follows
<1> QED BY <1>1, DriveAgreeing, LateAgreeing, OutsideAgreeing DEF Next, DriveFault, Outside

-----------------------------------------------------------------------------
(* The rows themselves: memos are of the chunk being walked, and attempts  *)
(* are charged only for passes begun.                                      *)
Counted == AttemptsWereBegun /\ BegunIsCounted
Memoised == LedgerIsCurrent /\ AbsentIsEmpty

(* One row of either. *)
RowCounted(row, n) ==
  row.status = Live => row.attempts <= n /\ (row.began => row.attempts + 1 <= n)

RowMemoised(row, steps) ==
  \A e \in Step : /\ row.status = Live /\ steps[e].result # Null => steps[e].result = row.counters
                  /\ row.status = "absent" => steps[e].result = Null

LEMMA RowByRow ==
  /\ Counted <=> \A r \in RunId : RowCounted(run[r], begins[r])
  /\ Memoised <=> \A r \in RunId : RowMemoised(run[r], ledger[r])
BY DEF Counted, AttemptsWereBegun, BegunIsCounted, RowCounted,
       Memoised, LedgerIsCurrent, AbsentIsEmpty, RowMemoised

(* The row each call that lands leaves, and what the call needs of it. *)
LEMMA LandedRow ==
  ASSUME StoreTypeOK, begins \in [RunId -> Nat], NEW s \in DriveState, ShapeOK(s),
         AgreesWith(s, run[s.run]), Lands(s)
  PROVE  LET row == run[s.run] new == run'[s.run]
             steps == ledger[s.run] newSteps == ledger'[s.run]
             n == begins[s.run] m == begins'[s.run]
         IN  \/ /\ new \in {Claimed(row, s.owner), Missed(row), Renewed(row)}
                /\ newSteps = steps /\ m = n
             \/ new = Begun(row) /\ newSteps = steps /\ m = n + 1
             \/ /\ new = Renewed(row) /\ m = n /\ s.pc = "record" /\ s.step \in Step
                /\ s.counters = row.counters
                /\ newSteps = [steps EXCEPT ![s.step] =
                     [result |-> IF s.ok THEN s.counters ELSE Null, attempts |-> s.tries]]
             \/ /\ new = Patched(row, s.patch) /\ newSteps = NoSteps /\ m = 0
                /\ s.patch.counters = row.counters + 1 /\ s.patch.attempts = 0
                /\ s.patch.status \in {Live, "done"}
                /\ s.patch.cursor \in Cursor \cup {row.cursor}
             \/ /\ new = Patched(row, s.patch) /\ newSteps = steps /\ m = n
                /\ s.patch.cursor = row.cursor /\ s.patch.counters = row.counters
                /\ \/ s.patch.attempts = row.attempts
                   \/ s.patch.attempts = row.attempts + 1 /\ row.began
                /\ s.patch.status \in {Live, "failed"}
<1>1. s.run \in RunId
  BY DEF Lands, ShapeOK
<1>2. /\ s.run \in DOMAIN run /\ s.run \in DOMAIN ledger /\ s.run \in DOMAIN begins
      /\ s.pc = "record" => s.step \in Step
  BY <1>1 DEF StoreTypeOK, ShapeOK
<1>3. CASE s.pc \in {"claim", "miss", "step"}
  BY <1>2, <1>3 DEF Lands, Claim, Miss, BeginStep, Renew
<1>4. CASE s.pc = "begin"
  BY <1>2, <1>4 DEF Lands, Begin
<1>5. CASE s.pc = "record"
  <2>1. s.counters = run[s.run].counters
    BY <1>5 DEF Lands, RecordStep, Renew, Holds, AgreesWith, Copying
  <2> QED BY <1>2, <1>5, <2>1 DEF Lands, RecordStep, Renew
<1>6. CASE s.pc = "commit"
  <2>1. /\ s.patch.counters = run[s.run].counters + 1 /\ s.patch.attempts = 0
        /\ s.patch.status \in {Live, "done"}
        /\ s.patch.cursor \in Cursor \cup {run[s.run].cursor}
    BY <1>6 DEF Lands, CommitPass, Holds, AgreesWith
  <2> QED BY <1>2, <1>6, <2>1 DEF Lands, CommitPass, Reset
<1>7. CASE s.pc = "settle"
  <2>1. /\ s.patch.cursor = run[s.run].cursor /\ s.patch.counters = run[s.run].counters
        /\ \/ s.patch.attempts = run[s.run].attempts
           \/ s.patch.attempts = run[s.run].attempts + 1 /\ run[s.run].began
        /\ s.patch.status \in {Live, "failed"}
    BY <1>7 DEF Lands, PatchRun, Holds, AgreesWith
  <2> QED BY <1>2, <1>7, <2>1 DEF Lands, PatchRun
<1> QED BY <1>3, <1>4, <1>5, <1>6, <1>7 DEF Lands

LEMMA LandsCounted ==
  ASSUME StoreTypeOK, begins \in [RunId -> Nat], NEW s \in DriveState, ShapeOK(s),
         AgreesWith(s, run[s.run]), Lands(s), Counted, Memoised
  PROVE  Counted' /\ Memoised'
<1> DEFINE row == run[s.run]
           new == run'[s.run]
           steps == ledger[s.run]
           n == begins[s.run]
<1>0. s.run \in RunId /\ row \in RunRow /\ row.status = Live /\ steps \in [Step -> StepRow]
  BY LandsOnLive DEF Lands, ShapeOK, StoreTypeOK
<1>1. \A r \in RunId : r # s.run => begins'[r] = begins[r]
  BY <1>0 DEF Lands, Reset
<1>2. n \in Nat /\ row.attempts \in Nat /\ row.began \in BOOLEAN /\ row.counters \in Nat
  BY <1>0 DEF RunRow
<1>3. /\ row.attempts <= n
      /\ row.began => row.attempts + 1 <= n
  BY <1>0, RowByRow DEF RowCounted
<1>4. \A e \in Step : steps[e].result # Null => steps[e].result = row.counters
  BY <1>0, RowByRow DEF RowMemoised
<1>5. RowCounted(new, begins'[s.run])
  <2>1. CASE new = Claimed(row, s.owner) /\ begins'[s.run] = n
    <3>1. ~Claimed(row, s.owner).began
      BY <1>0 DEF Claimed, RunRow
    <3>2. Claimed(row, s.owner).attempts = IF row.began THEN row.attempts + 1 ELSE row.attempts
      BY <1>0 DEF Claimed, RunRow
    <3> QED BY <1>2, <1>3, <2>1, <3>1, <3>2 DEF RowCounted
  <2>2. CASE new = Missed(row) /\ begins'[s.run] = n
    <3>1. Missed(row).attempts = row.attempts /\ ~Missed(row).began
      BY <1>0 DEF Missed, RunRow
    <3> QED BY <1>3, <2>2, <3>1 DEF RowCounted
  <2>3. CASE new = Renewed(row) /\ begins'[s.run] = n
    <3>1. Renewed(row).attempts = row.attempts /\ Renewed(row).began = row.began
      BY <1>0 DEF Renewed, RunRow
    <3> QED BY <1>3, <2>3, <3>1 DEF RowCounted
  <2>4. CASE new = Begun(row) /\ begins'[s.run] = n + 1
    <3>1. Begun(row).attempts = row.attempts
      BY <1>0 DEF Begun, RunRow
    <3>2. row.attempts <= n + 1 /\ row.attempts + 1 <= n + 1
      BY <1>2, <1>3
    <3> QED BY <2>4, <3>1, <3>2 DEF RowCounted
  <2>5. ASSUME new = Patched(row, s.patch), s.patch.attempts <= begins'[s.run]
        PROVE  RowCounted(new, begins'[s.run])
    <3>1. Patched(row, s.patch).attempts = s.patch.attempts /\ ~Patched(row, s.patch).began
      BY <1>0 DEF Patched, RunRow
    <3> QED BY <2>5, <3>1 DEF RowCounted
  <2>6. ASSUME new = Patched(row, s.patch), s.patch.attempts = 0, begins'[s.run] = 0
        PROVE  RowCounted(new, begins'[s.run])
    <3>1. s.patch.attempts <= begins'[s.run]
      BY <2>6
    <3> QED BY <2>5, <2>6, <3>1
  <2>7. ASSUME new = Patched(row, s.patch), begins'[s.run] = n,
               \/ s.patch.attempts = row.attempts
               \/ s.patch.attempts = row.attempts + 1 /\ row.began
        PROVE  RowCounted(new, begins'[s.run])
    <3>1. s.patch.attempts <= begins'[s.run]
      BY <1>3, <2>7
    <3> QED BY <2>5, <2>7, <3>1
  <2>8. \/ new \in {Claimed(row, s.owner), Missed(row), Renewed(row)} /\ begins'[s.run] = n
        \/ new = Begun(row) /\ begins'[s.run] = n + 1
        \/ new = Patched(row, s.patch) /\ s.patch.attempts = 0 /\ begins'[s.run] = 0
        \/ /\ new = Patched(row, s.patch) /\ begins'[s.run] = n
           /\ \/ s.patch.attempts = row.attempts
              \/ s.patch.attempts = row.attempts + 1 /\ row.began
    BY LandedRow
  <2> QED BY <2>1, <2>2, <2>3, <2>4, <2>6, <2>7, <2>8
<1>6. RowMemoised(new, ledger'[s.run])
  <2>1. ASSUME new \in {Claimed(row, s.owner), Missed(row), Renewed(row), Begun(row)}
        PROVE  new.counters = row.counters /\ new.status # "absent"
    BY <1>0, <2>1 DEF Claimed, Missed, Renewed, Begun, RunRow, Live
  <2>2. /\ Patched(row, s.patch).counters = s.patch.counters
        /\ Patched(row, s.patch).status = s.patch.status
    BY <1>0 DEF Patched, RunRow
  <2>3. ASSUME new.counters = row.counters, new.status # "absent", ledger'[s.run] = steps
        PROVE  RowMemoised(new, ledger'[s.run])
    BY <1>4, <2>3 DEF RowMemoised
  <2>4. ASSUME new = Renewed(row), s.step \in Step, s.counters = row.counters,
               ledger'[s.run] = [steps EXCEPT ![s.step] =
                 [result |-> IF s.ok THEN s.counters ELSE Null, attempts |-> s.tries]]
        PROVE  RowMemoised(new, ledger'[s.run])
    <3>1. new.counters = row.counters /\ new.status # "absent"
      BY <2>1, <2>4
    <3>2. \A e \in Step : \/ ledger'[s.run][e].result = steps[e].result
                          \/ ledger'[s.run][e].result \in {s.counters, Null}
      BY <1>0, <2>4
    <3> QED BY <1>4, <2>4, <3>1, <3>2 DEF RowMemoised
  <2>5. ASSUME ledger'[s.run] = NoSteps PROVE RowMemoised(new, ledger'[s.run])
    BY <2>5 DEF RowMemoised, NoSteps
  <2> QED BY <2>1, <2>2, <2>3, <2>4, <2>5, LandedRow DEF Live
<1>7. \A r \in RunId : /\ RowCounted(run'[r], begins'[r])
                       /\ RowMemoised(run'[r], ledger'[r])
  BY <1>0, <1>1, <1>5, <1>6, LandsOnLive, RowByRow
<1>8. Counted' <=> \A r \in RunId : RowCounted(run'[r], begins'[r])
  BY DEF Counted, AttemptsWereBegun, BegunIsCounted, RowCounted
<1>9. Memoised' <=> \A r \in RunId : RowMemoised(run'[r], ledger'[r])
  BY DEF Memoised, LedgerIsCurrent, AbsentIsEmpty, RowMemoised
<1> QED BY <1>7, <1>8, <1>9

LEMMA OutsideCounted ==
  ASSUME Shaped, NEW r \in RunId, Outside(r), Counted, Memoised
  PROVE  Counted' /\ Memoised'
<1> USE DEF Shaped
<1>0. run[r] \in RunRow /\ begins[r] \in Nat
  BY DEF StoreTypeOK, RestShaped
<1>1. RowCounted(run[r], begins[r]) /\ RowMemoised(run[r], ledger[r])
  BY RowByRow
<1>2. CASE run[r].status = "absent" /\ run'[r] = FreshRun /\ ledger'[r] = ledger[r]
  <2>1. /\ FreshRun.attempts = 0 /\ ~FreshRun.began /\ FreshRun.status = Live
    BY DEF FreshRun, NoRun
  <2>2. RowCounted(run'[r], begins[r])
    BY <1>0, <1>2, <2>1 DEF RowCounted
  <2>3. RowMemoised(run'[r], ledger'[r])
    BY <1>1, <1>2, <2>1 DEF RowMemoised, Live
  <2> QED BY <2>2, <2>3, RowByRow, OutsideRows
      DEF Counted, AttemptsWereBegun, BegunIsCounted, RowCounted,
          Memoised, LedgerIsCurrent, AbsentIsEmpty, RowMemoised
<1>3. CASE run[r].status # "absent" /\ run'[r] = Redacted(run[r])
  <2>1. Redacted(run[r]).status \notin {Live, "absent"}
    BY <1>0, <1>3 DEF Redacted, RunRow, Live
  <2>2. RowCounted(run'[r], begins[r]) /\ RowMemoised(run'[r], ledger'[r])
    BY <1>3, <2>1 DEF RowCounted, RowMemoised
  <2> QED BY <2>2, RowByRow, OutsideRows
      DEF Counted, AttemptsWereBegun, BegunIsCounted, RowCounted,
          Memoised, LedgerIsCurrent, AbsentIsEmpty, RowMemoised
<1>4. CASE run'[r] = Nearer(run[r]) /\ ledger'[r] = ledger[r]
  <2>1. LET new == Nearer(run[r])
        IN  /\ new.status = run[r].status /\ new.attempts = run[r].attempts
            /\ new.began = run[r].began /\ new.counters = run[r].counters
    BY <1>0 DEF Nearer, RunRow
  <2>2. RowCounted(run'[r], begins[r]) /\ RowMemoised(run'[r], ledger'[r])
    BY <1>1, <1>4, <2>1 DEF RowCounted, RowMemoised
  <2> QED BY <2>2, RowByRow, OutsideRows
      DEF Counted, AttemptsWereBegun, BegunIsCounted, RowCounted,
          Memoised, LedgerIsCurrent, AbsentIsEmpty, RowMemoised
<1> QED BY <1>2, <1>3, <1>4, OutsideRows

-----------------------------------------------------------------------------
(* The inductive invariant, and what it says to a reader. *)
Driven == Settled /\ Owned /\ Agreeing /\ Counted /\ Memoised

LEMMA DrivenInit == Init => Driven
<1> SUFFICES ASSUME Init PROVE Driven
  OBVIOUS
<1>1. Agreeing
  BY UnheldAgrees DEF Init, Agreeing
<1>2. \A r \in RunId : run[r] = NoRun /\ ledger[r] = NoSteps
  BY DEF Init, StoreInit
<1>3. Counted /\ Memoised
  BY <1>2 DEF NoRun, NoSteps, Live, Counted, AttemptsWereBegun, BegunIsCounted,
              Memoised, LedgerIsCurrent, AbsentIsEmpty
<1> QED BY <1>1, <1>3, SettledInit, OwnedInit DEF Driven

LEMMA DrivenStep == ASSUME Driven, [Next]_vars PROVE Driven'
<1> USE DEF Driven, Settled, Shaped
<1>1. Settled' /\ Owned' /\ Agreeing'
  BY SettledStep, OwnedStep, AgreeingStep
<1>2. begins \in [RunId -> Nat]
  BY DEF RestShaped
<1>3. ASSUME UNCHANGED <<run, ledger, begins>> PROVE Counted' /\ Memoised'
  BY <1>3 DEF Counted, AttemptsWereBegun, BegunIsCounted, Memoised, LedgerIsCurrent,
              AbsentIsEmpty
<1>4. ASSUME NEW d \in Drive, DriveStep(d) \/ DriveFault(d) PROVE Counted' /\ Memoised'
  <2>1. /\ drive[d] \in DriveState /\ ShapeOK(drive[d])
        /\ AgreesWith(drive[d], run[drive[d].run])
    BY DEF DrivesShaped, Agreeing, Agreed
  <2> QED BY <1>2, <1>3, <1>4, <2>1, DriveLands, LandsCounted
<1>5. ASSUME NEW c \in late, LateCall(c) PROVE Counted' /\ Memoised'
  <2>1. c \in DriveState /\ ShapeOK(c) /\ AgreesWith(c, run[c.run])
    BY DEF RestShaped, Agreeing
  <2> QED BY <1>2, <1>3, <1>5, <2>1, LandsCounted DEF LateCall
<1>6. ASSUME NEW r \in RunId, Outside(r) PROVE Counted' /\ Memoised'
  BY <1>6, OutsideCounted
<1>7. Counted' /\ Memoised'
  BY <1>3, <1>4, <1>5, <1>6 DEF Next, DriveFault, Outside, vars
<1> QED BY <1>1, <1>7

LEMMA DrivenCurrent == Driven => HolderIsCurrent /\ NoStepRepeated
<1> SUFFICES ASSUME Driven PROVE HolderIsCurrent /\ NoStepRepeated
  OBVIOUS
<1>1. \A d \in Drive : /\ AgreesWith(drive[d], run[drive[d].run])
                       /\ Follows(drive[d], run[drive[d].run], ledger[drive[d].run])
  BY DEF Driven, Agreeing, Agreed
<1>2. HolderIsCurrent
  BY <1>1 DEF HolderIsCurrent, AgreesWith, Follows, Holds
<1>3. NoStepRepeated
  BY <1>1 DEF NoStepRepeated, Follows, Holds
<1> QED BY <1>2, <1>3

(* A drive that still holds its run works from the row as the last commit  *)
(* left it, whatever other drives, calls in flight, erasures and lease     *)
(* expiries come between its claim and its outcome.                        *)
THEOREM HolderStaysCurrent == Spec => []HolderIsCurrent
BY DrivenInit, DrivenStep, DrivenCurrent, PTL DEF Spec

(* The attempt a holding pass runs or records is the ledger's next one of  *)
(* a step with no result: also after a record of its own that failed       *)
(* towards it and lands later.                                             *)
THEOREM StepsNotRepeated == Spec => []NoStepRepeated
BY DrivenInit, DrivenStep, DrivenCurrent, PTL DEF Spec

(* No memo outlives the commit of the chunk it was computed for. *)
THEOREM MemosStayCurrent == Spec => []LedgerIsCurrent
BY DrivenInit, DrivenStep, PTL DEF Spec, Driven, Memoised

(* attempts never exceeds the passes begun since the last commit. *)
THEOREM AttemptsStayHonest == Spec => []AttemptsWereBegun
BY DrivenInit, DrivenStep, PTL DEF Spec, Driven, Counted

(* The whole inductive invariant of the driver. *)
THEOREM InvariantHolds == Spec => []IInv
<1>1. Driven => IInv
  <2> SUFFICES ASSUME Driven PROVE IInv
    OBVIOUS
  <2>1. TypeOK /\ PartiesOK
    BY DEF Driven, Settled, Shaped, DrivesShaped, RestShaped, TypeOK, PartiesOK, Agreeing, Agreed
  <2> QED BY <2>1, DrivenCurrent DEF Driven, Settled, Owned, Counted, Memoised, IInv
<1> QED BY <1>1, DrivenInit, DrivenStep, PTL DEF Spec

-----------------------------------------------------------------------------
(* The driver implements JobWalk: only a commit, a settling or an          *)
(* admission miss that fails the run, a start and an erasure are steps of  *)
(* the walk; everything else is a stutter.                                 *)
WalkBar == [r \in RunId |-> WalkOf(r)]
WalkRow(row) == [status |-> row.status, cursor |-> row.cursor, counters |-> row.counters]

LEMMA WalkBarRows ==
  ASSUME StoreTypeOK, NEW r \in RunId, \A q \in RunId : q # r => run'[q] = run[q]
  PROVE  /\ WalkBar[r] = WalkRow(run[r])
         /\ WalkBar' = [WalkBar EXCEPT ![r] = WalkRow(run'[r])]
         /\ WalkRow(run'[r]) = WalkRow(run[r]) => WalkBar' = WalkBar
BY DEF WalkBar, WalkOf, WalkRow

LEMMA WalkSteps ==
  ASSUME StoreTypeOK, NEW r \in RunId, \A q \in RunId : q # r => run'[q] = run[q]
  PROVE  /\ WalkRow(run'[r]) = WalkRow(run[r]) => [Walk!Next]_WalkBar
         /\ /\ run[r].status = Live
            /\ WalkRow(run'[r]) = [WalkRow(run[r]) EXCEPT !.status = "failed"]
            => Walk!Fail(r)
         /\ \A status \in {"running", "done"}, c \in Cursor \cup {run[r].cursor} :
              /\ run[r].status = Live
              /\ WalkRow(run'[r]) =
                   [status |-> status, cursor |-> c, counters |-> run[r].counters + 1]
              => Walk!Advance(r)
<1>1. /\ WalkBar[r] = WalkRow(run[r])
      /\ WalkBar[r].status = run[r].status
      /\ WalkBar[r].cursor = run[r].cursor
      /\ WalkBar[r].counters = run[r].counters
  BY DEF WalkBar, WalkOf, WalkRow
<1>2. /\ WalkBar' = [WalkBar EXCEPT ![r] = WalkRow(run'[r])]
      /\ WalkRow(run'[r]) = WalkRow(run[r]) => WalkBar' = WalkBar
  BY WalkBarRows
<1>3. /\ WalkBar[r].status = "running"
      /\ WalkBar' = [WalkBar EXCEPT ![r] = [WalkBar[r] EXCEPT !.status = "failed"]]
      => Walk!Fail(r)
  BY DEF Walk!Fail, Walk!Walking, WalkBar
<1>4. \A status \in {"running", "done"}, c \in Cursor \cup {WalkBar[r].cursor} :
        /\ WalkBar[r].status = "running"
        /\ WalkBar' = [WalkBar EXCEPT ![r] =
             [status |-> status, cursor |-> c, counters |-> WalkBar[r].counters + 1]]
        => Walk!Advance(r)
  BY DEF Walk!Advance, Walk!Walking, WalkBar
<1> QED BY <1>1, <1>2, <1>3, <1>4 DEF Live

LEMMA LandsWalks ==
  ASSUME StoreTypeOK, begins \in [RunId -> Nat], NEW s \in DriveState, ShapeOK(s),
         AgreesWith(s, run[s.run]), Lands(s)
  PROVE  [Walk!Next]_WalkBar
<1> DEFINE row == run[s.run]
           new == run'[s.run]
<1>1. /\ s.run \in RunId /\ row \in RunRow /\ row.status = Live
      /\ \A q \in RunId : q # s.run => run'[q] = run[q]
  BY LandsOnLive DEF Lands, ShapeOK, StoreTypeOK
<1>2. \/ new \in {Claimed(row, s.owner), Renewed(row), Begun(row)}
      \/ new = Missed(row)
      \/ /\ new = Patched(row, s.patch)
         /\ s.patch.counters = row.counters + 1 /\ s.patch.status \in {Live, "done"}
         /\ s.patch.cursor \in Cursor \cup {row.cursor}
      \/ /\ new = Patched(row, s.patch)
         /\ s.patch.cursor = row.cursor /\ s.patch.counters = row.counters
         /\ s.patch.status \in {Live, "failed"}
  BY LandedRow
<1>3. CASE WalkRow(new) = WalkRow(row)
  BY <1>1, <1>3, WalkSteps
<1>4. CASE WalkRow(new) = [WalkRow(row) EXCEPT !.status = "failed"]
  <2>1. Walk!Fail(s.run)
    BY <1>1, <1>4, WalkSteps
  <2> QED BY <1>1, <2>1 DEF Walk!Next
<1>5. CASE new \in {Claimed(row, s.owner), Renewed(row), Begun(row)}
  <2>1. WalkRow(new) = WalkRow(row)
    BY <1>1, <1>5 DEF WalkRow, Claimed, Renewed, Begun, RunRow
  <2> QED BY <1>3, <2>1
<1>6. CASE new = Missed(row)
  <2>1. WalkRow(new) \in {WalkRow(row), [WalkRow(row) EXCEPT !.status = "failed"]}
    BY <1>1, <1>6 DEF WalkRow, Missed, RunRow
  <2> QED BY <1>3, <1>4, <2>1
<1>7. /\ Patched(row, s.patch).status = s.patch.status
      /\ Patched(row, s.patch).cursor = s.patch.cursor
      /\ Patched(row, s.patch).counters = s.patch.counters
  BY <1>1 DEF Patched, RunRow
<1>8. CASE /\ new = Patched(row, s.patch)
           /\ s.patch.counters = row.counters + 1 /\ s.patch.status \in {Live, "done"}
           /\ s.patch.cursor \in Cursor \cup {row.cursor}
  <2>1. WalkRow(new) = [status |-> s.patch.status, cursor |-> s.patch.cursor,
                        counters |-> row.counters + 1]
    BY <1>7, <1>8 DEF WalkRow
  <2>2. Walk!Advance(s.run)
    BY <1>1, <1>8, <2>1, WalkSteps DEF Live
  <2> QED BY <1>1, <2>2 DEF Walk!Next
<1>9. CASE /\ new = Patched(row, s.patch)
           /\ s.patch.cursor = row.cursor /\ s.patch.counters = row.counters
           /\ s.patch.status \in {Live, "failed"}
  <2>1. WalkRow(new) \in {WalkRow(row), [WalkRow(row) EXCEPT !.status = "failed"]}
    BY <1>1, <1>7, <1>9 DEF WalkRow
  <2> QED BY <1>3, <1>4, <2>1
<1> QED BY <1>2, <1>5, <1>6, <1>8, <1>9

LEMMA OutsideWalks ==
  ASSUME StoreTypeOK, NEW r \in RunId, Outside(r)
  PROVE  [Walk!Next]_WalkBar
<1>0. run[r] \in RunRow /\ \A q \in RunId : q # r => run'[q] = run[q]
  BY OutsideRows DEF StoreTypeOK
<1>1. /\ \A q \in RunId : WalkBar[q].status = run[q].status
      /\ WalkBar[r].cursor = run[r].cursor /\ WalkBar[r].counters = run[r].counters
  BY DEF WalkBar, WalkOf
<1>2. WalkBar' = [WalkBar EXCEPT ![r] = WalkRow(run'[r])]
  BY <1>0, WalkBarRows
<1>3. CASE StartJobRun(r)
  <2>1. /\ run[r].status = "absent" /\ run'[r] = FreshRun
        /\ \A q \in RunId : KeyOf[q] = KeyOf[r] => run[q].status # Live
    BY <1>3 DEF StartJobRun, StartOrJoin, LiveRunOf, StoreTypeOK
  <2>2. WalkRow(FreshRun) = Walk!Fresh
    BY DEF WalkRow, FreshRun, NoRun, Walk!Fresh, Live
  <2>3. /\ WalkBar[r].status = "absent"
        /\ \A q \in RunId : KeyOf[q] = KeyOf[r] => WalkBar[q].status # "running"
        /\ WalkBar' = [WalkBar EXCEPT ![r] = Walk!Fresh]
    BY <1>1, <1>2, <2>1, <2>2 DEF Live
  <2>4. Walk!Start(r)
    BY <2>3 DEF Walk!Start, Walk!Walking, WalkBar
  <2> QED BY <2>4 DEF Walk!Next
<1>4. CASE EraseSubject(r)
  <2>1. r \in Subjects /\ run[r].status # "absent" /\ run'[r] = Redacted(run[r])
    BY <1>4 DEF EraseSubject, Erase, StoreTypeOK
  <2>2. WalkRow(Redacted(run[r])) =
          [ status |-> IF run[r].status = "running" THEN "failed" ELSE run[r].status,
            cursor |-> IF run[r].cursor = Null THEN Null ELSE Tombstone,
            counters |-> run[r].counters ]
    BY <1>0 DEF WalkRow, Redacted, Redaction, RunRow, Live
  <2>3. WalkBar' = [WalkBar EXCEPT ![r] =
          [ status |-> IF WalkBar[r].status = "running" THEN "failed" ELSE WalkBar[r].status,
            cursor |-> IF WalkBar[r].cursor = Null THEN Null ELSE Tombstone,
            counters |-> WalkBar[r].counters ]]
    BY <1>1, <1>2, <2>1, <2>2
  <2>4. WalkBar[r].status # "absent"
    BY <1>1, <2>1
  <2>5. Walk!Redact(r)
    BY <2>1, <2>3, <2>4 DEF Walk!Redact, Walk!Walking, WalkBar
  <2> QED BY <2>5 DEF Walk!Next
<1>5. CASE TimePasses(r)
  <2>1. run'[r] = Nearer(run[r])
    BY <1>5 DEF TimePasses, Elapse, StoreTypeOK
  <2>2. WalkRow(run'[r]) = WalkRow(run[r])
    BY <1>0, <2>1 DEF WalkRow, Nearer, RunRow
  <2> QED BY <1>0, <2>2, WalkSteps
<1> QED BY <1>3, <1>4, <1>5 DEF Outside

LEMMA StepWalks == ASSUME Driven, [Next]_vars PROVE [Walk!Next]_WalkBar
<1> USE DEF Driven, Settled, Shaped
<1>1. begins \in [RunId -> Nat]
  BY DEF RestShaped
<1>2. CASE UNCHANGED <<run, ledger, begins>>
  BY <1>2 DEF WalkBar, WalkOf
<1>3. ASSUME NEW d \in Drive, DriveStep(d) \/ DriveFault(d) PROVE [Walk!Next]_WalkBar
  <2>1. /\ drive[d] \in DriveState /\ ShapeOK(drive[d])
        /\ AgreesWith(drive[d], run[drive[d].run])
    BY DEF DrivesShaped, Agreeing, Agreed
  <2> QED BY <1>1, <1>2, <1>3, <2>1, DriveLands, LandsWalks
<1>4. ASSUME NEW c \in late, LateCall(c) PROVE [Walk!Next]_WalkBar
  <2>1. c \in DriveState /\ ShapeOK(c) /\ AgreesWith(c, run[c.run])
    BY DEF RestShaped, Agreeing
  <2> QED BY <1>1, <1>2, <1>4, <2>1, LandsWalks DEF LateCall
<1>5. ASSUME NEW r \in RunId, Outside(r) PROVE [Walk!Next]_WalkBar
  BY <1>5, OutsideWalks
<1> QED BY <1>2, <1>3, <1>4, <1>5 DEF Next, DriveFault, Outside, vars

(* The driver implements the walk its callers were promised: one committed *)
(* pass at a time, one live run per key, one end, whatever drives overlap, *)
(* die or lose their lease, and whatever calls land late.                  *)
THEOREM DriverImplementsWalk == Spec => ImplementsWalk
<1>1. Init => Walk!Init
  BY DEF Init, StoreInit, NoRun, WalkOf, Walk!Init, Walk!Unborn
<1>2. Driven /\ [Next]_vars => [Walk!Next]_([r \in RunId |-> WalkOf(r)])
  BY StepWalks DEF WalkBar
<1> QED BY <1>1, <1>2, DrivenInit, DrivenStep, PTL DEF Spec, ImplementsWalk, Walk!Spec
=============================================================================
