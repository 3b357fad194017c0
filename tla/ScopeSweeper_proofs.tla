------------------------ MODULE ScopeSweeper_proofs ------------------------
(***************************************************************************)
(* Proofs about the scope sweeper, for any set of scopes, any number of    *)
(* resets and any job-start interval.                                      *)
(***************************************************************************)
EXTENDS ScopeSweeper, FiniteSetTheorems, TLAPS

-----------------------------------------------------------------------------
(* The loop.  Two facts carry it: a noted scope is on the roster, and the  *)
(* property itself.                                                        *)
LoopInv ==
  /\ noted \subseteq roster
  /\ alarm \in BOOLEAN /\ handling \in {"no", "own", "joined"} /\ adrift \in BOOLEAN
  /\ LoopAliveUncut

LEMMA CallsKeepLoop == ASSUME LoopInv, NEW s \in Scope, Calls(s) PROVE LoopInv'
<1>1. CASE Note(s)
  BY <1>1 DEF Note, history, LoopInv, LoopAliveUncut, LoopAlive
<1>2. CASE NoteCut(s)
  BY <1>2 DEF NoteCut, Restarted, history, LoopInv, LoopAliveUncut, LoopAlive
<1>3. CASE Forget(s)
  BY <1>3 DEF Forget, history, LoopInv, LoopAliveUncut, LoopAlive
<1> QED BY <1>1, <1>2, <1>3 DEF Calls

(* A visit touches neither the roster nor the alarm.                       *)
LEMMA VisitKeepsLoop ==
  ASSUME NEW s \in Scope, Visit(s)
  PROVE  UNCHANGED <<roster, alarm, handling, noted, adrift>>
BY DEF Visit, Take, SkipHeld, Drained, StartReturns, RecordStart, StartThrows, VisitEnds, history

LEMMA LoopStep == LoopInv /\ [Next]_vars => LoopInv'
<1> SUFFICES ASSUME LoopInv, [Next]_vars PROVE LoopInv'
  OBVIOUS
<1>1. ASSUME NEW s \in Scope, Calls(s) PROVE LoopInv'
  BY <1>1, CallsKeepLoop
<1>2. ASSUME NEW s \in Scope, Visit(s) PROVE LoopInv'
  BY <1>2, VisitKeepsLoop DEF history, LoopInv, LoopAliveUncut, LoopAlive
<1>3. CASE EnsureArmed
  BY <1>3 DEF EnsureArmed, history, LoopInv, LoopAliveUncut, LoopAlive
<1>4. CASE SweepNow
  BY <1>4 DEF SweepNow, history, LoopInv, LoopAliveUncut, LoopAlive
<1>5. CASE OnAlarm(Join) \/ OnAlarm(Open) \/ OnAlarm(OpenThrows)
  BY <1>5 DEF OnAlarm, history, LoopInv, LoopAliveUncut, LoopAlive
<1>6. CASE Finish
  BY <1>6 DEF Finish, history, LoopInv, LoopAliveUncut, LoopAlive
<1>10. CASE FinishCut
  BY <1>10 DEF FinishCut, Restarted, history, LoopInv, LoopAliveUncut, LoopAlive
<1>7. CASE Tick
  BY <1>7 DEF Tick, history, LoopInv, LoopAliveUncut, LoopAlive
<1>8. CASE Reset
  BY <1>8 DEF Reset, Restarted, history, LoopInv, LoopAliveUncut, LoopAlive
<1>9. CASE UNCHANGED vars
  BY <1>9 DEF vars, history, LoopInv, LoopAliveUncut, LoopAlive
<1> QED BY <1>1, <1>2, <1>3, <1>4, <1>5, <1>6, <1>7, <1>8, <1>9, <1>10 DEF Next

(* A deployment with a noted scope has an alarm set or in hand: the loop   *)
(* never dies wherever it is reset, but between the end of a pass that an  *)
(* alarm joined and the setAlarm of its finally.                           *)
THEOREM LoopNeverDies == Spec => []LoopAliveUncut
<1>1. Init => LoopInv
  BY DEF Init, history, LoopInv, LoopAliveUncut, LoopAlive
<1>2. LoopInv => LoopAliveUncut
  BY DEF LoopInv
<1> QED BY <1>1, <1>2, LoopStep, PTL DEF Spec

-----------------------------------------------------------------------------
(* The job-start gate.  Outside the moment between a success and its put,  *)
(* and unless that put was lost, the last success is as old as the key     *)
(* stored, or Interval old at least; no key means the latter.  In that     *)
(* moment it is as old as the time the put will store.                     *)
StartInv ==
  /\ phase \in [Scope -> Phase]
  /\ called \in [Scope -> Age] /\ since \in [Scope -> Age]
  /\ started \in [Scope -> Age \cup {Never}]
  /\ unrecorded \in SUBSET Scope
  /\ \A s \in Scope : phase[s] = "started" => since[s] \in {called[s], Interval}
  /\ \A s \in Scope \ unrecorded :
        phase[s] # "started" => since[s] \in {Interval} \cup ({started[s]} \ {Never})

LEMMA NeverIsNoAge == Never \notin Age /\ Interval \in Age /\ 0 \in Age
BY SweeperAssumption DEF Age

LEMMA PhaseSet ==
  ASSUME StartInv, NEW s \in Scope, NEW p \in Phase
  PROVE  [phase EXCEPT ![s] = p] \in [Scope -> Phase]
BY DEF StartInv

LEMMA NoPassType == NoPass \in [Scope -> Phase]
BY DEF NoPass, Phase

(* Steps that leave the keys and the times of the calls alone: an entry    *)
(* that leaves the moment after a success is unrecorded.                   *)
LEMMA KeysUntouched ==
  ASSUME StartInv, UNCHANGED <<started, called, since>>, phase' \in [Scope -> Phase],
         unrecorded' \in SUBSET Scope, unrecorded \subseteq unrecorded',
         \A s \in Scope : phase'[s] = "started" => phase[s] = "started",
         \A s \in Scope : phase[s] = "started" /\ phase'[s] # "started" => s \in unrecorded'
  PROVE  StartInv'
<1>1. ASSUME NEW s \in Scope, phase'[s] = "started" PROVE since'[s] \in {called'[s], Interval}
  BY <1>1 DEF StartInv
<1>2. ASSUME NEW s \in Scope \ unrecorded', phase'[s] # "started"
      PROVE  since'[s] \in {Interval} \cup ({started'[s]} \ {Never})
  <2>1. s \notin unrecorded /\ phase[s] # "started"
    BY <1>2
  <2> QED BY <2>1 DEF StartInv
<1> QED BY <1>1, <1>2 DEF StartInv

LEMMA VisitKeepsStart == ASSUME StartInv, NEW s \in Scope, Visit(s) PROVE StartInv'
<1>0. phase \in [Scope -> Phase] /\ unrecorded \in SUBSET Scope
  BY DEF StartInv
<1>1. CASE Take(s) \/ SkipHeld(s) \/ VisitEnds(s)
  <2>1. phase' \in [Scope -> Phase]
    BY <1>1, PhaseSet DEF Take, SkipHeld, VisitEnds, Phase
  <2>2. UNCHANGED <<started, called, since, unrecorded>>
    BY <1>1 DEF Take, SkipHeld, VisitEnds, history
  <2>3. \A t \in Scope : phase'[t] = "started" <=> phase[t] = "started"
    BY <1>0, <1>1 DEF Take, SkipHeld, VisitEnds
  <2> QED BY <1>0, <2>1, <2>2, <2>3, KeysUntouched
<1>2. CASE StartThrows(s)
  <2>1. phase' \in [Scope -> Phase]
    BY <1>2, PhaseSet DEF StartThrows, Phase
  <2>2. UNCHANGED <<started, called, since>> /\ unrecorded' \in SUBSET Scope /\ unrecorded \subseteq unrecorded'
    BY <1>0, <1>2 DEF StartThrows
  <2>3. /\ \A t \in Scope : phase'[t] = "started" => phase[t] = "started"
        /\ \A t \in Scope : phase[t] = "started" /\ phase'[t] # "started" => t \in unrecorded'
    BY <1>0, <1>2 DEF StartThrows
  <2> QED BY <2>1, <2>2, <2>3, KeysUntouched
<1>3. CASE Drained(s)
  <2>1. phase' \in [Scope -> Phase]
    BY <1>3, PhaseSet DEF Drained, Phase
  <2>2. called' = [called EXCEPT ![s] = 0] /\ UNCHANGED <<started, since, unrecorded>>
    BY <1>3 DEF Drained, history
  <2>3. \A t \in Scope : (phase'[t] = "started" <=> phase[t] = "started")
                           /\ (phase'[t] = "started" => t # s)
    BY <1>0, <1>3 DEF Drained
  <2>4. ASSUME NEW t \in Scope, phase'[t] = "started" PROVE since'[t] \in {called'[t], Interval}
    BY <2>2, <2>3, <2>4 DEF StartInv
  <2>5. ASSUME NEW t \in Scope \ unrecorded', phase'[t] # "started"
        PROVE  since'[t] \in {Interval} \cup ({started'[t]} \ {Never})
    BY <2>2, <2>3, <2>5 DEF StartInv
  <2> QED BY <2>1, <2>2, <2>4, <2>5, NeverIsNoAge DEF StartInv
<1>4. CASE StartReturns(s)
  <2>1. phase' \in [Scope -> Phase] /\ phase' = [phase EXCEPT ![s] = "started"]
    BY <1>4, PhaseSet DEF StartReturns, Phase
  <2>2. since' = [since EXCEPT ![s] = called[s]] /\ UNCHANGED <<started, called, unrecorded>>
    BY <1>4 DEF StartReturns
  <2>3. called[s] \in Age
    BY DEF StartInv
  <2>4. ASSUME NEW t \in Scope, phase'[t] = "started" PROVE since'[t] \in {called'[t], Interval}
    BY <1>0, <2>1, <2>2, <2>4 DEF StartInv
  <2>5. ASSUME NEW t \in Scope \ unrecorded', phase'[t] # "started"
        PROVE  since'[t] \in {Interval} \cup ({started'[t]} \ {Never})
    BY <1>0, <2>1, <2>2, <2>5 DEF StartInv
  <2> QED BY <2>1, <2>2, <2>3, <2>4, <2>5 DEF StartInv
<1>5. CASE RecordStart(s)
  <2>1. phase' \in [Scope -> Phase] /\ phase' = [phase EXCEPT ![s] = "rest"] /\ phase[s] = "started"
    BY <1>5, PhaseSet DEF RecordStart, Phase
  <2>2. /\ started' = [started EXCEPT ![s] = called[s]] /\ unrecorded' = unrecorded \ {s}
        /\ UNCHANGED <<called, since>>
    BY <1>5 DEF RecordStart
  <2>3. called[s] \in Age /\ called[s] # Never /\ started \in [Scope -> Age \cup {Never}]
    BY NeverIsNoAge DEF StartInv
  <2>4. ASSUME NEW t \in Scope, phase'[t] = "started" PROVE since'[t] \in {called'[t], Interval}
    BY <1>0, <2>1, <2>2, <2>4 DEF StartInv
  <2>5. ASSUME NEW t \in Scope \ unrecorded', phase'[t] # "started"
        PROVE  since'[t] \in {Interval} \cup ({started'[t]} \ {Never})
    BY <1>0, <2>1, <2>2, <2>3, <2>5 DEF StartInv
  <2> QED BY <1>0, <2>1, <2>2, <2>3, <2>4, <2>5 DEF StartInv
<1> QED BY <1>1, <1>2, <1>3, <1>4, <1>5 DEF Visit

(* A reset drops the pass; what had not been stored is unrecorded.         *)
LEMMA RestartKeepsStart ==
  ASSUME StartInv, phase' = NoPass, UNCHANGED <<started, called, since>>,
         unrecorded' = unrecorded \cup {s \in Scope : phase[s] = "started"}
  PROVE  StartInv'
<1>1. \A s \in Scope : phase'[s] # "started"
  BY DEF NoPass
<1> QED BY <1>1, NoPassType, KeysUntouched DEF StartInv

LEMMA CallsKeepStart == ASSUME StartInv, NEW s \in Scope, Calls(s) PROVE StartInv'
<1>1. CASE Note(s)
  BY <1>1, KeysUntouched DEF Note, StartInv
<1>2. CASE NoteCut(s)
  BY <1>2, RestartKeepsStart DEF NoteCut, Restarted
<1>3. CASE Forget(s)
  <2>1. /\ started' = [started EXCEPT ![s] = Never] /\ since' = [since EXCEPT ![s] = Interval]
        /\ unrecorded' = unrecorded \ {s} /\ UNCHANGED <<phase, called>>
    BY <1>3 DEF Forget
  <2>2. ASSUME NEW t \in Scope, phase'[t] = "started" PROVE since'[t] \in {called'[t], Interval}
    BY <2>1, <2>2 DEF StartInv
  <2>3. ASSUME NEW t \in Scope \ unrecorded', phase'[t] # "started"
        PROVE  since'[t] \in {Interval} \cup ({started'[t]} \ {Never})
    <3>1. CASE t = s
      BY <2>1, <3>1 DEF StartInv
    <3>2. CASE t # s
      BY <2>1, <2>3, <3>2 DEF StartInv
    <3> QED BY <3>1, <3>2
  <2> QED BY <2>1, <2>2, <2>3, NeverIsNoAge DEF StartInv
<1> QED BY <1>1, <1>2, <1>3 DEF Calls

LEMMA OlderType == ASSUME NEW a \in Age PROVE Older(a) \in Age /\ Older(a) # Never
BY SweeperAssumption DEF Age, Older

LEMMA TickKeepsStart == ASSUME StartInv, Tick PROVE StartInv'
<1>1. /\ started' \in [Scope -> Age \cup {Never}]
      /\ called' \in [Scope -> Age] /\ since' \in [Scope -> Age]
      /\ phase' \in [Scope -> Phase] /\ unrecorded' \in SUBSET Scope
  BY OlderType DEF StartInv, Tick
<1>2. Older(Interval) = Interval
  BY SweeperAssumption DEF Older
<1>3. ASSUME NEW s \in Scope, phase'[s] = "started" PROVE since'[s] \in {called'[s], Interval}
  BY <1>2, <1>3 DEF StartInv, Tick
<1>4. ASSUME NEW s \in Scope \ unrecorded', phase'[s] # "started"
      PROVE  since'[s] \in {Interval} \cup ({started'[s]} \ {Never})
  <2>1. since[s] \in {Interval} \cup ({started[s]} \ {Never}) /\ since'[s] = Older(since[s])
    BY <1>4 DEF StartInv, Tick
  <2>2. since[s] \in Age /\ (started[s] # Never => started'[s] = Older(started[s]))
    BY DEF StartInv, Tick
  <2>3. since'[s] # Never
    BY <2>1, <2>2, OlderType
  <2> QED BY <1>2, <2>1, <2>2, <2>3
<1> QED BY <1>1, <1>3, <1>4 DEF StartInv

(* Only a pass that runs has entries.                                      *)
PassInv == running \/ phase = NoPass

LEMMA PassStep == PassInv /\ [Next]_vars => PassInv'
<1> SUFFICES ASSUME PassInv, [Next]_vars PROVE PassInv'
  OBVIOUS
<1>1. ASSUME NEW s \in Scope, Calls(s) PROVE PassInv'
  BY <1>1 DEF Calls, Note, NoteCut, Restarted, Forget, PassInv
<1>2. ASSUME NEW s \in Scope, Visit(s) PROVE PassInv'
  <2>1. phase[s] # "none" /\ UNCHANGED running
    BY <1>2 DEF Visit, Take, SkipHeld, Drained, StartReturns, RecordStart, StartThrows, VisitEnds, history
  <2>2. running
    BY <2>1 DEF PassInv, NoPass
  <2> QED BY <2>1, <2>2 DEF PassInv
<1>3. CASE \/ EnsureArmed \/ SweepNow \/ OnAlarm(Join) \/ OnAlarm(Open) \/ OnAlarm(OpenThrows)
           \/ Finish \/ FinishCut \/ Tick \/ Reset \/ UNCHANGED vars
  BY <1>3 DEF EnsureArmed, SweepNow, OnAlarm, Join, Open, OpenThrows, Finish, FinishCut, Tick,
              Reset, Restarted, vars, PassInv
<1> QED BY <1>1, <1>2, <1>3 DEF Next

LEMMA StartStep == StartInv /\ PassInv /\ [Next]_vars => StartInv'
<1> SUFFICES ASSUME StartInv, PassInv, [Next]_vars PROVE StartInv'
  OBVIOUS
<1>0. ~running => \A s \in Scope : phase[s] # "started"
  BY DEF PassInv, NoPass
<1>1. ASSUME NEW s \in Scope, Calls(s) PROVE StartInv'
  BY <1>1, CallsKeepStart
<1>2. ASSUME NEW s \in Scope, Visit(s) PROVE StartInv'
  BY <1>2, VisitKeepsStart
<1>3. CASE UNCHANGED <<phase, started, called, since, unrecorded>>
  BY <1>3, KeysUntouched DEF StartInv
<1>4. CASE EnsureArmed
  BY <1>3, <1>4 DEF EnsureArmed
<1>5. ASSUME Open \/ OpenThrows \/ Join, UNCHANGED <<started, called, history>> PROVE StartInv'
  <2>1. CASE Open
    <3>1. phase' \in [Scope -> Phase] /\ \A s \in Scope : phase'[s] # "started"
      BY <2>1 DEF Open, Phase
    <3>2. \A s \in Scope : phase[s] # "started"
      BY <1>0, <2>1 DEF Open
    <3> QED BY <1>5, <3>1, <3>2, KeysUntouched DEF history, StartInv
  <2>2. CASE OpenThrows
    <3>1. phase' \in [Scope -> Phase] /\ \A s \in Scope : phase'[s] # "started"
      BY <2>2, NoPassType DEF OpenThrows, NoPass
    <3>2. \A s \in Scope : phase[s] # "started"
      BY <1>0, <2>2 DEF OpenThrows
    <3> QED BY <1>5, <3>1, <3>2, KeysUntouched DEF history, StartInv
  <2>3. CASE Join
    BY <1>3, <1>5, <2>3 DEF Join, history
  <2> QED BY <1>5, <2>1, <2>2, <2>3
<1>6. CASE SweepNow
  BY <1>5, <1>6 DEF SweepNow
<1>7. CASE OnAlarm(Join) \/ OnAlarm(Open) \/ OnAlarm(OpenThrows)
  BY <1>5, <1>7 DEF OnAlarm
<1>8. CASE Finish
  <2>1. phase' = NoPass /\ UNCHANGED <<started, called, since, unrecorded>>
    BY <1>8 DEF Finish
  <2>2. \A s \in Scope : phase'[s] # "started" /\ phase[s] # "started"
    BY <1>8, <2>1 DEF Finish, PassIsOver, NoPass
  <2> QED BY <2>1, <2>2, NoPassType, KeysUntouched DEF StartInv
<1>9. CASE FinishCut
  BY <1>9, RestartKeepsStart DEF FinishCut, Restarted
<1>10. CASE Tick
  BY <1>10, TickKeepsStart
<1>11. CASE Reset
  BY <1>11, RestartKeepsStart DEF Reset, Restarted
<1>12. CASE UNCHANGED vars
  BY <1>3, <1>12 DEF vars, history
<1> QED BY <1>1, <1>2, <1>4, <1>6, <1>7, <1>8, <1>9, <1>10, <1>11, <1>12 DEF Next

(* Only a visit that read a due key goes on to startJobs.                  *)
LEMMA OnlyDrainedStarts ==
  ASSUME StartInv, [Next]_vars, NEW s \in Scope, phase[s] = "visit", phase'[s] = "starting"
  PROVE  Drained(s) /\ DueToStart(s)
<1>1. phase \in [Scope -> Phase] /\ phase # phase'
  BY DEF StartInv
<1>2. NoPass[s] # "starting"
  BY DEF NoPass
<1>3. [t \in Scope |-> IF t \in roster THEN "todo" ELSE "none"][s] # "starting"
  OBVIOUS
<1>4. ~(EnsureArmed \/ Tick \/ UNCHANGED vars \/ OnAlarm(Join))
  BY <1>1 DEF EnsureArmed, Tick, vars, OnAlarm, Join
<1>5. ~(SweepNow \/ OnAlarm(Open) \/ OnAlarm(OpenThrows) \/ Finish \/ FinishCut \/ Reset)
  BY <1>2, <1>3 DEF SweepNow, OnAlarm, Open, OpenThrows, Finish, FinishCut, Reset, Restarted
<1>6. ASSUME NEW t \in Scope, Calls(t) PROVE FALSE
  BY <1>1, <1>2, <1>6 DEF Calls, Note, NoteCut, Restarted, Forget
<1>7. PICK t \in Scope : Visit(t)
  BY <1>4, <1>5, <1>6 DEF Next
<1>8. t = s
  BY <1>1, <1>7 DEF Visit, Take, SkipHeld, Drained, StartReturns, RecordStart, StartThrows, VisitEnds, history
<1> QED BY <1>1, <1>7, <1>8 DEF Visit, Take, SkipHeld, Drained, StartReturns, RecordStart, StartThrows, VisitEnds, history

(* jobStartIntervalMs holds between a success that was recorded and the    *)
(* next startJobs call, whatever the pass, the kicks, the forgets and the  *)
(* resets between them: only a success whose put is lost is followed early.*)
THEOREM StartsKeepApart == Spec => StartsApartRecorded
<1>1. Init => StartInv /\ PassInv
  BY NeverIsNoAge, NoPassType DEF Init, StartInv, PassInv, NoPass
<1>2. StartInv /\ [Next]_vars
      => [\A s \in Scope \ unrecorded :
             phase[s] = "visit" /\ phase'[s] = "starting" => since[s] = Interval]_vars
  <2> SUFFICES ASSUME StartInv, [Next]_vars, NEW s \in Scope \ unrecorded,
                      phase[s] = "visit", phase'[s] = "starting"
               PROVE  since[s] = Interval
    OBVIOUS
  <2>1. DueToStart(s)
    BY OnlyDrainedStarts
  <2>2. started[s] # Never => started[s] \in 0..Interval
    BY DEF StartInv, Age
  <2>3. since[s] \in {Interval} \cup ({started[s]} \ {Never})
    BY DEF StartInv
  <2> QED BY <2>1, <2>2, <2>3, SweeperAssumption DEF DueToStart
<1> QED BY <1>1, <1>2, StartStep, PassStep, PTL DEF Spec, StartsApartRecorded

-----------------------------------------------------------------------------
(* The pool.  A worker takes an entry only while fewer than Concurrency    *)
(* are in hand, and every other step puts entries down or moves them on.   *)
PoolInv ==
  /\ IsFiniteSet(Busy) /\ Cardinality(Busy) <= Concurrency
  /\ roster \in SUBSET Scope /\ noted \in SUBSET Scope
  /\ running \in BOOLEAN /\ resets \in Nat

LEMMA PoolShrinks ==
  ASSUME IsFiniteSet(Busy), Cardinality(Busy) <= Concurrency, Busy' \subseteq Busy
  PROVE  IsFiniteSet(Busy') /\ Cardinality(Busy') <= Concurrency
<1>1. IsFiniteSet(Busy') /\ Cardinality(Busy') <= Cardinality(Busy)
  BY FS_Subset
<1>2. Cardinality(Busy') \in Nat /\ Cardinality(Busy) \in Nat
  BY <1>1, FS_CardinalityType
<1> QED BY <1>1, <1>2, SweeperAssumption

LEMMA TakeKeepsPool ==
  ASSUME StartInv, IsFiniteSet(Busy), NEW s \in Scope, Take(s)
  PROVE  IsFiniteSet(Busy') /\ Cardinality(Busy') <= Concurrency
<1>1. phase' = [phase EXCEPT ![s] = "visit"] /\ phase[s] = "todo" /\ phase \in [Scope -> Phase]
  BY DEF Take, StartInv
<1>2. Busy' = Busy \cup {s} /\ s \notin Busy
  BY <1>1 DEF Busy
<1>3. IsFiniteSet(Busy') /\ Cardinality(Busy') = Cardinality(Busy) + 1
  BY <1>2, FS_AddElement
<1>4. Cardinality(Busy) \in Nat /\ Cardinality(Busy) < Concurrency
  BY FS_CardinalityType DEF Take
<1> QED BY <1>3, <1>4, SweeperAssumption

LEMMA PoolStep == LoopInv /\ StartInv /\ PoolInv /\ [Next]_vars => PoolInv'
<1> SUFFICES ASSUME LoopInv, StartInv, PoolInv, [Next]_vars PROVE PoolInv'
  OBVIOUS
<1> USE DEF PoolInv
<1>1. /\ roster' \in SUBSET Scope /\ noted' \in SUBSET Scope
      /\ running' \in BOOLEAN /\ resets' \in Nat
  <2>1. ASSUME NEW s \in Scope, Calls(s)
        PROVE  /\ roster' \subseteq roster \cup {s} /\ noted' \subseteq noted \cup {s}
               /\ running' = running \/ running' = FALSE
               /\ resets' \in {resets, resets + 1}
    BY <2>1 DEF Calls, Note, NoteCut, Cut, Restarted, Forget
  <2>2. ASSUME NEW s \in Scope, Visit(s) PROVE UNCHANGED <<roster, noted, running, resets>>
    BY <2>2 DEF Visit, Take, SkipHeld, Drained, StartReturns, RecordStart, StartThrows, VisitEnds, history
  <2>3. ASSUME \/ EnsureArmed \/ SweepNow \/ OnAlarm(Join) \/ OnAlarm(Open) \/ OnAlarm(OpenThrows)
               \/ Finish \/ FinishCut \/ Tick \/ Reset \/ UNCHANGED vars
        PROVE  /\ UNCHANGED <<roster, noted>>
               /\ running' = running \/ running' = FALSE \/ running' = TRUE
               /\ resets' \in {resets, resets + 1}
    BY <2>3 DEF EnsureArmed, SweepNow, OnAlarm, Join, Open, OpenThrows, Finish, FinishCut, Tick, Reset,
                Cut, Restarted, history, vars
  <2>4. /\ roster' \in SUBSET Scope /\ noted' \in SUBSET Scope /\ resets' \in Nat
    <3>1. resets' \in {resets, resets + 1}
      BY <2>1, <2>2, <2>3 DEF Next
    <3>2. CASE \E s \in Scope : Calls(s)
      <4>1. PICK s \in Scope : Calls(s)
        BY <3>2
      <4>2. roster' \subseteq roster \cup {s} /\ noted' \subseteq noted \cup {s}
        BY <2>1, <4>1
      <4> QED BY <3>1, <4>2
    <3>3. CASE UNCHANGED <<roster, noted>>
      BY <3>1, <3>3
    <3> QED BY <2>2, <2>3, <3>2, <3>3 DEF Next
  <2>5. running' = running \/ running' = FALSE \/ running' = TRUE
    BY <2>1, <2>2, <2>3 DEF Next
  <2>6. running' \in BOOLEAN
    BY <2>5
  <2> QED BY <2>4, <2>6
<1>2. phase \in [Scope -> Phase]
  BY DEF StartInv
<1>3. CASE \E s \in Scope : Take(s)
  BY <1>1, <1>3, TakeKeepsPool
<1>4. CASE UNCHANGED phase
  BY <1>1, <1>4, PoolShrinks DEF Busy
<1>5. CASE \/ phase' = NoPass
           \/ phase' = [s \in Scope |-> IF s \in roster THEN "todo" ELSE "none"]
  <2>1. Busy' = {}
    BY <1>5 DEF Busy, NoPass
  <2> QED BY <1>1, <2>1, PoolShrinks
<1>6. ASSUME NEW s \in Scope, SkipHeld(s) \/ Drained(s) \/ StartReturns(s) \/ RecordStart(s)
                               \/ StartThrows(s) \/ VisitEnds(s)
      PROVE  PoolInv'
  <2>1. Busy' \subseteq Busy
    BY <1>2, <1>6 DEF Busy, SkipHeld, Drained, StartReturns, RecordStart, StartThrows, VisitEnds, history
  <2> QED BY <1>1, <2>1, PoolShrinks
<1>7. ASSUME NEW s \in Scope, Calls(s) PROVE PoolInv'
  BY <1>4, <1>5, <1>7 DEF Calls, Note, NoteCut, Restarted, Forget
<1>8. CASE \/ EnsureArmed \/ SweepNow \/ OnAlarm(Join) \/ OnAlarm(Open) \/ OnAlarm(OpenThrows)
           \/ Finish \/ FinishCut \/ Tick \/ Reset \/ UNCHANGED vars
  BY <1>4, <1>5, <1>8
     DEF EnsureArmed, SweepNow, OnAlarm, Join, Open, OpenThrows, Finish, FinishCut, Tick, Reset,
         Restarted, vars
<1> QED BY <1>3, <1>6, <1>7, <1>8 DEF Next, Visit

(* The sweeper's state keeps its types, and a pass works on at most        *)
(* Concurrency scopes at once, however passes, kicks and resets meet.      *)
THEOREM PoolStaysBounded == Spec => []TypeOK
<1>1. Init => LoopInv
  BY DEF Init, history, LoopInv, LoopAliveUncut, LoopAlive
<1>2. Init => StartInv /\ PassInv
  BY NeverIsNoAge, NoPassType DEF Init, StartInv, PassInv, NoPass
<1>3. Init => PoolInv
  <2> SUFFICES ASSUME Init PROVE PoolInv
    OBVIOUS
  <2>1. Busy = {}
    BY DEF Init, NoPass, Busy
  <2>2. IsFiniteSet(Busy) /\ Cardinality(Busy) = 0
    BY <2>1, FS_EmptySet
  <2>3. Cardinality(Busy) <= Concurrency
    BY <2>2, SweeperAssumption
  <2> QED BY <2>2, <2>3 DEF Init, PoolInv
<1>4. LoopInv /\ StartInv /\ PoolInv => TypeOK
  BY DEF LoopInv, StartInv, PoolInv, TypeOK
<1> QED BY <1>1, <1>2, <1>3, <1>4, LoopStep, StartStep, PassStep, PoolStep, PTL DEF Spec
=============================================================================
