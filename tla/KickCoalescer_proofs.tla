------------------------ MODULE KickCoalescer_proofs ------------------------
(***************************************************************************)
(* Proofs about the kick coalescer, for every window length and any number *)
(* of kicks, resets and early alarms.                                      *)
(***************************************************************************)
EXTENDS KickCoalescer, TLAPS

(* The stored start is the real one; only a start a full window old is     *)
(* ever forgotten.                                                         *)
AgeIsTrue ==
  /\ stored = None => since = Window
  /\ stored # None => stored.age = since

Inv == TypeOK /\ AgeIsTrue

LEMMA OlderType == ASSUME NEW a \in 0..Window PROVE Older(a) \in 0..Window
BY WindowAssumption DEF Older

LEMMA ArmType ==
  ASSUME NEW a \in 0..Window, NEW set \in (0..Window) \cup {None}
  PROVE  ArmFor(a, set) \in 0..Window /\ ArmFor(a, set) <= Window - a
BY WindowAssumption DEF ArmFor

LEMMA PriorType ==
  ASSUME TypeOK
  PROVE  Prior \in KickState /\ Marked \in KickState /\ Marked.age = Prior.age /\ Marked.dirty
<1>1. Prior \in KickState
  <2>1. [age |-> Window, dirty |-> FALSE] \in KickState
    BY WindowAssumption DEF KickState
  <2> QED BY <2>1 DEF TypeOK, Prior
<1>2. ASSUME NEW p \in KickState
      PROVE  LET q == [p EXCEPT !.dirty = TRUE]
             IN  q \in KickState /\ q.age = p.age /\ q.dirty
  BY DEF KickState
<1> QED BY <1>1, <1>2 DEF Marked

LEMMA StoredIsState ==
  ASSUME TypeOK PROVE /\ stored # None => stored \in KickState /\ Prior = stored
                      /\ None \notin KickState
BY WindowAssumption DEF TypeOK, KickState, Prior

LEMMA StartKeeps ==
  ASSUME Inv, NEW by \in {"kick", "alarm"}, StartPass(by),
         alarm' \in (0..Window) \cup {None},
         kicks' \in Nat, resets' \in Nat, early' \in Nat
  PROVE  Inv'
<1>1. stored' \in KickState /\ stored'.age = 0
  BY WindowAssumption DEF KickState, StartPass
<1>2. stored' # None
  BY <1>1, WindowAssumption DEF KickState
<1>3. since' = 0 /\ 0 \in 0..Window
  BY WindowAssumption DEF StartPass
<1>4. running' \in {"no", "kick", "alarm"} /\ owed' \in BOOLEAN
  BY DEF StartPass
<1> QED BY <1>1, <1>2, <1>3, <1>4 DEF Inv, TypeOK, AgeIsTrue

LEMMA KickKeeps == ASSUME Inv, Kick PROVE Inv'
<1> USE WindowAssumption
<1>1. kicks' \in Nat /\ resets' \in Nat /\ early' \in Nat
  BY DEF Inv, TypeOK, Kick
<1>2. CASE Coalesce
  BY <1>1, <1>2, PriorType, StoredIsState DEF Inv, TypeOK, AgeIsTrue, Coalesce, Prior
<1>3. CASE Defer
  <2>1. Prior.age \in 0..Window
    BY PriorType DEF Inv, KickState
  <2>2. alarm' \in 0..Window
    BY <1>3, <2>1, ArmType DEF Defer, Inv, TypeOK
  <2> QED BY <1>1, <1>3, <2>2, PriorType, StoredIsState DEF Inv, TypeOK, AgeIsTrue, Defer, Prior
<1>4. CASE RunNow
  BY <1>1, <1>4, StartKeeps DEF RunNow, Inv, TypeOK
<1> QED BY <1>2, <1>3, <1>4 DEF Kick

LEMMA AlarmKeeps ==
  ASSUME Inv, OnAlarm, kicks' \in Nat, resets' \in Nat, early' \in Nat
  PROVE  Inv'
<1> USE WindowAssumption
<1>1. CASE stored = None \/ running # "no"
  BY <1>1 DEF OnAlarm, Inv, TypeOK, AgeIsTrue
<1>2. CASE stored # None /\ running = "no" /\ InWindow
  <2>1. stored.age \in 0..Window
    BY <1>2, StoredIsState DEF Inv, KickState
  <2>2. alarm' \in 0..Window /\ UNCHANGED <<stored, running, since, owed>>
    BY <1>2, <2>1, ArmType DEF OnAlarm
  <2> QED BY <2>2 DEF Inv, TypeOK, AgeIsTrue
<1>3. CASE stored # None /\ running = "no" /\ ~InWindow /\ stored.dirty
  BY <1>3, StartKeeps DEF OnAlarm
<1>4. CASE stored # None /\ running = "no" /\ ~InWindow /\ ~stored.dirty
  <2>1. since = Window
    BY <1>4, StoredIsState DEF Inv, TypeOK, AgeIsTrue, InWindow, KickState
  <2> QED BY <1>4, <2>1 DEF OnAlarm, Inv, TypeOK, AgeIsTrue
<1> QED BY <1>1, <1>2, <1>3, <1>4

LEMMA StepKeeps == ASSUME Inv, [Next]_vars PROVE Inv'
<1> USE WindowAssumption
<1>1. CASE Kick
  BY <1>1, KickKeeps
<1>2. CASE AlarmFires
  BY <1>2, AlarmKeeps DEF AlarmFires, Inv, TypeOK
<1>3. CASE AlarmEarly
  BY <1>3, AlarmKeeps DEF AlarmEarly, Inv, TypeOK
<1>4. CASE PassEnds
  <2>1. alarm' \in 0..Window
    BY <1>4, ArmType DEF PassEnds, Inv, TypeOK
  <2> QED BY <1>4, <2>1 DEF PassEnds, Inv, TypeOK, AgeIsTrue
<1>5. CASE Reset
  <2>1. Marked \in KickState /\ Marked.age = Prior.age
    BY PriorType DEF Inv
  <2>2. resets' \in Nat /\ kicks' \in Nat /\ UNCHANGED <<early, since>>
    BY <1>5 DEF Reset, Inv, TypeOK
  <2>3. CASE running' = "no" /\ UNCHANGED <<stored, owed>>
    <3>1. alarm' \in (0..Window) \cup {None}
      BY <1>5 DEF Reset, Inv, TypeOK
    <3> QED BY <2>2, <2>3, <3>1 DEF Inv, TypeOK, AgeIsTrue
  <2>4. CASE stored' = Marked /\ owed' = TRUE /\ UNCHANGED <<running, alarm>>
    <3>1. Marked # None
      BY <2>1, StoredIsState DEF Inv
    <3>2. Prior.age = since
      BY DEF Prior, Inv, AgeIsTrue
    <3> QED BY <2>1, <2>2, <2>4, <3>1, <3>2 DEF Inv, TypeOK, AgeIsTrue
  <2> QED BY <1>5, <2>3, <2>4 DEF Reset
<1>6. CASE Tick
  <2>1. since' \in 0..Window
    BY <1>6, OlderType DEF Tick, Inv, TypeOK
  <2>2. alarm' \in (0..Window) \cup {None}
    BY <1>6 DEF Tick, Inv, TypeOK
  <2>3. CASE stored = None
    BY <1>6, <2>1, <2>2, <2>3 DEF Tick, Inv, TypeOK, AgeIsTrue, Older
  <2>4. CASE stored # None
    <3>1. stored \in KickState /\ stored.age \in 0..Window /\ stored.age = since
      BY <2>4, StoredIsState DEF Inv, KickState, AgeIsTrue
    <3>2. stored' = [stored EXCEPT !.age = Older(since)]
      BY <1>6, <2>4, <3>1 DEF Tick
    <3>3. stored' \in KickState /\ stored'.age = since' /\ stored' # None
      BY <1>6, <3>1, <3>2, <2>1, StoredIsState DEF KickState, Tick, Inv
    <3> QED BY <1>6, <2>1, <2>2, <3>3 DEF Tick, Inv, TypeOK, AgeIsTrue
  <2> QED BY <2>3, <2>4
<1>7. CASE UNCHANGED vars
  BY <1>7 DEF vars, Inv, TypeOK, AgeIsTrue
<1> QED BY <1>1, <1>2, <1>3, <1>4, <1>5, <1>6, <1>7 DEF Next

LEMMA InitHolds == Init => Inv
<1>1. 0 \in Nat /\ Window \in 0..Window /\ FALSE \in BOOLEAN
  BY WindowAssumption
<1> QED BY <1>1 DEF Init, Inv, TypeOK, AgeIsTrue

(* Every state of the coalescer is well formed. *)
THEOREM TypeCorrect == Spec => []TypeOK
<1>1. Inv => TypeOK
  BY DEF Inv
<1> QED BY InitHolds, StepKeeps, <1>1, PTL DEF Spec

(* The rate bound the object exists for: whatever a tenant sends and       *)
(* however often the object is reset, passes start a window apart.         *)
THEOREM RateBound == Spec => PassesApart
<1>1. Inv /\ [Next]_vars => [Starts => since = Window]_vars
  <2> SUFFICES ASSUME Inv, Next, Starts PROVE since = Window
    BY DEF vars, Starts
  <2>1. ~InWindow => since = Window
    BY WindowAssumption, StoredIsState DEF Inv, TypeOK, AgeIsTrue, InWindow, KickState, Prior
  <2>2. ~InWindow
    BY DEF Next, Starts, Kick, Coalesce, Defer, RunNow, AlarmFires, AlarmEarly, OnAlarm,
           PassEnds, Reset, Tick
  <2> QED BY <2>1, <2>2
<1> QED BY InitHolds, StepKeeps, <1>1, PTL DEF Spec, PassesApart

(* What TrailingPassArmed needs to be inductive: an idle object with       *)
(* stored state has its alarm set, whether or not a kick is owed.          *)
IdleIsArmed ==
  running = "no" /\ stored # None => alarm \in 0..Window /\ alarm <= Window - stored.age

OwedIsMarked == owed => stored # None /\ stored.dirty

ArmedInv == Inv /\ IdleIsArmed /\ OwedIsMarked

LEMMA KickKeepsArmed == ASSUME ArmedInv, Kick PROVE IdleIsArmed' /\ OwedIsMarked'
<1> USE WindowAssumption
<1>1. Marked # None /\ Marked.dirty /\ Marked.age = Prior.age /\ Prior.age \in 0..Window
  BY PriorType, StoredIsState DEF ArmedInv, Inv, KickState
<1>2. CASE Coalesce
  BY <1>1, <1>2 DEF ArmedInv, IdleIsArmed, OwedIsMarked, Coalesce
<1>3. CASE Defer
  <2>1. alarm' \in 0..Window /\ alarm' <= Window - Prior.age
    BY <1>1, <1>3, ArmType DEF Defer, ArmedInv, Inv, TypeOK
  <2> QED BY <1>1, <1>3, <2>1 DEF IdleIsArmed, OwedIsMarked, Defer
<1>4. CASE RunNow
  BY <1>4 DEF RunNow, StartPass, IdleIsArmed, OwedIsMarked
<1> QED BY <1>2, <1>3, <1>4 DEF Kick

LEMMA AlarmKeepsArmed == ASSUME ArmedInv, OnAlarm PROVE IdleIsArmed' /\ OwedIsMarked'
<1> USE WindowAssumption
<1>1. CASE stored = None \/ running # "no"
  BY <1>1 DEF OnAlarm, ArmedInv, IdleIsArmed, OwedIsMarked
<1>2. CASE stored # None /\ running = "no" /\ InWindow
  <2>1. stored.age \in 0..Window
    BY <1>2, StoredIsState DEF ArmedInv, Inv, KickState
  <2>2. /\ alarm' \in 0..Window /\ alarm' <= Window - stored.age
        /\ UNCHANGED <<stored, running, since, owed>>
    BY <1>2, <2>1, ArmType DEF OnAlarm
  <2> QED BY <2>2 DEF ArmedInv, IdleIsArmed, OwedIsMarked
<1>3. CASE stored # None /\ running = "no" /\ ~InWindow /\ stored.dirty
  BY <1>3 DEF OnAlarm, StartPass, IdleIsArmed, OwedIsMarked
<1>4. CASE stored # None /\ running = "no" /\ ~InWindow /\ ~stored.dirty
  BY <1>4 DEF OnAlarm, ArmedInv, IdleIsArmed, OwedIsMarked
<1> QED BY <1>1, <1>2, <1>3, <1>4

LEMMA StepKeepsArmed ==
  ASSUME resets' = 0, ArmedInv, [Next]_vars PROVE ArmedInv'
<1> USE WindowAssumption
<1>0. Inv'
  BY StepKeeps DEF ArmedInv
<1>1. CASE Kick
  BY <1>0, <1>1, KickKeepsArmed DEF ArmedInv
<1>2. CASE AlarmFires \/ AlarmEarly
  BY <1>0, <1>2, AlarmKeepsArmed DEF ArmedInv, AlarmFires, AlarmEarly
<1>3. CASE PassEnds
  <2>1. alarm' \in 0..Window /\ alarm' <= Window - since
    BY <1>3, ArmType DEF PassEnds, ArmedInv, Inv, TypeOK
  <2> QED BY <1>0, <1>3, <2>1 DEF PassEnds, ArmedInv, IdleIsArmed, OwedIsMarked, Inv, AgeIsTrue
<1>4. ~Reset
  BY DEF Reset, ArmedInv, Inv, TypeOK
<1>5. CASE Tick
  <2>1. CASE stored = None
    BY <1>0, <1>5, <2>1 DEF Tick, ArmedInv, IdleIsArmed, OwedIsMarked
  <2>2. CASE stored # None
    <3>1. stored \in KickState /\ stored.age \in 0..Window /\ stored.age = since
      BY <2>2, StoredIsState DEF ArmedInv, Inv, KickState, AgeIsTrue
    <3>2. stored' = [stored EXCEPT !.age = Older(stored.age)] /\ UNCHANGED <<running, owed>>
      BY <1>5, <2>2 DEF Tick
    <3>3. stored' # None /\ stored'.age = Older(stored.age) /\ stored'.dirty = stored.dirty
      BY <1>0, <3>1, <3>2, OlderType, StoredIsState DEF KickState, ArmedInv, Inv
    <3>4. IdleIsArmed'
      <4> SUFFICES ASSUME running = "no"
                   PROVE  alarm' \in 0..Window /\ alarm' <= Window - Older(stored.age)
        BY <3>2, <3>3 DEF IdleIsArmed
      <4>1. alarm \in 0..Window /\ alarm <= Window - stored.age /\ alarm # None
        BY <2>2 DEF ArmedInv, IdleIsArmed
      <4>2. alarm' = IF alarm = 0 THEN alarm ELSE alarm - 1
        BY <1>5, <4>1 DEF Tick
      <4> QED BY <3>1, <4>1, <4>2 DEF Older
    <3> QED BY <1>0, <3>2, <3>3, <3>4 DEF ArmedInv, OwedIsMarked
  <2> QED BY <2>1, <2>2
<1>6. CASE UNCHANGED vars
  BY <1>0, <1>6 DEF vars, ArmedInv, IdleIsArmed, OwedIsMarked
<1> QED BY <1>1, <1>2, <1>3, <1>4, <1>5, <1>6 DEF Next

(* As long as the object is not reset no kick is forgotten: one that no    *)
(* pass has covered is marked, and its trailing pass is armed for the      *)
(* window's end.                                                           *)
THEOREM NoKickForgotten == Spec => []TrailingPassArmed
<1> DEFINE UntilReset == Inv /\ (resets = 0 => ArmedInv)
<1>1. Init => UntilReset
  BY InitHolds DEF Init, ArmedInv, IdleIsArmed, OwedIsMarked
<1>2. UntilReset /\ [Next]_vars => UntilReset'
  <2> SUFFICES ASSUME UntilReset, [Next]_vars PROVE UntilReset'
    OBVIOUS
  <2>1. Inv'
    BY StepKeeps
  <2>2. resets' = 0 => resets = 0
    BY DEF Inv, TypeOK, Next, Kick, AlarmFires, AlarmEarly, PassEnds, Reset, Tick, vars
  <2> QED BY <2>1, <2>2, StepKeepsArmed
<1>3. UntilReset => TrailingPassArmed
  BY WindowAssumption DEF ArmedInv, IdleIsArmed, OwedIsMarked, TrailingPassArmed
<1> QED BY <1>1, <1>2, <1>3, PTL DEF Spec
=============================================================================
