--------------------------- MODULE KickCoalescer ---------------------------
(***************************************************************************)
(* The kick coalescer (packages/adapter-cloudflare/src/kick-coalescer-do): *)
(* one Durable Object per producer that decides when a cross-vertical pass *)
(* may start.  Storage calls close the object's input gate, so everything  *)
(* between two waits for the pass itself is one step; kicks, alarms and a  *)
(* reset of the object interleave with a running pass.                     *)
(*                                                                         *)
(* Times are kept as ages: lastStartedAt as the time since, up to Window,  *)
(* and the alarm as the time left.                                         *)
(***************************************************************************)
EXTENDS Naturals

CONSTANTS
  Window,       \* windowMs, in ticks
  MaxKicks,     \* bound: kicks a tenant raises
  MaxResets,    \* bound: evictions of the object
  MaxEarly,     \* bound: alarms delivered before their time
  None          \* no stored state, or no alarm set

ASSUME WindowAssumption ==
  /\ Window \in Nat \ {0}
  /\ MaxKicks \in Nat /\ MaxResets \in Nat /\ MaxEarly \in Nat
  /\ None \notin Nat
  /\ None \notin [age : 0..Window, dirty : BOOLEAN]

VARIABLES
  stored,       \* the KickState in the object's storage
  alarm,        \* the object's alarm
  running,      \* the pass in flight, by what started it (#running)
  kicks, resets, early,
  since,        \* time since a pass last started, up to Window (a pass's startedAt)
  owed          \* history: a kick arrived that no pass started after

vars == <<stored, alarm, running, kicks, resets, early, since, owed>>

KickState == [age : 0..Window, dirty : BOOLEAN]

TypeOK ==
  /\ stored \in KickState \cup {None}
  /\ alarm \in (0..Window) \cup {None}
  /\ running \in {"no", "kick", "alarm"}
  /\ kicks \in Nat /\ resets \in Nat /\ early \in Nat
  /\ since \in 0..Window
  /\ owed \in BOOLEAN

Init ==
  /\ stored = None /\ alarm = None /\ running = "no"
  /\ kicks = 0 /\ resets = 0 /\ early = 0
  /\ since = Window /\ owed = FALSE

Older(age) == IF age < Window THEN age + 1 ELSE Window

ArmAfterWindow(age, set) == (Window - age) + 1   \* mistake: one tick past the window's end

(* armFor: the end of the window, unless an earlier alarm is already set. *)
ArmFor(age, set) == IF set # None /\ set <= Window - age THEN set ELSE Window - age

(* A fresh object counts as one whose last pass is long past. *)
Prior == IF stored = None THEN [age |-> Window, dirty |-> FALSE] ELSE stored
Marked == [Prior EXCEPT !.dirty = TRUE]
InWindow == Prior.age < Window

(* pass, up to its wait for the run: the start is stored first. *)
StartPass(by) ==
  /\ stored' = [age |-> 0, dirty |-> FALSE]
  /\ running' = by
  /\ since' = 0
  /\ owed' = FALSE

-----------------------------------------------------------------------------
(* kick: join the pass running, wait for the window's end, or start one. *)
Coalesce ==
  /\ running # "no"
  /\ stored' = Marked /\ owed' = TRUE
  /\ UNCHANGED <<alarm, running, since>>

Defer ==
  /\ running = "no" /\ InWindow
  /\ stored' = Marked /\ owed' = TRUE
  /\ alarm' = ArmFor(Prior.age, alarm)
  /\ UNCHANGED <<running, since>>

RunNow ==
  /\ running = "no" /\ ~InWindow
  /\ StartPass("kick")
  /\ UNCHANGED alarm

Kick ==
  /\ kicks < MaxKicks /\ kicks' = kicks + 1
  /\ Coalesce \/ Defer \/ RunNow
  /\ UNCHANGED <<resets, early>>

(* alarm: the runtime clears it, then calls the handler, perhaps early. *)
OnAlarmUnguarded ==              \* mistake: an early alarm is acted on
  \/ /\ stored = None \/ running # "no"
     /\ alarm' = None
     /\ UNCHANGED <<stored, running, since, owed>>
  \/ /\ stored # None /\ running = "no" /\ stored.dirty
     /\ StartPass("alarm") /\ alarm' = None
  \/ /\ stored # None /\ running = "no" /\ ~stored.dirty
     /\ stored' = None /\ alarm' = None
     /\ UNCHANGED <<running, since, owed>>

OnAlarm ==
  \/ /\ stored = None \/ running # "no"
     /\ alarm' = None
     /\ UNCHANGED <<stored, running, since, owed>>
  \/ /\ stored # None /\ running = "no" /\ InWindow
     /\ alarm' = ArmFor(stored.age, None)
     /\ UNCHANGED <<stored, running, since, owed>>
  \/ /\ stored # None /\ running = "no" /\ ~InWindow
     /\ stored.dirty
     /\ StartPass("alarm") /\ alarm' = None
  \/ /\ stored # None /\ running = "no" /\ ~InWindow
     /\ ~stored.dirty
     /\ stored' = None /\ alarm' = None
     /\ UNCHANGED <<running, since, owed>>

AlarmFires ==
  /\ alarm = 0
  /\ OnAlarm
  /\ UNCHANGED <<kicks, resets, early>>

AlarmEarly ==
  /\ alarm # None /\ alarm > 0
  /\ early < MaxEarly /\ early' = early + 1
  /\ OnAlarm
  /\ UNCHANGED <<kicks, resets>>

(* The run returned or threw; either way the window's end is armed. *)
PassEndsUnarmed ==               \* mistake: only a deferred kick arms
  /\ running # "no"
  /\ running' = "no"
  /\ UNCHANGED <<stored, alarm, kicks, resets, early, since, owed>>

PassEnds ==
  /\ running # "no"
  /\ running' = "no"
  /\ alarm' = ArmFor(since, alarm)
  /\ UNCHANGED <<stored, kicks, resets, early, since, owed>>

(* The object is evicted or restarted: storage and alarm stay, the pass is *)
(* gone.  An alarm handler cut short is called again; a kick is not.  A    *)
(* deferred kick may be cut between its mark and its alarm.                *)
Reset ==
  /\ resets < MaxResets /\ resets' = resets + 1
  /\ \/ /\ running' = "no"
        /\ alarm' = IF running = "alarm" THEN 0 ELSE alarm
        /\ UNCHANGED <<stored, kicks, owed>>
     \/ /\ running = "no" /\ InWindow
        /\ kicks < MaxKicks /\ kicks' = kicks + 1
        /\ stored' = Marked /\ owed' = TRUE
        /\ UNCHANGED <<running, alarm>>
  /\ UNCHANGED <<early, since>>

Tick ==
  /\ since' = Older(since)
  /\ stored' = IF stored = None THEN None ELSE [stored EXCEPT !.age = Older(stored.age)]
  /\ alarm' = IF alarm = None \/ alarm = 0 THEN alarm ELSE alarm - 1
  /\ <<since, stored, alarm>>' # <<since, stored, alarm>>
  /\ UNCHANGED <<running, kicks, resets, early, owed>>

Next == Kick \/ AlarmFires \/ AlarmEarly \/ PassEnds \/ Reset \/ Tick

Spec == Init /\ [][Next]_vars

(* Time passes, a due alarm is delivered, and a run returns or throws.     *)
Fairness == WF_vars(Tick) /\ WF_vars(AlarmFires) /\ WF_vars(PassEnds)

FairSpec == Spec /\ Fairness

-----------------------------------------------------------------------------
(* Passes for one producer start at least a window apart, however kicks,   *)
(* early alarms, resets and the deletion of the stored state interleave.   *)
Starts == running = "no" /\ running' # "no"

PassesApart == [][Starts => since = Window]_vars

(* A kick that no pass has covered is on the books, and once no pass runs  *)
(* the alarm for its trailing pass is set, for the window's end at the     *)
(* latest, as long as the object is not reset.                             *)
TrailingPassArmed ==
  resets = 0 /\ owed =>
          /\ stored # None /\ stored.dirty
          /\ running = "no" => alarm # None /\ alarm <= Window - stored.age

(* Coalescing is lossless as long as the object is not reset: a kick that  *)
(* joined a running pass, was deferred to the window's end or was raised   *)
(* as an alarm fires early gets its pass.  (A reset may lose it: the bit   *)
(* of a kick that joined is stored, and nothing is armed to act on it.)    *)
LosslessUnreset == owed ~> (~owed \/ resets > 0)
=============================================================================
