---------------------------- MODULE ScopeSweeper ----------------------------
(***************************************************************************)
(* The sweeper of a deployment without a directory (packages/              *)
(* adapter-cloudflare/src/scope-sweeper-do): a Durable Object that keeps a *)
(* roster of scopes and, on an alarm it sets again after every pass,       *)
(* visits each of them.                                                    *)
(*                                                                         *)
(* Storage calls close the object's input gate, so the run of storage      *)
(* calls between two calls out of the object is one action.  A reset may   *)
(* still fall between two of them: between noteScope's put and its         *)
(* setAlarm (NoteCut), and between the end of a pass and the setAlarm of   *)
(* its finally (FinishCut); anywhere else it is Reset.  startJobs is       *)
(* configured, and so is the hold check.                                   *)
(***************************************************************************)
EXTENDS Naturals, FiniteSets

CONSTANTS
  Scope,
  Interval,     \* jobStartIntervalMs, in ticks
  Concurrency,  \* scopes worked at once
  MaxResets,    \* bound: evictions of the object
  Never         \* no job-start key stored

ASSUME SweeperAssumption ==
  /\ Interval \in Nat \ {0} /\ Concurrency \in Nat \ {0} /\ MaxResets \in Nat
  /\ Never \notin Nat

VARIABLES
  roster,       \* scope:<id> keys
  started,      \* job-start:<id> keys, as the age of the time stored
  alarm,        \* an alarm is set
  handling,     \* alarm() is running, its pass its own or joined: cut off, the runtime calls it again
  running,      \* #pass
  phase,        \* where the pass is with each entry it read
  called,       \* age of the time a visit read before it called startJobs
  resets,
  noted,        \* history: scopes whose note was answered, and no forget since
  since,        \* history: age of the last startJobs that succeeded, up to Interval
  unrecorded,   \* history: scopes whose last such call left no time stored
  adrift        \* history: a finally was cut off after a joined alarm returned, and none set since

history == <<noted, since, unrecorded, adrift>>
vars == <<roster, started, alarm, handling, running, phase, called, resets, history>>

Phase == {"none", "todo", "visit", "starting", "started", "rest", "done"}
Age == 0..Interval

Busy == {s \in Scope : phase[s] \in {"visit", "starting", "started", "rest"}}

(* Types; and the pass works on at most Concurrency scopes at a time.      *)
TypeOK ==
  /\ roster \in SUBSET Scope /\ noted \in SUBSET Scope
  /\ started \in [Scope -> Age \cup {Never}]
  /\ alarm \in BOOLEAN /\ handling \in {"no", "own", "joined"} /\ running \in BOOLEAN
  /\ phase \in [Scope -> Phase]
  /\ called \in [Scope -> Age] /\ since \in [Scope -> Age]
  /\ resets \in Nat
  /\ unrecorded \in SUBSET Scope /\ adrift \in BOOLEAN
  /\ Cardinality(Busy) <= Concurrency

NoPass == [s \in Scope |-> "none"]

Init ==
  /\ roster = {} /\ noted = {}
  /\ started = [s \in Scope |-> Never]
  /\ alarm = FALSE /\ handling = "no" /\ running = FALSE
  /\ phase = NoPass
  /\ called = [s \in Scope |-> 0] /\ since = [s \in Scope |-> Interval]
  /\ resets = 0
  /\ unrecorded = {} /\ adrift = FALSE

-----------------------------------------------------------------------------
(* noteScope: put, then ensureArmed, which sets an alarm if none is set. *)
Note(s) ==
  /\ roster' = roster \cup {s} /\ noted' = noted \cup {s}
  /\ alarm' = TRUE /\ adrift' = FALSE
  /\ UNCHANGED <<started, handling, running, phase, called, resets, since, unrecorded>>

Cut == resets < MaxResets /\ resets' = resets + 1

(* What a reset leaves: the pass is gone, with the time of a startJobs it  *)
(* had not stored yet; an alarm that was being handled is due again.       *)
Restarted(unreturned) ==
  /\ running' = FALSE /\ phase' = NoPass
  /\ unrecorded' = unrecorded \cup {s \in Scope : phase[s] = "started"}
  /\ alarm' = (alarm \/ handling \in unreturned) /\ handling' = "no"

(* noteScope is cut off after its put: its caller sees an error. *)
NoteCut(s) ==
  /\ Cut /\ Restarted({"own", "joined"})
  /\ roster' = roster \cup {s}
  /\ UNCHANGED <<started, called, noted, since, adrift>>

EnsureArmed ==
  /\ alarm' = TRUE /\ adrift' = FALSE
  /\ UNCHANGED <<roster, started, handling, running, phase, called, resets, noted, since, unrecorded>>

(* forgetScope: the alarm is left as it is. *)
Forget(s) ==
  /\ roster' = roster \ {s} /\ noted' = noted \ {s}
  /\ started' = [started EXCEPT ![s] = Never]
  /\ since' = [since EXCEPT ![s] = Interval] /\ unrecorded' = unrecorded \ {s}
  /\ UNCHANGED <<alarm, handling, running, phase, called, resets, adrift>>

(* #run: join the pass in flight, or start one over the roster as it is    *)
(* now; one that throws as it opens has no entries.                        *)
Join == running /\ UNCHANGED <<running, phase>>
Open ==
  /\ ~running /\ running' = TRUE
  /\ phase' = [s \in Scope |-> IF s \in roster THEN "todo" ELSE "none"]
OpenThrows == ~running /\ running' = TRUE /\ phase' = NoPass

SweepNow ==
  /\ Open \/ OpenThrows
  /\ UNCHANGED <<roster, started, alarm, handling, called, resets, history>>

OnAlarm(run) ==
  /\ alarm /\ handling = "no"
  /\ alarm' = FALSE /\ handling' = IF running THEN "joined" ELSE "own"
  /\ run
  /\ UNCHANGED <<roster, started, called, resets, history>>

-----------------------------------------------------------------------------
(* A worker's loop: one visit of one entry. *)
TakeUncounted(s) ==    \* mistake: a worker per entry
  /\ phase[s] = "todo"
  /\ phase' = [phase EXCEPT ![s] = "visit"]
  /\ UNCHANGED <<roster, started, alarm, handling, running, called, resets, history>>

Take(s) ==
  /\ phase[s] = "todo" /\ Cardinality(Busy) < Concurrency
  /\ phase' = [phase EXCEPT ![s] = "visit"]
  /\ UNCHANGED <<roster, started, alarm, handling, running, called, resets, history>>

SkipHeldStops(s) ==    \* mistake: the worker returns where it should continue
  /\ phase[s] = "visit"
  /\ phase' = [t \in Scope |-> IF t = s THEN "done" ELSE IF phase[t] = "todo" THEN "none" ELSE phase[t]]
  /\ UNCHANGED <<roster, started, alarm, handling, running, called, resets, history>>

(* The scope is held, or its hold cannot be read. *)
SkipHeld(s) ==
  /\ phase[s] = "visit"
  /\ phase' = [phase EXCEPT ![s] = "done"]
  /\ UNCHANGED <<roster, started, alarm, handling, running, called, resets, history>>

DueToStart(s) == started[s] = Never \/ started[s] >= Interval

(* The drain is over, well or not: read the job-start key. *)
Drained(s) ==
  /\ phase[s] = "visit"
  /\ phase' = [phase EXCEPT ![s] = IF DueToStart(s) THEN "starting" ELSE "rest"]
  /\ called' = [called EXCEPT ![s] = 0]
  /\ UNCHANGED <<roster, started, alarm, handling, running, resets, history>>

(* startJobs returned.                                                     *)
StartReturns(s) ==
  /\ phase[s] = "starting"
  /\ phase' = [phase EXCEPT ![s] = "started"]
  /\ since' = [since EXCEPT ![s] = called[s]]
  /\ UNCHANGED <<roster, started, alarm, handling, running, called, resets, noted, unrecorded, adrift>>

RecordFirstStart(s) ==    \* mistake: a time already stored is left
  /\ phase[s] = "started"
  /\ phase' = [phase EXCEPT ![s] = "rest"]
  /\ started' = [started EXCEPT ![s] = IF @ = Never THEN called[s] ELSE @]
  /\ unrecorded' = unrecorded \ {s}
  /\ UNCHANGED <<roster, alarm, handling, running, called, resets, noted, since, adrift>>

(* The time read before the call is stored, whatever has been forgotten    *)
(* meanwhile.                                                              *)
RecordStart(s) ==
  /\ phase[s] = "started"
  /\ phase' = [phase EXCEPT ![s] = "rest"]
  /\ started' = [started EXCEPT ![s] = called[s]]
  /\ unrecorded' = unrecorded \ {s}
  /\ UNCHANGED <<roster, alarm, handling, running, called, resets, noted, since, adrift>>

(* startJobs threw, or the put did: the error is reported, and no more.    *)
StartThrows(s) ==
  /\ phase[s] \in {"starting", "started"}
  /\ phase' = [phase EXCEPT ![s] = "rest"]
  /\ unrecorded' = IF phase[s] = "started" THEN unrecorded \cup {s} ELSE unrecorded
  /\ UNCHANGED <<roster, started, alarm, handling, running, called, resets, noted, since, adrift>>

(* Jobs, schedules, freshness and the report of them, each error contained. *)
VisitEnds(s) ==
  /\ phase[s] = "rest"
  /\ phase' = [phase EXCEPT ![s] = "done"]
  /\ UNCHANGED <<roster, started, alarm, handling, running, called, resets, history>>

PassIsOver == running /\ \A s \in Scope : phase[s] \in {"none", "done"}

FinishForEntries ==    \* mistake: set again for what the pass read, not for what is there
  /\ PassIsOver
  /\ running' = FALSE /\ phase' = NoPass /\ handling' = "no"
  /\ alarm' = (alarm \/ \E s \in Scope : phase[s] = "done")
  /\ UNCHANGED <<roster, started, called, resets, history>>

(* #run's finally: the alarm is set again while anything is on the roster. *)
Finish ==
  /\ PassIsOver
  /\ running' = FALSE /\ phase' = NoPass /\ handling' = "no"
  /\ alarm' = (alarm \/ roster # {})
  /\ adrift' = (adrift /\ roster = {})
  /\ UNCHANGED <<roster, started, called, resets, noted, since, unrecorded>>

(* A reset before the finally has set the alarm.  An alarm() that only     *)
(* joined the pass has returned by then, and is not called again.          *)
FinishCut ==
  /\ PassIsOver
  /\ Cut /\ Restarted({"own"})
  /\ adrift' = (adrift \/ handling = "joined")
  /\ UNCHANGED <<roster, started, called, noted, since>>

-----------------------------------------------------------------------------
Older(a) == IF a < Interval THEN a + 1 ELSE a

Tick ==
  /\ started' = [s \in Scope |-> IF started[s] = Never THEN Never ELSE Older(started[s])]
  /\ called' = [s \in Scope |-> IF phase[s] \in {"starting", "started"}
                                 THEN Older(called[s]) ELSE called[s]]
  /\ since' = [s \in Scope |-> Older(since[s])]
  /\ UNCHANGED <<roster, alarm, handling, running, phase, resets, noted, unrecorded, adrift>>

Reset ==
  /\ Cut /\ Restarted({"own", "joined"})
  /\ UNCHANGED <<roster, started, called, noted, since, adrift>>

Calls(s) == Note(s) \/ NoteCut(s) \/ Forget(s)
Visit(s) ==
  \/ Take(s) \/ SkipHeld(s) \/ Drained(s)
  \/ StartReturns(s) \/ RecordStart(s) \/ StartThrows(s) \/ VisitEnds(s)

Next ==
  \/ \E s \in Scope : Calls(s) \/ Visit(s)
  \/ EnsureArmed \/ SweepNow
  \/ OnAlarm(Join) \/ OnAlarm(Open) \/ OnAlarm(OpenThrows)
  \/ Finish \/ FinishCut \/ Tick \/ Reset

Spec == Init /\ [][Next]_vars

(* A set alarm fires, and opening a pass does not throw for ever; a call   *)
(* the pass made returns or throws, and the pass goes on.                  *)
Fairness ==
  /\ WF_vars(OnAlarm(Join)) /\ SF_vars(OnAlarm(Open)) /\ WF_vars(Finish)
  /\ \A s \in Scope : WF_vars(Visit(s))

FairSpec == Spec /\ Fairness

-----------------------------------------------------------------------------
(* The loop's trigger is "alarm, singleton, non-overlap, never-dies": while *)
(* a scope whose note was answered is on the roster, an alarm is set or     *)
(* being handled.  Not when a reset falls before the finally of a pass that *)
(* the alarm had only joined.                                               *)
LoopAlive == noted # {} => alarm \/ handling # "no"

(* Unless a finally was cut off so, an alarm is set or being handled, so   *)
(* that a reset at any other point loses no more than a pass: noteScope    *)
(* arms only where no alarm is set, forgetScope leaves the alarm, passes   *)
(* join one another, and the finally re-arms by the roster it finds then.  *)
LoopAliveUncut == adrift \/ LoopAlive

(* jobStartIntervalMs is the "minimum time between successful startJobs    *)
(* calls per scope", and a forget starts a scope afresh.  After a success  *)
(* that was recorded the interval holds, over failed calls, earlier calls  *)
(* that were not recorded, resets at any call, forgets while a call is     *)
(* out, and passes that kicks bring together.                              *)
StartsApartRecorded ==
  [][\A s \in Scope \ unrecorded :
        phase[s] = "visit" /\ phase'[s] = "starting" => since[s] = Interval]_vars

(* A scope that stays on the roster is visited again and again, unless a   *)
(* finally was cut off so and nobody arms the loop.                        *)
VisitedAgain ==
  \A s \in Scope : <>[](s \in noted /\ ~adrift) => []<>(phase[s] = "done")
=============================================================================
