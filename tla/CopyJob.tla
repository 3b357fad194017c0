------------------------------ MODULE CopyJob ------------------------------
(***************************************************************************)
(* The Durable Object behind one background scope copy                     *)
(* (packages/adapter-cloudflare/src/copy-job-do): a stored record, moved   *)
(* one step per alarm, that callers start, claim, cancel and forget.       *)
(*                                                                         *)
(* Storage calls close the object's input gate, so a new event waits until *)
(* the object is between storage calls: start, claim, the opening of an    *)
(* alarm and the end of a step are each one action.  Cancels and forgets   *)
(* wait inside the object for the running step; the step's end wakes all   *)
(* of them at once, and the gate does not order what they do next, so each *)
(* of their storage calls is an action of its own.                         *)
(***************************************************************************)
EXTENDS Naturals

CONSTANTS
  Token,        \* the tokens starts mint (RUN), one per start
  Caller,       \* cancel and forget calls
  MaxResets,    \* bound: evictions of the object
  None          \* nothing stored, no step, nothing read

(* claimed: held by the caller that finishes it, until its hold runs out.  *)
(* aged: updatedAt is a retention ago.                                     *)
Job == [status : {"copying", "done", "failed", "cancelled"}, claimed : BOOLEAN, aged : BOOLEAN]

ASSUME CopyJobAssumption == MaxResets \in Nat /\ None \notin Token /\ None \notin Job

VARIABLES
  job,          \* the stored record (KEY)
  token,        \* the stored start token (RUN)
  alarm,        \* set for the next step, set for the record's retention, or not set
  step,         \* the step running now: the token it read
  call,         \* where each cancel or forget is
  seen,         \* the record each cancel read
  minted,       \* tokens used so far
  resets,
  forgotten     \* history: a forget has been answered, and no start since

vars == <<job, token, alarm, step, call, seen, minted, resets, forgotten>>

CallPC == {"idle", "cancel", "cancel put", "cancel arm", "forget", "forget drop"}

TypeOK ==
  /\ job \in Job \cup {None}
  /\ token \in Token \cup {None}
  /\ alarm \in {"unset", "step", "keep"}
  /\ step \in Token \cup {None}
  /\ call \in [Caller -> CallPC]
  /\ seen \in [Caller -> Job \cup {None}]
  /\ minted \subseteq Token
  /\ resets \in Nat
  /\ forgotten \in BOOLEAN

Init ==
  /\ job = None /\ token = None /\ alarm = "unset" /\ step = None
  /\ call = [c \in Caller |-> "idle"] /\ seen = [c \in Caller |-> None]
  /\ minted = {} /\ resets = 0 /\ forgotten = FALSE

Fresh(status) == [status |-> status, claimed |-> FALSE, aged |-> FALSE]
HasStatus(s) == job # None /\ job.status = s

(* The gate: no event is delivered while a woken call is at work. *)
AtWork(c) == step = None /\ call[c] # "idle"
Open == \A c \in Caller : ~AtWork(c)

-----------------------------------------------------------------------------
(* start: a record already here is answered as it is. *)
Start(t) ==
  /\ Open /\ job = None
  /\ t \notin minted
  /\ minted' = minted \cup {t}
  /\ job' = Fresh("copying") /\ token' = t
  /\ alarm' = "step"
  /\ forgotten' = FALSE
  /\ UNCHANGED <<step, call, seen, resets>>

(* claim: a done job, to one caller at a time. *)
ClaimAnyDone ==                  \* mistake: a cancelled or failed job can be claimed
  /\ Open /\ job # None
  /\ job.status # "copying" /\ ~job.claimed
  /\ job' = [job EXCEPT !.status = "done", !.claimed = TRUE]
  /\ UNCHANGED <<token, alarm, step, call, seen, minted, resets, forgotten>>

Claim ==
  /\ Open /\ HasStatus("done")
  /\ ~job.claimed
  /\ job' = [job EXCEPT !.claimed = TRUE]
  /\ UNCHANGED <<token, alarm, step, call, seen, minted, resets, forgotten>>

HoldEnds ==
  /\ job # None /\ job.claimed
  /\ job' = [job EXCEPT !.claimed = FALSE]
  /\ UNCHANGED <<token, alarm, step, call, seen, minted, resets, forgotten>>

Ages ==
  /\ job # None /\ job.status # "copying" /\ ~job.aged
  /\ job' = [job EXCEPT !.aged = TRUE]
  /\ UNCHANGED <<token, alarm, step, call, seen, minted, resets, forgotten>>

-----------------------------------------------------------------------------
(* cancel and forget, through whileStopped: they act once no step runs. *)
Calls(c) ==
  /\ Open /\ call[c] = "idle"
  /\ \E what \in {"cancel", "forget"} : call' = [call EXCEPT ![c] = what]
  /\ UNCHANGED <<job, token, alarm, step, seen, minted, resets, forgotten>>

ActsAnyway(c, what) == call[c] = what   \* mistake: a running step is not waited for

Acts(c, what) == call[c] = what /\ step = None

CancellableIfHeld(j) == j.status \in {"copying", "done"}   \* mistake: a hold is ignored

(* A job copying, or done and not held. *)
Cancellable(j) == j.status = "copying" \/ (j.status = "done" /\ ~j.claimed)

CancelReads(c) ==
  /\ Acts(c, "cancel")
  /\ IF job # None /\ Cancellable(job)
     THEN call' = [call EXCEPT ![c] = "cancel put"] /\ seen' = [seen EXCEPT ![c] = job]
     ELSE call' = [call EXCEPT ![c] = "idle"] /\ UNCHANGED seen
  /\ UNCHANGED <<job, token, alarm, step, minted, resets, forgotten>>

CancelPuts(c) ==
  /\ Acts(c, "cancel put")
  /\ job' = [seen[c] EXCEPT !.status = "cancelled", !.aged = FALSE]
  /\ call' = [call EXCEPT ![c] = "cancel arm"]
  /\ seen' = [seen EXCEPT ![c] = None]
  /\ UNCHANGED <<token, alarm, step, minted, resets, forgotten>>

CancelArms(c) ==
  /\ Acts(c, "cancel arm")
  /\ alarm' = "keep"
  /\ call' = [call EXCEPT ![c] = "idle"]
  /\ UNCHANGED <<job, token, step, seen, minted, resets, forgotten>>

ForgetUnarms(c) ==
  /\ Acts(c, "forget")
  /\ alarm' = "unset"
  /\ call' = [call EXCEPT ![c] = "forget drop"]
  /\ UNCHANGED <<job, token, step, seen, minted, resets, forgotten>>

ForgetDrops(c) ==
  /\ Acts(c, "forget drop")
  /\ job' = None /\ token' = None
  /\ call' = [call EXCEPT ![c] = "idle"]
  /\ forgotten' = TRUE
  /\ UNCHANGED <<alarm, step, seen, minted, resets>>

-----------------------------------------------------------------------------
(* alarm: the runtime clears it and runs one handler at a time.  A record  *)
(* that has had its retention is dropped, a younger one kept; a copying    *)
(* one gets a step, unless a cancel or forget is waiting.                  *)
OpenAlarmOnce ==                 \* mistake: a young record is not looked at again
  IF job = None
  THEN alarm' = "unset" /\ UNCHANGED <<job, token, step>>
  ELSE IF job.status # "copying"
  THEN /\ alarm' = "unset" /\ UNCHANGED step
       /\ IF job.aged THEN job' = None /\ token' = None ELSE UNCHANGED <<job, token>>
  ELSE alarm' = "unset" /\ step' = token /\ UNCHANGED <<job, token>>

OpenAlarm ==
  IF job = None
  THEN alarm' = "unset" /\ UNCHANGED <<job, token, step>>
  ELSE IF job.status # "copying"
  THEN IF job.aged
       THEN job' = None /\ token' = None /\ alarm' = "unset" /\ UNCHANGED step
       ELSE alarm' = "keep" /\ UNCHANGED <<job, token, step>>
  ELSE /\ alarm' = "unset"
       /\ step' = IF \E c \in Caller : call[c] # "idle" THEN None ELSE token
       /\ UNCHANGED <<job, token>>

Alarm ==
  /\ Open /\ step = None
  /\ alarm # "unset"
  /\ OpenAlarm
  /\ UNCHANGED <<call, seen, minted, resets, forgotten>>

(* The step answers a record, or throws; its answer counts only if the job *)
(* it read is still the one stored, and copying.                           *)
StillRunning == HasStatus("copying") /\ token = step

StepEndsUnarmed(outcome) ==      \* mistake: a step that threw is not tried again
  /\ step # None
  /\ IF StillRunning /\ outcome # "threw"
     THEN /\ job' = Fresh(outcome)
          /\ alarm' = IF outcome = "copying" THEN "step" ELSE "keep"
     ELSE UNCHANGED <<job, alarm>>
  /\ step' = None
  /\ UNCHANGED <<token, call, seen, minted, resets, forgotten>>

StepEnds(outcome) ==
  /\ step # None
  /\ IF StillRunning
     THEN /\ job' = IF outcome = "threw" THEN job ELSE Fresh(outcome)
          /\ alarm' = IF outcome \in {"copying", "threw"} THEN "step" ELSE "keep"
     ELSE UNCHANGED <<job, alarm>>
  /\ step' = None
  /\ UNCHANGED <<token, call, seen, minted, resets, forgotten>>

(* The object is evicted: calls in it fail, and an alarm handler that was  *)
(* running is run again.  A start may be cut between its two writes.       *)
Reset ==
  /\ resets < MaxResets /\ resets' = resets + 1
  /\ step' = None
  /\ call' = [c \in Caller |-> "idle"] /\ seen' = [c \in Caller |-> None]
  /\ \/ /\ alarm' = IF step # None THEN "step" ELSE alarm
        /\ UNCHANGED <<job, token, minted, forgotten>>
     \/ /\ Open /\ job = None
        /\ \E t \in Token \ minted : token' = t /\ minted' = minted \cup {t}
        /\ job' = Fresh("copying") /\ forgotten' = FALSE
        /\ UNCHANGED alarm

-----------------------------------------------------------------------------
Next ==
  \/ \E t \in Token : Start(t)
  \/ Claim \/ HoldEnds \/ Ages
  \/ \E c \in Caller : \/ Calls(c) \/ CancelReads(c) \/ CancelPuts(c) \/ CancelArms(c)
                       \/ ForgetUnarms(c) \/ ForgetDrops(c)
  \/ Alarm
  \/ \E outcome \in {"copying", "done", "failed", "threw"} : StepEnds(outcome)
  \/ Reset

Spec == Init /\ [][Next]_vars

(* A due alarm is delivered, however many calls it queues behind; steps    *)
(* end (a stopped one at its next page), a woken call goes on, and time    *)
(* passes.                                                                 *)
Fairness ==
  /\ SF_vars(Alarm) /\ WF_vars(Ages)
  /\ WF_vars(\E outcome \in {"copying", "done", "failed", "threw"} : StepEnds(outcome))
  /\ \A c \in Caller : WF_vars(\/ CancelReads(c) \/ CancelPuts(c) \/ CancelArms(c)
                               \/ ForgetUnarms(c) \/ ForgetDrops(c))

FairSpec == Spec /\ Fairness

-----------------------------------------------------------------------------
(* Nothing a step does follows the answer of a cancel or a forget: a step  *)
(* runs only for the job stored, and only while that job is copying.       *)
StepIsCurrent == step # None => HasStatus("copying") /\ token = step

(* A job that has ended is never taken up again: whatever step or call was *)
(* in flight, it leaves cancelled or failed only by being dropped.         *)
Over(j) == j # None /\ j.status \in {"cancelled", "failed"}

NoRevival == [][Over(job) => job' = None \/ job'.status = job.status]_vars

(* A done job held by the caller that finishes it is not cancelled under   *)
(* that caller.                                                            *)
HeldIsKept ==
  [][HasStatus("done") /\ job.claimed => job' = None \/ job'.status = "done"]_vars

(* A copying job is being driven: a step runs, its alarm is set, or a      *)
(* cancel or forget is about to end it, as long as the object is not reset *)
(* between start's two writes.                                             *)
CopyingIsDriven ==
  resets = 0 /\ HasStatus("copying") => step # None \/ alarm = "step" \/ \E c \in Caller : AtWork(c)

(* A finished record is dropped in the end, as long as no reset cuts a     *)
(* cancel between its put and its alarm.                                   *)
FinishedGoes == (job # None /\ job.status # "copying") ~> (job = None \/ resets > 0)

(* A forgotten job stays gone until it is started again. *)
ForgottenStaysGone == forgotten => job = None
=============================================================================
