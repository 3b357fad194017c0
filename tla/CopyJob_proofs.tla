--------------------------- MODULE CopyJob_proofs ---------------------------
(***************************************************************************)
(* Proofs about the copy job object, for any number of cancels and forgets *)
(* in it at once, any number of starts and any number of resets.           *)
(***************************************************************************)
EXTENDS CopyJob, TLAPS

(* A call halfway through its storage calls met no running step, and the   *)
(* record a cancel read can since only have been dropped or cancelled.     *)
CallsOK ==
  \A c \in Caller :
    /\ call[c] \in {"cancel put", "cancel arm", "forget drop"} => step = None
    /\ call[c] = "cancel put" =>
         /\ seen[c] \in Job
         /\ job = None \/ Cancellable(job) \/ job.status = "cancelled"

Inv == TypeOK /\ StepIsCurrent /\ CallsOK

LEMMA JobTypes ==
  ASSUME NEW j \in Job
  PROVE  /\ LET k == [j EXCEPT !.claimed = TRUE] IN k \in Job /\ k.status = j.status
         /\ LET k == [j EXCEPT !.claimed = FALSE]
            IN  k \in Job /\ k.status = j.status /\ k.claimed = FALSE
         /\ LET k == [j EXCEPT !.aged = TRUE]
            IN  k \in Job /\ k.status = j.status /\ k.claimed = j.claimed
         /\ LET k == [j EXCEPT !.status = "cancelled", !.aged = FALSE]
            IN  k \in Job /\ k.status = "cancelled"
BY DEF Job

LEMMA FreshTypes ==
  ASSUME NEW s \in {"copying", "done", "failed", "cancelled"}
  PROVE  Fresh(s) \in Job /\ Fresh(s).status = s /\ Fresh(s).claimed = FALSE
BY DEF Fresh, Job

(* A start, and the steps outside the step and the calls: but for time     *)
(* passing, they meet no call at work.                                     *)
LEMMA StartSteps ==
  ASSUME Inv, NEW t \in Token, Start(t)
  PROVE  Inv'
<1> USE CopyJobAssumption DEF Inv
<1>1. job' \in Job /\ job' # None /\ job'.status = "copying"
  BY FreshTypes DEF Start
<1>2. step = None /\ step' = None
  BY DEF Start, StepIsCurrent, HasStatus
<1>3. \A c \in Caller : call[c] = "idle" /\ call'[c] = "idle"
  BY <1>2 DEF Start, Open, AtWork
<1> QED BY <1>1, <1>2, <1>3 DEF Start, TypeOK, StepIsCurrent, CallsOK

LEMMA OtherSteps ==
  ASSUME Inv, Claim \/ HoldEnds \/ Ages
  PROVE  Inv'
<1> USE CopyJobAssumption DEF Inv
<1>2. CASE Claim
  <2>0. job \in Job /\ job.status = "done" /\ job' = [job EXCEPT !.claimed = TRUE]
    BY <1>2 DEF Claim, TypeOK, HasStatus
  <2>1. job' \in Job /\ job' # None /\ job'.status = "done"
    BY <2>0, JobTypes
  <2>2. step = None
    BY <1>2 DEF Claim, StepIsCurrent, HasStatus
  <2>3. \A c \in Caller : call[c] = "idle"
    BY <1>2, <2>2 DEF Claim, Open, AtWork
  <2> QED BY <1>2, <2>1, <2>2, <2>3 DEF Claim, TypeOK, StepIsCurrent, CallsOK
<1>3. CASE HoldEnds \/ Ages
  <2>0. /\ job \in Job
        /\ \/ job' = [job EXCEPT !.claimed = FALSE]
           \/ job' = [job EXCEPT !.aged = TRUE]
    BY <1>3 DEF HoldEnds, Ages, TypeOK
  <2>1. /\ job \in Job /\ job' \in Job /\ job # None /\ job' # None
        /\ job'.status = job.status /\ (job'.claimed => job.claimed)
    BY <2>0, JobTypes
  <2>2. Cancellable(job) => Cancellable(job')
    BY <2>1 DEF Cancellable
  <2>3. UNCHANGED <<token, alarm, step, call, seen, minted, resets, forgotten>>
    BY <1>3 DEF HoldEnds, Ages
  <2>4. TypeOK'
    BY <2>1, <2>3 DEF TypeOK
  <2>5. StepIsCurrent'
    BY <2>1, <2>3 DEF StepIsCurrent, HasStatus
  <2>6. CallsOK'
    BY <2>1, <2>2, <2>3 DEF CallsOK
  <2> QED BY <2>4, <2>5, <2>6
<1> QED BY <1>2, <1>3

(* The calls change the job only while no step runs. *)
LEMMA CallSteps ==
  ASSUME Inv, NEW c \in Caller,
         \/ Calls(c) \/ CancelReads(c) \/ CancelPuts(c) \/ CancelArms(c)
         \/ ForgetUnarms(c) \/ ForgetDrops(c)
  PROVE  Inv'
<1> USE CopyJobAssumption DEF Inv
<1>1. CASE Calls(c)
  BY <1>1 DEF Calls, TypeOK, CallPC, StepIsCurrent, HasStatus, CallsOK
<1>2. CASE CancelReads(c)
  <2>1. CASE job # None /\ Cancellable(job)
    <3>1. /\ call' = [call EXCEPT ![c] = "cancel put"] /\ seen' = [seen EXCEPT ![c] = job]
          /\ step = None /\ UNCHANGED <<job, token, alarm, step, minted, resets, forgotten>>
      BY <1>2, <2>1 DEF CancelReads, Acts
    <3>2. TypeOK'
      BY <3>1 DEF TypeOK, CallPC
    <3>3. CallsOK'
      BY <2>1, <3>1 DEF CallsOK, TypeOK
    <3> QED BY <3>1, <3>2, <3>3 DEF StepIsCurrent
  <2>2. CASE ~(job # None /\ Cancellable(job))
    <3>1. /\ call' = [call EXCEPT ![c] = "idle"]
          /\ step = None /\ UNCHANGED <<job, token, alarm, step, seen, minted, resets, forgotten>>
      BY <1>2, <2>2 DEF CancelReads, Acts
    <3> QED BY <3>1 DEF TypeOK, CallPC, CallsOK, StepIsCurrent
  <2> QED BY <2>1, <2>2
<1>3. CASE CancelPuts(c)
  <2>1. seen[c] \in Job /\ step = None
    BY <1>3 DEF CancelPuts, Acts, CallsOK
  <2>2. job' = [seen[c] EXCEPT !.status = "cancelled", !.aged = FALSE]
    BY <1>3 DEF CancelPuts
  <2>3. job' \in Job /\ job'.status = "cancelled"
    BY <2>1, <2>2, JobTypes
  <2>4. /\ call' = [call EXCEPT ![c] = "cancel arm"] /\ seen' = [seen EXCEPT ![c] = None]
        /\ UNCHANGED <<token, alarm, step, minted, resets, forgotten>>
    BY <1>3 DEF CancelPuts
  <2> QED BY <2>1, <2>3, <2>4 DEF TypeOK, CallPC, CallsOK, StepIsCurrent
<1>4. CASE CancelArms(c) \/ ForgetUnarms(c)
  <2>1. /\ step = None /\ alarm' \in {"keep", "unset"}
        /\ \E pc \in {"idle", "forget drop"} : call' = [call EXCEPT ![c] = pc]
        /\ UNCHANGED <<job, token, step, seen, minted, resets, forgotten>>
    BY <1>4 DEF CancelArms, ForgetUnarms, Acts
  <2> QED BY <2>1 DEF TypeOK, CallPC, CallsOK, StepIsCurrent
<1>5. CASE ForgetDrops(c)
  BY <1>5 DEF ForgetDrops, Acts, TypeOK, CallPC, CallsOK, StepIsCurrent
<1> QED BY <1>1, <1>2, <1>3, <1>4, <1>5

(* The alarm, the step it opens and its end, and a reset. *)
LEMMA StepSteps ==
  ASSUME Inv, Alarm \/ Reset
              \/ \E outcome \in {"copying", "done", "failed", "threw"} : StepEnds(outcome)
  PROVE  Inv'
<1> USE CopyJobAssumption DEF Inv
<1>1. CASE Alarm
  <2>1. \A c \in Caller : call[c] = "idle" /\ call'[c] = "idle"
    BY <1>1 DEF Alarm, Open, AtWork
  <2>2. step = None /\ UNCHANGED <<call, seen, minted, resets, forgotten>>
    BY <1>1 DEF Alarm
  <2>3. /\ job' \in {job, None} /\ token' \in {token, None}
        /\ alarm' \in {"unset", "keep"} /\ step' \in {step, token}
    BY <1>1, <2>1 DEF Alarm, OpenAlarm
  <2>4. step' # None => job' = job /\ token' = token /\ HasStatus("copying") /\ step' = token
    BY <1>1, <2>1, <2>2 DEF Alarm, OpenAlarm, HasStatus
  <2> QED BY <2>1, <2>2, <2>3, <2>4 DEF TypeOK, StepIsCurrent, HasStatus, CallsOK
<1>2. ASSUME NEW outcome \in {"copying", "done", "failed", "threw"}, StepEnds(outcome)
      PROVE  Inv'
  <2>1. step # None /\ step' = None
    BY <1>2 DEF StepEnds
  <2>2. job \in Job
    BY <2>1 DEF TypeOK, StepIsCurrent, HasStatus
  <2>3. job' \in Job
    BY <1>2, <2>2, FreshTypes DEF StepEnds
  <2>4. alarm' \in {"step", "keep", alarm} /\ UNCHANGED <<token, call, seen, minted, resets, forgotten>>
    BY <1>2 DEF StepEnds
  <2>5. \A c \in Caller : call[c] \notin {"cancel put", "cancel arm", "forget drop"}
    BY <2>1 DEF CallsOK
  <2> QED BY <2>1, <2>3, <2>4, <2>5 DEF TypeOK, StepIsCurrent, CallsOK
<1>3. CASE Reset
  <2>1. /\ job' \in {job, Fresh("copying")} /\ token' \in Token \cup {None}
        /\ alarm' \in {"step", alarm} /\ minted' \subseteq Token /\ forgotten' \in BOOLEAN
    BY <1>3 DEF Reset, TypeOK
  <2>2. step' = None /\ resets' \in Nat
    BY <1>3 DEF Reset, TypeOK
  <2>3. call' = [c \in Caller |-> "idle"] /\ seen' = [c \in Caller |-> None]
    BY <1>3 DEF Reset
  <2> QED BY <2>1, <2>2, <2>3, FreshTypes DEF TypeOK, CallPC, StepIsCurrent, CallsOK
<1> QED BY <1>1, <1>2, <1>3

LEMMA InvStep == ASSUME Inv, [Next]_vars PROVE Inv'
<1>1. CASE UNCHANGED vars
  BY <1>1 DEF vars, Inv, TypeOK, StepIsCurrent, HasStatus, CallsOK, Cancellable
<1> QED BY <1>1, StartSteps, OtherSteps, CallSteps, StepSteps DEF Next

LEMMA InvInit == Init => Inv
<1> SUFFICES ASSUME Init PROVE Inv
  OBVIOUS
<1>1. forgotten \in BOOLEAN
  BY DEF Init
<1>2. resets \in Nat /\ minted \subseteq Token
  BY DEF Init
<1>3. TypeOK
  BY <1>1, <1>2 DEF Init, TypeOK, CallPC
<1> QED BY <1>3, CopyJobAssumption DEF Init, Inv, StepIsCurrent, CallsOK

(* What a cancel or a forget answers is final: no step outlives it. *)
THEOREM NoStepOutlives == Spec => []StepIsCurrent
BY InvInit, InvStep, PTL DEF Spec, Inv

(* A job that ended is never taken up again. *)
THEOREM EndedStaysEnded == Spec => NoRevival
<1>1. ASSUME Inv, [Next]_vars, Over(job)
      PROVE  job' = None \/ job'.status = job.status
  <2> USE CopyJobAssumption DEF Over
  <2>0. job \in Job /\ step = None
    BY <1>1 DEF Inv, TypeOK, StepIsCurrent, HasStatus
  <2>1. CASE HoldEnds \/ Ages
    BY <2>0, <2>1, JobTypes DEF HoldEnds, Ages
  <2>2. CASE \E c \in Caller : CancelPuts(c)
    <3>1. PICK c \in Caller : CancelPuts(c)
      BY <2>2
    <3>2. seen[c] \in Job /\ job.status = "cancelled"
      BY <1>1, <2>0, <3>1 DEF Inv, CallsOK, CancelPuts, Acts, Cancellable
    <3>3. job'.status = "cancelled"
      BY <3>1, <3>2, JobTypes DEF CancelPuts
    <3> QED BY <3>2, <3>3
  <2>3. CASE Alarm
    BY <2>3 DEF Alarm, OpenAlarm
  <2>4. CASE UNCHANGED job
    BY <2>4
  <2>5. \A c \in Caller : Calls(c) \/ CancelReads(c) \/ CancelArms(c) \/ ForgetUnarms(c)
                          \/ ForgetDrops(c) => UNCHANGED job \/ job' = None
    BY DEF Calls, CancelReads, CancelArms, ForgetUnarms, ForgetDrops
  <2>6. \A t \in Token : ~Start(t)
    BY <1>1 DEF Start
  <2>7. ~Claim /\ \A outcome : ~StepEnds(outcome)
    BY <1>1, <2>0 DEF Claim, HasStatus, StepEnds
  <2>8. Reset => UNCHANGED job
    BY <1>1 DEF Reset
  <2> QED BY <1>1, <2>1, <2>2, <2>3, <2>4, <2>5, <2>6, <2>7, <2>8 DEF Next, vars
<1>2. Inv /\ [Next]_vars => [Over(job) => job' = None \/ job'.status = job.status]_vars
  BY <1>1
<1> QED BY InvInit, InvStep, <1>2, PTL DEF Spec, NoRevival

(* A done job in a caller's hands is not cancelled under that caller: a    *)
(* cancel that reached its put read the record before it was claimed, and  *)
(* no claim is let in while that cancel is at work.                        *)
THEOREM HeldStaysDone == Spec => HeldIsKept
<1>1. ASSUME Inv, [Next]_vars, HasStatus("done"), job.claimed
      PROVE  job' = None \/ job'.status = "done"
  <2> USE CopyJobAssumption DEF HasStatus
  <2>0. job \in Job /\ job.status = "done" /\ step = None
    BY <1>1 DEF Inv, TypeOK, StepIsCurrent
  <2>1. CASE HoldEnds \/ Ages
    <3>1. job' = [job EXCEPT !.claimed = FALSE] \/ job' = [job EXCEPT !.aged = TRUE]
      BY <2>1 DEF HoldEnds, Ages
    <3> QED BY <2>0, <3>1, JobTypes
  <2>2. \A c \in Caller : ~CancelPuts(c)
    BY <1>1, <2>0 DEF Inv, CallsOK, CancelPuts, Acts, Cancellable
  <2>3. CASE Alarm
    BY <2>0, <2>3 DEF Alarm, OpenAlarm
  <2>4. CASE UNCHANGED job
    BY <2>0, <2>4
  <2>5. \A c \in Caller : Calls(c) \/ CancelReads(c) \/ CancelArms(c) \/ ForgetUnarms(c)
                          \/ ForgetDrops(c) => UNCHANGED job \/ job' = None
    BY DEF Calls, CancelReads, CancelArms, ForgetUnarms, ForgetDrops
  <2>6. \A t \in Token : ~Start(t)
    BY <1>1 DEF Start
  <2>7. ~Claim /\ \A outcome : ~StepEnds(outcome)
    BY <1>1, <2>0 DEF Claim, StepEnds
  <2>8. Reset => UNCHANGED job
    BY <1>1 DEF Reset
  <2> QED BY <1>1, <2>0, <2>1, <2>2, <2>3, <2>4, <2>5, <2>6, <2>7, <2>8 DEF Next, vars
<1>2. Inv /\ [Next]_vars =>
        [HasStatus("done") /\ job.claimed => job' = None \/ job'.status = "done"]_vars
  BY <1>1
<1> QED BY InvInit, InvStep, <1>2, PTL DEF Spec, HeldIsKept

-----------------------------------------------------------------------------
(* A copying job keeps something that drives it.  The two facts that this  *)
(* rests on: a cancel about to arm the retention alarm has cancelled the   *)
(* job, and a copying job has a token for its alarm to run under.          *)
Armed ==
  /\ \A c \in Caller : call[c] = "cancel arm" => job = None \/ job.status = "cancelled"
  /\ HasStatus("copying") => token \in Token
  /\ CopyingIsDriven

(* Where the job keeps its status, its token and its calls, and nothing    *)
(* disarms it, it stays driven.                                            *)
LEMMA ArmedCallers ==
  ASSUME Inv, Armed, NEW c \in Caller,
         \/ Calls(c) \/ CancelReads(c) \/ CancelPuts(c) \/ CancelArms(c)
         \/ ForgetUnarms(c) \/ ForgetDrops(c)
  PROVE  Armed'
<1> USE CopyJobAssumption DEF Inv, HasStatus
<1>0. call \in [Caller -> CallPC]
  BY DEF TypeOK
<1>1. CASE Calls(c)
  <2>1. \A e \in Caller : AtWork(e) => AtWork(e)'
    BY <1>0, <1>1 DEF Calls, AtWork
  <2> QED BY <1>0, <1>1, <2>1 DEF Calls, Armed, CopyingIsDriven
<1>2. CASE CancelReads(c)
  <2>1. CASE job # None /\ Cancellable(job)
    <3>1. AtWork(c)' /\ UNCHANGED <<job, token>>
      BY <1>0, <1>2, <2>1 DEF CancelReads, Acts, AtWork
    <3> QED BY <1>0, <1>2, <2>1, <3>1 DEF CancelReads, Armed, CopyingIsDriven
  <2>2. CASE ~(job # None /\ Cancellable(job))
    <3>1. ~HasStatus("copying") /\ UNCHANGED <<job, token>>
      BY <1>2, <2>2 DEF CancelReads, Cancellable
    <3> QED BY <1>0, <1>2, <2>2, <3>1 DEF CancelReads, Armed, CopyingIsDriven
  <2> QED BY <2>1, <2>2
<1>3. CASE CancelPuts(c)
  <2>1. seen[c] \in Job
    BY <1>3 DEF CancelPuts, Acts, CallsOK
  <2>2. job'.status = "cancelled"
    BY <1>3, <2>1, JobTypes DEF CancelPuts
  <2> QED BY <2>2 DEF Armed, CopyingIsDriven
<1>4. CASE CancelArms(c)
  <2>1. job = None \/ job.status = "cancelled"
    BY <1>4 DEF CancelArms, Acts, Armed
  <2> QED BY <1>4, <2>1 DEF CancelArms, Armed, CopyingIsDriven
<1>5. CASE ForgetUnarms(c)
  <2>1. AtWork(c)' /\ UNCHANGED <<job, token>>
    BY <1>0, <1>5 DEF ForgetUnarms, Acts, AtWork
  <2> QED BY <1>0, <1>5, <2>1 DEF ForgetUnarms, Armed, CopyingIsDriven
<1>6. CASE ForgetDrops(c)
  BY <1>6 DEF ForgetDrops, Armed, CopyingIsDriven
<1> QED BY <1>1, <1>2, <1>3, <1>4, <1>5, <1>6

LEMMA ArmedStep == ASSUME Inv, Armed, [Next]_vars PROVE Armed'
<1> USE CopyJobAssumption DEF HasStatus
<1>1. ASSUME NEW t \in Token, Start(t) PROVE Armed'
  <2>1. step = None /\ \A c \in Caller : call'[c] = "idle"
    BY <1>1 DEF Start, Open, AtWork, Inv, StepIsCurrent
  <2> QED BY <1>1, <2>1 DEF Start, Armed, CopyingIsDriven
<1>2. CASE Claim \/ HoldEnds \/ Ages
  <2>1. job \in Job /\ job # None
    BY <1>2 DEF Claim, HoldEnds, Ages, Inv, TypeOK
  <2>2. job' # None /\ job'.status = job.status
    <3>1. \/ job' = [job EXCEPT !.claimed = TRUE]
          \/ job' = [job EXCEPT !.claimed = FALSE]
          \/ job' = [job EXCEPT !.aged = TRUE]
      BY <1>2 DEF Claim, HoldEnds, Ages
    <3> QED BY <2>1, <3>1, JobTypes
  <2>3. UNCHANGED <<token, alarm, step, call, seen, minted, resets, forgotten>>
    BY <1>2 DEF Claim, HoldEnds, Ages
  <2> QED BY <2>1, <2>2, <2>3 DEF Armed, CopyingIsDriven, AtWork
<1>3. CASE Alarm
  <2>1. \A c \in Caller : call[c] = "idle" /\ call'[c] = "idle"
    BY <1>3 DEF Alarm, Open, AtWork
  <2>2. CASE HasStatus("copying")
    <3>1. step' = token /\ UNCHANGED <<job, token>>
      BY <1>3, <2>1, <2>2 DEF Alarm, OpenAlarm
    <3> QED BY <2>1, <2>2, <3>1 DEF Armed, CopyingIsDriven
  <2>3. CASE ~HasStatus("copying")
    <3>1. job' \in {job, None}
      BY <1>3, <2>3 DEF Alarm, OpenAlarm
    <3> QED BY <2>1, <2>3, <3>1 DEF Armed, CopyingIsDriven
  <2> QED BY <2>2, <2>3
<1>4. ASSUME NEW outcome \in {"copying", "done", "failed", "threw"}, StepEnds(outcome)
      PROVE  Armed'
  <2>1. step # None /\ StillRunning /\ job \in Job
    BY <1>4 DEF StepEnds, Inv, StepIsCurrent, StillRunning, TypeOK
  <2>2. \A c \in Caller : call'[c] # "cancel arm"
    BY <1>4, <2>1 DEF StepEnds, Inv, CallsOK
  <2>3. token \in Token /\ token' = token
    BY <1>4, <2>1 DEF StepEnds, StillRunning, Armed
  <2>4. job'.status = "copying" => alarm' = "step"
    BY <1>4, <2>1, FreshTypes DEF StepEnds
  <2> QED BY <2>2, <2>3, <2>4 DEF Armed, CopyingIsDriven
<1>5. CASE Reset
  <2>1. resets' # 0 /\ \A c \in Caller : call'[c] = "idle"
    BY <1>5 DEF Reset, Inv, TypeOK
  <2>2. (job' = job /\ token' = token) \/ token' \in Token
    BY <1>5 DEF Reset
  <2> QED BY <2>1, <2>2 DEF Armed, CopyingIsDriven
<1>6. CASE UNCHANGED vars
  BY <1>6 DEF vars, Armed, CopyingIsDriven, AtWork
<1> QED BY <1>1, <1>2, <1>3, <1>4, <1>5, <1>6, ArmedCallers DEF Next

(* Until a reset cuts a start in two, a copying job is never left with     *)
(* nothing that would move it: a step, its alarm, or a cancel or forget    *)
(* about to end it.                                                        *)
THEOREM CopyingStaysDriven == Spec => []CopyingIsDriven
<1>1. Init => Armed
  BY DEF Init, Armed, CopyingIsDriven, HasStatus
<1>2. Inv /\ Armed /\ [Next]_vars => Armed'
  BY ArmedStep
<1>3. Armed => CopyingIsDriven
  BY DEF Armed
<1> QED BY InvInit, InvStep, <1>1, <1>2, <1>3, PTL DEF Spec
=============================================================================
