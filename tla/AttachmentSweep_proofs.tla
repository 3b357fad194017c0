------------------------ MODULE AttachmentSweep_proofs ------------------------
(***************************************************************************)
(* For any number of attachments, passes and past states, and any times    *)
(* that are as the code's are: no id has a row and a tombstone, only what  *)
(* a dry run listed is condemned, and no bytes go that a row needs or a    *)
(* rewind could, but where a replacement began while the pass deleted.     *)
(***************************************************************************)
EXTENDS AttachmentSweep, TLAPS

-----------------------------------------------------------------------------
(* Types. *)

\* A pass that goes on keeps its kind and its instant, and only narrows what it was given.
LEMMA GoesType ==
    ASSUME TypeOK, NEW p \in Passes, NEW todo \in SUBSET Atts, NEW found \in SUBSET Atts,
           NEW next \in Goes(p, todo, found)
    PROVE  /\ next \in PassType
           /\ next.now = pass[p].now /\ next.dry = pass[p].dry /\ next.present = pass[p].present
           /\ next.todo \subseteq todo /\ next.orphans \subseteq found
           /\ next.pc \in {"judge", "license", "settle", "recheck"}
           /\ next.pc = "recheck" => ~pass[p].dry
  <1>1. pass[p] \in PassType
    BY DEF TypeOK
  <1>2. CASE todo # {} /\ Cardinality(found) < Limit
    <2>1. next = [pass[p] EXCEPT !.pc = "judge", !.todo = todo, !.orphans = found]
      BY <1>2 DEF Goes
    <2> QED  BY <1>1, <2>1 DEF PassType
  <1>3. CASE ~(todo # {} /\ Cardinality(found) < Limit)
    <2>1. PICK ids \in UpTo(Limit, found) :
            next = [pass[p] EXCEPT !.todo = {}, !.orphans = ids,
                      !.pc = IF pass[p].dry THEN "license"
                             ELSE IF ids = {} THEN "settle" ELSE "recheck"]
      BY <1>3 DEF Goes
    <2>2. ids \subseteq found
      BY DEF UpTo
    <2>3. pass[p].dry \in BOOLEAN
      BY <1>1 DEF PassType
    <2> QED  BY <1>1, <2>1, <2>2, <2>3 DEF PassType
  <1> QED  BY <1>2, <1>3

\* What a call condemns, it was asked about, has no row and is in the licence.
LEMMA CondemnableIs ==
    ASSUME NEW p \in Passes, NEW ids \in SUBSET Atts
    PROVE  /\ Condemnable(p, ids) \in SUBSET Atts
           /\ Condemnable(p, ids) \subseteq ids \ scope.rows
           /\ Condemnable(p, ids) \subseteq scope.licence.ids
  BY DEF Condemnable, Rowless

\* A batch is of what is left.
LEMMA Batched ==
    ASSUME NEW k, NEW S \in SUBSET Atts, NEW ids \in UpTo(k, S)
    PROVE  ids \in SUBSET Atts /\ ids \subseteq S
  BY DEF UpTo

LEMMA CondemnedType ==
    ASSUME TypeOK, NEW p \in Passes, NEW ids \in SUBSET Atts
    PROVE  Condemned(p, ids) \in [Atts -> Instants]
  <1>1. pass[p].now \in Nat /\ scope.condemned \in [Atts -> Instants]
    BY DEF TypeOK, PassType, ScopeType
  <1> QED  BY <1>1 DEF Condemned, Instants

LEMMA NoPassType == NoPass \in PassType
  BY DEF NoPass, PassType

LEMMA InitType == Init => TypeOK
  <1> SUFFICES ASSUME Init PROVE TypeOK
    OBVIOUS
  <1>1. NoLicence \in LicenceType
    BY DEF NoLicence, LicenceType, Instants
  <1>2. NoScope \in ScopeType
    BY <1>1 DEF NoScope, ScopeType, Instants
  <1> QED
    BY <1>2, NoPassType, AttachmentSweepAssumption
       DEF Init, TypeOK, NoReplacement, Instants
\* Each pass holds one record, and a step writes one pass's.
LEMMA OnlyType ==
    ASSUME TypeOK, NEW p \in Passes, NEW v \in PassType, Only(p, v)
    PROVE  pass' \in [Passes -> PassType]
  BY DEF TypeOK, Only

\* A replacement on its way is of a state that is kept.
Aimed ==
    replacer # NoReplacement =>
        /\ replacer.kind \in {"rewind", "load"}
        /\ replacer.slot \in Slots /\ saved[replacer.slot] # None

\* Where one lands, the scope has the rows and tombstones of a state that was saved, and that
\* state's licence or none.
LEMMA Landing ==
    ASSUME TypeOK, Aimed, Rewind \/ Load
    PROVE  /\ replacer # NoReplacement
           /\ \E s \in Slots : \E lic \in {saved[s].licence, NoLicence} :
                /\ saved[s] # None /\ saved[s] \in SavedType
                /\ scope' = [rows |-> saved[s].rows, condemned |-> saved[s].condemned,
                             licence |-> lic]
  <1>1. replacer # NoReplacement
    BY AttachmentSweepAssumption DEF Rewind, Load, NoReplacement
  <1> QED  BY <1>1 DEF Aimed, Rewind, Load, TypeOK

LEMMA TypeStep ==
    ASSUME TypeOK, Aimed, [Next]_vars
    PROVE  TypeOK'
  <1> USE DEF users, states
  <1>n. NoLicence \in LicenceType
    BY DEF NoLicence, LicenceType, Instants
  <1>s. scope \in ScopeType /\ scope.licence \in LicenceType
    BY DEF TypeOK, ScopeType
  <1>p. \A p \in Passes : pass[p] \in PassType
    BY DEF TypeOK
  <1>1. CASE UNCHANGED vars
    BY <1>1 DEF vars, TypeOK
  <1>2. ASSUME NEW x \in Atts, Put(x) PROVE TypeOK'
    BY <1>2 DEF Put, TypeOK, Instants
  <1>3. ASSUME NEW x \in Atts, Add(x) PROVE TypeOK'
    BY <1>3 DEF Add, TypeOK, ScopeType
  <1>4. ASSUME NEW x \in Atts, Remove(x) PROVE TypeOK'
    BY <1>4 DEF Remove, TypeOK, ScopeType
  <1>5. ASSUME NEW x \in Atts, DeleteBytes(x) \/ Abandon(x) PROVE TypeOK'
    BY <1>5 DEF DeleteBytes, Abandon, TypeOK
  <1>6. ASSUME NEW s \in Slots, Save(s) PROVE TypeOK'
    <2>1. Saved(scope) \in SavedType
      BY <1>s DEF Saved, SavedType, ScopeType, TypeOK
    <2> QED  BY <1>6, <2>1 DEF Save, TypeOK
  <1>7. ASSUME NEW s \in Slots, NEW kind \in {"rewind", "load"}, Replace(kind, s) PROVE TypeOK'
    BY <1>7 DEF Replace, Deleting, TypeOK, Instants
  <1>8. ASSUME Rewind \/ Load PROVE TypeOK'
    <2>1. PICK s \in Slots : \E lic \in {saved[s].licence, NoLicence} :
            /\ saved[s] \in SavedType
            /\ scope' = [rows |-> saved[s].rows, condemned |-> saved[s].condemned, licence |-> lic]
      BY <1>8, Landing
    <2>2. scope' \in ScopeType
      BY <2>1, <1>n DEF ScopeType, SavedType
    <2> QED  BY <1>8, <2>2 DEF Rewind, Load, TypeOK, NoReplacement
  <1>9. CASE ReplaceFails
    BY <1>9 DEF ReplaceFails, TypeOK, NoReplacement
  <1>10. ASSUME NEW p \in Passes, NEW dry \in BOOLEAN, Begin(p, dry) PROVE TypeOK'
    <2>1. [NoPass EXCEPT !.pc = "list", !.dry = dry, !.now = now] \in PassType
      BY DEF NoPass, PassType, TypeOK
    <2> QED  BY <1>10, <2>1, OnlyType DEF Begin, TypeOK
  <1>11. ASSUME NEW p \in Passes, List(p) PROVE TypeOK'
    <2>1. PICK next \in Goes(p, {x \in blobs : minted[x] + Grace <= pass[p].now}, {}) :
            Only(p, [next EXCEPT !.present = IF next.dry THEN {} ELSE blobs])
      BY <1>11 DEF List
    <2>2. next \in PassType
      BY <2>1, GoesType DEF TypeOK
    <2>3. [next EXCEPT !.present = IF next.dry THEN {} ELSE blobs] \in PassType
      BY <2>2 DEF PassType, TypeOK
    <2> QED  BY <1>11, <2>1, <2>3, OnlyType DEF List, TypeOK
  <1>12. ASSUME NEW p \in Passes, Judge(p) PROVE TypeOK'
    <2>1. PICK ids \in UpTo(Batch, pass[p].todo) :
            /\ \E next \in Goes(p, pass[p].todo \ ids,
                    pass[p].orphans \cup
                      IF pass[p].dry THEN Rowless(ids) ELSE Answered(p, ids)) : Only(p, next)
            /\ scope' = IF pass[p].dry THEN scope
                        ELSE [scope EXCEPT !.condemned = Condemned(p, Condemnable(p, ids))]
      BY <1>12 DEF Judge
    <2>2. ids \in SUBSET Atts
      BY <1>p, Batched DEF PassType
    <2>3. Condemnable(p, ids) \in SUBSET Atts /\ Rowless(ids) \in SUBSET Atts
      BY <2>2, CondemnableIs DEF Rowless
    <2>4. scope' \in ScopeType
      BY <1>s, <2>1, <2>3, CondemnedType DEF ScopeType
    <2>5. /\ pass[p].todo \ ids \in SUBSET Atts
          /\ pass[p].orphans \cup (IF pass[p].dry THEN Rowless(ids) ELSE Answered(p, ids))
                \in SUBSET Atts
      BY <1>p, <2>3 DEF PassType, Answered
    <2>6. pass' \in [Passes -> PassType]
      BY <2>1, <2>5, GoesType, OnlyType
    <2> QED  BY <1>12, <2>4, <2>6 DEF Judge, TypeOK
  <1>13. ASSUME NEW p \in Passes, License(p) PROVE TypeOK'
    <2>1. [ids |-> pass[p].orphans, at |-> pass[p].now] \in LicenceType
      BY <1>p DEF PassType, LicenceType, Instants
    <2>2. scope' \in ScopeType
      BY <1>n, <1>s, <1>13, <2>1 DEF License, ScopeType
    <2>3. listed' \subseteq Atts
      BY <1>p, <1>13 DEF License, PassType, TypeOK
    <2> QED  BY <1>13, <2>2, <2>3, NoPassType, OnlyType DEF License, TypeOK
  <1>14. ASSUME NEW p \in Passes, Recheck(p) PROVE TypeOK'
    <2>1. [pass[p] EXCEPT !.pc = "delete"] \in PassType
      BY <1>p DEF PassType
    <2> QED  BY <1>14, <2>1, NoPassType, OnlyType DEF Recheck, TypeOK
  <1>15. ASSUME NEW p \in Passes, NEW x \in Atts, Delete(p, x) PROVE TypeOK'
    <2> DEFINE v == [pass[p] EXCEPT !.orphans = @ \ {x}, !.present = @ \ {x},
                       !.pc = IF pass[p].orphans = {x} THEN "settle" ELSE "delete"]
    <2>1. v \in PassType
      BY <1>p DEF PassType
    <2>2. Only(p, v)
      BY <1>15 DEF Delete
    <2> QED  BY <1>15, <2>1, <2>2, OnlyType DEF Delete, TypeOK
  <1>16. ASSUME NEW p \in Passes, Settle(p) PROVE TypeOK'
    <2>1. PICK lic \in LicenceType : scope' = [scope EXCEPT !.licence = lic]
      <3> DEFINE kept == scope.licence.ids \cap pass[p].present
      <3>1. [ids |-> kept, at |-> scope.licence.at] \in LicenceType
        BY <1>s DEF LicenceType
      <3>2. scope' = [scope EXCEPT !.licence =
                        IF kept = {} THEN NoLicence ELSE [ids |-> kept, at |-> scope.licence.at]]
        BY <1>16, <1>s DEF Settle, ScopeType
      <3> QED  BY <3>1, <3>2, <1>n
    <2>2. scope' \in ScopeType
      BY <1>s, <2>1 DEF ScopeType
    <2> QED  BY <1>16, <2>2, NoPassType, OnlyType DEF Settle, TypeOK
  <1>17. ASSUME NEW p \in Passes, Fail(p) PROVE TypeOK'
    BY <1>17, NoPassType, OnlyType DEF Fail, TypeOK
  <1>18. CASE Tick
    BY <1>18 DEF Tick, TypeOK
  <1> QED
    BY <1>1, <1>2, <1>3, <1>4, <1>5, <1>6, <1>7, <1>8, <1>9, <1>10, <1>11, <1>12, <1>13, <1>14,
       <1>15, <1>16, <1>17, <1>18 DEF Next, Step
LEMMA AimedStep ==
    ASSUME TypeOK, Aimed, [Next]_vars
    PROVE  Aimed'
  <1> USE DEF users, states
  <1>1. CASE UNCHANGED <<replacer, saved>>
    BY <1>1 DEF Aimed
  <1>2. ASSUME NEW s \in Slots, Save(s) PROVE Aimed'
    BY <1>2 DEF Save, Aimed, TypeOK
  <1>3. ASSUME NEW s \in Slots, NEW kind \in {"rewind", "load"}, Replace(kind, s) PROVE Aimed'
    BY <1>3 DEF Replace, Aimed, TypeOK
  <1>4. CASE Rewind \/ Load \/ ReplaceFails
    BY <1>4 DEF Rewind, Load, ReplaceFails, Aimed
  <1> QED
    BY <1>1, <1>2, <1>3, <1>4
       DEF Next, Step, vars, Put, Add, Remove, DeleteBytes, Abandon, Begin, List, Judge, License,
           Recheck, Delete, Settle, Fail, Tick

-----------------------------------------------------------------------------
(* What each step does to a pass. *)

\* The call for one batch.
Judged(p, ids) ==
    /\ ids \subseteq pass[p].todo
    /\ pass'[p].orphans \subseteq pass[p].orphans \cup
            IF pass[p].dry THEN ids \ scope.rows ELSE Condemnable(p, ids)
    /\ pass'[p].pc \in {"judge", "license", "settle", "recheck"}
    /\ pass'[p].pc = "recheck" => ~pass[p].dry
    /\ scope' = IF pass[p].dry THEN scope
                ELSE [scope EXCEPT !.condemned = Condemned(p, Condemnable(p, ids))]

LEMMA JudgeIs ==
    ASSUME TypeOK, NEW p \in Passes, Judge(p)
    PROVE  /\ \E ids \in SUBSET Atts : Judged(p, ids)
           /\ pass'[p].now = pass[p].now /\ pass'[p].dry = pass[p].dry
           /\ pass'[p].todo \subseteq pass[p].todo
           /\ \A q \in Passes \ {p} : pass'[q] = pass[q]
           /\ UNCHANGED <<now, blobs, fence, saved, replacer, upload, minted, removed, listed>>
  <1>p. pass[p] \in PassType
    BY DEF TypeOK
  <1>1. PICK ids \in UpTo(Batch, pass[p].todo) :
          /\ \E next \in Goes(p, pass[p].todo \ ids,
                  pass[p].orphans \cup
                    IF pass[p].dry THEN Rowless(ids) ELSE Answered(p, ids)) : Only(p, next)
          /\ scope' = IF pass[p].dry THEN scope
                      ELSE [scope EXCEPT !.condemned = Condemned(p, Condemnable(p, ids))]
    BY DEF Judge
  <1>2. ids \in SUBSET Atts /\ ids \subseteq pass[p].todo
    BY <1>p, Batched DEF PassType
  <1> DEFINE found == pass[p].orphans \cup
                        IF pass[p].dry THEN Rowless(ids) ELSE Answered(p, ids)
  <1>3. Condemnable(p, ids) \in SUBSET Atts /\ Rowless(ids) \in SUBSET Atts
    BY <1>2, CondemnableIs DEF Rowless
  <1> DEFINE rest == pass[p].todo \ ids
  <1>4. rest \in SUBSET Atts /\ found \in SUBSET Atts /\ rest \subseteq pass[p].todo
    BY <1>p, <1>3 DEF PassType, Answered
  <1>5. PICK next \in Goes(p, rest, found) : Only(p, next)
    BY <1>1
  <1>6. pass'[p] = next /\ \A q \in Passes \ {p} : pass'[q] = pass[q]
    BY <1>5 DEF Only, TypeOK
  <1> HIDE DEF found, rest
  <1>7. /\ next.now = pass[p].now /\ next.dry = pass[p].dry
        /\ next.todo \subseteq rest /\ next.orphans \subseteq found
        /\ next.pc \in {"judge", "license", "settle", "recheck"}
        /\ next.pc = "recheck" => ~pass[p].dry
    BY <1>4, GoesType
  <1>8. Judged(p, ids)
    BY <1>1, <1>2, <1>6, <1>7 DEF Judged, found, Rowless, Answered
  <1>9. UNCHANGED <<now, blobs, fence, saved, replacer, upload, minted, removed, listed>>
    BY DEF Judge, users, states
  <1> QED  BY <1>2, <1>4, <1>6, <1>7, <1>8, <1>9

\* Every other step: a pass stays, ends, begins unfenced, lists what is old enough, goes on to
\* its deletes unfenced, or deletes.
Begun(p) ==
    /\ pass'[p].now = now /\ ~Fenced(now) /\ pass'[p].pc = "list"
    /\ pass'[p].todo = {} /\ pass'[p].orphans = {}
    /\ UNCHANGED <<now, fence, scope, saved, replacer, upload, minted, removed>>

Listed(p) ==
    /\ pass'[p].now = pass[p].now /\ pass'[p].dry = pass[p].dry
    /\ pass'[p].todo \subseteq {x \in blobs : minted[x] + Grace <= pass[p].now}
    /\ pass'[p].orphans = {} /\ pass'[p].pc # "delete"
    /\ UNCHANGED <<now, fence, scope, saved, replacer, upload, minted, removed>>

Went(p) ==
    /\ pass[p].pc \in {"recheck", "delete"}
    /\ pass'[p].now = pass[p].now /\ pass'[p].dry = pass[p].dry
    /\ pass'[p].todo = pass[p].todo /\ pass'[p].orphans \subseteq pass[p].orphans
    /\ pass'[p].pc \in {"delete", "settle"}
    /\ pass[p].pc = "recheck" => ~Fenced(pass[p].now)
    /\ UNCHANGED <<now, fence, scope, saved, replacer, upload, minted, removed>>

LEMMA PassStep ==
    ASSUME TypeOK, [Next]_vars, NEW p \in Passes
    PROVE  \/ pass'[p] \in {pass[p], NoPass} \/ Judge(p) \/ Begun(p) \/ Listed(p) \/ Went(p)
  <1> USE DEF users, states
  <1>p. pass \in [Passes -> PassType] /\ pass[p] \in PassType
    BY DEF TypeOK
  <1>1. CASE UNCHANGED pass
    BY <1>1
  <1>2. ASSUME NEW q \in Passes, NEW v, Only(q, v), q # p PROVE pass'[p] = pass[p]
    BY <1>2, <1>p DEF Only
  <1>3. ASSUME NEW v, Only(p, v) PROVE pass'[p] = v
    BY <1>3, <1>p DEF Only
  <1>4. ASSUME NEW dry \in BOOLEAN, Begin(p, dry) PROVE Begun(p)
    <2>1. pass'[p] = [NoPass EXCEPT !.pc = "list", !.dry = dry, !.now = now]
      BY <1>3, <1>4 DEF Begin
    <2> QED  BY <1>4, <2>1 DEF Begin, Begun, NoPass
  <1>5. ASSUME List(p) PROVE Listed(p)
    <2> DEFINE old == {x \in blobs : minted[x] + Grace <= pass[p].now}
    <2>1. PICK next \in Goes(p, old, {}) :
            Only(p, [next EXCEPT !.present = IF next.dry THEN {} ELSE blobs])
      BY <1>5 DEF List
    <2>2. old \in SUBSET Atts /\ {} \in SUBSET Atts
      BY DEF TypeOK
    <2> HIDE DEF old
    <2>3. /\ next \in PassType /\ next.now = pass[p].now /\ next.dry = pass[p].dry
          /\ next.todo \subseteq old /\ next.orphans \subseteq {}
          /\ next.pc \in {"judge", "license", "settle", "recheck"}
      BY <2>1, <2>2, GoesType
    <2>4. pass'[p] = [next EXCEPT !.present = IF next.dry THEN {} ELSE blobs]
      BY <1>3, <2>1
    <2> QED  BY <1>5, <2>3, <2>4 DEF Listed, List, PassType, old
  <1>6. ASSUME Recheck(p) PROVE pass'[p] = NoPass \/ Went(p)
    <2>1. pass'[p] = IF Stops(p) THEN NoPass ELSE [pass[p] EXCEPT !.pc = "delete"]
      BY <1>3, <1>6 DEF Recheck
    <2> QED  BY <1>p, <1>6, <2>1 DEF Recheck, Went, Stops, PassType
  <1>7. ASSUME NEW x \in Atts, Delete(p, x) PROVE Went(p)
    <2>1. pass'[p] = [pass[p] EXCEPT !.orphans = @ \ {x}, !.present = @ \ {x},
                        !.pc = IF pass[p].orphans = {x} THEN "settle" ELSE "delete"]
      BY <1>3, <1>7 DEF Delete
    <2> QED  BY <1>p, <1>7, <2>1 DEF Delete, Went, PassType
  <1>8. ASSUME License(p) \/ Settle(p) \/ Fail(p) PROVE pass'[p] = NoPass
    BY <1>3, <1>8 DEF License, Settle, Fail
  <1>9. ASSUME NEW q \in Passes \ {p},
               (\E dry \in BOOLEAN : Begin(q, dry)) \/ Step(q) \/ Fail(q)
        PROVE  pass'[p] = pass[p]
    BY <1>2, <1>9
       DEF Step, Begin, List, Judge, License, Recheck, Delete, Settle, Fail
  <1> QED
    BY <1>1, <1>4, <1>5, <1>6, <1>7, <1>8, <1>9
       DEF Next, Step, vars, Put, Add, Remove, DeleteBytes, Abandon, Save, Replace, Rewind, Load,
           ReplaceFails, Tick
-----------------------------------------------------------------------------
(* What only grows, and the instants of a pass. *)

LEMMA Monotone ==
    ASSUME TypeOK, [Next]_vars
    PROVE  /\ now <= now'
           /\ \A x \in Atts : minted[x] \in Nat => minted'[x] = minted[x]
           /\ listed \subseteq listed' /\ removed \subseteq removed'
  <1> USE DEF users, states
  <1>1. ASSUME NEW x \in Atts, Put(x)
        PROVE  now <= now' /\ \A y \in Atts : minted[y] \in Nat => minted'[y] = minted[y]
    BY <1>1, AttachmentSweepAssumption DEF Put, TypeOK
  <1>2. CASE Tick
    BY <1>2 DEF Tick, TypeOK
  <1>3. \/ \E x \in Atts : Put(x)
        \/ Tick
        \/ UNCHANGED <<now, minted>>
    BY DEF Next, Step, vars, Add, Remove, DeleteBytes, Abandon, Save, Replace, Rewind, Load,
           ReplaceFails, Begin, List, Judge, License, Recheck, Delete, Settle, Fail
  <1>4. now <= now' /\ \A x \in Atts : minted[x] \in Nat => minted'[x] = minted[x]
    BY <1>1, <1>2, <1>3 DEF TypeOK
  <1>5. listed \subseteq listed' /\ removed \subseteq removed'
    BY DEF Next, Step, vars, Put, Add, Remove, DeleteBytes, Abandon, Save, Replace, Rewind, Load,
           ReplaceFails, Begin, List, Judge, License, Recheck, Delete, Settle, Fail, Tick
  <1> QED  BY <1>4, <1>5

\* A pass took its instant from the clock, and has only ids minted by then.
Dated ==
    /\ \A x \in blobs : minted[x] \in Nat
    /\ \A p \in Passes :
          /\ pass[p].now <= now
          /\ \A x \in pass[p].todo \cup pass[p].orphans :
                minted[x] \in Nat /\ minted[x] <= pass[p].now

LEMMA DatedStep ==
    ASSUME TypeOK, TypeOK', Dated, [Next]_vars
    PROVE  Dated'
  <1> USE DEF users, states
  <1>1. \A x \in blobs' : minted'[x] \in Nat
    <2>1. ASSUME NEW y \in Atts, Put(y), NEW x \in blobs' PROVE minted'[x] \in Nat
      BY <2>1 DEF Put, TypeOK, Dated
    <2>2. (\E y \in Atts : Put(y)) \/ blobs' \subseteq blobs
      BY DEF Next, Step, vars, Add, Remove, DeleteBytes, Abandon, Save, Replace, Rewind, Load,
             ReplaceFails, Begin, List, Judge, License, Recheck, Delete, Settle, Fail, Tick
    <2> QED  BY <2>1, <2>2, Monotone DEF Dated, TypeOK
  <1>2. ASSUME NEW p \in Passes
        PROVE  /\ pass'[p].now <= now'
               /\ \A x \in pass'[p].todo \cup pass'[p].orphans :
                     minted'[x] \in Nat /\ minted'[x] <= pass'[p].now
    <2>p. /\ pass[p] \in PassType /\ pass'[p] \in PassType /\ now \in Nat /\ now' \in Nat
          /\ now <= now'
      BY Monotone DEF TypeOK
    <2>q. /\ pass[p].now \in Nat /\ pass[p].now <= now
          /\ \A x \in pass[p].todo \cup pass[p].orphans :
                x \in Atts /\ minted[x] \in Nat /\ minted[x] <= pass[p].now
      BY <2>p DEF Dated, PassType
    <2>1. CASE pass'[p] = pass[p]
      BY <2>1, <2>p, <2>q, Monotone
    <2>2. CASE pass'[p] = NoPass
      BY <2>2, <2>p DEF NoPass
    <2>3. CASE Judge(p)
      <3>1. PICK ids \in SUBSET Atts : Judged(p, ids)
        BY <2>3, JudgeIs
      <3>2. pass'[p].orphans \subseteq pass[p].orphans \cup pass[p].todo
        BY <3>1, CondemnableIs DEF Judged
      <3>3. pass'[p].now = pass[p].now /\ pass'[p].todo \subseteq pass[p].todo /\ minted' = minted
        BY <2>3, JudgeIs
      <3> QED  BY <3>2, <3>3, <2>p, <2>q
    <2>4. CASE Begun(p)
      BY <2>4, <2>p DEF Begun
    <2>5. CASE Listed(p)
      <3>1. \A x \in pass'[p].todo : x \in blobs /\ minted[x] + Grace <= pass[p].now
        BY <2>5 DEF Listed
      <3>2. \A x \in pass'[p].todo : minted[x] \in Nat /\ minted[x] <= pass[p].now
        BY <3>1, <2>q, AttachmentSweepAssumption DEF Dated
      <3> QED  BY <3>2, <2>5, <2>p, <2>q DEF Listed
    <2>6. CASE Went(p)
      BY <2>6, <2>p, <2>q DEF Went
    <2> QED  BY <2>1, <2>2, <2>3, <2>4, <2>5, <2>6, PassStep
  <1> QED  BY <1>1, <1>2 DEF Dated

-----------------------------------------------------------------------------
(* Tombstones and licences, in the scope and in what it can be put back to. *)

Whole(state, known, at) ==
    /\ \A x \in Atts : state.condemned[x] # None =>
          /\ x \notin state.rows /\ x \in known
          /\ at[x] \in Nat /\ at[x] <= state.condemned[x]
    /\ state.licence.ids \subseteq known

Sound ==
    /\ Whole(scope, listed, minted)
    /\ \A s \in Slots : saved[s] # None => Whole(saved[s], listed, minted)

\* What a destructive pass has, a dry run listed.
Known == \A p \in Passes : ~pass[p].dry => pass[p].orphans \subseteq listed

\* A state stays sound while more is listed and minted.
LEMMA WholeKept ==
    ASSUME TypeOK, [Next]_vars, NEW state, Whole(state, listed, minted)
    PROVE  Whole(state, listed', minted')
  BY Monotone DEF Whole

LEMMA SoundStep ==
    ASSUME TypeOK, TypeOK', Aimed, Dated, Sound, Known, [Next]_vars
    PROVE  Sound'
  <1> USE DEF users, states
  <1>a. /\ None \notin Nat
        /\ scope \in ScopeType /\ scope' \in ScopeType
        /\ scope.licence \in LicenceType
        /\ saved \in [Slots -> SavedType \cup {None}]
    BY AttachmentSweepAssumption DEF TypeOK, ScopeType
  <1>b. Whole(scope, listed', minted')
    BY WholeKept DEF Sound
  <1>c. \A s \in Slots : saved[s] # None => Whole(saved[s], listed', minted')
    BY WholeKept DEF Sound
  <1>1. \A s \in Slots : saved'[s] # None => Whole(saved'[s], listed', minted')
    <2>1. ASSUME NEW s \in Slots, Save(s), NEW t \in Slots, saved'[t] # None
          PROVE  Whole(saved'[t], listed', minted')
      <3>1. CASE t = s
        <4>1. saved'[t] = Saved(scope)
          BY <2>1, <3>1, <1>a DEF Save
        <4>2. Whole(Saved(scope), listed', minted')
          BY <1>b DEF Whole, Saved
        <4> QED  BY <4>1, <4>2
      <3>2. CASE t # s
        BY <2>1, <3>2, <1>a, <1>c DEF Save
      <3> QED  BY <3>1, <3>2
    <2>2. (\E s \in Slots : Save(s)) \/ saved' = saved
      BY DEF Next, Step, vars, Put, Add, Remove, DeleteBytes, Abandon, Replace, Rewind, Load,
             ReplaceFails, Begin, List, Judge, License, Recheck, Delete, Settle, Fail, Tick
    <2> QED  BY <2>1, <2>2, <1>c
  <1>2. Whole(scope', listed', minted')
    <2>1. CASE scope' = scope
      BY <2>1, <1>b
    <2>2. ASSUME NEW x \in Atts, Add(x) PROVE Whole(scope', listed', minted')
      <3>1. \/ scope' = scope
            \/ Admits(x) /\ scope' = [scope EXCEPT !.rows = @ \cup {x}]
        BY <2>2 DEF Add
      <3> QED  BY <3>1, <1>a, <1>b DEF Whole, Admits, ScopeType
    <2>3. ASSUME NEW x \in Atts, Remove(x) PROVE Whole(scope', listed', minted')
      BY <2>3, <1>a, <1>b DEF Remove, Whole, ScopeType
    <2>4. ASSUME Rewind \/ Load PROVE Whole(scope', listed', minted')
      <3>1. PICK s \in Slots : \E lic \in {saved[s].licence, NoLicence} :
              /\ saved[s] # None
              /\ scope' = [rows |-> saved[s].rows, condemned |-> saved[s].condemned,
                           licence |-> lic]
        BY <2>4, Landing
      <3>2. Whole(saved[s], listed', minted')
        BY <3>1, <1>c
      <3> QED  BY <3>1, <3>2 DEF Whole, NoLicence
    <2>5. ASSUME NEW p \in Passes, Judge(p) PROVE Whole(scope', listed', minted')
      <3>1. PICK ids \in SUBSET Atts : Judged(p, ids)
        BY <2>5, JudgeIs
      <3> DEFINE gone == Condemnable(p, ids)
      <3>2. /\ gone \in SUBSET Atts /\ gone \subseteq pass[p].todo
            /\ gone \cap scope.rows = {} /\ gone \subseteq scope.licence.ids
        BY <3>1, CondemnableIs DEF Judged
      <3>3. \A x \in gone : minted[x] \in Nat /\ minted[x] <= pass[p].now /\ x \in listed
        BY <3>2 DEF Dated, Sound, Whole
      <3>4. CASE pass[p].dry
        BY <3>1, <3>4, <1>b DEF Judged
      <3>5. CASE ~pass[p].dry
        <4> HIDE DEF gone
        <4>1. scope' = [scope EXCEPT !.condemned = Condemned(p, gone)]
          BY <3>1, <3>5 DEF Judged, gone
        <4>2. /\ scope'.rows = scope.rows /\ scope'.licence = scope.licence
              /\ scope'.condemned = Condemned(p, gone)
          BY <4>1, <1>a DEF ScopeType
        <4>3. \A x \in Atts : Condemned(p, gone)[x] # None =>
                \/ x \in gone /\ Condemned(p, gone)[x] = pass[p].now
                \/ Condemned(p, gone)[x] = scope.condemned[x]
          BY DEF Condemned
        <4>4. minted' = minted /\ listed' = listed
          BY <2>5, JudgeIs
        <4> QED  BY <3>2, <3>3, <4>2, <4>3, <4>4, <1>b DEF Whole
      <3> QED  BY <3>4, <3>5
    <2>6. ASSUME NEW p \in Passes, License(p) PROVE Whole(scope', listed', minted')
      <3>1. pass[p].orphans \subseteq listed'
        BY <2>6 DEF License
      <3>2. \/ scope' = scope
            \/ scope' = [scope EXCEPT !.licence = NoLicence]
            \/ scope' = [scope EXCEPT !.licence = [ids |-> pass[p].orphans, at |-> pass[p].now]]
        BY <2>6 DEF License
      <3>3. /\ scope'.rows = scope.rows /\ scope'.condemned = scope.condemned
            /\ scope'.licence.ids \in {scope.licence.ids, {}, pass[p].orphans}
        BY <3>2, <1>a DEF ScopeType, NoLicence
      <3> QED  BY <3>1, <3>3, <1>b DEF Whole
    <2>7. ASSUME NEW p \in Passes, Settle(p) PROVE Whole(scope', listed', minted')
      <3> DEFINE kept == scope.licence.ids \cap pass[p].present
      <3>1. /\ scope'.rows = scope.rows /\ scope'.condemned = scope.condemned
            /\ scope'.licence = IF kept = {} THEN NoLicence
                                ELSE [ids |-> kept, at |-> scope.licence.at]
        BY <2>7, <1>a DEF Settle, ScopeType
      <3>2. scope'.licence.ids \subseteq scope.licence.ids
        BY <3>1 DEF NoLicence
      <3> QED  BY <3>1, <3>2, <1>b DEF Whole
    <2> QED
      BY <2>1, <2>2, <2>3, <2>4, <2>5, <2>6, <2>7
         DEF Next, Step, vars, Put, DeleteBytes, Abandon, Save, Replace, ReplaceFails, Begin, List,
             Recheck, Delete, Fail, Tick
  <1> QED  BY <1>1, <1>2 DEF Sound

LEMMA KnownStep ==
    ASSUME TypeOK, TypeOK', Sound, Known, [Next]_vars
    PROVE  Known'
  <1> SUFFICES ASSUME NEW p \in Passes, ~pass'[p].dry
               PROVE  pass'[p].orphans \subseteq listed'
    BY DEF Known
  <1>m. listed \subseteq listed'
    BY Monotone
  <1>1. CASE pass'[p] \in {pass[p], NoPass}
    BY <1>1, <1>m DEF Known, NoPass
  <1>2. CASE Judge(p)
    <2>1. PICK ids \in SUBSET Atts : Judged(p, ids)
      BY <1>2, JudgeIs
    <2>2. ~pass[p].dry
      BY <1>2, JudgeIs
    <2>3. Condemnable(p, ids) \subseteq listed
      BY <2>1, CondemnableIs DEF Sound, Whole
    <2> QED  BY <2>1, <2>2, <2>3, <1>m DEF Judged, Known
  <1>3. CASE Begun(p) \/ Listed(p)
    BY <1>3 DEF Begun, Listed
  <1>4. CASE Went(p)
    BY <1>4, <1>m DEF Went, Known
  <1> QED  BY <1>1, <1>2, <1>3, <1>4, PassStep
-----------------------------------------------------------------------------
(* Instants, and where the rows are. *)

\* Fences and saved states are of the past, and an upload and a replacement are in time.
Clocked ==
    /\ fence # None => fence <= now
    /\ replacer # NoReplacement => fence # None /\ now <= fence + Arming
    /\ \A s \in Slots : saved[s] # None => saved[s].at <= now
    /\ \A x \in Atts : upload[x] = "adding" => minted[x] \in Nat /\ now <= minted[x] + Slow

LEMMA ClockedStep ==
    ASSUME TypeOK, TypeOK', Clocked, [Next]_vars
    PROVE  Clocked'
  <1> USE DEF users, states
  <1>a. /\ now \in Nat /\ None \notin Nat /\ fence \in Nat \cup {None}
        /\ Arming \in Nat /\ Slow \in Nat
        /\ \A s \in Slots : saved[s] # None => saved[s].at \in Nat
    BY AttachmentSweepAssumption DEF TypeOK, Instants, SavedType
  <1>1. CASE UNCHANGED <<now, fence, replacer, saved, upload, minted>>
    BY <1>1 DEF Clocked
  <1>2. ASSUME NEW x \in Atts, Put(x) PROVE Clocked'
    BY <1>2, <1>a DEF Put, Clocked, TypeOK
  <1>3. ASSUME NEW x \in Atts, Add(x) \/ Remove(x) \/ DeleteBytes(x) \/ Abandon(x)
        PROVE  Clocked'
    BY <1>3 DEF Add, Remove, DeleteBytes, Abandon, Clocked, TypeOK
  <1>4. ASSUME NEW s \in Slots, Save(s) PROVE Clocked'
    <2>1. Saved(scope).at = now
      BY DEF Saved
    <2> QED  BY <1>4, <1>a, <2>1 DEF Save, Clocked, TypeOK
  <1>5. ASSUME NEW s \in Slots, NEW kind \in {"rewind", "load"}, Replace(kind, s) PROVE Clocked'
    BY <1>5, <1>a DEF Replace, Clocked
  <1>6. CASE Rewind \/ Load \/ ReplaceFails
    BY <1>6 DEF Rewind, Load, ReplaceFails, Clocked
  <1>7. CASE Tick
    <2>1. now' = now + 1 /\ UNCHANGED <<fence, replacer, saved, upload, minted>>
      BY <1>7 DEF Tick
    <2>2. \A x \in Atts : upload[x] = "adding" => minted[x] \in Nat /\ now < minted[x] + Slow
      BY <1>7 DEF Tick, Clocked
    <2>3. replacer # NoReplacement => fence # None /\ now < fence + Arming
      BY <1>7 DEF Tick, Clocked
    <2> QED  BY <2>1, <2>2, <2>3, <1>a DEF Clocked
  <1> QED
    BY <1>1, <1>2, <1>3, <1>4, <1>5, <1>6, <1>7
       DEF Next, Step, vars, Begin, List, Judge, License, Recheck, Delete, Settle, Fail

\* An id has no row anywhere before its upload adds one, and a saved row that is not in the
\* scope was removed, or was saved before the last fence's replacement landed.
Placed ==
    /\ \A x \in Atts : upload[x] \in {"adding", "refused"} \/ minted[x] = None =>
          /\ x \notin scope.rows
          /\ \A s \in Slots : saved[s] # None => x \notin saved[s].rows
    /\ \A x \in Atts : upload[x] = "removed" => x \in removed
    /\ \A s \in Slots : saved[s] # None => \A x \in saved[s].rows :
          x \in scope.rows \/ x \in removed \/ (fence # None /\ saved[s].at <= fence + Arming)

LEMMA PlacedStep ==
    ASSUME TypeOK, TypeOK', Aimed, Clocked, Placed, [Next]_vars
    PROVE  Placed'
  <1> USE DEF users, states
  <1>a. /\ now \in Nat /\ None \notin Nat /\ fence \in Nat \cup {None} /\ Arming \in Nat
        /\ \A s \in Slots : saved[s] # None => saved[s].at \in Nat /\ saved[s].rows \in SUBSET Atts
        /\ scope \in ScopeType
    BY AttachmentSweepAssumption DEF TypeOK, Instants, SavedType
  <1>1. CASE UNCHANGED <<fence, saved, upload, minted, removed>> /\ scope'.rows = scope.rows
    BY <1>1 DEF Placed
  <1>2. ASSUME NEW x \in Atts, Put(x) PROVE Placed'
    BY <1>2, <1>a DEF Put, Placed, TypeOK
  <1>3. ASSUME NEW x \in Atts, Add(x) PROVE Placed'
    <2>1. minted[x] \in Nat /\ upload[x] = "adding"
      BY <1>3 DEF Add, Clocked
    <2>2. CASE scope' = scope /\ upload' = [upload EXCEPT ![x] = "refused"]
      BY <1>3, <2>1, <2>2 DEF Add, Placed, TypeOK
    <2>3. CASE /\ scope' = [scope EXCEPT !.rows = @ \cup {x}]
               /\ upload' = [upload EXCEPT ![x] = "over"]
      <3>1. scope'.rows = scope.rows \cup {x}
        BY <2>3, <1>a DEF ScopeType
      <3>2. UNCHANGED <<fence, saved, minted, removed>>
        BY <1>3 DEF Add
      <3> QED  BY <2>1, <2>3, <3>1, <3>2, <1>a DEF Placed, TypeOK
    <2> QED  BY <1>3, <2>2, <2>3 DEF Add
  <1>4. ASSUME NEW x \in Atts, Remove(x) PROVE Placed'
    <2>1. scope'.rows = scope.rows \ {x}
      BY <1>4, <1>a DEF Remove, ScopeType
    <2> QED  BY <1>4, <2>1, <1>a DEF Remove, Placed, TypeOK
  <1>5. ASSUME NEW x \in Atts, DeleteBytes(x) \/ Abandon(x) PROVE Placed'
    BY <1>5, <1>a DEF DeleteBytes, Abandon, Placed, TypeOK
  <1>6. ASSUME NEW s \in Slots, Save(s) PROVE Placed'
    <2>1. Saved(scope).rows = scope.rows
      BY DEF Saved
    <2> QED  BY <1>6, <2>1 DEF Save, Placed, TypeOK
  <1>7. ASSUME NEW s \in Slots, NEW kind \in {"rewind", "load"}, Replace(kind, s) PROVE Placed'
    <2>1. fence' = now /\ UNCHANGED <<scope, saved, upload, minted, removed>>
      BY <1>7 DEF Replace
    <2>2. \A t \in Slots : saved[t] # None => saved[t].at <= now + Arming
      BY <1>a DEF Clocked
    <2> QED  BY <2>1, <2>2, <1>a DEF Placed
  <1>8. ASSUME Rewind \/ Load PROVE Placed'
    <2>1. UNCHANGED <<fence, saved, upload, minted, removed>>
      BY <1>8 DEF Rewind, Load
    <2>2. PICK s \in Slots : saved[s] # None /\ scope'.rows = saved[s].rows
      BY <1>8, Landing
    <2>3. fence # None /\ \A t \in Slots : saved[t] # None => saved[t].at <= fence + Arming
      BY <1>8, <1>a, Landing DEF Clocked
    <2> QED  BY <2>1, <2>2, <2>3 DEF Placed
  <1>9. ASSUME NEW p \in Passes, Judge(p) \/ License(p) \/ Settle(p)
        PROVE  scope'.rows = scope.rows
    <2>1. CASE Judge(p)
      BY <2>1, <1>a, JudgeIs DEF Judged, ScopeType
    <2>2. CASE License(p)
      BY <2>2, <1>a DEF License, ScopeType
    <2>3. CASE Settle(p)
      BY <2>3, <1>a DEF Settle, ScopeType
    <2> QED  BY <1>9, <2>1, <2>2, <2>3
  <1> QED
    BY <1>1, <1>2, <1>3, <1>4, <1>5, <1>6, <1>7, <1>8, <1>9
       DEF Next, Step, vars, ReplaceFails, Begin, List, Judge, License, Recheck, Delete, Settle,
           Fail, Tick
-----------------------------------------------------------------------------
(* What a pass is about to delete. *)

Condemning(p) == pass[p].pc \in {"recheck", "delete"} \/ (pass[p].pc = "judge" /\ ~pass[p].dry)

\* While no fence holds a pass, no replacement is on its way and what it condemned has no row and
\* gets none; and no fence holds one that deletes and was not overtaken.
Doomed ==
    /\ \A p \in Passes : ~Fenced(pass[p].now) => replacer = NoReplacement
    /\ \A p \in Passes : Condemning(p) /\ ~Fenced(pass[p].now) =>
          \A x \in pass[p].orphans :
             x \notin scope.rows /\ (upload[x] = "adding" => scope.condemned[x] # None)
    /\ \A p \in Passes : pass[p].pc = "delete" /\ p \notin overtaken => ~Fenced(pass[p].now)

\* A tombstone outlives the upload it refuses.
LEMMA TombstoneStays ==
    ASSUME TypeOK, Dated, Sound, Clocked, NEW p \in Passes, NEW ids \in SUBSET Atts,
           NEW x \in Atts, upload[x] = "adding", scope.condemned[x] # None
    PROVE  Condemned(p, ids)[x] # None
  <1>1. /\ minted[x] \in Nat /\ now \in Nat /\ pass[p].now \in Nat
        /\ Retention \in Nat /\ Slow \in Nat /\ Slow <= Retention /\ None \notin Nat
        /\ scope.condemned[x] \in Nat
    BY AttachmentSweepAssumption DEF TypeOK, PassType, ScopeType, Clocked, Instants
  <1>2. now <= minted[x] + Slow /\ pass[p].now <= now /\ minted[x] <= scope.condemned[x]
    BY DEF Clocked, Dated, Sound, Whole
  <1>3. ~(scope.condemned[x] + Retention < pass[p].now)
    BY <1>1, <1>2
  <1> QED  BY <1>1, <1>3 DEF Condemned

LEMMA DoomedStep ==
    ASSUME TypeOK, TypeOK', Aimed, Dated, Sound, Clocked, Doomed, [Next]_vars
    PROVE  Doomed'
  <1> USE DEF users, states
  <1>a. /\ now \in Nat /\ None \notin Nat /\ fence \in Nat \cup {None} /\ Arming \in Nat
        /\ FenceFor \in Nat /\ Reach \in Nat /\ Reach + Arming < FenceFor
        /\ scope \in ScopeType
        /\ \A p \in Passes : /\ pass[p] \in PassType /\ pass[p].now \in Nat
                              /\ pass[p].now <= now
    BY AttachmentSweepAssumption DEF TypeOK, Instants, PassType, Dated
  <1>b. \/ \E s \in Slots : \E kind \in {"rewind", "load"} : Replace(kind, s)
        \/ fence' = fence /\ replacer' \in {replacer, NoReplacement}
    BY DEF Next, Step, vars, Put, Add, Remove, DeleteBytes, Abandon, Save, Rewind, Load,
           ReplaceFails, Begin, List, Judge, License, Recheck, Delete, Settle, Fail, Tick
  <1>c. ASSUME NEW s \in Slots, NEW kind \in {"rewind", "load"}, Replace(kind, s), NEW p \in Passes
        PROVE  pass'[p] = pass[p] /\ Fenced(pass[p].now)'
    <2>1. pass' = pass /\ fence' = now
      BY <1>c DEF Replace
    <2> QED  BY <2>1, <1>a DEF Fenced
  <1>1. ASSUME NEW p \in Passes, ~Fenced(pass[p].now)' PROVE replacer' = NoReplacement
    <2>1. CASE \E s \in Slots : \E kind \in {"rewind", "load"} : Replace(kind, s)
      BY <1>1, <1>c, <2>1
    <2>2. CASE fence' = fence /\ replacer' \in {replacer, NoReplacement}
      <3>1. CASE pass'[p].now = pass[p].now
        BY <1>1, <2>2, <3>1 DEF Fenced, Doomed
      <3>2. CASE pass'[p] = NoPass
        <4>1. fence = None
          BY <1>1, <1>a, <2>2, <3>2 DEF Fenced, NoPass
        <4> QED  BY <2>2, <4>1 DEF Clocked
      <3>3. CASE Begun(p)
        <4>1. ~Fenced(now)
          BY <3>3 DEF Begun
        <4>2. replacer = NoReplacement
          BY <4>1, <1>a DEF Fenced, Clocked
        <4> QED  BY <2>2, <4>2
      <3> QED  BY <3>1, <3>2, <3>3, PassStep, JudgeIs DEF Listed, Went
    <2> QED  BY <2>1, <2>2, <1>b
  <1>2. ASSUME NEW p \in Passes, Condemning(p)', ~Fenced(pass[p].now)', NEW x \in pass'[p].orphans
        PROVE  x \notin scope'.rows /\ (upload'[x] = "adding" => scope'.condemned[x] # None)
    <2>x. x \in Atts
      BY DEF TypeOK, PassType
    <2>f. fence' = fence
      BY <1>2, <1>b, <1>c
    <2>1. CASE pass'[p] = pass[p]
      <3>1. Condemning(p) /\ ~Fenced(pass[p].now) /\ x \in pass[p].orphans
        BY <1>2, <2>1, <2>f DEF Condemning, Fenced
      <3>2. /\ x \notin scope.rows /\ (upload[x] = "adding" => scope.condemned[x] # None)
            /\ replacer = NoReplacement /\ minted[x] \in Nat
        BY <3>1 DEF Doomed, Dated
      <3>3. ASSUME NEW y \in Atts, Add(y)
            PROVE  x \notin scope'.rows /\ (upload'[x] = "adding" => scope'.condemned[x] # None)
        <4>1. CASE scope' = scope /\ upload' = [upload EXCEPT ![y] = "refused"]
          BY <3>2, <4>1 DEF TypeOK
        <4>2. CASE /\ Admits(y) /\ scope' = [scope EXCEPT !.rows = @ \cup {y}]
                   /\ upload' = [upload EXCEPT ![y] = "over"]
          <5>1. x # y
            BY <3>2, <3>3, <4>2 DEF Add, Admits
          <5> QED  BY <3>2, <4>2, <5>1, <1>a DEF TypeOK, ScopeType
        <4> QED  BY <3>3, <4>1, <4>2 DEF Add
      <3>4. ASSUME NEW q \in Passes, Judge(q)
            PROVE  x \notin scope'.rows /\ (upload'[x] = "adding" => scope'.condemned[x] # None)
        <4>1. PICK ids \in SUBSET Atts : Judged(q, ids)
          BY <3>4, JudgeIs
        <4>2. upload' = upload
          BY <3>4, JudgeIs
        <4>3. Condemnable(q, ids) \in SUBSET Atts
          BY CondemnableIs
        <4>4. upload[x] = "adding" => Condemned(q, Condemnable(q, ids))[x] # None
          BY <2>x, <3>2, <4>3, TombstoneStays
        <4> QED  BY <3>2, <4>1, <4>2, <4>4, <1>a DEF Judged, ScopeType
      <3>5. ~Rewind /\ ~Load
        BY <3>2, Landing
      <3>6. \/ \E y \in Atts : Add(y)
            \/ \E q \in Passes : Judge(q)
            \/ /\ scope'.rows \subseteq scope.rows /\ scope'.condemned = scope.condemned
               /\ upload'[x] = "adding" => upload[x] = "adding"
        <4>1. ASSUME NEW y \in Atts, Put(y) \/ Remove(y) \/ DeleteBytes(y) \/ Abandon(y)
              PROVE  /\ scope'.rows \subseteq scope.rows /\ scope'.condemned = scope.condemned
                     /\ upload'[x] = "adding" => upload[x] = "adding"
          <5>1. CASE Put(y)
            BY <2>x, <3>2, <5>1, <1>a DEF Put, TypeOK
          <5>2. CASE Remove(y)
            BY <2>x, <5>2, <1>a DEF Remove, TypeOK, ScopeType
          <5>3. CASE DeleteBytes(y) \/ Abandon(y)
            BY <2>x, <5>3 DEF DeleteBytes, Abandon, TypeOK
          <5> QED  BY <4>1, <5>1, <5>2, <5>3
        <4>2. ASSUME NEW q \in Passes, License(q) \/ Settle(q)
              PROVE  /\ scope'.rows \subseteq scope.rows /\ scope'.condemned = scope.condemned
                     /\ upload' = upload
          <5>1. CASE License(q)
            BY <5>1, <1>a DEF License, ScopeType
          <5>2. CASE Settle(q)
            BY <5>2, <1>a DEF Settle, ScopeType
          <5> QED  BY <4>2, <5>1, <5>2
        <4> QED
          BY <3>5, <4>1, <4>2
             DEF Next, Step, vars, Save, Replace, ReplaceFails, Begin, List, Recheck, Delete, Fail,
                 Tick
      <3> QED  BY <3>2, <3>3, <3>4, <3>6
    <2>2. CASE pass'[p] = NoPass \/ Begun(p) \/ Listed(p)
      BY <1>2, <2>2 DEF Condemning, NoPass, Begun, Listed
    <2>3. CASE Judge(p)
      <3>1. PICK ids \in SUBSET Atts : Judged(p, ids)
        BY <2>3, JudgeIs
      <3>2. /\ pass'[p].now = pass[p].now /\ pass'[p].dry = pass[p].dry /\ upload' = upload
            /\ pass[p].pc = "judge"
        BY <2>3, JudgeIs DEF Judge
      <3>3. ~pass[p].dry
        BY <1>2, <3>1, <3>2 DEF Condemning, Judged
      <3>4. Condemning(p) /\ ~Fenced(pass[p].now)
        BY <1>2, <2>f, <3>2, <3>3 DEF Condemning, Fenced
      <3>5. /\ scope'.rows = scope.rows
            /\ scope'.condemned = Condemned(p, Condemnable(p, ids))
            /\ x \in pass[p].orphans \/ x \in Condemnable(p, ids)
        BY <3>1, <3>3, <1>a DEF Judged, ScopeType
      <3>6. Condemnable(p, ids) \in SUBSET Atts /\ Condemnable(p, ids) \cap scope.rows = {}
        BY CondemnableIs
      <3>7. CASE x \in Condemnable(p, ids)
        BY <2>x, <3>5, <3>6, <3>7, <1>a DEF Condemned
      <3>8. CASE x \in pass[p].orphans
        BY <2>x, <3>2, <3>4, <3>5, <3>6, <3>8, TombstoneStays DEF Doomed
      <3> QED  BY <3>5, <3>7, <3>8
    <2>4. CASE Went(p)
      BY <1>2, <2>4, <2>f DEF Went, Condemning, Fenced, Doomed
    <2> QED  BY <2>1, <2>2, <2>3, <2>4, PassStep
  <1>3. ASSUME NEW p \in Passes, pass'[p].pc = "delete", p \notin overtaken'
        PROVE  ~Fenced(pass[p].now)'
    <2>1. ASSUME NEW s \in Slots, NEW kind \in {"rewind", "load"}, Replace(kind, s) PROVE FALSE
      <3>1. pass' = pass /\ p \notin Deleting
        BY <1>3, <2>1 DEF Replace
      <3> QED  BY <1>3, <3>1 DEF Deleting
    <2>2. fence' = fence
      BY <2>1, <1>b
    <2>o. p \notin overtaken \/ pass[p].pc = "recheck"
      BY <1>3, <2>1
         DEF Next, Step, vars, Put, Add, Remove, DeleteBytes, Abandon, Save, Rewind, Load,
             ReplaceFails, Begin, List, Judge, License, Recheck, Delete, Settle, Fail, Tick
    <2>3. CASE pass'[p] = pass[p]
      BY <1>3, <2>2, <2>3, <2>o DEF Doomed, Fenced
    <2>4. CASE Went(p)
      BY <1>3, <2>2, <2>4, <2>o DEF Went, Doomed, Fenced
    <2>5. CASE Judge(p)
      BY <1>3, <2>5, JudgeIs DEF Judged
    <2>6. CASE pass'[p] = NoPass \/ Begun(p) \/ Listed(p)
      BY <1>3, <2>6 DEF NoPass, Begun, Listed
    <2> QED  BY <2>3, <2>4, <2>5, <2>6, PassStep
  <1> QED  BY <1>1, <1>2, <1>3 DEF Doomed

-----------------------------------------------------------------------------
(* The theorems. *)

IInv == TypeOK /\ Aimed /\ Dated /\ Sound /\ Known /\ Clocked /\ Placed /\ Doomed

LEMMA InitInv == Init => IInv
  <1> SUFFICES ASSUME Init PROVE IInv
    OBVIOUS
  <1>t. TypeOK
    BY InitType
  <1>a. /\ None \notin Nat /\ FenceFor \in Nat /\ Arming \in Nat
        /\ now = 0 /\ fence = None /\ replacer = NoReplacement /\ blobs = {} /\ scope = NoScope
        /\ \A p \in Passes : pass[p] = NoPass
        /\ \A x \in Atts : upload[x] = "over" /\ minted[x] = None
        /\ \A s \in Slots : saved[s] = None
    BY AttachmentSweepAssumption DEF Init
  <1>b. /\ NoScope.rows = {} /\ NoScope.licence.ids = {}
        /\ NoScope.condemned = [x \in Atts |-> None]
    BY DEF NoScope, NoLicence
  <1>1. Aimed
    BY <1>a DEF Aimed
  <1>2. Dated
    BY <1>a DEF Dated, NoPass
  <1>3. Sound
    BY <1>a, <1>b DEF Sound, Whole
  <1>4. Known
    BY <1>a DEF Known, NoPass
  <1>5. Clocked
    BY <1>a, <1>b DEF Clocked
  <1>6. Placed
    BY <1>a, <1>b DEF Placed
  <1>7. Doomed
    BY <1>a DEF Doomed, Condemning, NoPass
  <1> QED  BY <1>t, <1>1, <1>2, <1>3, <1>4, <1>5, <1>6, <1>7 DEF IInv

LEMMA StepInv == IInv /\ [Next]_vars => IInv'
  BY TypeStep, AimedStep, DatedStep, SoundStep, KnownStep, ClockedStep, PlacedStep, DoomedStep
     DEF IInv

\* The inductive invariant: every part of it is needed by another.
LEMMA Inductive == Spec => []IInv
  BY InitInv, StepInv, PTL DEF Spec

\* Every variable of the sweep, of the uploads beside it and of the replacements keeps its type.
THEOREM TypeCorrect == Spec => []TypeOK
  <1>1. IInv => TypeOK
    BY DEF IInv
  <1> QED  BY <1>1, Inductive, PTL

\* No id has both a row and a tombstone, however uploads, condemnations, rewinds and dump loads
\* follow each other (refuseCondemnedAttachment, condemnOrphanAttachments).
THEOREM NeverBoth == Spec => []RowOrTombstone
  <1>1. IInv => RowOrTombstone
    BY DEF IInv, Sound, Whole, RowOrTombstone, TypeOK, ScopeType
  <1> QED  BY <1>1, Inductive, PTL

\* What a destructive pass holds, and what is condemned, a dry run listed, whatever licences
\* rewinds brought back (condemnLicensedOrphanAttachments).
THEOREM DryRunFirst == Spec => []OnlyListed
  <1>1. IInv => OnlyListed
    BY DEF IInv, Sound, Whole, Known, OnlyListed
  <1> QED  BY <1>1, Inductive, PTL

\* No step takes bytes that a row needs or that a rewind could bring a row back for, whatever
\* the grace and however slow the clock's actors are within their limits, as long as no rewind or
\* load begins between a pass's second look at the fence and its last delete
\* (sweepOrphanAttachments).
THEOREM BytesAreSafe == Spec => NeededBytesStay
  <1> DEFINE Kept ==
        \A x \in blobs \ blobs' :
          \/ x \in removed
          \/ \E p \in overtaken : Delete(p, x)
          \/ /\ x \notin scope.rows
             /\ \A s \in Slots : Restorable(s) => x \notin saved[s].rows
  <1>1. IInv /\ [Next]_vars => [Kept]_vars
    <2> SUFFICES ASSUME IInv, [Next]_vars, NEW x \in blobs \ blobs', x \notin removed,
                        ~\E p \in overtaken : Delete(p, x)
                 PROVE  /\ x \notin scope.rows
                        /\ \A s \in Slots : Restorable(s) => x \notin saved[s].rows
      OBVIOUS
    <2> USE DEF users, states
    <2>i. /\ TypeOK /\ Dated /\ Clocked /\ Placed /\ Doomed /\ x \in Atts
      BY DEF IInv, TypeOK
    <2>1. CASE DeleteBytes(x)
      BY <2>1, <2>i DEF DeleteBytes, Placed, Restorable
    <2>2. ASSUME NEW p \in Passes, Delete(p, x)
          PROVE  /\ x \notin scope.rows
                 /\ \A s \in Slots : Restorable(s) => x \notin saved[s].rows
      <3>1. pass[p].pc = "delete" /\ x \in pass[p].orphans /\ p \notin overtaken
        BY <2>2 DEF Delete
      <3>2. ~Fenced(pass[p].now)
        BY <2>i, <3>1 DEF Doomed
      <3>3. x \notin scope.rows
        BY <2>i, <3>1, <3>2 DEF Doomed, Condemning
      <3>4. ASSUME NEW s \in Slots, Restorable(s), x \in saved[s].rows PROVE FALSE
        <4>1. saved[s] # None /\ now <= saved[s].at + Reach
          BY <3>4 DEF Restorable
        <4>2. fence # None /\ saved[s].at <= fence + Arming
          BY <2>i, <3>3, <3>4, <4>1 DEF Placed
        <4>3. /\ fence \in Nat /\ now \in Nat /\ saved[s].at \in Nat /\ pass[p].now \in Nat
              /\ pass[p].now <= now
          BY <2>i, <4>1, <4>2 DEF TypeOK, Instants, SavedType, PassType, Dated
        <4>4. ~(pass[p].now < fence + FenceFor)
          BY <3>2, <4>2 DEF Fenced
        <4> QED  BY <4>1, <4>2, <4>3, <4>4, AttachmentSweepAssumption
      <3> QED  BY <3>3, <3>4
    <2>3. \/ DeleteBytes(x)
          \/ \E p \in Passes : Delete(p, x)
          \/ blobs \subseteq blobs'
      BY DEF Next, Step, vars, Put, Add, Remove, DeleteBytes, Abandon, Save, Replace, Rewind, Load,
             ReplaceFails, Begin, List, Judge, License, Recheck, Delete, Settle, Fail, Tick
    <2> QED  BY <2>1, <2>2, <2>3
  <1>2. []IInv /\ [][Next]_vars => [][Kept]_vars
    BY <1>1, PTL
  <1> QED  BY <1>2, Inductive, PTL DEF Spec, NeededBytesStay
===============================================================================
