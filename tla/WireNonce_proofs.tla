-------------------------- MODULE WireNonce_proofs --------------------------
(***************************************************************************)
(* Proofs about the wire nonce store, for every cap, purge batch, set of   *)
(* nonces and stretch of time.                                             *)
(***************************************************************************)
EXTENDS WireNonce, FiniteSetTheorems, TLAPS

(* What makes one acceptance the last: an accepted envelope is held until  *)
(* it is too late to accept it.                                            *)
AcceptedIsHeld ==
  \A e \in Envelope : /\ accepted[e] <= 1
                      /\ accepted[e] = 1 => e \in rows \/ e.until < now

Inv == TypeOK /\ IsFiniteSet(rows) /\ CountIsRows /\ AcceptedIsHeld

LEMMA EnvelopeTimes == ASSUME NEW e \in Envelope PROVE e.until \in Nat
BY WireNonceAssumption DEF Envelope

(* A purge takes rows of the store, each of them expired; one that takes   *)
(* nothing had nothing to take.                                            *)
LEMMA PurgedExpired ==
  ASSUME NEW p \in Purges
  PROVE  /\ p \in SUBSET rows
         /\ \A e \in p : e.until < now
         /\ Cardinality(p) = 0 => \A e \in rows : e.until < now => e \in p
<1>1. p \in SUBSET {e \in rows : Expired(e)}
  BY DEF Purges
<1>2. p = {e \in rows : Expired(e)} \/ Cardinality(p) = Batch
  BY DEF Purges
<1>3. Batch # 0
  BY WireNonceAssumption
<1> QED BY <1>1, <1>2, <1>3 DEF Expired

(* The count after the purge is the number of rows it left.                *)
LEMMA CountAfterPurge ==
  ASSUME Inv, NEW p \in Purges
  PROVE  /\ IsFiniteSet(rows \ p)
         /\ IsFiniteSet(p)
         /\ Cardinality(p) \in Nat
         /\ Cardinality(rows \ p) \in Nat
         /\ AtLeastZero(live - Cardinality(p)) = Cardinality(rows \ p)
         /\ Cardinality(rows \ p) = live - Cardinality(p)
<1>1. p \in SUBSET rows /\ IsFiniteSet(rows)
  BY PurgedExpired DEF Inv
<1>2. IsFiniteSet(p) /\ IsFiniteSet(rows \ p)
  BY <1>1, FS_Subset
<1>3. Cardinality(p) \in Nat /\ Cardinality(rows \ p) \in Nat /\ live \in Nat
  BY <1>2, FS_CardinalityType, WireNonceAssumption DEF Inv, TypeOK
<1>4. Cardinality(rows \ p) = Cardinality(rows) - Cardinality(p)
  <2>1. rows \cap p = p
    BY <1>1
  <2> QED BY <1>1, <2>1, FS_Difference
<1>5. Cardinality(rows \ p) = live - Cardinality(p)
  BY <1>4 DEF Inv, CountIsRows
<1> QED BY <1>2, <1>3, <1>5 DEF AtLeastZero

(* What the three answers mean, for the count after the purge.             *)
LEMMA AnswerMeans ==
  ASSUME NEW e \in Envelope, NEW kept, NEW count \in Nat, now \in Nat
  PROVE  LET a == Answer(e, kept, count)
         IN  /\ a \in {"true", "false", "full"}
             /\ a = "true" => /\ ~(e.until < now)
                              /\ count < Cap
                              /\ \A r \in kept : r.nonce # e.nonce
             /\ a = "full" => count >= Cap
BY EnvelopeTimes, WireNonceAssumption DEF Answer, Held

LEMMA ClaimKeeps ==
  ASSUME Inv, NEW e \in Envelope, NEW p \in Purges, ClaimWireNonceIn(e, p)
  PROVE  Inv'
<1> DEFINE kept == rows \ p
           count == AtLeastZero(live - Cardinality(p))
           a == Answer(e, kept, count)
<1>1. /\ count \in Nat /\ count = Cardinality(kept) /\ IsFiniteSet(kept)
      /\ count <= live /\ live <= Cap /\ Cap \in Nat
  BY CountAfterPurge, WireNonceAssumption DEF Inv, TypeOK
<1>2. now \in Nat /\ now' = now
  BY WireNonceAssumption DEF Inv, TypeOK, ClaimWireNonceIn
<1>3. kept \subseteq rows /\ rows \subseteq Envelope /\ \A r \in rows \ kept : r.until < now
  BY PurgedExpired DEF Inv, TypeOK
<1>4. /\ answer' = a
      /\ rows' = IF a = "true" THEN kept \cup {e} ELSE kept
      /\ live' = IF a = "true" THEN count + 1 ELSE count
      /\ accepted' = IF a = "true" THEN [accepted EXCEPT ![e] = accepted[e] + 1] ELSE accepted
  BY DEF ClaimWireNonceIn
<1>5. accepted \in [Envelope -> Nat] /\ AcceptedIsHeld
  BY DEF Inv, TypeOK
<1> HIDE DEF kept, count
<1>6. /\ a \in {"true", "false", "full"}
      /\ a = "true" => ~(e.until < now) /\ count < Cap /\ e \notin kept
  BY <1>1, <1>2, AnswerMeans
<1> HIDE DEF a
<1>7. CASE a = "true"
  <2>1. e \notin rows
    BY <1>3, <1>6, <1>7
  <2>2. accepted[e] = 0
    BY <1>5, <1>6, <1>7, <2>1 DEF AcceptedIsHeld
  <2>3. IsFiniteSet(rows') /\ Cardinality(rows') = live'
    BY <1>1, <1>4, <1>6, <1>7, FS_AddElement
  <2>4. /\ rows' \subseteq Envelope
        /\ live' \in 0..Cap
        /\ accepted' \in [Envelope -> Nat]
    BY <1>1, <1>3, <1>4, <1>5, <1>6, <1>7, <2>2
  <2>5. AcceptedIsHeld'
    <3> SUFFICES ASSUME NEW f \in Envelope
                 PROVE  /\ accepted'[f] <= 1
                        /\ accepted'[f] = 1 => f \in rows' \/ f.until < now'
      BY DEF AcceptedIsHeld
    <3>1. CASE f = e
      BY <1>4, <1>5, <1>7, <2>2, <3>1
    <3>2. CASE f # e
      <4>1. accepted'[f] = accepted[f]
        BY <1>4, <1>5, <1>7, <3>2
      <4> QED BY <1>2, <1>3, <1>4, <1>5, <1>7, <4>1 DEF AcceptedIsHeld
    <3> QED BY <3>1, <3>2
  <2>6. now' \in Time /\ answer' \in {"none", "true", "false", "full"}
    BY <1>2, <1>4, <1>6 DEF Inv, TypeOK
  <2> QED BY <2>3, <2>4, <2>5, <2>6 DEF Inv, TypeOK, CountIsRows
<1>8. CASE a # "true"
  <2>1. rows' = kept /\ live' = count /\ accepted' = accepted
    BY <1>4, <1>8
  <2>2. AcceptedIsHeld'
    BY <1>2, <1>3, <1>5, <2>1 DEF AcceptedIsHeld
  <2>3. now' \in Time /\ answer' \in {"none", "true", "false", "full"}
    BY <1>2, <1>4, <1>6 DEF Inv, TypeOK
  <2> QED BY <1>1, <1>3, <1>5, <2>1, <2>2, <2>3 DEF Inv, TypeOK, CountIsRows
<1> QED BY <1>7, <1>8

LEMMA InitInv == Init => Inv
<1> SUFFICES ASSUME Init PROVE Inv
  OBVIOUS
<1>1. TypeOK
  BY WireNonceAssumption DEF Init, TypeOK
<1>2. IsFiniteSet(rows) /\ CountIsRows
  BY FS_EmptySet DEF Init, CountIsRows
<1>3. AcceptedIsHeld
  BY DEF Init, AcceptedIsHeld
<1> QED BY <1>1, <1>2, <1>3 DEF Inv

LEMMA NextInv == Inv /\ [Next]_vars => Inv'
<1> SUFFICES ASSUME Inv, [Next]_vars PROVE Inv'
  OBVIOUS
<1>1. CASE Claim
  BY <1>1, ClaimKeeps DEF Claim
<1>2. CASE StoreReplaced
  <2>1. TypeOK'
    BY <1>2, WireNonceAssumption DEF Inv, TypeOK, StoreReplaced
  <2>2. IsFiniteSet(rows') /\ CountIsRows'
    BY <1>2, FS_EmptySet DEF StoreReplaced, CountIsRows
  <2>3. AcceptedIsHeld'
    BY <1>2 DEF StoreReplaced, AcceptedIsHeld
  <2> QED BY <2>1, <2>2, <2>3 DEF Inv
<1>3. CASE Tick
  <2>1. TypeOK' /\ IsFiniteSet(rows') /\ CountIsRows'
    BY <1>3 DEF Inv, TypeOK, CountIsRows, Tick
  <2>2. ASSUME NEW e \in Envelope, e.until < now PROVE e.until < now'
    BY <1>3, <2>2, EnvelopeTimes, WireNonceAssumption DEF Inv, TypeOK, Tick
  <2>3. AcceptedIsHeld'
    BY <1>3, <2>2 DEF Inv, AcceptedIsHeld, Tick
  <2> QED BY <2>1, <2>3 DEF Inv
<1>4. CASE UNCHANGED vars
  BY <1>4 DEF Inv, TypeOK, CountIsRows, AcceptedIsHeld, vars
<1> QED BY <1>1, <1>2, <1>3, <1>4 DEF Next

LEMMA InvHolds == Spec => []Inv
BY InitInv, NextInv, PTL DEF Spec

(* claimWireNonceIn accepts an envelope at most once in a store's life,    *)
(* for any purge batch and any cap, and however often it is presented.     *)
THEOREM NoReplay == Spec => []AcceptedOnce
<1>1. Inv => AcceptedOnce
  BY DEF Inv, AcceptedIsHeld, AcceptedOnce
<1> QED BY <1>1, InvHolds, PTL

(* The count row never passes the cap, for any cap, batch and envelopes. *)
THEOREM CountWithinCap == Spec => []TypeOK
<1>1. Inv => TypeOK
  BY DEF Inv
<1> QED BY <1>1, InvHolds, PTL

(* The count row never parts from the rows, so the cap judged on it bounds *)
(* the table (TypeOK bounds the count).                                    *)
THEOREM CountedRight == Spec => [](TypeOK /\ CountIsRows)
<1>1. Inv => TypeOK /\ CountIsRows
  BY DEF Inv
<1> QED BY <1>1, InvHolds, PTL

LEMMA FullStep ==
  ASSUME Inv, Claim, answer' = "full"
  PROVE  Cardinality({e \in rows : e.until >= now}) = Cap
<1>1. PICK e \in Envelope, p \in Purges : ClaimWireNonceIn(e, p)
  BY DEF Claim
<1> DEFINE count == AtLeastZero(live - Cardinality(p))
<1>2. /\ count \in Nat /\ Cardinality(p) \in Nat /\ IsFiniteSet(p)
      /\ count = live - Cardinality(p)
  BY CountAfterPurge
<1>3. now \in Nat /\ live \in 0..Cap /\ Cap \in Nat /\ rows \subseteq Envelope
  BY WireNonceAssumption DEF Inv, TypeOK
<1>4. count >= Cap
  BY <1>1, <1>2, <1>3, AnswerMeans DEF ClaimWireNonceIn
<1>5. Cardinality(p) = 0 /\ live = Cap
  BY <1>2, <1>3, <1>4
<1>6. p = {}
  BY <1>2, <1>5, FS_EmptySet
<1>7. \A r \in rows : ~(r.until < now)
  BY <1>5, <1>6, PurgedExpired
<1>8. {r \in rows : r.until >= now} = rows
  BY <1>3, <1>7, EnvelopeTimes
<1> QED BY <1>5, <1>8 DEF Inv, CountIsRows

(* A store answers "full" only where all it holds is still needed: expired *)
(* rows never keep a claim out, however small the purge batch.             *)
THEOREM FullIsHonest == Spec => FullMeansNeeded
<1>1. Inv /\ [Next]_vars
      => [Claim /\ answer' = "full" => Cardinality({e \in rows : e.until >= now}) = Cap]_vars
  BY FullStep
<1> QED BY <1>1, InvHolds, PTL DEF Spec, FullMeansNeeded
=============================================================================
