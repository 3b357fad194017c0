----------------------------- MODULE WireNonce -----------------------------
(***************************************************************************)
(* The wire-signing nonce store of one scope (packages/kernel/src/         *)
(* wire-nonce): which signed calls it has accepted, for as long as each    *)
(* could still be presented, in a bounded number of rows.                  *)
(*                                                                         *)
(* A claim is one transaction and one action.  The envelope a claim is for *)
(* is what the verifier passes on: its nonce, and the second after which   *)
(* it may be forgotten.                                                    *)
(***************************************************************************)
EXTENDS Integers, FiniteSets

CONSTANTS
  Nonce,
  Time,         \* bound: the seconds a behaviour spans, from 0
  Cap,          \* WIRE_NONCE_CAP
  Batch         \* WIRE_NONCE_PURGE_BATCH

ASSUME WireNonceAssumption ==
  Time \subseteq Nat /\ 0 \in Time /\ Cap \in Nat \ {0} /\ Batch \in Nat \ {0}

Envelope == [nonce : Nonce, until : Time]

VARIABLES
  rows,         \* _substrat_wire_nonces
  live,         \* _substrat_wire_nonce_count
  now,          \* the store's clock
  answer,       \* history: what the last claim answered
  accepted      \* history: how often each envelope was accepted by this store

vars == <<rows, live, now, answer, accepted>>

(* Types; the count stays within WIRE_NONCE_CAP, and with CountIsRows so do *)
(* the rows.                                                                *)
TypeOK ==
  /\ rows \in SUBSET Envelope
  /\ live \in 0..Cap
  /\ now \in Time
  /\ answer \in {"none", "true", "false", "full"}
  /\ accepted \in [Envelope -> Nat]

Init ==
  /\ rows = {} /\ live = 0
  /\ now = 0
  /\ answer = "none" /\ accepted = [e \in Envelope |-> 0]

-----------------------------------------------------------------------------
AtLeastZero(n) == IF n < 0 THEN 0 ELSE n

ExpiredNow(e) == e.until <= now  \* mistake: a row goes in the last second its envelope is good

Expired(e) == e.until < now

PurgesNone == {{}}                 \* mistake: a claim purges nothing

(* PURGE_SQL: the oldest of the expired rows, at most Batch of them. *)
Purges ==
  LET due == {e \in rows : Expired(e)} IN
  {p \in SUBSET due :
     /\ \/ p = due /\ Cardinality(due) <= Batch
        \/ Cardinality(p) = Batch
     /\ \A e \in p, f \in due \ p : e.until <= f.until}

Held(kept, e) == \E r \in kept : r.nonce = e.nonce

AnswerUncapped(e, kept, count) ==  \* mistake: the cap is met one row late
  IF now > e.until THEN "false"
  ELSE IF count > Cap THEN IF Held(kept, e) THEN "false" ELSE "full"
  ELSE IF Held(kept, e) THEN "false" ELSE "true"

(* A claim after the envelope's last second, and one for a nonce held, are *)
(* refused alike; at the cap only a nonce not held is answered "full".     *)
Answer(e, kept, count) ==
  IF now > e.until THEN "false"
  ELSE IF count >= Cap THEN IF Held(kept, e) THEN "false" ELSE "full"
  ELSE IF Held(kept, e) THEN "false" ELSE "true"

ClaimUncounted(e, purged) ==       \* mistake: the count does not follow the purge
  LET kept == rows \ purged
      a == Answer(e, kept, live)
  IN  /\ answer' = a
      /\ rows' = IF a = "true" THEN kept \cup {e} ELSE kept
      /\ live' = IF a = "true" THEN live + 1 ELSE live
      /\ accepted' = IF a = "true" THEN [accepted EXCEPT ![e] = accepted[e] + 1] ELSE accepted
      /\ UNCHANGED now

(* claimWireNonceIn. *)
ClaimWireNonceIn(e, purged) ==
  LET kept == rows \ purged
      count == AtLeastZero(live - Cardinality(purged))
      a == Answer(e, kept, count)
  IN  /\ answer' = a
      /\ rows' = IF a = "true" THEN kept \cup {e} ELSE kept
      /\ live' = IF a = "true" THEN count + 1 ELSE count
      /\ accepted' = IF a = "true" THEN [accepted EXCEPT ![e] = accepted[e] + 1] ELSE accepted
      /\ UNCHANGED now

Claim == \E e \in Envelope, purged \in Purges : ClaimWireNonceIn(e, purged)

(* A load, restore or wipe replaces the store, the nonces in it included. *)
StoreReplaced ==
  /\ rows' = {} /\ live' = 0
  /\ answer' = "none" /\ accepted' = [e \in Envelope |-> 0]
  /\ UNCHANGED now

Tick ==
  /\ now + 1 \in Time /\ now' = now + 1
  /\ UNCHANGED <<rows, live, answer, accepted>>

Next == Claim \/ StoreReplaced \/ Tick

Spec == Init /\ [][Next]_vars

-----------------------------------------------------------------------------
(* The same envelope is accepted once, for all its life, however claims of *)
(* it interleave with purges, with a full store and with other envelopes   *)
(* that carry the same nonce: a row is dropped only once claimWireNonceIn  *)
(* refuses its envelope for being late.                                    *)
AcceptedOnce == \A e \in Envelope : accepted[e] <= 1

(* The count kept beside the rows, which is all the cap reads, is how many *)
(* rows there are, after every purge, insert, conflict and refusal.        *)
CountIsRows == live = Cardinality(rows)

(* A claim is answered "full" only where every row the store may hold is   *)
(* of an envelope still good: a store that filled up lets a claim in as    *)
(* soon as one row expires, because the purge before the answer commits.   *)
FullMeansNeeded ==
  [][Claim /\ answer' = "full" => Cardinality({e \in rows : e.until >= now}) = Cap]_vars

=============================================================================
