--------------------------- MODULE AttachmentSweep ---------------------------
(***************************************************************************)
(* The orphan sweep over one scope's attachment bytes (kernel/src/         *)
(* attachment-sweep.ts), beside the uploads and removals it must not harm  *)
(* (adapter-cloudflare/src/host.ts, scope-do.ts) and the rewinds and dump  *)
(* loads that replace the scope's rows.                                    *)
(*                                                                         *)
(* The bytes and the restore fence are in the tenant's blob store; the     *)
(* rows, the tombstones and the dry-run licence are in the scope's.  Every *)
(* call on either store is a step of its own: the scope runs its calls one *)
(* at a time, the blob store knows no transaction, and nothing spans both. *)
(***************************************************************************)
EXTENDS Integers, FiniteSets

CONSTANTS
    Atts,       \* attachment ids, each minted for one upload
    Passes,     \* passes of the sweep
    Slots,      \* past states of the scope that are kept
    None,       \* SQL NULL, or no object
    Grace,      \* how old an object must be to be judged
    FenceFor,   \* how long a fence holds
    Reach,      \* how far back a rewind can go
    Arming,     \* the longest a replacement takes from its fence to its landing
    Slow,       \* the longest an upload takes
    Retention,  \* how long a tombstone is kept
    Window,     \* how long a licence is in force
    Limit,      \* objects one pass deletes
    Batch,      \* ids one call judges
    MaxNow, MaxReplacements      \* bounds

ASSUME AttachmentSweepAssumption ==
    /\ {Grace, FenceFor, Reach, Arming, Slow, Retention, Window, MaxNow, MaxReplacements}
            \subseteq Nat
    /\ {Limit, Batch} \subseteq Nat \ {0}
    /\ Reach + Arming < FenceFor
    /\ Slow <= Retention
    /\ None \notin Nat \cup {"rewind", "load"}

VARIABLES
    now,        \* the hosts' clock
    blobs,      \* ids whose bytes are stored
    fence,      \* when the scope's state was last about to be replaced
    scope,      \* the scope's store: rows, tombstones, licence
    saved,      \* slot -> a past state of it: a bookmark while it is young, a dump for ever
    upload,     \* id -> the request that uploads or removes it
    minted,     \* id -> when
    replacer,   \* a rewind or a load on its way
    pass,       \* per pass
    listed,     \* history: what some dry run listed
    removed,    \* history: what a user removed
    overtaken,  \* history: the passes that were deleting when a replacement began
    left        \* what the bound has left

vars == <<now, blobs, fence, scope, saved, upload, minted, replacer, pass, listed, removed,
          overtaken, left>>

\* The scope's side, and the users'.
users  == <<upload, minted, removed>>
states == <<saved, replacer, overtaken, left>>

-----------------------------------------------------------------------------
(* Uploads and removals. *)

\* The bytes first, under an id minted just before.
Put(x) ==
    /\ minted[x] = None
    /\ minted' = [minted EXCEPT ![x] = now]
    /\ blobs' = blobs \cup {x}
    /\ upload' = [upload EXCEPT ![x] = "adding"]
    /\ UNCHANGED <<now, fence, scope, states, pass, listed, removed>>

\* refuseCondemnedAttachment
Admits(x) == scope.condemned[x] = None

\* The row second, or an answered refusal: of the gate, or of a condemned id.
Add(x) ==
    /\ upload[x] = "adding"
    /\ \/ /\ Admits(x)
          /\ scope' = [scope EXCEPT !.rows = @ \cup {x}]
          /\ upload' = [upload EXCEPT ![x] = "over"]
       \/ /\ upload' = [upload EXCEPT ![x] = "refused"]
          /\ UNCHANGED scope
    /\ UNCHANGED <<now, blobs, fence, states, minted, pass, listed, removed>>

\* attachmentRemove: the row goes first.
Remove(x) ==
    /\ x \in scope.rows /\ upload[x] = "over"
    /\ scope' = [scope EXCEPT !.rows = @ \ {x}]
    /\ upload' = [upload EXCEPT ![x] = "removed"]
    /\ removed' = removed \cup {x}
    /\ UNCHANGED <<now, blobs, fence, states, minted, pass, listed>>

\* compensatingRefusal, and the end of a removal: the bytes of a row that is not there.
DeleteBytes(x) ==
    /\ upload[x] \in {"refused", "removed"}
    /\ blobs' = blobs \ {x}
    /\ upload' = [upload EXCEPT ![x] = "over"]
    /\ UNCHANGED <<now, fence, scope, states, minted, pass, listed, removed>>

\* The request stops, or its call is lost on the way: whatever is stored stays.
Abandon(x) ==
    /\ upload[x] \in {"adding", "refused", "removed"}
    /\ upload' = [upload EXCEPT ![x] = "over"]
    /\ UNCHANGED <<now, blobs, fence, scope, states, minted, pass, listed, removed>>

-----------------------------------------------------------------------------
(* Replacements of the scope's state. *)

NoLicence == [ids |-> {}, at |-> None]
NoScope   == [rows |-> {}, condemned |-> [x \in Atts |-> None], licence |-> NoLicence]

Saved(state) == [at |-> now, rows |-> state.rows, condemned |-> state.condemned,
                 licence |-> state.licence]

\* A bookmark, or a dump that is kept.
Save(s) ==
    /\ saved[s] = None
    /\ saved' = [saved EXCEPT ![s] = Saved(scope)]
    /\ UNCHANGED <<now, blobs, fence, scope, replacer, overtaken, left, users, pass, listed>>

NoReplacement == [kind |-> None, slot |-> None]

Deleting == {p \in Passes : pass[p].pc = "delete"}

\* rewindScopeLocal and loadLocal: the fence first (fenceAttachmentSweep).
Replace(kind, s) ==
    /\ left > 0 /\ replacer = NoReplacement /\ saved[s] # None
    /\ replacer' = [kind |-> kind, slot |-> s]
    /\ left' = left - 1
    /\ fence' = now
    /\ overtaken' = overtaken \cup Deleting
    /\ UNCHANGED <<now, blobs, scope, saved, users, pass, listed>>

Restorable(s) == saved[s] # None /\ now <= saved[s].at + Reach

\* Bookmarks are kept for so long; what was there comes back whole.
Rewind ==
    /\ replacer.kind = "rewind"
    /\ Restorable(replacer.slot)
    /\ LET old == saved[replacer.slot]
       IN  scope' = [rows |-> old.rows, condemned |-> old.condemned, licence |-> old.licence]
    /\ replacer' = NoReplacement
    /\ UNCHANGED <<now, blobs, fence, saved, overtaken, left, users, pass, listed>>

\* refuseCondemnedInDump
LoadTakes(s) == \A x \in saved[s].rows : scope.condemned[x] = None

\* importDump: every table is the dump's, but for the licence, which a dump does not carry.
Load ==
    /\ replacer.kind = "load"
    /\ LoadTakes(replacer.slot)
    /\ LET old == saved[replacer.slot]
       IN  scope' = [rows |-> old.rows, condemned |-> old.condemned, licence |-> NoLicence]
    /\ replacer' = NoReplacement
    /\ UNCHANGED <<now, blobs, fence, saved, overtaken, left, users, pass, listed>>

\* The replacement is refused or dies, its fence written.
ReplaceFails ==
    /\ replacer # NoReplacement
    /\ replacer' = NoReplacement
    /\ UNCHANGED <<now, blobs, fence, scope, saved, overtaken, left, users, pass, listed>>

-----------------------------------------------------------------------------
(* One pass: sweepOrphanAttachments. *)

NoPass == [pc |-> "idle", dry |-> TRUE, now |-> 0, present |-> {}, todo |-> {}, orphans |-> {}]

\* The others keep.
Only(p, v) == pass' = [pass EXCEPT ![p] = v]

\* orphanSweepLicensedAt, against a pass's own instant.
InForce(at) ==
    /\ scope.licence.at # None
    /\ scope.licence.at <= at /\ at <= scope.licence.at + Window

\* fenced, against a pass's own instant.
Fenced(at) == fence # None /\ at < fence + FenceFor

\* The host takes its clock, the scope gives its verdict and the fence is read.  Without a
\* licence in force the platform's phase asks for a dry run instead.
Begin(p, dry) ==
    /\ pass[p].pc = "idle"
    /\ dry \/ InForce(now)
    /\ ~Fenced(now)
    /\ Only(p, [NoPass EXCEPT !.pc = "list", !.dry = dry, !.now = now])
    /\ UNCHANGED <<now, blobs, fence, scope, states, users, listed>>

\* The ids of S, no more than k of them.
UpTo(k, S) == {T \in SUBSET S : Cardinality(T) = IF Cardinality(S) < k THEN Cardinality(S) ELSE k}

\* rowlessAttachmentIds
Rowless(ids) == ids \ scope.rows

\* Mutant: every rowless id is condemned, listed by a dry run or not.
CondemnableUnlicensed(p, ids) == Rowless(ids)

\* condemnLicensedOrphanAttachments: those the licence lists, while it is in force.
Condemnable(p, ids) ==
    IF InForce(pass[p].now) THEN Rowless(ids \cap scope.licence.ids) ELSE {}

\* condemnOrphanAttachments: each is stamped, and old tombstones go with a call that wrote.
Condemned(p, ids) ==
    [x \in Atts |->
        IF x \in ids THEN pass[p].now
        ELSE IF /\ ids # {} /\ scope.condemned[x] # None
                /\ scope.condemned[x] + Retention < pass[p].now
             THEN None
        ELSE scope.condemned[x]]

\* Mutant: only what this call condemned is answered.
AnsweredNew(p, ids) == {x \in Condemnable(p, ids) : scope.condemned[x] = None}

\* What was condemned here, or by a pass that did not get to delete it.
Answered(p, ids) == Condemnable(p, ids)

\* The pass with what is left to judge and what was found.  The judging ends with the list or
\* at the limit, and the pass goes on with no more than the limit: to list them in the licence,
\* or to delete them.
Goes(p, todo, found) ==
    IF todo # {} /\ Cardinality(found) < Limit
    THEN {[pass[p] EXCEPT !.pc = "judge", !.todo = todo, !.orphans = found]}
    ELSE {[pass[p] EXCEPT !.todo = {}, !.orphans = ids,
             !.pc = IF pass[p].dry THEN "license" ELSE IF ids = {} THEN "settle" ELSE "recheck"] :
             ids \in UpTo(Limit, found)}

\* What the store lists, and of it what is old enough.
List(p) ==
    /\ pass[p].pc = "list"
    /\ \E next \in Goes(p, {x \in blobs : minted[x] + Grace <= pass[p].now}, {}) :
          Only(p, [next EXCEPT !.present = IF next.dry THEN {} ELSE blobs])
    /\ UNCHANGED <<now, blobs, fence, scope, states, users, listed>>

\* One call for one batch: a dry run reads, a destructive pass condemns.
Judge(p) ==
    /\ pass[p].pc = "judge"
    /\ \E ids \in UpTo(Batch, pass[p].todo) :
          LET judged == IF pass[p].dry THEN Rowless(ids) ELSE Answered(p, ids)
          IN  /\ \E next \in Goes(p, pass[p].todo \ ids, pass[p].orphans \cup judged) :
                    Only(p, next)
              /\ scope' = IF pass[p].dry THEN scope
                          ELSE [scope EXCEPT !.condemned = Condemned(p, Condemnable(p, ids))]
    /\ UNCHANGED <<now, blobs, fence, states, users, listed>>

\* recordOrphanSweepLicence: it is left alone where it says the same and is fresh.
License(p) ==
    /\ pass[p].pc = "license"
    /\ LET held == scope.licence
           same == /\ held.ids = pass[p].orphans /\ held.ids # {}
                   /\ held.at <= pass[p].now /\ 2 * (pass[p].now - held.at) <= Window
       IN  scope' = IF same THEN scope
                    ELSE IF pass[p].orphans = {} THEN [scope EXCEPT !.licence = NoLicence]
                    ELSE [scope EXCEPT !.licence = [ids |-> pass[p].orphans, at |-> pass[p].now]]
    /\ listed' = listed \cup pass[p].orphans
    /\ Only(p, NoPass)
    /\ UNCHANGED <<now, blobs, fence, states, users>>

\* Mutant: the fence is not read again.
StopsNever(p) == FALSE

Stops(p) == Fenced(pass[p].now)

\* The fence again, after the condemnation.
Recheck(p) ==
    /\ pass[p].pc = "recheck"
    /\ Only(p, IF Stops(p) THEN NoPass ELSE [pass[p] EXCEPT !.pc = "delete"])
    /\ overtaken' = overtaken \ {p}
    /\ UNCHANGED <<now, blobs, fence, scope, saved, replacer, left, users, listed>>

\* One object after the other; from here on present is what the store still holds of it.
Delete(p, x) ==
    /\ pass[p].pc = "delete" /\ x \in pass[p].orphans
    /\ blobs' = blobs \ {x}
    /\ Only(p, [pass[p] EXCEPT !.orphans = @ \ {x}, !.present = @ \ {x},
                  !.pc = IF pass[p].orphans = {x} THEN "settle" ELSE "delete"])
    /\ UNCHANGED <<now, fence, scope, states, users, listed>>

\* settleLicence: what the licence lists and the pass deleted or never found is gone.  The read
\* and the call that takes it out are one step: both only narrow the licence.
Settle(p) ==
    /\ pass[p].pc = "settle"
    /\ LET kept == scope.licence.ids \cap pass[p].present
       IN  scope' = [scope EXCEPT !.licence =
                       IF kept = {} THEN NoLicence ELSE [ids |-> kept, at |-> @.at]]
    /\ Only(p, NoPass)
    /\ UNCHANGED <<now, blobs, fence, states, users, listed>>

\* A call throws, or the pass dies.
Fail(p) ==
    /\ pass[p].pc # "idle"
    /\ Only(p, NoPass)
    /\ UNCHANGED <<now, blobs, fence, scope, states, users, listed>>

-----------------------------------------------------------------------------

\* Time passes, but an upload and a replacement are one request each.
Tick ==
    /\ now < MaxNow
    /\ \A x \in Atts : upload[x] = "adding" => now < minted[x] + Slow
    /\ replacer # NoReplacement => now < fence + Arming
    /\ now' = now + 1
    /\ UNCHANGED <<blobs, fence, scope, states, users, pass, listed>>

Init ==
    /\ now = 0
    /\ blobs = {}
    /\ fence = None
    /\ scope = NoScope
    /\ saved = [s \in Slots |-> None]
    /\ upload = [x \in Atts |-> "over"]
    /\ minted = [x \in Atts |-> None]
    /\ replacer = NoReplacement
    /\ pass = [p \in Passes |-> NoPass]
    /\ listed = {}
    /\ removed = {}
    /\ overtaken = {}
    /\ left = MaxReplacements

\* A pass goes on.
Step(p) ==
    \/ List(p) \/ Judge(p) \/ License(p) \/ Recheck(p)
    \/ (\E x \in Atts : Delete(p, x)) \/ Settle(p)

Next ==
    \/ \E x \in Atts : Put(x) \/ Add(x) \/ Remove(x) \/ DeleteBytes(x) \/ Abandon(x)
    \/ \E s \in Slots : Save(s) \/ \E kind \in {"rewind", "load"} : Replace(kind, s)
    \/ Rewind \/ Load \/ ReplaceFails
    \/ \E p \in Passes : (\E dry \in BOOLEAN : Begin(p, dry)) \/ Step(p) \/ Fail(p)
    \/ Tick

Spec == Init /\ [][Next]_vars

\* The phase visits the scope again and again: a destructive pass where the scope is licensed
\* for one, else a dry run.  A licence lapses with time, so where the clock's bound keeps one in
\* force, a dry run is due too.  Uploads end, and passes do not fail for ever (the last step of a
\* pass may leave everything as it was, and then it is no failure).
Fairness ==
    /\ WF_vars(Tick) /\ \A x \in Atts : WF_vars(Add(x) \/ Abandon(x))
    /\ \A p \in Passes :
          /\ SF_vars(Begin(p, FALSE)) /\ WF_vars(Step(p))
          /\ SF_vars((~InForce(now) \/ now = MaxNow) /\ Begin(p, TRUE))
    /\ <>[][\A p \in Passes : Fail(p) => Step(p)]_vars

FairSpec == Spec /\ Fairness

-----------------------------------------------------------------------------
(* Properties. *)

Instants    == Nat \cup {None}
LicenceType == [ids : SUBSET Atts, at : Instants]
ScopeType   == [rows : SUBSET Atts, condemned : [Atts -> Instants], licence : LicenceType]
SavedType   == [at : Nat, rows : SUBSET Atts, condemned : [Atts -> Instants],
                licence : LicenceType]
PassType    ==
    [pc : {"idle", "list", "judge", "license", "recheck", "delete", "settle"},
     dry : BOOLEAN, now : Nat, present : SUBSET Atts, todo : SUBSET Atts, orphans : SUBSET Atts]

\* Every variable holds a value of its kind.
TypeOK ==
    /\ now \in Nat /\ left \in Nat
    /\ blobs \subseteq Atts /\ listed \subseteq Atts /\ removed \subseteq Atts
    /\ overtaken \subseteq Passes
    /\ fence \in Instants
    /\ scope \in ScopeType
    /\ saved \in [Slots -> SavedType \cup {None}]
    /\ upload \in [Atts -> {"adding", "refused", "removed", "over"}]
    /\ minted \in [Atts -> Instants]
    /\ replacer \in [kind : {"rewind", "load", None}, slot : Slots \cup {None}]
    /\ pass \in [Passes -> PassType]

\* No id of the scope has both a row and a tombstone, through rewinds and loads as well: an
\* insert, a condemnation and a load each refuse what would make one (refuseCondemnedAttachment,
\* condemnOrphanAttachments, refuseCondemnedInDump).
RowOrTombstone == \A x \in scope.rows : scope.condemned[x] = None

\* Bytes go only where no row needs them, neither one that is stored nor one a rewind can still
\* bring back, unless a user removed the row: whatever uploads are slow, whatever passes
\* overlap, and whatever replacements land between a pass's calls (sweepOrphanAttachments), up
\* to its last look at the fence.  What a pass deletes after one that began later is not covered.
NeededBytesStay ==
    [][\A x \in blobs \ blobs' :
          \/ x \in removed
          \/ \E p \in overtaken : Delete(p, x)
          \/ /\ x \notin scope.rows
             /\ \A s \in Slots : Restorable(s) => x \notin saved[s].rows]_vars

\* What a pass is about to delete, and what is condemned, some dry run of the scope has listed,
\* though rewinds bring licences back and loads take them away (condemnLicensedOrphanAttachments).
OnlyListed ==
    /\ \A p \in Passes : ~pass[p].dry => pass[p].orphans \subseteq listed
    /\ \A x \in Atts : scope.condemned[x] # None => x \in listed

\* An old object that no row names and no fence holds does not stay for ever, though passes die
\* after they condemned it, before they deleted it or before they recorded what is gone.
OrphansGo ==
    \A x \in Atts :
        []<>~(/\ x \in blobs \ scope.rows /\ minted[x] + Grace <= now
              /\ upload[x] = "over" /\ ~Fenced(now))
=============================================================================
