---------------------------- MODULE Contributions ----------------------------
(***************************************************************************)
(* The three user-contribution endpoints of backend/app/api/routes.py and  *)
(* the shared rate limit they claim a slot from.  Servers run requests     *)
(* concurrently, each with its own clock; PostgreSQL serializes the upsert *)
(* of a kind's row from the statement to its commit.  The claim commits    *)
(* before the contribution is inserted.  What a contribution says, and the *)
(* cafe it is about, are left out: a lookup that finds no cafe answers 404 *)
(* and changes nothing.                                                    *)
(***************************************************************************)
EXTENDS Integers, FiniteSets

CONSTANTS
    Requests,     \* request handlers running at a time, on any server
    FeedbackLimit,   \* USER_FEEDBACK_MAX_PER_BUCKET, 120
    ReportLimit,     \* USER_PLACE_REPORT_MAX_PER_BUCKET, 30
    MaxBucket,    \* bound: the last time bucket
    Skew          \* how many buckets a server's clock may be off

ASSUME ContributionAssumption ==
    /\ IsFiniteSet(Requests)
    /\ FeedbackLimit \in Nat \ {0} /\ ReportLimit \in Nat \ {0}
    /\ MaxBucket \in Nat /\ Skew \in Nat

\* submit_cafe_feedback claims a slot of the first, report_missing_cafe and
\* report_existing_cafe one of the second.
Kinds == {"feedback", "place_report"}
Buckets == 0..MaxBucket
Limit(k) == IF k = "feedback" THEN FeedbackLimit ELSE ReportLimit

VARIABLES
    bucket,     \* the current bucket of the true time
    slot,       \* user_contribution_rate_limits: slot[k], count 0 while k has no row
    lock,       \* lock[k]: the request whose open transaction holds k's row, or {}
    granted,    \* granted[k][b]: slots of bucket b whose claim was committed
    stored,     \* stored[k][b]: contributions stored on a slot of bucket b
    accepted,   \* accepted[k][b]: 202 answers to them
    pc,         \* where each request is
    kind,       \* kind[r]: what it contributes
    claim       \* claim[r]: the bucket of the slot it claims

vars == <<bucket, slot, lock, granted, stored, accepted, pc, kind, claim>>

None == [k \in Kinds |-> [b \in Buckets |-> 0]]

Init ==
    /\ bucket = 0
    /\ slot = [k \in Kinds |-> [epoch |-> 0, count |-> 0]]
    /\ lock = [k \in Kinds |-> {}]
    /\ granted = None
    /\ stored = None
    /\ accepted = None
    /\ pc = [r \in Requests |-> "idle"]
    /\ kind = [r \in Requests |-> "feedback"]
    /\ claim = [r \in Requests |-> 0]

Tick ==
    /\ bucket < MaxBucket
    /\ bucket' = bucket + 1
    /\ UNCHANGED <<slot, lock, granted, stored, accepted, pc, kind, claim>>

\* A request whose lookup has succeeded reads its server's clock.
Arrive(r) ==
    /\ pc[r] = "idle"
    /\ \E k \in Kinds, b \in Buckets :
          /\ b - bucket \in (-Skew)..Skew
          /\ kind' = [kind EXCEPT ![r] = k]
          /\ claim' = [claim EXCEPT ![r] = b]
    /\ pc' = [pc EXCEPT ![r] = "claiming"]
    /\ UNCHANGED <<bucket, slot, lock, granted, stored, accepted>>

\* The request is over.
End(r) ==
    /\ pc' = [pc EXCEPT ![r] = "idle"]
    /\ kind' = [kind EXCEPT ![r] = "feedback"]
    /\ claim' = [claim EXCEPT ![r] = 0]

\* Mutant: a row of any other bucket starts over.
ClaimableFromAnyBucket(r) ==
    \/ slot[kind[r]].count = 0
    \/ slot[kind[r]].epoch # claim[r]
    \/ /\ slot[kind[r]].epoch = claim[r]
       /\ slot[kind[r]].count < Limit(kind[r])

\* The upsert's WHERE, and the insert of a first row.
Claimable(r) ==
    \/ slot[kind[r]].count = 0
    \/ slot[kind[r]].epoch < claim[r]
    \/ /\ slot[kind[r]].epoch = claim[r]
       /\ slot[kind[r]].count < Limit(kind[r])

\* The row the upsert leaves.
Upserted(r) ==
    [epoch |-> claim[r],
     count |-> IF slot[kind[r]].count > 0 /\ slot[kind[r]].epoch = claim[r]
               THEN slot[kind[r]].count + 1 ELSE 1]

\* Mutant: the upsert does not wait for the row's other transactions.
UpsertUnlocked(r) ==
    /\ pc[r] = "claiming"
    /\ Claimable(r)
    /\ lock' = [lock EXCEPT ![kind[r]] = @ \cup {r}]
    /\ pc' = [pc EXCEPT ![r] = "claimed"]
    /\ UNCHANGED <<bucket, slot, granted, stored, accepted, kind, claim>>

\* INSERT .. ON CONFLICT DO UPDATE: waits for the row, locks it, and returns
\* the new count; the change is visible to others only after the commit.
Upsert(r) ==
    /\ pc[r] = "claiming"
    /\ lock[kind[r]] = {}
    /\ Claimable(r)
    /\ lock' = [lock EXCEPT ![kind[r]] = {r}]
    /\ pc' = [pc EXCEPT ![r] = "claimed"]
    /\ UNCHANGED <<bucket, slot, granted, stored, accepted, kind, claim>>

\* No row came back: roll back and answer 429.
Refuse(r) ==
    /\ pc[r] = "claiming"
    /\ lock[kind[r]] = {}
    /\ ~Claimable(r)
    /\ End(r)
    /\ UNCHANGED <<bucket, slot, lock, granted, stored, accepted>>

\* What the commit of the claim does.
Grant(r) ==
    /\ slot' = [slot EXCEPT ![kind[r]] = Upserted(r)]
    /\ granted' = [granted EXCEPT ![kind[r]][claim[r]] = @ + 1]

\* Mutant: the claim's transaction stays open over the insert and the answer.
CommitClaimLater(r) ==
    /\ pc[r] = "claimed"
    /\ Grant(r)
    /\ pc' = [pc EXCEPT ![r] = "inserting"]
    /\ UNCHANGED <<bucket, lock, stored, accepted, kind, claim>>

CommitClaim(r) ==
    /\ pc[r] = "claimed"
    /\ Grant(r)
    /\ lock' = [lock EXCEPT ![kind[r]] = @ \ {r}]
    /\ pc' = [pc EXCEPT ![r] = "inserting"]
    /\ UNCHANGED <<bucket, stored, accepted, kind, claim>>

\* The commit raised, with the claim applied or rolled back: 500.
ClaimFails(r) ==
    /\ pc[r] = "claimed"
    /\ Grant(r) \/ UNCHANGED <<slot, granted>>
    /\ lock' = [lock EXCEPT ![kind[r]] = @ \ {r}]
    /\ End(r)
    /\ UNCHANGED <<bucket, stored, accepted>>

Store(r) == stored' = [stored EXCEPT ![kind[r]][claim[r]] = @ + 1]

\* The contribution is inserted and committed.
Insert(r) ==
    /\ pc[r] = "inserting"
    /\ Store(r)
    /\ pc' = [pc EXCEPT ![r] = "answering"]
    /\ UNCHANGED <<bucket, slot, lock, granted, accepted, kind, claim>>

\* Mutant: a failed submission gives its slot back.
InsertFailsRefunding(r) ==
    /\ pc[r] = "inserting"
    /\ Store(r) \/ UNCHANGED stored
    /\ slot' = [slot EXCEPT ![kind[r]].count = @ - 1]
    /\ End(r)
    /\ UNCHANGED <<bucket, lock, granted, accepted>>

\* Mutant: the insert's error is swallowed and the client told 202.
InsertFailsAccepted(r) ==
    /\ pc[r] = "inserting"
    /\ Store(r) \/ UNCHANGED stored
    /\ accepted' = [accepted EXCEPT ![kind[r]][claim[r]] = @ + 1]
    /\ End(r)
    /\ UNCHANGED <<bucket, slot, lock, granted>>

\* The insert raised, with the row stored or not.  "A later submission failure
\* must not let an abusive caller reclaim the same capacity": the slot is kept.
InsertFails(r) ==
    /\ pc[r] = "inserting"
    /\ Store(r) \/ UNCHANGED stored
    /\ End(r)
    /\ UNCHANGED <<bucket, slot, lock, granted, accepted>>

\* 202 Accepted.
Answer(r) ==
    /\ pc[r] = "answering"
    /\ accepted' = [accepted EXCEPT ![kind[r]][claim[r]] = @ + 1]
    /\ End(r)
    /\ UNCHANGED <<bucket, slot, lock, granted, stored>>

\* The server is stopped: its open transaction is rolled back.
Die(r) ==
    /\ pc[r] # "idle"
    /\ lock' = [k \in Kinds |-> lock[k] \ {r}]
    /\ End(r)
    /\ UNCHANGED <<bucket, slot, granted, stored, accepted>>

\* What a request does when nothing goes wrong.
Proceed(r) == Upsert(r) \/ Refuse(r) \/ CommitClaim(r) \/ Insert(r) \/ Answer(r)

Fail(r) == ClaimFails(r) \/ InsertFails(r) \/ Die(r)

Next == Tick \/ \E r \in Requests : Arrive(r) \/ Proceed(r) \/ Fail(r)

Spec == Init /\ [][Next]_vars

\* Servers keep running their requests, and PostgreSQL queues those that wait
\* for a row, so that none waits forever while others take it in turn.
FairSpec == Spec /\ \A r \in Requests : SF_vars(Proceed(r))

-----------------------------------------------------------------------------
(* Properties. *)

\* The shape of the row, of its locks and of the requests.
TypeOK ==
    /\ bucket \in Buckets
    /\ slot \in [Kinds -> [epoch : Buckets, count : Nat]]
    /\ lock \in [Kinds -> SUBSET Requests]
    /\ granted \in [Kinds -> [Buckets -> Nat]]
    /\ stored \in [Kinds -> [Buckets -> Nat]]
    /\ accepted \in [Kinds -> [Buckets -> Nat]]
    /\ pc \in [Requests -> {"idle", "claiming", "claimed", "inserting", "answering"}]
    /\ kind \in [Requests -> Kinds]
    /\ claim \in [Requests -> Buckets]

\* The cap OPERATIONS.md calls atomic.  However far apart the servers' clocks
\* are and whatever fails, no more contributions of a kind are stored in a
\* bucket than its limit.
LimitKept ==
    \A k \in Kinds, b \in Buckets : stored[k][b] <= Limit(k)

\* A 202 is only ever the answer to a stored contribution.
AcceptedIsStored ==
    \A k \in Kinds, b \in Buckets : accepted[k][b] <= stored[k][b]

\* "A past minute's request cannot turn a new bucket back", and a committed
\* slot is never given back.
SlotsNeverReclaimed ==
    [][\A k \in Kinds :
          \/ slot'[k].epoch > slot[k].epoch
          \/ slot'[k].epoch = slot[k].epoch /\ slot'[k].count >= slot[k].count]_vars

\* The row counts the slots granted in its bucket, and no later bucket has any.
SlotCounts ==
    \A k \in Kinds :
        /\ slot[k].count = 0 => slot[k].epoch = 0
        /\ \A b \in Buckets :
              /\ granted[k][b] <= Limit(k)
              /\ b = slot[k].epoch => granted[k][b] = slot[k].count
              /\ b > slot[k].epoch => granted[k][b] = 0

\* Only the request at its claim holds a row, and what it saw still holds.
LockedClaim ==
    \A r \in Requests :
        /\ pc[r] = "claimed" => lock[kind[r]] = {r} /\ Claimable(r)
        /\ \A k \in Kinds : r \in lock[k] => pc[r] = "claimed" /\ kind[r] = k

Holding(at, k, b) == {r \in Requests : pc[r] = at /\ kind[r] = k /\ claim[r] = b}

\* A contribution is stored on a slot of its own, and answered once.
SlotPerContribution ==
    \A k \in Kinds, b \in Buckets :
        /\ stored[k][b] + Cardinality(Holding("inserting", k, b)) <= granted[k][b]
        /\ accepted[k][b] + Cardinality(Holding("answering", k, b)) <= stored[k][b]

\* Why LimitKept and AcceptedIsStored hold.
ContributionInv == TypeOK /\ SlotCounts /\ LockedClaim /\ SlotPerContribution

\* Every request is answered, refused or lost with its server.
RequestsEnd == \A r \in Requests : pc[r] # "idle" ~> pc[r] = "idle"

=============================================================================
