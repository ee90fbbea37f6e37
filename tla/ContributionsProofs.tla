------------------------- MODULE ContributionsProofs -------------------------
(***************************************************************************)
(* Proofs about Contributions, for any number of requests, any limits and  *)
(* any clocks.  ContributionInv is inductive: a request that holds a row   *)
(* decides on what nobody else can change (LockedClaim), so the row counts *)
(* the committed slots of its bucket (SlotCounts), and each stored         *)
(* contribution sits on a slot of its own (SlotPerContribution).           *)
(***************************************************************************)
EXTENDS Contributions, FiniteSetTheorems, TLAPS

\* A table of counters stays one when a counter goes up, and no other moves.
LEMMA OneMore ==
    ASSUME NEW f \in [Kinds -> [Buckets -> Nat]], NEW g,
           NEW k \in Kinds, NEW b \in Buckets,
           g = [f EXCEPT ![k][b] = @ + 1]
    PROVE  /\ g \in [Kinds -> [Buckets -> Nat]]
           /\ g[k][b] = f[k][b] + 1
           /\ \A j \in Kinds, c \in Buckets :
                 (j # k \/ c # b) => g[j][c] = f[j][c]
<1>1. f[k] \in [Buckets -> Nat] /\ f[k][b] \in Nat
  OBVIOUS
<1>2. g = [f EXCEPT ![k] = [f[k] EXCEPT ![b] = f[k][b] + 1]]
  OBVIOUS
<1>3. [f[k] EXCEPT ![b] = f[k][b] + 1] \in [Buckets -> Nat]
  BY <1>1
<1> QED
  BY <1>1, <1>2, <1>3

\* The requests at a place are finitely many.
LEMMA HoldingIsFinite ==
    ASSUME NEW at, NEW k, NEW b
    PROVE  /\ IsFiniteSet(Holding(at, k, b))
           /\ Cardinality(Holding(at, k, b)) \in Nat
<1>1. Holding(at, k, b) \subseteq Requests
  BY DEF Holding
<1> QED
  BY <1>1, ContributionAssumption, FS_Subset, FS_CardinalityType

\* A row is never held with a count of zero after its first claim, and a
\* claim that is granted is the row's bucket or a later one.
LEMMA ClaimIsCurrent ==
    ASSUME TypeOK, SlotCounts, NEW r \in Requests, Claimable(r)
    PROVE  /\ claim[r] >= slot[kind[r]].epoch
           /\ Upserted(r) \in [epoch : Buckets, count : Nat]
           /\ Upserted(r).epoch = claim[r]
           /\ Upserted(r).count = granted[kind[r]][claim[r]] + 1
           /\ Upserted(r).count <= Limit(kind[r])
<1> DEFINE k == kind[r]
           b == claim[r]
<1>1. k \in Kinds /\ b \in Buckets /\ slot[k] \in [epoch : Buckets, count : Nat]
  BY DEF TypeOK
<1>2. granted[k][b] \in Nat /\ Limit(k) \in Nat \ {0}
  BY <1>1, ContributionAssumption DEF TypeOK, Limit
<1>3. b \in Nat /\ slot[k].epoch \in Nat /\ slot[k].count \in Nat
  BY <1>1 DEF Buckets
<1>4. /\ slot[k].count = 0 => slot[k].epoch = 0
      /\ b = slot[k].epoch => granted[k][b] = slot[k].count
      /\ b > slot[k].epoch => granted[k][b] = 0
  BY <1>1 DEF SlotCounts
<1>5. \/ slot[k].count = 0
      \/ slot[k].epoch < b
      \/ slot[k].epoch = b /\ slot[k].count < Limit(k)
  BY DEF Claimable
<1>6. b >= slot[k].epoch
  BY <1>3, <1>4, <1>5
<1>7. Upserted(r) = [epoch |-> b,
                     count |-> IF slot[k].count > 0 /\ slot[k].epoch = b
                               THEN slot[k].count + 1 ELSE 1]
  BY DEF Upserted
<1>8. Upserted(r).epoch = b
      /\ Upserted(r).count = IF slot[k].count > 0 /\ slot[k].epoch = b
                             THEN slot[k].count + 1 ELSE 1
  BY <1>7
<1>9. Upserted(r).count \in Nat /\ Upserted(r).count = granted[k][b] + 1
  BY <1>2, <1>3, <1>4, <1>5, <1>6, <1>8
<1>10. Upserted(r).count <= Limit(k)
  BY <1>2, <1>3, <1>4, <1>5, <1>6, <1>8
<1> QED
  BY <1>1, <1>6, <1>7, <1>8, <1>9, <1>10

\* The commit of a claim keeps the row and the committed slots in step, and
\* moves neither back.
LEMMA GrantKeepsCounts ==
    ASSUME TypeOK, SlotCounts, NEW r \in Requests, Claimable(r), Grant(r)
    PROVE  /\ slot' \in [Kinds -> [epoch : Buckets, count : Nat]]
           /\ granted' \in [Kinds -> [Buckets -> Nat]]
           /\ SlotCounts'
           /\ granted'[kind[r]][claim[r]] = granted[kind[r]][claim[r]] + 1
           /\ \A k \in Kinds, b \in Buckets : granted'[k][b] >= granted[k][b]
           /\ \A k \in Kinds :
                 k # kind[r] => slot'[k] = slot[k] /\ granted'[k] = granted[k]
           /\ slot'[kind[r]].epoch > slot[kind[r]].epoch
              \/ /\ slot'[kind[r]].epoch = slot[kind[r]].epoch
                 /\ slot'[kind[r]].count >= slot[kind[r]].count
<1> DEFINE k0 == kind[r]
           b0 == claim[r]
           u == Upserted(r)
<1>1. k0 \in Kinds /\ b0 \in Buckets
  BY DEF TypeOK
<1>2. /\ b0 >= slot[k0].epoch
      /\ u \in [epoch : Buckets, count : Nat]
      /\ u.epoch = b0
      /\ u.count = granted[k0][b0] + 1
      /\ u.count <= Limit(k0)
  BY ClaimIsCurrent
<1>3. slot \in [Kinds -> [epoch : Buckets, count : Nat]]
      /\ granted \in [Kinds -> [Buckets -> Nat]]
  BY DEF TypeOK
<1>4. slot' = [slot EXCEPT ![k0] = u]
      /\ granted' = [granted EXCEPT ![k0][b0] = @ + 1]
  BY DEF Grant
<1> HIDE DEF k0, b0, u
<1>5. /\ slot' \in [Kinds -> [epoch : Buckets, count : Nat]]
      /\ slot'[k0] = u
      /\ \A k \in Kinds : k # k0 => slot'[k] = slot[k]
  BY <1>1, <1>2, <1>3, <1>4
<1>6. /\ granted' \in [Kinds -> [Buckets -> Nat]]
      /\ granted'[k0][b0] = granted[k0][b0] + 1
      /\ \A k \in Kinds, b \in Buckets :
            (k # k0 \/ b # b0) => granted'[k][b] = granted[k][b]
  BY <1>1, <1>3, <1>4, OneMore
<1>7. \A k \in Kinds : k # k0 => granted'[k] = granted[k]
  BY <1>1, <1>3, <1>4
<1>8. \A k \in Kinds, b \in Buckets : granted'[k][b] >= granted[k][b]
  <2> TAKE k \in Kinds, b \in Buckets
  <2>1. granted[k][b] \in Nat
    BY <1>3
  <2> QED
    BY <2>1, <1>6
<1>9. SlotCounts'
  <2> SUFFICES ASSUME NEW k \in Kinds
               PROVE  /\ slot'[k].count = 0 => slot'[k].epoch = 0
                      /\ \A b \in Buckets :
                            /\ granted'[k][b] <= Limit(k)
                            /\ b = slot'[k].epoch => granted'[k][b] = slot'[k].count
                            /\ b > slot'[k].epoch => granted'[k][b] = 0
    BY DEF SlotCounts, Limit
  <2>1. CASE k # k0
    BY <2>1, <1>5, <1>7 DEF SlotCounts
  <2>2. CASE k = k0
    <3>1. slot'[k].count # 0 /\ granted[k][b0] \in Nat
      BY <2>2, <1>1, <1>2, <1>3, <1>5
    <3> SUFFICES ASSUME NEW b \in Buckets
                 PROVE  /\ granted'[k][b] <= Limit(k)
                        /\ b = slot'[k].epoch => granted'[k][b] = slot'[k].count
                        /\ b > slot'[k].epoch => granted'[k][b] = 0
      BY <3>1
    <3>2. CASE b = b0
      <4>1. b0 \in Int
        BY <1>1 DEF Buckets
      <4> QED
        BY <4>1, <3>2, <2>2, <1>2, <1>5, <1>6
    <3>3. CASE b # b0
      <4>1. granted'[k][b] = granted[k][b] /\ granted[k][b] <= Limit(k)
        BY <3>3, <2>2, <1>6 DEF SlotCounts
      <4>2. b > b0 => granted[k][b] = 0
        <5>1. slot[k].epoch \in Int /\ b \in Int /\ b0 \in Int
          BY <1>1, <1>3, <2>2 DEF Buckets
        <5>2. b > slot[k].epoch => granted[k][b] = 0
          BY DEF SlotCounts
        <5> QED
          BY <5>1, <5>2, <1>2, <2>2
      <4> QED
        BY <4>1, <4>2, <3>3, <2>2, <1>2, <1>5
    <3> QED
      BY <3>2, <3>3
  <2> QED
    BY <2>1, <2>2
<1>10. u.epoch > slot[k0].epoch
       \/ (u.epoch = slot[k0].epoch /\ u.count >= slot[k0].count)
  <2>1. slot[k0] \in [epoch : Buckets, count : Nat] /\ granted[k0][b0] \in Nat
    BY <1>1, <1>3
  <2>2. b0 = slot[k0].epoch => granted[k0][b0] = slot[k0].count
    BY <1>1 DEF SlotCounts
  <2>3. slot[k0].epoch \in Int /\ slot[k0].count \in Int /\ b0 \in Int
    BY <2>1, <1>1 DEF Buckets
  <2> QED
    BY <2>1, <2>2, <2>3, <1>2
<1> QED
  BY <1>1, <1>5, <1>6, <1>7, <1>8, <1>9, <1>10 DEF k0, b0, u

\* The values that TypeOK says of the requests are kept by End.
LEMMA EndTypes ==
    ASSUME TypeOK, NEW r \in Requests, End(r)
    PROVE  /\ pc' \in [Requests -> {"idle", "claiming", "claimed", "inserting", "answering"}]
           /\ kind' \in [Requests -> Kinds]
           /\ claim' \in [Requests -> Buckets]
           /\ pc'[r] = "idle"
           /\ \A q \in Requests \ {r} :
                 pc'[q] = pc[q] /\ kind'[q] = kind[q] /\ claim'[q] = claim[q]
<1>1. 0 \in Buckets /\ "feedback" \in Kinds
  BY ContributionAssumption DEF Buckets, Kinds
<1> QED
  BY <1>1 DEF TypeOK, End

\* A place that no request enters holds no more requests than before.
LEMMA HoldingShrinks ==
    ASSUME NEW at, NEW k, NEW b, Holding(at, k, b)' \subseteq Holding(at, k, b)
    PROVE  Cardinality(Holding(at, k, b)') <= Cardinality(Holding(at, k, b))
BY HoldingIsFinite, FS_Subset

\* A place that r leaves holds one request less.
LEMMA HoldingLeft ==
    ASSUME NEW at, NEW k, NEW b, NEW r \in Holding(at, k, b),
           Holding(at, k, b)' \subseteq Holding(at, k, b) \ {r}
    PROVE  Cardinality(Holding(at, k, b)') + 1 <= Cardinality(Holding(at, k, b))
<1> DEFINE H == Holding(at, k, b)
<1>1. IsFiniteSet(H)
  BY HoldingIsFinite
<1>2. IsFiniteSet(H \ {r}) /\ Cardinality(H \ {r}) = Cardinality(H) - 1
  BY <1>1, FS_RemoveElement
<1>3. Cardinality(Holding(at, k, b)') <= Cardinality(H \ {r})
  BY <1>2, FS_Subset
<1>4. Cardinality(H) \in Nat /\ Cardinality(H \ {r}) \in Nat
  BY <1>1, <1>2, FS_CardinalityType
<1>5. IsFiniteSet(Holding(at, k, b)')
  BY <1>2, FS_Subset
<1>6. Cardinality(Holding(at, k, b)') \in Nat
  BY <1>5, FS_CardinalityType
<1> QED
  BY <1>2, <1>3, <1>4, <1>6

\* Adding an element adds at most one to a set's size.
LEMMA AtMostOneMore ==
    ASSUME NEW S, IsFiniteSet(S), NEW x
    PROVE  /\ IsFiniteSet(S \cup {x})
           /\ Cardinality(S \cup {x}) <= Cardinality(S) + 1
<1>1. Cardinality(S) \in Nat
  BY FS_CardinalityType
<1>2. CASE x \in S
  <2>1. S \cup {x} = S
    BY <1>2
  <2>2. Cardinality(S \cup {x}) = Cardinality(S)
    BY <2>1
  <2>3. Cardinality(S \cup {x}) <= Cardinality(S) + 1
    BY <2>2, <1>1
  <2>4. IsFiniteSet(S \cup {x})
    BY <2>1, Zenon
  <2> QED
    BY <2>3, <2>4
<1>3. CASE x \notin S
  BY <1>1, <1>3, FS_AddElement
<1> QED
  BY <1>2, <1>3

\* A place that r alone enters holds at most one request more.
LEMMA HoldingEntered ==
    ASSUME NEW at, NEW k, NEW b, NEW r,
           Holding(at, k, b)' \subseteq Holding(at, k, b) \cup {r}
    PROVE  Cardinality(Holding(at, k, b)') <= Cardinality(Holding(at, k, b)) + 1
<1> DEFINE H == Holding(at, k, b)
<1>1. IsFiniteSet(H) /\ Cardinality(H) \in Nat
  BY HoldingIsFinite
<1>2. IsFiniteSet(H \cup {r})
      /\ Cardinality(H \cup {r}) <= Cardinality(H) + 1
  BY <1>1, AtMostOneMore
<1>3. IsFiniteSet(Holding(at, k, b)')
      /\ Cardinality(Holding(at, k, b)') <= Cardinality(H \cup {r})
  BY <1>2, FS_Subset
<1>4. Cardinality(Holding(at, k, b)') \in Nat /\ Cardinality(H \cup {r}) \in Nat
  BY <1>2, <1>3, FS_CardinalityType
<1> QED
  BY <1>1, <1>2, <1>3, <1>4

\* The row, and the slots committed in it, agree initially and after a step.
LEMMA StepKeepsCounts ==
    ASSUME TypeOK, SlotCounts, LockedClaim, [Next]_vars
    PROVE  /\ slot' \in [Kinds -> [epoch : Buckets, count : Nat]]
           /\ granted' \in [Kinds -> [Buckets -> Nat]]
           /\ SlotCounts'
           /\ \A k \in Kinds, b \in Buckets : granted'[k][b] >= granted[k][b]
           /\ \A k \in Kinds :
                 \/ slot'[k].epoch > slot[k].epoch
                 \/ slot'[k].epoch = slot[k].epoch /\ slot'[k].count >= slot[k].count
<1>1. CASE UNCHANGED <<slot, granted>>
  <2>1. SlotCounts'
    BY <1>1 DEF SlotCounts, Limit
  <2>2. \A k \in Kinds : slot[k].count \in Nat
    BY DEF TypeOK
  <2>3. \A k \in Kinds, b \in Buckets : granted[k][b] \in Nat
    BY DEF TypeOK
  <2>4. /\ slot' \in [Kinds -> [epoch : Buckets, count : Nat]]
        /\ granted' \in [Kinds -> [Buckets -> Nat]]
    BY <1>1 DEF TypeOK
  <2> QED
    BY <1>1, <2>1, <2>2, <2>3, <2>4
<1>2. ASSUME NEW r \in Requests, pc[r] = "claimed", Grant(r)
      PROVE  /\ slot' \in [Kinds -> [epoch : Buckets, count : Nat]]
             /\ granted' \in [Kinds -> [Buckets -> Nat]]
             /\ SlotCounts'
             /\ \A k \in Kinds, b \in Buckets : granted'[k][b] >= granted[k][b]
             /\ \A k \in Kinds :
                   \/ slot'[k].epoch > slot[k].epoch
                   \/ slot'[k].epoch = slot[k].epoch /\ slot'[k].count >= slot[k].count
  <2>1. Claimable(r)
    BY <1>2 DEF LockedClaim
  <2>2. \A k \in Kinds : slot[k].count \in Nat
    BY DEF TypeOK
  <2>3. \A k \in Kinds : k = kind[r] \/ slot'[k] = slot[k]
    BY <1>2, <2>1, GrantKeepsCounts
  <2>4. \/ slot'[kind[r]].epoch > slot[kind[r]].epoch
        \/ /\ slot'[kind[r]].epoch = slot[kind[r]].epoch
           /\ slot'[kind[r]].count >= slot[kind[r]].count
    BY <1>2, <2>1, GrantKeepsCounts
  <2>5. \A k \in Kinds :
           \/ slot'[k].epoch > slot[k].epoch
           \/ slot'[k].epoch = slot[k].epoch /\ slot'[k].count >= slot[k].count
    BY <2>2, <2>3, <2>4
  <2> QED
    BY <1>2, <2>1, <2>5, GrantKeepsCounts
<1>3. \/ UNCHANGED <<slot, granted>>
      \/ \E r \in Requests : pc[r] = "claimed" /\ Grant(r)
  BY DEF Next, Tick, Arrive, Proceed, Fail, Upsert, Refuse, CommitClaim, Insert,
         Answer, ClaimFails, InsertFails, Die, vars
<1> QED
  BY <1>1, <1>2, <1>3

\* A step keeps the types of the other variables.
LEMMA StepKeepsTypes ==
    ASSUME ContributionInv, [Next]_vars
    PROVE  TypeOK'
<1> USE DEF ContributionInv
<1>1. slot' \in [Kinds -> [epoch : Buckets, count : Nat]]
      /\ granted' \in [Kinds -> [Buckets -> Nat]]
  BY StepKeepsCounts
<1>2. CASE UNCHANGED vars
  BY <1>2 DEF TypeOK, vars
<1>3. CASE Tick
  BY <1>3, <1>1, ContributionAssumption DEF TypeOK, Tick, Buckets
<1>4. ASSUME NEW r \in Requests, Arrive(r)
      PROVE  TypeOK'
  BY <1>4, <1>1 DEF TypeOK, Arrive
<1>5. ASSUME NEW r \in Requests, Upsert(r) \/ CommitClaim(r)
      PROVE  TypeOK'
  <2>1. kind[r] \in Kinds /\ lock[kind[r]] \subseteq Requests
    BY DEF TypeOK
  <2>2. lock' \in [Kinds -> SUBSET Requests]
    <3>1. \E L \in SUBSET Requests : lock' = [lock EXCEPT ![kind[r]] = L]
      BY <1>5, <2>1 DEF Upsert, CommitClaim
    <3> QED
      BY <3>1 DEF TypeOK
  <2>3. UNCHANGED <<bucket, stored, accepted, kind, claim>>
    BY <1>5 DEF Upsert, CommitClaim
  <2>4. pc' \in [Requests -> {"idle", "claiming", "claimed", "inserting", "answering"}]
    BY <1>5 DEF Upsert, CommitClaim, TypeOK
  <2> QED
    BY <1>1, <2>2, <2>3, <2>4 DEF TypeOK
<1>6. ASSUME NEW r \in Requests, Refuse(r) \/ ClaimFails(r) \/ Die(r)
      PROVE  TypeOK'
  <2>1. End(r) /\ UNCHANGED <<bucket, stored, accepted>>
    BY <1>6 DEF Refuse, ClaimFails, Die
  <2>2. lock' \in [Kinds -> SUBSET Requests]
    BY <1>6 DEF Refuse, ClaimFails, Die, TypeOK
  <2> QED
    BY <1>1, <2>1, <2>2, EndTypes DEF TypeOK
<1>7. ASSUME NEW r \in Requests, Insert(r) \/ InsertFails(r) \/ Answer(r)
      PROVE  TypeOK'
  <2>1. kind[r] \in Kinds /\ claim[r] \in Buckets
    BY DEF TypeOK
  <2>2. stored' \in [Kinds -> [Buckets -> Nat]]
    <3>1. Store(r) \/ UNCHANGED stored
      BY <1>7 DEF Insert, InsertFails, Answer
    <3>2. stored \in [Kinds -> [Buckets -> Nat]]
      BY DEF TypeOK
    <3>3. CASE UNCHANGED stored
      BY <3>2, <3>3
    <3>4. CASE stored' = [stored EXCEPT ![kind[r]][claim[r]] = @ + 1]
      BY <2>1, <3>2, <3>4, OneMore
    <3> QED
      BY <3>1, <3>3, <3>4 DEF Store
  <2>3. accepted' \in [Kinds -> [Buckets -> Nat]]
    <3>1. \/ accepted' = [accepted EXCEPT ![kind[r]][claim[r]] = @ + 1]
          \/ UNCHANGED accepted
      BY <1>7 DEF Insert, InsertFails, Answer
    <3>2. accepted \in [Kinds -> [Buckets -> Nat]]
      BY DEF TypeOK
    <3>3. CASE UNCHANGED accepted
      BY <3>2, <3>3
    <3>4. CASE accepted' = [accepted EXCEPT ![kind[r]][claim[r]] = @ + 1]
      BY <2>1, <3>2, <3>4, OneMore
    <3> QED
      BY <3>1, <3>3, <3>4
  <2>4. UNCHANGED <<bucket, lock>>
    BY <1>7 DEF Insert, InsertFails, Answer
  <2>5. CASE Insert(r)
    BY <1>1, <2>2, <2>3, <2>4, <2>5 DEF TypeOK, Insert
  <2>6. CASE InsertFails(r) \/ Answer(r)
    <3>1. End(r)
      BY <2>6 DEF InsertFails, Answer
    <3> QED
      BY <1>1, <2>2, <2>3, <2>4, <3>1, EndTypes DEF TypeOK
  <2> QED
    BY <1>7, <2>5, <2>6
<1> QED
  BY <1>2, <1>3, <1>4, <1>5, <1>6, <1>7 DEF Next, Proceed, Fail

\* No step breaks into the decision of the request that holds a row.
LEMMA StepKeepsLocks ==
    ASSUME ContributionInv, [Next]_vars
    PROVE  LockedClaim'
<1> USE DEF ContributionInv
<1>1. CASE UNCHANGED vars \/ Tick
  BY <1>1 DEF LockedClaim, Claimable, vars, Tick, Limit
<1>2. ASSUME NEW r \in Requests, Arrive(r)
      PROVE  LockedClaim'
  BY <1>2 DEF LockedClaim, Claimable, Arrive, TypeOK, Limit
<1>3. ASSUME NEW r \in Requests, Upsert(r)
      PROVE  LockedClaim'
  BY <1>3 DEF LockedClaim, Claimable, Upsert, TypeOK, Limit
<1>4. ASSUME NEW r \in Requests,
             Insert(r) \/ InsertFails(r) \/ Answer(r) \/ Refuse(r)
      PROVE  LockedClaim'
  <2>1. UNCHANGED <<slot, lock>> /\ pc[r] # "claimed" /\ pc'[r] # "claimed"
    BY <1>4 DEF Insert, InsertFails, Answer, Refuse, End, TypeOK
  <2>2. \A q \in Requests \ {r} :
           pc'[q] = pc[q] /\ kind'[q] = kind[q] /\ claim'[q] = claim[q]
    BY <1>4 DEF Insert, InsertFails, Answer, Refuse, End, TypeOK
  <2> QED
    BY <2>1, <2>2 DEF LockedClaim, Claimable, Limit
<1>5. ASSUME NEW r \in Requests, CommitClaim(r) \/ ClaimFails(r) \/ Die(r)
      PROVE  LockedClaim'
  <2>1. /\ pc'[r] # "claimed"
        /\ \A q \in Requests \ {r} :
              pc'[q] = pc[q] /\ kind'[q] = kind[q] /\ claim'[q] = claim[q]
    BY <1>5 DEF CommitClaim, ClaimFails, Die, End, TypeOK
  <2>2. \A k \in Kinds : r \in lock[k] => pc[r] = "claimed" /\ kind[r] = k
    BY DEF LockedClaim
  <2>3. \A k \in Kinds : lock'[k] = lock[k] \ {r}
    <3>1. CASE Die(r)
      BY <3>1 DEF Die
    <3>2. CASE CommitClaim(r) \/ ClaimFails(r)
      <4>1. lock' = [lock EXCEPT ![kind[r]] = lock[kind[r]] \ {r}]
        BY <3>2 DEF CommitClaim, ClaimFails
      <4>2. \A k \in Kinds : k # kind[r] => lock[k] = lock[k] \ {r}
        BY <2>2
      <4> QED
        BY <4>1, <4>2 DEF TypeOK
    <3> QED
      BY <1>5, <3>1, <3>2
  <2>4. ASSUME NEW q \in Requests, pc'[q] = "claimed"
        PROVE  /\ lock'[kind'[q]] = {q}
               /\ Claimable(q)'
    <3>1. q # r /\ pc[q] = "claimed" /\ kind'[q] = kind[q] /\ claim'[q] = claim[q]
      BY <2>1, <2>4
    <3>2. lock[kind[q]] = {q} /\ Claimable(q) /\ kind[q] \in Kinds
      BY <3>1 DEF LockedClaim, TypeOK
    <3>3. slot'[kind[q]] = slot[kind[q]]
      <4>1. CASE UNCHANGED slot
        BY <4>1
      <4>2. CASE pc[r] = "claimed" /\ Grant(r)
        <5>1. lock[kind[r]] = {r}
          BY <4>2 DEF LockedClaim
        <5>2. kind[r] # kind[q]
          BY <5>1, <3>1, <3>2
        <5> QED
          BY <5>2, <4>2, <3>2 DEF Grant, TypeOK
      <4> QED
        BY <1>5, <4>1, <4>2 DEF CommitClaim, ClaimFails, Die
    <3> QED
      BY <2>3, <3>1, <3>2, <3>3 DEF Claimable, Limit
  <2> QED
    BY <2>1, <2>2, <2>3, <2>4 DEF LockedClaim
<1> QED
  BY <1>1, <1>2, <1>3, <1>4, <1>5 DEF Next, Proceed, Fail

\* A step stores a contribution only on a slot of its own.
LEMMA StepKeepsSlots ==
    ASSUME ContributionInv, [Next]_vars
    PROVE  SlotPerContribution'
<1> DEFINE I(k, b) == Holding("inserting", k, b)
           A(k, b) == Holding("answering", k, b)
<1> USE DEF ContributionInv
<1>1. \A k \in Kinds, b \in Buckets :
         /\ granted[k][b] \in Nat /\ stored[k][b] \in Nat /\ accepted[k][b] \in Nat
         /\ stored[k][b] + Cardinality(I(k, b)) <= granted[k][b]
         /\ accepted[k][b] + Cardinality(A(k, b)) <= stored[k][b]
  BY DEF TypeOK, SlotPerContribution
<1>2. /\ granted' \in [Kinds -> [Buckets -> Nat]]
      /\ \A k \in Kinds, b \in Buckets : granted'[k][b] >= granted[k][b]
  BY StepKeepsCounts
<1>3. TypeOK'
  BY StepKeepsTypes
<1>4. \A k, b : /\ Cardinality(I(k, b)) \in Nat /\ Cardinality(A(k, b)) \in Nat
  BY HoldingIsFinite
<1>5. \A k, b : /\ Cardinality(I(k, b)') \in Nat /\ Cardinality(A(k, b)') \in Nat
  <2> TAKE k, b
  <2>1. I(k, b)' \subseteq Requests /\ A(k, b)' \subseteq Requests
    BY DEF Holding
  <2> QED
    BY <2>1, ContributionAssumption, FS_Subset, FS_CardinalityType
<1> SUFFICES ASSUME NEW k \in Kinds, NEW b \in Buckets
             PROVE  /\ stored'[k][b] + Cardinality(I(k, b)') <= granted'[k][b]
                    /\ accepted'[k][b] + Cardinality(A(k, b)') <= stored'[k][b]
  BY DEF SlotPerContribution, Buckets
<1>6. /\ granted[k][b] \in Nat /\ stored[k][b] \in Nat /\ accepted[k][b] \in Nat
      /\ granted'[k][b] \in Nat /\ granted'[k][b] >= granted[k][b]
      /\ stored[k][b] + Cardinality(I(k, b)) <= granted[k][b]
      /\ accepted[k][b] + Cardinality(A(k, b)) <= stored[k][b]
      /\ Cardinality(I(k, b)) \in Nat /\ Cardinality(A(k, b)) \in Nat
      /\ Cardinality(I(k, b)') \in Nat /\ Cardinality(A(k, b)') \in Nat
  BY <1>1, <1>2, <1>4, <1>5
<1>7. CASE /\ UNCHANGED <<stored, accepted>>
           /\ I(k, b)' \subseteq I(k, b) /\ A(k, b)' \subseteq A(k, b)
  <2>1. Cardinality(I(k, b)') <= Cardinality(I(k, b))
        /\ Cardinality(A(k, b)') <= Cardinality(A(k, b))
    BY <1>7, HoldingShrinks
  <2> QED
    BY <1>6, <1>7, <2>1
<1>8. CASE UNCHANGED vars \/ Tick
  <2>1. I(k, b)' = I(k, b) /\ A(k, b)' = A(k, b) /\ UNCHANGED <<stored, accepted>>
    BY <1>8 DEF Holding, vars, Tick
  <2> QED
    BY <2>1, <1>7
<1>9. ASSUME NEW r \in Requests,
             Arrive(r) \/ Upsert(r) \/ Refuse(r) \/ ClaimFails(r) \/ Die(r)
      PROVE  /\ stored'[k][b] + Cardinality(I(k, b)') <= granted'[k][b]
             /\ accepted'[k][b] + Cardinality(A(k, b)') <= stored'[k][b]
  <2>1. /\ UNCHANGED <<stored, accepted>>
        /\ pc'[r] \notin {"inserting", "answering"}
        /\ \A q \in Requests \ {r} :
              pc'[q] = pc[q] /\ kind'[q] = kind[q] /\ claim'[q] = claim[q]
    BY <1>9 DEF Arrive, Upsert, Refuse, ClaimFails, Die, End, TypeOK
  <2>2. I(k, b)' \subseteq I(k, b) /\ A(k, b)' \subseteq A(k, b)
    BY <2>1 DEF Holding
  <2> QED
    BY <2>1, <2>2, <1>7
<1>10. ASSUME NEW r \in Requests,
              CommitClaim(r) \/ Insert(r) \/ InsertFails(r) \/ Answer(r),
              ~(kind[r] = k /\ claim[r] = b)
       PROVE  /\ stored'[k][b] + Cardinality(I(k, b)') <= granted'[k][b]
              /\ accepted'[k][b] + Cardinality(A(k, b)') <= stored'[k][b]
  <2>1. /\ kind[r] \in Kinds /\ claim[r] \in Buckets
        /\ \A q \in Requests \ {r} :
              pc'[q] = pc[q] /\ kind'[q] = kind[q] /\ claim'[q] = claim[q]
        /\ \/ kind'[r] = kind[r] /\ claim'[r] = claim[r]
           \/ pc'[r] = "idle"
    BY <1>10 DEF CommitClaim, Insert, InsertFails, Answer, End, TypeOK
  <2>2. I(k, b)' \subseteq I(k, b) /\ A(k, b)' \subseteq A(k, b)
    BY <2>1, <1>10 DEF Holding
  <2>3. /\ Store(r) \/ UNCHANGED stored
        /\ \/ accepted' = [accepted EXCEPT ![kind[r]][claim[r]] = @ + 1]
           \/ UNCHANGED accepted
    BY <1>10 DEF CommitClaim, Insert, InsertFails, Answer
  <2>4. stored \in [Kinds -> [Buckets -> Nat]] /\ accepted \in [Kinds -> [Buckets -> Nat]]
    BY DEF TypeOK
  <2>5. stored'[k][b] = stored[k][b]
    <3>1. CASE UNCHANGED stored
      BY <3>1
    <3>2. CASE stored' = [stored EXCEPT ![kind[r]][claim[r]] = @ + 1]
      BY <3>2, <2>1, <2>4, <1>10, OneMore
    <3> QED
      BY <2>3, <3>1, <3>2 DEF Store
  <2>6. accepted'[k][b] = accepted[k][b]
    <3>1. CASE UNCHANGED accepted
      BY <3>1
    <3>2. CASE accepted' = [accepted EXCEPT ![kind[r]][claim[r]] = @ + 1]
      BY <3>2, <2>1, <2>4, <1>10, OneMore
    <3> QED
      BY <2>3, <3>1, <3>2
  <2>7. Cardinality(I(k, b)') <= Cardinality(I(k, b))
        /\ Cardinality(A(k, b)') <= Cardinality(A(k, b))
    BY <2>2, HoldingShrinks
  <2> QED
    BY <1>6, <2>5, <2>6, <2>7
<1>11. ASSUME NEW r \in Requests, kind[r] = k, claim[r] = b, CommitClaim(r)
       PROVE  /\ stored'[k][b] + Cardinality(I(k, b)') <= granted'[k][b]
              /\ accepted'[k][b] + Cardinality(A(k, b)') <= stored'[k][b]
  <2>1. I(k, b)' \subseteq I(k, b) \cup {r} /\ A(k, b)' \subseteq A(k, b)
    BY <1>11 DEF CommitClaim, Holding, TypeOK
  <2>2. Cardinality(I(k, b)') <= Cardinality(I(k, b)) + 1
        /\ Cardinality(A(k, b)') <= Cardinality(A(k, b))
    BY <2>1, HoldingEntered, HoldingShrinks
  <2>3. Claimable(r)
    BY <1>11 DEF CommitClaim, LockedClaim
  <2>4. granted'[k][b] = granted[k][b] + 1
    BY <1>11, <2>3, GrantKeepsCounts DEF CommitClaim
  <2>5. UNCHANGED <<stored, accepted>>
    BY <1>11 DEF CommitClaim
  <2> QED
    BY <1>6, <2>2, <2>4, <2>5
<1>12. ASSUME NEW r \in Requests, kind[r] = k, claim[r] = b,
              Insert(r) \/ InsertFails(r)
       PROVE  /\ stored'[k][b] + Cardinality(I(k, b)') <= granted'[k][b]
              /\ accepted'[k][b] + Cardinality(A(k, b)') <= stored'[k][b]
  <2>1. r \in I(k, b)
    BY <1>12 DEF Insert, InsertFails, Holding
  <2>2. I(k, b)' \subseteq I(k, b) \ {r} /\ A(k, b)' \subseteq A(k, b) \cup {r}
    BY <1>12 DEF Insert, InsertFails, End, Holding, TypeOK
  <2>3. Cardinality(I(k, b)') + 1 <= Cardinality(I(k, b))
    BY <2>1, <2>2, HoldingLeft
  <2>4. CASE UNCHANGED stored /\ InsertFails(r)
    <3>1. A(k, b)' \subseteq A(k, b) /\ UNCHANGED accepted
      BY <2>4 DEF InsertFails, End, Holding, TypeOK
    <3>2. Cardinality(A(k, b)') <= Cardinality(A(k, b))
      BY <3>1, HoldingShrinks
    <3> QED
      BY <1>6, <2>3, <2>4, <3>1, <3>2
  <2>5. CASE Store(r)
    <3>1. Cardinality(A(k, b)') <= Cardinality(A(k, b)) + 1
      BY <2>2, HoldingEntered
    <3>2. stored'[k][b] = stored[k][b] + 1
      <4>1. stored \in [Kinds -> [Buckets -> Nat]]
        BY DEF TypeOK
      <4>2. stored' = [stored EXCEPT ![k][b] = @ + 1]
        BY <2>5, <1>12 DEF Store
      <4> QED
        BY <4>1, <4>2, OneMore
    <3>3. UNCHANGED accepted
      BY <1>12 DEF Insert, InsertFails
    <3> QED
      BY <1>6, <2>3, <3>1, <3>2, <3>3
  <2> QED
    BY <1>12, <2>4, <2>5 DEF Insert, InsertFails
<1>13. ASSUME NEW r \in Requests, kind[r] = k, claim[r] = b, Answer(r)
       PROVE  /\ stored'[k][b] + Cardinality(I(k, b)') <= granted'[k][b]
              /\ accepted'[k][b] + Cardinality(A(k, b)') <= stored'[k][b]
  <2>1. r \in A(k, b)
    BY <1>13 DEF Answer, Holding
  <2>2. A(k, b)' \subseteq A(k, b) \ {r} /\ I(k, b)' \subseteq I(k, b)
    BY <1>13 DEF Answer, End, Holding, TypeOK
  <2>3. Cardinality(A(k, b)') + 1 <= Cardinality(A(k, b))
        /\ Cardinality(I(k, b)') <= Cardinality(I(k, b))
    BY <2>1, <2>2, HoldingLeft, HoldingShrinks
  <2>4. accepted'[k][b] = accepted[k][b] + 1
    <3>1. accepted \in [Kinds -> [Buckets -> Nat]]
      BY DEF TypeOK
    <3>2. accepted' = [accepted EXCEPT ![k][b] = @ + 1]
      BY <1>13 DEF Answer
    <3> QED
      BY <3>1, <3>2, OneMore
  <2>5. UNCHANGED stored
    BY <1>13 DEF Answer
  <2> QED
    BY <1>6, <2>3, <2>4, <2>5
<1> QED
  BY <1>8, <1>9, <1>10, <1>11, <1>12, <1>13 DEF Next, Proceed, Fail

\* ContributionInv is an invariant: the rate limit's row and the stored
\* contributions stay in step through every interleaving, failure and stop.
THEOREM ContributionInvariant == Spec => []ContributionInv
<1>1. Init => ContributionInv
  <2> SUFFICES ASSUME Init PROVE ContributionInv
    OBVIOUS
  <2>1. 0 \in Buckets /\ "feedback" \in Kinds
    BY ContributionAssumption DEF Buckets, Kinds
  <2>2. TypeOK
    BY <2>1 DEF Init, TypeOK, None
  <2>3. SlotCounts
    BY ContributionAssumption DEF Init, SlotCounts, None, Limit, Buckets
  <2>4. LockedClaim
    BY DEF Init, LockedClaim
  <2>5. SlotPerContribution
    <3>1. \A k, b : Holding("inserting", k, b) = {} /\ Holding("answering", k, b) = {}
      BY DEF Init, Holding
    <3>2. \A k, b : /\ Cardinality(Holding("inserting", k, b)) = 0
                    /\ Cardinality(Holding("answering", k, b)) = 0
      BY <3>1, FS_EmptySet
    <3>3. \A k \in Kinds, b \in Buckets :
             granted[k][b] = 0 /\ stored[k][b] = 0 /\ accepted[k][b] = 0
      BY DEF Init, None
    <3> QED
      BY <3>2, <3>3 DEF SlotPerContribution
  <2> QED
    BY <2>2, <2>3, <2>4, <2>5 DEF ContributionInv
<1>2. ContributionInv /\ [Next]_vars => ContributionInv'
  <2> SUFFICES ASSUME ContributionInv, [Next]_vars PROVE ContributionInv'
    OBVIOUS
  <2>1. SlotCounts'
    BY StepKeepsCounts DEF ContributionInv
  <2> QED
    BY <2>1, StepKeepsTypes, StepKeepsLocks, StepKeepsSlots DEF ContributionInv
<1> QED
  BY <1>1, <1>2, PTL DEF Spec

\* No bucket of a kind ever holds more contributions than the limit.
THEOREM LimitIsKept == Spec => []LimitKept
<1>1. ContributionInv => LimitKept
  <2> SUFFICES ASSUME ContributionInv, NEW k \in Kinds, NEW b \in Buckets
               PROVE  stored[k][b] <= Limit(k)
    BY DEF LimitKept
  <2>1. /\ stored[k][b] \in Nat /\ granted[k][b] \in Nat
        /\ Cardinality(Holding("inserting", k, b)) \in Nat
        /\ Limit(k) \in Nat
    BY HoldingIsFinite, ContributionAssumption DEF ContributionInv, TypeOK, Limit
  <2>2. /\ stored[k][b] + Cardinality(Holding("inserting", k, b)) <= granted[k][b]
        /\ granted[k][b] <= Limit(k)
    BY DEF ContributionInv, SlotPerContribution, SlotCounts
  <2> QED
    BY <2>1, <2>2
<1> QED
  BY <1>1, ContributionInvariant, PTL

\* Every 202 stands for a stored contribution.
THEOREM AnswersAreBacked == Spec => []AcceptedIsStored
<1>1. ContributionInv => AcceptedIsStored
  <2> SUFFICES ASSUME ContributionInv, NEW k \in Kinds, NEW b \in Buckets
               PROVE  accepted[k][b] <= stored[k][b]
    BY DEF AcceptedIsStored
  <2>1. /\ accepted[k][b] \in Nat /\ stored[k][b] \in Nat
        /\ Cardinality(Holding("answering", k, b)) \in Nat
    BY HoldingIsFinite DEF ContributionInv, TypeOK
  <2>2. accepted[k][b] + Cardinality(Holding("answering", k, b)) <= stored[k][b]
    BY DEF ContributionInv, SlotPerContribution
  <2> QED
    BY <2>1, <2>2
<1> QED
  BY <1>1, ContributionInvariant, PTL

\* A row's bucket never turns back, and within a bucket its count only grows.
THEOREM SlotsAreNeverReclaimed == Spec => SlotsNeverReclaimed
<1>1. ContributionInv /\ [Next]_vars =>
         [\A k \in Kinds :
             \/ slot'[k].epoch > slot[k].epoch
             \/ slot'[k].epoch = slot[k].epoch /\ slot'[k].count >= slot[k].count]_vars
  BY StepKeepsCounts DEF ContributionInv
<1> QED
  BY <1>1, ContributionInvariant, PTL DEF Spec, SlotsNeverReclaimed

=============================================================================
