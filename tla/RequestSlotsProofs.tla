------------------------- MODULE RequestSlotsProofs -------------------------
(***************************************************************************)
(* Proofs about what asks the server from the page.  RequestSlots, for any *)
(* number of tasks, signals and slots: SlotInv is inductive, the slots     *)
(* implement a semaphore, and their queue is first come, first served.     *)
(* CafeSearch, for any queries, filters, origins and bounds: SearchInv is  *)
(* inductive.                                                              *)
(***************************************************************************)
EXTENDS MCRequests, FiniteSetTheorems, TLAPS

\* The holders are finitely many.
LEMMA HoldersAreFinite ==
    IsFiniteSet(Holders) /\ Cardinality(Holders) \in Nat
<1>1. Holders \subseteq Tasks
  BY DEF Holders
<1> QED
  BY <1>1, SlotAssumption, FS_Subset, FS_CardinalityType

\* What a release does to the holders: the slot is free, or its next owner is
\* a task that waited.
LEMMA ReleaseFreesOrHandsOver ==
    ASSUME SlotInv, NEW t \in Holders, Release(t)
    PROVE  \/ /\ requestWaiters = {}
              /\ Holders' = Holders \ {t}
              /\ activeRequestCount' = activeRequestCount - 1
              /\ requestWaiters' = {}
           \/ \E u \in requestWaiters :
                 /\ u \in Tasks \ Holders
                 /\ Holders' = (Holders \ {t}) \cup {u}
                 /\ UNCHANGED activeRequestCount
                 /\ requestWaiters' = requestWaiters \ {u}
<1>1. t \in Tasks /\ pc \in [Tasks -> {"new", "waiting", "granted", "fetching", "done", "rejected"}]
  BY DEF Holders, SlotInv, TypeOK
<1>2. CASE /\ requestWaiters = {}
           /\ activeRequestCount' = activeRequestCount - 1
           /\ pc' = [pc EXCEPT ![t] = "done"]
           /\ UNCHANGED requestWaiters
  <2>1. Holders' = Holders \ {t}
    BY <1>1, <1>2 DEF Holders
  <2> QED
    BY <1>2, <2>1
<1>3. ASSUME NEW u \in requestWaiters,
             requestWaiters' = requestWaiters \ {u},
             pc' = [pc EXCEPT ![t] = "done", ![u] = "granted"],
             UNCHANGED activeRequestCount
      PROVE  /\ u \in Tasks \ Holders
             /\ Holders' = (Holders \ {t}) \cup {u}
  <2>1. u \in Tasks /\ pc[u] = "waiting"
    BY DEF SlotInv, QueueIsExact
  <2>2. u \notin Holders /\ u # t
    BY <2>1 DEF Holders
  <2>3. /\ pc'[u] = "granted" /\ pc'[t] = "done"
        /\ \A v \in Tasks \ {t, u} : pc'[v] = pc[v]
    BY <1>1, <1>3, <2>1, <2>2
  <2>4. Holders' = (Holders \ {t}) \cup {u}
    BY <2>1, <2>2, <2>3, <1>1 DEF Holders
  <2> QED
    BY <2>1, <2>2, <2>4
<1> QED
  BY <1>2, <1>3 DEF Release

\* The count follows the holders, and the queue the waiting tasks.
LEMMA ReleaseKeepsInv ==
    ASSUME SlotInv, NEW t \in Holders, Release(t), UNCHANGED <<ahead, aborted>>
    PROVE  SlotInv'
<1>1. /\ t \in Tasks /\ requestWaiters \subseteq Tasks
      /\ pc \in [Tasks -> {"new", "waiting", "granted", "fetching", "done", "rejected"}]
      /\ activeRequestCount = Cardinality(Holders)
      /\ activeRequestCount \in 0..MaxConcurrentRequests
      /\ requestWaiters = {u \in Tasks : pc[u] = "waiting"}
  BY DEF Holders, SlotInv, TypeOK, CountIsExact, QueueIsExact
<1>2. IsFiniteSet(Holders) /\ Cardinality(Holders) \in Nat
  BY HoldersAreFinite
<1>3. IsFiniteSet(Holders \ {t}) /\ Cardinality(Holders \ {t}) = Cardinality(Holders) - 1
  BY <1>2, FS_RemoveElement
<1>4. Cardinality(Holders \ {t}) \in Nat
  BY <1>3, FS_CardinalityType
<1>5. /\ activeRequestCount' \in 0..MaxConcurrentRequests
      /\ activeRequestCount' = Cardinality(Holders')
      /\ requestWaiters' \subseteq requestWaiters
      /\ requestWaiters' # {} => activeRequestCount' = MaxConcurrentRequests
  <2>1. CASE /\ requestWaiters = {}
             /\ Holders' = Holders \ {t}
             /\ activeRequestCount' = activeRequestCount - 1
             /\ requestWaiters' = {}
    BY <1>1, <1>3, <1>4, <2>1, SlotAssumption
  <2>2. ASSUME NEW u \in requestWaiters,
               /\ u \in Tasks \ Holders
               /\ Holders' = (Holders \ {t}) \cup {u}
               /\ UNCHANGED activeRequestCount
               /\ requestWaiters' = requestWaiters \ {u}
        PROVE  /\ activeRequestCount' \in 0..MaxConcurrentRequests
               /\ activeRequestCount' = Cardinality(Holders')
               /\ requestWaiters' \subseteq requestWaiters
               /\ requestWaiters' # {} => activeRequestCount' = MaxConcurrentRequests
    <3>1. Cardinality((Holders \ {t}) \cup {u}) = Cardinality(Holders \ {t}) + 1
      BY <2>2, <1>3, FS_AddElement
    <3>2. Cardinality(Holders') = activeRequestCount
      BY <3>1, <2>2, <1>1, <1>2, <1>3
    <3>3. activeRequestCount = MaxConcurrentRequests
      BY DEF SlotInv, WaitOnlyWhenFull
    <3> QED
      BY <2>2, <3>2, <3>3, <1>1
  <2> QED
    BY <2>1, <2>2, ReleaseFreesOrHandsOver
<1>6. /\ pc' \in [Tasks -> {"new", "waiting", "granted", "fetching", "done", "rejected"}]
      /\ requestWaiters' = {u \in Tasks : pc'[u] = "waiting"}
  <2>1. pc[t] # "waiting"
    BY DEF Holders
  <2>2. CASE /\ requestWaiters = {}
             /\ pc' = [pc EXCEPT ![t] = "done"]
             /\ UNCHANGED requestWaiters
    BY <2>1, <2>2, <1>1
  <2>3. ASSUME NEW u \in requestWaiters,
               requestWaiters' = requestWaiters \ {u},
               pc' = [pc EXCEPT ![t] = "done", ![u] = "granted"]
        PROVE  /\ pc' \in [Tasks -> {"new", "waiting", "granted", "fetching", "done", "rejected"}]
               /\ requestWaiters' = {v \in Tasks : pc'[v] = "waiting"}
    <3>1. u \in Tasks /\ u # t
      BY <2>1, <1>1
    <3>2. /\ pc' \in [Tasks -> {"new", "waiting", "granted", "fetching", "done", "rejected"}]
          /\ pc'[u] = "granted" /\ pc'[t] = "done"
          /\ \A v \in Tasks \ {t, u} : pc'[v] = pc[v]
      BY <1>1, <2>3, <3>1
    <3> QED
      BY <1>1, <2>1, <2>3, <3>1, <3>2
  <2> QED
    BY <2>2, <2>3 DEF Release
<1>7. aborted' \subseteq Signals /\ ahead' \in [Tasks -> SUBSET Tasks]
  BY DEF SlotInv, TypeOK
<1> QED
  BY <1>1, <1>5, <1>6, <1>7 DEF SlotInv, TypeOK, CountIsExact, QueueIsExact, WaitOnlyWhenFull

\* SlotInv is an invariant: at most MAX_CONCURRENT_REQUESTS fetches are open,
\* no abort or failure leaks a slot, and nobody waits while one is free.
THEOREM SlotInvariant == Spec => []SlotInv
<1>1. Init => SlotInv
  <2> SUFFICES ASSUME Init PROVE SlotInv
    OBVIOUS
  <2>1. Holders = {}
    BY DEF Init, Holders
  <2>2. CountIsExact
    BY <2>1, FS_EmptySet DEF Init, CountIsExact
  <2>3. TypeOK
    BY SlotAssumption DEF Init, TypeOK
  <2> QED
    BY <2>2, <2>3 DEF Init, SlotInv, QueueIsExact, WaitOnlyWhenFull
<1>2. SlotInv /\ [Next]_vars => SlotInv'
  <2> SUFFICES ASSUME SlotInv, [Next]_vars PROVE SlotInv'
    OBVIOUS
  <2>0. /\ activeRequestCount = Cardinality(Holders)
        /\ activeRequestCount \in Nat
        /\ activeRequestCount <= MaxConcurrentRequests
        /\ MaxConcurrentRequests \in Nat
        /\ TypeOK /\ QueueIsExact /\ WaitOnlyWhenFull
    BY SlotAssumption DEF SlotInv, TypeOK, CountIsExact
  <2>1. CASE UNCHANGED vars \/ Over
    <3>1. UNCHANGED vars
      BY <2>1 DEF Over
    <3> QED
      BY <3>1 DEF vars, SlotInv, TypeOK, CountIsExact, QueueIsExact, WaitOnlyWhenFull, Holders
  <2>2. ASSUME NEW t \in Tasks, AcquireRejected(t) \/ Start(t)
        PROVE  SlotInv'
    <3>1. Holders' = Holders
      BY <2>0, <2>2 DEF AcquireRejected, Start, Holders, TypeOK
    <3>2. TypeOK' /\ QueueIsExact' /\ WaitOnlyWhenFull'
      BY <2>0, <2>2 DEF AcquireRejected, Start, TypeOK, QueueIsExact, WaitOnlyWhenFull
    <3>3. UNCHANGED activeRequestCount
      BY <2>2 DEF AcquireRejected, Start
    <3> QED
      BY <2>0, <3>1, <3>2, <3>3 DEF SlotInv, CountIsExact
  <2>3. ASSUME NEW t \in Tasks, AcquireFree(t)
        PROVE  SlotInv'
    <3>1. t \notin Holders /\ Holders' = Holders \cup {t}
      BY <2>0, <2>3 DEF AcquireFree, Holders, TypeOK
    <3>2. Cardinality(Holders') = Cardinality(Holders) + 1
      BY <3>1, HoldersAreFinite, FS_AddElement
    <3>3. CountIsExact'
      BY <2>0, <2>3, <3>2 DEF AcquireFree, CountIsExact
    <3>4. TypeOK'
      BY <2>0, <2>3 DEF AcquireFree, TypeOK
    <3>5. QueueIsExact'
      BY <2>0, <2>3 DEF AcquireFree, QueueIsExact, TypeOK
    <3>6. WaitOnlyWhenFull'
      BY <2>0, <2>3 DEF AcquireFree, WaitOnlyWhenFull
    <3> QED
      BY <3>3, <3>4, <3>5, <3>6 DEF SlotInv
  <2>4. ASSUME NEW t \in Tasks, AcquireWait(t)
        PROVE  SlotInv'
    <3>1. Holders' = Holders /\ UNCHANGED activeRequestCount
      BY <2>0, <2>4 DEF AcquireWait, Holders, TypeOK
    <3>2. TypeOK'
      BY <2>0, <2>4 DEF AcquireWait, TypeOK
    <3>3. QueueIsExact'
      BY <2>0, <2>4 DEF AcquireWait, QueueIsExact, TypeOK
    <3>4. WaitOnlyWhenFull'
      BY <2>0, <2>4 DEF AcquireWait, WaitOnlyWhenFull
    <3> QED
      BY <2>0, <3>1, <3>2, <3>3, <3>4 DEF SlotInv, CountIsExact
  <2>5. ASSUME NEW t \in Tasks, GrantedAborted(t) \/ FetchSettles(t)
        PROVE  SlotInv'
    <3>1. t \in Holders /\ Release(t) /\ UNCHANGED <<ahead, aborted>>
      BY <2>5 DEF GrantedAborted, FetchSettles, Holders
    <3> QED
      BY <3>1, ReleaseKeepsInv
  <2>6. ASSUME NEW s \in Signals, Abort(s)
        PROVE  SlotInv'
    <3>1. Holders' = Holders /\ UNCHANGED activeRequestCount
      BY <2>0, <2>6 DEF Abort, Holders, TypeOK
    <3>2. TypeOK'
      BY <2>0, <2>6 DEF Abort, TypeOK
    <3>3. QueueIsExact'
      BY <2>0, <2>6 DEF Abort, QueueIsExact, TypeOK
    <3>4. WaitOnlyWhenFull'
      BY <2>0, <2>6 DEF Abort, WaitOnlyWhenFull
    <3> QED
      BY <2>0, <3>1, <3>2, <3>3, <3>4 DEF SlotInv, CountIsExact
  <2> QED
    BY <2>1, <2>2, <2>3, <2>4, <2>5, <2>6 DEF Next, Acquire, Resume
<1> QED
  BY <1>1, <1>2, PTL DEF Spec

\* Every step of the slots is a step of a semaphore, or leaves the holders.
THEOREM SlotsAreSemaphore == Spec => IsSemaphore
<1>1. Init => Sem!Init
  BY DEF Init, Sem!Init, Holders
<1>2. SlotInv /\ [Next]_vars => [Sem!Next]_Holders
  <2> SUFFICES ASSUME SlotInv, [Next]_vars PROVE [Sem!Next]_Holders
    OBVIOUS
  <2>0. TypeOK /\ activeRequestCount = Cardinality(Holders)
    BY DEF SlotInv, CountIsExact
  <2>1. CASE UNCHANGED vars \/ Over
    BY <2>1 DEF Over, vars, Holders
  <2>2. ASSUME NEW t \in Tasks, AcquireRejected(t) \/ Start(t) \/ AcquireWait(t)
        PROVE  UNCHANGED Holders
    BY <2>0, <2>2 DEF AcquireRejected, Start, AcquireWait, Holders, TypeOK
  <2>3. ASSUME NEW t \in Tasks, AcquireFree(t)
        PROVE  Sem!Take(t)
    <3>1. t \notin Holders /\ Holders' = Holders \cup {t}
      BY <2>0, <2>3 DEF AcquireFree, Holders, TypeOK
    <3>2. Cardinality(Holders) < MaxConcurrentRequests
      BY <2>0, <2>3 DEF AcquireFree
    <3>3. Sem!Cardinality(Holders) = Cardinality(Holders)
      BY DEF Sem!Cardinality, Cardinality
    <3> QED
      BY <3>1, <3>2, <3>3 DEF Sem!Take
  <2>4. ASSUME NEW t \in Tasks, GrantedAborted(t) \/ FetchSettles(t)
        PROVE  Sem!Next
    <3>1. t \in Holders /\ Release(t)
      BY <2>4 DEF GrantedAborted, FetchSettles, Holders
    <3>2. CASE Holders' = Holders \ {t}
      BY <3>1, <3>2 DEF Sem!Next, Sem!Release
    <3>3. ASSUME NEW u \in Tasks \ Holders, Holders' = (Holders \ {t}) \cup {u}
          PROVE  Sem!Next
      BY <3>1, <3>3 DEF Sem!Next, Sem!HandOver
    <3> QED
      BY <3>1, <3>2, <3>3, ReleaseFreesOrHandsOver
  <2>5. ASSUME NEW s \in Signals, Abort(s)
        PROVE  UNCHANGED Holders
    BY <2>0, <2>5 DEF Abort, Holders, TypeOK
  <2> QED
    BY <2>1, <2>2, <2>3, <2>4, <2>5 DEF Next, Acquire, Resume, Sem!Next
<1> QED
  BY <1>1, <1>2, SlotInvariant, PTL DEF Spec, IsSemaphore, Sem!Spec

\* A waiter is granted its slot only when every earlier waiter has left: the
\* queue is exact, and a release wakes the first of it.
THEOREM FirstComeIsFirstServed == Spec => FirstComeFirstServed
<1>1. SlotInv /\ [Next]_vars =>
         [\A t, u \in Tasks :
             /\ pc[t] = "waiting" /\ pc'[t] = "granted"
             /\ pc[u] = "waiting" /\ u \in ahead[t]
             => pc'[u] # "waiting"]_vars
  <2> SUFFICES ASSUME SlotInv, [Next]_vars, NEW t \in Tasks, NEW u \in Tasks,
                      pc[t] = "waiting", pc'[t] = "granted",
                      pc[u] = "waiting", u \in ahead[t], pc'[u] = "waiting"
               PROVE  FALSE
    OBVIOUS
  <2>0. TypeOK /\ QueueIsExact
    BY DEF SlotInv
  <2>1. CASE UNCHANGED vars \/ Over
    BY <2>1 DEF Over, vars
  <2>2. ASSUME NEW v \in Tasks, Acquire(v) \/ Start(v)
        PROVE  FALSE
    BY <2>0, <2>2 DEF Acquire, AcquireRejected, AcquireFree, AcquireWait, Start, TypeOK
  <2>3. ASSUME NEW v \in Tasks, GrantedAborted(v) \/ FetchSettles(v)
        PROVE  FALSE
    <3>1. Release(v) /\ pc[v] # "waiting"
      BY <2>3 DEF GrantedAborted, FetchSettles
    <3>2. PICK w \in requestWaiters : First(w) /\ pc' = [pc EXCEPT ![v] = "done", ![w] = "granted"]
      BY <2>0, <3>1 DEF Release, TypeOK
    <3>3. w = t
      BY <2>0, <3>1, <3>2 DEF TypeOK
    <3>4. u \in ahead[w] \cap requestWaiters
      BY <2>0, <3>3 DEF QueueIsExact
    <3> QED
      BY <3>2, <3>4 DEF First
  <2>4. ASSUME NEW s \in Signals, Abort(s)
        PROVE  FALSE
    BY <2>4 DEF Abort
  <2> QED
    BY <2>1, <2>2, <2>3, <2>4 DEF Next, Resume
<1> QED
  BY <1>1, SlotInvariant, PTL DEF Spec, FirstComeFirstServed

-----------------------------------------------------------------------------
(* The search box. *)

LEMMA TwiceIsMonotone ==
    ASSUME NEW x \in Nat, NEW y \in Nat, NEW n \in Nat, x <= y, n + 1 <= 2 * x
    PROVE  n + 1 <= 2 * y
OBVIOUS

\* A search begun by the user or by the timer replaces the one before it: the
\* list is empty, and a query that is long enough is the one that is open.
LEMMA RunSearchKeepsInv ==
    ASSUME Search!SearchInv, ~destroyed,
           NEW STATE query, query \in Queries \cup {Blank, Short},
           NEW STATE brand, brand \in Brands \cup {None},
           Search!RunSearch(query, brand),
           input' = query, selectedBrand' = brand,
           NEW STATE acted, acted \in 0..MaxInputs,
           inputs' = acted, requestSequence + 1 <= 2 * acted,
           UNCHANGED <<destroyed, distanceOrigin, sent, onTheWay>>
    PROVE  Search!SearchInv'
<1>0. /\ Search!TypeOK /\ MaxInputs \in Nat /\ requestSequence \in Nat
      /\ requestSequence + 1 \in Search!Searches
      /\ None \notin Nat
  <2>1. Search!TypeOK /\ MaxInputs \in Nat /\ None \notin Nat
    BY SearchAssumption DEF Search!SearchInv
  <2>2. requestSequence \in Nat
    BY <2>1 DEF Search!TypeOK
  <2>3. requestSequence + 1 <= 2 * MaxInputs
    BY <2>1, <2>2, TwiceIsMonotone
  <2>4. requestSequence + 1 \in Search!Searches
    BY <2>1, <2>2, <2>3 DEF Search!Searches
  <2> QED
    BY <2>1, <2>2, <2>4
<1>1. CASE Search!TooShort(query, brand)
  <2>1. /\ ~timer' /\ controller' = None /\ requestSequence' = requestSequence + 1
        /\ results' = None /\ published' = None /\ rankedBy' = None
        /\ form' = FALSE /\ reportState' = "idle" /\ chosen' = FALSE
        /\ message' \in {"none", "too_short"}
        /\ timer' \in BOOLEAN
        /\ UNCHANGED <<asked, calls>>
    BY <1>1 DEF Search!RunSearch, Search!CancelPending, Search!ClearResults, Search!MissingReport
  <2>2. Search!TypeOK'
    <3>1. requestSequence' \in Nat /\ calls' \subseteq 1..requestSequence'
      BY <1>0, <2>1 DEF Search!TypeOK
    <3>2. DOMAIN asked' = Search!Searches
      BY <1>0, <2>1 DEF Search!TypeOK
    <3>3. controller' \in Search!Searches \cup {None} /\ results' \in Search!Searches \cup {None}
      BY <1>0, <2>1
    <3>4. inputs' \in Nat /\ inputs' <= MaxInputs /\ onTheWay' \in Nat
      BY <1>0 DEF Search!TypeOK
    <3>5. distanceOrigin' \in Origins /\ rankedBy' \in Origins \cup {None}
      BY <1>0, <2>1 DEF Search!TypeOK
    <3>6. timer' \in BOOLEAN /\ chosen' \in BOOLEAN /\ form' \in BOOLEAN /\ destroyed' \in BOOLEAN
      BY <1>0, <2>1 DEF Search!TypeOK
    <3> QED
      BY <3>1, <3>2, <3>3, <3>4, <3>5, <3>6 DEF Search!TypeOK, Search!Searches
  <2>3. Search!SearchesAreAskedFor'
    BY <1>0, <2>1 DEF Search!SearchesAreAskedFor
  <2>7. Search!OneSearchOpen'
    BY <1>0, <2>1 DEF Search!OneSearchOpen
  <2>4. Search!OneSearchShown' /\ Search!MessageIsTrue'
    BY <1>0, <2>1 DEF Search!OneSearchShown, Search!MessageIsTrue
  <2>5. Search!AtRestIsCurrent'
    BY <1>1, <2>1 DEF Search!AtRestIsCurrent, Search!TooShort
  <2> QED
    BY <2>2, <2>3, <2>4, <2>5, <2>7 DEF Search!SearchInv
<1>2. CASE ~Search!TooShort(query, brand)
  <2>1. /\ ~timer' /\ requestSequence' = requestSequence + 1
        /\ controller' = requestSequence'
        /\ asked' = [asked EXCEPT ![requestSequence'] = <<query, brand>>]
        /\ calls' = calls \cup {requestSequence'}
        /\ results' = None /\ published' = None /\ rankedBy' = None
        /\ form' = FALSE /\ reportState' = "idle" /\ chosen' = FALSE
        /\ message' = "searching"
        /\ timer' \in BOOLEAN
    BY <1>2 DEF Search!RunSearch, Search!CancelPending, Search!ClearResults, Search!MissingReport
  <2>2. Search!TypeOK'
    <3>1. requestSequence' \in Nat /\ calls' \subseteq 1..requestSequence'
      BY <1>0, <2>1 DEF Search!TypeOK
    <3>2. DOMAIN asked' = Search!Searches
      BY <1>0, <2>1 DEF Search!TypeOK
    <3>3. controller' \in Search!Searches \cup {None} /\ results' \in Search!Searches \cup {None}
      BY <1>0, <2>1
    <3>4. inputs' \in Nat /\ inputs' <= MaxInputs /\ onTheWay' \in Nat
      BY <1>0 DEF Search!TypeOK
    <3>5. distanceOrigin' \in Origins /\ rankedBy' \in Origins \cup {None}
      BY <1>0, <2>1 DEF Search!TypeOK
    <3>6. timer' \in BOOLEAN /\ chosen' \in BOOLEAN /\ form' \in BOOLEAN /\ destroyed' \in BOOLEAN
      BY <1>0, <2>1 DEF Search!TypeOK
    <3> QED
      BY <3>1, <3>2, <3>3, <3>4, <3>5, <3>6 DEF Search!TypeOK, Search!Searches
  <2>3. Search!SearchesAreAskedFor'
    BY <1>0, <2>1 DEF Search!SearchesAreAskedFor
  <2>7. Search!OneSearchOpen'
    BY <1>0, <2>1 DEF Search!OneSearchOpen
  <2>4. Search!OneSearchShown' /\ Search!MessageIsTrue'
    BY <1>0, <2>1 DEF Search!OneSearchShown, Search!MessageIsTrue
  <2>5. asked'[requestSequence'] = <<query, brand>>
    BY <1>0, <2>1 DEF Search!TypeOK
  <2>6. Search!AtRestIsCurrent'
    BY <1>0, <1>2, <2>1, <2>5 DEF Search!AtRestIsCurrent, Search!TooShort
  <2> QED
    BY <2>2, <2>3, <2>4, <2>6, <2>7 DEF Search!SearchInv
<1> QED
  BY <1>1, <1>2
\* What the user does to the query or to the results.
LEMMA UserKeepsInv ==
    ASSUME Search!SearchInv, Search!UserActs, NEW query \in Queries \cup {Blank, Short}
    PROVE  /\ Search!Type(query) \/ Search!ChooseResult(query) \/ Search!Submit => Search!SearchInv'
           /\ \A brand \in Brands : Search!ToggleBrand(brand) => Search!SearchInv'
<1>0. /\ inputs \in Nat /\ requestSequence \in Nat /\ MaxInputs \in Nat /\ inputs < MaxInputs
      /\ inputs' = inputs + 1 /\ requestSequence <= 2 * inputs
      /\ requestSequence + 1 <= 2 * inputs
         \/ ~timer
      /\ input \in Queries \cup {Blank, Short} /\ selectedBrand \in Brands \cup {None}
      /\ ~destroyed /\ UNCHANGED <<destroyed, distanceOrigin, sent, onTheWay>>
  BY SearchAssumption
     DEF Search!SearchInv, Search!TypeOK, Search!SearchesAreAskedFor, Search!UserActs, Search!sending
<1>1. /\ inputs + 1 \in 0..MaxInputs
      /\ requestSequence + 1 <= 2 * (inputs + 1)
      /\ requestSequence + 2 <= 2 * (inputs + 1)
  BY <1>0
<1>2. ASSUME NEW STATE q, q \in Queries \cup {Blank, Short}, NEW STATE b, b \in Brands \cup {None},
             input' = q, selectedBrand' = b, Search!RunSearch(q, b)
      PROVE  Search!SearchInv'
  BY <1>0, <1>1, <1>2, RunSearchKeepsInv
<1>3. ASSUME Search!Type(query)
      PROVE  Search!SearchInv'
  <2>1. CASE query = Blank /\ selectedBrand = None
    <3>1. input' = query /\ selectedBrand' = selectedBrand /\ Search!RunSearch(query, selectedBrand)
      BY <1>3, <2>1 DEF Search!Type
    <3> QED
      BY <3>1, <1>0, <1>2
  <2>2. CASE ~(query = Blank /\ selectedBrand = None)
    <3>1. /\ input' = query /\ timer' = TRUE /\ chosen' = FALSE
          /\ UNCHANGED <<selectedBrand, requestSequence, controller, asked, calls, message,
                         results, rankedBy, published, form, reportState>>
      BY <1>3, <2>2 DEF Search!Type, Search!listing, Search!reporting
    <3>2. Search!TypeOK'
      <4>1. timer' \in BOOLEAN /\ chosen' \in BOOLEAN
        BY <3>1
      <4> QED
        BY <1>0, <1>1, <3>1, <4>1 DEF Search!SearchInv, Search!TypeOK, Search!Searches
    <3>3. Search!SearchesAreAskedFor'
      <4>1. /\ requestSequence' + (IF timer' THEN 1 ELSE 0) = requestSequence + 1
            /\ 2 * inputs' = 2 * (inputs + 1)
        BY <1>0, <3>1
      <4> QED
        BY <4>1, <1>1 DEF Search!SearchesAreAskedFor
    <3>4. Search!OneSearchOpen' /\ Search!OneSearchShown' /\ Search!MessageIsTrue'
      BY <1>0, <3>1 DEF Search!SearchInv, Search!OneSearchOpen, Search!OneSearchShown, Search!MessageIsTrue
    <3>5. Search!AtRestIsCurrent'
      BY <3>1 DEF Search!AtRestIsCurrent
    <3> QED
      BY <3>2, <3>3, <3>4, <3>5 DEF Search!SearchInv
  <2> QED
    BY <2>1, <2>2
<1>4. ASSUME Search!ChooseResult(query)
      PROVE  Search!SearchInv'
  <2>1. /\ input' = query /\ chosen' = TRUE
        /\ UNCHANGED <<selectedBrand, timer, requestSequence, controller, asked, calls, message,
                       results, rankedBy, published, form, reportState>>
    BY <1>4 DEF Search!ChooseResult, Search!searching, Search!listing, Search!reporting
  <2>2. Search!TypeOK'
    BY <1>0, <1>1, <2>1 DEF Search!SearchInv, Search!TypeOK, Search!Searches
  <2>3. Search!SearchesAreAskedFor'
    BY <1>0, <1>1, <2>1 DEF Search!SearchesAreAskedFor
  <2>4. Search!OneSearchOpen' /\ Search!OneSearchShown' /\ Search!MessageIsTrue'
    BY <1>0, <2>1 DEF Search!SearchInv, Search!OneSearchOpen, Search!OneSearchShown, Search!MessageIsTrue
  <2>5. Search!AtRestIsCurrent'
    BY <2>1 DEF Search!AtRestIsCurrent
  <2> QED
    BY <2>2, <2>3, <2>4, <2>5 DEF Search!SearchInv
<1>5. ASSUME Search!Submit
      PROVE  Search!SearchInv'
  <2>1. input' = input /\ selectedBrand' = selectedBrand /\ Search!RunSearch(input, selectedBrand)
    BY <1>5 DEF Search!Submit
  <2> QED
    BY <2>1, <1>0, <1>2
<1>6. ASSUME NEW brand \in Brands, Search!ToggleBrand(brand)
      PROVE  Search!SearchInv'
  <2> DEFINE toggled == IF selectedBrand = brand THEN None ELSE brand
  <2>1. input' = input /\ selectedBrand' = toggled /\ Search!RunSearch(input, toggled)
    BY <1>6 DEF Search!ToggleBrand
  <2>2. toggled \in Brands \cup {None}
    OBVIOUS
  <2> HIDE DEF toggled
  <2> QED
    BY <2>1, <2>2, <1>0, <1>2
<1> QED
  BY <1>3, <1>4, <1>5, <1>6
\* The answer or the failure of a search: only of the newest one, while its
\* controller is held, it changes what is shown.
LEMMA SettlingKeepsInv ==
    ASSUME Search!SearchInv, NEW n \in calls, Search!Settles(n)
    PROVE  Search!SearchInv'
<1>0. /\ n \in Nat /\ n # None
      /\ Search!TypeOK /\ Search!SearchesAreAskedFor /\ Search!OneSearchOpen
      /\ Search!OneSearchShown /\ Search!MessageIsTrue /\ Search!AtRestIsCurrent
  <2>1. Search!TypeOK /\ n \in 1..requestSequence /\ requestSequence \in Nat
    BY DEF Search!SearchInv, Search!TypeOK
  <2>2. n \in Nat /\ n # None
    BY <2>1, SearchAssumption
  <2> QED
    BY <2>1, <2>2 DEF Search!SearchInv
<1>1. /\ calls' = calls \ {n}
      /\ controller' = IF controller = n THEN None ELSE controller
      /\ UNCHANGED <<input, selectedBrand, chosen, inputs, destroyed, distanceOrigin, timer,
                     requestSequence, asked, sent, onTheWay>>
  BY DEF Search!Settles, Search!SearchAnswers, Search!SearchFails, Search!typing, Search!sending
<1>2. CASE controller # n
  <2>1. UNCHANGED <<results, rankedBy, published, message, form, reportState, controller>>
    BY <1>1, <1>2
       DEF Search!Settles, Search!SearchAnswers, Search!SearchFails, Search!IsCurrent,
           Search!listing, Search!reporting
  <2>2. Search!TypeOK'
    BY <1>0, <1>1, <2>1 DEF Search!TypeOK, Search!Searches
  <2>3. Search!SearchesAreAskedFor' /\ Search!AtRestIsCurrent'
    BY <1>0, <1>1, <2>1 DEF Search!SearchesAreAskedFor, Search!AtRestIsCurrent, Search!TooShort
  <2>4. Search!OneSearchOpen' /\ Search!OneSearchShown' /\ Search!MessageIsTrue'
    BY <1>0, <1>1, <1>2, <2>1 DEF Search!OneSearchOpen, Search!OneSearchShown, Search!MessageIsTrue
  <2> QED
    BY <2>2, <2>3, <2>4 DEF Search!SearchInv
<1>3. CASE controller = n
  <2>0. /\ controller # None /\ requestSequence = n /\ ~destroyed /\ message = "searching"
        /\ ~form /\ results = None /\ Search!IsCurrent(n)
        /\ n \in Search!Searches
    BY <1>0, <1>3
       DEF Search!OneSearchOpen, Search!MessageIsTrue, Search!IsCurrent, Search!TypeOK
  <2>1. /\ controller' = None
        /\ message' \in {"count", "nothing", "error"}
        /\ \/ /\ results' = n /\ published' = n /\ rankedBy' = distanceOrigin
              /\ message' = "count" /\ UNCHANGED <<form, reportState>>
           \/ /\ results' = None /\ published' = None /\ rankedBy' = None
              /\ form' \in BOOLEAN /\ (form' => message' = "nothing") /\ reportState' = "idle"
    BY <1>1, <1>3, <2>0
       DEF Search!Settles, Search!SearchAnswers, Search!SearchFails, Search!ClearResults,
           Search!Render, Search!MissingReport, Search!reporting
  <2>2. Search!TypeOK'
    BY <1>0, <1>1, <2>0, <2>1 DEF Search!TypeOK, Search!Searches
  <2>3. Search!SearchesAreAskedFor'
    BY <1>0, <1>1 DEF Search!SearchesAreAskedFor
  <2>4. Search!OneSearchOpen' /\ Search!OneSearchShown'
    BY <1>0, <1>1, <2>0, <2>1 DEF Search!OneSearchOpen, Search!OneSearchShown
  <2>5. Search!MessageIsTrue'
    BY <1>0, <1>1, <2>0, <2>1 DEF Search!MessageIsTrue
  <2>6. Search!AtRestIsCurrent'
    BY <1>0, <1>1, <2>0 DEF Search!AtRestIsCurrent, Search!TooShort
  <2> QED
    BY <2>2, <2>3, <2>4, <2>5, <2>6 DEF Search!SearchInv
<1> QED
  BY <1>2, <1>3

\* SearchInv is an invariant of the search box: whatever the order of queries,
\* filters, timers, answers, moves of the map and reports, the list, the map and
\* the message are of the newest search and of nothing else.
THEOREM SearchInvariant == Search!Spec => []SearchInv
<1>1. Search!Init => Search!SearchInv
  <2> SUFFICES ASSUME Search!Init PROVE Search!SearchInv
    OBVIOUS
  <2>1. Search!TypeOK
    <3>1. DOMAIN asked = Search!Searches /\ calls \subseteq 1..requestSequence
      BY DEF Search!Init
    <3>2. timer \in BOOLEAN /\ chosen \in BOOLEAN /\ form \in BOOLEAN /\ destroyed \in BOOLEAN
      BY DEF Search!Init
    <3> QED
      BY <3>1, <3>2, SearchAssumption DEF Search!Init, Search!TypeOK
  <2>2. Search!SearchesAreAskedFor /\ Search!OneSearchOpen
    BY SearchAssumption DEF Search!Init, Search!SearchesAreAskedFor, Search!OneSearchOpen
  <2>3. Search!OneSearchShown /\ Search!MessageIsTrue
    BY SearchAssumption DEF Search!Init, Search!OneSearchShown, Search!MessageIsTrue
  <2>4. Search!AtRestIsCurrent
    BY DEF Search!Init, Search!AtRestIsCurrent, Search!TooShort
  <2> QED
    BY <2>1, <2>2, <2>3, <2>4 DEF Search!SearchInv
<1>2. Search!SearchInv /\ [Search!Next]_Search!vars => Search!SearchInv'
  <2> SUFFICES ASSUME Search!SearchInv, [Search!Next]_Search!vars PROVE Search!SearchInv'
    OBVIOUS
  <2>0. /\ Search!TypeOK /\ Search!SearchesAreAskedFor /\ Search!OneSearchOpen
        /\ Search!OneSearchShown /\ Search!MessageIsTrue /\ Search!AtRestIsCurrent
        /\ None \notin Nat
    BY SearchAssumption DEF Search!SearchInv
  <2>1. CASE UNCHANGED Search!vars
    <3>1. UNCHANGED <<input, selectedBrand, distanceOrigin, timer, requestSequence, controller,
                      asked, calls, results, rankedBy, published, message, form, reportState,
                      onTheWay, chosen, inputs, destroyed>>
      BY <2>1 DEF Search!vars, Search!typing, Search!searching, Search!listing,
                  Search!reporting, Search!sending
    <3> QED
      BY <2>0, <3>1
         DEF Search!SearchInv, Search!TypeOK, Search!Searches, Search!SearchesAreAskedFor,
             Search!OneSearchOpen, Search!OneSearchShown, Search!MessageIsTrue,
             Search!AtRestIsCurrent, Search!TooShort
  <2>2. ASSUME NEW query \in Queries \cup {Blank, Short},
               Search!Type(query) \/ Search!ChooseResult(query) \/ Search!Submit
        PROVE  Search!SearchInv'
    <3>1. Search!UserActs
      BY <2>2 DEF Search!Type, Search!ChooseResult, Search!Submit
    <3> QED
      BY <2>2, <3>1, UserKeepsInv
  <2>3. ASSUME NEW brand \in Brands, Search!ToggleBrand(brand)
        PROVE  Search!SearchInv'
    <3>1. Search!UserActs
      BY <2>3 DEF Search!ToggleBrand
    <3>2. Blank \in Queries \cup {Blank, Short}
      OBVIOUS
    <3> QED
      BY <2>3, <3>1, <3>2, UserKeepsInv
  <2>4. ASSUME NEW query \in Queries \cup {Blank, Short}, Search!SubmitReport(query)
        PROVE  Search!SearchInv'
    <3>1. /\ form /\ ~destroyed
          /\ UNCHANGED <<input, selectedBrand, distanceOrigin, timer, requestSequence, controller,
                         asked, calls, results, rankedBy, published, message, form, chosen,
                         inputs, destroyed>>
          /\ \/ UNCHANGED <<reportState, onTheWay>>
             \/ onTheWay' = onTheWay + 1
      BY <2>4 DEF Search!SubmitReport, Search!typing, Search!searching, Search!listing, Search!sending
    <3>2. Search!TypeOK'
      BY <2>0, <3>1 DEF Search!TypeOK, Search!Searches
    <3>3. Search!SearchesAreAskedFor' /\ Search!AtRestIsCurrent'
      BY <2>0, <3>1 DEF Search!SearchesAreAskedFor, Search!AtRestIsCurrent, Search!TooShort
    <3>4. Search!OneSearchOpen' /\ Search!OneSearchShown'
      BY <2>0, <3>1 DEF Search!OneSearchOpen, Search!OneSearchShown
    <3>5. Search!MessageIsTrue'
      BY <2>0, <3>1 DEF Search!MessageIsTrue, Search!TypeOK
    <3> QED
      BY <3>2, <3>3, <3>4, <3>5 DEF Search!SearchInv
  <2>5. CASE Search!TimerFires
    <3>1. /\ timer /\ Search!RunSearch(input, selectedBrand)
          /\ input' = input /\ selectedBrand' = selectedBrand /\ inputs' = inputs
          /\ UNCHANGED <<destroyed, distanceOrigin, sent, onTheWay>>
      BY <2>5 DEF Search!TimerFires, Search!sending
    <3>2. /\ ~destroyed /\ inputs \in 0..MaxInputs
          /\ input \in Queries \cup {Blank, Short} /\ selectedBrand \in Brands \cup {None}
      BY <2>0, <3>1, SearchAssumption DEF Search!OneSearchOpen, Search!TypeOK
    <3>3. requestSequence + 1 <= 2 * inputs
      BY <2>0, <3>1, <3>2 DEF Search!SearchesAreAskedFor
    <3> QED
      BY <3>1, <3>2, <3>3, RunSearchKeepsInv
  <2>6. ASSUME NEW n \in calls, Search!Settles(n)
        PROVE  Search!SearchInv'
    BY <2>6, SettlingKeepsInv
  <2>7. ASSUME NEW origin \in Origins, Search!UpdateDistanceOrigin(origin)
        PROVE  Search!SearchInv'
    <3>1. /\ ~destroyed /\ distanceOrigin' = origin
          /\ IF results = None THEN UNCHANGED <<results, published, rankedBy, message>>
             ELSE rankedBy' = origin /\ published' = results /\ message' = "count" /\ results' = results
          /\ UNCHANGED <<input, selectedBrand, timer, requestSequence, controller, asked, calls,
                         form, reportState, onTheWay, chosen, inputs, destroyed>>
      BY <2>7 DEF Search!UpdateDistanceOrigin, Search!typing, Search!listing, Search!reporting,
                  Search!sending
    <3>2. Search!TypeOK'
      BY <2>0, <3>1 DEF Search!TypeOK, Search!Searches
    <3>3. Search!SearchesAreAskedFor' /\ Search!AtRestIsCurrent'
      BY <2>0, <3>1 DEF Search!SearchesAreAskedFor, Search!AtRestIsCurrent, Search!TooShort
    <3>4. Search!OneSearchOpen' /\ Search!OneSearchShown'
      BY <2>0, <3>1 DEF Search!OneSearchOpen, Search!OneSearchShown
    <3>5. Search!MessageIsTrue'
      BY <2>0, <3>1 DEF Search!MessageIsTrue
    <3> QED
      BY <3>2, <3>3, <3>4, <3>5 DEF Search!SearchInv
  <2>8. ASSUME NEW accepted \in BOOLEAN, Search!ReportSettles(accepted)
        PROVE  Search!SearchInv'
    <3>1. /\ onTheWay > 0 /\ onTheWay' = onTheWay - 1 /\ reportState' \in {"submitted", "idle"}
          /\ UNCHANGED <<input, selectedBrand, distanceOrigin, timer, requestSequence, controller,
                         asked, calls, results, rankedBy, published, message, form, chosen,
                         inputs, destroyed>>
      BY <2>8 DEF Search!ReportSettles, Search!typing, Search!searching, Search!listing
    <3>2. Search!TypeOK'
      BY <2>0, <3>1 DEF Search!TypeOK, Search!Searches
    <3>3. Search!SearchesAreAskedFor' /\ Search!AtRestIsCurrent'
      BY <2>0, <3>1 DEF Search!SearchesAreAskedFor, Search!AtRestIsCurrent, Search!TooShort
    <3>4. Search!OneSearchOpen' /\ Search!OneSearchShown' /\ Search!MessageIsTrue'
      BY <2>0, <3>1 DEF Search!OneSearchOpen, Search!OneSearchShown, Search!MessageIsTrue
    <3> QED
      BY <3>2, <3>3, <3>4 DEF Search!SearchInv
  <2>9. CASE Search!Destroy
    <3>1. /\ destroyed' = TRUE /\ timer' = FALSE /\ controller' = None
          /\ requestSequence' = requestSequence + 1
          /\ UNCHANGED <<input, selectedBrand, chosen, inputs, distanceOrigin, asked, calls, message,
                         results, rankedBy, published, form, reportState, onTheWay>>
      BY <2>9 DEF Search!Destroy, Search!CancelPending, Search!listing, Search!reporting, Search!sending
    <3>2. Search!TypeOK'
      <4>1. requestSequence' \in Nat /\ calls' \subseteq 1..requestSequence'
        BY <2>0, <3>1 DEF Search!TypeOK
      <4>2. timer' \in BOOLEAN /\ destroyed' \in BOOLEAN
        BY <3>1
      <4> QED
        BY <2>0, <3>1, <4>1, <4>2 DEF Search!TypeOK, Search!Searches
    <3>3. Search!SearchesAreAskedFor' /\ Search!AtRestIsCurrent'
      BY <3>1 DEF Search!SearchesAreAskedFor, Search!AtRestIsCurrent
    <3>4. Search!OneSearchOpen' /\ Search!OneSearchShown' /\ Search!MessageIsTrue'
      BY <2>0, <3>1 DEF Search!OneSearchOpen, Search!OneSearchShown, Search!MessageIsTrue
    <3> QED
      BY <3>2, <3>3, <3>4 DEF Search!SearchInv
  <2> QED
    BY <2>1, <2>2, <2>3, <2>4, <2>5, <2>6, <2>7, <2>8, <2>9 DEF Search!Next
<1>3. Search!Spec => []Search!SearchInv
  BY <1>1, <1>2, PTL DEF Search!Spec
<1> QED
  BY <1>3 DEF SearchInv

=============================================================================
