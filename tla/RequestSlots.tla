---------------------------- MODULE RequestSlots ----------------------------
(***************************************************************************)
(* withRequestSlot and acquireRequestSlot of                               *)
(* frontend/src/cafe-provider.ts: the tile requests of the browser share   *)
(* MAX_CONCURRENT_REQUESTS slots and queue for them.  JavaScript runs one  *)
(* callback at a time, so each action is the code between two awaits; an   *)
(* abort event runs the listeners of every waiter of its signal at once.   *)
(***************************************************************************)
EXTENDS Naturals, FiniteSets

CONSTANTS
    Tasks,      \* calls of withRequestSlot
    Signals,    \* abort signals: one for each call of getCafes
    SignalOf,   \* SignalOf[t]: the signal t was given
    MaxConcurrentRequests    \* MAX_CONCURRENT_REQUESTS, 6

ASSUME SlotAssumption ==
    /\ IsFiniteSet(Tasks)
    /\ SignalOf \in [Tasks -> Signals]
    /\ MaxConcurrentRequests \in Nat \ {0}

VARIABLES
    activeRequestCount,
    requestWaiters,     \* the tasks whose `start` callback is queued
    ahead,              \* ahead[t]: the tasks t queued behind, the queue's order
    aborted,            \* the signals that were aborted
    pc                  \* where each task is

vars == <<activeRequestCount, requestWaiters, ahead, aborted, pc>>

Init ==
    /\ activeRequestCount = 0
    /\ requestWaiters = {}
    /\ ahead = [t \in Tasks |-> {}]
    /\ aborted = {}
    /\ pc = [t \in Tasks |-> "new"]

IsAborted(t) == SignalOf[t] \in aborted

\* throwIfAborted before anything was taken.
AcquireRejected(t) ==
    /\ pc[t] = "new"
    /\ IsAborted(t)
    /\ pc' = [pc EXCEPT ![t] = "rejected"]
    /\ UNCHANGED <<activeRequestCount, requestWaiters, ahead, aborted>>

\* Mutant: an off-by-one in the limit.
AcquireFreeOneMore(t) ==
    /\ pc[t] = "new"
    /\ ~IsAborted(t)
    /\ activeRequestCount <= MaxConcurrentRequests
    /\ activeRequestCount' = activeRequestCount + 1
    /\ pc' = [pc EXCEPT ![t] = "granted"]
    /\ UNCHANGED <<requestWaiters, ahead, aborted>>

\* A free slot: the promise is resolved, its await resumes later.
AcquireFree(t) ==
    /\ pc[t] = "new"
    /\ ~IsAborted(t)
    /\ activeRequestCount < MaxConcurrentRequests
    /\ activeRequestCount' = activeRequestCount + 1
    /\ pc' = [pc EXCEPT ![t] = "granted"]
    /\ UNCHANGED <<requestWaiters, ahead, aborted>>

AcquireWait(t) ==
    /\ pc[t] = "new"
    /\ ~IsAborted(t)
    /\ activeRequestCount >= MaxConcurrentRequests
    /\ requestWaiters' = requestWaiters \cup {t}
    /\ ahead' = [ahead EXCEPT ![t] = requestWaiters]
    /\ pc' = [pc EXCEPT ![t] = "waiting"]
    /\ UNCHANGED <<activeRequestCount, aborted>>

\* The await resumes and the operation starts its fetch.
Start(t) ==
    /\ pc[t] = "granted"
    /\ ~IsAborted(t)
    /\ pc' = [pc EXCEPT ![t] = "fetching"]
    /\ UNCHANGED <<activeRequestCount, requestWaiters, ahead, aborted>>

\* The queue's first task.
First(t) == ahead[t] \cap requestWaiters = {}

\* Mutant: nobody is woken.
ReleaseWithoutWaking(t) ==
    /\ activeRequestCount' = activeRequestCount - 1
    /\ pc' = [pc EXCEPT ![t] = "done"]
    /\ UNCHANGED requestWaiters

\* Mutant: the last waiter is taken, not the first.
ReleaseToLast(t) ==
    \/ /\ requestWaiters = {}
       /\ activeRequestCount' = activeRequestCount - 1
       /\ pc' = [pc EXCEPT ![t] = "done"]
       /\ UNCHANGED requestWaiters
    \/ \E u \in requestWaiters :
          /\ \A v \in requestWaiters \ {u} : v \in ahead[u]
          /\ requestWaiters' = requestWaiters \ {u}
          /\ pc' = [pc EXCEPT ![t] = "done", ![u] = "granted"]
          /\ UNCHANGED activeRequestCount

\* The finally block: the slot is given up and the first waiter's start, if
\* there is one, takes it again in the same callback.
Release(t) ==
    \/ /\ requestWaiters = {}
       /\ activeRequestCount' = activeRequestCount - 1
       /\ pc' = [pc EXCEPT ![t] = "done"]
       /\ UNCHANGED requestWaiters
    \/ \E u \in requestWaiters :
          /\ First(u)
          /\ requestWaiters' = requestWaiters \ {u}
          /\ pc' = [pc EXCEPT ![t] = "done", ![u] = "granted"]
          /\ UNCHANGED activeRequestCount

\* Mutant: the check comes before the try block.
GrantedAbortedOutsideTry(t) ==
    /\ pc[t] = "granted"
    /\ IsAborted(t)
    /\ pc' = [pc EXCEPT ![t] = "done"]
    /\ UNCHANGED <<activeRequestCount, requestWaiters, ahead, aborted>>

\* Aborted between the grant and the resumption: throwIfAborted in the try.
GrantedAborted(t) ==
    /\ pc[t] = "granted"
    /\ IsAborted(t)
    /\ Release(t)
    /\ UNCHANGED <<ahead, aborted>>

\* The fetch and its body are settled: answered, failed or aborted.
FetchSettles(t) ==
    /\ pc[t] = "fetching"
    /\ Release(t)
    /\ UNCHANGED <<ahead, aborted>>

\* controller.abort(): every waiter of the signal leaves the queue.  Tasks
\* that hold a slot give it up when they resume or their fetch is settled.
Abort(s) ==
    /\ s \notin aborted
    /\ aborted' = aborted \cup {s}
    /\ requestWaiters' = {t \in requestWaiters : SignalOf[t] # s}
    /\ pc' = [t \in Tasks |-> IF SignalOf[t] = s /\ pc[t] = "waiting"
                              THEN "rejected" ELSE pc[t]]
    /\ UNCHANGED <<activeRequestCount, ahead>>

Acquire(t) == AcquireRejected(t) \/ AcquireFree(t) \/ AcquireWait(t)

Resume(t) == Start(t) \/ GrantedAborted(t)

\* Every task is over: nothing more happens.
Over ==
    /\ \A t \in Tasks : pc[t] \in {"done", "rejected"}
    /\ aborted = Signals
    /\ UNCHANGED vars

Next ==
    \/ \E t \in Tasks : Acquire(t) \/ Resume(t) \/ FetchSettles(t)
    \/ \E s \in Signals : Abort(s)
    \/ Over

Spec == Init /\ [][Next]_vars

\* The event loop runs what was resolved, and the browser settles a fetch.
Fairness == \A t \in Tasks : WF_vars(Resume(t)) /\ WF_vars(FetchSettles(t))

FairSpec == Spec /\ Fairness

-----------------------------------------------------------------------------
(* Properties. *)

Holders == {t \in Tasks : pc[t] \in {"granted", "fetching"}}

\* The shape of the counter and of the queue.
TypeOK ==
    /\ activeRequestCount \in 0..MaxConcurrentRequests
    /\ requestWaiters \subseteq Tasks
    /\ ahead \in [Tasks -> SUBSET Tasks]
    /\ aborted \subseteq Signals
    /\ pc \in [Tasks -> {"new", "waiting", "granted", "fetching", "done", "rejected"}]

\* The count is the number of tasks that hold a slot: none is leaked by an
\* abort or a failure, and none is given up twice.
CountIsExact == activeRequestCount = Cardinality(Holders)

\* The queue holds exactly the tasks that wait, also after an abort.
QueueIsExact == requestWaiters = {t \in Tasks : pc[t] = "waiting"}

\* No wake-up is lost: a task waits only while every slot is taken.
WaitOnlyWhenFull ==
    requestWaiters # {} => activeRequestCount = MaxConcurrentRequests

\* Why at most MAX_CONCURRENT_REQUESTS fetches are open and none is stuck.
SlotInv == TypeOK /\ CountIsExact /\ QueueIsExact /\ WaitOnlyWhenFull

\* A waiter is started only when all that came before it have left.
FirstComeFirstServed ==
    [][\A t, u \in Tasks :
          /\ pc[t] = "waiting" /\ pc'[t] = "granted"
          /\ pc[u] = "waiting" /\ u \in ahead[t]
          => pc'[u] # "waiting"]_vars

Sem == INSTANCE Semaphore WITH Slots <- MaxConcurrentRequests, holders <- Holders

\* The slots are a semaphore of MAX_CONCURRENT_REQUESTS.
IsSemaphore == Sem!Spec

\* No task waits for ever.
WaitersProceed == \A t \in Tasks : pc[t] = "waiting" ~> pc[t] # "waiting"

=============================================================================
