---------------------------- MODULE TileProvider ----------------------------
(***************************************************************************)
(* getCafes and getTileFeatures of frontend/src/cafe-provider.ts: a call   *)
(* for a viewport fetches its root tiles, splits a tile whose answer was   *)
(* truncated, remembers the split, and caches whole answers by data        *)
(* version.  Calls run together, are aborted, and see the catalog and the  *)
(* version change under them.  A tile is the sequence of quadrants that    *)
(* leads to it; coordinates and the viewport's edge, which only drop cafes *)
(* from the answer, are left out.  The slots are those of RequestSlots,    *)
(* taken in any order.                                                     *)
(***************************************************************************)
EXTENDS Naturals, Sequences, FiniteSets, SequencesExt

CONSTANTS
    Calls,          \* calls of getCafes
    Roots,          \* Roots[c]: tilesForViewport of the call's viewport
    Quadrants,      \* tileChildren of a tile, four in the code
    Cafes,
    Location,       \* Location[k]: the finest tile a cafe lies in
    Catalogs,       \* bound: the sets of active cafes to start from
    MaxCafes,       \* MAX_CAFES_PER_VIEWPORT of the server, 400
    MaxSplitDepth,  \* MAX_VIEWPORT_SPLIT_DEPTH, 6
    MaxRequests,    \* MAX_CONCURRENT_REQUESTS, 6
    Versions,       \* values of setCacheVersion
    MaxChanges      \* bound: changes of the catalog and of the version

\* A cafe is a point: it lies in one tile of every zoom that is asked for.
ASSUME TileAssumption ==
    /\ MaxSplitDepth \in Nat /\ MaxRequests \in Nat \ {0}
    /\ Roots \in [Calls -> SUBSET Seq(Quadrants)]
    /\ Location \in [Cafes -> Seq(Quadrants)]
    /\ \A k \in Cafes, c \in Calls : \A r \in Roots[c] :
          IsPrefix(r, Location[k]) => Len(r) + MaxSplitDepth <= Len(Location[k])
    /\ Catalogs \subseteq SUBSET Cafes

VARIABLES
    version,        \* cacheVersion
    tileCache,      \* entries [version, tile, answer, asked]
    splitTiles,
    active,         \* the server's active cafes
    past,           \* every set of active cafes so far: the edge's and the
                    \* browser's HTTP caches may answer with an earlier one
    changes,        \* bound
    call,           \* call[c]: "idle", "open", "resolved", "rejected"
    aborted,        \* the calls whose signal is aborted
    result,         \* result[c]: the cafes of a resolved call
    task            \* task[c][t]: what getTileFeatures of t is doing for c

server == <<active, past>>
vars == <<version, tileCache, splitTiles, server, changes, call, aborted, result, task>>

\* Every tile a call can come to: only a tile less than MaxSplitDepth below a
\* root is ever split.
Below(t) == {t \o s : s \in UNION {[1..n -> Quadrants] : n \in 0..MaxSplitDepth}}
Tiles == UNION {Below(r) : r \in UNION {Roots[c] : c \in Calls}}

Children(t) == {Append(t, q) : q \in Quadrants}

RootOf(c, t) == CHOOSE r \in Roots[c] : IsPrefix(r, t)
Depth(c, t) == Len(t) - Len(RootOf(c, t))

\* What the server answers for a tile.
Within(t) == {k \in Cafes : IsPrefix(t, Location[k])}
Truncated(t, served) == Cardinality(Within(t) \cap served) > MaxCafes

NoTask == [at |-> "none"]

Init ==
    /\ version \in Versions
    /\ tileCache = {}
    /\ splitTiles = {}
    /\ active \in Catalogs
    /\ past = {active}
    /\ changes = 0
    /\ call = [c \in Calls |-> "idle"]
    /\ aborted = {}
    /\ result = [c \in Calls |-> {}]
    /\ task = [c \in Calls |-> [t \in Tiles |-> NoTask]]

Cached(t) == {e \in tileCache : e.version = version /\ e.tile = t}

\* getTileFeatures up to its first await, for the tiles of start: it descends
\* through remembered splits and answers what is cached; the rest queues with
\* the version of this moment.
Reached(start, splits) ==
    {t \in Tiles : \E r \in start :
        /\ IsPrefix(r, t)
        /\ \A n \in Len(r)..(Len(t) - 1) :
              SubSeq(t, 1, n) \in splits /\ Cached(SubSeq(t, 1, n)) = {}}

Visited(start, splits, tasks) ==
    [t \in Tiles |->
        IF t \notin Reached(start, splits) THEN tasks[t]
        ELSE IF Cached(t) # {}
             THEN LET e == CHOOSE e \in Cached(t) : TRUE
                  IN [at |-> "done", version |-> version, asked |-> e.asked, answer |-> e.answer]
        ELSE IF t \in splits THEN [at |-> "split"]
        ELSE [at |-> "queued", version |-> version]]

Start(c) ==
    /\ call[c] = "idle"
    /\ call' = [call EXCEPT ![c] = "open"]
    /\ task' = [task EXCEPT ![c] = Visited(Roots[c], splitTiles, @)]
    /\ UNCHANGED <<version, tileCache, splitTiles, server, changes, aborted, result>>

\* Mutant: the split runs inside the slot, which is kept for the children.
FetchingOrSplit ==
    {p \in Calls \X Tiles :
        LET at(t) == task[p[1]][t].at IN
        \/ at(p[2]) = "fetching"
        \/ /\ at(p[2]) = "split"
           /\ \E u \in Children(p[2]) : at(u) \in {"queued", "fetching"}}

\* The pairs of a call and a tile that hold a slot.
Fetching == {p \in Calls \X Tiles : task[p[1]][p[2]].at = "fetching"}

\* Mutant: requests are sent without a slot.
SendUnlimited(c, t) ==
    /\ task[c][t].at = "queued"
    /\ c \notin aborted
    /\ task' = [task EXCEPT ![c][t].at = "fetching"]
    /\ UNCHANGED <<version, tileCache, splitTiles, server, changes, call, aborted, result>>

\* The request is sent, with the version the task was visited under.
Send(c, t) ==
    /\ task[c][t].at = "queued"
    /\ c \notin aborted
    /\ Cardinality(Fetching) < MaxRequests
    /\ task' = [task EXCEPT ![c][t].at = "fetching"]
    /\ UNCHANGED <<version, tileCache, splitTiles, server, changes, call, aborted, result>>

\* Promise.all rejects at the first failure; the other tasks go on.
Reject(c, tasks) ==
    /\ task' = [task EXCEPT ![c] = tasks]
    /\ call' = [call EXCEPT ![c] = IF @ = "open" THEN "rejected" ELSE @]

\* The fetch, its body or its headers fail, or its signal was aborted.
FetchFails(c, t) ==
    /\ task[c][t].at = "fetching"
    /\ Reject(c, [task[c] EXCEPT ![t] = [at |-> "failed"]])
    /\ UNCHANGED <<version, tileCache, splitTiles, server, changes, aborted, result>>

\* The answer is stored, as the entry of its tile under version v.
CacheTile(v, t, answer, asked) ==
    tileCache' = {e \in tileCache : ~(e.version = v /\ e.tile = t)}
                 \cup {[version |-> v, tile |-> t, answer |-> answer, asked |-> asked]}

\* Mutant: the entry is stored under the version of the moment of the answer.
FetchWholeLateKey(c, t) ==
    /\ task[c][t].at = "fetching"
    /\ \E served \in past :
          LET answer == Within(t) \cap served IN
          /\ ~Truncated(t, served)
          /\ CacheTile(version, t, answer, task[c][t].version)
          /\ task' = [task EXCEPT ![c][t] = [at |-> "done", version |-> @.version,
                                             asked |-> @.version, answer |-> answer]]
    /\ UNCHANGED <<version, splitTiles, server, changes, call, aborted, result>>

\* A whole answer is cached under the version the request was made with.
FetchWhole(c, t) ==
    /\ task[c][t].at = "fetching"
    /\ \E served \in past :
          LET answer == Within(t) \cap served IN
          /\ ~Truncated(t, served)
          /\ CacheTile(task[c][t].version, t, answer, task[c][t].version)
          /\ task' = [task EXCEPT ![c][t] = [at |-> "done", version |-> @.version,
                                             asked |-> @.version, answer |-> answer]]
    /\ UNCHANGED <<version, splitTiles, server, changes, call, aborted, result>>

MayBeTruncated(t) == \E served \in past : Truncated(t, served)

\* Too deep, or aborted meanwhile: throw.
FetchTruncatedThrows(c, t) ==
    /\ task[c][t].at = "fetching"
    /\ MayBeTruncated(t)
    /\ Depth(c, t) >= MaxSplitDepth \/ c \in aborted
    /\ Reject(c, [task[c] EXCEPT ![t] = [at |-> "failed"]])
    /\ UNCHANGED <<version, tileCache, splitTiles, server, changes, aborted, result>>

\* Mutant: the truncated page is returned as it is.
FetchTruncatedKept(c, t) ==
    /\ task[c][t].at = "fetching"
    /\ MayBeTruncated(t)
    /\ Depth(c, t) < MaxSplitDepth /\ c \notin aborted
    /\ task' = [task EXCEPT ![c][t] = [at |-> "done", version |-> @.version,
                                       asked |-> @.version, answer |-> {}]]
    /\ UNCHANGED <<version, tileCache, splitTiles, server, changes, call, aborted, result>>

\* The tile is remembered as split and its children are visited at once.
FetchTruncatedSplits(c, t) ==
    /\ task[c][t].at = "fetching"
    /\ MayBeTruncated(t)
    /\ Depth(c, t) < MaxSplitDepth /\ c \notin aborted
    /\ splitTiles' = splitTiles \cup {t}
    /\ task' = [task EXCEPT ![c] =
          [Visited(Children(t), splitTiles', @) EXCEPT ![t] = [at |-> "split"]]]
    /\ UNCHANGED <<version, tileCache, server, changes, call, aborted, result>>

DoneTasks(c) == {t \in Tiles : task[c][t].at = "done"}

\* Every task of the call is answered: its groups are joined by cafe id.
Resolve(c) ==
    /\ call[c] = "open"
    /\ \A t \in Tiles : task[c][t].at \in {"none", "done", "split"}
    /\ call' = [call EXCEPT ![c] = "resolved"]
    /\ result' = [result EXCEPT ![c] = UNION {task[c][t].answer : t \in DoneTasks(c)}]
    /\ task' = [task EXCEPT ![c] = [t \in Tiles |-> NoTask]]
    /\ UNCHANGED <<version, tileCache, splitTiles, server, changes, aborted>>

\* The signal is aborted: queued tasks leave the queue and reject.
Abort(c) ==
    /\ call[c] # "idle" /\ c \notin aborted
    /\ aborted' = aborted \cup {c}
    /\ IF \E t \in Tiles : task[c][t].at = "queued"
       THEN Reject(c, [t \in Tiles |-> IF task[c][t].at = "queued"
                                       THEN [at |-> "failed"] ELSE task[c][t]])
       ELSE UNCHANGED <<task, call>>
    /\ UNCHANGED <<version, tileCache, splitTiles, server, changes, result>>

\* A minute passes or newer tiles push it out: an entry is gone.
Expire ==
    /\ \E e \in tileCache : tileCache' = tileCache \ {e}
    /\ UNCHANGED <<version, splitTiles, server, changes, call, aborted, result, task>>

Change == changes < MaxChanges /\ changes' = changes + 1

\* The caches are emptied; tasks under way keep the old version.
SetCacheVersion(v) ==
    /\ Change
    /\ v # version
    /\ version' = v
    /\ tileCache' = {}
    /\ splitTiles' = {}
    /\ UNCHANGED <<server, call, aborted, result, task>>

\* The server's catalog gains or loses a cafe.
ChangeCatalog ==
    /\ Change
    /\ \E k \in Cafes : active' = IF k \in active THEN active \ {k} ELSE active \cup {k}
    /\ past' = past \cup {active'}
    /\ UNCHANGED <<version, tileCache, splitTiles, call, aborted, result, task>>

\* Every call is over and nothing is under way.
Over ==
    /\ \A c \in Calls : call[c] \in {"resolved", "rejected"}
    /\ UNCHANGED vars

Answered(c, t) ==
    \/ FetchWhole(c, t)
    \/ FetchTruncatedThrows(c, t) \/ FetchTruncatedSplits(c, t)

Next ==
    \/ \E c \in Calls : Start(c) \/ Resolve(c) \/ Abort(c)
    \/ \E c \in Calls, t \in Tiles : Send(c, t) \/ Answered(c, t) \/ FetchFails(c, t)
    \/ \E v \in Versions : SetCacheVersion(v)
    \/ Expire \/ ChangeCatalog \/ Over

Spec == Init /\ [][Next]_vars

-----------------------------------------------------------------------------
(* Properties. *)

TaskStates ==
    [at : {"none", "split", "failed"}]
    \cup [at : {"queued", "fetching"}, version : Versions]
    \cup [at : {"done"}, version : Versions, asked : Versions, answer : SUBSET Cafes]

\* The shape of the caches and of the tasks.
TypeOK ==
    /\ version \in Versions
    /\ tileCache \subseteq [version : Versions, tile : Tiles, answer : SUBSET Cafes, asked : Versions]
    /\ splitTiles \subseteq Tiles
    /\ active \in SUBSET Cafes /\ past \subseteq SUBSET Cafes
    /\ call \in [Calls -> {"idle", "open", "resolved", "rejected"}]
    /\ aborted \subseteq Calls
    /\ result \in [Calls -> SUBSET Cafes]
    /\ task \in [Calls -> [Tiles -> TaskStates]]

\* At most MAX_CONCURRENT_REQUESTS requests are under way, and a call that was
\* aborted queues for no further one.
SlotsSuffice ==
    /\ IsFiniteSet(Fetching) /\ Cardinality(Fetching) <= MaxRequests
    /\ \A c \in aborted, t \in Tiles : task[c][t].at # "queued"

\* A call that has not begun has no tasks, and one that is open none that failed.
TasksFollowCalls ==
    \A c \in Calls :
        /\ call[c] = "idle" => c \notin aborted /\ \A t \in Tiles : task[c][t].at = "none"
        /\ call[c] = "open" => \A t \in Tiles : task[c][t].at # "failed"

\* A call visits only tiles of its viewport, and a tile is remembered as split
\* only where its children can still be asked for.
Splittable(t) ==
    \E c \in Calls : \E r \in Roots[c] : IsPrefix(r, t) /\ Len(t) < Len(r) + MaxSplitDepth
SplitsStayInReach ==
    /\ \A t \in splitTiles : Splittable(t)
    /\ \A c \in Calls, t \in Tiles :
          task[c][t].at # "none" => \E r \in Roots[c] : IsPrefix(r, t)

Inside(c) == UNION {Within(r) : r \in Roots[c]}

\* A viewport that resolves shows every cafe that was there all along, and
\* none that never was: no truncated tile is taken for a whole one, whatever
\* splits and entries other calls left, also under another version.
ResultIsWhole ==
    \A c \in Calls : call[c] = "resolved" =>
        \A k \in Inside(c) :
            /\ (\A served \in past : k \in served) => k \in result[c]
            /\ k \in result[c] => \E served \in past : k \in served

\* An answer is used only for the version it was asked with: after a new
\* ingest no call is served what was requested before.
AnswersMatchVersion ==
    \A c \in Calls, t \in Tiles :
        task[c][t].at = "done" => task[c][t].asked = task[c][t].version

\* An answer holds each of the tile's cafes that was there all along, and none
\* that never was.
WholeAnswer(t, answer) ==
    /\ \A k \in Within(t) : (\A served \in past : k \in served) => k \in answer
    /\ answer \subseteq UNION past
AnswersAreWhole ==
    /\ \A e \in tileCache : WholeAnswer(e.tile, e.answer) /\ e.asked = e.version
    /\ \A c \in Calls, t \in Tiles :
          task[c][t].at = "done" => WholeAnswer(t, task[c][t].answer)

\* Of an open call every cafe lies in a tile that is answered or asked for:
\* neither a split nor an entry of the cache leaves a gap.
OpenCallsCover ==
    \A c \in Calls : call[c] = "open" =>
        \A k \in Inside(c) : \E t \in Tiles :
            k \in Within(t) /\ task[c][t].at \in {"queued", "fetching", "done"}

\* What answers and results are at any time.
TileInv ==
    /\ TypeOK /\ SlotsSuffice /\ TasksFollowCalls /\ SplitsStayInReach
    /\ AnswersAreWhole /\ OpenCallsCover
    /\ ResultIsWhole /\ AnswersMatchVersion

\* No call waits for ever: tasks that split do not keep the slots that their
\* children, or those of another call, queue for.
OpenCallsProceed ==
    \A c \in Calls : call[c] = "open" =>
        \/ \A t \in Tiles : task[c][t].at \in {"none", "done", "split"}
        \/ \E d \in Calls, t \in Tiles : task[d][t].at = "fetching"
        \/ /\ Cardinality(Fetching) < MaxRequests
           /\ \E d \in Calls \ aborted, t \in Tiles : task[d][t].at = "queued"

=============================================================================
