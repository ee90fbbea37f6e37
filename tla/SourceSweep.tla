----------------------------- MODULE SourceSweep -----------------------------
(***************************************************************************)
(* Reading a provider page by page while its places come and go, and       *)
(* publishing what was read: the Kakao sweep over recursive cells          *)
(* (kakao_places.py, cache_kakao_cafes.py) and the permit pages            *)
(* (cache_refreshment_candidates.py).  The process may be killed between   *)
(* any two steps of publication.                                           *)
(*                                                                         *)
(* A cell is the path of quarters to it from the root; a place on an edge  *)
(* lies in several of the smallest cells.  Requests with their retries are *)
(* those of Clients: here one succeeds or ends the job.                    *)
(***************************************************************************)
EXTENDS Outcomes, FiniteSets, Sequences

CONSTANTS
    Businesses,   \* places, numbered in the order the provider lists them
    Where,        \* Where[p]: the smallest cells p lies in
    Quarters,     \* the children of a cell, in the order they are visited
    MaxDepth,     \* KAKAO_SWEEP_MAX_DEPTH, or where KAKAO_SWEEP_MIN_CELL_SPAN_DEG ends it
    PageSize,     \* KAKAO_PAGE_SIZE, SEOUL_REFRESHMENT_PERMIT_MAX_PAGE_SIZE
    MaxResults,   \* KAKAO_MAX_RESULTS_PER_QUERY, also what it pages at most
    MaxPages,     \* KAKAO_MAX_PAGES
    MaxCalls,     \* KAKAO_SWEEP_MAX_CALLS
    MaxChanges,   \* bound: places that come or go during a job
    MaxJobs       \* bound: jobs run one after another

ASSUME SweepAssumption ==
    /\ Businesses \subseteq Nat /\ IsFiniteSet(Businesses) /\ MaxDepth \in Nat /\ Quarters \in Nat
    /\ Where \in [Businesses -> (SUBSET [1..MaxDepth -> 1..Quarters]) \ {{}}]
    /\ PageSize \in Nat \ {0} /\ MaxResults \in Nat \ {0} /\ MaxPages \in Nat
    /\ MaxCalls \in Nat \ {0} /\ MaxChanges \in Nat /\ MaxJobs \in Nat

Sweeps == {"kakao", "permits"}

VARIABLES
    present,    \* the places the provider has
    stable,     \* those it had all the while the job read
    came, gone, \* how many came and went since the job began
    job,        \* the job under way [kind, stack, read, calls, records, unresolved], or None
    staged,     \* what it publishes [kind, result, next], or None
    files,      \* files[kind]: [cache, manifest], each the result of one job or None
    jobs

sweepVars == <<present, stable, came, gone, job, staged, files, jobs>>

SweepInit ==
    /\ present \in SUBSET Businesses /\ stable = {} /\ came = 0 /\ gone = 0
    /\ job = None /\ staged = None /\ jobs = 0
    /\ files = [k \in Sweeps |-> [cache |-> None, manifest |-> None]]

\* What was read of a cell before its first page came.
Unread == [page |-> 0, documents |-> {}, count |-> 0, expected |-> 0]

Begin(kind) ==
    /\ job = None /\ staged = None /\ jobs < MaxJobs
    /\ kind = "permits" => files[kind] = [cache |-> None, manifest |-> None]
    /\ job' = [kind |-> kind, stack |-> <<<<>>>>, read |-> Unread, calls |-> 0,
               records |-> {}, unresolved |-> {}]
    /\ stable' = present /\ came' = 0 /\ gone' = 0 /\ jobs' = jobs + 1
    /\ UNCHANGED <<present, staged, files>>

Change(p) ==
    /\ job # None /\ came + gone < MaxChanges
    /\ IF p \in present
       THEN present' = present \ {p} /\ stable' = stable \ {p} /\ gone' = gone + 1 /\ came' = came
       ELSE present' = present \cup {p} /\ came' = came + 1 /\ UNCHANGED <<stable, gone>>
    /\ UNCHANGED <<job, staged, files, jobs>>

-----------------------------------------------------------------------------
(* Answers. *)

Min2(a, b) == IF a < b THEN a ELSE b

LiesIn(p, cell) == \E l \in Where[p] : \A i \in DOMAIN cell : l[i] = cell[i]
Listed(cell) == {p \in present : LiesIn(p, cell)}

\* How many come before p in a listing.
Ahead(p, all) == Cardinality({q \in all : q < p})

\* One page of a listing of which at most `most` can be paged.
Page(cell, page, most) ==
    LET all == Listed(cell)
        pageable == Min2(Cardinality(all), most)
    IN  [total |-> Cardinality(all), pageable |-> pageable, is_end |-> page * PageSize >= pageable,
         documents |-> {p \in all : /\ Ahead(p, all) >= (page - 1) * PageSize
                                    /\ Ahead(p, all) < Min2(page * PageSize, pageable)}]

-----------------------------------------------------------------------------
(* The sweep. *)

Children(cell) == [q \in 1..Quarters |-> Append(cell, q)]

Unresolved(reason) ==
    job' = [job EXCEPT !.stack = Tail(@), !.read = Unread, !.unresolved = @ \cup {reason}, !.calls = @ + 1]

\* Mutant: a leaf is complete with as many documents as were read.
CompleteAnyway(read) == TRUE

Complete(read) == read.count = read.expected

\* What was read of a cell with one more page of it: a document that two pages
\* bring is one record, but counts twice.
With(read, answer) ==
    [page |-> read.page + 1, documents |-> read.documents \cup answer.documents,
     count |-> read.count + Cardinality(answer.documents), expected |-> read.expected]

\* The read that an answer to a first page begins.
FirstRead(expected, answer) ==
    With([Unread EXCEPT !.expected = expected], answer)

\* The end of a leaf: its documents are taken if they are as many as the first
\* page announced.
Leaf(read) ==
    IF Complete(read)
    THEN job' = [job EXCEPT !.stack = Tail(@), !.read = Unread, !.calls = @ + 1,
                            !.records = @ \cup read.documents]
    ELSE Unresolved("pageable_count_mismatch")

\* query refuses: the cell it refused and all that are left stay unread.
BudgetExhausted ==
    /\ job # None /\ job.kind = "kakao" /\ job.stack # <<>> /\ job.calls >= MaxCalls
    /\ job.read = Unread \/ job.read.page < MaxPages
    /\ job' = [job EXCEPT !.stack = <<>>, !.read = Unread, !.unresolved = @ \cup {"call_budget_exhausted"}]
    /\ UNCHANGED <<present, stable, came, gone, staged, files, jobs>>

\* visit, with the first page of a cell.
Visit ==
    /\ job # None /\ job.kind = "kakao" /\ job.stack # <<>> /\ job.read = Unread /\ job.calls < MaxCalls
    /\ LET cell == Head(job.stack) first == Page(cell, 1, MaxResults)
           read == FirstRead(first.pageable, first)
       IN  IF first.total > MaxResults
           THEN IF Len(cell) >= MaxDepth THEN Unresolved("saturated")
                ELSE job' = [job EXCEPT !.stack = Children(cell) \o Tail(@), !.calls = @ + 1]
           ELSE IF first.is_end THEN Leaf(read)
           ELSE job' = [job EXCEPT !.calls = @ + 1, !.read = read]
    /\ UNCHANGED <<present, stable, came, gone, staged, files, jobs>>

NextPage ==
    /\ job # None /\ job.kind = "kakao" /\ job.read # Unread
    /\ LET answer == Page(Head(job.stack), job.read.page + 1, MaxResults)
           read == With(job.read, answer)
       IN  IF job.read.page >= MaxPages
           THEN job' = [job EXCEPT !.stack = Tail(@), !.read = Unread,
                                   !.unresolved = @ \cup {"page_limit_not_end"}]
           ELSE /\ job.calls < MaxCalls
                /\ IF answer.is_end THEN Leaf(read)
                   ELSE job' = [job EXCEPT !.calls = @ + 1, !.read = read]
    /\ UNCHANGED <<present, stable, came, gone, staged, files, jobs>>

-----------------------------------------------------------------------------
(* The permits: as many pages as the total of the first one asks for, each of *)
(* the same total and full, or no cache at all.                                *)

PermitPage ==
    /\ job # None /\ job.kind = "permits" /\ job.stack # <<>>
    /\ LET answer == Page(<<>>, job.read.page + 1, Cardinality(Businesses))
           read == IF job.read = Unread THEN FirstRead(answer.total, answer) ELSE With(job.read, answer)
       IN  IF answer.total # read.expected
           THEN job' = None
           ELSE IF read.page * PageSize >= read.expected
           THEN job' = [job EXCEPT !.stack = <<>>, !.read = Unread, !.records = read.documents]
           ELSE job' = [job EXCEPT !.read = read]
    /\ UNCHANGED <<present, stable, came, gone, staged, files, jobs>>

\* A request that failed for good, or a kill, before anything is published.
Abort ==
    /\ job # None /\ job' = None
    /\ UNCHANGED <<present, stable, came, gone, staged, files, jobs>>

-----------------------------------------------------------------------------
(* Publication. *)

\* What a finished job hands on; how far it was from the places that were
\* there is known to the model only.
Result == [places |-> job.records, missed |-> Cardinality(stable \ job.records), came |-> came,
           unchanged |-> came + gone > 0 \/ job.records = present]

\* Mutant: an incomplete sweep is published too.
StageAnyway ==
    /\ job # None /\ job.stack = <<>>
    /\ staged' = [kind |-> job.kind, result |-> Result, next |-> "cache"]
    /\ job' = None
    /\ UNCHANGED <<present, stable, came, gone, files, jobs>>

\* main: only a complete sweep is published, from temporary files.
Stage ==
    /\ job # None /\ job.stack = <<>>
    /\ staged' = IF job.unresolved = {} THEN [kind |-> job.kind, result |-> Result, next |-> "cache"]
                 ELSE None
    /\ job' = None
    /\ UNCHANGED <<present, stable, came, gone, files, jobs>>

\* publish_cache: Kakao's replaces cache, then manifest; the permits' links
\* them, and removes the cache if the manifest cannot be linked.
PublishCache ==
    /\ staged # None /\ staged.next = "cache"
    /\ files' = [files EXCEPT ![staged.kind].cache = staged.result]
    /\ staged' = [staged EXCEPT !.next = "manifest"]
    /\ UNCHANGED <<present, stable, came, gone, job, jobs>>

PublishManifest ==
    /\ staged # None /\ staged.next = "manifest"
    /\ files' = [files EXCEPT ![staged.kind].manifest = staged.result]
    /\ staged' = None
    /\ UNCHANGED <<present, stable, came, gone, job, jobs>>

ManifestFails ==
    /\ staged # None /\ staged.next = "manifest"
    /\ files' = IF staged.kind = "permits" THEN [files EXCEPT !["permits"].cache = None] ELSE files
    /\ staged' = None
    /\ UNCHANGED <<present, stable, came, gone, job, jobs>>

Kill ==
    /\ staged # None /\ staged' = None
    /\ UNCHANGED <<present, stable, came, gone, job, files, jobs>>

\* read_kakao_cache: only a cache of the digest its manifest gives;
\* read_candidate_cache looks at no manifest.
Readable(kind) ==
    /\ files[kind].cache # None
    /\ kind = "kakao" => files[kind].manifest # None /\ files[kind].manifest.places = files[kind].cache.places

Read == BudgetExhausted \/ Visit \/ NextPage \/ PermitPage
Publish == Stage \/ PublishCache \/ PublishManifest

SweepNext ==
    \/ \E k \in Sweeps : Begin(k)
    \/ \E p \in Businesses : Change(p)
    \/ Read \/ Abort \/ Publish \/ ManifestFails \/ Kill

SweepSpec == SweepInit /\ [][SweepNext]_sweepVars

-----------------------------------------------------------------------------
(* Properties. *)

Results == [places : SUBSET Businesses, missed : Nat, came : Nat, unchanged : BOOLEAN]

\* The cells: the root, and those a sweep may split it into.
Cells == UNION {[1..n -> 1..Quarters] : n \in 0..MaxDepth}

Reads == [page : Nat, documents : SUBSET Businesses, count : Nat, expected : Nat]

Reasons == {"call_budget_exhausted", "saturated", "page_limit_not_end", "pageable_count_mismatch"}

SweepJobs == [kind : Sweeps, stack : Seq(Cells), read : Reads, calls : Nat,
              records : SUBSET Businesses, unresolved : SUBSET Reasons]

SweepTypes ==
    /\ present \subseteq Businesses /\ stable \subseteq Businesses /\ came \in Nat /\ gone \in Nat
    /\ job = None \/ job \in SweepJobs
    /\ staged = None \/ staged \in [kind : Sweeps, result : Results, next : {"cache", "manifest"}]
    /\ files \in [Sweeps -> [cache : Results \cup {None}, manifest : Results \cup {None}]]

\* A stable place that was passed: it is in no record, and in no cell still to
\* be read.
Passed ==
    {p \in stable : p \notin job.records /\ \A i \in DOMAIN job.stack : ~LiesIn(p, job.stack[i])}

\* A stable place of the cell under way that moved to a page read before.
Slipped(read, cell) ==
    {p \in stable \cap Listed(cell) :
        p \notin read.documents /\ Ahead(p, Listed(cell)) < read.page * PageSize}

Max2(a, b) == IF a < b THEN b ELSE a

\* Each place that was passed, or will be, was pushed out by one that came: what
\* left makes room for one that slips only as it shortens the cell.
NoneLostUnpaid ==
    IF job.read = Unread THEN Cardinality(Passed) <= came
    ELSE LET cell == Head(job.stack) IN
         Cardinality(Passed) + Cardinality(Slipped(job.read, cell))
             + Max2(Cardinality(Listed(cell)), job.read.page * PageSize)
                 <= came + job.read.expected

\* A sweep that nothing disturbed reads what is there.
UndisturbedIsExact ==
    came = 0 /\ gone = 0 =>
        /\ present = stable /\ job.records \subseteq present
        /\ job.read.documents \subseteq present

\* A job that may still be published.
SweepIsSound ==
    /\ NoneLostUnpaid /\ UndisturbedIsExact /\ stable \subseteq present
    /\ job.kind = "permits" =>
          job.stack \in {<<>>, << <<>> >>} /\ (job.stack = <<>> \/ job.records = {})
    /\ job.read # Unread =>
          /\ job.read.count = job.read.page * PageSize
          /\ job.kind = "permits" \/ job.read.expected <= MaxResults

Sound(result) == result.missed <= result.came /\ result.unchanged

\* What is published, or about to be, is sound.
PublishedIsSound ==
    /\ staged # None => Sound(staged.result)
    /\ \A k \in Sweeps : files[k].cache # None => Sound(files[k].cache)

\* Whatever the provider did meanwhile and wherever a job was killed, what a
\* reader takes for a complete cache has every place that was there all along,
\* but for at most one for each that came meanwhile and took its turn, and
\* exactly those there when nothing changed; and no job exceeds its calls.
SweepInv ==
    /\ SweepTypes /\ PublishedIsSound
    /\ \A k \in Sweeps : Readable(k) => Sound(files[k].cache)
    /\ job # None =>
          /\ job.calls <= MaxCalls /\ (job.read # Unread => job.stack # <<>>)
          /\ job.unresolved = {} => SweepIsSound

=============================================================================
