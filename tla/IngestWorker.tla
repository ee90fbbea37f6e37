----------------------------- MODULE IngestWorker -----------------------------
(***************************************************************************)
(* run_poll_cycle of backend/app/ingest/worker.py with the repository      *)
(* calls it makes: open a durable cycle, poll the hotspots (PollOnce, here *)
(* one step), store the batch, refresh the scores, prune old snapshots,    *)
(* close the cycle.  Every commit is a step of its own, so that several    *)
(* workers interleave, and SIGINT, a hard kill or a database error can     *)
(* fall between any two.  Of a snapshot only the hotspot and the time of   *)
(* observation are kept; parse failures, which nothing reads back, are     *)
(* unanswered targets here.  "cut" remembers the cycles whose process was  *)
(* taken away where no handler finishes them, and those whose handler met  *)
(* the poll's own report.                                                  *)
(***************************************************************************)
EXTENDS Integers, FiniteSets, Sequences

CONSTANTS
    Workers,      \* processes that run a cycle: the poll workflow, bootstrap, a local one
    Hotspots,     \* the polled hotspots (their ids)
    MaxTime,      \* bound: the last observation time the city publishes
    MaxCycles,    \* bound: cycles ever opened
    KeepTime,     \* the retention of prune_snapshot_history, two days
    PruneLimit,   \* its LIMIT, 10000
    Faults,       \* the faults a run allows: a subset of FaultKinds
    MaxFaults,    \* bound: how many of them
    InterruptAt   \* the places of a cycle where SIGINT may arrive

FaultKinds == {"db", "sigint", "kill"}

TryBlock == {"polling", "polled", "saving", "fallback", "stored", "scoring", "computed"}
OutsideTry == {"opened", "closing", "pruning", "deleting", "finishing", "failing"}

\* What may cut a cycle short: SIGINT between the return of the poll and the line
\* that takes its report back, SIGINT outside the try block, or the loss of the
\* process or of the close itself.
Cuts == {"polled", "outside", "lost"}

ASSUME WorkerAssumption ==
    /\ Hotspots \subseteq Nat /\ IsFiniteSet(Hotspots)
    /\ MaxTime \in Nat \ {0} /\ MaxCycles \in Nat /\ MaxFaults \in Nat
    /\ KeepTime \in Nat /\ PruneLimit \in Nat \ {0}
    /\ Faults \subseteq FaultKinds
    /\ InterruptAt \subseteq TryBlock \cup OutsideTry

VARIABLES
    now,       \* the newest observation time the city has published
    rows,      \* hotspot_snapshots, by its natural key <<hotspot_id, observed_at>>
    scored,    \* scored[h]: the observation of h the stored scores were computed from
    cycles,    \* ingest_cycles, by id
    faults,    \* faults so far
    cut,       \* history: <<cycle, how it was cut short>>
    \* one run_poll_cycle per worker:
    pc,        \* where it is
    cyc,       \* cycle_id
    got,       \* got[w][h]: the observation fetched for h, or NoAnswer
    report,    \* poll_report: its saved, failed and inserted
    tally,     \* the counters of save_batch's fallback
    todo,      \* the snapshots the fallback has not tried yet
    view,      \* the latest observations materialize_all has read
    victims,   \* the snapshot ids prune_snapshot_history has selected
    status     \* the status decided after the try block

db == <<now, rows, scored, cycles, faults, cut>>
vars == <<now, rows, scored, cycles, faults, cut,
          pc, cyc, got, report, tally, todo, view, victims, status>>

NoAnswer == 0
Times == 1..MaxTime
NumTargets == Cardinality(Hotspots)
Nothing == [h \in Hotspots |-> NoAnswer]
Counts(s, f, i) == [saved |-> s, failed |-> f, inserted |-> i]

Answered(w) == {h \in Hotspots : got[w][h] # NoAnswer}
Fetched(w) == {<<h, got[w][h]>> : h \in Answered(w)}
Unanswered(w) == Cardinality(Hotspots \ Answered(w))

TimesOf(h) == {r[2] : r \in {q \in rows : q[1] = h}}
NewestOf(S) == IF S = {} THEN NoAnswer ELSE CHOOSE t \in S : \A u \in S : u <= t

\* The subquery of materialize_all: max(observed_at) per polled hotspot.
Latest == [h \in Hotspots |-> NewestOf(TimesOf(h))]

Init ==
    /\ now = 1
    /\ rows = {}
    /\ scored = Nothing
    /\ cycles = <<>>
    /\ faults = 0
    /\ cut = {}
    /\ pc = [w \in Workers |-> "idle"]
    /\ cyc = [w \in Workers |-> 0]
    /\ got = [w \in Workers |-> Nothing]
    /\ report = [w \in Workers |-> Counts(0, 0, 0)]
    /\ tally = [w \in Workers |-> Counts(0, 0, 0)]
    /\ todo = [w \in Workers |-> {}]
    /\ view = [w \in Workers |-> Nothing]
    /\ victims = [w \in Workers |-> {}]
    /\ status = [w \in Workers |-> "running"]

\* The city publishes a newer observation.
Publish ==
    /\ now < MaxTime
    /\ now' = now + 1
    /\ UNCHANGED <<rows, scored, cycles, faults, cut, pc, cyc, got, report,
                   tally, todo, view, victims, status>>

Goto(w, place) == pc' = [pc EXCEPT ![w] = place]

\* The process ends and its locals with it.
Exit(w) ==
    /\ pc' = [pc EXCEPT ![w] = "idle"]
    /\ cyc' = [cyc EXCEPT ![w] = 0]
    /\ got' = [got EXCEPT ![w] = Nothing]
    /\ report' = [report EXCEPT ![w] = Counts(0, 0, 0)]
    /\ tally' = [tally EXCEPT ![w] = Counts(0, 0, 0)]
    /\ todo' = [todo EXCEPT ![w] = {}]
    /\ view' = [view EXCEPT ![w] = Nothing]
    /\ victims' = [victims EXCEPT ![w] = {}]
    /\ status' = [status EXCEPT ![w] = "running"]

Fault(kind) ==
    /\ kind \in Faults
    /\ faults < MaxFaults
    /\ faults' = faults + 1

-----------------------------------------------------------------------------
(* Opening the cycle and polling. *)

\* load_poll_targets, then start_cycle commits the running cycle.  Until a poll
\* returns, poll_report is None and the handler counts every target as failed.
OpenCycle(w) ==
    /\ pc[w] = "idle"
    /\ Len(cycles) < MaxCycles
    /\ cycles' = Append(cycles, [targets |-> NumTargets, saved |-> 0,
                                 failed |-> 0, status |-> "running"])
    /\ cyc' = [cyc EXCEPT ![w] = Len(cycles) + 1]
    /\ report' = [report EXCEPT ![w] = Counts(0, NumTargets, 0)]
    /\ Goto(w, "opened")
    /\ UNCHANGED <<now, rows, scored, faults, cut, got, tally, todo, view, victims,
                   status>>

EnterTry(w) ==
    /\ pc[w] = "opened"
    /\ Goto(w, "polling")
    /\ UNCHANGED <<db, cyc, got, report, tally, todo, view, victims, status>>

\* Each target has the newest observation, the one before it (the city's
\* servers may lag), or no usable answer.
Answers == [Hotspots -> {now, now - 1, NoAnswer}]

\* poll_once returns, and poll_report is the poll's own, in which every answer
\* counts as saved.
PollReturns(w) ==
    /\ pc[w] = "polling"
    /\ \E answer \in Answers :
          LET answered == Cardinality({h \in Hotspots : answer[h] # NoAnswer})
          IN  /\ got' = [got EXCEPT ![w] = answer]
              /\ report' = [report EXCEPT ![w] =
                               Counts(answered, NumTargets - answered, 0)]
    /\ Goto(w, "polled")
    /\ UNCHANGED <<db, cyc, tally, todo, view, victims, status>>

\* Mutant: poll_once's optimistic report is kept while the batch is stored.
MarkUnsavedNever(w) ==
    /\ pc[w] = "polled"
    /\ Goto(w, "saving")
    /\ UNCHANGED <<db, cyc, got, report, tally, todo, view, victims, status>>

\* "Until batch commit returns, none of fetched snapshots are known durable."
MarkUnsaved(w) ==
    /\ pc[w] = "polled"
    /\ report' = [report EXCEPT ![w] = Counts(0, NumTargets, 0)]
    /\ Goto(w, "saving")
    /\ UNCHANGED <<db, cyc, got, tally, todo, view, victims, status>>

-----------------------------------------------------------------------------
(* save_batch. *)

\* One transaction, INSERT .. ON CONFLICT DO NOTHING .. RETURNING id.
SaveBatch(w) ==
    /\ pc[w] = "saving"
    /\ rows' = rows \cup Fetched(w)
    /\ report' = [report EXCEPT ![w] =
                     Counts(Cardinality(Answered(w)), Unanswered(w),
                            Cardinality(Fetched(w) \ rows))]
    /\ Goto(w, "stored")
    /\ UNCHANGED <<now, scored, cycles, faults, cut, cyc, got, tally, todo, view,
                   victims, status>>

\* The transaction raised, before its commit or after it (the answer to the
\* commit was lost): isolate the records.
SaveBatchFails(w) ==
    /\ pc[w] = "saving"
    /\ Answered(w) # {}
    /\ Fault("db")
    /\ rows' \in {rows, rows \cup Fetched(w)}
    /\ todo' = [todo EXCEPT ![w] = Answered(w)]
    /\ Goto(w, "fallback")
    /\ UNCHANGED <<now, scored, cycles, cut, cyc, got, report, tally,
                   view, victims, status>>

\* The next snapshot of the fallback, in target order.
NextTodo(w, h) == h \in todo[w] /\ \A g \in todo[w] : h <= g

\* save_snapshot: a duplicate, found by the preflight or by the unique key when
\* another worker was faster, is a success that inserts nothing.
FallbackSave(w) ==
    /\ pc[w] = "fallback"
    /\ \E h \in todo[w] :
          /\ NextTodo(w, h)
          /\ rows' = rows \cup {<<h, got[w][h]>>}
          /\ tally' = [tally EXCEPT ![w] =
                          Counts(@.saved + 1, @.failed,
                                 IF <<h, got[w][h]>> \in rows
                                 THEN @.inserted ELSE @.inserted + 1)]
          /\ todo' = [todo EXCEPT ![w] = @ \ {h}]
    /\ UNCHANGED <<now, scored, cycles, faults, cut, pc, cyc, got, report,
                   view, victims, status>>

\* Mutant: a record that raised is counted as saved.
FallbackErrorCountedSaved(w) ==
    /\ pc[w] = "fallback"
    /\ Fault("db")
    /\ \E h \in todo[w] :
          /\ NextTodo(w, h)
          /\ rows' \in {rows, rows \cup {<<h, got[w][h]>>}}
          /\ tally' = [tally EXCEPT ![w] = Counts(@.saved + 1, @.failed, @.inserted)]
          /\ todo' = [todo EXCEPT ![w] = @ \ {h}]
    /\ UNCHANGED <<now, scored, cycles, cut, pc, cyc, got, report, view, victims, status>>

\* save_snapshot raised, before or after its commit.
FallbackError(w) ==
    /\ pc[w] = "fallback"
    /\ Fault("db")
    /\ \E h \in todo[w] :
          /\ NextTodo(w, h)
          /\ rows' \in {rows, rows \cup {<<h, got[w][h]>>}}
          /\ tally' = [tally EXCEPT ![w] = Counts(@.saved, @.failed + 1, @.inserted)]
          /\ todo' = [todo EXCEPT ![w] = @ \ {h}]
    /\ UNCHANGED <<now, scored, cycles, cut, pc, cyc, got, report, view, victims, status>>

\* Mutant: the batch's report forgets the targets the poll itself lost.
FallbackDoneForgettingPoll(w) ==
    /\ pc[w] = "fallback"
    /\ todo[w] = {}
    /\ report' = [report EXCEPT ![w] =
                     Counts(tally[w].saved, NumTargets - tally[w].failed,
                            tally[w].inserted)]
    /\ Goto(w, "stored")
    /\ UNCHANGED <<db, cyc, got, tally, todo, view, victims, status>>

FallbackDone(w) ==
    /\ pc[w] = "fallback"
    /\ todo[w] = {}
    /\ report' = [report EXCEPT ![w] =
                     Counts(tally[w].saved, Unanswered(w) + tally[w].failed,
                            tally[w].inserted)]
    /\ Goto(w, "stored")
    /\ UNCHANGED <<db, cyc, got, tally, todo, view, victims, status>>

-----------------------------------------------------------------------------
(* materialize_all, run only when the batch inserted something. *)

\* Mutant: the scores are refreshed only when every target was saved.
AfterSaveIfWhole(w) ==
    /\ pc[w] = "stored"
    /\ Goto(w, IF report[w].inserted > 0 /\ report[w].failed = 0
               THEN "scoring" ELSE "closing")
    /\ UNCHANGED <<db, cyc, got, report, tally, todo, view, victims, status>>

AfterSave(w) ==
    /\ pc[w] = "stored"
    /\ Goto(w, IF report[w].inserted > 0 THEN "scoring" ELSE "closing")
    /\ UNCHANGED <<db, cyc, got, report, tally, todo, view, victims, status>>

ReadLatest(w) ==
    /\ pc[w] = "scoring"
    /\ view' = [view EXCEPT ![w] = Latest]
    /\ Goto(w, "computed")
    /\ UNCHANGED <<db, cyc, got, report, tally, todo, victims, status>>

CommitScores(w) ==
    /\ pc[w] = "computed"
    /\ scored' = view[w]
    /\ Goto(w, "closing")
    /\ UNCHANGED <<now, rows, cycles, faults, cut, cyc, got, report, tally, todo,
                   view, victims, status>>

\* The materializer raised; its one commit may have been applied all the same.
ScoringFails(w) ==
    /\ pc[w] \in {"scoring", "computed"}
    /\ Fault("db")
    /\ scored' \in {scored} \cup IF pc[w] = "computed" THEN {view[w]} ELSE {}
    /\ Goto(w, "failing")
    /\ UNCHANGED <<now, rows, cycles, cut, cyc, got, report, tally, todo, view,
                   victims, status>>

-----------------------------------------------------------------------------
(* After the try block: status, retention, close. *)

IsComplete(r) == NumTargets > 0 /\ r.saved = NumTargets /\ r.failed = 0

Classify(w) ==
    /\ pc[w] = "closing"
    /\ status' = [status EXCEPT ![w] =
                     IF IsComplete(report[w]) THEN "complete"
                     ELSE IF report[w].saved > 0 THEN "partial" ELSE "failed"]
    /\ Goto(w, IF IsComplete(report[w]) THEN "pruning" ELSE "finishing")
    /\ UNCHANGED <<db, cyc, got, report, tally, todo, view, victims>>

\* Mutant: retention by age alone.
PrunableByAge == {r \in rows : r[2] < now - KeepTime}

\* Older than the retention, and the same hotspot has a newer snapshot.
Prunable == {r \in rows : /\ r[2] < now - KeepTime
                          /\ \E q \in rows : q[1] = r[1] /\ q[2] > r[2]}

\* The ids the prune selects: all of them, or as many as its LIMIT allows.
SelectOld(w) ==
    /\ pc[w] = "pruning"
    /\ \E ids \in SUBSET Prunable :
          /\ Cardinality(ids) <= PruneLimit
          /\ Cardinality(ids) = PruneLimit \/ ids = Prunable
          /\ victims' = [victims EXCEPT ![w] = ids]
          /\ Goto(w, IF ids = {} THEN "finishing" ELSE "deleting")
    /\ UNCHANGED <<db, cyc, got, report, tally, todo, view, status>>

DeleteOld(w) ==
    /\ pc[w] = "deleting"
    /\ rows' = rows \ victims[w]
    /\ Goto(w, "finishing")
    /\ UNCHANGED <<now, scored, cycles, faults, cut, cyc, got, report, tally, todo,
                   view, victims, status>>

\* "Snapshot retention failed; current observations are saved."
PruneFails(w) ==
    /\ pc[w] \in {"pruning", "deleting"}
    /\ Fault("db")
    /\ Goto(w, "finishing")
    /\ UNCHANGED <<now, rows, scored, cycles, cut, cyc, got, report, tally, todo,
                   view, victims, status>>

\* finish_cycle's commit.
Closed(w, st) ==
    [cycles EXCEPT ![cyc[w]] = [@ EXCEPT !.saved = report[w].saved,
                                         !.failed = report[w].failed,
                                         !.status = st]]

FinishCycle(w) ==
    /\ pc[w] = "finishing"
    /\ cycles' = Closed(w, status[w])
    /\ Exit(w)
    /\ UNCHANGED <<now, rows, scored, faults, cut>>

\* Mutant: the handler closes the cycle by what its counters say.
AbortCycleByCounters(w) ==
    /\ pc[w] = "failing"
    /\ cycles' = Closed(w, IF report[w].saved > 0 THEN "complete" ELSE "failed")
    /\ Exit(w)
    /\ UNCHANGED <<now, rows, scored, faults, cut>>

\* The handler of (Exception, KeyboardInterrupt, SystemExit): close and re-raise.
AbortCycle(w) ==
    /\ pc[w] = "failing"
    /\ cycles' = Closed(w, "failed")
    /\ Exit(w)
    /\ UNCHANGED <<now, rows, scored, faults, cut>>

\* finish_cycle itself raised, before or after its commit: the process ends.
FinishFails(w) ==
    /\ pc[w] \in {"finishing", "failing"}
    /\ Fault("db")
    /\ cycles' \in {cycles,
                    Closed(w, IF pc[w] = "failing" THEN "failed" ELSE status[w])}
    /\ cut' = cut \cup {<<cyc[w], "lost">>}
    /\ Exit(w)
    /\ UNCHANGED <<now, rows, scored>>

-----------------------------------------------------------------------------
(* Signals. *)

\* What a commit in progress may have applied when the worker is stopped.
AppliedRows(w) ==
    CASE pc[w] = "saving"   -> {rows, rows \cup Fetched(w)}
      [] pc[w] = "fallback" -> {rows} \cup
              {rows \cup {<<h, got[w][h]>>} : h \in {g \in todo[w] : NextTodo(w, g)}}
      [] OTHER -> {rows}

AppliedScores(w) == {scored} \cup IF pc[w] = "computed" THEN {view[w]} ELSE {}

\* Mutant: the handler is an except Exception, which KeyboardInterrupt is not.
InterruptTryUncaught(w) ==
    /\ pc[w] \in TryBlock \cap InterruptAt
    /\ Fault("sigint")
    /\ rows' \in AppliedRows(w)
    /\ scored' \in AppliedScores(w)
    /\ Exit(w)
    /\ UNCHANGED <<now, cycles, cut>>

\* SIGINT inside the try block becomes KeyboardInterrupt and reaches the handler.
InterruptTry(w) ==
    /\ pc[w] \in TryBlock \cap InterruptAt
    /\ Fault("sigint")
    /\ rows' \in AppliedRows(w)
    /\ scored' \in AppliedScores(w)
    /\ cut' = cut \cup {<<cyc[w], place>> : place \in {pc[w]} \cap {"polled"}}
    /\ Goto(w, "failing")
    /\ UNCHANGED <<now, cycles, cyc, got, report, tally, todo, view, victims, status>>

\* Outside it nothing catches KeyboardInterrupt before main() does.
InterruptOutside(w) ==
    /\ pc[w] \in OutsideTry \cap InterruptAt
    /\ Fault("sigint")
    /\ cut' = cut \cup {<<cyc[w], IF pc[w] = "failing" THEN "lost" ELSE "outside">>}
    /\ Exit(w)
    /\ UNCHANGED <<now, rows, scored, cycles>>

\* SIGKILL (timeout --kill-after, the job's own timeout) or a lost machine.
Kill(w) ==
    /\ pc[w] # "idle"
    /\ Fault("kill")
    /\ cut' = cut \cup {<<cyc[w], "lost">>}
    /\ Exit(w)
    /\ UNCHANGED <<now, rows, scored, cycles>>

Step(w) == \/ EnterTry(w) \/ PollReturns(w) \/ MarkUnsaved(w)
           \/ SaveBatch(w) \/ FallbackSave(w) \/ FallbackDone(w)
           \/ AfterSave(w) \/ ReadLatest(w) \/ CommitScores(w)
           \/ Classify(w) \/ SelectOld(w) \/ DeleteOld(w)
           \/ FinishCycle(w) \/ AbortCycle(w)

DbFault(w) == \/ SaveBatchFails(w) \/ FallbackError(w) \/ ScoringFails(w)
              \/ PruneFails(w) \/ FinishFails(w)

Next == \/ Publish
        \/ \E w \in Workers :
              \/ OpenCycle(w) \/ Step(w) \/ DbFault(w)
              \/ InterruptTry(w) \/ InterruptOutside(w) \/ Kill(w)

Spec == Init /\ [][Next]_vars

\* A started worker keeps being scheduled; nothing makes a scheduler start one.
FairSpec == Spec /\ \A w \in Workers : WF_vars(Step(w))
-----------------------------------------------------------------------------
(* Properties. *)

Places == {"idle"} \cup TryBlock \cup OutsideTry
Tally == [saved : Nat, failed : Nat, inserted : Nat]
Observed == [Hotspots -> 0..MaxTime]
Cycle == [targets : Nat, saved : Nat, failed : Nat,
          status : {"running", "complete", "partial", "failed"}]

TypeOK ==
    /\ now \in Times
    /\ rows \subseteq Hotspots \X Times
    /\ scored \in Observed
    /\ cycles \in Seq(Cycle)
    /\ faults \in 0..MaxFaults
    /\ cut \subseteq Nat \X Cuts
    /\ pc \in [Workers -> Places]
    /\ cyc \in [Workers -> Nat]
    /\ got \in [Workers -> Observed]
    /\ report \in [Workers -> Tally]
    /\ tally \in [Workers -> Tally]
    /\ todo \in [Workers -> SUBSET Hotspots]
    /\ view \in [Workers -> Observed]
    /\ victims \in [Workers -> SUBSET (Hotspots \X Times)]
    /\ status \in [Workers -> {"running", "complete", "partial", "failed"}]

Ledger == INSTANCE CycleLedger WITH ledger <- cycles

\* A worker's cycle is its own, still as start_cycle left it.
OwnsCycle ==
    \A w \in Workers : pc[w] # "idle" =>
        cyc[w] \in DOMAIN cycles /\ cycles[cyc[w]] = Ledger!Opened

OwnersDiffer ==
    \A u, w \in Workers :
        u # w /\ pc[u] # "idle" /\ pc[w] # "idle" => cyc[u] # cyc[w]

\* What any exit from the cycle would publish fits the CHECK on the counters.
ReportBounded ==
    \A w \in Workers : report[w].saved + report[w].failed <= NumTargets

\* The fallback accounts for every answered target exactly once.
FallbackAccounts ==
    \A w \in Workers :
        /\ pc[w] \in {"idle", "opened", "polling", "polled", "saving"} =>
              tally[w] = Counts(0, 0, 0)
        /\ pc[w] = "fallback" =>
              /\ todo[w] \subseteq Answered(w)
              /\ tally[w].saved + tally[w].failed + Cardinality(todo[w])
                    = Cardinality(Answered(w))

\* The status a cycle will be closed with is the one its report justifies.
StatusJustified ==
    \A w \in Workers :
        IF pc[w] \in {"pruning", "deleting", "finishing"}
        THEN /\ status[w] \in Ledger!Final
             /\ status[w] = "complete" => IsComplete(report[w])
        ELSE status[w] = "running"

\* The snapshot of h fetched by w is stored, or one at least as new is.
Durable(w, h) == \E r \in rows : r[1] = h /\ r[2] >= got[w][h]

\* A report without failures is backed by rows; the fallback builds up to that.
ReportBacked ==
    \A w \in Workers :
        /\ pc[w] = "fallback" /\ tally[w].failed = 0 =>
              \A h \in Answered(w) \ todo[w] : Durable(w, h)
        /\ /\ pc[w] \in {"stored", "scoring", "computed", "closing", "pruning",
                          "deleting", "finishing"}
           /\ report[w].failed = 0
           => \A h \in Hotspots : got[w][h] # NoAnswer /\ Durable(w, h)

\* What a prune has selected still has a newer snapshot when it deletes it.
VictimsReplaced ==
    \A w \in Workers : pc[w] = "deleting" =>
        \A v \in victims[w] : \E q \in rows : q[1] = v[1] /\ q[2] > v[2]

\* Why KeepsLedger, CompleteIsDurable and LatestNeverMovesBack hold: the
\* inductive invariant of their proofs.
WorkInv == /\ TypeOK
           /\ OwnsCycle /\ OwnersDiffer
           /\ ReportBounded /\ FallbackAccounts /\ StatusJustified
           /\ ReportBacked /\ VictimsReplaced

\* However workers, signals and errors interleave, the table keeps its promise:
\* no close is ever refused by a CHECK constraint (which would leave the cycle
\* running), no cycle is closed twice or by another worker, none changes after.
KeepsLedger == Ledger!Spec

\* A cycle about to be published complete has every hotspot's answer in the
\* table, or a newer one when a prune has been there since.
CompleteIsDurable ==
    \A w \in Workers :
        status[w] = "complete" =>
            \A h \in Hotspots : got[w][h] # NoAnswer /\ Durable(w, h)

\* Retention and concurrent inserts never lose a hotspot's newest snapshot, so
\* what the scores and the API call latest never moves back.
LatestNeverMovesBack ==
    [][\A r \in rows : \E q \in rows' : q[1] = r[1] /\ q[2] >= r[2]]_vars

\* "An interrupt must never publish optimistic saved count": what the handler
\* is about to publish as saved is in the table, unless SIGINT came right after
\* the poll, while its own report of what it fetched still stood (worker.py:116).
PublishedSavedIsDurable ==
    \A w \in Workers :
        pc[w] = "failing" /\ <<cyc[w], "polled">> \notin cut =>
            report[w].saved <= Cardinality({h \in Answered(w) : Durable(w, h)})

\* The cycle has a process that will close it.
Held(i) == \E w \in Workers : pc[w] # "idle" /\ cyc[w] = i

\* Nobody is left who would close the cycle.
Abandoned(i) == <<i, "outside">> \in cut \/ <<i, "lost">> \in cut

\* A running cycle has a process that will close it, whatever errors it met and
\* wherever in the try block SIGINT fell.  What strands one is SIGINT outside the
\* try block, where the prune and the close take their round trips to the
\* database, a hard kill, or a close that raised.
NoStrandedCycle ==
    \A i \in DOMAIN cycles :
        cycles[i].status = "running" => Held(i) \/ Abandoned(i)

\* "Python turns SIGINT into KeyboardInterrupt, which must finalize the durable
\* cycle [..]; otherwise /api/health reports running forever."
InterruptsFinalize ==
    \A i \in DOMAIN cycles : cycles[i].status = "running" => Held(i)

\* A cycle of which nothing is due any more: it ended well, or SIGINT stopped it
\* before its try block or after.
Settled(i) ==
    cycles[i].status \in {"complete", "partial"} \/ <<i, "outside">> \in cut

\* With every cycle settled the scores are those of the latest snapshots: a cycle
\* that stored something new did not end before refreshing.
SettledScoresAreCurrent ==
    (/\ \A w \in Workers : pc[w] = "idle"
     /\ \A i \in DOMAIN cycles : Settled(i))
        => scored = Latest

\* Why PublishedSavedIsDurable holds: but for the moment after the poll, a
\* report never counts more than the table has.
SavedIsDurable ==
    \A w \in Workers :
        LET durable == {h \in Answered(w) : Durable(w, h)} IN
        /\ pc[w] # "polled" /\ <<cyc[w], "polled">> \notin cut
              => report[w].saved <= Cardinality(durable)
        /\ pc[w] = "fallback" => tally[w].saved <= Cardinality(durable \ todo[w])

\* Every cycle but w's own is settled.
Untainted(w) ==
    \A i \in DOMAIN cycles : Settled(i) \/ (pc[w] # "idle" /\ i = cyc[w])

\* Why SettledScoresAreCurrent holds: only between an insert and the commit of
\* its scores are the scores behind.
ScoresFollow ==
    \A w \in Workers :
        /\ pc[w] # "fallback"
        /\ pc[w] = "computed" => view[w] = Latest
        /\ /\ Untainted(w)
           /\ pc[w] = "stored" => report[w].inserted = 0
           /\ pc[w] \notin {"scoring", "computed", "failing"}
           => scored = Latest

\* What holds of a worker that is alone, wherever SIGINT or a hard kill falls,
\* and the strengthenings that make it inductive.
AloneInv == /\ NoStrandedCycle
            /\ PublishedSavedIsDurable /\ SavedIsDurable
            /\ SettledScoresAreCurrent /\ ScoresFollow

\* "New hotspot snapshot rows; zero means scores are already current."
ZeroInsertedMeansCurrent ==
    \A w \in Workers :
        pc[w] = "closing" /\ report[w].inserted = 0 => scored = Latest

\* Every cycle that is opened comes to be closed, or is cut short outside the try
\* block or by a kill: a SIGINT inside the block only hastens its close.
CyclesClose ==
    \A i \in 1..MaxCycles :
        (i \in DOMAIN cycles /\ cycles[i].status = "running")
            ~> (i \in DOMAIN cycles /\ (cycles[i].status # "running" \/ Abandoned(i)))

=============================================================================
