----------------------------- MODULE Operations -----------------------------
(***************************************************************************)
(* What runs the ingest and what watches it: the minutes at which pg_cron  *)
(* starts the poll and the monitor (configure_supabase_scheduler.py), and  *)
(* the report on the ledger of cycles (analyze_ingest_slo.py).             *)
(*                                                                         *)
(* Times are numbers of one unit.  A cycle is [id, started, completed,     *)
(* status, targets, saved], completed None while it runs; cycles are in    *)
(* the order of their starts.                                              *)
(***************************************************************************)
EXTENDS Outcomes, FiniteSets, SequencesExt

CONSTANTS
    PollInterval,   \* POLL_INTERVAL_MIN, divides the hour
    PollOffset,     \* PRODUCTION_POLL_MINUTE_OFFSET
    MonitorDelay,   \* PRODUCTION_MONITOR_DELAY_MIN
    Hour,           \* 60
    Cadence,        \* expected_cadence_min, in units
    GapFactor       \* INGEST_SLO_CADENCE_GAP_FACTOR

\* minute_schedule refuses anything else.
ASSUME OperationsAssumption ==
    /\ PollInterval \in Nat \ {0} /\ Hour \in Nat \ {0} /\ Hour % PollInterval = 0
    /\ PollOffset \in 0..(PollInterval - 1) /\ MonitorDelay \in Nat
    /\ Cadence \in Nat \ {0} /\ GapFactor \in Nat \ {0}

-----------------------------------------------------------------------------
(* The scheduler. *)

\* minute_schedule: the minutes of every hour.
MinuteSchedule(interval, offset) == {m \in offset..(Hour - 1) : (m - offset) % interval = 0}

\* Mutant: the delay is added without a wrap, and is lost in the last slot.
JobsUnwrapped ==
    [poll |-> MinuteSchedule(PollInterval, PollOffset),
     monitor |-> MinuteSchedule(PollInterval, PollOffset + MonitorDelay)]

Jobs ==
    [poll |-> MinuteSchedule(PollInterval, PollOffset),
     monitor |-> MinuteSchedule(PollInterval, (PollOffset + MonitorDelay) % PollInterval)]

JobRow(schedule) == [schedule |-> schedule, active |-> TRUE]

\* report: whether the database holds exactly these jobs and can run them.
SchedulerMatches(db) ==
    /\ db.secrets = 1
    /\ db.extensions = {"pg_cron", "pg_net"}
    /\ \A job \in DOMAIN Jobs : "pg_cron" \in db.extensions /\ db.jobs[job] = JobRow(Jobs[job])

\* apply: cron.schedule writes schedule and command over a job of the name.
\* A job that was switched off by hand stays so.
SchedulerApply(db) ==
    IF db.secrets # 1 THEN db
    ELSE [db EXCEPT
            !.extensions = {"pg_cron", "pg_net"},
            !.jobs = [job \in DOMAIN Jobs |->
                IF db.jobs[job] = None THEN JobRow(Jobs[job])
                ELSE [db.jobs[job] EXCEPT !.schedule = Jobs[job]]]]

-----------------------------------------------------------------------------
(* The report. *)

\* Mutant: a gap is cut down to whole slots.
EstimatedMissedDown(gap) ==
    LET slots == gap \div Cadence IN IF slots > 0 THEN slots - 1 ELSE 0

\* _estimated_missed_cycles: the nearest number of slots, less the endpoint.
EstimatedMissed(gap) ==
    LET slots == (2 * gap + Cadence) \div (2 * Cadence) IN IF slots > 0 THEN slots - 1 ELSE 0

\* The stretches without a start: before the first, between any two, after the
\* last, or the whole window.
Stretches(cycles, from, to) ==
    LET n == Len(cycles)
        start(i) == IF i = 0 THEN from ELSE cycles[i].started
        end(i) == IF i = n + 1 THEN to ELSE cycles[i].started
    IN  [i \in 1..(n + 1) |->
            [kind |-> IF n = 0 THEN "empty_window" ELSE IF i = 1 THEN "window_head"
                      ELSE IF i = n + 1 THEN "window_tail" ELSE "between_cycles",
             gap |-> IF end(i) > start(i - 1) THEN end(i) - start(i - 1) ELSE 0]]

\* record_gap: the stretches that are reported.
CadenceGaps(stretches) == {i \in DOMAIN stretches : stretches[i].gap >= Cadence * GapFactor}

MissedCycles(stretches, gaps) == SumFunction([i \in gaps |-> EstimatedMissed(stretches[i].gap)])

\* Mutant: the first cycle that was open is taken.
CycleOfFirst(cycles, fetched, now) ==
    LET open == {i \in DOMAIN cycles :
            /\ cycles[i].started <= fetched
            /\ fetched <= IF cycles[i].completed = None THEN now ELSE cycles[i].completed}
    IN  IF open = {} THEN None ELSE CHOOSE i \in open : \A j \in open : i <= j

\* The cycle a snapshot was fetched by: the last one begun before it that had
\* not ended; one that still runs ends now.
CycleOf(cycles, fetched, now) ==
    LET open == {i \in DOMAIN cycles :
            /\ cycles[i].started <= fetched
            /\ fetched <= IF cycles[i].completed = None THEN now ELSE cycles[i].completed}
    IN  IF open = {} THEN None ELSE CHOOSE i \in open : \A j \in open : j <= i

NewSnapshots(cycles, snapshots, now) ==
    [i \in DOMAIN cycles |-> Cardinality({s \in snapshots : CycleOf(cycles, s.fetched, now) = i})]

\* What the report says of a cycle, which has no counter of inserted rows.
CycleSignal(cycle, new) ==
    IF new > 0 THEN "new_data"
    ELSE CASE cycle.status = "complete" -> "duplicate_or_unchanged"
           [] cycle.status = "running" -> "pending"
           [] OTHER -> "no_new_data_failure"

Terminal(cycles) == {i \in DOMAIN cycles : cycles[i].status # "running"}

\* Durations; an end before the start, or none, is counted apart.
Durations(cycles) ==
    LET valid == {i \in Terminal(cycles) : cycles[i].completed # None
                                           /\ cycles[i].completed >= cycles[i].started}
    IN  [valid |-> [i \in valid |-> cycles[i].completed - cycles[i].started],
         invalid |-> Cardinality(Terminal(cycles) \ valid)]

\* Lags of fetch after observation; clocks that disagree are counted apart.
Lags(snapshots) ==
    LET late == {s \in snapshots : s.fetched >= s.observed}
    IN  [lags |-> {<<s, s.fetched - s.observed>> : s \in late},
         negative |-> Cardinality(snapshots \ late)]

MissingHotspots(polled, snapshots) == polled \ {s.hotspot : s \in snapshots}

\* _percentile by linear interpolation, times 100, of an ordered sequence.
Percentile(ordered, percent) ==
    LET position == (Len(ordered) - 1) * percent
        lower == ordered[position \div 100 + 1]
        rest == position % 100
    IN  IF rest = 0 THEN 100 * lower
        ELSE 100 * lower + rest * (ordered[position \div 100 + 2] - lower)

-----------------------------------------------------------------------------
(* Properties. *)

\* Polls are an interval apart across every hour, and each is followed by a
\* check of its own, the delay later.
MonitorFollowsPoll ==
    /\ \A m \in Jobs.poll : (m + PollInterval) % Hour \in Jobs.poll
    /\ \A m \in Jobs.poll : (m + MonitorDelay) % Hour \in Jobs.monitor
    /\ Cardinality(Jobs.monitor) = Cardinality(Jobs.poll)

\* What was applied is what the check demands, unless a job was switched off.
ApplyIsAccepted(db) ==
    db.secrets = 1 /\ (\A job \in DOMAIN Jobs : db.jobs[job] # None => db.jobs[job].active)
        => SchedulerMatches(SchedulerApply(db))

\* Where starts keep to slots but for less than a quarter of one, no missed
\* slot between two starts is counted twice or invented, and of two or more in
\* a row none is overlooked.
MissedAreCounted(cycles, from, to, slotOf) ==
    LET stretches == Stretches(cycles, from, to)
        between == {i \in CadenceGaps(stretches) : stretches[i].kind = "between_cycles"}
        skipped(i) == slotOf[i] - slotOf[i - 1] - 1
        pairs == 2..Len(cycles)
        total(S) == SumFunction([i \in S |-> skipped(i)])
    IN  /\ MissedCycles(stretches, between) <= total(pairs)
        /\ MissedCycles(stretches, between) >= total({i \in pairs : skipped(i) >= 2})
        /\ SumFunction([i \in DOMAIN stretches |-> stretches[i].gap]) = to - from

\* A snapshot counts for one cycle at most, and for its own: a killed cycle
\* that still runs in the ledger takes nothing from those after it.
CountsForItsCycle(cycles, snapshots, now) ==
    /\ SumFunction(NewSnapshots(cycles, snapshots, now)) <= Cardinality(snapshots)
    /\ \A i \in DOMAIN cycles, s \in snapshots :
          /\ cycles[i].completed # None
          /\ cycles[i].started <= s.fetched /\ s.fetched <= cycles[i].completed
          /\ i < Len(cycles) => s.fetched < cycles[i + 1].started
          => CycleOf(cycles, s.fetched, now) = i

=============================================================================
