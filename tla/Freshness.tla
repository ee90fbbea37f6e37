----------------------------- MODULE Freshness -----------------------------
(***************************************************************************)
(* How old an observation may be before its level is masked: the read API  *)
(* (backend/app/api/routes.py), the browser (frontend/src/                 *)
(* observation-age.ts), the status line of the map (runtime-health.ts) and *)
(* the production monitor (backend/scripts/check_freshness.py).            *)
(*                                                                         *)
(* Ages are in ticks of 1/TicksPerMinute minute, so that rounding shows;   *)
(* an age below zero is a clock ahead of ours.  None is a missing time.    *)
(***************************************************************************)
EXTENDS Outcomes

CONSTANTS
    TicksPerMinute,
    WarnAge,        \* STALE_WARN_MIN, 25 minutes
    DisplayAge,     \* CURRENT_DISPLAY_MAX_AGE_MIN, 120 minutes
    MaxSkew         \* FRESHNESS_MAX_FUTURE_SKEW_MIN, 2 minutes

ASSUME FreshnessAssumption ==
    /\ TicksPerMinute \in Nat \ {0}
    /\ {WarnAge, DisplayAge, MaxSkew} \subseteq Nat
    /\ WarnAge < DisplayAge

Ticks(minutes) == minutes * TicksPerMinute

\* Mutant: the display limit is compared with whole minutes rounded down.
ObservationFreshnessByMinutes(age) ==
    IF age = None THEN "stale"
    ELSE LET minutes == age \div TicksPerMinute IN
         IF minutes > DisplayAge \/ minutes < -MaxSkew THEN "stale"
         ELSE IF minutes > WarnAge THEN "delayed" ELSE "fresh"

ObservationFreshness(age) ==
    IF age = None \/ age > Ticks(DisplayAge) \/ age < -Ticks(MaxSkew) THEN "stale"
    ELSE IF age > Ticks(WarnAge) THEN "delayed" ELSE "fresh"

\* The age in whole minutes, rounded up.
ObservationAgeMinutes(age) ==
    IF age = None \/ age < -Ticks(MaxSkew) THEN None
    ELSE IF age <= 0 THEN 0
    ELSE (age + TicksPerMinute - 1) \div TicksPerMinute

ShowsLevel(freshness) == freshness \in {"fresh", "delayed"}
ShowsConfidence(freshness) == freshness = "fresh"

\* What a listing or a detail says of a score whose observation has this age:
\* _cafe_map_response and _cafe_map_summary_response.
Answered(age) ==
    LET freshness == ObservationFreshness(age)
    IN  [freshness |-> freshness,
         level |-> ShowsLevel(freshness), confidence |-> ShowsConfidence(freshness),
         minutes |-> ObservationAgeMinutes(age)]

\* list_hotspots: the newest snapshot of a hotspot, whatever was scored.
HotspotLevelShown(age) == age # None /\ ShowsLevel(ObservationFreshness(age))

\* currentObservationAgeMinutes, by the browser's clock: the age answered plus
\* the time since the answer arrived, which is where the browser stamps it
\* (observationAgeMeasuredAtMs); a clock that was set back leaves the age that
\* the observation's own time gives.
CurrentAge(minutes, arrived, now, observed) ==
    IF minutes # None /\ arrived <= now THEN Ticks(minutes) + (now - arrived)
    ELSE IF observed # None THEN IF observed > now THEN None ELSE now - observed
    ELSE IF minutes = None THEN None ELSE Ticks(minutes)

\* ageCafe: an answer only ever gets older, and without limits or an age it
\* stays as it was answered.
Aged(answer, age, known) ==
    IF ~known \/ age = None \/ answer.freshness \in {"n/a", "stale"} THEN answer
    ELSE IF age > Ticks(DisplayAge)
         THEN [answer EXCEPT !.freshness = "stale", !.level = FALSE, !.confidence = FALSE]
    ELSE IF age > Ticks(WarnAge)
         THEN [answer EXCEPT !.freshness = "delayed", !.confidence = FALSE]
    ELSE [answer EXCEPT !.freshness = "fresh"]

-----------------------------------------------------------------------------
(* The health of the ingest: the status of the latest cycle and the time    *)
(* since the last complete one.                                             *)

Statuses == {"running", "complete", "partial", "failed"}

\* evaluate_health of the monitor.
EvaluateHealth(status, age) ==
    IF status \notin Statuses \/ status \in {"partial", "failed"} \/ age = None
       \/ age < -Ticks(MaxSkew) \/ age > Ticks(WarnAge)
    THEN "alarm" ELSE "healthy"

\* Mutant: a status the browser does not know of passes for a running cycle.
EvaluateRuntimeHealthLenient(mode, status, age) ==
    IF mode = "snapshot" THEN "snapshot"
    ELSE IF status \in {"partial", "failed"} \/ age = None
         \/ age > Ticks(WarnAge)
    THEN "delayed" ELSE "live"

\* evaluateRuntimeHealth of the map's status line.
EvaluateRuntimeHealth(mode, status, age) ==
    IF mode = "snapshot" THEN "snapshot"
    ELSE IF status \in {"partial", "failed", None} \/ age = None
         \/ age < 0 \/ age > Ticks(WarnAge)
    THEN "delayed" ELSE "live"

-----------------------------------------------------------------------------
(* Properties, over ages and times in ticks. *)

\* The server never understates an age, and of what it answers no level is lit
\* beyond the limit.  The browser, at a time now, is late by no more than the
\* answer was: one that the server computed at 0, that waited in the caches of
\* the edge and of the browser and arrived at the time arrived, may be lit for
\* that much longer than its observation allows, and never for more, though
\* ages are rounded, clocks are ahead and the browser's clock is set back.
AgeLagsByItsWait(age, arrived, now, dated) ==
    LET answer == Answered(age)
        observed == IF age # None /\ dated THEN -age ELSE None
        shown == Aged(answer, CurrentAge(answer.minutes, arrived, now, observed), TRUE)
    IN  /\ answer.minutes # None => Ticks(answer.minutes) >= age
        /\ answer.level => age # None /\ age <= Ticks(DisplayAge)
        /\ shown.level => age # None /\ now + age <= Ticks(DisplayAge) + arrived
        /\ shown.confidence => shown.level /\ now + age <= Ticks(WarnAge) + arrived

\* The status line does not call live what the monitor would report.
LiveIsHealthy(status, age) ==
    EvaluateRuntimeHealth("live", status, age) = "live"
        => EvaluateHealth(status, age) = "healthy"

=============================================================================
