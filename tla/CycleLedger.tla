----------------------------- MODULE CycleLedger -----------------------------
(***************************************************************************)
(* What the ingest_cycles table promises its readers (/api/health, the     *)
(* freshness monitor, the SLO report): a cycle is opened running with      *)
(* empty counters, is closed at most once, to counters and a status that   *)
(* the table's CHECK constraints allow, and never changes after that.      *)
(***************************************************************************)
EXTENDS Integers, Sequences

CONSTANT NumTargets     \* the polled hotspots of every cycle

VARIABLE ledger         \* the cycles in the order they were started

Final == {"complete", "partial", "failed"}

\* The CHECK constraints of IngestCycle.
Lawful(c) ==
    /\ c.targets >= 0 /\ c.saved >= 0 /\ c.failed >= 0
    /\ c.saved + c.failed <= c.targets
    /\ c.status \in Final \cup {"running"}
    /\ c.status = "complete" =>
          c.targets > 0 /\ c.saved = c.targets /\ c.failed = 0

Opened == [targets |-> NumTargets, saved |-> 0, failed |-> 0, status |-> "running"]

Init == ledger = <<>>

Open == ledger' = Append(ledger, Opened)

Close(i) ==
    /\ ledger[i].status = "running"
    /\ \E s \in 0..NumTargets, f \in 0..NumTargets, st \in Final :
          LET closed == [ledger[i] EXCEPT !.saved = s, !.failed = f, !.status = st]
          IN  Lawful(closed) /\ ledger' = [ledger EXCEPT ![i] = closed]

Next == Open \/ \E i \in DOMAIN ledger : Close(i)

Spec == Init /\ [][Next]_ledger

=============================================================================
