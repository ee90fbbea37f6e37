------------------------------ MODULE Backfill ------------------------------
(***************************************************************************)
(* download_living_population_history.py: months of archives downloaded    *)
(* one after another, beside a manifest that a later run may resume from.  *)
(* A run may be killed between any two steps; between runs the operator    *)
(* may remove what is in the way, and a file may be lost or damaged.       *)
(*                                                                         *)
(* A file is known by its content, a manifest entry holds the content it   *)
(* vouches for (size and digest).                                          *)
(***************************************************************************)
EXTENDS Outcomes, FiniteSets

CONSTANTS
    Months,       \* the range asked for, in order
    Contents,     \* what a month's file may hold, whole
    Bad,          \* what a damaged file holds
    MaxLosses     \* bound: archives lost or damaged

ASSUME BackfillAssumption ==
    /\ Months \subseteq Nat /\ IsFiniteSet(Months) /\ Months # {}
    /\ Bad \notin Contents /\ None \notin Contents \cup {Bad} /\ MaxLosses \in Nat

Planned == [status |-> "planned", content |-> None]
Downloaded(c) == [status |-> "downloaded", content |-> c]
Skipped(c) == [status |-> "skipped_verified", content |-> c]
Vouches(entry) == entry.status \in {"downloaded", "skipped_verified"}

VARIABLES
    archives,   \* archives[m]: the content of m's ZIP, or None
    parts,      \* the months with a .part file
    manifest,   \* [status, entries], or None
    run,        \* the run under way [entries, month, phase], or None
    losses

backfillVars == <<archives, parts, manifest, run, losses>>

BackfillInit ==
    /\ archives = [m \in Months |-> None] /\ parts = {}
    /\ manifest = None /\ run = None /\ losses = 0

\* The entries still to download; the first of them; what is left of a run.
Open(entries) == {m \in Months : ~Vouches(entries[m])}
First(S) == CHOOSE m \in S : \A n \in S : m <= n
NextOpen(entries) == IF Open(entries) = {} THEN None ELSE First(Open(entries))

\* Mutant: a file its manifest vouches for and that is gone is downloaded again.
MayResumeMissing(m) ==
    archives[m] = None \/ (Vouches(manifest.entries[m]) /\ manifest.entries[m].content = archives[m])

\* The preflight of main for one month of a resumed run: a file is skipped if
\* the manifest vouches for what it holds, and none it vouches for is missing.
MayResume(m) ==
    IF archives[m] = None THEN ~Vouches(manifest.entries[m])
    ELSE Vouches(manifest.entries[m]) /\ manifest.entries[m].content = archives[m]

\* The preflight, and the manifest of a run that may begin; a run that may not
\* changes nothing, the manifest least of all.
Start(resume) ==
    LET entries == [m \in Months |-> IF archives[m] = None THEN Planned ELSE Skipped(archives[m])] IN
    /\ run = None /\ parts = {}
    /\ IF resume THEN manifest # None /\ \A m \in Months : MayResume(m)
       ELSE manifest = None /\ \A m \in Months : archives[m] = None
    /\ manifest' = [status |-> "in_progress", entries |-> entries]
    /\ run' = [entries |-> entries, month |-> NextOpen(entries), phase |-> "stream"]
    /\ UNCHANGED <<archives, parts, losses>>

\* download_one opens the .part file and streams into it.
Stream ==
    /\ run # None /\ run.month # None /\ run.phase = "stream"
    /\ parts' = parts \cup {run.month}
    /\ run' = [run EXCEPT !.phase = "link"]
    /\ UNCHANGED <<archives, manifest, losses>>

\* The stream ended well: os.link publishes the whole file at once.
LinkFile ==
    /\ run # None /\ run.month # None /\ run.phase = "link"
    /\ \E c \in Contents : archives' = [archives EXCEPT ![run.month] = c]
    /\ run' = [run EXCEPT !.phase = "unlink"]
    /\ UNCHANGED <<parts, manifest, losses>>

Unlink ==
    /\ run # None /\ run.month # None /\ run.phase = "unlink"
    /\ parts' = parts \ {run.month}
    /\ run' = [run EXCEPT !.phase = "record"]
    /\ UNCHANGED <<archives, manifest, losses>>

\* The entries with the month under way, as it is on disk.
Recorded == [run.entries EXCEPT ![run.month] = Downloaded(archives[run.month])]

\* Mutant: the manifest is written at the end of the run only.
RecordInMemory ==
    /\ run # None /\ run.month # None /\ run.phase = "record"
    /\ run' = [entries |-> Recorded, month |-> NextOpen(Recorded), phase |-> "stream"]
    /\ UNCHANGED <<archives, manifest, parts, losses>>

\* _write_manifest, by os.replace, after each file.
Record ==
    /\ run # None /\ run.month # None /\ run.phase = "record"
    /\ manifest' = [manifest EXCEPT !.entries = Recorded]
    /\ run' = [entries |-> Recorded, month |-> NextOpen(Recorded), phase |-> "stream"]
    /\ UNCHANGED <<archives, parts, losses>>

\* That manifest, or the last one, cannot be written, but the one that main
\* writes because of this can.
WriteFails ==
    /\ run # None /\ (run.month # None => run.phase = "record")
    /\ manifest' = [status |-> "failed",
                    entries |-> IF run.month = None THEN run.entries ELSE Recorded]
    /\ run' = None
    /\ UNCHANGED <<archives, parts, losses>>

\* The portal, its file name or the stream is wrong: the .part file is removed,
\* the failure recorded, and the run ends.
Fail ==
    /\ run # None /\ run.month # None /\ run.phase \in {"stream", "link"}
    /\ parts' = parts \ {run.month}
    /\ manifest' = [status |-> "failed",
                    entries |-> [run.entries EXCEPT ![run.month].status = "failed"]]
    /\ run' = None
    /\ UNCHANGED <<archives, losses>>

Finish ==
    /\ run # None /\ run.month = None
    /\ manifest' = [status |-> "complete", entries |-> run.entries]
    /\ run' = None
    /\ UNCHANGED <<archives, parts, losses>>

\* The process is killed.
KillDownload == run # None /\ run' = None /\ UNCHANGED <<archives, parts, manifest, losses>>

\* Between runs: the operator removes a .part file, or a file nothing vouches
\* for; a file is lost or damaged.
Clean(m) ==
    /\ run = None
    /\ \/ m \in parts /\ parts' = parts \ {m} /\ UNCHANGED archives
       \/ /\ archives[m] # None /\ (manifest = None \/ ~Vouches(manifest.entries[m]))
          /\ archives' = [archives EXCEPT ![m] = None] /\ UNCHANGED parts
    /\ UNCHANGED <<manifest, run, losses>>

Lose(m) ==
    /\ run = None /\ losses < MaxLosses /\ archives[m] # None
    /\ \E c \in {None, Bad} : archives' = [archives EXCEPT ![m] = c]
    /\ losses' = losses + 1
    /\ UNCHANGED <<parts, manifest, run>>

RunStep == Stream \/ LinkFile \/ Unlink \/ Record \/ WriteFails \/ Fail \/ Finish

BackfillNext ==
    \/ \E resume \in BOOLEAN : Start(resume)
    \/ RunStep \/ KillDownload
    \/ \E m \in Months : Clean(m) \/ Lose(m)

BackfillSpec == BackfillInit /\ [][BackfillNext]_backfillVars

-----------------------------------------------------------------------------
(* Properties. *)

Entries == [Months -> [status : {"planned", "failed"}, content : {None}]
                      \cup [status : {"downloaded", "skipped_verified"}, content : Contents]]
Manifests == [status : {"in_progress", "failed", "complete"}, entries : Entries]
Runs == [entries : Entries, month : Months \cup {None},
         phase : {"stream", "link", "unlink", "record"}]

BackfillTypes ==
    /\ archives \in [Months -> Contents \cup {Bad, None}] /\ parts \subseteq Months
    /\ manifest = None \/ manifest \in Manifests
    /\ run = None \/ run \in Runs
    /\ losses \in 0..MaxLosses

\* While a run goes on, all that it or an earlier run vouched for is on disk.
VouchedIsOnDisk ==
    run # None => \A m \in Months : Vouches(manifest.entries[m]) =>
        archives[m] = manifest.entries[m].content /\ archives[m] # Bad

\* A run, and so a killed one, is at most one month ahead of its manifest.
AtMostOneAhead ==
    run # None => Cardinality({m \in Months : archives[m] # None /\ ~Vouches(manifest.entries[m])}) <= 1

\* There is one partial file at most, that of the month under way.
OnePart ==
    /\ run # None => parts \subseteq {run.month}
    /\ Cardinality(parts) <= 1

\* The manifest on disk is the one the run has in memory; its month is one of
\* those left; and what is on disk tells how far that month is.
RunIsOnRecord ==
    run # None =>
        /\ manifest \in Manifests /\ manifest.entries = run.entries
        /\ run.month \in Open(run.entries) \cup {None}
        /\ parts # {} => run.phase \in {"link", "unlink"}
        /\ \A m \in Open(run.entries) :
              archives[m] # None <=> m = run.month /\ run.phase \in {"unlink", "record"}
        /\ run.phase \in {"unlink", "record"} => archives[run.month] # Bad

\* Nothing a run wrote takes part in the manifest before it is whole on disk.
BackfillInv ==
    /\ BackfillTypes /\ VouchedIsOnDisk /\ AtMostOneAhead /\ OnePart /\ RunIsOnRecord

\* Over all resumptions, kills and losses, what the manifest once vouched for
\* is never replaced by something else, and no run writes over a file.
KeepsEvidence ==
    /\ manifest # None /\ manifest' # None => \A m \in Months :
          Vouches(manifest.entries[m]) =>
              /\ Vouches(manifest'.entries[m])
              /\ manifest'.entries[m].content = manifest.entries[m].content
    /\ run # None => \A m \in Months : archives[m] # None => archives'[m] = archives[m]

EvidenceIsKept == [][KeepsEvidence]_backfillVars

=============================================================================
