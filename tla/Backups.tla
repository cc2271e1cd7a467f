------------------------------ MODULE Backups ------------------------------
(***************************************************************************)
(* The copies of the database: scripts/backup-db.mjs, which cron starts    *)
(* every hour, and scripts/restore-drill.mjs, which reads the newest copy  *)
(* every day.  A run may die between any two of its steps, and the         *)
(* database may be lost: the server then starts with an empty one.         *)
(***************************************************************************)
EXTENDS Naturals, FiniteSets

CONSTANTS
    KEEP,               \* backups retained
    MaxRows,            \* bound: rows that no scan of the chain brings back
    MaxRuns             \* bound: backup runs

ASSUME BackupAssumption == KEEP \in Nat \ {0} /\ MaxRows \in Nat /\ MaxRuns \in Nat

VARIABLES
    rows,               \* in the live database
    backup_dir,         \* files: the run they are from, their form, what is in them
    checksums,          \* runs whose file has a .sha256 beside it
    backup,             \* the run under way
    runs,               \* runs started
    receipt,            \* the last restore drill
    history             \* history, per run: rows copied, whether signed, whether done

backup_vars == <<rows, backup_dir, checksums, backup, runs, receipt, history>>

NoRun == [ stage |-> "Idle", before |-> 0, after |-> 0 ]
NoOutcome == [ copied |-> 0, signed |-> FALSE, done |-> FALSE ]

BackupInit ==
    /\ rows \in 0 .. MaxRows
    /\ backup_dir = {} /\ checksums = {}
    /\ backup = NoRun /\ runs = 0
    /\ receipt = [ passed |-> FALSE, run |-> 0, rows |-> 0 ]
    /\ history = [r \in 1 .. MaxRuns |-> NoOutcome]

RowWritten ==
    /\ rows < MaxRows /\ rows' = rows + 1
    /\ UNCHANGED <<backup_dir, checksums, backup, runs, receipt, history>>

RowsLost ==
    /\ rows > 0 /\ rows' = 0
    /\ UNCHANGED <<backup_dir, checksums, backup, runs, receipt, history>>

-----------------------------------------------------------------------------
(* backup-db.mjs, one run at a time.                                       *)

file(form, n) == [ run |-> runs, form |-> form, rows |-> n ]

mine(form) == { f \in backup_dir : f.run = runs /\ f.form = form }
gz_files == { f \in backup_dir : f.form \in {"cut", "whole"} }
step(from, to) == backup.stage = from /\ backup' = [backup EXCEPT !.stage = to]

BackupStarts ==
    /\ backup.stage = "Idle" /\ runs < MaxRuns
    /\ runs' = runs + 1
    /\ backup' = [ stage |-> "Counted", before |-> rows, after |-> 0 ]
    /\ UNCHANGED <<rows, backup_dir, checksums, receipt, history>>

\* The service writes on between the count and the copy.
VacuumInto ==
    /\ backup.stage = "Counted"
    /\ backup' = [backup EXCEPT !.stage = "Copied", !.after = rows]
    /\ backup_dir' = backup_dir \union {file("plain", rows)}
    /\ history' = [history EXCEPT ![runs].copied = rows]
    /\ UNCHANGED <<rows, checksums, runs, receipt>>

\* mismatches is never filled: only a copy without any row is refused.
came_out_empty == backup.after = 0 /\ backup.before > 0

Prove ==
    /\ backup.stage = "Copied"
    /\ IF came_out_empty
       THEN backup' = NoRun /\ backup_dir' = backup_dir \ mine("plain")
       ELSE backup' = [backup EXCEPT !.stage = "Proved"] /\ UNCHANGED backup_dir
    /\ UNCHANGED <<rows, checksums, runs, receipt, history>>

\* The file exists before all of it is written.
GzipBegins ==
    /\ step("Proved", "Zipping")
    /\ backup_dir' = backup_dir \union {file("cut", 0)}
    /\ UNCHANGED <<rows, checksums, runs, receipt, history>>

GzipEnds ==
    /\ step("Zipping", "Zipped")
    /\ backup_dir' = (backup_dir \ (mine("cut") \union mine("plain")))
                     \union {file("whole", backup.after)}
    /\ UNCHANGED <<rows, checksums, runs, receipt, history>>

WriteChecksum ==
    /\ step("Zipped", "Signed")
    /\ checksums' = checksums \union {runs}
    /\ history' = [history EXCEPT ![runs].signed = TRUE]
    /\ UNCHANGED <<rows, backup_dir, runs, receipt>>

newer_than(f) == { g \in gz_files : g.run > f.run }

\* SLIP: the list is in the order of the names, so the oldest are kept.
stale_reversed(f) == Cardinality({ g \in gz_files : g.run < f.run }) >= KEEP

stale(f) == Cardinality(newer_than(f)) >= KEEP

\* What died halfway counts as well; copies that were never zipped are not looked at.
Retention ==
    LET gone == { f \in gz_files : stale(f) } IN
    /\ backup.stage = "Signed" /\ backup' = NoRun
    /\ backup_dir' = backup_dir \ gone
    /\ checksums' = checksums \ { f.run : f \in gone }
    /\ history' = [history EXCEPT ![runs].done = TRUE]
    /\ UNCHANGED <<rows, runs, receipt>>

BackupDies ==
    /\ backup.stage # "Idle" /\ backup' = NoRun
    /\ UNCHANGED <<rows, backup_dir, checksums, runs, receipt, history>>

-----------------------------------------------------------------------------
(* restore-drill.mjs                                                       *)

newest == { f \in gz_files : newer_than(f) = {} }

sound(f) == f.form = "whole" /\ f.run \in checksums

\* An archive cut short does not decompress: the drill dies and leaves no receipt.
RestoreDrill ==
    /\ \E f \in newest :
          /\ f.form = "whole"
          /\ receipt' = [ passed |-> sound(f), run |-> f.run, rows |-> f.rows ]
    /\ UNCHANGED <<rows, backup_dir, checksums, backup, runs, history>>

BackupNext ==
    \/ RowWritten
    \/ RowsLost
    \/ BackupStarts
    \/ VacuumInto
    \/ Prove
    \/ GzipBegins
    \/ GzipEnds
    \/ WriteChecksum
    \/ Retention
    \/ BackupDies
    \/ RestoreDrill

BackupSpec == BackupInit /\ [][BackupNext]_backup_vars

-----------------------------------------------------------------------------
(* Retention, "keeping the newest KEEP": what a completed run copied can   *)
(* be restored until KEEP more runs have started, also when the database   *)
(* was lost between them, or runs died and left what they had.  And        *)
(* restore-drill, "restored and read, not merely written": a drill that    *)
(* passed read all the rows its run had copied.                            *)
BackupsHold ==
    /\ \A r \in 1 .. runs :
          history[r].done /\ runs < r + KEEP =>
              \E f \in backup_dir : f.run = r /\ sound(f) /\ f.rows = history[r].copied
    /\ receipt.passed =>
          history[receipt.run].signed /\ history[receipt.run].copied = receipt.rows
=============================================================================
