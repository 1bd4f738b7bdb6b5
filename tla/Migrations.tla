----------------------------- MODULE Migrations -----------------------------
(***************************************************************************)
(* The migration jobs (src/src/db/migrate.js): each takes a database       *)
(* session, makes sure the table schema_migrations exists, takes a session *)
(* advisory lock, reads which files are applied and applies the others in  *)
(* filename order, each in a transaction of its own.                       *)
(*                                                                         *)
(* Nothing in the code keeps two jobs from running at once, and the        *)
(* orchestrator starts a failed one again, so jobs overlap at any await.   *)
(* A session that ends takes its lock with it.                             *)
(***************************************************************************)
EXTENDS Naturals, Sequences, FiniteSets, FiniteSetsExt

CONSTANTS
  Jobs,          \* migration jobs
  Files,         \* the .sql files, numbered in filename order
  OutboxFile,    \* the file that creates event_outbox
  SessionFile,   \* the file that creates user_sessions
  MaxIncidents   \* bound on crashes, failed or lost statements, signals

ASSUME FilesAssumption ==
  /\ Files \subseteq Nat /\ IsFiniteSet(Files)
  /\ OutboxFile \in Files /\ SessionFile \in Files
ASSUME IncidentsAssumption == MaxIncidents \in Nat

VARIABLES
  created,    \* schema_migrations exists
  applied,    \* its rows, in the order they were committed
  jobAt,      \* where each job is in runMigrations
  known,      \* the job's alreadyApplied
  holder,     \* the jobs that hold the advisory lock
  incidents   \* how many of the MaxIncidents have happened

migrationVars == <<created, applied, jobAt, known, holder>>

Ended == {"done", "raced", "refused", "broken"}

AppliedFiles == {applied[i] : i \in DOMAIN applied}
Migrated(f)  == f \in AppliedFiles

Incident == incidents < MaxIncidents /\ incidents' = incidents + 1

MigrationsInit ==
  /\ created = FALSE
  /\ applied = <<>>
  /\ jobAt = [j \in Jobs |-> "down"]
  /\ known = [j \in Jobs |-> {}]
  /\ holder = {}

-----------------------------------------------------------------------------
\* The job's session ends: the server releases its advisory lock.
EndJob(j, verdict) ==
  /\ jobAt' = [jobAt EXCEPT ![j] = verdict]
  /\ holder' = holder \ {j}

\* A first start, or the orchestrator's retry of a job that failed.
JobStarts(j) ==
  /\ jobAt[j] \in {"down"} \cup (Ended \ {"done"})
  /\ jobAt' = [jobAt EXCEPT ![j] = "create"]
  /\ UNCHANGED <<created, applied, known, holder, incidents>>

\* CREATE TABLE IF NOT EXISTS looks for the table first and creates it in a
\* second step, before any lock is taken ...
LooksForTable(j) ==
  /\ jobAt[j] = "create"
  /\ jobAt' = [jobAt EXCEPT ![j] = IF created THEN "lock" ELSE "creating"]
  /\ UNCHANGED <<created, applied, known, holder, incidents>>

\* ... so the slower of two jobs runs into a unique violation and fails.
CreatesTable(j) ==
  /\ jobAt[j] = "creating"
  /\ created' = TRUE
  /\ IF created THEN EndJob(j, "raced")
     ELSE jobAt' = [jobAt EXCEPT ![j] = "lock"] /\ UNCHANGED holder
  /\ UNCHANGED <<applied, known, incidents>>

\* Slip: the lock is tried, not waited for.
TakesLockAtOnce(j) ==
  /\ jobAt[j] = "lock"
  /\ holder' = holder \cup {j}
  /\ jobAt' = [jobAt EXCEPT ![j] = "read"]
  /\ UNCHANGED <<created, applied, known, incidents>>

TakesLock(j) ==
  /\ jobAt[j] = "lock"
  /\ holder = {}
  /\ holder' = {j}
  /\ jobAt' = [jobAt EXCEPT ![j] = "read"]
  /\ UNCHANGED <<created, applied, known, incidents>>

ReadsApplied(j) ==
  /\ jobAt[j] = "read"
  /\ known' = [known EXCEPT ![j] = AppliedFiles]
  /\ jobAt' = [jobAt EXCEPT ![j] = "apply"]
  /\ UNCHANGED <<created, applied, holder, incidents>>

NextFile(j) == Min(Files \ known[j])

\* One transaction: the file's statements and its row.  The primary key of
\* schema_migrations refuses a file that is there already.
AppliesFile(j) ==
  /\ jobAt[j] = "apply" /\ Files \ known[j] # {}
  /\ IF Migrated(NextFile(j))
     THEN EndJob(j, "refused") /\ UNCHANGED <<applied, known>>
     ELSE /\ applied' = Append(applied, NextFile(j))
          /\ known' = [known EXCEPT ![j] = @ \cup {NextFile(j)}]
          /\ UNCHANGED <<jobAt, holder>>
  /\ UNCHANGED <<created, incidents>>

Unlocks(j) ==
  /\ jobAt[j] = "apply" /\ Files \subseteq known[j]
  /\ EndJob(j, "done")
  /\ UNCHANGED <<created, applied, known, incidents>>

\* The job dies or a statement fails: an open transaction is rolled back.
JobBreaks(j) ==
  /\ jobAt[j] \notin {"down"} \cup Ended
  /\ Incident
  /\ EndJob(j, "broken")
  /\ UNCHANGED <<created, applied, known>>

\* The transaction of a file is committed, but the job never hears of it.
CommitUnheard(j) ==
  /\ jobAt[j] = "apply" /\ Files \ known[j] # {}
  /\ ~Migrated(NextFile(j))
  /\ Incident
  /\ applied' = Append(applied, NextFile(j))
  /\ EndJob(j, "broken")
  /\ UNCHANGED <<created, known>>

JobRuns(j) ==
  \/ JobStarts(j) \/ LooksForTable(j) \/ CreatesTable(j) \/ TakesLock(j)
  \/ ReadsApplied(j) \/ AppliesFile(j) \/ Unlocks(j)

MigrationStep == \E j \in Jobs : JobRuns(j) \/ JobBreaks(j) \/ CommitUnheard(j)

\* The orchestrator keeps retrying and the database keeps answering.
MigrationFairness == \A j \in Jobs : WF_<<migrationVars, incidents>>(JobRuns(j))

-----------------------------------------------------------------------------
MigrationTypeOK ==
  /\ created \in BOOLEAN
  /\ applied \in Seq(Files)
  /\ jobAt \in [Jobs -> {"down", "create", "creating", "lock", "read",
                         "apply"} \cup Ended]
  /\ known \in [Jobs -> SUBSET Files]
  /\ holder \in {{}} \cup {{j} : j \in Jobs}
  /\ incidents \in 0..MaxIncidents

\* README:658 "Migrations are applied in filename order": whatever jobs
\* overlap, die and are retried, the files committed so far are the first
\* ones in that order, each once, and a job that reaches the lock is never
\* refused a file because another one has applied it behind its back.
MigrationsOrderly ==
  /\ \A i \in DOMAIN applied :
       Cardinality({f \in Files : f <= applied[i]}) = i
  /\ \A j \in Jobs : jobAt[j] # "refused"

=============================================================================
