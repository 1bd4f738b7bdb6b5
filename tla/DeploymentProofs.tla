-------------------------- MODULE DeploymentProofs --------------------------
(***************************************************************************)
(* Proofs about Deployment, for any number of jobs and files and whatever  *)
(* the processes do meanwhile.                                             *)
(***************************************************************************)
EXTENDS Deployment, FiniteSetTheorems, WellFoundedInduction, TLAPS

\* The awaits of runMigrations a job can be at, and how it ends.
JobStates == {"down", "create", "creating", "lock", "read", "apply"} \cup Ended

\* The files applied are the first ones, each once ...
AppliedInOrder ==
  /\ \A f \in AppliedFiles : \A g \in Files : g < f => g \in AppliedFiles
  /\ Cardinality(AppliedFiles) = Len(applied)

\* ... and only the holder of the lock reads or applies; what it knows when
\* it applies is what is applied.
LockedMigration ==
  /\ \A j \in Jobs : j \in holder <=> jobAt[j] \in {"read", "apply"}
  /\ \A j \in Jobs : jobAt[j] = "apply" => known[j] = AppliedFiles

\* What every step of every migration job keeps.
MigrationInv ==
  /\ MigrationTypeOK
  /\ AppliedInOrder /\ LockedMigration /\ MigrationsOrderly

-----------------------------------------------------------------------------
\* A set of natural numbers that has an element has a least one.
LEMMA MinOfNat ==
  ASSUME NEW S \in SUBSET Nat, S # {}
  PROVE  Min(S) \in S /\ \A n \in S : Min(S) <= n
<1>1. PICK m \in S : \A n \in S : ~(<<n, m>> \in OpToRel(<, Nat))
  BY WFMin, NatLessThanWellFounded
<1>2. ASSUME NEW n \in S PROVE m <= n
  <2>1. ~(<<n, m>> \in OpToRel(<, Nat))  BY <1>1
  <2>2. n < m => <<n, m>> \in OpToRel(<, Nat)
    BY Zenon DEF OpToRel
  <2>3. ~(n < m)  BY <2>1, <2>2, Zenon
  <2>4. QED BY <2>3
<1>3. QED BY <1>2 DEF Min

\* The files applied are finitely many.
LEMMA AppliedIsFinite ==
  ASSUME applied \in Seq(Files)
  PROVE  AppliedFiles \in SUBSET Files /\ IsFiniteSet(AppliedFiles)
<1>1. AppliedFiles \in SUBSET Files  BY DEF AppliedFiles
<1>2. QED BY <1>1, FS_Subset, FilesAssumption

\* One more file is one more element.
LEMMA OneMoreFile ==
  ASSUME NEW f \in Files, applied \in Seq(Files), applied' = Append(applied, f)
  PROVE  /\ applied' \in Seq(Files)
         /\ AppliedFiles' = AppliedFiles \cup {f}
         /\ Len(applied') = Len(applied) + 1
         /\ applied'[Len(applied) + 1] = f
         /\ \A i \in DOMAIN applied : applied'[i] = applied[i]
         /\ DOMAIN applied' = DOMAIN applied \cup {Len(applied) + 1}
<1>1. /\ applied' \in Seq(Files)
      /\ Len(applied') = Len(applied) + 1
      /\ applied'[Len(applied) + 1] = f
      /\ \A i \in DOMAIN applied : applied'[i] = applied[i]
      /\ DOMAIN applied' = DOMAIN applied \cup {Len(applied) + 1}
  OBVIOUS
<1>2. AppliedFiles' = AppliedFiles \cup {f}
  BY <1>1 DEF AppliedFiles
<1>3. QED BY <1>1, <1>2

\* The next file comes after all that are applied and before all others.
LEMMA NextFileIsNext ==
  ASSUME NEW j \in Jobs, MigrationInv, jobAt[j] = "apply",
         Files \ known[j] # {}
  PROVE  /\ NextFile(j) \in Files \ AppliedFiles
         /\ {f \in Files : f <= NextFile(j)} = AppliedFiles \cup {NextFile(j)}
<1> DEFINE x == NextFile(j)
<1>1. known[j] = AppliedFiles /\ Files \subseteq Nat /\ AppliedFiles \subseteq Files
  BY FilesAssumption, AppliedIsFinite
     DEF MigrationInv, LockedMigration, MigrationTypeOK
<1>2. x \in Files \ AppliedFiles /\ \A f \in Files \ AppliedFiles : x <= f
  BY <1>1, MinOfNat DEF NextFile
<1>3. \A f \in AppliedFiles : f <= x
  <2>1. \A f \in AppliedFiles : ~(x < f)
    BY <1>2 DEF MigrationInv, AppliedInOrder
  <2>2. x \in Nat /\ AppliedFiles \subseteq Nat  BY <1>1, <1>2
  <2> HIDE DEF x
  <2>3. \A n, m \in Nat : ~(m < n) => n <= m  OBVIOUS
  <2>4. ASSUME NEW f \in AppliedFiles PROVE f <= x
    <3>1. f \in Nat /\ ~(x < f)  BY <2>1, <2>2
    <3>2. QED BY <2>2, <2>3, <3>1
  <2>5. QED BY <2>4
<1>4. ASSUME NEW f \in Files, f <= x PROVE f \in AppliedFiles \cup {x}
  <2>1. f \in Nat /\ x \in Nat  BY <1>1, <1>2
  <2>2. f \notin AppliedFiles => x <= f  BY <1>2
  <2>3. QED BY <1>4, <2>1, <2>2
<1>5. QED BY <1>1, <1>2, <1>3, <1>4

\* Applying the next file, heard of or not, keeps the order.
LEMMA ApplyKeepsOrder ==
  ASSUME NEW j \in Jobs, MigrationInv, jobAt[j] = "apply",
         Files \ known[j] # {}, applied' = Append(applied, NextFile(j))
  PROVE  /\ applied' \in Seq(Files)
         /\ AppliedFiles' = AppliedFiles \cup {NextFile(j)}
         /\ AppliedInOrder'
         /\ \A i \in DOMAIN applied' :
              Cardinality({f \in Files : f <= applied'[i]}) = i
<1> DEFINE x == NextFile(j)
<1>1. /\ x \in Files \ AppliedFiles
      /\ {f \in Files : f <= x} = AppliedFiles \cup {x}
  BY NextFileIsNext
<1>2. applied \in Seq(Files) /\ IsFiniteSet(AppliedFiles)
      /\ AppliedFiles \subseteq Files
  BY AppliedIsFinite DEF MigrationInv, MigrationTypeOK
<1>3. /\ applied' \in Seq(Files)
      /\ AppliedFiles' = AppliedFiles \cup {x}
      /\ Len(applied') = Len(applied) + 1
      /\ applied'[Len(applied) + 1] = x
      /\ \A i \in DOMAIN applied : applied'[i] = applied[i]
      /\ DOMAIN applied' = DOMAIN applied \cup {Len(applied) + 1}
  BY <1>1, <1>2, OneMoreFile
<1>4. Cardinality(AppliedFiles \cup {x}) = Len(applied) + 1
  BY <1>1, <1>2, FS_AddElement DEF MigrationInv, AppliedInOrder
<1>5. AppliedInOrder'
  <2>1. ASSUME NEW g \in Files, g < x PROVE g \in AppliedFiles \cup {x}
    <3>1. g \in Nat /\ x \in Nat  BY <1>1, FilesAssumption
    <3>2. g <= x  BY <2>1, <3>1
    <3>3. g \in {f \in Files : f <= x}  BY <3>2
    <3>4. QED BY <1>1, <3>3
  <2>2. \A f \in AppliedFiles' : \A g \in Files : g < f => g \in AppliedFiles'
    BY <1>3, <2>1 DEF MigrationInv, AppliedInOrder
  <2>3. QED BY <1>3, <1>4, <2>2 DEF AppliedInOrder
<1>6. \A i \in DOMAIN applied' : Cardinality({f \in Files : f <= applied'[i]}) = i
  <2>1. \A i \in DOMAIN applied : Cardinality({f \in Files : f <= applied'[i]}) = i
    BY <1>3 DEF MigrationInv, MigrationsOrderly
  <2>2. Cardinality({f \in Files : f <= applied'[Len(applied) + 1]})
          = Len(applied) + 1
    BY <1>1, <1>3, <1>4
  <2>3. QED BY <1>3, <2>1, <2>2
<1>7. QED BY <1>3, <1>5, <1>6

-----------------------------------------------------------------------------
\* A job that ends lets go of the lock; the others are where they were.
LEMMA EndJobKeepsLock ==
  ASSUME NEW j \in Jobs, NEW verdict \in Ended, MigrationTypeOK,
         LockedMigration, EndJob(j, verdict)
  PROVE  /\ jobAt' \in [Jobs -> JobStates]
         /\ holder' \in {{}} \cup {{i} : i \in Jobs}
         /\ \A i \in Jobs : i \in holder' <=> jobAt'[i] \in {"read", "apply"}
         /\ \A i \in Jobs : jobAt'[i] = "apply" => jobAt[i] = "apply" /\ i # j
         /\ verdict # "refused" =>
              \A i \in Jobs : jobAt'[i] = "refused" => jobAt[i] = "refused"
<1>1. /\ jobAt' = [jobAt EXCEPT ![j] = verdict] /\ holder' = holder \ {j}
      /\ jobAt \in [Jobs -> JobStates]
      /\ holder \in {{}} \cup {{i} : i \in Jobs}
  BY DEF EndJob, MigrationTypeOK, JobStates
<1>2. jobAt' \in [Jobs -> JobStates]  BY <1>1 DEF JobStates
<1>3. \A i \in Jobs : jobAt'[i] = IF i = j THEN verdict ELSE jobAt[i]
  BY <1>1
<1>4. holder' \in {{}} \cup {{i} : i \in Jobs}  BY <1>1
<1>5. QED BY <1>1, <1>2, <1>3, <1>4 DEF LockedMigration, Ended

\* Nobody but the holder of the lock is where files are applied.
LEMMA OneApplies ==
  ASSUME NEW i \in Jobs, NEW j \in Jobs, MigrationInv,
         jobAt[i] = "apply", jobAt[j] = "apply"
  PROVE  i = j
BY DEF MigrationInv, MigrationTypeOK, LockedMigration

\* A step that leaves the files alone keeps their order.
LEMMA FilesUntouched ==
  ASSUME MigrationInv, UNCHANGED applied
  PROVE  /\ AppliedFiles' = AppliedFiles /\ AppliedInOrder'
         /\ \A i \in DOMAIN applied' :
              Cardinality({f \in Files : f <= applied'[i]}) = i
BY DEF MigrationInv, AppliedFiles, AppliedInOrder, MigrationsOrderly

\* Before the first job nothing is applied and nobody holds the lock.
LEMMA MigrationInit == MigrationsInit /\ incidents = 0 => MigrationInv
<1> SUFFICES ASSUME MigrationsInit, incidents = 0 PROVE MigrationInv
  OBVIOUS
<1>1. AppliedFiles = {}  BY DEF MigrationsInit, AppliedFiles
<1>2. MigrationTypeOK
  <2>1. <<>> \in Seq(Files)  OBVIOUS
  <2>2. 0 \in 0..MaxIncidents  BY IncidentsAssumption
  <2>3. [j \in Jobs |-> {}] \in [Jobs -> SUBSET Files]  OBVIOUS
  <2>4. QED BY <2>1, <2>2, <2>3 DEF MigrationsInit, MigrationTypeOK, Ended
<1>3. AppliedInOrder
  BY <1>1, FS_EmptySet DEF MigrationsInit, AppliedInOrder
<1>4. LockedMigration /\ MigrationsOrderly
  BY DEF MigrationsInit, LockedMigration, MigrationsOrderly
<1>5. QED BY <1>2, <1>3, <1>4 DEF MigrationInv

\* Every step of a job keeps the invariant.
LEMMA JobKeepsInv ==
  ASSUME MigrationInv, NEW j \in Jobs,
         JobRuns(j) \/ JobBreaks(j) \/ CommitUnheard(j)
  PROVE  MigrationInv'
<1> USE DEF MigrationInv
<1>0. /\ incidents' \in 0..MaxIncidents
  BY IncidentsAssumption
     DEF MigrationTypeOK, JobRuns, JobStarts, LooksForTable, CreatesTable,
         TakesLock, ReadsApplied, AppliesFile, Unlocks, JobBreaks,
         CommitUnheard, Incident
<1>1. CASE JobStarts(j)
  <2>1. MigrationTypeOK'
    BY <1>1, <1>0 DEF JobStarts, MigrationTypeOK, Ended
  <2>2. LockedMigration' /\ AppliedInOrder' /\ MigrationsOrderly'
    BY <1>1, FilesUntouched DEF JobStarts, MigrationTypeOK, Ended, LockedMigration,
       MigrationsOrderly
  <2>3. QED BY <2>1, <2>2
<1>2. CASE LooksForTable(j)
  <2>1. MigrationTypeOK'
    BY <1>2, <1>0 DEF LooksForTable, MigrationTypeOK
  <2>2. LockedMigration' /\ AppliedInOrder' /\ MigrationsOrderly'
    BY <1>2, FilesUntouched DEF LooksForTable, MigrationTypeOK, LockedMigration,
       MigrationsOrderly
  <2>3. QED BY <2>1, <2>2
<1>3. CASE CreatesTable(j)
  <2>1. CASE created
    <3>1. EndJob(j, "raced") /\ "raced" \in Ended /\ UNCHANGED <<applied, known>>
          /\ created'
      BY <1>3, <2>1 DEF CreatesTable, Ended
    <3>2. MigrationTypeOK'
      BY <3>1, <1>0, EndJobKeepsLock DEF MigrationTypeOK, JobStates
    <3>3. LockedMigration' /\ AppliedInOrder' /\ MigrationsOrderly'
      BY <3>1, EndJobKeepsLock, FilesUntouched
         DEF LockedMigration, MigrationsOrderly
    <3>4. QED BY <3>2, <3>3
  <2>2. CASE ~created
    <3>1. MigrationTypeOK'
      BY <1>3, <2>2, <1>0 DEF CreatesTable, MigrationTypeOK
    <3>2. LockedMigration' /\ AppliedInOrder' /\ MigrationsOrderly'
      BY <1>3, <2>2, FilesUntouched DEF CreatesTable, MigrationTypeOK,
         LockedMigration, MigrationsOrderly
    <3>3. QED BY <3>1, <3>2
  <2>3. QED BY <2>1, <2>2
<1>4. CASE TakesLock(j)
  <2>1. MigrationTypeOK'
    BY <1>4, <1>0 DEF TakesLock, MigrationTypeOK
  <2>2. LockedMigration' /\ AppliedInOrder' /\ MigrationsOrderly'
    BY <1>4, FilesUntouched DEF TakesLock, MigrationTypeOK, LockedMigration,
       MigrationsOrderly
  <2>3. QED BY <2>1, <2>2
<1>5. CASE ReadsApplied(j)
  <2>0. AppliedFiles \in SUBSET Files
    BY AppliedIsFinite DEF MigrationTypeOK
  <2>1. MigrationTypeOK'
    BY <1>5, <1>0, <2>0 DEF ReadsApplied, MigrationTypeOK
  <2>2. LockedMigration' /\ AppliedInOrder' /\ MigrationsOrderly'
    BY <1>5, FilesUntouched DEF ReadsApplied, MigrationTypeOK, LockedMigration,
       MigrationsOrderly
  <2>3. QED BY <2>1, <2>2
<1>6. CASE AppliesFile(j)
  <2>1. jobAt[j] = "apply" /\ Files \ known[j] # {} /\ UNCHANGED created
    BY <1>6 DEF AppliesFile
  <2>2. ~Migrated(NextFile(j))
    BY <2>1, NextFileIsNext DEF Migrated
  <2>3. /\ applied' = Append(applied, NextFile(j))
        /\ known' = [known EXCEPT ![j] = @ \cup {NextFile(j)}]
        /\ UNCHANGED <<jobAt, holder>>
    BY <1>6, <2>2 DEF AppliesFile
  <2>4. /\ applied' \in Seq(Files)
        /\ AppliedFiles' = AppliedFiles \cup {NextFile(j)}
        /\ AppliedInOrder'
        /\ \A i \in DOMAIN applied' :
             Cardinality({f \in Files : f <= applied'[i]}) = i
    BY <2>1, <2>3, ApplyKeepsOrder
  <2>5. NextFile(j) \in Files  BY <2>1, NextFileIsNext
  <2>6. MigrationTypeOK'
    BY <2>1, <2>3, <2>4, <2>5, <1>0 DEF MigrationTypeOK
  <2>7. LockedMigration'
    BY <2>1, <2>3, <2>4, OneApplies DEF LockedMigration, MigrationTypeOK
  <2>8. MigrationsOrderly'
    BY <2>3, <2>4 DEF MigrationsOrderly
  <2>9. QED BY <2>4, <2>6, <2>7, <2>8
<1>7. CASE Unlocks(j)
  <2>1. EndJob(j, "done") /\ "done" \in Ended
        /\ UNCHANGED <<created, applied, known>>
    BY <1>7 DEF Unlocks, Ended
  <2>2. MigrationTypeOK'
    BY <2>1, <1>0, EndJobKeepsLock DEF MigrationTypeOK, JobStates
  <2>3. LockedMigration' /\ AppliedInOrder' /\ MigrationsOrderly'
    BY <2>1, EndJobKeepsLock, FilesUntouched
       DEF LockedMigration, MigrationsOrderly
  <2>4. QED BY <2>2, <2>3
<1>8. CASE JobBreaks(j)
  <2>1. EndJob(j, "broken") /\ "broken" \in Ended
        /\ UNCHANGED <<created, applied, known>>
    BY <1>8 DEF JobBreaks, Ended
  <2>2. MigrationTypeOK'
    BY <2>1, <1>0, EndJobKeepsLock DEF MigrationTypeOK, JobStates
  <2>3. LockedMigration' /\ AppliedInOrder' /\ MigrationsOrderly'
    BY <2>1, EndJobKeepsLock, FilesUntouched
       DEF LockedMigration, MigrationsOrderly
  <2>4. QED BY <2>2, <2>3
<1>9. CASE CommitUnheard(j)
  <2>1. /\ jobAt[j] = "apply" /\ Files \ known[j] # {}
        /\ applied' = Append(applied, NextFile(j))
        /\ EndJob(j, "broken") /\ "broken" \in Ended
        /\ UNCHANGED <<created, known>>
    BY <1>9 DEF CommitUnheard, Ended
  <2>2. /\ applied' \in Seq(Files)
        /\ AppliedInOrder'
        /\ \A i \in DOMAIN applied' :
             Cardinality({f \in Files : f <= applied'[i]}) = i
    BY <2>1, ApplyKeepsOrder
  <2>3. MigrationTypeOK'
    BY <2>1, <2>2, <1>0, EndJobKeepsLock DEF MigrationTypeOK, JobStates
  <2>4. LockedMigration'
    BY <2>1, EndJobKeepsLock, OneApplies DEF LockedMigration
  <2>5. MigrationsOrderly'
    BY <2>1, <2>2, EndJobKeepsLock DEF MigrationsOrderly
  <2>6. QED BY <2>2, <2>3, <2>4, <2>5
<1>10. QED BY <1>1, <1>2, <1>3, <1>4, <1>5, <1>6, <1>7, <1>8, <1>9 DEF JobRuns

-----------------------------------------------------------------------------
(***************************************************************************)
(* The API process: a closer reaches the pool only when nobody listens and *)
(* the outbox worker has stopped, and then nothing is opened any more.     *)
(***************************************************************************)
ServerStates ==
  [boot : {"down", "db", "redis", "cleanup", "sockets", "serving",
           "returned", "failed"},
   told : BOOLEAN,
   closer : [Closers -> Active \cup {"none", "done"}],
   listening : BOOLEAN, outbox : Outboxes, pool : Pools,
   publisher : Clients, subscriber : Clients]

ServerSafe(s) ==
  /\ s \in ServerStates
  /\ s.closer["signal"] # "none" => s.told
  /\ s.closer["failure"] # "none" => s.boot = "failed"
  /\ \A c \in Closers : s.closer[c] \notin {"none", "io"} => ~s.listening
  /\ \A c \in Closers :
       s.closer[c] \notin {"none", "io", "worker"} => s.pool # "open"
  /\ s.pool # "open" =>
       /\ ~s.listening /\ s.outbox \in {"none", "stopped"}
       /\ s.told \/ s.closer["failure"] # "none"

\* Who may begin to close: a process told to stop, or one that failed to start.
Entitled(s, c) == IF c = "signal" THEN s.told ELSE s.boot = "failed"

\* Who is closing was entitled to.
LEMMA CloserIsEntitled ==
  ASSUME NEW s, NEW c \in Closers, ServerSafe(s), s.closer[c] # "none"
  PROVE  Entitled(s, c)
BY DEF Entitled, ServerSafe, Closers

\* The clients have no part in what is safe.
LEMMA ClientsCloseSafely ==
  ASSUME NEW s, NEW c \in Closers, ServerSafe(s), s.pool # "open",
         Entitled(s, c)
  PROVE  ServerSafe(CloseSubscriber(s, c)) /\ ServerSafe(ClosePublisher(s, c))
<1>1. ServerSafe(CloseSubscriber(s, c))
  BY DEF Entitled, ServerSafe, ServerStates, CloseSubscriber, Closers, Active, Clients
<1>2. ServerSafe([s EXCEPT !.closer[c] = "publisher", !.publisher = "quitting"])
  BY DEF Entitled, ServerSafe, ServerStates, Closers, Active, Clients
<1>3. QED BY <1>1, <1>2 DEF ClosePublisher

\* The pool may be closed once the outbox worker has none or is stopped.
LEMMA PoolClosesSafely ==
  ASSUME NEW s, NEW c \in Closers, ServerSafe(s), ~s.listening,
         s.outbox \in {"none", "stopped"}, Entitled(s, c)
  PROVE  ServerSafe(ClosePool(s, c))
<1>1. ServerSafe([s EXCEPT !.closer[c] = "pool", !.pool = "ending"])
  BY DEF Entitled, ServerSafe, ServerStates, Closers, Active, Pools
<1>2. QED BY <1>1, ClientsCloseSafely DEF ClosePool

\* With an outbox worker, the closer waits for it first.
LEMMA OutboxClosesSafely ==
  ASSUME NEW s, NEW c \in Closers, ServerSafe(s), ~s.listening,
         Entitled(s, c)
  PROVE  ServerSafe(CloseOutbox(s, c))
<1>1. ASSUME s.outbox # "none"
      PROVE  ServerSafe([s EXCEPT !.closer[c] = "worker",
                                  !.outbox = Stopping(s.outbox)])
  BY <1>1 DEF Entitled, ServerSafe, ServerStates, Closers, Active, Outboxes, Stopping
<1>2. CASE s.outbox # "none"  BY <1>1, <1>2 DEF CloseOutbox
<1>3. CASE s.outbox = "none"  BY <1>3, PoolClosesSafely DEF CloseOutbox
<1>4. QED BY <1>2, <1>3

\* So does closeResources from its beginning.
LEMMA ResourcesCloseSafely ==
  ASSUME NEW s, NEW c \in Closers, ServerSafe(s),
         s.closer[c] = "none", Entitled(s, c)
  PROVE  ServerSafe(CloseResources(s, c))
<1>1. CASE s.listening
  <2>1. ServerSafe([s EXCEPT !.closer[c] = "io"])
    BY <1>1 DEF Entitled, ServerSafe, ServerStates, Closers, Active
  <2>2. QED BY <1>1, <2>1 DEF CloseResources
<1>2. CASE ~s.listening  BY <1>2, OutboxClosesSafely DEF CloseResources
<1>3. QED BY <1>1, <1>2

\* A stage of closeResources follows another.
LEMMA ClosingIsSafe ==
  ASSUME ServerSafe(srv), Closing
  PROVE  ServerSafe(srv')
<1>1. PICK c \in Closers :
        \/ SocketsClosed(c) \/ OutboxStopped(c) \/ PoolEnded(c)
        \/ PublisherQuit(c) \/ SubscriberQuit(c)
  BY DEF Closing
<1>2. CASE SocketsClosed(c)
  <2> DEFINE s == [srv EXCEPT !.listening = FALSE]
  <2>1. srv.closer[c] = "io"  BY <1>2 DEF SocketsClosed, CloserGoesOn
  <2>2. /\ ServerSafe(s) /\ ~s.listening /\ s.closer = srv.closer
        /\ Entitled(s, c)
    <3>1. ServerSafe(s) /\ ~s.listening /\ s.closer = srv.closer
      BY DEF ServerSafe, ServerStates
    <3>2. QED BY <2>1, <3>1, CloserIsEntitled
  <2>3. srv' = CloseOutbox(s, c)  BY <1>2 DEF SocketsClosed
  <2> HIDE DEF s
  <2>4. QED BY <2>1, <2>2, <2>3, OutboxClosesSafely
<1>3. CASE OutboxStopped(c)
  BY <1>3, PoolClosesSafely, CloserIsEntitled DEF OutboxStopped, CloserGoesOn,
     ServerSafe
<1>4. CASE PoolEnded(c)
  <2> DEFINE s == [srv EXCEPT !.pool = "ended"]
  <2>1. srv.closer[c] = "pool"  BY <1>4 DEF PoolEnded, CloserGoesOn
  <2>2. ServerSafe(s) /\ s.pool # "open" /\ Entitled(s, c)
    <3>1. ServerSafe(s) /\ s.pool # "open" /\ s.closer = srv.closer
      BY <2>1 DEF ServerSafe, ServerStates, Pools
    <3>2. QED BY <2>1, <3>1, CloserIsEntitled
  <2>3. srv' = ClosePublisher(s, c)  BY <1>4 DEF PoolEnded
  <2> HIDE DEF s
  <2>4. QED BY <2>2, <2>3, ClientsCloseSafely
<1>5. CASE PublisherQuit(c)
  <2> DEFINE s == [srv EXCEPT !.publisher = "closed"]
  <2>1. srv.closer[c] = "publisher"  BY <1>5 DEF PublisherQuit, CloserGoesOn
  <2>2. ServerSafe(s) /\ s.pool # "open" /\ Entitled(s, c)
    <3>1. ServerSafe(s) /\ s.pool # "open" /\ s.closer = srv.closer
      BY <2>1 DEF ServerSafe, ServerStates, Clients
    <3>2. QED BY <2>1, <3>1, CloserIsEntitled
  <2>3. srv' = CloseSubscriber(s, c)  BY <1>5 DEF PublisherQuit
  <2> HIDE DEF s
  <2>4. QED BY <2>2, <2>3, ClientsCloseSafely
<1>6. CASE SubscriberQuit(c)
  BY <1>6 DEF SubscriberQuit, CloserGoesOn, ServerSafe, ServerStates, Closers,
     Active, Clients
<1>7. QED BY <1>1, <1>2, <1>3, <1>4, <1>5, <1>6

\* startServer, and a failure or a signal that cuts it short.
LEMMA BootRejectsSafely ==
  ASSUME ServerSafe(srv), srv.boot \in {"db", "redis", "cleanup", "sockets"},
         srv.closer["failure"] = "none", BootRejects
  PROVE  ServerSafe(srv')
<1> DEFINE s == [srv EXCEPT !.boot = "failed"]
<1>1. /\ ServerSafe(s) /\ s.closer["failure"] = "none"
      /\ s.told = srv.told /\ s.boot = "failed"
  BY DEF Entitled, ServerSafe, ServerStates
<1>2. srv' = IF srv.told THEN s ELSE CloseResources(s, "failure")
  BY DEF BootRejects
<1> HIDE DEF s
<1>3. QED BY <1>1, <1>2, ResourcesCloseSafely DEF Closers, Entitled

\* The steps of startServer; what it opens, it opens while nobody is closing.
LEMMA BootingIsSafe ==
  ASSUME ServerSafe(srv), Booting
  PROVE  ServerSafe(srv')
<1> USE DEF Boot, ServerSafe, ServerStates
<1>1. CASE ServerStarts  BY <1>1 DEF ServerStarts
<1>2. CASE DatabaseAnswers
  BY <1>2 DEF DatabaseAnswers, Clients
<1>3. CASE PublisherConnects
  BY <1>3 DEF PublisherConnects, Clients
<1>4. CASE CleanupReturns
  <2>1. CASE ShuttingDown  BY <1>4, <2>1 DEF CleanupReturns
  <2>2. CASE ~ShuttingDown
    <3>1. srv.pool = "open"  BY <2>2 DEF ShuttingDown
    <3>2. QED BY <1>4, <2>2, <3>1 DEF CleanupReturns, Clients, Outboxes
  <2>3. QED BY <2>1, <2>2
<1>5. CASE SocketsReady
  <2>1. CASE ShuttingDown  BY <1>5, <2>1 DEF SocketsReady, Clients
  <2>2. CASE ~ShuttingDown
    <3>1. srv.pool = "open" /\ \A c \in Closers : srv.closer[c] = "none"
      BY <2>2 DEF ShuttingDown, Closers
    <3>2. QED BY <1>5, <2>2, <3>1 DEF SocketsReady, Clients
  <2>3. QED BY <2>1, <2>2
<1>6. CASE BootCannotGoOn
  <2>1. BootRejects /\ srv.boot \in {"redis", "cleanup", "sockets"}
    BY <1>6 DEF BootCannotGoOn
  <2>2. srv.closer["failure"] = "none"  BY <2>1
  <2> HIDE DEF ServerSafe
  <2>3. QED BY <2>1, <2>2, BootRejectsSafely
<1>7. QED BY <1>1, <1>2, <1>3, <1>4, <1>5, <1>6 DEF Booting

\* A process that is not running is safe.
LEMMA DownIsSafe == ServerSafe(ServerDown)
BY DEF ServerDown, ServerSafe, ServerStates, Closers, Active, Outboxes, Pools,
   Clients

\* Every step of the API process keeps it safe: boot, work, shutdown, crash.
LEMMA ServerKeepsSafe ==
  ASSUME ServerSafe(srv), ServerStep
  PROVE  ServerSafe(srv')
<1>1. CASE Booting  BY <1>1, BootingIsSafe
<1>2. CASE Closing  BY <1>2, ClosingIsSafe
<1>3. CASE OutboxPolls
  BY <1>3 DEF OutboxPolls, ServerSafe, ServerStates, Outboxes
<1>4. CASE OutboxBatchEnds
  BY <1>4 DEF OutboxBatchEnds, ServerSafe, ServerStates, Outboxes
<1>5. CASE BootFails
  <2>1. BootRejects /\ srv.boot \in {"db", "redis", "cleanup", "sockets"}
    BY <1>5 DEF BootFails
  <2>2. srv.closer["failure"] = "none"  BY <2>1 DEF ServerSafe
  <2>3. QED BY <2>1, <2>2, BootRejectsSafely
<1>6. CASE GracefulShutdown
  <2> DEFINE s == [srv EXCEPT !.told = TRUE]
  <2>1. ~srv.told  BY <1>6 DEF GracefulShutdown
  <2>2. ServerSafe(s) /\ s.closer["signal"] = "none" /\ s.told
    BY <2>1 DEF ServerSafe, ServerStates
  <2>3. srv' = CloseResources(s, "signal")  BY <1>6 DEF GracefulShutdown
  <2> HIDE DEF s
  <2>4. QED BY <2>2, <2>3, ResourcesCloseSafely DEF Closers, Entitled
<1>7. CASE ForcedShutdown \/ ServerCrashes \/ ServerExits
  BY <1>7, DownIsSafe DEF ForcedShutdown, ServerCrashes, ServerExits
<1>8. QED BY <1>1, <1>2, <1>3, <1>4, <1>5, <1>6, <1>7 DEF ServerStep

-----------------------------------------------------------------------------
(***************************************************************************)
(* The worker process: its pool is closed when its outbox worker has never *)
(* been there or has stopped.                                              *)
(***************************************************************************)
WorkerSafe ==
  /\ wrk \in [boot : {"down", "db", "redis", "running", "failed"},
              told : BOOLEAN,
              stage : {"none", "server", "worker", "pool", "redis"},
              outbox : Outboxes, pool : Pools, redis : Clients,
              polled : {"never", "fresh", "stale"}]
  /\ wrk.boot \in {"down", "db", "redis"} =>
       wrk.pool = "open" /\ wrk.outbox = "none" /\ wrk.stage = "none"
  /\ wrk.boot = "failed" => wrk.stage \in {"pool", "redis"}
  /\ wrk.stage \in {"pool", "redis"} => wrk.pool # "open"
  /\ wrk.pool # "open" => wrk.outbox \in {"none", "stopped"}

\* Every step of the worker process keeps it safe.
LEMMA WorkerKeepsSafe ==
  ASSUME WorkerSafe, WorkerStep
  PROVE  WorkerSafe'
<1> USE DEF WorkerSafe, Outboxes, Pools, Clients
<1>0. wrk' = WorkerDown => WorkerSafe'  BY DEF WorkerDown
<1>1. CASE WorkerBooting
  BY <1>1 DEF WorkerBooting, WorkerStarts, WorkerDatabaseAnswers,
     WorkerRedisConnects
<1>2. CASE WorkerClosing \/ WorkerForced \/ WorkerCrashes
  <2>1. CASE HealthServerClosed  BY <2>1 DEF HealthServerClosed
  <2>2. CASE WorkerOutboxStopped  BY <2>2 DEF WorkerOutboxStopped
  <2>3. CASE WorkerPoolEnded
    <3>1. CASE wrk.redis = "open"  BY <2>3, <3>1 DEF WorkerPoolEnded
    <3>2. CASE wrk.redis # "open"  BY <1>0, <2>3, <3>2 DEF WorkerPoolEnded
    <3>3. QED BY <3>1, <3>2
  <2>4. CASE WorkerRedisQuit \/ WorkerForced \/ WorkerCrashes
    BY <1>0, <2>4 DEF WorkerRedisQuit, WorkerForced, WorkerCrashes
  <2>5. QED BY <1>2, <2>1, <2>2, <2>3, <2>4 DEF WorkerClosing
<1>3. CASE WorkerPolls \/ WorkerBatchEnds \/ PollGrowsOld
  BY <1>3 DEF WorkerPolls, WorkerBatchEnds, PollGrowsOld
<1>4. CASE WorkerBootFails \/ WorkerTold
  BY <1>4 DEF WorkerBootFails, WorkerTold
<1>5. QED BY <1>1, <1>2, <1>3, <1>4 DEF WorkerStep

-----------------------------------------------------------------------------
\* The inductive invariant: the migrations and both processes.
DeploymentInv == MigrationInv /\ ServerSafe(srv) /\ WorkerSafe

\* What processes do leaves the migrations alone.
LEMMA OthersKeepMigrations ==
  ASSUME MigrationInv, UNCHANGED migrationVars, incidents' \in 0..MaxIncidents
  PROVE  MigrationInv'
<1>1. UNCHANGED <<created, applied, jobAt, known, holder>>  BY DEF migrationVars
<1>2. MigrationTypeOK'  BY <1>1 DEF MigrationInv, MigrationTypeOK
<1>3. AppliedInOrder' /\ LockedMigration' /\ MigrationsOrderly'
  BY <1>1, FilesUntouched DEF MigrationInv, LockedMigration, MigrationsOrderly
<1>4. QED BY <1>2, <1>3 DEF MigrationInv

\* The API process runs no migration; a crash of it is one more incident.
LEMMA ServerLeavesMigrations ==
  ASSUME MigrationInv, ServerStep
  PROVE  UNCHANGED migrationVars /\ incidents' \in 0..MaxIncidents
<1>1. incidents \in 0..MaxIncidents /\ MaxIncidents \in Nat
  BY IncidentsAssumption DEF MigrationInv, MigrationTypeOK
<1>2. \/ UNCHANGED <<migrationVars, incidents>>
      \/ Incident /\ UNCHANGED migrationVars
  BY DEF ServerStep, Booting, ServerStarts, DatabaseAnswers, PublisherConnects,
     CleanupReturns, SocketsReady, BootCannotGoOn, Boot, Closing, SocketsClosed,
     OutboxStopped, PoolEnded, PublisherQuit, SubscriberQuit, CloserGoesOn,
     OutboxPolls, OutboxBatchEnds, BootFails, GracefulShutdown, ForcedShutdown,
     ServerCrashes, ServerExits
<1>3. QED BY <1>1, <1>2 DEF Incident

\* Nor does the worker process.
LEMMA WorkerLeavesMigrations ==
  ASSUME MigrationInv, WorkerStep
  PROVE  UNCHANGED migrationVars /\ incidents' \in 0..MaxIncidents
<1>1. incidents \in 0..MaxIncidents /\ MaxIncidents \in Nat
  BY IncidentsAssumption DEF MigrationInv, MigrationTypeOK
<1>2. \/ UNCHANGED <<migrationVars, incidents>>
      \/ Incident /\ UNCHANGED migrationVars
  BY DEF WorkerStep, WorkerBootFails, WorkerTold, WorkerCrashes, PollGrowsOld
<1>3. QED BY <1>1, <1>2 DEF Incident

\* Nothing has been started yet: the invariant holds.
LEMMA DeploymentInvInit == DeploymentInit => DeploymentInv
<1> SUFFICES ASSUME DeploymentInit PROVE DeploymentInv  OBVIOUS
<1>1. MigrationInv  BY MigrationInit DEF DeploymentInit
<1>2. ServerSafe(srv)  BY DownIsSafe DEF DeploymentInit
<1>3. WorkerSafe
  BY DEF DeploymentInit, WorkerDown, WorkerSafe, Outboxes, Pools, Clients
<1>4. QED BY <1>1, <1>2, <1>3 DEF DeploymentInv

\* Whoever takes the next step, the invariant holds after it.
LEMMA DeploymentInvKept ==
  DeploymentInv /\ [DeploymentNext]_deploymentVars => DeploymentInv'
<1> SUFFICES ASSUME DeploymentInv, [DeploymentNext]_deploymentVars
             PROVE  DeploymentInv'
  OBVIOUS
<1> USE DEF DeploymentInv
<1>0. UNCHANGED wrk => WorkerSafe'  BY DEF WorkerSafe
<1>1. CASE MigrationStep /\ UNCHANGED <<srv, wrk>>
  BY <1>0, <1>1, JobKeepsInv DEF MigrationStep
<1>2. CASE ServerStep /\ UNCHANGED wrk
  BY <1>0, <1>2, ServerKeepsSafe, ServerLeavesMigrations, OthersKeepMigrations
<1>3. CASE WorkerStep /\ UNCHANGED srv
  BY <1>3, WorkerKeepsSafe, WorkerLeavesMigrations, OthersKeepMigrations
<1>4. CASE UNCHANGED deploymentVars
  <2>1. UNCHANGED <<migrationVars, srv, wrk, incidents>>
    BY <1>4 DEF deploymentVars
  <2>2. incidents' \in 0..MaxIncidents
    BY <2>1 DEF MigrationInv, MigrationTypeOK
  <2>3. QED BY <1>0, <2>1, <2>2, OthersKeepMigrations
<1>5. QED BY <1>1, <1>2, <1>3, <1>4 DEF DeploymentNext

\* Migrations and processes keep their invariant whatever is started, told to
\* stop, killed or started again, in any order.
THEOREM DeploymentInvariant == DeploymentSpec => []DeploymentInv
<1>1. QED BY DeploymentInvInit, DeploymentInvKept, PTL DEF DeploymentSpec

\* Jobs, processes and what they open are always well formed, and the
\* advisory lock is held by one job at most.
THEOREM DeploymentTypeCorrect == DeploymentSpec => []DeploymentTypeOK
<1>1. DeploymentInv => DeploymentTypeOK
  BY DEF DeploymentInv, MigrationInv, ServerSafe, ServerStates, WorkerSafe,
     DeploymentTypeOK
<1>2. QED BY <1>1, DeploymentInvariant, PTL

\* However many jobs overlap, die or are retried, the files applied are the
\* first ones in filename order, each once.
THEOREM FilesInOrder == DeploymentSpec => []MigrationsOrderly
<1>1. DeploymentInv => MigrationsOrderly  BY DEF DeploymentInv, MigrationInv
<1>2. QED BY <1>1, DeploymentInvariant, PTL

\* Wherever signals and failures hit a process, what uses the pool is over
\* before the pool is closed.
THEOREM PoolOutlivesItsUsers == DeploymentSpec => []ServedByOpenPool
<1>1. DeploymentInv => ServedByOpenPool
  BY DEF DeploymentInv, ServerSafe, WorkerSafe, ServedByOpenPool
<1>2. QED BY <1>1, DeploymentInvariant, PTL

=============================================================================
