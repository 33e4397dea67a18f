---------------------------- MODULE Maintenance -----------------------------
(***************************************************************************)
(* Size management of sts-gateway: the messages table, the backup folder,  *)
(* the storage thread that truncates the one and fills the other, and the  *)
(* backup scheduler's thread that commands it and empties the folder of    *)
(* old copies.                                                             *)
(*                                                                         *)
(*   aggregator --Insert-->  storQ  --> storage thread --> rows            *)
(*   scheduler --Truncate, BackupDB-^        |                             *)
(*       |                                   v                             *)
(*       +------- read_dir, remove_file --> files <-- copy, compress       *)
(*                                                                         *)
(* The two threads share the file system with no lock.  Time is kept as    *)
(* ages: of a row since Utc::now() at its insert, of a file since its      *)
(* creation; the unit is an hour, that of messages_ttl and backup_ttl.  An *)
(* age is negative after the wall clock was set back, and stays at MaxAge  *)
(* once nothing can tell it from an older one.                             *)
(***************************************************************************)
EXTENDS Integers, Sequences, Functions

CONSTANTS
  Rows,       \* messages (an identity that is free again can come back)
  Backups,    \* backup names (idem: config.name and a timestamp, never reused)
  MsgTtl,     \* messages_ttl
  BackupTtl,  \* backup_ttl
  MaxQueue,   \* bound: commands queued for storage
  MaxBack     \* bound: hours by which the wall clock is set back in all

ASSUME TtlAssumption ==
  /\ MsgTtl \in Nat /\ BackupTtl \in Nat
  /\ MaxQueue \in Nat /\ MaxBack \in Nat

\* See NoBackup and job.
ASSUME NamesAssumption == "none" \notin Backups

VARIABLES
  process,     \* "up" or "down"
  storQ,       \* storage_rx
  storage,     \* what the storage thread is doing, see StorageStates
  backup,      \* [name, age] of the backup it is making: age since the file was opened
  table,       \* rows of the messages table
  rowAge,      \* age of each row that is queued or in the table
  files,       \* the backup folder: records [name, ext, age]
  scheduler,   \* what the scheduler's thread is doing, see SchedulerStates
  job,         \* the name its backup job has picked
  listing,     \* entries of read_dir still to visit: [name, ext, old]
  victim,      \* the entry it is about to remove
  leftover,    \* names of uncompressed copies that an earlier run left
  untruncated, \* names picked since a truncation was last attempted
  back         \* hours the clock was set back so far

storageVars   == <<storQ, storage, backup>>
dataVars      == <<table, rowAge>>
folderVars    == <<files, leftover>>
schedulerVars == <<scheduler, job, listing, victim>>
vars == <<process, storageVars, dataVars, folderVars, schedulerVars, untruncated, back>>

-----------------------------------------------------------------------------
NoBackup == [name |-> "none", age |-> 0]
NoEntry  == [name |-> "none", ext |-> "none"]

Larger(a, b) == IF a > b THEN a ELSE b
MaxAge == Larger(MsgTtl, BackupTtl) + 1 + MaxBack
Ages   == -MaxBack .. MaxAge

\* An age one hour later; MaxAge stands for every age from there on.
Older == [a \in Ages |-> IF a = MaxAge THEN a ELSE a + 1]

Insert(r)   == [kind |-> "InsertBoth", of |-> r]
Truncate    == [kind |-> "Truncate",   of |-> "none"]
BackupDB(n) == [kind |-> "BackupDB",   of |-> n]

Commands == [kind : {"InsertBoth"}, of : Rows] \cup {Truncate} \cup [kind : {"BackupDB"}, of : Backups]
Entries  == [name : Backups, ext : {"db", "db.zst"}]
Raw(n)   == [name |-> n, ext |-> "db"]
Zst(n)   == [name |-> n, ext |-> "db.zst"]

Entry(f) == [name |-> f.name, ext |-> f.ext]
InFolder(e) == \E f \in files : Entry(f) = e
Without(e)  == {f \in files : Entry(f) # e}

With(e) == files \cup {[name |-> e.name, ext |-> e.ext, age |-> 0]}

StorageStates   == {"recv", "copying", "reading", "writing", "removing", "dead"}
SchedulerStates == {"starting", "idle", "truncate", "backup", "list", "visit", "remove", "dead"}

Queued(r) == Insert(r) \in Range(storQ)

Init ==
  /\ process = "up" /\ back = 0
  /\ storQ = <<>> /\ storage = "recv" /\ backup = NoBackup
  /\ table = {} /\ rowAge = [r \in Rows |-> 0]
  /\ files = {} /\ leftover = {}
  /\ scheduler = "starting" /\ job = "none" /\ listing = {} /\ victim = NoEntry
  /\ untruncated = {}

-----------------------------------------------------------------------------
(* The wall clock.                                                         *)

SetAges(to) ==
  /\ rowAge' = [r \in Rows |-> IF r \in table \/ Queued(r) THEN to[rowAge[r]] ELSE 0]
  /\ files' = {[f EXCEPT !.age = to[@]] : f \in files}
  /\ backup' = IF backup = NoBackup THEN NoBackup ELSE [backup EXCEPT !.age = to[@]]

Tick ==
  /\ SetAges(Older)
  /\ UNCHANGED <<process, storQ, storage, table, leftover, schedulerVars, untruncated, back>>

\* An administrator, ntp or a battery-less board sets the clock back an hour.
ClockSetBack ==
  /\ back < MaxBack
  /\ back' = back + 1
  /\ SetAges([a \in Ages |-> a - 1])
  /\ UNCHANGED <<process, storQ, storage, table, leftover, schedulerVars, untruncated>>

-----------------------------------------------------------------------------
(* Commands to storage.  A send to a dead storage thread is only logged.   *)

Send(c) ==
  IF storage = "dead"
  THEN UNCHANGED storQ
  ELSE /\ Len(storQ) < MaxQueue
       /\ storQ' = Append(storQ, c)

\* The aggregator stamps a message and sends it.
AggregatorSend(r) ==
  /\ process = "up" /\ storage # "dead"
  /\ r \notin table /\ ~Queued(r)
  /\ Send(Insert(r))
  /\ rowAge' = [rowAge EXCEPT ![r] = 0]
  /\ UNCHANGED <<process, storage, backup, table, folderVars, schedulerVars, untruncated, back>>

-----------------------------------------------------------------------------
(* The storage thread.                                                     *)

Served == storQ' = Tail(storQ)

StorageRecv(kind) ==
  /\ storage = "recv"
  /\ storQ # <<>>
  /\ Head(storQ).kind = kind

\* A panic drops the receiver and what is queued.
StoragePanic ==
  /\ storage' = "dead" /\ storQ' = <<>> /\ backup' = NoBackup

\* An insert commits, is lost with a line in the log, or panics.
StorageInsert ==
  /\ StorageRecv("InsertBoth")
  /\ \/ /\ Served
        /\ table' \in {table, table \cup {Head(storQ).of}}
        /\ UNCHANGED <<storage, backup>>
     \/ StoragePanic /\ UNCHANGED table
  /\ UNCHANGED <<process, rowAge, folderVars, schedulerVars, untruncated, back>>

\* Mutant: a row exactly messages_ttl old is deleted.
TruncateAtTtl ==
  /\ StorageRecv("Truncate")
  /\ Served
  /\ table' = {r \in table : 0 <= rowAge[r] /\ rowAge[r] < MsgTtl}
  /\ untruncated' = {}
  /\ UNCHANGED <<process, storage, backup, rowAge, folderVars, schedulerVars, back>>

\* Mutant: only rows from the future are deleted.
TruncateFuture ==
  /\ StorageRecv("Truncate")
  /\ Served
  /\ table' = {r \in table : 0 <= rowAge[r]}
  /\ untruncated' = {}
  /\ UNCHANGED <<process, storage, backup, rowAge, folderVars, schedulerVars, back>>

\* DELETE ... WHERE ts NOT BETWEEN now - messages_ttl AND now.
TruncateOk ==
  /\ StorageRecv("Truncate")
  /\ Served
  /\ table' = {r \in table : rowAge[r] \in 0..MsgTtl}
  /\ untruncated' = {}
  /\ UNCHANGED <<process, storage, backup, rowAge, folderVars, schedulerVars, back>>

\* The error is logged.
TruncateFails ==
  /\ StorageRecv("Truncate")
  /\ Served
  /\ untruncated' = {}
  /\ UNCHANGED <<process, storage, backup, dataVars, folderVars, schedulerVars, back>>

\* Connection::open(dst) creates the file; the copy runs 5 pages at a time.
BackupOpen ==
  /\ StorageRecv("BackupDB")
  /\ LET n == Head(storQ).of IN
     \/ /\ Served /\ storage' = "copying"
        /\ files' = With(Raw(n))
        /\ backup' = [name |-> n, age |-> 0]
     \/ StoragePanic /\ files' \in {files, With(Raw(n))}
  /\ UNCHANGED <<process, dataVars, leftover, schedulerVars, untruncated, back>>

\* run_to_completion returns: Ok, or an error that the caller unwraps.
BackupCopied ==
  /\ storage = "copying"
  /\ \/ storage' = "reading" /\ UNCHANGED <<storQ, backup>>
     \/ StoragePanic
  /\ UNCHANGED <<process, dataVars, folderVars, schedulerVars, untruncated, back>>

\* The compression thread, which the storage thread joins and unwraps: read
\* the copy, write the compressed one, remove the copy.
CompressRead ==
  /\ storage = "reading"
  /\ \/ InFolder(Raw(backup.name)) /\ storage' = "writing" /\ UNCHANGED <<storQ, backup>>
     \/ StoragePanic
  /\ UNCHANGED <<process, dataVars, folderVars, schedulerVars, untruncated, back>>

CompressWrite ==
  /\ storage = "writing"
  /\ \/ storage' = "removing" /\ files' = With(Zst(backup.name)) /\ UNCHANGED <<storQ, backup>>
     \/ StoragePanic /\ files' \in {files, With(Zst(backup.name))}
  /\ UNCHANGED <<process, dataVars, leftover, schedulerVars, untruncated, back>>

\* Mutant: a copy that cannot be removed is left where it is.
CompressRemoveIgnoresError ==
  /\ storage = "removing"
  /\ storage' = "recv" /\ backup' = NoBackup /\ UNCHANGED storQ
  /\ files' \in {files, Without(Raw(backup.name))}
  /\ UNCHANGED <<process, dataVars, leftover, schedulerVars, untruncated, back>>

CompressRemove ==
  /\ storage = "removing"
  /\ \/ /\ InFolder(Raw(backup.name))
        /\ files' = Without(Raw(backup.name))
        /\ storage' = "recv" /\ backup' = NoBackup /\ UNCHANGED storQ
     \/ StoragePanic /\ UNCHANGED files
  /\ UNCHANGED <<process, dataVars, leftover, schedulerVars, untruncated, back>>

-----------------------------------------------------------------------------
(* The scheduler's thread runs the jobs that are due one after the other.  *)

\* Schedule::from_str(..).unwrap(): a cron expression that cannot be parsed
\* kills the thread, and the gateway does without maintenance.
SchedulerStart ==
  /\ process = "up"
  /\ scheduler = "starting"
  /\ scheduler' \in {"idle", "dead"}
  /\ UNCHANGED <<process, storageVars, dataVars, folderVars, job, listing, victim, untruncated,
                 back>>

TruncateJob ==
  /\ process = "up"
  /\ scheduler = "idle"
  /\ Send(Truncate)
  /\ UNCHANGED <<process, storage, backup, dataVars, folderVars, schedulerVars, untruncated, back>>

\* Mutant: a name can come twice, as when its timestamp is too coarse.
InUseByStorage(n) == BackupDB(n) \in Range(storQ) \/ backup.name = n

InUse(n) == InFolder(Raw(n)) \/ InFolder(Zst(n)) \/ BackupDB(n) \in Range(storQ) \/ backup.name = n

\* The backup job creates the folder (an error is logged; BackupOpen then
\* fails) and picks the name of the copy.  Bound: a job that finds all of
\* Backups in use does the rest without making a copy.
BackupJob ==
  /\ process = "up"
  /\ scheduler = "idle"
  /\ \/ \E n \in Backups :
          /\ ~InUse(n)
          /\ job' = n
          /\ untruncated' = untruncated \cup {n}
     \/ /\ \A n \in Backups : InUse(n)
        /\ UNCHANGED <<job, untruncated>>
  /\ scheduler' = "truncate"
  /\ UNCHANGED <<process, storageVars, dataVars, folderVars, listing, victim, back>>

\* Mutant: the truncation is left to the truncate job.
JobSkipsTruncate ==
  /\ process = "up"
  /\ scheduler = "truncate"
  /\ scheduler' = "backup"
  /\ UNCHANGED <<process, storageVars, dataVars, folderVars, job, listing, victim, untruncated, back>>

JobSendsTruncate ==
  /\ process = "up"
  /\ scheduler = "truncate"
  /\ Send(Truncate)
  /\ scheduler' = "backup"
  /\ UNCHANGED <<process, storage, backup, dataVars, folderVars, job, listing, victim, untruncated, back>>

JobSendsBackup ==
  /\ process = "up"
  /\ scheduler = "backup"
  /\ IF job = "none" THEN UNCHANGED storQ ELSE Send(BackupDB(job))
  /\ scheduler' = "list"
  /\ job' = "none"
  /\ UNCHANGED <<process, storage, backup, dataVars, folderVars, listing, victim, untruncated, back>>

\* Mutant: a file exactly backup_ttl old counts as older.
JobListsAtTtl ==
  /\ process = "up"
  /\ scheduler = "list"
  /\ scheduler' = "visit"
  /\ listing' = {[name |-> f.name, ext |-> f.ext, old |-> f.age >= BackupTtl] : f \in files}
  /\ UNCHANGED <<process, storageVars, dataVars, folderVars, job, victim, untruncated, back>>

\* read_dir, and older_than = now - backup_ttl; an error is only logged.
JobLists ==
  /\ process = "up"
  /\ scheduler = "list"
  /\ \/ /\ scheduler' = "visit"
        /\ listing' = {[name |-> f.name, ext |-> f.ext, old |-> f.age > BackupTtl] : f \in files}
     \/ scheduler' = "idle" /\ UNCHANGED listing
  /\ UNCHANGED <<process, storageVars, dataVars, folderVars, job, victim, untruncated, back>>

\* Mutant: only files named like an uncompressed copy are removed.
JobVisitsRawOnly ==
  /\ process = "up"
  /\ scheduler = "visit"
  /\ \E e \in listing :
       \/ /\ InFolder(Entry(e)) /\ e.old /\ e.ext = "db"
          /\ scheduler' = "remove" /\ listing' = listing \ {e} /\ victim' = Entry(e)
       \/ /\ ~(e.old /\ e.ext = "db")
          /\ listing' = listing \ {e} /\ UNCHANGED <<scheduler, victim>>
  /\ UNCHANGED <<process, storageVars, dataVars, folderVars, job, untruncated, back>>

\* entry.metadata().unwrap() kills the thread when the file is gone; an entry
\* created before older_than is removed next, any other one passed over.
JobVisits ==
  /\ process = "up"
  /\ scheduler = "visit"
  /\ \E e \in listing :
       \/ /\ ~InFolder(Entry(e))
          /\ scheduler' = "dead" /\ listing' = {} /\ UNCHANGED victim
       \/ /\ InFolder(Entry(e)) /\ e.old
          /\ scheduler' = "remove" /\ listing' = listing \ {e} /\ victim' = Entry(e)
       \/ /\ InFolder(Entry(e)) /\ ~e.old
          /\ listing' = listing \ {e} /\ UNCHANGED <<scheduler, victim>>
  /\ UNCHANGED <<process, storageVars, dataVars, folderVars, job, untruncated, back>>

JobEnds ==
  /\ process = "up"
  /\ scheduler = "visit" /\ listing = {}
  /\ scheduler' = "idle"
  /\ UNCHANGED <<process, storageVars, dataVars, folderVars, job, listing, victim, untruncated,
                 back>>

RemoveVictim ==
  /\ process = "up"
  /\ scheduler = "remove"
  /\ scheduler' = "visit" /\ victim' = NoEntry
  /\ UNCHANGED <<process, storageVars, dataVars, job, listing, untruncated, back>>

JobRemoves(e) ==
  /\ RemoveVictim
  /\ victim = e
  /\ files' = Without(e)
  /\ leftover' = {n \in leftover : Raw(n) # e}

\* The file is gone already or cannot be removed: logged.
JobRemoveFails ==
  /\ RemoveVictim
  /\ UNCHANGED folderVars

-----------------------------------------------------------------------------
(* The process: main joins the storage thread and ends when it panics; it  *)
(* can be killed at any time.  The table and the folder survive.           *)

ProcessEnds ==
  /\ process = "up"
  /\ process' = "down"
  /\ storQ' = <<>> /\ storage' = "dead" /\ backup' = NoBackup
  /\ scheduler' = "dead" /\ job' = "none" /\ listing' = {} /\ victim' = NoEntry
  /\ untruncated' = {}
  /\ leftover' = {n \in Backups : InFolder(Raw(n))}
  /\ UNCHANGED <<dataVars, files, back>>

MainExits == storage = "dead" /\ ProcessEnds

Killed == ProcessEnds

Restart ==
  /\ process = "down"
  /\ process' = "up" /\ storage' = "recv" /\ scheduler' = "starting"
  /\ UNCHANGED <<storQ, backup, dataVars, folderVars, job, listing, victim, untruncated, back>>

-----------------------------------------------------------------------------
StorageStep ==
  \/ StorageInsert \/ TruncateOk \/ TruncateFails
  \/ BackupOpen \/ BackupCopied \/ CompressRead \/ CompressWrite \/ CompressRemove

\* What the scheduler does on its own when it starts and once a job has started.
SchedulerStep ==
  \/ SchedulerStart
  \/ JobSendsTruncate \/ JobSendsBackup \/ JobLists \/ JobVisits \/ JobEnds
  \/ \E e \in Entries : JobRemoves(e)
  \/ JobRemoveFails

Next ==
  \/ Tick \/ ClockSetBack
  \/ \E r \in Rows : AggregatorSend(r)
  \/ StorageStep
  \/ TruncateJob \/ BackupJob \/ SchedulerStep
  \/ MainExits \/ Killed \/ Restart

Spec == Init /\ [][Next]_vars

(***************************************************************************)
(* Time passes, and the storage loop and a started job keep moving.  The   *)
(* cron expressions make both jobs due again and again, and tick() runs    *)
(* every job that is due, hence strong fairness for each.  That a          *)
(* truncation or a removal works is only asked of one that is tried again  *)
(* and again.                                                              *)
(***************************************************************************)
Fairness ==
  /\ WF_vars(Tick) /\ WF_vars(StorageStep) /\ WF_vars(SchedulerStep) /\ WF_vars(MainExits)
  /\ SF_vars(TruncateJob) /\ SF_vars(BackupJob)
  /\ SF_vars(TruncateOk) /\ SF_vars(JobLists /\ scheduler' = "visit")
  /\ \A e \in Entries : SF_vars(JobRemoves(e))

FairSpec == Spec /\ Fairness

-----------------------------------------------------------------------------
(* Properties.                                                             *)

\* Every variable has its type, a file is in the folder once, and a thread
\* that is not in the middle of a job holds nothing.
TypeOK ==
  /\ process \in {"up", "down"} /\ back \in 0..MaxBack
  /\ storQ \in Seq(Commands) /\ Len(storQ) <= MaxQueue /\ storage \in StorageStates
  /\ backup \in [name : Backups, age : Ages] \cup {NoBackup}
  /\ backup = NoBackup <=> storage \in {"recv", "dead"}
  /\ table \subseteq Rows /\ rowAge \in [Rows -> Ages]
  /\ files \subseteq [name : Backups, ext : {"db", "db.zst"}, age : Ages]
  /\ \A f, g \in files : Entry(f) = Entry(g) => f = g
  /\ leftover \subseteq Backups /\ untruncated \subseteq Backups
  /\ scheduler \in SchedulerStates /\ job \in Backups \cup {"none"}
  /\ job # "none" => scheduler \in {"truncate", "backup"}
  /\ listing \subseteq [name : Backups, ext : {"db", "db.zst"}, old : BOOLEAN]
  /\ victim \in Entries \cup {NoEntry}
  /\ victim # NoEntry <=> scheduler = "remove"

\* "Size management is executed before every backup" (dist/sts_gateway.yml):
\* however the two jobs' commands and inserts interleave in the queue, when a
\* copy is made a truncation was attempted since its job picked its name.
TruncatedBeforeBackup == backup.name \notin untruncated

\* A live process leaves no uncompressed copy behind: one is in the folder only
\* while its own backup is being made, or since an earlier run died on it.
NoStrayCopies ==
  process = "up" /\ storage # "dead" =>
    \A n \in Backups : InFolder(Raw(n)) => n \in leftover \/ n = backup.name

\* The scheduler cannot pull the copy from under the storage thread, which
\* would end the process, unless that backup has outlasted backup_ttl.
BackupKeepsItsFile ==
  backup # NoBackup /\ backup.age <= BackupTtl => InFolder(Raw(backup.name))

\* "Truncating data older than": a row leaves the table only once it is older
\* than messages_ttl.
KeepsFreshRows == [][\A r \in table \ table' : rowAge[r] > MsgTtl]_vars

\* A compressed copy leaves the folder only once it is older than backup_ttl,
\* in spite of older_than being computed once for a whole listing.
KeepsFreshCopies ==
  [][\A f \in files : f.ext = "db.zst" /\ f.age <= BackupTtl
       => \E g \in files' : Entry(g) = Entry(f)]_vars

\* Old rows do go: once a row has outlived messages_ttl a truncation deletes
\* it, provided neither thread dies for good.
ExpiredRowsGo ==
  <>[](storage # "dead" /\ scheduler # "dead") =>
    \A r \in Rows : (r \in table /\ rowAge[r] > MsgTtl) ~> r \notin table

\* And old copies too, the uncompressed ones of a run that died included.
ExpiredCopiesGo ==
  <>[](storage # "dead" /\ scheduler # "dead") =>
    \A e \in Entries :
      (\E f \in files : Entry(f) = e /\ f.age > BackupTtl) ~> ~InFolder(e)

\* What main.rs:237-240 calls essential: a thread that schedules compactions,
\* once it has started to, does so for as long as the process is up.
SchedulerSurvives ==
  [][scheduler \notin {"starting", "dead"} /\ process' = "up" => scheduler' # "dead"]_vars

=============================================================================
