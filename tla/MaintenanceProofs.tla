------------------------- MODULE MaintenanceProofs --------------------------
(***************************************************************************)
(* Proofs about Maintenance, for any rows, backup names, ttls and queue    *)
(* lengths: its type invariant, that a backup is preceded by a truncation, *)
(* that no uncompressed copy strays, and, as long as the wall clock is not *)
(* set back, that the scheduler leaves the copy that is being made alone   *)
(* and that neither rows nor compressed copies go before their time.       *)
(*                                                                         *)
(* Most of the inductive invariant says why a name is never mixed up: from *)
(* the moment it is picked to the moment its copy is opened, nothing else  *)
(* in the queue, the folder or the scheduler's listing goes by it.         *)
(***************************************************************************)
EXTENDS Maintenance, QueueFacts

\* No age says more than that the clock was set back as often as it was.
AgesKnown ==
  /\ \A r \in Rows : rowAge[r] >= -back
  /\ \A f \in files : f.age >= -back
  /\ backup # NoBackup => backup.age >= -back

\* What a process that ended leaves behind.
Down ==
  process = "down" =>
    /\ storage = "dead" /\ scheduler = "dead" /\ untruncated = {}
    /\ \A n \in Backups : InFolder(Raw(n)) => n \in leftover

\* Nothing in the folder, in the listing or about to be removed is called e.
Absent(e) == ~InFolder(e) /\ victim # e /\ \A d \in listing : Entry(d) # e

Unused(n) == Absent(Raw(n)) /\ Absent(Zst(n)) /\ backup.name # n

\* A name that was picked is in one place, until its copy is opened.
PickedOnce ==
  /\ scheduler \notin {"visit", "remove"} => listing = {}
  /\ job # "none" => Unused(job) /\ BackupDB(job) \notin Range(storQ)
  /\ \A n \in Backups : BackupDB(n) \in Range(storQ) => Unused(n)
  /\ \A i, j \in 1..Len(storQ) : storQ[i].kind = "BackupDB" /\ storQ[i] = storQ[j] => i = j
  /\ storage \in {"copying", "reading", "writing"} => Absent(Zst(backup.name))

\* Between the pick of a name and its copy there is a truncation in the queue.
TruncateAhead ==
  /\ backup.name \notin untruncated
  /\ \A i \in 1..Len(storQ) : storQ[i].kind = "BackupDB" /\ storQ[i].of \in untruncated =>
       \E j \in 1..Len(storQ) : j < i /\ storQ[j] = Truncate
  /\ storage # "dead" /\ scheduler = "backup" /\ job \in untruncated =>
       Truncate \in Range(storQ)

\* What the scheduler holds to be old is old, and so is a copy whose file it
\* has removed while it is being made.
OldIsOld ==
  back = 0 =>
    /\ \A f \in files : (\E d \in listing : d.old /\ Entry(d) = Entry(f)) \/ Entry(f) = victim =>
         f.age > BackupTtl
    /\ backup # NoBackup =>
         /\ \A f \in files : Entry(f) = Raw(backup.name) => f.age = backup.age
         /\ backup.age <= BackupTtl => InFolder(Raw(backup.name))

\* The inductive invariant.
IInv ==
  /\ TypeOK /\ AgesKnown /\ Down
  /\ PickedOnce /\ TruncateAhead /\ NoStrayCopies /\ OldIsOld

-----------------------------------------------------------------------------
(* Ages, commands and the folder.                                          *)

LEMMA AgeFacts ==
  /\ MaxAge \in Nat /\ MaxAge > MsgTtl /\ MaxAge > BackupTtl /\ 0 \in Ages
  /\ \A a \in Ages : a \in Int /\ Older[a] \in Ages /\ Older[a] >= a
  /\ \A a \in Ages : Older[a] \in Nat \/ Older[a] = a + 1
BY TtlAssumption DEF MaxAge, Larger, Ages, Older

LEMMA CommandFacts ==
  /\ \A r \in Rows : Insert(r) \in Commands
  /\ \A n \in Backups : BackupDB(n) \in Commands
  /\ Truncate \in Commands
  /\ \A c \in Commands :
       /\ c.kind \in {"InsertBoth", "Truncate", "BackupDB"}
       /\ c.kind = "InsertBoth" => c.of \in Rows /\ c = Insert(c.of)
       /\ c.kind = "BackupDB" => c.of \in Backups /\ c = BackupDB(c.of)
       /\ c.kind = "Truncate" => c = Truncate
  /\ \A r : Insert(r).kind = "InsertBoth" /\ Insert(r).of = r
  /\ \A n : BackupDB(n).kind = "BackupDB" /\ BackupDB(n).of = n
  /\ Truncate.kind = "Truncate"
BY DEF Commands, Insert, Truncate, BackupDB

LEMMA EntryFacts ==
  /\ \A n \in Backups : Raw(n) \in Entries /\ Zst(n) \in Entries
  /\ \A m, n : Raw(m) # Zst(n) /\ (Raw(m) = Raw(n) => m = n) /\ (Zst(m) = Zst(n) => m = n)
  /\ \A n : Raw(n).name = n /\ Raw(n).ext = "db" /\ Zst(n).name = n /\ Zst(n).ext = "db.zst"
  /\ \A e \in Entries : e.name \in Backups /\ (e = Raw(e.name) \/ e = Zst(e.name))
  /\ NoEntry \notin Entries
BY NamesAssumption DEF Raw, Zst, Entries, NoEntry

Files == [name : Backups, ext : {"db", "db.zst"}, age : Ages]

\* A file of the folder, and the type of its entry.
LEMMA FileFacts ==
  ASSUME NEW f \in Files
  PROVE  /\ Entry(f) \in Entries /\ f.age \in Ages
         /\ Entry(f).name = f.name /\ Entry(f).ext = f.ext
         /\ f = [name |-> f.name, ext |-> f.ext, age |-> f.age]
BY DEF Files, Entry, Entries

\* With(e) adds e, if it was absent, once and as new.
LEMMA WithFacts ==
  ASSUME files \subseteq Files, NEW e \in Entries, files' = With(e)
  PROVE  /\ files' \subseteq Files
         /\ \A d : InFolder(d)' <=> InFolder(d) \/ d = e
         /\ \A g \in files' : g \in files \/ (Entry(g) = e /\ g.age = 0)
         /\ files \subseteq files'
<1> DEFINE new == [name |-> e.name, ext |-> e.ext, age |-> 0]
<1>1. new \in Files /\ Entry(new) = e /\ new.age = 0
  BY AgeFacts DEF Files, Entry, Entries
<1>2. files' = files \cup {new} BY DEF With
<1> HIDE DEF new
<1> QED BY <1>1, <1>2 DEF InFolder

LEMMA WithoutFacts ==
  ASSUME NEW e, files' = Without(e)
  PROVE  /\ \A d : InFolder(d)' <=> InFolder(d) /\ d # e
         /\ files' \subseteq files
         /\ \A f \in files : Entry(f) # e => f \in files'
BY DEF Without, InFolder

\* What the passing of time does to the folder.
LEMMA AgedFacts ==
  ASSUME files \subseteq Files, NEW to,
         files' = {[f EXCEPT !.age = to[@]] : f \in files}
  PROVE  /\ \A d : InFolder(d)' <=> InFolder(d)
         /\ \A g \in files' : \E f \in files :
              /\ Entry(g) = Entry(f) /\ g.age = to[f.age]
              /\ g = [name |-> f.name, ext |-> f.ext, age |-> to[f.age]]
         /\ \A f \in files : \E g \in files' : Entry(g) = Entry(f)
<1> DEFINE aged(f) == [name |-> f.name, ext |-> f.ext, age |-> to[f.age]]
<1>1. ASSUME NEW f \in files PROVE [f EXCEPT !.age = to[@]] = aged(f)
  <2>1. f \in Files OBVIOUS
  <2> QED BY <2>1 DEF Files
<1>2. files' = {aged(f) : f \in files}
  <2> HIDE DEF aged
  <2>1. \A g : g \in files' <=> \E f \in files : g = [f EXCEPT !.age = to[@]] OBVIOUS
  <2>2. \A g : g \in files' <=> \E f \in files : g = aged(f) BY <1>1, <2>1
  <2> QED BY <2>2
<1>3. \A f \in files : Entry(aged(f)) = Entry(f) /\ aged(f).age = to[f.age] BY DEF Entry
<1> HIDE DEF aged
<1>4. \A g \in files' : \E f \in files : g = aged(f) /\ Entry(g) = Entry(f) /\ g.age = to[f.age]
  BY <1>2, <1>3
<1>5. \A f \in files : \E g \in files' : Entry(g) = Entry(f) BY <1>2, <1>3
<1>6. ASSUME NEW d PROVE InFolder(d)' <=> InFolder(d)
  <2>1. InFolder(d)' => InFolder(d) BY <1>4 DEF InFolder
  <2>2. InFolder(d) => InFolder(d)' BY <1>5 DEF InFolder
  <2> QED BY <2>1, <2>2
<1> QED BY <1>4, <1>5, <1>6 DEF aged

LEMMA SameFolder == UNCHANGED files => \A d : InFolder(d)' <=> InFolder(d)
BY DEF InFolder

-----------------------------------------------------------------------------
(* Types and ages.                                                         *)

\* A queue after a send, and after its head was served.
LEMMA SendFacts ==
  ASSUME storQ \in Seq(Commands), Len(storQ) <= MaxQueue, NEW c \in Commands, Send(c)
  PROVE  /\ storQ' \in Seq(Commands) /\ Len(storQ') <= MaxQueue
         /\ storage = "dead" => storQ' = storQ
         /\ storage # "dead" => storQ' = Append(storQ, c)
BY TtlAssumption, AppendFacts DEF Send

LEMMA HeadFacts ==
  ASSUME storQ \in Seq(Commands), storQ # <<>>
  PROVE  /\ Head(storQ) \in Commands /\ Tail(storQ) \in Seq(Commands)
         /\ Len(Tail(storQ)) <= Len(storQ) /\ Len(storQ) \in Nat /\ Len(Tail(storQ)) \in Nat
BY TailFacts

LEMMA InitType == Init => TypeOK /\ AgesKnown
BY TtlAssumption, AgeFacts, EmptyFacts
   DEF Init, TypeOK, AgesKnown, StorageStates, SchedulerStates, NoBackup

\* The folder's files stay typed, and each of them is in it once.
LEMMA FolderType ==
  ASSUME TypeOK, NEW e \in Entries, ~InFolder(e), files' = With(e)
  PROVE  /\ files' \subseteq Files
         /\ \A f, g \in files' : Entry(f) = Entry(g) => f = g
<1>1. files \subseteq Files BY DEF TypeOK, Files
<1>2. files' = files \cup {[name |-> e.name, ext |-> e.ext, age |-> 0]} BY DEF With
<1>3. Entry([name |-> e.name, ext |-> e.ext, age |-> 0]) = e
  BY DEF Entry, Entries
<1>4. \A f \in files : Entry(f) # e BY DEF InFolder
<1>5. \A f, g \in files : Entry(f) = Entry(g) => f = g BY DEF TypeOK
<1>6. files' \subseteq Files BY <1>1, WithFacts
<1> QED BY <1>2, <1>3, <1>4, <1>5, <1>6

\* Time moves all ages alike, and none out of its range.
LEMMA AgedType ==
  ASSUME TypeOK, AgesKnown, NEW to, SetAges(to),
         back' \in 0..MaxBack,
         \A a \in Ages : a >= -back => to[a] \in Ages /\ to[a] >= -back',
         UNCHANGED <<process, storQ, storage, table, leftover, schedulerVars, untruncated>>
  PROVE  TypeOK' /\ AgesKnown'
<1> USE DEF SetAges, schedulerVars
<1>1. files \subseteq Files BY DEF TypeOK, Files
<1>2. \A g \in files' : \E f \in files :
        /\ Entry(g) = Entry(f) /\ g.age = to[f.age]
        /\ g = [name |-> f.name, ext |-> f.ext, age |-> to[f.age]]
  <2>1. files' = {[f EXCEPT !.age = to[@]] : f \in files} OBVIOUS
  <2> QED BY <1>1, <2>1, AgedFacts
<1>3. /\ rowAge' \in [Rows -> Ages] /\ \A r \in Rows : rowAge'[r] >= -back'
  <2>1. 0 \in Ages /\ 0 >= -back' BY AgeFacts, TtlAssumption
  <2>2. \A r \in Rows : rowAge[r] \in Ages /\ rowAge[r] >= -back BY DEF TypeOK, AgesKnown
  <2> QED BY <2>1, <2>2
<1>4. /\ files' \subseteq Files /\ \A f \in files' : f.age >= -back'
  <2> SUFFICES ASSUME NEW g \in files' PROVE g \in Files /\ g.age >= -back' OBVIOUS
  <2>1. PICK f \in files : /\ Entry(g) = Entry(f) /\ g.age = to[f.age]
                           /\ g = [name |-> f.name, ext |-> f.ext, age |-> to[f.age]]
    BY <1>2
  <2>2. f.age \in Ages /\ f.age >= -back BY <1>1 DEF Files, AgesKnown
  <2> QED BY <1>1, <2>1, <2>2 DEF Files
<1>5. \A f, g \in files' : Entry(f) = Entry(g) => f = g
  <2> SUFFICES ASSUME NEW f \in files', NEW g \in files', Entry(f) = Entry(g) PROVE f = g
    OBVIOUS
  <2>1. PICK h \in files : /\ Entry(f) = Entry(h)
                           /\ f = [name |-> h.name, ext |-> h.ext, age |-> to[h.age]]
    BY <1>2
  <2>2. PICK i \in files : /\ Entry(g) = Entry(i)
                           /\ g = [name |-> i.name, ext |-> i.ext, age |-> to[i.age]]
    BY <1>2
  <2>3. h = i BY <2>1, <2>2 DEF TypeOK
  <2> QED BY <2>1, <2>2, <2>3
<1>6. /\ backup' \in [name : Backups, age : Ages] \cup {NoBackup}
      /\ backup' = NoBackup <=> backup = NoBackup
      /\ backup' # NoBackup => backup'.age >= -back'
  <2>1. CASE backup = NoBackup BY <2>1
  <2>2. CASE backup # NoBackup
    <3>1. backup \in [name : Backups, age : Ages] /\ backup.age >= -back
      BY <2>2 DEF TypeOK, AgesKnown
    <3>2. backup' = [name |-> backup.name, age |-> to[backup.age]] /\ to[backup.age] \in Ages
          /\ to[backup.age] >= -back'
      BY <2>2, <3>1
    <3>3. backup.name # "none" BY <3>1, NamesAssumption
    <3> QED BY <2>2, <3>1, <3>2, <3>3 DEF NoBackup
  <2> QED BY <2>1, <2>2
<1> QED BY <1>3, <1>4, <1>5, <1>6 DEF TypeOK, AgesKnown, Files

LEMMA ClockType ==
  ASSUME TypeOK, AgesKnown, Tick \/ ClockSetBack
  PROVE  TypeOK' /\ AgesKnown'
<1>1. CASE Tick
  <2>1. back' \in 0..MaxBack /\ back' = back BY <1>1 DEF Tick, TypeOK
  <2>2. \A a \in Ages : a >= -back => Older[a] \in Ages /\ Older[a] >= -back'
    BY <2>1, AgeFacts
  <2> QED BY <1>1, <2>1, <2>2, AgedType DEF Tick
<1>2. CASE ClockSetBack
  <2> DEFINE to == [a \in Ages |-> a - 1]
  <2>1. back' \in 0..MaxBack /\ back' = back + 1 /\ back \in Nat
    BY <1>2, TtlAssumption DEF ClockSetBack, TypeOK
  <2>2. \A a \in Ages : a >= -back => to[a] \in Ages /\ to[a] >= -back'
    BY <2>1, AgeFacts, TtlAssumption DEF Ages
  <2>3. SetAges(to) /\ UNCHANGED <<process, storQ, storage, table, leftover, schedulerVars, untruncated>>
    BY <1>2 DEF ClockSetBack
  <2> HIDE DEF to
  <2> QED BY <2>1, <2>2, <2>3, AgedType
<1> QED BY <1>1, <1>2

\* The aggregator's sends and the storage thread.
LEMMA StorageType ==
  ASSUME TypeOK, AgesKnown, PickedOnce,
         StorageStep \/ \E r \in Rows : AggregatorSend(r)
  PROVE  TypeOK' /\ AgesKnown'
<1> USE DEF dataVars, folderVars, schedulerVars, StorageStates
<1>1. storQ \in Seq(Commands) /\ Len(storQ) <= MaxQueue /\ files \subseteq Files
  BY DEF TypeOK, Files
<1>2. <<>> \in Seq(Commands) /\ Len(<<>>) <= MaxQueue BY EmptyFacts, TtlAssumption
<1>3. storQ # <<>> => /\ Head(storQ) \in Commands /\ Tail(storQ) \in Seq(Commands)
                      /\ Len(Tail(storQ)) <= MaxQueue
  BY <1>1, HeadFacts, TtlAssumption
<1>4. ASSUME NEW r \in Rows, AggregatorSend(r) PROVE TypeOK' /\ AgesKnown'
  <2>1. storQ' \in Seq(Commands) /\ Len(storQ') <= MaxQueue
    BY <1>1, <1>4, SendFacts, CommandFacts DEF AggregatorSend
  <2>2. rowAge' \in [Rows -> Ages] /\ \A q \in Rows : rowAge'[q] >= -back
    BY <1>4, AgeFacts, TtlAssumption DEF AggregatorSend, TypeOK, AgesKnown
  <2> QED BY <1>4, <2>1, <2>2 DEF AggregatorSend, TypeOK, AgesKnown
<1>5. CASE StorageInsert
  <2>1. table' \subseteq Rows
    BY <1>3, <1>5, CommandFacts DEF StorageInsert, StorageRecv, TypeOK
  <2> QED BY <1>2, <1>3, <1>5, <2>1
      DEF StorageInsert, StorageRecv, Served, StoragePanic, TypeOK, AgesKnown
<1>6. CASE TruncateOk \/ TruncateFails
  <2>1. table' \subseteq Rows BY <1>6 DEF TruncateOk, TruncateFails, TypeOK
  <2> QED BY <1>3, <1>6, <2>1 DEF TruncateOk, TruncateFails, StorageRecv, Served, TypeOK, AgesKnown
<1>7. CASE BackupOpen
  <2> DEFINE n == Head(storQ).of
  <2>1. /\ storQ # <<>> /\ storage = "recv" /\ n \in Backups /\ Raw(n) \in Entries
        /\ ~InFolder(Raw(n))
    <3>1. storQ # <<>> /\ storage = "recv" /\ Head(storQ).kind = "BackupDB"
      BY <1>7 DEF BackupOpen, StorageRecv
    <3>2. Head(storQ) \in Range(storQ) BY <1>1, <3>1, TailFacts
    <3> QED BY <1>3, <3>1, <3>2, CommandFacts, EntryFacts DEF PickedOnce, Unused, Absent
  <2> HIDE DEF n
  <2>2. /\ files' \subseteq Files /\ \A f, g \in files' : Entry(f) = Entry(g) => f = g
        /\ \A f \in files' : f.age >= -back
    <3>1. files' = files \/ files' = With(Raw(n)) BY <1>7 DEF BackupOpen, n
    <3>2. CASE files' = files BY <1>1, <3>2 DEF TypeOK, AgesKnown
    <3>3. CASE files' = With(Raw(n))
      <4>1. \A g \in files' : g \in files \/ g.age = 0 BY <1>1, <2>1, <3>3, WithFacts
      <4> QED BY <2>1, <3>3, <4>1, FolderType, TtlAssumption DEF TypeOK, AgesKnown
    <3> QED BY <3>1, <3>2, <3>3
  <2>3. \/ /\ Served /\ storage' = "copying" /\ backup' = [name |-> n, age |-> 0]
        \/ StoragePanic
    BY <1>7 DEF BackupOpen, n
  <2>4. [name |-> n, age |-> 0] \in [name : Backups, age : Ages]
        /\ [name |-> n, age |-> 0] # NoBackup /\ 0 >= -back
    BY <2>1, AgeFacts, NamesAssumption, TtlAssumption DEF NoBackup, TypeOK
  <2>5. UNCHANGED <<process, dataVars, leftover, schedulerVars, untruncated, back>>
    BY <1>7 DEF BackupOpen
  <2>6. AgesKnown' BY <2>2, <2>3, <2>4, <2>5 DEF StoragePanic, AgesKnown
  <2> QED BY <1>2, <1>3, <2>1, <2>2, <2>3, <2>4, <2>5, <2>6 DEF Served, StoragePanic, TypeOK, Files
<1>8. CASE BackupCopied
  BY <1>2, <1>8 DEF BackupCopied, StoragePanic, TypeOK, AgesKnown
<1>9. CASE CompressRead
  BY <1>2, <1>9 DEF CompressRead, StoragePanic, TypeOK, AgesKnown
<1>10. CASE CompressWrite
  <2> DEFINE n == backup.name
  <2>1. storage = "writing" /\ backup # NoBackup BY <1>10 DEF CompressWrite, TypeOK
  <2>2. n \in Backups /\ Zst(n) \in Entries /\ ~InFolder(Zst(n))
    BY <2>1, EntryFacts DEF TypeOK, PickedOnce, Absent
  <2> HIDE DEF n
  <2>3. /\ files' \subseteq Files /\ \A f, g \in files' : Entry(f) = Entry(g) => f = g
        /\ \A f \in files' : f.age >= -back
    <3>1. files' = files \/ files' = With(Zst(n)) BY <1>10 DEF CompressWrite, n
    <3>2. CASE files' = files BY <1>1, <3>2 DEF TypeOK, AgesKnown
    <3>3. CASE files' = With(Zst(n))
      <4>1. \A g \in files' : g \in files \/ g.age = 0 BY <1>1, <2>2, <3>3, WithFacts
      <4> QED BY <2>2, <3>3, <4>1, FolderType, TtlAssumption DEF TypeOK, AgesKnown
    <3> QED BY <3>1, <3>2, <3>3
  <2>4. \/ storage' = "removing" /\ UNCHANGED <<storQ, backup>>
        \/ StoragePanic
    BY <1>10 DEF CompressWrite
  <2>5. UNCHANGED <<process, dataVars, leftover, schedulerVars, untruncated, back>>
    BY <1>10 DEF CompressWrite
  <2> QED BY <1>2, <2>1, <2>3, <2>4, <2>5 DEF StoragePanic, TypeOK, AgesKnown, Files
<1>11. CASE CompressRemove
  <2>1. files' \subseteq files BY <1>11 DEF CompressRemove, Without
  <2> QED BY <1>2, <1>11, <2>1 DEF CompressRemove, StoragePanic, TypeOK, AgesKnown
<1> QED BY <1>4, <1>5, <1>6, <1>7, <1>8, <1>9, <1>10, <1>11 DEF StorageStep

\* The scheduler's thread and the process.
LEMMA SchedulerType ==
  ASSUME TypeOK, AgesKnown, Down,
         TruncateJob \/ BackupJob \/ SchedulerStep \/ MainExits \/ Killed \/ Restart
  PROVE  TypeOK' /\ AgesKnown'
<1> USE DEF storageVars, dataVars, folderVars, schedulerVars, SchedulerStates, StorageStates
<1>1. storQ \in Seq(Commands) /\ Len(storQ) <= MaxQueue BY DEF TypeOK
<1>2. CASE TruncateJob \/ JobSendsTruncate
  <2>1. storQ' \in Seq(Commands) /\ Len(storQ') <= MaxQueue
    BY <1>1, <1>2, SendFacts, CommandFacts DEF TruncateJob, JobSendsTruncate
  <2> QED BY <1>2, <2>1 DEF TruncateJob, JobSendsTruncate, TypeOK, AgesKnown
<1>3. CASE JobSendsBackup
  <2>1. storQ' \in Seq(Commands) /\ Len(storQ') <= MaxQueue
    <3>1. CASE job = "none" BY <1>1, <1>3, <3>1 DEF JobSendsBackup
    <3>2. CASE job # "none"
      <4>1. BackupDB(job) \in Commands /\ Send(BackupDB(job))
        BY <1>3, <3>2, CommandFacts DEF JobSendsBackup, TypeOK
      <4> QED BY <1>1, <4>1, SendFacts
    <3> QED BY <3>1, <3>2
  <2> QED BY <1>3, <2>1 DEF JobSendsBackup, TypeOK, AgesKnown
<1>4. CASE SchedulerStart \/ BackupJob
  BY <1>4 DEF SchedulerStart, BackupJob, TypeOK, AgesKnown
<1>5. CASE JobLists
  <2>1. listing' \subseteq [name : Backups, ext : {"db", "db.zst"}, old : BOOLEAN]
    <3>1. CASE UNCHANGED listing BY <3>1 DEF TypeOK
    <3>2. CASE listing' = {[name |-> f.name, ext |-> f.ext, old |-> f.age > BackupTtl] : f \in files}
      <4>1. \A f \in files : f.name \in Backups /\ f.ext \in {"db", "db.zst"} BY DEF TypeOK
      <4> SUFFICES ASSUME NEW f \in files
                   PROVE  [name |-> f.name, ext |-> f.ext, old |-> f.age > BackupTtl]
                            \in [name : Backups, ext : {"db", "db.zst"}, old : BOOLEAN]
        BY <3>2
      <4> DEFINE old == f.age > BackupTtl
      <4>2. old \in BOOLEAN OBVIOUS
      <4> HIDE DEF old
      <4>3. [name |-> f.name, ext |-> f.ext, old |-> old]
              \in [name : Backups, ext : {"db", "db.zst"}, old : BOOLEAN]
        BY <4>1, <4>2
      <4> QED BY <4>3 DEF old
    <3> QED BY <1>5, <3>1, <3>2 DEF JobLists
  <2> QED BY <1>5, <2>1 DEF JobLists, TypeOK, AgesKnown
<1>6. CASE JobVisits
  <2>1. PICK e \in listing :
          \/ ~InFolder(Entry(e)) /\ scheduler' = "dead" /\ listing' = {} /\ UNCHANGED victim
          \/ /\ InFolder(Entry(e)) /\ e.old
             /\ scheduler' = "remove" /\ listing' = listing \ {e} /\ victim' = Entry(e)
          \/ InFolder(Entry(e)) /\ ~e.old /\ listing' = listing \ {e} /\ UNCHANGED <<scheduler, victim>>
    BY <1>6 DEF JobVisits
  <2>2. Entry(e) \in Entries /\ Entry(e) # NoEntry
    BY EntryFacts DEF TypeOK, Entry, Entries
  <2>3. /\ scheduler = "visit" /\ victim = NoEntry
        /\ UNCHANGED <<process, storageVars, dataVars, folderVars, job, untruncated, back>>
    BY <1>6 DEF JobVisits, TypeOK
  <2> QED BY <2>1, <2>2, <2>3 DEF TypeOK, AgesKnown
<1>7. CASE JobEnds
  BY <1>7 DEF JobEnds, TypeOK, AgesKnown
<1>8. CASE (\E e \in Entries : JobRemoves(e)) \/ JobRemoveFails
  <2>1. RemoveVictim /\ files' \subseteq files /\ leftover' \subseteq Backups
    BY <1>8 DEF JobRemoves, JobRemoveFails, RemoveVictim, Without, TypeOK
  <2> QED BY <2>1 DEF RemoveVictim, TypeOK, AgesKnown
<1>9. CASE ProcessEnds
  <2>1. <<>> \in Seq(Commands) /\ Len(<<>>) <= MaxQueue BY EmptyFacts, TtlAssumption
  <2> QED BY <1>9, <2>1 DEF ProcessEnds, TypeOK, AgesKnown
<1>10. CASE Restart
  BY <1>10 DEF Restart, Down, TypeOK, AgesKnown
<1> QED BY <1>2, <1>3, <1>4, <1>5, <1>6, <1>7, <1>8, <1>9, <1>10
    DEF SchedulerStep, MainExits, Killed

LEMMA TypeStep ==
  ASSUME TypeOK, AgesKnown, Down, PickedOnce, [Next]_vars
  PROVE  TypeOK' /\ AgesKnown'
<1>1. CASE UNCHANGED vars
  BY <1>1 DEF vars, storageVars, dataVars, folderVars, schedulerVars, TypeOK, AgesKnown
<1> QED BY <1>1, ClockType, StorageType, SchedulerType DEF Next

-----------------------------------------------------------------------------
(* Names.                                                                  *)

\* The ways the queue changes.
LEMMA QueueStep ==
  ASSUME TypeOK, [Next]_vars
  PROVE  \/ UNCHANGED storQ
         \/ storQ' = <<>> /\ storage' = "dead"
         \/ storQ # <<>> /\ storage = "recv" /\ storQ' = Tail(storQ)
         \/ \E c \in Commands :
              /\ storQ' = Append(storQ, c) /\ storage # "dead"
              /\ c.kind = "BackupDB" =>
                   job # "none" /\ c = BackupDB(job) /\ JobSendsBackup
<1> USE DEF storageVars
<1>1. CASE Tick \/ ClockSetBack \/ Restart \/ BackupJob \/ UNCHANGED vars
  BY <1>1 DEF Tick, ClockSetBack, Restart, BackupJob, vars
<1>2. CASE StorageStep
  BY <1>2 DEF StorageStep, StorageInsert, TruncateOk, TruncateFails, BackupOpen, BackupCopied,
              CompressRead, CompressWrite, CompressRemove, StorageRecv, Served, StoragePanic
<1>3. ASSUME NEW r \in Rows, AggregatorSend(r)
      PROVE  storQ' = Append(storQ, Insert(r)) /\ storage # "dead"
  BY <1>3 DEF AggregatorSend, Send
<1>4. CASE TruncateJob \/ JobSendsTruncate
  BY <1>4, CommandFacts DEF TruncateJob, JobSendsTruncate, Send
<1>5. CASE JobSendsBackup
  <2>1. job # "none" => BackupDB(job) \in Commands BY CommandFacts DEF TypeOK
  <2> QED BY <1>5, <2>1 DEF JobSendsBackup, Send
<1>6. CASE SchedulerStart \/ JobLists \/ JobVisits \/ JobEnds \/ JobRemoveFails
             \/ \E e \in Entries : JobRemoves(e)
  BY <1>6 DEF SchedulerStart, JobLists, JobVisits, JobEnds, JobRemoveFails, JobRemoves, RemoveVictim
<1>7. CASE MainExits \/ Killed
  BY <1>7 DEF MainExits, Killed, ProcessEnds
<1> QED
  BY <1>1, <1>2, <1>3, <1>4, <1>5, <1>6, <1>7, CommandFacts DEF Next, SchedulerStep

\* Only the storage thread makes an entry that was absent appear.
LEMMA AbsentStep ==
  ASSUME TypeOK, NEW e \in Entries, Absent(e), [Next]_vars
  PROVE  \/ Absent(e)'
         \/ BackupOpen /\ e = Raw(Head(storQ).of)
         \/ CompressWrite /\ e = Zst(backup.name)
<1> USE DEF Absent, storageVars, folderVars, schedulerVars
<1>1. files \subseteq Files /\ e # NoEntry BY EntryFacts DEF TypeOK, Files
<1>2. CASE Tick \/ ClockSetBack
  <2>1. \E to : SetAges(to) BY <1>2 DEF Tick, ClockSetBack
  <2>2. InFolder(e)' <=> InFolder(e) BY <1>1, <2>1, AgedFacts DEF SetAges
  <2> QED BY <1>2, <2>2 DEF Tick, ClockSetBack
<1>3. CASE \/ \E r \in Rows : AggregatorSend(r)
           \/ StorageInsert \/ TruncateOk \/ TruncateFails \/ BackupCopied \/ CompressRead
           \/ TruncateJob \/ BackupJob \/ SchedulerStart \/ JobSendsTruncate \/ JobSendsBackup
           \/ JobEnds \/ JobRemoveFails \/ Restart \/ UNCHANGED vars
  <2>1. UNCHANGED <<files, listing>> /\ victim' \in {victim, NoEntry}
    BY <1>3 DEF AggregatorSend, StorageInsert, TruncateOk, TruncateFails, BackupCopied,
                CompressRead, TruncateJob, BackupJob, SchedulerStart, JobSendsTruncate,
                JobSendsBackup, JobEnds, JobRemoveFails, RemoveVictim, Restart, vars
  <2> QED BY <1>1, <2>1, SameFolder
<1>4. CASE BackupOpen
  <2>1. UNCHANGED <<listing, victim>> BY <1>4 DEF BackupOpen
  <2>2. Raw(Head(storQ).of) \in Entries
    BY <1>4, HeadFacts, CommandFacts, EntryFacts DEF BackupOpen, StorageRecv, TypeOK
  <2>3. CASE UNCHANGED files BY <2>1, <2>3, SameFolder
  <2>4. CASE files' = With(Raw(Head(storQ).of)) BY <1>1, <1>4, <2>1, <2>2, <2>4, WithFacts
  <2> QED BY <1>4, <2>3, <2>4 DEF BackupOpen
<1>5. CASE CompressWrite
  <2>1. UNCHANGED <<listing, victim>> BY <1>5 DEF CompressWrite
  <2>2. Zst(backup.name) \in Entries
    BY <1>5, EntryFacts DEF CompressWrite, TypeOK
  <2>3. CASE UNCHANGED files BY <2>1, <2>3, SameFolder
  <2>4. CASE files' = With(Zst(backup.name)) BY <1>1, <1>5, <2>1, <2>2, <2>4, WithFacts
  <2> QED BY <1>5, <2>3, <2>4 DEF CompressWrite
<1>6. CASE CompressRemove
  <2>1. UNCHANGED <<listing, victim>> BY <1>6 DEF CompressRemove
  <2>2. UNCHANGED files \/ files' = Without(Raw(backup.name)) BY <1>6 DEF CompressRemove
  <2> QED BY <2>1, <2>2, SameFolder, WithoutFacts
<1>7. CASE JobLists
  <2>1. UNCHANGED <<files, victim>> BY <1>7 DEF JobLists
  <2>2. \A d \in listing' : d \in listing \/ \E f \in files : Entry(d) = Entry(f)
    BY <1>7 DEF JobLists, Entry
  <2> QED BY <2>1, <2>2, SameFolder DEF InFolder
<1>8. CASE JobVisits
  <2>1. /\ UNCHANGED files /\ listing' \subseteq listing
        /\ UNCHANGED victim \/ \E d \in listing : victim' = Entry(d)
    BY <1>8 DEF JobVisits
  <2> QED BY <2>1, SameFolder
<1>9. ASSUME NEW d \in Entries, JobRemoves(d) PROVE Absent(e)'
  <2>1. UNCHANGED listing /\ victim' = NoEntry /\ files' = Without(d)
    BY <1>9 DEF JobRemoves, RemoveVictim
  <2> QED BY <1>1, <2>1, WithoutFacts
<1>10. CASE MainExits \/ Killed
  <2>1. UNCHANGED files /\ listing' = {} /\ victim' = NoEntry
    BY <1>10 DEF MainExits, Killed, ProcessEnds
  <2> QED BY <1>1, <2>1, SameFolder
<1> QED BY <1>2, <1>3, <1>4, <1>5, <1>6, <1>7, <1>8, <1>9, <1>10 DEF Next, StorageStep, SchedulerStep

\* A name comes into use by the opening of its copy, and in no other way.
LEMMA UnusedStep ==
  ASSUME TypeOK, NEW n \in Backups, Unused(n), [Next]_vars
  PROVE  Unused(n)' \/ (BackupOpen /\ Head(storQ) = BackupDB(n))
<1>1. CASE BackupOpen
  <2>1. storQ # <<>> /\ Head(storQ).kind = "BackupDB" BY <1>1 DEF BackupOpen, StorageRecv
  <2>2. Head(storQ) = BackupDB(Head(storQ).of) BY <2>1, HeadFacts, CommandFacts DEF TypeOK
  <2>3. CASE Head(storQ).of = n BY <1>1, <2>2, <2>3
  <2>4. CASE Head(storQ).of # n
    <3>1. Absent(Raw(n))' /\ Absent(Zst(n))'
      BY <1>1, <2>4, AbsentStep, EntryFacts DEF Unused, BackupOpen, CompressWrite, StorageRecv
    <3>2. backup'.name # n
      BY <1>1, <2>4, NamesAssumption DEF BackupOpen, StoragePanic, NoBackup
    <3> QED BY <3>1, <3>2 DEF Unused
  <2> QED BY <2>3, <2>4
<1>2. CASE ~BackupOpen
  <2>1. Absent(Raw(n))' /\ Absent(Zst(n))'
    BY <1>2, AbsentStep, EntryFacts DEF Unused
  <2>2. backup'.name \in {backup.name, "none"}
    <3> USE DEF storageVars
    <3>1. ASSUME NEW to, SetAges(to) PROVE backup'.name \in {backup.name, "none"}
      BY <3>1 DEF SetAges, NoBackup, TypeOK
    <3>2. CASE Tick \/ ClockSetBack BY <3>1, <3>2 DEF Tick, ClockSetBack
    <3>3. CASE StorageStep
      BY <1>2, <3>3 DEF StorageStep, StorageInsert, TruncateOk, TruncateFails, BackupCopied,
                        CompressRead, CompressWrite, CompressRemove, StoragePanic, NoBackup
    <3>4. CASE SchedulerStep
      BY <3>4 DEF SchedulerStep, SchedulerStart, JobSendsTruncate, JobSendsBackup, JobLists,
                  JobVisits, JobEnds, JobRemoves, JobRemoveFails, RemoveVictim
    <3>5. CASE \/ \E r \in Rows : AggregatorSend(r)
               \/ TruncateJob \/ BackupJob \/ MainExits \/ Killed \/ Restart \/ UNCHANGED vars
      BY <3>5 DEF AggregatorSend, TruncateJob, BackupJob, MainExits, Killed, ProcessEnds,
                  Restart, vars, NoBackup
    <3> QED BY <3>2, <3>3, <3>4, <3>5 DEF Next
  <2> QED BY <2>1, <2>2, NamesAssumption DEF Unused
<1> QED BY <1>1, <1>2

\* How a job's name changes.
LEMMA JobStep ==
  ASSUME TypeOK, [Next]_vars, job' # "none"
  PROVE  \/ job' = job /\ ~JobSendsBackup
         \/ BackupJob /\ job' \in Backups /\ ~InUse(job') /\ scheduler = "idle"
<1> USE DEF schedulerVars
<1>1. CASE BackupJob BY <1>1 DEF BackupJob, TypeOK
<1>2. CASE StorageStep
  BY <1>2 DEF StorageStep, StorageInsert, TruncateOk, TruncateFails, BackupOpen, BackupCopied,
              CompressRead, CompressWrite, CompressRemove, JobSendsBackup, Served, StoragePanic,
              StorageRecv, TypeOK
<1>3. CASE SchedulerStep
  BY <1>3 DEF SchedulerStep, SchedulerStart, JobSendsTruncate, JobSendsBackup, JobLists,
              JobVisits, JobEnds, JobRemoves, JobRemoveFails, RemoveVictim
<1>4. CASE \/ Tick \/ ClockSetBack \/ \E r \in Rows : AggregatorSend(r)
           \/ TruncateJob \/ MainExits \/ Killed \/ Restart \/ UNCHANGED vars
  BY <1>4 DEF Tick, ClockSetBack, AggregatorSend, TruncateJob, MainExits, Killed, ProcessEnds,
              Restart, JobSendsBackup, vars
<1> QED BY <1>1, <1>2, <1>3, <1>4 DEF Next

LEMMA InitNames == Init => PickedOnce
BY EmptyFacts DEF Init, PickedOnce

LEMMA ListingStep ==
  ASSUME Down, PickedOnce, [Next]_vars
  PROVE  scheduler' \notin {"visit", "remove"} => listing' = {}
<1> USE DEF PickedOnce, schedulerVars
<1>1. CASE StorageStep
  BY <1>1 DEF StorageStep, StorageInsert, TruncateOk, TruncateFails, BackupOpen, BackupCopied,
              CompressRead, CompressWrite, CompressRemove
<1>2. CASE SchedulerStep
  BY <1>2 DEF SchedulerStep, SchedulerStart, JobSendsTruncate, JobSendsBackup, JobLists,
              JobVisits, JobEnds, JobRemoves, JobRemoveFails, RemoveVictim
<1>3. CASE \/ Tick \/ ClockSetBack \/ \E r \in Rows : AggregatorSend(r)
           \/ TruncateJob \/ BackupJob \/ MainExits \/ Killed \/ Restart \/ UNCHANGED vars
  BY <1>3 DEF Tick, ClockSetBack, AggregatorSend, TruncateJob, BackupJob, MainExits, Killed,
              ProcessEnds, Restart, Down, vars
<1> QED BY <1>1, <1>2, <1>3 DEF Next

LEMMA PickedStep ==
  ASSUME TypeOK, Down, PickedOnce, [Next]_vars
  PROVE  PickedOnce'
<1> USE DEF PickedOnce
<1>1. storQ \in Seq(Commands) BY DEF TypeOK
<1>2. storQ # <<>> => /\ Range(storQ) = {Head(storQ)} \cup Range(Tail(storQ))
                      /\ Head(storQ).kind = "BackupDB" => Head(storQ) \notin Range(Tail(storQ))
  <2> SUFFICES ASSUME storQ # <<>>
               PROVE  /\ Range(storQ) = {Head(storQ)} \cup Range(Tail(storQ))
                      /\ Head(storQ).kind = "BackupDB" => Head(storQ) \notin Range(Tail(storQ))
    OBVIOUS
  <2>1. /\ Head(storQ) = storQ[1] /\ Tail(storQ) \in Seq(Commands)
        /\ Len(storQ) \in Nat /\ Len(storQ) > 0 /\ Len(Tail(storQ)) = Len(storQ) - 1
        /\ \A i \in 1..Len(Tail(storQ)) : Tail(storQ)[i] = storQ[i + 1]
        /\ Range(storQ) = {Head(storQ)} \cup Range(Tail(storQ))
    BY <1>1, TailFacts
  <2>2. ASSUME Head(storQ).kind = "BackupDB", Head(storQ) \in Range(Tail(storQ)) PROVE FALSE
    <3>1. PICK q \in Seq(Commands) : q = Tail(storQ) BY <2>1
    <3>r. \A x \in Range(q) : \E i \in 1..Len(q) : x = q[i] BY RangeFacts
    <3>2. PICK i \in 1..Len(Tail(storQ)) : Head(storQ) = Tail(storQ)[i] BY <2>2, <3>1, <3>r
    <3>3. i + 1 \in 1..Len(storQ) /\ 1 \in 1..Len(storQ) /\ i + 1 # 1 BY <2>1
    <3>4. PICK j \in 1..Len(storQ) : j = i + 1 /\ j # 1 /\ storQ[1] = storQ[j]
      BY <2>1, <3>2, <3>3
    <3>5. storQ[1].kind = "BackupDB" BY <2>1, <2>2
    <3> QED BY <3>3, <3>4, <3>5
  <2> QED BY <2>1, <2>2
\* What BackupOpen opens is in the queue no more.
<1>3. ASSUME NEW n \in Backups, BackupOpen, Head(storQ) = BackupDB(n)
      PROVE  BackupDB(n) \in Range(storQ) /\ BackupDB(n) \notin Range(storQ')
  <2>1. storQ # <<>> /\ (storQ' = Tail(storQ) \/ storQ' = <<>>)
    BY <1>3 DEF BackupOpen, StorageRecv, Served, StoragePanic
  <2> QED BY <1>2, <1>3, <2>1, CommandFacts, EmptyFacts
\* What is new in the queue is the job's name, or no name.
<1>4. \A n \in Backups : BackupDB(n) \in Range(storQ') =>
        BackupDB(n) \in Range(storQ) \/ (n = job /\ JobSendsBackup)
  <2>1. ASSUME NEW c \in Commands, storQ' = Append(storQ, c)
        PROVE  Range(storQ') = Range(storQ) \cup {c}
    BY <1>1, <2>1, AppendFacts
  <2>2. CASE UNCHANGED storQ BY <2>2
  <2>3. CASE storQ' = <<>> BY <2>3, EmptyFacts
  <2>4. CASE storQ # <<>> /\ storQ' = Tail(storQ) BY <1>2, <2>4
  <2>5. ASSUME NEW c \in Commands, storQ' = Append(storQ, c),
               c.kind = "BackupDB" => job # "none" /\ c = BackupDB(job) /\ JobSendsBackup,
               NEW n \in Backups, BackupDB(n) \in Range(storQ'), BackupDB(n) \notin Range(storQ)
        PROVE  n = job /\ JobSendsBackup
    <3>1. BackupDB(n) = c BY <2>1, <2>5
    <3>2. c.kind = "BackupDB" /\ c.of = n BY <3>1, CommandFacts
    <3> QED BY <2>5, <3>2, CommandFacts
  <2> QED BY <2>2, <2>3, <2>4, <2>5, QueueStep
<1>5. scheduler' \notin {"visit", "remove"} => listing' = {} BY ListingStep
<1>6. job' # "none" => Unused(job)' /\ BackupDB(job') \notin Range(storQ')
  <2> SUFFICES ASSUME job' # "none" PROVE Unused(job)' /\ BackupDB(job') \notin Range(storQ')
    OBVIOUS
  <2>1. CASE job' = job /\ ~JobSendsBackup
    <3>1. job \in Backups /\ Unused(job) /\ BackupDB(job) \notin Range(storQ) BY <2>1 DEF TypeOK
    <3>2. BackupDB(job) \notin Range(storQ') BY <1>4, <2>1, <3>1
    <3>3. \A n \in Backups : Unused(n) /\ ~(BackupOpen /\ Head(storQ) = BackupDB(n)) => Unused(n)'
      BY UnusedStep
    <3> QED BY <1>3, <2>1, <3>1, <3>2, <3>3 DEF Unused, Absent, InFolder
  <2>2. CASE BackupJob /\ job' \in Backups /\ ~InUse(job') /\ scheduler = "idle"
    <3>1. /\ UNCHANGED <<storQ, backup, files, listing, victim>>
          /\ listing = {} /\ victim = NoEntry
      BY <2>2 DEF BackupJob, storageVars, folderVars, TypeOK
    <3>2. Raw(job') # NoEntry /\ Zst(job') # NoEntry BY <2>2, EntryFacts
    <3> QED BY <2>2, <3>1, <3>2 DEF InUse, Unused, Absent, InFolder
  <2> QED BY <2>1, <2>2, JobStep
<1>7. \A n \in Backups : BackupDB(n) \in Range(storQ') => Unused(n)'
  <2> SUFFICES ASSUME NEW n \in Backups, BackupDB(n) \in Range(storQ') PROVE Unused(n)' OBVIOUS
  <2>1. Unused(n)
    <3>1. CASE BackupDB(n) \in Range(storQ) BY <3>1
    <3>2. CASE n = job /\ JobSendsBackup BY <3>2, NamesAssumption
    <3> QED BY <1>4, <3>1, <3>2
  <2> QED BY <1>3, <2>1, UnusedStep
<1>8. \A i, j \in 1..Len(storQ') :
        storQ'[i].kind = "BackupDB" /\ storQ'[i] = storQ'[j] => i = j
  <2>1. CASE UNCHANGED storQ BY <2>1
  <2>2. CASE storQ' = <<>> BY <2>2, EmptyFacts
  <2>3. CASE storQ # <<>> /\ storQ' = Tail(storQ)
    <3>1. /\ Len(storQ) \in Nat /\ Len(storQ') = Len(storQ) - 1
          /\ \A i \in 1..Len(storQ') : storQ'[i] = storQ[i + 1] /\ i + 1 \in 1..Len(storQ)
      BY <1>1, <2>3, TailFacts
    <3> QED BY <3>1
  <2>4. ASSUME NEW c \in Commands, storQ' = Append(storQ, c),
               c.kind = "BackupDB" => job # "none" /\ c = BackupDB(job)
        PROVE  \A i, j \in 1..Len(storQ') :
                 storQ'[i].kind = "BackupDB" /\ storQ'[i] = storQ'[j] => i = j
    <3>1. /\ Len(storQ') = Len(storQ) + 1 /\ Len(storQ) \in Nat
          /\ \A i \in 1..Len(storQ) : storQ'[i] = storQ[i] /\ storQ[i] \in Range(storQ)
          /\ storQ'[Len(storQ) + 1] = c
      BY <1>1, <2>4, AppendFacts, RangeFacts
    <3>2. c.kind = "BackupDB" => c \notin Range(storQ) BY <2>4
    <3> QED BY <3>1, <3>2
  <2> QED BY <2>1, <2>2, <2>3, <2>4, QueueStep
<1>9. storage' \in {"copying", "reading", "writing"} => Absent(Zst(backup.name))'
  <2> SUFFICES ASSUME storage' \in {"copying", "reading", "writing"}
               PROVE  Absent(Zst(backup.name))'
    OBVIOUS
  <2>1. CASE BackupOpen
    <3>1. /\ storQ # <<>> /\ storage = "recv"
          /\ Head(storQ).kind = "BackupDB" /\ backup'.name = Head(storQ).of
      BY <2>1 DEF BackupOpen, StorageRecv, StoragePanic
    <3>2. PICK n \in Backups : n = Head(storQ).of /\ Head(storQ) = BackupDB(n)
      BY <1>1, <3>1, HeadFacts, CommandFacts DEF TypeOK
    <3>3. Unused(n) BY <1>3, <2>1, <3>2
    <3>4. Absent(Zst(n))'
      <4>1. Zst(n) \in Entries /\ Absent(Zst(n)) /\ Zst(n) # Raw(Head(storQ).of) /\ ~CompressWrite
        BY <3>1, <3>3, EntryFacts DEF Unused, CompressWrite
      <4> QED BY <4>1, AbsentStep
    <3> QED BY <3>1, <3>2, <3>4 DEF Absent, InFolder
  <2>2. CASE ~BackupOpen
    <3>1. storage \in {"copying", "reading", "writing"} /\ backup'.name = backup.name
      <4> USE DEF storageVars
      <4>1. CASE Tick \/ ClockSetBack
        <5>1. ASSUME NEW to, SetAges(to) PROVE backup'.name = backup.name
          BY <5>1 DEF SetAges, NoBackup, TypeOK
        <5> QED BY <4>1, <5>1 DEF Tick, ClockSetBack
      <4>2. CASE StorageStep
        BY <2>2, <4>2 DEF StorageStep, StorageInsert, TruncateOk, TruncateFails, BackupCopied,
                    CompressRead, CompressWrite, CompressRemove, StorageRecv, StoragePanic
      <4>3. CASE SchedulerStep
        BY <4>3 DEF SchedulerStep, SchedulerStart, JobSendsTruncate, JobSendsBackup, JobLists,
                    JobVisits, JobEnds, JobRemoves, JobRemoveFails, RemoveVictim
      <4>4. CASE \/ \E r \in Rows : AggregatorSend(r)
                 \/ TruncateJob \/ BackupJob \/ MainExits \/ Killed \/ Restart \/ UNCHANGED vars
        BY <4>4 DEF AggregatorSend, TruncateJob, BackupJob, MainExits, Killed, ProcessEnds,
                    Restart, vars
      <4> QED BY <4>1, <4>2, <4>3, <4>4 DEF Next
    <3>2. Zst(backup.name) \in Entries BY <3>1, EntryFacts DEF TypeOK
    <3>3. Absent(Zst(backup.name)) /\ ~CompressWrite
      BY <3>1 DEF CompressWrite, StoragePanic
    <3>4. ASSUME NEW e \in Entries, Absent(e), e = Zst(backup.name) PROVE Absent(e)'
      BY <2>2, <3>3, <3>4, AbsentStep
    <3> QED BY <3>1, <3>2, <3>3, <3>4 DEF Absent, InFolder
  <2> QED BY <2>1, <2>2
<1> QED BY <1>5, <1>6, <1>7, <1>8, <1>9

-----------------------------------------------------------------------------
(* What a process leaves behind, and stray copies.                         *)

LEMMA InitCopies == Init => Down /\ NoStrayCopies
BY DEF Init, Down, NoStrayCopies, InFolder

LEMMA CopiesStep ==
  ASSUME TypeOK, Down, NoStrayCopies, [Next]_vars
  PROVE  Down' /\ NoStrayCopies'
<1> USE DEF Down, NoStrayCopies, storageVars, dataVars, folderVars, schedulerVars
<1>1. files \subseteq Files BY DEF TypeOK, Files
<1>2. CASE Tick \/ ClockSetBack
  <2>1. PICK to : SetAges(to) BY <1>2 DEF Tick, ClockSetBack
  <2>2. \A d : InFolder(d)' <=> InFolder(d) BY <1>1, <2>1, AgedFacts DEF SetAges
  <2>3. backup'.name = backup.name BY <2>1 DEF SetAges, NoBackup, TypeOK
  <2> QED BY <1>2, <2>2, <2>3 DEF Tick, ClockSetBack
<1>3. CASE \/ \E r \in Rows : AggregatorSend(r)
           \/ StorageInsert \/ TruncateOk \/ TruncateFails \/ BackupCopied \/ CompressRead
           \/ TruncateJob \/ BackupJob \/ SchedulerStart \/ JobSendsTruncate \/ JobSendsBackup
           \/ JobLists \/ JobVisits \/ JobEnds \/ JobRemoveFails \/ UNCHANGED vars
  <2>1. /\ UNCHANGED <<process, files, leftover>>
        /\ UNCHANGED backup \/ storage' = "dead"
        /\ storage = "dead" => storage' = "dead"
    BY <1>3 DEF AggregatorSend, StorageInsert, TruncateOk, TruncateFails, BackupCopied,
                CompressRead, TruncateJob, BackupJob, SchedulerStart, JobSendsTruncate,
                JobSendsBackup, JobLists, JobVisits, JobEnds, JobRemoveFails, RemoveVictim,
                StorageRecv, StoragePanic, vars
  <2>2. process = "down" => scheduler' = "dead" /\ untruncated' = {}
    BY <1>3 DEF AggregatorSend, StorageInsert, TruncateOk, TruncateFails, BackupCopied,
                CompressRead, TruncateJob, BackupJob, SchedulerStart, JobSendsTruncate,
                JobSendsBackup, JobLists, JobVisits, JobEnds, JobRemoveFails, RemoveVictim,
                StorageRecv, StoragePanic, vars
  <2> QED BY <2>1, <2>2, SameFolder
<1>4. CASE BackupOpen
  <2> DEFINE m == Head(storQ).of
  <2>1. /\ storage = "recv" /\ process = "up" /\ UNCHANGED <<process, leftover>>
        /\ storage' = "dead" \/ (backup'.name = m /\ files' = With(Raw(m)))
    BY <1>4 DEF BackupOpen, StorageRecv, StoragePanic, TypeOK
  <2>2. storQ # <<>> /\ Head(storQ).kind = "BackupDB" BY <1>4 DEF BackupOpen, StorageRecv
  <2>3. m \in Backups BY <2>2, HeadFacts, CommandFacts DEF TypeOK
  <2>4. backup.name = "none" BY <2>1 DEF TypeOK, NoBackup
  <2> HIDE DEF m
  <2>5. ASSUME files' = With(Raw(m)), backup'.name = m PROVE NoStrayCopies'
    <3>1. \A d : InFolder(d)' <=> InFolder(d) \/ d = Raw(m)
      BY <1>1, <2>3, <2>5, WithFacts, EntryFacts
    <3> QED BY <2>1, <2>4, <2>5, <3>1, EntryFacts, NamesAssumption
  <2> QED BY <2>1, <2>5
<1>5. CASE CompressWrite
  <2>1. /\ storage = "writing" /\ process = "up" /\ UNCHANGED <<process, leftover>>
        /\ storage' = "dead" \/ (backup' = backup /\ files' = With(Zst(backup.name)))
    BY <1>5 DEF CompressWrite, StoragePanic, TypeOK
  <2>2. Zst(backup.name) \in Entries BY <2>1, EntryFacts DEF TypeOK
  <2>3. ASSUME files' = With(Zst(backup.name)), backup' = backup PROVE NoStrayCopies'
    <3>1. \A n : InFolder(Raw(n))' <=> InFolder(Raw(n))
      BY <1>1, <2>2, <2>3, WithFacts, EntryFacts
    <3> QED BY <2>1, <2>3, <3>1
  <2> QED BY <2>1, <2>3
<1>6. CASE CompressRemove
  <2>1. /\ storage = "removing" /\ process = "up" /\ UNCHANGED <<process, leftover>>
        /\ storage' = "dead" \/ files' = Without(Raw(backup.name))
    BY <1>6 DEF CompressRemove, StoragePanic, TypeOK
  <2>2. files' = Without(Raw(backup.name)) => NoStrayCopies'
    BY <2>1, WithoutFacts, EntryFacts
  <2> QED BY <2>1, <2>2
<1>7. ASSUME NEW e \in Entries, JobRemoves(e) PROVE Down' /\ NoStrayCopies'
  <2>1. /\ process = "up" /\ UNCHANGED <<process, storage, backup>>
        /\ files' = Without(e) /\ leftover' = {n \in leftover : Raw(n) # e}
    BY <1>7 DEF JobRemoves, RemoveVictim
  <2> QED BY <2>1, WithoutFacts
<1>8. CASE MainExits \/ Killed
  <2>1. ProcessEnds BY <1>8 DEF MainExits, Killed
  <2> QED BY <2>1, SameFolder DEF ProcessEnds
<1>9. CASE Restart
  <2>1. /\ process = "down" /\ process' = "up" /\ UNCHANGED <<files, leftover>>
    BY <1>9 DEF Restart
  <2> QED BY <2>1, SameFolder
<1> QED BY <1>2, <1>3, <1>4, <1>5, <1>6, <1>7, <1>8, <1>9 DEF Next, StorageStep, SchedulerStep

-----------------------------------------------------------------------------
(* Truncations come before backups.                                        *)

LEMMA InitAhead == Init => TruncateAhead
BY EmptyFacts DEF Init, TruncateAhead

LEMMA UntruncatedStep ==
  ASSUME [Next]_vars
  PROVE  \/ untruncated' \subseteq untruncated
         \/ BackupJob /\ \E n \in Backups : ~InUse(n) /\ untruncated' = untruncated \cup {n}
<1>1. CASE BackupJob BY <1>1 DEF BackupJob
<1>2. CASE StorageStep
  BY <1>2 DEF StorageStep, StorageInsert, TruncateOk, TruncateFails, BackupOpen, BackupCopied,
              CompressRead, CompressWrite, CompressRemove
<1>3. CASE SchedulerStep
  BY <1>3 DEF SchedulerStep, SchedulerStart, JobSendsTruncate, JobSendsBackup, JobLists,
              JobVisits, JobEnds, JobRemoves, JobRemoveFails, RemoveVictim
<1>4. CASE \/ Tick \/ ClockSetBack \/ \E r \in Rows : AggregatorSend(r)
           \/ TruncateJob \/ MainExits \/ Killed \/ Restart \/ UNCHANGED vars
  BY <1>4 DEF Tick, ClockSetBack, AggregatorSend, TruncateJob, MainExits, Killed,
              ProcessEnds, Restart, vars
<1> QED BY <1>1, <1>2, <1>3, <1>4 DEF Next

\* A Truncate that is taken from the queue clears the record.
LEMMA ServedStep ==
  ASSUME TypeOK, [Next]_vars, storQ # <<>>, storage = "recv", storQ' = Tail(storQ)
  PROVE  /\ untruncated' \subseteq untruncated
         /\ Head(storQ) = Truncate => untruncated' = {}
<1> USE DEF storageVars
<1>1. storQ \in Seq(Commands) BY DEF TypeOK
<1>2. storQ' # storQ /\ \A c \in Commands : storQ' # Append(storQ, c)
  BY <1>1, TailFacts, AppendFacts
<1>3. CASE TruncateOk \/ TruncateFails BY <1>3 DEF TruncateOk, TruncateFails
<1>4. CASE StorageInsert \/ BackupOpen
  BY <1>4, CommandFacts DEF StorageInsert, BackupOpen, StorageRecv
<1>5. CASE BackupCopied \/ CompressRead \/ CompressWrite \/ CompressRemove
  BY <1>5 DEF BackupCopied, CompressRead, CompressWrite, CompressRemove
<1>6. CASE \/ \E r \in Rows : AggregatorSend(r)
           \/ TruncateJob \/ BackupJob \/ SchedulerStep \/ UNCHANGED vars
  BY <1>2, <1>6, CommandFacts DEF AggregatorSend, TruncateJob, BackupJob, SchedulerStep, SchedulerStart,
              JobSendsTruncate, JobSendsBackup, JobLists, JobVisits, JobEnds, JobRemoves,
              JobRemoveFails, RemoveVictim, Send, vars
<1>7. CASE Tick \/ ClockSetBack \/ MainExits \/ Killed \/ Restart
  BY <1>2, <1>7 DEF Tick, ClockSetBack, MainExits, Killed, ProcessEnds, Restart
<1> QED BY <1>3, <1>4, <1>5, <1>6, <1>7 DEF Next, StorageStep

\* A copy gets its name from the queue.
LEMMA BackupStep ==
  ASSUME TypeOK, [Next]_vars
  PROVE  \/ backup'.name \in {backup.name, "none"}
         \/ /\ storQ # <<>> /\ Head(storQ).kind = "BackupDB" /\ Head(storQ).of = backup'.name
            /\ UNCHANGED untruncated
<1> USE DEF storageVars
<1>1. ASSUME NEW to, SetAges(to) PROVE backup'.name \in {backup.name, "none"}
  BY <1>1 DEF SetAges, NoBackup, TypeOK
<1>2. CASE Tick \/ ClockSetBack BY <1>1, <1>2 DEF Tick, ClockSetBack
<1>3. CASE StorageStep
  BY <1>3 DEF StorageStep, StorageInsert, TruncateOk, TruncateFails, BackupOpen, BackupCopied,
              CompressRead, CompressWrite, CompressRemove, StoragePanic, StorageRecv, NoBackup
<1>4. CASE SchedulerStep
  BY <1>4 DEF SchedulerStep, SchedulerStart, JobSendsTruncate, JobSendsBackup, JobLists,
              JobVisits, JobEnds, JobRemoves, JobRemoveFails, RemoveVictim
<1>5. CASE \/ \E r \in Rows : AggregatorSend(r)
           \/ TruncateJob \/ BackupJob \/ MainExits \/ Killed \/ Restart \/ UNCHANGED vars
  BY <1>5 DEF AggregatorSend, TruncateJob, BackupJob, MainExits, Killed, ProcessEnds, Restart,
              vars, NoBackup
<1> QED BY <1>2, <1>3, <1>4, <1>5 DEF Next

\* Before a job sends its BackupDB, it sends its Truncate.
LEMMA ToBackupStep ==
  ASSUME TypeOK, [Next]_vars, scheduler' = "backup", storage' # "dead"
  PROVE  storage # "dead" /\ (scheduler = "backup" \/ storQ' = Append(storQ, Truncate))
<1> USE DEF storageVars, schedulerVars
<1>1. CASE StorageStep
  BY <1>1 DEF StorageStep, StorageInsert, TruncateOk, TruncateFails, BackupOpen, BackupCopied,
              CompressRead, CompressWrite, CompressRemove, StorageRecv, Served, StoragePanic
<1>2. CASE SchedulerStep
  BY <1>2 DEF SchedulerStep, SchedulerStart, JobSendsTruncate, JobSendsBackup, JobLists,
              JobVisits, JobEnds, JobRemoves, JobRemoveFails, RemoveVictim, Send
<1>3. CASE \/ Tick \/ ClockSetBack \/ \E r \in Rows : AggregatorSend(r)
           \/ TruncateJob \/ BackupJob \/ MainExits \/ Killed \/ Restart \/ UNCHANGED vars
  BY <1>3 DEF Tick, ClockSetBack, AggregatorSend, TruncateJob, BackupJob, MainExits, Killed,
              ProcessEnds, Restart, vars
<1> QED BY <1>1, <1>2, <1>3 DEF Next

LEMMA AheadStep ==
  ASSUME TypeOK, TypeOK', PickedOnce, TruncateAhead, [Next]_vars
  PROVE  TruncateAhead'
<1>1. storQ \in Seq(Commands) /\ storQ' \in Seq(Commands) BY DEF TypeOK
<1>2. untruncated' \subseteq Backups /\ "none" \notin untruncated'
  BY NamesAssumption DEF TypeOK
\* A name that is new in the record is neither queued nor being copied.
<1>3. \A n \in untruncated' : n \in untruncated \/ (BackupJob /\ ~InUse(n))
  BY UntruncatedStep
<1>4. BackupJob => UNCHANGED <<storQ, backup>> BY DEF BackupJob, storageVars
<1>5. \A c \in Commands : storQ' = Append(storQ, c) => storQ' # storQ
  BY <1>1, AppendFacts
<1>6. storQ # <<>> =>
        /\ Head(storQ) = storQ[1] /\ 1 \in 1..Len(storQ)
        /\ Len(storQ) \in Nat /\ Len(Tail(storQ)) = Len(storQ) - 1
        /\ \A i \in 1..Len(Tail(storQ)) : Tail(storQ)[i] = storQ[i + 1]
        /\ Range(storQ) = {Head(storQ)} \cup Range(Tail(storQ))
  BY <1>1, TailFacts
<1>7. backup'.name \notin untruncated'
  <2>1. CASE backup'.name \in {backup.name, "none"}
    BY <1>2, <1>3, <1>4, <2>1 DEF TruncateAhead, InUse
  <2>2. CASE /\ storQ # <<>> /\ Head(storQ).kind = "BackupDB" /\ Head(storQ).of = backup'.name
             /\ UNCHANGED untruncated
    BY <1>6, <2>2 DEF TruncateAhead
  <2> QED BY <2>1, <2>2, BackupStep
<1>8. ASSUME NEW i \in 1..Len(storQ'), storQ'[i].kind = "BackupDB", storQ'[i].of \in untruncated'
      PROVE  \E j \in 1..Len(storQ') : j < i /\ storQ'[j] = Truncate
  <2>1. CASE UNCHANGED storQ
    <3>1. storQ[i] \in Range(storQ) /\ storQ[i] = BackupDB(storQ[i].of)
      BY <1>1, <1>8, <2>1, RangeFacts, CommandFacts
    <3>2. storQ[i].of \in untruncated BY <1>3, <1>8, <2>1, <3>1 DEF InUse
    <3> QED BY <1>8, <2>1, <3>2 DEF TruncateAhead
  <2>2. CASE storQ' = <<>> BY <2>2, EmptyFacts
  <2>3. CASE storQ # <<>> /\ storage = "recv" /\ storQ' = Tail(storQ)
    <3>1. /\ untruncated' \subseteq untruncated /\ Head(storQ) # Truncate
          /\ i + 1 \in 1..Len(storQ) /\ storQ'[i] = storQ[i + 1]
      BY <1>6, <1>8, <2>3, ServedStep
    <3>2. PICK j \in 1..Len(storQ) : j < i + 1 /\ storQ[j] = Truncate
      BY <1>8, <3>1 DEF TruncateAhead
    <3>3. j - 1 \in 1..Len(storQ') /\ j - 1 < i /\ storQ'[j - 1] = Truncate
      BY <1>6, <2>3, <3>1, <3>2
    <3> QED BY <3>3
  <2>4. ASSUME NEW c \in Commands, storQ' = Append(storQ, c), storage # "dead",
               c.kind = "BackupDB" => job # "none" /\ c = BackupDB(job) /\ JobSendsBackup
        PROVE  \E j \in 1..Len(storQ') : j < i /\ storQ'[j] = Truncate
    <3>1. storQ'[i].of \in untruncated BY <1>3, <1>4, <1>5, <1>8, <2>4
    <3>2. /\ Len(storQ) \in Nat /\ Len(storQ') = Len(storQ) + 1
          /\ \A j \in 1..Len(storQ) : storQ'[j] = storQ[j] /\ j \in 1..Len(storQ')
          /\ storQ'[Len(storQ) + 1] = c
      BY <1>1, <2>4, AppendFacts
    <3>3. CASE i \in 1..Len(storQ)
      <4>1. PICK j \in 1..Len(storQ) : j < i /\ storQ[j] = Truncate
        BY <1>8, <3>1, <3>2, <3>3 DEF TruncateAhead
      <4> QED BY <3>2, <4>1
    <3>4. CASE i = Len(storQ) + 1
      <4>1. c = BackupDB(job) /\ scheduler = "backup" /\ job \in untruncated
        BY <1>8, <2>4, <3>1, <3>2, <3>4, CommandFacts DEF JobSendsBackup
      <4>2. Truncate \in Range(storQ) BY <2>4, <4>1 DEF TruncateAhead
      <4>3. PICK j \in 1..Len(storQ) : storQ[j] = Truncate BY <1>1, <4>2, RangeFacts
      <4> QED BY <3>2, <3>4, <4>3
    <3> QED BY <3>2, <3>3, <3>4
  <2> QED BY <2>1, <2>2, <2>3, <2>4, QueueStep
<1>9. ASSUME storage' # "dead", scheduler' = "backup", job' \in untruncated'
      PROVE  Truncate \in Range(storQ')
  <2>1. job' = job /\ ~BackupJob
    <3>1. ~BackupJob BY <1>9 DEF BackupJob
    <3> QED BY <1>2, <1>9, <3>1, JobStep
  <2>2. job \in untruncated BY <1>3, <1>9, <2>1
  <2>3. CASE storQ' = Append(storQ, Truncate)
    BY <1>1, <2>3, CommandFacts, AppendFacts
  <2>4. CASE storage # "dead" /\ scheduler = "backup"
    <3>1. Truncate \in Range(storQ) BY <2>2, <2>4 DEF TruncateAhead
    <3>2. CASE storQ # <<>> /\ storage = "recv" /\ storQ' = Tail(storQ)
      BY <1>6, <1>9, <3>1, <3>2, ServedStep
    <3>3. ASSUME NEW c \in Commands, storQ' = Append(storQ, c) PROVE Truncate \in Range(storQ')
      BY <1>1, <3>1, <3>3, AppendFacts
    <3> QED BY <1>9, <3>1, <3>2, <3>3, QueueStep
  <2> QED BY <1>9, <2>3, <2>4, ToBackupStep
<1> QED BY <1>7, <1>8, <1>9 DEF TruncateAhead

-----------------------------------------------------------------------------
(* As long as the clock is not set back, old is old.                       *)

LEMMA InitOld == Init => OldIsOld
BY DEF Init, OldIsOld

LEMMA BackStep ==
  ASSUME TypeOK, [Next]_vars
  PROVE  back' = 0 => back = 0 /\ ~ClockSetBack
<1>1. ClockSetBack => back' # 0 BY TtlAssumption DEF ClockSetBack, TypeOK
<1>2. StorageStep => UNCHANGED back
  BY DEF StorageStep, StorageInsert, TruncateOk, TruncateFails, BackupOpen, BackupCopied,
              CompressRead, CompressWrite, CompressRemove
<1>3. SchedulerStep => UNCHANGED back
  BY DEF SchedulerStep, SchedulerStart, JobSendsTruncate, JobSendsBackup, JobLists,
              JobVisits, JobEnds, JobRemoves, JobRemoveFails, RemoveVictim
<1>4. \/ Tick \/ \E r \in Rows : AggregatorSend(r)
      \/ TruncateJob \/ BackupJob \/ MainExits \/ Killed \/ Restart \/ UNCHANGED vars
      => UNCHANGED back
  BY DEF Tick, AggregatorSend, TruncateJob, BackupJob, MainExits, Killed, ProcessEnds,
         Restart, vars
<1>5. back' = back \/ ClockSetBack BY <1>2, <1>3, <1>4 DEF Next
<1> QED BY <1>1, <1>5

\* An entry that appears while nothing is called like it is not held to be old.
LEMMA NewEntryIsNew ==
  ASSUME TypeOK, OldIsOld, back = 0, NEW e \in Entries, Absent(e), files' = With(e),
         UNCHANGED <<listing, victim>>
  PROVE  /\ \A f \in files' : (\E d \in listing' : d.old /\ Entry(d) = Entry(f)) \/ Entry(f) = victim'
              => f.age > BackupTtl
         /\ \A f \in files' : Entry(f) = e => f.age = 0
<1>1. \A g \in files' : g \in files \/ (Entry(g) = e /\ g.age = 0)
  <2>1. files \subseteq Files BY DEF TypeOK, Files
  <2> QED BY <2>1, WithFacts
<1>2. \A f \in files' : Entry(f) = e => f.age = 0 BY <1>1 DEF Absent, InFolder
<1> QED BY <1>1, <1>2 DEF OldIsOld, Absent

LEMMA OldStep ==
  ASSUME TypeOK, PickedOnce, OldIsOld, [Next]_vars
  PROVE  OldIsOld'
<1> SUFFICES ASSUME back' = 0 PROVE OldIsOld' BY DEF OldIsOld
<1>1. back = 0 /\ ~ClockSetBack BY BackStep
<1>2. files \subseteq Files /\ \A f \in files : Entry(f) \in Entries /\ Entry(f) # NoEntry
  <2>1. files \subseteq Files BY DEF TypeOK, Files
  <2> QED BY <2>1, FileFacts, EntryFacts
<1>3. \A f, g \in files : Entry(f) = Entry(g) => f = g BY DEF TypeOK
<1> USE DEF storageVars, folderVars, schedulerVars
<1>4. CASE Tick
  <2>1. /\ SetAges(Older) /\ UNCHANGED <<listing, victim>>
        /\ files' = {[f EXCEPT !.age = Older[@]] : f \in files}
    BY <1>4 DEF Tick, SetAges
  <2>2. /\ \A d : InFolder(d)' <=> InFolder(d)
        /\ \A g \in files' : \E f \in files : Entry(g) = Entry(f) /\ g.age = Older[f.age]
    <3>1. PICK to : to = Older /\ files' = {[f EXCEPT !.age = to[@]] : f \in files} BY <2>1
    <3>2. files \subseteq Files /\ files' = {[f EXCEPT !.age = to[@]] : f \in files}
      BY <1>2, <3>1
    <3>3. \A d : InFolder(d)' <=> InFolder(d) BY <3>2, AgedFacts
    <3>4. \A g \in files' : \E f \in files :
            /\ Entry(g) = Entry(f) /\ g.age = to[f.age]
            /\ g = [name |-> f.name, ext |-> f.ext, age |-> to[f.age]]
      BY <3>2, AgedFacts
    <3> QED BY <3>1, <3>3, <3>4
  <2>3. \A f \in files : f.age \in Int /\ Older[f.age] \in Int /\ Older[f.age] >= f.age
    BY <1>2, AgeFacts, FileFacts DEF Ages
  <2>4. ASSUME NEW g \in files',
               (\E d \in listing' : d.old /\ Entry(d) = Entry(g)) \/ Entry(g) = victim'
        PROVE  g.age > BackupTtl
    <3>1. PICK f \in files : Entry(g) = Entry(f) /\ g.age = Older[f.age] BY <2>2
    <3>2. f.age > BackupTtl BY <1>1, <2>1, <2>4, <3>1 DEF OldIsOld
    <3> QED BY <2>3, <3>1, <3>2, TtlAssumption
  <2>5. ASSUME backup' # NoBackup
        PROVE  /\ \A g \in files' : Entry(g) = Raw(backup'.name) => g.age = backup'.age
               /\ backup'.age <= BackupTtl => InFolder(Raw(backup.name))'
               /\ backup'.name = backup.name
    <3>1. backup # NoBackup /\ backup \in [name : Backups, age : Ages]
      BY <2>1, <2>5 DEF SetAges, TypeOK
    <3>2. backup' = [name |-> backup.name, age |-> Older[backup.age]]
      BY <2>1, <3>1 DEF SetAges
    <3>3. backup.age \in Int /\ Older[backup.age] \in Int /\ Older[backup.age] >= backup.age
      BY <3>1, AgeFacts DEF Ages
    <3>4. \A g \in files' : Entry(g) = Raw(backup.name) => g.age = backup'.age
      BY <1>1, <2>2, <3>1, <3>2 DEF OldIsOld
    <3>5. backup'.age <= BackupTtl => InFolder(Raw(backup.name))
      BY <1>1, <3>1, <3>2, <3>3, TtlAssumption DEF OldIsOld
    <3> QED BY <2>2, <3>2, <3>4, <3>5
  <2> QED BY <2>4, <2>5 DEF OldIsOld, InFolder
<1>5. CASE \/ \E r \in Rows : AggregatorSend(r)
           \/ StorageInsert \/ TruncateOk \/ TruncateFails \/ BackupCopied \/ CompressRead
           \/ TruncateJob \/ BackupJob \/ SchedulerStart \/ JobSendsTruncate \/ JobSendsBackup
           \/ JobEnds \/ JobRemoveFails \/ MainExits \/ Killed \/ Restart \/ UNCHANGED vars
  <2>1. /\ UNCHANGED files /\ listing' \subseteq listing /\ victim' \in {victim, NoEntry}
        /\ backup' \in {backup, NoBackup}
    BY <1>5 DEF AggregatorSend, StorageInsert, TruncateOk, TruncateFails, BackupCopied,
                CompressRead, TruncateJob, BackupJob, SchedulerStart, JobSendsTruncate,
                JobSendsBackup, JobEnds, JobRemoveFails, RemoveVictim, MainExits, Killed,
                ProcessEnds, Restart, StorageRecv, StoragePanic, vars
  <2> QED BY <1>1, <1>2, <2>1 DEF OldIsOld, InFolder
<1>6. CASE BackupOpen
  <2>1. storQ # <<>> /\ Head(storQ).kind = "BackupDB" /\ UNCHANGED <<listing, victim>>
    BY <1>6 DEF BackupOpen, StorageRecv
  <2>2. PICK n \in Backups : n = Head(storQ).of /\ Head(storQ) = BackupDB(n)
    BY <2>1, HeadFacts, CommandFacts DEF TypeOK
  <2>3. \/ files' = With(Raw(n)) /\ backup' = [name |-> n, age |-> 0]
        \/ backup' = NoBackup /\ files' \in {files, With(Raw(n))}
    BY <1>6, <2>2 DEF BackupOpen, StoragePanic
  <2>4. Absent(Raw(n)) /\ Raw(n) \in Entries
    <3>1. Head(storQ) \in Range(storQ) BY <2>1, TailFacts DEF TypeOK
    <3> QED BY <2>2, <3>1, EntryFacts DEF PickedOnce, Unused
  <2>5. CASE UNCHANGED files
    <3>1. backup' = NoBackup
      BY <1>2, <2>3, <2>4, <2>5, WithFacts, SameFolder DEF Absent
    <3> QED BY <1>1, <2>1, <2>5, <3>1 DEF OldIsOld
  <2>6. CASE files' = With(Raw(n))
    <3>1. /\ \A f \in files' :
               (\E d \in listing' : d.old /\ Entry(d) = Entry(f)) \/ Entry(f) = victim'
                 => f.age > BackupTtl
          /\ \A f \in files' : Entry(f) = Raw(n) => f.age = 0
      BY <1>1, <2>1, <2>4, <2>6, NewEntryIsNew
    <3>2. InFolder(Raw(n))' BY <1>2, <2>4, <2>6, WithFacts
    <3>3. backup' # NoBackup => backup'.name = n /\ backup'.age = 0 BY <2>3
    <3> QED BY <3>1, <3>2, <3>3 DEF OldIsOld, InFolder
  <2> QED BY <2>3, <2>5, <2>6
<1>7. CASE CompressWrite
  <2>1. storage = "writing" /\ UNCHANGED <<listing, victim>> /\ backup' \in {backup, NoBackup}
    BY <1>7 DEF CompressWrite, StoragePanic
  <2>2. PICK n \in Backups : backup # NoBackup /\ n = backup.name BY <2>1 DEF TypeOK
  <2>3. Absent(Zst(n)) /\ Zst(n) \in Entries BY <2>1, <2>2, EntryFacts DEF PickedOnce
  <2>4. files' \in {files, With(Zst(n))} BY <1>7, <2>2 DEF CompressWrite
  <2>5. CASE UNCHANGED files BY <1>1, <2>1, <2>5 DEF OldIsOld, InFolder
  <2>6. CASE files' = With(Zst(n))
    <3>1. \A f \in files' :
            (\E d \in listing' : d.old /\ Entry(d) = Entry(f)) \/ Entry(f) = victim'
              => f.age > BackupTtl
      BY <1>1, <2>1, <2>3, <2>6, NewEntryIsNew
    <3>2. /\ \A g \in files' : Entry(g) = Raw(n) => g \in files
          /\ InFolder(Raw(n)) => InFolder(Raw(n))'
      <4>1. Raw(n) # Zst(n) BY EntryFacts
      <4> QED BY <1>2, <2>3, <2>6, <4>1, WithFacts
    <3>3. /\ \A g \in files' : Entry(g) = Raw(n) => g.age = backup.age
          /\ backup.age <= BackupTtl => InFolder(Raw(n))'
      BY <1>1, <2>2, <3>2 DEF OldIsOld
    <3> QED BY <2>1, <2>2, <3>1, <3>3 DEF OldIsOld, InFolder
  <2> QED BY <2>4, <2>5, <2>6
<1>8. CASE CompressRemove
  <2>1. files' \subseteq files /\ UNCHANGED <<listing, victim>> /\ backup' = NoBackup
    BY <1>8 DEF CompressRemove, StoragePanic, Without
  <2> QED BY <1>1, <2>1 DEF OldIsOld
<1>9. CASE JobLists
  <2>1. UNCHANGED <<files, backup, victim>> /\ victim = NoEntry
    BY <1>9 DEF JobLists, TypeOK
  <2>2. \A d \in listing' : d \in listing \/ \E f \in files :
          Entry(d) = Entry(f) /\ (d.old => f.age > BackupTtl)
    <3>1. CASE UNCHANGED listing BY <3>1
    <3>2. CASE listing' = {[name |-> f.name, ext |-> f.ext, old |-> f.age > BackupTtl] : f \in files}
      <4> SUFFICES ASSUME NEW d \in listing'
                   PROVE  \E f \in files : Entry(d) = Entry(f) /\ (d.old => f.age > BackupTtl)
        OBVIOUS
      <4>1. PICK f \in files : d = [name |-> f.name, ext |-> f.ext, old |-> f.age > BackupTtl]
        BY <3>2
      <4> DEFINE old == f.age > BackupTtl
      <4>2. d = [name |-> f.name, ext |-> f.ext, old |-> old] /\ (old => f.age > BackupTtl)
        BY <4>1
      <4> HIDE DEF old
      <4>3. Entry(d) = Entry(f) /\ d.old = old BY <4>2 DEF Entry
      <4> QED BY <4>2, <4>3
    <3> QED BY <1>9, <3>1, <3>2 DEF JobLists
  <2> QED BY <1>1, <1>2, <1>3, <2>1, <2>2 DEF OldIsOld, InFolder
<1>10. CASE JobVisits
  <2>1. /\ UNCHANGED <<files, backup>> /\ listing' \subseteq listing
        /\ UNCHANGED victim \/ \E d \in listing : d.old /\ victim' = Entry(d)
    BY <1>10 DEF JobVisits
  <2> QED BY <1>1, <2>1 DEF OldIsOld, InFolder
<1>11. ASSUME NEW e \in Entries, JobRemoves(e) PROVE OldIsOld'
  <2>1. /\ UNCHANGED <<listing, backup>> /\ victim = e /\ victim' = NoEntry
        /\ files' = Without(e)
    BY <1>11 DEF JobRemoves, RemoveVictim
  <2>2. /\ \A d : InFolder(d)' <=> InFolder(d) /\ d # e
        /\ files' \subseteq files
    BY <2>1, WithoutFacts
  <2>3. backup # NoBackup /\ backup.age <= BackupTtl =>
          InFolder(Raw(backup.name)) /\ Raw(backup.name) # e
    <3> SUFFICES ASSUME backup # NoBackup, backup.age <= BackupTtl
                 PROVE  InFolder(Raw(backup.name)) /\ Raw(backup.name) # e
      OBVIOUS
    <3>1. PICK f \in files : Entry(f) = Raw(backup.name) BY <1>1 DEF OldIsOld, InFolder
    <3>2. f.age = backup.age /\ (Entry(f) = victim => f.age > BackupTtl)
      BY <1>1, <3>1 DEF OldIsOld
    <3>3. f.age \in Int BY <1>2, FileFacts DEF Ages
    <3> QED BY <2>1, <3>1, <3>2, <3>3, TtlAssumption DEF InFolder
  <2> QED BY <1>1, <1>2, <2>1, <2>2, <2>3 DEF OldIsOld, InFolder
<1> QED BY <1>1, <1>4, <1>5, <1>6, <1>7, <1>8, <1>9, <1>10, <1>11
    DEF Next, StorageStep, SchedulerStep

-----------------------------------------------------------------------------
(* The theorems.                                                           *)

LEMMA Invariant == Spec => []IInv
<1>1. Init => IInv
  BY InitType, InitNames, InitCopies, InitAhead, InitOld DEF IInv
<1>2. IInv /\ [Next]_vars => IInv'
  <2> SUFFICES ASSUME IInv, [Next]_vars PROVE IInv' OBVIOUS
  <2>1. TypeOK' /\ AgesKnown' BY TypeStep DEF IInv
  <2>2. PickedOnce' BY PickedStep DEF IInv
  <2>3. Down' /\ NoStrayCopies' BY CopiesStep DEF IInv
  <2>4. TruncateAhead' BY <2>1, AheadStep DEF IInv
  <2>5. OldIsOld' BY OldStep DEF IInv
  <2> QED BY <2>1, <2>2, <2>3, <2>4, <2>5 DEF IInv
<1> QED BY <1>1, <1>2, PTL DEF Spec

\* Every state of the two threads, the queue, the table and the folder has its
\* type: a name is in the folder once, a thread between jobs holds nothing.
THEOREM TypeCorrect == Spec => []TypeOK
<1>1. IInv => TypeOK BY DEF IInv
<1> QED BY <1>1, Invariant, PTL

\* Size management is executed before every backup, for any number of names
\* and however long the queue.
THEOREM TruncatesFirst == Spec => []TruncatedBeforeBackup
<1>1. IInv => TruncatedBeforeBackup BY DEF IInv, TruncateAhead, TruncatedBeforeBackup
<1> QED BY <1>1, Invariant, PTL

\* The uncompressed copies in the folder of a live process are the one that is
\* being made and those that an earlier run left.
THEOREM NoStrays == Spec => []NoStrayCopies
<1>1. IInv => NoStrayCopies BY DEF IInv
<1> QED BY <1>1, Invariant, PTL

\* Until the wall clock is first set back, the clean-up leaves the copy that is
\* being made alone for backup_ttl.
THEOREM BackupKept == Spec => [](back = 0 => BackupKeepsItsFile)
<1>1. IInv => (back = 0 => BackupKeepsItsFile) BY DEF IInv, OldIsOld, BackupKeepsItsFile
<1> QED BY <1>1, Invariant, PTL

\* A truncation deletes only rows older than messages_ttl, where the wall clock
\* is never set back: a negative age is not BETWEEN either.
THEOREM FreshRowsKept == Spec /\ [](back = 0) => KeepsFreshRows
<1>1. ASSUME IInv, back = 0, [Next]_vars
      PROVE  [\A r \in table \ table' : rowAge[r] > MsgTtl]_vars
  <2> SUFFICES ASSUME Next, NEW r \in table \ table' PROVE rowAge[r] > MsgTtl
    BY <1>1
  <2>1. rowAge[r] \in Int /\ rowAge[r] >= 0
    BY <1>1, AgeFacts DEF IInv, TypeOK, AgesKnown
  <2>2. TruncateOk
    <3>1. StorageStep /\ ~TruncateOk => table \subseteq table'
      BY DEF StorageStep, StorageInsert, TruncateFails, BackupOpen, BackupCopied, CompressRead,
             CompressWrite, CompressRemove, dataVars
    <3>2. SchedulerStep => table \subseteq table'
      BY DEF SchedulerStep, SchedulerStart, JobSendsTruncate, JobSendsBackup, JobLists,
             JobVisits, JobEnds, JobRemoves, JobRemoveFails, RemoveVictim, dataVars
    <3>3. \/ Tick \/ ClockSetBack \/ \E q \in Rows : AggregatorSend(q)
          \/ TruncateJob \/ BackupJob \/ MainExits \/ Killed \/ Restart
          => table \subseteq table'
      BY DEF Tick, ClockSetBack, AggregatorSend, TruncateJob, BackupJob, MainExits, Killed,
             ProcessEnds, Restart, dataVars
    <3> QED BY <3>1, <3>2, <3>3 DEF Next
  <2> QED BY <2>1, <2>2, TtlAssumption DEF TruncateOk
<1> QED BY <1>1, Invariant, PTL DEF Spec, KeepsFreshRows

\* Under the same condition, the clean-up removes only compressed copies older
\* than backup_ttl, although it judges them by a listing of another moment.
THEOREM FreshCopiesKept == Spec /\ [](back = 0) => KeepsFreshCopies
<1>1. ASSUME IInv, back = 0, [Next]_vars
      PROVE  [\A f \in files : f.ext = "db.zst" /\ f.age <= BackupTtl
               => \E g \in files' : Entry(g) = Entry(f)]_vars
  <2> SUFFICES ASSUME Next, NEW f \in files, f.ext = "db.zst", f.age <= BackupTtl
               PROVE  InFolder(Entry(f))'
    BY <1>1 DEF InFolder
  <2>1. files \subseteq Files /\ InFolder(Entry(f)) /\ f.age \in Int /\ \A n : Entry(f) # Raw(n)
    <3>1. files \subseteq Files BY <1>1 DEF IInv, TypeOK, Files
    <3>2. f.age \in Int BY <3>1, FileFacts DEF Ages
    <3> QED BY <3>1, <3>2 DEF InFolder, Entry, Raw
  <2>2. CASE Tick \/ ClockSetBack
    <3>1. \E to : SetAges(to) BY <2>2 DEF Tick, ClockSetBack
    <3>2. \A d : InFolder(d)' <=> InFolder(d) BY <2>1, <3>1, AgedFacts DEF SetAges
    <3> QED BY <2>1, <3>2 DEF InFolder
  <2>3. CASE StorageStep
    <3>1. \/ files \subseteq files'
          \/ files' = Without(Raw(backup.name))
      BY <2>3 DEF StorageStep, StorageInsert, TruncateOk, TruncateFails, BackupOpen,
                  BackupCopied, CompressRead, CompressWrite, CompressRemove, With, folderVars
    <3> QED BY <2>1, <3>1 DEF InFolder, Without
  <2>4. ASSUME NEW e \in Entries, JobRemoves(e) PROVE InFolder(Entry(f))'
    <3>1. victim = e /\ files' = Without(e) BY <2>4 DEF JobRemoves
    <3>2. Entry(f) # e
      BY <1>1, <2>1, <3>1, TtlAssumption DEF IInv, OldIsOld
    <3> QED BY <3>1, <3>2 DEF InFolder, Without
  <2>5. CASE SchedulerStep /\ ~\E e \in Entries : JobRemoves(e)
    <3>1. UNCHANGED files
      BY <2>5 DEF SchedulerStep, SchedulerStart, JobSendsTruncate, JobSendsBackup, JobLists,
                  JobVisits, JobEnds, JobRemoveFails, RemoveVictim, folderVars
    <3> QED BY <3>1 DEF InFolder
  <2>6. CASE \/ \E r \in Rows : AggregatorSend(r)
             \/ TruncateJob \/ BackupJob \/ MainExits \/ Killed \/ Restart
    <3>1. UNCHANGED files
      BY <2>6 DEF AggregatorSend, TruncateJob, BackupJob, MainExits, Killed, ProcessEnds,
                  Restart, folderVars
    <3> QED BY <3>1 DEF InFolder
  <2> QED BY <2>2, <2>3, <2>4, <2>5, <2>6 DEF Next
<1> QED BY <1>1, Invariant, PTL DEF Spec, KeepsFreshCopies

=============================================================================
