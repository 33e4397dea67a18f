# sts-gateway in TLA+

sts-gateway polls Modbus slaves over TCP and serial lines, keeps what it reads
in a local sqlite database and publishes it over MQTT. This directory holds
specifications of the program, the TLC configurations that check them on small
instances, and proofs about every one of them that TLAPS checks for every size.

    tlc -workers 2 -config Pipeline.cfg MCPipeline
    tlapm PipelineProofs.tla        also GatewayProofs, MaintenanceProofs, ModbusTcpProofs,
                                    ModbusRtuProofs, QueueFacts, PollingFacts

`PROJECT.json` maps each definition to the lines it models, and lists the runs,
the hazards with the properties that answer them, one mutant per property (an
operator next to the one it replaces, marked "Mutant"), the findings and the
theorems.

## Inventory

All of the program is threads of one process that talk through
`std::sync::mpsc` channels and share the file system.

| component | state | operations | talks to |
|---|---|---|---|
| main (`main.rs:44-246`) | configuration | reads and parses files, creates the channels and threads, blocks in the join of the storage thread | all |
| storage thread (`storage.rs`) | the sqlite connection and file | `new`, `process`: InsertBoth, Truncate, BackupDB | receives from aggregator and scheduler |
| backup and compression (`storage.rs:183-224`) | the backup folder | copy, then in a joined thread read, compress, write, remove | called by storage; shares the folder with the scheduler |
| scheduler (`main.rs:255-350`) | two cron jobs | backup job: Truncate, BackupDB, delete old copies; truncate job: Truncate | sends to storage, reads and removes files |
| aggregator (`aggregator.rs`) | none | stamps a message, sends it to storage, then its two halves to the transport | receives from all channels |
| MQTT transport (`transport.rs`) | the client | create, connect until it works, publish | receives from the aggregator |
| Modbus RTU channel (`rtu.rs`) | the serial port | polls each slave's register groups, one message per slave and round | sends to the aggregator |
| Modbus TCP channel (`tcp.rs`) | the libmodbus context | the same over one connection per slave and round | sends to the aggregator |
| data points (`mod.rs:67-168`) | none | parse one value out of the registers | called by the channels |

What is hard about it, and what makes each part correct:

* **Delivery** (aggregator, storage, transport). Three threads handle one
  message at different paces, each send and each call can fail by itself, the
  storage thread can die with work queued, and its death ends the process. It
  is correct if nothing vanishes without a line in the log, nothing is handled
  twice, storage is offered a message before the broker is, both see the
  messages in the order they were sent, and storage never waits for the broker.
* **Maintenance** (storage, scheduler, compression, clock). Two threads work on
  one folder with no lock, decisions are made on ages that go stale, and either
  side can crash between any two steps. It is correct if nothing fresh is ever
  deleted, everything old is deleted in the end, each copy is made after a
  truncation was tried, and the threads survive each other.
* **Polling** (channels). Answers come late, in pieces, as exceptions or not at
  all. On a serial line the input buffer outlives a request and an answer does
  not say which registers it holds; over TCP the connection is closed after each
  slave, and only libmodbus's recovery opens it again. It is correct if no value
  is filed under another device or register or made up, no clean answer is lost,
  no slave can hold up the others, and readings resume when the other end does.
* **Start** (main). A wrong file or map must cost only what the comments say,
  while the threads that are already spawned work and die.

## Modules

    OrderedDelivery                what the pipeline promises about order
        ^ implemented by
    Pipeline <- MCPipeline         channels -> aggregator -> storage, transport; process
        ^ extended by                   ^ implemented by
    PipelineProofs  (theorems)     Gateway <- MCGateway     the whole process
                                        | composes Pipeline with
                                   Startup                  main up to its join
                                   GatewayProofs (theorems), which extends Gateway
    Maintenance <- MCMaintenance   storage, scheduler, backup folder, wall clock
        ^ extended by
    MaintenanceProofs  (theorems)
    Polling                        what a channel promises
        ^ implemented by
    ModbusRtu <- MCModbusRtu       one RTU channel, its serial port and its slaves
    ModbusTcp <- MCModbusTcp       one TCP channel, libmodbus and the server
        ^ extended by
    ModbusRtuProofs, ModbusTcpProofs  (theorems)

    QueueFacts                     lemmas on Append, Head, Tail, SubSeq: all proofs
    PollingFacts                   lemmas on a register map's polls: both channels' proofs

### Pipeline

A message is a *ticket*: the number of the SendBoth among all that ever entered
the aggregator's queue. The three queues are sequences of tickets or of actions
made from them; `storage`, `transport` and `aggPc` say where each thread stands.
`stored` is the table, `published` what the broker took, `written` and
`reported` the lines in the log that settle an action. `lost` is history: what
was queued for a thread when it died.

* A dead thread's receiver is gone with all that was queued, and a later send to
  it is an error that is logged: `StorageSend`, `TransportSend`, `StoragePanic`.
  So NoMessageVanishes has a place for what went down with a queue, and only
  for that: whatever is sent to a thread that is dead must be reported.
* Every outcome of an insert is a case of its own: BEGIN fails, INSERT fails (the
  transaction is finished all the same), commit, rollback of a failed commit,
  panic (`InsertBeginFails` to `InsertFinishFails`).
* `Restart` starts the binary again: the table and what was published remain,
  `floor` remembers which tickets belong to an earlier run.
* What the scheduler sends is left open here: any number of Truncate and
  BackupDB in any order. The effect of the two on rows and files is Maintenance's.

`OrderedDelivery` is the abstract specification: two sequences, each increasing
in the order the channels sent. `DeliversInOrder` says that Pipeline implements
it, with `sent`, `stored` and `published` as they are.

### Maintenance

The same storage thread, seen from the other side: rows and files with ages
(hours since their creation), the two jobs of the scheduler step by step, and a
backup as five steps (open, copy, read, write, remove). `Tick` ages everything;
`ClockSetBack` makes everything younger, as Utc::now() and SystemTime::now() do
when the wall clock is set back. A listing records for each entry whether it was
older than `older_than`, which the code computes once per listing; the entry
itself is looked at again when it is visited and once more when it is removed,
and in between the storage thread moves. `untruncated` and `leftover` are
history: names picked since a truncation was last tried, and uncompressed copies
an earlier run left.

The scheduler's thread starts anew with the process, and its start may fail
(`SchedulerStart`: a cron expression that does not parse).

### Polling

The abstract channel: whose turn it is, and which register groups are in the
message so far. Attributes come before telemetry, telemetry in the order of the
map and each group once, and `Report` hands the turn on. `ReportsInTurn` says
that ModbusRtu and ModbusTcp implement it, with `alive` being that the thread is
not dead and a message being the names of the groups filed in it. `Gateway` uses
no more of a channel than its Report.

### ModbusRtu

One thread and its slaves. Bytes are counted in units of five, because the code
reads ten and then the rest: an answer of three registers or more is three
units, anything shorter (an exception, one or two registers) is one. `owed` is
what each slave is about to send, `input` the port's buffer, `todo` the register
groups left for this slave, `message` what has been parsed so far. `Arrives`
may happen at any time, so an answer can come before, between and after the
reads of its own poll and of later ones. Each unit carries a label that no code
sees: "current" until the next write; then "late" if none of the answer had
arrived by that write (or the buffer could not be cleared), otherwise "gone".

The two loops of the code are not the same, and neither are they here: the
attributes loop clears the input buffer after each read (`InputAfter`) and skips
a group for which no request can be generated; the timeseries loop does neither
(`AskRefused`).

### ModbusTcp

One thread, its libmodbus context and a server that is "good" (accepts
connections and answers in time) or "bad" (may do anything), and changes between
the two at any time. `selected` is the slave that libmodbus addresses, `link` the
connection, `owed` and `input` the answers on their way and arrived; each knows
whether it answers the request that is waited for, as libmodbus does by its
transaction numbers. `steady` is history: the server has been good ever since a
read returned or the connection was closed.

`flush()` before the requests of the attributes loop and after the good reads of
the timeseries loop may fail, which the code only logs: what has arrived is then
still there (`Flush`). So no answer's absence rests on them; what LateAnswersEnd
says rests on libmodbus's own two flushes and on the closing of the connection.

libmodbus is external and modelled by what its calls do with the two recovery
modes that `tcp.rs:73` sets (`Recovery`): a request that cannot be sent waits
until there is a connection (`Reconnect`), a read that times out or meets an
answer with another number sleeps and flushes (`SleepAndFlush`), one that loses
the connection tries once to open another (`ReadFails`). `set_slave` refuses ids
from 248 to 254, and the program goes on (`Select`).

The data points are here in full: the widths and limits of
`ModbusDataPointReader::parse`, the second check of the attributes loop
(`Tried`), and a buffer that is longer than the answer and zero there
(`MadeUp`).

### Startup and Gateway

`Startup` is main's thread: root configuration, then channel definition by
channel definition and slave by slave, each read finding a file that is right,
unreadable or unparsable. What it finds is chosen at each read, so that files
may be different in the next run, or changed in between. `found` is history,
kept for the definition at hand. That every file is hashed is left out: nothing
but a debug line reads the hashes.

`Gateway` puts Startup and Pipeline together: their variables side by side, each
step one of either, except that the end and the restart of the process are
steps of both, that main exits only from its join, and that messages come from
channels main has started. Threads are spawned together with the end of
`ReadRoot`; one that is spawned later in the code is here one that has not yet
moved. A channel's death is not told apart from its never sending again.

## Runs

| run | bounds | checks |
|---|---|---|
| Pipeline | 2 messages, 1 command, 1 restart | TypeOK, NoMessageVanishes, StorageOfferedFirst, DeliversInOrder, StoreProgress, PublishProgress |
| Maintenance_safety | 1 row, 2 backups, ttls of 1 hour, queue of 3 | TypeOK, TruncatedBeforeBackup, NoStrayCopies, BackupKeepsItsFile, KeepsFreshRows, KeepsFreshCopies |
| Maintenance_liveness | 1 row, 1 backup, ttls of 0 and 1 hour, queue of 2, clock set back once | ExpiredRowsGo, ExpiredCopiesGo |
| Rtu | 2 slaves, 5 register groups, one with an Int16, buffer of 3 units | TypeOK, FiledRight, CleanAnswerCounts, ReportsInTurn, EverySlaveReported |
| Tcp | 3 slaves, 9 register groups, one slave that cannot be selected | TypeOK, FiledUnderItsSlave, NoMadeUpValues, LateAnswersEnd, ReportsInTurn, EverySlaveReported, ReadingsResume |
| Gateway | 2 channels with 2 and 1 slaves, 1 message, 1 command, 1 restart | TypeOK, StartsWhatItCan, ImplementsPipeline, StorageDeathEndsProcess |

*Why these bounds are enough.* Pipeline: two messages are needed for anything
about order and for one to be anywhere while another is ahead of it; a command
can be before, between and after their inserts; a restart puts work on both
sides of a crash. For the safety properties the theorems remove the bounds. Maintenance: a
copy being cleaned up while the next is made takes two names; rows do not affect each other, so one row stands for all; ages from
0 to one above the ttl tell everything apart that the code does. RTU: two
slaves, and for one of them two groups of the same length in each part of its
map, so that an answer can be taken for any other; three units hold one whole
answer, or the pieces of several. TCP: the slave that cannot be selected
has one before and one after it; the groups are of each kind the code tells
apart (data points that fit, lie beyond the answer, at and beyond the end of the
buffer, an Int16 that is skipped and one that is not, a count that is refused),
and what is on its way is bounded by the polls of one slave, since closing the
connection ends it. Gateway: one message is enough because Pipeline is checked
with more; two channels, so that one can be skipped before another.

All runs check for deadlock. All modules but Maintenance have an `AtRest` step
for where the system may stop (bounds used up and every thread in recv; process
down; channel thread dead), so anything else that stops would be reported.

Six more runs show disagreements between the code and what it says; TLC finds
each property violated:

| run | property | the code |
|---|---|---|
| Pipeline_written | LoggedWrittenIsStored | logs "Data was writen to storage" (`storage.rs:132`) after a failed INSERT |
| Maintenance_race | SchedulerSurvives | `metadata().unwrap()` (`main.rs:313`) on a copy the compression thread has just removed kills the scheduler, which `main.rs:237-240` calls essential |
| Maintenance_clock | KeepsFreshRows | deletes the newest rows once the clock is set back (`storage.rs:176`), logged as "Truncating data older than" |
| Rtu_timeout | TimeoutMeansSilence | drops a part of an answer that has arrived (`rtu.rs:191`) and logs a timeout |
| Rtu_int16 | ParseNeverPanics | a declared data type whose parser is `todo!()` (`mod.rs:163`) kills the channel |
| Tcp_slave | CorrectModbusId | reads on after `set_slave` has failed (`tcp.rs:88`) and files the values of the slave before under this one |

What the passing properties say with a condition is a limit of the program, too.
FiledRight excepts a slave slower than the timeout: its answer to one group is
then filed under another group of the same slave. BackupKeepsItsFile excepts a
backup that takes longer than backup_ttl. TruncatedBeforeBackup says tried, not
done: the failure of a truncation is only logged. KeepsFreshRows and
KeepsFreshCopies are checked with a clock that runs forward. FiledUnderItsSlave
and ReadingsResume except a slave whose id is refused, NoMadeUpValues a group
with data points beyond its registers, which are filed as zero. LateAnswersEnd
lets the first poll after a change of the server fail. CleanAnswerCounts is about
answers of three registers or more: the code reads ten bytes before it knows the
length (`rtu.rs:172`), so that an exception, or one or two registers, never fills
them and ends in a logged timeout. EverySlaveReported has, for TCP, the premise
that the server stays well in the end: while it cannot be reached the thread
hangs in libmodbus. StartsWhatItCan says that a register map that cannot be read
only omits its slave; the comment at `main.rs:148-150` ("Either all the register
maps are correct or none of them are", where correct is "a correct yaml format")
leaves open whether it, too, should drop the channel.

## Fairness

* Pipeline: the aggregator and storage loops are local computation and keep
  moving (weak fairness), as does the transport between receiving and calling
  the MQTT client. Creating the client, connecting and publishing wait on the
  network: no fairness. StoreProgress needs none of them; PublishProgress has
  "these calls return again and again" as its premise. Channels, scheduler,
  kills and restarts are not fair either. When storage has died main does exit.
* Maintenance: time passes, storage and a started job keep moving (weak). Each
  cron job comes due again and again and `tick()` runs every job that is due,
  so starting a job is strongly fair; the sends never block, the queue being
  unbounded in the code and bounded only here. A truncation, a listing and the
  removal of a given file may each fail, but not for ever (strong). The
  properties' premise is that both threads stay alive, because each can die.
* ModbusRtu: the thread moves, and every read ends with its bytes, an error or
  the timeout of a second (weak). Nothing is assumed of the slaves.
* ModbusTcp: the thread moves (weak). A connection to a good server is opened,
  and a good server's answers arrive (weak); nothing is assumed of a bad one, so
  that a thread that waits for a connection to it may wait for ever. That the
  server is good in the end is a premise of the properties that need it.
* Gateway: main's reading of files and its exit are local (weak); the other
  threads have the fairness of Pipeline, and ImplementsPipeline includes it.

## Proofs

Each specification has a module of proofs that extends it. The lemmas several
need are in `QueueFacts` and `PollingFacts`.

### Delivery and the start

`PipelineProofs.tla` proves, for all values of MaxSent, MaxJobs and MaxRestarts,

    TypeCorrect      Spec => []TypeOK
    NothingVanishes  Spec => []NoMessageVanishes
    OfferedFirst     Spec => []StorageOfferedFirst
    Implements       Spec => DeliversInOrder

The only assumption is that the bounds are natural numbers. None of the last
three is inductive by itself. The invariant is `IInv`, in parts:

* `TypeOK`;
* `DeadOrder`, `AggregatorOrder`: tickets in aggQ are consecutive and end with
  `sent`, and the one the aggregator holds comes right before them, so the
  aggregator's position alone says which tickets have been offered to whom;
* `StorageOrder`, `TransportOrder`: each queue is strictly increasing, all of it
  after what was stored (published) or settled, and before what is still to be
  offered. Order in time becomes order of numbers: this is what shows that an
  append to `stored` is allowed by OrderedDelivery, and that no action is in two
  places;
* `StorageCovers`, `TransportCovers`: every ticket of this run that has been
  offered is queued or settled while the receiver lives; nothing is in no place;
* `LostOrder`, `LostCovers`: once it is dead, what it was offered is lost or
  settled, never both, and a thread that lives has lost nothing.

The parts that take work have a lemma each (`StorageOrderStep`,
`StorageCoversStep`, `TransportOrderStep`, `TransportCoversStep`,
`LostOrderStep`, `LostCoversStep`), split by action. The
refinement then needs no further invariant: a step appends to `stored` or
`published` something larger than all that is there, adds one to `sent`, or
leaves the three alone. The invariant was first checked by TLC on an instance
with two messages, two commands and two restarts.

`GatewayProofs.tla` proves, for any channel definitions and bounds,

    TypeCorrect      Spec => []TypeOK
    StartsRight      Spec => []StartsWhatItCan
    RefinesPipeline  Spec => Core!Spec

from the assumption that Channels is a sequence of sequences of slaves, none of
which is called "channel". StartsWhatItCan speaks of the moment main is done with
a definition; its inductive invariant, again `IInv`, adds what main has gathered
while it is at one (`Gathered`: the maps it holds are those of the slaves whose
files were right, and none was unparsable), where it is and what it has left
(`Position`), and that only definitions before the one at hand have been started
(`Earlier`), without which a channel started twice could hide. TypeCorrect rests
on it: that the last definition is not passed is not a matter of types. For
RefinesPipeline each action of Gateway is the action of Pipeline of its name, or
leaves Pipeline's variables alone; no invariant is needed.

### Maintenance

`MaintenanceProofs.tla` proves, for any rows and backup names, ttls, queue length
and number of times the clock is set back,

    TypeCorrect      Spec => []TypeOK
    TruncatesFirst   Spec => []TruncatedBeforeBackup
    NoStrays         Spec => []NoStrayCopies
    BackupKept       Spec => [](back = 0 => BackupKeepsItsFile)
    FreshRowsKept    Spec /\ [](back = 0) => KeepsFreshRows
    FreshCopiesKept  Spec /\ [](back = 0) => KeepsFreshCopies

from the assumptions that the ttls and bounds are natural numbers (a negative
ttl is not modelled, see below) and that no backup is called "none". The last
three have `back = 0` because the code needs it: once the wall clock is set back,
each of the three properties can fail, which the run Maintenance_clock shows of
KeepsFreshRows; the run Maintenance_safety checks them with a clock that is not
set back. The invariant
follows a name on its way from the scheduler to its file:

* `PickedOnce`: a name that was picked is in one place, the scheduler's hand or
  the queue, and nothing in the folder, in the listing or about to be removed is
  called so until its copy is opened. Types need this already: a second file of
  that name would break TypeOK, and the clean-up must not be on its way to it;
* `TruncateAhead`: a name that still lacks its truncation has one ahead of it in
  the queue, or, in the scheduler's hand, in the queue at all. It is the position
  that makes TruncatedBeforeBackup inductive;
* `OldIsOld`: what the listing marked old is old *now*, since the clock has not
  been set back, and while a copy is made its file has the age of the backup;
* `AgesKnown`: no age is below minus `back`; the code's BETWEEN deletes no row
  of a negative age, and this says when there is none;
* `Down`: what a process that ended leaves behind.

### The channels

`ModbusTcpProofs.tla` proves, for any register maps and however the server behaves,

    TypeCorrect            Spec => []TypeOK
    ReadFromItsSlave       Spec => []FiledUnderItsSlave
    OnlyRefusedIdsMislead  every id is accepted: Spec => []CorrectModbusId
    NothingMadeUp          Spec => []NoMadeUpValues
    LateAnswersCostOne     Spec => LateAnswersEnd
    Implements             Spec => ReportsInTurn

and `ModbusRtuProofs.tla`, for any register maps and an input buffer of any size
that holds an answer, however slow or confused the slaves are,

    TypeCorrect            Spec => []TypeOK
    AnswersFiledRight      Spec => []FiledRight
    CleanAnswersCount      Spec => []CleanAnswerCounts
    OnlyInt16Panics        no group has an Int16: Spec => ParseNeverPanics
    Implements             Spec => ReportsInTurn

OnlyRefusedIdsMislead and OnlyInt16Panics bound two of the findings: the run
Tcp_slave violates CorrectModbusId, Rtu_int16 violates ParseNeverPanics, and the
theorems say that nothing else could.

The assumptions, MapsAssumption of each module, are what the configuration and
the abstraction give: at least one slave, no two of the same id (the maps are
keyed by it), and for TCP no two groups of a slave with one name, a group's name
being how the model tells places in the map apart; the code has no names. For RTU
an answer has 0, 1 or LongLen units. The theorems keep one bound of the RTU
model: a slave owes one answer at a time.

Both invariants have `InOrder` (what telemetry is in the message comes from polls
before the current one), from which an append is one that Polling allows: i - 1
polls done and the group at i is past all that was filed. TCP adds `OwnTurn`: a
message is empty until its slave was selected, and the polls of a slave that
could be selected go to it; `LastCurrent`: only the last answer on the connection
can be to the last request; and `SteadyLine`: while the server is steady, that
answer is alone there, and nothing is while the thread does not wait. RTU adds
what the labels mean, which is why a late unit can do no more harm than FiledRight
says:

* `GoneHeadless`: the beginning of an answer that is gone was cleared, so no unit
  of it is a first one, and a response whose first unit is none is refused;
* `CurrentAsked`: what is current on the line answers the poll at hand;
* `QuietLine`: while nothing else is on the line, `head` and `input` together are
  the beginning of the answer, and its slave goes on where they end. Moving bytes
  from one to the other changes nothing: the reads may cut it anywhere. Of the
  attributes loop it is false, which clears the input between the reads.

The proof of each part is a lemma of its own (`LineStep`, `GoneStep`,
`CurrentStep`, `QuietStep`, `TurnInvStep`), over a lemma that says what
the steps do to that part of the state (`StepKinds`, `TurnStep`) and one for
each kind of step (`AskFacts`, `ArrivesFacts`, `ReadFacts`, `FileFacts`).

TLC has checked each inductive invariant on an instance, too (2,500 states for
TCP, 1.6 million for RTU with a buffer of four units, 340,000 for Maintenance).

### Only model-checked

The liveness properties (StoreProgress, PublishProgress, ExpiredRowsGo,
ExpiredCopiesGo, EverySlaveReported, ReadingsResume, StorageDeathEndsProcess),
so also the fairness half of ImplementsPipeline, of which RefinesPipeline proves
the steps: TLAPS proves nothing about fairness or ENABLED here. All invariants,
action properties and refinements of the passing runs are proved, as far as they
are about steps.

## Not modelled, and why

* Yaml, hashing, logging, JSON texts, SQL and zstd: data the properties do not
  tell apart. A failure of each is an outcome of the step that uses it.
* The paho client's own buffer, reconnects and QoS, sqlite, libmodbus and the
  serial driver: outside the repository; their calls are steps with every outcome
  the code handles, a failing flush() or clear() of the channels' input included.
* Memory: the queues are unbounded in the code and nothing says when they fail.
* A kernel or file system without creation times: no copy is ever removed there
  (`main.rs:315`), so ExpiredCopiesGo holds only where they are kept.
* Negative ttls: `backup_ttl as u64` (`main.rs:305`) panics the scheduler's thread
  in its first clean-up, a negative messages_ttl deletes every row. No document
  says what they should do.
* Files in the backup folder that are no backups: the clean-up removes them like
  any other (`main.rs:317`), the database included if it is there.
* `status()` of the channels and the storage actions that are never constructed
  (InsertAttributes, InsertTimeseries, CloseDB, Timeout).

## Plan

Done: Pipeline, Maintenance, Polling, ModbusRtu, ModbusTcp, Startup, Gateway, each
with its proofs.

1. Proofs: that SchedulerSurvives holds but for the race that Maintenance_race
   shows; what a turn of a channel reports, from Polling alone.
2. Composition of Pipeline and Maintenance over one storage thread.
