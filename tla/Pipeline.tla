------------------------------ MODULE Pipeline ------------------------------
(***************************************************************************)
(* The delivery core of sts-gateway: what happens to one SendBoth message  *)
(* from the moment a Modbus channel thread sends it until its row is in    *)
(* the sqlite table and its two halves have been published.                *)
(*                                                                         *)
(*   channels --aggQ--> Aggregator --storQ--> SqliteStorage --> stored     *)
(*                          |                    ^                         *)
(*                          |        backup and truncate jobs              *)
(*                          +-----transQ--> MqttTransport --> published    *)
(*                                                                         *)
(* The arrows are std::sync::mpsc channels: unbounded FIFO queues whose    *)
(* receiver is dropped, with everything queued, when its thread dies; a    *)
(* later send then returns an error.  main() blocks in the join of the     *)
(* storage thread and unwraps it, so a panic there ends the process.       *)
(*                                                                         *)
(* Message payloads are abstracted to tickets: ticket n is the n-th        *)
(* message any channel sent (the channel into the aggregator orders them). *)
(***************************************************************************)
EXTENDS Naturals, Sequences, Functions

CONSTANTS
  MaxSent,      \* bound: messages the channels send
  MaxJobs,      \* bound: commands the backup scheduler sends to storage
  MaxRestarts   \* bound: times the binary is started again after it exited

ASSUME BoundsAssumption ==
  /\ MaxSent     \in Nat
  /\ MaxJobs     \in Nat
  /\ MaxRestarts \in Nat

VARIABLES
  process,    \* "up" or "down": the operating-system process
  sent,       \* tickets handed out so far, over all runs of the process
  floor,      \* tickets up to this one were sent before the last exit
  jobs,       \* commands sent by the scheduler so far
  restarts,   \* times the process was started again
  aggQ,       \* aggregator_rx: tickets
  aggPc,      \* "recv", or the send the aggregator is about to make
  aggMsg,     \* the ticket the aggregator is working on
  storQ,      \* storage_rx: SqliteStorageActions
  storage,    \* the storage thread: "opening", "serving" or "dead"
  stored,     \* tickets whose row was committed, in commit order
  written,    \* tickets logged as "Data was writen to storage"
  transQ,     \* transport_rx: TransportActions
  transport,  \* the transport thread, see TransportStates
  outgoing,   \* the TransportAction whose publish it waits for
  published,  \* TransportActions whose publish returned Ok, in order
  reported,   \* the actions an error was logged for
  lost        \* the actions this run dropped with the queue of a thread that died

aggVars       == <<aggQ, aggPc, aggMsg>>
storageVars   == <<storQ, storage, stored, written>>
transportVars == <<transQ, transport, outgoing, published>>
processVars   == <<process, floor, restarts>>
vars == <<processVars, sent, jobs, aggVars, storageVars, transportVars, reported, lost>>

-----------------------------------------------------------------------------
InsertBoth(m)     == [kind |-> "InsertBoth",     msg |-> m]
SendTimeseries(m) == [kind |-> "SendTimeseries", msg |-> m]
SendAttributes(m) == [kind |-> "SendAttributes", msg |-> m]
Truncate          == [kind |-> "Truncate",       msg |-> 0]
BackupDB          == [kind |-> "BackupDB",       msg |-> 0]

StorageActions   == [kind : {"InsertBoth", "Truncate", "BackupDB"}, msg : Nat]
TransportActions == [kind : {"SendTimeseries", "SendAttributes"}, msg : Nat]

StorageStates   == {"opening", "serving", "dead"}
TransportStates == {"creating", "connecting", "serving", "publishing", "dead"}

Init ==
  /\ process = "up" /\ storage = "opening" /\ transport = "creating"
  /\ sent = 0 /\ floor = 0 /\ jobs = 0 /\ restarts = 0
  /\ aggQ = <<>> /\ aggPc = "recv" /\ aggMsg = 0
  /\ storQ = <<>> /\ stored = <<>> /\ written = {}
  /\ transQ = <<>> /\ outgoing = SendTimeseries(0) /\ published = <<>>
  /\ reported = {} /\ lost = {}

-----------------------------------------------------------------------------
(* The channel threads.  The aggregator thread has no way to panic, so its *)
(* receiver lives as long as the process and the send succeeds.            *)

ChannelSend ==
  /\ process = "up"
  /\ sent < MaxSent
  /\ sent' = sent + 1
  /\ aggQ' = Append(aggQ, sent + 1)
  /\ UNCHANGED <<processVars, jobs, aggPc, aggMsg, storageVars, transportVars, reported, lost>>

-----------------------------------------------------------------------------
(* Aggregator::run: receive, then three sends, each of which only logs an  *)
(* error when the receiving thread is gone.                                *)

AggRecv ==
  /\ process = "up"
  /\ aggPc = "recv"
  /\ aggQ # <<>>
  /\ aggMsg' = Head(aggQ)
  /\ aggQ' = Tail(aggQ)
  /\ aggPc' = "InsertBoth"
  /\ UNCHANGED <<processVars, sent, jobs, storageVars, transportVars, reported, lost>>

\* mpsc send of storage action a.
StorageSend(a) ==
  IF storage = "dead"
  THEN /\ reported' = reported \cup {a}
       /\ UNCHANGED storQ
  ELSE /\ storQ' = Append(storQ, a)
       /\ UNCHANGED reported

\* Mutant: a bounded queue, mpsc::sync_channel(1), whose send blocks.
TransportSendBlocks(a) ==
  /\ transport # "dead" /\ Len(transQ) < 1
  /\ transQ' = Append(transQ, a)
  /\ UNCHANGED reported

\* mpsc send of transport action a.
TransportSend(a) ==
  IF transport = "dead"
  THEN /\ reported' = reported \cup {a}
       /\ UNCHANGED transQ
  ELSE /\ transQ' = Append(transQ, a)
       /\ UNCHANGED reported

AggInsert ==
  /\ process = "up"
  /\ aggPc = "InsertBoth"
  /\ StorageSend(InsertBoth(aggMsg))
  /\ aggPc' = "SendTimeseries"
  /\ UNCHANGED <<processVars, sent, jobs, aggQ, aggMsg, storage, stored, written,
                 transportVars, lost>>

\* Mutant: the telemetry need not wait for the send to storage.
AggTimeseriesEarly ==
  /\ process = "up"
  /\ aggPc \in {"InsertBoth", "SendTimeseries"}
  /\ TransportSend(SendTimeseries(aggMsg))
  /\ aggPc' = IF aggPc = "InsertBoth" THEN aggPc ELSE "SendAttributes"
  /\ UNCHANGED <<processVars, sent, jobs, aggQ, aggMsg, storageVars,
                 transport, outgoing, published, lost>>

AggTimeseries ==
  /\ process = "up"
  /\ aggPc = "SendTimeseries"
  /\ TransportSend(SendTimeseries(aggMsg))
  /\ aggPc' = "SendAttributes"
  /\ UNCHANGED <<processVars, sent, jobs, aggQ, aggMsg, storageVars,
                 transport, outgoing, published, lost>>

AggAttributes ==
  /\ process = "up"
  /\ aggPc = "SendAttributes"
  /\ TransportSend(SendAttributes(aggMsg))
  /\ aggPc' = "recv"
  /\ UNCHANGED <<processVars, sent, jobs, aggQ, aggMsg, storageVars,
                 transport, outgoing, published, lost>>

-----------------------------------------------------------------------------
(* The storage thread.                                                     *)

\* Mutant: the receiver outlives the thread, so what is queued stays.
StoragePanicKeepsQueue(queued) ==
  /\ storage' = "dead"
  /\ UNCHANGED <<storQ, lost>>

\* A panic drops the receiver and whatever is queued, of which no line of the
\* log tells.
StoragePanic(queued) ==
  /\ storage' = "dead"
  /\ storQ' = <<>>
  /\ lost' = lost \cup Range(queued)

\* SqliteStorage::new: an error is logged and the thread panics.
StorageOpen ==
  /\ storage = "opening"
  /\ \/ storage' = "serving" /\ UNCHANGED <<storQ, lost>>
     \/ StoragePanic(storQ)
  /\ UNCHANGED <<processVars, sent, jobs, aggVars, stored, written, transportVars, reported>>

\* rx.recv(): the storage thread holds a sender of its own channel, so recv
\* can only block, never fail.
StorageRecv(a) ==
  /\ storage = "serving"
  /\ storQ # <<>>
  /\ a = Head(storQ)

Served == storage' = "serving" /\ storQ' = Tail(storQ) /\ UNCHANGED lost

\* Mutant: a failed BEGIN is ignored without a line in the log.
InsertBeginFailsSilently ==
  /\ Served
  /\ UNCHANGED <<stored, written, reported>>

\* Mutant: after a failed BEGIN the insert is queued again.
InsertBeginFailsRetried ==
  /\ storage' = "serving"
  /\ storQ' = Append(Tail(storQ), Head(storQ))
  /\ UNCHANGED <<stored, written, reported, lost>>

\* The transaction could not be opened: logged, nothing else.
InsertBeginFails ==
  /\ Served
  /\ reported' = reported \cup {Head(storQ)}
  /\ UNCHANGED <<stored, written>>

\* The INSERT failed: logged, and the empty transaction is finished all the
\* same, which logs "Data was writen to storage".
InsertExecuteFails ==
  /\ Served
  /\ reported' = reported \cup {Head(storQ)}
  /\ written' = written \cup {Head(storQ).msg}
  /\ UNCHANGED stored

InsertCommits ==
  /\ Served
  /\ stored' = Append(stored, Head(storQ).msg)
  /\ written' = written \cup {Head(storQ).msg}
  /\ UNCHANGED reported

\* finish() under DropBehavior::Commit rolls back when the commit fails and
\* returns Ok when the rollback works: the row is gone, the log says written.
InsertRollsBack ==
  /\ Served
  /\ written' = written \cup {Head(storQ).msg}
  /\ UNCHANGED <<stored, reported>>

\* Neither commit nor rollback worked: logged, and the thread panics.
InsertFinishFails ==
  /\ StoragePanic(Tail(storQ))
  /\ reported' = reported \cup {Head(storQ)}
  /\ UNCHANGED <<stored, written>>

StorageInsert ==
  /\ StorageRecv(InsertBoth(Head(storQ).msg))
  /\ \/ InsertBeginFails
     \/ InsertExecuteFails
     \/ InsertCommits
     \/ InsertRollsBack
     \/ InsertFinishFails
  /\ UNCHANGED <<processVars, sent, jobs, aggVars, transportVars>>

\* Truncate only ever logs a failure; what it deletes is Maintenance's matter.
StorageTruncate ==
  /\ StorageRecv(Truncate)
  /\ Served
  /\ UNCHANGED <<processVars, sent, jobs, aggVars, stored, written, transportVars, reported>>

\* backup_db(..).unwrap(): every failure of a backup panics the thread.
StorageBackup ==
  /\ StorageRecv(BackupDB)
  /\ Served \/ StoragePanic(Tail(storQ))
  /\ UNCHANGED <<processVars, sent, jobs, aggVars, stored, written, transportVars, reported>>

\* The backup scheduler's thread.  Which of its jobs is due when is left
\* open here; a send to a dead storage thread is logged and dropped.
SchedulerSend ==
  /\ process = "up"
  /\ storage # "dead"
  /\ jobs < MaxJobs
  /\ jobs' = jobs + 1
  /\ \E a \in {Truncate, BackupDB} : storQ' = Append(storQ, a)
  /\ UNCHANGED <<processVars, sent, aggVars, storage, stored, written, transportVars, reported,
                 lost>>

-----------------------------------------------------------------------------
(* The transport thread.                                                   *)

\* AsyncClient::new: an error panics the thread, which nobody joins.
TransportCreate ==
  /\ transport = "creating"
  /\ \/ transport' = "connecting" /\ UNCHANGED <<transQ, lost>>
     \/ transport' = "dead" /\ transQ' = <<>> /\ lost' = lost \cup Range(transQ)
  /\ UNCHANGED <<processVars, sent, jobs, aggVars, storageVars, outgoing, published, reported>>

\* connect(..).wait() is repeated, ten seconds apart, until it succeeds: a
\* failed attempt changes nothing here.
TransportConnect ==
  /\ transport = "connecting"
  /\ transport' = "serving"
  /\ UNCHANGED <<processVars, sent, jobs, aggVars, storageVars, transQ, outgoing, published,
                 reported, lost>>

TransportRecv ==
  /\ transport = "serving"
  /\ transQ # <<>>
  /\ outgoing' = Head(transQ)
  /\ transQ' = Tail(transQ)
  /\ transport' = "publishing"
  /\ UNCHANGED <<processVars, sent, jobs, aggVars, storageVars, published, reported, lost>>

\* Mutant: a failed publish is queued again behind the later ones.
TransportPublishedRetried ==
  /\ transport = "publishing"
  /\ transport' = "serving"
  /\ \/ published' = Append(published, outgoing) /\ UNCHANGED transQ
     \/ transQ' = Append(transQ, outgoing) /\ UNCHANGED published
  /\ UNCHANGED <<processVars, sent, jobs, aggVars, storageVars, outgoing, reported, lost>>

\* publish(msg).wait(): an error is logged and the message is gone.
TransportPublished ==
  /\ transport = "publishing"
  /\ transport' = "serving"
  /\ \/ published' = Append(published, outgoing) /\ UNCHANGED reported
     \/ reported' = reported \cup {outgoing} /\ UNCHANGED published
  /\ UNCHANGED <<processVars, sent, jobs, aggVars, storageVars, transQ, outgoing, lost>>

-----------------------------------------------------------------------------
(* The process.                                                            *)

\* Every thread and every queue goes with the process.
ProcessEnds ==
  /\ process = "up"
  /\ process' = "down"
  /\ floor' = sent
  /\ aggQ' = <<>> /\ aggPc' = "recv" /\ aggMsg' = 0
  /\ storQ' = <<>> /\ storage' = "dead"
  /\ transQ' = <<>> /\ transport' = "dead" /\ outgoing' = SendTimeseries(0)
  /\ lost' = {}
  /\ UNCHANGED <<sent, jobs, restarts, stored, written, published, reported>>

\* main: storage_handle.join().unwrap() panics.
MainExits ==
  /\ storage = "dead"
  /\ ProcessEnds

\* The process is killed, or the power goes, at any moment.
Killed == ProcessEnds

\* The operator, or a service manager, starts the binary again; the sqlite
\* file (stored) and what was published outlived the process.
Restart ==
  /\ process = "down"
  /\ restarts < MaxRestarts
  /\ restarts' = restarts + 1
  /\ process' = "up" /\ storage' = "opening" /\ transport' = "creating"
  /\ UNCHANGED <<floor, sent, jobs, aggVars, storQ, stored, written,
                 transQ, outgoing, published, reported, lost>>

\* The bounds are used up and every thread waits in recv, or the process is
\* down for good.  Anything else that stops is a deadlock.
AtRest ==
  /\ \/ process = "down" /\ restarts = MaxRestarts
     \/ /\ sent = MaxSent /\ aggQ = <<>> /\ aggPc = "recv"
        /\ jobs = MaxJobs /\ storQ = <<>> /\ storage = "serving"
        /\ transQ = <<>> /\ transport \in {"serving", "dead"}
  /\ UNCHANGED vars

-----------------------------------------------------------------------------
AggregatorStep == AggRecv \/ AggInsert \/ AggTimeseries \/ AggAttributes
StorageStep    == StorageOpen \/ StorageInsert \/ StorageTruncate \/ StorageBackup
TransportStep  == TransportCreate \/ TransportConnect \/ TransportRecv \/ TransportPublished

Next ==
  \/ ChannelSend
  \/ AggregatorStep
  \/ StorageStep
  \/ SchedulerSend
  \/ TransportStep
  \/ MainExits
  \/ Killed
  \/ Restart
  \/ AtRest

Spec == Init /\ [][Next]_vars

(***************************************************************************)
(* The aggregator and storage loops run for as long as their threads live  *)
(* and their calls are local, so they keep moving.  The transport's loop   *)
(* does too once it is in recv, but nothing says that creating the client, *)
(* connecting or publishing ever returns: these three get no fairness, nor *)
(* do the channels, the scheduler and whoever restarts the binary.         *)
(***************************************************************************)
Fairness ==
  /\ WF_vars(AggregatorStep)
  /\ WF_vars(StorageStep)
  /\ WF_vars(TransportRecv)
  /\ WF_vars(MainExits)

FairSpec == Spec /\ Fairness

-----------------------------------------------------------------------------
(* Where a ticket can be, for each of the three actions made from it.      *)

AggStages == <<"InsertBoth", "SendTimeseries", "SendAttributes">>

\* The aggregator has not made the send `kind` for ticket m yet.
NotOffered(kind, m) ==
  \/ m \in Range(aggQ)
  \/ m = aggMsg /\ \E i, j \in 1..3 : i <= j /\ aggPc = AggStages[i] /\ kind = AggStages[j]

Queued(a) ==
  \/ a \in Range(storQ)
  \/ a \in Range(transQ)
  \/ transport = "publishing" /\ a = outgoing

\* Finished with: a success or an error was logged.
Settled(a) ==
  \/ a.kind = "InsertBoth" /\ a.msg \in written
  \/ a \in Range(published)
  \/ a \in reported

Receiver(a) == IF a.kind = "InsertBoth" THEN storage ELSE transport

ActionsOf(m) == {InsertBoth(m), SendTimeseries(m), SendAttributes(m)}

-----------------------------------------------------------------------------
(* Properties.                                                             *)

\* Every variable has its type, and a queue whose receiving thread is dead is
\* gone with everything that was in it (an mpsc receiver owns its queue).
TypeOK ==
  /\ process \in {"up", "down"}
  /\ sent \in 0..MaxSent /\ floor \in 0..sent
  /\ jobs \in 0..MaxJobs /\ restarts \in 0..MaxRestarts
  /\ aggQ \in Seq(Nat) /\ aggMsg \in Nat
  /\ aggPc \in {"recv"} \cup Range(AggStages)
  /\ storQ \in Seq(StorageActions) /\ storage \in StorageStates
  /\ stored \in Seq(Nat) /\ written \subseteq Nat
  /\ transQ \in Seq(TransportActions) /\ transport \in TransportStates
  /\ outgoing \in TransportActions /\ published \in Seq(TransportActions)
  /\ reported \cup lost \subseteq StorageActions \cup TransportActions
  /\ storage = "dead" => storQ = <<>>
  /\ transport = "dead" => transQ = <<>>
  /\ process = "down" => aggQ = <<>> /\ storage = "dead" /\ transport = "dead"

\* No message is dropped in silence or handled twice: each of the three actions
\* of a ticket sent in this run of the process is in exactly one place, not yet
\* sent by the aggregator, in its queue, finished with a line in the log, or lost
\* with the queue of its receiver, and lost only if it was in there when that
\* thread died: what is sent to a dead thread is reported (aggregator.rs,
\* storage.rs and transport.rs log every outcome).
NoMessageVanishes ==
  process = "up" =>
    \A m \in floor + 1 .. sent : \A a \in ActionsOf(m) :
      /\ NotOffered(a.kind, m) \/ Queued(a) \/ Settled(a) \/ a \in lost
      /\ NotOffered(a.kind, m) => ~Queued(a) /\ ~Settled(a) /\ a \notin lost
      /\ Queued(a) => ~Settled(a) /\ a \notin lost
      /\ Settled(a) => a \notin lost
      /\ a \in lost => Receiver(a) = "dead"

\* The broker never learns of a message that was not first offered to the
\* local database, whichever of the three threads is behind: the aggregator
\* sends to storage before it sends to transport.
StorageOfferedFirst ==
  \A m \in floor + 1 .. sent :
    NotOffered("InsertBoth", m) =>
      \A a \in {SendTimeseries(m), SendAttributes(m)} : ~Queued(a) /\ ~Settled(a)

\* The database and the broker both see the messages in the order the channels
\* sent them and at most once, telemetry before attributes, across panics,
\* failed calls and restarts: the pipeline implements OrderedDelivery.
Promise == INSTANCE OrderedDelivery
  WITH sent <- sent, stored <- stored, published <- published

DeliversInOrder == Promise!Spec

\* What "Data was writen to storage" (storage.rs:132) says: a row that was
\* logged as written is in the table.
LoggedWrittenIsStored == written \subseteq Range(stored)

\* Storing does not wait for the broker: with no assumption at all on the
\* MQTT client (creating it, connecting or publishing may hang for ever),
\* every message sent is settled by storage or goes down with the process.
StoreProgress ==
  \A m \in 1..MaxSent :
    sent >= m ~> (floor >= m \/ Settled(InsertBoth(m)))

\* As long as the MQTT client's calls return again and again, both halves of
\* every message get published or reported, unless the process ends first or the
\* transport thread dies with them in its queue: no order of arrivals, storage
\* work and backups starves the transport, and no send waits for a dead one.
PublishProgress ==
  []<>(transport \notin {"creating", "connecting", "publishing"}) =>
    \A m \in 1..MaxSent :
      sent >= m ~> \/ floor >= m
                   \/ \A a \in {SendTimeseries(m), SendAttributes(m)} : Settled(a) \/ a \in lost

=============================================================================
