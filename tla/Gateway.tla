------------------------------ MODULE Gateway -------------------------------
(***************************************************************************)
(* The whole process: main starts up (Startup), while the threads it has   *)
(* spawned already do their work (Pipeline).  The channels that feed the   *)
(* pipeline are those that main has started; what they promise about their *)
(* messages is Polling's matter.  main notices the death of the storage    *)
(* thread only when it has come to its join.                               *)
(***************************************************************************)
EXTENDS Naturals, Sequences, Functions

CONSTANTS Channels, MaxSent, MaxJobs, MaxRestarts   \* see Startup and Pipeline

VARIABLES main, at, left, maps, started, found   \* see Startup
VARIABLES
  process, sent, floor, jobs, restarts, aggQ, aggPc, aggMsg, storQ, storage, stored,
  written, transQ, transport, outgoing, published, reported, lost   \* see Pipeline

Main == INSTANCE Startup
Core == INSTANCE Pipeline

ASSUME ChannelsAssumption ==
  Channels \in Seq(Seq(Main!Slaves)) /\ "channel" \notin Main!Slaves

mainVars == <<main, at, left, maps, started, found>>
coreVars == <<process, sent, floor, jobs, restarts, aggQ, aggPc, aggMsg, storQ, storage, stored,
              written, transQ, transport, outgoing, published, reported, lost>>
vars == <<mainVars, coreVars>>

Init == Main!Init /\ Core!Init

-----------------------------------------------------------------------------
\* Mutant: main waits for the thread of a channel, which never ends, when it has
\* started it.
MainStepJoinsChannels ==
  /\ process = "up"
  /\ main = "definitions" => started = {}
  /\ Main!Next
  /\ UNCHANGED coreVars

MainStep ==
  /\ process = "up"
  /\ Main!Next
  /\ UNCHANGED coreVars

\* An unwrap on the root or the logging configuration, or on the spawn of a
\* channel's thread, fails in main, and that ends the process.
MainPanics ==
  /\ main = "root" \/ (main = "maps" /\ left = <<>>)
  /\ Core!ProcessEnds
  /\ Main!Exit

\* Mutant: the joins come in another order, and the aggregator never ends.
MainJoinsAggregatorFirst ==
  /\ main = "join" /\ aggPc = "dead"
  /\ Core!MainExits
  /\ Main!Exit

MainExits ==
  /\ main = "join"
  /\ Core!MainExits
  /\ Main!Exit

\* The process is killed, or the power goes.
Killed == Core!Killed /\ Main!Exit

Restart == Core!Restart /\ Main!Again

-----------------------------------------------------------------------------
(* The threads that main has spawned.  One that has not taken its first    *)
(* step yet is the same as one that is not spawned yet.                    *)

Spawned == main # "root"

AggregatorStep == Spawned /\ Core!AggregatorStep /\ UNCHANGED mainVars
StorageStep    == Spawned /\ Core!StorageStep    /\ UNCHANGED mainVars
SchedulerSend  == Spawned /\ Core!SchedulerSend  /\ UNCHANGED mainVars
TransportStep  == Spawned /\ Core!TransportStep  /\ UNCHANGED mainVars

\* The Report of Polling: some channel that polls any slaves sends a message.
\* One whose thread has died is no different here from one that never sends.
ChannelSend ==
  /\ \E c \in started : c.slaves # {}
  /\ Core!ChannelSend
  /\ UNCHANGED mainVars

\* The process is down for good.
AtRest ==
  /\ process = "down" /\ restarts = MaxRestarts
  /\ UNCHANGED vars

Next ==
  \/ MainStep \/ MainPanics \/ MainExits \/ Killed \/ Restart
  \/ AggregatorStep \/ StorageStep \/ SchedulerSend \/ TransportStep
  \/ ChannelSend
  \/ AtRest

Spec == Init /\ [][Next]_vars

\* Main's own work ends, as does that of the threads that Pipeline is fair to.
Fairness ==
  /\ WF_vars(MainStep) /\ WF_vars(MainExits)
  /\ WF_vars(AggregatorStep) /\ WF_vars(StorageStep)
  /\ WF_vars(TransportStep /\ transport = "serving")

FairSpec == Spec /\ Fairness

-----------------------------------------------------------------------------
(* Properties.                                                             *)

\* Every variable has its type, and main is gone exactly if the process is.
TypeOK ==
  /\ Main!TypeOK
  /\ (main = "exited") <=> (process = "down")

\* See Startup: what main starts, while the threads around it work and die.
StartsWhatItCan == Main!StartsWhatItCan

\* The gateway implements Pipeline, its fairness included: starting up takes
\* nothing from what the pipeline promises, whichever channels there are and
\* whenever the storage thread dies.
ImplementsPipeline == Core!FairSpec

\* The death of the storage thread ends the process, so that a service manager
\* can start it again, also if it comes while main has not reached its join.
StorageDeathEndsProcess == storage = "dead" ~> process = "down"

=============================================================================
