------------------------------ MODULE Startup -------------------------------
(***************************************************************************)
(* The main thread from the start of the process to the join it waits in:  *)
(* it reads the root configuration, spawns the storage, transport and      *)
(* aggregator threads, and then goes through the channel definitions one   *)
(* by one, reads the channel's file and the register maps of its slaves,   *)
(* and starts the channel or goes on to the next.                          *)
(*                                                                         *)
(* A file is read once per mention, and between two reads it may have been *)
(* changed: what a read finds is left open each time.                      *)
(***************************************************************************)
EXTENDS Naturals, Sequences, Functions

CONSTANT Channels   \* config.channels: the sequence of slaves in each one's file

VARIABLES
  main,     \* see States
  at,       \* the channel definition that main works on: an index of Channels
  left,     \* its slaves whose register maps were not read yet
  maps,     \* register_maps: its slaves whose maps were read and parsed
  started,  \* channel_handles: the channels that were started
  found     \* what was found by the reads for the definition at hand or just done with

vars == <<main, at, left, maps, started, found>>

\* "exited" is the state of a process that is not running.
States == {"root", "definitions", "maps", "join", "exited"}

Slaves == UNION {Range(slaves) : slaves \in Range(Channels)}

\* What comes of opening and parsing a file.
Outcomes == {"right", "unreadable", "unparsable"}

\* Of the channel's own file, or of the register map of a slave.
Files == {"channel"} \cup Slaves

Found(file, outcome) == [file |-> file, outcome |-> outcome]

Init ==
  /\ main = "root" /\ at = 1 /\ left = <<>> /\ maps = {}
  /\ started = {} /\ found = {}

-----------------------------------------------------------------------------
\* read_file(), from_str() and log4rs::init_file(), each unwrapped, work.
ReadRoot ==
  /\ main = "root"
  /\ main' = "definitions"
  /\ UNCHANGED <<at, left, maps, started, found>>

\* Mutant: one register_maps for all channels.
NextDefinitionKeepsMaps ==
  /\ main' = "definitions" /\ at' = at + 1
  /\ left' = <<>> /\ UNCHANGED maps

\* `continue` with the next channel definition.
NextDefinition ==
  /\ main' = "definitions" /\ at' = at + 1
  /\ left' = <<>> /\ maps' = {}

ReadDefinition ==
  /\ main = "definitions" /\ at <= Len(Channels)
  /\ \E outcome \in Outcomes :
       /\ found' = {Found("channel", outcome)}
       /\ IF outcome = "right"
          THEN main' = "maps" /\ left' = Channels[at] /\ UNCHANGED <<at, maps>>
          ELSE NextDefinition
  /\ UNCHANGED started

OmitSlave == left' = Tail(left) /\ UNCHANGED <<main, at, maps>>

\* Mutant: a register map that cannot be parsed only omits its slave.
ReadMapOmits ==
  /\ main = "maps" /\ left # <<>>
  /\ \E outcome \in Outcomes :
       /\ found' = found \cup {Found(Head(left), outcome)}
       /\ IF outcome = "right"
          THEN maps' = maps \cup {Head(left)} /\ left' = Tail(left) /\ UNCHANGED <<main, at>>
          ELSE OmitSlave
  /\ UNCHANGED started

\* A map that cannot be read omits its slave, one that cannot be parsed makes
\* main skip the channel.
ReadMap ==
  /\ main = "maps" /\ left # <<>>
  /\ \E outcome \in Outcomes :
       /\ found' = found \cup {Found(Head(left), outcome)}
       /\ CASE outcome = "right" -> /\ maps' = maps \cup {Head(left)} /\ left' = Tail(left)
                                    /\ UNCHANGED <<main, at>>
            [] outcome = "unreadable" -> OmitSlave
            [] outcome = "unparsable" -> NextDefinition
  /\ UNCHANGED started

\* The channel's thread is spawned with the maps, be they none at all.
StartChannel ==
  /\ main = "maps" /\ left = <<>>
  /\ started' = started \cup {[at |-> at, slaves |-> maps]}
  /\ NextDefinition
  /\ UNCHANGED found

Join ==
  /\ main = "definitions" /\ at > Len(Channels)
  /\ main' = "join" /\ found' = {}
  /\ UNCHANGED <<at, left, maps, started>>

Next == ReadRoot \/ ReadDefinition \/ ReadMap \/ StartChannel \/ Join

\* The process ends, or starts again.
Exit ==
  /\ main' = "exited" /\ at' = 1 /\ left' = <<>> /\ maps' = {}
  /\ started' = {} /\ found' = {}

Again ==
  /\ main = "exited"
  /\ main' = "root"
  /\ UNCHANGED <<at, left, maps, started, found>>

-----------------------------------------------------------------------------
TypeOK ==
  /\ main \in States /\ at \in 1..Len(Channels) + 1
  /\ maps \subseteq Slaves
  /\ main = "maps" => \E i \in 1..Len(Channels[at]) + 1 :
                        left = SubSeq(Channels[at], i, Len(Channels[at]))
  /\ main # "maps" => left = <<>> /\ maps = {}
  /\ started \subseteq [at : 1..Len(Channels), slaves : SUBSET Slaves]
  /\ found \subseteq [file : Files, outcome : Outcomes]
  /\ main \in {"root", "exited"} => started = {} /\ found = {}

\* A wrong file costs what main.rs:132, 148 and 168 say and no more: when main
\* is through with a definition, its channel runs exactly if the channel's file
\* and every register map that could be read could be parsed, and then it polls
\* exactly the slaves whose maps could be read, whatever went wrong with the
\* definitions before it.
StartsWhatItCan ==
  main = "definitions" /\ at > 1 =>
    LET done == at - 1
        wanted == /\ Found("channel", "right") \in found
                  /\ \A s \in Slaves : Found(s, "unparsable") \notin found
        right == {s \in Range(Channels[done]) : Found(s, "right") \in found}
    IN {c \in started : c.at = done} = IF wanted THEN {[at |-> done, slaves |-> right]} ELSE {}

=============================================================================
