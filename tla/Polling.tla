------------------------------ MODULE Polling -------------------------------
(***************************************************************************)
(* What a Modbus channel promises the rest of the gateway, whichever line  *)
(* it polls over: the slaves get their turns one after the other, and for  *)
(* each turn the aggregator is sent one message.  The message holds        *)
(* readings of register groups of that slave alone: attributes, and after  *)
(* them telemetry, in the order of its register map, each group at most    *)
(* once and possibly with gaps.  A channel whose thread has died stays     *)
(* silent for good.                                                        *)
(***************************************************************************)
EXTENDS Naturals, Sequences

CONSTANT Maps   \* the slaves' register maps in the order of their turns

VARIABLES
  alive,       \* the channel's thread has not panicked
  turn,        \* whose turn it is: an index of Maps
  attributes,  \* names of the attribute groups in the message so far
  timeseries   \* names of the telemetry groups in it, in order

vars == <<alive, turn, attributes, timeseries>>

Init == alive = TRUE /\ turn = 1 /\ attributes = {} /\ timeseries = <<>>

FileAttributes ==
  /\ alive /\ timeseries = <<>>
  /\ \E i \in DOMAIN Maps[turn].attributes :
       attributes' = attributes \cup {Maps[turn].attributes[i].name}
  /\ UNCHANGED <<alive, turn, timeseries>>

\* All that was filed comes earlier in the register map.
FileTimeseries ==
  /\ alive
  /\ LET groups == Maps[turn].timeseries IN
     \E i \in DOMAIN groups :
       /\ \A j \in DOMAIN timeseries : \E k \in 1..i - 1 : timeseries[j] = groups[k].name
       /\ timeseries' = Append(timeseries, groups[i].name)
  /\ UNCHANGED <<alive, turn, attributes>>

Report ==
  /\ alive
  /\ turn' = IF turn = Len(Maps) THEN 1 ELSE turn + 1
  /\ attributes' = {} /\ timeseries' = <<>>
  /\ UNCHANGED alive

Die ==
  /\ alive /\ alive' = FALSE
  /\ UNCHANGED <<turn, attributes, timeseries>>

Next == FileAttributes \/ FileTimeseries \/ Report \/ Die

Spec == Init /\ [][Next]_vars

\* Report can be taken as long as the thread lives, so this is WF_vars(Report).
EveryTurnComes == <>[](alive = TRUE) => []<><<Report>>_vars

FairSpec == Spec /\ EveryTurnComes

=============================================================================
