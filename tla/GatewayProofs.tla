--------------------------- MODULE GatewayProofs ----------------------------
(***************************************************************************)
(* Proofs about Gateway, for any channel definitions and bounds: its type  *)
(* invariant, that main starts exactly the channels and slaves it should,  *)
(* and that every step of the gateway is one of Pipeline's or leaves its   *)
(* variables alone.                                                        *)
(*                                                                         *)
(* StartsWhatItCan says what is found once a definition is done with; the  *)
(* inductive invariant adds what main has gathered while it is at one.     *)
(***************************************************************************)
EXTENDS Gateway, QueueFacts

Found(file, outcome) == Main!Found(file, outcome)

\* While main reads the maps of a definition, its file was right, no map was
\* unparsable, and register_maps holds the slaves whose maps were right.
Gathered ==
  main = "maps" =>
    /\ Found("channel", "right") \in found
    /\ \A s \in Main!Slaves : Found(s, "unparsable") \notin found
    /\ maps = {s \in Range(Channels[at]) : Found(s, "right") \in found}

\* main's position and what it has left.
Position ==
  /\ main \in Main!States /\ at \in 1..Len(Channels) + 1
  /\ left \in Seq(Main!Slaves)
  /\ main = "maps" => at <= Len(Channels) /\ Range(left) \subseteq Range(Channels[at])
  /\ main # "maps" => left = <<>> /\ maps = {}
  /\ main \in {"root", "exited"} => at = 1
  /\ maps \subseteq Main!Slaves

\* Only definitions before the one at hand have been started.
Earlier == \A c \in started : c.at \in Nat /\ c.at < at

IInv == Position /\ Gathered /\ Earlier /\ StartsWhatItCan

-----------------------------------------------------------------------------
LEMMA ChannelFacts ==
  ASSUME NEW i \in 1..Len(Channels)
  PROVE  Channels[i] \in Seq(Main!Slaves) /\ Range(Channels[i]) \subseteq Main!Slaves
BY ChannelsAssumption DEF Range

LEMMA InitInv == Init => IInv
<1> SUFFICES ASSUME Init PROVE IInv OBVIOUS
<1> USE DEF Init, Main!Init
<1>1. Position
  BY ChannelsAssumption DEF Position, Main!States
<1> QED BY <1>1 DEF IInv, Gathered, Earlier, StartsWhatItCan, Main!StartsWhatItCan

\* main's own steps, one by one.
LEMMA MainStepInv == IInv /\ Main!Next => IInv'
<1> SUFFICES ASSUME IInv, Main!Next PROVE IInv' OBVIOUS
<1> USE DEF IInv, Found
<1>1. CASE Main!ReadRoot
  BY <1>1 DEF Main!ReadRoot, Position, Gathered, Earlier, StartsWhatItCan,
              Main!StartsWhatItCan, Main!States
<1>2. CASE Main!ReadDefinition
  <2> USE <1>2 DEF Main!ReadDefinition
  <2>1. PICK outcome \in Main!Outcomes :
          /\ found' = {Main!Found("channel", outcome)}
          /\ IF outcome = "right"
             THEN main' = "maps" /\ left' = Channels[at] /\ UNCHANGED <<at, maps>>
             ELSE Main!NextDefinition
    OBVIOUS
  <2>2. at \in 1..Len(Channels) BY DEF Position
  <2>3. CASE outcome = "right"
    <3>1. maps = {} BY DEF Position
    <3>2. Position'
      BY <2>1, <2>2, <2>3, <3>1, ChannelFacts DEF Position, Main!States
    <3>3. Gathered'
      BY <2>1, <2>2, <2>3, <3>1, ChannelFacts, ChannelsAssumption DEF Gathered, Main!Found
    <3> QED BY <2>1, <2>3, <3>2, <3>3
            DEF Earlier, StartsWhatItCan, Main!StartsWhatItCan
  <2>4. CASE outcome # "right"
    <3> USE <2>1, <2>4 DEF Main!NextDefinition
    <3>1. Position' BY <2>2 DEF Position, Main!States
    <3>2. Gathered' /\ Earlier' BY <2>2 DEF Gathered, Earlier
    <3>3. Found("channel", "right") \notin found' BY DEF Main!Found
    <3>4. {c \in started : c.at = at} = {} BY <2>2 DEF Earlier
    <3>5. at' - 1 = at /\ started' = started BY <2>2
    <3>6. StartsWhatItCan'
      BY <3>3, <3>4, <3>5 DEF StartsWhatItCan, Main!StartsWhatItCan
    <3> QED BY <3>1, <3>2, <3>6
  <2> QED BY <2>3, <2>4
<1>3. CASE Main!ReadMap
  <2> DEFINE s == Head(left)
  <2>1. PICK outcome \in Main!Outcomes :
          /\ found' = found \cup {Main!Found(s, outcome)}
          /\ CASE outcome = "right" -> /\ maps' = maps \cup {s} /\ left' = Tail(left)
                                       /\ UNCHANGED <<main, at>>
               [] outcome = "unreadable" -> Main!OmitSlave
               [] outcome = "unparsable" -> Main!NextDefinition
    BY <1>3 DEF Main!ReadMap
  <2>2. main = "maps" /\ left # <<>> /\ started' = started BY <1>3 DEF Main!ReadMap
  <2>3. at \in 1..Len(Channels) BY <2>2 DEF Position
  <2>4. /\ Tail(left) \in Seq(Main!Slaves) /\ s \in Main!Slaves
        /\ s \in Range(Channels[at]) /\ Range(Tail(left)) \subseteq Range(Channels[at])
    BY <2>2, TailFacts DEF Position
  <2>5. s # "channel" BY <2>4, ChannelsAssumption
  <2> HIDE DEF s
  <2>6. CASE outcome = "right"
    <3> USE <2>1, <2>2, <2>6
    <3>1. Position' BY <2>3, <2>4 DEF Position
    <3>2. Gathered' BY <2>4, <2>5 DEF Gathered, Main!Found
    <3> QED BY <3>1, <3>2 DEF Earlier, StartsWhatItCan, Main!StartsWhatItCan
  <2>7. CASE outcome = "unreadable"
    <3> USE <2>1, <2>2, <2>7 DEF Main!OmitSlave
    <3>1. Position' BY <2>3, <2>4 DEF Position
    <3>2. Gathered' BY <2>4, <2>5 DEF Gathered, Main!Found
    <3> QED BY <3>1, <3>2 DEF Earlier, StartsWhatItCan, Main!StartsWhatItCan
  <2>8. CASE outcome = "unparsable"
    <3> USE <2>1, <2>2, <2>8 DEF Main!NextDefinition
    <3>1. Position' BY <2>3 DEF Position, Main!States
    <3>2. Gathered' /\ Earlier' BY <2>3 DEF Gathered, Earlier
    <3>3. Found(s, "unparsable") \in found' BY DEF Main!Found
    <3>4. {c \in started : c.at = at} = {} BY <2>3 DEF Earlier
    <3>5. at' - 1 = at BY <2>3
    <3>6. StartsWhatItCan'
      BY <2>4, <3>3, <3>4, <3>5 DEF StartsWhatItCan, Main!StartsWhatItCan
    <3> QED BY <3>1, <3>2, <3>6
  <2> QED BY <2>6, <2>7, <2>8 DEF Main!Outcomes
<1>4. CASE Main!StartChannel
  <2> USE <1>4 DEF Main!StartChannel, Main!NextDefinition
  <2>1. at \in 1..Len(Channels) /\ at' - 1 = at BY DEF Position
  <2>2. Position' BY <2>1 DEF Position, Main!States
  <2>3. Gathered' /\ Earlier' BY <2>1 DEF Gathered, Earlier
  <2>4. {c \in started' : c.at = at} = {[at |-> at, slaves |-> maps]}
    BY <2>1 DEF Earlier
  <2>5. StartsWhatItCan'
    <3>1. maps = {s \in Main!Range(Channels[at]) : Main!Found(s, "right") \in found}
      BY DEF Gathered, Range, Main!Range
    <3>2. /\ Main!Found("channel", "right") \in found
          /\ \A s \in Main!Slaves : Main!Found(s, "unparsable") \notin found
      BY DEF Gathered
    <3>3. found' = found /\ at' - 1 = at BY <2>1
    <3> HIDE <1>4
    <3> QED BY <2>4, <3>1, <3>2, <3>3 DEF StartsWhatItCan, Main!StartsWhatItCan
  <2> QED BY <2>2, <2>3, <2>5
<1>5. CASE Main!Join
  BY <1>5 DEF Main!Join, Position, Gathered, Earlier, StartsWhatItCan,
              Main!StartsWhatItCan, Main!States
<1> QED BY <1>1, <1>2, <1>3, <1>4, <1>5 DEF Main!Next

\* Main's variables change with main's steps, the end of the process and its
\* restart, and with nothing else.
LEMMA MainChanges == [Next]_vars => Main!Next \/ Main!Exit \/ Main!Again \/ UNCHANGED mainVars
BY DEF Next, vars, MainStep, MainPanics, MainExits, Killed, Restart, AggregatorStep,
       StorageStep, SchedulerSend, TransportStep, ChannelSend, AtRest

LEMMA StepInv == IInv /\ [Next]_vars => IInv'
<1> SUFFICES ASSUME IInv, [Next]_vars PROVE IInv' OBVIOUS
<1> USE DEF IInv
<1>1. CASE Main!Exit
  BY <1>1, ChannelsAssumption
  DEF Main!Exit, Position, Gathered, Earlier, StartsWhatItCan, Main!StartsWhatItCan, Main!States
<1>2. CASE Main!Again
  BY <1>2 DEF Main!Again, Position, Gathered, Earlier, StartsWhatItCan,
              Main!StartsWhatItCan, Main!States
<1>3. CASE UNCHANGED mainVars
  BY <1>3 DEF mainVars, Position, Gathered, Earlier, StartsWhatItCan, Main!StartsWhatItCan
<1> QED BY <1>1, <1>2, <1>3, MainStepInv, MainChanges

\* Whatever is wrong with the files of the other definitions, main starts the
\* channel of a definition exactly if its file and its maps could be parsed, and
\* with exactly the slaves whose maps could be read.
THEOREM StartsRight == Spec => []StartsWhatItCan
<1>1. IInv => StartsWhatItCan BY DEF IInv
<1> QED BY <1>1, InitInv, StepInv, PTL DEF Spec

-----------------------------------------------------------------------------
LEMMA InitType == Init => TypeOK
BY ChannelsAssumption DEF Init, Main!Init, Core!Init, TypeOK, Main!TypeOK, Main!States

LEMMA MainStepType == IInv /\ Main!TypeOK /\ Main!Next => Main!TypeOK' /\ main' # "exited"
<1> SUFFICES ASSUME IInv, Main!TypeOK, Main!Next PROVE Main!TypeOK' /\ main' # "exited" OBVIOUS
<1> USE DEF IInv, Main!TypeOK, Main!States, Main!Files, Main!Found
<1>1. CASE Main!ReadRoot
  BY <1>1 DEF Main!ReadRoot
<1>2. CASE Main!ReadDefinition
  <2>1. at \in 1..Len(Channels) BY <1>2 DEF Main!ReadDefinition
  <2>2. Channels[at] = SubSeq(Channels[at], 1, Len(Channels[at]))
        /\ 1 \in 1..Len(Channels[at]) + 1
    BY <2>1, ChannelFacts, WholeFacts
  <2> QED BY <1>2, <2>1, <2>2 DEF Main!ReadDefinition, Main!NextDefinition
<1>3. CASE Main!ReadMap
  <2>1. main = "maps" /\ at \in 1..Len(Channels) BY <1>3 DEF Main!ReadMap, Position
  <2>2. Head(left) \in Main!Slaves BY <1>3, TailFacts DEF Main!ReadMap, Position
  <2>3. \E i \in 1..Len(Channels[at]) + 1 : Tail(left) = SubSeq(Channels[at], i, Len(Channels[at]))
    <3>1. PICK i \in 1..Len(Channels[at]) + 1 : left = SubSeq(Channels[at], i, Len(Channels[at]))
      BY <2>1
    <3>2. i <= Len(Channels[at]) /\ Tail(left) = SubSeq(Channels[at], i + 1, Len(Channels[at]))
      <4>1. left # <<>> BY <1>3 DEF Main!ReadMap
      <4>2. PICK slaves \in Seq(Main!Slaves) : slaves = Channels[at] BY <2>1, ChannelFacts
      <4>3. i \in 1..Len(slaves) + 1 /\ SubSeq(slaves, i, Len(slaves)) # <<>> BY <3>1, <4>1, <4>2
      <4>4. i \in 1..Len(slaves) /\ Tail(SubSeq(slaves, i, Len(slaves))) = SubSeq(slaves, i + 1, Len(slaves))
        BY <4>3, RestFacts
      <4>5. i <= Len(slaves) BY <4>4
      <4> QED BY <3>1, <4>2, <4>4, <4>5
    <3>3. i + 1 \in 1..Len(Channels[at]) + 1 BY <2>1, <3>2, ChannelFacts
    <3> QED BY <3>2, <3>3
  <2>4. found' \subseteq [file : Main!Files, outcome : Main!Outcomes]
    BY <1>3, <2>2 DEF Main!ReadMap
  <2>5. \/ UNCHANGED <<main, at>> /\ left' = Tail(left) /\ maps' \subseteq maps \cup {Head(left)}
        \/ Main!NextDefinition
    BY <1>3 DEF Main!ReadMap, Main!OmitSlave, Main!Outcomes
  <2>6. UNCHANGED started BY <1>3 DEF Main!ReadMap
  <2>7. CASE Main!NextDefinition
    BY <2>1, <2>4, <2>6, <2>7 DEF Main!NextDefinition
  <2>8. CASE UNCHANGED <<main, at>> /\ left' = Tail(left) /\ maps' \subseteq maps \cup {Head(left)}
    BY <2>1, <2>2, <2>3, <2>4, <2>6, <2>8
  <2> QED BY <2>5, <2>7, <2>8
<1>4. CASE Main!StartChannel
  BY <1>4 DEF Main!StartChannel, Main!NextDefinition, Position
<1>5. CASE Main!Join
  BY <1>5 DEF Main!Join
<1> QED BY <1>1, <1>2, <1>3, <1>4, <1>5 DEF Main!Next

LEMMA StepType == IInv /\ TypeOK /\ [Next]_vars => TypeOK'
<1> SUFFICES ASSUME IInv, TypeOK, [Next]_vars PROVE TypeOK' OBVIOUS
<1> USE DEF TypeOK
<1>1. CASE MainStep
  <2>1. UNCHANGED process BY <1>1 DEF MainStep, coreVars
  <2> QED BY <1>1, <2>1, MainStepType DEF MainStep
<1>2. CASE MainPanics \/ MainExits \/ Killed
  <2>1. Main!Exit /\ process' = "down"
    BY <1>2 DEF MainPanics, MainExits, Killed, Core!MainExits, Core!Killed, Core!ProcessEnds
  <2> QED BY <2>1, ChannelsAssumption DEF Main!Exit, Main!TypeOK, Main!States
<1>3. CASE Restart
  <2>1. Main!Again /\ process' = "up" BY <1>3 DEF Restart, Core!Restart
  <2> QED BY <2>1 DEF Main!Again, Main!TypeOK, Main!States
<1>4. CASE UNCHANGED mainVars /\ UNCHANGED process
  BY <1>4 DEF mainVars, Main!TypeOK
<1>5. AggregatorStep \/ StorageStep \/ SchedulerSend \/ TransportStep \/ ChannelSend \/ AtRest
        \/ UNCHANGED vars => UNCHANGED mainVars /\ UNCHANGED process
  <2> USE DEF mainVars, Core!processVars
  <2>1. AggregatorStep => UNCHANGED mainVars /\ UNCHANGED process
    BY DEF AggregatorStep, Core!AggregatorStep, Core!AggRecv, Core!AggInsert,
           Core!AggTimeseries, Core!AggAttributes
  <2>2. StorageStep => UNCHANGED mainVars /\ UNCHANGED process
    BY DEF StorageStep, Core!StorageStep, Core!StorageOpen, Core!StorageInsert,
           Core!StorageTruncate, Core!StorageBackup
  <2>3. TransportStep => UNCHANGED mainVars /\ UNCHANGED process
    BY DEF TransportStep, Core!TransportStep, Core!TransportCreate, Core!TransportConnect,
           Core!TransportRecv, Core!TransportPublished
  <2>4. SchedulerSend \/ ChannelSend => UNCHANGED mainVars /\ UNCHANGED process
    BY DEF SchedulerSend, Core!SchedulerSend, ChannelSend, Core!ChannelSend
  <2>5. AtRest \/ UNCHANGED vars => UNCHANGED mainVars /\ UNCHANGED process
    BY DEF AtRest, vars, coreVars
  <2> QED BY <2>1, <2>2, <2>3, <2>4, <2>5
<1> QED BY <1>1, <1>2, <1>3, <1>4, <1>5 DEF Next

\* Every variable keeps its type, and main is gone exactly if the process is.
THEOREM TypeCorrect == Spec => []TypeOK
<1> QED BY InitInv, StepInv, InitType, StepType, PTL DEF Spec

-----------------------------------------------------------------------------
\* What is proved of Pipeline's behaviours holds of the gateway's: starting up
\* adds nothing to what the threads and the process can do.
THEOREM RefinesPipeline == Spec => Core!Spec
<1>1. Init => Core!Init BY DEF Init
<1>2. [Next]_vars => [Core!Next]_Core!vars
  <2> SUFFICES ASSUME [Next]_vars PROVE [Core!Next]_Core!vars OBVIOUS
  <2>1. UNCHANGED coreVars => UNCHANGED Core!vars
    BY DEF coreVars, Core!vars, Core!processVars, Core!aggVars, Core!storageVars,
           Core!transportVars
  <2>2. CASE MainStep BY <2>1, <2>2 DEF MainStep
  <2>3. CASE MainPanics BY <2>3 DEF MainPanics, Core!Next, Core!Killed
  <2>4. CASE MainExits BY <2>4 DEF MainExits, Core!Next
  <2>5. CASE Killed BY <2>5 DEF Killed, Core!Next
  <2>6. CASE Restart BY <2>6 DEF Restart, Core!Next
  <2>7. CASE AggregatorStep BY <2>7 DEF AggregatorStep, Core!Next
  <2>8. CASE StorageStep BY <2>8 DEF StorageStep, Core!Next
  <2>9. CASE SchedulerSend BY <2>9 DEF SchedulerSend, Core!Next
  <2>10. CASE TransportStep BY <2>10 DEF TransportStep, Core!Next
  <2>11. CASE ChannelSend BY <2>11 DEF ChannelSend, Core!Next
  <2>12. CASE UNCHANGED vars BY <2>1, <2>12 DEF vars
  <2>13. AtRest => UNCHANGED vars BY DEF AtRest
  <2> QED
    BY <2>2, <2>3, <2>4, <2>5, <2>6, <2>7, <2>8, <2>9, <2>10, <2>11, <2>12, <2>13 DEF Next
<1> QED BY <1>1, <1>2, PTL DEF Spec, Core!Spec

=============================================================================
