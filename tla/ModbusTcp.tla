----------------------------- MODULE ModbusTcp ------------------------------
(***************************************************************************)
(* The Modbus TCP channel: one thread that polls the slaves behind one     *)
(* server in turn, over a connection that it closes after each of them,    *)
(* and sends the aggregator one SendBoth per slave and round.              *)
(*                                                                         *)
(* libmodbus does the talking.  It numbers the requests and refuses an     *)
(* answer that has another number; with the recovery mode Link, a request  *)
(* that cannot be sent is repeated over a new connection until it can, so  *)
(* that closing is all it takes to reconnect and a call may never return.  *)
(* The server answers in the order it was asked, on time or later, with    *)
(* registers or an exception, or it loses a request.                       *)
(***************************************************************************)
EXTENDS Naturals, Sequences, Functions

CONSTANT Maps   \* register_maps in iteration order, see MapsAssumption

DataTypes == {"Double", "Float", "Int32", "Int16", "UInt32", "UInt16"}

Groups(m) == Range(m.attributes) \cup Range(m.timeseries)

\* addressable: libmodbus accepts the modbus_id as a slave's.  served: the slave
\* has the group's registers, so that it answers with them when all is well.
\* A group's name stands for its place in the map: no two groups share one.
ASSUME MapsAssumption ==
  /\ Maps \in Seq(Range(Maps)) /\ Len(Maps) > 0
  /\ \A i, j \in 1..Len(Maps) : Maps[i].slave = Maps[j].slave => i = j
  /\ \A m \in Range(Maps) :
       /\ m.addressable \in BOOLEAN
       /\ m.attributes \in Seq(Groups(m)) /\ m.timeseries \in Seq(Groups(m))
       /\ \A g, h \in Groups(m) : g.name = h.name => g = h
       /\ \A g \in Groups(m) :
            /\ g.elements_count \in Nat /\ g.served \in BOOLEAN
            /\ \A p \in Range(g.data_points) : p.data_offset \in Nat /\ p.data_type \in DataTypes

VARIABLES
  pc,        \* see States
  turn,      \* whose turn it is: an index of Maps
  todo,      \* that slave's polls that are left, the current one first
  message,   \* the attributes_message and timeseries_message being filled
  selected,  \* the slave that libmodbus sends requests to
  link,      \* "open" or "closed": the connection
  owed,      \* answers the server is about to send over it, in order
  input,     \* answers that have arrived and were not read
  steady,    \* it has been "good" since a read returned or the thread hung up
  server     \* "good": it accepts connections and answers in time; or "bad"

threadVars == <<turn, todo, message, selected>>
lineVars   == <<link, owed, input>>
serverVars == <<server, steady>>
vars == <<pc, threadVars, lineVars, serverVars>>

-----------------------------------------------------------------------------
States == {"opening", "sleep", "select", "poll", "waiting", "dead"}

Slaves     == {m.slave : m \in Range(Maps)}
GroupNames == {g.name : g \in UNION {Groups(m) : m \in Range(Maps)}}

\* Mutant: only errors of the protocol are recovered from.
ProtocolOnly == {"Protocol"}

\* set_error_recovery(..): what libmodbus does about an error by itself.
Recovery == {"Protocol", "Link"}

\* The attribute groups come first.
Polls(m) ==
  LET PollsOf(part, groups) == [i \in 1..Len(groups) |-> [part |-> part, group |-> groups[i]]]
  IN PollsOf("attributes", m.attributes) \o PollsOf("timeseries", m.timeseries)

Poll  == Head(todo)
Slave == Maps[turn].slave

NoMessage == [attributes |-> {}, timeseries |-> <<>>]

Init ==
  /\ pc = "opening" /\ turn = 1 /\ todo = Polls(Maps[1]) /\ message = NoMessage
  /\ selected = "none"
  /\ link = "closed" /\ owed = <<>> /\ input = <<>>
  /\ server \in {"good", "bad"} /\ steady = FALSE

-----------------------------------------------------------------------------
(* The data points of a group, read from a buffer of 200 words that is     *)
(* zero beyond the answer.                                                 *)

MaxRegisters == 125   \* libmodbus asks for no more
BufferLen == 400      \* read_buffer, in bytes

Width == [Double |-> 8, Float |-> 4, Int32 |-> 4, UInt32 |-> 4, UInt16 |-> 2]

\* The attributes loop has a check of its own before it parses a data point.
Tried(poll) ==
  {p \in Range(poll.group.data_points) :
     poll.part = "attributes" => p.data_offset + 4 <= BufferLen}

\* ModbusDataPointReader::parse, which does not implement Int16 (todo!()).
Panics(poll) == \E p \in Tried(poll) : p.data_type = "Int16"

End(p) == p.data_offset + Width[p.data_type]

Parsed(poll) == {p \in Tried(poll) : End(p) <= BufferLen}

\* Some value that is filed comes from beyond the first registers words.
MadeUp(poll, registers) == \E p \in Parsed(poll) : End(p) > 2 * registers

\* What was read goes into the message under the slave's name.
File(registers) ==
  LET item == [asked |-> Poll.group.name, slave |-> selected,
               madeUp |-> MadeUp(Poll, registers)]
  IN message' = IF Poll.part = "attributes"
                THEN [message EXCEPT !.attributes = @ \cup {item}]
                ELSE [message EXCEPT !.timeseries = Append(@, item)]

-----------------------------------------------------------------------------
(* The server and the network.                                             *)

ServerChanges ==
  /\ server' \in {"good", "bad"} \ {server}
  /\ steady' = FALSE
  /\ UNCHANGED <<pc, threadVars, lineVars>>

\* No answer to an earlier request is left, if the server is good.
Settles == steady' = (server = "good") /\ UNCHANGED server

Arrives ==
  /\ owed # <<>>
  /\ input' = Append(input, Head(owed)) /\ owed' = Tail(owed)
  /\ UNCHANGED <<pc, threadVars, link, serverVars>>

\* Mutant: what was on its way still comes.
UnlinkedLeaks(state) == link' = state /\ UNCHANGED owed /\ input' = <<>>

\* The connection is gone, and with it what was on its way.
Unlinked(state) == link' = state /\ owed' = <<>> /\ input' = <<>>

\* While the thread waits for an answer this is a read that fails.
ConnectionLost ==
  /\ server = "bad" /\ link = "open" /\ pc # "waiting"
  /\ Unlinked("closed")
  /\ UNCHANGED <<pc, threadVars, serverVars>>

-----------------------------------------------------------------------------
(* The channel's thread.                                                   *)

\* A host that is no IP address panics the thread; connect()'s failure is
\* only logged.
Open ==
  /\ pc = "opening"
  /\ \/ pc' = "dead" /\ UNCHANGED link
     \/ pc' = "sleep" /\ link' \in (IF server = "good" THEN {"open"} ELSE {"open", "closed"})
  /\ UNCHANGED <<threadVars, owed, input, serverVars>>

Wake ==
  /\ pc = "sleep"
  /\ pc' = "select"
  /\ UNCHANGED <<threadVars, lineVars, serverVars>>

\* Mutant: the slave is selected once for all.
SelectOnce ==
  /\ pc = "select"
  /\ pc' = "poll"
  /\ selected' = IF selected = "none" /\ Maps[turn].addressable THEN Slave ELSE selected
  /\ UNCHANGED <<turn, todo, message, lineVars, serverVars>>

\* set_slave(); its failure is only logged.
Select ==
  /\ pc = "select"
  /\ pc' = "poll"
  /\ selected' = IF Maps[turn].addressable THEN Slave ELSE selected
  /\ UNCHANGED <<turn, todo, message, lineVars, serverVars>>

\* Mutant: the group is asked for again until it is answered.
NextGroupRetries == pc' = "poll" /\ UNCHANGED todo

\* `continue` with the next register group.
NextGroup == pc' = "poll" /\ todo' = Tail(todo)

Outdated(answers) == [i \in DOMAIN answers |-> [answers[i] EXCEPT !.current = FALSE]]

\* flush() drops what has arrived; its failure is only logged.
Flush(answers) == {<<>>, answers}

\* Only the attributes loop flushes before it asks.
InputBefore == {Outdated(left) : left \in IF Poll.part = "attributes" THEN Flush(input) ELSE {input}}

\* What the server may make of a request: a lost one is never answered.
Responses ==
  LET Answer(registers) == <<[current |-> TRUE, registers |-> registers]>>
  IN CASE server = "bad"                         -> {Answer(TRUE), Answer(FALSE), <<>>}
       [] Poll.group.served /\ selected = Slave  -> {Answer(TRUE)}
       [] OTHER                                  -> {Answer(TRUE), Answer(FALSE)}

\* read_registers() sends the request.
Ask ==
  /\ pc = "poll" /\ todo # <<>> /\ link = "open"
  /\ Poll.group.elements_count <= MaxRegisters
  /\ input' \in InputBefore
  /\ \E response \in Responses : owed' = Outdated(owed) \o response
  /\ pc' = "waiting"
  /\ UNCHANGED <<threadVars, link, serverVars>>

\* It refuses to ask for so many registers.
AskRefused ==
  /\ pc = "poll" /\ todo # <<>>
  /\ Poll.group.elements_count > MaxRegisters
  /\ input' \in InputBefore
  /\ NextGroup
  /\ UNCHANGED <<turn, message, selected, link, owed, serverVars>>

\* The request cannot be sent.  With the recovery mode Link it is held until
\* there is a new connection (an attempt that fails changes nothing), without
\* it the call fails.
Reconnect ==
  /\ pc = "poll" /\ todo # <<>> /\ link = "closed"
  /\ Poll.group.elements_count <= MaxRegisters
  /\ IF "Link" \in Recovery
     THEN link' = "open" /\ UNCHANGED <<pc, todo>>
     ELSE NextGroup /\ UNCHANGED link
  /\ UNCHANGED <<turn, message, selected, owed, input, serverVars>>

\* libmodbus sleeps for the response timeout and flushes what has arrived by
\* then, which is all there is if the server is good.
SleepAndFlush ==
  /\ input' = <<>>
  /\ \E k \in 1..Len(owed) + 1 :
       /\ server = "good" => k = Len(owed) + 1
       /\ owed' = SubSeq(owed, k, Len(owed))

\* Only the timeseries loop flushes after it has read.
InputAfter == IF Poll.part = "timeseries" THEN Flush(Tail(input)) ELSE {Tail(input)}

\* Registers, and the answer to this request.
ReadRegisters ==
  /\ pc = "waiting" /\ input # <<>>
  /\ Head(input).current /\ Head(input).registers
  /\ input' \in InputAfter
  /\ IF Panics(Poll)
     THEN pc' = "dead" /\ UNCHANGED <<todo, message>>
     ELSE NextGroup /\ File(Poll.group.elements_count)
  /\ Settles
  /\ UNCHANGED <<turn, selected, link, owed>>

\* Mutant: the loop goes on to parse the buffer, which is zero.
GiveUpParses == NextGroup /\ Settles /\ File(0)

\* The error of a read is logged, and nothing is filed.
GiveUp == NextGroup /\ Settles /\ UNCHANGED message

ReadException ==
  /\ pc = "waiting" /\ input # <<>>
  /\ Head(input).current /\ ~Head(input).registers
  /\ input' = Tail(input)
  /\ GiveUp
  /\ UNCHANGED <<turn, selected, link, owed>>

\* The answer has another number than the request.
ReadRefused ==
  /\ pc = "waiting" /\ input # <<>>
  /\ ~Head(input).current
  /\ IF "Protocol" \in Recovery
     THEN SleepAndFlush
     ELSE input' = Tail(input) /\ UNCHANGED owed
  /\ GiveUp
  /\ UNCHANGED <<turn, selected, link>>

\* Nothing for a second, so not while a good server owes the answer.
ReadTimesOut ==
  /\ pc = "waiting" /\ input = <<>>
  /\ ~(server = "good" /\ \E i \in DOMAIN owed : owed[i].current)
  /\ IF "Link" \in Recovery THEN SleepAndFlush ELSE UNCHANGED <<owed, input>>
  /\ GiveUp
  /\ UNCHANGED <<turn, selected, link>>

\* The connection is lost.  The recovery tries once to connect again.
ReadFails ==
  /\ pc = "waiting" /\ server = "bad"
  /\ \E state \in {"open", "closed"} :
       /\ state = "open" => "Link" \in Recovery
       /\ Unlinked(state)
  /\ GiveUp
  /\ UNCHANGED <<turn, selected>>

\* Mutant: the messages are not made anew for each slave.
SendBothKeepsMessage ==
  /\ pc = "poll" /\ todo = <<>>
  /\ Unlinked("closed")
  /\ LET next == IF turn = Len(Maps) THEN 1 ELSE turn + 1 IN
     /\ turn' = next
     /\ todo' = Polls(Maps[next])
     /\ pc' = IF next = 1 THEN "sleep" ELSE "select"
  /\ Settles
  /\ UNCHANGED <<message, selected>>

\* Mutant: the connection is kept for the next slave.
SendBothStaysOpen ==
  /\ pc = "poll" /\ todo = <<>>
  /\ LET next == IF turn = Len(Maps) THEN 1 ELSE turn + 1 IN
     /\ turn' = next
     /\ todo' = Polls(Maps[next])
     /\ pc' = IF next = 1 THEN "sleep" ELSE "select"
  /\ message' = NoMessage
  /\ Settles
  /\ UNCHANGED <<selected, link, owed, input>>

\* The connection is closed, the message goes to the aggregator, filled or
\* not, and it is the next slave's turn; after the last one the thread sleeps.
SendBoth ==
  /\ pc = "poll" /\ todo = <<>>
  /\ Unlinked("closed")
  /\ LET next == IF turn = Len(Maps) THEN 1 ELSE turn + 1 IN
     /\ turn' = next
     /\ todo' = Polls(Maps[next])
     /\ pc' = IF next = 1 THEN "sleep" ELSE "select"
  /\ message' = NoMessage
  /\ Settles
  /\ UNCHANGED selected

\* Nobody starts a channel again whose thread is dead.
AtRest ==
  /\ pc = "dead"
  /\ UNCHANGED vars

-----------------------------------------------------------------------------
ThreadStep ==
  \/ Open \/ Wake \/ Select \/ Ask \/ AskRefused
  \/ ReadRegisters \/ ReadException \/ ReadRefused \/ ReadTimesOut \/ ReadFails
  \/ SendBoth

Next ==
  \/ ThreadStep \/ Reconnect
  \/ Arrives \/ ConnectionLost \/ ServerChanges
  \/ AtRest

Spec == Init /\ [][Next]_vars

\* The thread runs, every read ends, and a good server can be connected to and
\* sends its answers.  Nothing is assumed of a bad one.
FairSpec ==
  /\ Spec
  /\ WF_vars(ThreadStep)
  /\ WF_vars(server = "good" /\ Reconnect)
  /\ WF_vars(server = "good" /\ Arrives)

-----------------------------------------------------------------------------
(* Properties.                                                             *)

Items == message.attributes \cup Range(message.timeseries)

\* Every variable has its type, and a connection that is gone holds nothing.
TypeOK ==
  /\ pc \in States /\ turn \in 1..Len(Maps)
  /\ \E i \in 1..Len(Polls(Maps[turn])) + 1 :
       todo = SubSeq(Polls(Maps[turn]), i, Len(Polls(Maps[turn])))
  /\ pc = "waiting" => todo # <<>> /\ link = "open"
  /\ \A item \in Items : item.asked \in GroupNames /\ item.madeUp \in BOOLEAN
  /\ selected \in Slaves \cup {"none"}
  /\ link \in {"open", "closed"} /\ server \in {"good", "bad"} /\ steady \in BOOLEAN
  /\ \A a \in Range(owed) \cup Range(input) : a.current \in BOOLEAN /\ a.registers \in BOOLEAN
  /\ link = "closed" => owed = <<>> /\ input = <<>>

\* What is filed under a slave that can be addressed was read from it, however
\* the slaves before it in the round fared.
FiledUnderItsSlave ==
  Maps[turn].addressable => \A item \in Items : item.slave = Slave

\* A group whose data points all lie within its registers is filed with values
\* that came from the slave, or not at all: no failed read leaves the zeros of
\* the fresh buffer in a message.
NoMadeUpValues ==
  \A g \in Groups(Maps[turn]), item \in Items :
    /\ g.name = item.asked
    /\ \A p \in Range(g.data_points) : p.data_type # "Int16" /\ End(p) <= 2 * g.elements_count
    => ~item.madeUp

\* A late answer costs one poll: once the server is good, and has stayed so since
\* a read returned, in whatever way, or the connection was closed, no poll fails
\* over an old answer and none waits in vain.  (Two flushes of libmodbus, one per
\* kind of failure, and close() see to it; those of the loops may fail.)
LateAnswersEnd == [][ReadRefused \/ ReadTimesOut => ~steady]_vars

\* The channel implements Polling: a message is about one slave, each of its
\* register groups is in it at most once and its telemetry in the order of the
\* map, however polls fail and the connection comes and goes.
Channel == INSTANCE Polling
  WITH alive      <- pc # "dead",
       attributes <- {item.asked : item \in message.attributes},
       timeseries <- [i \in DOMAIN message.timeseries |-> message.timeseries[i].asked]

ReportsInTurn == Channel!Spec

\* Once the server stays well, every slave gets its turn and the aggregator its
\* message again and again.  (While it cannot be reached, a call of libmodbus
\* that is repeated holds up all the slaves behind it.)
EverySlaveReported == <>[](server = "good") => Channel!EveryTurnComes

\* Once the server stays well, readings of every group that a slave serves, if it
\* can be addressed, are filed again and again: no failure before, and no closing
\* of the connection between the slaves, leaves the channel without one or always
\* an answer late.
ReadingsResume ==
  \A m \in Range(Maps) : \A g \in Groups(m) :
    m.addressable /\ g.served /\ g.elements_count <= MaxRegisters =>
      (<>[](server = "good" /\ pc # "dead") =>
         []<>(Slave = m.slave /\ \E item \in Items : item.asked = g.name))

\* "Set correct ModbusID to call on" (tcp.rs:85): what is filed under a slave
\* was read from it.
CorrectModbusId == \A item \in Items : item.slave = Slave

=============================================================================
