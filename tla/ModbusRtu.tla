----------------------------- MODULE ModbusRtu ------------------------------
(***************************************************************************)
(* The Modbus RTU channel: one thread that polls the slaves of a serial    *)
(* line in turn, register group by register group, and sends the           *)
(* aggregator one SendBoth per slave and round; and the slaves, which      *)
(* answer on time, too late, with an exception or not at all.              *)
(*                                                                         *)
(* A Modbus answer names its unit but not the registers it holds, and the  *)
(* serial port's input buffer keeps whatever arrives, asked for or not.    *)
(* Bytes are counted in units of five: the ten bytes the code reads first  *)
(* are two of them, the answer to a request of three registers or more has *)
(* a third (the rest), an exception or the answer to one or two registers  *)
(* has only one.  What is written never comes back on the line.            *)
(***************************************************************************)
EXTENDS Integers, Sequences, Functions

CONSTANTS
  Maps,      \* register_maps in iteration order, see MapsAssumption
  MaxInput   \* bound: units in the input buffer

HeadLen == 2   \* buf: ten bytes
LongLen == 3   \* an answer that has a rest

\* units: of the group's answer, 0 when no request can be generated for its
\* elements_count; int16: one of its data_points is of type Int16.
Groups(m) == Range(m.attributes) \cup Range(m.timeseries)

ASSUME MapsAssumption ==
  /\ Maps \in Seq(Range(Maps)) /\ Len(Maps) > 0
  /\ \A i, j \in 1..Len(Maps) : Maps[i].slave = Maps[j].slave => i = j
  /\ \A m \in Range(Maps) :
       /\ m.attributes \in Seq(Groups(m)) /\ m.timeseries \in Seq(Groups(m))
       /\ \A g \in Groups(m) : g.units \in {0, 1, LongLen} /\ g.int16 \in BOOLEAN

ASSUME InputAssumption == MaxInput \in Nat /\ MaxInput >= LongLen

VARIABLES
  pc,        \* see States
  turn,      \* whose turn it is: an index of Maps
  todo,      \* that slave's polls that are left, the current one first
  head,      \* buf: the first two units of the response
  input,     \* the serial port's input buffer
  message,   \* the attributes_message and timeseries_message being filled
  owed,      \* the answer that each slave is about to send or sending
  answered,  \* the answer to the last request that has arrived whole: see Answers
  noise      \* anything else could be in the buffer since the last write

channelVars == <<pc, turn, todo, head, message>>
lineVars    == <<owed, answered, noise>>
vars == <<channelVars, input, lineVars>>

-----------------------------------------------------------------------------
States  == {"opening", "poll", "head", "tail", "sleep", "dead"}
Answers == {"none", "short", "long"}
Labels  == {"current", "late", "gone"}

Slaves     == {m.slave : m \in Range(Maps)}
GroupNames == {g.name : g \in UNION {Groups(m) : m \in Range(Maps)}}

\* The attribute groups come first.
Polls(m) ==
  LET PollsOf(part, groups) == [i \in 1..Len(groups) |-> [part |-> part, group |-> groups[i]]]
  IN PollsOf("attributes", m.attributes) \o PollsOf("timeseries", m.timeseries)

Poll  == Head(todo)
Slave == Maps[turn].slave

NoMessage == [attributes |-> {}, timeseries |-> <<>>]
Nothing   == [group |-> "none", units |-> 0, sent |-> 0, label |-> "gone"]

\* The answers slave may give to a request: the registers or an exception.
AnswersTo(g) == {[group |-> g.name, units |-> u, sent |-> 0, label |-> "current"] : u \in {g.units, 1}}

Init ==
  /\ pc = "opening" /\ turn = 1 /\ todo = Polls(Maps[1])
  /\ head = <<>> /\ input = <<>> /\ message = NoMessage
  /\ owed = [s \in Slaves |-> Nothing]
  /\ answered = "none" /\ noise = FALSE

-----------------------------------------------------------------------------
(* The line.  An answer is labelled "current" until the next write; from   *)
(* then on it is "late" if none of it had arrived by then, or if what had  *)
(* could not be cleared, and otherwise it is "gone": cleared.              *)

Arrives(s) ==
  /\ owed[s] # Nothing
  /\ Len(input) < MaxInput
  /\ LET a == owed[s]
         ends == a.sent + 1 = a.units
     IN /\ input' = Append(input, [slave |-> s, group |-> a.group, label |-> a.label,
                                   n |-> a.sent + 1])
        /\ owed' = [owed EXCEPT ![s] = IF ends THEN Nothing ELSE [a EXCEPT !.sent = @ + 1]]
        /\ noise' = (noise \/ a.label # "current")
        /\ answered' = IF a.label = "current" /\ ends
                       THEN IF a.units = LongLen THEN "long" ELSE "short"
                       ELSE answered
  /\ UNCHANGED channelVars

-----------------------------------------------------------------------------
(* The channel's thread.                                                   *)

\* open_native().expect(): a port that cannot be opened panics the thread.
Open ==
  /\ pc = "opening"
  /\ pc' \in {"poll", "dead"}
  /\ UNCHANGED <<turn, todo, head, message, input, lineVars>>

\* `continue` with the next register group.
NextGroup ==
  /\ pc' = "poll"
  /\ todo' = Tail(todo)
  /\ head' = <<>>

\* Mutant: the input buffer is not cleared before the next poll.
ClearForgotten(cleared) ==
  /\ cleared
  /\ input' = [i \in DOMAIN input |-> [input[i] EXCEPT !.label = "gone"]]
  /\ noise' = (input' # <<>>)

\* port.clear(All); its failure is only logged.
Clear(cleared) ==
  /\ input' = IF cleared THEN <<>> ELSE [i \in DOMAIN input |-> [input[i] EXCEPT !.label = "late"]]
  /\ noise' = (input' # <<>>)

\* What the slaves owe from then on: no answer is current any more.
Outdated(cleared) ==
  [s \in Slaves |->
     [owed[s] EXCEPT !.label =
        IF owed[s] = Nothing \/ (owed[s].sent > 0 /\ cleared) THEN "gone" ELSE "late"]]

\* The request goes out; it may get lost.  Bound: a slave owes one answer, so
\* one that still owes another drops either the new request or the old one.
Ask ==
  /\ pc = "poll" /\ todo # <<>>
  /\ Poll.group.units > 0
  /\ \E cleared \in BOOLEAN :
       /\ Clear(cleared)
       /\ owed' \in {Outdated(cleared)} \cup
                    {[Outdated(cleared) EXCEPT ![Slave] = a] : a \in AnswersTo(Poll.group)}
  /\ answered' = "none"
  /\ pc' = "head"
  /\ UNCHANGED <<turn, todo, head, message>>

\* generate_get_holdings fails: the attributes loop goes on with the next
\* group, the timeseries loop writes an empty request and waits for an answer.
AskRefused ==
  /\ pc = "poll" /\ todo # <<>>
  /\ Poll.group.units = 0
  /\ \E cleared \in BOOLEAN : Clear(cleared) /\ owed' = Outdated(cleared)
  /\ answered' = "none"
  /\ IF Poll.part = "attributes"
     THEN NextGroup
     ELSE pc' = "head" /\ UNCHANGED <<todo, head>>
  /\ UNCHANGED <<turn, message>>

\* write() fails.
AskFails ==
  /\ pc = "poll" /\ todo # <<>>
  /\ \E cleared \in BOOLEAN : Clear(cleared) /\ owed' = Outdated(cleared)
  /\ answered' = "none"
  /\ NextGroup
  /\ UNCHANGED <<turn, message>>

\* After each read the attributes loop clears the input buffer, which may
\* fail, and the timeseries loop does not.
InputAfter(rest) == IF Poll.part = "attributes" THEN {<<>>, rest} ELSE {rest}

\* The head is that of a long answer, which guess_response_frame_len needs.
Aligned(h) == h[1].slave = h[2].slave /\ h[1].n = 1 /\ h[2].n = 2

\* Mutant: the timeseries loop clears the input buffer as the other one does.
ReadHeadClears ==
  /\ pc = "head"
  /\ Len(input) >= HeadLen
  /\ LET h == SubSeq(input, 1, HeadLen) IN
     \/ pc' = "tail" /\ head' = h /\ UNCHANGED todo
     \/ ~Aligned(h) /\ NextGroup
  /\ input' = <<>>
  /\ UNCHANGED <<turn, message, lineVars>>

\* read_exact(&mut buf) is through.  A head that is none may be refused, or
\* taken for one, with or without a rest, whatever the guessed length is.
ReadHead ==
  /\ pc = "head"
  /\ Len(input) >= HeadLen
  /\ LET h == SubSeq(input, 1, HeadLen) IN
     \/ pc' = "tail" /\ head' = h /\ UNCHANGED todo
     \/ ~Aligned(h) /\ NextGroup
  /\ input' \in InputAfter(SubSeq(input, HeadLen + 1, Len(input)))
  /\ UNCHANGED <<turn, message, lineVars>>

\* parse_ok: one whole answer of the unit that was asked, and no exception.
ParseOk(response) ==
  \A i \in 1..LongLen :
    /\ response[i].n = i
    /\ response[i].slave = Slave
    /\ response[i].group = response[1].group

\* The parsed data points go into the message under the current group's keys.
Parsed(response) ==
  LET item == [asked |-> Poll.group.name, slave |-> response[1].slave,
               group |-> response[1].group, label |-> response[1].label]
  IN message' = IF Poll.part = "attributes"
                THEN [message EXCEPT !.attributes = @ \cup {item}]
                ELSE [message EXCEPT !.timeseries = Append(@, item)]

\* read_exact(&mut rest) is through, and the response complete.  An Int16 data
\* point panics the thread (todo!()).
ReadTail ==
  /\ pc = "tail"
  /\ input # <<>>
  /\ LET response == Append(head, Head(input)) IN
     \/ ~ParseOk(response) /\ NextGroup /\ UNCHANGED message
     \/ ParseOk(response) /\ ~Poll.group.int16 /\ NextGroup /\ Parsed(response)
     \/ /\ ParseOk(response) /\ Poll.group.int16
        /\ pc' = "dead" /\ head' = <<>> /\ UNCHANGED <<todo, message>>
  /\ input' \in InputAfter(Tail(input))
  /\ UNCHANGED <<turn, lineVars>>

\* Mutant: buf outlives the poll.
TimeoutKeepsHead ==
  /\ \/ pc = "head" /\ Len(input) < HeadLen
     \/ pc = "tail" /\ (input = <<>> \/ ~Aligned(head))
  /\ pc' = "poll" /\ todo' = Tail(todo) /\ UNCHANGED head
  /\ input' = <<>>
  /\ UNCHANGED <<turn, message, lineVars>>

\* Mutant: the group is polled again until its slave answers.
TimeoutRetries ==
  /\ \/ pc = "head" /\ Len(input) < HeadLen
     \/ pc = "tail" /\ (input = <<>> \/ ~Aligned(head))
  /\ pc' = "poll" /\ head' = <<>> /\ UNCHANGED todo
  /\ input' = <<>>
  /\ UNCHANGED <<turn, message, lineVars>>

\* No more bytes for a second: what read_exact had taken is lost, and the
\* group is given up.  After a head that is none the rest may be of any length.
ReadTimesOut ==
  /\ \/ pc = "head" /\ Len(input) < HeadLen
     \/ pc = "tail" /\ (input = <<>> \/ ~Aligned(head))
  /\ NextGroup
  /\ input' = <<>>
  /\ UNCHANGED <<turn, message, lineVars>>

\* read_exact fails with another error, having taken some of the bytes.
ReadFails ==
  /\ pc \in {"head", "tail"}
  /\ NextGroup
  /\ \E k \in 1..Len(input) + 1 : input' = SubSeq(input, k, Len(input))
  /\ UNCHANGED <<turn, message, lineVars>>

\* Mutant: the messages are not made anew for each slave.
SendBothKeepsMessage ==
  /\ pc = "poll" /\ todo = <<>>
  /\ LET next == IF turn = Len(Maps) THEN 1 ELSE turn + 1 IN
     /\ turn' = next
     /\ todo' = Polls(Maps[next])
     /\ pc' = IF next = 1 THEN "sleep" ELSE "poll"
  /\ UNCHANGED <<head, input, message, lineVars>>

\* The message goes to the aggregator, filled or not, and it is the next
\* slave's turn; after the last one the thread sleeps ten seconds.
SendBoth ==
  /\ pc = "poll" /\ todo = <<>>
  /\ LET next == IF turn = Len(Maps) THEN 1 ELSE turn + 1 IN
     /\ turn' = next
     /\ todo' = Polls(Maps[next])
     /\ pc' = IF next = 1 THEN "sleep" ELSE "poll"
  /\ message' = NoMessage
  /\ UNCHANGED <<head, input, lineVars>>

Sleep ==
  /\ pc = "sleep"
  /\ pc' = "poll"
  /\ UNCHANGED <<turn, todo, head, message, input, lineVars>>

\* Nobody starts a channel again whose thread is dead.
AtRest ==
  /\ pc = "dead"
  /\ UNCHANGED vars

-----------------------------------------------------------------------------
ChannelStep ==
  \/ Open \/ Ask \/ AskRefused \/ AskFails \/ ReadHead \/ ReadTail \/ ReadTimesOut \/ ReadFails
  \/ SendBoth \/ Sleep

Next ==
  \/ \E s \in Slaves : Arrives(s)
  \/ ChannelStep
  \/ AtRest

Spec == Init /\ [][Next]_vars

\* The thread runs, and every read ends: with its bytes, an error or after a
\* second.  Nothing is assumed of the slaves.
FairSpec == Spec /\ WF_vars(ChannelStep)

-----------------------------------------------------------------------------
(* Properties.                                                             *)

Units(u) ==
  /\ u.slave \in Slaves /\ u.group \in GroupNames
  /\ u.label \in Labels /\ u.n \in 1..LongLen

\* Every variable has its type, and no part of a response outlives its poll.
TypeOK ==
  /\ pc \in States /\ turn \in 1..Len(Maps)
  /\ \E i \in 1..Len(Polls(Maps[turn])) + 1 :
       todo = SubSeq(Polls(Maps[turn]), i, Len(Polls(Maps[turn])))
  /\ pc \in {"head", "tail"} => todo # <<>>
  /\ IF pc = "tail" THEN Len(head) = HeadLen ELSE head = <<>>
  /\ Len(input) <= MaxInput
  /\ \A i \in DOMAIN input : Units(input[i])
  /\ \A i \in DOMAIN head : Units(head[i])
  /\ \A s \in Slaves :
       owed[s] = Nothing \/ (owed[s].sent < owed[s].units /\ owed[s].label \in Labels)
  /\ answered \in Answers /\ noise \in BOOLEAN

Items == message.attributes \cup Range(message.timeseries)

\* An answer is filed under the slave it came from, whatever other slaves have
\* put on the line by then, and under the registers it holds, unless it is an
\* answer to an earlier request none of which had arrived when this one was
\* written (or could be cleared): only a slave slower than the timeout can
\* mislead the channel, not one whose answers lie about in the input buffer.
FiledRight ==
  \A item \in Items :
    /\ item.slave = Slave
    /\ item.label # "gone"
    /\ item.label = "current" => item.group = item.asked

\* A telemetry poll that is answered, in full and with nothing else on the
\* line, does yield telemetry, however the answer is cut into reads: what is
\* not in head yet is all in the input buffer, so the reads cannot time out
\* and their result is accepted.
CleanAnswerCounts ==
  pc \in {"head", "tail"} /\ Poll.part = "timeseries" /\ answered = "long" /\ ~noise =>
    Len(head \o input) = LongLen /\ ParseOk(head \o input)

\* The channel implements Polling: a message is about one slave, each of its
\* register groups is in it at most once and its telemetry in the order of the
\* map, however polls fail and late answers come in between.
Channel == INSTANCE Polling
  WITH alive      <- pc # "dead",
       attributes <- {item.asked : item \in message.attributes},
       timeseries <- [i \in DOMAIN message.timeseries |-> message.timeseries[i].asked]

ReportsInTurn == Channel!Spec

\* Every slave gets its turn, and the aggregator its message, again and again:
\* no slave that is silent, slow or talking nonsense holds up the others.
EverySlaveReported == Channel!EveryTurnComes

\* "Operation to read first response timedout" (rtu.rs:181, 228, 343, 368):
\* when that is logged, no full answer to the request has arrived.
TimeoutMeansSilence == [][ReadTimesOut => answered # "long"]_vars

\* "continuing... , would crash otherwise" (mod.rs:86) and the declaration of
\* Int16 (mod.rs:55): no data point of a register map kills a channel that has
\* opened its port.
ParseNeverPanics == [][pc \notin {"opening", "dead"} => pc' # "dead"]_vars

=============================================================================
