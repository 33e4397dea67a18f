-------------------------- MODULE ModbusTcpProofs ---------------------------
(***************************************************************************)
(* Proofs about ModbusTcp, for any register maps and however the server    *)
(* behaves: its type invariant, that what is filed under a slave was read  *)
(* from it and not made up, that a late answer costs one poll and not the  *)
(* polls after it, and that the channel implements Polling.                *)
(***************************************************************************)
EXTENDS ModbusTcp, PollingFacts

\* An answer on its way, and what is filed in a message.
Answers == [current : BOOLEAN, registers : BOOLEAN]
Filed   == [asked : GroupNames, slave : Slaves \cup {"none"}, madeUp : BOOLEAN]

\* The line and the message have their types; there is no connection before
\* the thread has opened it.
Typed ==
  /\ pc = "opening" => link = "closed"
  /\ owed \in Seq(Answers) /\ input \in Seq(Answers)
  /\ message \in [attributes : SUBSET Filed, timeseries : Seq(Filed)]

\* The turn of a slave that can be addressed starts with an empty message, and
\* its polls go to it.
OwnTurn ==
  /\ pc \in {"opening", "sleep", "select"} => message = NoMessage
  /\ Maps[turn].addressable /\ pc \in {"poll", "waiting"} => selected = Slave

\* The telemetry in the message is of groups that were polled before.
InOrder ==
  LET m == Maps[turn] IN
  \E i \in 1..Len(Polls(m)) + 1 :
    /\ todo = SubSeq(Polls(m), i, Len(Polls(m)))
    /\ \A item \in Range(message.timeseries) :
         \E k \in 1..Len(m.timeseries) :
           k + Len(m.attributes) < i /\ item.asked = m.timeseries[k].name

\* Only the last of the answers on the connection can be to the last request.
LastCurrent ==
  /\ \A i \in DOMAIN input : input[i].current => i = Len(input) /\ owed = <<>>
  /\ \A i \in DOMAIN owed : owed[i].current => i = Len(owed)

\* When the server has been good since the last read returned, the answer that
\* the thread waits for is the only one on the connection.
Alone(q) == Len(q) = 1 /\ q[1].current

SteadyLine ==
  steady =>
    /\ server = "good"
    /\ IF pc = "waiting"
       THEN \/ input = <<>> /\ Alone(owed)
            \/ owed = <<>> /\ Alone(input)
       ELSE input = <<>> /\ owed = <<>>

\* The inductive invariant.
IInv ==
  /\ TypeOK /\ Typed /\ OwnTurn /\ InOrder
  /\ FiledUnderItsSlave /\ NoMadeUpValues /\ LastCurrent /\ SteadyLine

-----------------------------------------------------------------------------
(* The register maps.                                                      *)

LEMMA MapFacts ==
  /\ Len(Maps) \in Nat /\ Len(Maps) > 0
  /\ \A t \in 1..Len(Maps) :
       /\ Maps[t] \in Range(Maps) /\ Maps[t].slave \in Slaves
       /\ Maps[t].attributes \in Seq(Groups(Maps[t])) /\ Maps[t].timeseries \in Seq(Groups(Maps[t]))
       /\ Polls(Maps[t]) = PollsFor(Maps[t].attributes, Maps[t].timeseries)
       /\ Polls(Maps[t]) \in Seq(PollSet(Groups(Maps[t])))
       /\ \A g \in Groups(Maps[t]) : g.name \in GroupNames
<1>1. Maps \in Seq(Range(Maps)) BY MapsAssumption
<1>2. Len(Maps) \in Nat /\ Len(Maps) > 0 /\ \A t \in 1..Len(Maps) : Maps[t] \in Range(Maps)
  BY <1>1, MapsAssumption, RangeFacts
<1>3. ASSUME NEW t \in 1..Len(Maps)
      PROVE  /\ Maps[t].slave \in Slaves
             /\ Maps[t].attributes \in Seq(Groups(Maps[t]))
             /\ Maps[t].timeseries \in Seq(Groups(Maps[t]))
             /\ Polls(Maps[t]) = PollsFor(Maps[t].attributes, Maps[t].timeseries)
             /\ Polls(Maps[t]) \in Seq(PollSet(Groups(Maps[t])))
             /\ \A g \in Groups(Maps[t]) : g.name \in GroupNames
  <2>1. PICK m \in Range(Maps) : m = Maps[t] BY <1>2
  <2>2. m.slave \in Slaves BY DEF Slaves
  <2>3. m.attributes \in Seq(Groups(m)) /\ m.timeseries \in Seq(Groups(m)) BY MapsAssumption
  <2>4. Polls(m) = PollsFor(m.attributes, m.timeseries) BY DEF Polls, PollsFor
  <2>5. PollsFor(m.attributes, m.timeseries) \in Seq(PollSet(Groups(m)))
    BY <2>3, PollsFacts DEF AskInOrder
  <2>6. \A g \in Groups(m) : g.name \in GroupNames BY DEF GroupNames
  <2> QED BY <2>1, <2>2, <2>3, <2>4, <2>5, <2>6
<1> QED BY <1>2, <1>3

\* The poll that is due, when i - 1 polls of the turn are done.
LEMMA PollFacts ==
  ASSUME TypeOK, todo # <<>>, NEW i \in 1..Len(Polls(Maps[turn])) + 1,
         todo = SubSeq(Polls(Maps[turn]), i, Len(Polls(Maps[turn])))
  PROVE  /\ Tail(todo) = SubSeq(Polls(Maps[turn]), i + 1, Len(Polls(Maps[turn])))
         /\ i + 1 \in 1..Len(Polls(Maps[turn])) + 1 /\ i \in Nat
         /\ Len(Maps[turn].attributes) \in Nat
         /\ Poll.group \in Groups(Maps[turn]) /\ Poll.group.name \in GroupNames
         /\ \/ /\ Poll.part = "attributes"
               /\ i \in 1..Len(Maps[turn].attributes) /\ Poll.group = Maps[turn].attributes[i]
            \/ /\ Poll.part = "timeseries"
               /\ i - Len(Maps[turn].attributes) \in 1..Len(Maps[turn].timeseries)
               /\ Poll.group = Maps[turn].timeseries[i - Len(Maps[turn].attributes)]
<1>1. turn \in 1..Len(Maps) BY DEF TypeOK
<1>2. PICK m \in Range(Maps) : m = Maps[turn] BY <1>1, MapFacts
<1>3. /\ m.attributes \in Seq(Groups(m)) /\ m.timeseries \in Seq(Groups(m))
      /\ Polls(m) = PollsFor(m.attributes, m.timeseries)
      /\ \A g \in Groups(m) : g.name \in GroupNames
  BY <1>1, <1>2, MapFacts
<1>4. PICK a \in Seq(Groups(m)), s \in Seq(Groups(m)) : a = m.attributes /\ s = m.timeseries
  BY <1>3
<1>5. /\ Tail(todo) = SubSeq(Polls(m), i + 1, Len(Polls(m)))
      /\ i + 1 \in 1..Len(Polls(m)) + 1
      /\ \/ Poll.part = "attributes" /\ i \in 1..Len(m.attributes) /\ Poll.group = m.attributes[i]
         \/ /\ Poll.part = "timeseries"
            /\ i - Len(m.attributes) \in 1..Len(m.timeseries)
            /\ Poll.group = m.timeseries[i - Len(m.attributes)]
  <2>1. Polls(m) = PollsFor(a, s) BY <1>3, <1>4
  <2>2. i \in 1..Len(PollsFor(a, s)) + 1 /\ todo = SubSeq(PollsFor(a, s), i, Len(PollsFor(a, s)))
    BY <1>2, <2>1
  <2>3. /\ Tail(todo) = SubSeq(PollsFor(a, s), i + 1, Len(PollsFor(a, s)))
        /\ i + 1 \in 1..Len(PollsFor(a, s)) + 1
        /\ \/ Head(todo).part = "attributes" /\ i \in 1..Len(a) /\ Head(todo).group = a[i]
           \/ /\ Head(todo).part = "timeseries"
              /\ i - Len(a) \in 1..Len(s) /\ Head(todo).group = s[i - Len(a)]
    BY <2>2, NextPoll, SMTT(30)
  <2>4. Poll = Head(todo) BY DEF Poll
  <2>5. CASE Head(todo).part = "attributes" /\ i \in 1..Len(a) /\ Head(todo).group = a[i]
    BY <1>4, <2>1, <2>3, <2>4, <2>5
  <2>6. CASE /\ Head(todo).part = "timeseries"
             /\ i - Len(a) \in 1..Len(s) /\ Head(todo).group = s[i - Len(a)]
    BY <1>4, <2>1, <2>3, <2>4, <2>6
  <2> QED BY <2>3, <2>5, <2>6
<1>6. Poll.group \in Groups(m) /\ Len(m.attributes) \in Nat
  <2>1. /\ Len(a) \in Nat /\ \A k \in 1..Len(a) : a[k] \in Groups(m)
        /\ \A k \in 1..Len(s) : s[k] \in Groups(m)
    BY RangeFacts
  <2> QED BY <1>4, <1>5, <2>1
<1> QED BY <1>2, <1>3, <1>5, <1>6

-----------------------------------------------------------------------------
(* The connection.                                                         *)

LEMMA OutdatedFacts ==
  ASSUME NEW q \in Seq(Answers)
  PROVE  /\ Outdated(q) \in Seq(Answers) /\ DOMAIN Outdated(q) = DOMAIN q
         /\ \A i \in DOMAIN Outdated(q) : ~Outdated(q)[i].current
<1>1. Len(q) \in Nat /\ DOMAIN q = 1..Len(q) /\ \A i \in 1..Len(q) : q[i] \in Answers
  BY RangeFacts
<1>2. Outdated(q) \in [1..Len(q) -> Answers] BY <1>1 DEF Outdated, Answers
<1>3. ASSUME NEW i \in 1..Len(q) PROVE ~Outdated(q)[i].current
  <2>1. Outdated(q)[i] = [q[i] EXCEPT !.current = FALSE] BY <1>1 DEF Outdated
  <2> QED BY <1>1, <2>1 DEF Answers
<1> QED BY <1>1, <1>2, <1>3, SeqDef

LEMMA SoleFacts ==
  ASSUME NEW q \in Seq(Answers), Len(q) = 1
  PROVE  q # <<>> /\ Head(q) = q[1] /\ Tail(q) = <<>> /\ 1 \in DOMAIN q
<1>1. q # <<>> BY EmptySeq
<1>2. Head(q) = q[1] /\ Tail(q) \in Seq(Answers) /\ Len(Tail(q)) = 0 BY <1>1, TailFacts
<1> QED BY <1>1, <1>2, EmptySeq, RangeFacts

\* What was owed stays owed, and at most one answer is added to it.
LEMMA ResponseFacts ==
  ASSUME NEW response \in Responses
  PROVE  response \in Seq(Answers)
<1>1. response \in {<<[current |-> TRUE, registers |-> TRUE]>>,
                    <<[current |-> TRUE, registers |-> FALSE]>>, <<>>}
  BY DEF Responses
<1>2. /\ [current |-> TRUE, registers |-> TRUE] \in Answers
      /\ [current |-> TRUE, registers |-> FALSE] \in Answers
  BY DEF Answers
<1>3. ASSUME NEW x \in Answers PROVE <<x>> \in Seq(Answers) OBVIOUS
<1> QED BY <1>1, <1>2, <1>3, EmptyFacts

\* SleepAndFlush keeps the tail of what is owed.
LEMMA FlushFacts ==
  ASSUME owed \in Seq(Answers), SleepAndFlush
  PROVE  owed' \in Seq(Answers) /\ input' = <<>>
<1>1. PICK k \in 1..Len(owed) + 1 : owed' = SubSeq(owed, k, Len(owed)) BY DEF SleepAndFlush
<1> QED BY <1>1, RestFacts DEF SleepAndFlush

\* The line stays typed, and a connection that is gone holds nothing.
LEMMA LineStep ==
  ASSUME TypeOK, Typed, [Next]_vars
  PROVE  /\ owed' \in Seq(Answers) /\ input' \in Seq(Answers)
         /\ link' \in {"open", "closed"} /\ steady' \in BOOLEAN /\ server' \in {"good", "bad"}
         /\ link' = "closed" => owed' = <<>> /\ input' = <<>>
         /\ pc' = "waiting" => link' = "open"
         /\ pc' = "opening" => link' = "closed"
<1> USE DEF Typed, threadVars, lineVars, serverVars, Unlinked, Settles
<1>0. /\ link \in {"open", "closed"} /\ steady \in BOOLEAN /\ server \in {"good", "bad"}
      /\ link = "closed" => owed = <<>> /\ input = <<>>
      /\ pc = "waiting" => link = "open"
      /\ pc = "opening" => link = "closed"
  BY DEF TypeOK
<1>1. <<>> \in Seq(Answers) BY EmptyFacts
<1>2. CASE Open \/ Wake \/ Select \/ SendBoth \/ ServerChanges \/ ConnectionLost \/ AtRest \/ UNCHANGED vars
  BY <1>0, <1>1, <1>2 DEF Open, Wake, Select, SendBoth, ServerChanges, ConnectionLost, AtRest, vars
<1>3. CASE Arrives
  <2>1. Head(owed) \in Answers /\ Tail(owed) \in Seq(Answers) BY <1>3, TailFacts DEF Arrives
  <2>2. Append(input, Head(owed)) \in Seq(Answers) BY <2>1, AppendFacts
  <2>3. owed # <<>> /\ UNCHANGED <<pc, link, server, steady>> BY <1>3 DEF Arrives
  <2>4. owed' \in Seq(Answers) /\ input' \in Seq(Answers) BY <1>3, <2>1, <2>2 DEF Arrives
  <2> QED BY <1>0, <2>3, <2>4
<1>4. CASE Ask
  <2>1. input' \in Seq(Answers)
    <3>1. PICK left \in {<<>>, input} : input' = Outdated(left) BY <1>4 DEF Ask, InputBefore, Flush
    <3> QED BY <1>1, <3>1, OutdatedFacts
  <2>2. PICK response \in Responses : owed' = Outdated(owed) \o response BY <1>4 DEF Ask
  <2>3. owed' \in Seq(Answers) BY <2>2, OutdatedFacts, ResponseFacts, ConcatProperties
  <2> QED BY <1>0, <1>4, <2>1, <2>3 DEF Ask
<1>5. CASE AskRefused
  <2>0. PICK left \in {<<>>, input} : input' = Outdated(left)
    BY <1>5 DEF AskRefused, InputBefore, Flush
  <2>1. input' \in Seq(Answers) BY <1>1, <2>0, OutdatedFacts
  <2>2. link = "closed" => input' = <<>> BY <1>0, <2>0 DEF Outdated
  <2> QED BY <1>0, <1>5, <2>1, <2>2 DEF AskRefused, NextGroup
<1>6. CASE Reconnect
  BY <1>0, <1>6 DEF Reconnect, NextGroup
<1>7. CASE ReadRegisters \/ ReadException
  <2>1. input # <<>> /\ UNCHANGED <<owed, link, server>> /\ pc' \in {"poll", "dead"}
        /\ steady' \in BOOLEAN
    BY <1>7 DEF ReadRegisters, ReadException, NextGroup, GiveUp
  <2>2. Tail(input) \in Seq(Answers) BY <2>1, TailFacts
  <2>3. input' \in {<<>>, Tail(input)}
    BY <1>7 DEF ReadRegisters, ReadException, InputAfter, Flush
  <2> QED BY <1>0, <1>1, <2>1, <2>2, <2>3
<1>8. CASE ReadRefused \/ ReadTimesOut
  <2>1. SleepAndFlush BY <1>8 DEF ReadRefused, ReadTimesOut, Recovery
  <2>2. pc = "waiting" /\ pc' = "poll" /\ UNCHANGED <<link, server>> /\ steady' \in BOOLEAN
    BY <1>8 DEF ReadRefused, ReadTimesOut, GiveUp, NextGroup
  <2> QED BY <1>0, <1>1, <2>1, <2>2, FlushFacts
<1>9. CASE ReadFails
  BY <1>0, <1>1, <1>9 DEF ReadFails, GiveUp, NextGroup
<1> QED BY <1>2, <1>3, <1>4, <1>5, <1>6, <1>7, <1>8, <1>9 DEF Next, ThreadStep

LEMMA LastStep ==
  ASSUME TypeOK, Typed, LastCurrent, [Next]_vars
  PROVE  LastCurrent'
<1> USE DEF LastCurrent, threadVars, lineVars, Unlinked
<1>1. CASE UNCHANGED <<owed, input>> BY <1>1
<1>2. CASE owed' = <<>> /\ input' = <<>> BY <1>2, EmptyFacts
<1>3. owed \in Seq(Answers) /\ input \in Seq(Answers) BY DEF Typed
<1>4. CASE Open \/ Wake \/ Select \/ SendBoth \/ ServerChanges \/ ConnectionLost \/ AtRest
           \/ Reconnect \/ ReadFails \/ UNCHANGED vars
  BY <1>1, <1>2, <1>4 DEF Open, Wake, Select, SendBoth, ServerChanges, ConnectionLost, AtRest,
                          Reconnect, ReadFails, vars
<1>5. CASE Arrives
  <2>1. /\ owed # <<>> /\ input' = Append(input, Head(owed)) /\ owed' = Tail(owed)
    BY <1>5 DEF Arrives
  <2>2. PICK o \in Seq(Answers), q \in Seq(Answers) : o = owed /\ q = input BY <1>3
  <2>3. /\ Len(o) \in Nat /\ Len(q) \in Nat /\ Len(o) > 0 /\ Head(o) = o[1]
        /\ Len(Tail(o)) = Len(o) - 1 /\ DOMAIN Tail(o) = 1..Len(o) - 1
        /\ \A i \in 1..Len(o) - 1 : Tail(o)[i] = o[i + 1]
        /\ DOMAIN o = 1..Len(o) /\ DOMAIN q = 1..Len(q)
    BY <2>1, <2>2
  <2>4. /\ Len(Append(q, Head(o))) = Len(q) + 1 /\ DOMAIN Append(q, Head(o)) = 1..Len(q) + 1
        /\ \A i \in 1..Len(q) : Append(q, Head(o))[i] = q[i]
        /\ Append(q, Head(o))[Len(q) + 1] = Head(o)
    BY <2>3
  <2>5. \A i \in 1..Len(q) : ~q[i].current BY <2>1, <2>2, <2>3
  <2>6. \A i \in 1..Len(o) : o[i].current => i = Len(o) BY <2>2, <2>3
  <2>7. \A i \in 1..Len(q) + 1 : Append(q, Head(o))[i].current => i = Len(q) + 1 /\ Tail(o) = <<>>
    <3> SUFFICES ASSUME NEW i \in 1..Len(q) + 1, Append(q, Head(o))[i].current
                 PROVE  i = Len(q) + 1 /\ Tail(o) = <<>>
      OBVIOUS
    <3>1. i = Len(q) + 1 BY <2>3, <2>4, <2>5
    <3>2. 1 = Len(o)
      <4>1. 1 \in 1..Len(o) /\ o[1].current BY <2>3, <2>4, <3>1
      <4> QED BY <2>6, <4>1
    <3>3. Tail(o) = <<>> BY <3>2, SoleFacts
    <3> QED BY <3>1, <3>3
  <2>8. \A i \in 1..Len(o) - 1 : Tail(o)[i].current => i = Len(o) - 1
    <3> SUFFICES ASSUME NEW i \in 1..Len(o) - 1, Tail(o)[i].current PROVE i = Len(o) - 1
      OBVIOUS
    <3>1. i + 1 \in 1..Len(o) /\ o[i + 1].current BY <2>3
    <3>2. i + 1 = Len(o) BY <2>6, <3>1
    <3>3. i \in Int /\ Len(o) \in Int BY <2>3
    <3> QED BY <3>2, <3>3
  <2> QED BY <2>1, <2>2, <2>3, <2>4, <2>7, <2>8
<1>6. ASSUME NEW left \in {<<>>, input}, input' = Outdated(left)
      PROVE  \A i \in DOMAIN input' : ~input'[i].current
  <2>1. left \in Seq(Answers) BY <1>3, EmptyFacts
  <2> QED BY <1>6, <2>1, OutdatedFacts
<1>7. CASE Ask
  <2>1. PICK left \in {<<>>, input} : input' = Outdated(left) BY <1>7 DEF Ask, InputBefore, Flush
  <2>2. PICK response \in Responses : owed' = Outdated(owed) \o response BY <1>7 DEF Ask
  <2>3. PICK o \in Seq(Answers), r \in Seq(Answers) : o = Outdated(owed) /\ r = response
    BY <1>3, OutdatedFacts, ResponseFacts
  <2>4. Len(r) = 0 \/ Len(r) = 1
    <3>1. Len(response) = 0 \/ Len(response) = 1 BY DEF Responses
    <3> QED BY <2>3, <3>1
  <2>5. \A i \in 1..Len(o) : ~o[i].current
    <3>1. \A i \in DOMAIN o : ~o[i].current BY <1>3, <2>3, OutdatedFacts
    <3> QED BY <3>1, RangeFacts
  <2>6. /\ Len(o \o r) = Len(o) + Len(r) /\ DOMAIN (o \o r) = 1..Len(o) + Len(r)
        /\ \A i \in 1..Len(o) : (o \o r)[i] = o[i]
        /\ Len(o) \in Nat /\ Len(r) \in Nat
    OBVIOUS
  <2>7. \A i \in DOMAIN owed' : owed'[i].current => i = Len(owed')
    <3> SUFFICES ASSUME NEW i \in 1..Len(o) + Len(r), (o \o r)[i].current
                 PROVE  i = Len(o) + Len(r)
      BY <2>2, <2>3, <2>6
    <3>1. i \notin 1..Len(o) BY <2>5, <2>6
    <3>2. i \in Int /\ Len(o) \in Nat BY <2>6
    <3>3. i = Len(o) + 1 /\ Len(r) = 1 BY <2>4, <3>1, <3>2
    <3> QED BY <3>3
  <2>8. \A i \in DOMAIN input' : ~input'[i].current BY <1>6, <2>1
  <2> QED BY <2>7, <2>8
<1>8. CASE AskRefused
  <2>1. PICK left \in {<<>>, input} : input' = Outdated(left)
    BY <1>8 DEF AskRefused, InputBefore, Flush
  <2>2. \A i \in DOMAIN input' : ~input'[i].current BY <1>6, <2>1
  <2> QED BY <1>8, <2>2 DEF AskRefused
<1>9. CASE ReadRegisters \/ ReadException
  <2>1. CASE input' = Tail(input)
    <3>1. input # <<>> /\ UNCHANGED owed BY <1>9 DEF ReadRegisters, ReadException
    <3>2. PICK q \in Seq(Answers) : q = input BY <1>3
    <3>3. /\ Len(q) \in Nat /\ Len(q) > 0 /\ DOMAIN Tail(q) = 1..Len(q) - 1 /\ DOMAIN q = 1..Len(q)
          /\ Len(Tail(q)) = Len(q) - 1 /\ \A i \in 1..Len(q) - 1 : Tail(q)[i] = q[i + 1]
      BY <3>1, <3>2
    <3>4. \A i \in 1..Len(q) - 1 : Tail(q)[i].current => i = Len(q) - 1 /\ owed = <<>>
      <4> SUFFICES ASSUME NEW i \in 1..Len(q) - 1, Tail(q)[i].current
                   PROVE  i = Len(q) - 1 /\ owed = <<>>
        OBVIOUS
      <4>1. i + 1 \in DOMAIN q /\ q[i + 1].current BY <3>3
      <4>2. i + 1 = Len(q) /\ owed = <<>> BY <3>2, <4>1
      <4>3. i \in Int /\ Len(q) \in Int BY <3>3
      <4> QED BY <4>2, <4>3
    <3> QED BY <2>1, <3>1, <3>2, <3>3, <3>4
  <2>2. CASE input' = <<>>
    BY <1>9, <2>2, EmptyFacts DEF ReadRegisters, ReadException
  <2> QED BY <1>9, <2>1, <2>2 DEF ReadRegisters, ReadException, InputAfter, Flush
<1>10. CASE ReadRefused \/ ReadTimesOut
  <2>1. SleepAndFlush BY <1>10 DEF ReadRefused, ReadTimesOut, Recovery
  <2>2. PICK k \in 1..Len(owed) + 1 : owed' = SubSeq(owed, k, Len(owed)) BY <2>1 DEF SleepAndFlush
  <2>3. PICK o \in Seq(Answers) : o = owed BY <1>3
  <2>4. /\ Len(o) \in Nat /\ DOMAIN o = 1..Len(o) /\ Len(SubSeq(o, k, Len(o))) = Len(o) - k + 1
        /\ DOMAIN SubSeq(o, k, Len(o)) = 1..Len(o) - k + 1
        /\ \A i \in 1..Len(o) - k + 1 : SubSeq(o, k, Len(o))[i] = o[k + i - 1]
    BY <2>3, SubSeqProperties
  <2>5. \A i \in 1..Len(o) - k + 1 : SubSeq(o, k, Len(o))[i].current => i = Len(o) - k + 1
    <3> SUFFICES ASSUME NEW i \in 1..Len(o) - k + 1, SubSeq(o, k, Len(o))[i].current
                 PROVE  i = Len(o) - k + 1
      OBVIOUS
    <3>1. k \in 1..Len(o) + 1 BY <2>3
    <3>2. k + i - 1 \in DOMAIN o /\ o[k + i - 1].current BY <2>4, <3>1
    <3>3. k + i - 1 = Len(o) BY <2>3, <3>2 DEF LastCurrent
    <3>4. i \in Int /\ k \in Int /\ Len(o) \in Int BY <2>4, <3>1
    <3> QED BY <3>3, <3>4
  <2> QED BY <2>1, <2>2, <2>3, <2>4, <2>5, EmptyFacts DEF SleepAndFlush
<1> QED BY <1>4, <1>5, <1>7, <1>8, <1>9, <1>10 DEF Next, ThreadStep

\* A read that ends while the server is good takes with it, or flushes, all
\* there is; the next request is then alone until it is answered.
LEMMA SteadyStep ==
  ASSUME TypeOK, Typed, LastCurrent, SteadyLine, [Next]_vars
  PROVE  SteadyLine'
<1> USE DEF SteadyLine, threadVars, lineVars, serverVars, Unlinked, Settles
<1>0. /\ owed \in Seq(Answers) /\ input \in Seq(Answers) BY DEF Typed
<1>1. CASE UNCHANGED <<pc, owed, input, server, steady>> BY <1>1 DEF Alone
<1>2. CASE pc # "waiting" /\ pc' # "waiting" /\ UNCHANGED <<owed, input, server, steady>>
  BY <1>2
<1>3. CASE pc' # "waiting" /\ owed' = <<>> /\ input' = <<>> /\ Settles
  BY <1>3
<1>4. CASE ServerChanges BY <1>4 DEF ServerChanges
<1>5. CASE Wake \/ Select \/ AtRest \/ UNCHANGED vars \/ Open
  BY <1>1, <1>2, <1>5 DEF Wake, Select, AtRest, Open, vars
<1>6. CASE SendBoth BY <1>3, <1>6 DEF SendBoth
<1>7. CASE ConnectionLost BY <1>7 DEF ConnectionLost
<1>8. CASE Reconnect BY <1>2, <1>8 DEF Reconnect, NextGroup
<1>9. CASE ReadFails BY <1>9 DEF ReadFails, GiveUp, NextGroup
<1>10. CASE Arrives
  <2> SUFFICES ASSUME steady PROVE SteadyLine'
    BY <1>10 DEF Arrives
  <2>1. /\ owed # <<>> /\ input' = Append(input, Head(owed)) /\ owed' = Tail(owed)
        /\ UNCHANGED <<pc, server, steady>>
    BY <1>10 DEF Arrives
  <2>2. pc = "waiting" /\ input = <<>> /\ Alone(owed) BY <1>10, <2>1
  <2>3. PICK o \in Seq(Answers) : o = owed BY <1>0
  <2>4. Len(o) = 1 /\ o[1].current BY <2>2, <2>3 DEF Alone
  <2>5. Tail(o) = <<>> /\ Head(o) = o[1] BY <2>4, SoleFacts
  <2>6. /\ Append(<<>>, Head(o)) = <<Head(o)>> /\ Len(<<Head(o)>>) = 1
        /\ <<Head(o)>>[1] = Head(o)
    OBVIOUS
  <2>7. owed' = <<>> /\ Alone(input') BY <2>1, <2>2, <2>3, <2>4, <2>5, <2>6 DEF Alone
  <2> QED BY <2>1, <2>2, <2>7
<1>11. CASE Ask
  <2> SUFFICES ASSUME steady PROVE SteadyLine'
    BY <1>11 DEF Ask
  <2>1. input = <<>> /\ owed = <<>> /\ server = "good" BY <1>11 DEF Ask
  <2>2. PICK response \in Responses : owed' = Outdated(owed) \o response BY <1>11 DEF Ask
  <2>3. Outdated(owed) = <<>> BY <2>1 DEF Outdated
  <2>4. PICK x : response = <<x>> /\ x.current BY <2>1 DEF Responses
  <2>5. <<>> \o <<x>> = <<x>> /\ Len(<<x>>) = 1 /\ <<x>>[1] = x OBVIOUS
  <2>6. Alone(owed') BY <2>2, <2>3, <2>4, <2>5 DEF Alone
  <2>7. PICK left \in {<<>>, input} : input' = Outdated(left) BY <1>11 DEF Ask, InputBefore, Flush
  <2>8. input' = <<>> BY <2>1, <2>7 DEF Outdated
  <2>9. pc' = "waiting" /\ UNCHANGED server BY <1>11 DEF Ask
  <2> QED BY <2>1, <2>6, <2>8, <2>9 DEF Alone
<1>12. CASE AskRefused
  <2> SUFFICES ASSUME steady PROVE SteadyLine'
    BY <1>12 DEF AskRefused
  <2>1. input = <<>> /\ owed = <<>> /\ server = "good" BY <1>12 DEF AskRefused
  <2>2. PICK left \in {<<>>, input} : input' = Outdated(left)
    BY <1>12 DEF AskRefused, InputBefore, Flush
  <2>3. input' = <<>> BY <2>1, <2>2 DEF Outdated
  <2> QED BY <1>12, <2>1, <2>3 DEF AskRefused, NextGroup
<1>13. CASE ReadRegisters \/ ReadException
  <2>1. /\ input # <<>> /\ Head(input).current /\ UNCHANGED owed /\ Settles
        /\ pc' # "waiting" /\ input' \in {<<>>, Tail(input)}
    BY <1>13 DEF ReadRegisters, ReadException, InputAfter, Flush, NextGroup, GiveUp
  <2>2. PICK q \in Seq(Answers) : q = input BY <1>0
  <2>3. 1 \in DOMAIN q /\ q[1].current /\ Len(q) \in Nat BY <2>1, <2>2
  <2>4. Len(q) = 1 /\ owed = <<>> BY <2>2, <2>3 DEF LastCurrent
  <2>5. Tail(q) = <<>> BY <2>4, SoleFacts
  <2> QED BY <1>3, <2>1, <2>2, <2>4, <2>5
<1>14. CASE ReadRefused \/ ReadTimesOut
  <2>1. SleepAndFlush /\ pc' # "waiting" /\ Settles
    BY <1>14 DEF ReadRefused, ReadTimesOut, Recovery, GiveUp, NextGroup
  <2>2. CASE server = "good"
    <3>1. owed' = SubSeq(owed, Len(owed) + 1, Len(owed)) BY <2>1, <2>2 DEF SleepAndFlush
    <3>2. owed' = <<>>
      <4>1. PICK o \in Seq(Answers) : o = owed BY <1>0
      <4>2. SubSeq(o, Len(o) + 1, Len(o)) = <<>> OBVIOUS
      <4> QED BY <3>1, <4>1, <4>2
    <3> QED BY <1>3, <2>1, <3>2 DEF SleepAndFlush
  <2>3. CASE server # "good" BY <2>1, <2>3
  <2> QED BY <2>2, <2>3
<1> QED BY <1>4, <1>5, <1>6, <1>7, <1>8, <1>9, <1>10, <1>11, <1>12, <1>13, <1>14 DEF Next, ThreadStep

-----------------------------------------------------------------------------
(* The turn and the message.                                               *)

\* What a step does to them: nothing, or the thread goes on to the next group
\* without filing anything, or files what it has read, or sends the message.
LEMMA TurnStep ==
  ASSUME TypeOK, [Next]_vars
  PROVE  \/ /\ UNCHANGED <<turn, todo, message>>
            /\ \/ UNCHANGED <<pc, selected>>
               \/ pc = "opening" /\ pc' \in {"sleep", "dead"} /\ UNCHANGED selected
               \/ pc = "sleep" /\ pc' = "select" /\ UNCHANGED selected
               \/ Select
               \/ pc = "poll" /\ pc' = "waiting" /\ todo # <<>> /\ UNCHANGED selected
         \/ /\ pc \in {"poll", "waiting"} /\ todo # <<>>
            /\ pc' = "poll" /\ todo' = Tail(todo) /\ UNCHANGED <<turn, message, selected>>
         \/ ReadRegisters
         \/ SendBoth
<1> USE DEF threadVars, lineVars
<1>0. pc = "waiting" => todo # <<>> BY DEF TypeOK
<1>1. CASE Open \/ Wake \/ Select \/ Ask
  BY <1>1 DEF Open, Wake, Select, Ask
<1>2. CASE AskRefused \/ ReadException \/ ReadRefused \/ ReadTimesOut \/ ReadFails
  BY <1>0, <1>2 DEF AskRefused, ReadException, ReadRefused, ReadTimesOut, ReadFails, GiveUp, NextGroup
<1>3. CASE Reconnect \/ Arrives \/ ConnectionLost \/ ServerChanges \/ AtRest \/ UNCHANGED vars
  BY <1>3 DEF Reconnect, Recovery, Arrives, ConnectionLost, ServerChanges, AtRest, vars
<1> QED BY <1>1, <1>2, <1>3 DEF Next, ThreadStep

\* What File puts into the message.
LEMMA FileFacts ==
  ASSUME TypeOK, Typed, pc = "waiting", File(Poll.group.elements_count)
  PROVE  \E item \in Filed :
           /\ item.asked = Poll.group.name /\ item.slave = selected
           /\ item.madeUp => MadeUp(Poll, Poll.group.elements_count)
           /\ \/ /\ Poll.part = "attributes"
                 /\ message' = [attributes |-> message.attributes \cup {item},
                                timeseries |-> message.timeseries]
              \/ /\ Poll.part = "timeseries"
                 /\ message' = [attributes |-> message.attributes,
                                timeseries |-> Append(message.timeseries, item)]
<1> DEFINE madeUp == MadeUp(Poll, Poll.group.elements_count)
           item == [asked |-> Poll.group.name, slave |-> selected, madeUp |-> madeUp]
<1>1. madeUp \in BOOLEAN BY DEF MadeUp
<1>2. message' = IF Poll.part = "attributes"
                 THEN [message EXCEPT !.attributes = @ \cup {item}]
                 ELSE [message EXCEPT !.timeseries = Append(@, item)]
  BY DEF File
<1>3. selected \in Slaves \cup {"none"} /\ Poll.group.name \in GroupNames
      /\ Poll.part \in {"attributes", "timeseries"}
  <2>1. PICK i \in 1..Len(Polls(Maps[turn])) + 1 :
          todo = SubSeq(Polls(Maps[turn]), i, Len(Polls(Maps[turn])))
    BY DEF TypeOK
  <2>2. todo # <<>> BY DEF TypeOK
  <2> QED BY <2>1, <2>2, PollFacts DEF TypeOK
<1> HIDE DEF madeUp
<1>4. /\ item \in Filed /\ item.asked = Poll.group.name /\ item.slave = selected
      /\ item.madeUp = madeUp
  BY <1>1, <1>3 DEF Filed
<1> HIDE DEF item
<1>5. \/ /\ Poll.part = "attributes"
         /\ message' = [attributes |-> message.attributes \cup {item},
                        timeseries |-> message.timeseries]
      \/ /\ Poll.part = "timeseries"
         /\ message' = [attributes |-> message.attributes,
                        timeseries |-> Append(message.timeseries, item)]
  BY <1>2, <1>3 DEF Typed
<1>6. item.madeUp => MadeUp(Poll, Poll.group.elements_count) BY <1>4 DEF madeUp
<1> QED BY <1>4, <1>5, <1>6

\* One item more, and the message keeps its type.
LEMMA ItemsFacts ==
  ASSUME Typed, NEW item \in Filed,
         \/ message' = [attributes |-> message.attributes \cup {item},
                        timeseries |-> message.timeseries]
         \/ message' = [attributes |-> message.attributes,
                        timeseries |-> Append(message.timeseries, item)]
  PROVE  /\ message' \in [attributes : SUBSET Filed, timeseries : Seq(Filed)]
         /\ \A x \in Items' : x \in Items \/ x = item
<1>1. message.attributes \subseteq Filed /\ message.timeseries \in Seq(Filed) BY DEF Typed
<1>2. /\ Append(message.timeseries, item) \in Seq(Filed)
      /\ Range(Append(message.timeseries, item)) = Range(message.timeseries) \cup {item}
  BY <1>1, AppendFacts
<1>3. CASE message' = [attributes |-> message.attributes \cup {item},
                       timeseries |-> message.timeseries]
  <2>1. message'.attributes = message.attributes \cup {item} /\ message'.timeseries = message.timeseries
    BY <1>3
  <2>2. Items' = Items \cup {item} BY <2>1 DEF Items
  <2> QED BY <1>1, <1>3, <2>2
<1>4. CASE message' = [attributes |-> message.attributes,
                       timeseries |-> Append(message.timeseries, item)]
  <2>1. /\ message'.attributes = message.attributes
        /\ message'.timeseries = Append(message.timeseries, item)
    BY <1>4
  <2>2. Items' = Items \cup {item} BY <1>2, <2>1 DEF Items
  <2> QED BY <1>1, <1>2, <1>4, <2>2
<1> QED BY <1>3, <1>4

\* A group that asks for all the registers its data points lie in is filed as
\* it was read.
LEMMA NotMadeUp ==
  ASSUME NEW m \in Range(Maps), NEW g \in Groups(m), NEW poll, poll.group = g,
         \A p \in Range(g.data_points) : p.data_type # "Int16" /\ End(p) <= 2 * g.elements_count
  PROVE  ~MadeUp(poll, g.elements_count)
<1> SUFFICES ASSUME NEW p \in Range(g.data_points), End(p) > 2 * g.elements_count PROVE FALSE
  BY DEF MadeUp, Parsed, Tried
<1>1. /\ p.data_offset \in Nat /\ p.data_type \in DataTypes /\ p.data_type # "Int16"
      /\ g.elements_count \in Nat
  BY MapsAssumption
<1>2. Width[p.data_type] \in Nat BY <1>1 DEF Width, DataTypes
<1>3. End(p) \in Nat BY <1>1, <1>2 DEF End
<1>4. End(p) <= 2 * g.elements_count OBVIOUS
<1> QED BY <1>1, <1>3, <1>4


TurnTyped ==
  /\ pc \in States /\ turn \in 1..Len(Maps) /\ (pc = "waiting" => todo # <<>>)
  /\ selected \in Slaves \cup {"none"}
  /\ message \in [attributes : SUBSET Filed, timeseries : Seq(Filed)]

TurnInv == TurnTyped /\ OwnTurn /\ InOrder /\ FiledUnderItsSlave /\ NoMadeUpValues

LEMMA TurnInvStep ==
  ASSUME TypeOK, Typed, TurnInv, [Next]_vars
  PROVE  TurnInv'
<1> USE DEF TurnInv
<1>0. /\ turn \in 1..Len(Maps) /\ selected \in Slaves \cup {"none"} /\ pc \in States
      /\ pc = "waiting" => todo # <<>>
      /\ message \in [attributes : SUBSET Filed, timeseries : Seq(Filed)]
  BY DEF TurnTyped
<1>1. PICK i \in 1..Len(Polls(Maps[turn])) + 1 :
        /\ todo = SubSeq(Polls(Maps[turn]), i, Len(Polls(Maps[turn])))
        /\ \A item \in Range(message.timeseries) :
             \E k \in 1..Len(Maps[turn].timeseries) :
               /\ k + Len(Maps[turn].attributes) < i
               /\ item.asked = Maps[turn].timeseries[k].name
  BY DEF InOrder
\* Nothing is filed, and the poll is the same.
<1>2. CASE /\ UNCHANGED <<turn, todo, message>>
           /\ \/ UNCHANGED <<pc, selected>>
              \/ pc = "opening" /\ pc' \in {"sleep", "dead"} /\ UNCHANGED selected
              \/ pc = "sleep" /\ pc' = "select" /\ UNCHANGED selected
              \/ Select
              \/ pc = "poll" /\ pc' = "waiting" /\ todo # <<>> /\ UNCHANGED selected
  <2>1. selected' \in Slaves \cup {"none"} /\ pc' \in States /\ (pc' = "waiting" => todo' # <<>>)
    BY <1>0, <1>2, MapFacts DEF Select, Slave, States
  <2>2. OwnTurn' BY <1>2 DEF OwnTurn, Select, Slave
  <2>3. InOrder' /\ FiledUnderItsSlave' /\ NoMadeUpValues'
    BY <1>2 DEF InOrder, FiledUnderItsSlave, NoMadeUpValues, Items, Slave
  <2> QED BY <1>0, <1>2, <2>1, <2>2, <2>3 DEF TurnTyped
\* Nothing is filed, and the next poll is due.
<1>3. CASE /\ pc \in {"poll", "waiting"} /\ todo # <<>>
           /\ pc' = "poll" /\ todo' = Tail(todo) /\ UNCHANGED <<turn, message, selected>>
  <2>1. /\ Tail(todo) = SubSeq(Polls(Maps[turn]), i + 1, Len(Polls(Maps[turn])))
        /\ i + 1 \in 1..Len(Polls(Maps[turn])) + 1 /\ i \in Nat
        /\ Len(Maps[turn].attributes) \in Nat
    BY <1>1, <1>3, PollFacts
  <2>2. InOrder'
    <3>1. \A item \in Range(message.timeseries) :
             \E k \in 1..Len(Maps[turn].timeseries) :
               /\ k + Len(Maps[turn].attributes) < i + 1
               /\ item.asked = Maps[turn].timeseries[k].name
      BY <1>1, <2>1
    <3> QED BY <1>3, <2>1, <3>1 DEF InOrder
  <2>3. OwnTurn' /\ FiledUnderItsSlave' /\ NoMadeUpValues'
    BY <1>3 DEF OwnTurn, FiledUnderItsSlave, NoMadeUpValues, Items, Slave
  <2> QED BY <1>0, <1>3, <2>2, <2>3 DEF TurnTyped, States
<1>4. CASE ReadRegisters
  <2>1. pc = "waiting" /\ todo # <<>> /\ UNCHANGED <<turn, selected>> BY <1>0, <1>4 DEF ReadRegisters
  <2>2. CASE pc' = "dead" /\ UNCHANGED <<todo, message>>
    BY <1>0, <2>1, <2>2 DEF TurnTyped, OwnTurn, InOrder, FiledUnderItsSlave, NoMadeUpValues, Items,
                            Slave, States
  <2>3. CASE NextGroup /\ File(Poll.group.elements_count)
    <3>1. PICK item \in Filed :
            /\ item.asked = Poll.group.name /\ item.slave = selected
            /\ item.madeUp => MadeUp(Poll, Poll.group.elements_count)
            /\ \/ /\ Poll.part = "attributes"
                  /\ message' = [attributes |-> message.attributes \cup {item},
                                 timeseries |-> message.timeseries]
               \/ /\ Poll.part = "timeseries"
                  /\ message' = [attributes |-> message.attributes,
                                 timeseries |-> Append(message.timeseries, item)]
      BY <2>1, <2>3, FileFacts
    <3>2. /\ message' \in [attributes : SUBSET Filed, timeseries : Seq(Filed)]
          /\ \A x \in Items' : x \in Items \/ x = item
      BY <3>1, ItemsFacts
    <3>3. pc' = "poll" /\ todo' = Tail(todo) BY <2>3 DEF NextGroup
    <3>4. TurnTyped' BY <1>0, <2>1, <3>2, <3>3 DEF TurnTyped, States
    <3>5. OwnTurn' BY <2>1, <3>3 DEF OwnTurn, Slave
    <3>6. FiledUnderItsSlave'
      BY <2>1, <3>1, <3>2 DEF FiledUnderItsSlave, OwnTurn, Slave
    <3>7. /\ Tail(todo) = SubSeq(Polls(Maps[turn]), i + 1, Len(Polls(Maps[turn])))
          /\ i + 1 \in 1..Len(Polls(Maps[turn])) + 1 /\ i \in Nat
          /\ Len(Maps[turn].attributes) \in Nat
          /\ Poll.group \in Groups(Maps[turn])
          /\ \/ /\ Poll.part = "attributes"
                /\ i \in 1..Len(Maps[turn].attributes) /\ Poll.group = Maps[turn].attributes[i]
             \/ /\ Poll.part = "timeseries"
                /\ i - Len(Maps[turn].attributes) \in 1..Len(Maps[turn].timeseries)
                /\ Poll.group = Maps[turn].timeseries[i - Len(Maps[turn].attributes)]
      BY <1>1, <2>1, PollFacts
    <3>8. InOrder'
      <4>1. \A x \in Range(message.timeseries) :
               \E k \in 1..Len(Maps[turn].timeseries) :
                 /\ k + Len(Maps[turn].attributes) < i + 1
                 /\ x.asked = Maps[turn].timeseries[k].name
        <5> SUFFICES ASSUME NEW x \in Range(message.timeseries)
                     PROVE  \E k \in 1..Len(Maps[turn].timeseries) :
                              /\ k + Len(Maps[turn].attributes) < i + 1
                              /\ x.asked = Maps[turn].timeseries[k].name
          OBVIOUS
        <5>1. PICK k \in 1..Len(Maps[turn].timeseries) :
                /\ k + Len(Maps[turn].attributes) < i
                /\ x.asked = Maps[turn].timeseries[k].name
          BY <1>1
        <5>2. k + Len(Maps[turn].attributes) < i + 1 BY <3>7, <5>1
        <5> QED BY <5>1, <5>2
      <4>2. \A x \in Range(message'.timeseries) :
               \E k \in 1..Len(Maps[turn].timeseries) :
                 /\ k + Len(Maps[turn].attributes) < i + 1
                 /\ x.asked = Maps[turn].timeseries[k].name
        <5>1. CASE Poll.part = "attributes"
          <6>1. message'.timeseries = message.timeseries BY <3>1, <5>1
          <6> QED BY <4>1, <6>1
        <5>2. CASE Poll.part = "timeseries"
          <6>1. message'.timeseries = Append(message.timeseries, item) BY <3>1, <5>2
          <6>2. Range(message'.timeseries) = Range(message.timeseries) \cup {item}
            BY <1>0, <6>1, AppendFacts
          <6>3. \E k \in 1..Len(Maps[turn].timeseries) :
                  /\ k + Len(Maps[turn].attributes) < i + 1
                  /\ item.asked = Maps[turn].timeseries[k].name
            <7>1. PICK k \in 1..Len(Maps[turn].timeseries) :
                    /\ k = i - Len(Maps[turn].attributes) /\ Poll.group = Maps[turn].timeseries[k]
              BY <3>7, <5>2
            <7>2. k + Len(Maps[turn].attributes) < i + 1 BY <3>7, <7>1
            <7> QED BY <3>1, <7>1, <7>2
          <6> QED BY <4>1, <6>2, <6>3
        <5> QED BY <3>1, <5>1, <5>2
      <4> QED BY <2>1, <3>3, <3>7, <4>2 DEF InOrder
    <3>9. NoMadeUpValues'
      <4> SUFFICES ASSUME NEW g \in Groups(Maps[turn]), NEW x \in Items', g.name = x.asked, x.madeUp,
                          \A p \in Range(g.data_points) :
                            p.data_type # "Int16" /\ End(p) <= 2 * g.elements_count
                   PROVE  FALSE
        BY <2>1 DEF NoMadeUpValues
      <4>1. CASE x \in Items BY <4>1 DEF NoMadeUpValues
      <4>2. CASE x = item
        <5>1. Maps[turn] \in Range(Maps) BY <1>0, MapFacts
        <5>2. \A h \in Groups(Maps[turn]) : g.name = h.name => g = h
          BY <5>1, MapsAssumption
        <5>3. Poll.group = g BY <3>1, <3>7, <4>2, <5>2
        <5>4. ~MadeUp(Poll, g.elements_count) BY <5>1, <5>3, NotMadeUp
        <5> QED BY <3>1, <4>2, <5>3, <5>4
      <4> QED BY <3>2, <4>1, <4>2
    <3> QED BY <3>4, <3>5, <3>6, <3>8, <3>9
  <2> QED BY <1>4, <2>2, <2>3 DEF ReadRegisters
<1>5. CASE SendBoth
  <2>1. /\ turn' \in 1..Len(Maps) /\ todo' = Polls(Maps[turn']) /\ pc' \in {"sleep", "select"}
        /\ message' = NoMessage /\ UNCHANGED selected
    BY <1>0, <1>5, MapFacts DEF SendBoth
  <2>2. Items' = {} /\ Range(message'.timeseries) = {}
        /\ message' \in [attributes : SUBSET Filed, timeseries : Seq(Filed)]
    BY <2>1, EmptyFacts DEF Items, NoMessage
  <2>3. PICK t \in 1..Len(Maps) : t = turn' BY <2>1
  <2>4. /\ 1 \in 1..Len(Polls(Maps[t])) + 1
        /\ Polls(Maps[t]) = SubSeq(Polls(Maps[t]), 1, Len(Polls(Maps[t])))
    BY MapFacts, WholeFacts
  <2>5. InOrder' BY <2>1, <2>2, <2>3, <2>4 DEF InOrder
  <2> QED BY <1>0, <2>1, <2>2, <2>5
          DEF TurnTyped, OwnTurn, FiledUnderItsSlave, NoMadeUpValues, States
<1> QED BY <1>2, <1>3, <1>4, <1>5, TurnStep

-----------------------------------------------------------------------------
(* The theorems.                                                           *)

LEMMA InitInv == Init => IInv
<1> SUFFICES ASSUME Init PROVE IInv OBVIOUS
<1>1. /\ pc = "opening" /\ turn = 1 /\ todo = Polls(Maps[1]) /\ message = NoMessage
      /\ selected = "none" /\ link = "closed" /\ owed = <<>> /\ input = <<>>
      /\ steady = FALSE /\ server \in {"good", "bad"}
  BY DEF Init
<1>2. 1 \in 1..Len(Maps) BY MapFacts
<1>3. /\ 1 \in 1..Len(Polls(Maps[1])) + 1
      /\ Polls(Maps[1]) = SubSeq(Polls(Maps[1]), 1, Len(Polls(Maps[1])))
  BY <1>2, MapFacts, WholeFacts
<1>4. /\ Items = {} /\ Range(message.timeseries) = {}
      /\ message \in [attributes : SUBSET Filed, timeseries : Seq(Filed)]
  BY <1>1, EmptyFacts DEF Items, NoMessage
<1>5. InOrder BY <1>1, <1>3, <1>4 DEF InOrder
<1>6. TypeOK BY <1>1, <1>2, <1>3, <1>4, EmptyFacts DEF TypeOK, States
<1>7. Typed BY <1>1, <1>4, EmptyFacts DEF Typed
<1>8. LastCurrent BY <1>1, EmptyFacts DEF LastCurrent
<1> QED BY <1>1, <1>4, <1>5, <1>6, <1>7, <1>8
        DEF IInv, OwnTurn, FiledUnderItsSlave, NoMadeUpValues, SteadyLine

LEMMA Invariant == Spec => []IInv
<1>1. IInv /\ [Next]_vars => IInv'
  <2> SUFFICES ASSUME IInv, [Next]_vars PROVE IInv' OBVIOUS
  <2>1. TurnInv
    BY DEF IInv, TurnInv, TurnTyped, TypeOK, Typed
  <2>2. TurnInv' BY <2>1, TurnInvStep DEF IInv
  <2>3. /\ owed' \in Seq(Answers) /\ input' \in Seq(Answers)
        /\ link' \in {"open", "closed"} /\ steady' \in BOOLEAN /\ server' \in {"good", "bad"}
        /\ link' = "closed" => owed' = <<>> /\ input' = <<>>
        /\ pc' = "waiting" => link' = "open"
        /\ pc' = "opening" => link' = "closed"
    BY LineStep DEF IInv
  <2>4. LastCurrent' /\ SteadyLine' BY LastStep, SteadyStep DEF IInv
  <2>5. Typed' BY <2>2, <2>3 DEF Typed, TurnInv, TurnTyped
  <2>6. TypeOK'
    <3>1. \A a \in Range(owed') \cup Range(input') : a.current \in BOOLEAN /\ a.registers \in BOOLEAN
      <4>1. Range(owed') \subseteq Answers /\ Range(input') \subseteq Answers BY <2>3, RangeFacts
      <4> QED BY <4>1 DEF Answers
    <3>2. \A item \in Items' : item.asked \in GroupNames /\ item.madeUp \in BOOLEAN
      <4>1. Range(message'.timeseries) \subseteq Filed /\ message'.attributes \subseteq Filed
        BY <2>5, RangeFacts DEF Typed
      <4> QED BY <4>1 DEF Items, Filed
    <3>3. \E i \in 1..Len(Polls(Maps[turn'])) + 1 :
            todo' = SubSeq(Polls(Maps[turn']), i, Len(Polls(Maps[turn'])))
      BY <2>2 DEF TurnInv, InOrder
    <3>4. TurnTyped' BY <2>2 DEF TurnInv
    <3> QED BY <2>3, <3>1, <3>2, <3>3, <3>4 DEF TypeOK, TurnTyped
  <2> QED BY <2>2, <2>4, <2>5, <2>6 DEF IInv, TurnInv
<1> QED BY <1>1, InitInv, PTL DEF Spec

\* Every variable has its type, whatever the server does.
THEOREM TypeCorrect == Spec => []TypeOK
<1>1. IInv => TypeOK BY DEF IInv
<1> QED BY <1>1, Invariant, PTL

\* For any number of slaves in a round, whatever is filed under one that can be
\* addressed was read from it.
THEOREM ReadFromItsSlave == Spec => []FiledUnderItsSlave
<1>1. IInv => FiledUnderItsSlave BY DEF IInv
<1> QED BY <1>1, Invariant, PTL

\* No failed read leaves its zeros in a message, for any counts and offsets.
THEOREM NothingMadeUp == Spec => []NoMadeUpValues
<1>1. IInv => NoMadeUpValues BY DEF IInv
<1> QED BY <1>1, Invariant, PTL

\* Once a read has returned or the connection was closed, and for as long as the
\* server then stays good, no poll fails over an old answer or waits in vain.
THEOREM LateAnswersCostOne == Spec => LateAnswersEnd
<1>1. IInv => (ReadRefused \/ ReadTimesOut => ~steady)
  <2> SUFFICES ASSUME IInv, ReadRefused \/ ReadTimesOut, steady PROVE FALSE OBVIOUS
  <2>1. /\ server = "good" /\ pc = "waiting"
        /\ \/ input = <<>> /\ Alone(owed)
           \/ owed = <<>> /\ Alone(input)
    BY DEF IInv, SteadyLine, ReadRefused, ReadTimesOut
  <2>2. owed \in Seq(Answers) /\ input \in Seq(Answers) BY DEF IInv, Typed
  <2>3. PICK o \in Seq(Answers), q \in Seq(Answers) : o = owed /\ q = input BY <2>2
  <2>4. CASE input = <<>> /\ Alone(owed)
    <3>1. 1 \in DOMAIN o /\ o[1].current BY <2>3, <2>4 DEF Alone
    <3> QED BY <2>1, <2>3, <2>4, <3>1 DEF ReadRefused, ReadTimesOut
  <2>5. CASE owed = <<>> /\ Alone(input)
    <3>1. q # <<>> /\ Head(q).current BY <2>3, <2>5, SoleFacts DEF Alone
    <3> QED BY <2>3, <3>1 DEF ReadRefused, ReadTimesOut
  <2> QED BY <2>1, <2>4, <2>5
<1>2. Spec => [][Next]_vars BY DEF Spec
<1> QED BY <1>1, <1>2, Invariant, PTL DEF LateAnswersEnd

\* Where every slave's id is accepted, what tcp.rs:85 says is true: only a
\* refused id makes the channel read from another slave.
THEOREM OnlyRefusedIdsMislead ==
  ASSUME \A m \in Range(Maps) : m.addressable
  PROVE  Spec => []CorrectModbusId
<1>1. IInv => CorrectModbusId
  <2> SUFFICES ASSUME IInv PROVE CorrectModbusId OBVIOUS
  <2>1. Maps[turn] \in Range(Maps) BY MapFacts DEF IInv, TypeOK
  <2>2. Maps[turn].addressable BY <2>1
  <2> QED BY <2>2 DEF IInv, FiledUnderItsSlave, CorrectModbusId
<1> QED BY <1>1, Invariant, PTL

LEMMA RefinesInit == Init => Channel!Init
BY NoNames DEF Init, Channel!Init, NoMessage

\* What a step that changes neither turn nor message does to Polling.
LEMMA RefinesStep == IInv /\ [Next]_vars => [Channel!Next]_Channel!vars
<1> SUFFICES ASSUME IInv, [Next]_vars PROVE [Channel!Next]_Channel!vars OBVIOUS
<1> USE DEF Channel!vars
<1>0. TypeOK /\ Typed /\ turn \in 1..Len(Maps) BY DEF IInv, TypeOK
<1>1. CASE UNCHANGED <<turn, message>>
  <2>1. CASE UNCHANGED (pc # "dead") BY <1>1, <2>1
  <2>2. CASE (pc # "dead") = TRUE /\ (pc # "dead")' = FALSE
    BY <1>1, <2>2 DEF Channel!Next, Channel!Die
  <2>3. pc = "dead" => pc' = "dead"
    BY <1>0, <1>1, TurnStep DEF Select, ReadRegisters, SendBoth
  <2> QED BY <2>1, <2>2, <2>3
<1>2. CASE ReadRegisters /\ ~UNCHANGED message
  <2>1. /\ pc = "waiting" /\ pc' = "poll" /\ todo # <<>> /\ UNCHANGED turn
        /\ File(Poll.group.elements_count)
    BY <1>0, <1>2 DEF ReadRegisters, NextGroup, TypeOK
  <2>2. PICK item \in Filed :
          /\ item.asked = Poll.group.name /\ item.slave = selected
          /\ item.madeUp => MadeUp(Poll, Poll.group.elements_count)
          /\ \/ /\ Poll.part = "attributes"
                /\ message' = [attributes |-> message.attributes \cup {item},
                               timeseries |-> message.timeseries]
             \/ /\ Poll.part = "timeseries"
                /\ message' = [attributes |-> message.attributes,
                               timeseries |-> Append(message.timeseries, item)]
    BY <1>0, <2>1, FileFacts
  <2>3. PICK i \in 1..Len(Polls(Maps[turn])) + 1 :
          /\ todo = SubSeq(Polls(Maps[turn]), i, Len(Polls(Maps[turn])))
          /\ \A x \in Range(message.timeseries) :
               \E k \in 1..Len(Maps[turn].timeseries) :
                 /\ k + Len(Maps[turn].attributes) < i
                 /\ x.asked = Maps[turn].timeseries[k].name
    BY DEF IInv, InOrder
  <2>4. /\ i \in Nat /\ Len(Maps[turn].attributes) \in Nat
        /\ \/ /\ Poll.part = "attributes"
              /\ i \in 1..Len(Maps[turn].attributes) /\ Poll.group = Maps[turn].attributes[i]
           \/ /\ Poll.part = "timeseries"
              /\ i - Len(Maps[turn].attributes) \in 1..Len(Maps[turn].timeseries)
              /\ Poll.group = Maps[turn].timeseries[i - Len(Maps[turn].attributes)]
    BY <1>0, <2>1, <2>3, PollFacts
  <2>5. /\ Maps[turn].attributes \in Seq(Groups(Maps[turn]))
        /\ Maps[turn].timeseries \in Seq(Groups(Maps[turn]))
    BY <1>0, MapFacts
  <2>6. /\ DOMAIN Maps[turn].attributes = 1..Len(Maps[turn].attributes)
        /\ DOMAIN Maps[turn].timeseries = 1..Len(Maps[turn].timeseries)
    BY <2>5, RangeFacts
  <2>7. message.timeseries \in Seq(Filed) BY <1>0 DEF Typed
  <2> DEFINE names == [j \in DOMAIN message.timeseries |-> message.timeseries[j].asked]
  <2>8. CASE Poll.part = "attributes"
    <3>1. /\ message'.attributes = message.attributes \cup {item}
          /\ message'.timeseries = message.timeseries
      BY <2>2, <2>8
    <3>2. message.timeseries = <<>>
      <4>1. Range(message.timeseries) = {} BY <2>3, <2>4, <2>8
      <4> QED BY <2>7, <4>1, RangeFacts, EmptySeq
    <3>3. names = <<>> BY <3>2, NoNames
    <3>4. /\ i \in DOMAIN Maps[turn].attributes
          /\ {x.asked : x \in message'.attributes}
               = {x.asked : x \in message.attributes} \cup {Maps[turn].attributes[i].name}
      BY <2>2, <2>4, <2>6, <2>8, <3>1
    <3>5. Channel!FileAttributes
      BY <2>1, <3>1, <3>3, <3>4 DEF Channel!FileAttributes
    <3> QED BY <3>5 DEF Channel!Next
  <2>9. CASE Poll.part = "timeseries"
    <3>1. /\ message'.attributes = message.attributes
          /\ message'.timeseries = Append(message.timeseries, item)
      BY <2>2, <2>9
    <3>2. PICK n \in 1..Len(Maps[turn].timeseries) :
            n = i - Len(Maps[turn].attributes) /\ Poll.group = Maps[turn].timeseries[n]
      BY <2>4, <2>9
    <3>3. names' = Append(names, Maps[turn].timeseries[n].name)
      <4>q. PICK q \in Seq(Filed) : q = message.timeseries BY <2>7
      <4>n. [j \in DOMAIN Append(q, item) |-> Append(q, item)[j].asked]
              = Append([j \in DOMAIN q |-> q[j].asked], item.asked)
        BY NamesFacts
      <4>1. names' = Append(names, item.asked) BY <3>1, <4>q, <4>n
      <4>2. item.asked = Maps[turn].timeseries[n].name BY <2>2, <3>2
      <4> QED BY <4>1, <4>2
    <3>4. \A j \in DOMAIN names : \E k \in 1..n - 1 : names[j] = Maps[turn].timeseries[k].name
      <4> SUFFICES ASSUME NEW j \in DOMAIN message.timeseries
                   PROVE  \E k \in 1..n - 1 : message.timeseries[j].asked = Maps[turn].timeseries[k].name
        OBVIOUS
      <4>1. message.timeseries[j] \in Range(message.timeseries) BY <2>7, RangeFacts
      <4>2. PICK k \in 1..Len(Maps[turn].timeseries) :
              /\ k + Len(Maps[turn].attributes) < i
              /\ message.timeseries[j].asked = Maps[turn].timeseries[k].name
        BY <2>3, <4>1
      <4>3. k \in 1..n - 1 BY <2>4, <3>2, <4>2
      <4> QED BY <4>2, <4>3
    <3>5. n \in DOMAIN Maps[turn].timeseries BY <2>6, <3>2
    <3>6. Channel!FileTimeseries
      BY <2>1, <3>1, <3>3, <3>4, <3>5 DEF Channel!FileTimeseries
    <3> QED BY <3>6 DEF Channel!Next
  <2> QED BY <2>4, <2>8, <2>9
<1>3. CASE SendBoth
  <2>1. /\ pc = "poll" /\ pc' # "dead" /\ message' = NoMessage
        /\ turn' = IF turn = Len(Maps) THEN 1 ELSE turn + 1
    BY <1>3 DEF SendBoth
  <2>2. Channel!Report BY <2>1, NoNames DEF Channel!Report, NoMessage
  <2> QED BY <2>2 DEF Channel!Next
<1>4. ReadRegisters => UNCHANGED turn BY DEF ReadRegisters
<1> QED BY <1>0, <1>1, <1>2, <1>3, <1>4, TurnStep

\* The channel implements Polling: turns come one after the other, and each
\* message holds groups of its slave alone, in the order of the register map.
THEOREM Implements == Spec => ReportsInTurn
<1>1. Init /\ [][Next]_vars /\ []IInv => Channel!Init /\ [][Channel!Next]_Channel!vars
  BY RefinesInit, RefinesStep, PTL
<1> QED BY <1>1, Invariant, PTL DEF Spec, ReportsInTurn, Channel!Spec

=============================================================================
