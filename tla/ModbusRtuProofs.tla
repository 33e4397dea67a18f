-------------------------- MODULE ModbusRtuProofs ---------------------------
(***************************************************************************)
(* Proofs about ModbusRtu, for any register maps and an input buffer of    *)
(* any size, and however slow or confused the slaves are: its type         *)
(* invariant, that an answer is filed under its slave and its registers,   *)
(* that a whole answer on a quiet line is not missed, and that the channel *)
(* implements Polling.                                                     *)
(***************************************************************************)
EXTENDS ModbusRtu, PollingFacts

\* What is on the line, what a slave owes, and what is filed in a message.
Unit    == [slave : Slaves, group : GroupNames, label : Labels, n : 1..LongLen]
Pending == [group : GroupNames, units : {1, LongLen}, sent : 0..LongLen, label : Labels]
Filed   == [asked : GroupNames, slave : Slaves, group : GroupNames, label : Labels]

\* The line and the message have their types.
Typed ==
  /\ head \in Seq(Unit) /\ input \in Seq(Unit)
  /\ owed \in [Slaves -> Pending \cup {Nothing}]
  /\ \A s \in Slaves : owed[s] # Nothing => owed[s].sent < owed[s].units
  /\ message \in [attributes : SUBSET Filed, timeseries : Seq(Filed)]

\* The beginning of an answer that is "gone" was cleared.
GoneHeadless ==
  /\ \A u \in Range(head) \cup Range(input) : u.label = "gone" => u.n # 1
  /\ \A s \in Slaves : owed[s] # Nothing /\ owed[s].label = "gone" => owed[s].sent > 0

\* What is "current" on the line was asked for by the current poll.
CurrentAsked ==
  pc \in {"head", "tail"} =>
    /\ \A u \in Range(head) \cup Range(input) :
         u.label = "current" => u.group = Poll.group.name
    /\ \A s \in Slaves : owed[s].label = "current" => s = Slave /\ owed[s].group = Poll.group.name

\* All that a telemetry poll has got from a quiet line is the beginning of its
\* answer, and the slave goes on where it ends.
QuietLine ==
  pc \in {"head", "tail"} /\ Poll.part = "timeseries" /\ ~noise =>
    /\ \A i \in 1..Len(head \o input) :
         /\ (head \o input)[i].n = i
         /\ (head \o input)[i].slave = Slave
         /\ (head \o input)[i].group = Poll.group.name
    /\ owed[Slave].label = "current" => answered = "none" /\ owed[Slave].sent = Len(head \o input)
    /\ answered = "long" => Len(head \o input) = LongLen

\* The telemetry in the message is of groups that were polled before.
InOrder ==
  LET m == Maps[turn] IN
  \E i \in 1..Len(Polls(m)) + 1 :
    /\ todo = SubSeq(Polls(m), i, Len(Polls(m)))
    /\ \A item \in Range(message.timeseries) :
         \E k \in 1..Len(m.timeseries) :
           k + Len(m.attributes) < i /\ item.asked = m.timeseries[k].name

\* The inductive invariant.
IInv ==
  /\ TypeOK /\ Typed /\ InOrder
  /\ GoneHeadless /\ CurrentAsked /\ QuietLine /\ FiledRight


-----------------------------------------------------------------------------
(* The register maps.                                                      *)

LEMMA MapFacts ==
  /\ Len(Maps) \in Nat /\ Len(Maps) > 0
  /\ \A t \in 1..Len(Maps) :
       /\ Maps[t] \in Range(Maps) /\ Maps[t].slave \in Slaves
       /\ Maps[t].attributes \in Seq(Groups(Maps[t])) /\ Maps[t].timeseries \in Seq(Groups(Maps[t]))
       /\ Polls(Maps[t]) = PollsFor(Maps[t].attributes, Maps[t].timeseries)
       /\ Polls(Maps[t]) \in Seq(PollSet(Groups(Maps[t])))
       /\ \A g \in Groups(Maps[t]) : g.name \in GroupNames /\ g.units \in {0, 1, LongLen}
<1>1. Maps \in Seq(Range(Maps)) BY MapsAssumption
<1>2. Len(Maps) \in Nat /\ Len(Maps) > 0 /\ \A t \in 1..Len(Maps) : Maps[t] \in Range(Maps)
  BY <1>1, MapsAssumption, RangeFacts
<1>3. ASSUME NEW t \in 1..Len(Maps)
      PROVE  /\ Maps[t].slave \in Slaves
             /\ Maps[t].attributes \in Seq(Groups(Maps[t]))
             /\ Maps[t].timeseries \in Seq(Groups(Maps[t]))
             /\ Polls(Maps[t]) = PollsFor(Maps[t].attributes, Maps[t].timeseries)
             /\ Polls(Maps[t]) \in Seq(PollSet(Groups(Maps[t])))
             /\ \A g \in Groups(Maps[t]) : g.name \in GroupNames /\ g.units \in {0, 1, LongLen}
  <2>1. PICK m \in Range(Maps) : m = Maps[t] BY <1>2
  <2>2. m.slave \in Slaves BY DEF Slaves
  <2>3. m.attributes \in Seq(Groups(m)) /\ m.timeseries \in Seq(Groups(m)) BY MapsAssumption
  <2>4. Polls(m) = PollsFor(m.attributes, m.timeseries) BY DEF Polls, PollsFor
  <2>5. PollsFor(m.attributes, m.timeseries) \in Seq(PollSet(Groups(m)))
    BY <2>3, PollsFacts DEF AskInOrder
  <2>6. \A g \in Groups(m) : g.name \in GroupNames /\ g.units \in {0, 1, LongLen}
    BY MapsAssumption DEF GroupNames
  <2> QED BY <2>1, <2>2, <2>3, <2>4, <2>5, <2>6
<1> QED BY <1>2, <1>3

\* The poll that is due, when i - 1 polls of the turn are done.
LEMMA PollFacts ==
  ASSUME TypeOK, todo # <<>>, NEW i \in 1..Len(Polls(Maps[turn])) + 1,
         todo = SubSeq(Polls(Maps[turn]), i, Len(Polls(Maps[turn])))
  PROVE  /\ Tail(todo) = SubSeq(Polls(Maps[turn]), i + 1, Len(Polls(Maps[turn])))
         /\ i + 1 \in 1..Len(Polls(Maps[turn])) + 1 /\ i \in Nat
         /\ Len(Maps[turn].attributes) \in Nat
         /\ Poll.group \in Groups(Maps[turn]) /\ Poll.group.name \in GroupNames
         /\ Poll.group.units \in {0, 1, LongLen}
         /\ \/ /\ Poll.part = "attributes"
               /\ i \in 1..Len(Maps[turn].attributes) /\ Poll.group = Maps[turn].attributes[i]
            \/ /\ Poll.part = "timeseries"
               /\ i - Len(Maps[turn].attributes) \in 1..Len(Maps[turn].timeseries)
               /\ Poll.group = Maps[turn].timeseries[i - Len(Maps[turn].attributes)]
<1>1. turn \in 1..Len(Maps) BY DEF TypeOK
<1>2. PICK m \in Range(Maps) : m = Maps[turn] BY <1>1, MapFacts
<1>3. /\ m.attributes \in Seq(Groups(m)) /\ m.timeseries \in Seq(Groups(m))
      /\ Polls(m) = PollsFor(m.attributes, m.timeseries)
      /\ \A g \in Groups(m) : g.name \in GroupNames /\ g.units \in {0, 1, LongLen}
  BY <1>1, <1>2, MapFacts
<1>4. PICK a \in Seq(Groups(m)), s \in Seq(Groups(m)) : a = m.attributes /\ s = m.timeseries
  BY <1>3
<1>5. /\ Tail(todo) = SubSeq(Polls(m), i + 1, Len(Polls(m)))
      /\ i + 1 \in 1..Len(Polls(m)) + 1
      /\ \/ Poll.part = "attributes" /\ i \in 1..Len(m.attributes) /\ Poll.group = m.attributes[i]
         \/ /\ Poll.part = "timeseries"
            /\ i - Len(m.attributes) \in 1..Len(m.timeseries)
            /\ Poll.group = m.timeseries[i - Len(m.attributes)]
  <2>1. Polls(m) = PollsFor(a, s) BY <1>3, <1>4
  <2>2. i \in 1..Len(PollsFor(a, s)) + 1 /\ todo = SubSeq(PollsFor(a, s), i, Len(PollsFor(a, s)))
    BY <1>2, <2>1
  <2>3. /\ Tail(todo) = SubSeq(PollsFor(a, s), i + 1, Len(PollsFor(a, s)))
        /\ i + 1 \in 1..Len(PollsFor(a, s)) + 1
        /\ \/ Head(todo).part = "attributes" /\ i \in 1..Len(a) /\ Head(todo).group = a[i]
           \/ /\ Head(todo).part = "timeseries"
              /\ i - Len(a) \in 1..Len(s) /\ Head(todo).group = s[i - Len(a)]
    BY <2>2, NextPoll, SMTT(30)
  <2>4. Poll = Head(todo) BY DEF Poll
  <2>5. CASE Head(todo).part = "attributes" /\ i \in 1..Len(a) /\ Head(todo).group = a[i]
    BY <1>4, <2>1, <2>3, <2>4, <2>5
  <2>6. CASE /\ Head(todo).part = "timeseries"
             /\ i - Len(a) \in 1..Len(s) /\ Head(todo).group = s[i - Len(a)]
    BY <1>4, <2>1, <2>3, <2>4, <2>6
  <2> QED BY <2>3, <2>5, <2>6
<1>6. Poll.group \in Groups(m) /\ Len(m.attributes) \in Nat
  <2>1. /\ Len(a) \in Nat /\ \A k \in 1..Len(a) : a[k] \in Groups(m)
        /\ \A k \in 1..Len(s) : s[k] \in Groups(m)
    BY RangeFacts
  <2> QED BY <1>4, <1>5, <2>1
<1> QED BY <1>2, <1>3, <1>5, <1>6

-----------------------------------------------------------------------------
(* The line.                                                               *)

\* Nothing is not an answer, and an answer that is labelled anew is one.
LEMMA PendingFacts ==
  /\ Nothing \notin Pending /\ Nothing.label = "gone"
  /\ \A o \in Pending, l \in Labels :
       /\ [o EXCEPT !.label = l] \in Pending
       /\ [o EXCEPT !.label = l].sent = o.sent /\ [o EXCEPT !.label = l].units = o.units
       /\ [o EXCEPT !.label = l].group = o.group /\ [o EXCEPT !.label = l].label = l
  /\ \A o \in Pending, n \in 0..LongLen :
       /\ [o EXCEPT !.sent = n] \in Pending /\ [o EXCEPT !.sent = n].sent = n
       /\ [o EXCEPT !.sent = n].units = o.units /\ [o EXCEPT !.sent = n].group = o.group
       /\ [o EXCEPT !.sent = n].label = o.label
  /\ [Nothing EXCEPT !.label = "gone"] = Nothing
BY DEF Nothing, Pending, Labels, LongLen

\* A write leaves nothing current that is still owed, and nothing gone of which
\* nothing had arrived.
LEMMA OutdatedFacts ==
  ASSUME Typed, NEW cleared \in BOOLEAN
  PROVE  /\ Outdated(cleared) \in [Slaves -> Pending \cup {Nothing}]
         /\ \A s \in Slaves :
              /\ Outdated(cleared)[s].label # "current"
              /\ Outdated(cleared)[s] # Nothing =>
                   /\ Outdated(cleared)[s].sent < Outdated(cleared)[s].units
                   /\ Outdated(cleared)[s].label = "gone" => Outdated(cleared)[s].sent > 0
<1> DEFINE new == Outdated(cleared)
<1>1. ASSUME NEW s \in Slaves
      PROVE  /\ new[s] \in Pending \cup {Nothing} /\ new[s].label # "current"
             /\ new[s] # Nothing => new[s].sent < new[s].units /\ (new[s].label = "gone" => new[s].sent > 0)
  <2>1. CASE owed[s] = Nothing
    BY <2>1, PendingFacts DEF Outdated
  <2>2. CASE owed[s] # Nothing
    <3>1. PICK o \in Pending : o = owed[s] /\ o.sent < o.units BY <2>2 DEF Typed
    <3>2. PICK l \in Labels : l = (IF o.sent > 0 /\ cleared THEN "gone" ELSE "late") BY DEF Labels
    <3>3. new[s] = [o EXCEPT !.label = l] BY <2>2, <3>1, <3>2 DEF Outdated
    <3>4. /\ new[s] \in Pending /\ new[s].sent = o.sent /\ new[s].units = o.units /\ new[s].label = l
      BY <3>3, PendingFacts
    <3> QED BY <3>1, <3>2, <3>4
  <2> QED BY <2>1, <2>2
<1>2. new = [s \in Slaves |-> new[s]] BY DEF Outdated
<1> QED BY <1>1, <1>2

\* After a write everything in the input buffer is late.
LEMMA ClearFacts ==
  ASSUME Typed, NEW cleared \in BOOLEAN, Clear(cleared)
  PROVE  /\ input' \in Seq(Unit) /\ Len(input') <= Len(input)
         /\ \A u \in Range(input') : u.label = "late"
         /\ noise' \in BOOLEAN /\ (~noise' => input' = <<>>)
<1>0. noise' \in BOOLEAN /\ (~noise' => input' = <<>>) BY DEF Clear
<1>1. /\ input \in Seq(Unit) /\ Len(input) \in Nat
      /\ DOMAIN input = 1..Len(input) /\ \A i \in 1..Len(input) : input[i] \in Unit
  BY RangeFacts DEF Typed
<1>2. CASE cleared BY <1>0, <1>1, <1>2, EmptyFacts DEF Clear
<1>3. CASE ~cleared
  <2>1. input' = [i \in 1..Len(input) |-> [input[i] EXCEPT !.label = "late"]]
    BY <1>1, <1>3 DEF Clear
  <2>2. \A u \in Unit : [u EXCEPT !.label = "late"] \in Unit /\ [u EXCEPT !.label = "late"].label = "late"
    BY DEF Unit, Labels
  <2>3. input' \in [1..Len(input) -> Unit] /\ \A i \in 1..Len(input) : input'[i].label = "late"
    BY <1>1, <2>1, <2>2
  <2>4. input' \in Seq(Unit) BY <1>1, <2>3, SeqDef
  <2>5. Len(input') = Len(input) /\ \A u \in Range(input') : u.label = "late"
    BY <1>1, <2>3, <2>4, RangeFacts
  <2> QED BY <1>0, <1>1, <2>4, <2>5
<1> QED BY <1>2, <1>3


\* An answer to a request is about what was asked, and none of it has arrived.
LEMMA AnswerFacts ==
  ASSUME NEW g, g.name \in GroupNames, g.units \in {1, LongLen}, NEW a \in AnswersTo(g)
  PROVE  /\ a \in Pending /\ a # Nothing /\ a.group = g.name
         /\ a.sent = 0 /\ a.sent < a.units /\ a.label = "current"
<1>1. PICK u \in {g.units, 1} : a = [group |-> g.name, units |-> u, sent |-> 0, label |-> "current"]
  BY DEF AnswersTo
<1>2. u \in {1, LongLen} BY <1>1
<1> QED BY <1>1, <1>2 DEF Pending, Labels, Nothing, LongLen

\* What a write changes on the line, whether it succeeds or not.
LEMMA AskFacts ==
  ASSUME TypeOK, Typed, Ask \/ AskRefused \/ AskFails
  PROVE  /\ answered' = "none" /\ noise' \in BOOLEAN /\ (~noise' => input' = <<>>)
         /\ input' \in Seq(Unit) /\ Len(input') <= Len(input)
         /\ \A u \in Range(input') : u.label = "late"
         /\ owed' \in [Slaves -> Pending \cup {Nothing}]
         /\ \A s \in Slaves :
              /\ owed'[s] # Nothing => /\ owed'[s].sent < owed'[s].units
                                       /\ owed'[s].label = "gone" => owed'[s].sent > 0
              /\ owed'[s].label = "current" =>
                   s = Slave /\ owed'[s].group = Poll.group.name /\ owed'[s].sent = 0
<1>1. PICK cleared \in BOOLEAN :
        /\ Clear(cleared)
        /\ \/ owed' = Outdated(cleared)
           \/ /\ Ask
              /\ owed' \in {[Outdated(cleared) EXCEPT ![Slave] = a] : a \in AnswersTo(Poll.group)}
  BY DEF Ask, AskRefused, AskFails
<1>2. answered' = "none" BY DEF Ask, AskRefused, AskFails
<1>3. /\ input' \in Seq(Unit) /\ Len(input') <= Len(input)
      /\ \A u \in Range(input') : u.label = "late"
      /\ noise' \in BOOLEAN /\ (~noise' => input' = <<>>)
  BY <1>1, ClearFacts
<1>4. CASE owed' = Outdated(cleared) BY <1>1, <1>2, <1>3, <1>4, OutdatedFacts
<1>5. CASE /\ Ask
           /\ owed' \in {[Outdated(cleared) EXCEPT ![Slave] = a] : a \in AnswersTo(Poll.group)}
  <2>1. PICK a \in AnswersTo(Poll.group) : owed' = [Outdated(cleared) EXCEPT ![Slave] = a] BY <1>5
  <2>2. Poll.group.name \in GroupNames /\ Poll.group.units \in {1, LongLen}
    <3>1. todo # <<>> /\ Poll.group.units > 0 BY <1>5 DEF Ask
    <3>2. PICK i \in 1..Len(Polls(Maps[turn])) + 1 :
            todo = SubSeq(Polls(Maps[turn]), i, Len(Polls(Maps[turn])))
      BY DEF TypeOK
    <3>3. Poll.group.name \in GroupNames /\ Poll.group.units \in {0, 1, LongLen}
      BY <3>1, <3>2, PollFacts
    <3> QED BY <3>1, <3>3
  <2>3. /\ a \in Pending /\ a # Nothing /\ a.group = Poll.group.name
        /\ a.sent = 0 /\ a.sent < a.units /\ a.label = "current"
    BY <2>2, AnswerFacts
  <2>4. Slave \in Slaves BY MapFacts DEF Slave, TypeOK
  <2>5. PICK old \in [Slaves -> Pending \cup {Nothing}] :
          /\ old = Outdated(cleared)
          /\ \A s \in Slaves :
               /\ old[s].label # "current"
               /\ old[s] # Nothing => old[s].sent < old[s].units /\ (old[s].label = "gone" => old[s].sent > 0)
    BY OutdatedFacts
  <2>6. /\ owed' \in [Slaves -> Pending \cup {Nothing}] /\ owed'[Slave] = a
        /\ \A s \in Slaves : s # Slave => owed'[s] = old[s]
    BY <2>1, <2>3, <2>4, <2>5
  <2>7. ASSUME NEW s \in Slaves
        PROVE  /\ owed'[s] # Nothing => /\ owed'[s].sent < owed'[s].units
                                        /\ owed'[s].label = "gone" => owed'[s].sent > 0
               /\ owed'[s].label = "current" =>
                    s = Slave /\ owed'[s].group = Poll.group.name /\ owed'[s].sent = 0
    BY <2>3, <2>5, <2>6
  <2> QED BY <1>2, <1>3, <2>6, <2>7
<1> QED BY <1>1, <1>4, <1>5

\* What arrives is the next unit of what its slave owes.
LEMMA ArrivesFacts ==
  ASSUME Typed, NEW s \in Slaves, Arrives(s)
  PROVE  /\ Len(input) < MaxInput /\ UNCHANGED channelVars
         /\ owed' \in [Slaves -> Pending \cup {Nothing}]
         /\ \A z \in Slaves : z # s => owed'[z] = owed[z]
         /\ \E a \in Pending, u \in Unit :
              /\ a = owed[s] /\ a # Nothing /\ a.sent < a.units
              /\ u.slave = s /\ u.group = a.group /\ u.label = a.label /\ u.n = a.sent + 1
              /\ input' = Append(input, u)
              /\ noise' = (noise \/ a.label # "current")
              /\ \/ /\ a.sent + 1 = a.units /\ owed'[s] = Nothing
                    /\ answered' = IF a.label = "current"
                                   THEN IF a.units = LongLen THEN "long" ELSE "short"
                                   ELSE answered
                 \/ /\ a.sent + 1 < a.units /\ UNCHANGED answered
                    /\ owed'[s] # Nothing /\ owed'[s].sent = a.sent + 1
                    /\ owed'[s].units = a.units /\ owed'[s].label = a.label
                    /\ owed'[s].group = a.group
<1>1. PICK a \in Pending : a = owed[s] /\ a # Nothing /\ a.sent < a.units
  BY PendingFacts DEF Arrives, Typed
<1>2. a.units \in {1, LongLen} /\ a.sent \in 0..LongLen /\ a.group \in GroupNames /\ a.label \in Labels
  BY DEF Pending
<1>3. a.sent + 1 \in 1..LongLen BY <1>1, <1>2 DEF LongLen
<1>4. PICK u \in Unit : u = [slave |-> s, group |-> a.group, label |-> a.label, n |-> a.sent + 1]
  BY <1>2, <1>3 DEF Unit
<1>5. u.slave = s /\ u.group = a.group /\ u.label = a.label /\ u.n = a.sent + 1 BY <1>4
<1>6. /\ input' = Append(input, u) /\ Len(input) < MaxInput /\ UNCHANGED channelVars
      /\ noise' = (noise \/ a.label # "current")
  BY <1>1, <1>4 DEF Arrives
<1>7. CASE a.sent + 1 = a.units
  <2>1. owed' = [owed EXCEPT ![s] = Nothing] BY <1>1, <1>7 DEF Arrives
  <2>2. answered' = IF a.label = "current"
                    THEN IF a.units = LongLen THEN "long" ELSE "short"
                    ELSE answered
    BY <1>1, <1>7 DEF Arrives
  <2>3. /\ owed' \in [Slaves -> Pending \cup {Nothing}] /\ owed'[s] = Nothing
        /\ \A z \in Slaves : z # s => owed'[z] = owed[z]
    BY <2>1 DEF Typed
  <2> QED BY <1>1, <1>5, <1>6, <1>7, <2>2, <2>3
<1>8. CASE a.sent + 1 # a.units
  <2>0. PICK n \in 0..LongLen : n = a.sent + 1 BY <1>3 DEF LongLen
  <2>1. PICK b \in Pending :
          /\ b = [a EXCEPT !.sent = n]
          /\ b.sent = n /\ b.units = a.units /\ b.label = a.label /\ b.group = a.group
    <3>1. /\ [a EXCEPT !.sent = n] \in Pending
          /\ [a EXCEPT !.sent = n].sent = n /\ [a EXCEPT !.sent = n].units = a.units
          /\ [a EXCEPT !.sent = n].label = a.label /\ [a EXCEPT !.sent = n].group = a.group
      BY PendingFacts
    <3> QED BY <3>1
  <2>2. b.sent = a.sent + 1 /\ b.units = a.units /\ b.label = a.label /\ b.group = a.group
    BY <2>0, <2>1
  <2>3. owed' = [owed EXCEPT ![s] = b] BY <1>1, <1>8, <2>0, <2>1 DEF Arrives
  <2>4. UNCHANGED answered BY <1>1, <1>8 DEF Arrives
  <2>5. /\ owed' \in [Slaves -> Pending \cup {Nothing}] /\ owed'[s] = b
        /\ \A z \in Slaves : z # s => owed'[z] = owed[z]
    BY <2>3 DEF Typed
  <2>6. a.sent + 1 < a.units BY <1>1, <1>2, <1>8 DEF LongLen
  <2>7. b # Nothing BY PendingFacts
  <2> QED BY <1>1, <1>5, <1>6, <2>2, <2>4, <2>5, <2>6, <2>7
<1> QED BY <1>7, <1>8

\* What a read leaves of the buffers was there before it.
LEMMA ReadFacts ==
  ASSUME TypeOK, Typed, ReadHead \/ ReadTail \/ ReadTimesOut \/ ReadFails
  PROVE  /\ UNCHANGED <<turn, lineVars>> /\ pc \in {"head", "tail"}
         /\ head' \in Seq(Unit) /\ input' \in Seq(Unit) /\ Len(input') <= Len(input)
         /\ Range(head') \subseteq Range(head) \cup Range(input)
         /\ Range(input') \subseteq Range(input)
         /\ IF pc' = "tail" THEN Len(head') = HeadLen ELSE head' = <<>>
         /\ pc' = "tail" => /\ ReadHead /\ UNCHANGED <<todo, message>>
                            /\ head' = SubSeq(input, 1, HeadLen)
         /\ pc' \in {"poll", "tail", "dead"}
<1> USE DEF NextGroup
<1>1. input \in Seq(Unit) /\ Len(input) \in Nat BY RangeFacts DEF Typed
<1>2. <<>> \in Seq(Unit) /\ Len(<<>>) = 0 /\ Range(<<>>) = {} BY EmptyFacts
<1>3. CASE ReadHead
  <2>1. Len(input) >= HeadLen /\ UNCHANGED <<turn, lineVars>> /\ pc = "head" BY <1>3 DEF ReadHead
  <2>2. 2 \in 0..Len(input) /\ HeadLen + 1 \in 1..Len(input) + 1 /\ 1 \in 1..Len(input) + 1
        /\ Len(input) \in 0..Len(input)
    BY <1>1, <2>1 DEF HeadLen
  <2> DEFINE h == SubSeq(input, 1, HeadLen)
             rest == SubSeq(input, HeadLen + 1, Len(input))
  <2>3. h \in Seq(Unit) /\ Len(h) = HeadLen /\ Range(h) \subseteq Range(input)
    BY <1>1, <2>2, PartFacts DEF HeadLen
  <2>4. rest \in Seq(Unit) /\ Len(rest) <= Len(input) /\ Range(rest) \subseteq Range(input)
    <3>1. /\ rest \in Seq(Unit) /\ Range(rest) \subseteq Range(input)
          /\ Len(rest) = (IF HeadLen + 1 <= Len(input) THEN Len(input) - (HeadLen + 1) + 1 ELSE 0)
      BY <1>1, <2>2, PartFacts
    <3> QED BY <1>1, <3>1 DEF HeadLen
  <2>5. input' \in {<<>>, rest} BY <1>3 DEF ReadHead, InputAfter
  <2>6. \/ pc' = "tail" /\ head' = h /\ UNCHANGED <<todo, message>>
        \/ pc' = "poll" /\ head' = <<>>
    BY <1>3 DEF ReadHead
  <2> HIDE DEF h, rest
  <2>7. /\ input' \in Seq(Unit) /\ Len(input') <= Len(input) /\ Range(input') \subseteq Range(input)
    <3>1. CASE input' = <<>> BY <1>1, <1>2, <3>1
    <3>2. CASE input' = rest BY <2>4, <3>2
    <3> QED BY <2>5, <3>1, <3>2
  <2>8. CASE pc' = "tail" /\ head' = h /\ UNCHANGED <<todo, message>>
    BY <1>3, <2>1, <2>3, <2>7, <2>8 DEF h
  <2>9. CASE pc' = "poll" /\ head' = <<>>
    BY <1>2, <2>1, <2>7, <2>9
  <2> QED BY <2>6, <2>8, <2>9
<1>4. CASE ReadTail
  <2>1. /\ pc = "tail" /\ input # <<>> /\ UNCHANGED <<turn, lineVars>>
        /\ pc' \in {"poll", "dead"} /\ head' = <<>>
    BY <1>4 DEF ReadTail
  <2>2. Tail(input) \in Seq(Unit) /\ Len(Tail(input)) = Len(input) - 1
        /\ Range(Tail(input)) \subseteq Range(input)
    BY <1>1, <2>1, TailFacts
  <2>3. input' \in {<<>>, Tail(input)} BY <1>4 DEF ReadTail, InputAfter
  <2>4. CASE input' = <<>> BY <1>1, <1>2, <2>1, <2>4
  <2>5. CASE input' = Tail(input) BY <1>1, <1>2, <2>1, <2>2, <2>5
  <2> QED BY <2>3, <2>4, <2>5
<1>5. CASE ReadTimesOut
  <2>1. pc \in {"head", "tail"} /\ UNCHANGED <<turn, lineVars>> /\ pc' = "poll" /\ head' = <<>>
        /\ input' = <<>>
    BY <1>5 DEF ReadTimesOut
  <2> QED BY <1>1, <1>2, <2>1
<1>6. CASE ReadFails
  <2>1. pc \in {"head", "tail"} /\ UNCHANGED <<turn, lineVars>> /\ pc' = "poll" /\ head' = <<>>
    BY <1>6 DEF ReadFails
  <2>2. PICK k \in 1..Len(input) + 1 : input' = SubSeq(input, k, Len(input)) BY <1>6 DEF ReadFails
  <2>3. Len(input) \in 0..Len(input) BY <1>1
  <2>4. /\ input' \in Seq(Unit) /\ Range(input') \subseteq Range(input)
        /\ Len(input') = (IF k <= Len(input) THEN Len(input) - k + 1 ELSE 0)
    BY <1>1, <2>2, <2>3, PartFacts
  <2>5. Len(input') <= Len(input) BY <1>1, <2>4
  <2> QED BY <1>2, <2>1, <2>4, <2>5
<1> QED BY <1>3, <1>4, <1>5, <1>6


\* The steps by what they do to the line: nothing, or one of three things.
LEMMA StepKinds ==
  ASSUME TypeOK, [Next]_vars
  PROVE  \/ UNCHANGED <<head, input, lineVars>> /\ UNCHANGED <<pc, turn, todo>>
         \/ UNCHANGED <<head, input, lineVars>> /\ pc \notin {"head", "tail"} /\ pc' \notin {"head", "tail"}
         \/ \E s \in Slaves : Arrives(s)
         \/ Ask \/ AskRefused \/ AskFails
         \/ ReadHead \/ ReadTail \/ ReadTimesOut \/ ReadFails
<1>1. CASE AtRest \/ UNCHANGED vars BY <1>1 DEF AtRest, vars, channelVars, lineVars
<1>2. CASE Open \/ Sleep \/ SendBoth BY <1>2 DEF Open, Sleep, SendBoth
<1> QED BY <1>1, <1>2 DEF Next, ChannelStep

\* Who writes begins a poll or gives it up, with nothing read yet.
LEMMA AskKeeps ==
  ASSUME TypeOK, Ask \/ AskRefused \/ AskFails
  PROVE  /\ UNCHANGED <<turn, message>> /\ pc = "poll" /\ todo # <<>> /\ head = <<>> /\ head' = <<>>
         /\ \/ pc' = "poll"
            \/ pc' = "head" /\ UNCHANGED todo
<1>1. pc = "poll" BY DEF Ask, AskRefused, AskFails
<1>2. head = <<>> BY <1>1 DEF TypeOK
<1> QED BY <1>1, <1>2 DEF Ask, AskRefused, AskFails, NextGroup

LEMMA LineStep ==
  ASSUME TypeOK, Typed, [Next]_vars
  PROVE  /\ head' \in Seq(Unit) /\ input' \in Seq(Unit) /\ Len(input') <= MaxInput
         /\ IF pc' = "tail" THEN Len(head') = HeadLen ELSE head' = <<>>
         /\ owed' \in [Slaves -> Pending \cup {Nothing}]
         /\ \A s \in Slaves : owed'[s] # Nothing => owed'[s].sent < owed'[s].units
         /\ answered' \in Answers /\ noise' \in BOOLEAN
<1>1. /\ head \in Seq(Unit) /\ input \in Seq(Unit) /\ Len(input) <= MaxInput
      /\ IF pc = "tail" THEN Len(head) = HeadLen ELSE head = <<>>
      /\ owed \in [Slaves -> Pending \cup {Nothing}]
      /\ \A s \in Slaves : owed[s] # Nothing => owed[s].sent < owed[s].units
      /\ answered \in Answers /\ noise \in BOOLEAN
  BY DEF TypeOK, Typed
<1>2. Len(input) \in Nat /\ MaxInput \in Nat BY <1>1, RangeFacts, InputAssumption
<1>3. CASE /\ UNCHANGED <<head, input, lineVars>>
           /\ UNCHANGED pc \/ (pc \notin {"head", "tail"} /\ pc' \notin {"head", "tail"})
  BY <1>1, <1>3 DEF lineVars
<1>4. CASE \E s \in Slaves : Arrives(s)
  <2>1. PICK s \in Slaves : Arrives(s) BY <1>4
  <2>2. /\ Len(input) < MaxInput /\ UNCHANGED channelVars
        /\ owed' \in [Slaves -> Pending \cup {Nothing}]
        /\ \A z \in Slaves : z # s => owed'[z] = owed[z]
        /\ noise' \in BOOLEAN
    BY <1>1, <2>1, ArrivesFacts
  <2>3. PICK a \in Pending, u \in Unit :
          /\ input' = Append(input, u)
          /\ \/ /\ a.sent + 1 = a.units /\ owed'[s] = Nothing
                /\ answered' = IF a.label = "current"
                               THEN IF a.units = LongLen THEN "long" ELSE "short"
                               ELSE answered
             \/ /\ a.sent + 1 < a.units /\ UNCHANGED answered
                /\ owed'[s] # Nothing /\ owed'[s].sent = a.sent + 1
                /\ owed'[s].units = a.units
    BY <2>1, ArrivesFacts
  <2>4. input' \in Seq(Unit) /\ Len(input') = Len(input) + 1 BY <1>1, <2>3, AppendFacts
  <2>5. Len(input') <= MaxInput BY <1>2, <2>2, <2>4
  <2>6. answered' \in Answers BY <1>1, <2>3 DEF Answers
  <2>7. \A z \in Slaves : owed'[z] # Nothing => owed'[z].sent < owed'[z].units
    BY <1>1, <2>2, <2>3
  <2> QED BY <1>1, <2>2, <2>4, <2>5, <2>6, <2>7 DEF channelVars
<1>5. CASE Ask \/ AskRefused \/ AskFails
  <2>1. pc' # "tail" /\ head' = <<>> BY <1>5, AskKeeps
  <2>2. /\ input' \in Seq(Unit) /\ Len(input') <= Len(input) /\ answered' = "none" /\ noise' \in BOOLEAN
        /\ owed' \in [Slaves -> Pending \cup {Nothing}]
        /\ \A s \in Slaves : owed'[s] # Nothing => owed'[s].sent < owed'[s].units
    BY <1>5, AskFacts
  <2>3. Len(input') <= MaxInput
    <3>1. Len(input') \in Nat BY <2>2, RangeFacts
    <3> QED BY <1>1, <1>2, <2>2, <3>1
  <2> QED BY <2>1, <2>2, <2>3, EmptyFacts DEF Answers
<1>6. CASE ReadHead \/ ReadTail \/ ReadTimesOut \/ ReadFails
  <2>1. /\ UNCHANGED lineVars
        /\ head' \in Seq(Unit) /\ input' \in Seq(Unit) /\ Len(input') <= Len(input)
        /\ IF pc' = "tail" THEN Len(head') = HeadLen ELSE head' = <<>>
    BY <1>6, ReadFacts
  <2>2. Len(input') <= MaxInput
    <3>1. Len(input') \in Nat BY <2>1, RangeFacts
    <3> QED BY <1>1, <1>2, <2>1, <3>1
  <2> QED BY <1>1, <2>1, <2>2 DEF lineVars
<1> QED BY <1>3, <1>4, <1>5, <1>6, StepKinds

\* Only what has begun to arrive can be cleared.
LEMMA GoneStep ==
  ASSUME TypeOK, Typed, GoneHeadless, [Next]_vars
  PROVE  GoneHeadless'
<1> USE DEF GoneHeadless
<1>1. CASE UNCHANGED <<head, input, lineVars>> BY <1>1 DEF lineVars
<1>2. CASE \E s \in Slaves : Arrives(s)
  <2>1. PICK s \in Slaves : Arrives(s) BY <1>2
  <2>2. /\ UNCHANGED channelVars
        /\ \A z \in Slaves : z # s => owed'[z] = owed[z]
    BY <2>1, ArrivesFacts
  <2>3. PICK a \in Pending, u \in Unit :
          /\ a = owed[s] /\ a # Nothing
          /\ u.label = a.label /\ u.n = a.sent + 1
          /\ input' = Append(input, u)
          /\ \/ owed'[s] = Nothing
             \/ owed'[s] # Nothing /\ owed'[s].sent = a.sent + 1
    BY <2>1, ArrivesFacts
  <2>4. Range(input') = Range(input) \cup {u} BY <2>3, AppendFacts DEF Typed
  <2>5. a.sent \in Nat BY DEF Pending, LongLen
  <2>6. u.label = "gone" => u.n # 1
    <3>1. a.label = "gone" => a.sent > 0 BY <2>3
    <3>2. a.sent > 0 => a.sent + 1 # 1 BY <2>5
    <3> QED BY <2>3, <3>1, <3>2
  <2>7. \A v \in Range(head') \cup Range(input') : v.label = "gone" => v.n # 1
    BY <2>2, <2>4, <2>6 DEF channelVars
  <2>8. \A z \in Slaves : owed'[z] # Nothing /\ owed'[z].label = "gone" => owed'[z].sent > 0
    BY <2>2, <2>3, <2>5
  <2> QED BY <2>7, <2>8
<1>3. CASE Ask \/ AskRefused \/ AskFails
  <2>1. head' = <<>> BY <1>3, AskKeeps
  <2>2. \A u \in Range(input') : u.label = "late" BY <1>3, AskFacts
  <2>3. \A s \in Slaves : owed'[s] # Nothing /\ owed'[s].label = "gone" => owed'[s].sent > 0
    BY <1>3, AskFacts
  <2> QED BY <2>1, <2>2, <2>3, EmptyFacts
<1>4. CASE ReadHead \/ ReadTail \/ ReadTimesOut \/ ReadFails
  <2>1. /\ UNCHANGED lineVars
        /\ Range(head') \subseteq Range(head) \cup Range(input)
        /\ Range(input') \subseteq Range(input)
    BY <1>4, ReadFacts
  <2> QED BY <2>1 DEF lineVars
<1> QED BY <1>1, <1>2, <1>3, <1>4, StepKinds

\* Only a write makes an answer current, and after it no other is.
LEMMA CurrentStep ==
  ASSUME TypeOK, Typed, CurrentAsked, [Next]_vars
  PROVE  CurrentAsked'
<1> USE DEF CurrentAsked, Poll, Slave
<1>1. CASE UNCHANGED <<head, input, lineVars>> /\ UNCHANGED <<pc, turn, todo>>
  BY <1>1 DEF lineVars
<1>2. CASE pc' \notin {"head", "tail"} BY <1>2
<1>3. CASE \E s \in Slaves : Arrives(s)
  <2> SUFFICES ASSUME pc' \in {"head", "tail"}
               PROVE  /\ \A v \in Range(head') \cup Range(input') :
                           v.label = "current" => v.group = Poll'.group.name
                      /\ \A z \in Slaves : owed'[z].label = "current" =>
                           z = Slave' /\ owed'[z].group = Poll'.group.name
    OBVIOUS
  <2>1. PICK s \in Slaves : Arrives(s) BY <1>3
  <2>2. /\ UNCHANGED channelVars
        /\ \A z \in Slaves : z # s => owed'[z] = owed[z]
    BY <2>1, ArrivesFacts
  <2>3. PICK a \in Pending, u \in Unit :
          /\ a = owed[s]
          /\ u.label = a.label /\ u.group = a.group
          /\ input' = Append(input, u)
          /\ \/ owed'[s] = Nothing
             \/ owed'[s].label = a.label /\ owed'[s].group = a.group
    BY <2>1, ArrivesFacts
  <2>4. Range(input') = Range(input) \cup {u} BY <2>3, AppendFacts DEF Typed
  <2>5. pc \in {"head", "tail"} /\ Poll' = Poll /\ Slave' = Slave /\ head' = head
    BY <2>2 DEF channelVars
  <2>6. \A v \in Range(head') \cup Range(input') : v.label = "current" => v.group = Poll.group.name
    BY <2>3, <2>4, <2>5
  <2>7. \A z \in Slaves : owed'[z].label = "current" => z = Slave /\ owed'[z].group = Poll.group.name
    BY <2>2, <2>3, <2>5, PendingFacts
  <2> QED BY <2>5, <2>6, <2>7
<1>4. CASE Ask \/ AskRefused \/ AskFails
  <2>1. /\ UNCHANGED turn /\ head' = <<>>
        /\ pc' = "poll" \/ UNCHANGED todo
    BY <1>4, AskKeeps
  <2>2. /\ \A u \in Range(input') : u.label = "late"
        /\ \A s \in Slaves : owed'[s].label = "current" =>
             s = Slave /\ owed'[s].group = Poll.group.name
    BY <1>4, AskFacts
  <2> QED BY <2>1, <2>2, EmptyFacts
<1>5. CASE ReadHead \/ ReadTail \/ ReadTimesOut \/ ReadFails
  <2>1. /\ UNCHANGED <<turn, lineVars>> /\ pc \in {"head", "tail"}
        /\ Range(head') \subseteq Range(head) \cup Range(input)
        /\ Range(input') \subseteq Range(input)
        /\ pc' = "tail" => UNCHANGED todo
        /\ pc' \in {"poll", "tail", "dead"}
    BY <1>5, ReadFacts
  <2> QED BY <2>1 DEF lineVars
<1> QED BY <1>1, <1>2, <1>3, <1>4, <1>5, StepKinds


\* A quiet line grows by one unit of the answer at a time, and a read that goes
\* on moves what has arrived without losing any.
LEMMA QuietStep ==
  ASSUME TypeOK, Typed, CurrentAsked, QuietLine, [Next]_vars
  PROVE  QuietLine'
<1> USE DEF Poll, Slave
<1>0. /\ head \in Seq(Unit) /\ input \in Seq(Unit) /\ answered \in Answers /\ noise \in BOOLEAN
      /\ Slave \in Slaves
  BY MapFacts DEF TypeOK, Typed
<1> SUFFICES ASSUME pc' \in {"head", "tail"}, Poll'.part = "timeseries", ~noise'
             PROVE  /\ \A i \in 1..Len(head' \o input') :
                         /\ (head' \o input')[i].n = i
                         /\ (head' \o input')[i].slave = Slave'
                         /\ (head' \o input')[i].group = Poll'.group.name
                    /\ owed'[Slave'].label = "current" =>
                         answered' = "none" /\ owed'[Slave'].sent = Len(head' \o input')
                    /\ answered' = "long" => Len(head' \o input') = LongLen
  BY DEF QuietLine
<1>1. CASE UNCHANGED <<head, input, lineVars>> /\ UNCHANGED <<pc, turn, todo>>
  <2>1. UNCHANGED <<pc, head, input, owed, answered, noise>> /\ Poll' = Poll /\ Slave' = Slave
    BY <1>1 DEF lineVars
  <2> QED BY <2>1 DEF QuietLine
<1>2. CASE \E s \in Slaves : Arrives(s)
  <2>1. PICK s \in Slaves : Arrives(s) BY <1>2
  <2>2. UNCHANGED channelVars BY <2>1, ArrivesFacts
  <2>3. PICK a \in Pending, u \in Unit :
          /\ a = owed[s] /\ a # Nothing /\ a.sent < a.units
          /\ u.slave = s /\ u.group = a.group /\ u.label = a.label /\ u.n = a.sent + 1
          /\ input' = Append(input, u)
          /\ noise' = (noise \/ a.label # "current")
          /\ \/ /\ a.sent + 1 = a.units /\ owed'[s] = Nothing
                /\ answered' = IF a.label = "current"
                               THEN IF a.units = LongLen THEN "long" ELSE "short"
                               ELSE answered
             \/ /\ a.sent + 1 < a.units /\ UNCHANGED answered
                /\ owed'[s] # Nothing /\ owed'[s].sent = a.sent + 1
                /\ owed'[s].units = a.units /\ owed'[s].label = a.label
                /\ owed'[s].group = a.group
    BY <2>1, ArrivesFacts
  <2>4. ~noise /\ a.label = "current" BY <2>3
  <2>5. /\ pc \in {"head", "tail"} /\ Poll.part = "timeseries"
        /\ Poll' = Poll /\ Slave' = Slave /\ head' = head
    BY <2>2 DEF channelVars
  <2>6. s = Slave /\ a.group = Poll.group.name
    BY <2>3, <2>4, <2>5 DEF CurrentAsked
  <2>7. PICK q \in Seq(Unit) : q = head \o input BY <1>0, ConcatProperties
  <2>8. /\ \A i \in 1..Len(q) : /\ q[i].n = i /\ q[i].slave = Slave
                                /\ q[i].group = Poll.group.name
        /\ answered = "none" /\ a.sent = Len(q)
    <3>1. QuietLine /\ owed[Slave].label = "current" BY <2>3, <2>4, <2>6
    <3> QED BY <2>3, <2>4, <2>5, <2>6, <2>7, <3>1 DEF QuietLine
  <2>9. head' \o input' = Append(q, u)
    <3>1. <<u>> \in Seq(Unit) BY <1>0
    <3>2. Append(input, u) = input \o <<u>> BY <1>0, AppendIsConcat
    <3>3. Append(q, u) = q \o <<u>> BY AppendIsConcat
    <3>4. (head \o input) \o <<u>> = head \o (input \o <<u>>)
      BY <1>0, <3>1, ConcatAssociative, SMTT(30)
    <3> QED BY <2>3, <2>5, <2>7, <3>2, <3>3, <3>4
  <2>10. /\ Len(Append(q, u)) = Len(q) + 1 /\ Len(q) \in Nat
         /\ \A i \in 1..Len(q) : Append(q, u)[i] = q[i]
         /\ Append(q, u)[Len(q) + 1] = u
    BY AppendFacts
  <2>11. ASSUME NEW i \in 1..Len(Append(q, u))
         PROVE  /\ Append(q, u)[i].n = i /\ Append(q, u)[i].slave = Slave
                /\ Append(q, u)[i].group = Poll.group.name
    <3>1. CASE i \in 1..Len(q) BY <2>8, <2>10, <3>1
    <3>2. CASE i = Len(q) + 1 BY <2>3, <2>6, <2>8, <2>10, <3>2
    <3> QED BY <2>10, <3>1, <3>2
  <2>12. owed'[Slave].label = "current" => answered' = "none" /\ owed'[Slave].sent = Len(q) + 1
    BY <2>3, <2>6, <2>8, PendingFacts
  <2>13. answered' = "long" => Len(q) + 1 = LongLen
    BY <2>3, <2>8
  <2> QED BY <2>5, <2>9, <2>10, <2>11, <2>12, <2>13
<1>3. CASE Ask \/ AskRefused \/ AskFails
  <2>1. UNCHANGED <<turn, todo>> /\ head' = <<>> BY <1>3, AskKeeps
  <2>2. /\ input' = <<>> /\ answered' = "none"
        /\ \A s \in Slaves : owed'[s].label = "current" => owed'[s].sent = 0
    BY <1>3, AskFacts
  <2>3. head' \o input' = <<>> BY <2>1, <2>2
  <2>4. Len(head' \o input') = 0 /\ 1..Len(head' \o input') = {} BY <2>3, EmptyFacts
  <2>5. Slave' = Slave BY <2>1
  <2> QED BY <1>0, <2>2, <2>4, <2>5
<1>4. CASE ReadHead \/ ReadTail \/ ReadTimesOut \/ ReadFails
  <2>1. /\ UNCHANGED <<turn, todo, lineVars>> /\ ReadHead
        /\ pc = "head" /\ head = <<>> /\ head' = SubSeq(input, 1, HeadLen)
    <3>1. UNCHANGED <<turn, lineVars>> /\ pc' \in {"poll", "tail", "dead"} BY <1>4, ReadFacts
    <3>2. ReadHead /\ UNCHANGED todo /\ head' = SubSeq(input, 1, HeadLen)
      BY <1>4, <3>1, ReadFacts
    <3> QED BY <3>1, <3>2 DEF ReadHead, TypeOK
  <2>2. Poll' = Poll /\ Slave' = Slave /\ UNCHANGED <<owed, answered, noise>> BY <2>1 DEF lineVars
  <2>3. Len(input) >= HeadLen /\ input' = SubSeq(input, HeadLen + 1, Len(input))
    BY <2>1, <2>2 DEF ReadHead, InputAfter
  <2>4. head' \o input' = head \o input
    <3>1. Len(input) \in Nat BY <1>0, RangeFacts
    <3>2. /\ 1 \in 1..Len(input) + 1 /\ HeadLen \in 0..Len(input)
          /\ HeadLen \in 1 - 1..Len(input) /\ Len(input) \in HeadLen..Len(input)
      BY <2>3, <3>1 DEF HeadLen
    <3>3. SubSeq(input, 1, HeadLen) \o SubSeq(input, HeadLen + 1, Len(input)) = SubSeq(input, 1, Len(input))
      BY <1>0, <3>2, ConcatAdjacentSubSeq
    <3>4. SubSeq(input, 1, Len(input)) = input BY <1>0, SubSeqFull
    <3>5. <<>> \o input = input BY <1>0, ConcatEmptySeq
    <3> QED BY <2>1, <2>3, <3>3, <3>4, <3>5
  <2>5. PICK q \in Seq(Unit) : q = head \o input BY <1>0, ConcatProperties
  <2>6. /\ \A i \in 1..Len(q) : /\ q[i].n = i /\ q[i].slave = Slave
                                /\ q[i].group = Poll.group.name
        /\ owed[Slave].label = "current" => answered = "none" /\ owed[Slave].sent = Len(q)
        /\ answered = "long" => Len(q) = LongLen
    <3>1. pc \in {"head", "tail"} /\ Poll.part = "timeseries" /\ ~noise BY <2>1, <2>2
    <3> QED BY <2>5, <3>1 DEF QuietLine
  <2>7. head' \o input' = q BY <2>4, <2>5
  <2> HIDE DEF Poll, Slave
  <2> QED BY <2>2, <2>6, <2>7
<1> QED BY <1>1, <1>2, <1>3, <1>4, StepKinds

\* A whole answer of a quiet line passes every check.
LEMMA QuietAnswer == QuietLine => CleanAnswerCounts
<1> SUFFICES ASSUME QuietLine, pc \in {"head", "tail"}, Poll.part = "timeseries",
                    answered = "long", ~noise
             PROVE  Len(head \o input) = LongLen /\ ParseOk(head \o input)
  BY DEF CleanAnswerCounts
<1>1. /\ Len(head \o input) = LongLen
      /\ \A i \in 1..LongLen : /\ (head \o input)[i].n = i
                               /\ (head \o input)[i].slave = Slave
                               /\ (head \o input)[i].group = Poll.group.name
  BY DEF QuietLine
<1>2. 1 \in 1..LongLen BY DEF LongLen
<1> QED BY <1>1, <1>2 DEF ParseOk


-----------------------------------------------------------------------------
(* The turn and the message.                                               *)

\* What a step does to them: nothing, or the thread goes on to the next group
\* without filing anything, or files what it has read, or sends the message.
LEMMA TurnStep ==
  ASSUME TypeOK, [Next]_vars
  PROVE  \/ /\ UNCHANGED <<turn, todo, message>>
            /\ \/ UNCHANGED pc
               \/ pc \in {"opening", "sleep"} /\ pc' \in {"poll", "dead"}
               \/ pc = "poll" /\ pc' = "head" /\ todo # <<>>
               \/ pc \in {"head", "tail"} /\ pc' \in {"tail", "dead"} /\ todo # <<>>
         \/ /\ pc \in {"poll", "head", "tail"} /\ todo # <<>>
            /\ pc' = "poll" /\ todo' = Tail(todo) /\ UNCHANGED <<turn, message>>
         \/ ReadTail
         \/ SendBoth
<1> USE DEF channelVars
<1>0. pc \in {"head", "tail"} => todo # <<>> BY DEF TypeOK
<1>1. CASE Open \/ Sleep \/ AtRest \/ UNCHANGED vars \/ \E s \in Slaves : Arrives(s)
  BY <1>1 DEF Open, Sleep, AtRest, Arrives, vars
<1>2. CASE Ask \/ AskRefused \/ AskFails
  BY <1>2 DEF Ask, AskRefused, AskFails, NextGroup
<1>3. CASE ReadHead \/ ReadTimesOut \/ ReadFails
  BY <1>0, <1>3 DEF ReadHead, ReadTimesOut, ReadFails, NextGroup
<1> QED BY <1>1, <1>2, <1>3 DEF Next, ChannelStep

\* What ReadTail puts into the message, if it does: the answer of the slave
\* that was asked.  The first unit of it was in head.
LEMMA FileFacts ==
  ASSUME TypeOK, Typed, GoneHeadless, CurrentAsked, ReadTail, ~UNCHANGED message
  PROVE  /\ pc = "tail" /\ todo # <<>> /\ pc' = "poll" /\ todo' = Tail(todo) /\ UNCHANGED turn
         /\ \E item \in Filed :
              /\ item.asked = Poll.group.name /\ item.slave = Slave /\ item.label # "gone"
              /\ item.label = "current" => item.group = item.asked
              /\ \/ /\ Poll.part = "attributes"
                    /\ message' = [attributes |-> message.attributes \cup {item},
                                   timeseries |-> message.timeseries]
                 \/ /\ Poll.part = "timeseries"
                    /\ message' = [attributes |-> message.attributes,
                                   timeseries |-> Append(message.timeseries, item)]
<1> DEFINE response == Append(head, Head(input))
           item == [asked |-> Poll.group.name, slave |-> response[1].slave,
                    group |-> response[1].group, label |-> response[1].label]
<1>1. /\ pc = "tail" /\ todo # <<>> /\ pc' = "poll" /\ todo' = Tail(todo) /\ UNCHANGED turn
      /\ input # <<>> /\ ParseOk(response) /\ Parsed(response)
  BY DEF ReadTail, NextGroup, TypeOK
<1>2. /\ response[1] \in Unit /\ response[1] \in Range(head)
      /\ response[1].n = 1 /\ response[1].slave = Slave
  <2>1. Head(input) \in Unit BY <1>1, TailFacts DEF Typed
  <2>2. Len(head) = HeadLen /\ 1 \in 1..Len(head)
    <3>1. Len(head) = HeadLen BY <1>1 DEF TypeOK
    <3> QED BY <3>1 DEF HeadLen
  <2>3. response[1] = head[1]
    <3>1. head \in Seq(Unit) BY DEF Typed
    <3> QED BY <2>1, <2>2, <3>1, AppendFacts
  <2>4. head[1] \in Unit /\ head[1] \in Range(head) BY <2>2, RangeFacts DEF Typed
  <2>5. response[1].n = 1 /\ response[1].slave = Slave BY <1>1 DEF ParseOk, LongLen
  <2> QED BY <2>3, <2>4, <2>5
<1>3. Poll.group.name \in GroupNames /\ Poll.part \in {"attributes", "timeseries"}
  <2>1. PICK i \in 1..Len(Polls(Maps[turn])) + 1 :
          todo = SubSeq(Polls(Maps[turn]), i, Len(Polls(Maps[turn])))
    BY DEF TypeOK
  <2> QED BY <1>1, <2>1, PollFacts
<1>4. message' = IF Poll.part = "attributes"
                 THEN [message EXCEPT !.attributes = @ \cup {item}]
                 ELSE [message EXCEPT !.timeseries = Append(@, item)]
  BY <1>1 DEF Parsed
<1> HIDE DEF response
<1>5. PICK u \in Unit : u = response[1] /\ u \in Range(head) BY <1>2
<1>6. item \in Filed /\ item.asked = Poll.group.name /\ item.slave = u.slave
      /\ item.label = u.label /\ item.group = u.group
  BY <1>3, <1>5 DEF Filed, Unit
<1> HIDE DEF item
<1>7. u.slave = Slave /\ u.label # "gone" /\ (u.label = "current" => u.group = Poll.group.name)
  BY <1>1, <1>2, <1>5 DEF GoneHeadless, CurrentAsked
<1>8. \/ /\ Poll.part = "attributes"
         /\ message' = [attributes |-> message.attributes \cup {item},
                        timeseries |-> message.timeseries]
      \/ /\ Poll.part = "timeseries"
         /\ message' = [attributes |-> message.attributes,
                        timeseries |-> Append(message.timeseries, item)]
  BY <1>3, <1>4 DEF Typed
<1> QED BY <1>1, <1>6, <1>7, <1>8

\* One item more, and the message keeps its type.
LEMMA ItemsFacts ==
  ASSUME Typed, NEW item \in Filed,
         \/ message' = [attributes |-> message.attributes \cup {item},
                        timeseries |-> message.timeseries]
         \/ message' = [attributes |-> message.attributes,
                        timeseries |-> Append(message.timeseries, item)]
  PROVE  /\ message' \in [attributes : SUBSET Filed, timeseries : Seq(Filed)]
         /\ \A x \in Items' : x \in Items \/ x = item
<1>1. message.attributes \subseteq Filed /\ message.timeseries \in Seq(Filed) BY DEF Typed
<1>2. /\ Append(message.timeseries, item) \in Seq(Filed)
      /\ Range(Append(message.timeseries, item)) = Range(message.timeseries) \cup {item}
  BY <1>1, AppendFacts
<1>3. CASE message' = [attributes |-> message.attributes \cup {item},
                       timeseries |-> message.timeseries]
  <2>1. message'.attributes = message.attributes \cup {item} /\ message'.timeseries = message.timeseries
    BY <1>3
  <2>2. Items' = Items \cup {item} BY <2>1 DEF Items
  <2> QED BY <1>1, <1>3, <2>2
<1>4. CASE message' = [attributes |-> message.attributes,
                       timeseries |-> Append(message.timeseries, item)]
  <2>1. /\ message'.attributes = message.attributes
        /\ message'.timeseries = Append(message.timeseries, item)
    BY <1>4
  <2>2. Items' = Items \cup {item} BY <1>2, <2>1 DEF Items
  <2> QED BY <1>1, <1>2, <1>4, <2>2
<1> QED BY <1>3, <1>4

TurnTyped ==
  /\ pc \in States /\ turn \in 1..Len(Maps) /\ (pc \in {"head", "tail"} => todo # <<>>)
  /\ message \in [attributes : SUBSET Filed, timeseries : Seq(Filed)]

TurnInv == TurnTyped /\ InOrder /\ FiledRight

LEMMA TurnInvStep ==
  ASSUME TypeOK, Typed, GoneHeadless, CurrentAsked, TurnInv, [Next]_vars
  PROVE  TurnInv'
<1> USE DEF TurnInv
<1>0. /\ turn \in 1..Len(Maps) /\ pc \in States
      /\ pc \in {"head", "tail"} => todo # <<>>
      /\ message \in [attributes : SUBSET Filed, timeseries : Seq(Filed)]
  BY DEF TurnTyped
<1>1. PICK i \in 1..Len(Polls(Maps[turn])) + 1 :
        /\ todo = SubSeq(Polls(Maps[turn]), i, Len(Polls(Maps[turn])))
        /\ \A item \in Range(message.timeseries) :
             \E k \in 1..Len(Maps[turn].timeseries) :
               /\ k + Len(Maps[turn].attributes) < i
               /\ item.asked = Maps[turn].timeseries[k].name
  BY DEF InOrder
\* Nothing is filed, and the poll is the same.
<1>2. CASE /\ UNCHANGED <<turn, todo, message>>
           /\ \/ UNCHANGED pc
              \/ pc \in {"opening", "sleep"} /\ pc' \in {"poll", "dead"}
              \/ pc = "poll" /\ pc' = "head" /\ todo # <<>>
              \/ pc \in {"head", "tail"} /\ pc' \in {"tail", "dead"} /\ todo # <<>>
  <2>1. pc' \in States /\ (pc' \in {"head", "tail"} => todo' # <<>>)
    BY <1>0, <1>2 DEF States
  <2>2. InOrder' /\ FiledRight' BY <1>2 DEF InOrder, FiledRight, Items, Slave
  <2> QED BY <1>0, <1>2, <2>1, <2>2 DEF TurnTyped
\* Nothing is filed, and the next poll is due.
<1>3. CASE /\ pc \in {"poll", "head", "tail"} /\ todo # <<>>
           /\ pc' = "poll" /\ todo' = Tail(todo) /\ UNCHANGED <<turn, message>>
  <2>1. /\ Tail(todo) = SubSeq(Polls(Maps[turn]), i + 1, Len(Polls(Maps[turn])))
        /\ i + 1 \in 1..Len(Polls(Maps[turn])) + 1 /\ i \in Nat
        /\ Len(Maps[turn].attributes) \in Nat
    BY <1>1, <1>3, PollFacts
  <2>2. InOrder'
    <3>1. \A item \in Range(message.timeseries) :
             \E k \in 1..Len(Maps[turn].timeseries) :
               /\ k + Len(Maps[turn].attributes) < i + 1
               /\ item.asked = Maps[turn].timeseries[k].name
      BY <1>1, <2>1
    <3> QED BY <1>3, <2>1, <3>1 DEF InOrder
  <2>3. FiledRight' BY <1>3 DEF FiledRight, Items, Slave
  <2> QED BY <1>0, <1>3, <2>2, <2>3 DEF TurnTyped, States
<1>4. CASE ReadTail
  <2>1. pc = "tail" /\ todo # <<>> /\ UNCHANGED turn BY <1>0, <1>4 DEF ReadTail
  <2>2. CASE UNCHANGED message
    <3>1. \/ pc' = "dead" /\ UNCHANGED todo
          \/ pc' = "poll" /\ todo' = Tail(todo)
      BY <1>4 DEF ReadTail, NextGroup
    <3>2. CASE pc' = "dead" /\ UNCHANGED todo
      BY <1>0, <2>1, <2>2, <3>2 DEF TurnTyped, InOrder, FiledRight, Items, Slave, States
    <3> QED BY <1>3, <2>1, <2>2, <3>1, <3>2
  <2>3. CASE ~UNCHANGED message
    <3>1. PICK item \in Filed :
            /\ item.asked = Poll.group.name /\ item.slave = Slave /\ item.label # "gone"
            /\ item.label = "current" => item.group = item.asked
            /\ \/ /\ Poll.part = "attributes"
                  /\ message' = [attributes |-> message.attributes \cup {item},
                                 timeseries |-> message.timeseries]
               \/ /\ Poll.part = "timeseries"
                  /\ message' = [attributes |-> message.attributes,
                                 timeseries |-> Append(message.timeseries, item)]
      BY <1>4, <2>3, FileFacts
    <3>2. /\ message' \in [attributes : SUBSET Filed, timeseries : Seq(Filed)]
          /\ \A x \in Items' : x \in Items \/ x = item
      BY <3>1, ItemsFacts
    <3>3. pc' = "poll" /\ todo' = Tail(todo) BY <1>4, <2>3, FileFacts
    <3>4. TurnTyped' BY <1>0, <2>1, <3>2, <3>3 DEF TurnTyped, States
    <3>5. Slave' = Slave BY <2>1 DEF Slave
    <3>6. FiledRight' BY <3>1, <3>2, <3>5 DEF FiledRight
    <3>7. /\ Tail(todo) = SubSeq(Polls(Maps[turn]), i + 1, Len(Polls(Maps[turn])))
          /\ i + 1 \in 1..Len(Polls(Maps[turn])) + 1 /\ i \in Nat
          /\ Len(Maps[turn].attributes) \in Nat
          /\ Poll.group \in Groups(Maps[turn])
          /\ \/ /\ Poll.part = "attributes"
                /\ i \in 1..Len(Maps[turn].attributes) /\ Poll.group = Maps[turn].attributes[i]
             \/ /\ Poll.part = "timeseries"
                /\ i - Len(Maps[turn].attributes) \in 1..Len(Maps[turn].timeseries)
                /\ Poll.group = Maps[turn].timeseries[i - Len(Maps[turn].attributes)]
      BY <1>1, <2>1, PollFacts
    <3>8. InOrder'
      <4>1. \A x \in Range(message.timeseries) :
               \E k \in 1..Len(Maps[turn].timeseries) :
                 /\ k + Len(Maps[turn].attributes) < i + 1
                 /\ x.asked = Maps[turn].timeseries[k].name
        <5> SUFFICES ASSUME NEW x \in Range(message.timeseries)
                     PROVE  \E k \in 1..Len(Maps[turn].timeseries) :
                              /\ k + Len(Maps[turn].attributes) < i + 1
                              /\ x.asked = Maps[turn].timeseries[k].name
          OBVIOUS
        <5>1. PICK k \in 1..Len(Maps[turn].timeseries) :
                /\ k + Len(Maps[turn].attributes) < i
                /\ x.asked = Maps[turn].timeseries[k].name
          BY <1>1
        <5>2. k + Len(Maps[turn].attributes) < i + 1 BY <3>7, <5>1
        <5> QED BY <5>1, <5>2
      <4>2. \A x \in Range(message'.timeseries) :
               \E k \in 1..Len(Maps[turn].timeseries) :
                 /\ k + Len(Maps[turn].attributes) < i + 1
                 /\ x.asked = Maps[turn].timeseries[k].name
        <5>1. CASE Poll.part = "attributes"
          <6>1. message'.timeseries = message.timeseries BY <3>1, <5>1
          <6> QED BY <4>1, <6>1
        <5>2. CASE Poll.part = "timeseries"
          <6>1. message'.timeseries = Append(message.timeseries, item) BY <3>1, <5>2
          <6>2. Range(message'.timeseries) = Range(message.timeseries) \cup {item}
            BY <1>0, <6>1, AppendFacts
          <6>3. \E k \in 1..Len(Maps[turn].timeseries) :
                  /\ k + Len(Maps[turn].attributes) < i + 1
                  /\ item.asked = Maps[turn].timeseries[k].name
            <7>1. PICK k \in 1..Len(Maps[turn].timeseries) :
                    /\ k = i - Len(Maps[turn].attributes) /\ Poll.group = Maps[turn].timeseries[k]
              BY <3>7, <5>2
            <7>2. k + Len(Maps[turn].attributes) < i + 1 BY <3>7, <7>1
            <7> QED BY <3>1, <7>1, <7>2
          <6> QED BY <4>1, <6>2, <6>3
        <5> QED BY <3>1, <5>1, <5>2
      <4> QED BY <2>1, <3>3, <3>7, <4>2 DEF InOrder
    <3> QED BY <3>4, <3>6, <3>8
  <2> QED BY <2>2, <2>3
<1>5. CASE SendBoth
  <2>1. /\ turn' \in 1..Len(Maps) /\ todo' = Polls(Maps[turn']) /\ pc' \in {"sleep", "poll"}
        /\ message' = NoMessage
    BY <1>0, <1>5, MapFacts DEF SendBoth
  <2>2. Items' = {} /\ Range(message'.timeseries) = {}
        /\ message' \in [attributes : SUBSET Filed, timeseries : Seq(Filed)]
    BY <2>1, EmptyFacts DEF Items, NoMessage
  <2>3. PICK t \in 1..Len(Maps) : t = turn' BY <2>1
  <2>4. /\ 1 \in 1..Len(Polls(Maps[t])) + 1
        /\ Polls(Maps[t]) = SubSeq(Polls(Maps[t]), 1, Len(Polls(Maps[t])))
    BY MapFacts, WholeFacts
  <2>5. InOrder' BY <2>1, <2>2, <2>3, <2>4 DEF InOrder
  <2> QED BY <1>0, <2>1, <2>2, <2>5
          DEF TurnTyped, FiledRight, States
<1> QED BY <1>2, <1>3, <1>4, <1>5, TurnStep


-----------------------------------------------------------------------------
(* The theorems.                                                           *)

LEMMA InitInv == Init => IInv
<1> SUFFICES ASSUME Init PROVE IInv OBVIOUS
<1>1. /\ pc = "opening" /\ turn = 1 /\ todo = Polls(Maps[1])
      /\ head = <<>> /\ input = <<>> /\ message = NoMessage
      /\ owed = [s \in Slaves |-> Nothing] /\ answered = "none" /\ noise = FALSE
  BY DEF Init
<1>2. 1 \in 1..Len(Maps) BY MapFacts
<1>3. /\ 1 \in 1..Len(Polls(Maps[1])) + 1
      /\ Polls(Maps[1]) = SubSeq(Polls(Maps[1]), 1, Len(Polls(Maps[1])))
  BY <1>2, MapFacts, WholeFacts
<1>4. /\ Items = {} /\ Range(message.timeseries) = {}
      /\ message \in [attributes : SUBSET Filed, timeseries : Seq(Filed)]
  BY <1>1, EmptyFacts DEF Items, NoMessage
<1>5. InOrder BY <1>1, <1>3, <1>4 DEF InOrder
<1>6. Len(input) <= MaxInput BY <1>1, EmptyFacts, InputAssumption
<1>7. TypeOK
  <2>1. DOMAIN input = {} /\ DOMAIN head = {} BY <1>1
  <2>2. \A s \in Slaves : owed[s] = Nothing BY <1>1
  <2>3. \E i \in 1..Len(Polls(Maps[turn])) + 1 :
          todo = SubSeq(Polls(Maps[turn]), i, Len(Polls(Maps[turn])))
    BY <1>1, <1>3
  <2> QED BY <1>1, <1>2, <1>6, <2>1, <2>2, <2>3 DEF TypeOK, States, Answers
<1>8. Typed BY <1>1, <1>4, EmptyFacts DEF Typed
<1>9. GoneHeadless /\ CurrentAsked /\ QuietLine
  BY <1>1, EmptyFacts DEF GoneHeadless, CurrentAsked, QuietLine
<1> QED BY <1>4, <1>5, <1>7, <1>8, <1>9 DEF IInv, FiledRight

LEMMA Invariant == Spec => []IInv
<1>1. IInv /\ [Next]_vars => IInv'
  <2> SUFFICES ASSUME IInv, [Next]_vars PROVE IInv' OBVIOUS
  <2>1. TurnInv
    BY DEF IInv, TurnInv, TurnTyped, TypeOK, Typed
  <2>2. TurnInv' BY <2>1, TurnInvStep DEF IInv
  <2>3. /\ head' \in Seq(Unit) /\ input' \in Seq(Unit) /\ Len(input') <= MaxInput
        /\ IF pc' = "tail" THEN Len(head') = HeadLen ELSE head' = <<>>
        /\ owed' \in [Slaves -> Pending \cup {Nothing}]
        /\ \A s \in Slaves : owed'[s] # Nothing => owed'[s].sent < owed'[s].units
        /\ answered' \in Answers /\ noise' \in BOOLEAN
    BY LineStep DEF IInv
  <2>4. GoneHeadless' /\ CurrentAsked' /\ QuietLine'
    BY GoneStep, CurrentStep, QuietStep DEF IInv
  <2>5. Typed' BY <2>2, <2>3 DEF Typed, TurnInv, TurnTyped
  <2>6. TypeOK'
    <3>1. /\ \A i \in DOMAIN input' : Units(input'[i])
          /\ \A i \in DOMAIN head' : Units(head'[i])
      <4>1. /\ DOMAIN input' = 1..Len(input') /\ \A i \in 1..Len(input') : input'[i] \in Unit
            /\ DOMAIN head' = 1..Len(head') /\ \A i \in 1..Len(head') : head'[i] \in Unit
        BY <2>3, RangeFacts
      <4>2. \A u \in Unit : Units(u) BY DEF Unit, Units
      <4> QED BY <4>1, <4>2
    <3>2. \A s \in Slaves :
            owed'[s] = Nothing \/ (owed'[s].sent < owed'[s].units /\ owed'[s].label \in Labels)
      <4>1. \A o \in Pending : o.label \in Labels BY DEF Pending
      <4> QED BY <2>3, <4>1
    <3>3. \E i \in 1..Len(Polls(Maps[turn'])) + 1 :
            todo' = SubSeq(Polls(Maps[turn']), i, Len(Polls(Maps[turn'])))
      BY <2>2 DEF TurnInv, InOrder
    <3>4. TurnTyped' BY <2>2 DEF TurnInv
    <3> QED BY <2>3, <3>1, <3>2, <3>3, <3>4 DEF TypeOK, TurnTyped
  <2> QED BY <2>2, <2>4, <2>5, <2>6 DEF IInv, TurnInv
<1> QED BY <1>1, InitInv, PTL DEF Spec

\* Every variable has its type, whatever arrives on the line and when.
THEOREM TypeCorrect == Spec => []TypeOK
<1>1. IInv => TypeOK BY DEF IInv
<1> QED BY <1>1, Invariant, PTL

\* For any slaves and register groups, an answer that is filed came from the
\* slave it is filed under, was not the rest of a cleared one, and is of the
\* group it is filed under unless it is late.
THEOREM AnswersFiledRight == Spec => []FiledRight
<1>1. IInv => FiledRight BY DEF IInv
<1> QED BY <1>1, Invariant, PTL

\* A telemetry answer that comes whole and alone is read as such, wherever the
\* reads cut it.
THEOREM CleanAnswersCount == Spec => []CleanAnswerCounts
<1>1. IInv => CleanAnswerCounts BY QuietAnswer DEF IInv
<1> QED BY <1>1, Invariant, PTL

\* Nothing but an Int16 data point kills a channel that has opened its port.
THEOREM OnlyInt16Panics ==
  ASSUME \A m \in Range(Maps) : \A g \in Groups(m) : ~g.int16
  PROVE  Spec => ParseNeverPanics
<1>1. ASSUME TypeOK, [Next]_vars, pc \notin {"opening", "dead"} PROVE pc' # "dead"
  <2>1. ~ReadTail => pc' # "dead"
    BY <1>1 DEF Next, ChannelStep, Arrives, Open, Ask, AskRefused, AskFails, ReadHead,
                ReadTimesOut, ReadFails, SendBoth, Sleep, AtRest, NextGroup, vars, channelVars
  <2>2. CASE ReadTail
    <3>1. todo # <<>> BY <1>1, <2>2 DEF ReadTail, TypeOK
    <3>2. PICK i \in 1..Len(Polls(Maps[turn])) + 1 :
            todo = SubSeq(Polls(Maps[turn]), i, Len(Polls(Maps[turn])))
      BY <1>1 DEF TypeOK
    <3>3. Poll.group \in Groups(Maps[turn]) BY <1>1, <3>1, <3>2, PollFacts
    <3>4. Maps[turn] \in Range(Maps) BY <1>1, MapFacts DEF TypeOK
    <3>5. ~Poll.group.int16 BY <3>3, <3>4
    <3> QED BY <2>2, <3>5 DEF ReadTail, NextGroup
  <2> QED BY <2>1, <2>2
<1>2. TypeOK /\ [Next]_vars => [pc \notin {"opening", "dead"} => pc' # "dead"]_vars
  BY <1>1
<1> QED BY <1>2, TypeCorrect, PTL DEF Spec, ParseNeverPanics

LEMMA RefinesInit == Init => Channel!Init
BY NoNames DEF Init, Channel!Init, NoMessage

\* What a step that changes neither turn nor message does to Polling.
LEMMA RefinesStep == IInv /\ [Next]_vars => [Channel!Next]_Channel!vars
<1> SUFFICES ASSUME IInv, [Next]_vars PROVE [Channel!Next]_Channel!vars OBVIOUS
<1> USE DEF Channel!vars
<1>0. TypeOK /\ Typed /\ turn \in 1..Len(Maps) BY DEF IInv, TypeOK
<1>1. CASE UNCHANGED <<turn, message>>
  <2>1. CASE UNCHANGED (pc # "dead") BY <1>1, <2>1
  <2>2. CASE (pc # "dead") = TRUE /\ (pc # "dead")' = FALSE
    BY <1>1, <2>2 DEF Channel!Next, Channel!Die
  <2>3. pc = "dead" => pc' = "dead"
    BY <1>0, <1>1, TurnStep DEF ReadTail, SendBoth
  <2> QED BY <2>1, <2>2, <2>3
<1>2. CASE ReadTail /\ ~UNCHANGED message
  <2>1. pc = "tail" /\ pc' = "poll" /\ todo # <<>> /\ UNCHANGED turn
    BY <1>0, <1>2, FileFacts DEF IInv
  <2>2. PICK item \in Filed :
          /\ item.asked = Poll.group.name
          /\ \/ /\ Poll.part = "attributes"
                /\ message' = [attributes |-> message.attributes \cup {item},
                               timeseries |-> message.timeseries]
             \/ /\ Poll.part = "timeseries"
                /\ message' = [attributes |-> message.attributes,
                               timeseries |-> Append(message.timeseries, item)]
    BY <1>0, <1>2, FileFacts DEF IInv
  <2>3. PICK i \in 1..Len(Polls(Maps[turn])) + 1 :
          /\ todo = SubSeq(Polls(Maps[turn]), i, Len(Polls(Maps[turn])))
          /\ \A x \in Range(message.timeseries) :
               \E k \in 1..Len(Maps[turn].timeseries) :
                 /\ k + Len(Maps[turn].attributes) < i
                 /\ x.asked = Maps[turn].timeseries[k].name
    BY DEF IInv, InOrder
  <2>4. /\ i \in Nat /\ Len(Maps[turn].attributes) \in Nat
        /\ \/ /\ Poll.part = "attributes"
              /\ i \in 1..Len(Maps[turn].attributes) /\ Poll.group = Maps[turn].attributes[i]
           \/ /\ Poll.part = "timeseries"
              /\ i - Len(Maps[turn].attributes) \in 1..Len(Maps[turn].timeseries)
              /\ Poll.group = Maps[turn].timeseries[i - Len(Maps[turn].attributes)]
    BY <1>0, <2>1, <2>3, PollFacts
  <2>5. /\ Maps[turn].attributes \in Seq(Groups(Maps[turn]))
        /\ Maps[turn].timeseries \in Seq(Groups(Maps[turn]))
    BY <1>0, MapFacts
  <2>6. /\ DOMAIN Maps[turn].attributes = 1..Len(Maps[turn].attributes)
        /\ DOMAIN Maps[turn].timeseries = 1..Len(Maps[turn].timeseries)
    BY <2>5, RangeFacts
  <2>7. message.timeseries \in Seq(Filed) BY <1>0 DEF Typed
  <2> DEFINE names == [j \in DOMAIN message.timeseries |-> message.timeseries[j].asked]
  <2>8. CASE Poll.part = "attributes"
    <3>1. /\ message'.attributes = message.attributes \cup {item}
          /\ message'.timeseries = message.timeseries
      BY <2>2, <2>8
    <3>2. message.timeseries = <<>>
      <4>1. Range(message.timeseries) = {} BY <2>3, <2>4, <2>8
      <4> QED BY <2>7, <4>1, RangeFacts, EmptySeq
    <3>3. names = <<>> BY <3>2, NoNames
    <3>4. /\ i \in DOMAIN Maps[turn].attributes
          /\ {x.asked : x \in message'.attributes}
               = {x.asked : x \in message.attributes} \cup {Maps[turn].attributes[i].name}
      BY <2>2, <2>4, <2>6, <2>8, <3>1
    <3>5. Channel!FileAttributes
      BY <2>1, <3>1, <3>3, <3>4 DEF Channel!FileAttributes
    <3> QED BY <3>5 DEF Channel!Next
  <2>9. CASE Poll.part = "timeseries"
    <3>1. /\ message'.attributes = message.attributes
          /\ message'.timeseries = Append(message.timeseries, item)
      BY <2>2, <2>9
    <3>2. PICK n \in 1..Len(Maps[turn].timeseries) :
            n = i - Len(Maps[turn].attributes) /\ Poll.group = Maps[turn].timeseries[n]
      BY <2>4, <2>9
    <3>3. names' = Append(names, Maps[turn].timeseries[n].name)
      <4>q. PICK q \in Seq(Filed) : q = message.timeseries BY <2>7
      <4>n. [j \in DOMAIN Append(q, item) |-> Append(q, item)[j].asked]
              = Append([j \in DOMAIN q |-> q[j].asked], item.asked)
        BY NamesFacts
      <4>1. names' = Append(names, item.asked) BY <3>1, <4>q, <4>n
      <4>2. item.asked = Maps[turn].timeseries[n].name BY <2>2, <3>2
      <4> QED BY <4>1, <4>2
    <3>4. \A j \in DOMAIN names : \E k \in 1..n - 1 : names[j] = Maps[turn].timeseries[k].name
      <4> SUFFICES ASSUME NEW j \in DOMAIN message.timeseries
                   PROVE  \E k \in 1..n - 1 : message.timeseries[j].asked = Maps[turn].timeseries[k].name
        OBVIOUS
      <4>1. message.timeseries[j] \in Range(message.timeseries) BY <2>7, RangeFacts
      <4>2. PICK k \in 1..Len(Maps[turn].timeseries) :
              /\ k + Len(Maps[turn].attributes) < i
              /\ message.timeseries[j].asked = Maps[turn].timeseries[k].name
        BY <2>3, <4>1
      <4>3. k \in 1..n - 1 BY <2>4, <3>2, <4>2
      <4> QED BY <4>2, <4>3
    <3>5. n \in DOMAIN Maps[turn].timeseries BY <2>6, <3>2
    <3>6. Channel!FileTimeseries
      BY <2>1, <3>1, <3>3, <3>4, <3>5 DEF Channel!FileTimeseries
    <3> QED BY <3>6 DEF Channel!Next
  <2> QED BY <2>4, <2>8, <2>9
<1>3. CASE SendBoth
  <2>1. /\ pc = "poll" /\ pc' # "dead" /\ message' = NoMessage
        /\ turn' = IF turn = Len(Maps) THEN 1 ELSE turn + 1
    BY <1>3 DEF SendBoth
  <2>2. Channel!Report BY <2>1, NoNames DEF Channel!Report, NoMessage
  <2> QED BY <2>2 DEF Channel!Next
<1>4. ReadTail => UNCHANGED turn BY DEF ReadTail
<1> QED BY <1>0, <1>1, <1>2, <1>3, <1>4, TurnStep

\* The channel implements Polling: turns come one after the other, and each
\* message holds groups of its slave alone, in the order of the register map.
THEOREM Implements == Spec => ReportsInTurn
<1>1. Init /\ [][Next]_vars /\ []IInv => Channel!Init /\ [][Channel!Next]_Channel!vars
  BY RefinesInit, RefinesStep, PTL
<1> QED BY <1>1, Invariant, PTL DEF Spec, ReportsInTurn, Channel!Spec

=============================================================================
