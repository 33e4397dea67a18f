---------------------------- MODULE PollingFacts ----------------------------
(***************************************************************************)
(* What the proofs about both Modbus channels need of the data they work   *)
(* on: the polls of a register map, attributes first, and the names of the *)
(* groups that were filed.                                                 *)
(***************************************************************************)
EXTENDS QueueFacts

\* What is tagged stays a sequence.
LEMMA TaggedFacts ==
  ASSUME NEW S, NEW s \in Seq(S), NEW tag, NEW t,
         t = [i \in 1..Len(s) |-> [part |-> tag, group |-> s[i]]]
  PROVE  /\ t \in Seq([part : {tag}, group : S]) /\ Len(t) = Len(s) /\ Len(s) \in Nat
         /\ \A i \in 1..Len(s) : t[i].part = tag /\ t[i].group = s[i]
<1> DEFINE T == [part : {tag}, group : S]
<1>1. Len(s) \in Nat /\ \A i \in 1..Len(s) : s[i] \in S BY LenProperties, ElementOfSeq
<1>2. t \in [1..Len(s) -> T] BY <1>1
<1> HIDE DEF T
<1>3. t \in Seq(T) BY <1>1, <1>2, SeqDef
<1>4. DOMAIN t = 1..Len(s) /\ DOMAIN t = 1..Len(t) /\ Len(t) \in Nat
  BY <1>2, <1>3, LenProperties
<1>5. Len(t) = Len(s) BY <1>1, <1>4
<1> QED BY <1>1, <1>3, <1>5 DEF T

\* The polls of a register map with these groups, see Polls of both channels.
PollsFor(a, s) ==
  [i \in 1..Len(a) |-> [part |-> "attributes", group |-> a[i]]]
    \o [i \in 1..Len(s) |-> [part |-> "timeseries", group |-> s[i]]]

PollSet(S) == [part : {"attributes", "timeseries"}, group : S]

\* polls asks for the groups of a, then for those of s.
AskInOrder(polls, S, a, s) ==
  /\ polls \in Seq(PollSet(S))
  /\ Len(polls) = Len(a) + Len(s) /\ Len(a) \in Nat /\ Len(s) \in Nat
  /\ \A i \in 1..Len(a) : polls[i].part = "attributes" /\ polls[i].group = a[i]
  /\ \A i \in Len(a) + 1..Len(a) + Len(s) :
       /\ polls[i].part = "timeseries"
       /\ i - Len(a) \in 1..Len(s) /\ polls[i].group = s[i - Len(a)]

LEMMA PollsFacts ==
  ASSUME NEW S, NEW a \in Seq(S), NEW s \in Seq(S)
  PROVE  AskInOrder(PollsFor(a, s), S, a, s)
<1> DEFINE u == [i \in 1..Len(a) |-> [part |-> "attributes", group |-> a[i]]]
           v == [i \in 1..Len(s) |-> [part |-> "timeseries", group |-> s[i]]]
<1>1. /\ u \in Seq([part : {"attributes"}, group : S]) /\ Len(u) = Len(a) /\ Len(a) \in Nat
      /\ \A i \in 1..Len(a) : u[i].part = "attributes" /\ u[i].group = a[i]
  BY TaggedFacts
<1>2. /\ v \in Seq([part : {"timeseries"}, group : S]) /\ Len(v) = Len(s) /\ Len(s) \in Nat
      /\ \A i \in 1..Len(s) : v[i].part = "timeseries" /\ v[i].group = s[i]
  BY TaggedFacts
<1>3. /\ [part : {"attributes"}, group : S] \subseteq PollSet(S)
      /\ [part : {"timeseries"}, group : S] \subseteq PollSet(S)
  BY DEF PollSet
<1>4. PollsFor(a, s) = u \o v BY DEF PollsFor
<1> HIDE DEF u, v
<1>5. u \in Seq(PollSet(S)) /\ v \in Seq(PollSet(S)) BY <1>1, <1>2, <1>3, SeqMonotonic
<1>6. /\ u \o v \in Seq(PollSet(S)) /\ Len(u \o v) = Len(u) + Len(v)
      /\ \A i \in 1..Len(u) + Len(v) : (u \o v)[i] = IF i <= Len(u) THEN u[i] ELSE v[i - Len(u)]
  BY <1>5, ConcatProperties
<1>7. \A i \in 1..Len(a) : (u \o v)[i] = u[i] BY <1>1, <1>2, <1>6
<1>8. \A i \in Len(a) + 1..Len(a) + Len(s) : (u \o v)[i] = v[i - Len(a)] /\ i - Len(a) \in 1..Len(s)
  BY <1>1, <1>2, <1>6
<1>9. \A i \in 1..Len(a) : (u \o v)[i].part = "attributes" /\ (u \o v)[i].group = a[i]
  BY <1>1, <1>7
<1>10. \A i \in Len(a) + 1..Len(a) + Len(s) :
         /\ (u \o v)[i].part = "timeseries"
         /\ i - Len(a) \in 1..Len(s) /\ (u \o v)[i].group = s[i - Len(a)]
  BY <1>2, <1>8
<1> QED BY <1>1, <1>2, <1>4, <1>6, <1>9, <1>10 DEF AskInOrder

\* The poll that is next when i - 1 polls are done.
LEMMA NextPoll ==
  ASSUME NEW S, NEW a \in Seq(S), NEW s \in Seq(S),
         NEW i \in 1..Len(PollsFor(a, s)) + 1,
         NEW todo, todo = SubSeq(PollsFor(a, s), i, Len(PollsFor(a, s))), todo # <<>>
  PROVE  /\ Tail(todo) = SubSeq(PollsFor(a, s), i + 1, Len(PollsFor(a, s)))
         /\ i + 1 \in 1..Len(PollsFor(a, s)) + 1
         /\ \/ /\ Head(todo).part = "attributes"
               /\ i \in 1..Len(a) /\ Head(todo).group = a[i]
            \/ /\ Head(todo).part = "timeseries"
               /\ i - Len(a) \in 1..Len(s) /\ Head(todo).group = s[i - Len(a)]
<1> DEFINE polls == PollsFor(a, s)
<1>0. AskInOrder(polls, S, a, s) BY PollsFacts
<1> HIDE DEF polls
<1>1. /\ polls \in Seq(PollSet(S))
      /\ Len(polls) = Len(a) + Len(s) /\ Len(a) \in Nat /\ Len(s) \in Nat
      /\ \A k \in 1..Len(a) : polls[k].part = "attributes" /\ polls[k].group = a[k]
      /\ \A k \in Len(a) + 1..Len(a) + Len(s) :
           /\ polls[k].part = "timeseries"
           /\ k - Len(a) \in 1..Len(s) /\ polls[k].group = s[k - Len(a)]
  BY <1>0 DEF AskInOrder
<1>2. i \in 1..Len(polls) + 1 /\ SubSeq(polls, i, Len(polls)) # <<>> /\ todo = SubSeq(polls, i, Len(polls))
  BY DEF polls
<1>3. /\ i \in 1..Len(polls) /\ i + 1 \in 1..Len(polls) + 1
      /\ Head(todo) = polls[i] /\ Tail(todo) = SubSeq(polls, i + 1, Len(polls))
  BY <1>1, <1>2, RestFacts DEF polls
<1>4. \/ Head(todo).part = "attributes" /\ i \in 1..Len(a) /\ Head(todo).group = a[i]
      \/ /\ Head(todo).part = "timeseries"
         /\ i - Len(a) \in 1..Len(s) /\ Head(todo).group = s[i - Len(a)]
  <2>1. CASE i <= Len(a)
    <3>1. i \in 1..Len(a) BY <1>1, <1>3, <2>1
    <3>2. polls[i].part = "attributes" /\ polls[i].group = a[i] BY <1>1, <3>1 DEF polls
    <3> QED BY <1>1, <1>3, <3>1, <3>2
  <2>2. CASE i > Len(a)
    <3>1. i \in Len(a) + 1..Len(a) + Len(s) BY <1>1, <1>3, <2>2 DEF polls
    <3> QED BY <1>1, <1>3, <3>1 DEF polls
  <2> QED BY <1>1, <1>3, <2>1, <2>2 DEF polls
<1> QED BY <1>3, <1>4 DEF polls

\* Filing one more item adds its name behind the others.
LEMMA NamesFacts ==
  ASSUME NEW S, NEW q \in Seq(S), NEW x \in S
  PROVE  [i \in DOMAIN Append(q, x) |-> Append(q, x)[i].asked]
           = Append([i \in DOMAIN q |-> q[i].asked], x.asked)
<1> DEFINE r == Append(q, x)
           T == {y.asked : y \in S}
           names == [i \in DOMAIN q |-> q[i].asked]
           left == [i \in DOMAIN r |-> r[i].asked]
           right == Append(names, x.asked)
<1>1. /\ r \in Seq(S) /\ Len(r) = Len(q) + 1 /\ Len(q) \in Nat
      /\ \A i \in 1..Len(q) : r[i] = q[i]
      /\ r[Len(q) + 1] = x
  BY AppendFacts
<1> HIDE DEF r
<1>2. DOMAIN q = 1..Len(q) /\ DOMAIN r = 1..Len(q) + 1 BY <1>1, RangeFacts
<1>3. /\ \A i \in 1..Len(q) : q[i].asked \in T
      /\ \A i \in 1..Len(r) : r[i].asked \in T
      /\ x.asked \in T
  <2>1. \A i \in 1..Len(q) : q[i] \in S BY RangeFacts
  <2>2. \A i \in 1..Len(r) : r[i] \in S BY <1>1, RangeFacts
  <2> QED BY <2>1, <2>2
<1> HIDE DEF T
<1>4. names \in [1..Len(q) -> T] /\ left \in [1..Len(q) + 1 -> T] BY <1>1, <1>2, <1>3
<1>5. names \in Seq(T) /\ Len(names) = Len(q)
  <2>1. names \in Seq(T) BY <1>1, <1>4, SeqDef
  <2>2. DOMAIN names = 1..Len(names) /\ Len(names) \in Nat BY <2>1, LenProperties
  <2> QED BY <1>1, <1>4, <2>1, <2>2
<1>6. left \in Seq(T) /\ Len(left) = Len(q) + 1
  <2>1. left \in Seq(T) BY <1>1, <1>4, SeqDef
  <2>2. DOMAIN left = 1..Len(left) /\ Len(left) \in Nat BY <2>1, LenProperties
  <2> QED BY <1>1, <1>4, <2>1, <2>2
<1>7. \A i \in 1..Len(q) : left[i] = names[i] BY <1>1, <1>2
<1>8. left[Len(q) + 1] = x.asked BY <1>1, <1>2
<1> HIDE DEF names, left
<1>9. /\ right \in Seq(T) /\ Len(right) = Len(q) + 1
      /\ \A i \in 1..Len(q) : right[i] = names[i]
      /\ right[Len(q) + 1] = x.asked
  BY <1>3, <1>5, AppendFacts
<1>10. \A i \in 1..Len(left) : left[i] = right[i]
  BY <1>1, <1>6, <1>7, <1>8, <1>9
<1> HIDE DEF right
<1>11. left = right BY <1>6, <1>9, <1>10, SeqEqual
<1> QED BY <1>11 DEF left, right, names, r

\* What has no items has no names.
LEMMA NoNames == [i \in DOMAIN <<>> |-> <<>>[i].asked] = <<>>
OBVIOUS

=============================================================================
