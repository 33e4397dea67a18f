----------------------------- MODULE QueueFacts -----------------------------
(***************************************************************************)
(* What the proofs about the gateway's queues and work lists keep needing: *)
(* how Append, Head, Tail and SubSeq change the elements of a sequence.    *)
(***************************************************************************)
EXTENDS Naturals, Sequences, Functions, SequenceTheorems, TLAPS

\* What a send adds to a queue.
LEMMA AppendFacts ==
  ASSUME NEW S, NEW q \in Seq(S), NEW x \in S
  PROVE  /\ Append(q, x) \in Seq(S)
         /\ Len(Append(q, x)) = Len(q) + 1 /\ Len(q) \in Nat
         /\ \A i \in 1..Len(q) : Append(q, x)[i] = q[i]
         /\ Append(q, x)[Len(q) + 1] = x
         /\ Range(Append(q, x)) = Range(q) \cup {x}
<1>1. /\ Append(q, x) \in Seq(S)
      /\ Len(Append(q, x)) = Len(q) + 1 /\ Len(q) \in Nat
      /\ \A i \in 1..Len(q) : Append(q, x)[i] = q[i]
      /\ Append(q, x)[Len(q) + 1] = x
  BY AppendProperties, LenProperties
<1>2. DOMAIN q = 1..Len(q) /\ DOMAIN Append(q, x) = 1..(Len(q) + 1)
  BY <1>1, LenProperties
<1>3. Range(Append(q, x)) = Range(q) \cup {x}
  BY <1>1, <1>2 DEF Range
<1> QED BY <1>1, <1>3

\* What a recv takes from a queue.
LEMMA TailFacts ==
  ASSUME NEW S, NEW q \in Seq(S), q # <<>>
  PROVE  /\ Head(q) \in S /\ Head(q) = q[1]
         /\ Tail(q) \in Seq(S)
         /\ Len(q) \in Nat /\ Len(q) > 0 /\ Len(Tail(q)) = Len(q) - 1
         /\ \A i \in 1..Len(Tail(q)) : Tail(q)[i] = q[i + 1]
         /\ Range(q) = {Head(q)} \cup Range(Tail(q))
<1>1. /\ Head(q) \in S /\ Head(q) = q[1]
      /\ Tail(q) \in Seq(S)
      /\ Len(q) \in Nat /\ Len(q) > 0 /\ Len(Tail(q)) = Len(q) - 1
      /\ \A i \in 1..Len(Tail(q)) : Tail(q)[i] = q[i + 1]
  BY HeadTailProperties, EmptySeq, LenProperties
<1>2. DOMAIN q = 1..Len(q) /\ DOMAIN Tail(q) = 1..(Len(q) - 1)
  BY <1>1, LenProperties
<1>3. Range(q) \subseteq {Head(q)} \cup Range(Tail(q))
  <2> SUFFICES ASSUME NEW i \in 1..Len(q)
               PROVE  q[i] \in {Head(q)} \cup Range(Tail(q))
    BY <1>2 DEF Range
  <2>1. CASE i = 1 BY <1>1, <2>1
  <2>2. CASE i # 1
    <3>1. i - 1 \in 1..Len(Tail(q)) /\ Tail(q)[i - 1] = q[i] BY <1>1, <2>2
    <3> QED BY <1>1, <1>2, <3>1 DEF Range
  <2> QED BY <2>1, <2>2
<1>4. {Head(q)} \cup Range(Tail(q)) \subseteq Range(q)
  BY <1>1, <1>2 DEF Range
<1> QED BY <1>1, <1>3, <1>4

\* Nothing is in an empty queue, and what is in a queue has an index.
LEMMA RangeFacts ==
  ASSUME NEW S, NEW q \in Seq(S)
  PROVE  /\ Range(q) \subseteq S
         /\ Len(q) \in Nat /\ DOMAIN q = 1..Len(q)
         /\ \A i \in 1..Len(q) : q[i] \in S /\ q[i] \in Range(q)
         /\ \A x \in Range(q) : \E i \in 1..Len(q) : x = q[i]
BY LenProperties, ElementOfSeq DEF Range

LEMMA EmptyFacts ==
  /\ Len(<<>>) = 0 /\ Range(<<>>) = {}
  /\ \A S : <<>> \in Seq(S)
BY DEF Range

\* What is left of a sequence that is worked off from its front.
LEMMA RestFacts ==
  ASSUME NEW S, NEW s \in Seq(S), NEW i \in 1..Len(s) + 1
  PROVE  /\ SubSeq(s, i, Len(s)) \in Seq(S)
         /\ Len(SubSeq(s, i, Len(s))) = Len(s) - i + 1
         /\ SubSeq(s, i, Len(s)) # <<>> =>
              /\ i \in 1..Len(s) /\ i + 1 \in 1..Len(s) + 1
              /\ Head(SubSeq(s, i, Len(s))) = s[i]
              /\ Tail(SubSeq(s, i, Len(s))) = SubSeq(s, i + 1, Len(s))
<1>1. \A j \in i..Len(s) : s[j] \in S BY ElementOfSeq, LenProperties
<1>2. i \in Int /\ Len(s) \in Int /\ Len(s) >= 0 BY LenProperties
<1>3. /\ SubSeq(s, i, Len(s)) \in Seq(S)
      /\ Len(SubSeq(s, i, Len(s))) = IF i <= Len(s) THEN Len(s) - i + 1 ELSE 0
  BY <1>1, <1>2, SubSeqProperties
<1>4. Len(SubSeq(s, i, Len(s))) = Len(s) - i + 1 BY <1>2, <1>3
<1>5. CASE i = Len(s) + 1 BY <1>2, <1>3, <1>4, <1>5, SubSeqEmpty
<1>6. CASE i <= Len(s)
  <2>1. i \in 1..Len(s) /\ Len(s) \in i..Len(s) /\ i + 1 \in 1..Len(s) + 1 BY <1>2, <1>6
  <2> QED BY <1>3, <1>4, <2>1, HeadTailOfSubSeq
<1> QED BY <1>2, <1>5, <1>6

\* Before anything of it is worked off, all of it is left.
LEMMA WholeFacts ==
  ASSUME NEW S, NEW s \in Seq(S)
  PROVE  1 \in 1..Len(s) + 1 /\ SubSeq(s, 1, Len(s)) = s
BY SubSeqFull, LenProperties

\* A part of a sequence holds nothing new.
LEMMA PartFacts ==
  ASSUME NEW S, NEW q \in Seq(S), NEW i \in 1..Len(q) + 1, NEW j \in 0..Len(q)
  PROVE  /\ SubSeq(q, i, j) \in Seq(S)
         /\ Len(SubSeq(q, i, j)) = (IF i <= j THEN j - i + 1 ELSE 0)
         /\ Range(SubSeq(q, i, j)) \subseteq Range(q)
<1>1. Len(q) \in Nat /\ DOMAIN q = 1..Len(q) /\ \A k \in 1..Len(q) : q[k] \in S /\ q[k] \in Range(q)
  BY RangeFacts
<1>2. i \in Int /\ j \in Int /\ \A k \in i..j : k \in 1..Len(q) BY <1>1
<1>3. /\ SubSeq(q, i, j) \in Seq(S) /\ SubSeq(q, i, j) \in Seq(Range(q))
      /\ Len(SubSeq(q, i, j)) = (IF i <= j THEN j - i + 1 ELSE 0)
  BY <1>1, <1>2, SubSeqProperties
<1>4. Range(SubSeq(q, i, j)) \subseteq Range(q) BY <1>3, RangeFacts
<1> QED BY <1>3, <1>4

=============================================================================
