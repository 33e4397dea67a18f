--------------------------- MODULE PipelineProofs ---------------------------
(***************************************************************************)
(* Proofs about Pipeline, for any number of messages, scheduler commands   *)
(* and restarts: its type invariant, that no message vanishes, that the    *)
(* database is offered a message before the broker, and that the pipeline  *)
(* implements OrderedDelivery.                                             *)
(*                                                                         *)
(* The inductive invariant says where the tickets are: the aggregator's    *)
(* queue holds the last ones, in a row; what was handed on to storage and  *)
(* to transport is everything below a frontier that moves with the         *)
(* aggregator's program counter; and on each side the finished tickets     *)
(* come before the queued ones, which are in order and below the frontier; *)
(* and what a dead thread has lost is the rest of what it was sent alive.  *)
(***************************************************************************)
EXTENDS Pipeline, QueueFacts

\* The last ticket the aggregator has received.
Taken == sent - Len(aggQ)

\* The ticket whose InsertBoth comes next, and the rank of the transport
\* action that comes next.
NextInsert == IF aggPc = "InsertBoth" THEN Taken ELSE Taken + 1
NextRank == 2 * Taken + (IF aggPc = "recv" THEN 2
                         ELSE IF aggPc = "SendAttributes" THEN 1 ELSE 0)

Rank(a) == 2 * a.msg + (IF a.kind = "SendAttributes" THEN 1 ELSE 0)

AggregatorOrder ==
  /\ Taken \in Nat /\ floor <= Taken
  /\ \A i \in 1..Len(aggQ) : aggQ[i] = Taken + i
  /\ aggPc # "recv" => aggMsg = Taken /\ floor < Taken

InsertDone(m) == m \in Range(stored) \/ m \in written \/ InsertBoth(m) \in reported

TransportDone(a) == a \in Range(published) \/ a \in reported

StorageOrder ==
  /\ \A m \in Nat : InsertDone(m) => m < NextInsert
  /\ \A i \in 1..Len(storQ) : storQ[i].kind = "InsertBoth" =>
       /\ floor < storQ[i].msg /\ storQ[i].msg < NextInsert
       /\ \A m \in Nat : InsertDone(m) => m < storQ[i].msg
       /\ \A j \in 1..Len(storQ) :
            j < i /\ storQ[j].kind = "InsertBoth" => storQ[j].msg < storQ[i].msg

TransportOrder ==
  /\ \A a \in TransportActions : TransportDone(a) => Rank(a) < NextRank
  /\ \A i \in 1..Len(transQ) :
       /\ floor < transQ[i].msg /\ Rank(transQ[i]) < NextRank
       /\ \A a \in TransportActions : TransportDone(a) => Rank(a) < Rank(transQ[i])
       /\ \A j \in 1..Len(transQ) : j < i => Rank(transQ[j]) < Rank(transQ[i])
  /\ transport = "publishing" =>
       /\ floor < outgoing.msg /\ Rank(outgoing) < NextRank
       /\ \A a \in TransportActions : TransportDone(a) => Rank(a) < Rank(outgoing)
       /\ \A i \in 1..Len(transQ) : Rank(outgoing) < Rank(transQ[i])

StorageCovers ==
  process = "up" /\ storage # "dead" =>
    \A m \in Nat : floor < m /\ m < NextInsert =>
      \/ InsertBoth(m) \in Range(storQ)
      \/ m \in written
      \/ InsertBoth(m) \in reported

TransportCovers ==
  process = "up" /\ transport # "dead" =>
    \A a \in TransportActions : floor < a.msg /\ Rank(a) < NextRank =>
      \/ a \in Range(transQ)
      \/ transport = "publishing" /\ a = outgoing
      \/ TransportDone(a)

\* Only a dead thread has lost anything, nothing that was finished, and nothing
\* is sent twice.
LostOrder ==
  /\ \A m \in Nat : InsertBoth(m) \in lost =>
       storage = "dead" /\ m < NextInsert /\ ~InsertDone(m)
  /\ \A a \in TransportActions : a \in lost =>
       transport = "dead" /\ Rank(a) < NextRank /\ ~TransportDone(a)

\* What a dead thread has neither finished nor lost was reported.
LostCovers ==
  process = "up" =>
    /\ storage = "dead" => \A m \in Nat : floor < m /\ m < NextInsert =>
         m \in written \/ InsertBoth(m) \in reported \/ InsertBoth(m) \in lost
    /\ transport = "dead" => \A a \in TransportActions : floor < a.msg /\ Rank(a) < NextRank =>
         TransportDone(a) \/ a \in lost

\* What a process that ended leaves behind, beyond what TypeOK says.
DeadOrder ==
  process = "down" => aggPc = "recv" /\ floor = sent /\ lost = {}

\* The part of the inductive invariant that is about the aggregator alone.
AInv == TypeOK /\ DeadOrder /\ AggregatorOrder

\* The inductive invariant.
IInv ==
  /\ AInv
  /\ StorageOrder /\ StorageCovers
  /\ TransportOrder /\ TransportCovers
  /\ LostOrder /\ LostCovers

-----------------------------------------------------------------------------
LEMMA AggStagesRange == Range(AggStages) = {"InsertBoth", "SendTimeseries", "SendAttributes"}
<1>1. DOMAIN AggStages = {1, 2, 3} BY DEF AggStages
<1> QED BY <1>1 DEF Range, AggStages

-----------------------------------------------------------------------------
(* Types.                                                                  *)

LEMMA ActionTypes ==
  /\ \A m \in Nat : InsertBoth(m) \in StorageActions
  /\ \A m \in Nat : SendTimeseries(m) \in TransportActions
  /\ \A m \in Nat : SendAttributes(m) \in TransportActions
  /\ Truncate \in StorageActions /\ BackupDB \in StorageActions
  /\ \A a \in StorageActions : a.msg \in Nat
  /\ \A a \in TransportActions : a.msg \in Nat
BY DEF StorageActions, TransportActions, InsertBoth, SendTimeseries, SendAttributes,
       Truncate, BackupDB

LEMMA TypeInit == Init => TypeOK
BY BoundsAssumption, EmptyFacts, ActionTypes
   DEF Init, TypeOK, StorageStates, TransportStates

\* The steps of the channels, the aggregator and the scheduler.
LEMMA TypeSenders ==
  ASSUME TypeOK, ChannelSend \/ AggregatorStep \/ SchedulerSend
  PROVE  TypeOK'
<1> USE BoundsAssumption DEF vars, processVars, aggVars, storageVars, transportVars
<1>1. CASE ChannelSend
  <2>1. Append(aggQ, sent + 1) \in Seq(Nat) BY AppendFacts DEF TypeOK
  <2> QED BY <1>1, <2>1 DEF ChannelSend, TypeOK
<1>2. CASE AggRecv
  <2>1. Head(aggQ) \in Nat /\ Tail(aggQ) \in Seq(Nat)
    BY <1>2, TailFacts DEF TypeOK, AggRecv
  <2> QED BY <1>2, <2>1, AggStagesRange DEF AggRecv, TypeOK
<1>3. CASE AggInsert
  <2>1. InsertBoth(aggMsg) \in StorageActions BY ActionTypes DEF TypeOK
  <2>2. Append(storQ, InsertBoth(aggMsg)) \in Seq(StorageActions)
    BY <2>1, AppendFacts DEF TypeOK
  <2> QED BY <1>3, <2>1, <2>2, AggStagesRange DEF AggInsert, StorageSend, TypeOK
<1>4. CASE AggTimeseries
  <2>1. SendTimeseries(aggMsg) \in TransportActions BY ActionTypes DEF TypeOK
  <2>2. Append(transQ, SendTimeseries(aggMsg)) \in Seq(TransportActions)
    BY <2>1, AppendFacts DEF TypeOK
  <2> QED BY <1>4, <2>1, <2>2, AggStagesRange DEF AggTimeseries, TransportSend, TypeOK
<1>5. CASE AggAttributes
  <2>1. SendAttributes(aggMsg) \in TransportActions BY ActionTypes DEF TypeOK
  <2>2. Append(transQ, SendAttributes(aggMsg)) \in Seq(TransportActions)
    BY <2>1, AppendFacts DEF TypeOK
  <2> QED BY <1>5, <2>1, <2>2, AggStagesRange DEF AggAttributes, TransportSend, TypeOK
<1>6. CASE SchedulerSend
  <2>1. \A a \in {Truncate, BackupDB} : Append(storQ, a) \in Seq(StorageActions)
    BY ActionTypes, AppendFacts DEF TypeOK
  <2> QED BY <1>6, <2>1 DEF SchedulerSend, TypeOK
<1> QED BY <1>1, <1>2, <1>3, <1>4, <1>5, <1>6 DEF AggregatorStep

LEMMA TypeStorage == TypeOK /\ StorageStep => TypeOK'
<1> SUFFICES ASSUME TypeOK, StorageStep PROVE TypeOK' OBVIOUS
<1> USE EmptyFacts DEF vars, processVars, aggVars, storageVars, transportVars,
                       StorageStates, StoragePanic, Served, StorageRecv
<1>0. \A q \in Seq(StorageActions) : Range(q) \subseteq StorageActions BY RangeFacts
<1>1. CASE StorageOpen BY <1>0, <1>1 DEF StorageOpen, TypeOK
<1>2. storQ # <<>> =>
        Head(storQ) \in StorageActions /\ Head(storQ).msg \in Nat
        /\ Tail(storQ) \in Seq(StorageActions)
  BY TailFacts, ActionTypes DEF TypeOK
<1>3. CASE StorageInsert
  <2>1. storQ # <<>> /\ Append(stored, Head(storQ).msg) \in Seq(Nat)
    BY <1>2, <1>3, AppendFacts DEF StorageInsert, TypeOK
  <2> QED BY <1>0, <1>2, <1>3, <2>1
      DEF StorageInsert, InsertBeginFails, InsertExecuteFails, InsertCommits,
          InsertRollsBack, InsertFinishFails, TypeOK
<1>4. CASE StorageTruncate BY <1>2, <1>4 DEF StorageTruncate, TypeOK
<1>n. StorageBackup => storQ # <<>> BY DEF StorageBackup
<1>5. CASE StorageBackup BY <1>0, <1>2, <1>5, <1>n DEF StorageBackup, TypeOK
<1> QED BY <1>1, <1>3, <1>4, <1>5 DEF StorageStep

LEMMA TypeTransport == TypeOK /\ TransportStep => TypeOK'
<1> SUFFICES ASSUME TypeOK, TransportStep PROVE TypeOK' OBVIOUS
<1> USE EmptyFacts DEF vars, processVars, aggVars, storageVars, transportVars,
                       TransportStates
<1>0. Range(transQ) \subseteq TransportActions BY RangeFacts DEF TypeOK
<1>1. CASE TransportCreate BY <1>0, <1>1 DEF TransportCreate, TypeOK
<1>2. CASE TransportConnect BY <1>2 DEF TransportConnect, TypeOK
<1>3. CASE TransportRecv
  <2>1. Head(transQ) \in TransportActions /\ Tail(transQ) \in Seq(TransportActions)
    BY <1>3, TailFacts DEF TransportRecv, TypeOK
  <2> QED BY <1>3, <2>1 DEF TransportRecv, TypeOK
<1>4. CASE TransportPublished
  <2>1. Append(published, outgoing) \in Seq(TransportActions)
    BY AppendFacts DEF TypeOK
  <2> QED BY <1>4, <2>1 DEF TransportPublished, TypeOK
<1> QED BY <1>1, <1>2, <1>3, <1>4 DEF TransportStep

LEMMA TypeProcess ==
  ASSUME TypeOK, MainExits \/ Killed \/ Restart
  PROVE  TypeOK'
<1> USE BoundsAssumption, EmptyFacts
    DEF processVars, aggVars, storageVars, transportVars, StorageStates, TransportStates
<1>1. CASE ProcessEnds
  BY <1>1, ActionTypes DEF ProcessEnds, TypeOK
<1>2. CASE Restart BY <1>2 DEF Restart, TypeOK
<1> QED BY <1>1, <1>2 DEF MainExits, Killed

LEMMA TypeStep == TypeOK /\ [Next]_vars => TypeOK'
<1> SUFFICES ASSUME TypeOK, [Next]_vars PROVE TypeOK' OBVIOUS
<1>1. CASE UNCHANGED vars
  BY <1>1 DEF vars, processVars, aggVars, storageVars, transportVars, TypeOK
<1> QED BY <1>1, TypeSenders, TypeStorage, TypeTransport, TypeProcess DEF Next, AtRest

\* TypeOK holds in every state the pipeline can reach, for all bounds.
THEOREM TypeCorrect == Spec => []TypeOK
BY TypeInit, TypeStep, PTL DEF Spec

-----------------------------------------------------------------------------
(* The aggregator and the frontiers it moves.                              *)

LEMMA AInit == Init => AInv
BY TypeInit, EmptyFacts DEF Init, AInv, DeadOrder, AggregatorOrder, Taken

LEMMA AStep == AInv /\ [Next]_vars => AInv'
<1> SUFFICES ASSUME AInv, [Next]_vars PROVE AInv' OBVIOUS
<1> USE DEF AInv, processVars, aggVars, storageVars, transportVars
<1>1. TypeOK' BY TypeStep
<1>2. Len(aggQ) \in Nat /\ sent \in Nat /\ floor \in Nat BY RangeFacts DEF TypeOK
<1>3. CASE ChannelSend
  <2>1. /\ Len(aggQ') = Len(aggQ) + 1
        /\ \A i \in 1..Len(aggQ) : aggQ'[i] = aggQ[i]
        /\ aggQ'[Len(aggQ) + 1] = sent + 1
    BY <1>2, <1>3, AppendFacts DEF ChannelSend, TypeOK
  <2>2. Taken' = Taken BY <1>2, <1>3, <2>1 DEF ChannelSend, Taken
  <2>3. /\ process = "up" /\ sent' = sent + 1 /\ Taken = sent - Len(aggQ)
        /\ UNCHANGED <<process, floor, aggPc, aggMsg>>
    BY <1>3 DEF ChannelSend, Taken
  <2>4. \A i \in 1..Len(aggQ') : aggQ'[i] = Taken + i BY <1>2, <2>1, <2>3 DEF AggregatorOrder
  <2>5. AggregatorOrder' BY <2>2, <2>3, <2>4 DEF AggregatorOrder
  <2>6. DeadOrder' BY <2>3 DEF DeadOrder
  <2> QED BY <1>1, <2>5, <2>6
<1>4. CASE AggRecv
  <2>1. /\ Head(aggQ) = aggQ[1] /\ Len(aggQ) > 0 /\ Len(Tail(aggQ)) = Len(aggQ) - 1
        /\ \A i \in 1..Len(Tail(aggQ)) : Tail(aggQ)[i] = aggQ[i + 1]
    BY <1>4, TailFacts DEF AggRecv, TypeOK
  <2> QED BY <1>1, <1>2, <1>4, <2>1 DEF AggRecv, DeadOrder, AggregatorOrder, Taken
<1>5. CASE AggInsert \/ AggTimeseries \/ AggAttributes
  BY <1>1, <1>2, <1>5
     DEF AggInsert, AggTimeseries, AggAttributes, DeadOrder, AggregatorOrder, Taken
<1>6. CASE ProcessEnds
  BY <1>1, <1>2, <1>6, EmptyFacts DEF ProcessEnds, DeadOrder, AggregatorOrder, Taken
<1>7. CASE UNCHANGED <<sent, floor, aggVars>> /\ (UNCHANGED <<process, lost>> \/ process' = "up")
  BY <1>1, <1>2, <1>7 DEF DeadOrder, AggregatorOrder, Taken
<1>8. CASE StorageStep
  <2>1. process = "up"
    BY <1>8 DEF StorageStep, StorageOpen, StorageInsert, StorageTruncate, StorageBackup,
                StorageRecv, TypeOK
  <2> QED
    BY <1>7, <1>8, <2>1
       DEF StorageStep, StorageOpen, StorageInsert, StorageTruncate, StorageBackup
<1>9. CASE TransportStep
  <2>1. process = "up"
    BY <1>9 DEF TransportStep, TransportCreate, TransportConnect, TransportRecv,
                TransportPublished, TypeOK
  <2> QED
    BY <1>7, <1>9, <2>1
       DEF TransportStep, TransportCreate, TransportConnect, TransportRecv, TransportPublished
<1>10. CASE SchedulerSend \/ Restart \/ AtRest \/ UNCHANGED vars
  BY <1>7, <1>10 DEF SchedulerSend, Restart, AtRest, vars
<1> QED BY <1>3, <1>4, <1>5, <1>6, <1>8, <1>9, <1>10
        DEF Next, AggregatorStep, MainExits, Killed

LEMMA FrontierTypes ==
  ASSUME AInv
  PROVE  /\ sent \in Nat /\ floor \in Nat /\ Taken \in Nat
         /\ Taken <= sent /\ floor <= Taken
         /\ NextInsert \in Nat /\ floor < NextInsert /\ NextInsert <= sent + 1
         /\ NextRank \in Nat /\ 2 * floor + 2 <= NextRank /\ NextRank <= 2 * sent + 2
<1>1. sent \in Nat /\ floor \in Nat /\ Len(aggQ) \in Nat
  BY RangeFacts DEF AInv, TypeOK
<1>2. /\ Taken \in Nat /\ floor <= Taken /\ Taken <= sent
      /\ aggPc # "recv" => floor < Taken
  BY <1>1 DEF AInv, AggregatorOrder, Taken
<1>3. aggPc \in {"recv", "InsertBoth", "SendTimeseries", "SendAttributes"}
  BY AggStagesRange DEF AInv, TypeOK
<1>4. NextInsert \in Nat /\ floor < NextInsert /\ NextInsert <= sent + 1
  BY <1>1, <1>2 DEF NextInsert
<1>5. NextRank \in Nat /\ 2 * floor + 2 <= NextRank /\ NextRank <= 2 * sent + 2
  BY <1>1, <1>2, <1>3 DEF NextRank
<1> QED BY <1>1, <1>2, <1>4, <1>5

\* How a step moves the frontiers: a send by one, the end of the process to
\* the end of what was sent, any other step not at all.
LEMMA FrontierStep ==
  ASSUME AInv, [Next]_vars
  PROVE  /\ AggInsert => /\ aggMsg = NextInsert /\ NextInsert' = NextInsert + 1
                         /\ NextRank' = NextRank
         /\ AggTimeseries => /\ Rank(SendTimeseries(aggMsg)) = NextRank
                             /\ NextRank' = NextRank + 1 /\ NextInsert' = NextInsert
         /\ AggAttributes => /\ Rank(SendAttributes(aggMsg)) = NextRank
                             /\ NextRank' = NextRank + 1 /\ NextInsert' = NextInsert
         /\ ProcessEnds => /\ NextInsert <= NextInsert' /\ NextRank <= NextRank'
                           /\ NextInsert' = sent + 1 /\ NextRank' = 2 * sent + 2
         /\ ChannelSend \/ AggRecv => UNCHANGED <<NextInsert, NextRank>>
         /\ UNCHANGED <<sent, aggVars>> => UNCHANGED <<NextInsert, NextRank>>
<1> USE FrontierTypes DEF AInv
<1>0. Len(aggQ) \in Nat BY RangeFacts DEF TypeOK
<1>1. AggInsert => /\ aggMsg = NextInsert /\ NextInsert' = NextInsert + 1
                   /\ NextRank' = NextRank
  BY DEF AggInsert, AggregatorOrder, NextInsert, NextRank, Taken
<1>2. AggTimeseries => /\ Rank(SendTimeseries(aggMsg)) = NextRank
                       /\ NextRank' = NextRank + 1 /\ NextInsert' = NextInsert
  <2>1. AggTimeseries => /\ aggPc = "SendTimeseries" /\ aggPc' = "SendAttributes"
                         /\ aggMsg = Taken /\ Taken' = Taken /\ Taken \in Nat
    BY DEF AggTimeseries, AggregatorOrder, Taken
  <2>2. SendTimeseries(aggMsg).kind = "SendTimeseries" /\ SendTimeseries(aggMsg).msg = aggMsg
    BY DEF SendTimeseries
  <2> QED BY <2>1, <2>2 DEF NextInsert, NextRank, Rank
<1>3. AggAttributes => /\ Rank(SendAttributes(aggMsg)) = NextRank
                       /\ NextRank' = NextRank + 1 /\ NextInsert' = NextInsert
  <2>1. AggAttributes => /\ aggPc = "SendAttributes" /\ aggPc' = "recv"
                         /\ aggMsg = Taken /\ Taken' = Taken /\ Taken \in Nat
    BY DEF AggAttributes, AggregatorOrder, Taken
  <2>2. SendAttributes(aggMsg).kind = "SendAttributes" /\ SendAttributes(aggMsg).msg = aggMsg
    BY DEF SendAttributes
  <2> QED BY <2>1, <2>2 DEF NextInsert, NextRank, Rank
<1>4. ProcessEnds => /\ NextInsert <= NextInsert' /\ NextRank <= NextRank'
                     /\ NextInsert' = sent + 1 /\ NextRank' = 2 * sent + 2
  BY EmptyFacts DEF ProcessEnds, NextInsert, NextRank, Taken
<1>5. ChannelSend => UNCHANGED <<NextInsert, NextRank>>
  <2>1. ChannelSend => Len(aggQ') = Len(aggQ) + 1 /\ Taken' = Taken /\ aggPc' = aggPc
    BY <1>0, AppendFacts DEF ChannelSend, Taken, TypeOK
  <2> QED BY <2>1 DEF NextInsert, NextRank
<1>6. AggRecv => UNCHANGED <<NextInsert, NextRank>>
  <2>1. AggRecv => Len(aggQ') = Len(aggQ) - 1 /\ Taken' = Taken + 1
    BY <1>0, TailFacts DEF AggRecv, Taken, TypeOK
  <2>2. AggRecv => NextInsert = Taken + 1 /\ NextInsert' = Taken'
    BY DEF AggRecv, NextInsert
  <2>3. AggRecv => NextRank = 2 * Taken + 2 /\ NextRank' = 2 * Taken'
    BY <2>1 DEF AggRecv, NextRank
  <2> QED BY <2>1, <2>2, <2>3
<1>7. UNCHANGED <<sent, aggVars>> => UNCHANGED <<NextInsert, NextRank>>
  BY DEF NextInsert, NextRank, Taken, aggVars
<1> QED BY <1>1, <1>2, <1>3, <1>4, <1>5, <1>6, <1>7

-----------------------------------------------------------------------------
(* The storage side.                                                       *)

LEMMA KindsDiffer ==
  /\ \A m, n : InsertBoth(m) # SendTimeseries(n) /\ InsertBoth(m) # SendAttributes(n)
  /\ \A m : \A a \in TransportActions : InsertBoth(m) # a
  /\ \A m, n : InsertBoth(m) = InsertBoth(n) => m = n
  /\ \A m : InsertBoth(m).kind = "InsertBoth" /\ InsertBoth(m).msg = m
  /\ Truncate.kind # "InsertBoth" /\ BackupDB.kind # "InsertBoth"
  /\ \A a \in StorageActions : a.kind = "InsertBoth" => a = InsertBoth(a.msg)
BY DEF InsertBoth, SendTimeseries, SendAttributes, Truncate, BackupDB, TransportActions,
       StorageActions

LEMMA StorageInit == AInv /\ Init => StorageOrder /\ StorageCovers
BY EmptyFacts DEF Init, StorageOrder, StorageCovers, InsertDone, NextInsert, Taken

\* A step of another thread that leaves the storage side as it is.
LEMMA StorageSame ==
  ASSUME AInv, [Next]_vars, StorageOrder,
         UNCHANGED <<storQ, stored, written, NextInsert, floor>>,
         reported' = reported
           \/ \E a \in TransportActions : reported' = reported \cup {a}
  PROVE  StorageOrder'
<1>1. \A m : InsertDone(m)' <=> InsertDone(m) BY KindsDiffer DEF InsertDone
<1> QED BY <1>1 DEF StorageOrder

\* A recv, possibly followed by a panic, that finishes the action it took.
LEMMA StorageTakes ==
  ASSUME AInv, StorageOrder, storQ # <<>>,
         storQ' = Tail(storQ) \/ storQ' = <<>>,
         UNCHANGED <<NextInsert, floor>>,
         \A m \in Nat : InsertDone(m)' =>
           InsertDone(m) \/ (Head(storQ).kind = "InsertBoth" /\ m = Head(storQ).msg)
  PROVE  StorageOrder'
<1>1. /\ Head(storQ) = storQ[1] /\ Len(storQ) \in Nat /\ Len(storQ) > 0
      /\ Len(Tail(storQ)) = Len(storQ) - 1
      /\ \A i \in 1..Len(Tail(storQ)) : Tail(storQ)[i] = storQ[i + 1]
      /\ \A i \in 1..Len(storQ) : storQ[i].msg \in Nat
  BY TailFacts, RangeFacts, ActionTypes DEF AInv, TypeOK
<1>2. \A m \in Nat : InsertDone(m)' => m < NextInsert
  BY <1>1 DEF StorageOrder
<1>3. CASE storQ' = <<>> BY <1>2, <1>3, EmptyFacts DEF StorageOrder
<1>4. CASE storQ' = Tail(storQ)
  <2> SUFFICES ASSUME NEW i \in 1..Len(Tail(storQ)), Tail(storQ)[i].kind = "InsertBoth"
               PROVE  /\ floor < Tail(storQ)[i].msg /\ Tail(storQ)[i].msg < NextInsert
                      /\ \A m \in Nat : InsertDone(m)' => m < Tail(storQ)[i].msg
                      /\ \A j \in 1..Len(Tail(storQ)) :
                           j < i /\ Tail(storQ)[j].kind = "InsertBoth"
                             => Tail(storQ)[j].msg < Tail(storQ)[i].msg
    BY <1>2, <1>4 DEF StorageOrder
  <2>1. i + 1 \in 1..Len(storQ) /\ Tail(storQ)[i] = storQ[i + 1] BY <1>1
  <2>2. /\ floor < storQ[i + 1].msg /\ storQ[i + 1].msg < NextInsert
        /\ \A m \in Nat : InsertDone(m) => m < storQ[i + 1].msg
        /\ \A j \in 1..Len(storQ) : j < i + 1 /\ storQ[j].kind = "InsertBoth"
                                     => storQ[j].msg < storQ[i + 1].msg
    BY <2>1 DEF StorageOrder
  <2>3. \A m \in Nat : InsertDone(m)' => m < storQ[i + 1].msg
    BY <1>1, <2>1, <2>2
  <2>4. \A j \in 1..Len(Tail(storQ)) :
          j < i /\ Tail(storQ)[j].kind = "InsertBoth" => Tail(storQ)[j].msg < storQ[i + 1].msg
    BY <1>1, <2>2
  <2> QED BY <2>1, <2>2, <2>3, <2>4
<1> QED BY <1>3, <1>4

\* A send to storage: the aggregator's next ticket or a scheduler command.
LEMMA StorageGets ==
  ASSUME AInv, StorageOrder, NEW a \in StorageActions,
         storQ' = Append(storQ, a),
         UNCHANGED <<floor, stored, written, reported>>,
         \/ a.kind # "InsertBoth" /\ NextInsert' = NextInsert
         \/ a = InsertBoth(NextInsert) /\ NextInsert' = NextInsert + 1
  PROVE  StorageOrder'
<1>1. /\ Len(storQ') = Len(storQ) + 1 /\ Len(storQ) \in Nat
      /\ \A i \in 1..Len(storQ) : storQ'[i] = storQ[i]
      /\ storQ'[Len(storQ) + 1] = a
      /\ \A i \in 1..Len(storQ) : storQ[i].msg \in Nat
  BY AppendFacts, RangeFacts, ActionTypes DEF AInv, TypeOK
<1>2. \A m : InsertDone(m)' <=> InsertDone(m) BY DEF InsertDone
<1>3. NextInsert \in Nat /\ floor < NextInsert /\ NextInsert <= NextInsert'
  BY FrontierTypes
<1>4. a.kind = "InsertBoth" => a.msg = NextInsert /\ NextInsert' = NextInsert + 1
  BY KindsDiffer
<1>5. \A m \in Nat : InsertDone(m)' => m < NextInsert' BY <1>2, <1>3, <1>4 DEF StorageOrder
<1>6. ASSUME NEW i \in 1..Len(storQ'), storQ'[i].kind = "InsertBoth"
      PROVE  /\ floor < storQ'[i].msg /\ storQ'[i].msg < NextInsert'
             /\ \A m \in Nat : InsertDone(m)' => m < storQ'[i].msg
             /\ \A j \in 1..Len(storQ') :
                  j < i /\ storQ'[j].kind = "InsertBoth" => storQ'[j].msg < storQ'[i].msg
  <2>1. CASE i \in 1..Len(storQ)
    BY <1>1, <1>2, <1>3, <1>4, <1>6, <2>1 DEF StorageOrder
  <2>2. CASE i = Len(storQ) + 1
    BY <1>1, <1>2, <1>3, <1>4, <1>6, <2>2 DEF StorageOrder
  <2> QED BY <1>1, <2>1, <2>2
<1> QED BY <1>5, <1>6 DEF StorageOrder

LEMMA StorageOrderStep ==
  ASSUME AInv, StorageOrder, [Next]_vars
  PROVE  StorageOrder'
<1> USE DEF processVars, aggVars, storageVars, transportVars
<1>t. aggMsg \in Nat /\ outgoing \in TransportActions BY DEF AInv, TypeOK
<1>1. CASE ChannelSend \/ AggRecv
  BY <1>1, FrontierStep, StorageSame DEF ChannelSend, AggRecv
<1>2. CASE AggInsert
  <2>1. aggMsg = NextInsert /\ NextInsert' = NextInsert + 1 BY <1>2, FrontierStep
  <2>2. CASE storage = "dead"
    <3>1. storQ = <<>> /\ storQ' = <<>> BY <1>2, <2>2 DEF AggInsert, StorageSend, AInv, TypeOK
    <3>2. \A m : InsertDone(m)' => InsertDone(m) \/ m = aggMsg
      BY <1>2, <2>2, KindsDiffer DEF AggInsert, StorageSend, InsertDone
    <3>3. NextInsert \in Nat /\ Len(storQ') = 0 BY <3>1, EmptyFacts, FrontierTypes
    <3> QED BY <2>1, <3>2, <3>3 DEF StorageOrder
  <2>3. CASE storage # "dead"
    <3>1. InsertBoth(aggMsg) \in StorageActions BY <1>t, ActionTypes
    <3> QED BY <1>2, <2>1, <2>3, <3>1, StorageGets DEF AggInsert, StorageSend
  <2> QED BY <2>2, <2>3
<1>3. CASE AggTimeseries \/ AggAttributes
  <2>1. SendTimeseries(aggMsg) \in TransportActions /\ SendAttributes(aggMsg) \in TransportActions
    BY <1>t, ActionTypes
  <2> QED BY <1>3, <2>1, FrontierStep, StorageSame
          DEF AggTimeseries, AggAttributes, TransportSend
<1>4. CASE SchedulerSend
  <2>1. UNCHANGED <<NextInsert, floor, stored, written, reported>>
    BY <1>4, FrontierStep DEF SchedulerSend
  <2>2. PICK a \in {Truncate, BackupDB} : storQ' = Append(storQ, a)
    BY <1>4 DEF SchedulerSend
  <2> QED BY <2>1, <2>2, ActionTypes, KindsDiffer, StorageGets
<1>5. CASE StorageStep
  <2>0. UNCHANGED <<NextInsert, floor>>
    BY <1>5, FrontierStep
       DEF StorageStep, StorageOpen, StorageInsert, StorageTruncate, StorageBackup
  <2>1. CASE StorageOpen
    <3>1. \A m : InsertDone(m)' <=> InsertDone(m) BY <2>1 DEF StorageOpen, InsertDone
    <3>2. storQ' = storQ \/ storQ' = <<>> BY <2>1 DEF StorageOpen, StoragePanic
    <3> QED BY <2>0, <3>1, <3>2, EmptyFacts DEF StorageOrder
  <2>2. CASE StorageInsert
    <3>1. /\ storQ # <<>> /\ (storQ' = Tail(storQ) \/ storQ' = <<>>)
          /\ Head(storQ) = InsertBoth(Head(storQ).msg)
      BY <2>2 DEF StorageInsert, StorageRecv, InsertBeginFails, InsertExecuteFails,
                  InsertCommits, InsertRollsBack, InsertFinishFails, Served, StoragePanic
    <3>2. Range(stored') = Range(stored) \/ Range(stored') = Range(stored) \cup {Head(storQ).msg}
      <4>1. Head(storQ).msg \in Nat BY <3>1, TailFacts, ActionTypes DEF AInv, TypeOK
      <4>2. stored \in Seq(Nat) BY DEF AInv, TypeOK
      <4>3. stored' = stored \/ stored' = Append(stored, Head(storQ).msg)
        BY <2>2 DEF StorageInsert, InsertBeginFails, InsertExecuteFails, InsertCommits,
                    InsertRollsBack, InsertFinishFails
      <4>4. Range(Append(stored, Head(storQ).msg)) = Range(stored) \cup {Head(storQ).msg}
        BY <4>1, <4>2, AppendFacts
      <4>5. CASE stored' = stored BY <4>5
      <4>6. CASE stored' = Append(stored, Head(storQ).msg) BY <4>4, <4>6
      <4> QED BY <4>3, <4>5, <4>6
    <3>3. /\ written' \subseteq written \cup {Head(storQ).msg}
          /\ reported' \subseteq reported \cup {Head(storQ)}
      BY <2>2 DEF StorageInsert, InsertBeginFails, InsertExecuteFails, InsertCommits,
                  InsertRollsBack, InsertFinishFails
    <3>4. \A m \in Nat : InsertDone(m)' =>
            InsertDone(m) \/ (Head(storQ).kind = "InsertBoth" /\ m = Head(storQ).msg)
      BY <3>1, <3>2, <3>3, KindsDiffer DEF InsertDone
    <3> QED BY <2>0, <3>1, <3>4, StorageTakes
  <2>3. CASE StorageTruncate \/ StorageBackup
    <3>1. storQ # <<>> /\ (storQ' = Tail(storQ) \/ storQ' = <<>>)
      BY <2>3 DEF StorageTruncate, StorageBackup, StorageRecv, Served, StoragePanic
    <3>2. \A m \in Nat : InsertDone(m)' => InsertDone(m)
      BY <2>3 DEF StorageTruncate, StorageBackup, InsertDone
    <3> QED BY <2>0, <3>1, <3>2, StorageTakes
  <2> QED BY <1>5, <2>1, <2>2, <2>3 DEF StorageStep
<1>6. CASE TransportStep
  BY <1>t, <1>6, FrontierStep, StorageSame
     DEF TransportStep, TransportCreate, TransportConnect, TransportRecv, TransportPublished
<1>7. CASE ProcessEnds
  <2>1. storQ' = <<>> /\ NextInsert <= NextInsert' BY <1>7, FrontierStep DEF ProcessEnds
  <2>2. \A m : InsertDone(m)' <=> InsertDone(m) BY <1>7 DEF ProcessEnds, InsertDone
  <2>3. NextInsert \in Nat /\ NextInsert' \in Nat
    BY AStep, FrontierTypes, FrontierStep, <1>7
  <2> QED BY <2>1, <2>2, <2>3, EmptyFacts DEF StorageOrder
<1>8. CASE Restart \/ AtRest \/ UNCHANGED vars
  BY <1>8, FrontierStep, StorageSame DEF Restart, AtRest, vars
<1> QED BY <1>1, <1>2, <1>3, <1>4, <1>5, <1>6, <1>7, <1>8
        DEF Next, AggregatorStep, MainExits, Killed

LEMMA StorageCoversStep ==
  ASSUME AInv, StorageCovers, [Next]_vars
  PROVE  StorageCovers'
<1> USE DEF processVars, aggVars, storageVars, transportVars
<1> SUFFICES ASSUME process' = "up", storage' # "dead",
                    NEW m \in Nat, floor' < m, m < NextInsert'
             PROVE  \/ InsertBoth(m) \in Range(storQ')
                    \/ m \in written'
                    \/ InsertBoth(m) \in reported'
  BY DEF StorageCovers
<1>0. AInv' BY AStep
<1>1. CASE Restart
  <2>1. NextInsert' = floor' + 1
    BY <1>1, FrontierStep, FrontierTypes, EmptyFacts
       DEF Restart, AInv, TypeOK, DeadOrder, NextInsert, Taken
  <2> QED BY <2>1, FrontierTypes, <1>1 DEF Restart
<1>2. CASE ~Restart
  <2>1. process = "up" /\ storage # "dead" /\ floor' = floor
    BY <1>2 DEF Next, vars, AtRest, ChannelSend, AggregatorStep, AggRecv, AggInsert,
            AggTimeseries, AggAttributes, StorageStep, StorageOpen, StorageInsert,
            StorageTruncate, StorageBackup, StorageRecv, SchedulerSend, TransportStep,
            TransportCreate, TransportConnect, TransportRecv, TransportPublished,
            MainExits, Killed, ProcessEnds, AInv, TypeOK
  <2>2. written \subseteq written' /\ reported \subseteq reported'
    BY <1>2 DEF Next, vars, AtRest, ChannelSend, AggregatorStep, AggRecv, AggInsert,
            AggTimeseries, AggAttributes, StorageSend, TransportSend,
            StorageStep, StorageOpen, StorageInsert, InsertBeginFails, InsertExecuteFails,
            InsertCommits, InsertRollsBack, InsertFinishFails,
            StorageTruncate, StorageBackup, SchedulerSend, TransportStep,
            TransportCreate, TransportConnect, TransportRecv, TransportPublished,
            MainExits, Killed, ProcessEnds
  <2>3. CASE AggInsert
    <3>1. aggMsg = NextInsert /\ NextInsert' = NextInsert + 1 BY <2>3, FrontierStep
    <3>2. Range(storQ') = Range(storQ) \cup {InsertBoth(aggMsg)}
      <4>1. InsertBoth(aggMsg) \in StorageActions BY ActionTypes DEF AInv, TypeOK
      <4>2. storQ \in Seq(StorageActions) BY DEF AInv, TypeOK
      <4>3. storQ' = Append(storQ, InsertBoth(aggMsg))
        BY <2>1, <2>3 DEF AggInsert, StorageSend
      <4> QED BY <4>1, <4>2, <4>3, AppendFacts
    <3>3. m < NextInsert \/ m = aggMsg
      <4>1. NextInsert \in Nat BY FrontierTypes
      <4>2. m < NextInsert + 1 BY <3>1
      <4> QED BY <3>1, <4>1, <4>2
    <3> QED BY <2>1, <2>2, <3>2, <3>3 DEF StorageCovers
  <2>4. CASE ~AggInsert
    <3>1. NextInsert' = NextInsert
      BY <1>2, <2>1, <2>4, FrontierStep
         DEF Next, vars, AtRest, AggregatorStep, AggTimeseries, AggAttributes, StorageStep,
             StorageOpen, StorageInsert, StorageTruncate, StorageBackup, SchedulerSend,
             TransportStep, TransportCreate, TransportConnect, TransportRecv,
             TransportPublished, MainExits, Killed, ProcessEnds
    <3>2. InsertBoth(m) \in Range(storQ) \/ m \in written \/ InsertBoth(m) \in reported
      BY <2>1, <3>1 DEF StorageCovers
    <3>3. CASE InsertBoth(m) \in Range(storQ)
      <4>0. storQ # <<>> BY <3>3, EmptyFacts
      <4>1. Range(storQ) = {Head(storQ)} \cup Range(Tail(storQ))
        BY <4>0, TailFacts DEF AInv, TypeOK
      <4>2. CASE StorageInsert
        <5>1. InsertBoth(m) = Head(storQ) =>
                m \in written' \/ InsertBoth(m) \in reported'
          BY <4>2, KindsDiffer
             DEF StorageInsert, InsertBeginFails, InsertExecuteFails, InsertCommits,
                 InsertRollsBack, InsertFinishFails
        <5>2. storQ' = Tail(storQ)
          BY <4>2 DEF StorageInsert, InsertBeginFails, InsertExecuteFails, InsertCommits,
                 InsertRollsBack, InsertFinishFails, StoragePanic, Served
        <5> QED BY <3>3, <4>1, <5>1, <5>2
      <4>3. CASE StorageTruncate \/ StorageBackup
        <5>1. storQ' = Tail(storQ) /\ Head(storQ) \in {Truncate, BackupDB}
          BY <4>3 DEF StorageTruncate, StorageBackup, StorageRecv, StoragePanic, Served
        <5> QED BY <3>3, <4>1, <5>1, KindsDiffer
      <4>4. CASE SchedulerSend
        <5>1. PICK a \in {Truncate, BackupDB} : storQ' = Append(storQ, a)
          BY <4>4 DEF SchedulerSend
        <5>2. Range(storQ') = Range(storQ) \cup {a}
          BY <5>1, ActionTypes, AppendFacts DEF AInv, TypeOK
        <5> QED BY <3>3, <5>2
      <4>5. CASE storQ' = storQ BY <3>3, <4>5
      <4> QED
        BY <1>2, <2>1, <2>4, <4>2, <4>3, <4>4, <4>5
           DEF Next, vars, AtRest, ChannelSend, AggregatorStep, AggRecv, AggTimeseries,
               AggAttributes, StorageStep, StorageOpen, StoragePanic,
               TransportStep, TransportCreate, TransportConnect, TransportRecv,
               TransportPublished, MainExits, Killed, ProcessEnds
    <3> QED BY <2>2, <3>2, <3>3
  <2> QED BY <2>3, <2>4
<1> QED BY <1>1, <1>2

-----------------------------------------------------------------------------
(* The transport side.                                                     *)

LEMMA RankFacts ==
  /\ \A a \in TransportActions : Rank(a) \in Nat /\ a.msg \in Nat
  /\ \A a, b \in TransportActions : Rank(a) = Rank(b) => a = b
  /\ \A a, b \in TransportActions : Rank(a) < Rank(b) => a.msg <= b.msg
BY DEF TransportActions, Rank

LEMMA TransportInit == AInv /\ Init => TransportOrder /\ TransportCovers
<1> SUFFICES ASSUME AInv, Init PROVE TransportOrder /\ TransportCovers OBVIOUS
<1>0. Taken = 0 BY FrontierTypes DEF Init
<1>1. NextRank = 2 BY <1>0 DEF Init, NextRank
<1>2. \A a : ~TransportDone(a) BY EmptyFacts DEF Init, TransportDone
<1>3. TransportOrder BY <1>2, EmptyFacts DEF Init, TransportOrder
<1>4. ASSUME NEW a \in TransportActions, 0 < a.msg, Rank(a) < 2 PROVE FALSE
  BY <1>4 DEF TransportActions, Rank
<1>5. TransportCovers BY <1>1, <1>4 DEF Init, TransportCovers
<1> QED BY <1>3, <1>5

\* A step of another thread that leaves the transport side as it is.
LEMMA TransportSame ==
  ASSUME AInv, TransportOrder,
         UNCHANGED <<transQ, outgoing, published, NextRank, floor>>,
         transport' = transport \/ transport' # "publishing",
         \/ reported' = reported
         \/ \E a \in StorageActions :
              a \notin TransportActions /\ reported' = reported \cup {a}
  PROVE  TransportOrder'
<1>1. \A a \in TransportActions : TransportDone(a)' <=> TransportDone(a) BY DEF TransportDone
<1> QED BY <1>1 DEF TransportOrder

\* A send to transport, received or refused.
LEMMA TransportGets ==
  ASSUME AInv, TransportOrder, NEW x \in TransportActions,
         TransportSend(x), floor < x.msg,
         UNCHANGED <<transport, outgoing, published, floor>>,
         Rank(x) = NextRank, NextRank' = NextRank + 1
  PROVE  TransportOrder'
<1>0. NextRank \in Nat BY FrontierTypes
<1>1. CASE transport = "dead"
  <2>1. transQ = <<>> /\ transQ' = <<>> BY <1>1 DEF TransportSend, AInv, TypeOK
  <2>2. \A a : TransportDone(a)' => TransportDone(a) \/ a = x
    BY <1>1 DEF TransportSend, TransportDone
  <2>3. \A a \in TransportActions : TransportDone(a)' => Rank(a) < NextRank'
    BY <1>0, <2>2, RankFacts DEF TransportOrder
  <2> QED BY <1>1, <2>1, <2>3, EmptyFacts DEF TransportOrder
<1>2. CASE transport # "dead"
  <2>1. /\ transQ' = Append(transQ, x) /\ transQ \in Seq(TransportActions)
        /\ reported' = reported
    BY <1>2 DEF TransportSend, AInv, TypeOK
  <2>2. /\ Len(transQ') = Len(transQ) + 1 /\ Len(transQ) \in Nat
        /\ \A i \in 1..Len(transQ) : transQ'[i] = transQ[i]
        /\ transQ'[Len(transQ) + 1] = x
        /\ \A i \in 1..Len(transQ) : transQ[i] \in TransportActions
    BY <2>1, AppendFacts, RangeFacts
  <2>3. \A a : TransportDone(a)' <=> TransportDone(a) BY <2>1 DEF TransportDone
  <2>4. \A a \in TransportActions : TransportDone(a)' => Rank(a) < NextRank'
    BY <1>0, <2>3, RankFacts DEF TransportOrder
  <2>5. ASSUME NEW i \in 1..Len(transQ')
        PROVE  /\ floor < transQ'[i].msg /\ Rank(transQ'[i]) < NextRank'
               /\ \A a \in TransportActions : TransportDone(a)' => Rank(a) < Rank(transQ'[i])
               /\ \A j \in 1..Len(transQ') : j < i => Rank(transQ'[j]) < Rank(transQ'[i])
    <3>1. CASE i \in 1..Len(transQ)
      <4>1. transQ'[i] = transQ[i] /\ transQ[i] \in TransportActions BY <2>2, <3>1
      <4>2. \A j \in 1..Len(transQ') : j < i =>
              j \in 1..Len(transQ) /\ transQ'[j] = transQ[j]
        BY <2>2, <3>1
      <4>3. /\ floor < transQ[i].msg /\ Rank(transQ[i]) < NextRank
            /\ \A a \in TransportActions : TransportDone(a) => Rank(a) < Rank(transQ[i])
            /\ \A j \in 1..Len(transQ) : j < i => Rank(transQ[j]) < Rank(transQ[i])
        BY <3>1 DEF TransportOrder
      <4>4. Rank(transQ[i]) < NextRank' BY <1>0, <4>1, <4>3, RankFacts
      <4> QED BY <2>3, <4>1, <4>2, <4>3, <4>4
    <3>2. CASE i = Len(transQ) + 1
      <4>1. transQ'[i] = x /\ Rank(x) < NextRank' BY <1>0, <2>2, <3>2
      <4>2. \A a \in TransportActions : TransportDone(a)' => Rank(a) < Rank(x)
        BY <2>3 DEF TransportOrder
      <4>3. \A j \in 1..Len(transQ') : j < i =>
              j \in 1..Len(transQ) /\ transQ'[j] = transQ[j]
        BY <2>2, <3>2
      <4>4. \A j \in 1..Len(transQ) : Rank(transQ[j]) < Rank(x)
        BY DEF TransportOrder
      <4> QED BY <4>1, <4>2, <4>3, <4>4
    <3> QED BY <2>2, <3>1, <3>2
  <2>6. outgoing \in TransportActions BY DEF AInv, TypeOK
  <2>7. transport' = "publishing" =>
          /\ floor' < outgoing'.msg /\ Rank(outgoing') < NextRank'
          /\ \A a \in TransportActions : TransportDone(a)' => Rank(a) < Rank(outgoing')
          /\ \A i \in 1..Len(transQ') : Rank(outgoing') < Rank(transQ'[i])
    <3> SUFFICES ASSUME transport = "publishing"
                 PROVE  /\ floor < outgoing.msg /\ Rank(outgoing) < NextRank'
                        /\ \A a \in TransportActions : TransportDone(a) => Rank(a) < Rank(outgoing)
                        /\ \A i \in 1..Len(transQ') : Rank(outgoing) < Rank(transQ'[i])
      BY <2>3
    <3>1. /\ floor < outgoing.msg /\ Rank(outgoing) < NextRank
          /\ \A a \in TransportActions : TransportDone(a) => Rank(a) < Rank(outgoing)
          /\ \A i \in 1..Len(transQ) : Rank(outgoing) < Rank(transQ[i])
      BY DEF TransportOrder
    <3>2. Rank(outgoing) < NextRank' BY <1>0, <2>6, <3>1, RankFacts
    <3>3. ASSUME NEW i \in 1..Len(transQ') PROVE Rank(outgoing) < Rank(transQ'[i])
      <4>1. CASE i \in 1..Len(transQ) BY <2>2, <3>1, <4>1
      <4>2. CASE i = Len(transQ) + 1 BY <2>2, <3>1, <4>2
      <4> QED BY <2>2, <4>1, <4>2
    <3> QED BY <3>1, <3>2, <3>3
  <2> QED BY <2>4, <2>5, <2>7 DEF TransportOrder
<1> QED BY <1>1, <1>2

LEMMA TransportRecvOrder ==
  ASSUME AInv, TransportOrder, TransportRecv, UNCHANGED NextRank
  PROVE  TransportOrder'
<1>1. /\ Head(transQ) = transQ[1] /\ Len(transQ) \in Nat /\ Len(transQ) > 0
      /\ Len(transQ') = Len(transQ) - 1
      /\ \A i \in 1..Len(transQ') : transQ'[i] = transQ[i + 1]
      /\ \A i \in 1..Len(transQ) : transQ[i] \in TransportActions
  BY TailFacts, RangeFacts DEF TransportRecv, AInv, TypeOK
<1>2. \A a : TransportDone(a)' <=> TransportDone(a)
  BY DEF TransportRecv, TransportDone
<1>3. outgoing' = transQ[1] /\ floor' = floor
  BY <1>1 DEF TransportRecv, processVars
<1>4. /\ floor < transQ[1].msg /\ Rank(transQ[1]) < NextRank
      /\ \A a \in TransportActions : TransportDone(a) => Rank(a) < Rank(transQ[1])
      /\ \A i \in 1..Len(transQ') : Rank(transQ[1]) < Rank(transQ'[i])
  BY <1>1 DEF TransportOrder
<1>5. ASSUME NEW i \in 1..Len(transQ')
      PROVE  /\ floor' < transQ'[i].msg /\ Rank(transQ'[i]) < NextRank'
             /\ \A a \in TransportActions : TransportDone(a)' => Rank(a) < Rank(transQ'[i])
             /\ \A j \in 1..Len(transQ') : j < i => Rank(transQ'[j]) < Rank(transQ'[i])
  <2>1. i + 1 \in 1..Len(transQ) /\ transQ'[i] = transQ[i + 1] BY <1>1
  <2>2. \A j \in 1..Len(transQ') : j < i =>
          j + 1 \in 1..Len(transQ) /\ j + 1 < i + 1 /\ transQ'[j] = transQ[j + 1]
    BY <1>1
  <2> QED BY <1>2, <1>3, <2>1, <2>2 DEF TransportOrder
<1> QED BY <1>2, <1>3, <1>4, <1>5 DEF TransportOrder

LEMMA TransportPublishedOrder ==
  ASSUME AInv, TransportOrder, TransportPublished, UNCHANGED NextRank
  PROVE  TransportOrder'
<1>1. outgoing \in TransportActions /\ published \in Seq(TransportActions)
  BY DEF AInv, TypeOK
<1>2. Range(Append(published, outgoing)) = Range(published) \cup {outgoing}
  BY <1>1, AppendFacts
<1>3. \A a : TransportDone(a)' => TransportDone(a) \/ a = outgoing
  <2>1. CASE published' = published BY <2>1 DEF TransportPublished, TransportDone
  <2>2. CASE published' = Append(published, outgoing)
    BY <1>2, <2>2 DEF TransportPublished, TransportDone
  <2> QED BY <2>1, <2>2 DEF TransportPublished
<1>4. /\ transport = "publishing" /\ transport' = "serving"
      /\ transQ' = transQ /\ floor' = floor
  BY DEF TransportPublished, processVars
<1> QED BY <1>3, <1>4 DEF TransportOrder

\* Steps that have nothing to do with the transport queue.
LEMMA TransportOrderOthers ==
  ASSUME AInv, TransportOrder, [Next]_vars,
         \/ ChannelSend \/ AggRecv \/ AggInsert \/ StorageStep \/ SchedulerSend
         \/ Restart \/ AtRest \/ UNCHANGED vars
  PROVE  TransportOrder'
<1> USE DEF processVars, aggVars, storageVars, transportVars
<1>1. UNCHANGED NextRank
  BY FrontierStep
     DEF StorageStep, StorageOpen, StorageInsert, StorageTruncate, StorageBackup,
         SchedulerSend, Restart, AtRest, vars
<1>2. /\ UNCHANGED <<transQ, outgoing, published, floor>>
      /\ transport' = transport \/ transport' # "publishing"
  BY DEF ChannelSend, AggRecv, AggInsert, StorageStep, StorageOpen, StorageInsert,
         StorageTruncate, StorageBackup, SchedulerSend, Restart, AtRest, vars
<1>3. CASE reported' = reported BY <1>1, <1>2, <1>3, TransportSame
<1>4. CASE AggInsert
  <2>1. InsertBoth(aggMsg) \in StorageActions /\ InsertBoth(aggMsg) \notin TransportActions
    BY ActionTypes, KindsDiffer DEF AInv, TypeOK
  <2> QED BY <1>1, <1>2, <1>4, <2>1, TransportSame DEF AggInsert, StorageSend
<1>5. CASE StorageInsert
  <2>1. storQ # <<>> /\ Head(storQ) = InsertBoth(Head(storQ).msg)
    BY <1>5 DEF StorageInsert, StorageRecv
  <2>2. Head(storQ) \in StorageActions /\ Head(storQ) \notin TransportActions
    <3>1. Head(storQ) \in StorageActions BY <2>1, TailFacts DEF AInv, TypeOK
    <3>2. \A a \in TransportActions : Head(storQ) # a BY <2>1, KindsDiffer
    <3> QED BY <3>1, <3>2
  <2>3. reported' = reported \/ reported' = reported \cup {Head(storQ)}
    BY <1>5 DEF StorageInsert, InsertBeginFails, InsertExecuteFails, InsertCommits,
                InsertRollsBack, InsertFinishFails
  <2> QED BY <1>1, <1>2, <2>2, <2>3, TransportSame
<1> QED
  BY <1>3, <1>4, <1>5
     DEF ChannelSend, AggRecv, StorageStep, StorageOpen, StorageTruncate, StorageBackup,
         SchedulerSend, Restart, AtRest, vars

LEMMA TransportOrderStep ==
  ASSUME AInv, TransportOrder, [Next]_vars
  PROVE  TransportOrder'
<1> USE DEF processVars, aggVars, storageVars, transportVars
<1>1. CASE AggTimeseries
  <2>1. SendTimeseries(aggMsg) \in TransportActions BY ActionTypes DEF AInv, TypeOK
  <2>2. floor < SendTimeseries(aggMsg).msg
    BY <1>1 DEF AInv, AggregatorOrder, AggTimeseries, SendTimeseries
  <2> QED BY <1>1, <2>1, <2>2, FrontierStep, TransportGets DEF AggTimeseries
<1>2. CASE AggAttributes
  <2>1. SendAttributes(aggMsg) \in TransportActions BY ActionTypes DEF AInv, TypeOK
  <2>2. floor < SendAttributes(aggMsg).msg
    BY <1>2 DEF AInv, AggregatorOrder, AggAttributes, SendAttributes
  <2> QED BY <1>2, <2>1, <2>2, FrontierStep, TransportGets DEF AggAttributes
<1>3. CASE TransportStep
  <2>1. UNCHANGED NextRank
    BY <1>3, FrontierStep
       DEF TransportStep, TransportCreate, TransportConnect, TransportRecv, TransportPublished
  <2>2. CASE TransportCreate
    <3>1. CASE transQ' = transQ
      BY <2>1, <2>2, <3>1, TransportSame DEF TransportCreate
    <3>2. CASE transQ' = <<>>
      <4>1. \A a : TransportDone(a)' <=> TransportDone(a)
        BY <2>2 DEF TransportCreate, TransportDone
      <4> QED BY <2>1, <2>2, <3>2, <4>1, EmptyFacts DEF TransportCreate, TransportOrder
    <3> QED BY <2>2, <3>1, <3>2 DEF TransportCreate
  <2>3. CASE TransportConnect BY <2>1, <2>3, TransportSame DEF TransportConnect
  <2> QED BY <1>3, <2>1, <2>2, <2>3, TransportRecvOrder, TransportPublishedOrder
          DEF TransportStep
<1>4. CASE ProcessEnds
  <2>1. transQ' = <<>> /\ transport' = "dead" /\ NextRank <= NextRank'
    BY <1>4, FrontierStep DEF ProcessEnds
  <2>2. \A a : TransportDone(a)' <=> TransportDone(a) BY <1>4 DEF ProcessEnds, TransportDone
  <2>3. NextRank \in Nat /\ NextRank' \in Nat BY AStep, FrontierTypes, FrontierStep, <1>4
  <2>4. \A a \in TransportActions : TransportDone(a)' => Rank(a) < NextRank'
    BY <2>1, <2>2, <2>3, RankFacts DEF TransportOrder
  <2> QED BY <2>1, <2>4, EmptyFacts DEF TransportOrder
<1> QED BY <1>1, <1>2, <1>3, <1>4, TransportOrderOthers
        DEF Next, AggregatorStep, MainExits, Killed

LEMMA TransportCoversStep ==
  ASSUME AInv, TransportCovers, [Next]_vars
  PROVE  TransportCovers'
<1> USE DEF processVars, aggVars, storageVars, transportVars
<1> SUFFICES ASSUME process' = "up", transport' # "dead",
                    NEW a \in TransportActions, floor' < a.msg, Rank(a) < NextRank'
             PROVE  \/ a \in Range(transQ')
                    \/ transport' = "publishing" /\ a = outgoing'
                    \/ TransportDone(a)'
  BY DEF TransportCovers
<1>1. CASE Restart
  <2>1. AInv' /\ floor' = floor /\ floor = sent /\ NextRank' = NextRank
    BY <1>1, AStep, FrontierStep DEF Restart, AInv, TypeOK, DeadOrder
  <2>2. NextRank <= 2 * floor + 2 /\ floor \in Nat /\ NextRank \in Nat
    BY <2>1, FrontierTypes
  <2>3. 2 * floor + 2 <= Rank(a) /\ Rank(a) \in Nat
    BY <2>1, <2>2 DEF TransportActions, Rank
  <2> QED BY <2>1, <2>2, <2>3
<1>2. CASE ~Restart
  <2>1. process = "up" /\ transport # "dead" /\ floor' = floor
    BY <1>2 DEF Next, vars, AtRest, ChannelSend, AggregatorStep, AggRecv, AggInsert,
            AggTimeseries, AggAttributes, StorageStep, StorageOpen, StorageInsert,
            StorageTruncate, StorageBackup, SchedulerSend, TransportStep,
            TransportCreate, TransportConnect, TransportRecv, TransportPublished,
            MainExits, Killed, ProcessEnds, AInv, TypeOK
  <2>2. reported \subseteq reported'
    BY <1>2 DEF Next, vars, AtRest, ChannelSend, AggregatorStep, AggRecv, AggInsert,
            AggTimeseries, AggAttributes, StorageSend, TransportSend,
            StorageStep, StorageOpen, StorageInsert, InsertBeginFails, InsertExecuteFails,
            InsertCommits, InsertRollsBack, InsertFinishFails,
            StorageTruncate, StorageBackup, SchedulerSend, TransportStep,
            TransportCreate, TransportConnect, TransportRecv, TransportPublished,
            MainExits, Killed, ProcessEnds
  <2>3. NextRank \in Nat /\ Rank(a) \in Nat BY FrontierTypes, RankFacts
  <2>4. ASSUME NEW x \in TransportActions, transQ' = Append(transQ, x),
               Rank(x) = NextRank, NextRank' = NextRank + 1,
               UNCHANGED <<transport, outgoing, published>>
        PROVE  \/ a \in Range(transQ')
               \/ transport' = "publishing" /\ a = outgoing'
               \/ TransportDone(a)'
    <3>1. Range(Append(transQ, x)) = Range(transQ) \cup {x}
      BY AppendFacts DEF AInv, TypeOK
    <3>2. Range(transQ') = Range(transQ) \cup {x} BY <2>4, <3>1
    <3>3. Rank(a) < NextRank \/ Rank(a) = NextRank
      <4>1. Rank(a) < NextRank + 1 BY <2>4
      <4> QED BY <2>3, <4>1
    <3>4. CASE Rank(a) = NextRank BY <2>4, <3>2, <3>4, RankFacts
    <3>5. CASE Rank(a) < NextRank
      BY <2>1, <2>2, <2>4, <3>2, <3>5 DEF TransportCovers, TransportDone
    <3> QED BY <3>3, <3>4, <3>5
  <2>5. CASE AggTimeseries
    <3>1. SendTimeseries(aggMsg) \in TransportActions BY ActionTypes DEF AInv, TypeOK
    <3> QED BY <2>1, <2>4, <2>5, <3>1, FrontierStep DEF AggTimeseries, TransportSend
  <2>6. CASE AggAttributes
    <3>1. SendAttributes(aggMsg) \in TransportActions BY ActionTypes DEF AInv, TypeOK
    <3> QED BY <2>1, <2>4, <2>6, <3>1, FrontierStep DEF AggAttributes, TransportSend
  <2>7. CASE ~AggTimeseries /\ ~AggAttributes
    <3>1. NextRank' = NextRank
      BY <1>2, <2>1, <2>7, FrontierStep
         DEF Next, vars, AtRest, AggregatorStep, StorageStep,
             StorageOpen, StorageInsert, StorageTruncate, StorageBackup, SchedulerSend,
             TransportStep, TransportCreate, TransportConnect, TransportRecv,
             TransportPublished, MainExits, Killed, ProcessEnds
    <3>2. \/ a \in Range(transQ)
          \/ transport = "publishing" /\ a = outgoing
          \/ TransportDone(a)
      BY <2>1, <3>1 DEF TransportCovers
    <3>3. CASE TransportRecv
      <4>1. /\ Range(transQ) = {outgoing'} \cup Range(transQ')
            /\ transport' = "publishing" /\ transport = "serving"
        BY <3>3, TailFacts DEF TransportRecv, AInv, TypeOK
      <4> QED BY <3>2, <3>3, <4>1 DEF TransportRecv, TransportDone
    <3>4. CASE TransportPublished
      <4>1. Range(Append(published, outgoing)) = Range(published) \cup {outgoing}
        BY AppendFacts DEF AInv, TypeOK
      <4>2. TransportDone(outgoing)' /\ (TransportDone(a) => TransportDone(a)')
        <5>1. CASE published' = Append(published, outgoing)
          BY <2>2, <3>4, <4>1, <5>1 DEF TransportPublished, TransportDone
        <5>2. CASE published' = published /\ reported' = reported \cup {outgoing}
          BY <3>4, <5>2 DEF TransportPublished, TransportDone
        <5> QED BY <3>4, <5>1, <5>2 DEF TransportPublished
      <4>3. transQ' = transQ /\ outgoing' = outgoing BY <3>4 DEF TransportPublished
      <4> QED BY <3>2, <4>2, <4>3 DEF TransportDone
    <3>5. CASE ~TransportRecv /\ ~TransportPublished
      <4>1. UNCHANGED <<transQ, published>>
        BY <1>2, <2>1, <2>7, <3>5
           DEF Next, vars, AtRest, ChannelSend, AggregatorStep, AggRecv, AggInsert, StorageStep,
               StorageOpen, StorageInsert, StorageTruncate, StorageBackup, SchedulerSend,
               TransportStep, TransportCreate, TransportConnect, MainExits, Killed, ProcessEnds
      <4>2. transport = "publishing" => UNCHANGED <<transport, outgoing>>
        BY <1>2, <2>1, <2>7, <3>5
           DEF Next, vars, AtRest, ChannelSend, AggregatorStep, AggRecv, AggInsert, StorageStep,
               StorageOpen, StorageInsert, StorageTruncate, StorageBackup, SchedulerSend,
               TransportStep, TransportCreate, TransportConnect, MainExits, Killed, ProcessEnds
      <4> QED BY <2>2, <3>2, <4>1, <4>2 DEF TransportDone
    <3> QED BY <3>3, <3>4, <3>5
  <2> QED BY <2>5, <2>6, <2>7
<1> QED BY <1>1, <1>2

-----------------------------------------------------------------------------
(* What is lost.                                                           *)

LEMMA LostInit == Init => LostOrder /\ LostCovers
BY DEF Init, LostOrder, LostCovers, StorageStates, TransportStates

\* What the log, the database and the broker have got they keep; what is lost
\* stays lost while the process runs.
LEMMA Keeps ==
  ASSUME [Next]_vars, ~ProcessEnds, ~Restart
  PROVE  /\ UNCHANGED <<process, floor>>
         /\ written \subseteq written' /\ reported \subseteq reported' /\ lost \subseteq lost'
<1> USE DEF processVars, aggVars, storageVars, transportVars
<1>1. CASE ChannelSend \/ AggregatorStep \/ SchedulerSend
  BY <1>1 DEF ChannelSend, AggregatorStep, AggRecv, AggInsert, AggTimeseries, AggAttributes,
              StorageSend, TransportSend, SchedulerSend
<1>2. CASE StorageStep
  BY <1>2 DEF StorageStep, StorageOpen, StorageInsert, InsertBeginFails, InsertExecuteFails,
              InsertCommits, InsertRollsBack, InsertFinishFails, StorageTruncate,
              StorageBackup, Served, StoragePanic
<1>3. CASE TransportStep \/ AtRest \/ UNCHANGED vars
  BY <1>3 DEF TransportStep, TransportCreate, TransportConnect, TransportRecv,
              TransportPublished, AtRest, vars
<1> QED BY <1>1, <1>2, <1>3 DEF Next, MainExits, Killed

\* How the storage thread goes on, or dies with what is behind the head.
LEMMA StorageLoses ==
  ASSUME AInv, StorageStep
  PROVE  /\ storage # "dead" /\ UNCHANGED <<transport, published, sent, aggVars>>
         /\ \/ storage' # "dead" /\ lost' = lost
            \/ /\ StorageOpen /\ storage' = "dead" /\ lost' = lost \cup Range(storQ)
               /\ UNCHANGED <<stored, written, reported>>
            \/ /\ storQ # <<>> /\ storage' = "dead" /\ lost' = lost \cup Range(Tail(storQ))
               /\ UNCHANGED <<stored, written>>
               /\ \/ reported' = reported \cup {Head(storQ)}
                  \/ reported' = reported /\ Head(storQ) = BackupDB
<1> USE DEF processVars, aggVars, storageVars, transportVars, StoragePanic, Served, StorageRecv
<1>1. CASE StorageOpen BY <1>1 DEF StorageOpen
<1>2. CASE StorageInsert
  BY <1>2 DEF StorageInsert, InsertBeginFails, InsertExecuteFails, InsertCommits,
              InsertRollsBack, InsertFinishFails
<1>3. CASE StorageTruncate BY <1>3 DEF StorageTruncate
<1>4. CASE StorageBackup BY <1>4 DEF StorageBackup
<1> QED BY <1>1, <1>2, <1>3, <1>4 DEF StorageStep

\* What a step of storage reports is the action in its hand.
LEMMA StorageReports ==
  ASSUME AInv, StorageStep
  PROVE  \/ reported' = reported
         \/ /\ storQ # <<>> /\ Head(storQ) \in StorageActions
            /\ reported' = reported \cup {Head(storQ)}
<1>1. storQ # <<>> => Head(storQ) \in StorageActions BY TailFacts DEF AInv, TypeOK
<1> QED BY <1>1
        DEF StorageStep, StorageOpen, StorageInsert, StorageRecv, InsertBeginFails,
            InsertExecuteFails, InsertCommits, InsertRollsBack, InsertFinishFails,
            StorageTruncate, StorageBackup

\* How the transport thread goes on, or dies with what is queued.
LEMMA TransportLoses ==
  ASSUME AInv, TransportStep
  PROVE  /\ transport # "dead" /\ UNCHANGED <<storage, stored, written, sent, aggVars>>
         /\ reported' = reported \/ reported' = reported \cup {outgoing}
         /\ \/ transport' # "dead" /\ lost' = lost
            \/ /\ transport' = "dead" /\ lost' = lost \cup Range(transQ)
               /\ transport = "creating" /\ UNCHANGED <<published, reported>>
BY DEF TransportStep, TransportCreate, TransportConnect, TransportRecv, TransportPublished,
       processVars, aggVars, storageVars, transportVars

\* The steps that send: the frontier moves on, and what is sent to a dead thread
\* is reported.
LEMMA SendLoses ==
  ASSUME AInv, AggInsert \/ AggTimeseries \/ AggAttributes
  PROVE  /\ UNCHANGED <<storage, transport, stored, written, published, lost>>
         /\ AggInsert =>
              \/ storage = "dead" /\ reported' = reported \cup {InsertBoth(aggMsg)}
              \/ storage # "dead" /\ reported' = reported
         /\ AggTimeseries =>
              \/ transport = "dead" /\ reported' = reported \cup {SendTimeseries(aggMsg)}
              \/ transport # "dead" /\ reported' = reported
         /\ AggAttributes =>
              \/ transport = "dead" /\ reported' = reported \cup {SendAttributes(aggMsg)}
              \/ transport # "dead" /\ reported' = reported
BY DEF AggInsert, AggTimeseries, AggAttributes, StorageSend, TransportSend,
       processVars, aggVars, storageVars, transportVars

\* The other steps of a process that runs on.
LEMMA OthersLose ==
  ASSUME AInv, ChannelSend \/ AggRecv \/ SchedulerSend \/ AtRest \/ UNCHANGED vars
  PROVE  /\ UNCHANGED <<storage, transport, stored, written, published, reported, lost>>
         /\ ChannelSend \/ AggRecv \/ UNCHANGED <<sent, aggVars>>
BY DEF ChannelSend, AggRecv, SchedulerSend, AtRest, vars, processVars, aggVars, storageVars,
       transportVars

LEMMA InsertsLost ==
  ASSUME AInv, StorageOrder, LostOrder, [Next]_vars, NEW m \in Nat, InsertBoth(m) \in lost'
  PROVE  storage' = "dead" /\ m < NextInsert' /\ ~InsertDone(m)'
<1>1. ~ProcessEnds BY DEF ProcessEnds
<1>2. ~Restart BY DEF Restart, AInv, DeadOrder
<1>3. InsertBoth(m) \in lost => storage = "dead" /\ m < NextInsert /\ ~InsertDone(m)
  BY DEF LostOrder
<1>4. CASE StorageStep
  <2>1. InsertBoth(m) \notin lost /\ NextInsert' = NextInsert
    BY <1>3, <1>4, StorageLoses, FrontierStep
  <2>2. storQ \in Seq(StorageActions) BY DEF AInv, TypeOK
  <2>3. CASE StorageOpen /\ lost' = lost \cup Range(storQ) /\ storage' = "dead"
    <3>1. PICK i \in 1..Len(storQ) : InsertBoth(m) = storQ[i] BY <2>1, <2>2, <2>3, RangeFacts
    <3>2. storQ[i].kind = "InsertBoth" /\ storQ[i].msg = m BY <3>1, KindsDiffer
    <3>3. m < NextInsert /\ (InsertDone(m) => m < m) BY <3>2 DEF StorageOrder
    <3>4. InsertDone(m)' <=> InsertDone(m) BY <2>3 DEF StorageOpen, InsertDone
    <3> QED BY <2>1, <2>3, <3>3, <3>4
  <2>4. CASE /\ storQ # <<>> /\ storage' = "dead" /\ lost' = lost \cup Range(Tail(storQ))
             /\ UNCHANGED <<stored, written>>
             /\ \/ reported' = reported \cup {Head(storQ)}
                \/ reported' = reported /\ Head(storQ) = BackupDB
    <3>0. /\ Tail(storQ) \in Seq(StorageActions) /\ Len(storQ) \in Nat /\ Len(storQ) > 0
          /\ Len(Tail(storQ)) = Len(storQ) - 1 /\ Head(storQ) = storQ[1]
          /\ \A i \in 1..Len(Tail(storQ)) : Tail(storQ)[i] = storQ[i + 1]
      BY <2>2, <2>4, TailFacts
    <3>1. PICK i \in 1..Len(Tail(storQ)) : InsertBoth(m) = Tail(storQ)[i]
      <4>1. PICK q \in Seq(StorageActions) : q = Tail(storQ) BY <3>0
      <4>2. InsertBoth(m) \in Range(q) BY <2>1, <2>4, <4>1
      <4>3. \E i \in 1..Len(q) : InsertBoth(m) = q[i] BY <4>2, RangeFacts
      <4> QED BY <4>1, <4>3
    <3>2. /\ i + 1 \in 1..Len(storQ) /\ 1 \in 1..Len(storQ) /\ 1 < i + 1
          /\ storQ[i + 1].kind = "InsertBoth" /\ storQ[i + 1].msg = m
      BY <3>0, <3>1, KindsDiffer
    <3>3. /\ m < NextInsert /\ (InsertDone(m) => m < m)
          /\ storQ[1].kind = "InsertBoth" => storQ[1].msg < m
      BY <3>2 DEF StorageOrder
    <3>4. Head(storQ) # InsertBoth(m) BY <3>0, <3>3, KindsDiffer
    <3>5. InsertDone(m)' => InsertDone(m) BY <2>4, <3>4 DEF InsertDone
    <3> QED BY <2>1, <2>4, <3>3, <3>5
  <2> QED BY <1>4, <2>1, <2>3, <2>4, StorageLoses
<1>5. CASE TransportStep
  <2>1. /\ Range(transQ) \subseteq TransportActions /\ outgoing \in TransportActions
    BY RangeFacts DEF AInv, TypeOK
  <2>2. InsertBoth(m) \in lost BY <1>5, <2>1, TransportLoses, KindsDiffer
  <2>3. InsertDone(m)' <=> InsertDone(m)
    BY <1>5, <2>1, TransportLoses, KindsDiffer DEF InsertDone
  <2> QED BY <1>3, <1>5, <2>2, <2>3, TransportLoses, FrontierStep
<1>6. CASE AggInsert \/ AggTimeseries \/ AggAttributes
  <2>1. InsertBoth(m) \in lost /\ storage' = "dead" BY <1>3, <1>6, SendLoses
  <2>2. /\ AggInsert => aggMsg = NextInsert /\ NextInsert' = NextInsert + 1
        /\ ~AggInsert => NextInsert' = NextInsert
        /\ NextInsert \in Nat
    BY <1>6, FrontierStep, FrontierTypes
  <2>3. m < NextInsert' BY <1>3, <2>1, <2>2
  <2>4. reported' \subseteq reported \cup
          {InsertBoth(aggMsg), SendTimeseries(aggMsg), SendAttributes(aggMsg)}
    BY <1>6, SendLoses
  <2>5. AggInsert => InsertBoth(m) # InsertBoth(aggMsg)
    BY <1>3, <2>1, <2>2, KindsDiffer
  <2>6. ~AggInsert => reported' \subseteq reported \cup
          {SendTimeseries(aggMsg), SendAttributes(aggMsg)}
    BY <1>6, SendLoses
  <2>7. InsertBoth(m) \in reported' => InsertBoth(m) \in reported
    BY <2>4, <2>5, <2>6, KindsDiffer
  <2>8. InsertDone(m)' => InsertDone(m) BY <1>6, <2>7, SendLoses DEF InsertDone
  <2> QED BY <1>3, <2>1, <2>3, <2>8
<1>7. CASE ChannelSend \/ AggRecv \/ SchedulerSend \/ AtRest \/ UNCHANGED vars
  <2>1. /\ UNCHANGED <<storage, lost, NextInsert>> /\ (InsertDone(m)' <=> InsertDone(m))
    BY <1>7, OthersLose, FrontierStep DEF InsertDone
  <2> QED BY <1>3, <2>1
<1> QED BY <1>1, <1>2, <1>4, <1>5, <1>6, <1>7 DEF Next, AggregatorStep, MainExits, Killed

LEMMA SendsLost ==
  ASSUME AInv, TransportOrder, LostOrder, [Next]_vars, NEW a \in TransportActions, a \in lost'
  PROVE  transport' = "dead" /\ Rank(a) < NextRank' /\ ~TransportDone(a)'
<1>1. ~ProcessEnds BY DEF ProcessEnds
<1>2. ~Restart BY DEF Restart, AInv, DeadOrder
<1>3. a \in lost => transport = "dead" /\ Rank(a) < NextRank /\ ~TransportDone(a)
  BY DEF LostOrder
<1>4. \A b \in StorageActions : a # b BY DEF StorageActions, TransportActions
<1>5. CASE StorageStep
  <2>1. /\ Range(storQ) \subseteq StorageActions
        /\ storQ # <<>> => Range(Tail(storQ)) \subseteq StorageActions
    BY TailFacts, RangeFacts DEF AInv, TypeOK
  <2>2. a \in lost BY <1>4, <1>5, <2>1, StorageLoses
  <2>3. TransportDone(a)' <=> TransportDone(a)
    BY <1>4, <1>5, StorageLoses, StorageReports DEF TransportDone
  <2> QED BY <1>3, <1>5, <2>2, <2>3, StorageLoses, FrontierStep
<1>6. CASE TransportStep
  <2>1. a \notin lost /\ NextRank' = NextRank BY <1>3, <1>6, TransportLoses, FrontierStep
  <2>2. /\ transport' = "dead" /\ a \in Range(transQ) /\ UNCHANGED <<published, reported>>
    BY <1>6, <2>1, TransportLoses
  <2>3. PICK i \in 1..Len(transQ) : a = transQ[i] BY <2>2, RangeFacts DEF AInv, TypeOK
  <2>4. Rank(a) < NextRank /\ (TransportDone(a) => Rank(a) < Rank(a))
    BY <2>3 DEF TransportOrder
  <2>5. ~TransportDone(a) BY <2>4, RankFacts
  <2> QED BY <2>1, <2>2, <2>4, <2>5 DEF TransportDone
<1>7. CASE AggInsert
  <2>1. /\ UNCHANGED <<transport, published, lost, NextRank>>
        /\ reported' \subseteq reported \cup {InsertBoth(aggMsg)}
    BY <1>7, SendLoses, FrontierStep
  <2>2. TransportDone(a)' => TransportDone(a) BY <2>1, KindsDiffer DEF TransportDone
  <2> QED BY <1>3, <2>1, <2>2
<1>8. CASE AggTimeseries \/ AggAttributes
  <2>1. PICK x : /\ Rank(x) = NextRank /\ NextRank' = NextRank + 1
                 /\ reported' \subseteq reported \cup {x}
                 /\ UNCHANGED <<transport, published, lost>>
    <3>1. CASE AggTimeseries BY <3>1, SendLoses, FrontierStep
    <3>2. CASE AggAttributes BY <3>2, SendLoses, FrontierStep
    <3> QED BY <1>8, <3>1, <3>2
  <2>2. Rank(a) < NextRank /\ NextRank \in Nat /\ Rank(a) \in Nat
    BY <1>3, <2>1, FrontierTypes, RankFacts
  <2>3. a # x BY <2>1, <2>2
  <2>4. TransportDone(a)' => TransportDone(a) BY <2>1, <2>3 DEF TransportDone
  <2> QED BY <1>3, <2>1, <2>2, <2>4
<1>9. CASE ChannelSend \/ AggRecv \/ SchedulerSend \/ AtRest \/ UNCHANGED vars
  <2>1. /\ UNCHANGED <<transport, lost, NextRank>> /\ (TransportDone(a)' <=> TransportDone(a))
    BY <1>9, OthersLose, FrontierStep DEF TransportDone
  <2> QED BY <1>3, <2>1
<1> QED BY <1>1, <1>2, <1>5, <1>6, <1>7, <1>8, <1>9 DEF Next, AggregatorStep, MainExits, Killed

LEMMA LostOrderStep ==
  ASSUME AInv, StorageOrder, TransportOrder, LostOrder, [Next]_vars
  PROVE  LostOrder'
<1>1. \A m \in Nat : InsertBoth(m) \in lost' =>
        storage' = "dead" /\ m < NextInsert' /\ ~InsertDone(m)'
  BY InsertsLost
<1>2. \A a \in TransportActions : a \in lost' =>
        transport' = "dead" /\ Rank(a) < NextRank' /\ ~TransportDone(a)'
  BY SendsLost
<1> QED BY <1>1, <1>2 DEF LostOrder

LEMMA InsertsCovered ==
  ASSUME AInv, StorageCovers, LostCovers, [Next]_vars, process' = "up", storage' = "dead",
         NEW m \in Nat, floor' < m, m < NextInsert'
  PROVE  m \in written' \/ InsertBoth(m) \in reported' \/ InsertBoth(m) \in lost'
<1>1. ~ProcessEnds /\ ~Restart BY DEF ProcessEnds, Restart
<1>2. /\ process = "up" /\ floor' = floor
      /\ written \subseteq written' /\ reported \subseteq reported' /\ lost \subseteq lost'
  BY <1>1, Keeps
<1>3. m < NextInsert =>
        \/ m \in written' \/ InsertBoth(m) \in reported' \/ InsertBoth(m) \in lost'
        \/ storage # "dead" /\ InsertBoth(m) \in Range(storQ)
  BY <1>2 DEF StorageCovers, LostCovers
<1>4. CASE StorageStep
  <2>1. NextInsert' = NextInsert BY <1>4, StorageLoses, FrontierStep
  <2>2. InsertBoth(m) \in Range(storQ) /\ storQ # <<>> =>
          InsertBoth(m) = Head(storQ) \/ InsertBoth(m) \in Range(Tail(storQ))
    BY TailFacts DEF AInv, TypeOK
  <2>3. InsertBoth(m) # BackupDB BY KindsDiffer
  <2> QED BY <1>3, <1>4, <2>1, <2>2, <2>3, StorageLoses
<1>5. CASE AggInsert
  <2>1. aggMsg = NextInsert /\ NextInsert' = NextInsert + 1 /\ NextInsert \in Nat
    BY <1>5, FrontierStep, FrontierTypes
  <2>2. storage = "dead" /\ reported' = reported \cup {InsertBoth(aggMsg)}
    BY <1>5, SendLoses
  <2>3. m < NextInsert \/ m = NextInsert BY <2>1
  <2> QED BY <1>3, <2>1, <2>2, <2>3
<1>6. CASE TransportStep \/ AggTimeseries \/ AggAttributes
           \/ ChannelSend \/ AggRecv \/ SchedulerSend \/ AtRest \/ UNCHANGED vars
  <2>1. UNCHANGED <<storage, NextInsert>>
    BY <1>6, TransportLoses, SendLoses, OthersLose, FrontierStep
  <2> QED BY <1>3, <2>1
<1> QED BY <1>1, <1>4, <1>5, <1>6 DEF Next, AggregatorStep, MainExits, Killed

LEMMA SendsCovered ==
  ASSUME AInv, TransportCovers, LostCovers, [Next]_vars, process' = "up", transport' = "dead",
         NEW a \in TransportActions, floor' < a.msg, Rank(a) < NextRank'
  PROVE  TransportDone(a)' \/ a \in lost'
<1>1. ~ProcessEnds /\ ~Restart BY DEF ProcessEnds, Restart
<1>2. process = "up" /\ floor' = floor /\ reported \subseteq reported' /\ lost \subseteq lost'
  BY <1>1, Keeps
<1>3. Rank(a) < NextRank =>
        \/ TransportDone(a) \/ a \in lost
        \/ transport # "dead" /\ a \in Range(transQ)
        \/ transport = "publishing"
  BY <1>2 DEF TransportCovers, LostCovers
<1>4. CASE TransportStep
  <2>1. /\ transport = "creating" /\ lost' = lost \cup Range(transQ)
        /\ UNCHANGED <<published, reported, NextRank>>
    BY <1>4, TransportLoses, FrontierStep
  <2> QED BY <1>3, <2>1 DEF TransportDone
<1>5. CASE AggTimeseries \/ AggAttributes
  <2>1. PICK x \in TransportActions :
          /\ Rank(x) = NextRank /\ NextRank' = NextRank + 1
          /\ transport = "dead" /\ reported' = reported \cup {x} /\ UNCHANGED <<published, lost>>
    <3>1. SendTimeseries(aggMsg) \in TransportActions /\ SendAttributes(aggMsg) \in TransportActions
      BY ActionTypes DEF AInv, TypeOK
    <3>2. CASE AggTimeseries BY <3>1, <3>2, SendLoses, FrontierStep
    <3>3. CASE AggAttributes BY <3>1, <3>3, SendLoses, FrontierStep
    <3> QED BY <1>5, <3>2, <3>3
  <2>2. NextRank \in Nat /\ Rank(a) \in Nat BY FrontierTypes, RankFacts
  <2>3. Rank(a) < NextRank \/ Rank(a) = Rank(x) BY <2>1, <2>2
  <2>4. CASE Rank(a) < NextRank BY <1>3, <2>1, <2>4 DEF TransportDone
  <2>5. CASE Rank(a) = Rank(x)
    <3>1. a = x BY <2>5, RankFacts
    <3> QED BY <2>1, <3>1 DEF TransportDone
  <2> QED BY <2>3, <2>4, <2>5
<1>6. CASE StorageStep \/ AggInsert
           \/ ChannelSend \/ AggRecv \/ SchedulerSend \/ AtRest \/ UNCHANGED vars
  <2>1. UNCHANGED <<transport, published, NextRank>>
    BY <1>6, StorageLoses, SendLoses, OthersLose, FrontierStep
  <2> QED BY <1>2, <1>3, <2>1 DEF TransportDone
<1> QED BY <1>1, <1>4, <1>5, <1>6 DEF Next, AggregatorStep, MainExits, Killed

LEMMA LostCoversStep ==
  ASSUME AInv, StorageCovers, TransportCovers, LostCovers, [Next]_vars
  PROVE  LostCovers'
<1> SUFFICES ASSUME process' = "up"
             PROVE  /\ storage' = "dead" => \A m \in Nat : floor' < m /\ m < NextInsert' =>
                         m \in written' \/ InsertBoth(m) \in reported' \/ InsertBoth(m) \in lost'
                    /\ transport' = "dead" =>
                         \A a \in TransportActions : floor' < a.msg /\ Rank(a) < NextRank' =>
                           TransportDone(a)' \/ a \in lost'
  BY DEF LostCovers
<1> QED BY InsertsCovered, SendsCovered

-----------------------------------------------------------------------------
(* The theorems.                                                           *)

LEMMA Inductive == Spec => []IInv
<1>1. Init => IInv BY AInit, StorageInit, TransportInit, LostInit DEF IInv
<1>2. IInv /\ [Next]_vars => IInv'
  BY AStep, StorageOrderStep, StorageCoversStep, TransportOrderStep, TransportCoversStep,
     LostOrderStep, LostCoversStep
     DEF IInv
<1> QED BY <1>1, <1>2, PTL DEF Spec

\* The three kinds of send, in the words of the frontiers.
LEMMA NotOfferedIs ==
  ASSUME AInv, NEW m \in floor + 1 .. sent
  PROVE  /\ NotOffered("InsertBoth", m) <=> ~(m < NextInsert)
         /\ NotOffered("SendTimeseries", m) <=> ~(Rank(SendTimeseries(m)) < NextRank)
         /\ NotOffered("SendAttributes", m) <=> ~(Rank(SendAttributes(m)) < NextRank)
<1>0. /\ sent \in Nat /\ floor \in Nat /\ Taken \in Nat /\ m \in Nat /\ m <= sent
      /\ Len(aggQ) \in Nat /\ Taken = sent - Len(aggQ)
  BY FrontierTypes, RangeFacts DEF AInv, TypeOK, Taken
<1>1. m \in Range(aggQ) <=> Taken < m
  <2>1. ASSUME Taken < m PROVE m \in Range(aggQ)
    <3>1. m - Taken \in 1..Len(aggQ) /\ m = Taken + (m - Taken) BY <1>0, <2>1
    <3>2. aggQ[m - Taken] = m BY <1>0, <3>1 DEF AInv, AggregatorOrder
    <3> QED BY <3>1, <3>2, RangeFacts DEF AInv, TypeOK
  <2>2. ASSUME m \in Range(aggQ) PROVE Taken < m
    <3>1. PICK i \in 1..Len(aggQ) : m = aggQ[i] BY <2>2, RangeFacts DEF AInv, TypeOK
    <3>2. m = Taken + i BY <3>1 DEF AInv, AggregatorOrder
    <3> QED BY <1>0, <3>2
  <2> QED BY <2>1, <2>2
<1>2. /\ AggStages[1] = "InsertBoth" /\ AggStages[2] = "SendTimeseries"
      /\ AggStages[3] = "SendAttributes"
  BY DEF AggStages
<1>3. /\ (\E i, j \in 1..3 : i <= j /\ aggPc = AggStages[i] /\ "InsertBoth" = AggStages[j])
           <=> aggPc = "InsertBoth"
      /\ (\E i, j \in 1..3 : i <= j /\ aggPc = AggStages[i] /\ "SendTimeseries" = AggStages[j])
           <=> aggPc \in {"InsertBoth", "SendTimeseries"}
      /\ (\E i, j \in 1..3 : i <= j /\ aggPc = AggStages[i] /\ "SendAttributes" = AggStages[j])
           <=> aggPc \in {"InsertBoth", "SendTimeseries", "SendAttributes"}
  <2>1. \A i \in 1..3 : i = 1 \/ i = 2 \/ i = 3 OBVIOUS
  <2> QED BY <1>2, <2>1
<1>4. aggPc # "recv" => aggMsg = Taken BY DEF AInv, AggregatorOrder
<1>5. aggPc \in {"recv", "InsertBoth", "SendTimeseries", "SendAttributes"}
  BY AggStagesRange DEF AInv, TypeOK
<1>6. NotOffered("InsertBoth", m) <=> Taken < m \/ (m = Taken /\ aggPc = "InsertBoth")
  BY <1>1, <1>3, <1>4 DEF NotOffered
<1>7. NotOffered("SendTimeseries", m)
        <=> Taken < m \/ (m = Taken /\ aggPc \in {"InsertBoth", "SendTimeseries"})
  BY <1>1, <1>3, <1>4 DEF NotOffered
<1>8. NotOffered("SendAttributes", m) <=> Taken < m \/ (m = Taken /\ aggPc # "recv")
  BY <1>1, <1>3, <1>4, <1>5 DEF NotOffered
<1>9. Rank(SendTimeseries(m)) = 2 * m /\ Rank(SendAttributes(m)) = 2 * m + 1
  BY <1>0 DEF Rank, SendTimeseries, SendAttributes
<1>10. NotOffered("InsertBoth", m) <=> ~(m < NextInsert)
  BY <1>0, <1>6 DEF NextInsert
<1>11. NotOffered("SendTimeseries", m) <=> ~(Rank(SendTimeseries(m)) < NextRank)
  BY <1>0, <1>5, <1>7, <1>9 DEF NextRank
<1>12. NotOffered("SendAttributes", m) <=> ~(Rank(SendAttributes(m)) < NextRank)
  BY <1>0, <1>5, <1>8, <1>9 DEF NextRank
<1> QED BY <1>10, <1>11, <1>12

\* What Queued and Settled come down to for an insert.
LEMMA InsertPlaces ==
  ASSUME IInv, NEW m \in Nat
  PROVE  /\ Queued(InsertBoth(m)) <=> InsertBoth(m) \in Range(storQ)
         /\ Settled(InsertBoth(m)) <=> m \in written \/ InsertBoth(m) \in reported
         /\ InsertBoth(m) \in Range(storQ) =>
              m < NextInsert /\ \A n \in Nat : InsertDone(n) => n < m
         /\ Settled(InsertBoth(m)) => InsertDone(m)
<1>1. Range(transQ) \subseteq TransportActions /\ Range(published) \subseteq TransportActions
      /\ outgoing \in TransportActions
  BY RangeFacts DEF IInv, AInv, TypeOK
<1>2. Queued(InsertBoth(m)) <=> InsertBoth(m) \in Range(storQ)
  BY <1>1, KindsDiffer DEF Queued
<1>3. Settled(InsertBoth(m)) <=> m \in written \/ InsertBoth(m) \in reported
  BY <1>1, KindsDiffer DEF Settled
<1>4. ASSUME InsertBoth(m) \in Range(storQ)
      PROVE  m < NextInsert /\ \A n \in Nat : InsertDone(n) => n < m
  <2>1. PICK i \in 1..Len(storQ) : InsertBoth(m) = storQ[i]
    BY <1>4, RangeFacts DEF IInv, AInv, TypeOK
  <2>2. storQ[i].kind = "InsertBoth" /\ storQ[i].msg = m BY <2>1, KindsDiffer
  <2> QED BY <2>2 DEF IInv, StorageOrder
<1> QED BY <1>2, <1>3, <1>4 DEF InsertDone

\* And for a transport action.
LEMMA TransportPlaces ==
  ASSUME IInv, NEW a \in TransportActions
  PROVE  /\ Queued(a) <=> a \in Range(transQ) \/ (transport = "publishing" /\ a = outgoing)
         /\ Settled(a) <=> TransportDone(a)
         /\ Queued(a) => Rank(a) < NextRank /\ ~TransportDone(a)
         /\ Receiver(a) = transport
<1>1. \A b \in Range(storQ) : b \in StorageActions BY RangeFacts DEF IInv, AInv, TypeOK
<1>2. a.kind # "InsertBoth" /\ a \notin StorageActions
  BY DEF TransportActions, StorageActions
<1>3. Queued(a) <=> a \in Range(transQ) \/ (transport = "publishing" /\ a = outgoing)
  BY <1>1, <1>2 DEF Queued
<1>4. Settled(a) <=> TransportDone(a) BY <1>2 DEF Settled, TransportDone
<1>5. ASSUME Queued(a) PROVE Rank(a) < NextRank /\ (TransportDone(a) => Rank(a) < Rank(a))
  <2>1. CASE a \in Range(transQ)
    <3>1. PICK i \in 1..Len(transQ) : a = transQ[i]
      BY <2>1, RangeFacts DEF IInv, AInv, TypeOK
    <3> QED BY <3>1 DEF IInv, TransportOrder
  <2>2. CASE transport = "publishing" /\ a = outgoing
    BY <2>2 DEF IInv, TransportOrder
  <2> QED BY <1>3, <1>5, <2>1, <2>2
<1>6. ~(Rank(a) < Rank(a)) BY RankFacts
<1> QED BY <1>2, <1>3, <1>4, <1>5, <1>6 DEF Receiver

LEMMA VanishesImplied == IInv => NoMessageVanishes
<1> SUFFICES ASSUME IInv, process = "up", NEW m \in floor + 1 .. sent, NEW a \in ActionsOf(m)
             PROVE  /\ NotOffered(a.kind, m) \/ Queued(a) \/ Settled(a) \/ a \in lost
                    /\ NotOffered(a.kind, m) => ~Queued(a) /\ ~Settled(a) /\ a \notin lost
                    /\ Queued(a) => ~Settled(a) /\ a \notin lost
                    /\ Settled(a) => a \notin lost
                    /\ a \in lost => Receiver(a) = "dead"
  BY DEF NoMessageVanishes
<1>0. AInv /\ m \in Nat /\ floor < m BY FrontierTypes DEF IInv
<1>1. CASE a = InsertBoth(m)
  <2>1. a.kind = "InsertBoth" /\ Receiver(a) = storage BY <1>1, KindsDiffer DEF Receiver
  <2>2. NotOffered(a.kind, m) <=> ~(m < NextInsert) BY <1>0, <2>1, NotOfferedIs
  <2>3. m < NextInsert => Queued(a) \/ Settled(a) \/ a \in lost
    BY <1>0, <1>1, InsertPlaces DEF IInv, StorageCovers, LostCovers
  <2>4. (Queued(a) => m < NextInsert) /\ (Settled(a) => m < NextInsert)
    BY <1>0, <1>1, InsertPlaces DEF IInv, StorageOrder
  <2>5. Queued(a) /\ Settled(a) => m < m BY <1>0, <1>1, InsertPlaces
  <2>6. a \in lost => storage = "dead" /\ m < NextInsert /\ ~InsertDone(m)
    BY <1>0, <1>1 DEF IInv, LostOrder
  <2>7. a \in lost => ~Queued(a)
    <3>1. storage = "dead" => Range(storQ) = {} BY EmptyFacts DEF IInv, AInv, TypeOK
    <3> QED BY <1>0, <1>1, <2>6, <3>1, InsertPlaces
  <2>8. a \in lost => ~Settled(a) BY <1>0, <1>1, <2>6, InsertPlaces
  <2> QED BY <1>0, <2>1, <2>2, <2>3, <2>4, <2>5, <2>6, <2>7, <2>8
<1>2. CASE a \in {SendTimeseries(m), SendAttributes(m)}
  <2>1. a \in TransportActions /\ a.msg = m BY <1>0, <1>2, ActionTypes
    DEF SendTimeseries, SendAttributes
  <2>2. NotOffered(a.kind, m) <=> ~(Rank(a) < NextRank)
    <3>1. SendTimeseries(m).kind = "SendTimeseries" /\ SendAttributes(m).kind = "SendAttributes"
      BY DEF SendTimeseries, SendAttributes
    <3> QED BY <1>0, <1>2, <3>1, NotOfferedIs
  <2>3. Rank(a) < NextRank => Queued(a) \/ Settled(a) \/ a \in lost
    BY <1>0, <2>1, TransportPlaces DEF IInv, TransportCovers, LostCovers
  <2>4. (Queued(a) => Rank(a) < NextRank) /\ (Settled(a) => Rank(a) < NextRank)
    BY <2>1, TransportPlaces DEF IInv, TransportOrder
  <2>5. ~(Queued(a) /\ Settled(a)) BY <2>1, TransportPlaces
  <2>6. a \in lost => transport = "dead" /\ Rank(a) < NextRank /\ ~TransportDone(a)
    BY <2>1 DEF IInv, LostOrder
  <2>7. a \in lost => ~Queued(a)
    <3>1. transport = "dead" => Range(transQ) = {} BY EmptyFacts DEF IInv, AInv, TypeOK
    <3> QED BY <2>1, <2>6, <3>1, TransportPlaces
  <2>8. a \in lost => ~Settled(a) /\ Receiver(a) = "dead" BY <2>1, <2>6, TransportPlaces
  <2> QED BY <2>2, <2>3, <2>4, <2>5, <2>6, <2>7, <2>8
<1> QED BY <1>1, <1>2 DEF ActionsOf

\* Each of the three actions made from a message is in exactly one place: not
\* sent yet, queued, finished with a log line, or lost with the queue it was in.
THEOREM NothingVanishes == Spec => []NoMessageVanishes
BY Inductive, VanishesImplied, PTL

LEMMA OfferedFirstImplied == IInv => StorageOfferedFirst
<1> SUFFICES ASSUME IInv, NEW m \in floor + 1 .. sent, NotOffered("InsertBoth", m),
                    NEW a \in {SendTimeseries(m), SendAttributes(m)}
             PROVE  ~Queued(a) /\ ~Settled(a)
  BY DEF StorageOfferedFirst
<1>0. /\ AInv /\ m \in Nat /\ NextInsert \in Nat /\ NextRank \in Nat
      /\ Taken \in Nat
  BY FrontierTypes DEF IInv
<1>1. ~(m < NextInsert) BY <1>0, NotOfferedIs
<1>2. a \in TransportActions /\ 2 * m <= Rank(a)
  BY <1>0, ActionTypes DEF Rank, SendTimeseries, SendAttributes
<1>3. NextRank <= 2 * NextInsert BY <1>0 DEF NextRank, NextInsert
<1>4. ~(Rank(a) < NextRank) BY <1>0, <1>1, <1>2, <1>3, RankFacts
<1> QED BY <1>2, <1>4, TransportPlaces DEF IInv, TransportOrder

\* Nothing of a message reaches the transport before storage was offered it.
THEOREM OfferedFirst == Spec => []StorageOfferedFirst
BY Inductive, OfferedFirstImplied, PTL

LEMMA RefinesInit == Init => Promise!Init
BY DEF Init, Promise!Init

LEMMA RefinesStep == IInv /\ [Next]_vars => [Promise!Next]_Promise!vars
<1> SUFFICES ASSUME IInv, [Next]_vars PROVE [Promise!Next]_Promise!vars OBVIOUS
<1> USE DEF Promise!vars, processVars, aggVars, storageVars, transportVars
<1>0. AInv BY DEF IInv
<1>1. CASE ChannelSend
  BY <1>1 DEF ChannelSend, Promise!Next, Promise!Send
<1>2. CASE StorageInsert
  <2>1. CASE stored' = stored BY <2>1, <1>2 DEF StorageInsert, InsertBeginFails,
          InsertExecuteFails, InsertCommits, InsertRollsBack, InsertFinishFails
  <2>2. CASE InsertCommits
    <3> DEFINE m == Head(storQ).msg
    <3>1. storQ # <<>> /\ Head(storQ) = InsertBoth(m)
      BY <1>2 DEF StorageInsert, StorageRecv
    <3>2. m \in Nat /\ Head(storQ) = storQ[1] /\ 1 \in 1..Len(storQ)
      BY <3>1, TailFacts, ActionTypes DEF IInv, AInv, TypeOK
    <3>3. /\ floor < m /\ m < NextInsert
          /\ \A n \in Nat : InsertDone(n) => n < m
      BY <3>1, <3>2, KindsDiffer DEF IInv, StorageOrder
    <3>f. /\ sent \in Nat /\ floor \in Nat
          /\ NextInsert \in Nat /\ NextInsert <= sent + 1
      BY <1>0, FrontierTypes
    <3> HIDE DEF m
    <3>4. m \in 1..sent BY <3>2, <3>3, <3>f
    <3>5. \A i \in 1..Len(stored) : stored[i] < m
      BY <3>3, RangeFacts DEF InsertDone, IInv, AInv, TypeOK
    <3>6. stored' = Append(stored, m) /\ UNCHANGED <<sent, published>>
      BY <1>2, <2>2 DEF StorageInsert, InsertCommits, m
    <3>7. Promise!Store BY <3>4, <3>5, <3>6 DEF Promise!Store
    <3> QED BY <3>7 DEF Promise!Next
  <2> QED BY <1>2, <2>1, <2>2
          DEF StorageInsert, InsertBeginFails, InsertExecuteFails, InsertRollsBack,
              InsertFinishFails
<1>3. CASE TransportPublished
  <2>1. CASE published' = published BY <1>3, <2>1 DEF TransportPublished
  <2>2. CASE published' = Append(published, outgoing)
    <3>1. /\ outgoing \in TransportActions /\ floor < outgoing.msg /\ Rank(outgoing) < NextRank
          /\ \A a \in TransportActions : TransportDone(a) => Rank(a) < Rank(outgoing)
      BY <1>3 DEF TransportPublished, IInv, AInv, TypeOK, TransportOrder
    <3>2. outgoing \in [kind : {"SendTimeseries", "SendAttributes"}, msg : 1..sent]
      <4>1. /\ sent \in Nat /\ floor \in Nat /\ NextRank \in Nat
            /\ NextRank <= 2 * sent + 2
        BY <1>0, FrontierTypes
      <4>2. outgoing.msg \in Nat /\ 2 * outgoing.msg <= Rank(outgoing)
            /\ Rank(outgoing) \in Nat
        BY <3>1, RankFacts DEF Rank, TransportActions
      <4>3. outgoing.msg \in 1..sent BY <3>1, <4>1, <4>2
      <4> QED BY <3>1, <4>3 DEF TransportActions
    <3>3. \A i \in 1..Len(published) : Promise!Rank(published[i]) < Promise!Rank(outgoing)
      BY <3>1, RangeFacts DEF TransportDone, Rank, Promise!Rank, IInv, AInv, TypeOK
    <3> QED BY <1>3, <2>2, <3>2, <3>3 DEF TransportPublished, Promise!Next, Promise!Publish
  <2> QED BY <1>3, <2>1, <2>2 DEF TransportPublished
<1>4. CASE UNCHANGED <<sent, stored, published>> BY <1>4
<1> QED
  BY <1>1, <1>2, <1>3, <1>4
     DEF Next, vars, AtRest, AggregatorStep, AggRecv, AggInsert, AggTimeseries, AggAttributes,
         StorageStep, StorageOpen, StorageTruncate, StorageBackup, SchedulerSend, TransportStep,
         TransportCreate, TransportConnect, TransportRecv, MainExits, Killed, ProcessEnds, Restart

\* The pipeline implements OrderedDelivery: database and broker see messages in
\* the order they were sent and at most once, whatever fails or restarts.
THEOREM Implements == Spec => DeliversInOrder
<1>1. Init /\ [][Next]_vars /\ []IInv => Promise!Init /\ [][Promise!Next]_Promise!vars
  BY RefinesInit, RefinesStep, PTL
<1> QED BY <1>1, Inductive, PTL DEF Spec, DeliversInOrder, Promise!Spec

=============================================================================
