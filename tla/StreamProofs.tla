---------------------------- MODULE StreamProofs ----------------------------
(***************************************************************************)
(* The pipeline implements Delivery, for any number of logs, partitions,   *)
(* consumers and subscribers.                                              *)
(***************************************************************************)
EXTENDS Stream, LogPipelineProofs

mapped == <<reply, topic, logStart, expired, committed, inserted, dropped, rows, streamed>>

\* A log on the topic is still to be read, settled or deleted by the broker:
\* nothing before a committed offset is unsettled.
LEMMA OnTopicIsKnown ==
    ASSUME KnownInv, NEW l \in Logs, OnTopic(l)
    PROVE  l \in D!Known
  BY DEF KnownInv, Waiting, SettledLogs, D!Known

\* Steps that change nothing Delivery speaks of.
LEMMA Stutters ==
    ASSUME UNCHANGED mapped
    PROVE  UNCHANGED D!vars
<1>1. UNCHANGED <<Waiting, SettledLogs, Owed>>
    BY DEF mapped, Waiting, Unread, UnreadFrom, SettledLogs, Settled, Owed
<1> QED
    BY <1>1 DEF mapped, D!vars

\* The ingestor's answers.
LEMMA AnswerImplements ==
    ASSUME PipelineInv, KnownInv, NEW l \in Logs,
           IngestLog(l) \/ PublishAcked(l) \/ PublishFailed(l)
    PROVE  D!Next
<1>1. UNCHANGED <<topic, logStart, expired, committed, inserted, dropped, rows, streamed>>
    BY DEF IngestLog, PublishAcked, PublishFailed, kafkaVars, brokerVars, tableVars
<1>2. UNCHANGED <<Waiting, expired, SettledLogs, rows, Owed>>
    BY <1>1 DEF Waiting, Unread, UnreadFrom, SettledLogs, Settled, Owed
<1>3. CASE IngestLog(l)
  <2>1. D!Offer(l)
    BY <1>2, <1>3 DEF IngestLog, D!Offer, D!Tell
  <2> QED
    BY <2>1 DEF D!Next
<1>4. CASE PublishFailed(l)
  <2>1. D!TurnAway(l)
    BY <1>2, <1>4 DEF PublishFailed, D!TurnAway, D!Tell
  <2> QED
    BY <2>1 DEF D!Next
<1>5. CASE PublishAcked(l)
  <2>1. topic \in [Partitions -> Seq(Messages)]
    BY DEF PipelineInv, TypeOK
  <2>2. \E p \in Partitions : \E i \in DOMAIN topic[p] : topic[p][i] = l
    BY <1>5 DEF PublishAcked, Copies
  <2>3. OnTopic(l)
    BY <2>1, <2>2 DEF OnTopic
  <2>4. l \in D!Known
    BY <2>3, OnTopicIsKnown
  <2>5. D!Accept(l)
    BY <1>2, <1>5, <2>4 DEF PublishAcked, D!Accept, D!Tell
  <2> QED
    BY <2>5 DEF D!Next
<1> QED
    BY <1>3, <1>4, <1>5

\* An append adds exactly its message to what is waiting.
LEMMA AppendImplements ==
    ASSUME PipelineInv, KnownInv, NEW m \in Messages, NEW p \in Partitions,
           topic' = [topic EXCEPT ![p] = Append(@, m)], UNCHANGED <<committed, logStart>>
    PROVE  Waiting' = IF m \in Logs THEN Waiting \cup {m} ELSE Waiting
<1>1. /\ topic \in [Partitions -> Seq(Messages)] /\ committed \in [Partitions -> Nat]
      /\ committed[p] <= Len(topic[p])
      /\ logStart \in [Partitions -> Nat] /\ logStart[p] <= Len(topic[p])
    BY DEF PipelineInv, TypeOK, OffsetsInv, DoneTo, KnownInv
<1>2. PICK n \in Nat : n = Len(topic[p]) /\ DOMAIN topic[p] = 1..n
    BY <1>1
<1>3. /\ topic'[p] = Append(topic[p], m)
      /\ \A q \in Partitions \ {p} : topic'[q] = topic[q]
    BY <1>1
<1>4. /\ DOMAIN topic'[p] = 1..(n + 1)
      /\ \A i \in 1..n : topic'[p][i] = topic[p][i]
      /\ topic'[p][n + 1] = m
    BY <1>1, <1>2, <1>3
<1>5. n + 1 > committed[p] /\ n + 1 > logStart[p] /\ n + 1 \in DOMAIN topic'[p]
    BY <1>1, <1>2, <1>4
<1>6. \A i \in DOMAIN topic'[p] : i \in DOMAIN topic[p] \/ i = n + 1
    BY <1>2, <1>4
<1>7. \A i \in DOMAIN topic[p] : i \in DOMAIN topic'[p] /\ topic'[p][i] = topic[p][i]
    BY <1>2, <1>4
<1>8. Waiting' = {l \in Logs : \E q \in Partitions : \E i \in DOMAIN topic'[q] :
                                  topic'[q][i] = l /\ i > committed[q] /\ i > logStart[q]}
    BY DEF Waiting, Unread, UnreadFrom
<1>9. ASSUME NEW l \in Waiting PROVE l \in Waiting'
  <2>1. PICK q \in Partitions : \E i \in DOMAIN topic[q] :
                                 topic[q][i] = l /\ i > committed[q] /\ i > logStart[q]
    BY <1>9 DEF Waiting, Unread, UnreadFrom
  <2>2. \E i \in DOMAIN topic'[q] : topic'[q][i] = l /\ i > committed[q] /\ i > logStart[q]
    BY <1>3, <1>7, <2>1
  <2> QED
    BY <1>8, <1>9, <2>2 DEF Waiting, Unread, UnreadFrom
<1>10. ASSUME NEW l \in Waiting' PROVE l \in Waiting \/ l = m
  <2>1. PICK q \in Partitions : \E i \in DOMAIN topic'[q] :
                                 topic'[q][i] = l /\ i > committed[q] /\ i > logStart[q]
    BY <1>8, <1>10
  <2>2. PICK i \in DOMAIN topic'[q] : topic'[q][i] = l /\ i > committed[q] /\ i > logStart[q]
    BY <2>1
  <2>3. l = m \/ (i \in DOMAIN topic[q] /\ topic[q][i] = l)
    BY <1>3, <1>4, <1>6, <1>7, <2>2
  <2> QED
    BY <1>8, <1>10, <2>2, <2>3 DEF Waiting, Unread, UnreadFrom
<1>11. m \in Logs => m \in Waiting'
    BY <1>4, <1>5, <1>8
<1>12. Waiting' \subseteq Logs
    BY <1>8
<1> QED
    BY <1>9, <1>10, <1>11, <1>12

\* InsertLogs stores, refuses or does nothing.
LEMMA InsertImplements ==
    ASSUME PipelineInv, KnownInv, NEW c \in Consumers, InsertLogs(c)
    PROVE  [D!Next]_D!vars
<1>1. PICK l \in Logs : l = Message(c)
    BY AtWork DEF InsertLogs
<1>2. /\ inserted \in [Logs -> Nat] /\ streamed \in [Logs -> Nat]
      /\ topic \in [Partitions -> Seq(Messages)] /\ dropped \subseteq Logs
      /\ UNCHANGED <<reply, topic, logStart, expired, committed, streamed>>
    BY DEF InsertLogs, kafkaVars, brokerVars, PipelineInv, TypeOK
<1>3. UNCHANGED Waiting
    BY <1>2 DEF Waiting, Unread, UnreadFrom
<1>4. OnTopic(l)
  <2>1. work[c].pc # "fetch"
    BY DEF InsertLogs
  <2>2. work[c] # NoWork /\ WorkOK(work[c])
    BY <2>1, AtWork DEF PipelineInv
  <2>3. /\ work[c].part \in Partitions /\ work[c].off \in Nat \ {0}
        /\ work[c].off <= Len(topic[work[c].part])
    BY <2>2 DEF WorkOK
  <2>4. work[c].off \in 1..Len(topic[work[c].part])
    BY <1>2, <2>3
  <2> QED
    BY <1>1, <2>3, <2>4 DEF OnTopic, Message
<1>5. l \in D!Known
    BY <1>4, OnTopicIsKnown
<1>6. CASE l \notin rows /\ StoreRow(l) /\ UNCHANGED dropped
  <2>1. /\ rows' = rows \cup {l}
        /\ inserted' = [inserted EXCEPT ![l] = @ + 1]
    BY <1>6 DEF StoreRow
  <2>2. SettledLogs' = SettledLogs \cup {l}
    <3>1. \A k \in Logs : inserted'[k] > 0 <=> (inserted[k] > 0 \/ k = l)
      BY <1>2, <2>1
    <3> QED
      BY <1>6, <3>1 DEF SettledLogs, Settled
  <2>3. Owed' = [Owed EXCEPT ![l] = @ + 1]
    <3>1. Owed' = [k \in Logs |-> inserted'[k] - streamed'[k]]
      BY DEF Owed
    <3>2. \A k \in Logs : inserted'[k] - streamed'[k] =
              IF k = l THEN (inserted[k] - streamed[k]) + 1 ELSE inserted[k] - streamed[k]
      BY <1>2, <2>1
    <3> QED
      BY <3>1, <3>2 DEF Owed
  <2>4. D!Store(l)
    BY <1>2, <1>3, <1>5, <1>6, <2>1, <2>2, <2>3 DEF D!Store
  <2> QED
    BY <2>4 DEF D!Next
<1>7. CASE dropped' = dropped \cup {l} /\ UNCHANGED <<rows, inserted>>
  <2>1. SettledLogs' = SettledLogs \cup {l}
    BY <1>7 DEF SettledLogs, Settled
  <2>2. UNCHANGED Owed
    BY <1>2, <1>7 DEF Owed
  <2>3. D!Refuse(l)
    BY <1>2, <1>3, <1>5, <1>7, <2>1, <2>2 DEF D!Refuse
  <2> QED
    BY <2>3 DEF D!Next
<1>8. CASE UNCHANGED <<rows, inserted, dropped>>
    BY <1>2, <1>8, Stutters DEF mapped
<1> QED
    BY <1>1, <1>6, <1>7, <1>8 DEF InsertLogs

\* A published log was owed: the consumer holds it from its insert on.
LEMMA PublishImplements ==
    ASSUME PipelineInv, StreamInv, NEW c \in Consumers, PublishLog(c)
    PROVE  [D!Next]_D!vars
<1>1. PICK l \in Logs : l = Message(c)
    BY AtWork DEF PublishLog
<1>2. /\ inserted \in [Logs -> Nat] /\ streamed \in [Logs -> Nat]
      /\ UNCHANGED <<reply, topic, logStart, expired, committed, inserted, rows, dropped>>
    BY DEF PublishLog, kafkaVars, brokerVars, tableVars, PipelineInv, TypeOK
<1>3. UNCHANGED <<Waiting, SettledLogs>>
    BY <1>2 DEF Waiting, Unread, UnreadFrom, SettledLogs, Settled
<1>4. CASE UNCHANGED streamed
    BY <1>2, <1>4, Stutters DEF mapped
<1>5. CASE streamed' = [streamed EXCEPT ![l] = @ + 1]
  <2>1. c \in Holding(l)
    BY <1>1 DEF PublishLog, Holding, Holds
  <2>2. Cardinality(Holding(l)) # 0 /\ Cardinality(Holding(l)) \in Nat
    BY <2>1, HoldingFinite, FS_EmptySet
  <2>3. inserted[l] - streamed[l] > 0
    BY <1>2, <2>2 DEF StreamInv
  <2>4. Owed' = [Owed EXCEPT ![l] = @ - 1]
    <3>1. Owed' = [k \in Logs |-> inserted'[k] - streamed'[k]]
      BY DEF Owed
    <3>2. \A k \in Logs : inserted'[k] - streamed'[k] =
              IF k = l THEN (inserted[k] - streamed[k]) - 1 ELSE inserted[k] - streamed[k]
      BY <1>2, <1>5
    <3> QED
      BY <3>1, <3>2 DEF Owed
  <2>5. Owed[l] > 0
    BY <2>3 DEF Owed
  <2>6. D!Announce(l)
    BY <1>2, <1>3, <2>4, <2>5 DEF D!Announce
  <2> QED
    BY <2>6 DEF D!Next
<1> QED
    BY <1>1, <1>4, <1>5 DEF PublishLog

\* Offsets that move, forwards or back, only move past settled logs.
LEMMA OffsetsImplement ==
    ASSUME PipelineInv, PipelineInv',
           UNCHANGED <<reply, topic, logStart, expired, inserted, dropped, rows, streamed>>
    PROVE  D!Next
<1>1. UNCHANGED <<SettledLogs, Owed>>
    BY DEF SettledLogs, Settled, Owed
<1>2. topic \in [Partitions -> Seq(Messages)]
    BY DEF PipelineInv, TypeOK
<1>7. Tracked /\ Tracked'
    BY AllTracked, PTL
<1>3. ASSUME NEW l \in Logs, NEW p \in Partitions, NEW i \in DOMAIN topic[p], topic[p][i] = l,
             i > logStart[p]
      PROVE  l \in SettledLogs \/ (l \in Waiting /\ l \in Waiting')
  <2>1. i \in 1..Len(topic[p]) /\ logStart[p] < i
    BY <1>2, <1>3 DEF PipelineInv, TypeOK
  <2>2. Settled(l) \/ Unread(l)
    BY <1>3, <1>7, <2>1 DEF Tracked
  <2>3. i \in 1..Len(topic'[p]) /\ topic'[p][i] = l /\ logStart'[p] < i
    BY <1>3, <2>1
  <2>4. Settled(l)' \/ Unread(l)'
    BY <1>7, <2>3 DEF Tracked
  <2>5. Settled(l)' <=> Settled(l)
    BY DEF Settled
  <2> QED
    BY <2>2, <2>4, <2>5 DEF SettledLogs, Waiting
<1>4. ASSUME NEW l \in Waiting' PROVE l \in Waiting \cup SettledLogs
  <2>1. l \in Logs /\ \E p \in Partitions : \E i \in DOMAIN topic[p] :
                         topic[p][i] = l /\ i > logStart[p]
    BY <1>4 DEF Waiting, Unread, UnreadFrom
  <2> QED
    BY <1>3, <2>1
<1>5. ASSUME NEW l \in Waiting, l \notin Waiting' PROVE l \in SettledLogs
  <2>1. l \in Logs /\ \E p \in Partitions : \E i \in DOMAIN topic[p] :
                         topic[p][i] = l /\ i > logStart[p]
    BY <1>5 DEF Waiting, Unread, UnreadFrom
  <2> QED
    BY <1>3, <1>5, <2>1
<1>6. D!Move
    BY <1>1, <1>4, <1>5 DEF D!Move
<1> QED
    BY <1>6 DEF D!Next

\* When the broker deletes a message, at most the log in it stops waiting: it
\* is done with, or it expires.
LEMMA BrokerImplements ==
    ASSUME PipelineInv, NEW q \in Partitions, KafkaRetention(q)
    PROVE  [D!Next]_D!vars
<1>1. PICK start : start = [logStart EXCEPT ![q] = @ + 1]
    OBVIOUS
<1>2. /\ logStart' = start
      /\ UNCHANGED <<reply, topic, committed, inserted, dropped, rows, streamed>>
      /\ expired' = expired \cup
            {l \in Logs : Unread(l) /\ ~UnreadFrom(l, start) /\ ~Settled(l)}
    BY <1>1 DEF KafkaRetention, tableVars
<1>3. UNCHANGED <<SettledLogs, Owed>>
    BY <1>2 DEF SettledLogs, Settled, Owed
<1>4. /\ topic \in [Partitions -> Seq(Messages)] /\ committed \in [Partitions -> Nat]
      /\ logStart \in [Partitions -> Nat]
      /\ \A p \in Partitions : DOMAIN topic[p] = 1..Len(topic[p])
    BY DEF PipelineInv, TypeOK
<1>5. Waiting' = {l \in Logs : UnreadFrom(l, start)}
    BY <1>2 DEF Waiting, Unread, UnreadFrom
<1>6. PICK m : m = topic[q][start[q]]
    OBVIOUS
<1>7. \A p \in Partitions : \A i \in DOMAIN topic[p] :
          /\ i > start[p] => i > logStart[p]
          /\ i > logStart[p] => i > start[p] \/ (p = q /\ i = start[q])
    BY <1>1, <1>4
<1>8. \A l \in Logs : /\ UnreadFrom(l, start) => Unread(l)
                      /\ Unread(l) => UnreadFrom(l, start) \/ l = m
    BY <1>6, <1>7 DEF Unread, UnreadFrom
<1>9. CASE Waiting' = Waiting
  <2>1. expired' = expired
    BY <1>2, <1>5, <1>9 DEF Waiting
  <2> QED
    BY <1>2, <1>3, <1>9, <2>1 DEF D!vars
<1>10. CASE Waiting' # Waiting
  <2>1. m \in Waiting /\ Waiting' = Waiting \ {m} /\ m \in Logs
    BY <1>5, <1>8, <1>10 DEF Waiting
  <2>2. Unread(m) /\ \A l \in Logs : (Unread(l) /\ ~UnreadFrom(l, start)) <=> l = m
    BY <1>5, <1>8, <2>1 DEF Waiting
  <2>3. CASE m \in SettledLogs
    <3>1. expired' = expired
      BY <1>2, <2>2, <2>3 DEF SettledLogs
    <3>2. D!Move
      BY <1>2, <1>3, <2>1, <2>3, <3>1 DEF D!Move
    <3> QED
      BY <3>2 DEF D!Next
  <2>4. CASE m \notin SettledLogs
    <3>1. expired' = expired \cup {m}
      BY <1>2, <2>1, <2>2, <2>4 DEF SettledLogs
    <3>2. D!Expire(m)
      BY <1>2, <1>3, <2>1, <2>4, <3>1 DEF D!Expire
    <3> QED
      BY <2>1, <3>2 DEF D!Next
  <2> QED
    BY <2>3, <2>4
<1> QED
    BY <1>9, <1>10

LEMMA StepImplements ==
    ASSUME PipelineInv, KnownInv, StreamInv, PipelineInv', [Next]_vars
    PROVE  [D!Next]_D!vars
<1>1. CASE UNCHANGED vars
  <2>1. UNCHANGED mapped
    BY <1>1 DEF vars, kafkaVars, brokerVars, tableVars, mapped
  <2> QED
    BY <2>1, Stutters
<1>2. ASSUME NEW l \in Logs, IngestLog(l) \/ PublishAcked(l) \/ PublishFailed(l)
      PROVE  D!Next
    BY <1>2, AnswerImplements
<1>3. ASSUME NEW l \in Logs, GrowOld(l)
      PROVE  UNCHANGED mapped
    BY <1>3 DEF GrowOld, kafkaVars, brokerVars, tableVars, mapped
<1>4. ASSUME NEW l \in Logs, NEW p \in Partitions, Append2Topic(l, p)
      PROVE  D!Next
  <2>1. /\ UNCHANGED <<reply, logStart, expired, committed, rows, inserted, dropped, streamed>>
        /\ reply[l] # "none"
    BY <1>4 DEF Append2Topic, brokerVars, tableVars
  <2>2. UNCHANGED <<SettledLogs, Owed>>
    BY <2>1 DEF SettledLogs, Settled, Owed
  <2>3. Waiting' = Waiting \cup {l}
    BY <1>4, <2>1, AppendImplements DEF Append2Topic, Messages
  <2>4. D!Enqueue(l)
    BY <2>1, <2>2, <2>3 DEF D!Enqueue
  <2> QED
    BY <2>4 DEF D!Next
<1>5. ASSUME NEW j \in Junk, NEW p \in Partitions, ForeignMessage(j, p)
      PROVE  UNCHANGED D!vars
  <2>1. UNCHANGED <<reply, logStart, expired, committed, rows, inserted, dropped, streamed>>
    BY <1>5 DEF ForeignMessage, brokerVars, tableVars
  <2>2. UNCHANGED <<SettledLogs, Owed>>
    BY <2>1 DEF SettledLogs, Settled, Owed
  <2>3. j \notin Logs
    BY PipelineConstants
  <2>4. UNCHANGED Waiting
    BY <1>5, <2>1, <2>3, AppendImplements DEF ForeignMessage, Messages
  <2> QED
    BY <2>1, <2>2, <2>4 DEF D!vars
<1>6. ASSUME NEW c \in Consumers, NEW p \in Partitions, Fetch(c, p)
      PROVE  UNCHANGED mapped
    BY <1>6 DEF Fetch, brokerVars, tableVars, mapped
<1>7. ASSUME NEW c \in Consumers, Commit(c)
      PROVE  UNCHANGED mapped
    BY <1>7 DEF Commit, brokerVars, tableVars, mapped
<1>8. ASSUME NEW c \in Consumers, FlushCommits(c) \/ Crash(c) \/ Rebalance
      PROVE  D!Next
  <2>1. UNCHANGED <<reply, topic, logStart, expired, inserted, dropped, rows, streamed>>
    BY <1>8 DEF FlushCommits, Crash, Rebalance, Regroup, brokerVars, tableVars
  <2> QED
    BY <2>1, OffsetsImplement
<1>9. CASE RunRetention
  <2>1. /\ UNCHANGED <<reply, topic, logStart, expired, committed, inserted, dropped, streamed>>
        /\ rows' \subseteq rows
    BY <1>9 DEF RunRetention, kafkaVars, brokerVars
  <2>2. UNCHANGED <<Waiting, SettledLogs, Owed>>
    BY <2>1 DEF Waiting, Unread, UnreadFrom, SettledLogs, Settled, Owed
  <2>3. D!Purge
    BY <2>1, <2>2 DEF D!Purge
  <2> QED
    BY <2>3 DEF D!Next
<1>10. CASE Rebalance
    BY <1>8, <1>10, PipelineConstants
<1>11. ASSUME NEW c \in Consumers, ConsumerStep(c)
      PROVE  [D!Next]_D!vars
    BY <1>6, <1>7, <1>11, Stutters, InsertImplements, PublishImplements DEF ConsumerStep
<1> QED
    BY <1>1, <1>2, <1>3, <1>4, <1>5, <1>8, <1>9, <1>10, <1>11, Stutters,
       BrokerImplements DEF Next

LEMMA InitImplements == Init => D!Init
<1> SUFFICES ASSUME Init PROVE D!Init
    OBVIOUS
<1>1. Waiting = {} /\ SettledLogs = {}
    BY DEF Init, Waiting, Unread, UnreadFrom, SettledLogs, Settled
<1>2. Owed = [l \in Logs |-> 0]
    BY DEF Init, Owed
<1> QED
    BY <1>1, <1>2 DEF Init, D!Init

\* With its subscribers or without, the pipeline takes only its own steps.
LEMMA LiveIsPipeline == LiveSpec => Spec
<1>1. LiveInit => Init
    BY DEF LiveInit
<1>2. [LiveNext]_<<vars, streamVars>> => [Next]_vars
    BY DEF LiveNext, StreamServiceLogs, Connect, Load, Subscribe, Forward, WriteFails,
           LoseSubscription, ReceiveFails, Close
<1> QED
    BY <1>1, <1>2, PTL DEF LiveSpec, Spec

\* Whatever partitions, copies, rebalances, crashes and late commits there are,
\* what clients and readers see of a log is at-least-once delivery with one row,
\* from a queue that may give up a log nobody came to read.
THEOREM PipelineImplementsDelivery == LiveSpec => ImplementsDelivery
<1>1. Init => D!Init
    BY InitImplements
<1>2. PipelineInv /\ KnownInv /\ StreamInv /\ PipelineInv' /\ [Next]_vars => [D!Next]_D!vars
    BY StepImplements
<1> QED
    BY <1>1, <1>2, LiveIsPipeline, PipelineInvariance, KnownInvariance, StreamInvariance, PTL
       DEF Spec, D!Spec, ImplementsDelivery

-----------------------------------------------------------------------------
(* Subscribers.                                                            *)

\* The state of the connections; who has loaded the stored logs is connected,
\* and has missed nothing as long as its subscription stands.
SubscribersInv ==
    /\ conn \in [Subscribers -> {"off", "open", "live", "deaf"}]
    /\ inbox \in [Subscribers -> Seq(Logs)] /\ frames \in [Subscribers -> Seq(Logs)]
    /\ loaded \in [Subscribers -> SUBSET SUBSET Logs]
    /\ unheard \in [Subscribers -> SUBSET Logs]
    /\ \A s \in Subscribers : conn[s] = "off" => loaded[s] = {}
    /\ NothingMissed

\* What s has been sent, is about to be sent or could not hear.
Reached(s) == In(frames[s]) \cup In(inbox[s]) \cup unheard[s]

LEMMA InAppend ==
    ASSUME NEW S, NEW q \in Seq(S), NEW l \in S
    PROVE  Append(q, l) \in Seq(S) /\ In(Append(q, l)) = In(q) \cup {l}
<1>1. PICK n \in Nat : n = Len(q) /\ DOMAIN q = 1..n
    OBVIOUS
<1>2. /\ Append(q, l) \in Seq(S) /\ DOMAIN Append(q, l) = 1..(n + 1)
      /\ \A i \in 1..n : Append(q, l)[i] = q[i]
      /\ Append(q, l)[n + 1] = l
    BY <1>1
<1>3. \A i \in 1..(n + 1) : i \in 1..n \/ i = n + 1
    OBVIOUS
<1>4. 1..n \subseteq 1..(n + 1) /\ n + 1 \in 1..(n + 1)
    OBVIOUS
<1> QED
    BY <1>1, <1>2, <1>3, <1>4 DEF In

LEMMA InHeadTail ==
    ASSUME NEW S, NEW q \in Seq(S), q # <<>>
    PROVE  /\ Head(q) \in S /\ Tail(q) \in Seq(S)
           /\ In(q) = {Head(q)} \cup In(Tail(q))
<1>1. PICK n \in Nat : n = Len(q) /\ DOMAIN q = 1..n /\ n > 0
    OBVIOUS
<1>2. /\ Tail(q) \in Seq(S) /\ Len(Tail(q)) = n - 1 /\ Head(q) = q[1] /\ Head(q) \in S
      /\ DOMAIN Tail(q) = 1..(n - 1)
      /\ \A i \in 1..(n - 1) : Tail(q)[i] = q[i + 1]
    BY <1>1
<1>3. ASSUME NEW i \in 1..n, i # 1
      PROVE  i - 1 \in 1..(n - 1) /\ q[i] = Tail(q)[i - 1]
    BY <1>1, <1>2, <1>3
<1>4. 1 \in 1..n /\ \A i \in 1..(n - 1) : i + 1 \in 1..n
    BY <1>1
<1>5. In(q) \subseteq {Head(q)} \cup In(Tail(q))
  <2> SUFFICES ASSUME NEW x \in In(q) PROVE x = Head(q) \/ x \in In(Tail(q))
    OBVIOUS
  <2>1. PICK i \in 1..n : x = q[i]
    BY <1>1 DEF In
  <2>2. CASE i = 1
    BY <1>2, <2>1, <2>2
  <2>3. CASE i # 1
    <3>1. i - 1 \in DOMAIN Tail(q) /\ x = Tail(q)[i - 1]
      BY <1>2, <1>3, <2>1, <2>3
    <3> QED
      BY <3>1 DEF In
  <2> QED
    BY <2>2, <2>3
<1>6. {Head(q)} \cup In(Tail(q)) \subseteq In(q)
    BY <1>1, <1>2, <1>4 DEF In
<1> QED
    BY <1>2, <1>5, <1>6

LEMMA SubscribersInit == LiveInit => SubscribersInv
<1> SUFFICES ASSUME LiveInit PROVE SubscribersInv
    OBVIOUS
<1> QED
    BY DEF LiveInit, NoLogs, NoFrames, SubscribersInv, NothingMissed

\* A log of the table that has been published each time it was stored is
\* published by this step, or was stored and published before it: storing it
\* puts it ahead of its publications.
LEMMA StoredBeforePublished ==
    ASSUME PipelineInv, StreamInv, [Next]_vars
    PROVE  /\ \A l \in Logs : l \in rows' /\ streamed'[l] = inserted'[l] =>
                 \/ l \in rows /\ streamed[l] = inserted[l]
                 \/ streamed'[l] > streamed[l]
           /\ \A k, l \in Logs : streamed'[k] > streamed[k] /\ streamed'[l] > streamed[l] => k = l
<1> DEFINE Claim == /\ \A l \in Logs : l \in rows' /\ streamed'[l] = inserted'[l] =>
                          \/ l \in rows /\ streamed[l] = inserted[l]
                          \/ streamed'[l] > streamed[l]
                    /\ \A k, l \in Logs : streamed'[k] > streamed[k] /\ streamed'[l] > streamed[l]
                          => k = l
<1>0. inserted \in [Logs -> Nat] /\ streamed \in [Logs -> Nat]
    BY DEF PipelineInv, TypeOK
<1>1. ASSUME UNCHANGED <<inserted, streamed>>, rows' \subseteq rows
      PROVE  Claim
    BY <1>0, <1>1
<1>2. ASSUME NEW c \in Consumers, InsertLogs(c)
      PROVE  Claim
  <2>1. PICK m \in Logs : m = Message(c)
    BY <1>2, AtWork DEF InsertLogs
  <2>2. UNCHANGED streamed
    BY <1>2 DEF InsertLogs
  <2>3. CASE rows' = rows \cup {m} /\ inserted' = [inserted EXCEPT ![m] = @ + 1]
    <3>1. streamed[m] <= inserted[m]
      <4>1. streamed[m] + Cardinality(Holding(m)) <= inserted[m] /\ Cardinality(Holding(m)) \in Nat
        BY HoldingFinite DEF StreamInv
      <4> QED
        BY <1>0, <4>1
    <3>2. streamed'[m] # inserted'[m]
      BY <1>0, <2>2, <2>3, <3>1
    <3>3. \A l \in Logs \ {m} : inserted'[l] = inserted[l]
      BY <1>0, <2>3
    <3>4. \A l \in Logs : ~(streamed'[l] > streamed[l])
      BY <1>0, <2>2
    <3> QED
      BY <2>2, <2>3, <3>2, <3>3, <3>4
  <2>4. CASE UNCHANGED <<rows, inserted>>
    BY <1>1, <2>2, <2>4
  <2> QED
    BY <1>2, <2>1, <2>3, <2>4 DEF InsertLogs, StoreRow
<1>3. ASSUME NEW c \in Consumers, PublishLog(c)
      PROVE  Claim
  <2>1. PICK m \in Logs : m = Message(c)
    BY <1>3, AtWork DEF PublishLog
  <2>2. UNCHANGED <<rows, inserted>>
    BY <1>3 DEF PublishLog, tableVars
  <2>3. CASE UNCHANGED streamed
    BY <1>1, <2>2, <2>3
  <2>4. CASE streamed' = [streamed EXCEPT ![m] = @ + 1]
    <3>1. streamed'[m] > streamed[m] /\ \A l \in Logs \ {m} : streamed'[l] = streamed[l]
      BY <1>0, <2>4
    <3>2. \A l \in Logs \ {m} : ~(streamed'[l] > streamed[l])
      BY <1>0, <3>1
    <3> QED
      BY <2>2, <3>1, <3>2
  <2> QED
    BY <1>3, <2>1, <2>3, <2>4 DEF PublishLog
<1>4. CASE UNCHANGED vars
    BY <1>1, <1>4 DEF vars, tableVars
<1>5. CASE RunRetention
    BY <1>1, <1>5 DEF RunRetention
<1>10. ASSUME NEW p \in Partitions, KafkaRetention(p)
      PROVE  Claim
    BY <1>1, <1>10 DEF KafkaRetention, tableVars
<1>6. ASSUME NEW l \in Logs, \/ IngestLog(l) \/ PublishAcked(l) \/ PublishFailed(l) \/ GrowOld(l)
                             \/ \E p \in Partitions : Append2Topic(l, p)
      PROVE  Claim
    BY <1>1, <1>6 DEF IngestLog, PublishAcked, PublishFailed, GrowOld, Append2Topic, tableVars
<1>7. ASSUME NEW j \in Junk, NEW p \in Partitions, ForeignMessage(j, p)
      PROVE  Claim
    BY <1>1, <1>7 DEF ForeignMessage, tableVars
<1>8. ASSUME NEW c \in Consumers, \/ \E p \in Partitions : Fetch(c, p)
                                  \/ Commit(c) \/ FlushCommits(c) \/ Crash(c)
      PROVE  Claim
    BY <1>1, <1>8 DEF Fetch, Commit, FlushCommits, Crash, Regroup, tableVars
<1>9. CASE Rebalance
    BY <1>1, <1>9 DEF Rebalance, Regroup, tableVars
<1> QED
    BY <1>2, <1>3, <1>4, <1>5, <1>6, <1>7, <1>8, <1>9, <1>10 DEF Next, ConsumerStep

\* Who hears nothing of a step has nothing new to hear of.
LEMMA PipelineReaches ==
    ASSUME PipelineInv, StreamInv, SubscribersInv, Next, Broadcast
    PROVE  SubscribersInv'
<1>1. CASE streamed' = streamed /\ UNCHANGED streamVars
  <2>1. \A l \in Logs : ~(streamed'[l] > streamed[l])
    BY <1>1 DEF PipelineInv, TypeOK
  <2>2. \A l \in Logs : l \in rows' /\ streamed'[l] = inserted'[l] =>
                           l \in rows /\ streamed[l] = inserted[l]
    BY <2>1, StoredBeforePublished
  <2>3. rows' \subseteq Logs
    BY PipelineNext DEF PipelineInv, TypeOK
  <2>4. NothingMissed'
    BY <1>1, <2>2, <2>3 DEF SubscribersInv, NothingMissed, streamVars, subVars
  <2> QED
    BY <1>1, <2>4 DEF SubscribersInv, streamVars, subVars
<1>2. ASSUME NEW m \in Logs, streamed'[m] > streamed[m],
             inbox' = [s \in Subscribers |->
                          IF conn[s] = "live" THEN Append(inbox[s], m) ELSE inbox[s]],
             unheard' = [s \in Subscribers |->
                          IF conn[s] = "open" THEN unheard[s] \cup {m} ELSE unheard[s]],
             UNCHANGED <<conn, frames, loaded>>
      PROVE  SubscribersInv'
  <2>1. ASSUME NEW s \in Subscribers
        PROVE  /\ inbox'[s] \in Seq(Logs) /\ unheard'[s] \subseteq Logs
               /\ Reached(s) \subseteq Reached(s)'
               /\ conn[s] \in {"open", "live"} => m \in Reached(s)'
    <3>1. conn[s] \in {"off", "open", "live", "deaf"} /\ inbox[s] \in Seq(Logs) /\ unheard[s] \subseteq Logs
      BY DEF SubscribersInv
    <3>2. In(Append(inbox[s], m)) = In(inbox[s]) \cup {m} /\ Append(inbox[s], m) \in Seq(Logs)
      BY <3>1, InAppend
    <3>3. CASE conn[s] = "live"
      BY <1>2, <3>1, <3>2, <3>3 DEF Reached
    <3>4. CASE conn[s] # "live"
      BY <1>2, <3>1, <3>4 DEF Reached
    <3> QED
      BY <3>3, <3>4
  <2>2. inbox' \in [Subscribers -> Seq(Logs)] /\ unheard' \in [Subscribers -> SUBSET Logs]
    BY <1>2, <2>1
  <2>3. rows' \subseteq Logs
    BY PipelineNext DEF PipelineInv, TypeOK
  <2>4. ASSUME NEW s \in Subscribers, NEW seen \in loaded'[s], NEW l \in rows',
               conn'[s] # "deaf", streamed'[l] = inserted'[l]
        PROVE  l \in seen \cup Reached(s)'
    <3>1. conn[s] \in {"open", "live"} /\ conn[s] # "deaf" /\ seen \in loaded[s]
      BY <1>2, <2>4 DEF SubscribersInv
    <3>2. l = m \/ (l \in rows /\ streamed[l] = inserted[l])
      BY <1>2, <2>3, <2>4, StoredBeforePublished
    <3>3. l # m => l \in seen \cup Reached(s)
      BY <3>1, <3>2 DEF SubscribersInv, NothingMissed, Reached
    <3> QED
      BY <2>1, <3>1, <3>2, <3>3
  <2>5. NothingMissed'
    BY <2>4 DEF NothingMissed, Reached
  <2> QED
    BY <1>2, <2>2, <2>5 DEF SubscribersInv
<1> QED
    BY <1>1, <1>2 DEF Broadcast

\* A handler moves a log from the inbox to the frames.
LEMMA HandlerReaches ==
    ASSUME PipelineInv, SubscribersInv, NEW s \in Subscribers,
           Connect(s) \/ Load(s) \/ StreamServiceLogs(s) \/ WriteFails(s)
           \/ LoseSubscription(s) \/ ReceiveFails(s)
    PROVE  SubscribersInv'
<1>0. UNCHANGED <<rows, streamed, inserted>> /\ rows \subseteq Logs
    BY DEF PipelineInv, TypeOK, Connect, Load, StreamServiceLogs, Subscribe, Forward, WriteFails,
           LoseSubscription, ReceiveFails, Close, vars, tableVars
<1>1. CASE Connect(s) \/ Subscribe(s) \/ LoseSubscription(s)
  <2>1. NothingMissed'
    BY <1>0, <1>1 DEF Connect, Subscribe, LoseSubscription, SubscribersInv, NothingMissed, subVars
  <2> QED
    BY <1>1, <2>1 DEF Connect, Subscribe, LoseSubscription, SubscribersInv, subVars
<1>2. CASE Load(s)
  <2>1. NothingMissed'
    BY <1>0, <1>2 DEF Load, SubscribersInv, NothingMissed
  <2> QED
    BY <1>0, <1>2, <2>1 DEF Load, SubscribersInv
<1>3. CASE Forward(s)
  <2>1. inbox[s] \in Seq(Logs) /\ frames[s] \in Seq(Logs) /\ inbox[s] # <<>>
    BY <1>3 DEF Forward, SubscribersInv
  <2>2. PICK m \in Logs : m = Head(inbox[s]) /\ In(inbox[s]) = {m} \cup In(Tail(inbox[s]))
                          /\ Tail(inbox[s]) \in Seq(Logs)
    BY <2>1, InHeadTail
  <2>3. In(Append(frames[s], m)) = In(frames[s]) \cup {m} /\ Append(frames[s], m) \in Seq(Logs)
    BY <2>1, InAppend
  <2>4. /\ frames' = [frames EXCEPT ![s] = Append(frames[s], m)]
        /\ inbox' = [inbox EXCEPT ![s] = Tail(inbox[s])]
        /\ UNCHANGED <<conn, loaded, unheard>>
    BY <1>3, <2>2 DEF Forward
  <2>5. /\ frames' \in [Subscribers -> Seq(Logs)] /\ inbox' \in [Subscribers -> Seq(Logs)]
    BY <2>2, <2>3, <2>4 DEF SubscribersInv
  <2>6. \A t \in Subscribers : Reached(t)' = Reached(t)
    BY <2>2, <2>3, <2>4 DEF SubscribersInv, Reached
  <2>7. NothingMissed'
    BY <1>0, <2>4, <2>6 DEF SubscribersInv, NothingMissed, Reached
  <2> QED
    BY <2>4, <2>5, <2>7 DEF SubscribersInv
<1>4. CASE Close(s)
  <2>1. NothingMissed'
    BY <1>0, <1>4 DEF Close, SubscribersInv, NothingMissed
  <2> QED
    BY <1>4, <2>1 DEF Close, SubscribersInv
<1> QED
    BY <1>1, <1>2, <1>3, <1>4 DEF StreamServiceLogs, WriteFails, ReceiveFails

LEMMA SubscribersStep ==
    ASSUME PipelineInv, StreamInv, SubscribersInv, [LiveNext]_<<vars, streamVars>>
    PROVE  SubscribersInv'
<1>1. CASE UNCHANGED <<vars, streamVars>>
  <2>1. NothingMissed'
    BY <1>1 DEF SubscribersInv, NothingMissed, vars, tableVars, streamVars, subVars
  <2> QED
    BY <1>1, <2>1 DEF SubscribersInv, streamVars, subVars
<1> QED
    BY <1>1, PipelineReaches, HandlerReaches DEF LiveNext

\* Whatever is stored and published while a client connects, subscribes and
\* loads, it has seen or will see each log of the table that was published each
\* time it was stored, but for those published before its subscription, as long
\* as its handler has not lost the subscription: then the connection ends.
THEOREM SubscribersMissNothing == LiveSpec => []NothingMissed
<1>1. LiveSpec => []SubscribersInv
    BY SubscribersInit, SubscribersStep, LiveIsPipeline, PipelineInvariance, StreamInvariance, PTL
       DEF LiveSpec
<1>2. SubscribersInv => NothingMissed
    BY DEF SubscribersInv
<1> QED
    BY <1>1, <1>2, PTL

=============================================================================
