-------------------------- MODULE LogPipelineProofs --------------------------
(***************************************************************************)
(* Proofs about the pipeline, for any number of logs, partitions,          *)
(* consumers, duplicates, crashes and rebalances.                          *)
(***************************************************************************)
EXTENDS LogPipeline, FiniteSetTheorems, TLAPS

\* The first n messages of p have been appended, and those the broker still has
\* are dealt with.
DoneTo(p, n) ==
    /\ n <= Len(topic[p])
    /\ \A i \in 1..n : (logStart[p] < i /\ topic[p][i] \in Logs) => Settled(topic[p][i])

\* A consumer works on a log; all messages before it are dealt with, and so is
\* the log once it is about to be committed.
WorkOK(w) ==
    w # NoWork =>
        /\ w.part \in Partitions /\ w.off \in Nat \ {0} /\ w.off <= Len(topic[w.part])
        /\ topic[w.part][w.off] \in Logs
        /\ DoneTo(w.part, w.off - 1)
        /\ w.pc \in {"commit", "publish"} => DoneTo(w.part, w.off)

\* What has been fetched is dealt with, but for the message the partition's
\* owner is inserting.
ReadOK(p) ==
    \/ DoneTo(p, position[p])
    \/ /\ position[p] > 0
       /\ work[owner[p]] = [pc |-> "insert", part |-> p, off |-> position[p]]

RowsInv == \A l \in Logs : inserted[l] = purged[l] + (IF l \in rows THEN 1 ELSE 0)

OffsetsInv ==
    /\ \A p \in Partitions : DoneTo(p, committed[p]) /\ ReadOK(p)
    /\ \A c \in Consumers, p \in Partitions : DoneTo(p, stash[c][p])

OnTopic(l) == \E p \in Partitions : \E i \in 1..Len(topic[p]) : topic[p][i] = l

PipelineInv ==
    /\ TypeOK
    /\ RowsInv
    /\ OffsetsInv
    /\ \A c \in Consumers : WorkOK(work[c])
    /\ \A l \in Logs : reply[l] = "ok" => OnTopic(l)

-----------------------------------------------------------------------------
(* The topic is only appended to, the broker deletes from its front, and    *)
(* what is settled stays settled.                                          *)

Grows ==
    /\ \A l \in Logs : Settled(l) => Settled(l)'
    /\ \A p \in Partitions :
          /\ Len(topic[p]) <= Len(topic'[p])
          /\ \A i \in 1..Len(topic[p]) : topic'[p][i] = topic[p][i]
          /\ logStart[p] <= logStart'[p] /\ logStart'[p] \in Nat

\* Appending a message keeps the ones that are there.
LEMMA Appended ==
    ASSUME TypeOK, NEW p \in Partitions, NEW m \in Messages,
           topic' = [topic EXCEPT ![p] = Append(@, m)]
    PROVE  /\ topic' \in [Partitions -> Seq(Messages)]
           /\ \A q \in Partitions :
                 /\ Len(topic[q]) <= Len(topic'[q])
                 /\ \A i \in 1..Len(topic[q]) : topic'[q][i] = topic[q][i]
<1>1. topic \in [Partitions -> Seq(Messages)]
    BY DEF TypeOK
<1>2. Append(topic[p], m) \in Seq(Messages)
    BY <1>1
<1>3. \A q \in Partitions : topic'[q] = IF q = p THEN Append(topic[p], m) ELSE topic[q]
    BY <1>1
<1>4. \A q \in Partitions : topic[q] \in Seq(Messages)
    BY <1>1
<1>5. /\ Len(topic[p]) <= Len(Append(topic[p], m))
      /\ \A i \in 1..Len(topic[p]) : Append(topic[p], m)[i] = topic[p][i]
    BY <1>4
<1>6. \A q \in Partitions : Len(topic[q]) \in Nat
    BY <1>4
<1> QED
    BY <1>1, <1>2, <1>3, <1>5, <1>6

\* The log a consumer works on.
LEMMA AtWork ==
    ASSUME PipelineInv, NEW c \in Consumers, work[c].pc # "fetch"
    PROVE  /\ work[c] \in [pc : {"insert", "commit", "publish"}, part : Partitions, off : Nat \ {0}]
           /\ work[c] # NoWork /\ Message(c) \in Logs
<1>1. work[c] \in Work /\ WorkOK(work[c])
    BY DEF PipelineInv, TypeOK
<1>2. work[c] # NoWork
    BY DEF NoWork
<1> QED
    BY <1>1, <1>2 DEF Work, WorkOK, Message

\* Every step only adds to the topic and to what is settled.
LEMMA StepGrows ==
    ASSUME PipelineInv, [Next]_vars
    PROVE  Grows
<1>0. TypeOK
    BY DEF PipelineInv
<1>1. \A p \in Partitions : Len(topic[p]) \in Nat
    BY <1>0 DEF TypeOK
<1>2. \A l \in Logs : Settled(l) => Settled(l)'
  <2>1. CASE UNCHANGED <<inserted, dropped>>
    BY <2>1 DEF Settled
  <2>2. ASSUME NEW c \in Consumers, InsertLogs(c)
        PROVE  \A l \in Logs : Settled(l) => Settled(l)'
    <3>1. inserted \in [Logs -> Nat] /\ Message(c) \in Logs
      BY <1>0, <2>2, AtWork DEF TypeOK, InsertLogs
    <3>2. \A l \in Logs : inserted'[l] = inserted[l] \/ inserted'[l] = inserted[l] + 1
      BY <2>2, <3>1 DEF InsertLogs, StoreRow
    <3>3. dropped \subseteq dropped'
      BY <2>2 DEF InsertLogs
    <3> QED
      BY <3>1, <3>2, <3>3 DEF Settled
  <2> QED
    BY <2>1, <2>2
       DEF Next, ConsumerStep, IngestLog, PublishAcked, PublishFailed, GrowOld, Append2Topic,
           ForeignMessage, Fetch, Commit, PublishLog, FlushCommits, Crash, Rebalance, Regroup,
           RunRetention, KafkaRetention, vars, tableVars
<1>6. \A p \in Partitions : logStart[p] <= logStart'[p] /\ logStart'[p] \in Nat
  <2>0. logStart \in [Partitions -> Nat]
    BY <1>0 DEF TypeOK
  <2>1. CASE UNCHANGED logStart
    BY <2>0, <2>1
  <2>2. ASSUME NEW q \in Partitions, KafkaRetention(q)
        PROVE  \A p \in Partitions : logStart[p] <= logStart'[p] /\ logStart'[p] \in Nat
    <3>1. logStart' = [logStart EXCEPT ![q] = @ + 1]
      BY <2>2 DEF KafkaRetention
    <3> QED
      BY <2>0, <3>1
  <2> QED
    BY <2>1, <2>2
       DEF Next, ConsumerStep, IngestLog, PublishAcked, PublishFailed, GrowOld, Append2Topic,
           ForeignMessage, Fetch, InsertLogs, Commit, PublishLog, FlushCommits, Crash,
           Rebalance, Regroup, RunRetention, vars, kafkaVars, brokerVars
<1>3. CASE UNCHANGED topic
    BY <1>1, <1>2, <1>3, <1>6 DEF Grows
<1>4. ASSUME NEW l \in Logs, NEW p \in Partitions, Append2Topic(l, p)
      PROVE  Grows
    BY <1>0, <1>2, <1>4, <1>6, Appended DEF Append2Topic, Grows, Messages
<1>5. ASSUME NEW j \in Junk, NEW p \in Partitions, ForeignMessage(j, p)
      PROVE  Grows
    BY <1>0, <1>2, <1>5, <1>6, Appended DEF ForeignMessage, Grows, Messages
<1> QED
    BY <1>3, <1>4, <1>5
       DEF Next, ConsumerStep, IngestLog, PublishAcked, PublishFailed, GrowOld, Fetch,
           InsertLogs, Commit, PublishLog, FlushCommits, Crash, Rebalance, Regroup,
           RunRetention, KafkaRetention, vars, kafkaVars

\* What is dealt with stays so.
LEMMA DoneKeeps ==
    ASSUME TypeOK, Grows, NEW p \in Partitions, NEW n \in Nat, DoneTo(p, n)
    PROVE  DoneTo(p, n)'
<1>1. Len(topic[p]) \in Nat /\ Len(topic[p]) <= Len(topic'[p])
    BY DEF TypeOK, Grows
<1>2. n <= Len(topic'[p])
    BY DEF TypeOK, Grows, DoneTo
<1>3. ASSUME NEW i \in 1..n, NEW l \in Logs, l = topic'[p][i], logStart'[p] < i
      PROVE  Settled(l)'
  <2>1. i \in 1..Len(topic[p]) /\ topic'[p][i] = topic[p][i] /\ logStart[p] < i
    BY <1>1, <1>3 DEF DoneTo, Grows, TypeOK
  <2> QED
    BY <1>3, <2>1 DEF DoneTo, Grows
<1> QED
    BY <1>2, <1>3 DEF DoneTo

\* A consumer's work stays in order while it is not touched.
LEMMA WorkKeeps ==
    ASSUME TypeOK, Grows, NEW w, WorkOK(w)
    PROVE  WorkOK(w)'
<1>1. CASE w = NoWork
    BY <1>1 DEF WorkOK
<1>2. CASE w # NoWork
  <2>1. /\ w.part \in Partitions /\ w.off \in Nat /\ w.off - 1 \in Nat
        /\ w.off \in 1..Len(topic[w.part])
    BY <1>2 DEF WorkOK, TypeOK
  <2>2. DoneTo(w.part, w.off - 1)'
    BY <1>2, <2>1, DoneKeeps DEF WorkOK
  <2>3. w.pc \in {"commit", "publish"} => DoneTo(w.part, w.off)'
    BY <1>2, <2>1, DoneKeeps DEF WorkOK
  <2>4. topic'[w.part][w.off] = topic[w.part][w.off] /\ Len(topic[w.part]) <= Len(topic'[w.part])
    BY <2>1 DEF Grows
  <2>5. w.off <= Len(topic'[w.part])
    BY <2>1, <2>2, <2>4 DEF TypeOK, WorkOK, Grows
  <2> QED
    BY <1>2, <2>1, <2>2, <2>3, <2>4, <2>5 DEF WorkOK
<1> QED
    BY <1>1, <1>2

\* What was on the topic still is.
LEMMA TopicKeeps ==
    ASSUME TypeOK, Grows, NEW l, OnTopic(l)
    PROVE  OnTopic(l)'
<1>1. PICK p \in Partitions : \E i \in 1..Len(topic[p]) : topic[p][i] = l
    BY DEF OnTopic
<1>2. PICK i \in 1..Len(topic[p]) : topic[p][i] = l
    BY <1>1
<1>3. i \in 1..Len(topic'[p]) /\ topic'[p][i] = l
    BY <1>2 DEF Grows, TypeOK
<1> QED
    BY <1>3 DEF OnTopic

\* Offsets are fine when each of them is one that was fine before.
LEMMA OffsetsKeep ==
    ASSUME PipelineInv, Grows,
           \A p \in Partitions :
               \E n \in Nat : n = committed'[p] /\ DoneTo(p, n),
           \A c \in Consumers, p \in Partitions :
               \E n \in Nat : n = stash'[c][p] /\ DoneTo(p, n),
           \A p \in Partitions : \/ \E n \in Nat : n = position'[p] /\ DoneTo(p, n)
                                 \/ ReadOK(p)'
    PROVE  OffsetsInv'
<1>0. TypeOK
    BY DEF PipelineInv
<1>1. ASSUME NEW p \in Partitions PROVE DoneTo(p, committed[p])'
  <2>1. PICK n \in Nat : n = committed'[p] /\ DoneTo(p, n)
    OBVIOUS
  <2>2. DoneTo(p, n)'
    BY <1>0, <2>1, DoneKeeps
  <2> QED
    BY <2>1, <2>2
<1>2. ASSUME NEW c \in Consumers, NEW p \in Partitions PROVE DoneTo(p, stash[c][p])'
  <2>1. PICK n \in Nat : n = stash'[c][p] /\ DoneTo(p, n)
    OBVIOUS
  <2>2. DoneTo(p, n)'
    BY <1>0, <2>1, DoneKeeps
  <2> QED
    BY <2>1, <2>2
<1>3. ASSUME NEW p \in Partitions PROVE ReadOK(p)'
  <2>1. CASE ReadOK(p)'
    BY <2>1
  <2>2. CASE \E n \in Nat : n = position'[p] /\ DoneTo(p, n)
    <3>1. PICK n \in Nat : n = position'[p] /\ DoneTo(p, n)
      BY <2>2
    <3>2. DoneTo(p, n)'
      BY <1>0, <3>1, DoneKeeps
    <3> QED
      BY <3>1, <3>2 DEF ReadOK
  <2> QED
    BY <2>1, <2>2
<1> QED
    BY <1>1, <1>2, <1>3 DEF OffsetsInv

\* The consumers' work is fine when each is one that was fine before.
LEMMA WorksKeep ==
    ASSUME PipelineInv, Grows, \A c \in Consumers : WorkOK(work'[c])
    PROVE  \A c \in Consumers : WorkOK(work[c])'
<1>1. ASSUME NEW c \in Consumers PROVE WorkOK(work[c])'
  <2>1. PICK w : w = work'[c] /\ WorkOK(w)
    OBVIOUS
  <2>2. WorkOK(w)'
    BY <2>1, WorkKeeps DEF PipelineInv
  <2> QED
    BY <2>1, <2>2
<1> QED
    BY <1>1

\* Offsets as they are, in the form OffsetsKeep wants.
LEMMA OffsetsNow ==
    ASSUME PipelineInv
    PROVE  /\ \A p \in Partitions : committed[p] \in Nat /\ DoneTo(p, committed[p])
           /\ \A c \in Consumers, p \in Partitions : stash[c][p] \in Nat /\ DoneTo(p, stash[c][p])
           /\ \A p \in Partitions : position[p] \in Nat /\ ReadOK(p)
           /\ \A p \in Partitions : owner[p] \in Consumers
           /\ \A c \in Consumers : WorkOK(work[c])
  BY DEF PipelineInv, OffsetsInv, TypeOK

\* Steps that touch neither an offset nor a consumer.
LEMMA Untouched ==
    ASSUME PipelineInv, Grows, UNCHANGED <<committed, owner, position, stash, work>>
    PROVE  OffsetsInv' /\ \A c \in Consumers : WorkOK(work[c])'
<1>1. ASSUME NEW p \in Partitions
      PROVE  (\E n \in Nat : n = position'[p] /\ DoneTo(p, n)) \/ ReadOK(p)'
    BY OffsetsNow DEF ReadOK
<1> QED
    BY <1>1, OffsetsNow, OffsetsKeep, WorksKeep

-----------------------------------------------------------------------------
(* The actions.                                                            *)

\* The ingestor, foreign producers, retention and time.
LEMMA OutsideStep ==
    ASSUME PipelineInv, Grows,
           \/ \E l \in Logs : \/ IngestLog(l) \/ PublishAcked(l) \/ PublishFailed(l)
                              \/ GrowOld(l)
                              \/ \E p \in Partitions : Append2Topic(l, p)
           \/ \E j \in Junk, p \in Partitions : ForeignMessage(j, p)
           \/ RunRetention
           \/ \E p \in Partitions : KafkaRetention(p)
           \/ UNCHANGED vars
    PROVE  PipelineInv'
<1>0. TypeOK /\ RowsInv /\ \A l \in Logs : reply[l] = "ok" => OnTopic(l)
    BY DEF PipelineInv
<1>1. UNCHANGED <<committed, owner, position, stash, work>>
    BY DEF IngestLog, PublishAcked, PublishFailed, GrowOld, Append2Topic, ForeignMessage,
           RunRetention, KafkaRetention, vars, kafkaVars
<1>2. OffsetsInv' /\ \A c \in Consumers : WorkOK(work[c])'
    BY <1>1, Untouched
<1>3. \A l \in Logs : OnTopic(l) => OnTopic(l)'
    BY <1>0, TopicKeeps
<1>4. CASE UNCHANGED <<topic, brokerVars, tableVars, streamed, faults>>
  <2> DEFINE Replied == /\ reply' \in [Logs -> Replies] /\ old' \in [Logs -> BOOLEAN]
                        /\ \A l \in Logs : reply'[l] = "ok" => OnTopic(l)
  <2>1. Replied
    <3>1. ASSUME NEW l \in Logs, IngestLog(l) PROVE Replied
      BY <1>0, <3>1 DEF IngestLog, TypeOK, Replies
    <3>2. ASSUME NEW l \in Logs, PublishFailed(l) PROVE Replied
      BY <1>0, <3>2 DEF PublishFailed, TypeOK, Replies
    <3>3. ASSUME NEW l \in Logs, GrowOld(l) PROVE Replied
      BY <1>0, <3>3 DEF GrowOld, TypeOK, Replies
    <3>4. ASSUME NEW l \in Logs, PublishAcked(l) PROVE Replied
      <4>1. OnTopic(l)
        <5>1. PICK p \in Partitions : \E i \in DOMAIN topic[p] : topic[p][i] = l
          BY <3>4 DEF PublishAcked, Copies
        <5>2. DOMAIN topic[p] = 1..Len(topic[p])
          BY <1>0 DEF TypeOK
        <5> QED
          BY <5>1, <5>2 DEF OnTopic
      <4> QED
        BY <1>0, <3>4, <4>1 DEF PublishAcked, TypeOK, Replies
    <3>5. ASSUME UNCHANGED <<reply, old>> PROVE Replied
      BY <1>0, <3>5 DEF TypeOK
    <3> QED
      BY <3>1, <3>2, <3>3, <3>4, <3>5
         DEF Append2Topic, ForeignMessage, RunRetention, KafkaRetention, vars
  <2>2. TypeOK'
    BY <1>0, <1>1, <1>4, <2>1 DEF TypeOK, tableVars, brokerVars
  <2>3. RowsInv'
    BY <1>0, <1>4 DEF RowsInv, tableVars
  <2> QED
    BY <1>2, <1>3, <2>1, <2>2, <2>3 DEF PipelineInv
<1>5. ASSUME NEW m \in Messages, NEW p \in Partitions,
             topic' = [topic EXCEPT ![p] = Append(@, m)],
             UNCHANGED <<reply, old, brokerVars, tableVars, streamed, faults>>
      PROVE  PipelineInv'
  <2>1. TypeOK'
    BY <1>0, <1>1, <1>5, Appended DEF TypeOK, tableVars, brokerVars
  <2>2. RowsInv'
    BY <1>0, <1>5 DEF RowsInv, tableVars
  <2> QED
    BY <1>0, <1>2, <1>3, <1>5, <2>1, <2>2 DEF PipelineInv
<1>6. CASE RunRetention
  <2>1. PICK gone : gone = {l \in rows : old[l]}
    OBVIOUS
  <2>2. /\ rows' = rows \ gone
        /\ purged' = [l \in Logs |-> IF l \in gone THEN purged[l] + 1 ELSE purged[l]]
        /\ UNCHANGED <<reply, old, topic, logStart, expired, inserted, dropped, streamed, faults>>
    BY <1>6, <2>1 DEF RunRetention, kafkaVars, brokerVars
  <2>3. TypeOK'
    BY <1>0, <1>1, <2>2 DEF TypeOK
  <2>4. RowsInv'
    BY <1>0, <2>1, <2>2 DEF RowsInv, TypeOK
  <2> QED
    BY <1>0, <1>2, <1>3, <2>2, <2>3, <2>4 DEF PipelineInv
<1>7. ASSUME NEW p \in Partitions, KafkaRetention(p) PROVE PipelineInv'
  <2>1. UNCHANGED <<reply, old, topic, tableVars, streamed, faults>>
    BY <1>7 DEF KafkaRetention
  <2>2. logStart' \in [Partitions -> Nat]
    BY <1>0, <1>7 DEF KafkaRetention, TypeOK
  <2>3. expired' \subseteq Logs
    BY <1>0, <1>7 DEF KafkaRetention, TypeOK
  <2>4. TypeOK'
    BY <1>0, <1>1, <2>1, <2>2, <2>3 DEF TypeOK, tableVars
  <2>5. RowsInv'
    BY <1>0, <2>1 DEF RowsInv, tableVars
  <2> QED
    BY <1>0, <1>2, <1>3, <2>1, <2>4, <2>5 DEF PipelineInv
<1> QED
    BY <1>4, <1>5, <1>6, <1>7
       DEF IngestLog, PublishAcked, PublishFailed, GrowOld, Append2Topic, ForeignMessage,
           vars, kafkaVars, Messages

\* A consumer that stops working, or never was, frees no partition's position.
LEMMA ReadKeeps ==
    ASSUME PipelineInv, Grows, NEW c \in Consumers, NEW p \in Partitions,
           ~(owner[p] = c /\ work[c].pc = "insert"),
           \A d \in Consumers \ {c} : work'[d] = work[d],
           owner' = owner, position'[p] = position[p]
    PROVE  ReadOK(p)'
<1>1. ReadOK(p) /\ position[p] \in Nat /\ owner[p] \in Consumers
    BY OffsetsNow
<1>2. CASE DoneTo(p, position[p])
  <2>1. PICK n \in Nat : n = position[p] /\ DoneTo(p, n)
    BY <1>1, <1>2
  <2>2. DoneTo(p, n)'
    BY <2>1, DoneKeeps DEF PipelineInv
  <2> QED
    BY <2>1, <2>2 DEF ReadOK
<1>3. CASE ~DoneTo(p, position[p])
    BY <1>1, <1>3 DEF ReadOK
<1> QED
    BY <1>2, <1>3

\* Stashing an offset that is dealt with.
LEMMA Stashed ==
    ASSUME PipelineInv, NEW c \in Consumers, NEW p \in Partitions, NEW n \in Nat,
           StashOffset(c, p, n), DoneTo(p, n)
    PROVE  /\ stash' \in [Consumers -> [Partitions -> Nat]]
           /\ \A d \in Consumers, q \in Partitions :
                 \E m \in Nat : m = stash'[d][q] /\ DoneTo(q, m)
<1>1. /\ stash \in [Consumers -> [Partitions -> Nat]]
      /\ \A d \in Consumers, q \in Partitions : stash[d][q] \in Nat /\ DoneTo(q, stash[d][q])
    BY OffsetsNow DEF PipelineInv, TypeOK
<1>2. PICK k \in Nat : k = Larger(stash[c][p], n) /\ DoneTo(p, k)
    BY <1>1 DEF Larger
<1>3. stash' = [stash EXCEPT ![c][p] = k]
    BY <1>1, <1>2 DEF StashOffset
<1> QED
    BY <1>1, <1>2, <1>3

\* One more message is dealt with.
LEMMA DoneNext ==
    ASSUME TypeOK, NEW p \in Partitions, NEW n \in Nat, n + 1 <= Len(topic[p]), DoneTo(p, n),
           topic[p][n + 1] \in Logs => Settled(topic[p][n + 1])
    PROVE  DoneTo(p, n + 1)
<1>1. \A i \in 1..(n + 1) : i \in 1..n \/ i = n + 1
    OBVIOUS
<1> QED
    BY <1>1 DEF DoneTo

\* Fetch takes the next message of a partition all of whose fetched messages
\* are dealt with.
LEMMA FetchStep ==
    ASSUME PipelineInv, Grows, NEW c \in Consumers, NEW p \in Partitions, Fetch(c, p)
    PROVE  PipelineInv'
<1>0. /\ TypeOK /\ RowsInv /\ \A l \in Logs : reply[l] = "ok" => OnTopic(l)
      /\ work \in [Consumers -> Work] /\ position \in [Partitions -> Nat]
      /\ topic[p] \in Seq(Messages)
    BY DEF PipelineInv, TypeOK
<1>13. PICK k \in NextOffsets(p) :
          /\ k <= Len(topic[p])
          /\ position' = [position EXCEPT ![p] = k]
          /\ \/ topic[p][k] = "garbage" /\ UNCHANGED <<stash, work>>
             \/ topic[p][k] = "noid" /\ StashOffset(c, p, k) /\ UNCHANGED work
             \/ /\ topic[p][k] \in Logs
                /\ work' = [work EXCEPT ![c] = [pc |-> "insert", part |-> p, off |-> k]]
                /\ UNCHANGED stash
    BY DEF Fetch
<1>14. /\ position[p] \in Nat /\ logStart[p] \in Nat
       /\ k = position[p] + 1 \/ k = Larger(position[p], logStart[p]) + 1
    BY <1>0 DEF TypeOK, NextOffsets
<1>15. PICK n \in Nat : k = n + 1 /\ position[p] <= n /\ (n = position[p] \/ n <= logStart[p])
  <2>1. PICK x \in Nat, y \in Nat : x = position[p] /\ y = logStart[p]
    BY <1>14
  <2>2. k = x + 1 \/ (k = y + 1 /\ x <= y)
    BY <1>14, <2>1 DEF Larger
  <2> QED
    BY <2>1, <2>2
<1>1. n + 1 <= Len(topic[p]) /\ position' = [position EXCEPT ![p] = n + 1]
    BY <1>13, <1>15
<1>2. /\ work[c] = NoWork /\ owner[p] = c
      /\ UNCHANGED <<reply, old, topic, logStart, expired, committed, owner, tableVars,
                     streamed, faults>>
    BY DEF Fetch, brokerVars
<1>4. work[c].pc # "insert"
    BY <1>2 DEF NoWork
<1>3. DoneTo(p, n)
  <2>1. ReadOK(p)
    BY OffsetsNow
  <2>2. work[owner[p]] # [pc |-> "insert", part |-> p, off |-> position[p]]
    <3>1. [pc |-> "insert", part |-> p, off |-> position[p]].pc = "insert"
      OBVIOUS
    <3> QED
      BY <1>2, <1>4, <3>1
  <2>3. DoneTo(p, position[p])
    BY <2>1, <2>2 DEF ReadOK
  <2>4. n <= Len(topic[p])
    BY <1>0, <1>1
  <2>5. \A i \in 1..n : i \in 1..position[p] \/ i <= logStart[p]
    BY <1>14, <1>15
  <2>6. \A i \in 1..n : logStart[p] < i => i \in 1..position[p]
    BY <1>14, <2>5
  <2> QED
    BY <2>3, <2>4, <2>6 DEF DoneTo
<1>5. \A q \in Partitions \ {p} : position'[q] = position[q]
    BY <1>0, <1>1
<1>6. /\ position'[p] = n + 1 /\ position' \in [Partitions -> Nat]
    BY <1>0, <1>1
<1>7. RowsInv' /\ \A l \in Logs : reply'[l] = "ok" => OnTopic(l)'
    BY <1>0, <1>2, TopicKeeps DEF RowsInv, tableVars
<1>8. \A q \in Partitions : \E m \in Nat : m = committed'[q] /\ DoneTo(q, m)
    BY <1>2, OffsetsNow
<1>9. ASSUME topic[p][n + 1] \in Junk, UNCHANGED work,
             stash' \in [Consumers -> [Partitions -> Nat]],
             DoneTo(p, n + 1) =>
                \A d \in Consumers, q \in Partitions : \E m \in Nat : m = stash'[d][q] /\ DoneTo(q, m)
      PROVE  PipelineInv'
  <2>1. topic[p][n + 1] \notin Logs
    BY <1>9, PipelineConstants
  <2>2. DoneTo(p, n + 1)
    BY <1>0, <1>1, <1>3, <2>1, DoneNext
  <2>3. ASSUME NEW q \in Partitions
        PROVE  (\E m \in Nat : m = position'[q] /\ DoneTo(q, m)) \/ ReadOK(q)'
    BY <1>2, <1>4, <1>5, <1>6, <1>9, <2>2, ReadKeeps
  <2>4. OffsetsInv'
    BY <1>8, <1>9, <2>2, <2>3, OffsetsKeep
  <2>5. \A d \in Consumers : WorkOK(work[d])'
    BY <1>9, OffsetsNow, WorksKeep
  <2>6. TypeOK'
    BY <1>0, <1>2, <1>6, <1>9 DEF TypeOK, tableVars
  <2> QED
    BY <1>7, <2>4, <2>5, <2>6 DEF PipelineInv
<1>10. CASE topic[p][n + 1] = "garbage" /\ UNCHANGED <<stash, work>>
    BY <1>0, <1>9, <1>10, OffsetsNow DEF Junk, TypeOK
<1>11. CASE topic[p][n + 1] = "noid" /\ StashOffset(c, p, n + 1) /\ UNCHANGED work
  <2>1. stash' \in [Consumers -> [Partitions -> Nat]]
    BY <1>0, <1>11 DEF StashOffset, Larger, TypeOK
  <2> QED
    BY <1>9, <1>11, <2>1, Stashed DEF Junk
<1>12. CASE /\ topic[p][n + 1] \in Logs
            /\ work' = [work EXCEPT ![c] = [pc |-> "insert", part |-> p, off |-> n + 1]]
            /\ UNCHANGED stash
  <2>1. PICK w : w = [pc |-> "insert", part |-> p, off |-> n + 1]
    OBVIOUS
  <2>2. w \in Work /\ w.pc = "insert" /\ w.part = p /\ w.off = n + 1
    BY <2>1 DEF Work
  <2>3. work' \in [Consumers -> Work]
        /\ \A d \in Consumers : work'[d] = IF d = c THEN w ELSE work[d]
    BY <1>0, <1>12, <2>1, <2>2
  <2>4. WorkOK(w)
    BY <1>1, <1>3, <1>12, <2>2 DEF WorkOK
  <2>5. \A d \in Consumers : WorkOK(work[d])'
    BY <2>3, <2>4, OffsetsNow, WorksKeep
  <2>6. ReadOK(p)'
    BY <1>2, <1>6, <2>1, <2>3 DEF ReadOK
  <2>7. ASSUME NEW q \in Partitions PROVE ReadOK(q)'
    BY <1>2, <1>4, <1>5, <2>3, <2>6, ReadKeeps
  <2>8. OffsetsInv'
    BY <1>8, <1>12, <2>7, OffsetsNow, OffsetsKeep
  <2>9. TypeOK'
    BY <1>0, <1>2, <1>6, <1>12, <2>3 DEF TypeOK, tableVars
  <2> QED
    BY <1>7, <2>5, <2>8, <2>9 DEF PipelineInv
<1> QED
    BY <1>15, <1>10, <1>11, <1>12, <1>13

\* InsertLogs settles the log, whichever way it goes.
LEMMA InsertStep ==
    ASSUME PipelineInv, Grows, NEW c \in Consumers, InsertLogs(c)
    PROVE  PipelineInv'
<1>0. /\ TypeOK /\ RowsInv /\ \A l \in Logs : reply[l] = "ok" => OnTopic(l)
      /\ work \in [Consumers -> Work] /\ inserted \in [Logs -> Nat] /\ purged \in [Logs -> Nat]
      /\ rows \subseteq Logs /\ dropped \subseteq Logs
      /\ topic \in [Partitions -> Seq(Messages)]
    BY DEF PipelineInv, TypeOK
<1>1. PICK w : w = work[c]
    OBVIOUS
<1>2. /\ w \in [pc : {"insert", "commit", "publish"}, part : Partitions, off : Nat \ {0}]
      /\ w.pc = "insert" /\ w # NoWork /\ Message(c) \in Logs /\ WorkOK(w)
    BY <1>1, AtWork, OffsetsNow DEF InsertLogs
<1>3. PICK l \in Logs : l = Message(c) /\ l = topic[w.part][w.off]
    BY <1>1, <1>2 DEF Message
<1>4. UNCHANGED <<reply, old, topic, logStart, expired, committed, owner, position, stash,
                  purged, streamed, faults>>
    BY DEF InsertLogs, kafkaVars, brokerVars
<1>5. \/ /\ l \notin rows /\ rows' = rows \cup {l} /\ inserted' = [inserted EXCEPT ![l] = @ + 1]
         /\ dropped' = dropped
      \/ /\ l \in rows /\ UNCHANGED <<rows, inserted, dropped>>
      \/ /\ dropped' = dropped \cup {l} /\ UNCHANGED <<rows, inserted>>
    BY <1>3 DEF InsertLogs, StoreRow
<1>6. Settled(l)'
  <2>1. l \in rows => inserted[l] > 0
    BY <1>0 DEF RowsInv
  <2> QED
    BY <1>0, <1>5, <2>1 DEF Settled
<1>7. /\ rows' \subseteq Logs /\ inserted' \in [Logs -> Nat] /\ dropped' \subseteq Logs
      /\ RowsInv'
  <2>1. CASE /\ l \notin rows /\ rows' = rows \cup {l}
             /\ inserted' = [inserted EXCEPT ![l] = @ + 1] /\ dropped' = dropped
    <3>1. rows' \subseteq Logs /\ dropped' \subseteq Logs
      BY <1>0, <2>1
    <3>2. inserted' \in [Logs -> Nat]
      BY <1>0, <2>1
    <3>3. ASSUME NEW m \in Logs
          PROVE  inserted'[m] = purged'[m] + (IF m \in rows' THEN 1 ELSE 0)
      <4>1. inserted[m] = purged[m] + (IF m \in rows THEN 1 ELSE 0)
        BY <1>0 DEF RowsInv
      <4>2. inserted[m] \in Nat /\ purged[m] \in Nat /\ purged'[m] = purged[m]
        BY <1>0, <1>4
      <4>3. CASE m = l
        BY <1>0, <2>1, <4>1, <4>2, <4>3
      <4>4. CASE m # l
        BY <1>0, <2>1, <4>1, <4>2, <4>4
      <4> QED
        BY <4>3, <4>4
    <3> QED
      BY <3>1, <3>2, <3>3 DEF RowsInv
  <2>2. CASE UNCHANGED <<rows, inserted>> /\ dropped' \subseteq Logs
    BY <1>0, <1>4, <2>2 DEF RowsInv
  <2> QED
    BY <1>0, <1>5, <2>1, <2>2
<1>8. DoneTo(w.part, w.off)'
  <2>1. w.off - 1 \in Nat /\ w.part \in Partitions
    BY <1>2
  <2>2. DoneTo(w.part, w.off - 1)'
    BY <1>0, <1>2, <2>1, DoneKeeps DEF WorkOK
  <2>3. w.off <= Len(topic[w.part]) /\ w.off \in Nat
    BY <1>2 DEF WorkOK
  <2>4. \A i \in 1..w.off : i \in 1..(w.off - 1) \/ i = w.off
    BY <2>3
  <2> QED
    BY <1>3, <1>4, <1>6, <2>2, <2>3, <2>4 DEF DoneTo
<1>9. PICK new : /\ work' = [work EXCEPT ![c] = new]
                 /\ new = NoWork \/ new = [w EXCEPT !.pc = "commit"]
    BY <1>0, <1>1 DEF InsertLogs
<1>10. /\ new \in Work
       /\ new = NoWork \/ (new.pc = "commit" /\ new.part = w.part /\ new.off = w.off)
    BY <1>2, <1>9 DEF Work
<1>11. work' \in [Consumers -> Work]
       /\ \A d \in Consumers : work'[d] = IF d = c THEN new ELSE work[d]
    BY <1>0, <1>9, <1>10
<1>12. WorkOK(new)'
  <2>1. WorkOK(w)'
    BY <1>0, <1>2, WorkKeeps
  <2> QED
    BY <1>2, <1>8, <1>10, <2>1 DEF WorkOK
<1>13. ASSUME NEW d \in Consumers PROVE WorkOK(work[d])'
  <2>1. PICK v : v = work[d] /\ WorkOK(v)
    BY OffsetsNow
  <2>2. WorkOK(v)'
    BY <1>0, <2>1, WorkKeeps
  <2> QED
    BY <1>11, <1>12, <2>1, <2>2
<1>14. ASSUME NEW p \in Partitions PROVE ReadOK(p)'
  <2>1. CASE owner[p] = c
    <3>1. ReadOK(p) /\ position[p] \in Nat
      BY OffsetsNow
    <3>2. CASE DoneTo(p, position[p])
      <4>1. PICK n \in Nat : n = position[p] /\ DoneTo(p, n)
        BY <3>1, <3>2
      <4>2. DoneTo(p, n)'
        BY <1>0, <4>1, DoneKeeps
      <4> QED
        BY <1>4, <4>1, <4>2 DEF ReadOK
    <3>3. CASE ~DoneTo(p, position[p])
      <4>1. w.part = p /\ w.off = position[p]
        BY <1>1, <2>1, <3>1, <3>3 DEF ReadOK
      <4> QED
        BY <1>4, <1>8, <4>1 DEF ReadOK
    <3> QED
      BY <3>2, <3>3
  <2>2. CASE owner[p] # c
    BY <1>4, <1>11, <2>2, ReadKeeps
  <2> QED
    BY <2>1, <2>2
<1>15. OffsetsInv'
    BY <1>4, <1>14, OffsetsNow, OffsetsKeep
<1>16. TypeOK'
    BY <1>0, <1>4, <1>7, <1>11 DEF TypeOK
<1>17. \A m \in Logs : reply'[m] = "ok" => OnTopic(m)'
    BY <1>0, <1>4, TopicKeeps
<1> QED
    BY <1>7, <1>13, <1>15, <1>16, <1>17 DEF PipelineInv

\* Commit stashes an offset that is dealt with; publishing ends the work.
LEMMA CommitPublishStep ==
    ASSUME PipelineInv, Grows, NEW c \in Consumers, Commit(c) \/ PublishLog(c)
    PROVE  PipelineInv'
<1>0. /\ TypeOK /\ RowsInv /\ \A l \in Logs : reply[l] = "ok" => OnTopic(l)
      /\ work \in [Consumers -> Work] /\ streamed \in [Logs -> Nat]
      /\ stash \in [Consumers -> [Partitions -> Nat]]
    BY DEF PipelineInv, TypeOK
<1>1. PICK w : w = work[c]
    OBVIOUS
<1>2. /\ w \in [pc : {"insert", "commit", "publish"}, part : Partitions, off : Nat \ {0}]
      /\ w.pc \in {"commit", "publish"} /\ w # NoWork /\ Message(c) \in Logs /\ WorkOK(w)
    BY <1>1, AtWork, OffsetsNow DEF Commit, PublishLog
<1>3. /\ UNCHANGED <<reply, old, topic, logStart, expired, committed, owner, position,
                     tableVars, faults>>
      /\ w.part \in Partitions /\ w.off \in Nat /\ DoneTo(w.part, w.off)
    BY <1>2 DEF Commit, PublishLog, kafkaVars, brokerVars, WorkOK
<1>4. /\ stash' \in [Consumers -> [Partitions -> Nat]]
      /\ \A d \in Consumers, q \in Partitions : \E m \in Nat : m = stash'[d][q] /\ DoneTo(q, m)
  <2>1. CASE UNCHANGED stash
    BY <1>0, <2>1, OffsetsNow
  <2>2. CASE StashOffset(c, w.part, w.off)
    BY <1>3, <2>2, Stashed
  <2> QED
    BY <1>1, <2>1, <2>2 DEF Commit, PublishLog, kafkaVars
<1>5. PICK new : /\ work' = [work EXCEPT ![c] = new]
                 /\ new = NoWork \/ new = [w EXCEPT !.pc = "publish"]
    BY <1>0, <1>1 DEF Commit, PublishLog
<1>6. /\ new \in Work
      /\ new = NoWork \/ (new.pc = "publish" /\ new.part = w.part /\ new.off = w.off)
    BY <1>2, <1>5 DEF Work
<1>7. work' \in [Consumers -> Work]
      /\ \A d \in Consumers : work'[d] = IF d = c THEN new ELSE work[d]
    BY <1>0, <1>5, <1>6
<1>8. WorkOK(new)
    BY <1>2, <1>6 DEF WorkOK
<1>9. \A d \in Consumers : WorkOK(work[d])'
    BY <1>7, <1>8, OffsetsNow, WorksKeep
<1>10. ASSUME NEW p \in Partitions PROVE ReadOK(p)'
  <2>1. work[c].pc # "insert"
    BY <1>1, <1>2
  <2> QED
    BY <1>3, <1>7, <2>1, ReadKeeps
<1>11. OffsetsInv'
    BY <1>3, <1>4, <1>10, OffsetsNow, OffsetsKeep
<1>12. streamed' \in [Logs -> Nat]
    BY <1>0, <1>2 DEF Commit, PublishLog
<1>13. TypeOK'
    BY <1>0, <1>3, <1>4, <1>7, <1>12 DEF TypeOK, tableVars
<1>14. RowsInv' /\ \A m \in Logs : reply'[m] = "ok" => OnTopic(m)'
    BY <1>0, <1>3, TopicKeeps DEF RowsInv, tableVars
<1> QED
    BY <1>9, <1>11, <1>13, <1>14 DEF PipelineInv

\* Committed offsets only ever take values that some consumer stashed.
LEMMA RegroupStep ==
    ASSUME PipelineInv, Grows, NEW c \in Consumers,
           FlushCommits(c) \/ Crash(c) \/ Rebalance
    PROVE  PipelineInv'
<1>0. /\ TypeOK /\ RowsInv /\ \A l \in Logs : reply[l] = "ok" => OnTopic(l)
      /\ work \in [Consumers -> Work] /\ stash \in [Consumers -> [Partitions -> Nat]]
      /\ committed \in [Partitions -> Nat] /\ topic \in [Partitions -> Seq(Messages)]
    BY DEF PipelineInv, TypeOK
<1>1. UNCHANGED <<reply, old, topic, logStart, expired, tableVars, streamed>>
    BY DEF FlushCommits, Crash, Rebalance, Regroup, brokerVars
<1>2. RowsInv' /\ \A m \in Logs : reply'[m] = "ok" => OnTopic(m)'
    BY <1>0, <1>1, TopicKeeps DEF RowsInv, tableVars
<1>3. \A p \in Partitions : DoneTo(p, 0)
    BY <1>0 DEF DoneTo
<1>4. CASE FlushCommits(c)
  <2>1. \A p \in Partitions : \E n \in Nat : n = committed'[p] /\ DoneTo(p, n)
    BY <1>4, OffsetsNow DEF FlushCommits
  <2>2. \A d \in Consumers, p \in Partitions : \E n \in Nat : n = stash'[d][p] /\ DoneTo(p, n)
    <3>1. ASSUME NEW d \in Consumers, NEW p \in Partitions
          PROVE  stash'[d][p] = 0 \/ stash'[d][p] = stash[d][p]
      BY <1>0, <1>4 DEF FlushCommits
    <3> QED
      BY <1>3, <3>1, OffsetsNow
  <2>3. UNCHANGED <<owner, position, work, faults>>
    BY <1>4 DEF FlushCommits
  <2>4. ASSUME NEW p \in Partitions
        PROVE  (\E n \in Nat : n = position'[p] /\ DoneTo(p, n)) \/ ReadOK(p)'
    BY <2>3, OffsetsNow DEF ReadOK
  <2>5. OffsetsInv' /\ \A d \in Consumers : WorkOK(work[d])'
    BY <2>1, <2>2, <2>3, <2>4, OffsetsNow, OffsetsKeep, WorksKeep
  <2>6. committed' \in [Partitions -> Nat]
    BY <1>0, <1>4 DEF FlushCommits
  <2>7. stash' \in [Consumers -> [Partitions -> Nat]]
    <3>1. [p \in Partitions |-> 0] \in [Partitions -> Nat]
      OBVIOUS
    <3> QED
      BY <1>0, <1>4, <3>1 DEF FlushCommits
  <2>8. TypeOK'
    BY <1>0, <1>1, <2>3, <2>6, <2>7 DEF TypeOK, tableVars
  <2> QED
    BY <1>2, <2>5, <2>8 DEF PipelineInv
<1>5. CASE Crash(c) \/ Rebalance
  <2>1. Regroup
    BY <1>5 DEF Crash, Rebalance
  <2>2. PICK last : /\ last \in [Partitions -> UNION {LastCommits(p) : p \in Partitions}]
                    /\ \A p \in Partitions : last[p] \in LastCommits(p)
                    /\ committed' = last /\ position' = last
    BY <2>1 DEF Regroup
  <2>3. \A p \in Partitions : last[p] \in Nat /\ DoneTo(p, last[p])
    BY <2>2, OffsetsNow DEF LastCommits
  <2>4. last \in [Partitions -> Nat]
    BY <2>2, <2>3
  <2>5. /\ owner' \in [Partitions -> Consumers]
        /\ stash' = [d \in Consumers |-> [p \in Partitions |-> 0]]
        /\ faults' = faults + 1
    BY <2>1 DEF Regroup
  <2>6. stash' \in [Consumers -> [Partitions -> Nat]]
    BY <2>5
  <2>7. \A d \in Consumers, p \in Partitions : \E n \in Nat : n = stash'[d][p] /\ DoneTo(p, n)
    BY <1>3, <2>5
  <2>8. \A p \in Partitions : \E n \in Nat : n = last[p] /\ DoneTo(p, n)
    BY <2>3
  <2>9. OffsetsInv'
    BY <2>2, <2>7, <2>8, OffsetsKeep
  <2>10. /\ work' \in [Consumers -> Work]
         /\ \A d \in Consumers : work'[d] = work[d] \/ work'[d] = NoWork
    BY <1>0, <1>5 DEF Crash, Rebalance, Work
  <2>11. WorkOK(NoWork)
    BY DEF WorkOK
  <2>12. \A d \in Consumers : WorkOK(work'[d])
    BY <2>10, <2>11, OffsetsNow
  <2>13. \A d \in Consumers : WorkOK(work[d])'
    BY <2>12, WorksKeep
  <2>14. TypeOK'
    BY <1>0, <1>1, <2>2, <2>4, <2>5, <2>6, <2>10 DEF TypeOK, tableVars
  <2> QED
    BY <1>2, <2>9, <2>13, <2>14 DEF PipelineInv
<1> QED
    BY <1>4, <1>5

-----------------------------------------------------------------------------
LEMMA PipelineInit == Init => PipelineInv
<1> SUFFICES ASSUME Init PROVE PipelineInv
    OBVIOUS
<1>1. TypeOK
  <2>1. /\ topic \in [Partitions -> Seq(Messages)] /\ work \in [Consumers -> Work]
        /\ stash \in [Consumers -> [Partitions -> Nat]]
    BY DEF Init, Work
  <2>2. reply \in [Logs -> Replies] /\ old \in [Logs -> BOOLEAN]
    BY DEF Init, Replies
  <2> QED
    BY <2>1, <2>2 DEF Init, TypeOK
<1>2. RowsInv
    BY DEF Init, RowsInv
<1>3. \A p \in Partitions : DoneTo(p, 0)
    BY DEF Init, DoneTo
<1>4. OffsetsInv
    BY <1>3 DEF Init, OffsetsInv, ReadOK
<1>5. \A c \in Consumers : WorkOK(work[c])
    BY DEF Init, WorkOK
<1>6. \A l \in Logs : reply[l] # "ok"
    BY DEF Init
<1> QED
    BY <1>1, <1>2, <1>4, <1>5, <1>6 DEF PipelineInv

LEMMA PipelineNext == PipelineInv /\ [Next]_vars => PipelineInv'
<1> SUFFICES ASSUME PipelineInv, [Next]_vars PROVE PipelineInv'
    OBVIOUS
<1>1. Grows
    BY StepGrows
<1>2. ASSUME NEW c \in Consumers, ConsumerStep(c) PROVE PipelineInv'
    BY <1>1, <1>2, FetchStep, InsertStep, CommitPublishStep DEF ConsumerStep
<1>3. ASSUME NEW c \in Consumers, FlushCommits(c) \/ Crash(c) PROVE PipelineInv'
    BY <1>1, <1>3, RegroupStep
<1>4. CASE Rebalance
    BY <1>1, <1>4, RegroupStep, PipelineConstants
<1> QED
    BY <1>1, <1>2, <1>3, <1>4, OutsideStep DEF Next

LEMMA PipelineInvariance == Spec => []PipelineInv
<1> QED
    BY PipelineInit, PipelineNext, PTL DEF Spec

\* Every variable keeps its type, in particular a consumer never works on
\* anything but a message of a partition.
THEOREM PipelineTypes == Spec => []TypeOK
<1>1. PipelineInv => TypeOK
    BY DEF PipelineInv
<1> QED
    BY <1>1, PipelineInvariance, PTL

\* The committed offset of a partition only ever passes messages that were
\* stored, refused by Postgres or are no log, or that the broker has deleted,
\* whoever committed it and whenever the commit arrived.
THEOREM CommitsAreSettled == Spec => []CommittedIsSettled
<1>1. ASSUME PipelineInv PROVE CommittedIsSettled
  <2>1. ASSUME NEW p \in Partitions, NEW i \in DOMAIN topic[p], logStart[p] < i,
               i <= committed[p], topic[p][i] \in Logs
        PROVE  Settled(topic[p][i])
    <3>1. committed[p] \in Nat /\ DoneTo(p, committed[p])
      BY <1>1, OffsetsNow
    <3>2. i \in 1..committed[p]
      BY <1>1, <2>1, <3>1 DEF PipelineInv, TypeOK
    <3> QED
      BY <2>1, <3>1, <3>2 DEF DoneTo
  <2> QED
    BY <2>1 DEF CommittedIsSettled
<1> QED
    BY <1>1, PipelineInvariance, PTL

-----------------------------------------------------------------------------
(* Where a log that reached the topic is.                                  *)

KnownInv ==
    /\ \A p \in Partitions : logStart[p] <= Len(topic[p])
    /\ \A l \in Logs : OnTopic(l) => Settled(l) \/ Unread(l) \/ l \in expired

\* A log the broker still has is past the committed offset or settled.
Tracked ==
    \A p \in Partitions : \A i \in 1..Len(topic[p]) : \A l \in Logs :
        (topic[p][i] = l /\ logStart[p] < i) => Settled(l) \/ Unread(l)

LEMMA AllTracked == PipelineInv => Tracked
<1> SUFFICES ASSUME PipelineInv, NEW p \in Partitions, NEW i \in 1..Len(topic[p]), NEW l \in Logs,
                    topic[p][i] = l, logStart[p] < i
             PROVE  Settled(l) \/ Unread(l)
    BY DEF Tracked
<1>1. committed[p] \in Nat /\ DoneTo(p, committed[p])
    BY OffsetsNow
<1>2. i \in DOMAIN topic[p]
    BY DEF PipelineInv, TypeOK
<1>3. CASE i <= committed[p]
    BY <1>1, <1>3 DEF DoneTo
<1>4. CASE i > committed[p]
    BY <1>2, <1>4 DEF Unread, UnreadFrom
<1> QED
    BY <1>1, <1>3, <1>4

LEMMA KnownNext ==
    ASSUME PipelineInv, PipelineInv', KnownInv, [Next]_vars
    PROVE  KnownInv'
<1>0. /\ Grows /\ \A p \in Partitions : Len(topic[p]) \in Nat /\ Len(topic'[p]) \in Nat
      /\ logStart \in [Partitions -> Nat]
    BY StepGrows DEF PipelineInv, TypeOK
<1>3. Tracked'
    BY AllTracked, PTL
<1>1. ASSUME NEW q \in Partitions, KafkaRetention(q)
      PROVE  KnownInv'
  <2>1. PICK start : start = [logStart EXCEPT ![q] = @ + 1]
    OBVIOUS
  <2>2. /\ logStart[q] < Len(topic[q]) /\ logStart' = start /\ UNCHANGED <<topic, committed>>
        /\ expired' = expired \cup
              {l \in Logs : Unread(l) /\ ~UnreadFrom(l, start) /\ ~Settled(l)}
    BY <1>1, <2>1 DEF KafkaRetention
  <2>3. \A p \in Partitions : logStart'[p] <= Len(topic'[p])
    BY <1>0, <2>1, <2>2 DEF KnownInv
  <2>4. ASSUME NEW l \in Logs, OnTopic(l)'
        PROVE  Settled(l)' \/ Unread(l)' \/ l \in expired'
    <3>1. OnTopic(l)
      BY <2>2, <2>4 DEF OnTopic
    <3>2. UnreadFrom(l, start) => Unread(l)'
      BY <2>2 DEF Unread, UnreadFrom
    <3> QED
      BY <1>0, <2>2, <3>1, <3>2 DEF KnownInv, Grows
  <2> QED
    BY <2>3, <2>4 DEF KnownInv
<1>2. ASSUME UNCHANGED brokerVars
      PROVE  KnownInv'
  <2>1. \A p \in Partitions : logStart'[p] <= Len(topic'[p])
    BY <1>0, <1>2 DEF KnownInv, Grows, brokerVars
  <2>2. ASSUME NEW l \in Logs, OnTopic(l)'
        PROVE  Settled(l)' \/ Unread(l)' \/ l \in expired'
    <3>1. ASSUME NEW p \in Partitions, NEW i \in 1..Len(topic'[p]), topic'[p][i] = l,
                 logStart[p] < i
          PROVE  Settled(l)' \/ Unread(l)'
      <4>1. logStart'[p] < i
        BY <1>2, <3>1 DEF brokerVars
      <4> QED
        BY <1>3, <3>1, <4>1 DEF Tracked
    <3>2. CASE OnTopic(l)
      <4>1. CASE Unread(l)
        <5>0. PICK p \in Partitions : \E i \in DOMAIN topic[p] :
                                        topic[p][i] = l /\ i > logStart[p]
          BY <4>1 DEF Unread, UnreadFrom
        <5>1. PICK i \in DOMAIN topic[p] : topic[p][i] = l /\ i > logStart[p]
          BY <5>0
        <5>2. i \in 1..Len(topic[p])
          BY DEF PipelineInv, TypeOK
        <5>3. i \in 1..Len(topic'[p]) /\ topic'[p][i] = l
          BY <1>0, <5>1, <5>2 DEF Grows
        <5> QED
          BY <1>0, <3>1, <5>1, <5>2, <5>3
      <4>2. CASE Settled(l)
        BY <1>0, <4>2 DEF Grows
      <4>3. CASE l \in expired
        BY <1>2, <4>3 DEF brokerVars
      <4> QED
        BY <3>2, <4>1, <4>2, <4>3 DEF KnownInv
    <3>3. CASE ~OnTopic(l)
      <4>0. PICK p \in Partitions : \E i \in 1..Len(topic'[p]) : topic'[p][i] = l
        BY <2>2 DEF OnTopic
      <4>1. PICK i \in 1..Len(topic'[p]) : topic'[p][i] = l
        BY <4>0
      <4>2. i \notin 1..Len(topic[p])
        BY <1>0, <3>3, <4>1 DEF OnTopic, Grows
      <4>3. logStart[p] < i
        BY <1>0, <4>1, <4>2 DEF KnownInv
      <4> QED
        BY <3>1, <4>1, <4>3
    <3> QED
      BY <3>2, <3>3
  <2> QED
    BY <2>1, <2>2 DEF KnownInv
<1> QED
    BY <1>1, <1>2
       DEF Next, ConsumerStep, IngestLog, PublishAcked, PublishFailed, GrowOld, Append2Topic,
           ForeignMessage, Fetch, InsertLogs, Commit, PublishLog, FlushCommits, Crash,
           Rebalance, Regroup, RunRetention, vars, kafkaVars

LEMMA KnownInvariance == Spec => []KnownInv
<1>1. Init => KnownInv
    BY DEF Init, KnownInv, OnTopic
<1>2. PipelineInv /\ PipelineInv' /\ KnownInv /\ [Next]_vars => KnownInv'
    BY KnownNext
<1> QED
    BY <1>1, <1>2, PipelineInvariance, PTL DEF Spec

\* A log that IngestLog answered 200 for is stored, was refused by Postgres, is
\* still at or after the committed offset, or was deleted by the broker's own
\* retention before the group came to it: through every crash, rebalance and
\* late commit the program itself loses none.
THEOREM AckedStaysDurable == Spec => []AckedIsDurable
<1>1. PipelineInv /\ KnownInv => AckedIsDurable
    BY DEF PipelineInv, KnownInv, AckedIsDurable
<1> QED
    BY <1>1, PipelineInvariance, KnownInvariance, PTL

-----------------------------------------------------------------------------
(* Publication to live subscribers.                                        *)

\* Consumers that have stored l and may still publish it.
Holds(c, l) == work[c].pc \in {"commit", "publish"} /\ Message(c) = l
Holding(l) == {c \in Consumers : Holds(c, l)}

\* Each time l was stored pays for one publication, made or still to be made.
StreamInv == \A l \in Logs : streamed[l] + Cardinality(Holding(l)) <= inserted[l]

LEMMA HoldingFinite ==
    ASSUME NEW l
    PROVE  IsFiniteSet(Holding(l)) /\ Cardinality(Holding(l)) \in Nat
<1>1. IsFiniteSet(Holding(l))
    BY PipelineConstants, FS_Subset DEF Holding
<1> QED
    BY <1>1, FS_CardinalityType

\* A consumer that is not touched holds what it held.
LEMMA HoldsKeeps ==
    ASSUME PipelineInv, Grows, NEW c \in Consumers, NEW l, work'[c] = work[c]
    PROVE  Holds(c, l)' <=> Holds(c, l)
<1>1. CASE work[c].pc \in {"commit", "publish"}
  <2>1. PICK w : w = work[c] /\ w # NoWork /\ WorkOK(w)
    BY <1>1, OffsetsNow DEF NoWork
  <2>2. w.part \in Partitions /\ w.off \in 1..Len(topic[w.part])
    BY <2>1 DEF WorkOK, PipelineInv, TypeOK
  <2>3. topic'[w.part][w.off] = topic[w.part][w.off]
    BY <2>2 DEF Grows
  <2> QED
    BY <2>1, <2>3 DEF Holds, Message
<1>2. CASE work[c].pc \notin {"commit", "publish"}
    BY <1>2 DEF Holds
<1> QED
    BY <1>1, <1>2

\* Steps that neither store nor publish, in which no consumer takes hold of l.
LEMMA NobodyTakesHold ==
    ASSUME PipelineInv, StreamInv, Grows, UNCHANGED streamed,
           \A l \in Logs : inserted'[l] \in Nat /\ inserted[l] <= inserted'[l],
           \A l \in Logs, c \in Consumers : Holds(c, l)' => Holds(c, l)
    PROVE  StreamInv'
<1>1. ASSUME NEW l \in Logs
      PROVE  streamed'[l] + Cardinality(Holding(l)') <= inserted'[l]
  <2>1. Holding(l)' \subseteq Holding(l)
    BY DEF Holding
  <2>2. PICK H : H = Holding(l)'
    OBVIOUS
  <2>3. Cardinality(H) \in Nat /\ Cardinality(H) <= Cardinality(Holding(l))
    BY <2>1, <2>2, HoldingFinite, FS_Subset, FS_CardinalityType
  <2>4. /\ streamed[l] \in Nat /\ inserted[l] \in Nat
        /\ streamed[l] + Cardinality(Holding(l)) <= inserted[l]
    BY DEF PipelineInv, TypeOK, StreamInv
  <2> QED
    BY <2>2, <2>3, <2>4, HoldingFinite
<1> QED
    BY <1>1 DEF StreamInv

\* InsertLogs: the consumer that takes hold of the log has just stored it.
LEMMA InsertStreams ==
    ASSUME PipelineInv, StreamInv, Grows, NEW c \in Consumers, InsertLogs(c)
    PROVE  StreamInv'
<1>1. PICK m \in Logs : m = Message(c)
    BY AtWork DEF InsertLogs
<1>2. /\ work \in [Consumers -> Work] /\ inserted \in [Logs -> Nat] /\ streamed \in [Logs -> Nat]
      /\ work[c].pc = "insert" /\ UNCHANGED <<topic, streamed>>
    BY DEF InsertLogs, kafkaVars, PipelineInv, TypeOK
<1>3. \A l \in Logs : ~Holds(c, l)
    BY <1>2 DEF Holds
<1>4. \A d \in Consumers \ {c} : work'[d] = work[d]
    BY <1>2 DEF InsertLogs
<1>5. \A d \in Consumers \ {c}, l \in Logs : Holds(d, l)' <=> Holds(d, l)
    BY <1>4, HoldsKeeps
<1>6. CASE work' = [work EXCEPT ![c] = NoWork]
  <2>1. \A l \in Logs : ~Holds(c, l)'
    BY <1>2, <1>6 DEF Holds, NoWork
  <2>2. \A l \in Logs, d \in Consumers : Holds(d, l)' => Holds(d, l)
    BY <1>5, <2>1
  <2>3. \A l \in Logs : inserted'[l] \in Nat /\ inserted[l] <= inserted'[l]
    BY <1>1, <1>2 DEF InsertLogs, StoreRow
  <2> QED
    BY <1>2, <2>2, <2>3, NobodyTakesHold
<1>7. CASE work' = [work EXCEPT ![c].pc = "commit"] /\ inserted' = [inserted EXCEPT ![m] = @ + 1]
  <2>1. /\ work[c] \in [pc : {"insert", "commit", "publish"}, part : Partitions, off : Nat \ {0}]
    BY <1>2, AtWork
  <2>2. work'[c].part = work[c].part /\ work'[c].off = work[c].off /\ work'[c].pc = "commit"
    BY <1>2, <1>7, <2>1
  <2>3. \A l \in Logs : Holds(c, l)' <=> l = m
    BY <1>1, <1>2, <2>2 DEF Holds, Message
  <2>4. ASSUME NEW l \in Logs
        PROVE  streamed'[l] + Cardinality(Holding(l)') <= inserted'[l]
    <3>0. /\ streamed[l] \in Nat /\ inserted[l] \in Nat
          /\ streamed[l] + Cardinality(Holding(l)) <= inserted[l]
          /\ Cardinality(Holding(l)) \in Nat
      BY <1>2, HoldingFinite DEF StreamInv
    <3>1. CASE l = m
      <4>1. Holding(l)' = Holding(l) \cup {c}
        BY <1>5, <2>3, <3>1 DEF Holding
      <4>2. c \notin Holding(l)
        BY <1>3 DEF Holding
      <4>3. Cardinality(Holding(l)') = Cardinality(Holding(l)) + 1
        BY <4>1, <4>2, HoldingFinite, FS_AddElement
      <4> QED
        BY <1>2, <1>7, <3>0, <3>1, <4>3
    <3>2. CASE l # m
      <4>1. Holding(l)' = Holding(l)
        BY <1>3, <1>5, <2>3, <3>2 DEF Holding
      <4>2. inserted'[l] = inserted[l] /\ streamed'[l] = streamed[l]
        BY <1>2, <1>7, <3>2
      <4> QED
        BY <3>0, <4>1, <4>2
    <3> QED
      BY <3>1, <3>2
  <2> QED
    BY <2>4 DEF StreamInv
<1> QED
    BY <1>1, <1>6, <1>7 DEF InsertLogs, StoreRow

\* PublishLog: the consumer lets go of the log it publishes.
LEMMA PublishStreams ==
    ASSUME PipelineInv, StreamInv, Grows, NEW c \in Consumers, PublishLog(c)
    PROVE  StreamInv'
<1>1. PICK m \in Logs : m = Message(c)
    BY AtWork DEF PublishLog
<1>2. /\ work \in [Consumers -> Work] /\ inserted \in [Logs -> Nat] /\ streamed \in [Logs -> Nat]
      /\ work[c].pc = "publish" /\ UNCHANGED <<topic, inserted>>
      /\ work' = [work EXCEPT ![c] = NoWork]
    BY DEF PublishLog, kafkaVars, tableVars, PipelineInv, TypeOK
<1>3. \A d \in Consumers \ {c}, l \in Logs : Holds(d, l)' <=> Holds(d, l)
    BY <1>2, HoldsKeeps
<1>4. \A l \in Logs : ~Holds(c, l)'
    BY <1>2 DEF Holds, NoWork
<1>5. \A l \in Logs : Holds(c, l) <=> l = m
    BY <1>1, <1>2 DEF Holds
<1>6. ASSUME NEW l \in Logs
      PROVE  streamed'[l] + Cardinality(Holding(l)') <= inserted'[l]
  <2>0. /\ streamed[l] \in Nat /\ inserted[l] \in Nat
        /\ streamed[l] + Cardinality(Holding(l)) <= inserted[l]
        /\ Cardinality(Holding(l)) \in Nat
    BY <1>2, HoldingFinite DEF StreamInv
  <2>1. CASE l = m
    <3>1. Holding(l)' = Holding(l) \ {c}
      BY <1>3, <1>4 DEF Holding
    <3>2. c \in Holding(l)
      BY <1>5, <2>1 DEF Holding
    <3>3. Cardinality(Holding(l)') = Cardinality(Holding(l)) - 1
      BY <3>1, <3>2, HoldingFinite, FS_RemoveElement
    <3>4. streamed'[l] = streamed[l] \/ streamed'[l] = streamed[l] + 1
      BY <1>1, <1>2, <2>1 DEF PublishLog
    <3> QED
      BY <1>2, <2>0, <3>3, <3>4
  <2>2. CASE l # m
    <3>1. Holding(l)' = Holding(l)
      BY <1>3, <1>4, <1>5, <2>2 DEF Holding
    <3>2. streamed'[l] = streamed[l]
      BY <1>1, <1>2, <2>2 DEF PublishLog
    <3> QED
      BY <1>2, <2>0, <3>1, <3>2
  <2> QED
    BY <2>1, <2>2
<1> QED
    BY <1>6 DEF StreamInv

LEMMA StreamNext ==
    ASSUME PipelineInv, StreamInv, [Next]_vars
    PROVE  StreamInv'
<1>0. Grows /\ work \in [Consumers -> Work] /\ \A l \in Logs : inserted[l] \in Nat
    BY StepGrows DEF PipelineInv, TypeOK
<1>1. ASSUME UNCHANGED <<streamed, inserted>>,
             \A c \in Consumers : work'[c] = work[c] \/ work'[c].pc \notin {"commit", "publish"}
      PROVE  StreamInv'
  <2>1. \A l \in Logs, c \in Consumers : Holds(c, l)' => Holds(c, l)
    <3>1. ASSUME NEW l \in Logs, NEW c \in Consumers, work'[c] = work[c]
          PROVE  Holds(c, l)' => Holds(c, l)
      BY <1>0, <3>1, HoldsKeeps
    <3>2. ASSUME NEW l \in Logs, NEW c \in Consumers, work'[c].pc \notin {"commit", "publish"}
          PROVE  ~Holds(c, l)'
      BY <3>2 DEF Holds
    <3> QED
      BY <1>1, <3>1, <3>2
  <2> QED
    BY <1>0, <1>1, <2>1, NobodyTakesHold
<1>2. CASE UNCHANGED <<streamed, inserted, work>>
    BY <1>1, <1>2
<1>3. ASSUME NEW c \in Consumers, NEW p \in Partitions, Fetch(c, p)
      PROVE  StreamInv'
  <2>1. \A d \in Consumers : work'[d] = work[d] \/ work'[d].pc = "insert"
    BY <1>0, <1>3 DEF Fetch
  <2> QED
    BY <1>1, <1>3, <2>1 DEF Fetch, tableVars
<1>4. ASSUME NEW c \in Consumers, Crash(c)
      PROVE  StreamInv'
  <2>1. \A d \in Consumers : work'[d] = work[d] \/ work'[d].pc = "fetch"
    BY <1>0, <1>4 DEF Crash, NoWork
  <2> QED
    BY <1>1, <1>4, <2>1 DEF Crash, Regroup, tableVars
<1>5. ASSUME NEW c \in Consumers, Commit(c)
      PROVE  StreamInv'
  <2>1. work[c] \in [pc : {"insert", "commit", "publish"}, part : Partitions, off : Nat \ {0}]
    BY <1>5, AtWork DEF Commit
  <2>2. /\ work'[c].part = work[c].part /\ work'[c].off = work[c].off
        /\ work[c].pc = "commit" /\ UNCHANGED <<topic, streamed, inserted>>
        /\ \A d \in Consumers \ {c} : work'[d] = work[d]
    BY <1>0, <1>5, <2>1 DEF Commit, tableVars
  <2>3. \A l \in Logs : Holds(c, l)' => Holds(c, l)
    BY <2>2 DEF Holds, Message
  <2>4. \A l \in Logs, d \in Consumers \ {c} : Holds(d, l)' => Holds(d, l)
    BY <1>0, <2>2, HoldsKeeps
  <2>5. \A l \in Logs, d \in Consumers : Holds(d, l)' => Holds(d, l)
    BY <2>3, <2>4
  <2> QED
    BY <1>0, <2>2, <2>5, NobodyTakesHold
<1> QED
    BY <1>0, <1>2, <1>3, <1>4, <1>5, InsertStreams, PublishStreams
       DEF Next, ConsumerStep, IngestLog, PublishAcked, PublishFailed, GrowOld, Append2Topic,
           ForeignMessage, FlushCommits, Rebalance, Regroup, RunRetention, KafkaRetention,
           vars, tableVars

LEMMA StreamInvariance == Spec => []StreamInv
<1>1. ASSUME Init PROVE StreamInv
  <2>1. \A l \in Logs : Holding(l) = {}
    BY <1>1 DEF Init, Holding, Holds, NoWork
  <2>2. \A l \in Logs : Cardinality(Holding(l)) = 0
    BY <2>1, FS_EmptySet
  <2> QED
    BY <1>1, <2>2 DEF Init, StreamInv
<1>2. PipelineInv /\ StreamInv /\ [Next]_vars => StreamInv'
    BY StreamNext
<1> QED
    BY <1>1, <1>2, PipelineInvariance, PTL DEF Spec

\* A live subscriber never sees a log more often than it was stored.
THEOREM StreamedAfterStored == Spec => []StreamedWasStored
<1>1. ASSUME PipelineInv, StreamInv PROVE StreamedWasStored
  <2>1. ASSUME NEW l \in Logs PROVE streamed[l] <= inserted[l]
    BY <1>1, HoldingFinite DEF StreamInv, PipelineInv, TypeOK
  <2> QED
    BY <2>1 DEF StreamedWasStored
<1> QED
    BY <1>1, PipelineInvariance, StreamInvariance, PTL

\* Redelivered and duplicated messages do not reach live subscribers again,
\* unless retention deleted the row in between.
THEOREM NoDuplicateStream == Spec => []StreamedOnce
<1>1. ASSUME PipelineInv, StreamInv PROVE StreamedOnce
  <2>1. ASSUME NEW l \in Logs PROVE streamed[l] <= purged[l] + 1
    <3>1. /\ streamed[l] \in Nat /\ inserted[l] \in Nat /\ purged[l] \in Nat
          /\ streamed[l] + Cardinality(Holding(l)) <= inserted[l]
          /\ Cardinality(Holding(l)) \in Nat
      BY <1>1, HoldingFinite DEF StreamInv, PipelineInv, TypeOK
    <3>2. inserted[l] <= purged[l] + 1
      BY <1>1, <3>1 DEF PipelineInv, RowsInv
    <3> QED
      BY <3>1, <3>2
  <2> QED
    BY <2>1 DEF StreamedOnce
<1> QED
    BY <1>1, PipelineInvariance, StreamInvariance, PTL

=============================================================================
