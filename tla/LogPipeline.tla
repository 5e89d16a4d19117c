----------------------------- MODULE LogPipeline -----------------------------
(***************************************************************************)
(* A log's way from the ingestor to Postgres and the live stream: IngestLog *)
(* publishes it to Kafka and answers 200 once Kafka has it; the consumer    *)
(* group fetches, inserts, commits the offset and publishes on Redis;       *)
(* retention deletes rows with an old timestamp.  The broker keeps messages *)
(* for six hours only, read or not.                                        *)
(*                                                                         *)
(* Kafka is external and modelled by what kafka-go and the broker do for   *)
(* this program: the writer retries, so a log may be appended more than    *)
(* once and an append may land after the caller has given up; offsets are  *)
(* committed in the background from a stash that a crash loses; a rebalance *)
(* hands a partition over at its committed offset while the old owner is   *)
(* still working on a message.                                             *)
(***************************************************************************)
EXTENDS Naturals, Sequences, FiniteSets

CONSTANTS
    Logs,         \* log entries; the ingestor gives each one a fresh uuid
    Partitions,   \* partitions of the topic
    Consumers,    \* consumer processes of the group
    MaxCopies,    \* bound: appends of one log
    MaxJunk,      \* bound: messages on the topic that are no log entry
    MaxFaults,    \* bound: crashes and rebalances
    MaxDeleted    \* bound: messages of a partition the broker deletes

Junk == {"garbage", "noid"}   \* not JSON; JSON without an id

ASSUME PipelineConstants ==
    /\ Logs \cap Junk = {}
    /\ Consumers # {} /\ IsFiniteSet(Consumers)
    /\ MaxCopies \in Nat /\ MaxJunk \in Nat /\ MaxFaults \in Nat
    /\ MaxDeleted \in Nat

VARIABLES
    reply,       \* reply[l]: what IngestLog told the client about l
    old,         \* old[l]: l's timestamp is before the retention cutoff
    topic,       \* topic[p]: all messages ever appended to partition p
    logStart,    \* logStart[p]: messages of p the broker has deleted
    committed,   \* committed[p]: messages of p before the committed offset
    owner,       \* owner[p]: the consumer that p is assigned to
    position,    \* position[p]: messages of p its owner has fetched
    stash,       \* stash[c][p]: offset c has yet to commit, 0 if none
    work,        \* work[c]: what consumer c is doing
    rows,        \* the logs table
    inserted,    \* history: times l was stored
    purged,      \* history: times retention deleted l
    streamed,    \* history: times l was published to live subscribers
    dropped,     \* history: logs whose insert failed in Postgres
    expired,     \* history: logs the broker deleted the last unread copy of,
                 \* before they were stored or refused
    faults       \* crashes and rebalances so far

brokerVars == <<logStart, expired>>
kafkaVars == <<topic, brokerVars, committed, owner, position, stash>>
tableVars == <<rows, inserted, purged, dropped>>
vars == <<reply, old, kafkaVars, work, tableVars, streamed, faults>>

Messages == Logs \cup Junk
Replies == {"none", "pending", "ok", "unavailable"}

\* The loop of cmd/consumer: at "fetch" it has no message, otherwise it is
\* working on message off of partition part.
NoWork == [pc |-> "fetch"]
Work == {NoWork} \cup [pc : {"insert", "commit", "publish"},
                       part : Partitions, off : Nat \ {0}]

Message(c) == topic[work[c].part][work[c].off]

Copies(l) == UNION {{<<p, i>> : i \in {j \in DOMAIN topic[p] : topic[p][j] = l}} :
                       p \in Partitions}
JunkOnTopic == UNION {{<<p, i>> : i \in {j \in DOMAIN topic[p] : topic[p][j] \in Junk}} :
                         p \in Partitions}

\* A copy of l is at or after the committed offset, and not among the first
\* start[p] messages of its partition, the ones that are deleted.
UnreadFrom(l, start) ==
    \E p \in Partitions : \E i \in DOMAIN topic[p] :
        topic[p][i] = l /\ i > committed[p] /\ i > start[p]
Unread(l) == UnreadFrom(l, logStart)

\* The database has answered for l at least once.
Settled(l) == inserted[l] > 0 \/ l \in dropped

Larger(m, n) == IF m > n THEN m ELSE n

Init ==
    /\ reply = [l \in Logs |-> "none"]
    /\ old = [l \in Logs |-> FALSE]
    /\ topic = [p \in Partitions |-> <<>>]
    /\ logStart = [p \in Partitions |-> 0]
    /\ expired = {}
    /\ committed = [p \in Partitions |-> 0]
    /\ owner \in [Partitions -> Consumers]
    /\ position = [p \in Partitions |-> 0]
    /\ stash = [c \in Consumers |-> [p \in Partitions |-> 0]]
    /\ work = [c \in Consumers |-> NoWork]
    /\ rows = {}
    /\ inserted = [l \in Logs |-> 0]
    /\ purged = [l \in Logs |-> 0]
    /\ streamed = [l \in Logs |-> 0]
    /\ dropped = {}
    /\ faults = 0

-----------------------------------------------------------------------------
(* The ingestor.                                                           *)

\* An authenticated, well-formed request.  The client may supply the
\* timestamp, so the log may be past retention from the start.
IngestLog(l) ==
    /\ reply[l] = "none"
    /\ reply' = [reply EXCEPT ![l] = "pending"]
    /\ \E past \in BOOLEAN : old' = [old EXCEPT ![l] = past]
    /\ UNCHANGED <<kafkaVars, work, tableVars, streamed, faults>>

\* The writer appends to a partition of its choice (the balancer ignores the
\* message key).  It retries, and goes on after the caller's context is done.
Append2Topic(l, p) ==
    /\ reply[l] # "none"
    /\ Cardinality(Copies(l)) < MaxCopies
    /\ topic' = [topic EXCEPT ![p] = Append(@, l)]
    /\ UNCHANGED <<reply, old, brokerVars, committed, owner, position, stash, work,
                   tableVars, streamed, faults>>

\* Mutant: the writer does not wait for the brokers.
PublishUnacked(l) ==
    /\ reply[l] = "pending"
    /\ reply' = [reply EXCEPT ![l] = "ok"]
    /\ UNCHANGED <<old, kafkaVars, work, tableVars, streamed, faults>>

\* All replicas have the log: 200 with its id.
PublishAcked(l) ==
    /\ reply[l] = "pending"
    /\ Copies(l) # {}
    /\ reply' = [reply EXCEPT ![l] = "ok"]
    /\ UNCHANGED <<old, kafkaVars, work, tableVars, streamed, faults>>

\* WriteMessages gave up: 503, whether or not an append took place.
PublishFailed(l) ==
    /\ reply[l] = "pending"
    /\ reply' = [reply EXCEPT ![l] = "unavailable"]
    /\ UNCHANGED <<old, kafkaVars, work, tableVars, streamed, faults>>

\* Something else writes to the topic.
ForeignMessage(j, p) ==
    /\ Cardinality(JunkOnTopic) < MaxJunk
    /\ topic' = [topic EXCEPT ![p] = Append(@, j)]
    /\ UNCHANGED <<reply, old, brokerVars, committed, owner, position, stash, work,
                   tableVars, streamed, faults>>

-----------------------------------------------------------------------------
(* The consumer's loop.                                                    *)

\* CommitMessages with a CommitInterval: remembered, sent later.
StashOffset(c, p, n) == stash' = [stash EXCEPT ![c][p] = Larger(@, n)]

\* The message the reader comes to next.  Where the broker has deleted it, the
\* reader goes on with the oldest one there is, but for what it had read ahead.
NextOffsets(p) == {position[p] + 1, Larger(position[p], logStart[p]) + 1}

\* Mutant: the offset is committed when the message is fetched.
FetchCommitting(c, p) ==
    \E n \in NextOffsets(p) :
    /\ work[c] = NoWork
    /\ owner[p] = c
    /\ n <= Len(topic[p])
    /\ position' = [position EXCEPT ![p] = n]
    /\ StashOffset(c, p, n)
    /\ work' = IF topic[p][n] \in Logs
               THEN [work EXCEPT ![c] = [pc |-> "insert", part |-> p, off |-> n]]
               ELSE work
    /\ UNCHANGED <<reply, old, topic, brokerVars, committed, owner, tableVars, streamed,
                   faults>>

\* Mutant: offsets are taken for indices that start at 0.
FetchFromZero(c, p) ==
    /\ work[c] = NoWork
    /\ owner[p] = c
    /\ position[p] < Len(topic[p])
    /\ position' = [position EXCEPT ![p] = @ + 1]
    /\ work' = [work EXCEPT ![c] = [pc |-> "insert", part |-> p, off |-> position[p]]]
    /\ UNCHANGED <<reply, old, topic, brokerVars, committed, owner, stash, tableVars,
                   streamed, faults>>

\* Mutant: a message that does not unmarshal is fetched again and again.
FetchStuck(c, p) ==
    \E n \in NextOffsets(p) :
    /\ work[c] = NoWork
    /\ owner[p] = c
    /\ n <= Len(topic[p]) /\ topic[p][n] \in Logs
    /\ position' = [position EXCEPT ![p] = n]
    /\ work' = [work EXCEPT ![c] = [pc |-> "insert", part |-> p, off |-> n]]
    /\ UNCHANGED <<reply, old, topic, brokerVars, committed, owner, stash, tableVars,
                   streamed, faults>>

\* Consumer.Fetch.  A message that does not unmarshal is an error the loop
\* sleeps on and leaves behind; one without an id is committed and skipped.
Fetch(c, p) ==
    \E n \in NextOffsets(p) :
    /\ work[c] = NoWork
    /\ owner[p] = c
    /\ n <= Len(topic[p])
    /\ position' = [position EXCEPT ![p] = n]
    /\ \/ topic[p][n] = "garbage" /\ UNCHANGED <<stash, work>>
       \/ topic[p][n] = "noid" /\ StashOffset(c, p, n) /\ UNCHANGED work
       \/ /\ topic[p][n] \in Logs
          /\ work' = [work EXCEPT ![c] = [pc |-> "insert", part |-> p, off |-> n]]
          /\ UNCHANGED stash
    /\ UNCHANGED <<reply, old, topic, brokerVars, committed, owner, tableVars, streamed,
                   faults>>

StoreRow(l) == /\ rows' = rows \cup {l}
               /\ inserted' = [inserted EXCEPT ![l] = @ + 1]

\* Mutant: ON CONFLICT DO NOTHING.
InsertLogsIgnoring(c) ==
    LET l == Message(c) IN
    /\ work[c].pc = "insert"
    /\ work' = [work EXCEPT ![c].pc = "commit"]
    /\ \/ l \notin rows /\ StoreRow(l)
       \/ l \in rows /\ UNCHANGED <<rows, inserted>>
    /\ UNCHANGED <<reply, old, kafkaVars, purged, dropped, streamed, faults>>

\* Mutant: the loop logs the error and goes on with the same message.
InsertLogsCarryingOn(c) ==
    LET l == Message(c) IN
    /\ work[c].pc = "insert"
    /\ work' = [work EXCEPT ![c].pc = "commit"]
    /\ \/ l \notin rows /\ StoreRow(l) /\ UNCHANGED dropped
       \/ dropped' = dropped \cup {l} /\ UNCHANGED <<rows, inserted>>
    /\ UNCHANGED <<reply, old, kafkaVars, purged, streamed, faults>>

\* Mutant: ON CONFLICT DO UPDATE.
InsertLogsUpserting(c) ==
    /\ work[c].pc = "insert"
    /\ work' = [work EXCEPT ![c].pc = "commit"]
    /\ StoreRow(Message(c))
    /\ UNCHANGED <<reply, old, kafkaVars, purged, dropped, streamed, faults>>

\* InsertLogs.  The primary key refuses a log that is already stored.  On any
\* error the loop backs off and goes on with the NEXT message.  The last case
\* is an insert that took effect although its reply was lost.
InsertLogs(c) ==
    LET l == Message(c) IN
    /\ work[c].pc = "insert"
    /\ \/ /\ l \notin rows /\ StoreRow(l)
          /\ work' = [work EXCEPT ![c].pc = "commit"]
          /\ UNCHANGED dropped
       \/ /\ l \in rows
          /\ work' = [work EXCEPT ![c] = NoWork]
          /\ UNCHANGED <<rows, inserted, dropped>>
       \/ /\ dropped' = dropped \cup {l}
          /\ work' = [work EXCEPT ![c] = NoWork]
          /\ UNCHANGED <<rows, inserted>>
       \/ /\ l \notin rows /\ StoreRow(l)
          /\ work' = [work EXCEPT ![c] = NoWork]
          /\ UNCHANGED dropped
    /\ UNCHANGED <<reply, old, kafkaVars, purged, streamed, faults>>

Commit(c) ==
    /\ work[c].pc = "commit"
    /\ StashOffset(c, work[c].part, work[c].off)
    /\ work' = [work EXCEPT ![c].pc = "publish"]
    /\ UNCHANGED <<reply, old, topic, brokerVars, committed, owner, position, tableVars,
                   streamed, faults>>

\* PublishLog; without Redis, or on its error, nobody hears of the log.
PublishLog(c) ==
    LET l == Message(c) IN
    /\ work[c].pc = "publish"
    /\ \/ streamed' = [streamed EXCEPT ![l] = @ + 1]
       \/ UNCHANGED streamed
    /\ work' = [work EXCEPT ![c] = NoWork]
    /\ UNCHANGED <<reply, old, kafkaVars, tableVars, faults>>

-----------------------------------------------------------------------------
(* Background work, failures and time.                                     *)

\* Once a second the reader commits what is stashed.
FlushCommits(c) ==
    /\ \E p \in Partitions : stash[c][p] > 0
    /\ committed' = [p \in Partitions |-> IF stash[c][p] > 0 THEN stash[c][p]
                                          ELSE committed[p]]
    /\ stash' = [stash EXCEPT ![c] = [p \in Partitions |-> 0]]
    /\ UNCHANGED <<reply, old, topic, brokerVars, owner, position, work, tableVars,
                   streamed, faults>>

\* What the last commits of the old generation may leave as p's offset.
LastCommits(p) == {committed[p]} \cup
                  {stash[c][p] : c \in {d \in Consumers : stash[d][p] > 0}}

\* A new generation of the group: partitions are dealt out again and read from
\* their committed offsets.  Each stashed offset was committed in time or lost.
Regroup ==
    /\ faults < MaxFaults /\ faults' = faults + 1
    /\ \E last \in [Partitions -> UNION {LastCommits(p) : p \in Partitions}] :
          /\ \A p \in Partitions : last[p] \in LastCommits(p)
          /\ committed' = last
          /\ position' = last
    /\ owner' \in [Partitions -> Consumers]
    /\ stash' = [c \in Consumers |-> [p \in Partitions |-> 0]]
    /\ UNCHANGED <<reply, old, topic, brokerVars, tableVars, streamed>>

\* A rebalance: every consumer finishes the message it is working on, and
\* stashes its offset, although the partition may be another's by then.
Rebalance == Regroup /\ UNCHANGED work

\* Consumer c dies (and restarts, or leaves its partitions to others).
Crash(c) == Regroup /\ work' = [work EXCEPT ![c] = NoWork]

\* The broker deletes the oldest message of p: six hours have passed, whether
\* or not the group has read it.
KafkaRetention(p) ==
    LET start == [logStart EXCEPT ![p] = @ + 1] IN
    /\ logStart[p] < Len(topic[p]) /\ logStart[p] < MaxDeleted
    /\ logStart' = start
    /\ expired' = expired \cup
          {l \in Logs : Unread(l) /\ ~UnreadFrom(l, start) /\ ~Settled(l)}
    /\ UNCHANGED <<reply, old, topic, committed, owner, position, stash, work, tableVars,
                   streamed, faults>>

\* DeleteOlderThan, at the consumer's start and on every tick of its timer.
RunRetention ==
    LET gone == {l \in rows : old[l]} IN
    /\ gone # {}
    /\ rows' = rows \ gone
    /\ purged' = [l \in Logs |-> IF l \in gone THEN purged[l] + 1 ELSE purged[l]]
    /\ UNCHANGED <<reply, old, kafkaVars, work, inserted, dropped, streamed, faults>>

\* Time passes and l's timestamp falls behind the cutoff.
GrowOld(l) ==
    /\ reply[l] # "none" /\ ~old[l]
    /\ old' = [old EXCEPT ![l] = TRUE]
    /\ UNCHANGED <<reply, kafkaVars, work, tableVars, streamed, faults>>

-----------------------------------------------------------------------------
ConsumerStep(c) ==
    \/ \E p \in Partitions : Fetch(c, p)
    \/ InsertLogs(c) \/ Commit(c) \/ PublishLog(c)

Next ==
    \/ \E l \in Logs : \/ IngestLog(l) \/ PublishAcked(l) \/ PublishFailed(l)
                       \/ GrowOld(l)
                       \/ \E p \in Partitions : Append2Topic(l, p)
    \/ \E j \in Junk, p \in Partitions : ForeignMessage(j, p)
    \/ \E c \in Consumers : ConsumerStep(c) \/ FlushCommits(c) \/ Crash(c)
    \/ Rebalance
    \/ \E p \in Partitions : KafkaRetention(p)
    \/ RunRetention

Spec == Init /\ [][Next]_vars

\* The consumer process keeps running its loop whenever it can move.
FairSpec == Spec /\ \A c \in Consumers : WF_vars(ConsumerStep(c))

-----------------------------------------------------------------------------
(* Properties.                                                             *)

TypeOK ==
    /\ reply \in [Logs -> Replies]
    /\ old \in [Logs -> BOOLEAN]
    /\ topic \in [Partitions -> Seq(Messages)]
    /\ logStart \in [Partitions -> Nat]
    /\ expired \in SUBSET Logs
    /\ committed \in [Partitions -> Nat]
    /\ owner \in [Partitions -> Consumers]
    /\ position \in [Partitions -> Nat]
    /\ stash \in [Consumers -> [Partitions -> Nat]]
    /\ work \in [Consumers -> Work]
    /\ rows \in SUBSET Logs
    /\ inserted \in [Logs -> Nat]
    /\ purged \in [Logs -> Nat]
    /\ streamed \in [Logs -> Nat]
    /\ dropped \in SUBSET Logs
    /\ faults \in Nat

\* A log the client was told is accepted is never silently lost by the
\* program: it has been stored, or Postgres refused it, or a copy is still at or
\* after the committed offset, where whoever owns the partition next will read
\* it, or the broker's own retention deleted it before any consumer came to it.
\* Crashes, rebalances, zombie owners and late background commits do not break
\* this.
AckedIsDurable ==
    \A l \in Logs : reply[l] = "ok" => Settled(l) \/ Unread(l) \/ l \in expired

\* The offset only moves past messages that are dealt with or that the broker
\* has deleted.
CommittedIsSettled ==
    \A p \in Partitions : \A i \in DOMAIN topic[p] :
        (logStart[p] < i /\ i <= committed[p] /\ topic[p][i] \in Logs)
            => Settled(topic[p][i])

\* Redelivery after a crash or rebalance and duplicates from the writer's
\* retries do not reach live subscribers twice: a log is published once, and
\* once more only if retention had deleted it before it was delivered again.
StreamedOnce == \A l \in Logs : streamed[l] <= purged[l] + 1

\* What a live subscriber sees was stored first, each time it sees it.
StreamedWasStored == \A l \in Logs : streamed[l] <= inserted[l]

\* An accepted log is eventually stored or refused by Postgres, unless the
\* broker deletes it first.
AckedGetsSettled == \A l \in Logs : reply[l] = "ok" ~> (Settled(l) \/ l \in expired)


=============================================================================
