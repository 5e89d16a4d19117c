------------------------------- MODULE Delivery -------------------------------
(***************************************************************************)
(* What the pipeline promises about each log, without Kafka: no partitions, *)
(* offsets, copies, owners or crashes.  A log that was accepted waits until *)
(* it is settled: stored, or refused by the database; the queue it waits in *)
(* keeps it for a limited time only.  A settled log may be                  *)
(* handed out again; it is stored again only when its row is gone, and it is *)
(* announced to live subscribers at most once per time it was stored.      *)
(***************************************************************************)
EXTENDS Naturals

CONSTANT Logs

VARIABLES
    told,      \* told[l]: what the client knows about l
    waiting,   \* logs that are still going to be handed to a consumer
    expired,   \* logs that the queue gave up before they were settled
    settled,   \* logs that were stored or refused at least once
    table,     \* logs that are stored now
    owed       \* owed[l]: announcements of l that may still come

vars == <<told, waiting, expired, settled, table, owed>>

\* A consumer may have an expired log in hand.
Known == waiting \cup expired \cup settled

Init ==
    /\ told = [l \in Logs |-> "none"]
    /\ waiting = {} /\ expired = {} /\ settled = {} /\ table = {}
    /\ owed = [l \in Logs |-> 0]

Tell(l, answer) ==
    /\ told' = [told EXCEPT ![l] = answer]
    /\ UNCHANGED <<waiting, expired, settled, table, owed>>

Offer(l) == told[l] = "none" /\ Tell(l, "pending")

Enqueue(l) ==
    /\ told[l] # "none"
    /\ waiting' = waiting \cup {l}
    /\ UNCHANGED <<told, expired, settled, table, owed>>

Accept(l) == told[l] = "pending" /\ l \in Known /\ Tell(l, "ok")

TurnAway(l) == told[l] = "pending" /\ Tell(l, "unavailable")

Store(l) ==
    /\ l \in Known \ table
    /\ table' = table \cup {l}
    /\ settled' = settled \cup {l}
    /\ owed' = [owed EXCEPT ![l] = @ + 1]
    /\ UNCHANGED <<told, waiting, expired>>

Refuse(l) ==
    /\ l \in Known
    /\ settled' = settled \cup {l}
    /\ UNCHANGED <<told, waiting, expired, table, owed>>

\* The queue gives up a log that nobody has settled.
Expire(l) ==
    /\ l \in waiting \ settled
    /\ waiting' = waiting \ {l}
    /\ expired' = expired \cup {l}
    /\ UNCHANGED <<told, settled, table, owed>>

\* Settled logs are done with, or come back for another delivery.
Move ==
    /\ waiting' \in {W \in SUBSET (waiting \cup settled) : waiting \ W \subseteq settled}
    /\ UNCHANGED <<told, expired, settled, table, owed>>

Purge ==
    /\ table' \in SUBSET table
    /\ UNCHANGED <<told, waiting, expired, settled, owed>>

Announce(l) ==
    /\ owed[l] > 0
    /\ owed' = [owed EXCEPT ![l] = @ - 1]
    /\ UNCHANGED <<told, waiting, expired, settled, table>>

Next ==
    \/ \E l \in Logs : \/ Offer(l) \/ Enqueue(l) \/ Accept(l) \/ TurnAway(l)
                       \/ Expire(l) \/ Store(l) \/ Refuse(l) \/ Announce(l)
    \/ Move \/ Purge

Spec == Init /\ [][Next]_vars

=============================================================================
