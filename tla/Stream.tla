-------------------------------- MODULE Stream --------------------------------
(***************************************************************************)
(* The live stream behind the pipeline: StreamServiceLogs upgrades the      *)
(* connection, subscribes to the channel of the service and forwards what   *)
(* Redis publishes, until Redis or the connection fails.  A dashboard opens *)
(* the stream and then loads the stored logs, so that between the two it    *)
(* misses as little as possible.                                           *)
(*                                                                         *)
(* One service is modelled: its id is the name of the channel.  Redis is    *)
(* external: a subscriber gets, in order, what is published while it is     *)
(* subscribed, and nothing else.                                           *)
(***************************************************************************)
EXTENDS LogPipeline

CONSTANT Subscribers

VARIABLES
    conn,     \* conn[s]: "off"; "open", upgraded; "live", subscribed; "deaf",
              \* the subscription is gone and the handler has not noticed
    inbox,    \* inbox[s]: published to s and not yet read by its handler
    frames,   \* frames[s]: sent to the client over this connection
    loaded,   \* loaded[s]: {} or the one result of the client's search
    unheard,  \* history: unheard[s]: published between upgrade and subscription
    missed    \* history: missed[s]: published while s was deaf

subVars == <<inbox, frames, loaded, unheard, missed>>
streamVars == <<conn, subVars>>

NoLogs == [s \in Subscribers |-> {}]
NoFrames == [s \in Subscribers |-> <<>>]

LiveInit ==
    /\ Init
    /\ conn = [s \in Subscribers |-> "off"]
    /\ inbox = NoFrames /\ frames = NoFrames
    /\ loaded = NoLogs /\ unheard = NoLogs /\ missed = NoLogs

\* GetService lets the user in, Redis was there when the API started, and the
\* upgrade succeeds; otherwise the answer is 403 or 503 and nothing changes.
Connect(s) ==
    /\ conn[s] = "off"
    /\ conn' = [conn EXCEPT ![s] = "open"]
    /\ UNCHANGED <<vars, subVars>>

\* Redis has processed SUBSCRIBE.  The client was told 101 before that.
Subscribe(s) ==
    /\ conn[s] = "open"
    /\ conn' = [conn EXCEPT ![s] = "live"]
    /\ UNCHANGED <<vars, subVars>>

\* The client searches the stored logs of the service.
Load(s) ==
    /\ conn[s] # "off" /\ loaded[s] = {}
    /\ loaded' = [loaded EXCEPT ![s] = {rows}]
    /\ UNCHANGED <<vars, conn, inbox, frames, unheard, missed>>

\* Mutant: a frame is sent when the next message comes in.
ForwardDelayed(s) ==
    /\ Len(inbox[s]) > 1
    /\ frames' = [frames EXCEPT ![s] = Append(@, Head(inbox[s]))]
    /\ inbox' = [inbox EXCEPT ![s] = Tail(@)]
    /\ UNCHANGED <<vars, conn, loaded, unheard, missed>>

\* One turn of the loop: ReceiveMessage, WriteMessage.
Forward(s) ==
    /\ inbox[s] # <<>>
    /\ frames' = [frames EXCEPT ![s] = Append(@, Head(inbox[s]))]
    /\ inbox' = [inbox EXCEPT ![s] = Tail(@)]
    /\ UNCHANGED <<vars, conn, loaded, unheard, missed>>

\* The handler returns: subscription and connection are closed.
Close(s) ==
    /\ conn' = [conn EXCEPT ![s] = "off"]
    /\ inbox' = [inbox EXCEPT ![s] = <<>>]
    /\ frames' = [frames EXCEPT ![s] = <<>>]
    /\ loaded' = [loaded EXCEPT ![s] = {}]
    /\ unheard' = [unheard EXCEPT ![s] = {}]
    /\ missed' = [missed EXCEPT ![s] = {}]
    /\ UNCHANGED vars

\* WriteMessage fails.  A client that went away is noticed only here: nothing
\* reads from the connection, and its request context outlives the upgrade.
WriteFails(s) == inbox[s] # <<>> /\ Close(s)

\* Redis or its connection fails.  ReceiveMessage is blocked in a read and has
\* yet to return; what Redis publishes now does not reach this handler.
LoseSubscription(s) ==
    /\ conn[s] = "live"
    /\ conn' = [conn EXCEPT ![s] = "deaf"]
    /\ UNCHANGED <<vars, subVars>>

\* Mutant: the loop goes on after an error; the next ReceiveMessage connects
\* and subscribes again.
ReceiveFailsQuietly(s) ==
    /\ conn[s] \in {"open", "deaf"}
    /\ conn' = [conn EXCEPT ![s] = "live"]
    /\ UNCHANGED <<vars, subVars>>

\* ReceiveMessage returns an error, or the API process ends: the client sees
\* the close.
ReceiveFails(s) == conn[s] \in {"open", "deaf"} /\ Close(s)

\* What a step of the pipeline publishes reaches those who are subscribed.
Broadcast ==
    \/ streamed' = streamed /\ UNCHANGED streamVars
    \/ \E l \in Logs :
          /\ streamed'[l] > streamed[l]
          /\ inbox' = [s \in Subscribers |->
                          IF conn[s] = "live" THEN Append(inbox[s], l) ELSE inbox[s]]
          /\ unheard' = [s \in Subscribers |->
                          IF conn[s] = "open" THEN unheard[s] \cup {l} ELSE unheard[s]]
          /\ missed' = [s \in Subscribers |->
                          IF conn[s] = "deaf" THEN missed[s] \cup {l} ELSE missed[s]]
          /\ UNCHANGED <<conn, frames, loaded>>

\* The handler: a read that fails returns in the end.
StreamServiceLogs(s) ==
    \/ Subscribe(s) \/ Forward(s)
    \/ conn[s] = "deaf" /\ ReceiveFails(s)

LiveNext ==
    \/ Next /\ Broadcast
    \/ \E s \in Subscribers : \/ Connect(s) \/ Load(s) \/ StreamServiceLogs(s)
                              \/ WriteFails(s) \/ LoseSubscription(s) \/ ReceiveFails(s)

\* The consumers' loops and the handlers' loops keep running; nothing has to
\* fail.
LiveSpec ==
    /\ LiveInit /\ [][LiveNext]_<<vars, streamVars>>
    /\ \A c \in Consumers : WF_vars(ConsumerStep(c))
    /\ \A s \in Subscribers : WF_streamVars(StreamServiceLogs(s))

-----------------------------------------------------------------------------
(* Properties.                                                             *)

In(seq) == {seq[i] : i \in DOMAIN seq}

\* A client that has opened the stream and then loaded the stored logs has, or
\* is about to get, every log of the table that was published each time it was
\* stored: a log is stored before it is published, and a subscription that was
\* lost is never taken up again on the same connection.  There are two holes:
\* the time between the 101 answer and the subscription, of which the client
\* knows nothing, and the time until the handler notices the loss of its
\* subscription, which the end of the connection makes known.
NothingMissed ==
    \A s \in Subscribers : \A seen \in loaded[s] : \A l \in rows :
        (conn[s] # "deaf" /\ streamed[l] = inserted[l]) =>
            l \in seen \cup In(frames[s]) \cup In(inbox[s]) \cup unheard[s]

\* What is published to a client that has subscribed goes out to it, or the
\* connection ends: a log is not held back until the next one comes, and a lost
\* subscription does not go unnoticed for ever.
DeliveredGoesOut ==
    \A s \in Subscribers : \A l \in Logs :
        l \in In(inbox[s]) \cup missed[s] ~> (l \in In(frames[s]) \/ conn[s] = "off")

\* The refinement mapping.  A log waits while a copy of it is unread.
Waiting == {l \in Logs : Unread(l)}
SettledLogs == {l \in Logs : Settled(l)}
Owed == [l \in Logs |-> inserted[l] - streamed[l]]

D == INSTANCE Delivery WITH told <- reply, waiting <- Waiting, settled <- SettledLogs,
                            table <- rows, owed <- Owed

\* Whatever Kafka, crashes and rebalances do, what a client and a reader of the
\* table see of each log is what Delivery allows: no acceptance before the log
\* is safe, no log that stops waiting unsettled, no second row, no row for a
\* log that nobody sent, no announcement without a stored row.
ImplementsDelivery == D!Spec

=============================================================================
