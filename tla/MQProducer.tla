----------------------------- MODULE MQProducer -----------------------------
(***************************************************************************)
(* MQProducer::PublishConfirmed (mq_client.hpp) for the publishes of one   *)
(* message: the outbox publisher publishes a message again when no confirm *)
(* came in time.  Publishing and all callbacks run on the event thread.    *)
(* The broker answers a publish with an ack, preceded by a return when no  *)
(* queue took the message, or with a nack; _returned remembers returns by  *)
(* message id.                                                             *)
(***************************************************************************)
EXTENDS Naturals, Sequences

CONSTANTS
  Publishes,       \* the publishes of the message
  MaxLinkFaults    \* bound: channel errors

VARIABLES
  link,         \* _connected
  publish,      \* publish[k]: where it is, and what the callback was given
  routed,       \* the publishes the broker has put into the queue
  returned,     \* the message id is in _returned
  wire,         \* what the broker has sent on this channel
  overlap,      \* history: two publishes were unanswered on one channel
  linkFaults

producerVars == <<link, publish, routed, returned, wire, overlap, linkFaults>>

Event(kind, k) == [kind |-> kind, publish |-> k]

\* On the channel, without an answer yet.
Unanswered == {k \in Publishes : publish[k] \in {"sent", "taken"}}

ProducerInit ==
  /\ link = TRUE
  /\ publish = [k \in Publishes |-> "new"]
  /\ routed = {} /\ returned = FALSE /\ wire = <<>>
  /\ overlap = FALSE /\ linkFaults = 0

\* PublishConfirmed posts a command, or returns false.
PublishConfirmed(k) ==
  /\ publish[k] = "new"
  /\ publish' = [publish EXCEPT ![k] = IF link THEN "posted" ELSE "false"]
  /\ UNCHANGED <<link, routed, returned, wire, overlap, linkFaults>>

\* The command on the event thread; the connection may be gone by then.
RunCommand(k) ==
  /\ publish[k] = "posted"
  /\ publish' = [publish EXCEPT ![k] = IF link THEN "sent" ELSE "false"]
  /\ overlap' = (overlap \/ (link /\ Unanswered # {}))
  /\ UNCHANGED <<link, routed, returned, wire, linkFaults>>

\* The broker routes a publish or returns it (mandatory) ...
BrokerTakes(k) ==
  /\ link /\ publish[k] = "sent"
  /\ publish' = [publish EXCEPT ![k] = "taken"]
  /\ \/ routed' = routed \cup {k} /\ UNCHANGED wire
     \/ wire' = Append(wire, Event("return", k)) /\ UNCHANGED routed
  /\ UNCHANGED <<link, returned, overlap, linkFaults>>

\* ... and confirms it, now or later.
BrokerConfirms(k) ==
  /\ link /\ publish[k] = "taken"
  /\ \A i \in 1 .. Len(wire) : wire[i].publish # k \/ wire[i].kind = "return"
  /\ \/ wire' = Append(wire, Event("ack", k))
     \/ wire' = Append(wire, Event("nack", k))
  /\ UNCHANGED <<link, publish, routed, returned, overlap, linkFaults>>

\* An onAck that does not look at _returned.
BugAckMeans == "true"

\* onAck: success unless the message was returned.
AckMeans == IF returned THEN "false" ELSE "true"

\* The channel's onReceived, onAck and onNack.
OnEvent ==
  LET e == Head(wire)
  IN  /\ wire # <<>> /\ wire' = Tail(wire)
      /\ \/ /\ e.kind = "return" /\ returned' = TRUE /\ UNCHANGED publish
         \/ /\ e.kind = "ack"
            /\ publish' = [publish EXCEPT ![e.publish] = AckMeans]
            /\ returned' = FALSE
         \/ /\ e.kind = "nack"
            /\ publish' = [publish EXCEPT ![e.publish] = "false"]
            /\ UNCHANGED returned
      /\ UNCHANGED <<link, routed, overlap, linkFaults>>

\* A channel error: the events on the way are lost, each publish without an
\* answer gets onError or nothing, and the broker may still have routed it.
LinkFails ==
  /\ link /\ linkFaults < MaxLinkFaults
  /\ linkFaults' = linkFaults + 1
  /\ link' = FALSE /\ wire' = <<>>
  /\ \E told \in SUBSET Unanswered :
       publish' = [k \in Publishes |->
         IF k \in told THEN "false" ELSE IF k \in Unanswered THEN "lost" ELSE publish[k]]
  /\ \E more \in SUBSET {k \in Publishes : publish[k] = "sent"} : routed' = routed \cup more
  /\ UNCHANGED <<returned, overlap>>

\* ScheduleReconnect and InitializeChannel; _returned is kept.
Reconnect ==
  /\ ~link
  /\ link' = TRUE
  /\ UNCHANGED <<publish, routed, returned, wire, overlap, linkFaults>>

ProducerNext ==
  \/ \E k \in Publishes : PublishConfirmed(k) \/ RunCommand(k) \/ BrokerTakes(k) \/ BrokerConfirms(k)
  \/ OnEvent \/ LinkFails \/ Reconnect

ProducerSpec == ProducerInit /\ [][ProducerNext]_producerVars

-----------------------------------------------------------------------------
\* A callback with success means that the message is in the queue, whatever
\* returns, acks and channel errors came before, as long as the publishes of the
\* message do not overlap on one channel: _returned cannot tell them apart.
ConfirmedWasRouted ==
  ~overlap => \A k \in Publishes : publish[k] = "true" => routed # {}
=============================================================================
