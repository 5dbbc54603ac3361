--------------------------- MODULE MessageChannel ---------------------------
(***************************************************************************)
(* The channel "myChannel": MessageController.Send and                     *)
(* MassTransitRabbitMqService.SendAsync in the API at one end, RabbitMQ in *)
(* the middle, the receive endpoint of MassTransit_RabbitMq_Consumer at    *)
(* the other. Each message is one call of Send.  RabbitMQ and MassTransit  *)
(* are not in the repository: their part is what the code's settings ask   *)
(* of them (a durable queue declared by the receive endpoint, publisher    *)
(* confirms, an explicit acknowledgement after Consume, MassTransit's      *)
(* <queue>_error after the last attempt).                                  *)
(*                                                                         *)
(* The queue is a set: up to PrefetchCount deliveries are consumed at once *)
(* and an interrupted one returns, so no order is left to rely on.         *)
(***************************************************************************)
EXTENDS Naturals, FiniteSets

CONSTANTS
    Messages,       \* the messages posted to MessageController.Send
    PrefetchCount,  \* unacknowledged deliveries at a time: 10 in Program.cs
    Retries,        \* attempts after the first: 2 in Program.cs
    MaxLosses       \* bound: connections lost and consumers stopped

ASSUME ChannelAssumption == /\ PrefetchCount \in Nat \ {0}
                            /\ Retries \in Nat
                            /\ MaxLosses \in Nat

VARIABLES
    api,      \* where the call of Send of each message is
    wire,     \* the messages on their way from the API to the broker
    up,       \* is the consumer process running?
    declared, \* has the receive endpoint ever declared its queue?
    queue,    \* the messages waiting in the queue
    dropped,  \* the messages the broker had no queue for
    hands,    \* the deliveries the consumer works on
    acked,    \* the messages acknowledged, which the broker has let go
    errors,   \* the messages in the error queue
    printed,  \* how often the data of each message was written
    tags,     \* the delivery tag last given
    losses    \* connections lost and consumers stopped so far

vars == <<api, wire, up, declared, queue, dropped, hands, acked, errors,
          printed, tags, losses>>

sender == <<api, wire>>
broker == <<declared, queue, dropped, tags>>
outcome == <<acked, errors, printed>>

(* A delivery: what MessageConsumer.Consume is at ("time" and "data" are   *)
(* its two writes), in which attempt, and whether the channel it came over *)
(* is still there to take its acknowledgement.                             *)
Delivery == [tag : Nat \ {0}, msg : Messages, attempt : 1 .. (Retries + 1),
             at : {"time", "data", "waiting", "failed", "done"},
             live : BOOLEAN]

TypeOK == /\ api \in [Messages -> {"idle", "sending", "sent", "failed"}]
          /\ wire \subseteq Messages
          /\ up \in BOOLEAN
          /\ declared \in BOOLEAN
          /\ queue \subseteq Messages
          /\ dropped \subseteq Messages
          /\ hands \subseteq Delivery
          /\ acked \subseteq Messages
          /\ errors \subseteq Messages
          /\ printed \in [Messages -> Nat]
          /\ tags \in Nat
          /\ losses \in 0 .. MaxLosses

Unacked == {d \in hands : d.live}

Init == /\ api = [m \in Messages |-> "idle"]
        /\ wire = {}
        /\ up = FALSE
        /\ declared = FALSE
        /\ queue = {}
        /\ dropped = {}
        /\ hands = {}
        /\ acked = {}
        /\ errors = {}
        /\ printed = [m \in Messages |-> 0]
        /\ tags = 0
        /\ losses = 0
-----------------------------------------------------------------------------
(* The API. GetSendEndpoint and Send: the message leaves.                  *)
Send(m) == /\ api[m] = "idle"
           /\ api' = [api EXCEPT ![m] = "sending"]
           /\ wire' = wire \cup {m}
           /\ UNCHANGED <<up, declared, queue, dropped, hands, outcome, tags, losses>>

(* The broker's confirm ends the await: SendAsync returns true, and the    *)
(* controller answers "Message Sent".                                      *)
Confirm(m) == /\ api[m] = "sending"
              /\ m \notin wire
              /\ api' = [api EXCEPT ![m] = "sent"]
              /\ UNCHANGED <<wire, up, broker, hands, outcome, losses>>

(* An await throws: the broker cannot be reached, or its confirm is lost   *)
(* and the message is on its way all the same. SendAsync never returns     *)
(* false: the failure leaves the controller as an exception.               *)
SendFails(m) == /\ api[m] = "sending"
                /\ api' = [api EXCEPT ![m] = "failed"]
                /\ wire' \in {wire, wire \ {m}}
                /\ UNCHANGED <<up, broker, hands, outcome, losses>>
-----------------------------------------------------------------------------
(* The broker. It confirms a message whether it has a queue for it or not. *)
Accept(m) ==
    /\ m \in wire
    /\ wire' = wire \ {m}
    /\ IF declared THEN queue' = queue \cup {m} /\ UNCHANGED dropped
                   ELSE dropped' = dropped \cup {m} /\ UNCHANGED queue
    /\ UNCHANGED <<api, up, declared, hands, outcome, tags, losses>>

Deliver(m) ==
    /\ up
    /\ m \in queue
    /\ Cardinality(Unacked) < PrefetchCount
    /\ queue' = queue \ {m}
    /\ tags' = tags + 1
    /\ hands' = hands \cup {[tag |-> tags + 1, msg |-> m, attempt |-> 1,
                             at |-> "time", live |-> TRUE]}
    /\ UNCHANGED <<sender, up, declared, dropped, outcome, losses>>
-----------------------------------------------------------------------------
(* The consumer. Starting it declares the queue and binds it.              *)
Start == /\ ~up
         /\ up' = TRUE
         /\ declared' = TRUE
         /\ UNCHANGED <<sender, queue, dropped, hands, outcome, tags, losses>>

Becomes(d, e) == hands' = (hands \ {d}) \cup {e}

WriteTime(d) ==
    /\ d.at = "time"
    /\ Becomes(d, [d EXCEPT !.at = "data"])
    /\ UNCHANGED <<sender, up, broker, outcome, losses>>

WriteData(d) ==
    /\ d.at = "data"
    /\ Becomes(d, [d EXCEPT !.at = "done"])
    /\ printed' = [printed EXCEPT ![d.msg] = @ + 1]
    /\ UNCHANGED <<sender, up, broker, acked, errors, losses>>

(* Not the code: one attempt more than Retries allows.                     *)
ThrowTooLate(d) ==
    /\ d.at \in {"time", "data"}
    /\ Becomes(d, [d EXCEPT !.at = IF d.attempt <= Retries + 1 THEN "waiting"
                                                               ELSE "failed"])
    /\ UNCHANGED <<sender, up, broker, outcome, losses>>

(* Not the code: a Consume that can still throw after its last write.      *)
ThrowAfter(d) ==
    /\ d.at \in {"time", "data", "done"}
    /\ Becomes(d, [d EXCEPT !.at = IF d.attempt <= Retries THEN "waiting"
                                                           ELSE "failed"])
    /\ UNCHANGED <<sender, up, broker, outcome, losses>>

(* Either write throws: UseMessageRetry waits for another attempt while it *)
(* has one left.                                                           *)
Throw(d) ==
    /\ d.at \in {"time", "data"}
    /\ Becomes(d, [d EXCEPT !.at = IF d.attempt <= Retries THEN "waiting"
                                                           ELSE "failed"])
    /\ UNCHANGED <<sender, up, broker, outcome, losses>>

Retry(d) ==
    /\ d.at = "waiting"
    /\ Becomes(d, [d EXCEPT !.at = "time", !.attempt = @ + 1])
    /\ UNCHANGED <<sender, up, broker, outcome, losses>>

(* Not the code: an error queue entry that is never acknowledged.          *)
MoveAndWait(d) ==
    /\ d.at = "failed"
    /\ d.msg \notin errors
    /\ errors' = errors \cup {d.msg}
    /\ UNCHANGED <<sender, up, broker, hands, acked, printed, losses>>

(* No attempt left: MassTransit moves the message to the error queue, over *)
(* the channel it came from, before it acknowledges it.                    *)
MoveToErrors(d) ==
    /\ d.at = "failed"
    /\ IF d.live THEN /\ errors' = errors \cup {d.msg}
                      /\ Becomes(d, [d EXCEPT !.at = "done"])
                 ELSE /\ hands' = hands \ {d}
                      /\ UNCHANGED errors
    /\ UNCHANGED <<sender, up, broker, acked, printed, losses>>

(* The broker knows nothing of a tag of a channel that is gone.            *)
Ack(d) ==
    /\ d.at = "done"
    /\ hands' = hands \ {d}
    /\ acked' = IF d.live THEN acked \cup {d.msg} ELSE acked
    /\ UNCHANGED <<sender, up, broker, errors, printed, losses>>

Consume(d) == \/ WriteTime(d) \/ WriteData(d) \/ Throw(d) \/ Retry(d)
              \/ MoveToErrors(d) \/ Ack(d)
-----------------------------------------------------------------------------
(* Not the code: deliveries acknowledged as they are handed over.          *)
RequeueUntouched ==
    queue' = queue \cup {d.msg : d \in {e \in Unacked : e.at = "time"}}

Requeue == queue' = queue \cup {d.msg : d \in Unacked}

(* The connection breaks and comes back: the broker takes back what was    *)
(* not acknowledged, and the consumer goes on with what it has in hand.    *)
ConnectionLost ==
    /\ up
    /\ losses < MaxLosses
    /\ losses' = losses + 1
    /\ Requeue
    /\ hands' = {[d EXCEPT !.live = FALSE] : d \in hands}
    /\ UNCHANGED <<sender, up, declared, dropped, outcome, tags>>

Stop == /\ up
        /\ losses < MaxLosses
        /\ losses' = losses + 1
        /\ up' = FALSE
        /\ Requeue
        /\ hands' = {}
        /\ UNCHANGED <<sender, declared, dropped, outcome, tags>>

Next == \/ \E m \in Messages : \/ Send(m) \/ Confirm(m) \/ SendFails(m)
                               \/ Accept(m) \/ Deliver(m)
        \/ \E d \in hands : Consume(d)
        \/ Start \/ ConnectionLost \/ Stop

Spec == Init /\ [][Next]_vars

(* The broker forwards what it holds, each message in its turn (others may *)
(* use up the prefetch count again and again, so the fairness is strong),  *)
(* and MassTransit runs each delivery to its end and waits out its retry   *)
(* intervals. Nothing in the repository starts the consumer again or makes *)
(* the clients of the API send.                                            *)
FairSpec ==
    /\ Spec
    /\ \A m \in Messages :
         /\ WF_vars(Accept(m))
         /\ SF_vars(Deliver(m))
         /\ WF_vars(\E d \in Unacked : d.msg = m /\ Consume(d))
-----------------------------------------------------------------------------
(* A message reaches an end (its data written, or the error queue) once,   *)
(* and once more at most for each time the consumer was cut off from it:   *)
(* the attempts of one delivery write the data of a message at most once,  *)
(* and never beside an entry in the error queue (Program.cs 27-28,         *)
(* MessageConsumer.Consume).                                               *)
OneEndPerLoss ==
    \A m \in Messages :
        printed[m] + (IF m \in errors THEN 1 ELSE 0) <= 1 + losses

(* The channel as its caller may rely on it.                               *)
Held == queue \cup {d.msg : d \in Unacked}

FateOf(m) == CASE m \in Held    -> "held"
               [] m \in acked   -> "over"
               [] m \in dropped -> "lost"
               [] OTHER         -> "none"

SaidOf(m) == IF api[m] \in {"sent", "failed"} THEN api[m] ELSE "nothing"

Promise == INSTANCE AtLeastOnce WITH
    open <- declared,
    said <- [m \in Messages |-> SaidOf(m)],
    fate <- [m \in Messages |-> FateOf(m)],
    seen <- {m \in Messages : printed[m] > 0},
    aside <- errors

(* MessageController's "Message Sent" means at least once: from the first  *)
(* start of the consumer on, a message is with the broker until its data   *)
(* is written or it is in the error queue, whatever is lost or stopped.    *)
AtLeastOnceKept == Promise!Spec

(* If the consumer is up again and again, every message the queue took is  *)
(* acknowledged in the end.                                                *)
EveryMessageEnds ==
    []<>up => \A m \in Messages : (m \in queue) ~> (m \in acked)
=============================================================================
