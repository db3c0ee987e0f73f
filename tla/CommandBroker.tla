--------------------------- MODULE CommandBroker ---------------------------
(***************************************************************************)
(* RabbitMQ as the worker uses it (app/messaging/): the command deliveries *)
(* of one job, the worker connections and the result events it confirmed.  *)
(*                                                                         *)
(* Delivery is at least once: the sender may send the same request several *)
(* times (each a member of Delivery) and an unacknowledged delivery goes   *)
(* back to its queue when the consumer's connection is lost.  A nack never *)
(* requeues (requeue=False), so it moves the message to the dead-letter    *)
(* queue, which nobody consumes.  A prefetched message that the process    *)
(* has not started on is still "ready" here.                               *)
(***************************************************************************)
CONSTANTS
    Delivery        \* command messages about the job

VARIABLES
    delivery,       \* delivery[d]: where message d is
    connected,      \* processes whose connection is up
    published       \* result events the broker has confirmed

brokerVars == <<delivery, connected, published>>

DeliveryStatus == {"unsent", "ready", "unacked", "acked", "dead"}

BrokerInit(procs) ==
    /\ delivery = [d \in Delivery |-> "unsent"]
    /\ connected = procs
    /\ published = {}

Move(d, from, to) ==
    /\ delivery[d] = from
    /\ delivery' = [delivery EXCEPT ![d] = to]

\* the Spring side publishes a command
Send(d) == Move(d, "unsent", "ready") /\ UNCHANGED <<connected, published>>

\* on_message_callback of a consumer of the queue
Deliver(p, d) ==
    p \in connected /\ Move(d, "ready", "unacked") /\ UNCHANGED <<connected, published>>

SettleAndDrop(p, d, verdict) ==
    p \in connected /\ Move(d, "unacked", "acked") /\ UNCHANGED <<connected, published>>

\* basic_ack, and basic_nack(requeue=False) through the dead-letter exchange
Settle(p, d, verdict) ==
    /\ p \in connected
    /\ Move(d, "unacked", IF verdict = "ack" THEN "acked" ELSE "dead")
    /\ UNCHANGED <<connected, published>>

\* basic_publish on a confirm channel: the broker took and routed the event
Confirm(p, e) ==
    /\ p \in connected
    /\ published' = published \cup {e}
    /\ UNCHANGED <<delivery, connected>>

\* NackError or UnroutableError: the event went nowhere
Refuse(p) == p \in connected /\ UNCHANGED brokerVars

\* the connection of p is gone, and with it the delivery p had not settled
Disconnect(p, held) ==
    /\ p \in connected
    /\ connected' = connected \ {p}
    /\ delivery' = [d \in Delivery |-> IF d \in held THEN "ready" ELSE delivery[d]]
    /\ UNCHANGED published

=============================================================================
