----------------------------- MODULE MCDelivery -----------------------------
(* What reaches people, for TLC: pushes, chat, lists, the gateway.         *)
(* They share no state, so each behaviour is of one of them: pushes to     *)
(* phones that register meanwhile, the replay of an event to a phone that  *)
(* is registered, the map of websockets, the order of messages, requests   *)
(* to the gateway, and the lists of support.                               *)
EXTENDS Notification, Chat, Gateway, Support, TLC

CONSTANTS Ann, Shop

VARIABLE line

DeliveryRoles == (Ann :> {"user"}) @@ (Shop :> {"user", "merchant"})
Event(event, type, owner) ==
  [event |-> event, type |-> type, who |-> Recipient(RecipientType(DeliveryRoles[owner]), owner)]
DeliveryEnvelopes ==
  {Event("e1", "moneymate.wallet.transfer.completed", Ann),
   Event("e2", "moneymate.wallet.topup.completed", Ann),
   Event("e3", "moneymate.campaign.expired", Shop)}

\* Which token a phone has first makes no difference.
FirstTokens == CHOOSE f \in [Phones -> {<<t>> : t \in PushTokens}] :
                 \A p, q \in Phones : f[p] = f[q] => p = q

\* Two events of one person, and one of each of two.
EventPairs == {{"e1", "e2"}, {"e1", "e3"}}

DeliveryInit ==
  /\ NotificationInit /\ ChatInit /\ GatewayInit /\ SupportInit
  /\ line \in {"pushes", "replay", "maps", "order", "requests", "lists"}
  /\ IF line = "replay"
     THEN /\ topic = [e \in Envelopes |-> IF e.event = "e1" THEN 2 ELSE 0]
          /\ Cardinality(devices) = 1 /\ \A d \in devices : d.who.id = Ann
     ELSE /\ devices = {}
          /\ topic \in {[e \in Envelopes |-> IF e.event \in events THEN 1 ELSE 0] :
                          events \in EventPairs}
          /\ line # "pushes" => \A e \in Envelopes : e.event = "e2" => topic[e] = 0
  /\ phones = FirstTokens

\* Sizes of pages: one that is refused, and one that is not.
PageSizes == {-1, 2}

SocketStep(k) ==
  \/ \E g \in Gateways, u \in Users : Connect(k, g, u)
  \/ SetSession(k) \/ Store(k) \/ Greet(k) \/ Disconnect(k) \/ Delete(k) \/ Forget(k)

PushStep ==
  \/ \E w \in Writers : SendMessage(w)
  \/ \E g \in Gateways : PushToUser(g) \/ Collide(g)

\* Several connections of a user, and one message to them.
MapStep ==
  \/ \E k \in Sockets : SocketStep(k)
  \/ PushStep
  \/ \E g \in Gateways : StopGateway(g) \/ Miss(g)
  \/ sent = <<>> /\ \E a \in Staff, b \in Users : PostMessage(a, b)

\* One connection, and the messages of several writers.
OrderStep ==
  LET k == CHOOSE s \in Sockets : TRUE IN
  \/ SocketStep(k) /\ UNCHANGED chatFaults
  \/ PushStep
  \/ \E p \in Users \cup Staff \cup {Unknown} : Publish(k, p)
  \/ \E r \in Replicas : CreateChatMessage(r) \/ StopReplica(r)
  \/ \E a, b \in Users \cup Staff : a # b /\ (PostMessage(a, b) \/ MarkMessagesAsRead(a, b))

DeliveryNext ==
  /\ UNCHANGED line
  /\ \/ line \in {"pushes", "replay"} /\ NotificationNext /\ UNCHANGED <<chatVars, gatewayVars, supportVars>>
     \/ line = "maps" /\ MapStep /\ UNCHANGED <<notificationVars, gatewayVars, supportVars>>
     \/ line = "order" /\ OrderStep /\ UNCHANGED <<notificationVars, gatewayVars, supportVars>>
     \/ line = "requests" /\ GatewayNext /\ UNCHANGED <<notificationVars, chatVars, supportVars>>
     \/ line = "lists" /\ SupportNext /\ UNCHANGED <<notificationVars, chatVars, gatewayVars>>

DeliverySpec ==
  DeliveryInit /\ [][DeliveryNext]_<<notificationVars, chatVars, gatewayVars, supportVars, line>>

DeliverySymmetry ==
  Permutations(Consumers) \cup Permutations(Replicas) \cup Permutations(Requests)
=============================================================================
