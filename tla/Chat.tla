-------------------------------- MODULE Chat --------------------------------
(***************************************************************************)
(* Live chat: gateways hold the websockets of people in a map by user,     *)
(* support replicas store messages, and both listen to a channel of redis  *)
(* that keeps nothing.  A message of a websocket goes to every replica of  *)
(* support; what one of them has stored goes to every gateway, which       *)
(* pushes it to the receiver and then to the sender where the map has      *)
(* them.  A handler is a step per command and per write.                   *)
(***************************************************************************)
EXTENDS Integers, Sequences, FiniteSets

CONSTANTS Gateways, Replicas,  \* processes of the gateway and of support
          Sockets,             \* websockets that may be opened
          Users, Staff,        \* who may chat; only users can open a websocket
          Unknown,             \* what an id that is no uuid is stored as
          MaxMessages, MaxChatFaults   \* bounds on a behaviour

None == "none"

ASSUME ChatAssumption ==
  /\ {MaxMessages, MaxChatFaults} \subseteq Nat
  /\ None \notin Sockets \cup Gateways /\ "http" \notin Replicas
  /\ Unknown \notin Users \cup Staff /\ Users \cap Staff = {}

VARIABLES sockets,       \* the handler of each websocket
          connections,   \* per gateway, the map from users to websockets
          sessions,      \* session keys in redis
          incoming,      \* per replica, messages on incoming_ws_messages
          storing,       \* per replica, and for POST, the row inserted and not published
          published,     \* per gateway, rows on chat_messages
          pushing,       \* per gateway, whom the first of them goes to next
          messages,      \* rows of chat_messages
          sent,          \* messages sent so far, in order
          chatFaults,
          \* what the properties remember
          received,      \* per websocket, the rows written to it
          due,           \* rows published while a websocket was open in the map
          cut,           \* websockets whose entry another connection took or deleted
          stranded,      \* websockets that ended without the deferred cleanup
          unset          \* users whose session key an earlier end or a fault deleted

chatVars == <<sockets, connections, sessions, incoming, storing, published, pushing, messages,
              sent, chatFaults, received, due, cut, stranded, unset>>

Unused == [step |-> "unused", user |-> None, at |-> None]
NotStoring == [id |-> 0]
Writers == Replicas \cup {"http"}

ChatInit ==
  /\ sockets = [k \in Sockets |-> Unused]
  /\ connections = [g \in Gateways |-> [u \in Users |-> None]] /\ sessions = {}
  /\ incoming = [r \in Replicas |-> <<>>] /\ storing = [w \in Writers |-> NotStoring]
  /\ published = [g \in Gateways |-> <<>>] /\ pushing = [g \in Gateways |-> "receiver"]
  /\ messages = {} /\ sent = <<>> /\ chatFaults = 0
  /\ received = [k \in Sockets |-> <<>>] /\ due = {} /\ cut = {} /\ stranded = {} /\ unset = {}

-----------------------------------------------------------------------------
(* The handler of a websocket *)

SocketAt(k, step) == sockets[k].step = step
SocketTo(k, step) == sockets' = [sockets EXCEPT ![k].step = step]
Sharing(k) == {j \in Sockets \ {k} : /\ sockets[j].user = sockets[k].user
                                     /\ sockets[j].step \in {"store", "greet", "open"}}
NoTraffic ==
  UNCHANGED <<incoming, storing, published, pushing, messages, sent, received, stranded>>
NoFault == UNCHANGED chatFaults
Fault == chatFaults < MaxChatFaults /\ chatFaults' = chatFaults + 1

\* VerifyAccessToken looks the person up among the users.
Connect(k, g, u) ==
  /\ SocketAt(k, "unused") /\ u \in Users
  /\ sockets' = [sockets EXCEPT ![k] = [step |-> "session", user |-> u, at |-> g]]
  /\ UNCHANGED <<connections, sessions, due, cut, unset>> /\ NoFault /\ NoTraffic

SetSession(k) ==
  /\ SocketAt(k, "session") /\ SocketTo(k, "store")
  /\ \/ /\ sessions' = sessions \cup {sockets[k].user} /\ unset' = unset \ {sockets[k].user}
        /\ NoFault
     \/ /\ Fault /\ unset' = unset \cup {sockets[k].user} /\ UNCHANGED sessions
  /\ UNCHANGED <<connections, due, cut>> /\ NoTraffic

EntryOf(k) == connections[sockets[k].at][sockets[k].user]
CutOff(k) == cut' = cut \cup ({EntryOf(k)} \ {k, None})

Store(k) ==
  /\ SocketAt(k, "store") /\ SocketTo(k, "greet") /\ CutOff(k)
  /\ connections' = [connections EXCEPT ![sockets[k].at][sockets[k].user] = k]
  /\ due' = {d \in due : d.socket # EntryOf(k)}
  /\ UNCHANGED <<sessions, unset>> /\ NoFault /\ NoTraffic

Greet(k) ==
  /\ SocketAt(k, "greet") /\ SocketTo(k, "open")
  /\ UNCHANGED <<connections, sessions, due, cut, unset>> /\ NoFault /\ NoTraffic

\* The read loop ends, whoever closed the connection.
Disconnect(k) ==
  /\ SocketAt(k, "open") /\ SocketTo(k, "delete")
  /\ due' = {d \in due : d.socket # k}
  /\ UNCHANGED <<connections, sessions, cut, unset>> /\ NoFault /\ NoTraffic

\* Not of the code: the entry stays.
DeleteNothing(k) ==
  /\ SocketAt(k, "delete") /\ SocketTo(k, "forget")
  /\ UNCHANGED <<connections, sessions, due, cut, unset>> /\ NoFault /\ NoTraffic

\* By the user, whichever connection the entry is.
Delete(k) ==
  /\ SocketAt(k, "delete") /\ SocketTo(k, "forget") /\ CutOff(k)
  /\ connections' = [connections EXCEPT ![sockets[k].at][sockets[k].user] = None]
  /\ due' = {d \in due : d.socket # EntryOf(k)}
  /\ UNCHANGED <<sessions, unset>> /\ NoFault /\ NoTraffic

Forget(k) ==
  /\ SocketAt(k, "forget") /\ SocketTo(k, "closed")
  /\ \/ sessions' = sessions \ {sockets[k].user} /\ NoFault
     \/ Fault /\ UNCHANGED sessions
  /\ unset' = unset \cup {sockets[j].user : j \in Sharing(k)}
  /\ UNCHANGED <<connections, due, cut>> /\ NoTraffic

-----------------------------------------------------------------------------
(* Messages *)

Message(sender, receiver, socket) ==
  [id |-> Len(sent) + 1, sender |-> sender, receiver |-> receiver, socket |-> socket]
Queued(queues, item) == [q \in DOMAIN queues |-> Append(queues[q], item)]
Row(m, by) == [m |-> m, id |-> Cardinality(messages) + 1, by |-> by, read |-> FALSE]
OpenFor(row) ==
  {[row |-> row.id, socket |-> k] :
     k \in {j \in Sockets : /\ SocketAt(j, "open") /\ EntryOf(j) = j
                            /\ sockets[j].user \in {row.m.sender, row.m.receiver}}}
NoSockets == UNCHANGED <<sockets, connections, sessions, cut, stranded, unset>>

\* To every replica that listens, or to none when redis fails.
Publish(k, receiver) ==
  LET m == Message(sockets[k].user, receiver, k) IN
  /\ SocketAt(k, "open") /\ Len(sent) < MaxMessages
  /\ sent' = Append(sent, m)
  /\ \/ incoming' = Queued(incoming, m) /\ NoFault
     \/ Fault /\ UNCHANGED incoming
  /\ NoSockets /\ UNCHANGED <<storing, published, pushing, messages, received, due>>

\* What StartRedisSubscriber does with a message; an insert that fails is logged.
CreateChatMessage(r) ==
  LET row == Row(Head(incoming[r]), r) IN
  /\ incoming[r] # <<>> /\ storing[r] = NotStoring
  /\ incoming' = [incoming EXCEPT ![r] = Tail(@)]
  /\ \/ /\ messages' = messages \cup {row} /\ storing' = [storing EXCEPT ![r] = row] /\ NoFault
     \/ Fault /\ UNCHANGED <<messages, storing>>
  /\ NoSockets /\ UNCHANGED <<published, pushing, sent, received, due>>

SendMessage(w) ==
  LET row == storing[w] IN
  /\ row # NotStoring /\ storing' = [storing EXCEPT ![w] = NotStoring]
  /\ \/ published' = Queued(published, row) /\ due' = due \cup OpenFor(row) /\ NoFault
     \/ Fault /\ UNCHANGED <<published, due>>
  /\ NoSockets /\ UNCHANGED <<incoming, pushing, messages, sent, received>>

\* POST /chat/send, one call at a time; ids that are no uuid are refused.
PostMessage(sender, receiver) ==
  LET row == Row(Message(sender, receiver, None), "http") IN
  /\ storing["http"] = NotStoring /\ Len(sent) < MaxMessages
  /\ sent' = Append(sent, row.m)
  /\ messages' = messages \cup {row} /\ storing' = [storing EXCEPT !["http"] = row]
  /\ NoSockets /\ NoFault /\ UNCHANGED <<incoming, published, pushing, received, due>>

MarkMessagesAsRead(sender, receiver) ==
  /\ \E row \in messages : row.m.sender = sender /\ row.m.receiver = receiver /\ ~row.read
  /\ messages' = {IF row.m.sender = sender /\ row.m.receiver = receiver
                  THEN [row EXCEPT !.read = TRUE] ELSE row : row \in messages}
  /\ NoSockets /\ NoFault /\ UNCHANGED <<incoming, storing, published, pushing, sent, received, due>>

\* The messages of two people, and the last one of a person with each other one.
GetChatHistory(a, b) == {row \in messages : {row.m.sender, row.m.receiver} = {a, b}}
Partner(row, a) == IF row.m.sender = a THEN row.m.receiver ELSE row.m.sender
GetAdminChatHistory(a) ==
  LET own == {row \in messages : a \in {row.m.sender, row.m.receiver}} IN
  {row \in own : \A x \in own : Partner(x, a) = Partner(row, a) => x.id <= row.id}

\* The first of the published rows, to the receiver and then to the sender.  A
\* write to a connection that has ended fails and is ignored.
Addressee(g, row) == IF pushing[g] = "receiver" THEN row.m.receiver ELSE row.m.sender
Onward(g) ==
  IF pushing[g] = "receiver"
  THEN pushing' = [pushing EXCEPT ![g] = "sender"] /\ UNCHANGED published
  ELSE /\ pushing' = [pushing EXCEPT ![g] = "receiver"]
       /\ published' = [published EXCEPT ![g] = Tail(@)]
TargetOf(g, row) ==
  IF Addressee(g, row) \in Users THEN connections[g][Addressee(g, row)] ELSE None

PushToUser(g) ==
  LET row == Head(published[g]) IN
  /\ published[g] # <<>>
  /\ LET k == TargetOf(g, row) IN
       received' = IF k # None /\ sockets[k].step \in {"greet", "open"}
                   THEN [received EXCEPT ![k] = Append(@, row)] ELSE received
  /\ Onward(g)
  /\ NoSockets /\ NoFault /\ UNCHANGED <<incoming, storing, messages, sent, due>>

-----------------------------------------------------------------------------
(* Faults *)

\* The gateway stops, or starts again: its connections and its queue are gone.
Stops(g) ==
  /\ sockets' = [k \in Sockets |-> IF sockets[k].at = g THEN [sockets[k] EXCEPT !.step = "closed"]
                                   ELSE sockets[k]]
  /\ connections' = [connections EXCEPT ![g] = [u \in Users |-> None]]
  /\ published' = [published EXCEPT ![g] = <<>>] /\ pushing' = [pushing EXCEPT ![g] = "receiver"]
  /\ due' = {d \in due : sockets[d.socket].at # g}
  /\ UNCHANGED <<sessions, incoming, storing, messages, sent, received, cut, stranded, unset>>

StopGateway(g) == Fault /\ Stops(g)

\* Two goroutines write to one connection: the subscriber, and the handler that
\* greets it.  The one that finds the other panics; nothing recovers the
\* subscriber's panic, the handler's ends its connection before the cleanup is
\* deferred, so that its entry and its session key stay.
Collide(g) ==
  /\ published[g] # <<>>
  /\ LET k == TargetOf(g, Head(published[g])) IN
     /\ k # None /\ SocketAt(k, "greet") /\ NoFault
     /\ \/ Stops(g)
        \/ /\ SocketTo(k, "closed") /\ stranded' = stranded \cup {k}
           /\ UNCHANGED <<connections, sessions, due, cut, unset, incoming, storing, published,
                           pushing, messages, sent, received>>

\* What a replica had heard and not answered is lost with it.
StopReplica(r) ==
  /\ Fault /\ (incoming[r] # <<>> \/ storing[r] # NotStoring)
  /\ incoming' = [incoming EXCEPT ![r] = <<>>] /\ storing' = [storing EXCEPT ![r] = NotStoring]
  /\ NoSockets /\ UNCHANGED <<published, pushing, messages, sent, received, due>>

\* A gateway that does not listen for a while misses a row.
Miss(g) ==
  /\ Fault /\ published[g] # <<>> /\ pushing[g] = "receiver"
  /\ published' = [published EXCEPT ![g] = Tail(@)]
  /\ due' = {d \in due : d.row # Head(published[g]).id}
  /\ NoSockets /\ UNCHANGED <<incoming, storing, pushing, messages, sent, received>>

ChatNext ==
  \/ \E k \in Sockets :
       \/ \E g \in Gateways, u \in Users : Connect(k, g, u)
       \/ SetSession(k) \/ Store(k) \/ Greet(k) \/ Disconnect(k) \/ Delete(k) \/ Forget(k)
       \/ \E p \in Users \cup Staff \cup {Unknown} : Publish(k, p)
  \/ \E r \in Replicas : CreateChatMessage(r) \/ StopReplica(r)
  \/ \E w \in Writers : SendMessage(w)
  \/ \E a, b \in Users \cup Staff : PostMessage(a, b) \/ MarkMessagesAsRead(a, b)
  \/ \E g \in Gateways : PushToUser(g) \/ StopGateway(g) \/ Collide(g) \/ Miss(g)

ChatSpec == ChatInit /\ [][ChatNext]_chatVars

-----------------------------------------------------------------------------
(* Properties *)

\* The shape of the state; rows keep their keys.
ChatTypeOK ==
  /\ \A k \in Sockets : sockets[k].step \in {"unused", "session", "store", "greet", "open",
                                            "delete", "forget", "closed"}
  /\ sessions \subseteq Users /\ Len(sent) <= MaxMessages
  /\ \A x, y \in messages : x.id = y.id => x = y
  /\ \A w \in Writers : storing[w] # NotStoring =>
       \E row \in messages : row.id = storing[w].id

Reached(k) == sockets[k].step \in {"greet", "open"}

\* An entry of the map is a connection of that user at that gateway which has
\* not passed its own Delete, or one that never came to it.
EntriesAreLive ==
  \A g \in Gateways, u \in Users : LET k == connections[g][u] IN
    k # None => /\ sockets[k].user = u /\ sockets[k].at = g
                /\ sockets[k].step \in {"greet", "open", "delete"} \/ k \in stranded

\* A connection that runs is in the map, unless another one of its user took
\* or deleted the entry.
RunningIsInMap ==
  \A k \in Sockets : Reached(k) =>
    \/ EntryOf(k) = k
    \/ /\ k \in cut
       /\ \E j \in Sockets \ {k} : /\ sockets[j].user = sockets[k].user
                                   /\ sockets[j].at = sockets[k].at
                                   /\ sockets[j].step \in {"greet", "open", "delete", "forget", "closed"}

\* Its session key is set, unless the end of another one deleted it.
RunningHasSession ==
  \A k \in Sockets : Reached(k) => sockets[k].user \in sessions \cup unset

\* What is pushed is stored, to one of the two people it is for; a message is
\* stored once by each replica at most.
PushedIsStored ==
  /\ \A k \in Sockets : \A i \in DOMAIN received[k] :
       /\ \E row \in messages : row.id = received[k][i].id /\ row.m = received[k][i].m
       /\ sockets[k].user \in {received[k][i].m.sender, received[k][i].m.receiver}
  /\ \A x, y \in messages : x.m = y.m /\ x.by = y.by => x = y

\* A row published while a connection was open and in the map reaches it, as
\* long as the connection stays there and its gateway misses nothing.
DueArrives ==
  \A d \in due :
    \/ \E i \in DOMAIN received[d.socket] : received[d.socket][i].id = d.row
    \/ \E i \in DOMAIN published[sockets[d.socket].at] :
         published[sockets[d.socket].at][i].id = d.row

\* Rows one replica stored for one websocket arrive in the order they were sent.
InOrder ==
  \A k \in Sockets : \A i, j \in DOMAIN received[k] :
    LET x == received[k][i]  y == received[k][j] IN
    i < j /\ x.m.socket = y.m.socket /\ x.m.socket # None /\ x.by = y.by => x.m.id <= y.m.id

\* Chat (hub.go, support app.go): what a person who chats may rely on across
\* the two channels, with several connections of one user and processes that
\* stop.
ChatHolds ==
  /\ ChatTypeOK
  /\ EntriesAreLive /\ RunningIsInMap /\ RunningHasSession
  /\ PushedIsStored /\ DueArrives /\ InOrder
=============================================================================
