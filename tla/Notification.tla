---------------------------- MODULE Notification ----------------------------
(***************************************************************************)
(* The notification service: instances of one consumer group turn events   *)
(* into inbox messages and pushes, while people register and revoke their  *)
(* phones, switch categories and read.  The consumer commits an event      *)
(* before it handles it; the handler is a step per statement and per push, *)
(* and may fail or stop at any of them.                                    *)
(***************************************************************************)
EXTENDS NotificationRows, Integers, Sequences

CONSTANTS Consumers,       \* instances of the service
          Envelopes,       \* events on the topics: [event, type, who]
          Owners,          \* people with an access token
          RolesOf,         \* the roles in the token of each
          Phones, PushTokens,
          MaxCopies,       \* times an event may be consumed
          MaxDeviceCalls, MaxPushFaults   \* bounds on a behaviour

ASSUME NotificationAssumption ==
  /\ {MaxCopies, MaxDeviceCalls, MaxPushFaults} \subseteq Nat
  /\ RolesOf \in [Owners -> SUBSET {"user", "merchant", "admin"}]

VARIABLES topic,           \* copies of each event not consumed yet
          inbox, devices, preferences, log,
          handlers, deviceCalls, pushFaults,
          phones,          \* the push tokens each phone has had, the last one live
          \* what the properties remember
          tried,           \* pushes handed to the provider
          twice,           \* some push was handed over twice
          gaveUp,          \* messages some handler left unfinished
          steady,          \* rows active and untouched since a message was stored
          switched,        \* messages whose category was switched since they were stored
          revoked,         \* rows the owner revoked last
          refused,         \* rows deactivated although their token was live
          overtaken        \* rows registered again while a handler held them

notificationRows == <<inbox, devices, preferences, log>>
notificationGhosts == <<tried, twice, gaveUp, steady, switched, revoked, refused, overtaken>>
notificationVars ==
  <<topic, notificationRows, handlers, deviceCalls, pushFaults, phones, notificationGhosts>>

NoRow == [device |-> "none"]
Resting == [step |-> "idle", message |-> [event |-> "none"], left |-> {}, row |-> NoRow]
RequireRecipient(owner) == Recipient(RecipientType(RolesOf[owner]), owner)
Live(token) == \E p \in Phones : token = phones[p][Len(phones[p])]

NotificationInit ==
  /\ phones \in {f \in [Phones -> {<<t>> : t \in PushTokens}] :
                   \A p, q \in Phones : f[p] = f[q] => p = q}
  /\ \E known \in SUBSET (Owners \X Phones) :
       /\ \A x, y \in known : x[2] = y[2] => x = y
       /\ devices = {DeviceToken(RequireRecipient(x[1]), x[2], phones[x[2]][1]) : x \in known}
  /\ topic \in [Envelopes -> 0..MaxCopies]
  /\ inbox = {} /\ preferences = {} /\ log = {}
  /\ handlers = [c \in Consumers |-> Resting] /\ deviceCalls = 0 /\ pushFaults = 0
  /\ tried = {} /\ twice = FALSE /\ gaveUp = {} /\ steady = {} /\ switched = {}
  /\ revoked = {} /\ refused = {} /\ overtaken = {}

-----------------------------------------------------------------------------
(* The handler of an event *)

HandlerAt(c, step) == handlers[c].step = step
Proceed(c, step) == handlers' = [handlers EXCEPT ![c].step = step]
Rest(c) == handlers' = [handlers EXCEPT ![c] = Resting]
SameCalls == UNCHANGED <<deviceCalls, pushFaults, phones>>
Untouched(changed) == {s \in steady : \A d \in changed : ~SameDevice(s.row, d)}

\* A malformed event, and one of a type without a template, is passed over.
HandleEvent(c, e) ==
  /\ HandlerAt(c, "idle") /\ topic[e] > 0
  /\ topic' = [topic EXCEPT ![e] = @ - 1]
  /\ handlers' =
       IF TemplateFor(e.type) = "unknown" THEN handlers
       ELSE [handlers EXCEPT ![c] =
               [Resting EXCEPT !.step = "insert",
                               !.message = InboxMessage(e.event, e.who, TemplateFor(e.type))]]
  /\ SameCalls /\ UNCHANGED <<notificationRows, notificationGhosts>>

StoreMessage(c) ==
  LET m == handlers[c].message
      stored == InsertInbox(inbox, m)
  IN /\ HandlerAt(c, "insert")
     /\ IF Succeeds(stored)
        THEN /\ inbox' = stored.val /\ Proceed(c, "preference")
             /\ steady' = steady \cup
                  {[message |-> m, row |-> d] : d \in ListActiveTokensByRecipient(devices, m.who)}
        ELSE /\ Rest(c) /\ UNCHANGED <<inbox, steady>>
     /\ SameCalls /\ UNCHANGED <<topic, devices, preferences, log, tried, twice, gaveUp,
                                 switched, revoked, refused, overtaken>>

ReadPreference(c) ==
  LET m == handlers[c].message IN
  /\ HandlerAt(c, "preference")
  /\ Proceed(c, IF GetPreference(preferences, m.who, m.category) THEN "list" ELSE "mark")
  /\ SameCalls /\ UNCHANGED <<topic, notificationRows, notificationGhosts>>

ListDevices(c) ==
  /\ HandlerAt(c, "list")
  /\ handlers' = [handlers EXCEPT ![c].step = "send",
       ![c].left = ListActiveTokensByRecipient(devices, handlers[c].message.who)]
  /\ SameCalls /\ UNCHANGED <<topic, notificationRows, notificationGhosts>>

\* The provider's answers.  A dead token and a refusal of the service's own
\* credentials are both permanent.
Answers(token) == {"sent", "failed", "unauthorized"} \cup (IF Live(token) THEN {} ELSE {"dead"})
IsPermanent(answer) == answer \in {"dead", "unauthorized"}

Dispatch(c) == \E d \in handlers[c].left : \E answer \in Answers(d.token) :
  LET m == handlers[c].message
      push == [event |-> m.event, who |-> m.who, token |-> d.token]
  IN /\ HandlerAt(c, "send")
     /\ IF answer \in {"failed", "unauthorized"} THEN pushFaults < MaxPushFaults ELSE TRUE
     /\ pushFaults' = IF answer \in {"failed", "unauthorized"} THEN pushFaults + 1 ELSE pushFaults
     /\ handlers' = [handlers EXCEPT ![c].step = IF IsPermanent(answer) THEN "deactivate" ELSE answer,
                                     ![c].row = d, ![c].left = @ \ {d}]
     /\ tried' = tried \cup {push} /\ twice' = (twice \/ push \in tried)
     /\ UNCHANGED <<topic, notificationRows, deviceCalls, phones, gaveUp, steady, switched,
                    revoked, refused, overtaken>>

\* By the id of the row, whatever token it holds by now.  A lost statement is
\* not noticed.
Deactivate(c) ==
  LET d == handlers[c].row IN
  /\ HandlerAt(c, "deactivate") /\ Proceed(c, "dropped")
  /\ \/ /\ devices' = DeactivateDeviceToken(devices, d) /\ steady' = Untouched({d})
        /\ overtaken' = overtaken \cup {x \in devices : SameDevice(x, d) /\ x.token # d.token}
        /\ refused' = IF Live(d.token) THEN refused \cup {d} ELSE refused
        /\ UNCHANGED pushFaults
     \/ /\ pushFaults < MaxPushFaults /\ pushFaults' = pushFaults + 1
        /\ UNCHANGED <<devices, steady, overtaken, refused>>
  /\ UNCHANGED <<topic, inbox, preferences, log, deviceCalls, phones, tried, twice, gaveUp,
                 switched, revoked>>

WriteLog(c) ==
  LET h == handlers[c] IN
  /\ h.step \in {"sent", "failed", "dropped"}
  /\ \/ log' = InsertDeliveryLog(log, DeliveryLog(h.message, h.row, h.step)) /\ UNCHANGED pushFaults
     \/ pushFaults < MaxPushFaults /\ pushFaults' = pushFaults + 1 /\ UNCHANGED log
  /\ handlers' = [handlers EXCEPT ![c].step = "send", ![c].row = NoRow]
  /\ UNCHANGED <<topic, inbox, devices, preferences, deviceCalls, phones, notificationGhosts>>

MarkSent(c) ==
  /\ HandlerAt(c, "mark") \/ (HandlerAt(c, "send") /\ handlers[c].left = {})
  /\ inbox' = MarkInboxSent(inbox, handlers[c].message) /\ Rest(c)
  /\ SameCalls /\ UNCHANGED <<topic, devices, preferences, log, notificationGhosts>>

\* A statement of the handler fails, or its instance stops.
GiveUp(c) ==
  /\ ~HandlerAt(c, "idle") /\ pushFaults < MaxPushFaults
  /\ pushFaults' = pushFaults + 1 /\ Rest(c)
  /\ gaveUp' = gaveUp \cup {handlers[c].message}
  /\ UNCHANGED <<topic, notificationRows, deviceCalls, phones, tried, twice, steady, switched,
                 revoked, refused, overtaken>>

-----------------------------------------------------------------------------
(* Calls of people, one statement each *)

Calls ==
  /\ deviceCalls < MaxDeviceCalls /\ deviceCalls' = deviceCalls + 1
  /\ UNCHANGED <<topic, handlers, pushFaults, phones, log, tried, twice, gaveUp>>

\* The token is the one the phone had when it sent the request.
RegisterDevice(owner, p) == \E i \in DOMAIN phones[p] :
  LET row == DeviceToken(RequireRecipient(owner), p, phones[p][i])
      stored == UpsertDeviceToken(devices, row)
      others(rows) == {d \in rows : ~SameDevice(d, row)}
  IN /\ Calls
     /\ IF Succeeds(stored)
        THEN /\ devices' = stored.val /\ steady' = Untouched({row})
             /\ revoked' = others(revoked) /\ refused' = others(refused)
             /\ overtaken' = others(overtaken)
        ELSE UNCHANGED <<devices, steady, revoked, refused, overtaken>>
     /\ UNCHANGED <<inbox, preferences, switched>>

RevokeDevice(owner, p) ==
  LET who == RequireRecipient(owner)
      rows == {d \in devices : d.who = who /\ d.device = p}
  IN /\ Calls
     /\ devices' = DeactivateTokensByDevice(devices, who, p)
     /\ steady' = Untouched(rows) /\ revoked' = revoked \cup rows
     /\ UNCHANGED <<inbox, preferences, switched, refused, overtaken>>

SetPreference(owner, category, enabled) ==
  LET who == RequireRecipient(owner) IN
  /\ Calls /\ category \in Categories
  /\ preferences' = UpsertPreference(preferences, Preference(who, category, enabled))
  /\ switched' = switched \cup {[m EXCEPT !.status = "pending", !.read = FALSE] :
                                  m \in {x \in inbox : x.who = who /\ x.category = category}}
  /\ UNCHANGED <<inbox, devices, steady, revoked, refused, overtaken>>

MarkRead(owner, event) ==
  /\ Calls /\ inbox' = MarkInboxRead(inbox, event, RequireRecipient(owner))
  /\ UNCHANGED <<devices, preferences, steady, switched, revoked, refused, overtaken>>

\* The provider gives a phone a new token.
Renew(p) == \E token \in PushTokens :
  /\ \A q \in Phones : \A i \in DOMAIN phones[q] : phones[q][i] # token
  /\ phones' = [phones EXCEPT ![p] = Append(@, token)]
  /\ UNCHANGED <<topic, notificationRows, handlers, deviceCalls, pushFaults, notificationGhosts>>

NotificationNext ==
  \/ \E c \in Consumers :
       \/ \E e \in Envelopes : HandleEvent(c, e)
       \/ StoreMessage(c) \/ ReadPreference(c) \/ ListDevices(c) \/ Dispatch(c)
       \/ Deactivate(c) \/ WriteLog(c) \/ MarkSent(c) \/ GiveUp(c)
  \/ \E owner \in Owners :
       \/ \E p \in Phones : RegisterDevice(owner, p) \/ RevokeDevice(owner, p)
       \/ \E category \in {TemplateFor(e.type) : e \in Envelopes} :
            \E enabled \in BOOLEAN : SetPreference(owner, category, enabled)
       \/ \E m \in inbox : MarkRead(owner, m.event)
  \/ \E p \in Phones : Renew(p)

NotificationSpec == NotificationInit /\ [][NotificationNext]_notificationVars

-----------------------------------------------------------------------------
(* Properties *)

\* The shape of the state; rows keep their keys.
NotificationTypeOK ==
  /\ \A d \in devices : d.token \in PushTokens /\ d.device \in Phones /\ d.active \in BOOLEAN
  /\ \A m, n \in inbox : SameMessage(m, n) => m = n
  /\ \A m \in inbox : m.category \in Categories /\ m.status \in {"pending", "sent"}
  /\ \A p, q \in preferences : p.who = q.who /\ p.category = q.category => p = q
  /\ pushFaults \in 0..MaxPushFaults /\ deviceCalls \in 0..MaxDeviceCalls

AsStored(m) == [m EXCEPT !.status = "pending", !.read = FALSE]
AtWork(m) == \E c \in Consumers : ~HandlerAt(c, "idle") /\ ~HandlerAt(c, "insert")
                                  /\ handlers[c].message = AsStored(m)
TriedFor(m) == {t \in tried : t.event = m.event /\ t.who = m.who}

\* No push is handed over twice, however often its event is consumed.
PushedOnce == ~twice

\* A stored message is at work, marked sent, or left behind by a handler that
\* failed or stopped.
NoneForgotten ==
  \A m \in inbox : m.status = "pending" => AtWork(m) \/ AsStored(m) \in gaveUp

\* A message marked sent was tried on every phone that stayed registered since
\* it was stored, if its category was on; if it was off no phone was tried.
\* Unless the category was switched meanwhile.
SentMeansTried ==
  \A m \in inbox : AsStored(m) \notin switched =>
    IF GetPreference(preferences, m.who, m.category)
    THEN m.status = "sent" =>
           \A s \in steady : s.message = AsStored(m) =>
             \E t \in TriedFor(m) : t.token = s.row.token
    ELSE TriedFor(m) = {}

\* Pushes (notification_usecase.go): what a recipient may rely on although an
\* event is committed before it is handled, and may be consumed again.
PushesHold == PushedOnce /\ NoneForgotten /\ SentMeansTried

\* Devices (device_tokens): no token belongs to two people, and a registered
\* phone whose token is live is switched off only by its owner, by a provider
\* that refused the service itself, or by a handler that had read the row
\* before the phone registered again.
DevicesHold ==
  /\ NotificationTypeOK
  /\ \A d, e \in devices : d.token = e.token \/ SameDevice(d, e) => d = e
  /\ \A d \in devices :
       (Live(d.token) /\ ~d.active) =>
         (\E x \in revoked \cup refused \cup overtaken : SameDevice(d, x))
=============================================================================
