-------------------------- MODULE NotificationRows --------------------------
(***************************************************************************)
(* The tables of the notification service: a row each for a phone of a     *)
(* recipient, a message in an inbox, a category switched on or off, and an *)
(* attempt to push.  Each operator is one statement; a refused one answers *)
(* with the class of its error.                                            *)
(***************************************************************************)
EXTENDS Outcomes, Integers

Categories == {"bill_due", "debt", "transfer", "merchant", "campaign", "offer", "promo", "system"}

\* The text of a message is its template's; what decides is the category.
TemplateFor(type) ==
  CASE type = "moneymate.bills.due" -> "bill_due"
    [] type \in {"moneymate.debt.created", "moneymate.debt.confirmed"} -> "debt"
    [] type \in {"moneymate.wallet.transfer.completed", "moneymate.wallet.topup.completed"} -> "transfer"
    [] type \in {"moneymate.payment.merchant.completed", "moneymate.merchant.commission.credited",
                 "moneymate.merchant.verified"} -> "merchant"
    [] type = "moneymate.campaign.created" -> "campaign"
    [] type = "moneymate.offer.redeemed" -> "offer"
    [] OTHER -> "unknown"

RecipientType(roles) == IF "merchant" \in roles THEN "merchant" ELSE "user"
Recipient(type, id) == [type |-> type, id |-> id]

-----------------------------------------------------------------------------
(* device_tokens: one row per recipient and device, no token in two rows.   *)
(* A row is never deleted, so recipient and device stand for its id.        *)

DeviceToken(who, device, token) == [who |-> who, device |-> device, token |-> token, active |-> TRUE]
SameDevice(row, other) == row.who = other.who /\ row.device = other.device

\* Not of the code: a row that is there keeps its flag.
UpsertTokenOnly(devices, row) ==
  IF \E d \in devices : d.token = row.token /\ ~SameDevice(d, row) THEN Fail("unique")
  ELSE Ok(IF \E d \in devices : SameDevice(d, row)
          THEN {IF SameDevice(d, row) THEN [d EXCEPT !.token = row.token] ELSE d : d \in devices}
          ELSE devices \cup {row})

UpsertDeviceToken(devices, row) ==
  IF \E d \in devices : d.token = row.token /\ ~SameDevice(d, row) THEN Fail("unique")
  ELSE Ok({d \in devices : ~SameDevice(d, row)} \cup {row})

ListActiveTokensByRecipient(devices, who) == {d \in devices : d.who = who /\ d.active}

DeactivateDeviceToken(devices, row) ==
  {IF SameDevice(d, row) THEN [d EXCEPT !.active = FALSE] ELSE d : d \in devices}

DeactivateTokensByDevice(devices, who, device) ==
  {IF d.who = who /\ d.device = device THEN [d EXCEPT !.active = FALSE] ELSE d : d \in devices}

-----------------------------------------------------------------------------
(* inbox: one row per event and recipient *)

InboxMessage(event, who, category) ==
  [event |-> event, who |-> who, category |-> category, status |-> "pending", read |-> FALSE]
SameMessage(row, other) == row.event = other.event /\ row.who = other.who

\* Not of the code: a message that is there is inserted again.
InsertAlways(inbox, row) == Ok({m \in inbox : ~SameMessage(m, row)} \cup {row})

\* Without a row inserted the statement returns none, which Insert reports as
\* a nil id and no error.
InsertInbox(inbox, row) ==
  IF \E m \in inbox : SameMessage(m, row) THEN Fail("no rows") ELSE Ok(inbox \cup {row})

MarkInboxSent(inbox, row) ==
  {IF SameMessage(m, row) THEN [m EXCEPT !.status = "sent"] ELSE m : m \in inbox}
GetInbox(inbox, event, who) ==
  OneRow({m \in inbox : m.event = event /\ m.who = who}, "ErrNotFound")
MarkInboxRead(inbox, event, who) ==
  {IF m.event = event /\ m.who = who THEN [m EXCEPT !.read = TRUE] ELSE m : m \in inbox}
ListInbox(inbox, who) == {m \in inbox : m.who = who}

\* The page a caller gets: the defaults of the use case, then of the query.
PageOf(page, size) ==
  LET p == IF page < 1 THEN 1 ELSE page
      s == IF size < 1 \/ size > 50 THEN 20 ELSE size
  IN [limit |-> s, offset |-> (p - 1) * s]

-----------------------------------------------------------------------------
(* preferences: a category without a row is switched on *)

Preference(who, category, enabled) == [who |-> who, category |-> category, enabled |-> enabled]
GetPreference(preferences, who, category) ==
  \A p \in preferences : p.who = who /\ p.category = category => p.enabled

UpsertPreference(preferences, row) ==
  {p \in preferences : ~(p.who = row.who /\ p.category = row.category)} \cup {row}
ListPreferences(preferences, who) == {p \in preferences : p.who = who}

-----------------------------------------------------------------------------
(* delivery_log *)

DeliveryLog(message, row, status) ==
  [event |-> message.event, who |-> message.who, device |-> row.device, status |-> status]
InsertDeliveryLog(log, row) == log \cup {row}
=============================================================================
