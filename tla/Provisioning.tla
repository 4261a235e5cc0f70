---------------------------- MODULE Provisioning ----------------------------
(***************************************************************************)
(* From a registration in the auth service to a wallet in the payment      *)
(* service.  Register writes the user and a "user.registered" event in one *)
(* database transaction; the outbox publisher of every auth replica polls  *)
(* the table and writes the events to Kafka; the consumer of every payment *)
(* replica reads them and creates the wallet.                              *)
(*                                                                         *)
(* A user is named by the request that created it (the code draws a fresh  *)
(* UUID per request).  The phone, a third unique column of auth.users, is  *)
(* left out: it is refused in the same places as the handle.  Partitions   *)
(* are named by the consumer that reads them.                              *)
(***************************************************************************)
EXTENDS Naturals, FiniteSets

CONSTANTS Requests,     \* calls of Register
          Emails,
          Handles,      \* what generateHandle may draw
          Publishers,   \* auth replicas
          Consumers,    \* payment replicas, one partition each
          MaxFaults,    \* bound on crashes and failed calls
          None

ASSUME ProvisioningAssumption ==
  /\ MaxFaults \in Nat
  /\ None \notin Requests \cup Emails \cup Handles

VARIABLES verified,   \* e-mails with a "verified" key in redis
          reg,        \* the Register calls
          users,      \* auth.users
          outbox,     \* auth.outbox_events, by user
          pub,        \* the publishers' batches
          lag,        \* unread copies of an event, by partition
          hand,       \* the event a consumer is handling
          wallets,    \* payment.accounts of type wallet
          dropped,    \* users an event of whom was lost while being handled
          faults

authVars == <<verified, reg, users>>
topicVars == <<lag, hand>>
vars == <<verified, reg, users, outbox, pub, lag, hand, wallets, dropped, faults>>

Call(phase, e, h) == [phase |-> phase, email |-> e, handle |-> h]
NoCall == Call("idle", None, None)
IdlePublisher == [batch |-> {}, marking |-> None]
IdleConsumer == [phase |-> "idle", user |-> None]

Init ==
  /\ verified = {}
  /\ reg = [r \in Requests |-> NoCall]
  /\ users = {}
  /\ outbox = [r \in Requests |-> "none"]
  /\ pub = [p \in Publishers |-> IdlePublisher]
  /\ lag = [c \in Consumers |-> [r \in Requests |-> 0]]
  /\ hand = [c \in Consumers |-> IdleConsumer]
  /\ wallets = {}
  /\ dropped = {}
  /\ faults = 0

\* A fault happens, within the bound.
Fault == faults < MaxFaults /\ faults' = faults + 1

EmailTaken(e) == \E u \in users : u.email = e
HandleTaken(h) == \E u \in users : u.handle = h
HandleOf(r) == (CHOOSE u \in users : u.id = r).handle
Wallet(r) == [id |-> Cardinality(wallets) + 1, user |-> r, handle |-> HandleOf(r)]
HasWallet(r) == \E w \in wallets : w.user = r
Registered(r) == \E u \in users : u.id = r

-----------------------------------------------------------------------------
(* Auth: the verified key and Register *)

\* The answer of a call; it forgets its arguments.
Answer(r, phase) == reg' = [reg EXCEPT ![r] = Call(phase, None, None)]

\* Calls that may still want a key: bounds the keys VerifyRegistrationOTP sets.
Unverified == {r \in Requests : reg[r].phase \in {"idle", "checked"}}

\* VerifyRegistrationOTP accepts a code.  The e-mail had no account when the
\* code was sent, but may have one by now.
MarkEmailVerified(e) ==
  /\ e \notin verified
  /\ Cardinality(verified) < Cardinality(Unverified)
  /\ verified' = verified \cup {e}
  /\ UNCHANGED <<reg, users, outbox, pub, topicVars, wallets, dropped, faults>>

\* The key's time to live ends.
ExpireVerified(e) ==
  /\ e \in verified
  /\ verified' = verified \ {e}
  /\ UNCHANGED <<reg, users, outbox, pub, topicVars, wallets, dropped, faults>>

\* The e-mail is looked up before anything is consumed.
CheckUnique(r, e) ==
  /\ reg[r].phase = "idle"
  /\ IF EmailTaken(e) THEN Answer(r, "refused")
     ELSE reg' = [reg EXCEPT ![r] = Call("checked", e, None)]
  /\ UNCHANGED <<verified, users, outbox, pub, topicVars, wallets, dropped, faults>>

\* GETDEL of the key: of two calls at most one finds it.
ConsumeVerified(r) ==
  /\ reg[r].phase = "checked"
  /\ IF reg[r].email \in verified THEN reg' = [reg EXCEPT ![r].phase = "verified"]
     ELSE Answer(r, "refused")
  /\ verified' = verified \ {reg[r].email}
  /\ UNCHANGED <<users, outbox, pub, topicVars, wallets, dropped, faults>>

\* A candidate that no user has now, or an error after five attempts.
GenerateHandle(r) ==
  /\ reg[r].phase = "verified"
  /\ \/ \E h \in Handles :
          /\ ~HandleTaken(h)
          /\ reg' = [reg EXCEPT ![r] = Call("named", @.email, h)]
     \/ /\ \E h \in Handles : HandleTaken(h)
        /\ Answer(r, "refused")
  /\ UNCHANGED <<verified, users, outbox, pub, topicVars, wallets, dropped, faults>>

\* Variant: no unique index on the handle.
CommitAnyHandle(r) ==
  LET taken == EmailTaken(reg[r].email) IN
  /\ reg[r].phase = "named"
  /\ Answer(r, IF taken THEN "refused" ELSE "done")
  /\ users' = IF taken THEN users
              ELSE users \cup {[id |-> r, email |-> reg[r].email, handle |-> reg[r].handle]}
  /\ outbox' = IF taken THEN outbox ELSE [outbox EXCEPT ![r] = "pending"]
  /\ UNCHANGED <<verified, pub, topicVars, wallets, dropped, faults>>

\* Variant: the event is written after the transaction, and may fail alone.
CommitWithoutEvent(r) ==
  LET taken == EmailTaken(reg[r].email) \/ HandleTaken(reg[r].handle) IN
  /\ reg[r].phase = "named"
  /\ Answer(r, IF taken THEN "refused" ELSE "done")
  /\ users' = IF taken THEN users
              ELSE users \cup {[id |-> r, email |-> reg[r].email, handle |-> reg[r].handle]}
  /\ outbox' \in IF taken THEN {outbox} ELSE {outbox, [outbox EXCEPT ![r] = "pending"]}
  /\ UNCHANGED <<verified, pub, topicVars, wallets, dropped, faults>>

\* The transaction: user row and event, or neither when a unique column is
\* taken by now.
CommitUser(r) ==
  LET taken == EmailTaken(reg[r].email) \/ HandleTaken(reg[r].handle) IN
  /\ reg[r].phase = "named"
  /\ Answer(r, IF taken THEN "refused" ELSE "done")
  /\ users' = IF taken THEN users
              ELSE users \cup {[id |-> r, email |-> reg[r].email, handle |-> reg[r].handle]}
  /\ outbox' = IF taken THEN outbox ELSE [outbox EXCEPT ![r] = "pending"]
  /\ UNCHANGED <<verified, pub, topicVars, wallets, dropped, faults>>

\* A query fails, or the process ends, in the middle of a call.
FailRegister(r) ==
  /\ Fault
  /\ reg[r].phase \in {"checked", "verified", "named"}
  /\ Answer(r, "refused")
  /\ UNCHANGED <<verified, users, outbox, pub, topicVars, wallets, dropped>>

-----------------------------------------------------------------------------
(* Auth: the outbox publisher *)

\* A tick: the unpublished events are read into the batch.
FetchUnpublished(p) ==
  /\ pub[p] = IdlePublisher
  /\ \E r \in Requests : outbox[r] = "pending"
  /\ pub' = [pub EXCEPT ![p].batch = {r \in Requests : outbox[r] = "pending"}]
  /\ UNCHANGED <<authVars, outbox, topicVars, wallets, dropped, faults>>

\* The broker acknowledges; the event is in one partition.
Publish(p, r, c) ==
  /\ pub[p].marking = None /\ r \in pub[p].batch
  /\ lag' = [lag EXCEPT ![c][r] = @ + 1]
  /\ pub' = [pub EXCEPT ![p] = [batch |-> @.batch \ {r}, marking |-> r]]
  /\ UNCHANGED <<authVars, outbox, hand, wallets, dropped, faults>>

\* Variant: the error is logged, and the event is marked all the same.
PublishFailsMarking(p, r) ==
  /\ Fault
  /\ pub[p].marking = None /\ r \in pub[p].batch
  /\ pub' = [pub EXCEPT ![p] = [batch |-> @.batch \ {r}, marking |-> r]]
  /\ UNCHANGED <<authVars, outbox, topicVars, wallets, dropped>>

\* The call returns an error, whether or not the broker has the event:
\* "leave unpublished, retry next tick".
PublishFails(p, r) ==
  /\ Fault
  /\ pub[p].marking = None /\ r \in pub[p].batch
  /\ pub' = [pub EXCEPT ![p].batch = @ \ {r}]
  /\ \/ UNCHANGED lag
     \/ \E c \in Consumers : lag' = [lag EXCEPT ![c][r] = @ + 1]
  /\ UNCHANGED <<authVars, outbox, hand, wallets, dropped>>

MarkPublished(p) ==
  /\ pub[p].marking # None
  /\ outbox' = [outbox EXCEPT ![pub[p].marking] = "published"]
  /\ pub' = [pub EXCEPT ![p].marking = None]
  /\ UNCHANGED <<authVars, topicVars, wallets, dropped, faults>>

\* The update fails: the event stays unpublished and will be sent again.
MarkFails(p) ==
  /\ Fault
  /\ pub[p].marking # None
  /\ pub' = [pub EXCEPT ![p].marking = None]
  /\ UNCHANGED <<authVars, outbox, topicVars, wallets, dropped>>

CrashPublisher(p) ==
  /\ Fault
  /\ pub[p] # IdlePublisher
  /\ pub' = [pub EXCEPT ![p] = IdlePublisher]
  /\ UNCHANGED <<authVars, outbox, topicVars, wallets, dropped>>

-----------------------------------------------------------------------------
(* Payment: the consumer and CreateWallet *)

\* ReadMessage of a consumer group commits the offset before it returns.
ReadMessage(c, r) ==
  /\ hand[c].phase = "idle" /\ lag[c][r] > 0
  /\ lag' = [lag EXCEPT ![c][r] = @ - 1]
  /\ hand' = [hand EXCEPT ![c] = [phase |-> "read", user |-> r]]
  /\ UNCHANGED <<authVars, outbox, pub, wallets, dropped, faults>>

\* ReadMessage returns an error (the commit was refused, say): Run returns,
\* and nothing starts it again in this process.
ReadFails(c) ==
  /\ Fault
  /\ hand[c].phase = "idle"
  /\ hand' = [hand EXCEPT ![c].phase = "stopped"]
  /\ UNCHANGED <<authVars, outbox, pub, lag, wallets, dropped>>

\* Variant: ErrNotFound is returned like any other error.
GetWalletOrFail(c) ==
  /\ hand[c].phase = "read"
  /\ hand' = [hand EXCEPT ![c] = IdleConsumer]
  /\ UNCHANGED <<authVars, outbox, pub, lag, wallets, dropped, faults>>

\* CreateWallet, first query: an existing wallet ends it.
GetWallet(c) ==
  /\ hand[c].phase = "read"
  /\ hand' = [hand EXCEPT ![c] = IF HasWallet(hand[c].user) THEN IdleConsumer
                                 ELSE [@ EXCEPT !.phase = "missing"]]
  /\ UNCHANGED <<authVars, outbox, pub, lag, wallets, dropped, faults>>

\* The insert, under the unique indexes on the user and on the handle.  After
\* a unique violation the wallet is read again; the consumer goes on with the
\* next event whether or not it is found.
InsertWallet(c) ==
  LET r == hand[c].user
      taken(w) == w.user = r \/ w.handle = HandleOf(r)
  IN /\ hand[c].phase = "missing"
     /\ hand' = [hand EXCEPT ![c] = IdleConsumer]
     /\ wallets' = IF \E w \in wallets : taken(w) THEN wallets
                   ELSE wallets \cup {Wallet(r)}
     /\ UNCHANGED <<authVars, outbox, pub, lag, dropped, faults>>

\* A query of CreateWallet fails, or the process ends: the error is logged,
\* or not even that, and the next message is read.
HandlerFails(c) ==
  /\ Fault
  /\ hand[c].phase \in {"read", "missing"}
  /\ hand' = [hand EXCEPT ![c] = IdleConsumer]
  /\ dropped' = dropped \cup {hand[c].user}
  /\ UNCHANGED <<authVars, outbox, pub, lag, wallets>>

\* Somebody starts the payment process again.
RestartConsumer(c) ==
  /\ hand[c].phase = "stopped"
  /\ hand' = [hand EXCEPT ![c] = IdleConsumer]
  /\ UNCHANGED <<authVars, outbox, pub, lag, wallets, dropped, faults>>

-----------------------------------------------------------------------------
Register(r) ==
  \/ \E e \in Emails : CheckUnique(r, e)
  \/ ConsumeVerified(r)
  \/ GenerateHandle(r)
  \/ CommitUser(r)
  \/ FailRegister(r)

PublishBatch(p) ==
  \/ FetchUnpublished(p)
  \/ \E r \in Requests, c \in Consumers : Publish(p, r, c)
  \/ MarkPublished(p)

PublisherFault(p) ==
  \/ \E r \in Requests : PublishFails(p, r)
  \/ MarkFails(p)
  \/ CrashPublisher(p)

Consume(c) ==
  \/ \E r \in Requests : ReadMessage(c, r)
  \/ GetWallet(c)
  \/ InsertWallet(c)

ConsumerFault(c) == ReadFails(c) \/ HandlerFails(c)

Next ==
  \/ \E e \in Emails : MarkEmailVerified(e) \/ ExpireVerified(e)
  \/ \E r \in Requests : Register(r)
  \/ \E p \in Publishers : PublishBatch(p) \/ PublisherFault(p)
  \/ \E c \in Consumers : Consume(c) \/ ConsumerFault(c) \/ RestartConsumer(c)

\* The ticker fires for ever in every auth replica, and a running consumer
\* reads on; no fault and no client is obliged to come.
Fairness ==
  /\ \A p \in Publishers : WF_vars(PublishBatch(p))
  /\ \A c \in Consumers : WF_vars(Consume(c))

Spec == Init /\ [][Next]_vars /\ Fairness

-----------------------------------------------------------------------------
(* Properties *)

\* The shape of the state; a consumer has a user exactly while it handles an
\* event.
ProvisioningTypeOK ==
  /\ verified \subseteq Emails
  /\ reg \in [Requests -> [phase : {"idle", "checked", "verified", "named", "done", "refused"},
                           email : Emails \cup {None}, handle : Handles \cup {None}]]
  /\ users \subseteq [id : Requests, email : Emails, handle : Handles]
  /\ outbox \in [Requests -> {"none", "pending", "published"}]
  /\ pub \in [Publishers -> [batch : SUBSET Requests, marking : Requests \cup {None}]]
  /\ lag \in [Consumers -> [Requests -> Nat]]
  /\ hand \in [Consumers -> [phase : {"idle", "stopped", "read", "missing"},
                             user : Requests \cup {None}]]
  /\ wallets \subseteq [id : Nat \ {0}, user : Requests, handle : Handles]
  /\ dropped \subseteq Requests
  /\ faults \in 0..MaxFaults
  /\ \A c \in Consumers : hand[c].user = None <=> hand[c].phase \in {"idle", "stopped"}

\* A user only ever gets one wallet, and a handle leads to the same person
\* in both databases, through any number of duplicate and concurrent
\* deliveries (CreateWallet's "a user only ever gets one wallet").
OnePersonPerHandle ==
  /\ \A w1, w2 \in wallets : w1.user = w2.user => w1 = w2
  /\ \A u \in users, w \in wallets : u.id = w.user <=> u.handle = w.handle

\* An event marked published is never lost between the two services: its
\* wallet exists, a copy is unread or in hand, or the handling of a copy was
\* cut short by a fault of the payment service.
PublishedIsAccountedFor ==
  \A r \in Requests :
    outbox[r] = "published" =>
      \/ HasWallet(r)
      \/ r \in dropped
      \/ \E c \in Consumers : lag[c][r] > 0 \/ hand[c].user = r

\* Calls that race for one e-mail, each with a verification of its own, end
\* with at most one account for it, and no event goes out for an account that
\* does not exist.
OneAccountPerEmail ==
  /\ \A u1, u2 \in users : u1.email = u2.email => u1 = u2
  /\ \A c \in Consumers, r \in Requests : lag[c][r] > 0 => Registered(r)

\* Register and CreateWallet (auth_usecase.go, wallet_usecase.go): one person
\* for a handle in both databases, one account for an e-mail.
PeopleAreUnique == OnePersonPerHandle /\ OneAccountPerEmail

\* Every registered user's event is sent and marked in the end, whatever
\* finitely many failures hit the publishers: again and again there is no
\* user whose event is still to go.
RegisteredIsPublished ==
  []<>(\A r \in Requests : Registered(r) => outbox[r] = "published")

\* A registered user gets the wallet in the end, unless a fault of the
\* payment service hit the event's handling or stopped the consumer of a
\* partition that still holds it.
RegisteredGetsWallet ==
  []<>(\A r \in Requests :
         Registered(r) =>
           \/ HasWallet(r)
           \/ r \in dropped
           \/ \E c \in Consumers : hand[c].phase = "stopped" /\ lag[c][r] > 0)
=============================================================================
