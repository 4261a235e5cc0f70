------------------------- MODULE ProvisioningProofs -------------------------
(***************************************************************************)
(* The safety of Provisioning for any number of requests, replicas and     *)
(* faults.  An account is unique by its request, e-mail and handle, so     *)
(* that the unique violation of InsertWallet can only mean that the user's *)
(* own wallet is there; and an event that is published, or about to be     *)
(* marked, has a wallet, an unread copy, a consumer that handles it, or a  *)
(* fault on record.                                                        *)
(***************************************************************************)
EXTENDS Provisioning, FiniteSetTheorems, TLAPS

\* A call past the first check has an e-mail, one about to commit a handle.
Drafts ==
  \A r \in Requests :
    /\ reg[r].phase \in {"checked", "verified", "named"} => reg[r].email \in Emails
    /\ reg[r].phase = "named" => reg[r].handle \in Handles

\* The three keys of a user, and that its call is over.
UsersApart ==
  /\ \A u1, u2 \in users :
       (u1.id = u2.id \/ u1.email = u2.email \/ u1.handle = u2.handle) => u1 = u2
  /\ \A u \in users : reg[u.id].phase = "done"

\* Whatever is on its way belongs to a user.
EventsKnown ==
  /\ \A r \in Requests : outbox[r] # "none" => Registered(r)
  /\ \A p \in Publishers : \A r \in pub[p].batch : Registered(r)
  /\ \A p \in Publishers : pub[p].marking # None => Registered(pub[p].marking)
  /\ \A c \in Consumers, r \in Requests : lag[c][r] > 0 => Registered(r)
  /\ \A c \in Consumers : hand[c].user # None => Registered(hand[c].user)

\* A wallet has its user's handle, and is the only one.
WalletsTrue ==
  /\ IsFiniteSet(wallets)
  /\ \A w \in wallets : \E u \in users : u.id = w.user /\ u.handle = w.handle
  /\ \A w1, w2 \in wallets : w1.user = w2.user => w1 = w2

Accounted(r) ==
  \/ HasWallet(r)
  \/ r \in dropped
  \/ \E c \in Consumers : lag[c][r] > 0 \/ hand[c].user = r

\* An event is accounted for from its acknowledgement on.
SentAccounted ==
  /\ \A r \in Requests : outbox[r] = "published" => Accounted(r)
  /\ \A p \in Publishers : pub[p].marking # None => Accounted(pub[p].marking)

\* The inductive invariant.
PInv ==
  /\ ProvisioningTypeOK
  /\ Drafts
  /\ UsersApart
  /\ EventsKnown
  /\ WalletsTrue
  /\ SentAccounted
-----------------------------------------------------------------------------
\* A registered user's handle is the one its row has.
LEMMA HandleFacts ==
  ASSUME NEW r, Registered(r)
  PROVE  \E u \in users : u.id = r /\ u.handle = HandleOf(r)
  BY DEF Registered, HandleOf

\* A consumer that handles an event handles that of a registered user.
LEMMA HandOwner ==
  ASSUME ProvisioningTypeOK, EventsKnown, NEW c \in Consumers, hand[c].phase \in {"read", "missing"}
  PROVE  hand[c].user \in Requests /\ Registered(hand[c].user)
  BY ProvisioningAssumption DEF ProvisioningTypeOK, EventsKnown

\* The row InsertWallet writes.
LEMMA WalletFacts ==
  ASSUME PInv, NEW r \in Requests, Registered(r)
  PROVE  /\ Wallet(r) \in [id : Nat \ {0}, user : Requests, handle : Handles]
         /\ Wallet(r).user = r
         /\ \E u \in users : u.id = r /\ u.handle = Wallet(r).handle
<1>1. Cardinality(wallets) \in Nat
      BY FS_CardinalityType DEF PInv, WalletsTrue
<1>2. HandleOf(r) \in Handles
      BY HandleFacts DEF PInv, ProvisioningTypeOK
<1> QED
    BY <1>1, <1>2, HandleFacts DEF Wallet

\* Every step keeps the types.
LEMMA TypeStep == PInv /\ [Next]_vars => ProvisioningTypeOK'
<1> SUFFICES ASSUME PInv, [Next]_vars PROVE ProvisioningTypeOK'
    OBVIOUS
<1> USE ProvisioningAssumption DEF PInv, ProvisioningTypeOK
<1>1. ASSUME NEW e \in Emails, MarkEmailVerified(e) \/ ExpireVerified(e)
      PROVE  ProvisioningTypeOK'
      BY <1>1 DEF MarkEmailVerified, ExpireVerified, topicVars
<1>2. ASSUME NEW r \in Requests, NEW e \in Emails, CheckUnique(r, e)
      PROVE  ProvisioningTypeOK'
      BY <1>2 DEF CheckUnique, Call, Answer, Fault, authVars, topicVars
<1>3. ASSUME NEW r \in Requests, ConsumeVerified(r)
      PROVE  ProvisioningTypeOK'
      BY <1>3 DEF ConsumeVerified, Call, Answer, Fault, authVars, topicVars
<1>4. ASSUME NEW r \in Requests, GenerateHandle(r)
      PROVE  ProvisioningTypeOK'
  <2>1. ASSUME NEW h \in Handles, reg' = [reg EXCEPT ![r] = Call("named", @.email, h)]
        PROVE  ProvisioningTypeOK'
        BY <1>4, <2>1 DEF GenerateHandle, Call, topicVars
  <2>2. CASE Answer(r, "refused")
        BY <1>4, <2>2 DEF GenerateHandle, Call, Answer, Fault, authVars, topicVars
  <2> QED
      BY <1>4, <2>1, <2>2 DEF GenerateHandle
<1>5. ASSUME NEW r \in Requests, CommitUser(r)
      PROVE  ProvisioningTypeOK'
  <2>1. reg[r].email \in Emails /\ reg[r].handle \in Handles
        BY <1>5 DEF Drafts, CommitUser
  <2>2. users' \subseteq [id : Requests, email : Emails, handle : Handles]
        BY <1>5, <2>1 DEF CommitUser
  <2> QED
      BY <1>5, <2>2 DEF CommitUser, Call, Answer, Fault, authVars, topicVars
<1>6. ASSUME NEW r \in Requests, FailRegister(r)
      PROVE  ProvisioningTypeOK'
      BY <1>6 DEF FailRegister, Call, Answer, Fault, authVars, topicVars
<1>7. ASSUME NEW p \in Publishers, FetchUnpublished(p) \/ MarkPublished(p) \/ MarkFails(p) \/ CrashPublisher(p)
      PROVE  ProvisioningTypeOK'
  <2>1. CASE FetchUnpublished(p)
    <3>1. pub' = [pub EXCEPT ![p] = [@ EXCEPT !.batch = {r \in Requests : outbox[r] = "pending"}]]
        BY <2>1 DEF FetchUnpublished
    <3>2. [pub[p] EXCEPT !.batch = {r \in Requests : outbox[r] = "pending"}]
             \in [batch : SUBSET Requests, marking : Requests \cup {None}]
        BY <1>7
    <3>3. pub' \in [Publishers -> [batch : SUBSET Requests, marking : Requests \cup {None}]]
        BY <3>1, <3>2
    <3> QED
        BY <2>1, <3>3 DEF FetchUnpublished, authVars, topicVars
  <2>2. CASE MarkPublished(p)
    <3>1. pub[p].marking \in Requests
        BY <1>7, <2>2 DEF MarkPublished
    <3>2. outbox' \in [Requests -> {"none", "pending", "published"}]
        BY <2>2, <3>1 DEF MarkPublished
    <3>3. pub' \in [Publishers -> [batch : SUBSET Requests, marking : Requests \cup {None}]]
        BY <1>7, <2>2 DEF MarkPublished
    <3> QED
        BY <2>2, <3>2, <3>3 DEF MarkPublished, authVars, topicVars
  <2>3. CASE MarkFails(p)
        BY <2>3 DEF MarkFails, Fault, authVars, topicVars
  <2>4. CASE CrashPublisher(p)
        BY <2>4 DEF CrashPublisher, IdlePublisher, Fault, authVars, topicVars
  <2> QED
      BY <1>7, <2>1, <2>2, <2>3, <2>4
<1>8. ASSUME NEW p \in Publishers, NEW r \in Requests, NEW c \in Consumers, Publish(p, r, c)
      PROVE  ProvisioningTypeOK'
      BY <1>8 DEF Publish, IdlePublisher, Fault, authVars, topicVars
<1>9. ASSUME NEW p \in Publishers, NEW r \in Requests, PublishFails(p, r)
      PROVE  ProvisioningTypeOK'
  <2>1. lag' \in [Consumers -> [Requests -> Nat]]
    <3>1. ASSUME NEW c \in Consumers, lag' = [lag EXCEPT ![c][r] = @ + 1]
          PROVE  lag' \in [Consumers -> [Requests -> Nat]]
          BY <3>1
    <3> QED
        BY <1>9, <3>1 DEF PublishFails
  <2>2. pub' \in [Publishers -> [batch : SUBSET Requests, marking : Requests \cup {None}]]
        BY <1>9 DEF PublishFails
  <2> QED
      BY <1>9, <2>1, <2>2 DEF PublishFails, IdlePublisher, Fault, authVars, topicVars
<1>10. ASSUME NEW c \in Consumers, NEW r \in Requests, ReadMessage(c, r)
       PROVE  ProvisioningTypeOK'
       BY <1>10 DEF ReadMessage, IdleConsumer, Fault, authVars
<1>11. ASSUME NEW c \in Consumers, ReadFails(c) \/ GetWallet(c) \/ RestartConsumer(c)
       PROVE  ProvisioningTypeOK'
  <2>1. CASE ReadFails(c)
        BY <2>1 DEF ReadFails, Fault, authVars
  <2>2. CASE GetWallet(c)
        BY <2>2 DEF GetWallet, IdleConsumer, authVars
  <2>3. CASE RestartConsumer(c)
        BY <2>3 DEF RestartConsumer, IdleConsumer, authVars
  <2> QED
      BY <1>11, <2>1, <2>2, <2>3
<1>12. ASSUME NEW c \in Consumers, InsertWallet(c)
       PROVE  ProvisioningTypeOK'
  <2>1. wallets' \subseteq [id : Nat \ {0}, user : Requests, handle : Handles]
        BY <1>12, HandOwner, WalletFacts DEF InsertWallet
  <2> QED
      BY <1>12, <2>1 DEF InsertWallet, IdleConsumer, Fault, authVars
<1>13. ASSUME NEW c \in Consumers, HandlerFails(c)
       PROVE  ProvisioningTypeOK'
       BY <1>13 DEF HandlerFails, IdleConsumer, Fault, authVars
<1>14. CASE UNCHANGED vars
       BY <1>14 DEF vars
<1> QED
    BY <1>1, <1>2, <1>3, <1>4, <1>5, <1>6, <1>7, <1>8, <1>9, <1>10, <1>11, <1>12, <1>13, <1>14
    DEF Next, Register, PublishBatch, PublisherFault, Consume, ConsumerFault

\* Only Register touches the calls.
LEMMA DraftsStep == PInv /\ [Next]_vars => Drafts'
<1> SUFFICES ASSUME PInv, [Next]_vars PROVE Drafts'
    OBVIOUS
<1> USE DEF PInv, Drafts, ProvisioningTypeOK
<1>1. ASSUME NEW r \in Requests, NEW e \in Emails, CheckUnique(r, e)
      PROVE  Drafts'
      BY <1>1 DEF CheckUnique, Call, Answer
<1>2. ASSUME NEW r \in Requests, ConsumeVerified(r)
      PROVE  Drafts'
  <2>1. CASE reg' = [reg EXCEPT ![r].phase = "verified"]
        BY <1>2, <2>1 DEF ConsumeVerified
  <2>2. CASE Answer(r, "refused")
        BY <2>2 DEF Answer, Call
  <2> QED
      BY <1>2, <2>1, <2>2 DEF ConsumeVerified
<1>3. ASSUME NEW r \in Requests, GenerateHandle(r)
      PROVE  Drafts'
      BY <1>3 DEF GenerateHandle, Call, Answer
<1>4. ASSUME NEW r \in Requests, CommitUser(r) \/ FailRegister(r)
      PROVE  Drafts'
  <2>1. \E phase \in {"refused", "done"} : Answer(r, phase)
        BY <1>4 DEF CommitUser, FailRegister
  <2> QED
      BY <2>1 DEF Call, Answer
<1>5. CASE UNCHANGED reg
      BY <1>5
<1> QED
    BY <1>1, <1>2, <1>3, <1>4, <1>5
    DEF Next, Register, PublishBatch, PublisherFault, Consume, ConsumerFault, MarkEmailVerified, ExpireVerified, FetchUnpublished, Publish, MarkPublished, PublishFails,
        MarkFails, CrashPublisher, ReadMessage, ReadFails, GetWallet, InsertWallet, HandlerFails,
        RestartConsumer, vars, authVars

\* The transaction inserts a user whose three keys are free; nothing removes
\* one.
LEMMA UsersStep == PInv /\ [Next]_vars => UsersApart'
<1> SUFFICES ASSUME PInv, [Next]_vars PROVE UsersApart'
    OBVIOUS
<1> USE DEF PInv, UsersApart, ProvisioningTypeOK
<1>1. ASSUME NEW r \in Requests, CommitUser(r)
      PROVE  UsersApart'
      BY <1>1 DEF CommitUser, EmailTaken, HandleTaken, Call, Answer
<1>2. ASSUME NEW r \in Requests, NEW e \in Emails, CheckUnique(r, e)
      PROVE  UsersApart'
      BY <1>2 DEF CheckUnique, Call, Answer, authVars
<1>3. ASSUME NEW r \in Requests, ConsumeVerified(r) \/ GenerateHandle(r) \/ FailRegister(r)
      PROVE  UsersApart'
      BY <1>3 DEF ConsumeVerified, GenerateHandle, FailRegister, Call, Answer
<1>4. CASE UNCHANGED <<reg, users>>
      BY <1>4
<1> QED
    BY <1>1, <1>2, <1>3, <1>4
    DEF Next, Register, PublishBatch, PublisherFault, Consume, ConsumerFault, MarkEmailVerified, ExpireVerified, FetchUnpublished, Publish, MarkPublished, PublishFails,
        MarkFails, CrashPublisher, ReadMessage, ReadFails, GetWallet, InsertWallet, HandlerFails,
        RestartConsumer, vars, authVars

\* Users stay.
LEMMA UsersStay == ASSUME [Next]_vars PROVE users \subseteq users'
  BY DEF Next, Register, PublishBatch, PublisherFault, Consume, ConsumerFault, MarkEmailVerified, ExpireVerified, CheckUnique, ConsumeVerified, GenerateHandle, CommitUser,
      FailRegister, FetchUnpublished, Publish, MarkPublished, PublishFails, MarkFails, CrashPublisher,
      ReadMessage, ReadFails, GetWallet, InsertWallet, HandlerFails, RestartConsumer, vars, authVars

LEMMA RegisteredStays == ASSUME [Next]_vars, NEW r, Registered(r) PROVE Registered(r)'
  BY UsersStay DEF Registered

\* Events start with a user's row and move from the table over a batch and a
\* partition into a consumer's hands.
LEMMA EventsStep == PInv /\ [Next]_vars => EventsKnown'
<1> SUFFICES ASSUME PInv, [Next]_vars PROVE EventsKnown'
    OBVIOUS
<1> USE ProvisioningAssumption DEF PInv, EventsKnown, ProvisioningTypeOK
<1> \A r \in Requests : Registered(r) => Registered(r)'
    BY RegisteredStays
<1>1. ASSUME NEW r \in Requests, CommitUser(r)
      PROVE  EventsKnown'
  <2>1. CASE outbox' = outbox
        BY <1>1, <2>1 DEF CommitUser, topicVars
  <2>2. CASE /\ users' = users \cup {[id |-> r, email |-> reg[r].email, handle |-> reg[r].handle]}
             /\ outbox' = [outbox EXCEPT ![r] = "pending"]
    <3>1. Registered(r)'
      <4> DEFINE u == [id |-> r, email |-> reg[r].email, handle |-> reg[r].handle]
      <4>1. u \in users' /\ u.id = r
          BY <2>2
      <4> QED
          BY <4>1 DEF Registered
    <3> QED
        BY <1>1, <2>2, <3>1 DEF CommitUser, topicVars
  <2> QED
      BY <1>1, <2>1, <2>2 DEF CommitUser
<1>2. ASSUME NEW p \in Publishers, FetchUnpublished(p)
      PROVE  EventsKnown'
      BY <1>2 DEF FetchUnpublished, topicVars
<1>3. ASSUME NEW p \in Publishers, MarkPublished(p)
      PROVE  EventsKnown'
      BY <1>3 DEF MarkPublished, topicVars
<1>4. ASSUME NEW p \in Publishers, MarkFails(p) \/ CrashPublisher(p)
      PROVE  EventsKnown'
  <2>1. CASE MarkFails(p)
        BY <2>1 DEF MarkFails, topicVars
  <2>2. CASE CrashPublisher(p)
        BY <2>2 DEF CrashPublisher, IdlePublisher, topicVars
  <2> QED
      BY <1>4, <2>1, <2>2
<1>5. ASSUME NEW p \in Publishers, NEW r \in Requests, NEW c \in Consumers, Publish(p, r, c)
      PROVE  EventsKnown'
      BY <1>5 DEF Publish
<1>6. ASSUME NEW p \in Publishers, NEW r \in Requests, PublishFails(p, r)
      PROVE  EventsKnown'
  <2>1. Registered(r) /\ pub' = [pub EXCEPT ![p].batch = @ \ {r}] /\ UNCHANGED <<outbox, hand>>
        BY <1>6 DEF PublishFails
  <2>2. ASSUME NEW d \in Consumers, lag' = [lag EXCEPT ![d][r] = @ + 1]
        PROVE  \A c \in Consumers, q \in Requests : lag'[c][q] > 0 => Registered(q)
        BY <2>1, <2>2
  <2>3. \A c \in Consumers, q \in Requests : lag'[c][q] > 0 => Registered(q)
        BY <1>6, <2>2 DEF PublishFails
  <2> QED
      BY <2>1, <2>3
<1>7. ASSUME NEW c \in Consumers, NEW r \in Requests, ReadMessage(c, r)
      PROVE  EventsKnown'
      BY <1>7 DEF ReadMessage
<1>8. ASSUME NEW c \in Consumers,
             ReadFails(c) \/ GetWallet(c) \/ InsertWallet(c) \/ HandlerFails(c) \/ RestartConsumer(c)
      PROVE  EventsKnown'
  <2>1. UNCHANGED <<outbox, pub, lag>> /\ hand'[c].user \in {None, hand[c].user}
        /\ \A d \in Consumers \ {c} : hand'[d] = hand[d]
        BY <1>8 DEF ReadFails, GetWallet, InsertWallet, HandlerFails, RestartConsumer, IdleConsumer
  <2> QED
      BY <2>1
<1>9. CASE UNCHANGED <<outbox, pub, topicVars>>
      BY <1>9 DEF topicVars
<1> QED
    BY <1>1, <1>2, <1>3, <1>4, <1>5, <1>6, <1>7, <1>8, <1>9
    DEF Next, Register, PublishBatch, PublisherFault, Consume, ConsumerFault, MarkEmailVerified, ExpireVerified, CheckUnique,
        ConsumeVerified, GenerateHandle, FailRegister, vars, topicVars

\* InsertWallet adds a wallet for a user who has none.
LEMMA WalletsStep == PInv /\ [Next]_vars => WalletsTrue'
<1> SUFFICES ASSUME PInv, [Next]_vars PROVE WalletsTrue'
    OBVIOUS
<1> USE DEF PInv, WalletsTrue
<1>1. ASSUME NEW c \in Consumers, InsertWallet(c), wallets' # wallets
      PROVE  WalletsTrue'
  <2> DEFINE r == hand[c].user
  <2>1. r \in Requests /\ Registered(r)
        BY <1>1, HandOwner DEF InsertWallet
  <2>2. wallets' = wallets \cup {Wallet(r)} /\ ~ HasWallet(r)
        BY <1>1 DEF InsertWallet, HasWallet
  <2>3. IsFiniteSet(wallets')
        BY <2>2, FS_AddElement
  <2>4. users' = users
        BY <1>1 DEF InsertWallet, authVars
  <2> HIDE DEF r
  <2> QED
      BY <2>1, <2>2, <2>3, <2>4, WalletFacts DEF HasWallet
<1>2. CASE UNCHANGED wallets
      BY <1>2, UsersStay
<1> QED
    BY <1>1, <1>2
    DEF Next, Register, PublishBatch, PublisherFault, Consume, ConsumerFault, MarkEmailVerified, ExpireVerified, CheckUnique, ConsumeVerified, GenerateHandle, CommitUser,
        FailRegister, FetchUnpublished, Publish, MarkPublished, PublishFails, MarkFails, CrashPublisher,
        ReadMessage, ReadFails, GetWallet, HandlerFails, RestartConsumer, vars

\* What a taken key means to InsertWallet: the user's own wallet.
LEMMA TakenMeansOwn ==
  ASSUME PInv, NEW r \in Requests, Registered(r),
         NEW w \in wallets, w.user = r \/ w.handle = HandleOf(r)
  PROVE  w.user = r
  BY HandleFacts DEF PInv, UsersApart, WalletsTrue

\* A step that moves no event, publishes none and takes none up to be marked.
LEMMA QuietSent ==
  ASSUME PInv, UNCHANGED <<topicVars, wallets, dropped>>,
         \A r \in Requests : outbox'[r] = "published" => outbox[r] = "published",
         \A p \in Publishers : pub'[p].marking \in {None, pub[p].marking}
  PROVE  SentAccounted'
<1>1. \A q : Accounted(q) => Accounted(q)'
      BY DEF Accounted, HasWallet, topicVars
<1>2. \A p \in Publishers : pub'[p].marking # None => Accounted(pub'[p].marking)
      BY DEF PInv, SentAccounted
<1> QED
    BY <1>1, <1>2 DEF PInv, SentAccounted

\* An event in one place of four stays in one of the four.
LEMMA SentStep == PInv /\ [Next]_vars => SentAccounted'
<1> SUFFICES ASSUME PInv, [Next]_vars PROVE SentAccounted'
    OBVIOUS
<1> USE ProvisioningAssumption DEF PInv, SentAccounted, ProvisioningTypeOK
<1>1. ASSUME NEW p \in Publishers, NEW r \in Requests, NEW c \in Consumers, Publish(p, r, c)
      PROVE  SentAccounted'
  <2>1. lag' = [lag EXCEPT ![c][r] = @ + 1] /\ lag'[c][r] > 0
        BY <1>1 DEF Publish
  <2>2. \A q \in Requests : Accounted(q) => Accounted(q)'
        BY <1>1, <2>1 DEF Publish, Accounted, HasWallet
  <2>3. Accounted(r)'
        BY <2>1 DEF Accounted
  <2> QED
      BY <1>1, <2>2, <2>3 DEF Publish
<1>2. ASSUME NEW p \in Publishers, MarkPublished(p)
      PROVE  SentAccounted'
  <2>1. \A q : Accounted(q)' <=> Accounted(q)
        BY <1>2 DEF MarkPublished, Accounted, HasWallet, topicVars
  <2> QED
      BY <1>2, <2>1 DEF MarkPublished
<1>3. ASSUME NEW p \in Publishers, NEW r \in Requests, PublishFails(p, r)
      PROVE  SentAccounted'
  <2>1. \A d \in Consumers, q \in Requests : lag[d][q] > 0 => lag'[d][q] > 0
    <3>1. ASSUME NEW c \in Consumers, lag' = [lag EXCEPT ![c][r] = @ + 1]
          PROVE  \A d \in Consumers, q \in Requests : lag[d][q] > 0 => lag'[d][q] > 0
          BY <3>1
    <3> QED
        BY <1>3, <3>1 DEF PublishFails
  <2>2. \A q \in Requests : Accounted(q) => Accounted(q)'
        BY <1>3, <2>1 DEF PublishFails, Accounted, HasWallet
  <2> QED
      BY <1>3, <2>2 DEF PublishFails
<1>4. ASSUME NEW c \in Consumers, NEW r \in Requests, ReadMessage(c, r)
      PROVE  SentAccounted'
  <2>1. hand'[c].user = r /\ hand[c].user = None
        BY <1>4 DEF ReadMessage
  <2>2. \A d \in Consumers \ {c} : hand'[d] = hand[d] /\ lag'[d] = lag[d]
        BY <1>4 DEF ReadMessage
  <2>3. \A q \in Requests \ {r} : lag'[c][q] = lag[c][q]
        BY <1>4 DEF ReadMessage
  <2>4. \A q \in Requests : Accounted(q) => Accounted(q)'
        BY <1>4, <2>1, <2>2, <2>3 DEF ReadMessage, Accounted, HasWallet
  <2> QED
      BY <1>4, <2>4 DEF ReadMessage
<1>5. ASSUME NEW c \in Consumers,
             ReadFails(c) \/ GetWallet(c) \/ InsertWallet(c) \/ HandlerFails(c) \/ RestartConsumer(c)
      PROVE  SentAccounted'
  <2>1. UNCHANGED <<outbox, pub, lag>> /\ \A d \in Consumers \ {c} : hand'[d] = hand[d]
        BY <1>5 DEF ReadFails, GetWallet, InsertWallet, HandlerFails, RestartConsumer
  <2>2. dropped \subseteq dropped' /\ wallets \subseteq wallets'
        BY <1>5 DEF ReadFails, GetWallet, InsertWallet, HandlerFails, RestartConsumer
  <2>3. ASSUME NEW r \in Requests, hand[c].user = r
        PROVE  hand'[c].user = r \/ HasWallet(r)' \/ r \in dropped'
    <3>1. CASE ReadFails(c) \/ RestartConsumer(c)
          BY <2>3, <3>1 DEF ReadFails, RestartConsumer
    <3>2. CASE GetWallet(c)
          BY <2>3, <3>2 DEF GetWallet, HasWallet
    <3>3. CASE InsertWallet(c)
      <4>1. Registered(r)
            BY <2>3, <3>3, HandOwner DEF InsertWallet
      <4>2. CASE wallets' = wallets \cup {Wallet(r)}
            BY <4>1, <4>2, WalletFacts DEF HasWallet
      <4>3. CASE \E w \in wallets : w.user = r \/ w.handle = HandleOf(r)
            BY <2>2, <4>1, <4>3, TakenMeansOwn DEF HasWallet
      <4> QED
          BY <2>3, <3>3, <4>2, <4>3 DEF InsertWallet
    <3>4. CASE HandlerFails(c)
          BY <2>3, <3>4 DEF HandlerFails
    <3> QED
        BY <1>5, <3>1, <3>2, <3>3, <3>4
  <2>4. \A q \in Requests : Accounted(q) => Accounted(q)'
    <3> SUFFICES ASSUME NEW q \in Requests, Accounted(q) PROVE Accounted(q)'
        OBVIOUS
    <3>1. CASE hand[c].user = q
          BY <2>3, <3>1 DEF Accounted
    <3>2. CASE hand[c].user # q
          BY <2>1, <2>2, <3>2 DEF Accounted, HasWallet
    <3> QED
        BY <3>1, <3>2
  <2> QED
      BY <2>1, <2>4
<1>6. ASSUME NEW r \in Requests, CommitUser(r)
      PROVE  SentAccounted'
  <2>1. \A q \in Requests : outbox'[q] = "published" => outbox[q] = "published"
        BY <1>6 DEF CommitUser
  <2> QED
      BY <1>6, <2>1, QuietSent DEF CommitUser
<1>7. ASSUME NEW p \in Publishers, FetchUnpublished(p) \/ MarkFails(p) \/ CrashPublisher(p)
      PROVE  SentAccounted'
  <2>1. \A q \in Publishers : pub'[q].marking \in {None, pub[q].marking}
        BY <1>7 DEF FetchUnpublished, MarkFails, CrashPublisher, IdlePublisher
  <2> QED
      BY <1>7, <2>1, QuietSent DEF FetchUnpublished, MarkFails, CrashPublisher
<1>8. CASE UNCHANGED <<outbox, pub, topicVars, wallets, dropped>>
      BY <1>8, QuietSent
<1> QED
    BY <1>1, <1>2, <1>3, <1>4, <1>5, <1>6, <1>7, <1>8
    DEF Next, Register, PublishBatch, PublisherFault, Consume, ConsumerFault, MarkEmailVerified, ExpireVerified, CheckUnique,
        ConsumeVerified, GenerateHandle, FailRegister, vars, topicVars

-----------------------------------------------------------------------------
LEMMA InitPInv == Init => PInv
  BY ProvisioningAssumption, FS_EmptySet
  DEF Init, PInv, ProvisioningTypeOK, Drafts, UsersApart, EventsKnown, WalletsTrue, SentAccounted,
      NoCall, Call, IdlePublisher, IdleConsumer

LEMMA NextPInv == PInv /\ [Next]_vars => PInv'
  BY TypeStep, DraftsStep, UsersStep, EventsStep, WalletsStep, SentStep DEF PInv

LEMMA PInvariance == Spec => []PInv
  BY InitPInv, NextPInv, PTL DEF Spec

\* The shape of the state of registration, publishing and provisioning.
THEOREM ProvisioningTypeCorrect == Spec => []ProvisioningTypeOK
<1>1. PInv => ProvisioningTypeOK
      BY DEF PInv
<1> QED
    BY <1>1, PInvariance, PTL

\* A handle leads to the same person in both databases, each user has at most
\* one wallet, and racing registrations end with one account per e-mail, for
\* any number of replicas, calls and duplicates.
THEOREM PeopleStayUnique == Spec => []PeopleAreUnique
<1>1. PInv => OnePersonPerHandle
      BY DEF PInv, OnePersonPerHandle, WalletsTrue, UsersApart
<1>2. PInv => OneAccountPerEmail
      BY DEF PInv, OneAccountPerEmail, UsersApart, EventsKnown
<1>3. PInv => PeopleAreUnique
      BY <1>1, <1>2 DEF PeopleAreUnique
<1> QED
    BY <1>3, PInvariance, PTL

\* A published event is never lost between the services without a fault of
\* the payment service on record.
THEOREM NothingPublishedIsLost == Spec => []PublishedIsAccountedFor
<1>1. PInv => PublishedIsAccountedFor
      BY DEF PInv, PublishedIsAccountedFor, SentAccounted, Accounted
<1> QED
    BY <1>1, PInvariance, PTL
=============================================================================
