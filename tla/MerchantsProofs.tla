-------------------------- MODULE MerchantsProofs --------------------------
(***************************************************************************)
(* What holds of the merchant service for every number of stores, calls,   *)
(* orders and faults.                                                      *)
(*                                                                         *)
(* MInv types the tables with their keys and references (RowsFit), says    *)
(* that two calls about one store have been noticed (OverlapsNoticed),     *)
(* what a call still relies on of what it read some statements ago         *)
(* (CallFits: the count it has passed, the plan it makes a subscription    *)
(* from, the tiers it has filled in, the documents it reviews, the status  *)
(* it sends on), and what the tables say of each other (TablesAgree).      *)
(*                                                                         *)
(* StepKeeps is the argument that every action shares: a step leaves to    *)
(* each other call what that call relies on, because it changes no more    *)
(* than the rows of one store, and a call about the same store overlaps.   *)
(***************************************************************************)
EXTENDS Merchants, FiniteSetTheorems, TLAPS

VisitOps ==
  {"idle", "register", "profile", "kyc", "status", "approve", "reject", "delete", "plans", "current",
   "change", "order", "verify", "create", "activate", "pause", "admin create", "admin activate",
   "admin pause", "admin remove", "admin plan"}
VisitSteps ==
  {"idle", "read", "profile", "sync", "catalog", "seed", "subscription", "initialize", "upsert",
   "order", "check", "update", "count", "write"}
VisitRecords ==
  [op : VisitOps, step : VisitSteps, store : Nat, plan : SubscriptionPlan \cup {"none"},
   email : StoreEmails \cup {"none"}, vpa : Vpas \cup {"none"}, aadhaar : Aadhaars \cup {"none"},
   status : MerchantStatus \cup SubscriptionPlan \cup {"blocked", "rejected", "none"},
   campaign : Nat, order : Nat, again : BOOLEAN, n : Nat]
StoreRecords ==
  [id : Nat \ {0}, email : StoreEmails, vpa : Vpas, status : MerchantStatus, plan : SubscriptionPlan]
DocumentRecords == [id : Nat, aadhaar : Aadhaars, verified : BOOLEAN, version : Nat, passed : Nat]
CampaignRecords == [id : Nat \ {0}, store : Nat, status : {"active", "paused"}]
SubscriptionRecords == [id : Nat, plan : SubscriptionPlan]
OrderRecords == [id : Nat, plan : SubscriptionPlan, paid : BOOLEAN]
AccountRecords == [email : StoreEmails, status : {"active", "suspended", "deleted", "pending"}]

RowIds(table) == {row.id : row \in table}
PlansOf(table) == {row.plan : row \in table}

\* The tables, with their keys and references.
StoresFit(table) ==
  /\ table \subseteq StoreRecords
  /\ \A a, b \in table : (a.email = b.email \/ a.vpa = b.vpa \/ a.id = b.id) => a = b
DocumentsFit(table) ==
  /\ table \subseteq DocumentRecords
  /\ \A a, b \in table : (a.aadhaar = b.aadhaar \/ a.id = b.id) => a = b
CampaignsFit(table, ids, n) ==
  /\ table \subseteq CampaignRecords
  /\ \A m \in table : m.store \in ids /\ m.id <= n
  /\ \A a, b \in table : a.id = b.id => a = b
SubscriptionsFit(table, ids, plans) ==
  /\ table \subseteq SubscriptionRecords
  /\ \A s \in table : s.id \in ids /\ s.plan \in plans
OrdersFit(table, plans) == table \subseteq OrderRecords /\ \A o \in table : o.plan \in plans
\* A number that was a store's is one, or was deleted, and is no other's again.
NumbersFit ==
  /\ inserts \in Nat /\ storeFaults \in Nat /\ seedStopped \in BOOLEAN
  /\ \A id \in events : id \in Nat /\ 0 < id /\ id <= inserts
  /\ RowIds(stores) \subseteq events /\ events \subseteq RowIds(stores) \cup forced /\ synced \subseteq events
RowsFit ==
  /\ StoresFit(stores) /\ DocumentsFit(kyc) /\ RowIds(kyc) = RowIds(stores)
  /\ CampaignsFit(campaigns, RowIds(stores), inserts)
  /\ tiers \subseteq SubscriptionPlan /\ PlansOf(stores) \subseteq tiers \cup {"essential"}
  /\ SubscriptionsFit(subs, RowIds(stores), tiers) /\ OrdersFit(orders, tiers)
  /\ accounts \subseteq AccountRecords
  /\ NumbersFit

\* A call at work, with the fields that its request and its step account for.
Orders == {"order", "verify", "change", "plans"}
VisitFits(v, ids) ==
  /\ v \in VisitRecords
  /\ v.store \in ids \cup {0}
  /\ v.step = "seed" => v.op \in Orders /\ v.n \in 1 .. 3
  /\ v.op \in Orders /\ v.step # "seed" => v.n = 1
  /\ v.again => v.step \in {"initialize", "upsert", "update"}
  /\ v.op = "create" => v.campaign = 0
  /\ v.op = "register" => v.email \in StoreEmails /\ v.vpa \in Vpas /\ v.aadhaar \in Aadhaars
  /\ v.op = "kyc" => v.aadhaar \in Aadhaars
  /\ v.op \in {"approve", "reject", "status", "change", "verify"} => v.store # 0
  /\ v.op \in {"change", "verify", "order", "admin plan"} => v.plan \in SubscriptionPlan

\* Two calls about a store have been noticed.
OverlapsNoticed ==
  \A c, d \in StoreCalls :
    c # d /\ visits[c].op # "idle" /\ visits[d].op # "idle" /\ visits[c].store = visits[d].store
    => visits[c].store \in contended

\* No campaign is active beside the one a call is about to make so: the count
\* it has passed is still good.
ActiveIn(table, store, but) == {m \in table : m.store = store /\ m.status = "active" /\ m.id # but}
OneActive(table, store) == \A a, b \in ActiveIn(table, store, 0) : a = b
PassedFits(v, table, free) ==
  v.op \in {"create", "activate"} /\ v.step = "write" /\ v.store \notin free =>
    ActiveIn(table, v.store, v.campaign) = {}

\* The plan a subscription is about to be made from is still the store's.
UpsertFits(v, table, plans, free) ==
  v.step = "upsert" =>
    /\ v.status \in plans \cup {"essential"}
    /\ \A s \in table : s.id = v.store => s.plan = v.status \/ s.id \in free

\* The catalogue is filled from its first tier on.
SeedFits(v, plans, stopped) ==
  v.step = "seed" => stopped \/ ((v.n > 1 => "essential" \in plans) /\ (v.n > 2 => "growth" \in plans))

\* What an upgrade that was paid for still needs is there.
Upgrading == {"subscription", "initialize", "upsert", "check", "update"}
UpgradeFits(v, faults, plans, ids) ==
  faults = 0 /\ v.op = "verify" =>
    /\ v.step \in Upgrading => "essential" \in plans
    /\ v.step = "update" /\ v.again => v.store \in ids

\* A reviewer has seen the documents there are.
Reviews(v) == v.op \in {"approve", "reject"}
ReviewFits(v, table, free) ==
  \A d \in table : Reviews(v) /\ d.id = v.store => v.n = d.version \/ d.id \in free

\* Between the two statements of a change of status nothing else has changed
\* the store.
StatusFits(v, table, free) ==
  \A s \in table : v.op = "status" /\ s.id = v.store /\ s.id \notin free =>
    /\ v.step \in {"profile", "sync"} => s.status = v.status
    /\ v.step = "sync" => s.email = v.email

CallFits(v) ==
  /\ VisitFits(v, events)
  /\ PassedFits(v, campaigns, forced \cup contended)
  /\ UpsertFits(v, stores, tiers, unsettled)
  /\ SeedFits(v, tiers, seedStopped)
  /\ UpgradeFits(v, storeFaults, tiers, RowIds(subs) \cup forced)
  /\ ReviewFits(v, kyc, overtaken)
  /\ StatusFits(v, stores, contended)
VisitsFit == visits \in [StoreCalls -> VisitRecords] /\ \A c \in StoreCalls : CallFits(visits[c])

\* What the tables say of each other.
OneActiveEach == \A id \in events \ (forced \cup contended) : OneActive(campaigns, id)
CatalogFits ==
  /\ CatalogIsWhole
  /\ seedStopped => storeFaults > 0
  /\ seedStopped \/ tiers = {} \/ "essential" \in tiers
TablesAgree ==
  OneActiveEach /\ PlansAgree /\ CatalogFits /\ PaidUpgradesSucceed /\ VerifiedWasSeen /\ AccountFollowsStore

MInv == RowsFit /\ OverlapsNoticed /\ VisitsFit /\ TablesAgree

-----------------------------------------------------------------------------
(* Rows *)

LEMMA RowFound ==
  ASSUME NEW table, NEW err, err # "nil", Succeeds(OneRow(table, err))
  PROVE  table # {} /\ OneRow(table, err).val \in table
<1>1. table # {}
  BY DEF OneRow, Succeeds, Fail
<1>2. OneRow(table, err).val = CHOOSE row \in table : TRUE
  BY <1>1 DEF OneRow, Ok
<1> QED BY <1>1, <1>2

LEMMA RowMissed ==
  ASSUME NEW table, NEW err, err # "nil", ~Succeeds(OneRow(table, err))
  PROVE  table = {}
BY DEF OneRow, Succeeds, Ok

LEMMA IdOf ==
  ASSUME NEW table, NEW id
  PROVE  id \in RowIds(table) <=> RowsOf(table, id) # {}
BY DEF RowIds, RowsOf

LEMMA StoreOf ==
  ASSUME NEW table, StoresFit(table), NEW s \in table
  PROVE  RowsOf(table, s.id) = {s} /\ s \in StoreRecords
BY DEF StoresFit, RowsOf

\* UPDATE of a store by its id: the row is another, of the same number, whose
\* e-mail and VPA no other store has.
LEMMA StorePut ==
  ASSUME NEW table, StoresFit(table), NEW s \in table, NEW v \in StoreRecords, v.id = s.id,
         \A w \in table : w.id # s.id => w.email # v.email /\ w.vpa # v.vpa
  PROVE  /\ StoresFit(Without(table, s.id) \cup {v})
         /\ RowIds(Without(table, s.id) \cup {v}) = RowIds(table)
<1> DEFINE after == Without(table, s.id) \cup {v}
<1>1. \A w \in after : w = v \/ (w \in table /\ w.id # s.id)
  BY DEF Without
<1>2. after \subseteq StoreRecords
  BY <1>1 DEF StoresFit
<1>3. \A a, b \in after : (a.email = b.email \/ a.vpa = b.vpa \/ a.id = b.id) => a = b
  BY <1>1 DEF StoresFit
<1>4. \A id : id \in RowIds(after) <=> id \in RowIds(table)
  BY DEF RowIds, Without
<1> QED BY <1>2, <1>3, <1>4 DEF StoresFit

\* What becomes of a row that keeps its number: "same" is what is left of it.
LEMMA StatusPut ==
  ASSUME NEW table, StoresFit(table), NEW id, NEW status \in MerchantStatus
  PROVE  /\ StoresFit(UpdateStoreStatus(table, id, status))
         /\ RowIds(UpdateStoreStatus(table, id, status)) = RowIds(table)
         /\ \A s \in UpdateStoreStatus(table, id, status) :
              /\ s.id = id => s.status = status
              /\ s.id # id => s \in table
              /\ \E t \in table : t.id = s.id /\ t.plan = s.plan /\ t.email = s.email
<1>1. CASE RowsOf(table, id) = {}
  <2>1. UpdateStoreStatus(table, id, status) = table /\ \A s \in table : s.id # id
    BY <1>1 DEF UpdateStoreStatus, RowsOf, Without
  <2> QED BY <2>1
<1>2. CASE RowsOf(table, id) # {}
  <2>1. PICK s \in table : s.id = id
    BY <1>2 DEF RowsOf
  <2>2. RowsOf(table, id) = {s} /\ s \in StoreRecords
    BY <2>1, StoreOf
  <2> DEFINE v == [s EXCEPT !.status = status]
  <2>3. UpdateStoreStatus(table, id, status) = Without(table, s.id) \cup {v}
    BY <2>1, <2>2 DEF UpdateStoreStatus
  <2>4. v \in StoreRecords /\ v.id = s.id /\ v.email = s.email /\ v.vpa = s.vpa /\ v.plan = s.plan
        /\ v.status = status
    BY <2>2 DEF StoreRecords
  <2>5. \A w \in table : w.id # s.id => w.email # v.email /\ w.vpa # v.vpa
    BY <2>4 DEF StoresFit
  <2> HIDE DEF v
  <2>6. /\ StoresFit(Without(table, s.id) \cup {v})
        /\ RowIds(Without(table, s.id) \cup {v}) = RowIds(table)
    BY <2>4, <2>5, StorePut
  <2>7. \A w \in Without(table, s.id) \cup {v} :
          /\ w.id = id => w.status = status
          /\ w.id # id => w \in table
          /\ \E t \in table : t.id = w.id /\ t.plan = w.plan /\ t.email = w.email
    BY <2>1, <2>4 DEF Without
  <2> QED BY <2>3, <2>6, <2>7
<1> QED BY <1>1, <1>2

LEMMA PlanPut ==
  ASSUME NEW table, StoresFit(table), NEW id, NEW plan \in SubscriptionPlan
  PROVE  /\ StoresFit(UpdateStorePlanEnum(table, id, plan))
         /\ RowIds(UpdateStorePlanEnum(table, id, plan)) = RowIds(table)
         /\ \A s \in UpdateStorePlanEnum(table, id, plan) :
              /\ s.id = id => s.plan = plan
              /\ s.id # id => s \in table
              /\ \E t \in table : t.id = s.id /\ t.status = s.status /\ t.email = s.email
<1>1. CASE RowsOf(table, id) = {}
  <2>1. UpdateStorePlanEnum(table, id, plan) = table /\ \A s \in table : s.id # id
    BY <1>1 DEF UpdateStorePlanEnum, RowsOf, Without
  <2> QED BY <2>1
<1>2. CASE RowsOf(table, id) # {}
  <2>1. PICK s \in table : s.id = id
    BY <1>2 DEF RowsOf
  <2>2. RowsOf(table, id) = {s} /\ s \in StoreRecords
    BY <2>1, StoreOf
  <2> DEFINE v == [s EXCEPT !.plan = plan]
  <2>3. UpdateStorePlanEnum(table, id, plan) = Without(table, s.id) \cup {v}
    BY <2>1, <2>2 DEF UpdateStorePlanEnum
  <2>4. v \in StoreRecords /\ v.id = s.id /\ v.email = s.email /\ v.vpa = s.vpa /\ v.plan = plan
        /\ v.status = s.status
    BY <2>2 DEF StoreRecords
  <2>5. \A w \in table : w.id # s.id => w.email # v.email /\ w.vpa # v.vpa
    BY <2>4 DEF StoresFit
  <2> HIDE DEF v
  <2>6. /\ StoresFit(Without(table, s.id) \cup {v})
        /\ RowIds(Without(table, s.id) \cup {v}) = RowIds(table)
    BY <2>4, <2>5, StorePut
  <2>7. \A w \in Without(table, s.id) \cup {v} :
          /\ w.id = id => w.plan = plan
          /\ w.id # id => w \in table
          /\ \E t \in table : t.id = w.id /\ t.status = w.status /\ t.email = w.email
    BY <2>1, <2>4 DEF Without
  <2> QED BY <2>3, <2>6, <2>7
<1> QED BY <1>1, <1>2

\* UpdateStoreProfile, refused when the e-mail is another store's.
LEMMA ProfilePut ==
  ASSUME NEW table, StoresFit(table), NEW id, NEW email \in StoreEmails \cup {"none"},
         Succeeds(UpdateStoreProfile(table, id, email))
  PROVE  LET after == UpdateStoreProfile(table, id, email).val
         IN  /\ StoresFit(after) /\ RowIds(after) = RowIds(table)
             /\ \A s \in after :
                  /\ s.id # id => s \in table
                  /\ \E t \in table : t.id = s.id /\ t.plan = s.plan /\ t.status = s.status
<1> DEFINE after == UpdateStoreProfileByStoreID(table, id, email)
<1>1. /\ RowsOf(table, id) # {} /\ ~\E s \in RowsOf(after, id) : StoreConflict(after, s)
      /\ UpdateStoreProfile(table, id, email).val = after
  BY DEF UpdateStoreProfile, Succeeds, Fail, Ok
<1>2. PICK s \in table : s.id = id
  BY <1>1 DEF RowsOf
<1>3. RowsOf(table, id) = {s} /\ s \in StoreRecords
  BY <1>2, StoreOf
<1> DEFINE v == [s EXCEPT !.email = IF email = "none" THEN @ ELSE email]
<1>4. after = Without(table, s.id) \cup {v}
  BY <1>2, <1>3 DEF UpdateStoreProfileByStoreID
<1>5. v \in StoreRecords /\ v.id = s.id /\ v.vpa = s.vpa /\ v.plan = s.plan /\ v.status = s.status
  BY <1>3 DEF StoreRecords
<1> HIDE DEF v, after
<1>6. v \in RowsOf(after, id) /\ ~StoreConflict(after, v)
  BY <1>1, <1>2, <1>4, <1>5 DEF RowsOf
<1>7. \A w \in table : w.id # s.id => w.email # v.email /\ w.vpa # v.vpa
  BY <1>4, <1>5, <1>6 DEF StoreConflict, Without
<1>8. /\ StoresFit(Without(table, s.id) \cup {v})
      /\ RowIds(Without(table, s.id) \cup {v}) = RowIds(table)
  BY <1>5, <1>7, StorePut
<1>9. \A w \in Without(table, s.id) \cup {v} :
        /\ w.id # id => w \in table
        /\ \E t \in table : t.id = w.id /\ t.plan = w.plan /\ t.status = w.status
  BY <1>2, <1>5 DEF Without
<1> QED BY <1>1, <1>4, <1>8, <1>9

\* RegisterStore, with a number that no store had.
LEMMA StoreInserted ==
  ASSUME NEW table, StoresFit(table), NEW id \in Nat \ {0}, id \notin RowIds(table),
         NEW email \in StoreEmails, NEW vpa \in Vpas,
         Succeeds(RegisterStore(table, Store(id, email, vpa)))
  PROVE  LET after == RegisterStore(table, Store(id, email, vpa)).val
         IN  /\ StoresFit(after) /\ RowIds(after) = RowIds(table) \cup {id}
             /\ table \subseteq after /\ \A s \in after : s \in table \/ (s.id = id /\ s.plan = "essential")
<1> DEFINE v == Store(id, email, vpa)
<1>1. v \in StoreRecords /\ v.id = id /\ v.email = email /\ v.vpa = vpa /\ v.plan = "essential"
  BY DEF Store, StoreRecords, MerchantStatus, SubscriptionPlan
<1> HIDE DEF v
<1>2. ~StoreConflict(table, v) /\ RegisterStore(table, v).val = table \cup {v}
  BY DEF RegisterStore, Succeeds, Fail, Ok, CreateStore, v
<1>3. \A w \in table : w.id # id /\ w.email # v.email /\ w.vpa # v.vpa
  BY <1>1, <1>2 DEF StoreConflict, Without, RowIds
<1>4. \A a, b \in table \cup {v} : (a.email = b.email \/ a.vpa = b.vpa \/ a.id = b.id) => a = b
  BY <1>1, <1>3 DEF StoresFit
<1>5. table \cup {v} \subseteq StoreRecords
  BY <1>1 DEF StoresFit
<1>6. RowIds(table \cup {v}) = RowIds(table) \cup {id}
  BY <1>1 DEF RowIds
<1>7. StoresFit(table \cup {v})
  BY <1>4, <1>5 DEF StoresFit
<1>8. RegisterStore(table, Store(id, email, vpa)).val = table \cup {v}
  BY <1>2 DEF v
<1> QED BY <1>1, <1>6, <1>7, <1>8

LEMMA DocumentOf ==
  ASSUME NEW table, DocumentsFit(table), NEW d \in table
  PROVE  RowsOf(table, d.id) = {d} /\ d \in DocumentRecords
BY DEF DocumentsFit, RowsOf

LEMMA DocumentPut ==
  ASSUME NEW table, DocumentsFit(table), NEW d \in table, NEW v \in DocumentRecords, v.id = d.id,
         \A w \in table : w.id # d.id => w.aadhaar # v.aadhaar
  PROVE  /\ DocumentsFit(Without(table, d.id) \cup {v})
         /\ RowIds(Without(table, d.id) \cup {v}) = RowIds(table)
<1> DEFINE after == Without(table, d.id) \cup {v}
<1>1. \A w \in after : w = v \/ (w \in table /\ w.id # d.id)
  BY DEF Without
<1>2. after \subseteq DocumentRecords
  BY <1>1 DEF DocumentsFit
<1>3. \A a, b \in after : (a.aadhaar = b.aadhaar \/ a.id = b.id) => a = b
  BY <1>1 DEF DocumentsFit
<1>4. \A id : id \in RowIds(after) <=> id \in RowIds(table)
  BY DEF RowIds, Without
<1> QED BY <1>2, <1>3, <1>4 DEF DocumentsFit

\* The decision of a reviewer.
LEMMA DocumentVerified ==
  ASSUME NEW table, DocumentsFit(table), NEW id, NEW verified \in BOOLEAN, NEW seen \in Nat
  PROVE  /\ DocumentsFit(VerifyDocument(table, id, verified, seen))
         /\ RowIds(VerifyDocument(table, id, verified, seen)) = RowIds(table)
         /\ \A d \in VerifyDocument(table, id, verified, seen) :
              /\ d.id # id => d \in table
              /\ d.id = id => d.passed = seen
              /\ \E e \in table : e.id = d.id /\ e.version = d.version
<1>1. CASE RowsOf(table, id) = {}
  <2>1. VerifyDocument(table, id, verified, seen) = table /\ \A d \in table : d.id # id
    BY <1>1 DEF VerifyDocument, RowsOf, Without
  <2> QED BY <2>1
<1>2. CASE RowsOf(table, id) # {}
  <2>1. PICK d \in table : d.id = id
    BY <1>2 DEF RowsOf
  <2>2. RowsOf(table, id) = {d} /\ d \in DocumentRecords
    BY <2>1, DocumentOf
  <2> DEFINE v == [d EXCEPT !.verified = verified, !.passed = seen]
  <2>3. VerifyDocument(table, id, verified, seen) = Without(table, d.id) \cup {v}
    BY <2>1, <2>2 DEF VerifyDocument
  <2>4. v \in DocumentRecords /\ v.id = d.id /\ v.aadhaar = d.aadhaar /\ v.version = d.version
        /\ v.passed = seen
    BY <2>2 DEF DocumentRecords
  <2>5. \A w \in table : w.id # d.id => w.aadhaar # v.aadhaar
    BY <2>4 DEF DocumentsFit
  <2> HIDE DEF v
  <2>6. /\ DocumentsFit(Without(table, d.id) \cup {v})
        /\ RowIds(Without(table, d.id) \cup {v}) = RowIds(table)
    BY <2>4, <2>5, DocumentPut
  <2>7. \A w \in Without(table, d.id) \cup {v} :
          /\ w.id # id => w \in table
          /\ w.id = id => w.passed = seen
          /\ \E e \in table : e.id = w.id /\ e.version = w.version
    BY <2>1, <2>4 DEF Without
  <2> QED BY <2>3, <2>6, <2>7
<1> QED BY <1>1, <1>2

\* UpdateKYCDocuments of a store that has documents, as every store has.
LEMMA DocumentReplaced ==
  ASSUME NEW table, DocumentsFit(table), NEW stores_, RowIds(table) = RowIds(stores_), NEW id,
         NEW aadhaar \in Aadhaars, Succeeds(UpdateKYCDocuments(table, stores_, id, aadhaar))
  PROVE  LET after == UpdateKYCDocuments(table, stores_, id, aadhaar).val
         IN  /\ DocumentsFit(after) /\ RowIds(after) = RowIds(table)
             /\ \A d \in after : d.id # id => d \in table
             /\ \A d \in after : d.id = id => ~d.verified
<1>1. ~KYCConflict(table, id, aadhaar)
  BY DEF UpdateKYCDocuments, Succeeds, Fail
<1>2. RowsOf(table, id) # {}
  BY <1>1, IdOf DEF UpdateKYCDocuments, Succeeds, Fail
<1>3. PICK d \in table : d.id = id
  BY <1>2 DEF RowsOf
<1>4. RowsOf(table, id) = {d} /\ d \in DocumentRecords
  BY <1>3, DocumentOf
<1> DEFINE n == d.version + 1
           v == [d EXCEPT !.aadhaar = aadhaar, !.verified = FALSE, !.version = n]
<1>5. UpdateKYCDocuments(table, stores_, id, aadhaar).val = Without(table, d.id) \cup {v}
  BY <1>1, <1>2, <1>3, <1>4 DEF UpdateKYCDocuments, UpdateKYCDocumentsByStoreID, Ok
<1>6. v \in DocumentRecords /\ v.id = d.id /\ v.aadhaar = aadhaar /\ ~v.verified
  <2>1. d.version \in Nat
    BY <1>4 DEF DocumentRecords
  <2>2. n \in Nat
    BY <2>1
  <2> HIDE DEF n
  <2> QED BY <1>4, <2>2 DEF DocumentRecords
<1>7. \A w \in table : w.id # d.id => w.aadhaar # v.aadhaar
  BY <1>1, <1>3, <1>6 DEF KYCConflict, Without
<1> HIDE DEF v
<1>8. /\ DocumentsFit(Without(table, d.id) \cup {v})
      /\ RowIds(Without(table, d.id) \cup {v}) = RowIds(table)
  BY <1>6, <1>7, DocumentPut
<1>9. \A w \in Without(table, d.id) \cup {v} : (w.id # id => w \in table) /\ (w.id = id => ~w.verified)
  BY <1>3, <1>6 DEF Without
<1> QED BY <1>5, <1>8, <1>9

LEMMA DocumentInserted ==
  ASSUME NEW table, DocumentsFit(table), NEW id \in Nat, id \notin RowIds(table), NEW aadhaar \in Aadhaars,
         Succeeds(RepoSubmitKYC(table, id, aadhaar))
  PROVE  LET after == RepoSubmitKYC(table, id, aadhaar).val
         IN  /\ DocumentsFit(after) /\ RowIds(after) = RowIds(table) \cup {id}
             /\ \A d \in after : d \in table \/ (d.id = id /\ ~d.verified)
<1> DEFINE v == KYCDocument(id, aadhaar)
<1>1. v \in DocumentRecords /\ v.id = id /\ v.aadhaar = aadhaar /\ ~v.verified
  BY DEF KYCDocument, DocumentRecords
<1>2. ~KYCConflict(table, id, aadhaar) /\ RepoSubmitKYC(table, id, aadhaar).val = table \cup {v}
  BY DEF RepoSubmitKYC, Succeeds, Fail, Ok, SubmitKYC
<1> HIDE DEF v
<1>3. \A w \in table : w.id # id /\ w.aadhaar # v.aadhaar
  BY <1>1, <1>2 DEF KYCConflict, Without, RowIds
<1>4. DocumentsFit(table \cup {v})
  BY <1>1, <1>3 DEF DocumentsFit
<1>5. RowIds(table \cup {v}) = RowIds(table) \cup {id}
  BY <1>1 DEF RowIds
<1> QED BY <1>1, <1>2, <1>4, <1>5

LEMMA SubscriptionPut ==
  ASSUME NEW table, NEW stores_, NEW plans, plans \subseteq SubscriptionPlan,
         SubscriptionsFit(table, RowIds(stores_), plans), NEW id \in Nat, NEW plan
  PROVE  LET sub == Subscription(id, plan)
             written == UpsertSubscription(table, stores_, plans, sub)
         IN  /\ Succeeds(written) <=> id \in RowIds(stores_) /\ plan \in plans
             /\ Succeeds(written) =>
                  /\ SubscriptionsFit(written.val, RowIds(stores_), plans)
                  /\ RowIds(written.val) = RowIds(table) \cup {id}
                  /\ \A s \in written.val : s = sub \/ (s \in table /\ s.id # id)
<1> DEFINE sub == Subscription(id, plan)
           written == UpsertSubscription(table, stores_, plans, sub)
<1>1. sub.id = id /\ sub.plan = plan /\ (plan \in plans => sub \in SubscriptionRecords)
  BY DEF Subscription, SubscriptionRecords
<1>2. Succeeds(written) <=> id \in RowIds(stores_) /\ plan \in plans
  BY <1>1, IdOf DEF UpsertSubscription, Succeeds, Fail, Ok
<1>3. ASSUME Succeeds(written)
      PROVE  /\ SubscriptionsFit(written.val, RowIds(stores_), plans)
             /\ RowIds(written.val) = RowIds(table) \cup {id}
             /\ \A s \in written.val : s = sub \/ (s \in table /\ s.id # id)
  <2>1. written.val = Without(table, id) \cup {sub}
    BY <1>1, <1>3 DEF UpsertSubscription, Succeeds, Fail, Ok, UpsertMerchantSubscription
  <2>2. id \in RowIds(stores_) /\ plan \in plans
    BY <1>2, <1>3
  <2> HIDE DEF written, sub
  <2>3. SubscriptionsFit(written.val, RowIds(stores_), plans)
    BY <1>1, <2>1, <2>2 DEF SubscriptionsFit, Without
  <2>4. \A i : i \in RowIds(written.val) <=> i \in RowIds(table) \cup {id}
    BY <1>1, <2>1 DEF RowIds, Without
  <2>5. \A s \in written.val : s = sub \/ (s \in table /\ s.id # id)
    BY <2>1 DEF Without
  <2> QED BY <2>3, <2>4, <2>5
<1> HIDE DEF written, sub
<1>4. /\ Succeeds(written) <=> id \in RowIds(stores_) /\ plan \in plans
      /\ Succeeds(written) =>
           /\ SubscriptionsFit(written.val, RowIds(stores_), plans)
           /\ RowIds(written.val) = RowIds(table) \cup {id}
           /\ \A s \in written.val : s = sub \/ (s \in table /\ s.id # id)
  BY <1>2, <1>3
<1> QED BY <1>4 DEF written, sub

-----------------------------------------------------------------------------
(* Active campaigns *)

LEMMA OneOrNone ==
  ASSUME NEW set, \A a, b \in set : a = b
  PROVE  IsFiniteSet(set) /\ Cardinality(set) \in {0, 1} /\ (Cardinality(set) = 0 => set = {})
<1>1. CASE set = {}
  BY <1>1, FS_EmptySet
<1>2. CASE set # {}
  <2>1. PICK a \in set : set = {a}
    BY <1>2
  <2>2. IsFiniteSet(set) /\ Cardinality(set) = 1
    BY <2>1, FS_Singleton
  <2> QED BY <2>2
<1> QED BY <1>1, <1>2

LEMMA ActiveAmongAll ==
  ASSUME NEW table, NEW ids, NEW n, CampaignsFit(table, ids, n), NEW store, NEW but
  PROVE  /\ ActiveIn(table, store, but) \subseteq ActiveIn(table, store, 0)
         /\ store \notin ids => ActiveIn(table, store, but) = {}
BY DEF ActiveIn, CampaignsFit, CampaignRecords

LEMMA CampaignInserted ==
  ASSUME NEW table, NEW stores_, NEW n \in Nat, CampaignsFit(table, RowIds(stores_), n), NEW store \in Nat
  PROVE  LET new == Campaign(n + 1, store, "active")
             inserted == RepoCreateCampaign(table, stores_, new)
             after == Then(inserted, table)
             m == IF Succeeds(inserted) THEN n + 1 ELSE n
         IN  /\ CampaignsFit(after, RowIds(stores_), m) /\ m \in Nat /\ n <= m
             /\ \A id : id # store => ActiveIn(after, id, 0) \subseteq ActiveIn(table, id, 0)
             /\ ActiveIn(table, store, 0) = {} => OneActive(after, store)
<1> DEFINE new == Campaign(n + 1, store, "active")
           inserted == RepoCreateCampaign(table, stores_, new)
<1>1. new \in CampaignRecords /\ new.id = n + 1 /\ new.store = store /\ new.status = "active"
  BY DEF Campaign, CampaignRecords
<1>2. CASE ~Succeeds(inserted)
  BY <1>2 DEF Then, OneActive
<1>3. CASE Succeeds(inserted)
  <2>1. inserted.val = table \cup {new} /\ store \in RowIds(stores_)
    BY <1>1, <1>3, IdOf DEF RepoCreateCampaign, Succeeds, Fail, Ok, CreateCampaign
  <2> HIDE DEF inserted, new
  <2>2. CampaignsFit(table \cup {new}, RowIds(stores_), n + 1)
    <3>1. \A m \in table : m.id \in Nat /\ m.id <= n
      BY DEF CampaignsFit, CampaignRecords
    <3>2. \A m \in table \cup {new} : m.store \in RowIds(stores_) /\ m.id <= n + 1
      BY <1>1, <2>1, <3>1 DEF CampaignsFit
    <3>3. \A a, b \in table \cup {new} : a.id = b.id => a = b
      BY <1>1, <3>1 DEF CampaignsFit
    <3> QED BY <1>1, <3>2, <3>3 DEF CampaignsFit
  <2>3. \A id : id # store => ActiveIn(table \cup {new}, id, 0) \subseteq ActiveIn(table, id, 0)
    BY <1>1 DEF ActiveIn
  <2>4. ActiveIn(table, store, 0) = {} => OneActive(table \cup {new}, store)
    BY <1>1 DEF ActiveIn, OneActive
  <2>5. n + 1 \in Nat /\ n <= n + 1 /\ Then(inserted, table) = table \cup {new}
    BY <1>3, <2>1 DEF Then
  <2>6. /\ CampaignsFit(Then(inserted, table), RowIds(stores_), n + 1) /\ n + 1 \in Nat /\ n <= n + 1
        /\ \A id : id # store => ActiveIn(Then(inserted, table), id, 0) \subseteq ActiveIn(table, id, 0)
        /\ ActiveIn(table, store, 0) = {} => OneActive(Then(inserted, table), store)
    BY <2>2, <2>3, <2>4, <2>5
  <2> QED BY <1>3, <2>6 DEF inserted, new
<1> QED BY <1>2, <1>3

\* A row rewritten, of one store or of whatever store it is.
Marks(after, table, chosen, status) ==
  \A a \in after : \E m \in table : a = IF m \in chosen THEN [m EXCEPT !.status = status] ELSE m

LEMMA CampaignMarked ==
  ASSUME NEW table, NEW ids, NEW n, CampaignsFit(table, ids, n), NEW chosen, chosen \subseteq table,
         NEW status \in {"active", "paused"}, NEW after, Marks(after, table, chosen, status)
  PROVE  /\ CampaignsFit(after, ids, n)
         /\ \A id : (status = "paused" \/ \A m \in chosen : m.store # id) =>
              ActiveIn(after, id, 0) \subseteq ActiveIn(table, id, 0)
         /\ \A id, but : chosen \subseteq RowsOf(table, but) /\ ActiveIn(table, id, but) = {} =>
              OneActive(after, id)
<1> DEFINE marked(m) == IF m \in chosen THEN [m EXCEPT !.status = status] ELSE m
<1>1. \A m \in table : /\ marked(m) \in CampaignRecords /\ marked(m).id = m.id /\ marked(m).store = m.store
                       /\ m \notin chosen => marked(m) = m
                       /\ m \in chosen => marked(m).status = status
  BY DEF CampaignsFit, CampaignRecords
<1>3. \A a \in after : \E m \in table : a = marked(m)
  BY DEF Marks
<1> HIDE DEF marked
<1>4. CampaignsFit(after, ids, n)
  <2>1. \A a \in after : a \in CampaignRecords /\ a.store \in ids /\ a.id <= n
    BY <1>1, <1>3 DEF CampaignsFit
  <2>2. \A a, b \in after : a.id = b.id => a = b
    BY <1>1, <1>3 DEF CampaignsFit
  <2> QED BY <2>1, <2>2 DEF CampaignsFit
<1>5. ASSUME NEW id, status = "paused" \/ \A m \in chosen : m.store # id
      PROVE  ActiveIn(after, id, 0) \subseteq ActiveIn(table, id, 0)
  <2> SUFFICES ASSUME NEW a \in ActiveIn(after, id, 0) PROVE a \in ActiveIn(table, id, 0)
    OBVIOUS
  <2>1. PICK m \in table : a = marked(m)
    BY <1>3 DEF ActiveIn
  <2>2. m \notin chosen
    BY <1>1, <1>5, <2>1 DEF ActiveIn
  <2> QED BY <1>1, <2>1, <2>2 DEF ActiveIn
<1>6. ASSUME NEW id, NEW but, chosen \subseteq RowsOf(table, but), ActiveIn(table, id, but) = {}
      PROVE  OneActive(after, id)
  <2>1. \A a \in ActiveIn(after, id, 0) : a.id = but
    <3> SUFFICES ASSUME NEW a \in ActiveIn(after, id, 0), a.id # but PROVE FALSE
      OBVIOUS
    <3>1. PICK m \in table : a = marked(m)
      BY <1>3 DEF ActiveIn
    <3>2. m \notin chosen
      BY <1>1, <1>6, <3>1 DEF RowsOf
    <3> QED BY <1>1, <1>6, <3>1, <3>2 DEF ActiveIn
  <2> QED BY <1>4, <2>1 DEF OneActive, ActiveIn, CampaignsFit
<1> QED BY <1>4, <1>5, <1>6

-----------------------------------------------------------------------------
(* A step *)

LEMMA NoVisitFits ==
  ASSUME NEW ids, NEW campaignTable, NEW storeTable, NEW plans, NEW stopped, NEW faults, NEW docs, NEW free,
         NEW excused, NEW subIds
  PROVE  /\ NoVisit.op = "idle" /\ NoVisit.step = "idle"
         /\ VisitFits(NoVisit, ids) /\ PassedFits(NoVisit, campaignTable, free)
         /\ UpsertFits(NoVisit, storeTable, plans, excused) /\ SeedFits(NoVisit, plans, stopped)
         /\ UpgradeFits(NoVisit, faults, plans, subIds) /\ ReviewFits(NoVisit, docs, excused)
         /\ StatusFits(NoVisit, storeTable, free)
<1> DEFINE v == NoVisit
<1>1. /\ v.op = "idle" /\ v.step = "idle" /\ v.store = 0 /\ ~v.again
  BY DEF NoVisit
<1>2. v \in VisitRecords
  BY DEF NoVisit, VisitRecords, VisitOps, VisitSteps
<1> HIDE DEF v
<1>3. VisitFits(v, ids)
  BY <1>1, <1>2 DEF VisitFits, Orders
<1>4. /\ PassedFits(v, campaignTable, free) /\ UpsertFits(v, storeTable, plans, excused)
      /\ SeedFits(v, plans, stopped) /\ UpgradeFits(v, faults, plans, subIds)
  BY <1>1 DEF PassedFits, UpsertFits, SeedFits, UpgradeFits
<1>5. ReviewFits(v, docs, excused) /\ StatusFits(v, storeTable, free)
  BY <1>1 DEF ReviewFits, Reviews, StatusFits
<1> QED BY <1>1, <1>3, <1>4, <1>5 DEF v

LEMMA CallEnds ==
  ASSUME NEW c \in StoreCalls, visits'[c] = NoVisit
  PROVE  CallFits(visits[c])'
BY NoVisitFits DEF CallFits

\* A call that is about the same store as before is noticed already.
LEMMA OverlapsStay ==
  ASSUME OverlapsNoticed, VisitsFit, NEW c \in StoreCalls, NEW call, visits' = [visits EXCEPT ![c] = call],
         call.op = "idle" \/ (call.op = visits[c].op /\ call.store = visits[c].store),
         contended \subseteq contended'
  PROVE  OverlapsNoticed'
<1>1. \A d \in StoreCalls : visits'[d] = IF d = c THEN call ELSE visits[d]
  BY DEF VisitsFit
<1> SUFFICES ASSUME NEW d \in StoreCalls, NEW e \in StoreCalls, d # e, visits'[d].op # "idle",
                    visits'[e].op # "idle", visits'[d].store = visits'[e].store
             PROVE  visits'[d].store \in contended'
  BY DEF OverlapsNoticed
<1>2. /\ visits[d].op # "idle" /\ visits[d].store = visits'[d].store
      /\ visits[e].op # "idle" /\ visits[e].store = visits'[e].store
  BY <1>1
<1>3. visits[d].store \in contended
  BY <1>2 DEF OverlapsNoticed
<1> QED BY <1>2, <1>3

\* What the step of one call leaves to the others: each table is as it was, or
\* what changed of it is the store of the call, or was remembered.
LEMMA StepKeeps ==
  ASSUME MInv, RowsFit', OverlapsNoticed', NEW c \in StoreCalls, NEW call,
         visits' = [visits EXCEPT ![c] = call], CallFits(visits[c])',
         events \subseteq events', tiers \subseteq tiers', forced \subseteq forced',
         contended \subseteq contended', unsettled \subseteq unsettled', overtaken \subseteq overtaken',
         seedStopped => seedStopped', storeFaults' >= storeFaults,
         \/ campaigns' = campaigns
         \/ events' = events /\
            \A id \in events \ (forced' \cup contended') :
              \/ ActiveIn(campaigns', id, 0) \subseteq ActiveIn(campaigns, id, 0)
              \/ id = visits[c].store /\ visits[c].op # "idle" /\ OneActive(campaigns', id),
         \/ stores' = stores /\ subs' = subs
         \/ PlansAgree' /\
            \A s \in stores' :
              \/ s.id \notin events \/ s.id \in unsettled'
              \/ \E t \in stores : t.id = s.id /\ t.plan = s.plan
              \/ \A d \in StoreCalls \ {c} : visits[d].step = "upsert" => visits[d].store # s.id,
         RowIds(subs) \subseteq RowIds(subs)' \cup forced',
         \/ tiers' = tiers /\ seedStopped' = seedStopped /\ visits[c].step # "seed"
         \/ CatalogFits',
         \/ unhonoured' = unhonoured
         \/ PaidUpgradesSucceed',
         \/ kyc' = kyc
         \/ VerifiedWasSeen' /\
            \A d \in kyc' :
              \/ d.id \notin events \/ d.id \in overtaken'
              \/ \E e \in kyc : e.id = d.id /\ e.version = d.version
              \/ \A x \in StoreCalls \ {c} : Reviews(visits[x]) => visits[x].store # d.id,
         \/ stores' = stores /\ accounts' = accounts /\ synced' = synced
         \/ AccountFollowsStore' /\
            \A s \in stores' :
              \/ s.id \notin events
              \/ s.id = visits[c].store /\ visits[c].op # "idle"
              \/ \E t \in stores : t.id = s.id /\ t.status = s.status /\ t.email = s.email
  PROVE  MInv'
<1>1. /\ visits' \in [StoreCalls -> VisitRecords]
      /\ \A d \in StoreCalls : visits'[d] = IF d = c THEN call ELSE visits[d]
  <2>1. visits'[c] = call
    BY DEF MInv, VisitsFit
  <2>2. call \in VisitRecords
    BY <2>1 DEF CallFits, VisitFits
  <2> QED BY <2>2 DEF MInv, VisitsFit
<1>2. \A id : id \in events => id # 0 /\ id \in Nat
  BY DEF MInv, RowsFit, NumbersFit
<1>3. ASSUME NEW d \in StoreCalls, d # c PROVE CallFits(visits[d])'
  <2> DEFINE v == visits[d]
  <2>1. CallFits(v) /\ visits'[d] = v
    BY <1>1, <1>3 DEF MInv, VisitsFit
  <2>2. v.store \in events \cup {0}
    BY <2>1 DEF CallFits, VisitFits
  <2>3. v.op # "idle" /\ visits[c].op # "idle" /\ v.store = visits[c].store => v.store \in contended'
    BY <1>3 DEF MInv, OverlapsNoticed
  <2> HIDE DEF v
  <2>4. VisitFits(v, events')
    BY <2>1 DEF CallFits, VisitFits
  <2>5. PassedFits(v, campaigns', forced' \cup contended')
    <3> SUFFICES ASSUME v.op \in {"create", "activate"}, v.step = "write",
                        v.store \notin forced' \cup contended'
                 PROVE  ActiveIn(campaigns', v.store, v.campaign) = {}
      BY DEF PassedFits
    <3>1. ActiveIn(campaigns, v.store, v.campaign) = {}
      BY <2>1 DEF CallFits, PassedFits
    <3>2. CASE campaigns' = campaigns
      BY <3>1, <3>2
    <3>3. CASE v.store = 0
      <4>1. 0 \notin RowIds(stores')
        BY DEF RowsFit, StoresFit, StoreRecords, RowIds
      <4>2. CampaignsFit(campaigns', RowIds(stores'), inserts')
        BY DEF RowsFit
      <4> QED BY <3>3, <4>1, <4>2, ActiveAmongAll
    <3>4. CASE campaigns' # campaigns /\ v.store # 0
      <4>1. /\ v.store \in events \ (forced' \cup contended')
            /\ ~(v.store = visits[c].store /\ visits[c].op # "idle")
        BY <2>2, <2>3, <3>4
      <4>2. ActiveIn(campaigns', v.store, 0) \subseteq ActiveIn(campaigns, v.store, 0)
        BY <3>4, <4>1
      <4>3. ActiveIn(campaigns', v.store, v.campaign) \subseteq ActiveIn(campaigns, v.store, v.campaign)
        <5> SUFFICES ASSUME NEW m \in ActiveIn(campaigns', v.store, v.campaign)
                     PROVE  m \in ActiveIn(campaigns, v.store, v.campaign)
          OBVIOUS
        <5>1. m \in ActiveIn(campaigns', v.store, 0)
          BY ActiveAmongAll DEF RowsFit
        <5>2. m \in ActiveIn(campaigns, v.store, 0)
          BY <4>2, <5>1
        <5> QED BY <5>2 DEF ActiveIn
      <4> QED BY <3>1, <4>3
    <3> QED BY <3>2, <3>3, <3>4
  <2>6. UpsertFits(v, stores', tiers', unsettled')
    <3> SUFFICES ASSUME v.step = "upsert"
                 PROVE  /\ v.status \in tiers' \cup {"essential"}
                        /\ \A s \in stores' : s.id = v.store => s.plan = v.status \/ s.id \in unsettled'
      BY DEF UpsertFits
    <3>1. /\ v.status \in tiers \cup {"essential"}
          /\ \A s \in stores : s.id = v.store => s.plan = v.status \/ s.id \in unsettled
      BY <2>1 DEF CallFits, UpsertFits
    <3>2. ASSUME NEW s \in stores', s.id = v.store PROVE s.plan = v.status \/ s.id \in unsettled'
      <4>1. CASE stores' = stores
        BY <3>1, <3>2, <4>1
      <4>2. CASE s.id \in unsettled' \/ \E t \in stores : t.id = s.id /\ t.plan = s.plan
        BY <3>1, <3>2, <4>2
      <4>3. ~ \A e \in StoreCalls \ {c} : visits[e].step = "upsert" => visits[e].store # s.id
        BY <1>3, <3>2 DEF v
      <4>4. s.id \in events
        <5>1. s.id # 0
          BY DEF RowsFit, StoresFit, StoreRecords
        <5> QED BY <2>2, <3>2, <5>1
      <4> QED BY <4>1, <4>2, <4>3, <4>4
    <3> QED BY <3>1, <3>2
  <2>7. SeedFits(v, tiers', seedStopped')
    BY <2>1 DEF CallFits, SeedFits
  <2>8. UpgradeFits(v, storeFaults', tiers', RowIds(subs)' \cup forced')
    <3>1. storeFaults' = 0 => storeFaults = 0
      BY DEF MInv, RowsFit, NumbersFit
    <3> QED BY <2>1, <3>1 DEF CallFits, UpgradeFits
  <2>9. ReviewFits(v, kyc', overtaken')
    <3> SUFFICES ASSUME NEW x \in kyc', Reviews(v), x.id = v.store
                 PROVE  v.n = x.version \/ x.id \in overtaken'
      BY DEF ReviewFits
    <3>1. \A e \in kyc : e.id = v.store => v.n = e.version \/ e.id \in overtaken
      BY <2>1 DEF CallFits, ReviewFits
    <3>2. CASE kyc' = kyc
      BY <3>1, <3>2
    <3>3. CASE x.id \in overtaken' \/ \E e \in kyc : e.id = x.id /\ e.version = x.version
      BY <3>1, <3>3
    <3>4. ~ \A y \in StoreCalls \ {c} : Reviews(visits[y]) => visits[y].store # x.id
      BY <1>3 DEF v
    <3>5. x.id \in events
      <4>1. v.store # 0
        BY <2>1 DEF Reviews, CallFits, VisitFits
      <4> QED BY <2>2, <4>1
    <3> QED BY <3>2, <3>3, <3>4, <3>5
  <2>10. StatusFits(v, stores', contended')
    <3> SUFFICES ASSUME NEW s \in stores', v.op = "status", s.id = v.store, s.id \notin contended'
                 PROVE  /\ v.step \in {"profile", "sync"} => s.status = v.status
                        /\ v.step = "sync" => s.email = v.email
      BY DEF StatusFits
    <3>1. \A t \in stores : t.id = v.store =>
             /\ v.step \in {"profile", "sync"} => t.status = v.status
             /\ v.step = "sync" => t.email = v.email
      BY <2>1 DEF CallFits, StatusFits
    <3>2. CASE stores' = stores
      BY <3>1, <3>2
    <3>3. CASE \E t \in stores : t.id = s.id /\ t.status = s.status /\ t.email = s.email
      BY <3>1, <3>3
    <3>4. ~(s.id = visits[c].store /\ visits[c].op # "idle")
      BY <2>3
    <3>5. s.id \in events
      <4>1. v.store # 0
        BY <2>1 DEF CallFits, VisitFits
      <4> QED BY <2>2, <4>1
    <3> QED BY <3>2, <3>3, <3>4, <3>5
  <2> QED BY <2>1, <2>4, <2>5, <2>6, <2>7, <2>8, <2>9, <2>10 DEF CallFits
<1>4. VisitsFit'
  BY <1>1, <1>3 DEF VisitsFit
<1>5. OneActiveEach'
  <2> SUFFICES ASSUME NEW id \in events' \ (forced' \cup contended') PROVE OneActive(campaigns', id)
    BY DEF OneActiveEach
  <2>1. id \in events => OneActive(campaigns, id)
    BY DEF MInv, TablesAgree, OneActiveEach
  <2>2. CASE campaigns' = campaigns
    <3>1. CASE id \notin events
      <4>1. id \notin RowIds(stores)
        BY <3>1 DEF MInv, RowsFit, NumbersFit
      <4>2. ActiveIn(campaigns, id, 0) = {}
        BY <4>1, ActiveAmongAll DEF MInv, RowsFit
      <4> QED BY <2>2, <4>2 DEF OneActive
    <3> QED BY <2>1, <2>2, <3>1
  <2>3. CASE ActiveIn(campaigns', id, 0) \subseteq ActiveIn(campaigns, id, 0) /\ id \in events
    BY <2>1, <2>3 DEF OneActive
  <2> QED BY <2>2, <2>3
<1>6. PlansAgree'
  BY DEF MInv, TablesAgree, PlansAgree
<1>7. CatalogFits'
  <2>1. CASE tiers' = tiers /\ seedStopped' = seedStopped /\ visits[c].step # "seed"
    <3>1. /\ CatalogIsWhole /\ (seedStopped => storeFaults > 0)
          /\ (seedStopped \/ tiers = {} \/ "essential" \in tiers)
      BY DEF MInv, TablesAgree, CatalogFits
    <3>2. CatalogIsWhole'
      BY <1>1, <2>1, <3>1 DEF CatalogIsWhole
    <3>3. seedStopped' => storeFaults' > 0
      BY <2>1, <3>1 DEF MInv, RowsFit, NumbersFit
    <3> QED BY <2>1, <3>1, <3>2, <3>3 DEF CatalogFits
  <2> QED BY <2>1
<1>8. PaidUpgradesSucceed'
  <2>1. storeFaults' = 0 => storeFaults = 0
    BY DEF MInv, RowsFit, NumbersFit
  <2> QED BY <2>1 DEF MInv, TablesAgree, PaidUpgradesSucceed
<1>9. VerifiedWasSeen'
  BY DEF MInv, TablesAgree, VerifiedWasSeen
<1>10. AccountFollowsStore'
  <2>1. CASE stores' = stores /\ accounts' = accounts /\ synced' = synced
    BY <2>1 DEF MInv, TablesAgree, AccountFollowsStore
  <2> QED BY <2>1
<1> QED BY <1>4, <1>5, <1>6, <1>7, <1>8, <1>9, <1>10 DEF MInv, TablesAgree

LEMMA RowsSame ==
  ASSUME RowsFit, UNCHANGED <<storeRows, planRows, inserts>>, forced \subseteq forced', synced' \subseteq events,
         storeFaults' \in Nat, seedStopped' \in BOOLEAN
  PROVE  RowsFit'
<1>1. NumbersFit'
  BY DEF RowsFit, NumbersFit, storeRows, RowIds
<1> QED BY <1>1 DEF RowsFit, storeRows, planRows, RowIds, PlansOf

LEMMA CallOf ==
  ASSUME MInv, NEW c \in StoreCalls
  PROVE  /\ CallFits(visits[c]) /\ VisitFits(visits[c], events) /\ visits[c] \in VisitRecords
         /\ DOMAIN visits = StoreCalls
BY DEF MInv, VisitsFit, CallFits, VisitFits

\* The call of a step that ends it.
LEMMA EndsFits ==
  ASSUME MInv, NEW c \in StoreCalls, Ends(c), contended \subseteq contended'
  PROVE  /\ visits' = [visits EXCEPT ![c] = NoVisit]
         /\ OverlapsNoticed' /\ CallFits(visits[c])'
<1>1. visits' = [visits EXCEPT ![c] = NoVisit] /\ visits'[c] = NoVisit
  BY CallOf DEF Ends, Goes
<1>2. NoVisit.op = "idle"
  BY DEF NoVisit
<1> QED BY <1>1, <1>2, CallEnds, OverlapsStay DEF MInv

\* A step that changes no row.
LEMMA QuietKeeps ==
  ASSUME MInv, NEW c \in StoreCalls, NEW call, visits' = [visits EXCEPT ![c] = call],
         CallFits(call), call.op = "idle" \/ (call.op = visits[c].op /\ call.store = visits[c].store),
         visits[c].step # "seed", UNCHANGED <<storeRows, planRows, inserts>>, SameCount,
         UNCHANGED <<contended, forced, unsettled, overtaken, synced, unhonoured, seedStopped>>
  PROVE  MInv'
<1>1. visits'[c] = call
  BY CallOf
<1>2. /\ stores' = stores /\ kyc' = kyc /\ accounts' = accounts /\ events' = events
      /\ campaigns' = campaigns /\ subs' = subs /\ tiers' = tiers /\ orders' = orders
      /\ storeFaults' = storeFaults
  BY DEF storeRows, planRows, SameCount
<1>3. CallFits(visits[c])'
  <2>1. VisitFits(call, events') /\ PassedFits(call, campaigns', forced' \cup contended')
    BY <1>2 DEF CallFits
  <2>2. UpsertFits(call, stores', tiers', unsettled') /\ SeedFits(call, tiers', seedStopped')
    BY <1>2 DEF CallFits
  <2>3. UpgradeFits(call, storeFaults', tiers', RowIds(subs)' \cup forced')
    BY <1>2 DEF CallFits, RowIds
  <2>4. ReviewFits(call, kyc', overtaken') /\ StatusFits(call, stores', contended')
    BY <1>2 DEF CallFits
  <2> QED BY <1>1, <2>1, <2>2, <2>3, <2>4 DEF CallFits
<1>4. OverlapsNoticed'
  BY OverlapsStay DEF MInv
<1>5. RowsFit'
  BY <1>2, RowsSame DEF MInv, RowsFit, NumbersFit
<1>6. storeFaults' >= storeFaults /\ RowIds(subs) \subseteq RowIds(subs)' \cup forced'
  BY <1>2 DEF MInv, RowsFit, NumbersFit, RowIds
<1> QED BY <1>2, <1>3, <1>4, <1>5, <1>6, StepKeeps

LEMMA QuietEnds ==
  ASSUME MInv, NEW c \in StoreCalls, Ends(c), visits[c].step # "seed",
         UNCHANGED <<storeRows, planRows, inserts>>, SameCount,
         UNCHANGED <<contended, forced, unsettled, overtaken, synced, unhonoured, seedStopped>>
  PROVE  MInv'
<1>1. CallFits(NoVisit) /\ NoVisit.op = "idle"
  BY NoVisitFits DEF CallFits
<1> QED BY <1>1, QuietKeeps DEF Ends, Goes

-----------------------------------------------------------------------------
(* Steps that only read *)

LEMMA FirstTier == 1 \in 1 .. 3
OBVIOUS

\* A call that goes on, as far as its own parts say.
LEMMA GoesOn ==
  ASSUME MInv, NEW c \in StoreCalls, NEW call \in VisitRecords, call.op = visits[c].op,
         call.store = visits[c].store, call.campaign = visits[c].campaign, visits[c].step # "seed",
         call.n = visits[c].n, call.step = "seed" => call.op \in Orders,
         call.again => call.step \in {"initialize", "upsert", "update"},
         call.op \in {"register", "kyc"} =>
           call.email = visits[c].email /\ call.vpa = visits[c].vpa /\ call.aadhaar = visits[c].aadhaar,
         call.op \in {"change", "verify", "order", "admin plan"} => call.plan = visits[c].plan
  PROVE  VisitFits(call, events) /\ ReviewFits(call, kyc, overtaken)
<1> DEFINE v == visits[c]
<1>1. VisitFits(v, events) /\ ReviewFits(v, kyc, overtaken)
  BY CallOf DEF CallFits
<1> HIDE DEF v
<1>2. VisitFits(call, events)
  <2>1. call.step = "seed" => call.op \in Orders /\ call.n \in 1 .. 3
    <3>1. call.op \in Orders => call.n = 1
      BY <1>1 DEF VisitFits, v
    <3> QED BY <3>1, FirstTier, Zenon
  <2>2. call.op \in Orders /\ call.step # "seed" => call.n = 1
    BY <1>1 DEF VisitFits, v
  <2> QED BY <1>1, <2>1, <2>2 DEF VisitFits, v
<1>3. ReviewFits(call, kyc, overtaken)
  BY <1>1 DEF ReviewFits, Reviews, v
<1> QED BY <1>2, <1>3

LEMMA FetchContactEmailKeeps ==
  ASSUME MInv, NEW c \in StoreCalls, FetchContactEmail(c)
  PROVE  MInv'
<1> DEFINE v == visits[c]
           store == StoreProfile(stores, v.store)
           call == [v EXCEPT !.step = "sync", !.email = store.val.email]
<1>1. /\ v.op = "status" /\ v.step = "profile" /\ UNCHANGED <<storeRows, planRows, inserts>> /\ Quiet
      /\ IF Succeeds(store) THEN visits' = [visits EXCEPT ![c] = call] ELSE Ends(c)
  BY DEF FetchContactEmail, At, Goes
<1>2. v \in VisitRecords
  BY CallOf
<1>3. CASE ~Succeeds(store)
  BY <1>1, <1>3, QuietEnds DEF Quiet, merchantGhosts
<1>4. CASE Succeeds(store)
  <2>1. store.val \in stores /\ store.val.id = v.store
    <3>1. store.val \in RowsOf(stores, v.store)
      BY <1>4, RowFound DEF StoreProfile, GetStoreProfileByStoreID
    <3> QED BY <3>1 DEF RowsOf
  <2>2. StoresFit(stores)
    BY DEF MInv, RowsFit
  <2> DEFINE email == store.val.email
  <2>3. email \in StoreEmails
    BY <2>1, <2>2 DEF StoresFit, StoreRecords
  <2>4. \A s \in stores : s.id = v.store => s.email = email
    BY <2>1, <2>2 DEF StoresFit
  <2>5. StatusFits(v, stores, contended)
    BY CallOf DEF CallFits
  <2> HIDE DEF store
  <2>6. /\ call \in VisitRecords /\ call.op = "status" /\ call.step = "sync" /\ call.store = v.store
        /\ call.campaign = v.campaign /\ call.n = v.n /\ call.status = v.status /\ call.email = email
        /\ call.again = v.again
    BY <1>1, <1>2, <2>3 DEF VisitRecords, VisitSteps
  <2>7. ~v.again
    BY <1>1, CallOf DEF VisitFits
  <2> HIDE DEF call
  <2>8. VisitFits(call, events) /\ ReviewFits(call, kyc, overtaken)
    BY <1>1, <2>6, <2>7, GoesOn
  <2>9. StatusFits(call, stores, contended)
    BY <1>1, <2>4, <2>5, <2>6 DEF StatusFits
  <2>10. /\ PassedFits(call, campaigns, forced \cup contended) /\ UpsertFits(call, stores, tiers, unsettled)
         /\ SeedFits(call, tiers, seedStopped) /\ UpgradeFits(call, storeFaults, tiers, RowIds(subs) \cup forced)
    BY <2>6 DEF PassedFits, UpsertFits, SeedFits, UpgradeFits
  <2>11. CallFits(call)
    BY <2>8, <2>9, <2>10 DEF CallFits
  <2> QED BY <1>1, <1>4, <2>6, <2>11, QuietKeeps DEF Quiet, merchantGhosts
<1> QED BY <1>3, <1>4

LEMMA FetchPlanKeeps ==
  ASSUME MInv, NEW c \in StoreCalls, FetchPlan(c)
  PROVE  MInv'
<1> DEFINE v == visits[c]
           store == StoreProfile(stores, v.store)
           call == [v EXCEPT !.step = "count", !.plan = store.val.plan]
<1>1. /\ v.op \in {"create", "activate"} /\ v.step = "read" /\ UNCHANGED <<storeRows, planRows, inserts>>
      /\ Quiet /\ IF Succeeds(store) THEN visits' = [visits EXCEPT ![c] = call] ELSE Ends(c)
  BY DEF FetchPlan, At, Goes
<1>2. v \in VisitRecords
  BY CallOf
<1>3. CASE ~Succeeds(store)
  BY <1>1, <1>3, QuietEnds DEF Quiet, merchantGhosts
<1>4. CASE Succeeds(store)
  <2>1. store.val \in stores
    BY <1>4, RowFound DEF StoreProfile, GetStoreProfileByStoreID, RowsOf
  <2>2. store.val.plan \in SubscriptionPlan
    BY <2>1 DEF MInv, RowsFit, StoresFit, StoreRecords
  <2> HIDE DEF store
  <2>3. /\ call \in VisitRecords /\ call.op = v.op /\ call.step = "count" /\ call.store = v.store
        /\ call.campaign = v.campaign /\ call.n = v.n /\ call.again = v.again
    BY <1>1, <1>2, <2>2 DEF VisitRecords, VisitSteps
  <2>4. ~v.again
    BY <1>1, CallOf DEF VisitFits
  <2> HIDE DEF call
  <2>5. VisitFits(call, events) /\ ReviewFits(call, kyc, overtaken)
    BY <1>1, <2>3, <2>4, GoesOn
  <2>6. /\ PassedFits(call, campaigns, forced \cup contended) /\ UpsertFits(call, stores, tiers, unsettled)
        /\ SeedFits(call, tiers, seedStopped) /\ UpgradeFits(call, storeFaults, tiers, RowIds(subs) \cup forced)
        /\ StatusFits(call, stores, contended)
    BY <1>1, <2>3 DEF PassedFits, UpsertFits, SeedFits, UpgradeFits, StatusFits
  <2>7. CallFits(call)
    BY <2>5, <2>6 DEF CallFits
  <2> QED BY <1>1, <1>4, <2>3, <2>7, QuietKeeps DEF Quiet, merchantGhosts
<1> QED BY <1>3, <1>4

\* The count is of a store without a campaign that is active, unless it was
\* forced or contended: the plan is neither of the two names.
LEMMA CheckLimitKeeps ==
  ASSUME MInv, NEW c \in StoreCalls, CheckLimit(c)
  PROVE  MInv'
<1> DEFINE v == visits[c]
           active == Active(v.store, v.campaign)
           call == [v EXCEPT !.step = "write"]
           allowed == AllowsAnother(v.plan, Cardinality(active))
<1>1. /\ v.op \in {"create", "activate"} /\ v.step = "count" /\ UNCHANGED <<storeRows, planRows, inserts>>
      /\ UNCHANGED <<contended, forced, unsettled, overtaken, synced, unhonoured, seedStopped>> /\ SameCount
      /\ IF allowed THEN visits' = [visits EXCEPT ![c] = call] ELSE Ends(c)
  BY DEF CheckLimit, At, Goes, To
<1>2. v \in VisitRecords
  BY CallOf
<1>3. CASE ~allowed
  BY <1>1, <1>3, QuietEnds
<1>4. CASE allowed
  <2>1. active = ActiveIn(campaigns, v.store, v.campaign)
    BY DEF Active, ActiveIn, GetCampaignsByStoreID
  <2>2. Cardinality(active) < 1
    <3>1. v.plan \notin {"Enterprise", "Growth"}
      BY <1>2 DEF VisitRecords, SubscriptionPlan
    <3> HIDE DEF active
    <3> QED BY <1>4, <3>1 DEF AllowsAnother
  <2>3. ASSUME v.store \notin forced \cup contended PROVE active = {}
    <3>1. CampaignsFit(campaigns, RowIds(stores), inserts)
      BY DEF MInv, RowsFit
    <3>2. CASE v.store \in events
      <4>1. OneActive(campaigns, v.store)
        BY <2>3, <3>2 DEF MInv, TablesAgree, OneActiveEach
      <4>2. \A a, b \in active : a = b
        BY <2>1, <3>1, <4>1, ActiveAmongAll DEF OneActive
      <4> HIDE DEF active
      <4> QED BY <2>2, <4>2, OneOrNone
    <3>3. CASE v.store \notin events
      <4>1. v.store \notin RowIds(stores)
        BY <3>3 DEF MInv, RowsFit, NumbersFit
      <4> QED BY <2>1, <3>1, <4>1, ActiveAmongAll
    <3> QED BY <3>2, <3>3
  <2>4. /\ call \in VisitRecords /\ call.op = v.op /\ call.step = "write" /\ call.store = v.store
        /\ call.campaign = v.campaign /\ call.n = v.n /\ call.again = v.again
    BY <1>1, <1>2 DEF VisitRecords, VisitSteps
  <2>5. ~v.again
    BY <1>1, CallOf DEF VisitFits
  <2> HIDE DEF call, allowed
  <2>6. VisitFits(call, events) /\ ReviewFits(call, kyc, overtaken)
    BY <1>1, <2>4, <2>5, GoesOn
  <2>7. /\ UpsertFits(call, stores, tiers, unsettled)
        /\ SeedFits(call, tiers, seedStopped) /\ UpgradeFits(call, storeFaults, tiers, RowIds(subs) \cup forced)
        /\ StatusFits(call, stores, contended)
    BY <1>1, <2>4 DEF UpsertFits, SeedFits, UpgradeFits, StatusFits
  <2>8. PassedFits(call, campaigns, forced \cup contended)
    BY <2>1, <2>3, <2>4 DEF PassedFits
  <2>9. CallFits(call)
    BY <2>6, <2>7, <2>8 DEF CallFits
  <2> QED BY <1>1, <1>4, <2>4, <2>9, QuietKeeps
<1> QED BY <1>3, <1>4

\* A call that goes on about a plan.
Onward(v, call) ==
  /\ call \in VisitRecords /\ call.op = v.op /\ call.store = v.store /\ call.campaign = v.campaign
  /\ call.plan = v.plan /\ call.order = v.order /\ call.n = v.n /\ call.email = v.email /\ call.vpa = v.vpa
  /\ call.aadhaar = v.aadhaar

LEMMA StepOn ==
  ASSUME NEW v \in VisitRecords, NEW step \in VisitSteps
  PROVE  /\ Onward(v, [v EXCEPT !.step = step])
         /\ [v EXCEPT !.step = step].step = step
         /\ [v EXCEPT !.step = step].again = v.again
         /\ [v EXCEPT !.step = step].status = v.status
BY DEF Onward, VisitRecords

LEMMA PlanGoesOn ==
  ASSUME MInv, NEW c \in StoreCalls, visits[c].step # "seed", NEW call, Onward(visits[c], call),
         call.step \in {"catalog", "seed", "subscription", "initialize", "upsert", "order", "check", "update"},
         call.step = "seed" => call.op \in Orders,
         call.again => call.step \in {"initialize", "upsert", "update"},
         UpsertFits(call, stores, tiers, unsettled),
         UpgradeFits(call, storeFaults, tiers, RowIds(subs) \cup forced)
  PROVE  CallFits(call)
<1>1. VisitFits(call, events) /\ ReviewFits(call, kyc, overtaken)
  BY GoesOn DEF Onward
<1>2. PassedFits(call, campaigns, forced \cup contended) /\ StatusFits(call, stores, contended)
  BY DEF PassedFits, StatusFits
<1>3. SeedFits(call, tiers, seedStopped)
  <2> SUFFICES ASSUME call.step = "seed" PROVE call.n = 1
    BY DEF SeedFits
  <2>1. visits[c].op \in Orders /\ VisitFits(visits[c], events)
    BY CallOf DEF Onward
  <2> QED BY <2>1 DEF VisitFits, Onward
<1> QED BY <1>1, <1>2, <1>3 DEF CallFits

LEMMA VerifySignatureKeeps ==
  ASSUME MInv, NEW c \in StoreCalls, VerifySignature(c)
  PROVE  MInv'
<1> DEFINE v == visits[c]
           call == [v EXCEPT !.step = "catalog"]
           paid == \E o \in RowsOf(orders, v.order) : o.paid
<1>1. /\ v.op = "verify" /\ v.step = "read" /\ UNCHANGED <<storeRows, planRows, inserts>> /\ Quiet
      /\ IF paid THEN visits' = [visits EXCEPT ![c] = call] ELSE Ends(c)
  BY DEF VerifySignature, At, Goes, To
<1>2. CASE ~paid
  BY <1>1, <1>2, QuietEnds DEF Quiet, merchantGhosts
<1>3. CASE paid
  <2>1. Onward(v, call) /\ call.step = "catalog" /\ call.again = v.again
    <3>1. "catalog" \in VisitSteps /\ v \in VisitRecords
      BY CallOf DEF VisitSteps
    <3> QED BY <3>1, StepOn
  <2>2. ~v.again
    BY <1>1, CallOf DEF VisitFits
  <2> HIDE DEF call
  <2>3. /\ UpsertFits(call, stores, tiers, unsettled)
        /\ UpgradeFits(call, storeFaults, tiers, RowIds(subs) \cup forced)
    BY <2>1 DEF UpsertFits, UpgradeFits, Upgrading
  <2>4. CallFits(call)
    BY <1>1, <2>1, <2>2, <2>3, PlanGoesOn
  <2>5. call.op = v.op /\ call.store = v.store
    BY <2>1 DEF Onward
  <2> QED BY <1>1, <1>3, <2>4, <2>5, QuietKeeps DEF Quiet, merchantGhosts
<1> QED BY <1>2, <1>3

\* A catalogue that is not empty has its first tier, unless its filling lost a
\* statement.
LEMMA FirstTierThere ==
  ASSUME MInv, storeFaults = 0, tiers # {}
  PROVE  "essential" \in tiers
BY DEF MInv, RowsFit, NumbersFit, TablesAgree, CatalogFits

LEMMA SeedCatalogIfEmptyKeeps ==
  ASSUME MInv, NEW c \in StoreCalls, SeedCatalogIfEmpty(c)
  PROVE  MInv'
<1> DEFINE v == visits[c]
           step == IF GetSubscriptionPlans(tiers) = {} THEN "seed" ELSE "subscription"
           call == [v EXCEPT !.step = step]
<1>1. /\ v.op \in Orders /\ v.step \in {"read", "catalog"} /\ UNCHANGED <<storeRows, planRows, inserts>> /\ Quiet
      /\ visits' = [visits EXCEPT ![c] = call]
  BY DEF SeedCatalogIfEmpty, At, Goes, To, Orders
<1>2. step \in {"seed", "subscription"} /\ (step = "subscription" => tiers # {})
  BY DEF GetSubscriptionPlans
<1>3. ~v.again
  BY <1>1, CallOf DEF VisitFits
<1> HIDE DEF step
<1>4. Onward(v, call) /\ call.step = step /\ call.again = v.again
  <2>1. step \in VisitSteps
    BY <1>2 DEF VisitSteps
  <2>2. v \in VisitRecords
    BY CallOf
  <2> QED BY <2>1, <2>2, StepOn
<1> HIDE DEF call
<1>5. UpsertFits(call, stores, tiers, unsettled)
  BY <1>2, <1>4 DEF UpsertFits
<1>6. UpgradeFits(call, storeFaults, tiers, RowIds(subs) \cup forced)
  BY <1>2, <1>4, FirstTierThere DEF UpgradeFits, Upgrading
<1>7. CallFits(call)
  BY <1>1, <1>2, <1>3, <1>4, <1>5, <1>6, PlanGoesOn DEF Onward
<1>8. call.op = v.op /\ call.store = v.store
  BY <1>4 DEF Onward
<1> QED BY <1>1, <1>7, <1>8, QuietKeeps DEF Quiet, merchantGhosts

\* AfterPlans, for a call whose row is there or is being shown.
LEMMA AfterPlansFits ==
  ASSUME MInv, NEW c \in StoreCalls, visits[c].step # "seed", NEW v, Onward(visits[c], v),
         v.again = FALSE, storeFaults = 0 /\ v.op = "verify" => "essential" \in tiers
  PROVE  /\ CallFits(AfterPlans(v))
         /\ \/ AfterPlans(v).op = "idle"
            \/ AfterPlans(v).op = visits[c].op /\ AfterPlans(v).store = visits[c].store
<1> DEFINE step == IF v.op = "order" THEN "order"
                   ELSE IF v.plan = "enterprise" /\ v.plan \in tiers THEN "update" ELSE "check"
           call == [v EXCEPT !.step = step]
<1>1. CASE v.op \notin {"order", "change", "verify"}
  <2>1. AfterPlans(v) = NoVisit
    BY <1>1 DEF AfterPlans
  <2> QED BY <2>1, NoVisitFits DEF CallFits
<1>2. CASE v.op \in {"order", "change", "verify"}
  <2>1. AfterPlans(v) = call
    BY <1>2 DEF AfterPlans
  <2>2. step \in {"order", "update", "check"}
    OBVIOUS
  <2> HIDE DEF step
  <2>3. v \in VisitRecords
    BY DEF Onward
  <2>4. Onward(v, call) /\ call.step = step /\ call.again = FALSE
    <3>1. step \in VisitSteps
      BY <2>2 DEF VisitSteps
    <3> QED BY <2>3, <3>1, StepOn DEF Onward
  <2> HIDE DEF call
  <2>5. Onward(visits[c], call)
    BY <2>4 DEF Onward
  <2>6. UpsertFits(call, stores, tiers, unsettled)
    BY <2>2, <2>4 DEF UpsertFits
  <2>7. UpgradeFits(call, storeFaults, tiers, RowIds(subs) \cup forced)
    BY <2>2, <2>4 DEF UpgradeFits, Upgrading, Onward
  <2>8. CallFits(call)
    BY <2>2, <2>4, <2>5, <2>6, <2>7, PlanGoesOn
  <2> QED BY <2>1, <2>5, <2>8 DEF Onward
<1> QED BY <1>1, <1>2

LEMMA LookupSubscriptionKeeps ==
  ASSUME MInv, NEW c \in StoreCalls, LookupSubscription(c)
  PROVE  MInv'
<1> DEFINE v == visits[c]
           there == v.store = 0 \/ Succeeds(GetStoreSubscription(subs, v.store))
           call == [v EXCEPT !.step = "initialize"]
<1>1. /\ v.step = "subscription" \/ (v.op = "current" /\ v.step = "read")
      /\ UNCHANGED <<storeRows, planRows, inserts>> /\ Quiet
      /\ visits' = [visits EXCEPT ![c] = IF there THEN AfterPlans(v) ELSE call]
  BY DEF LookupSubscription, At, Goes, To
<1>2. /\ ~v.again /\ v.again \in BOOLEAN /\ v \in VisitRecords
      /\ UpgradeFits(v, storeFaults, tiers, RowIds(subs) \cup forced)
  BY <1>1, CallOf DEF VisitFits, VisitRecords, CallFits
<1>3. storeFaults = 0 /\ v.op = "verify" => "essential" \in tiers
  BY <1>1, <1>2 DEF UpgradeFits, Upgrading
<1>4. CASE there
  <2>1. Onward(v, v) /\ v.again = FALSE
    BY <1>2 DEF Onward
  <2>2. /\ CallFits(AfterPlans(v))
        /\ AfterPlans(v).op = "idle" \/ (AfterPlans(v).op = v.op /\ AfterPlans(v).store = v.store)
    BY <1>1, <1>3, <2>1, AfterPlansFits
  <2>3. visits' = [visits EXCEPT ![c] = AfterPlans(v)]
    BY <1>1, <1>4
  <2> QED BY <1>1, <2>2, <2>3, QuietKeeps DEF Quiet, merchantGhosts
<1>5. CASE ~there
  <2>1. Onward(v, call) /\ call.step = "initialize"
    <3>1. "initialize" \in VisitSteps
      BY DEF VisitSteps
    <3> QED BY <1>2, <3>1, StepOn
  <2>2. visits' = [visits EXCEPT ![c] = call]
    BY <1>1, <1>5
  <2> HIDE DEF call, there
  <2>3. /\ UpsertFits(call, stores, tiers, unsettled)
        /\ UpgradeFits(call, storeFaults, tiers, RowIds(subs) \cup forced)
    BY <1>3, <2>1 DEF UpsertFits, UpgradeFits, Onward
  <2>4. CallFits(call)
    BY <1>1, <2>1, <2>3, PlanGoesOn
  <2>5. call.op = v.op /\ call.store = v.store
    BY <2>1 DEF Onward
  <2> QED BY <1>1, <2>2, <2>4, <2>5, QuietKeeps DEF Quiet, merchantGhosts
<1> QED BY <1>4, <1>5

LEMMA ReadStorePlanKeeps ==
  ASSUME MInv, NEW c \in StoreCalls, ReadStorePlan(c)
  PROVE  MInv'
<1> DEFINE v == visits[c]
           store == StoreProfile(stores, v.store)
           status == IF Succeeds(store) THEN store.val.plan ELSE "essential"
           call == [v EXCEPT !.step = "upsert", !.status = status]
<1>1. /\ v.step = "initialize" /\ UNCHANGED <<storeRows, planRows, inserts>> /\ Quiet
      /\ visits' = [visits EXCEPT ![c] = call]
  BY DEF ReadStorePlan, Goes
<1>2. v \in VisitRecords /\ UpgradeFits(v, storeFaults, tiers, RowIds(subs) \cup forced)
  BY CallOf DEF CallFits
<1>3. /\ status \in tiers \cup {"essential"}
      /\ \A s \in stores : s.id = v.store => s.plan = status
  <2>1. StoresFit(stores) /\ PlansOf(stores) \subseteq tiers \cup {"essential"}
    BY DEF MInv, RowsFit
  <2>2. CASE Succeeds(store)
    <3>1. store.val \in RowsOf(stores, v.store)
      BY <2>2, RowFound DEF StoreProfile, GetStoreProfileByStoreID
    <3>2. store.val \in stores /\ store.val.id = v.store
      BY <3>1 DEF RowsOf
    <3> HIDE DEF store
    <3>3. \A s \in stores : s.id = v.store => s.plan = store.val.plan
      BY <2>1, <3>2 DEF StoresFit
    <3>4. store.val.plan \in PlansOf(stores)
      BY <3>2 DEF PlansOf
    <3> QED BY <2>1, <2>2, <3>3, <3>4
  <2>3. CASE ~Succeeds(store)
    <3>1. RowsOf(stores, v.store) = {}
      BY <2>3, RowMissed DEF StoreProfile, GetStoreProfileByStoreID
    <3>2. \A s \in stores : s.id # v.store
      BY <3>1 DEF RowsOf
    <3> HIDE DEF store
    <3> QED BY <2>3, <3>2
  <2> QED BY <2>2, <2>3
<1>4. status \in MerchantStatus \cup SubscriptionPlan \cup {"blocked", "rejected", "none"}
  BY <1>3 DEF MInv, RowsFit, SubscriptionPlan
<1> HIDE DEF status
<1>5. Onward(v, call) /\ call.step = "upsert" /\ call.status = status
  <2>1. call \in VisitRecords
    BY <1>2, <1>4 DEF VisitRecords, VisitSteps
  <2>2. /\ call.op = v.op /\ call.store = v.store /\ call.campaign = v.campaign /\ call.plan = v.plan
        /\ call.order = v.order /\ call.n = v.n /\ call.email = v.email /\ call.vpa = v.vpa
        /\ call.aadhaar = v.aadhaar /\ call.step = "upsert" /\ call.status = status
    BY <1>2 DEF VisitRecords
  <2> HIDE DEF call
  <2> QED BY <2>1, <2>2 DEF Onward
<1> HIDE DEF call
<1>6. UpsertFits(call, stores, tiers, unsettled)
  BY <1>3, <1>5 DEF UpsertFits, Onward
<1>7. UpgradeFits(call, storeFaults, tiers, RowIds(subs) \cup forced)
  BY <1>1, <1>2, <1>5 DEF UpgradeFits, Upgrading, Onward
<1>8. CallFits(call)
  BY <1>1, <1>5, <1>6, <1>7, PlanGoesOn
<1>9. call.op = v.op /\ call.store = v.store
  BY <1>5 DEF Onward
<1> QED BY <1>1, <1>8, <1>9, QuietKeeps DEF Quiet, merchantGhosts

-----------------------------------------------------------------------------
(* Stores and documents *)

\* Tables that change while the stores stay the stores they are.
LEMMA RowsChange ==
  ASSUME RowsFit, events' = events, tiers' = tiers,
         StoresFit(stores'), RowIds(stores') = RowIds(stores), PlansOf(stores') \subseteq tiers \cup {"essential"},
         DocumentsFit(kyc'), RowIds(kyc') = RowIds(kyc),
         CampaignsFit(campaigns', RowIds(stores), inserts'), SubscriptionsFit(subs', RowIds(stores), tiers),
         OrdersFit(orders', tiers), accounts' \subseteq AccountRecords,
         inserts' \in Nat, inserts <= inserts', storeFaults' \in Nat, seedStopped' \in BOOLEAN,
         forced \subseteq forced', synced' \subseteq events
  PROVE  RowsFit'
<1>1. \A id \in events : id \in Nat /\ 0 < id /\ id <= inserts'
  BY DEF RowsFit, NumbersFit
<1>2. RowIds(stores') \subseteq events /\ events \subseteq RowIds(stores') \cup forced'
  BY DEF RowsFit, NumbersFit
<1>3. NumbersFit'
  BY <1>1, <1>2 DEF NumbersFit, RowIds
<1>4. /\ RowIds(kyc)' = RowIds(kyc') /\ RowIds(stores)' = RowIds(stores') /\ PlansOf(stores)' = PlansOf(stores')
  BY DEF RowIds, PlansOf
<1> QED BY <1>3, <1>4 DEF RowsFit

\* The parts of the invariant that an action is about.
LEMMA Known ==
  ASSUME MInv
  PROVE  /\ RowsFit /\ StoresFit(stores) /\ DocumentsFit(kyc) /\ RowIds(kyc) = RowIds(stores)
         /\ CampaignsFit(campaigns, RowIds(stores), inserts)
         /\ tiers \subseteq SubscriptionPlan /\ PlansOf(stores) \subseteq tiers \cup {"essential"}
         /\ SubscriptionsFit(subs, RowIds(stores), tiers) /\ OrdersFit(orders, tiers)
         /\ accounts \subseteq AccountRecords
         /\ inserts \in Nat /\ storeFaults \in Nat /\ seedStopped \in BOOLEAN /\ synced \subseteq events
         /\ storeFaults >= storeFaults /\ inserts <= inserts
         /\ \A id \in events : id \in Nat /\ 0 < id /\ id <= inserts
         /\ RowIds(stores) \subseteq events /\ events \subseteq RowIds(stores) \cup forced
         /\ OneActiveEach /\ PlansAgree /\ CatalogFits /\ PaidUpgradesSucceed /\ VerifiedWasSeen
         /\ AccountFollowsStore
BY DEF MInv, RowsFit, NumbersFit, TablesAgree

LEMMA ProcessRegistrationKeeps ==
  ASSUME MInv, NEW c \in StoreCalls, ProcessRegistration(c)
  PROVE  MInv'
<1> DEFINE v == visits[c]
           id == inserts + 1
           store == RegisterStore(stores, Store(id, v.email, v.vpa))
           document == RepoSubmitKYC(kyc, id, v.aadhaar)
           done == Succeeds(store) /\ Succeeds(document)
<1>1. /\ v.op = "register" /\ v.step = "read" /\ Ends(c) /\ UNCHANGED <<accounts, planRows>> /\ Quiet
      /\ IF done THEN stores' = store.val /\ kyc' = document.val /\ events' = events \cup {id} /\ inserts' = id
         ELSE UNCHANGED <<stores, kyc, events, inserts>>
  BY DEF ProcessRegistration, At
<1>2. CASE ~done
  <2>1. UNCHANGED <<storeRows, planRows, inserts>>
    BY <1>1, <1>2 DEF storeRows
  <2> QED BY <1>1, <2>1, QuietEnds DEF Quiet, merchantGhosts
<1>3. CASE done
  <2>1. v.email \in StoreEmails /\ v.vpa \in Vpas /\ v.aadhaar \in Aadhaars
    BY <1>1, CallOf DEF VisitFits
  <2>2. /\ id \in Nat \ {0} /\ id \in Nat /\ id \notin events /\ id \notin RowIds(stores) /\ id \notin RowIds(kyc)
        /\ inserts <= id
    BY Known
  <2>3. Succeeds(store) /\ Succeeds(document) /\ stores' = store.val /\ kyc' = document.val
        /\ events' = events \cup {id} /\ inserts' = id
    BY <1>1, <1>3
  <2> HIDE DEF id
  <2>4. /\ StoresFit(stores') /\ RowIds(stores') = RowIds(stores) \cup {id}
        /\ stores \subseteq stores' /\ \A s \in stores' : s \in stores \/ (s.id = id /\ s.plan = "essential")
    BY <2>1, <2>2, <2>3, StoreInserted, Known
  <2>5. /\ DocumentsFit(kyc') /\ RowIds(kyc') = RowIds(kyc) \cup {id}
        /\ \A d \in kyc' : d \in kyc \/ (d.id = id /\ ~d.verified)
    BY <2>1, <2>2, <2>3, DocumentInserted, Known
  <2> HIDE DEF store, document, done
  <2>6. /\ campaigns' = campaigns /\ subs' = subs /\ tiers' = tiers /\ orders' = orders /\ accounts' = accounts
        /\ storeFaults' = storeFaults /\ contended' = contended /\ forced' = forced /\ unsettled' = unsettled
        /\ overtaken' = overtaken /\ synced' = synced /\ unhonoured' = unhonoured /\ seedStopped' = seedStopped
    BY <1>1 DEF planRows, Quiet, SameCount, merchantGhosts
  <2>7. RowsFit'
    <3>1. CampaignsFit(campaigns', RowIds(stores'), inserts')
      BY <2>2, <2>3, <2>4, <2>6, Known DEF CampaignsFit, CampaignRecords
    <3>2. SubscriptionsFit(subs', RowIds(stores'), tiers')
      BY <2>4, <2>6, Known DEF SubscriptionsFit
    <3>3. PlansOf(stores') \subseteq tiers' \cup {"essential"}
      BY <2>4, <2>6, Known DEF PlansOf
    <3>4. \A i \in events' : i \in Nat /\ 0 < i /\ i <= inserts'
      BY <2>2, <2>3, Known
    <3>5. /\ RowIds(stores') \subseteq events' /\ events' \subseteq RowIds(stores') \cup forced'
          /\ synced' \subseteq events'
      BY <2>3, <2>4, <2>6, Known
    <3>6. NumbersFit'
      BY <2>2, <2>3, <2>6, <3>4, <3>5, Known DEF NumbersFit, RowIds
    <3> QED BY <2>4, <2>5, <2>6, <3>1, <3>2, <3>3, <3>6, Known DEF RowsFit, RowIds, PlansOf
  <2>8. /\ visits' = [visits EXCEPT ![c] = NoVisit] /\ OverlapsNoticed' /\ CallFits(visits[c])'
    BY <1>1, <2>6, EndsFits
  <2>9. PlansAgree' /\ \A s \in stores' : s.id \notin events \/ \E t \in stores : t.id = s.id /\ t.plan = s.plan
    <3>1. \A s \in subs : s.id # id
      BY <2>2, Known DEF SubscriptionsFit
    <3> QED BY <2>2, <2>4, <2>6, <3>1, Known DEF PlansAgree
  <2>10. VerifiedWasSeen' /\ \A d \in kyc' : d.id \notin events \/ \E e \in kyc : e.id = d.id /\ e.version = d.version
    BY <2>2, <2>5, <2>6, Known DEF VerifiedWasSeen
  <2>11. /\ AccountFollowsStore'
         /\ \A s \in stores' : s.id \notin events \/ \E t \in stores : t.id = s.id /\ t.status = s.status /\ t.email = s.email
    BY <2>2, <2>4, <2>6, Known DEF AccountFollowsStore
  <2>12. RowIds(subs) \subseteq RowIds(subs)' \cup forced' /\ storeFaults' >= storeFaults /\ visits[c].step # "seed"
    BY <1>1, <2>6, Known DEF RowIds
  <2> QED BY <2>3, <2>6, <2>7, <2>8, <2>9, <2>10, <2>11, <2>12, StepKeeps
<1> QED BY <1>2, <1>3

LEMMA UpdateProfileKeeps ==
  ASSUME MInv, NEW c \in StoreCalls, UpdateProfile(c)
  PROVE  MInv'
<1> DEFINE v == visits[c]
           updated == UpdateStoreProfile(stores, v.store, v.email)
<1>1. /\ v.op = "profile" /\ v.step = "read" /\ Ends(c) /\ stores' = Then(updated, stores)
      /\ synced' = IF stores' # stores THEN synced \ {v.store} ELSE synced
      /\ kyc' = kyc /\ accounts' = accounts /\ events' = events /\ campaigns' = campaigns /\ subs' = subs
      /\ tiers' = tiers /\ orders' = orders /\ inserts' = inserts
      /\ storeFaults' = storeFaults /\ contended' = contended /\ forced' = forced /\ unsettled' = unsettled
      /\ overtaken' = overtaken /\ unhonoured' = unhonoured /\ seedStopped' = seedStopped
  BY DEF UpdateProfile, At, SameCount, planRows
<1>2. /\ StoresFit(stores') /\ RowIds(stores') = RowIds(stores)
      /\ \A s \in stores' :
           /\ s.id # v.store => s \in stores
           /\ \E t \in stores : t.id = s.id /\ t.plan = s.plan /\ t.status = s.status
  <2>1. CASE ~Succeeds(updated)
    BY <1>1, <2>1, Known DEF Then
  <2>2. CASE Succeeds(updated)
    <3>1. v.email \in StoreEmails \cup {"none"}
      BY CallOf DEF VisitRecords
    <3>2. stores' = updated.val
      BY <1>1, <2>2 DEF Then
    <3> QED BY <2>2, <3>1, <3>2, ProfilePut, Known
  <2> QED BY <2>1, <2>2
<1> HIDE DEF updated
<1>3. RowsFit'
  <2>1. PlansOf(stores') \subseteq tiers \cup {"essential"}
    BY <1>2, Known DEF PlansOf
  <2>2. synced' \subseteq events
    BY <1>1, Known
  <2> QED BY <1>1, <1>2, <2>1, <2>2, RowsChange, Known
<1>4. /\ visits' = [visits EXCEPT ![c] = NoVisit] /\ OverlapsNoticed' /\ CallFits(visits[c])'
  BY <1>1, EndsFits
<1>5. PlansAgree' /\ \A s \in stores' : \E t \in stores : t.id = s.id /\ t.plan = s.plan
  BY <1>1, <1>2, Known DEF PlansAgree
<1>6. \/ stores' = stores /\ accounts' = accounts /\ synced' = synced
      \/ AccountFollowsStore' /\
         \A s \in stores' :
           \/ s.id = v.store /\ v.op # "idle"
           \/ \E t \in stores : t.id = s.id /\ t.status = s.status /\ t.email = s.email
  <2>1. CASE stores' = stores
    BY <1>1, <2>1
  <2>2. CASE stores' # stores
    BY <1>1, <1>2, <2>2, Known DEF AccountFollowsStore
  <2> QED BY <2>1, <2>2
<1>7. RowIds(subs) \subseteq RowIds(subs)' \cup forced' /\ storeFaults' >= storeFaults /\ v.step # "seed"
  BY <1>1, Known DEF RowIds
<1> QED BY <1>1, <1>3, <1>4, <1>5, <1>6, <1>7, StepKeeps

\* Whoever reviews the store meanwhile has been remembered.
LEMMA UpdateDocumentsKeeps ==
  ASSUME MInv, NEW c \in StoreCalls, UpdateDocuments(c)
  PROVE  MInv'
<1> DEFINE v == visits[c]
           updated == UpdateKYCDocuments(kyc, stores, v.store, v.aadhaar)
           reviewed == \E d \in Others(c, v.store) : visits[d].op \in {"approve", "reject"}
<1>1. /\ v.op = "kyc" /\ v.step = "read" /\ Ends(c)
      /\ kyc' = Then(updated, kyc)
      /\ IF Succeeds(updated)
         THEN /\ stores' = UpdateStoreStatus(stores, v.store, "pending_kyc")
              /\ synced' = synced \ {v.store}
              /\ overtaken' = IF reviewed THEN overtaken \cup {v.store} ELSE overtaken
         ELSE stores' = stores /\ synced' = synced /\ overtaken' = overtaken
      /\ accounts' = accounts /\ events' = events /\ campaigns' = campaigns /\ subs' = subs
      /\ tiers' = tiers /\ orders' = orders /\ inserts' = inserts
      /\ storeFaults' = storeFaults /\ contended' = contended /\ forced' = forced /\ unsettled' = unsettled
      /\ unhonoured' = unhonoured /\ seedStopped' = seedStopped
  BY DEF UpdateDocuments, At, SameCount, planRows, UpdateStoreStatusByID
<1>2. CASE ~Succeeds(updated)
  <2>1. /\ UNCHANGED <<storeRows, planRows, inserts>>
        /\ UNCHANGED <<contended, forced, unsettled, overtaken, synced, unhonoured, seedStopped>>
        /\ SameCount
    BY <1>1, <1>2 DEF storeRows, planRows, Then, UpdateDocuments
  <2> QED BY <1>1, <2>1, QuietEnds
<1>3. CASE Succeeds(updated)
  <2>1. v.aadhaar \in Aadhaars
    BY <1>1, CallOf DEF VisitFits
  <2>2. /\ DocumentsFit(updated.val) /\ RowIds(updated.val) = RowIds(kyc)
        /\ \A d \in updated.val : (d.id # v.store => d \in kyc) /\ (d.id = v.store => ~d.verified)
    BY <1>3, <2>1, DocumentReplaced, Known
  <2>3. kyc' = updated.val
    BY <1>1, <1>3 DEF Then
  <2> HIDE DEF updated
  <2>4. /\ stores' = UpdateStoreStatus(stores, v.store, "pending_kyc") /\ synced' = synced \ {v.store}
        /\ overtaken' = IF reviewed THEN overtaken \cup {v.store} ELSE overtaken
    BY <1>1, <1>3
  <2>5. /\ StoresFit(stores') /\ RowIds(stores') = RowIds(stores)
        /\ \A s \in stores' :
             /\ s.id # v.store => s \in stores
             /\ \E t \in stores : t.id = s.id /\ t.plan = s.plan /\ t.email = s.email
    BY <2>4, StatusPut, Known DEF MerchantStatus
  <2>6. RowsFit'
    <3>1. PlansOf(stores') \subseteq tiers \cup {"essential"}
      BY <2>5, Known DEF PlansOf
    <3>2. synced' \subseteq events
      BY <2>4, Known
    <3> QED BY <1>1, <2>2, <2>3, <2>5, <3>1, <3>2, RowsChange, Known
  <2>7. /\ visits' = [visits EXCEPT ![c] = NoVisit] /\ OverlapsNoticed' /\ CallFits(visits[c])'
    BY <1>1, EndsFits
  <2>8. PlansAgree' /\ \A s \in stores' : \E t \in stores : t.id = s.id /\ t.plan = s.plan
    BY <1>1, <2>5, Known DEF PlansAgree
  <2>9. overtaken \subseteq overtaken'
    BY <2>4
  <2>10. \A d \in kyc' :
           \/ d.id \in overtaken'
           \/ \E e \in kyc : e.id = d.id /\ e.version = d.version
           \/ \A x \in StoreCalls \ {c} : Reviews(visits[x]) => visits[x].store # d.id
    <3> SUFFICES ASSUME NEW d \in kyc', d.id = v.store, ~reviewed
                 PROVE  \A x \in StoreCalls \ {c} : Reviews(visits[x]) => visits[x].store # d.id
      BY <2>2, <2>3, <2>4
    <3> SUFFICES ASSUME NEW x \in StoreCalls \ {c}, Reviews(visits[x]), visits[x].store = v.store
                 PROVE  FALSE
      OBVIOUS
    <3>1. visits[x].op \in {"approve", "reject"}
      BY DEF Reviews
    <3>2. x \in Others(c, v.store)
      BY <3>1 DEF Others
    <3> QED BY <3>1, <3>2
  <2>11. VerifiedWasSeen'
    BY <2>2, <2>3, <2>9, Known DEF VerifiedWasSeen
  <2>12. /\ AccountFollowsStore'
         /\ \A s \in stores' :
              \/ s.id = v.store /\ v.op # "idle"
              \/ \E t \in stores : t.id = s.id /\ t.status = s.status /\ t.email = s.email
    BY <1>1, <2>4, <2>5, Known DEF AccountFollowsStore
  <2>13. RowIds(subs) \subseteq RowIds(subs)' \cup forced' /\ storeFaults' >= storeFaults /\ v.step # "seed"
    BY <1>1, Known DEF RowIds
  <2> QED BY <1>1, <2>6, <2>7, <2>8, <2>9, <2>10, <2>11, <2>12, <2>13, StepKeeps
<1> QED BY <1>2, <1>3

\* The version marked is the one the reviewer saw, or was overtaken.
LEMMA VerifyKYCDocumentKeeps ==
  ASSUME MInv, NEW c \in StoreCalls, VerifyKYCDocument(c)
  PROVE  MInv'
<1> DEFINE v == visits[c]
<1>1. /\ v.op \in {"approve", "reject"} /\ v.step = "read" /\ Ends(c)
      /\ IF v.status \in MerchantStatus
         THEN /\ kyc' = VerifyDocument(kyc, v.store, v.op = "approve", v.n)
              /\ stores' = UpdateStoreStatus(stores, v.store, v.status)
              /\ synced' = synced \ {v.store}
         ELSE kyc' = kyc /\ stores' = stores /\ synced' = synced
      /\ accounts' = accounts /\ events' = events /\ campaigns' = campaigns /\ subs' = subs
      /\ tiers' = tiers /\ orders' = orders /\ inserts' = inserts
      /\ storeFaults' = storeFaults /\ contended' = contended /\ forced' = forced /\ unsettled' = unsettled
      /\ overtaken' = overtaken /\ unhonoured' = unhonoured /\ seedStopped' = seedStopped
  BY DEF VerifyKYCDocument, At, SameCount, planRows
<1>2. CASE v.status \notin MerchantStatus
  <2>1. /\ UNCHANGED <<storeRows, planRows, inserts>>
        /\ UNCHANGED <<contended, forced, unsettled, overtaken, synced, unhonoured, seedStopped>>
        /\ SameCount
    BY <1>1, <1>2 DEF storeRows, planRows, VerifyKYCDocument
  <2> QED BY <1>1, <2>1, QuietEnds
<1>3. CASE v.status \in MerchantStatus
  <2>1. v.n \in Nat /\ ReviewFits(v, kyc, overtaken)
    BY CallOf DEF VisitRecords, CallFits
  <2> DEFINE verified == v.op = "approve"
  <2>2. verified \in BOOLEAN
    OBVIOUS
  <2>3. /\ kyc' = VerifyDocument(kyc, v.store, verified, v.n)
        /\ stores' = UpdateStoreStatus(stores, v.store, v.status) /\ synced' = synced \ {v.store}
    BY <1>1, <1>3
  <2> HIDE DEF verified
  <2>4. /\ DocumentsFit(kyc') /\ RowIds(kyc') = RowIds(kyc)
        /\ \A d \in kyc' :
             /\ d.id # v.store => d \in kyc
             /\ d.id = v.store => d.passed = v.n
             /\ \E e \in kyc : e.id = d.id /\ e.version = d.version
    BY <2>1, <2>2, <2>3, DocumentVerified, Known
  <2>5. /\ StoresFit(stores') /\ RowIds(stores') = RowIds(stores)
        /\ \A s \in stores' :
             /\ s.id # v.store => s \in stores
             /\ \E t \in stores : t.id = s.id /\ t.plan = s.plan /\ t.email = s.email
    BY <1>3, <2>3, StatusPut, Known
  <2>6. RowsFit'
    <3>1. PlansOf(stores') \subseteq tiers \cup {"essential"}
      BY <2>5, Known DEF PlansOf
    <3>2. synced' \subseteq events
      BY <2>3, Known
    <3> QED BY <1>1, <2>4, <2>5, <3>1, <3>2, RowsChange, Known
  <2>7. /\ visits' = [visits EXCEPT ![c] = NoVisit] /\ OverlapsNoticed' /\ CallFits(visits[c])'
    BY <1>1, EndsFits
  <2>8. PlansAgree' /\ \A s \in stores' : \E t \in stores : t.id = s.id /\ t.plan = s.plan
    BY <1>1, <2>5, Known DEF PlansAgree
  <2>9. VerifiedWasSeen'
    <3> SUFFICES ASSUME NEW d \in kyc', d.verified PROVE d.passed = d.version \/ d.id \in overtaken
      BY <1>1 DEF VerifiedWasSeen
    <3>1. CASE d.id # v.store
      BY <2>4, <3>1, Known DEF VerifiedWasSeen
    <3>2. CASE d.id = v.store
      <4>1. PICK e \in kyc : e.id = d.id /\ e.version = d.version
        BY <2>4
      <4>2. v.n = e.version \/ e.id \in overtaken
        BY <1>1, <2>1, <3>2, <4>1 DEF ReviewFits, Reviews
      <4> QED BY <2>4, <3>2, <4>1, <4>2
    <3> QED BY <3>1, <3>2
  <2>10. /\ AccountFollowsStore'
         /\ \A s \in stores' :
              \/ s.id = v.store /\ v.op # "idle"
              \/ \E t \in stores : t.id = s.id /\ t.status = s.status /\ t.email = s.email
    BY <1>1, <2>3, <2>5, Known DEF AccountFollowsStore
  <2>11. RowIds(subs) \subseteq RowIds(subs)' \cup forced' /\ storeFaults' >= storeFaults /\ v.step # "seed"
    BY <1>1, Known DEF RowIds
  <2>12. \A d \in kyc' : \E e \in kyc : e.id = d.id /\ e.version = d.version
    BY <2>4
  <2> QED BY <1>1, <2>6, <2>7, <2>8, <2>9, <2>10, <2>11, <2>12, StepKeeps
<1> QED BY <1>2, <1>3

LEMMA SetStoreStatusKeeps ==
  ASSUME MInv, NEW c \in StoreCalls, SetStoreStatus(c)
  PROVE  MInv'
<1> DEFINE v == visits[c]
           updated == RepoUpdateStoreStatus(stores, v.store, v.status)
           call == [v EXCEPT !.step = "profile"]
<1>1. /\ v.op = "status" /\ v.step = "read" /\ stores' = Then(updated, stores)
      /\ IF Succeeds(updated) THEN visits' = [visits EXCEPT ![c] = call] /\ synced' = synced \ {v.store}
         ELSE Ends(c) /\ synced' = synced
      /\ kyc' = kyc /\ accounts' = accounts /\ events' = events /\ campaigns' = campaigns /\ subs' = subs
      /\ tiers' = tiers /\ orders' = orders /\ inserts' = inserts
      /\ storeFaults' = storeFaults /\ contended' = contended /\ forced' = forced /\ unsettled' = unsettled
      /\ overtaken' = overtaken /\ unhonoured' = unhonoured /\ seedStopped' = seedStopped
  BY DEF SetStoreStatus, At, SameCount, planRows, To, Goes
<1>2. CASE ~Succeeds(updated)
  <2>1. /\ UNCHANGED <<storeRows, planRows, inserts>>
        /\ UNCHANGED <<contended, forced, unsettled, overtaken, synced, unhonoured, seedStopped>>
        /\ SameCount
    BY <1>1, <1>2 DEF storeRows, planRows, SetStoreStatus, Then
  <2> QED BY <1>1, <1>2, <2>1, QuietEnds
<1>3. CASE Succeeds(updated)
  <2>1. v.status \in MerchantStatus /\ updated.val = UpdateStoreStatus(stores, v.store, v.status)
    BY <1>3 DEF RepoUpdateStoreStatus, Succeeds, Fail, Ok
  <2>2. /\ stores' = UpdateStoreStatus(stores, v.store, v.status) /\ synced' = synced \ {v.store}
        /\ visits' = [visits EXCEPT ![c] = call]
    BY <1>1, <1>3, <2>1 DEF Then
  <2> HIDE DEF updated
  <2>3. /\ StoresFit(stores') /\ RowIds(stores') = RowIds(stores)
        /\ \A s \in stores' :
             /\ s.id = v.store => s.status = v.status
             /\ s.id # v.store => s \in stores
             /\ \E t \in stores : t.id = s.id /\ t.plan = s.plan /\ t.email = s.email
    BY <2>1, <2>2, StatusPut, Known
  <2>4. RowsFit'
    <3>1. PlansOf(stores') \subseteq tiers \cup {"essential"}
      BY <2>3, Known DEF PlansOf
    <3>2. synced' \subseteq events
      BY <2>2, Known
    <3> QED BY <1>1, <2>3, <3>1, <3>2, RowsChange, Known
  <2>5. v \in VisitRecords /\ ~v.again
    BY <1>1, CallOf DEF VisitFits
  <2>6. /\ call \in VisitRecords /\ call.op = "status" /\ call.step = "profile" /\ call.store = v.store
        /\ call.campaign = v.campaign /\ call.n = v.n /\ call.status = v.status /\ call.again = v.again
    BY <1>1, <2>5 DEF VisitRecords, VisitSteps
  <2> HIDE DEF call
  <2>7. OverlapsNoticed'
    BY <1>1, <2>2, <2>6, OverlapsStay DEF MInv
  <2>8. CallFits(visits[c])'
    <3>1. VisitFits(call, events) /\ ReviewFits(call, kyc, overtaken)
      BY <1>1, <2>5, <2>6, GoesOn
    <3>2. StatusFits(call, stores', contended')
      BY <2>3, <2>6 DEF StatusFits
    <3>3. /\ PassedFits(call, campaigns', forced' \cup contended') /\ UpsertFits(call, stores', tiers', unsettled')
          /\ SeedFits(call, tiers', seedStopped')
          /\ UpgradeFits(call, storeFaults', tiers', RowIds(subs)' \cup forced')
      BY <2>6 DEF PassedFits, UpsertFits, SeedFits, UpgradeFits
    <3>4. visits'[c] = call
      BY <2>2, CallOf
    <3> QED BY <1>1, <3>1, <3>2, <3>3, <3>4 DEF CallFits
  <2>9. PlansAgree' /\ \A s \in stores' : \E t \in stores : t.id = s.id /\ t.plan = s.plan
    BY <1>1, <2>3, Known DEF PlansAgree
  <2>10. /\ AccountFollowsStore'
         /\ \A s \in stores' :
              \/ s.id = v.store /\ v.op # "idle"
              \/ \E t \in stores : t.id = s.id /\ t.status = s.status /\ t.email = s.email
    BY <1>1, <2>2, <2>3, Known DEF AccountFollowsStore
  <2>11. RowIds(subs) \subseteq RowIds(subs)' \cup forced' /\ storeFaults' >= storeFaults /\ v.step # "seed"
    BY <1>1, Known DEF RowIds
  <2> QED BY <1>1, <2>2, <2>4, <2>7, <2>8, <2>9, <2>10, <2>11, StepKeeps
<1> QED BY <1>2, <1>3

\* Store and account agree: nothing else has changed the store, unless it is
\* contended, and whoever has the e-mail of another store keeps the account.
LEMMA SyncStatusKeeps ==
  ASSUME MInv, NEW c \in StoreCalls, SyncStatus(c)
  PROVE  MInv'
<1> DEFINE v == visits[c]
           status == AuthStatusOf(v.status)
<1>1. /\ v.op = "status" /\ v.step = "sync" /\ Ends(c)
      /\ accounts' = SyncAccount(accounts, v.email, status)
      /\ synced' = {v.store} \cup {id \in synced : \A s \in RowsOf(stores, id) : s.email # v.email}
      /\ stores' = stores /\ kyc' = kyc /\ events' = events /\ campaigns' = campaigns /\ subs' = subs
      /\ tiers' = tiers /\ orders' = orders /\ inserts' = inserts
      /\ storeFaults' = storeFaults /\ contended' = contended /\ forced' = forced /\ unsettled' = unsettled
      /\ overtaken' = overtaken /\ unhonoured' = unhonoured /\ seedStopped' = seedStopped
  BY DEF SyncStatus, At, SameCount, planRows
<1>2. status \in {"active", "suspended", "deleted", "pending"}
  BY DEF AuthStatusOf
<1>3. \A a \in accounts' :
        /\ a \in AccountRecords
        /\ a.email = v.email => a.status = status
        /\ a.email # v.email => a \in accounts
  <2> SUFFICES ASSUME NEW a \in accounts'
               PROVE  /\ a \in AccountRecords
                      /\ a.email = v.email => a.status = status
                      /\ a.email # v.email => a \in accounts
    OBVIOUS
  <2> HIDE DEF status
  <2>1. PICK b \in accounts : a = IF b.email = v.email THEN [b EXCEPT !.status = status] ELSE b
    BY <1>1 DEF SyncAccount
  <2>2. b \in AccountRecords
    BY Known
  <2> QED BY <1>2, <2>1, <2>2 DEF AccountRecords
<1>4. RowsFit'
  <2>1. v.store \in events
    BY <1>1, CallOf DEF VisitFits
  <2>2. synced' \subseteq events
    BY <1>1, <2>1, Known
  <2>3. accounts' \subseteq AccountRecords
    BY <1>3
  <2> QED BY <1>1, <2>2, <2>3, RowsChange, Known
<1>5. /\ visits' = [visits EXCEPT ![c] = NoVisit] /\ OverlapsNoticed' /\ CallFits(visits[c])'
  BY <1>1, EndsFits
<1>6. AccountFollowsStore'
  <2> SUFFICES ASSUME NEW s \in stores, NEW a \in accounts', s.id \in synced' \ contended, a.email = s.email
               PROVE  /\ (s.status = "active") = (a.status = "active")
                      /\ s.status \in {"suspended", "deleted"} => a.status = s.status
    BY <1>1 DEF AccountFollowsStore
  <2>1. CASE s.id = v.store
    <3>1. s.status = v.status /\ s.email = v.email
      BY <1>1, <2>1, CallOf DEF CallFits, StatusFits
    <3>2. s.status \in MerchantStatus
      BY Known DEF StoresFit, StoreRecords
    <3>3. a.status = AuthStatusOf(s.status)
      BY <1>3, <3>1
    <3> QED BY <3>2, <3>3 DEF AuthStatusOf, MerchantStatus
  <2>2. CASE s.id # v.store
    <3>1. s.id \in synced /\ s.email # v.email
      BY <1>1, <2>2 DEF RowsOf
    <3>2. a \in accounts
      BY <1>3, <3>1
    <3> QED BY <3>1, <3>2, Known DEF AccountFollowsStore
  <2> QED BY <2>1, <2>2
<1>7. \A s \in stores' : \E t \in stores : t.id = s.id /\ t.status = s.status /\ t.email = s.email
  BY <1>1
<1>8. RowIds(subs) \subseteq RowIds(subs)' \cup forced' /\ storeFaults' >= storeFaults /\ v.step # "seed"
  BY <1>1, Known DEF RowIds
<1> QED BY <1>1, <1>4, <1>5, <1>6, <1>7, <1>8, StepKeeps

LEMMA DeleteStoreKeeps ==
  ASSUME MInv, NEW c \in StoreCalls, DeleteStore(c)
  PROVE  MInv'
<1> DEFINE id == visits[c].store
<1>1. /\ visits[c].op = "delete" /\ visits[c].step = "read" /\ Ends(c)
      /\ stores' = Without(stores, id) /\ kyc' = Without(kyc, id) /\ subs' = Without(subs, id)
      /\ campaigns' = {m \in campaigns : m.store # id} /\ forced' = forced \cup {id}
      /\ accounts' = accounts /\ events' = events /\ tiers' = tiers /\ orders' = orders /\ inserts' = inserts
      /\ storeFaults' = storeFaults /\ contended' = contended /\ unsettled' = unsettled /\ synced' = synced
      /\ overtaken' = overtaken /\ unhonoured' = unhonoured /\ seedStopped' = seedStopped
  BY DEF DeleteStore, At, SameCount, GetCampaignsByStoreID
<1> HIDE DEF id
<1>2. RowIds(stores') = RowIds(stores) \ {id} /\ RowIds(kyc') = RowIds(kyc) \ {id}
  BY <1>1 DEF RowIds, Without
<1>3. RowsFit'
  <2>1. StoresFit(stores') /\ DocumentsFit(kyc') /\ RowIds(kyc') = RowIds(stores')
    BY <1>1, <1>2, Known DEF StoresFit, DocumentsFit, Without
  <2>2. CampaignsFit(campaigns', RowIds(stores'), inserts')
    BY <1>1, <1>2, Known DEF CampaignsFit
  <2>3. SubscriptionsFit(subs', RowIds(stores'), tiers')
    BY <1>1, <1>2, Known DEF SubscriptionsFit, Without
  <2>4. PlansOf(stores') \subseteq tiers' \cup {"essential"}
    BY <1>1, Known DEF PlansOf, Without
  <2>5. NumbersFit'
    BY <1>1, <1>2, Known DEF NumbersFit, RowIds
  <2> QED BY <1>1, <2>1, <2>2, <2>3, <2>4, <2>5, Known DEF RowsFit, RowIds, PlansOf
<1>4. /\ visits' = [visits EXCEPT ![c] = NoVisit] /\ OverlapsNoticed' /\ CallFits(visits[c])'
  BY <1>1, EndsFits
<1>5. \A i \in events : ActiveIn(campaigns', i, 0) \subseteq ActiveIn(campaigns, i, 0)
  BY <1>1 DEF ActiveIn
<1>6. PlansAgree' /\ \A s \in stores' : s \in stores
  BY <1>1, Known DEF PlansAgree, Without
<1>7. VerifiedWasSeen' /\ \A d \in kyc' : d \in kyc
  BY <1>1, Known DEF VerifiedWasSeen, Without
<1>8. AccountFollowsStore'
  BY <1>1, <1>6, Known DEF AccountFollowsStore
<1>9. RowIds(subs) \subseteq RowIds(subs)' \cup forced' /\ storeFaults' >= storeFaults /\ visits[c].step # "seed"
  BY <1>1, Known DEF RowIds, Without
<1> QED BY <1>1, <1>3, <1>4, <1>5, <1>6, <1>7, <1>8, <1>9, StepKeeps

-----------------------------------------------------------------------------
(* Campaigns *)

\* A statement about campaigns that ends its call.
LEMMA CampaignKeeps ==
  ASSUME MInv, NEW c \in StoreCalls, Ends(c), visits[c].step # "seed",
         CampaignsFit(campaigns', RowIds(stores), inserts'), inserts' \in Nat, inserts <= inserts',
         UNCHANGED <<storeRows, subs, tiers, orders>>, SameCount, forced \subseteq forced',
         UNCHANGED <<contended, unsettled, overtaken, synced, unhonoured, refusals, seedStopped>>,
         \A id \in events \ (forced' \cup contended) :
           \/ ActiveIn(campaigns', id, 0) \subseteq ActiveIn(campaigns, id, 0)
           \/ id = visits[c].store /\ visits[c].op # "idle" /\ OneActive(campaigns', id)
  PROVE  MInv'
<1>1. /\ stores' = stores /\ kyc' = kyc /\ accounts' = accounts /\ events' = events
      /\ subs' = subs /\ tiers' = tiers /\ orders' = orders /\ storeFaults' = storeFaults
  BY DEF storeRows, SameCount
<1>2. RowsFit'
  BY <1>1, RowsChange, Known
<1>3. /\ visits' = [visits EXCEPT ![c] = NoVisit] /\ OverlapsNoticed' /\ CallFits(visits[c])'
  BY EndsFits
<1>4. RowIds(subs) \subseteq RowIds(subs)' \cup forced' /\ storeFaults' >= storeFaults
  BY <1>1, Known DEF RowIds
<1> QED BY <1>1, <1>2, <1>3, <1>4, StepKeeps

LEMMA InsertCampaignFits ==
  ASSUME MInv, NEW c \in StoreCalls, InsertCampaign(c)
  PROVE  /\ CampaignsFit(campaigns', RowIds(stores), inserts') /\ inserts' \in Nat /\ inserts <= inserts'
         /\ \A id : id # visits[c].store => ActiveIn(campaigns', id, 0) \subseteq ActiveIn(campaigns, id, 0)
         /\ ActiveIn(campaigns, visits[c].store, 0) = {} => OneActive(campaigns', visits[c].store)
<1>1. visits[c].store \in Nat
  BY CallOf DEF VisitRecords
<1> QED BY <1>1, CampaignInserted, Known DEF InsertCampaign

LEMMA CreateCampaignRowKeeps ==
  ASSUME MInv, NEW c \in StoreCalls, CreateCampaignRow(c)
  PROVE  MInv'
<1> DEFINE v == visits[c]
<1>1. /\ v.op = "create" /\ v.step = "write" /\ InsertCampaign(c) /\ Ends(c)
      /\ UNCHANGED <<storeRows, subs, tiers, orders>> /\ SameCount
      /\ UNCHANGED <<contended, forced, unsettled, overtaken, synced, unhonoured, refusals, seedStopped>>
  BY DEF CreateCampaignRow, At, Quiet, merchantGhosts
<1>2. v.campaign = 0 /\ PassedFits(v, campaigns, forced \cup contended)
  BY <1>1, CallOf DEF CallFits, VisitFits
<1>3. ASSUME NEW id \in events \ (forced' \cup contended)
      PROVE  \/ ActiveIn(campaigns', id, 0) \subseteq ActiveIn(campaigns, id, 0)
             \/ id = v.store /\ v.op # "idle" /\ OneActive(campaigns', id)
  <2>1. id = v.store => ActiveIn(campaigns, id, 0) = {}
    BY <1>1, <1>2, <1>3 DEF PassedFits
  <2> QED BY <1>1, <2>1, InsertCampaignFits
<1> QED BY <1>1, <1>3, InsertCampaignFits, CampaignKeeps

LEMMA SetCampaignStatusKeeps ==
  ASSUME MInv, NEW c \in StoreCalls, SetCampaignStatus(c)
  PROVE  MInv'
<1> DEFINE v == visits[c]
           status == IF v.op = "pause" THEN "paused" ELSE "active"
           chosen == {m \in campaigns : m.id = v.campaign /\ m.store = v.store}
<1>1. /\ (v.op = "activate" /\ v.step = "write") \/ (v.op = "pause" /\ v.step = "read")
      /\ Ends(c) /\ inserts' = inserts
      /\ Marks(campaigns', campaigns, chosen, status)
      /\ UNCHANGED <<storeRows, subs, tiers, orders>> /\ SameCount
      /\ UNCHANGED <<contended, forced, unsettled, overtaken, synced, unhonoured, refusals, seedStopped>>
  <2>1. /\ (v.op = "activate" /\ v.step = "write") \/ (v.op = "pause" /\ v.step = "read")
        /\ Ends(c) /\ inserts' = inserts
        /\ campaigns' = UpdateCampaignStatus(campaigns, v.campaign, v.store, status)
        /\ UNCHANGED <<storeRows, subs, tiers, orders>> /\ SameCount
        /\ UNCHANGED <<contended, forced, unsettled, overtaken, synced, unhonoured, refusals, seedStopped>>
    BY DEF SetCampaignStatus, At, Quiet, merchantGhosts
  <2>2. Marks(UpdateCampaignStatus(campaigns, v.campaign, v.store, status), campaigns, chosen, status)
    BY DEF UpdateCampaignStatus, Marks
  <2> QED BY <2>1, <2>2
<1>2. /\ status \in {"active", "paused"} /\ (status = "active" => v.op = "activate" /\ v.step = "write")
      /\ chosen \subseteq campaigns /\ chosen \subseteq RowsOf(campaigns, v.campaign)
      /\ \A m \in chosen : m.store = v.store
  BY <1>1 DEF RowsOf
<1> HIDE DEF status, chosen
<1>3. /\ CampaignsFit(campaigns', RowIds(stores), inserts)
      /\ \A id : (status = "paused" \/ \A m \in chosen : m.store # id) =>
           ActiveIn(campaigns', id, 0) \subseteq ActiveIn(campaigns, id, 0)
      /\ \A id, but : chosen \subseteq RowsOf(campaigns, but) /\ ActiveIn(campaigns, id, but) = {} =>
           OneActive(campaigns', id)
  <2>1. CampaignsFit(campaigns, RowIds(stores), inserts)
    BY Known
  <2> QED BY <1>1, <1>2, <2>1, CampaignMarked
<1>4. ASSUME NEW id \in events \ (forced' \cup contended)
      PROVE  \/ ActiveIn(campaigns', id, 0) \subseteq ActiveIn(campaigns, id, 0)
             \/ id = v.store /\ v.op # "idle" /\ OneActive(campaigns', id)
  <2>1. CASE status = "paused" \/ id # v.store
    BY <1>2, <1>3, <2>1
  <2>2. CASE status # "paused" /\ id = v.store
    <3>1. v.op = "activate" /\ v.step = "write"
      BY <1>2, <2>2
    <3>2. ActiveIn(campaigns, v.store, v.campaign) = {}
      BY <1>1, <1>4, <2>2, <3>1, CallOf DEF CallFits, PassedFits
    <3> QED BY <1>2, <1>3, <2>2, <3>1, <3>2
  <2> QED BY <2>1, <2>2
<1>5. inserts' \in Nat /\ inserts <= inserts' /\ v.step # "seed" /\ CampaignsFit(campaigns', RowIds(stores), inserts')
  BY <1>1, <1>3, Known
<1> QED BY <1>1, <1>4, <1>5, CampaignKeeps

LEMMA AdminCreateCampaignKeeps ==
  ASSUME MInv, NEW c \in StoreCalls, AdminCreateCampaign(c)
  PROVE  MInv'
<1>1. /\ visits[c].step = "read" /\ InsertCampaign(c) /\ Ends(c)
      /\ UNCHANGED <<storeRows, subs, tiers, orders>> /\ SameCount /\ forced' = forced \cup {visits[c].store}
      /\ UNCHANGED <<contended, unsettled, overtaken, synced, unhonoured, refusals, seedStopped>>
  BY DEF AdminCreateCampaign, At, Forces
<1>2. \A id \in events \ (forced' \cup contended) :
        ActiveIn(campaigns', id, 0) \subseteq ActiveIn(campaigns, id, 0)
  BY <1>1, InsertCampaignFits
<1> QED BY <1>1, <1>2, InsertCampaignFits, CampaignKeeps

LEMMA AdminChangeCampaignKeeps ==
  ASSUME MInv, NEW c \in StoreCalls, AdminChangeCampaign(c)
  PROVE  MInv'
<1> DEFINE v == visits[c]
           chosen == RowsOf(campaigns, v.campaign)
<1>1. /\ v.op \in {"admin activate", "admin pause", "admin remove"} /\ v.step = "read" /\ Ends(c)
      /\ inserts' = inserts
      /\ UNCHANGED <<storeRows, subs, tiers, orders>> /\ SameCount
      /\ forced' = forced \cup {m.store : m \in chosen}
      /\ UNCHANGED <<contended, unsettled, overtaken, synced, unhonoured, refusals, seedStopped>>
      /\ campaigns' = CASE v.op = "admin remove" -> AdminDeleteCampaign(campaigns, v.campaign)
                        [] v.op = "admin pause" -> AdminCampaignStatus(campaigns, v.campaign, "paused")
                        [] OTHER -> AdminCampaignStatus(campaigns, v.campaign, "active")
  BY DEF AdminChangeCampaign, At, Forces
<1>2. ASSUME NEW status \in {"active", "paused"}, campaigns' = AdminCampaignStatus(campaigns, v.campaign, status)
      PROVE  /\ CampaignsFit(campaigns', RowIds(stores), inserts)
             /\ \A id : (\A m \in chosen : m.store # id) =>
                  ActiveIn(campaigns', id, 0) \subseteq ActiveIn(campaigns, id, 0)
  <2>1. chosen \subseteq campaigns /\ \A m \in campaigns : m \in chosen <=> m.id = v.campaign
    BY DEF RowsOf
  <2>2. \A a \in campaigns' : \E m \in campaigns :
          a = IF m.id = v.campaign THEN [m EXCEPT !.status = status] ELSE m
    BY <1>2 DEF AdminCampaignStatus
  <2> HIDE DEF chosen
  <2>3. Marks(campaigns', campaigns, chosen, status)
    BY <2>1, <2>2 DEF Marks
  <2>4. CampaignsFit(campaigns, RowIds(stores), inserts)
    BY Known
  <2>5. /\ CampaignsFit(campaigns', RowIds(stores), inserts)
        /\ \A id : (status = "paused" \/ \A m \in chosen : m.store # id) =>
             ActiveIn(campaigns', id, 0) \subseteq ActiveIn(campaigns, id, 0)
    BY <1>2, <2>1, <2>3, <2>4, CampaignMarked
  <2> QED BY <2>5
<1>3. ASSUME campaigns' = AdminDeleteCampaign(campaigns, v.campaign)
      PROVE  /\ CampaignsFit(campaigns', RowIds(stores), inserts)
             /\ \A id : ActiveIn(campaigns', id, 0) \subseteq ActiveIn(campaigns, id, 0)
  BY <1>3, Known DEF AdminDeleteCampaign, Without, CampaignsFit, ActiveIn
<1>4. \/ campaigns' = AdminDeleteCampaign(campaigns, v.campaign)
      \/ campaigns' = AdminCampaignStatus(campaigns, v.campaign, "paused")
      \/ campaigns' = AdminCampaignStatus(campaigns, v.campaign, "active")
  BY <1>1
<1>5. /\ CampaignsFit(campaigns', RowIds(stores), inserts)
      /\ \A id : (\A m \in chosen : m.store # id) =>
           ActiveIn(campaigns', id, 0) \subseteq ActiveIn(campaigns, id, 0)
  BY <1>2, <1>3, <1>4
<1>6. \A id \in events \ (forced' \cup contended) :
        ActiveIn(campaigns', id, 0) \subseteq ActiveIn(campaigns, id, 0)
  BY <1>1, <1>5
<1>7. inserts' \in Nat /\ inserts <= inserts' /\ v.step # "seed" /\ CampaignsFit(campaigns', RowIds(stores), inserts')
      /\ forced \subseteq forced'
  BY <1>1, <1>5, Known
<1> QED BY <1>1, <1>6, <1>7, CampaignKeeps

-----------------------------------------------------------------------------
(* Plans and subscriptions *)

LEMMA CampaignsStillFit ==
  ASSUME NEW table, NEW ids, NEW n \in Nat, CampaignsFit(table, ids, n), NEW m \in Nat, n <= m
  PROVE  CampaignsFit(table, ids, m)
<1>1. \A row \in table : row.id \in Nat /\ row.id <= n
  BY DEF CampaignsFit, CampaignRecords
<1>2. \A row \in table : row.id <= m
  BY <1>1
<1> QED BY <1>2 DEF CampaignsFit

\* A call that fitted goes on fitting when only what it is measured with grows.
LEMMA StillFits ==
  ASSUME NEW c \in StoreCalls, NEW call, CallFits(call), visits'[c] = call, events' = events,
         stores' = stores, kyc' = kyc, campaigns' = campaigns, tiers' = tiers,
         UNCHANGED <<contended, unsettled, overtaken, seedStopped>>,
         forced \subseteq forced', RowIds(subs) \subseteq RowIds(subs') \cup forced',
         storeFaults' = 0 => storeFaults = 0
  PROVE  CallFits(visits[c])'
<1>1. RowIds(subs)' = RowIds(subs')
  BY DEF RowIds
<1>2. VisitFits(call, events') /\ PassedFits(call, campaigns', forced' \cup contended')
  BY DEF CallFits, PassedFits
<1>3. UpsertFits(call, stores', tiers', unsettled') /\ SeedFits(call, tiers', seedStopped')
  BY DEF CallFits
<1>4. UpgradeFits(call, storeFaults', tiers', RowIds(subs)' \cup forced')
  BY <1>1 DEF CallFits, UpgradeFits
<1>5. ReviewFits(call, kyc', overtaken') /\ StatusFits(call, stores', contended')
  BY DEF CallFits
<1> QED BY <1>2, <1>3, <1>4, <1>5 DEF CallFits

LEMMA TiersSeeded ==
  /\ CatalogSeed[1] = "essential" /\ CatalogSeed[2] = "growth" /\ CatalogSeed[3] = "enterprise"
  /\ Len(CatalogSeed) = 3
BY DEF CatalogSeed

LEMMA CountedOn ==
  ASSUME NEW v \in VisitRecords, v.n \in 1 .. 3, v.n < 3, NEW call, call = [v EXCEPT !.n = @ + 1]
  PROVE  /\ call \in VisitRecords /\ call.n = v.n + 1 /\ call.n \in 1 .. 3 /\ call.step = v.step
         /\ call.op = v.op /\ call.store = v.store /\ call.plan = v.plan /\ call.again = v.again
<1> DEFINE n == v.n + 1
<1>1. n \in Nat /\ n \in 1 .. 3 /\ call = [v EXCEPT !.n = n]
  OBVIOUS
<1>2. call.n = v.n + 1
  BY DEF VisitRecords
<1> HIDE DEF n
<1>3. call.n = n
  BY <1>1 DEF VisitRecords
<1> QED BY <1>1, <1>2, <1>3 DEF VisitRecords

LEMMA FilledUp ==
  ASSUME NEW v \in VisitRecords, NEW call, call = [v EXCEPT !.step = "subscription", !.n = 1]
  PROVE  /\ call \in VisitRecords /\ call.n = 1 /\ call.step = "subscription"
         /\ call.op = v.op /\ call.store = v.store /\ call.plan = v.plan /\ call.again = v.again
BY DEF VisitRecords, VisitSteps

\* The tiers there are, when a call has come to its n-th.
LEMMA SeedTierFills ==
  ASSUME MInv, NEW c \in StoreCalls, SeedTier(c)
  PROVE  /\ tiers \subseteq tiers' /\ tiers' \subseteq SubscriptionPlan /\ storeFaults' \in Nat
         /\ seedStopped' \in BOOLEAN /\ (seedStopped => seedStopped') /\ storeFaults' >= storeFaults
         /\ seedStopped' => storeFaults' > 0
         /\ ~seedStopped' => /\ "essential" \in tiers'
                             /\ visits[c].n >= 2 => "growth" \in tiers'
                             /\ visits[c].n >= 3 => "enterprise" \in tiers'
<1> DEFINE v == visits[c]
<1>1. /\ v.step = "seed"
      /\ \/ tiers' = tiers \cup {CatalogSeed[v.n]} /\ storeFaults' = storeFaults /\ seedStopped' = seedStopped
         \/ storeFaults' = storeFaults + 1 /\ seedStopped' = TRUE /\ tiers' = tiers
  BY DEF SeedTier, CreateSubscriptionPlan
<1>2. v.n \in 1 .. 3 /\ SeedFits(v, tiers, seedStopped)
  BY <1>1, CallOf DEF CallFits, VisitFits
<1>3. v.n = 1 \/ v.n = 2 \/ v.n = 3
  BY <1>2
<1>4. CatalogSeed[v.n] \in SubscriptionPlan
  BY <1>3, TiersSeeded DEF SubscriptionPlan
<1>5. tiers \subseteq SubscriptionPlan /\ storeFaults \in Nat /\ seedStopped \in BOOLEAN
      /\ (seedStopped => storeFaults > 0)
  BY Known DEF CatalogFits
<1> HIDE DEF v
<1>6. CASE storeFaults' = storeFaults + 1 /\ seedStopped' = TRUE /\ tiers' = tiers
  BY <1>5, <1>6 DEF v
<1>7. CASE tiers' = tiers \cup {CatalogSeed[v.n]} /\ storeFaults' = storeFaults /\ seedStopped' = seedStopped
  <2>1. ASSUME ~seedStopped
        PROVE  /\ "essential" \in tiers'
               /\ v.n >= 2 => "growth" \in tiers'
               /\ v.n >= 3 => "enterprise" \in tiers'
    <3>1. (v.n > 1 => "essential" \in tiers) /\ (v.n > 2 => "growth" \in tiers)
      BY <1>1, <1>2, <2>1 DEF SeedFits
    <3> QED BY <1>3, <1>7, <3>1, TiersSeeded
  <2> QED BY <1>4, <1>5, <1>7, <2>1 DEF v
<1> QED BY <1>1, <1>6, <1>7

LEMMA SeedTierKeeps ==
  ASSUME MInv, NEW c \in StoreCalls, SeedTier(c)
  PROVE  MInv'
<1> DEFINE v == visits[c]
           call == IF v.n < Len(CatalogSeed) THEN [v EXCEPT !.n = @ + 1]
                   ELSE [v EXCEPT !.step = "subscription", !.n = 1]
<1>1. /\ v.step = "seed" /\ visits' = [visits EXCEPT ![c] = call]
      /\ stores' = stores /\ kyc' = kyc /\ accounts' = accounts /\ events' = events
      /\ campaigns' = campaigns /\ subs' = subs /\ orders' = orders /\ inserts' = inserts
      /\ contended' = contended /\ forced' = forced /\ unsettled' = unsettled /\ overtaken' = overtaken
      /\ synced' = synced /\ unhonoured' = unhonoured
  BY DEF SeedTier, Goes, storeRows
<1>2. /\ v \in VisitRecords /\ v.op \in Orders /\ v.n \in 1 .. 3 /\ ~v.again /\ VisitFits(v, events)
      /\ visits'[c] = call
  BY <1>1, CallOf DEF CallFits, VisitFits
<1>3. \/ v.n < 3 /\ call = [v EXCEPT !.n = @ + 1]
      \/ v.n = 3 /\ call = [v EXCEPT !.step = "subscription", !.n = 1]
  BY <1>2, TiersSeeded
<1> HIDE DEF call
<1>4. /\ call \in VisitRecords /\ call.op = v.op /\ call.store = v.store /\ call.plan = v.plan /\ ~call.again
      /\ \/ v.n < 3 /\ call.n = v.n + 1 /\ call.n \in 1 .. 3 /\ call.step = "seed"
         \/ v.n = 3 /\ call.n = 1 /\ call.step = "subscription"
  <2>1. CASE v.n < 3 /\ call = [v EXCEPT !.n = @ + 1]
    <3>1. /\ call \in VisitRecords /\ call.n = v.n + 1 /\ call.n \in 1 .. 3 /\ call.step = v.step
          /\ call.op = v.op /\ call.store = v.store /\ call.plan = v.plan /\ call.again = v.again
      BY <1>2, <2>1, CountedOn
    <3> QED BY <1>1, <1>2, <2>1, <3>1
  <2>2. CASE v.n = 3 /\ call = [v EXCEPT !.step = "subscription", !.n = 1]
    <3>1. /\ call \in VisitRecords /\ call.n = 1 /\ call.step = "subscription"
          /\ call.op = v.op /\ call.store = v.store /\ call.plan = v.plan /\ call.again = v.again
      BY <1>2, <2>2, FilledUp
    <3> QED BY <1>2, <2>2, <3>1
  <2> QED BY <1>3, <2>1, <2>2
<1> HIDE DEF v
<1>5. CallFits(visits[c])'
  <2>1. VisitFits(call, events')
    BY <1>1, <1>2, <1>4 DEF VisitFits, Orders
  <2>2. /\ PassedFits(call, campaigns', forced' \cup contended') /\ UpsertFits(call, stores', tiers', unsettled')
        /\ ReviewFits(call, kyc', overtaken') /\ StatusFits(call, stores', contended')
    BY <1>2, <1>4 DEF PassedFits, UpsertFits, ReviewFits, Reviews, StatusFits, Orders
  <2>3. SeedFits(call, tiers', seedStopped')
    <3>1. call.step = "seed" /\ call.n > 2 => v.n >= 2
      BY <1>2, <1>4
    <3> QED BY <3>1, SeedTierFills DEF SeedFits, v
  <2>4. UpgradeFits(call, storeFaults', tiers', RowIds(subs)' \cup forced')
    <3>1. storeFaults' = 0 => ~seedStopped'
      BY SeedTierFills
    <3> QED BY <1>4, <3>1, SeedTierFills DEF UpgradeFits, Upgrading
  <2> QED BY <1>2, <2>1, <2>2, <2>3, <2>4 DEF CallFits
<1>6. RowsFit'
  <2>1. tiers \subseteq tiers' /\ tiers' \subseteq SubscriptionPlan /\ storeFaults' \in Nat /\ seedStopped' \in BOOLEAN
    BY SeedTierFills
  <2>2. SubscriptionsFit(subs', RowIds(stores'), tiers') /\ OrdersFit(orders', tiers')
    BY <1>1, <2>1, Known DEF SubscriptionsFit, OrdersFit
  <2>3. PlansOf(stores') \subseteq tiers' \cup {"essential"}
    BY <1>1, <2>1, Known
  <2>4. NumbersFit'
    BY <1>1, <2>1, Known DEF NumbersFit, RowsFit, RowIds
  <2> QED BY <1>1, <2>1, <2>2, <2>3, <2>4, Known DEF RowsFit, RowIds, PlansOf
<1>7. OverlapsNoticed'
  BY <1>1, <1>4, OverlapsStay DEF MInv, v
<1>8. CatalogFits'
  <2>1. CatalogIsWhole'
    <3>1. CASE call.step = "seed"
      BY <1>2, <3>1 DEF CatalogIsWhole
    <3>2. CASE call.step # "seed" /\ ~seedStopped'
      <4>1. v.n = 3
        BY <1>4, <3>2
      <4>2. tiers' = SubscriptionPlan
        BY <3>2, <4>1, SeedTierFills DEF SubscriptionPlan, v
      <4> QED BY <4>2 DEF CatalogIsWhole
    <3>3. CASE seedStopped'
      BY <3>3 DEF CatalogIsWhole
    <3> QED BY <3>1, <3>2, <3>3
  <2> QED BY <2>1, SeedTierFills DEF CatalogFits
<1>9. RowIds(subs) \subseteq RowIds(subs)' \cup forced' /\ storeFaults' >= storeFaults /\ tiers \subseteq tiers'
      /\ (seedStopped => seedStopped')
  BY <1>1, SeedTierFills DEF RowIds
<1> QED BY <1>1, <1>5, <1>6, <1>7, <1>8, <1>9, StepKeeps

\* The row made for a store that had none: the plan read before is still the
\* store's, unless it was noticed that it changed.
LEMMA InitializeSubscriptionKeeps ==
  ASSUME MInv, NEW c \in StoreCalls, InitializeSubscription(c)
  PROVE  MInv'
<1> DEFINE v == visits[c]
           done == [v EXCEPT !.status = "none"]
           sub == Subscription(v.store, v.status)
           written == UpsertSubscription(subs, stores, tiers, sub)
           onward == [done EXCEPT !.step = "update"]
           call == IF v.again THEN onward ELSE AfterPlans(done)
<1>1. /\ v.step = "upsert" /\ subs' = Then(written, subs) /\ visits' = [visits EXCEPT ![c] = call]
      /\ stores' = stores /\ kyc' = kyc /\ accounts' = accounts /\ events' = events
      /\ campaigns' = campaigns /\ tiers' = tiers /\ orders' = orders /\ inserts' = inserts
      /\ storeFaults' = storeFaults /\ contended' = contended /\ forced' = forced /\ unsettled' = unsettled
      /\ overtaken' = overtaken /\ synced' = synced /\ unhonoured' = unhonoured /\ seedStopped' = seedStopped
  BY DEF InitializeSubscription, Goes, Quiet, SameCount, merchantGhosts, storeRows
<1>2. /\ v \in VisitRecords /\ v.store \in Nat /\ v.again \in BOOLEAN /\ visits'[c] = call
      /\ VisitFits(v, events) /\ UpsertFits(v, stores, tiers, unsettled)
      /\ UpgradeFits(v, storeFaults, tiers, RowIds(subs) \cup forced)
  BY <1>1, CallOf DEF CallFits, VisitRecords
<1>3. storeFaults = 0 /\ v.op = "verify" => "essential" \in tiers
  BY <1>1, <1>2 DEF UpgradeFits, Upgrading
<1>4. Onward(v, done) /\ done.again = v.again
  BY <1>2 DEF Onward, VisitRecords
<1>5. /\ SubscriptionsFit(subs', RowIds(stores), tiers)
      /\ RowIds(subs) \subseteq RowIds(subs')
      /\ \A s \in subs' : s = sub \/ s \in subs
      /\ v.store \in RowIds(stores) /\ v.status \in tiers => v.store \in RowIds(subs')
  <2>1. tiers \subseteq SubscriptionPlan /\ SubscriptionsFit(subs, RowIds(stores), tiers)
    BY Known
  <2>2. CASE Succeeds(written)
    <3>1. /\ SubscriptionsFit(written.val, RowIds(stores), tiers)
          /\ RowIds(written.val) = RowIds(subs) \cup {v.store}
          /\ \A s \in written.val : s = sub \/ (s \in subs /\ s.id # v.store)
      BY <1>2, <2>1, <2>2, SubscriptionPut
    <3>2. subs' = written.val
      BY <1>1, <2>2 DEF Then
    <3> HIDE DEF written
    <3> QED BY <3>1, <3>2
  <2>3. CASE ~Succeeds(written)
    <3>1. ~(v.store \in RowIds(stores) /\ v.status \in tiers)
      BY <1>2, <2>1, <2>3, SubscriptionPut
    <3>2. subs' = subs
      BY <1>1, <2>3 DEF Then
    <3> HIDE DEF written
    <3> QED BY <2>1, <3>1, <3>2
  <2> QED BY <2>2, <2>3
<1> HIDE DEF done, written
<1>6. RowsFit'
  BY <1>1, <1>5, RowsChange, Known
<1>7. PlansAgree'
  <2> SUFFICES ASSUME NEW s \in stores, NEW row \in subs', s.id = row.id
               PROVE  s.plan = row.plan \/ s.id \in unsettled
    BY <1>1 DEF PlansAgree
  <2>1. CASE row \in subs
    BY <2>1, Known DEF PlansAgree
  <2>2. CASE row = sub
    <3>1. row.id = v.store /\ row.plan = v.status
      BY <2>2 DEF Subscription
    <3> QED BY <1>1, <1>2, <3>1 DEF UpsertFits
  <2> QED BY <1>5, <2>1, <2>2
<1>8. /\ CallFits(visits[c])'
      /\ call.op = "idle" \/ (call.op = v.op /\ call.store = v.store)
  <2>1. CASE v.again
    <3>1. Onward(v, onward) /\ onward.step = "update" /\ onward.again = v.again
      <4>1. done \in VisitRecords /\ "update" \in VisitSteps
        BY <1>4 DEF Onward, VisitSteps
      <4>2. Onward(done, onward) /\ onward.step = "update" /\ onward.again = done.again
        BY <4>1, StepOn
      <4> HIDE DEF onward
      <4> QED BY <1>4, <4>2 DEF Onward
    <3>2. call = onward
      BY <2>1
    <3> HIDE DEF call, onward
    <3>3. VisitFits(call, events) /\ ReviewFits(call, kyc, overtaken)
      BY <1>1, <3>1, <3>2, GoesOn DEF Onward
    <3>4. /\ PassedFits(call, campaigns, forced \cup contended) /\ UpsertFits(call, stores, tiers, unsettled)
          /\ SeedFits(call, tiers, seedStopped) /\ StatusFits(call, stores, contended)
      BY <3>1, <3>2 DEF PassedFits, UpsertFits, SeedFits, StatusFits
    <3>5. UpgradeFits(call, storeFaults, tiers, RowIds(subs') \cup forced)
      <4> SUFFICES ASSUME storeFaults = 0, v.op = "verify"
                   PROVE  "essential" \in tiers /\ v.store \in RowIds(subs') \cup forced
        BY <3>1, <3>2 DEF UpgradeFits, Onward
      <4>1. v.store \in events
        BY <1>2 DEF VisitFits
      <4>2. v.status \in tiers
        BY <1>1, <1>2, <1>3 DEF UpsertFits
      <4> QED BY <1>3, <1>5, <4>1, <4>2, Known
    <3>6. RowIds(subs)' = RowIds(subs')
      BY DEF RowIds
    <3>7. CallFits(visits[c])'
      BY <1>1, <1>2, <3>3, <3>4, <3>5, <3>6 DEF CallFits
    <3> QED BY <3>1, <3>2, <3>7 DEF Onward
  <2>2. CASE ~v.again
    <3>1. call = AfterPlans(done)
      BY <2>2
    <3>2. done.again = FALSE /\ (storeFaults = 0 /\ done.op = "verify" => "essential" \in tiers)
      BY <1>2, <1>3, <1>4, <2>2 DEF Onward
    <3> HIDE DEF call
    <3>3. CallFits(call) /\ (call.op = "idle" \/ (call.op = v.op /\ call.store = v.store))
      BY <1>1, <1>4, <3>1, <3>2, AfterPlansFits
    <3>4. CallFits(visits[c])'
      BY <1>1, <1>2, <1>5, <3>3, StillFits
    <3> QED BY <3>3, <3>4
  <2> QED BY <2>1, <2>2
<1> HIDE DEF call
<1>9. OverlapsNoticed'
  BY <1>1, <1>8, OverlapsStay DEF MInv
<1>10. RowIds(subs) \subseteq RowIds(subs)' \cup forced' /\ storeFaults' >= storeFaults
  BY <1>1, <1>5, Known DEF RowIds
<1>11. \A s \in stores' : \E t \in stores : t.id = s.id /\ t.plan = s.plan
  BY <1>1
<1> QED BY <1>1, <1>6, <1>7, <1>8, <1>9, <1>10, <1>11, StepKeeps

LEMMA CreateUpgradeOrderKeeps ==
  ASSUME MInv, NEW c \in StoreCalls, CreateUpgradeOrder(c)
  PROVE  MInv'
<1> DEFINE v == visits[c]
           order == [id |-> inserts + 1, plan |-> v.plan, paid |-> FALSE]
           priced == v.plan \in tiers \ {"essential"}
<1>1. /\ v.step = "order" /\ Ends(c)
      /\ orders' = (IF priced THEN orders \cup {order} ELSE orders)
      /\ inserts' = (IF priced THEN inserts + 1 ELSE inserts)
      /\ stores' = stores /\ kyc' = kyc /\ accounts' = accounts /\ events' = events
      /\ campaigns' = campaigns /\ subs' = subs /\ tiers' = tiers
      /\ storeFaults' = storeFaults /\ contended' = contended /\ forced' = forced /\ unsettled' = unsettled
      /\ overtaken' = overtaken /\ synced' = synced /\ unhonoured' = unhonoured /\ seedStopped' = seedStopped
  BY DEF CreateUpgradeOrder, At, Quiet, SameCount, merchantGhosts, storeRows
<1>2. inserts' \in Nat /\ inserts <= inserts'
  BY <1>1, Known
<1>3. OrdersFit(orders', tiers)
  <2>1. priced => order \in OrderRecords /\ order.plan \in tiers
    BY Known DEF OrderRecords
  <2> HIDE DEF order, priced
  <2> QED BY <1>1, <2>1, Known DEF OrdersFit
<1>4. CampaignsFit(campaigns', RowIds(stores), inserts')
  BY <1>1, <1>2, CampaignsStillFit, Known
<1>5. RowsFit'
  BY <1>1, <1>2, <1>3, <1>4, RowsChange, Known
<1>6. /\ visits' = [visits EXCEPT ![c] = NoVisit] /\ OverlapsNoticed' /\ CallFits(visits[c])'
  BY <1>1, EndsFits
<1>7. RowIds(subs) \subseteq RowIds(subs)' \cup forced' /\ storeFaults' >= storeFaults
  BY <1>1, Known DEF RowIds
<1> QED BY <1>1, <1>5, <1>6, <1>7, StepKeeps

\* Orders are no part of what the calls and the tables say of each other.
LEMMA OnlyOrders ==
  ASSUME MInv, OrdersFit(orders', tiers), UNCHANGED <<storeRows, campaigns, subs, tiers, inserts, visits>>,
         storeFaults' = storeFaults,
         UNCHANGED <<contended, forced, unsettled, overtaken, synced, unhonoured, seedStopped>>
  PROVE  MInv'
<1>1. /\ stores' = stores /\ kyc' = kyc /\ accounts' = accounts /\ events' = events
      /\ campaigns' = campaigns /\ subs' = subs /\ tiers' = tiers /\ inserts' = inserts /\ visits' = visits
  BY DEF storeRows
<1>2. RowsFit'
  BY <1>1, RowsChange, Known
<1>3. OverlapsNoticed'
  BY <1>1 DEF MInv, OverlapsNoticed
<1>4. VisitsFit'
  <2> SUFFICES ASSUME NEW c \in StoreCalls PROVE CallFits(visits[c])'
    BY <1>1 DEF MInv, VisitsFit
  <2>1. RowIds(subs) \subseteq RowIds(subs') \cup forced' /\ visits'[c] = visits[c]
    BY <1>1
  <2> QED BY <1>1, <2>1, StillFits, CallOf
<1>5. TablesAgree'
  BY <1>1 DEF MInv, TablesAgree, OneActiveEach, PlansAgree, CatalogFits, CatalogIsWhole,
              PaidUpgradesSucceed, VerifiedWasSeen, AccountFollowsStore
<1> QED BY <1>2, <1>3, <1>4, <1>5 DEF MInv

LEMMA PayOrderKeeps ==
  ASSUME MInv, NEW id, PayOrder(id)
  PROVE  MInv'
<1>1. /\ orders' = {IF o.id = id THEN [o EXCEPT !.paid = TRUE] ELSE o : o \in orders}
      /\ UNCHANGED <<storeRows, campaigns, subs, tiers, inserts, visits>> /\ storeFaults' = storeFaults
      /\ UNCHANGED <<contended, forced, unsettled, overtaken, synced, unhonoured, seedStopped>>
  BY DEF PayOrder, Quiet, SameCount, merchantGhosts
<1>2. OrdersFit(orders', tiers)
  <2>1. \A o \in orders : /\ [o EXCEPT !.paid = TRUE] \in OrderRecords
                          /\ [o EXCEPT !.paid = TRUE].plan = o.plan
                          /\ o \in OrderRecords /\ o.plan \in tiers
    BY Known DEF OrdersFit, OrderRecords
  <2> QED BY <1>1, <2>1 DEF OrdersFit
<1> QED BY <1>1, <1>2, OnlyOrders

\* A call that goes on about a plan after a statement that may have failed.
LEMMA PlanStepKeeps ==
  ASSUME MInv, NEW c \in StoreCalls, NEW call, visits' = [visits EXCEPT ![c] = call], CallFits(call),
         call.op = "idle" \/ (call.op = visits[c].op /\ call.store = visits[c].store),
         visits[c].step # "seed", UNCHANGED <<storeRows, planRows, inserts>>,
         storeFaults' \in {storeFaults, storeFaults + 1}, unhonoured' = unhonoured \/ PaidUpgradesSucceed',
         UNCHANGED <<contended, forced, unsettled, overtaken, synced, seedStopped>>
  PROVE  MInv'
<1>1. /\ stores' = stores /\ kyc' = kyc /\ accounts' = accounts /\ events' = events
      /\ campaigns' = campaigns /\ subs' = subs /\ tiers' = tiers /\ orders' = orders /\ inserts' = inserts
  BY DEF storeRows, planRows
<1>2. storeFaults' \in Nat /\ storeFaults' >= storeFaults /\ (storeFaults' = 0 => storeFaults = 0)
  BY Known
<1>3. visits'[c] = call /\ RowIds(subs) \subseteq RowIds(subs') \cup forced'
  BY <1>1, CallOf
<1>4. CallFits(visits[c])'
  BY <1>1, <1>2, <1>3, StillFits
<1>5. OverlapsNoticed'
  BY OverlapsStay DEF MInv
<1>6. RowsFit'
  BY <1>1, <1>2, RowsSame, Known
<1>7. RowIds(subs) \subseteq RowIds(subs)' \cup forced'
  BY <1>1 DEF RowIds
<1> QED BY <1>1, <1>2, <1>4, <1>5, <1>6, <1>7, StepKeeps

LEMMA RefuseKeeps ==
  ASSUME MInv, NEW c \in StoreCalls, Refuse(c), visits[c].step # "seed",
         storeFaults = 0 /\ visits[c].op = "verify" => visits[c].store \in contended \cup forced,
         UNCHANGED <<storeRows, planRows, inserts>>, storeFaults' = storeFaults,
         UNCHANGED <<contended, forced, unsettled, overtaken, synced, seedStopped>>
  PROVE  MInv'
<1>1. /\ visits' = [visits EXCEPT ![c] = NoVisit]
      /\ unhonoured' = unhonoured \/ (visits[c].op = "verify" /\ unhonoured' = unhonoured \cup {visits[c].store})
  BY DEF Refuse, Ends, Goes
<1>2. CallFits(NoVisit) /\ NoVisit.op = "idle"
  BY NoVisitFits DEF CallFits
<1>3. unhonoured' = unhonoured \/ PaidUpgradesSucceed'
  BY <1>1, Known DEF PaidUpgradesSucceed
<1> QED BY <1>1, <1>2, <1>3, PlanStepKeeps

\* A downgrade is refused for active campaigns only when there are two, which
\* takes an administrator or calls that overlap.
LEMMA CheckActiveCampaignsKeeps ==
  ASSUME MInv, NEW c \in StoreCalls, CheckActiveCampaigns(c)
  PROVE  MInv'
<1> DEFINE v == visits[c]
           limit == IF v.plan \in tiers THEN MaxActiveCampaigns(v.plan) ELSE 1
           active == Active(v.store, 0)
           call == [v EXCEPT !.step = "update"]
<1>1. /\ v.op \in {"change", "verify"} /\ v.step = "check"
      /\ \/ Cardinality(active) > limit /\ Refuse(c) /\ storeFaults' = storeFaults
         \/ /\ visits' = [visits EXCEPT ![c] = call] /\ unhonoured' = unhonoured
            /\ storeFaults' \in {storeFaults, storeFaults + 1}
      /\ UNCHANGED <<storeRows, planRows, inserts>>
      /\ UNCHANGED <<contended, forced, unsettled, overtaken, synced, seedStopped>>
  BY DEF CheckActiveCampaigns, At, To, Goes
<1>2. /\ VisitFits(v, events) /\ v \in VisitRecords
      /\ UpgradeFits(v, storeFaults, tiers, RowIds(subs) \cup forced)
  BY CallOf DEF CallFits
<1>3. CASE Cardinality(active) > limit /\ Refuse(c) /\ storeFaults' = storeFaults
  <2>1. v.store \in contended \cup forced
    <3> SUFFICES ASSUME v.store \notin contended \cup forced PROVE FALSE
      OBVIOUS
    <3>1. v.store \in events
      BY <1>1, <1>2 DEF VisitFits
    <3>2. OneActive(campaigns, v.store)
      BY <3>1, Known DEF OneActiveEach
    <3>3. \A a, b \in active : a = b
      BY <3>2 DEF OneActive, ActiveIn, Active, GetCampaignsByStoreID
    <3>4. limit \in Nat /\ limit >= 1
      BY MerchantsAssumption DEF MaxActiveCampaigns
    <3> HIDE DEF active, limit
    <3>5. Cardinality(active) \in {0, 1}
      BY <3>3, OneOrNone
    <3> QED BY <1>3, <3>4, <3>5
  <2> QED BY <1>1, <1>3, <2>1, RefuseKeeps
<1>4. CASE /\ visits' = [visits EXCEPT ![c] = call] /\ unhonoured' = unhonoured
           /\ storeFaults' \in {storeFaults, storeFaults + 1}
  <2>1. Onward(v, call) /\ call.step = "update" /\ call.again = v.again
    <3>1. "update" \in VisitSteps
      BY DEF VisitSteps
    <3> QED BY <1>2, <3>1, StepOn
  <2>2. ~v.again
    BY <1>1, <1>2 DEF VisitFits
  <2> HIDE DEF call
  <2>3. UpsertFits(call, stores, tiers, unsettled)
    BY <2>1 DEF UpsertFits
  <2>4. UpgradeFits(call, storeFaults, tiers, RowIds(subs) \cup forced)
    BY <1>1, <1>2, <2>1, <2>2 DEF UpgradeFits, Upgrading, Onward
  <2>5. CallFits(call) /\ call.op = v.op /\ call.store = v.store
    BY <1>1, <2>1, <2>2, <2>3, <2>4, PlanGoesOn DEF Onward
  <2> QED BY <1>1, <1>4, <2>5, PlanStepKeeps
<1> QED BY <1>1, <1>3, <1>4

\* Subscription and store are written together.
LEMMA PlanChanges ==
  ASSUME MInv, NEW c \in StoreCalls, Ends(c), visits[c].step # "seed", NEW id \in Nat, NEW plan,
         Succeeds(UpsertSubscription(subs, stores, tiers, Subscription(id, plan))),
         subs' = UpsertSubscription(subs, stores, tiers, Subscription(id, plan)).val,
         stores' = UpdateStorePlanEnum(stores, id, plan), Settle(id), forced \subseteq forced',
         UNCHANGED <<kyc, accounts, events, campaigns, tiers, orders, inserts>>, SameCount,
         UNCHANGED <<contended, overtaken, synced, unhonoured, seedStopped>>
  PROVE  MInv'
<1> DEFINE sub == Subscription(id, plan)
<1>1. tiers \subseteq SubscriptionPlan /\ SubscriptionsFit(subs, RowIds(stores), tiers) /\ StoresFit(stores)
  BY Known
<1>2. /\ SubscriptionsFit(subs', RowIds(stores), tiers) /\ RowIds(subs') = RowIds(subs) \cup {id}
      /\ \A s \in subs' : s = sub \/ (s \in subs /\ s.id # id)
      /\ plan \in tiers
  BY <1>1, SubscriptionPut
<1>3. sub.id = id /\ sub.plan = plan /\ plan \in SubscriptionPlan
  BY <1>1, <1>2 DEF Subscription
<1> HIDE DEF sub
<1>4. /\ StoresFit(stores') /\ RowIds(stores') = RowIds(stores)
      /\ \A s \in stores' :
           /\ s.id = id => s.plan = plan
           /\ s.id # id => s \in stores
           /\ \E t \in stores : t.id = s.id /\ t.status = s.status /\ t.email = s.email
  BY <1>1, <1>3, PlanPut
<1>5. PlansOf(stores') \subseteq tiers \cup {"essential"}
  BY <1>2, <1>4, Known DEF PlansOf
<1>6. unsettled \subseteq unsettled' /\ storeFaults' = storeFaults
  BY DEF Settle, SameCount
<1>7. RowsFit'
  BY <1>2, <1>4, <1>5, <1>6, RowsChange, Known
<1>8. /\ visits' = [visits EXCEPT ![c] = NoVisit] /\ OverlapsNoticed' /\ CallFits(visits[c])'
  BY EndsFits
<1>9. PlansAgree'
  BY <1>2, <1>3, <1>4, <1>6, Known DEF PlansAgree
<1>10. \A s \in stores' :
         \/ s.id \in unsettled'
         \/ \E t \in stores : t.id = s.id /\ t.plan = s.plan
         \/ \A d \in StoreCalls \ {c} : visits[d].step = "upsert" => visits[d].store # s.id
  BY <1>4 DEF Settle, BeingSetUp
<1>11. AccountFollowsStore'
  <2> SUFFICES ASSUME NEW s \in stores', NEW a \in accounts, s.id \in synced \ contended, a.email = s.email
               PROVE  /\ (s.status = "active") = (a.status = "active")
                      /\ s.status \in {"suspended", "deleted"} => a.status = s.status
    BY DEF AccountFollowsStore
  <2>1. PICK t \in stores : t.id = s.id /\ t.status = s.status /\ t.email = s.email
    BY <1>4
  <2> QED BY <2>1, Known DEF AccountFollowsStore
<1>12. RowIds(subs) \subseteq RowIds(subs)' \cup forced' /\ storeFaults' >= storeFaults
  BY <1>2, <1>6, Known DEF RowIds
<1> QED BY <1>4, <1>6, <1>7, <1>8, <1>9, <1>10, <1>11, <1>12, StepKeeps

LEMMA UpdateStorePlanKeeps ==
  ASSUME MInv, NEW c \in StoreCalls, UpdateStorePlan(c)
  PROVE  MInv'
<1> DEFINE v == visits[c]
           found == GetStoreSubscription(subs, v.store)
           written == UpsertSubscription(subs, stores, tiers, Subscription(v.store, v.plan))
<1>1. /\ v.op \in {"change", "verify"} /\ v.step = "update" /\ Succeeds(found)
      /\ IF found.val.plan = v.plan
         THEN Ends(c) /\ UNCHANGED <<subs, stores, unsettled, unhonoured>>
         ELSE /\ subs' = Then(written, subs)
              /\ IF Succeeds(written)
                 THEN /\ stores' = UpdateStorePlanEnum(stores, v.store, v.plan)
                      /\ Ends(c) /\ Settle(v.store) /\ UNCHANGED unhonoured
                 ELSE Refuse(c) /\ UNCHANGED <<stores, unsettled>>
      /\ UNCHANGED <<kyc, accounts, events, campaigns, tiers, orders, inserts>> /\ SameCount
      /\ UNCHANGED <<contended, forced, overtaken, synced, seedStopped>>
  BY DEF UpdateStorePlan, At
<1>2. v.store \in Nat
  BY CallOf DEF VisitRecords
<1>3. v.store \in RowIds(stores)
  <2>1. found.val \in RowsOf(subs, v.store)
    BY <1>1, RowFound DEF GetStoreSubscription, GetSubscriptionByStoreID
  <2> QED BY <2>1, Known DEF RowsOf, SubscriptionsFit
<1>4. CASE found.val.plan = v.plan
  <2>1. UNCHANGED <<storeRows, planRows, inserts>>
    BY <1>1, <1>4 DEF storeRows, planRows
  <2> QED BY <1>1, <1>4, <2>1, QuietEnds
<1>5. CASE found.val.plan # v.plan /\ Succeeds(written)
  <2>1. subs' = written.val
    BY <1>1, <1>5 DEF Then
  <2> QED BY <1>1, <1>2, <1>5, <2>1, PlanChanges
<1>6. CASE found.val.plan # v.plan /\ ~Succeeds(written)
  <2>1. subs' = subs /\ Refuse(c) /\ UNCHANGED <<storeRows, planRows, inserts>>
    BY <1>1, <1>6 DEF Then, storeRows, planRows
  <2>2. v.plan \notin tiers
    BY <1>2, <1>3, <1>6, SubscriptionPut, Known
  <2>3. ~\E o \in RowsOf(orders, v.order) : o.plan = v.plan
    BY <2>2, Known DEF RowsOf, OrdersFit
  <2>4. unhonoured' = unhonoured /\ Ends(c)
    BY <2>1, <2>3 DEF Refuse
  <2> QED BY <1>1, <1>6, <2>1, <2>4, QuietEnds
<1> QED BY <1>4, <1>5, <1>6

\* The row that was made is gone again only with its store.
LEMMA FindNoSubscriptionKeeps ==
  ASSUME MInv, NEW c \in StoreCalls, FindNoSubscription(c)
  PROVE  MInv'
<1> DEFINE v == visits[c]
           call == [v EXCEPT !.step = "initialize", !.again = TRUE]
<1>1. /\ v.op \in {"change", "verify"} /\ v.step = "update"
      /\ ~Succeeds(GetStoreSubscription(subs, v.store))
      /\ IF v.again THEN Refuse(c) ELSE visits' = [visits EXCEPT ![c] = call] /\ unhonoured' = unhonoured
      /\ UNCHANGED <<storeRows, planRows, inserts>> /\ storeFaults' = storeFaults
      /\ UNCHANGED <<contended, forced, unsettled, overtaken, synced, seedStopped>>
  BY DEF FindNoSubscription, At, Goes, SameCount
<1>2. v \in VisitRecords /\ UpgradeFits(v, storeFaults, tiers, RowIds(subs) \cup forced)
  BY CallOf DEF CallFits
<1>3. CASE v.again
  <2>1. RowsOf(subs, v.store) = {}
    BY <1>1, RowMissed DEF GetStoreSubscription, GetSubscriptionByStoreID
  <2>2. storeFaults = 0 /\ v.op = "verify" => v.store \in contended \cup forced
    BY <1>1, <1>2, <1>3, <2>1, IdOf DEF UpgradeFits
  <2> QED BY <1>1, <1>3, <2>2, RefuseKeeps
<1>4. CASE ~v.again
  <2>1. Onward(v, call) /\ call.step = "initialize"
    <3>1. call \in VisitRecords
      BY <1>2 DEF VisitRecords, VisitSteps
    <3>2. /\ call.op = v.op /\ call.store = v.store /\ call.campaign = v.campaign /\ call.plan = v.plan
          /\ call.order = v.order /\ call.n = v.n /\ call.email = v.email /\ call.vpa = v.vpa
          /\ call.aadhaar = v.aadhaar /\ call.step = "initialize"
      BY <1>2 DEF VisitRecords
    <3> HIDE DEF call
    <3> QED BY <3>1, <3>2 DEF Onward
  <2> HIDE DEF call
  <2>2. UpsertFits(call, stores, tiers, unsettled)
    BY <2>1 DEF UpsertFits
  <2>3. UpgradeFits(call, storeFaults, tiers, RowIds(subs) \cup forced)
    BY <1>1, <1>2, <2>1 DEF UpgradeFits, Upgrading, Onward
  <2>4. CallFits(call) /\ call.op = v.op /\ call.store = v.store
    BY <1>1, <2>1, <2>2, <2>3, PlanGoesOn DEF Onward
  <2> QED BY <1>1, <1>4, <2>4, PlanStepKeeps
<1> QED BY <1>3, <1>4

LEMMA AdminChangePlanKeeps ==
  ASSUME MInv, NEW c \in StoreCalls, AdminChangePlan(c)
  PROVE  MInv'
<1> DEFINE v == visits[c]
           written == UpsertSubscription(subs, stores, tiers, Subscription(v.store, v.plan))
<1>1. /\ v.step = "read" /\ subs' = Then(written, subs)
      /\ IF Succeeds(written)
         THEN /\ stores' = UpdateStorePlanEnum(stores, v.store, v.plan)
              /\ Settle(v.store) /\ forced' = forced \cup {v.store}
         ELSE UNCHANGED <<stores, unsettled, forced>>
      /\ Ends(c) /\ SameCount
      /\ UNCHANGED <<kyc, accounts, events, campaigns, tiers, orders, inserts>>
      /\ UNCHANGED <<contended, overtaken, synced, unhonoured, seedStopped>>
  BY DEF AdminChangePlan, At
<1>2. v.store \in Nat
  BY CallOf DEF VisitRecords
<1>3. CASE Succeeds(written)
  <2>1. subs' = written.val
    BY <1>1, <1>3 DEF Then
  <2>2. forced \subseteq forced' /\ stores' = UpdateStorePlanEnum(stores, v.store, v.plan) /\ Settle(v.store)
    BY <1>1, <1>3
  <2> QED BY <1>1, <1>2, <1>3, <2>1, <2>2, PlanChanges
<1>4. CASE ~Succeeds(written)
  <2>1. UNCHANGED <<storeRows, planRows, inserts>>
    BY <1>1, <1>4 DEF Then, storeRows, planRows
  <2>2. unsettled' = unsettled /\ forced' = forced
    BY <1>1, <1>4
  <2> QED BY <1>1, <2>1, <2>2, QuietEnds
<1> QED BY <1>3, <1>4

-----------------------------------------------------------------------------
(* Calls that start and stop *)

LEMMA StopVisitKeeps ==
  ASSUME MInv, NEW c \in StoreCalls, StopVisit(c)
  PROVE  MInv'
<1>1. /\ storeFaults' = storeFaults + 1 /\ Ends(c)
      /\ seedStopped' = (seedStopped \/ visits[c].step = "seed")
      /\ UNCHANGED <<storeRows, planRows, inserts>>
      /\ UNCHANGED <<contended, forced, unsettled, overtaken, synced, unhonoured>>
  BY DEF StopVisit
<1>2. /\ stores' = stores /\ kyc' = kyc /\ accounts' = accounts /\ events' = events
      /\ campaigns' = campaigns /\ subs' = subs /\ tiers' = tiers /\ orders' = orders /\ inserts' = inserts
  BY <1>1 DEF storeRows, planRows
<1>3. storeFaults' \in Nat /\ storeFaults' > 0 /\ storeFaults' >= storeFaults
  BY <1>1, Known
<1>4. seedStopped' \in BOOLEAN /\ (seedStopped => seedStopped')
  BY <1>1
<1>5. RowsFit'
  BY <1>1, <1>3, <1>4, RowsSame, Known
<1>6. /\ visits' = [visits EXCEPT ![c] = NoVisit] /\ OverlapsNoticed' /\ CallFits(visits[c])'
  BY <1>1, EndsFits
<1>7. CatalogFits'
  <2>1. CatalogIsWhole /\ (seedStopped \/ tiers = {} \/ "essential" \in tiers)
    BY Known DEF CatalogFits
  <2>2. CASE seedStopped'
    BY <1>3, <2>2 DEF CatalogFits, CatalogIsWhole
  <2>3. CASE ~seedStopped'
    <3>1. ~seedStopped /\ visits[c].step # "seed"
      BY <1>1, <2>3
    <3>2. ASSUME NEW d \in StoreCalls, visits[d].step = "seed" PROVE visits'[d].step = "seed"
      <4>1. d # c
        BY <3>1, <3>2
      <4> QED BY <1>6, <3>2, <4>1, CallOf
    <3>3. CatalogIsWhole'
      BY <1>2, <2>1, <3>1, <3>2 DEF CatalogIsWhole
    <3> QED BY <1>2, <2>1, <2>3, <3>1, <3>3 DEF CatalogFits
  <2> QED BY <2>2, <2>3
<1>8. PaidUpgradesSucceed' /\ RowIds(subs) \subseteq RowIds(subs)' \cup forced'
  BY <1>2, <1>3 DEF PaidUpgradesSucceed, RowIds
<1> QED BY <1>1, <1>2, <1>3, <1>4, <1>5, <1>6, <1>7, <1>8, StepKeeps

\* What a request names.
RequestOf(r, ids) ==
  /\ DOMAIN r \subseteq {"op", "store", "email", "vpa", "aadhaar", "status", "plan", "order", "campaign"}
  /\ "op" \in DOMAIN r /\ r.op \in VisitOps \ {"idle"}
  /\ "store" \in DOMAIN r => r.store \in ids \cup {0}
  /\ "email" \in DOMAIN r => r.email \in StoreEmails \cup {"none"}
  /\ "vpa" \in DOMAIN r => r.vpa \in Vpas
  /\ "aadhaar" \in DOMAIN r => r.aadhaar \in Aadhaars
  /\ "status" \in DOMAIN r => r.status \in MerchantStatus \cup {"blocked", "rejected"}
  /\ "plan" \in DOMAIN r => r.plan \in SubscriptionPlan
  /\ "order" \in DOMAIN r => r.order \in Nat
  /\ "campaign" \in DOMAIN r => r.campaign \in Nat
  /\ r.op = "create" => "campaign" \notin DOMAIN r
  /\ r.op = "register" => {"email", "vpa", "aadhaar"} \subseteq DOMAIN r /\ r.email \in StoreEmails
  /\ r.op = "kyc" => "aadhaar" \in DOMAIN r
  /\ r.op \in {"approve", "reject", "status", "change", "verify"} => "store" \in DOMAIN r /\ r.store \in ids
  /\ r.op \in {"change", "verify", "order", "admin plan"} => "plan" \in DOMAIN r

LEMMA StoreRequestFits ==
  ASSUME NEW r \in StoreRequests
  PROVE  RequestOf(r, events)
<1>1. CASE r \in RegisterRequests
  <2>1. /\ DOMAIN r = {"op", "email", "vpa", "aadhaar"} /\ r.op = "register" /\ r.email \in StoreEmails
        /\ r.vpa \in Vpas /\ r.aadhaar \in Aadhaars
    BY <1>1 DEF RegisterRequests
  <2> QED BY <2>1 DEF RequestOf, VisitOps
<1>2. CASE r \in ProfileRequests
  <2>1. /\ DOMAIN r = {"op", "store", "email"} /\ r.op = "profile" /\ r.store \in events
        /\ r.email \in StoreEmails \cup {"none"}
    BY <1>2 DEF ProfileRequests, StoreIds
  <2> QED BY <2>1 DEF RequestOf, VisitOps
<1>3. CASE r \in KYCRequests
  <2>1. DOMAIN r = {"op", "store", "aadhaar"} /\ r.op = "kyc" /\ r.store \in events /\ r.aadhaar \in Aadhaars
    BY <1>3 DEF KYCRequests, StoreIds
  <2> QED BY <2>1 DEF RequestOf, VisitOps
<1>4. CASE r \in StatusRequests \cup ReviewRequests
  <2>1. /\ DOMAIN r = {"op", "store", "status"} /\ r.op \in {"status", "approve", "reject"}
        /\ r.store \in events /\ r.status \in MerchantStatus \cup {"blocked", "rejected"}
    BY <1>4 DEF StatusRequests, ReviewRequests, StoreIds, MerchantStatus
  <2> QED BY <2>1 DEF RequestOf, VisitOps
<1>5. CASE r \in DeleteStoreRequests
  <2>1. DOMAIN r = {"op", "store"} /\ r.op = "delete" /\ r.store \in events
    BY <1>5 DEF DeleteStoreRequests, StoreIds
  <2> QED BY <2>1 DEF RequestOf, VisitOps
<1> QED BY <1>1, <1>2, <1>3, <1>4, <1>5 DEF StoreRequests

LEMMA PlanRequestFits ==
  ASSUME RowsFit, NEW r \in PlanRequests
  PROVE  RequestOf(r, events)
<1>1. CASE r \in PlansRequests \cup PublicPlansRequests \cup CurrentRequests
  <2>1. DOMAIN r = {"op", "store"} /\ r.op \in {"plans", "current"} /\ r.store \in events \cup {0}
    BY <1>1 DEF PlansRequests, PublicPlansRequests, CurrentRequests, StoreIds
  <2> QED BY <2>1 DEF RequestOf, VisitOps
<1>2. CASE r \in ChangeRequests \cup OrderRequests \cup AdminPlanRequests
  <2>1. /\ DOMAIN r = {"op", "store", "plan"} /\ r.op \in {"change", "order", "admin plan"}
        /\ r.store \in events /\ r.plan \in SubscriptionPlan
    BY <1>2 DEF ChangeRequests, OrderRequests, AdminPlanRequests, StoreIds
  <2> QED BY <2>1 DEF RequestOf, VisitOps
<1>3. CASE r \in VerifyRequests
  <2>1. {o.id : o \in orders} \subseteq Nat
    BY DEF RowsFit, OrdersFit, OrderRecords
  <2>2. /\ DOMAIN r = {"op", "store", "plan", "order"} /\ r.op = "verify"
        /\ r.store \in events /\ r.plan \in SubscriptionPlan /\ r.order \in Nat
    BY <1>3, <2>1 DEF VerifyRequests, StoreIds
  <2> QED BY <2>2 DEF RequestOf, VisitOps
<1> QED BY <1>1, <1>2, <1>3 DEF PlanRequests

LEMMA CampaignRequestFits ==
  ASSUME RowsFit, NEW r \in CampaignRequests
  PROVE  RequestOf(r, events)
<1>1. CampaignIds \subseteq Nat
  BY DEF CampaignIds, RowsFit, CampaignsFit, CampaignRecords
<1>2. CASE r \in CreateCampaignRequests \cup AdminCampaignRequests
  <2>1. DOMAIN r = {"op", "store"} /\ r.op \in {"create", "admin create"} /\ r.store \in events
    BY <1>2 DEF CreateCampaignRequests, AdminCampaignRequests, StoreIds
  <2> QED BY <2>1 DEF RequestOf, VisitOps
<1>3. CASE r \in CampaignStatusRequests
  <2>1. /\ DOMAIN r = {"op", "store", "campaign"} /\ r.op \in {"activate", "pause"} /\ r.store \in events
        /\ r.campaign \in Nat
    BY <1>1, <1>3 DEF CampaignStatusRequests, StoreIds
  <2> QED BY <2>1 DEF RequestOf, VisitOps
<1>4. CASE r \in AdminCampaignStatusRequests
  <2>1. /\ DOMAIN r = {"op", "campaign"} /\ r.op \in {"admin activate", "admin pause", "admin remove"}
        /\ r.campaign \in Nat
    BY <1>1, <1>4 DEF AdminCampaignStatusRequests
  <2> QED BY <2>1 DEF RequestOf, VisitOps
<1> QED BY <1>2, <1>3, <1>4 DEF CampaignRequests

\* The call of a request: what the request leaves out is as it was.
Started(r, n) ==
  [f \in DOMAIN NoVisit |->
     CASE f = "step" -> "read"
       [] f = "n" /\ r.op \in {"approve", "reject"} -> n
       [] f \in DOMAIN r -> r[f]
       [] OTHER -> NoVisit[f]]
Named(r, f, otherwise) == IF f \in DOMAIN r THEN r[f] ELSE otherwise

LEMMA StartedIs ==
  ASSUME NEW ids, NEW r, RequestOf(r, ids), NEW n \in Nat
  PROVE  Started(r, n) =
           [op |-> r.op, step |-> "read", store |-> Named(r, "store", 0), plan |-> Named(r, "plan", "none"),
            email |-> Named(r, "email", "none"), vpa |-> Named(r, "vpa", "none"),
            aadhaar |-> Named(r, "aadhaar", "none"), status |-> Named(r, "status", "none"),
            campaign |-> Named(r, "campaign", 0), order |-> Named(r, "order", 0), again |-> FALSE,
            n |-> IF r.op \in {"approve", "reject"} THEN n ELSE 1]
<1> DEFINE call == Started(r, n)
<1>1. /\ DOMAIN NoVisit = {"op", "step", "store", "plan", "email", "vpa", "aadhaar", "status", "campaign",
                           "order", "again", "n"}
      /\ NoVisit.store = 0 /\ NoVisit.plan = "none" /\ NoVisit.email = "none" /\ NoVisit.vpa = "none"
      /\ NoVisit.aadhaar = "none" /\ NoVisit.status = "none" /\ NoVisit.campaign = 0 /\ NoVisit.order = 0
      /\ NoVisit.again = FALSE /\ NoVisit.n = 1
  BY DEF NoVisit
<1>2. /\ DOMAIN r \subseteq {"op", "store", "email", "vpa", "aadhaar", "status", "plan", "order", "campaign"}
      /\ "op" \in DOMAIN r
  BY DEF RequestOf
<1>3. DOMAIN call = DOMAIN NoVisit
  BY DEF Started
<1>4. call.op = r.op /\ call.step = "read" /\ call.again = FALSE
      /\ call.n = IF r.op \in {"approve", "reject"} THEN n ELSE 1
  BY <1>1, <1>2 DEF Started
<1>5. call.store = Named(r, "store", 0) /\ call.plan = Named(r, "plan", "none")
  BY <1>1, <1>2 DEF Started, Named
<1>6. call.email = Named(r, "email", "none") /\ call.vpa = Named(r, "vpa", "none")
  BY <1>1, <1>2 DEF Started, Named
<1>7. call.aadhaar = Named(r, "aadhaar", "none") /\ call.status = Named(r, "status", "none")
  BY <1>1, <1>2 DEF Started, Named
<1>8. call.campaign = Named(r, "campaign", 0) /\ call.order = Named(r, "order", 0)
  BY <1>1, <1>2 DEF Started, Named
<1>9. call = [f \in DOMAIN NoVisit |-> call[f]]
  BY DEF Started
<1> HIDE DEF call
<1>10. call = [op |-> r.op, step |-> "read", store |-> Named(r, "store", 0), plan |-> Named(r, "plan", "none"),
            email |-> Named(r, "email", "none"), vpa |-> Named(r, "vpa", "none"),
            aadhaar |-> Named(r, "aadhaar", "none"), status |-> Named(r, "status", "none"),
            campaign |-> Named(r, "campaign", 0), order |-> Named(r, "order", 0), again |-> FALSE,
            n |-> IF r.op \in {"approve", "reject"} THEN n ELSE 1]
  BY <1>1, <1>4, <1>5, <1>6, <1>7, <1>8, <1>9
<1> QED BY <1>10 DEF call

LEMMA StartedFits ==
  ASSUME NEW ids, ids \subseteq Nat \ {0}, NEW r, RequestOf(r, ids), NEW n \in Nat
  PROVE  /\ VisitFits(Started(r, n), ids) /\ Started(r, n).step = "read" /\ Started(r, n).op = r.op
         /\ Started(r, n).store = Named(r, "store", 0)
         /\ r.op \in {"approve", "reject"} => Started(r, n).n = n
<1> DEFINE call == Started(r, n)
<1>1. /\ r.op \in VisitOps /\ Named(r, "store", 0) \in ids \cup {0} /\ Named(r, "store", 0) \in Nat
      /\ Named(r, "plan", "none") \in SubscriptionPlan \cup {"none"}
      /\ Named(r, "email", "none") \in StoreEmails \cup {"none"} /\ Named(r, "vpa", "none") \in Vpas \cup {"none"}
      /\ Named(r, "aadhaar", "none") \in Aadhaars \cup {"none"}
      /\ Named(r, "status", "none") \in MerchantStatus \cup SubscriptionPlan \cup {"blocked", "rejected", "none"}
      /\ Named(r, "campaign", 0) \in Nat /\ Named(r, "order", 0) \in Nat
      /\ (IF r.op \in {"approve", "reject"} THEN n ELSE 1) \in Nat
  <2>1. r.op \in VisitOps
    BY DEF RequestOf
  <2>2. Named(r, "store", 0) \in ids \cup {0}
    BY DEF RequestOf, Named
  <2>3. /\ Named(r, "plan", "none") \in SubscriptionPlan \cup {"none"}
        /\ Named(r, "email", "none") \in StoreEmails \cup {"none"}
    BY DEF RequestOf, Named
  <2>4. Named(r, "vpa", "none") \in Vpas \cup {"none"} /\ Named(r, "aadhaar", "none") \in Aadhaars \cup {"none"}
    BY DEF RequestOf, Named
  <2>5. Named(r, "status", "none") \in MerchantStatus \cup SubscriptionPlan \cup {"blocked", "rejected", "none"}
    BY DEF RequestOf, Named
  <2>6. Named(r, "campaign", 0) \in Nat /\ Named(r, "order", 0) \in Nat
    BY DEF RequestOf, Named
  <2>7. (IF r.op \in {"approve", "reject"} THEN n ELSE 1) \in Nat
    OBVIOUS
  <2>8. Named(r, "store", 0) \in Nat
    <3> DEFINE store == Named(r, "store", 0)
    <3>1. store \in ids \cup {0}
      BY <2>2
    <3> HIDE DEF store
    <3>2. store \in Nat
      BY <3>1
    <3> QED BY <3>2 DEF store
  <2> QED BY <2>1, <2>2, <2>3, <2>4, <2>5, <2>6, <2>7, <2>8
<1>2. /\ r.op = "create" => Named(r, "campaign", 0) = 0
      /\ r.op = "register" => /\ Named(r, "email", "none") \in StoreEmails /\ Named(r, "vpa", "none") \in Vpas
                              /\ Named(r, "aadhaar", "none") \in Aadhaars
      /\ r.op = "kyc" => Named(r, "aadhaar", "none") \in Aadhaars
      /\ r.op \in {"approve", "reject", "status", "change", "verify"} => Named(r, "store", 0) # 0
      /\ r.op \in {"change", "verify", "order", "admin plan"} => Named(r, "plan", "none") \in SubscriptionPlan
  <2>1. r.op = "create" => Named(r, "campaign", 0) = 0
    BY DEF RequestOf, Named
  <2>2. r.op = "register" => /\ Named(r, "email", "none") \in StoreEmails /\ Named(r, "vpa", "none") \in Vpas
                             /\ Named(r, "aadhaar", "none") \in Aadhaars
    <3>1. r.op = "register" => /\ "email" \in DOMAIN r /\ "vpa" \in DOMAIN r /\ "aadhaar" \in DOMAIN r
                               /\ r.email \in StoreEmails
      BY DEF RequestOf
    <3>2. ("vpa" \in DOMAIN r => r.vpa \in Vpas) /\ ("aadhaar" \in DOMAIN r => r.aadhaar \in Aadhaars)
      BY DEF RequestOf
    <3> QED BY <3>1, <3>2 DEF Named
  <2>3. r.op = "kyc" => Named(r, "aadhaar", "none") \in Aadhaars
    BY DEF RequestOf, Named
  <2>4. r.op \in {"approve", "reject", "status", "change", "verify"} => Named(r, "store", 0) # 0
    BY DEF RequestOf, Named
  <2>5. r.op \in {"change", "verify", "order", "admin plan"} => Named(r, "plan", "none") \in SubscriptionPlan
    BY DEF RequestOf, Named
  <2> QED BY <2>1, <2>2, <2>3, <2>4, <2>5
<1>3. call \in VisitRecords
  <2>1. "read" \in VisitSteps /\ FALSE \in BOOLEAN
    BY DEF VisitSteps
  <2> DEFINE store == Named(r, "store", 0)
             plan == Named(r, "plan", "none")
             email == Named(r, "email", "none")
             vpa == Named(r, "vpa", "none")
             aadhaar == Named(r, "aadhaar", "none")
             status == Named(r, "status", "none")
             campaign == Named(r, "campaign", 0)
             order == Named(r, "order", 0)
             m == IF r.op \in {"approve", "reject"} THEN n ELSE 1
  <2>2. call = [op |-> r.op, step |-> "read", store |-> store, plan |-> plan, email |-> email, vpa |-> vpa,
                aadhaar |-> aadhaar, status |-> status, campaign |-> campaign, order |-> order,
                again |-> FALSE, n |-> m]
    BY StartedIs
  <2>3. /\ r.op \in VisitOps /\ store \in Nat /\ plan \in SubscriptionPlan \cup {"none"}
        /\ email \in StoreEmails \cup {"none"} /\ vpa \in Vpas \cup {"none"}
        /\ aadhaar \in Aadhaars \cup {"none"}
        /\ status \in MerchantStatus \cup SubscriptionPlan \cup {"blocked", "rejected", "none"}
        /\ campaign \in Nat /\ order \in Nat /\ m \in Nat
    BY <1>1
  <2> HIDE DEF call, store, plan, email, vpa, aadhaar, status, campaign, order, m
  <2> QED BY <2>1, <2>2, <2>3 DEF VisitRecords
<1>4. /\ call.op = r.op /\ call.step = "read" /\ call.store = Named(r, "store", 0)
      /\ call.plan = Named(r, "plan", "none") /\ call.email = Named(r, "email", "none")
      /\ call.vpa = Named(r, "vpa", "none") /\ call.aadhaar = Named(r, "aadhaar", "none")
      /\ call.campaign = Named(r, "campaign", 0) /\ call.again = FALSE
      /\ call.n = IF r.op \in {"approve", "reject"} THEN n ELSE 1
  BY StartedIs
<1> HIDE DEF call
<1>5. call.op \in Orders => call.n = 1
  BY <1>4 DEF Orders
<1>6. VisitFits(call, ids)
  BY <1>1, <1>2, <1>3, <1>4, <1>5 DEF VisitFits
<1> QED BY <1>4, <1>6 DEF call

LEMMA VersionSeen ==
  ASSUME DocumentsFit(kyc), NEW id
  PROVE  VersionOf(id) \in Nat /\ \A d \in kyc : d.id = id => VersionOf(id) = d.version
<1>1. CASE RowsOf(kyc, id) = {}
  BY <1>1 DEF VersionOf, RowsOf
<1>2. CASE RowsOf(kyc, id) # {}
  <2>1. PICK d \in kyc : d.id = id
    BY <1>2 DEF RowsOf
  <2>2. RowsOf(kyc, id) = {d} /\ d \in DocumentRecords
    BY <2>1, DocumentOf
  <2>3. VersionOf(id) = d.version
    BY <2>2 DEF VersionOf
  <2> QED BY <2>1, <2>2, <2>3 DEF DocumentsFit, DocumentRecords
<1> QED BY <1>1, <1>2

LEMMA VisitKeeps ==
  ASSUME MInv, NEW c \in StoreCalls, NEW r \in StoreRequests \cup PlanRequests \cup CampaignRequests, Visit(c, r)
  PROVE  MInv'
<1> DEFINE store == Named(r, "store", 0)
           n == VersionOf(store)
           call == Started(r, n)
<1>1. /\ visits[c] = NoVisit /\ visits' = [visits EXCEPT ![c] = call]
      /\ contended' = (IF Others(c, store) # {} THEN contended \cup {store} ELSE contended)
      /\ UNCHANGED <<storeRows, planRows, inserts>> /\ storeFaults' = storeFaults
      /\ UNCHANGED <<forced, unsettled, overtaken, synced, unhonoured, seedStopped>>
  BY DEF Visit, Started, Named
<1>2. RequestOf(r, events)
  BY StoreRequestFits, PlanRequestFits, CampaignRequestFits, Known
<1>3. n \in Nat /\ \A d \in kyc : d.id = store => n = d.version
  BY VersionSeen, Known
<1>4. events \subseteq Nat \ {0}
  BY Known
<1> HIDE DEF n
<1>5. /\ VisitFits(call, events) /\ call.step = "read" /\ call.op = r.op /\ call.store = store
      /\ r.op \in {"approve", "reject"} => call.n = n
  BY <1>2, <1>3, <1>4, StartedFits
<1> HIDE DEF call, store
<1>6. CallFits(visits[c])'
  <2>1. visits'[c] = call /\ events' = events /\ kyc' = kyc
    BY <1>1, CallOf DEF storeRows
  <2>2. /\ PassedFits(call, campaigns', forced' \cup contended') /\ UpsertFits(call, stores', tiers', unsettled')
        /\ SeedFits(call, tiers', seedStopped') /\ StatusFits(call, stores', contended')
        /\ UpgradeFits(call, storeFaults', tiers', RowIds(subs)' \cup forced')
    BY <1>5 DEF PassedFits, UpsertFits, SeedFits, StatusFits, UpgradeFits, Upgrading
  <2>3. ReviewFits(call, kyc', overtaken')
    BY <1>3, <1>5, <2>1 DEF ReviewFits, Reviews
  <2> QED BY <1>5, <2>1, <2>2, <2>3 DEF CallFits
<1>7. OverlapsNoticed'
  <2>1. \A d \in StoreCalls : visits'[d] = IF d = c THEN call ELSE visits[d]
    BY <1>1, CallOf
  <2> SUFFICES ASSUME NEW d \in StoreCalls, NEW e \in StoreCalls, d # e, visits'[d].op # "idle",
                      visits'[e].op # "idle", visits'[d].store = visits'[e].store
               PROVE  visits'[d].store \in contended'
    BY DEF OverlapsNoticed
  <2>2. CASE d # c /\ e # c
    <3>1. visits[d].store \in contended
      BY <2>1, <2>2 DEF MInv, OverlapsNoticed
    <3> QED BY <1>1, <2>1, <2>2, <3>1
  <2>3. CASE d = c
    <3>1. e \in Others(c, store)
      BY <1>5, <2>1, <2>3 DEF Others
    <3> QED BY <1>1, <1>5, <2>1, <2>3, <3>1
  <2>4. CASE e = c
    <3>1. d \in Others(c, store)
      BY <1>5, <2>1, <2>4 DEF Others
    <3> QED BY <1>1, <1>5, <2>1, <2>4, <3>1
  <2> QED BY <2>2, <2>3, <2>4
<1>8. RowsFit'
  BY <1>1, RowsSame, Known
<1>9. /\ stores' = stores /\ kyc' = kyc /\ accounts' = accounts /\ events' = events
      /\ campaigns' = campaigns /\ subs' = subs /\ tiers' = tiers /\ orders' = orders
      /\ contended \subseteq contended'
  BY <1>1 DEF storeRows, planRows
<1>10. /\ RowIds(subs) \subseteq RowIds(subs)' \cup forced' /\ storeFaults' >= storeFaults
       /\ visits[c].step # "seed"
  BY <1>1, <1>9, Known DEF RowIds, NoVisit
<1> QED BY <1>1, <1>6, <1>7, <1>8, <1>9, <1>10, StepKeeps

-----------------------------------------------------------------------------
(* The specification *)

LEMMA MerchantsStart ==
  ASSUME MerchantsInit
  PROVE  MInv
<1>1. RowsFit
  <2>1. StoresFit(stores) /\ DocumentsFit(kyc) /\ RowIds(kyc) = RowIds(stores)
    BY DEF MerchantsInit, StoresFit, DocumentsFit, RowIds
  <2>2. /\ CampaignsFit(campaigns, RowIds(stores), inserts) /\ tiers \subseteq SubscriptionPlan
        /\ PlansOf(stores) \subseteq tiers \cup {"essential"}
        /\ SubscriptionsFit(subs, RowIds(stores), tiers) /\ OrdersFit(orders, tiers)
    BY DEF MerchantsInit, CampaignsFit, PlansOf, SubscriptionsFit, OrdersFit
  <2>3. accounts \subseteq AccountRecords
    BY DEF MerchantsInit, AccountRecords
  <2>4. NumbersFit
    BY DEF MerchantsInit, NumbersFit, RowIds
  <2> QED BY <2>1, <2>2, <2>3, <2>4 DEF RowsFit
<1>2. \A c \in StoreCalls : visits[c] = NoVisit
  BY DEF MerchantsInit
<1>3. OverlapsNoticed
  BY <1>2, NoVisitFits DEF OverlapsNoticed
<1>4. VisitsFit
  <2>1. \A c \in StoreCalls : CallFits(visits[c])
    BY <1>2, NoVisitFits DEF CallFits
  <2>2. NoVisit \in VisitRecords
    BY NoVisitFits DEF VisitFits
  <2> QED BY <2>1, <2>2 DEF VisitsFit, MerchantsInit
<1>5. TablesAgree
  BY DEF MerchantsInit, TablesAgree, OneActiveEach, PlansAgree, CatalogFits, CatalogIsWhole,
         PaidUpgradesSucceed, VerifiedWasSeen, AccountFollowsStore
<1> QED BY <1>1, <1>3, <1>4, <1>5 DEF MInv

LEMMA MerchantsStep ==
  ASSUME MInv, [MerchantsNext]_merchantVars
  PROVE  MInv'
<1>1. CASE UNCHANGED merchantVars
  <2>1. /\ UNCHANGED <<storeRows, campaigns, subs, tiers, inserts, visits>> /\ storeFaults' = storeFaults
        /\ UNCHANGED <<contended, forced, unsettled, overtaken, synced, unhonoured, seedStopped>>
        /\ orders' = orders
    BY <1>1 DEF merchantVars, planRows, merchantGhosts
  <2> QED BY <2>1, OnlyOrders, Known
<1>2. CASE Pays
  BY <1>2, PayOrderKeeps DEF Pays
<1>3. ASSUME NEW c \in StoreCalls, NEW r \in StoreRequests \cup PlanRequests \cup CampaignRequests, Visit(c, r)
      PROVE  MInv'
  BY <1>3, VisitKeeps
<1>4. ASSUME NEW c \in StoreCalls, StoreStep(c) PROVE MInv'
  <2>1. CASE ProcessRegistration(c)
    BY <2>1, ProcessRegistrationKeeps
  <2>2. CASE UpdateProfile(c)
    BY <2>2, UpdateProfileKeeps
  <2>3. CASE UpdateDocuments(c)
    BY <2>3, UpdateDocumentsKeeps
  <2>4. CASE VerifyKYCDocument(c)
    BY <2>4, VerifyKYCDocumentKeeps
  <2>5. CASE SetStoreStatus(c)
    BY <2>5, SetStoreStatusKeeps
  <2>6. CASE FetchContactEmail(c)
    BY <2>6, FetchContactEmailKeeps
  <2>7. CASE SyncStatus(c)
    BY <2>7, SyncStatusKeeps
  <2>8. CASE DeleteStore(c)
    BY <2>8, DeleteStoreKeeps
  <2> QED BY <1>4, <2>1, <2>2, <2>3, <2>4, <2>5, <2>6, <2>7, <2>8 DEF StoreStep
<1>5. ASSUME NEW c \in StoreCalls, PlanStep(c) PROVE MInv'
  <2>1. CASE VerifySignature(c)
    BY <2>1, VerifySignatureKeeps
  <2>2. CASE SeedCatalogIfEmpty(c)
    BY <2>2, SeedCatalogIfEmptyKeeps
  <2>3. CASE SeedTier(c)
    BY <2>3, SeedTierKeeps
  <2>4. CASE LookupSubscription(c)
    BY <2>4, LookupSubscriptionKeeps
  <2>5. CASE ReadStorePlan(c)
    BY <2>5, ReadStorePlanKeeps
  <2>6. CASE InitializeSubscription(c)
    BY <2>6, InitializeSubscriptionKeeps
  <2>7. CASE CreateUpgradeOrder(c)
    BY <2>7, CreateUpgradeOrderKeeps
  <2>8. CASE CheckActiveCampaigns(c)
    BY <2>8, CheckActiveCampaignsKeeps
  <2>9. CASE UpdateStorePlan(c)
    BY <2>9, UpdateStorePlanKeeps
  <2>10. CASE FindNoSubscription(c)
    BY <2>10, FindNoSubscriptionKeeps
  <2>11. CASE AdminChangePlan(c)
    BY <2>11, AdminChangePlanKeeps
  <2> QED BY <1>5, <2>1, <2>2, <2>3, <2>4, <2>5, <2>6, <2>7, <2>8, <2>9, <2>10, <2>11 DEF PlanStep
<1>6. ASSUME NEW c \in StoreCalls, CampaignStep(c) PROVE MInv'
  <2>1. CASE FetchPlan(c)
    BY <2>1, FetchPlanKeeps
  <2>2. CASE CheckLimit(c)
    BY <2>2, CheckLimitKeeps
  <2>3. CASE CreateCampaignRow(c)
    BY <2>3, CreateCampaignRowKeeps
  <2>4. CASE SetCampaignStatus(c)
    BY <2>4, SetCampaignStatusKeeps
  <2>5. CASE AdminCreateCampaign(c)
    BY <2>5, AdminCreateCampaignKeeps
  <2>6. CASE AdminChangeCampaign(c)
    BY <2>6, AdminChangeCampaignKeeps
  <2> QED BY <1>6, <2>1, <2>2, <2>3, <2>4, <2>5, <2>6 DEF CampaignStep
<1>7. ASSUME NEW c \in StoreCalls, StopVisit(c) PROVE MInv'
  BY <1>7, StopVisitKeeps
<1> QED BY <1>1, <1>2, <1>3, <1>4, <1>5, <1>6, <1>7 DEF MerchantsNext, MerchantStep

\* Everything below holds together, because each part needs the others: the
\* campaigns of a store are counted by a call that nothing overlapped, a paid
\* upgrade finds the catalogue that another call filled.
THEOREM MerchantsAreSound == MerchantsSpec => []MInv
<1>1. MerchantsInit => MInv
  BY MerchantsStart
<1>2. MInv /\ [MerchantsNext]_merchantVars => MInv'
  BY MerchantsStep
<1> QED BY <1>1, <1>2, PTL DEF MerchantsSpec

\* A store that no administrator acted on, and no two calls were about at once,
\* has no more active campaigns than its tier allows (campaign_usecase.go): not
\* even more than one, because the plans that the limits go by are named in
\* another case than those of the column.
THEOREM CampaignsStayWithinTier == MerchantsSpec => []CampaignsWithinTier
<1>1. ASSUME MInv PROVE CampaignsWithinTier
  <2> SUFFICES ASSUME NEW s \in stores, s.id \notin forced \cup contended
               PROVE  WithinTier(s.plan, Cardinality(Active(s.id, 0)))
    BY DEF CampaignsWithinTier
  <2> DEFINE active == Active(s.id, 0)
  <2>1. s.id \in events
    BY <1>1, Known DEF RowIds
  <2>2. OneActive(campaigns, s.id)
    BY <1>1, <2>1, Known DEF OneActiveEach
  <2>3. \A a, b \in active : a = b
    BY <2>2 DEF OneActive, ActiveIn, Active, GetCampaignsByStoreID
  <2> HIDE DEF active
  <2>4. Cardinality(active) \in {0, 1}
    BY <2>3, OneOrNone
  <2>5. MaxActiveCampaigns(s.plan) \in Nat /\ MaxActiveCampaigns(s.plan) >= 1
    BY MerchantsAssumption DEF MaxActiveCampaigns
  <2>6. WithinTier(s.plan, Cardinality(active))
    BY <2>4, <2>5 DEF WithinTier
  <2> QED BY <2>6 DEF active
<1> QED BY <1>1, MerchantsAreSound, PTL

\* The store, its subscription and the catalogue agree about its plan, and a
\* payment buys the plan it was made for (subscription_usecase.go).
THEOREM PlansStayTrue == MerchantsSpec => []PlansHold
<1>1. MInv => PlansHold
  BY Known DEF PlansHold, CatalogFits
<1> QED BY <1>1, MerchantsAreSound, PTL

\* The keys and references of the tables, the documents a reviewer saw, and the
\* account that goes with a store (kyc_usecase.go, admin_repo.go).
THEOREM StandingStaysTrue == MerchantsSpec => []StandingHolds
<1>1. ASSUME MInv PROVE MerchantsTypeOK
  <2>1. \A a, b \in stores : (a.email = b.email \/ a.vpa = b.vpa \/ a.id = b.id) => a = b
    BY <1>1, Known DEF StoresFit
  <2>2. \A a, b \in kyc : (a.aadhaar = b.aadhaar \/ a.id = b.id) => a = b
    BY <1>1, Known DEF DocumentsFit
  <2>3. {d.id : d \in kyc} = {s.id : s \in stores} /\ {s.id : s \in stores} \subseteq events
    BY <1>1, Known DEF RowIds
  <2>4. {s.id : s \in subs} \cup {m.store : m \in campaigns} \subseteq {s.id : s \in stores}
    BY <1>1, Known DEF RowIds, SubscriptionsFit, CampaignsFit
  <2>5. {s.plan : s \in subs} \subseteq tiers
    BY <1>1, Known DEF SubscriptionsFit
  <2> QED BY <2>1, <2>2, <2>3, <2>4, <2>5 DEF MerchantsTypeOK
<1>2. MInv => StandingHolds
  BY <1>1, Known DEF StandingHolds
<1> QED BY <1>2, MerchantsAreSound, PTL
=============================================================================
