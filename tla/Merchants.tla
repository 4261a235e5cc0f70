----------------------------- MODULE Merchants -----------------------------
(***************************************************************************)
(* The merchant service: stores and their KYC documents, campaigns, and    *)
(* subscriptions, as merchants and administrators change them.  A call is  *)
(* a step per statement, or per transaction, that changes a row, with what *)
(* it read before kept in the call; it may stop between any two of them.   *)
(* A row is named by the number of its insert.                             *)
(***************************************************************************)
EXTENDS MerchantRows, Sequences

CONSTANTS StoreCalls,      \* calls that may be in progress together
          StoreEmails, Vpas, Aadhaars,
          GrowthLimit,     \* active campaigns of a Growth store: 5 in the code
          MaxStores, MaxVisits, MaxStoreFaults   \* bounds on a behaviour

ASSUME MerchantsAssumption ==
  /\ {MaxStores, MaxVisits, MaxStoreFaults} \subseteq Nat /\ GrowthLimit \in Nat \ {0, 1}

VARIABLES stores, kyc, campaigns, subs, tiers, accounts, orders,
          events,      \* stores with a merchant.registered event
          inserts,     \* rows inserted so far
          visits, visited, storeFaults,
          \* what the properties remember
          contended,   \* stores two calls were about at once
          forced,      \* stores an administrator changed the plan, campaigns or row of
          unsettled,   \* stores whose plan changed while their subscription was set up
          overtaken,   \* stores whose documents changed during a review
          synced,      \* stores whose last change of status went through to the account
          unhonoured,  \* stores with a refused upgrade that was paid for
          refusals,    \* the plans and counts campaigns were refused with
          seedStopped  \* the seeding of the catalogue lost a statement

storeRows == <<stores, kyc, accounts, events>>
planRows == <<campaigns, subs, tiers, orders>>
merchantGhosts ==
  <<contended, forced, unsettled, overtaken, synced, unhonoured, refusals, seedStopped>>
merchantVars == <<storeRows, planRows, inserts, visits, visited, storeFaults, merchantGhosts>>

NoVisit == [op |-> "idle", step |-> "idle", store |-> 0, plan |-> "none", email |-> "none",
            vpa |-> "none", aadhaar |-> "none", status |-> "none", campaign |-> 0,
            order |-> 0, again |-> FALSE, n |-> 1]

\* The accounts of the auth service that the e-mails of stores belong to.
MerchantsInit ==
  /\ stores = {} /\ kyc = {} /\ campaigns = {} /\ subs = {} /\ tiers = {} /\ orders = {}
  /\ accounts = [email : StoreEmails, status : {"active"}]
  /\ events = {} /\ inserts = 0
  /\ visits = [c \in StoreCalls |-> NoVisit] /\ visited = 0 /\ storeFaults = 0
  /\ contended = {} /\ forced = {} /\ unsettled = {} /\ overtaken = {} /\ synced = {}
  /\ unhonoured = {} /\ refusals = {} /\ seedStopped = FALSE

-----------------------------------------------------------------------------
(* Requests the handlers let through.  A token names a store for 72 hours,  *)
(* whether it was deleted since or not.                                     *)

StoreIds == events
CampaignIds == {c.id : c \in campaigns}
RegisterRequests == [op : {"register"}, email : StoreEmails, vpa : Vpas, aadhaar : Aadhaars]
ProfileRequests == [op : {"profile"}, store : StoreIds, email : StoreEmails \cup {"none"}]
KYCRequests == [op : {"kyc"}, store : StoreIds, aadhaar : Aadhaars]
StatusRequests == [op : {"status"}, store : StoreIds, status : MerchantStatus \cup {"blocked"}]
\* Without a status the handler puts "active" or "rejected".
ReviewRequests ==
  [op : {"approve"}, store : StoreIds, status : {"active"}]
    \cup [op : {"reject"}, store : StoreIds, status : {"rejected", "suspended"}]
DeleteStoreRequests == [op : {"delete"}, store : StoreIds]
PlansRequests == [op : {"plans"}, store : StoreIds]
PublicPlansRequests == {[op |-> "plans", store |-> 0]}
CurrentRequests == [op : {"current"}, store : StoreIds]
ChangeRequests == [op : {"change"}, store : StoreIds, plan : SubscriptionPlan]
OrderRequests == [op : {"order"}, store : StoreIds, plan : SubscriptionPlan]
VerifyRequests ==
  [op : {"verify"}, store : StoreIds, plan : SubscriptionPlan, order : {o.id : o \in orders}]
CreateCampaignRequests == [op : {"create"}, store : StoreIds]
CampaignStatusRequests == [op : {"activate", "pause"}, store : StoreIds, campaign : CampaignIds]
AdminCampaignRequests == [op : {"admin create"}, store : StoreIds]
AdminCampaignStatusRequests ==
  [op : {"admin activate", "admin pause", "admin remove"}, campaign : CampaignIds]
AdminPlanRequests == [op : {"admin plan"}, store : StoreIds, plan : SubscriptionPlan]

StoreRequests ==
  RegisterRequests \cup ProfileRequests \cup KYCRequests \cup StatusRequests
    \cup ReviewRequests \cup DeleteStoreRequests
PlanRequests ==
  PlansRequests \cup PublicPlansRequests \cup CurrentRequests \cup ChangeRequests
    \cup OrderRequests \cup VerifyRequests \cup AdminPlanRequests
CampaignRequests ==
  CreateCampaignRequests \cup CampaignStatusRequests
    \cup AdminCampaignRequests \cup AdminCampaignStatusRequests

Others(c, store) == {d \in StoreCalls \ {c} : visits[d].op # "idle" /\ visits[d].store = store}
VersionOf(store) == IF RowsOf(kyc, store) = {} THEN 0
                    ELSE (CHOOSE d \in RowsOf(kyc, store) : TRUE).version

\* A reviewer has looked at the documents before the request.
Visit(c, request) ==
  LET store == IF "store" \in DOMAIN request THEN request.store ELSE 0 IN
  /\ visits[c] = NoVisit /\ visited < MaxVisits
  /\ visited' = visited + 1
  /\ visits' = [visits EXCEPT ![c] =
       [f \in DOMAIN NoVisit |->
          CASE f = "step" -> "read"
            [] f = "n" /\ request.op \in {"approve", "reject"} -> VersionOf(store)
            [] f \in DOMAIN request -> request[f]
            [] OTHER -> NoVisit[f]]]
  /\ contended' = IF Others(c, store) # {} THEN contended \cup {store} ELSE contended
  /\ UNCHANGED <<storeRows, planRows, inserts, storeFaults, forced, unsettled, overtaken,
                 synced, unhonoured, refusals, seedStopped>>

At(c, ops, step) == visits[c].op \in ops /\ visits[c].step = step
Goes(c, call) == visits' = [visits EXCEPT ![c] = call]
Ends(c) == Goes(c, NoVisit)
To(c, step) == Goes(c, [visits[c] EXCEPT !.step = step])
\* The table after a statement that succeeds, or as it was.
Then(result, table) == IF Succeeds(result) THEN result.val ELSE table
SameCount == UNCHANGED <<visited, storeFaults>>
Quiet == SameCount /\ UNCHANGED merchantGhosts

-----------------------------------------------------------------------------
(* Stores and documents *)

\* The store, its documents and the event, in one transaction.
ProcessRegistration(c) ==
  LET call == visits[c]
      id == inserts + 1
      store == RegisterStore(stores, Store(id, call.email, call.vpa))
      document == RepoSubmitKYC(kyc, id, call.aadhaar)
      done == Succeeds(store) /\ Succeeds(document)
  IN /\ At(c, {"register"}, "read") /\ Cardinality(events) < MaxStores
     /\ IF done THEN /\ stores' = store.val /\ kyc' = document.val
                     /\ events' = events \cup {id} /\ inserts' = id
        ELSE UNCHANGED <<stores, kyc, events, inserts>>
     /\ Ends(c) /\ UNCHANGED <<accounts, planRows>> /\ Quiet

UpdateProfile(c) ==
  LET call == visits[c] IN
  /\ At(c, {"profile"}, "read")
  /\ stores' = Then(UpdateStoreProfile(stores, call.store, call.email), stores)
  /\ synced' = IF stores' # stores THEN synced \ {call.store} ELSE synced
  /\ Ends(c) /\ SameCount
  /\ UNCHANGED <<kyc, accounts, events, planRows, inserts, contended, forced, unsettled,
                 overtaken, unhonoured, refusals, seedStopped>>

\* Documents and status in one transaction: whatever the status was, the
\* store is pending again.
UpdateDocuments(c) ==
  LET call == visits[c]
      updated == UpdateKYCDocuments(kyc, stores, call.store, call.aadhaar)
      reviewed == \E d \in Others(c, call.store) : visits[d].op \in {"approve", "reject"}
  IN /\ At(c, {"kyc"}, "read")
     /\ kyc' = Then(updated, kyc)
     /\ IF Succeeds(updated)
        THEN /\ stores' = UpdateStoreStatusByID(stores, call.store, "pending_kyc")
             /\ synced' = synced \ {call.store}
             /\ overtaken' = IF reviewed THEN overtaken \cup {call.store} ELSE overtaken
        ELSE UNCHANGED <<stores, synced, overtaken>>
     /\ Ends(c) /\ SameCount
     /\ UNCHANGED <<accounts, events, planRows, inserts, contended, forced, unsettled,
                    unhonoured, refusals, seedStopped>>

\* The account of the auth service is not told.  A status the enum does not
\* have undoes the transaction.
VerifyKYCDocument(c) ==
  LET call == visits[c] IN
  /\ At(c, {"approve", "reject"}, "read")
  /\ IF call.status \in MerchantStatus
     THEN /\ kyc' = VerifyDocument(kyc, call.store, call.op = "approve", call.n)
          /\ stores' = UpdateStoreStatus(stores, call.store, call.status)
          /\ synced' = synced \ {call.store}
     ELSE UNCHANGED <<kyc, stores, synced>>
  /\ Ends(c) /\ SameCount
  /\ UNCHANGED <<accounts, events, planRows, inserts, contended, forced, unsettled,
                 overtaken, unhonoured, refusals, seedStopped>>

SetStoreStatus(c) ==
  LET call == visits[c]
      updated == RepoUpdateStoreStatus(stores, call.store, call.status)
  IN /\ At(c, {"status"}, "read")
     /\ stores' = Then(updated, stores)
     /\ IF Succeeds(updated) THEN To(c, "profile") /\ synced' = synced \ {call.store}
        ELSE Ends(c) /\ UNCHANGED synced
     /\ SameCount
     /\ UNCHANGED <<kyc, accounts, events, planRows, inserts, contended, forced, unsettled,
                    overtaken, unhonoured, refusals, seedStopped>>

FetchContactEmail(c) ==
  LET store == StoreProfile(stores, visits[c].store) IN
  /\ At(c, {"status"}, "profile")
  /\ IF Succeeds(store) THEN Goes(c, [visits[c] EXCEPT !.step = "sync", !.email = store.val.email])
     ELSE Ends(c)
  /\ UNCHANGED <<storeRows, planRows, inserts>> /\ Quiet

SyncStatus(c) ==
  LET call == visits[c] IN
  /\ At(c, {"status"}, "sync")
  /\ accounts' = SyncAccount(accounts, call.email, AuthStatusOf(call.status))
  /\ synced' = {call.store} \cup
       {id \in synced : \A s \in RowsOf(stores, id) : s.email # call.email}
  /\ Ends(c) /\ SameCount
  /\ UNCHANGED <<stores, kyc, events, planRows, inserts, contended, forced, unsettled,
                 overtaken, unhonoured, refusals, seedStopped>>

\* What refers to the store goes with it.
DeleteStore(c) ==
  LET id == visits[c].store IN
  /\ At(c, {"delete"}, "read")
  /\ stores' = Without(stores, id) /\ kyc' = Without(kyc, id) /\ subs' = Without(subs, id)
  /\ campaigns' = campaigns \ GetCampaignsByStoreID(campaigns, id)
  /\ forced' = forced \cup {id}
  /\ Ends(c) /\ SameCount
  /\ UNCHANGED <<accounts, events, tiers, orders, inserts, contended, unsettled, overtaken,
                 synced, unhonoured, refusals, seedStopped>>

-----------------------------------------------------------------------------
(* Campaigns *)

Active(store, but) ==
  {c \in GetCampaignsByStoreID(campaigns, store) : c.status = "active" /\ c.id # but}

\* The catalogue.
MaxActiveCampaigns(plan) == IF plan = "growth" THEN GrowthLimit ELSE 1
WithinTier(plan, active) == plan = "enterprise" \/ active <= MaxActiveCampaigns(plan)

\* Variant: one campaign too many.
AllowsOneMore(plan, active) ==
  \/ plan = "Enterprise"
  \/ plan = "Growth" /\ active <= GrowthLimit
  \/ plan \notin {"Enterprise", "Growth"} /\ active <= 1

\* The plan is compared with the names of the tiers; the column has their codes.
AllowsAnother(plan, active) ==
  \/ plan = "Enterprise"
  \/ plan = "Growth" /\ active < GrowthLimit
  \/ plan \notin {"Enterprise", "Growth"} /\ active < 1

FetchPlan(c) ==
  LET store == StoreProfile(stores, visits[c].store) IN
  /\ At(c, {"create", "activate"}, "read")
  /\ IF Succeeds(store) THEN Goes(c, [visits[c] EXCEPT !.step = "count", !.plan = store.val.plan])
     ELSE Ends(c)
  /\ UNCHANGED <<storeRows, planRows, inserts>> /\ Quiet

CheckLimit(c) ==
  LET call == visits[c]
      active == Cardinality(Active(call.store, call.campaign))
  IN /\ At(c, {"create", "activate"}, "count")
     /\ IF AllowsAnother(call.plan, active) THEN To(c, "write") /\ UNCHANGED refusals
        ELSE Ends(c) /\ refusals' = refusals \cup {<<call.plan, active>>}
     /\ UNCHANGED <<storeRows, planRows, inserts, contended, forced, unsettled, overtaken,
                    synced, unhonoured, seedStopped>> /\ SameCount

\* Inserts an active campaign.
InsertCampaign(c) ==
  LET inserted == RepoCreateCampaign(campaigns, stores,
                                     Campaign(inserts + 1, visits[c].store, "active"))
  IN /\ campaigns' = Then(inserted, campaigns)
     /\ inserts' = IF Succeeds(inserted) THEN inserts + 1 ELSE inserts

CreateCampaignRow(c) ==
  /\ At(c, {"create"}, "write") /\ InsertCampaign(c)
  /\ Ends(c) /\ UNCHANGED <<storeRows, subs, tiers, orders>> /\ Quiet

SetCampaignStatus(c) ==
  LET call == visits[c] IN
  /\ \/ At(c, {"activate"}, "write") \/ At(c, {"pause"}, "read")
  /\ campaigns' = UpdateCampaignStatus(campaigns, call.campaign, call.store,
                                       IF call.op = "pause" THEN "paused" ELSE "active")
  /\ Ends(c) /\ UNCHANGED <<storeRows, subs, tiers, orders, inserts>> /\ Quiet

Forces(stores_) ==
  /\ forced' = forced \cup stores_ /\ SameCount
  /\ UNCHANGED <<contended, unsettled, overtaken, synced, unhonoured, refusals, seedStopped>>

\* Administrators are held to no limit.
AdminCreateCampaign(c) ==
  /\ At(c, {"admin create"}, "read") /\ InsertCampaign(c)
  /\ Ends(c) /\ Forces({visits[c].store}) /\ UNCHANGED <<storeRows, subs, tiers, orders>>

AdminChangeCampaign(c) ==
  LET call == visits[c] IN
  /\ At(c, {"admin activate", "admin pause", "admin remove"}, "read")
  /\ campaigns' = CASE call.op = "admin remove" -> AdminDeleteCampaign(campaigns, call.campaign)
                    [] call.op = "admin pause" -> AdminCampaignStatus(campaigns, call.campaign, "paused")
                    [] OTHER -> AdminCampaignStatus(campaigns, call.campaign, "active")
  /\ Ends(c) /\ Forces({m.store : m \in RowsOf(campaigns, call.campaign)})
  /\ UNCHANGED <<storeRows, subs, tiers, orders, inserts>>

-----------------------------------------------------------------------------
(* Plans and subscriptions *)

CatalogSeed == <<"essential", "growth", "enterprise">>

\* Ends the call with an error: the upgrade was paid for, or not.
Refuse(c) ==
  LET call == visits[c] IN
  /\ Ends(c)
  /\ unhonoured' = IF call.op = "verify" /\ \E o \in RowsOf(orders, call.order) : o.plan = call.plan
                   THEN unhonoured \cup {call.store} ELSE unhonoured

\* A paid order opens the change of plan, to whatever plan the request names.
VerifySignature(c) ==
  LET call == visits[c] IN
  /\ At(c, {"verify"}, "read")
  /\ IF \E o \in RowsOf(orders, call.order) : o.paid THEN To(c, "catalog") ELSE Ends(c)
  /\ UNCHANGED <<storeRows, planRows, inserts>> /\ Quiet

SeedCatalogIfEmpty(c) ==
  /\ \/ At(c, {"verify"}, "catalog") \/ At(c, {"plans", "change", "order"}, "read")
  /\ To(c, IF GetSubscriptionPlans(tiers) = {} THEN "seed" ELSE "subscription")
  /\ UNCHANGED <<storeRows, planRows, inserts>> /\ Quiet

\* One of three statements; an error is not looked at.
SeedTier(c) ==
  LET call == visits[c] IN
  /\ call.step = "seed"
  /\ \/ /\ tiers' = CreateSubscriptionPlan(tiers, CatalogSeed[call.n])
        /\ UNCHANGED <<storeFaults, seedStopped>>
     \/ /\ storeFaults < MaxStoreFaults /\ storeFaults' = storeFaults + 1
        /\ seedStopped' = TRUE /\ UNCHANGED tiers
  /\ Goes(c, IF call.n < Len(CatalogSeed) THEN [call EXCEPT !.n = @ + 1]
             ELSE [call EXCEPT !.step = "subscription", !.n = 1])
  /\ UNCHANGED <<storeRows, campaigns, subs, orders, inserts, visited, contended, forced,
                 unsettled, overtaken, synced, unhonoured, refusals>>

\* After the list of plans.  The limit of a tier that is not there is 1.
AfterPlans(call) ==
  CASE call.op = "order" -> [call EXCEPT !.step = "order"]
    [] call.op \in {"change", "verify"} ->
         [call EXCEPT !.step = IF call.plan = "enterprise" /\ call.plan \in tiers
                               THEN "update" ELSE "check"]
    [] OTHER -> NoVisit

\* The row is only shown; without one it is made from the plan of the store.
LookupSubscription(c) ==
  LET call == visits[c] IN
  /\ \/ call.step = "subscription" \/ At(c, {"current"}, "read")
  /\ IF call.store = 0 \/ Succeeds(GetStoreSubscription(subs, call.store)) THEN Goes(c, AfterPlans(call))
     ELSE To(c, "initialize")
  /\ UNCHANGED <<storeRows, planRows, inserts>> /\ Quiet

ReadStorePlan(c) ==
  LET store == StoreProfile(stores, visits[c].store) IN
  /\ visits[c].step = "initialize"
  /\ Goes(c, [visits[c] EXCEPT !.step = "upsert",
                !.status = IF Succeeds(store) THEN store.val.plan ELSE "essential"])
  /\ UNCHANGED <<storeRows, planRows, inserts>> /\ Quiet

\* Writes over a row made since.  An error is shown by "current" alone.
InitializeSubscription(c) ==
  LET call == visits[c]
      done == [call EXCEPT !.status = "none"]
      written == UpsertSubscription(subs, stores, tiers, Subscription(call.store, call.status))
  IN /\ call.step = "upsert"
     /\ subs' = Then(written, subs)
     /\ Goes(c, IF call.again THEN [done EXCEPT !.step = "update"] ELSE AfterPlans(done))
     /\ UNCHANGED <<storeRows, campaigns, tiers, orders, inserts>> /\ Quiet

CreateUpgradeOrder(c) ==
  LET call == visits[c]
      priced == call.plan \in tiers \ {"essential"}
  IN /\ At(c, {"order"}, "order")
     /\ orders' = IF priced THEN orders \cup {[id |-> inserts + 1, plan |-> call.plan, paid |-> FALSE]}
                  ELSE orders
     /\ inserts' = IF priced THEN inserts + 1 ELSE inserts
     /\ Ends(c) /\ UNCHANGED <<storeRows, campaigns, subs, tiers>> /\ Quiet

\* External: the merchant pays at Razorpay.
PayOrder(id) ==
  /\ \E o \in RowsOf(orders, id) : ~o.paid
  /\ orders' = {IF o.id = id THEN [o EXCEPT !.paid = TRUE] ELSE o : o \in orders}
  /\ UNCHANGED <<storeRows, campaigns, subs, tiers, inserts, visits>> /\ Quiet

\* When the campaigns cannot be read the check is left out.
CheckActiveCampaigns(c) ==
  LET call == visits[c]
      limit == IF call.plan \in tiers THEN MaxActiveCampaigns(call.plan) ELSE 1
  IN /\ At(c, {"change", "verify"}, "check")
     /\ \/ /\ IF Cardinality(Active(call.store, 0)) > limit THEN Refuse(c)
              ELSE To(c, "update") /\ UNCHANGED unhonoured
           /\ UNCHANGED storeFaults
        \/ /\ storeFaults < MaxStoreFaults /\ storeFaults' = storeFaults + 1
           /\ To(c, "update") /\ UNCHANGED unhonoured
     /\ UNCHANGED <<storeRows, planRows, inserts, visited, contended, forced, unsettled,
                    overtaken, synced, refusals, seedStopped>>

BeingSetUp(store) == \E d \in StoreCalls : visits[d].step = "upsert" /\ visits[d].store = store
Settle(store) == unsettled' = IF BeingSetUp(store) THEN unsettled \cup {store} ELSE unsettled

\* Variant: the store keeps its plan.
UpdateSubscriptionOnly(c) ==
  LET call == visits[c]
      sub == GetStoreSubscription(subs, call.store)
      written == UpsertSubscription(subs, stores, tiers, Subscription(call.store, call.plan))
  IN /\ At(c, {"change", "verify"}, "update") /\ Succeeds(sub)
     /\ subs' = Then(written, subs) /\ UNCHANGED stores
     /\ IF Succeeds(written) THEN Ends(c) /\ Settle(call.store) /\ UNCHANGED unhonoured
        ELSE Refuse(c) /\ UNCHANGED unsettled
     /\ UNCHANGED <<kyc, accounts, events, campaigns, tiers, orders, inserts, contended,
                    forced, overtaken, synced, refusals, seedStopped>> /\ SameCount

\* One transaction, the row of the subscription locked first; nothing to do
\* when it shows the plan already.
UpdateStorePlan(c) ==
  LET call == visits[c]
      sub == GetStoreSubscription(subs, call.store)
      written == UpsertSubscription(subs, stores, tiers, Subscription(call.store, call.plan))
  IN /\ At(c, {"change", "verify"}, "update") /\ Succeeds(sub)
     /\ IF sub.val.plan = call.plan
        THEN Ends(c) /\ UNCHANGED <<subs, stores, unsettled, unhonoured>>
        ELSE /\ subs' = Then(written, subs)
             /\ IF Succeeds(written)
                THEN /\ stores' = UpdateStorePlanEnum(stores, call.store, call.plan)
                     /\ Ends(c) /\ Settle(call.store) /\ UNCHANGED unhonoured
                ELSE Refuse(c) /\ UNCHANGED <<stores, unsettled>>
     /\ UNCHANGED <<kyc, accounts, events, campaigns, tiers, orders, inserts, contended,
                    forced, overtaken, synced, refusals, seedStopped>> /\ SameCount

\* Without a row the transaction has one made, on another connection, once.
FindNoSubscription(c) ==
  LET call == visits[c] IN
  /\ At(c, {"change", "verify"}, "update")
  /\ ~Succeeds(GetStoreSubscription(subs, call.store))
  /\ IF call.again THEN Refuse(c)
     ELSE Goes(c, [call EXCEPT !.step = "initialize", !.again = TRUE]) /\ UNCHANGED unhonoured
  /\ UNCHANGED <<storeRows, planRows, inserts, contended, forced, unsettled, overtaken,
                 synced, refusals, seedStopped>> /\ SameCount

\* Subscription and store in one transaction; campaigns are not counted.
AdminChangePlan(c) ==
  LET call == visits[c]
      written == UpsertSubscription(subs, stores, tiers, Subscription(call.store, call.plan))
  IN /\ At(c, {"admin plan"}, "read")
     /\ subs' = Then(written, subs)
     /\ IF Succeeds(written)
        THEN /\ stores' = UpdateStorePlanEnum(stores, call.store, call.plan)
             /\ Settle(call.store) /\ forced' = forced \cup {call.store}
        ELSE UNCHANGED <<stores, unsettled, forced>>
     /\ Ends(c) /\ SameCount
     /\ UNCHANGED <<kyc, accounts, events, campaigns, tiers, orders, inserts, contended,
                    overtaken, synced, unhonoured, refusals, seedStopped>>

-----------------------------------------------------------------------------
\* A statement fails, or the process ends.
StopVisit(c) ==
  /\ visits[c] # NoVisit
  /\ storeFaults < MaxStoreFaults /\ storeFaults' = storeFaults + 1
  /\ seedStopped' = (seedStopped \/ visits[c].step = "seed")
  /\ Ends(c)
  /\ UNCHANGED <<storeRows, planRows, inserts, visited, contended, forced, unsettled,
                 overtaken, synced, unhonoured, refusals>>

StoreStep(c) ==
  \/ ProcessRegistration(c) \/ UpdateProfile(c) \/ UpdateDocuments(c) \/ VerifyKYCDocument(c)
  \/ SetStoreStatus(c) \/ FetchContactEmail(c) \/ SyncStatus(c) \/ DeleteStore(c)
PlanStep(c) ==
  \/ VerifySignature(c) \/ SeedCatalogIfEmpty(c) \/ SeedTier(c) \/ LookupSubscription(c)
  \/ ReadStorePlan(c) \/ InitializeSubscription(c) \/ CreateUpgradeOrder(c)
  \/ CheckActiveCampaigns(c) \/ UpdateStorePlan(c) \/ FindNoSubscription(c) \/ AdminChangePlan(c)
CampaignStep(c) ==
  \/ FetchPlan(c) \/ CheckLimit(c) \/ CreateCampaignRow(c) \/ SetCampaignStatus(c)
  \/ AdminCreateCampaign(c) \/ AdminChangeCampaign(c)

MerchantStep == \E c \in StoreCalls : StoreStep(c) \/ PlanStep(c) \/ CampaignStep(c) \/ StopVisit(c)
Pays == \E o \in orders : PayOrder(o.id)

MerchantsNext ==
  \/ MerchantStep
  \/ Pays
  \/ \E c \in StoreCalls, r \in StoreRequests \cup PlanRequests \cup CampaignRequests : Visit(c, r)

MerchantsSpec == MerchantsInit /\ [][MerchantsNext]_merchantVars

-----------------------------------------------------------------------------
(* Properties *)

\* The tables keep their keys and references however the calls interleave:
\* one store per e-mail and VPA, one row of documents per store, documents,
\* subscriptions and campaigns of stores that are there, of tiers that are
\* there.
MerchantsTypeOK ==
  /\ \A a, b \in stores : (a.email = b.email \/ a.vpa = b.vpa \/ a.id = b.id) => a = b
  /\ \A a, b \in kyc : (a.aadhaar = b.aadhaar \/ a.id = b.id) => a = b
  /\ {d.id : d \in kyc} = {s.id : s \in stores} /\ {s.id : s \in stores} \subseteq events
  /\ {s.id : s \in subs} \cup {m.store : m \in campaigns} \subseteq {s.id : s \in stores}
  /\ {s.plan : s \in subs} \subseteq tiers

\* A store has no more active campaigns than its tier allows, unless an
\* administrator acted on it or two calls about it overlapped: the count is
\* read before the insert, in statements of their own.
CampaignsWithinTier ==
  \A s \in stores :
    s.id \notin forced \cup contended => WithinTier(s.plan, Cardinality(Active(s.id, 0)))

\* The two records of a store's plan agree, unless the plan changed between
\* the read and the write that made the subscription.
PlansAgree ==
  \A s \in stores, sub \in subs : s.id = sub.id => s.plan = sub.plan \/ s.id \in unsettled

\* The catalogue is empty, being filled, or whole, unless filling it lost a
\* statement: then it stays as it is.
CatalogIsWhole ==
  \/ tiers \in {{}, SubscriptionPlan} \/ seedStopped
  \/ \E c \in StoreCalls : visits[c].step = "seed"

\* Who pays for a plan gets it, unless an administrator acted on the store,
\* calls about it overlapped, or a statement failed.
PaidUpgradesSucceed == storeFaults = 0 => unhonoured \subseteq contended \cup forced

\* Plans (subscription_usecase.go): store, subscription and catalogue agree, and
\* a payment buys what it was made for.
PlansHold == PlansAgree /\ CatalogIsWhole /\ PaidUpgradesSucceed

\* Documents marked verified are those a reviewer saw, unless they were
\* replaced while the review was under way: the decision names the store.
VerifiedWasSeen ==
  \A d \in kyc : d.verified => d.passed = d.version \/ d.id \in overtaken

\* After a change of status the account has the status that goes with that
\* of the store, unless calls about the store overlapped: they are two
\* statements, by id and by e-mail.
AccountFollowsStore ==
  \A s \in stores, a \in accounts :
    s.id \in synced \ contended /\ a.email = s.email =>
      /\ (s.status = "active") = (a.status = "active")
      /\ s.status \in {"suspended", "deleted"} => a.status = s.status

\* Stores (kyc_usecase.go, admin_usecase.go): documents, store and account
\* keep to each other.
StandingHolds == MerchantsTypeOK /\ VerifiedWasSeen /\ AccountFollowsStore

\* A campaign is refused for the limit only when the tier is full.
RefusedWhenFull == \A r \in refusals : ~WithinTier(r[1], r[2] + 1)
=============================================================================
