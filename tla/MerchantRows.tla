---------------------------- MODULE MerchantRows ----------------------------
(***************************************************************************)
(* The tables of the merchant database, as sets of rows, with the          *)
(* statements of its queries and the repositories over them.  Names,       *)
(* addresses, prices, periods and times are left out; so are the mobile    *)
(* number and the display id of a store, refused in the same places as the *)
(* e-mail and the VPA.                                                     *)
(***************************************************************************)
EXTENDS Naturals, FiniteSets, Outcomes

\* The enum types: a status or plan of another name is an error of the cast.
MerchantStatus == {"pending_kyc", "active", "suspended", "deleted"}
SubscriptionPlan == {"essential", "growth", "enterprise"}

-----------------------------------------------------------------------------
(* stores *)

\* The insert names neither status nor plan: they get their defaults.
Store(id, email, vpa) ==
  [id |-> id, email |-> email, vpa |-> vpa, status |-> "pending_kyc", plan |-> "essential"]

CreateStore(stores, store) == stores \cup {store}
GetStoreProfileByStoreID(stores, id) == RowsOf(stores, id)
GetStoreStatusByID(stores, id) == {s.status : s \in RowsOf(stores, id)}
\* COALESCE: a column without a new value keeps the old one.
UpdateStoreProfileByStoreID(stores, id, email) ==
  Without(stores, id) \cup
    {[s EXCEPT !.email = IF email = "none" THEN @ ELSE email] : s \in RowsOf(stores, id)}
UpdateStoreStatus(stores, id, status) ==
  Without(stores, id) \cup {[s EXCEPT !.status = status] : s \in RowsOf(stores, id)}
UpdateStoreStatusByID(stores, id, status) == UpdateStoreStatus(stores, id, status)
UpdateStorePlanEnum(stores, id, plan) ==
  Without(stores, id) \cup {[s EXCEPT !.plan = plan] : s \in RowsOf(stores, id)}

StoreConflict(stores, store) ==
  \E other \in Without(stores, store.id) : other.email = store.email \/ other.vpa = store.vpa

RegisterStore(stores, store) ==
  IF StoreConflict(stores, store) THEN Fail("unique") ELSE Ok(CreateStore(stores, store))
StoreProfile(stores, id) == OneRow(GetStoreProfileByStoreID(stores, id), "no rows")
UpdateStoreProfile(stores, id, email) ==
  LET after == UpdateStoreProfileByStoreID(stores, id, email) IN
  CASE RowsOf(stores, id) = {} -> Fail("no rows")
    [] \E s \in RowsOf(after, id) : StoreConflict(after, s) -> Fail("unique")
    [] OTHER -> Ok(after)
\* UPDATE of no row is no error.
RepoUpdateStoreStatus(stores, id, status) ==
  IF status \in MerchantStatus THEN Ok(UpdateStoreStatus(stores, id, status)) ELSE Fail("enum")

-----------------------------------------------------------------------------
(* kyc_documents: one row per store, written with it.  "version" counts the *)
(* replacements and "passed" is the version the last approval was about;    *)
(* neither is a column.                                                     *)

KYCDocument(store, aadhaar) ==
  [id |-> store, aadhaar |-> aadhaar, verified |-> FALSE, version |-> 0, passed |-> 0]

SubmitKYC(kyc, document) == kyc \cup {document}
InsertKYCDocuments(kyc, document) == kyc \cup {document}
GetKYCStatusByStoreID(kyc, stores, id) == {d \in RowsOf(kyc, id) : RowsOf(stores, id) # {}}
\* Variant: new documents keep the mark of the old ones.
ReplaceDocumentsOnly(kyc, id, aadhaar) ==
  Without(kyc, id) \cup
    {[d EXCEPT !.aadhaar = aadhaar, !.version = @ + 1] : d \in RowsOf(kyc, id)}

UpdateKYCDocumentsByStoreID(kyc, id, aadhaar) ==
  Without(kyc, id) \cup
    {[d EXCEPT !.aadhaar = aadhaar, !.verified = FALSE, !.version = @ + 1] : d \in RowsOf(kyc, id)}
KYCConflict(kyc, id, aadhaar) == \E d \in Without(kyc, id) : d.aadhaar = aadhaar

RepoSubmitKYC(kyc, id, aadhaar) ==
  IF KYCConflict(kyc, id, aadhaar) THEN Fail("unique")
  ELSE Ok(SubmitKYC(kyc, KYCDocument(id, aadhaar)))
\* With no row and no store the insert breaks the foreign key.
UpdateKYCDocuments(kyc, stores, id, aadhaar) ==
  IF KYCConflict(kyc, id, aadhaar) THEN Fail("unique")
  ELSE IF RowsOf(kyc, id) # {} THEN Ok(UpdateKYCDocumentsByStoreID(kyc, id, aadhaar))
  ELSE IF RowsOf(stores, id) # {} THEN Ok(InsertKYCDocuments(kyc, KYCDocument(id, aadhaar)))
  ELSE Fail("foreign key")
\* The documents half of an administrator's decision about what was "seen".
VerifyDocument(kyc, id, verified, seen) ==
  Without(kyc, id) \cup {[d EXCEPT !.verified = verified, !.passed = seen] : d \in RowsOf(kyc, id)}

-----------------------------------------------------------------------------
(* campaigns *)

Campaign(id, store, status) == [id |-> id, store |-> store, status |-> status]

CreateCampaign(campaigns, campaign) == campaigns \cup {campaign}
GetCampaignsByStoreID(campaigns, store) == {c \in campaigns : c.store = store}
UpdateCampaignStatus(campaigns, id, store, status) ==
  {IF c.id = id /\ c.store = store THEN [c EXCEPT !.status = status] ELSE c : c \in campaigns}

RepoCreateCampaign(campaigns, stores, campaign) ==
  IF RowsOf(stores, campaign.store) = {} THEN Fail("foreign key")
  ELSE Ok(CreateCampaign(campaigns, campaign))
\* The administrator's statements look at the id alone.
AdminCampaignStatus(campaigns, id, status) ==
  {IF c.id = id THEN [c EXCEPT !.status = status] ELSE c : c \in campaigns}
AdminDeleteCampaign(campaigns, id) == Without(campaigns, id)

-----------------------------------------------------------------------------
(* subscription_tiers, by plan code, and merchant_subscriptions *)

Subscription(store, plan) == [id |-> store, plan |-> plan]

GetSubscriptionPlans(tiers) == tiers
CreateSubscriptionPlan(tiers, plan) == tiers \cup {plan}
GetSubscriptionByStoreID(subs, store) == RowsOf(subs, store)
UpsertMerchantSubscription(subs, sub) == Without(subs, sub.id) \cup {sub}

GetStoreSubscription(subs, store) == OneRow(GetSubscriptionByStoreID(subs, store), "no rows")
\* The foreign keys to the store and to the tier.
UpsertSubscription(subs, stores, tiers, sub) ==
  IF RowsOf(stores, sub.id) = {} \/ sub.plan \notin tiers THEN Fail("foreign key")
  ELSE Ok(UpsertMerchantSubscription(subs, sub))

-----------------------------------------------------------------------------
(* auth.users, which the administrator's repository updates by e-mail *)

AuthStatusOf(status) ==
  CASE status \in {"blocked", "suspended"} -> "suspended"
    [] status = "deleted" -> "deleted"
    [] status = "pending_kyc" -> "pending"
    [] OTHER -> "active"
SyncAccount(accounts, email, status) ==
  {IF a.email = email THEN [a EXCEPT !.status = status] ELSE a : a \in accounts}
=============================================================================
