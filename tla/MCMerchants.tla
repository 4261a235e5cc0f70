---------------------------- MODULE MCMerchants ----------------------------
(* The merchant service for TLC.  Behaviours are of stores and documents,  *)
(* of plans, or of campaigns; the last two begin with a registered store,  *)
(* and those of campaigns with the catalogue as well.                      *)
EXTENDS Merchants, TLC

VARIABLE line

FirstEmail == CHOOSE e \in StoreEmails : TRUE
FirstStore == Store(1, FirstEmail, CHOOSE v \in Vpas : TRUE)

LineInit ==
  /\ line \in {"stores", "plans", "campaigns"}
  /\ IF line = "stores" THEN MerchantsInit
     ELSE /\ stores = {FirstStore} /\ kyc = {KYCDocument(1, CHOOSE a \in Aadhaars : TRUE)}
          /\ events = {1} /\ inserts = 1
          /\ tiers = IF line = "plans" THEN {} ELSE SubscriptionPlan
          /\ campaigns = {} /\ subs = {} /\ orders = {}
          /\ accounts = [email : StoreEmails, status : {"active"}]
          /\ visits = [c \in StoreCalls |-> NoVisit] /\ visited = 0 /\ storeFaults = 0
          /\ contended = {} /\ forced = {} /\ unsettled = {} /\ overtaken = {} /\ synced = {}
          /\ unhonoured = {} /\ refusals = {} /\ seedStopped = FALSE

Requests ==
  CASE line = "stores" -> StoreRequests
    [] line = "plans" -> PlanRequests \cup CreateCampaignRequests \cup DeleteStoreRequests
    [] OTHER -> CampaignRequests \cup ChangeRequests \cup AdminPlanRequests

LineNext ==
  /\ UNCHANGED line
  /\ \/ MerchantStep
     \/ Pays
     \/ \E c \in StoreCalls, r \in Requests : Visit(c, r)

LineSpec == LineInit /\ [][LineNext]_<<merchantVars, line>>

MerchantSymmetry == Permutations(StoreCalls)
=============================================================================
