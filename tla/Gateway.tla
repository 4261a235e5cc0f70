------------------------------ MODULE Gateway ------------------------------
(***************************************************************************)
(* The gateway's way from a request to the service that answers it: the    *)
(* rate limiter, the maintenance switches of every module up to the one    *)
(* the path belongs to, the token, the role, the proxy.  Counters and      *)
(* switches are keys in redis, read and written one command at a time by   *)
(* requests that overlap.                                                  *)
(***************************************************************************)
EXTENDS Integers, Sequences, FiniteSets

CONSTANTS Requests,      \* requests under way at one time
          Clients,       \* addresses requests come from
          Asked,         \* names of the paths that are asked for
          Bearers,       \* and the tokens they are asked for with
          Switches,      \* switches administrators set
          MaxRequests,   \* the limit of a window
          MaxArrivals, MaxRedisFaults   \* bounds on a behaviour

ASSUME GatewayAssumption ==
  /\ {MaxRequests, MaxArrivals, MaxRedisFaults} \subseteq Nat /\ MaxRequests > 0

\* How often go-redis sends a command again whose reply did not come.
MaxRetries == 3

VARIABLES off,         \* switches whose key holds "false"
          hits,        \* the counter of each client, and whether it will expire
          requests, arrivals, redisFaults,
          \* what the properties remember
          admitted,    \* requests let through since the client's last window
          unanswered,  \* of those, the ones that passed as redis did not answer
          wasted,      \* places of the window an INCR took whose reply was lost
          neverExpire  \* clients whose counter came to be and got no EXPIRE

limitVars == <<hits, admitted, unanswered, wasted, neverExpire>>
gatewayVars == <<off, requests, arrivals, redisFaults, limitVars>>

-----------------------------------------------------------------------------
(* Paths, by what the switches, the token and the role tell apart *)

\* A path: its module, the segments getSubRouteKey looks for, the service.
Path(name, module, segments, service) ==
  [name |-> name, module |-> module, segments |-> segments, service |-> service,
   auth |-> TRUE, role |-> FALSE]
Open(path) == [path EXCEPT !.auth = FALSE]
Admin(path) == [path EXCEPT !.role = TRUE]

AuthPaths ==
  {Open(Path("register", "auth_routes", {"/auth/register"}, "auth")),
   Open(Path("login", "auth_routes", {"/auth/login"}, "auth")),
   Open(Path("admin login", "auth_routes", {"/auth/admin/login"}, "auth")),
   Path("logout", "auth_routes", {}, "auth"),
   Open(Path("merchant register", "auth_routes",
             {"/merchant/auth/register", "/auth/register"}, "auth")),
   Open(Path("merchant login", "auth_routes", {"/merchant/auth/login", "/auth/login"}, "auth")),
   Path("me", "auth_routes", {}, "auth")}
PinPaths ==
  {Path("pin", "pin_routes", {"/pin"}, "auth"),
   Path("pin verify", "pin_routes", {"/pin", "/pin/verify"}, "auth")}
ProfilePaths == {Path("profile picture", "profile_picture_routes", {}, "auth")}
AdminPaths ==
  {Admin(p) : p \in
    {Path("read config", "admin_routes", {"/admin/config"}, "gateway"),
     Path("set config", "admin_routes", {"/admin/config"}, "gateway"),
     Path("audit", "admin_routes", {"/admin/audit"}, "support"),
     Path("users", "admin_routes", {}, "auth"),
     Path("merchants", "admin_routes", {"/admin/merchants"}, "merchant"),
     Path("kyc", "admin_routes", {"/admin/kyc"}, "merchant"),
     Path("campaigns", "admin_routes", {"/admin/campaigns"}, "merchant"),
     Path("reward rules", "admin_routes", {}, "rewards")}}
MerchantPaths ==
  {Open(Path("dashboard", "merchant_routes", {"/merchant/dashboard"}, "merchant")),
   Open(Path("store campaigns", "merchant_routes", {"/merchant/campaigns"}, "merchant")),
   Open(Path("subscriptions", "merchant_routes", {"/merchant/subscriptions"}, "merchant")),
   Open(Path("store wallet", "merchant_routes", {"/merchant/wallet"}, "merchant")),
   Open(Path("store profile", "merchant_routes", {}, "merchant"))}
PaymentPaths ==
  {Path("wallet", "payment_routes", {"/payment", "/wallets"}, "payment"),
   Path("transfers", "payment_routes", {"/payment", "/transfers"}, "payment"),
   Path("deposits", "payment_routes", {"/payment", "/deposits"}, "payment"),
   Path("withdrawals", "payment_routes", {"/payment", "/withdrawals"}, "payment"),
   Path("pods", "payment_routes", {"/payment"}, "payment"),
   Path("pod transfer", "payment_routes", {"/payment"}, "payment")}
SecurePaths ==
  {Path("secure profile", "secure_routes", {}, "gateway"),
   Path("secure pin", "secure_routes", {"/pin"}, "auth"),
   Path("secure pin verify", "secure_routes", {"/pin", "/pin/verify"}, "auth")}
SupportPaths ==
  {Path("complaints", "support_routes", {"/complaints"}, "support"),
   Path("reports", "support_routes", {"/reports"}, "support"),
   Path("chat", "support_routes", {"/chat"}, "support"),
   Path("feedbacks", "support_routes", {}, "support")}
DownstreamPaths ==
  {Path("devices", "downstream_routes", {"/notification"}, "notification"),
   Path("my rewards", "downstream_routes", {}, "rewards")}
\* GET /rewards too is answered by the wildcard of registerDownstreamRoutes, which
\* comes before registerRewardRoutes: what the latter registers is never reached, and
\* only a websocket meets its switch.
RewardPaths == {Path("rewards", "downstream_routes", {}, "rewards")}
\* Websockets are registered last; the hub looks at the token itself.
WebsocketPaths == {Open(Path("ws", "none", {}, "gateway"))}

Paths == AuthPaths \cup PinPaths \cup ProfilePaths \cup AdminPaths \cup MerchantPaths
         \cup PaymentPaths \cup SecurePaths \cup SupportPaths \cup DownstreamPaths
         \cup RewardPaths \cup WebsocketPaths

\* In the order of registration: a request passes the switches of every module
\* before its own as well, for each is a group at the common prefix.
Modules == <<"auth_routes", "pin_routes", "profile_picture_routes", "admin_routes",
             "merchant_routes", "payment_routes", "secure_routes", "support_routes",
             "downstream_routes", "reward_routes">>

\* The first of a module's switches one of whose segments is in the path.
SubRoutes(module) ==
  CASE module = "auth_routes" ->
         <<<<"auth_merchant_register", {"/merchant/auth/register"}>>,
           <<"auth_merchant_login", {"/merchant/auth/login"}>>,
           <<"auth_admin_login", {"/auth/admin/login"}>>,
           <<"auth_user_register", {"/auth/user/register", "/auth/register"}>>,
           <<"auth_user_login", {"/auth/login"}>>>>
    [] module = "pin_routes" -> <<<<"pin_verification", {"/pin/verify"}>>,
                                  <<"pin_management", {"/pin"}>>>>
    [] module = "admin_routes" ->
         <<<<"admin_merchants_kyc", {"/admin/merchants", "/admin/kyc"}>>,
           <<"admin_master_campaigns", {"/admin/campaigns"}>>,
           <<"admin_platform_config", {"/admin/config"}>>,
           <<"admin_system_audit", {"/admin/audit"}>>>>
    [] module = "merchant_routes" ->
         <<<<"merch_campaigns_management", {"/merchant/campaigns"}>>,
           <<"merch_subscriptions", {"/merchant/subscriptions"}>>,
           <<"merch_wallet_payouts", {"/merchant/wallet", "/merchant/earnings", "/merchant/rewards"}>>,
           <<"merch_dashboard_analytics", {"/merchant/dashboard"}>>>>
    [] module = "payment_routes" ->
         <<<<"pay_p2p_transfers", {"/transfers"}>>, <<"pay_fiat_deposits", {"/deposits"}>>,
           <<"pay_fiat_withdrawals", {"/withdrawals"}>>,
           <<"pay_wallet_balances", {"/wallets", "/transactions"}>>>>
    [] module = "support_routes" ->
         <<<<"support_user_complaints", {"/complaints"}>>, <<"support_fraud_reports", {"/reports"}>>,
           <<"support_live_chat", {"/chat"}>>>>
    [] module = "downstream_routes" ->
         <<<<"ds_payment_aggregator", {"/payment"}>>, <<"ds_campaign_service", {"/campaign"}>>,
           <<"ds_notification_engine", {"/notification"}>>>>
    [] OTHER -> <<>>

getSubRouteKey(module, path) ==
  LET subs == SubRoutes(module)
      found == {i \in DOMAIN subs : subs[i][2] \cap path.segments # {}} IN
  IF module = "secure_routes"
  THEN IF "/sync" \in path.segments THEN "secure_identity_sync" ELSE "secure_service_comm"
  ELSE IF found = {} THEN ""
       ELSE subs[CHOOSE i \in found : \A j \in found : i <= j][1]

\* The switches a request passes, in order.  Without the prefix of the API there
\* is no group of profile pictures.
Prefix(path) ==
  IF path.module = "none" THEN SubSeq(Modules, 1, 2) \o SubSeq(Modules, 4, Len(Modules))
  ELSE SubSeq(Modules, 1, CHOOSE i \in DOMAIN Modules : Modules[i] = path.module)
StagesOf == [path \in Paths |->
  LET modules == Prefix(path)
      switch(i) == IF i % 2 = 1 THEN modules[(i + 1) \div 2]
                   ELSE getSubRouteKey(modules[i \div 2], path)
  IN [i \in 1..2 * Len(modules) |-> switch(i)]]
Stages(path) == StagesOf[path]

\* Not of the code: the login alone is exempt.
ExemptLogin(path) == "/auth/admin/login" \in path.segments

Exempt(path) == path.segments \cap {"/admin/config", "/auth/admin/login"} # {}

\* Services the proxies know an address of.
Registry == {"payment", "support", "rewards"}
Reachable(path) == path.service \in Registry \cup {"auth", "merchant", "gateway"}

\* The claims of a token, if it is valid: the first role counts.
Tokens == {"absent", "user", "merchant", "admin", "support"}
ASSUME BearersAssumption == Bearers \subseteq Tokens
RequireRole(token) == token \notin {"user", "merchant"}

-----------------------------------------------------------------------------
(* State *)

NoRequest == [step |-> "none", change |-> <<>>]
NoCounter == [count |-> 0, expires |-> FALSE]
\* offSince and offEver are kept for the properties: switches that were off all
\* the time, and at some time, since the request came; blind if a read failed.
NewRequest(client, path, token, change) ==
  [step |-> "count", client |-> client, path |-> path, token |-> token, change |-> change,
   tries |-> 0, stage |-> 1, offSince |-> off, offEver |-> off, blind |-> FALSE]

GatewayInit ==
  /\ off = {} /\ hits = [k \in Clients |-> NoCounter]
  /\ requests = [r \in Requests |-> NoRequest] /\ arrivals = 0 /\ redisFaults = 0
  /\ admitted = [k \in Clients |-> 0] /\ unanswered = admitted /\ wasted = admitted
  /\ neverExpire = {}

RequestAt(r, step) == requests[r].step = step
Goes(r, step) == requests' = [requests EXCEPT ![r].step = step]
RedisFault == redisFaults < MaxRedisFaults /\ redisFaults' = redisFaults + 1
SameCounters == UNCHANGED limitVars
SameSwitches == UNCHANGED <<off, arrivals>>

\* What the switches are to be set to; most requests set none.
Changes(name) == IF name = "set config" THEN [Switches -> BOOLEAN] ELSE {<<>>}

Arrive(r) == \E client \in Clients, path \in Paths, token \in Bearers :
  /\ RequestAt(r, "none") /\ arrivals < MaxArrivals /\ path.name \in Asked
  /\ arrivals' = arrivals + 1
  /\ \E change \in Changes(path.name) :
       requests' = [requests EXCEPT ![r] = NewRequest(client, path, token, change)]
  /\ SameCounters /\ UNCHANGED <<off, redisFaults>>

-----------------------------------------------------------------------------
(* RateLimiter *)

\* Not of the code: one more than the limit passes.
LaterVerdict(count) == IF count > MaxRequests + 1 THEN "limited" ELSE "switches"

Verdict(count) == IF count > MaxRequests THEN "limited" ELSE "switches"

\* INCR, and its reply.
Increment(r) ==
  LET client == requests[r].client
      count == hits[client].count + 1
  IN /\ RequestAt(r, "count") /\ SameSwitches
     /\ hits' = [hits EXCEPT ![client].count = count]
     /\ admitted' = IF Verdict(count) = "switches" THEN [admitted EXCEPT ![client] = @ + 1]
                    ELSE admitted
     /\ Goes(r, IF count = 1 THEN "expire" ELSE Verdict(count))
     /\ UNCHANGED <<redisFaults, unanswered, wasted, neverExpire>>

\* No reply, whether redis has raised the counter or not: the client sends the
\* command again, or reports an error, and the limiter lets the request through.
IncrementFails(r) ==
  LET client == requests[r].client IN
  /\ RequestAt(r, "count") /\ SameSwitches /\ RedisFault
  /\ \/ UNCHANGED <<hits, wasted, neverExpire>>
     \/ /\ hits' = [hits EXCEPT ![client].count = @ + 1]
        /\ wasted' = IF hits[client].count < MaxRequests THEN [wasted EXCEPT ![client] = @ + 1]
                     ELSE wasted
        /\ neverExpire' = IF hits[client].count = 0 THEN neverExpire \cup {client} ELSE neverExpire
  /\ \/ /\ requests[r].tries < MaxRetries
        /\ requests' = [requests EXCEPT ![r].tries = @ + 1]
        /\ UNCHANGED <<admitted, unanswered>>
     \/ /\ Goes(r, "switches")
        /\ admitted' = [admitted EXCEPT ![client] = @ + 1]
        /\ unanswered' = [unanswered EXCEPT ![client] = @ + 1]

\* Its result is not looked at.
Expire(r) ==
  LET client == requests[r].client IN
  /\ RequestAt(r, "expire") /\ Goes(r, Verdict(1)) /\ SameSwitches
  /\ UNCHANGED <<admitted, unanswered, wasted>>
  /\ \/ hits' = [hits EXCEPT ![client].expires = TRUE] /\ UNCHANGED <<redisFaults, neverExpire>>
     \/ RedisFault /\ neverExpire' = neverExpire \cup {client} /\ UNCHANGED hits

\* The window of a client ends: redis drops the counter.
EndWindow(client) ==
  /\ hits[client].expires
  /\ hits' = [hits EXCEPT ![client] = NoCounter] /\ admitted' = [admitted EXCEPT ![client] = 0]
  /\ unanswered' = [unanswered EXCEPT ![client] = 0] /\ wasted' = [wasted EXCEPT ![client] = 0]
  /\ UNCHANGED <<requests, redisFaults, neverExpire>> /\ SameSwitches

-----------------------------------------------------------------------------
(* MaintenanceMode, RequireAuth, RequireRole and the proxies *)

AfterSwitches(path, token) ==
  IF ~path.auth THEN "forward"
  ELSE IF token = "absent" THEN "unauthorized"
  ELSE IF path.role /\ ~RequireRole(token) THEN "forbidden"
  ELSE "forward"

\* One switch is read; one that cannot be read, or that the path has not, stops nothing.
ReadSwitch(r) ==
  LET x == requests[r]
      stages == Stages(x.path)
      switchedOff == stages[x.stage] # "" /\ stages[x.stage] \in off
      onward == [x EXCEPT !.stage = @ + 1,
                   !.step = IF x.stage = Len(stages) THEN AfterSwitches(x.path, x.token) ELSE @]
  IN /\ RequestAt(r, "switches") /\ ~Exempt(x.path) /\ SameCounters /\ SameSwitches
     /\ \/ /\ requests' = [requests EXCEPT ![r] =
                IF switchedOff THEN [x EXCEPT !.step = "maintenance"] ELSE onward]
           /\ UNCHANGED redisFaults
        \/ /\ RedisFault /\ stages[x.stage] # ""
           /\ requests' = [requests EXCEPT ![r] = [onward EXCEPT !.blind = TRUE]]

PassExempt(r) ==
  /\ RequestAt(r, "switches") /\ Exempt(requests[r].path)
  /\ Goes(r, AfterSwitches(requests[r].path, requests[r].token))
  /\ SameCounters /\ SameSwitches /\ UNCHANGED redisFaults

\* To the service, which may be down, or of which the gateway has no address.
Forward(r) ==
  LET path == requests[r].path IN
  /\ RequestAt(r, "forward")
  /\ \/ Reachable(path) /\ Goes(r, IF path.name = "set config" THEN "set" ELSE "served")
     \/ path.service # "gateway" /\ Goes(r, "unavailable")
  /\ SameCounters /\ SameSwitches /\ UNCHANGED redisFaults

\* PUT /admin/config, a key at a time in no order; a key that cannot be written
\* is passed over.
SetConfig(r) == \E s \in DOMAIN requests[r].change :
  LET x == requests[r]
      left == [k \in DOMAIN x.change \ {s} |-> x.change[k]]
      next == [requests EXCEPT ![r].change = left,
                               ![r].step = IF DOMAIN left = {} THEN "served" ELSE @]
  IN /\ RequestAt(r, "set") /\ SameCounters /\ UNCHANGED arrivals
     /\ \/ /\ off' = IF x.change[s] THEN off \ {s} ELSE off \cup {s}
           /\ requests' = [q \in Requests |->
                IF next[q] = NoRequest THEN NoRequest
                ELSE [next[q] EXCEPT !.offSince = @ \cap off', !.offEver = @ \cup off']]
           /\ UNCHANGED redisFaults
        \/ RedisFault /\ requests' = next /\ UNCHANGED off

Answered == {"limited", "maintenance", "unauthorized", "forbidden", "unavailable", "served"}

Answer(r) ==
  /\ requests[r].step \in Answered
  /\ requests' = [requests EXCEPT ![r] = NoRequest]
  /\ SameCounters /\ SameSwitches /\ UNCHANGED redisFaults

\* The gateway stops: the requests under way end where they are.
Restart ==
  /\ RedisFault /\ requests' = [r \in Requests |-> NoRequest]
  /\ neverExpire' = neverExpire \cup
       {requests[r].client : r \in {q \in Requests : RequestAt(q, "expire")}}
  /\ SameSwitches /\ UNCHANGED <<hits, admitted, unanswered, wasted>>

GatewayNext ==
  \/ \E r \in Requests :
       \/ Arrive(r) \/ Increment(r) \/ IncrementFails(r) \/ Expire(r)
       \/ ReadSwitch(r) \/ PassExempt(r) \/ Forward(r) \/ SetConfig(r) \/ Answer(r)
  \/ \E client \in Clients : EndWindow(client)
  \/ Restart

GatewaySpec == GatewayInit /\ [][GatewayNext]_gatewayVars

-----------------------------------------------------------------------------
(* Properties *)

\* The shape of the state; rows keep their keys.
GatewayTypeOK ==
  /\ off \subseteq Switches
  /\ hits \in [Clients -> [count : 0..MaxArrivals + MaxRedisFaults, expires : BOOLEAN]]
  /\ \A r \in Requests : requests[r] # NoRequest =>
       /\ requests[r].step \in {"count", "expire", "switches", "forward", "set"} \cup Answered
       /\ requests[r].stage <= Len(Stages(requests[r].path)) + 1

\* The rate limiter (ratelimit.go).  A counter without an expiry has a request
\* between INCR and EXPIRE, one and no more, or is there for good and locks its
\* client out: the reply to the INCR that began it was lost, EXPIRE failed, or
\* the gateway stopped between the two.  Every place of a window goes to a
\* request or is wasted on a lost reply; so no more than MaxRequests are let
\* through but those that pass while redis does not answer, and nobody is
\* refused before the places are gone.
LimitsHold ==
  /\ \A k \in Clients :
       /\ hits[k].count > 0 /\ ~hits[k].expires <=>
            \/ k \in neverExpire
            \/ \E r \in Requests : RequestAt(r, "expire") /\ requests[r].client = k
       /\ hits[k].expires => hits[k].count > 0
       /\ admitted[k] + wasted[k] =
            unanswered[k] + IF hits[k].count < MaxRequests THEN hits[k].count ELSE MaxRequests
  /\ \A r, q \in Requests :
       RequestAt(r, "expire") /\ RequestAt(q, "expire") /\ r # q =>
         requests[r].client # requests[q].client

\* The two switches of the path's own module, if it has them.
Counted(x) == {x.path.module, getSubRouteKey(x.path.module, x.path)} \ {"none", ""}

\* The maintenance switches (maintenance.go, admin_routes.go): what is answered
\* was not switched off all the time since the request came, unless redis
\* failed; what is refused met a switch that was off at some time; and the
\* paths with which an administrator switches it on again are never refused.
SwitchesHold ==
  GatewayTypeOK /\ \A r \in Requests :
    /\ requests[r].step \in {"served", "unavailable", "set"} =>
         \/ requests[r].blind \/ Exempt(requests[r].path)
         \/ Counted(requests[r]) \cap requests[r].offSince = {}
    /\ RequestAt(r, "maintenance") =>
         /\ \E i \in 1..requests[r].stage :
              Stages(requests[r].path)[i] \in requests[r].offEver
         /\ requests[r].path.name \notin {"read config", "set config", "admin login"}
=============================================================================
