--------------------------- MODULE DeliveryProofs ---------------------------
(***************************************************************************)
(* What reaches people, for any number of clients, devices, readers,       *)
(* websockets and processes.  The four parts share no state, and each has  *)
(* inductive invariants of its own:                                        *)
(*                                                                         *)
(* GInv, WayInv: a counter without an expiry is about to get one, from one *)
(* request, or has lost it to a fault, and every place of a window went to *)
(* a request or to a lost reply; a request has found on every switch it    *)
(* has read, unless a read failed.                                         *)
(*                                                                         *)
(* NInv: no device is registered twice, and one that is off while a phone  *)
(* holds its token was refused, revoked or overtaken; one handler at a     *)
(* time works on a stored message, and a push that is due is tried or      *)
(* still left to it.                                                       *)
(*                                                                         *)
(* SInv: a row is as its request left it, and a reader has seen what was   *)
(* there when it began down to the place it has come to.                   *)
(*                                                                         *)
(* CInv: an entry of the map is alive or stranded; rows on their way are   *)
(* copies of stored ones, each published once, in the order one replica    *)
(* heard them; and a row due to a connection is in its queue or written.   *)
(***************************************************************************)
EXTENDS Gateway, Notification, Support, Chat, FiniteSetTheorems, SequenceTheorems, TLAPS

-----------------------------------------------------------------------------
(* The gateway: the rate limit and the maintenance switches. *)

Steps == {"count", "expire", "switches", "forward", "set"} \cup Answered
AnyChange == UNION {[S -> BOOLEAN] : S \in SUBSET Switches}
RequestRecords ==
  [step : Steps, client : Clients, path : Paths, token : Bearers, change : AnyChange,
   tries : Nat, stage : Int, offSince : SUBSET Switches, offEver : SUBSET Switches,
   blind : BOOLEAN]

GatewayShape ==
  /\ off \subseteq Switches
  /\ hits \in [Clients -> [count : Nat, expires : BOOLEAN]]
  /\ admitted \in [Clients -> Nat] /\ unanswered \in [Clients -> Nat]
  /\ wasted \in [Clients -> Nat]
  /\ requests \in [Requests -> RequestRecords \cup {NoRequest}]

\* The client of a request between INCR and EXPIRE.
Waits(r, k) == RequestAt(r, "expire") /\ requests[r].client = k

WaitersOwn ==
  \A r \in Requests, k \in Clients : Waits(r, k) =>
    hits[k].count > 0 /\ ~ hits[k].expires /\ k \notin neverExpire

GInv == GatewayShape /\ WaitersOwn /\ LimitsHold

-----------------------------------------------------------------------------
LEMMA RequestFacts ==
  ASSUME GatewayShape, NEW r \in Requests, ~ RequestAt(r, "none")
  PROVE  requests[r] \in RequestRecords
BY DEF GatewayShape, RequestAt, NoRequest

\* A request goes on with another step and the same client.
LEMMA Moves ==
  ASSUME GatewayShape, NEW r \in Requests, ~ RequestAt(r, "none"), NEW step \in Steps,
         requests' = [requests EXCEPT ![r].step = step]
  PROVE  /\ requests' \in [Requests -> RequestRecords \cup {NoRequest}]
         /\ requests'[r].step = step /\ requests'[r].client = requests[r].client
         /\ \A q \in Requests : q # r => requests'[q] = requests[q]
<1>1. [requests[r] EXCEPT !.step = step] \in RequestRecords
  BY RequestFacts DEF RequestRecords
<1> QED BY <1>1, RequestFacts DEF GatewayShape, RequestRecords

\* A step that leaves the counters alone, and who is going to expire them.
LEMMA CountersStay ==
  ASSUME GInv, SameCounters, GatewayShape',
         \A r \in Requests, k \in Clients : Waits(r, k)' <=> Waits(r, k)
  PROVE  GInv'
<1>1. ASSUME NEW r \in Requests, RequestAt(r, "expire")' PROVE (requests[r].client \in Clients)'
  BY <1>1 DEF GatewayShape, RequestAt, NoRequest, RequestRecords
<1>2. ASSUME NEW r \in Requests, RequestAt(r, "expire") PROVE requests[r].client \in Clients
  BY <1>2 DEF GInv, GatewayShape, RequestAt, NoRequest, RequestRecords
<1>3. WaitersOwn'
  BY DEF GInv, WaitersOwn, SameCounters, limitVars
<1>4. LimitsHold'
  <2>1. \A r \in Requests, k \in Clients :
          (RequestAt(r, "expire")' /\ requests'[r].client = k)
            <=> (RequestAt(r, "expire") /\ requests[r].client = k)
    BY DEF Waits
  <2>2. UNCHANGED <<hits, admitted, unanswered, wasted, neverExpire>>
    BY DEF SameCounters, limitVars
  <2> QED BY <1>1, <1>2, <2>1, <2>2 DEF GInv, LimitsHold
<1> QED BY <1>3, <1>4 DEF GInv

\* Places of a client's window that are gone.
Gone(count) == IF count < MaxRequests THEN count ELSE MaxRequests

\* What LimitsHold says of one client, and of who waits.
ClientOK(k) ==
  /\ hits[k].count > 0 /\ ~ hits[k].expires <=>
       k \in neverExpire \/ \E q \in Requests : Waits(q, k)
  /\ hits[k].expires => hits[k].count > 0
  /\ admitted[k] + wasted[k] = unanswered[k] + Gone(hits[k].count)

LEMMA LimitsFromWaits ==
  ASSUME GatewayShape', \A k \in Clients : ClientOK(k)',
         \A p, q \in Requests, k \in Clients : Waits(p, k)' /\ Waits(q, k)' => p = q
  PROVE  LimitsHold'
<1>1. ASSUME NEW r \in Requests, RequestAt(r, "expire")' PROVE (requests[r].client \in Clients)'
  BY <1>1 DEF GatewayShape, RequestAt, NoRequest, RequestRecords
<1> QED BY <1>1 DEF LimitsHold, Waits, ClientOK, Gone

LEMMA ClientFacts ==
  ASSUME GInv, NEW k \in Clients
  PROVE  /\ ClientOK(k)
         /\ hits[k].count \in Nat /\ hits[k].expires \in BOOLEAN
         /\ admitted[k] \in Nat /\ unanswered[k] \in Nat /\ wasted[k] \in Nat
         /\ MaxRequests \in Nat /\ MaxRequests > 0
<1>1. ClientOK(k)
  BY DEF GInv, LimitsHold, ClientOK, Gone, Waits
<1> QED BY <1>1, GatewayAssumption DEF GInv, GatewayShape

\* The counter of one client and who waits for it change, and all else is kept.
LEMMA OtherClients ==
  ASSUME GInv, NEW k0 \in Clients, NEW k \in Clients, k # k0,
         hits'[k] = hits[k], admitted'[k] = admitted[k], unanswered'[k] = unanswered[k],
         wasted'[k] = wasted[k], k \in neverExpire' <=> k \in neverExpire,
         \A q \in Requests : Waits(q, k)' <=> Waits(q, k)
  PROVE  ClientOK(k)'
BY ClientFacts DEF ClientOK

LEMMA GatewayStart == GatewayInit => GInv
BY GatewayAssumption
   DEF GatewayInit, GInv, GatewayShape, WaitersOwn, LimitsHold, Waits, RequestAt, NoRequest, NoCounter

LEMMA ArriveStep ==
  ASSUME GInv, NEW r \in Requests, Arrive(r)
  PROVE  GInv'
<1>0. PICK client \in Clients, path \in Paths, token \in Bearers :
        \E change \in Changes(path.name) :
          requests' = [requests EXCEPT ![r] = NewRequest(client, path, token, change)]
  BY DEF Arrive
<1>1. PICK change \in Changes(path.name) :
        requests' = [requests EXCEPT ![r] = NewRequest(client, path, token, change)]
  BY <1>0
<1>2. /\ SameCounters /\ UNCHANGED off /\ RequestAt(r, "none")
  BY DEF Arrive
<1>3. change \in AnyChange
  <2>1. Switches \in SUBSET Switches /\ {} \in SUBSET Switches
    OBVIOUS
  <2>2. <<>> \in [{} -> BOOLEAN]
    OBVIOUS
  <2> QED BY <2>1, <2>2 DEF Changes, AnyChange
<1>4. /\ NewRequest(client, path, token, change) \in RequestRecords
      /\ NewRequest(client, path, token, change).step = "count"
  BY <1>3 DEF NewRequest, RequestRecords, GInv, GatewayShape, Steps
<1>5. /\ requests' \in [Requests -> RequestRecords \cup {NoRequest}]
      /\ requests'[r].step = "count"
      /\ \A q \in Requests : q # r => requests'[q] = requests[q]
  BY <1>1, <1>4 DEF GInv, GatewayShape
<1>6. GatewayShape'
  BY <1>2, <1>5 DEF GInv, GatewayShape, SameCounters, limitVars
<1>7. \A q \in Requests, k \in Clients : Waits(q, k)' <=> Waits(q, k)
  BY <1>2, <1>5 DEF Waits, RequestAt
<1> QED BY <1>2, <1>6, <1>7, CountersStay

\* The reply has come: a place is taken, if one is left.
LEMMA IncrementStep ==
  ASSUME GInv, NEW r \in Requests, Increment(r)
  PROVE  GInv'
<1> DEFINE k0 == requests[r].client
           n == hits[k0].count + 1
           step == IF n = 1 THEN "expire" ELSE Verdict(n)
<1>1. RequestAt(r, "count") /\ ~ RequestAt(r, "none") /\ ~ RequestAt(r, "expire")
  BY DEF Increment, RequestAt
<1>2. k0 \in Clients
  BY <1>1, RequestFacts DEF RequestRecords, GInv
<1>3. UNCHANGED <<off, unanswered, wasted, neverExpire>>
  BY DEF Increment, SameSwitches
<1>4. /\ hits' = [hits EXCEPT ![k0].count = n]
      /\ admitted' = IF Verdict(n) = "switches" THEN [admitted EXCEPT ![k0] = @ + 1] ELSE admitted
      /\ requests' = [requests EXCEPT ![r].step = step]
  BY DEF Increment, Goes
<1>5. step \in Steps /\ (step = "expire" <=> n = 1)
  <2>1. Verdict(n) \in {"limited", "switches"}
    BY DEF Verdict
  <2> HIDE DEF n
  <2> QED BY <2>1 DEF Steps, Answered
<1> HIDE DEF step
<1>6. /\ requests' \in [Requests -> RequestRecords \cup {NoRequest}]
      /\ requests'[r].step = step /\ requests'[r].client = k0
      /\ \A q \in Requests : q # r => requests'[q] = requests[q]
  BY <1>1, <1>4, <1>5, Moves DEF GInv
<1>7. /\ n \in Nat /\ n > 0 /\ n = hits[k0].count + 1 /\ hits[k0].count \in Nat
      /\ hits' \in [Clients -> [count : Nat, expires : BOOLEAN]]
      /\ hits'[k0].count = n /\ hits'[k0].expires = hits[k0].expires
      /\ \A k \in Clients : k # k0 => hits'[k] = hits[k]
  BY <1>2, <1>4 DEF GInv, GatewayShape
<1>8. /\ admitted' \in [Clients -> Nat]
      /\ \A k \in Clients : k # k0 => admitted'[k] = admitted[k]
      /\ admitted'[k0] = IF n <= MaxRequests THEN admitted[k0] + 1 ELSE admitted[k0]
  BY <1>2, <1>4, <1>7, GatewayAssumption DEF GInv, GatewayShape, Verdict
<1>9. GatewayShape'
  BY <1>3, <1>6, <1>7, <1>8 DEF GInv, GatewayShape
<1>10. \A q \in Requests, k \in Clients : Waits(q, k)' <=> Waits(q, k) \/ (q = r /\ k = k0 /\ n = 1)
  BY <1>1, <1>5, <1>6 DEF Waits, RequestAt
<1>11. ClientOK(k0) /\ (n = 1 => ~ hits[k0].expires /\ k0 \notin neverExpire
                                   /\ \A q \in Requests : ~ Waits(q, k0))
  BY <1>2, <1>7, ClientFacts DEF ClientOK
<1> HIDE DEF n, k0
<1>12. WaitersOwn'
  BY <1>2, <1>3, <1>7, <1>10, <1>11 DEF GInv, WaitersOwn
<1>13. ASSUME NEW k \in Clients PROVE ClientOK(k)'
  <2>1. CASE k # k0
    <3>1. \A q \in Requests : Waits(q, k)' <=> Waits(q, k)
      BY <1>10, <2>1
    <3> QED BY <1>2, <1>3, <1>7, <1>8, <2>1, <3>1, OtherClients
  <2>2. CASE k = k0
    <3>1. admitted'[k0] + wasted'[k0] = unanswered'[k0] + Gone(n)
      <4>1. /\ admitted[k0] + wasted[k0] = unanswered[k0] + Gone(hits[k0].count)
            /\ admitted[k0] \in Nat /\ unanswered[k0] \in Nat /\ wasted[k0] \in Nat
            /\ MaxRequests \in Nat
        BY <1>2, <1>11, ClientFacts DEF ClientOK
      <4>2. Gone(n) = IF n <= MaxRequests THEN Gone(hits[k0].count) + 1 ELSE Gone(hits[k0].count)
        BY <1>7, <4>1 DEF Gone
      <4>3. Gone(hits[k0].count) \in Nat
        BY <1>7, <4>1 DEF Gone
      <4> QED BY <1>3, <1>8, <4>1, <4>2, <4>3
    <3>2. hits'[k0].count > 0 /\ ~ hits'[k0].expires <=>
            k \in neverExpire' \/ \E q \in Requests : Waits(q, k)'
      <4>1. CASE n = 1
        BY <1>2, <1>3, <1>7, <1>10, <1>11, <2>2, <4>1
      <4>2. CASE n # 1
        <5>1. \A q \in Requests : Waits(q, k)' <=> Waits(q, k)
          BY <1>2, <1>10, <4>2
        <5>2. hits[k0].count > 0
          BY <1>7, <4>2
        <5> QED BY <1>3, <1>7, <1>11, <2>2, <5>1, <5>2 DEF ClientOK
      <4> QED BY <4>1, <4>2
    <3> QED BY <1>7, <2>2, <3>1, <3>2 DEF ClientOK
  <2> QED BY <2>1, <2>2
<1>14. ASSUME NEW p \in Requests, NEW q \in Requests, NEW k \in Clients, Waits(p, k)', Waits(q, k)'
       PROVE  p = q
  BY <1>10, <1>11, <1>14 DEF GInv, LimitsHold, Waits
<1> QED BY <1>9, <1>12, <1>13, <1>14, LimitsFromWaits DEF GInv

\* The request is sent again, or let through without an answer.
LEMMA LetThrough ==
  ASSUME GInv, NEW r \in Requests, IncrementFails(r)
  PROVE  /\ requests' \in [Requests -> RequestRecords \cup {NoRequest}]
         /\ \A q \in Requests, k \in Clients : Waits(q, k)' <=> Waits(q, k)
<1>1. RequestAt(r, "count") /\ ~ RequestAt(r, "none")
  BY DEF IncrementFails, RequestAt
<1>2. requests[r] \in RequestRecords
  BY <1>1, RequestFacts DEF GInv
<1>3. CASE requests' = [requests EXCEPT ![r].tries = @ + 1]
  <2> DEFINE n == requests[r].tries + 1
             next == [requests[r] EXCEPT !.tries = n]
  <2>1. n \in Nat
    BY <1>2 DEF RequestRecords
  <2>2. requests' = [requests EXCEPT ![r] = next]
    BY <1>2, <1>3 DEF GInv, GatewayShape, RequestRecords
  <2> HIDE DEF n
  <2>3. next \in RequestRecords /\ next.step = requests[r].step
    BY <1>2, <2>1 DEF RequestRecords
  <2> HIDE DEF next
  <2>4. requests'[r] = next /\ \A q \in Requests : q # r => requests'[q] = requests[q]
    BY <2>2 DEF GInv, GatewayShape
  <2> QED BY <1>1, <2>2, <2>3, <2>4 DEF GInv, GatewayShape, Waits, RequestAt
<1>4. CASE Goes(r, "switches")
  <2> DEFINE step == "switches"
  <2>1. step \in Steps /\ step # "expire" /\ requests' = [requests EXCEPT ![r].step = step]
    BY <1>4 DEF Goes, Steps
  <2> HIDE DEF step
  <2>2. /\ requests' \in [Requests -> RequestRecords \cup {NoRequest}]
        /\ requests'[r].step = step /\ \A q \in Requests : q # r => requests'[q] = requests[q]
    BY <1>1, <2>1, Moves DEF GInv
  <2> QED BY <1>1, <2>1, <2>2 DEF Waits, RequestAt
<1> QED BY <1>3, <1>4 DEF IncrementFails

\* A counter that began without anyone to expire it is there for good; a place
\* it took is wasted; and a request let through is one redis did not answer for.
LEMMA IncrementFailsStep ==
  ASSUME GInv, NEW r \in Requests, IncrementFails(r)
  PROVE  GInv'
<1> DEFINE k0 == requests[r].client
           n == hits[k0].count + 1
<1>1. k0 \in Clients
  <2>1. ~ RequestAt(r, "none")
    BY DEF IncrementFails, RequestAt
  <2> QED BY <2>1, RequestFacts DEF RequestRecords, GInv
<1>2. UNCHANGED off
  BY DEF IncrementFails, SameSwitches
<1>3. /\ requests' \in [Requests -> RequestRecords \cup {NoRequest}]
      /\ \A q \in Requests, k \in Clients : Waits(q, k)' <=> Waits(q, k)
  BY LetThrough
<1>4. /\ ClientOK(k0) /\ hits[k0].count \in Nat /\ hits[k0].expires \in BOOLEAN
      /\ admitted[k0] \in Nat /\ unanswered[k0] \in Nat /\ wasted[k0] \in Nat
      /\ MaxRequests \in Nat /\ MaxRequests > 0
  BY <1>1, ClientFacts
<1>5. /\ hits' \in [Clients -> [count : Nat, expires : BOOLEAN]] /\ wasted' \in [Clients -> Nat]
      /\ hits'[k0].expires = hits[k0].expires
      /\ \A k \in Clients : k # k0 => /\ hits'[k] = hits[k] /\ wasted'[k] = wasted[k]
                                      /\ k \in neverExpire' <=> k \in neverExpire
      /\ \/ /\ hits'[k0].count = hits[k0].count /\ wasted'[k0] = wasted[k0]
            /\ neverExpire' = neverExpire
         \/ /\ hits'[k0].count = n
            /\ wasted'[k0] = IF hits[k0].count < MaxRequests THEN wasted[k0] + 1 ELSE wasted[k0]
            /\ neverExpire' = IF hits[k0].count = 0 THEN neverExpire \cup {k0} ELSE neverExpire
  <2>1. CASE UNCHANGED <<hits, wasted, neverExpire>>
    BY <2>1 DEF GInv, GatewayShape
  <2>2. CASE /\ hits' = [hits EXCEPT ![k0].count = @ + 1]
             /\ wasted' = IF hits[k0].count < MaxRequests THEN [wasted EXCEPT ![k0] = @ + 1]
                          ELSE wasted
             /\ neverExpire' = IF hits[k0].count = 0 THEN neverExpire \cup {k0} ELSE neverExpire
    <3>1. hits' = [hits EXCEPT ![k0].count = n] /\ n \in Nat
      BY <1>1, <1>4, <2>2 DEF GInv, GatewayShape
    <3>2. /\ hits' \in [Clients -> [count : Nat, expires : BOOLEAN]]
          /\ hits'[k0].expires = hits[k0].expires /\ hits'[k0].count = n
          /\ \A k \in Clients : k # k0 => hits'[k] = hits[k]
      <4> HIDE DEF n
      <4> QED BY <1>1, <3>1 DEF GInv, GatewayShape
    <3>3. /\ wasted' \in [Clients -> Nat]
          /\ wasted'[k0] = IF hits[k0].count < MaxRequests THEN wasted[k0] + 1 ELSE wasted[k0]
          /\ \A k \in Clients : k # k0 => wasted'[k] = wasted[k]
      BY <1>1, <2>2 DEF GInv, GatewayShape
    <3> QED BY <2>2, <3>2, <3>3
  <2> QED BY <2>1, <2>2 DEF IncrementFails
<1>6. /\ admitted' \in [Clients -> Nat] /\ unanswered' \in [Clients -> Nat]
      /\ \A k \in Clients : k # k0 => admitted'[k] = admitted[k] /\ unanswered'[k] = unanswered[k]
      /\ \/ admitted'[k0] = admitted[k0] /\ unanswered'[k0] = unanswered[k0]
         \/ admitted'[k0] = admitted[k0] + 1 /\ unanswered'[k0] = unanswered[k0] + 1
  BY <1>1 DEF IncrementFails, GInv, GatewayShape
<1>7. GatewayShape'
  BY <1>2, <1>3, <1>5, <1>6 DEF GInv, GatewayShape
<1>8. n = hits[k0].count + 1
  OBVIOUS
<1>9. /\ hits[k0].count = 0 => ~ hits[k0].expires /\ \A q \in Requests : ~ Waits(q, k0)
      /\ \A q \in Requests : Waits(q, k0) => k0 \notin neverExpire
  BY <1>1, <1>4 DEF ClientOK, GInv, WaitersOwn
<1> HIDE DEF n, k0
<1>10. WaitersOwn'
  <2> SUFFICES ASSUME NEW q \in Requests, NEW k \in Clients, Waits(q, k)
               PROVE  hits'[k].count > 0 /\ ~ hits'[k].expires /\ k \notin neverExpire'
    BY <1>3 DEF WaitersOwn
  <2>1. hits[k].count > 0 /\ ~ hits[k].expires /\ k \notin neverExpire
    BY DEF GInv, WaitersOwn
  <2> QED BY <1>1, <1>4, <1>5, <1>8, <2>1
<1>11. ASSUME NEW k \in Clients PROVE ClientOK(k)'
  <2>1. CASE k # k0
    BY <1>1, <1>3, <1>5, <1>6, <2>1, OtherClients
  <2>2. CASE k = k0
    <3>1. admitted'[k0] + wasted'[k0] = unanswered'[k0] + Gone(hits'[k0].count)
      <4> DEFINE a1 == admitted[k0]
                 a2 == admitted'[k0]
                 b1 == wasted[k0]
                 b2 == wasted'[k0]
                 c1 == unanswered[k0]
                 c2 == unanswered'[k0]
                 d1 == Gone(hits[k0].count)
                 d2 == Gone(hits'[k0].count)
      <4>1. a1 + b1 = c1 + d1
        BY <1>4 DEF ClientOK
      <4>2. \/ d2 = d1 /\ b2 = b1
            \/ hits[k0].count < MaxRequests /\ d2 = d1 + 1 /\ b2 = b1 + 1
            \/ hits[k0].count >= MaxRequests /\ d2 = d1 /\ b2 = b1
        BY <1>4, <1>5, <1>8 DEF Gone
      <4>3. (a2 = a1 /\ c2 = c1) \/ (a2 = a1 + 1 /\ c2 = c1 + 1)
        BY <1>6
      <4>4. a1 \in Nat /\ b1 \in Nat /\ c1 \in Nat /\ d1 \in Nat
        BY <1>4 DEF Gone
      <4> HIDE DEF a1, a2, b1, b2, c1, c2, d1, d2
      <4>5. a2 + b2 = c2 + d2
        BY <4>1, <4>2, <4>3, <4>4
      <4> QED BY <4>5 DEF a2, b2, c2, d2
    <3>2. hits'[k0].count > 0 /\ ~ hits'[k0].expires <=>
            k \in neverExpire' \/ \E q \in Requests : Waits(q, k)'
      <4>1. (\E q \in Requests : Waits(q, k)') <=> \E q \in Requests : Waits(q, k)
        BY <1>3
      <4>2. hits[k0].count > 0 /\ ~ hits[k0].expires <=>
              k0 \in neverExpire \/ \E q \in Requests : Waits(q, k0)
        BY <1>4 DEF ClientOK
      <4>3. CASE hits[k0].count = 0 /\ hits'[k0].count = n
        BY <1>4, <1>5, <1>8, <1>9, <2>2, <4>3
      <4>4. CASE hits[k0].count > 0 \/ hits'[k0].count = hits[k0].count
        BY <1>4, <1>5, <1>8, <2>2, <4>1, <4>2, <4>4
      <4> QED BY <1>4, <1>5, <4>3, <4>4
    <3>3. hits'[k0].expires => hits'[k0].count > 0
      BY <1>4, <1>5, <1>8 DEF ClientOK
    <3> QED BY <2>2, <3>1, <3>2, <3>3 DEF ClientOK
  <2> QED BY <2>1, <2>2
<1>12. ASSUME NEW p \in Requests, NEW q \in Requests, NEW k \in Clients, Waits(p, k)', Waits(q, k)'
       PROVE  p = q
  BY <1>3, <1>12 DEF GInv, LimitsHold, Waits
<1> QED BY <1>7, <1>10, <1>11, <1>12, LimitsFromWaits DEF GInv

LEMMA ExpireStep ==
  ASSUME GInv, NEW r \in Requests, Expire(r)
  PROVE  GInv'
<1> DEFINE k0 == requests[r].client
<1>1. RequestAt(r, "expire") /\ ~ RequestAt(r, "none")
  BY DEF Expire, RequestAt
<1>2. k0 \in Clients /\ Waits(r, k0)
  BY <1>1, RequestFacts DEF RequestRecords, GInv, Waits
<1>3. UNCHANGED <<off, admitted, unanswered, wasted>>
  BY DEF Expire, SameSwitches
<1>4. hits[k0].count > 0 /\ ~ hits[k0].expires /\ k0 \notin neverExpire
  BY <1>2 DEF GInv, WaitersOwn
<1>5. /\ requests' \in [Requests -> RequestRecords \cup {NoRequest}]
      /\ requests'[r].step # "expire"
      /\ \A q \in Requests : q # r => requests'[q] = requests[q]
  <2> DEFINE step == Verdict(1)
  <2>1. step \in Steps /\ step # "expire"
    BY DEF Verdict, Steps, Answered
  <2>2. requests' = [requests EXCEPT ![r].step = step]
    BY DEF Expire, Goes
  <2> HIDE DEF step
  <2> QED BY <1>1, <2>1, <2>2, Moves DEF GInv
<1>6. \A q \in Requests, k \in Clients : Waits(q, k)' <=> Waits(q, k) /\ q # r
  BY <1>5 DEF Waits, RequestAt
<1>7. \A q \in Requests : Waits(q, k0) => q = r
  BY <1>2 DEF GInv, LimitsHold, Waits
<1>8. /\ hits' \in [Clients -> [count : Nat, expires : BOOLEAN]]
      /\ \A k \in Clients : k # k0 => hits'[k] = hits[k] /\ (k \in neverExpire' <=> k \in neverExpire)
      /\ hits'[k0].count = hits[k0].count
      /\ hits'[k0].expires <=> k0 \notin neverExpire'
  <2>1. CASE hits' = [hits EXCEPT ![k0].expires = TRUE] /\ UNCHANGED neverExpire
    BY <1>2, <1>4, <2>1 DEF GInv, GatewayShape
  <2>2. CASE neverExpire' = neverExpire \cup {k0} /\ UNCHANGED hits
    BY <1>2, <1>4, <2>2 DEF GInv, GatewayShape
  <2> QED BY <2>1, <2>2 DEF Expire
<1>9. GatewayShape'
  BY <1>3, <1>5, <1>8 DEF GInv, GatewayShape
<1> HIDE DEF k0
<1>10. WaitersOwn'
  BY <1>6, <1>7, <1>8 DEF GInv, WaitersOwn
<1>11. ASSUME NEW k \in Clients PROVE ClientOK(k)'
  <2>1. CASE k = k0
    <3>1. \A q \in Requests : ~ Waits(q, k)'
      BY <1>2, <1>6, <1>7, <2>1
    <3> QED BY <1>2, <1>3, <1>4, <1>8, <2>1, <3>1, ClientFacts DEF ClientOK
  <2>2. CASE k # k0
    <3>1. \A q \in Requests : Waits(q, k)' <=> Waits(q, k)
      <4>1. r \in Requests /\ ~ Waits(r, k)
        BY <1>2, <2>2 DEF Waits
      <4> QED BY <1>6, <4>1
    <3> QED BY <1>2, <1>3, <1>8, <2>2, <3>1, OtherClients
  <2> QED BY <2>1, <2>2
<1>12. ASSUME NEW p \in Requests, NEW q \in Requests, NEW k \in Clients, Waits(p, k)', Waits(q, k)'
       PROVE  p = q
  BY <1>6, <1>12 DEF GInv, LimitsHold, Waits
<1> QED BY <1>9, <1>10, <1>11, <1>12, LimitsFromWaits DEF GInv

LEMMA EndWindowStep ==
  ASSUME GInv, NEW k0 \in Clients, EndWindow(k0)
  PROVE  GInv'
<1>1. /\ UNCHANGED <<off, requests, neverExpire>>
      /\ hits[k0].expires
  BY DEF EndWindow, SameSwitches
<1>2. /\ hits' = [hits EXCEPT ![k0] = NoCounter] /\ admitted' = [admitted EXCEPT ![k0] = 0]
      /\ unanswered' = [unanswered EXCEPT ![k0] = 0] /\ wasted' = [wasted EXCEPT ![k0] = 0]
  BY DEF EndWindow
<1>3. GatewayShape'
  BY <1>1, <1>2 DEF GInv, GatewayShape, NoCounter
<1>4. \A q \in Requests, k \in Clients : Waits(q, k)' <=> Waits(q, k)
  BY <1>1 DEF Waits, RequestAt
<1>5. k0 \notin neverExpire /\ \A q \in Requests : ~ Waits(q, k0)
  BY <1>1, ClientFacts DEF ClientOK
<1>6. /\ hits'[k0].count = 0 /\ ~ hits'[k0].expires /\ admitted'[k0] = 0
      /\ unanswered'[k0] = 0 /\ wasted'[k0] = 0
      /\ \A k \in Clients : k # k0 =>
           /\ hits'[k] = hits[k] /\ admitted'[k] = admitted[k]
           /\ unanswered'[k] = unanswered[k] /\ wasted'[k] = wasted[k]
  BY <1>2 DEF GInv, GatewayShape, NoCounter
<1>7. WaitersOwn'
  BY <1>1, <1>4, <1>5, <1>6 DEF GInv, WaitersOwn
<1>8. ASSUME NEW k \in Clients PROVE ClientOK(k)'
  <2>1. CASE k = k0
    BY <1>1, <1>4, <1>5, <1>6, <2>1, GatewayAssumption DEF ClientOK, Gone
  <2>2. CASE k # k0
    BY <1>1, <1>4, <1>6, <2>2, OtherClients
  <2> QED BY <2>1, <2>2
<1>9. ASSUME NEW p \in Requests, NEW q \in Requests, NEW k \in Clients, Waits(p, k)', Waits(q, k)'
      PROVE  p = q
  BY <1>4, <1>9 DEF GInv, LimitsHold, Waits
<1> QED BY <1>3, <1>7, <1>8, <1>9, LimitsFromWaits DEF GInv

\* A step of one request that is not about the counters.
LEMMA OneMoves ==
  ASSUME GInv, NEW r \in Requests, ~ RequestAt(r, "expire"), SameCounters, UNCHANGED off,
         NEW next \in RequestRecords \cup {NoRequest}, next.step # "expire",
         requests' = [requests EXCEPT ![r] = next]
  PROVE  GInv'
<1>1. /\ requests' \in [Requests -> RequestRecords \cup {NoRequest}]
      /\ requests'[r] = next
      /\ \A q \in Requests : q # r => requests'[q] = requests[q]
  BY DEF GInv, GatewayShape
<1>2. GatewayShape'
  BY <1>1 DEF GInv, GatewayShape, SameCounters, limitVars
<1>3. \A q \in Requests, k \in Clients : Waits(q, k)' <=> Waits(q, k)
  BY <1>1 DEF Waits, RequestAt
<1> QED BY <1>2, <1>3, CountersStay

LEMMA AfterSwitchesStep ==
  ASSUME NEW path, NEW token
  PROVE  AfterSwitches(path, token) \in Steps /\ AfterSwitches(path, token) # "expire"
BY DEF AfterSwitches, Steps, Answered

LEMMA ReadSwitchStep ==
  ASSUME GInv, NEW r \in Requests, ReadSwitch(r)
  PROVE  GInv'
<1> DEFINE x == requests[r]
           stages == Stages(x.path)
           step == IF x.stage = Len(stages) THEN AfterSwitches(x.path, x.token) ELSE x.step
           onward == [x EXCEPT !.stage = x.stage + 1, !.step = step]
           stopped == [x EXCEPT !.step = "maintenance"]
           blind == [onward EXCEPT !.blind = TRUE]
<1>1. /\ x.step = "switches" /\ SameCounters /\ UNCHANGED off
      /\ ~ RequestAt(r, "none") /\ ~ RequestAt(r, "expire")
  BY DEF ReadSwitch, SameSwitches, RequestAt
<1>2. x \in RequestRecords
  BY <1>1, RequestFacts DEF GInv
<1>3. \/ requests' = [requests EXCEPT ![r] = stopped]
      \/ requests' = [requests EXCEPT ![r] = onward]
      \/ requests' = [requests EXCEPT ![r] = blind]
  BY DEF ReadSwitch
<1>4. step \in Steps /\ step # "expire"
  BY <1>1, AfterSwitchesStep DEF Steps
<1> HIDE DEF step, stages, x
<1>5. stopped \in RequestRecords /\ stopped.step # "expire"
  BY <1>2 DEF RequestRecords, Steps, Answered
<1>6. onward \in RequestRecords /\ onward.step # "expire"
  <2> DEFINE n == x.stage + 1
             middle == [x EXCEPT !.stage = n]
  <2>1. n \in Int
    BY <1>2 DEF RequestRecords
  <2>2. onward = [middle EXCEPT !.step = step]
    BY <1>2 DEF RequestRecords
  <2> HIDE DEF n, onward
  <2>3. middle \in RequestRecords
    BY <1>2, <2>1 DEF RequestRecords
  <2> HIDE DEF middle
  <2> QED BY <1>4, <2>2, <2>3 DEF RequestRecords
<1> HIDE DEF onward
<1>7. blind \in RequestRecords /\ blind.step # "expire"
  BY <1>6 DEF RequestRecords
<1> HIDE DEF stopped, blind
<1> QED BY <1>1, <1>3, <1>5, <1>6, <1>7, OneMoves

\* A request that goes on, and is not about to expire a counter.
LEMMA StepMoves ==
  ASSUME GInv, NEW r \in Requests, ~ RequestAt(r, "none"), ~ RequestAt(r, "expire"),
         SameCounters, UNCHANGED off, NEW step \in Steps, step # "expire", Goes(r, step)
  PROVE  GInv'
<1>1. requests[r] \in RequestRecords
  BY RequestFacts DEF GInv
<1>2. [requests[r] EXCEPT !.step = step] \in RequestRecords
  BY <1>1 DEF RequestRecords
<1>3. [requests[r] EXCEPT !.step = step].step = step
  BY <1>1 DEF RequestRecords
<1>4. requests' = [requests EXCEPT ![r] = [requests[r] EXCEPT !.step = step]]
  BY DEF Goes
<1> QED BY <1>2, <1>3, <1>4, OneMoves

LEMMA PassExemptStep ==
  ASSUME GInv, NEW r \in Requests, PassExempt(r)
  PROVE  GInv'
<1> DEFINE step == AfterSwitches(requests[r].path, requests[r].token)
<1>1. /\ ~ RequestAt(r, "none") /\ ~ RequestAt(r, "expire") /\ SameCounters /\ UNCHANGED off
      /\ Goes(r, step)
  BY DEF PassExempt, SameSwitches, RequestAt
<1>2. step \in Steps /\ step # "expire"
  BY AfterSwitchesStep
<1> HIDE DEF step
<1> QED BY <1>1, <1>2, StepMoves

LEMMA ForwardStep ==
  ASSUME GInv, NEW r \in Requests, Forward(r)
  PROVE  GInv'
<1>1. /\ ~ RequestAt(r, "none") /\ ~ RequestAt(r, "expire") /\ SameCounters /\ UNCHANGED off
  BY DEF Forward, SameSwitches, RequestAt
<1>2. PICK step \in Steps : step # "expire" /\ Goes(r, step)
  <2>1. /\ {"set", "served", "unavailable"} \subseteq Steps
        /\ "set" # "expire" /\ "served" # "expire" /\ "unavailable" # "expire"
    BY DEF Steps, Answered
  <2>2. Goes(r, "set") \/ Goes(r, "served") \/ Goes(r, "unavailable")
    BY DEF Forward
  <2> QED BY <2>1, <2>2
<1> QED BY <1>1, <1>2, StepMoves

LEMMA AnswerStep ==
  ASSUME GInv, NEW r \in Requests, Answer(r)
  PROVE  GInv'
<1>1. /\ ~ RequestAt(r, "expire") /\ SameCounters /\ UNCHANGED off
      /\ requests' = [requests EXCEPT ![r] = NoRequest]
  BY DEF Answer, SameSwitches, RequestAt, Answered
<1>2. NoRequest \in RequestRecords \cup {NoRequest} /\ NoRequest.step # "expire"
  BY DEF NoRequest
<1> QED BY <1>1, <1>2, OneMoves

\* Every request under way notes the switches.
LEMMA AllMove ==
  ASSUME GInv, SameCounters, off' \subseteq Switches,
         requests' \in [Requests -> RequestRecords \cup {NoRequest}],
         \A q \in Requests :
           /\ RequestAt(q, "expire")' <=> RequestAt(q, "expire")
           /\ RequestAt(q, "expire") => requests'[q].client = requests[q].client
  PROVE  GInv'
<1>1. GatewayShape'
  BY DEF GInv, GatewayShape, SameCounters, limitVars
<1>2. \A q \in Requests, k \in Clients : Waits(q, k)' <=> Waits(q, k)
  BY DEF Waits
<1> QED BY <1>1, <1>2, CountersStay

LEMMA SetConfigStep ==
  ASSUME GInv, NEW r \in Requests, SetConfig(r)
  PROVE  GInv'
<1> DEFINE x == requests[r]
<1>0. PICK s \in DOMAIN x.change :
        LET left == [k \in DOMAIN x.change \ {s} |-> x.change[k]]
            next == [requests EXCEPT ![r].change = left,
                                     ![r].step = IF DOMAIN left = {} THEN "served" ELSE @]
        IN /\ RequestAt(r, "set") /\ SameCounters
           /\ \/ /\ off' = IF x.change[s] THEN off \ {s} ELSE off \cup {s}
                 /\ requests' = [q \in Requests |->
                      IF next[q] = NoRequest THEN NoRequest
                      ELSE [next[q] EXCEPT !.offSince = @ \cap off', !.offEver = @ \cup off']]
              \/ requests' = next /\ UNCHANGED off
  BY DEF SetConfig
<1> DEFINE left == [k \in DOMAIN x.change \ {s} |-> x.change[k]]
           step == IF DOMAIN left = {} THEN "served" ELSE x.step
           next == [requests EXCEPT ![r] = [[x EXCEPT !.change = left] EXCEPT !.step = step]]
           now(q) == IF next[q] = NoRequest THEN NoRequest
                     ELSE [[next[q] EXCEPT !.offSince = next[q].offSince \cap off']
                             EXCEPT !.offEver = next[q].offEver \cup off']
<1>1. /\ ~ RequestAt(r, "none") /\ ~ RequestAt(r, "expire") /\ x.step = "set" /\ SameCounters
  BY <1>0 DEF RequestAt
<1>2. x \in RequestRecords
  BY <1>1, RequestFacts DEF GInv
<1>3. left \in AnyChange /\ s \in Switches
  <2>1. PICK S \in SUBSET Switches : x.change \in [S -> BOOLEAN]
    BY <1>2 DEF RequestRecords, AnyChange
  <2>2. left \in [S \ {s} -> BOOLEAN] /\ S \ {s} \in SUBSET Switches
    BY <2>1
  <2> QED BY <2>1, <2>2 DEF AnyChange
<1>4. step \in Steps /\ step # "expire"
  BY <1>1 DEF Steps, Answered
<1>5. next = [requests EXCEPT ![r].change = left, ![r].step = step]
  BY <1>2 DEF GInv, GatewayShape, RequestRecords
<1> HIDE DEF left, step
<1>6. [[x EXCEPT !.change = left] EXCEPT !.step = step] \in RequestRecords
  <2>1. [x EXCEPT !.change = left] \in RequestRecords
    BY <1>2, <1>3 DEF RequestRecords
  <2> QED BY <1>4, <2>1 DEF RequestRecords
<1>7. next[r].step # "expire"
  <2>1. [[x EXCEPT !.change = left] EXCEPT !.step = step].step = step
    BY <1>2 DEF RequestRecords
  <2> QED BY <1>4, <2>1 DEF GInv, GatewayShape
<1>8. /\ next \in [Requests -> RequestRecords \cup {NoRequest}]
      /\ \A q \in Requests : q # r => next[q] = requests[q]
  BY <1>6 DEF GInv, GatewayShape
<1>9. \A q \in Requests :
        /\ next[q].step = "expire" <=> RequestAt(q, "expire")
        /\ RequestAt(q, "expire") => next[q].client = requests[q].client
  BY <1>1, <1>7, <1>8 DEF RequestAt
<1>10. CASE requests' = next /\ UNCHANGED off
  <2>1. off' \subseteq Switches
    BY <1>10 DEF GInv, GatewayShape
  <2> HIDE DEF next
  <2>2. ASSUME NEW q \in Requests
        PROVE  /\ RequestAt(q, "expire")' <=> RequestAt(q, "expire")
               /\ RequestAt(q, "expire") => requests'[q].client = requests[q].client
    <3>1. (next[q].step = "expire" <=> RequestAt(q, "expire"))
            /\ (RequestAt(q, "expire") => next[q].client = requests[q].client)
      BY <1>9
    <3>2. requests'[q] = next[q]
      BY <1>10
    <3> QED BY <3>1, <3>2 DEF RequestAt
  <2>3. requests' \in [Requests -> RequestRecords \cup {NoRequest}]
    BY <1>8, <1>10
  <2> QED BY <1>1, <2>1, <2>2, <2>3, AllMove
<1>11. CASE /\ off' = IF x.change[s] THEN off \ {s} ELSE off \cup {s}
            /\ requests' = [q \in Requests |-> now(q)]
  <2>1. off' \subseteq Switches
    BY <1>3, <1>11 DEF GInv, GatewayShape
  <2> HIDE DEF next
  <2>2. ASSUME NEW q \in Requests
        PROVE  /\ now(q) \in RequestRecords \cup {NoRequest}
               /\ now(q).step = next[q].step
               /\ RequestAt(q, "expire") => now(q).client = next[q].client
    <3>1. CASE next[q] = NoRequest
      BY <3>1
    <3>2. CASE next[q] # NoRequest
      <4> DEFINE y == next[q]
                 z == [y EXCEPT !.offSince = y.offSince \cap off']
      <4>1. y \in RequestRecords
        BY <1>8, <3>2
      <4>2. now(q) = [z EXCEPT !.offEver = y.offEver \cup off']
        BY <3>2
      <4> HIDE DEF y, now
      <4>3. z \in RequestRecords /\ z.step = y.step /\ z.client = y.client
        BY <4>1 DEF RequestRecords
      <4>4. y.offEver \cup off' \in SUBSET Switches
        BY <2>1, <4>1 DEF RequestRecords
      <4> HIDE DEF z
      <4> QED BY <4>2, <4>3, <4>4 DEF RequestRecords, y
    <3> QED BY <3>1, <3>2
  <2> HIDE DEF now
  <2>3. requests' \in [Requests -> RequestRecords \cup {NoRequest}]
    BY <1>11, <2>2
  <2>4. ASSUME NEW q \in Requests
        PROVE  /\ RequestAt(q, "expire")' <=> RequestAt(q, "expire")
               /\ RequestAt(q, "expire") => requests'[q].client = requests[q].client
    <3>1. requests'[q] = now(q)
      BY <1>11
    <3>2. (next[q].step = "expire" <=> RequestAt(q, "expire"))
            /\ (RequestAt(q, "expire") => next[q].client = requests[q].client)
      BY <1>9
    <3>3. now(q).step = next[q].step /\ (RequestAt(q, "expire") => now(q).client = next[q].client)
      BY <2>2
    <3> QED BY <3>1, <3>2, <3>3 DEF RequestAt
  <2> QED BY <1>1, <2>1, <2>3, <2>4, AllMove
<1>12. \A q \in Requests : next[q] # NoRequest =>
         [next[q] EXCEPT !.offSince = @ \cap off', !.offEver = @ \cup off'] = now(q)
  <2> HIDE DEF next
  <2> QED BY <1>8 DEF RequestRecords
<1> HIDE DEF now
<1>13. \/ requests' = next /\ UNCHANGED off
       \/ /\ off' = IF x.change[s] THEN off \ {s} ELSE off \cup {s}
          /\ requests' = [q \in Requests |-> now(q)]
  <2>1. \A q \in Requests : next[q] = NoRequest => now(q) = NoRequest
    BY DEF now
  <2>2. CASE requests' = next /\ UNCHANGED off
    BY <2>2
  <2>3. CASE /\ off' = IF x.change[s] THEN off \ {s} ELSE off \cup {s}
             /\ requests' = [q \in Requests |->
                  IF next[q] = NoRequest THEN NoRequest
                  ELSE [next[q] EXCEPT !.offSince = @ \cap off', !.offEver = @ \cup off']]
    <3> HIDE DEF next
    <3>1. \A q \in Requests :
            now(q) = IF next[q] = NoRequest THEN NoRequest
                     ELSE [next[q] EXCEPT !.offSince = @ \cap off', !.offEver = @ \cup off']
      BY <1>12, <2>1
    <3>2. requests' = [q \in Requests |-> now(q)]
      BY <2>3, <3>1
    <3> QED BY <2>3, <3>2
  <2>4. next = [requests EXCEPT ![r].change = [k \in DOMAIN x.change \ {s} |-> x.change[k]],
                  ![r].step = IF DOMAIN [k \in DOMAIN x.change \ {s} |-> x.change[k]] = {}
                              THEN "served" ELSE @]
    BY <1>2, <1>5 DEF left, step, RequestRecords, GInv, GatewayShape
  <2> HIDE DEF next, now
  <2> QED BY <1>0, <2>2, <2>3, <2>4
<1> QED BY <1>10, <1>11, <1>13

LEMMA RestartStep ==
  ASSUME GInv, Restart
  PROVE  GInv'
<1>1. /\ UNCHANGED <<off, hits, admitted, unanswered, wasted>>
      /\ requests' = [r \in Requests |-> NoRequest]
      /\ neverExpire' = neverExpire \cup
           {requests[r].client : r \in {q \in Requests : RequestAt(q, "expire")}}
  BY DEF Restart, SameSwitches
<1>2. GatewayShape'
  BY <1>1 DEF GInv, GatewayShape
<1>3. \A q \in Requests, k \in Clients : ~ Waits(q, k)'
  BY <1>1 DEF Waits, RequestAt, NoRequest
<1>4. WaitersOwn'
  BY <1>3 DEF WaitersOwn
<1>5. ASSUME NEW k \in Clients PROVE ClientOK(k)'
  <2>1. k \in neverExpire' <=> k \in neverExpire \/ \E q \in Requests : Waits(q, k)
    BY <1>1 DEF Waits
  <2> QED BY <1>1, <1>3, <2>1, ClientFacts DEF ClientOK
<1> QED BY <1>2, <1>3, <1>4, <1>5, LimitsFromWaits DEF GInv

LEMMA GatewayStep ==
  ASSUME GInv, [GatewayNext]_gatewayVars
  PROVE  GInv'
<1>1. CASE UNCHANGED gatewayVars
  BY <1>1 DEF gatewayVars, limitVars, GInv, GatewayShape, WaitersOwn, LimitsHold, Waits, RequestAt
<1>2. ASSUME NEW r \in Requests,
             Arrive(r) \/ Increment(r) \/ IncrementFails(r) \/ Expire(r) \/ ReadSwitch(r)
               \/ PassExempt(r) \/ Forward(r) \/ SetConfig(r) \/ Answer(r)
      PROVE  GInv'
  BY <1>2, ArriveStep, IncrementStep, IncrementFailsStep, ExpireStep, ReadSwitchStep, PassExemptStep,
     ForwardStep, SetConfigStep, AnswerStep
<1>3. ASSUME NEW k \in Clients, EndWindow(k) PROVE GInv'
  BY <1>3, EndWindowStep
<1>4. CASE Restart
  BY <1>4, RestartStep
<1> QED BY <1>1, <1>2, <1>3, <1>4 DEF GatewayNext

\* The rate limiter (ratelimit.go), for every number of clients and requests,
\* every limit and every number of faults: a counter that never ends has lost
\* its EXPIRE to a fault - the reply to the INCR that began it was lost, EXPIRE
\* failed, or the gateway stopped between the two - and every place of a window
\* went to a request or to a lost reply, so that the requests let through are
\* at most the limit and those that redis did not answer for.
THEOREM LimitsAreKept == GatewaySpec => []LimitsHold
<1>1. GatewayInit => GInv
  BY GatewayStart
<1>2. GInv /\ [GatewayNext]_gatewayVars => GInv'
  BY GatewayStep
<1>3. GInv => LimitsHold
  BY DEF GInv
<1> QED BY <1>1, <1>2, <1>3, PTL DEF GatewaySpec

-----------------------------------------------------------------------------
(* The maintenance switches.  The switches a request has passed were not    *)
(* off all the time since it came; and a counter counts arrivals, and the   *)
(* faults on which a command was sent again.                                *)

Counting == {r \in Requests : RequestAt(r, "count")}

ArrivalsCounted ==
  /\ arrivals \in Nat /\ arrivals <= MaxArrivals /\ IsFiniteSet(Counting)
  /\ redisFaults \in Nat /\ redisFaults <= MaxRedisFaults
  /\ \A k \in Clients : hits[k].count + Cardinality(Counting) <= arrivals + redisFaults

MoreFaults ==
  redisFaults' \in Nat /\ redisFaults <= redisFaults' /\ redisFaults' <= MaxRedisFaults

\* The first n switches on the way of x were on at some time, or not read.
Passed(x, n) ==
  \/ x.blind
  \/ \A i \in 1 .. n : Stages(x.path)[i] = "" \/ Stages(x.path)[i] \notin x.offSince

WayOK(x) ==
  /\ x.stage \in 1 .. Len(Stages(x.path)) + 1
  /\ x.offSince \subseteq off /\ off \subseteq x.offEver
  /\ x.step \in {"count", "expire", "switches"} =>
       x.stage <= Len(Stages(x.path)) /\ Passed(x, x.stage - 1)
  /\ x.step \in {"forward", "set", "served", "unavailable"} =>
       Exempt(x.path) \/ Passed(x, Len(Stages(x.path)))
  /\ x.step = "maintenance" =>
       ~ Exempt(x.path) /\ Stages(x.path)[x.stage] \in x.offEver

WayInv ==
  /\ GInv /\ ArrivalsCounted
  /\ \A r \in Requests : requests[r] # NoRequest => WayOK(requests[r])

-----------------------------------------------------------------------------
\* What the paths have in common: a module that is registered, and the paths of
\* the configuration are the exempt ones.
ModuleNames ==
  {"auth_routes", "pin_routes", "profile_picture_routes", "admin_routes", "merchant_routes",
   "payment_routes", "secure_routes", "support_routes", "downstream_routes", "reward_routes"}
Rescue == {"read config", "set config", "admin login"}
PathOK(p) ==
  /\ p.module \in ModuleNames \cup {"none"}
  /\ p.name \in Rescue => Exempt(p)

LEMMA ModuleFacts ==
  /\ Modules \in Seq(ModuleNames) /\ Len(Modules) = 10 /\ DOMAIN Modules = 1 .. 10
  /\ \A m \in ModuleNames : \E i \in 1 .. 10 : Modules[i] = m
<1>1. Len(Modules) = 10 /\ DOMAIN Modules = 1 .. 10
  BY DEF Modules
<1>2. /\ Modules[1] = "auth_routes" /\ Modules[2] = "pin_routes"
      /\ Modules[3] = "profile_picture_routes" /\ Modules[4] = "admin_routes"
      /\ Modules[5] = "merchant_routes" /\ Modules[6] = "payment_routes"
      /\ Modules[7] = "secure_routes" /\ Modules[8] = "support_routes"
      /\ Modules[9] = "downstream_routes" /\ Modules[10] = "reward_routes"
  BY DEF Modules
<1>3. Modules \in Seq(ModuleNames)
  BY DEF Modules, ModuleNames
<1>4. \A m \in ModuleNames : \E i \in 1 .. 10 : Modules[i] = m
  BY <1>2 DEF ModuleNames
<1> QED BY <1>1, <1>3, <1>4

LEMMA MadePaths ==
  ASSUME NEW name, NEW module, NEW segments, NEW service,
         module \in ModuleNames \cup {"none"},
         name \in Rescue => segments \cap {"/admin/config", "/auth/admin/login"} # {}
  PROVE  /\ PathOK(Path(name, module, segments, service))
         /\ PathOK(Open(Path(name, module, segments, service)))
         /\ PathOK(Admin(Path(name, module, segments, service)))
BY DEF PathOK, Exempt, Path, Open, Admin

LEMMA PathFacts == \A p \in Paths : PathOK(p)
<1> USE DEF ModuleNames, Rescue
<1>1. \A p \in AuthPaths : PathOK(p)
  BY MadePaths DEF AuthPaths
<1>2. \A p \in PinPaths \cup ProfilePaths : PathOK(p)
  BY MadePaths DEF PinPaths, ProfilePaths
<1>3. \A p \in AdminPaths : PathOK(p)
  BY MadePaths DEF AdminPaths
<1>4. \A p \in MerchantPaths : PathOK(p)
  BY MadePaths DEF MerchantPaths
<1>5. \A p \in PaymentPaths : PathOK(p)
  BY MadePaths DEF PaymentPaths
<1>6. \A p \in SecurePaths \cup SupportPaths : PathOK(p)
  BY MadePaths DEF SecurePaths, SupportPaths
<1>7. \A p \in DownstreamPaths \cup RewardPaths \cup WebsocketPaths : PathOK(p)
  BY MadePaths DEF DownstreamPaths, RewardPaths, WebsocketPaths
<1> QED BY <1>1, <1>2, <1>3, <1>4, <1>5, <1>6, <1>7 DEF Paths

\* The way to a path ends with the two switches of its own module.
LEMMA WayFacts ==
  ASSUME NEW p \in Paths
  PROVE  /\ Len(Stages(p)) \in Nat /\ Len(Stages(p)) >= 2
         /\ DOMAIN Stages(p) = 1 .. Len(Stages(p))
         /\ p.module # "none" =>
              /\ Stages(p)[Len(Stages(p)) - 1] = p.module
              /\ Stages(p)[Len(Stages(p))] = getSubRouteKey(p.module, p)
<1>1. PathOK(p)
  BY PathFacts
<1>2. /\ Modules \in Seq(ModuleNames) /\ Len(Modules) = 10 /\ DOMAIN Modules = 1 .. 10
      /\ \A m \in ModuleNames : \E i \in 1 .. 10 : Modules[i] = m
  BY ModuleFacts
<1>3. /\ Len(Prefix(p)) \in Nat /\ Len(Prefix(p)) >= 1
      /\ p.module # "none" => Prefix(p)[Len(Prefix(p))] = p.module
  <2>1. CASE p.module = "none"
    <3>0. \A i \in 1 .. 10 : Modules[i] \in ModuleNames
      BY <1>2, ElementOfSeq
    <3>1. SubSeq(Modules, 1, 2) \in Seq(ModuleNames) /\ Len(SubSeq(Modules, 1, 2)) = 2
      BY <3>0, SubSeqProperties
    <3>2. SubSeq(Modules, 4, 10) \in Seq(ModuleNames) /\ Len(SubSeq(Modules, 4, 10)) = 7
      BY <3>0, SubSeqProperties
    <3> QED BY <1>2, <2>1, <3>1, <3>2 DEF Prefix
  <2>2. CASE p.module # "none"
    <3> DEFINE n == CHOOSE i \in DOMAIN Modules : Modules[i] = p.module
    <3>1. n \in 1 .. 10 /\ Modules[n] = p.module
      BY <1>1, <1>2, <2>2 DEF PathOK
    <3>2. Prefix(p) = SubSeq(Modules, 1, n)
      BY <2>2 DEF Prefix
    <3> HIDE DEF n
    <3>3. Len(SubSeq(Modules, 1, n)) = n /\ SubSeq(Modules, 1, n)[n] = Modules[n]
      BY <1>2, <3>1
    <3> QED BY <3>1, <3>2, <3>3
  <2> QED BY <2>1, <2>2
<1> DEFINE modules == Prefix(p)
           n == Len(modules)
           switch(i) == IF i % 2 = 1 THEN modules[(i + 1) \div 2]
                        ELSE getSubRouteKey(modules[i \div 2], p)
<1>4. Stages(p) = [i \in 1 .. 2 * n |-> switch(i)]
  BY DEF Stages, StagesOf
<1>5. n \in Nat /\ n >= 1 /\ (p.module # "none" => modules[n] = p.module)
  BY <1>3
<1> HIDE DEF n, modules
<1>6. (2 * n) % 2 = 0 /\ (2 * n) \div 2 = n /\ (2 * n - 1) % 2 = 1 /\ (2 * n - 1 + 1) \div 2 = n
  BY <1>5
<1>7. switch(2 * n - 1) = modules[n] /\ switch(2 * n) = getSubRouteKey(modules[n], p)
  BY <1>6
<1> HIDE DEF switch
<1>8. Len(Stages(p)) = 2 * n /\ DOMAIN Stages(p) = 1 .. 2 * n
  BY <1>4, <1>5
<1>9. 2 * n \in 1 .. 2 * n /\ 2 * n - 1 \in 1 .. 2 * n
  BY <1>5
<1> QED BY <1>4, <1>5, <1>7, <1>8, <1>9

-----------------------------------------------------------------------------
\* A counter grows with requests that leave the limiter.
LEMMA ArrivalsStay ==
  ASSUME GInv, GInv', ArrivalsCounted, MoreFaults, arrivals' = arrivals,
         Counting' \subseteq Counting,
         \/ \A k \in Clients : hits'[k].count <= hits[k].count
         \/ /\ redisFaults' = redisFaults + 1
            /\ \A k \in Clients : hits'[k].count <= hits[k].count + 1
  PROVE  ArrivalsCounted'
<1>1. IsFiniteSet(Counting') /\ Cardinality(Counting') <= Cardinality(Counting)
  BY FS_Subset DEF ArrivalsCounted
<1>2. Cardinality(Counting') \in Nat /\ Cardinality(Counting) \in Nat
  BY <1>1, FS_CardinalityType DEF ArrivalsCounted
<1>3. \A k \in Clients : hits[k].count \in Nat /\ hits'[k].count \in Nat
  BY DEF GInv, GatewayShape
<1> QED BY <1>1, <1>2, <1>3 DEF ArrivalsCounted, MoreFaults

LEMMA FaultsGrow ==
  ASSUME ArrivalsCounted, [GatewayNext]_gatewayVars
  PROVE  MoreFaults
<1>1. ASSUME NEW r \in Requests,
             \/ Arrive(r) \/ Increment(r) \/ IncrementFails(r) \/ Expire(r)
             \/ ReadSwitch(r) \/ PassExempt(r) \/ Forward(r) \/ SetConfig(r) \/ Answer(r)
      PROVE  UNCHANGED redisFaults \/ RedisFault
  BY <1>1 DEF Arrive, Increment, IncrementFails, Expire, ReadSwitch, PassExempt, Forward,
              SetConfig, Answer
<1>2. UNCHANGED redisFaults \/ RedisFault
  BY <1>1 DEF GatewayNext, EndWindow, Restart, gatewayVars
<1> QED BY <1>2, GatewayAssumption DEF ArrivalsCounted, MoreFaults, RedisFault

\* Every request under way goes on, as another may have set a switch.
Follows(q) ==
  requests'[q] # NoRequest =>
    /\ requests[q] # NoRequest
    /\ requests'[q].path = requests[q].path
    /\ requests'[q].stage = requests[q].stage /\ requests'[q].blind = requests[q].blind
    /\ requests'[q].offSince \subseteq requests[q].offSince
    /\ requests[q].offEver \subseteq requests'[q].offEver
    /\ off' = off \/ (requests'[q].offSince \subseteq off' /\ off' \subseteq requests'[q].offEver)
    /\ \/ requests'[q].step = requests[q].step
       \/ requests[q].step = "set" /\ requests'[q].step = "served"

LEMMA WayFollows ==
  ASSUME NEW q \in Requests, Follows(q), requests[q] # NoRequest => WayOK(requests[q])
  PROVE  (requests[q] # NoRequest => WayOK(requests[q]))'
<1> SUFFICES ASSUME requests'[q] # NoRequest PROVE WayOK(requests[q])'
  OBVIOUS
<1> DEFINE x == requests[q]
           y == requests'[q]
<1>1. /\ WayOK(x) /\ y.path = x.path /\ y.stage = x.stage /\ y.blind = x.blind
      /\ y.offSince \subseteq x.offSince /\ x.offEver \subseteq y.offEver
      /\ off' = off \/ (y.offSince \subseteq off' /\ off' \subseteq y.offEver)
      /\ y.step = x.step \/ (x.step = "set" /\ y.step = "served")
  BY DEF Follows
<1> HIDE DEF x, y
<1>2. \A n : Passed(x, n) => Passed(y, n)
  BY <1>1 DEF Passed
<1>3. /\ y.stage \in 1 .. Len(Stages(y.path)) + 1
      /\ y.offSince \subseteq off' /\ off' \subseteq y.offEver
      /\ y.step \in {"count", "expire", "switches"} =>
           y.stage <= Len(Stages(y.path)) /\ Passed(y, y.stage - 1)
      /\ y.step \in {"forward", "set", "served", "unavailable"} =>
           Exempt(y.path) \/ Passed(y, Len(Stages(y.path)))
      /\ y.step = "maintenance" => ~ Exempt(y.path) /\ Stages(y.path)[y.stage] \in y.offEver
  BY <1>1, <1>2 DEF WayOK
<1> QED BY <1>3 DEF WayOK, y

\* One request goes on, and no switch is set.
LEMMA OneGoes ==
  ASSUME WayInv, GInv', ArrivalsCounted', off' = off, NEW r \in Requests, NEW next,
         next = NoRequest \/ WayOK(next),
         requests' = [requests EXCEPT ![r] = next]
  PROVE  WayInv'
<1>1. /\ requests'[r] = next
      /\ \A q \in Requests : q # r => requests'[q] = requests[q]
  BY DEF WayInv, GInv, GatewayShape
<1>2. ASSUME NEW q \in Requests PROVE (requests[q] # NoRequest => WayOK(requests[q]))'
  <2>1. CASE q = r
    BY <1>1, <2>1 DEF WayOK
  <2>2. CASE q # r
    BY <1>1, <2>2 DEF WayInv, WayOK
  <2> QED BY <2>1, <2>2
<1> QED BY <1>2 DEF WayInv

\* The request of an administrator has a key less to set, or is done.
ConfigSet(r, left, step) ==
  LET next == [requests EXCEPT ![r].change = left, ![r].step = step] IN
  \/ requests' = [p \in Requests |->
       IF next[p] = NoRequest THEN NoRequest
       ELSE [next[p] EXCEPT !.offSince = @ \cap off', !.offEver = @ \cup off']]
  \/ requests' = next /\ UNCHANGED off

LEMMA ConfigFollows ==
  ASSUME GInv, NEW r \in Requests, SetConfig(r), NEW q \in Requests
  PROVE  Follows(q)
<1> DEFINE x == requests[r]
<1>1. RequestAt(r, "set")
  BY DEF SetConfig
<1>2. x.step = "set" /\ x \in RequestRecords /\ x # NoRequest
  <2>1. x.step = "set" /\ ~ RequestAt(r, "none")
    BY <1>1 DEF RequestAt
  <2> QED BY <2>1, RequestFacts DEF GInv, NoRequest
<1>0. \E left, step : step \in {"served", x.step} /\ ConfigSet(r, left, step)
  <2>1. PICK s \in DOMAIN x.change :
        LET left == [k \in DOMAIN x.change \ {s} |-> x.change[k]]
            next == [requests EXCEPT ![r].change = left,
                                     ![r].step = IF DOMAIN left = {} THEN "served" ELSE @]
        IN \/ requests' = [p \in Requests |->
                IF next[p] = NoRequest THEN NoRequest
                ELSE [next[p] EXCEPT !.offSince = @ \cap off', !.offEver = @ \cup off']]
           \/ requests' = next /\ UNCHANGED off
    BY DEF SetConfig
  <2> DEFINE left == [k \in DOMAIN x.change \ {s} |-> x.change[k]]
             step == IF DOMAIN left = {} THEN "served" ELSE x.step
  <2>2. step \in {"served", x.step}
    OBVIOUS
  <2>3. [requests EXCEPT ![r].change = left, ![r].step = IF DOMAIN left = {} THEN "served" ELSE @]
          = [requests EXCEPT ![r].change = left, ![r].step = step]
    <3> HIDE DEF left
    <3> QED BY <1>2 DEF GInv, GatewayShape, RequestRecords
  <2>4. ConfigSet(r, left, step)
    BY <2>1, <2>3 DEF ConfigSet
  <2> HIDE DEF left, step
  <2> QED BY <2>2, <2>4
<1> SUFFICES ASSUME NEW left, NEW step, step \in {"served", x.step}, ConfigSet(r, left, step)
             PROVE  Follows(q)
  BY <1>0
<1> DEFINE next == [requests EXCEPT ![r].change = left, ![r].step = step]
<1>3. /\ next[q] = NoRequest \/ requests[q] \in RequestRecords
      /\ next[q] # NoRequest =>
           /\ requests[q] # NoRequest
           /\ next[q].path = requests[q].path /\ next[q].stage = requests[q].stage
           /\ next[q].blind = requests[q].blind
           /\ next[q].offSince = requests[q].offSince /\ next[q].offEver = requests[q].offEver
           /\ \/ next[q].step = requests[q].step
              \/ requests[q].step = "set" /\ next[q].step = "served"
           /\ DOMAIN next[q] = DOMAIN requests[q]
  <2>1. CASE q = r
    <3>1. next[q] = [[x EXCEPT !.change = left] EXCEPT !.step = step]
      BY <1>2, <2>1 DEF GInv, GatewayShape, RequestRecords
    <3> DEFINE middle == [x EXCEPT !.change = left]
    <3>2. /\ middle.step = x.step /\ middle.path = x.path /\ middle.stage = x.stage
          /\ middle.blind = x.blind /\ middle.offSince = x.offSince /\ middle.offEver = x.offEver
          /\ DOMAIN middle = DOMAIN x
      BY <1>2 DEF RequestRecords
    <3>3. DOMAIN x = {"step", "client", "path", "token", "change", "tries", "stage", "offSince",
                      "offEver", "blind"}
      BY <1>2 DEF RequestRecords
    <3> HIDE DEF middle
    <3>4. next[q] = [middle EXCEPT !.step = step]
      BY <3>1 DEF middle
    <3> HIDE DEF next
    <3>5. /\ next[q].step = step /\ next[q].path = x.path /\ next[q].stage = x.stage
          /\ next[q].blind = x.blind /\ next[q].offSince = x.offSince /\ next[q].offEver = x.offEver
          /\ DOMAIN next[q] = DOMAIN x
      BY <3>2, <3>3, <3>4
    <3> QED BY <1>1, <1>2, <2>1, <3>5
  <2>2. CASE q # r
    BY <2>2 DEF GInv, GatewayShape
  <2> QED BY <2>1, <2>2
<1> HIDE DEF next
<1>4. CASE requests' = next /\ UNCHANGED off
  BY <1>3, <1>4 DEF Follows
<1>5. CASE requests' = [p \in Requests |->
             IF next[p] = NoRequest THEN NoRequest
             ELSE [next[p] EXCEPT !.offSince = @ \cap off', !.offEver = @ \cup off']]
  <2>1. next[q] = NoRequest => requests'[q] = NoRequest
    BY <1>5
  <2>2. ASSUME next[q] # NoRequest PROVE Follows(q)
    <3> DEFINE y == next[q]
               since == y.offSince \cap off'
               ever == y.offEver \cup off'
    <3>1. requests'[q] = [y EXCEPT !.offSince = since, !.offEver = ever]
      BY <1>5, <2>2
    <3>2. DOMAIN y = {"step", "client", "path", "token", "change", "tries", "stage", "offSince",
                      "offEver", "blind"}
      BY <1>3, <2>2 DEF RequestRecords
    <3> HIDE DEF y, since, ever
    <3>3. /\ requests'[q].offSince = since /\ requests'[q].offEver = ever
          /\ requests'[q].step = y.step /\ requests'[q].path = y.path
          /\ requests'[q].stage = y.stage /\ requests'[q].blind = y.blind
      BY <3>1, <3>2
    <3> QED BY <1>3, <2>2, <3>3 DEF Follows, since, ever, y
  <2> QED BY <2>1, <2>2 DEF Follows
<1> QED BY <1>4, <1>5 DEF ConfigSet, next

LEMMA SetConfigWay ==
  ASSUME WayInv, GInv', MoreFaults, NEW r \in Requests, SetConfig(r)
  PROVE  WayInv'
<1>1. \A q \in Requests : Follows(q)
  BY ConfigFollows DEF WayInv
<1>2. \A q \in Requests : (requests[q] # NoRequest => WayOK(requests[q]))'
  BY <1>1, WayFollows DEF WayInv
<1>3. ArrivalsCounted'
  <2>1. Counting' \subseteq Counting
    BY <1>1 DEF Counting, RequestAt, Follows, NoRequest
  <2>2. arrivals' = arrivals /\ hits' = hits
    BY DEF SetConfig, SameCounters, limitVars
  <2>3. \A k \in Clients : hits[k].count \in Nat
    BY DEF WayInv, GInv, GatewayShape
  <2> QED BY <2>1, <2>2, <2>3, ArrivalsStay DEF WayInv
<1> QED BY <1>2, <1>3 DEF WayInv

-----------------------------------------------------------------------------
\* One request goes on or ends; it is counted no more.
LEMMA CountingOne ==
  ASSUME GInv, NEW r \in Requests, NEW next, next.step # "count",
         requests' = [requests EXCEPT ![r] = next]
  PROVE  Counting' = Counting \ {r}
<1>1. requests'[r] = next /\ \A q \in Requests : q # r => requests'[q] = requests[q]
  BY DEF GInv, GatewayShape
<1> QED BY <1>1 DEF Counting, RequestAt

LEMMA GoesWay ==
  ASSUME WayInv, GInv', MoreFaults, NEW r \in Requests, ~ RequestAt(r, "none"), off' = off,
         arrivals' = arrivals, NEW step, step # "count", Goes(r, step),
         \/ hits' = hits
         \/ RequestAt(r, "count") /\ \E k \in Clients : hits' = [hits EXCEPT ![k].count = @ + 1]
         \/ \E k \in Clients : hits' = [hits EXCEPT ![k].expires = TRUE],
         \/ step \in {"limited", "unauthorized", "forbidden"}
         \/ requests[r].step \in {"count", "expire"} /\ step \in {"expire", "switches"}
         \/ Exempt(requests[r].path) /\ step = "forward"
         \/ requests[r].step = "forward" /\ step \in {"set", "served", "unavailable"}
  PROVE  WayInv'
<1> DEFINE x == requests[r]
           next == [x EXCEPT !.step = step]
<1>1. x \in RequestRecords /\ requests' = [requests EXCEPT ![r] = next]
  BY RequestFacts DEF WayInv, GInv, Goes
<1>2. /\ next.step = step /\ next.path = x.path /\ next.stage = x.stage /\ next.blind = x.blind
      /\ next.offSince = x.offSince /\ next.offEver = x.offEver
  BY <1>1 DEF RequestRecords
<1>3. WayOK(x)
  BY DEF WayInv, RequestAt, NoRequest
<1>4. \/ step \in {"limited", "unauthorized", "forbidden"}
      \/ x.step \in {"count", "expire"} /\ step \in {"expire", "switches"}
      \/ Exempt(x.path) /\ step = "forward"
      \/ x.step = "forward" /\ step \in {"set", "served", "unavailable"}
  OBVIOUS
<1>5. Counting' = Counting \ {r} /\ (RequestAt(r, "count") <=> r \in Counting)
  <2> HIDE DEF next
  <2> QED BY <1>1, <1>2, CountingOne DEF WayInv, Counting
<1> HIDE DEF x, next
<1>6. WayOK(next)
  BY <1>2, <1>3, <1>4 DEF WayOK, Passed
<1>7. ArrivalsCounted'
  <2>1. CASE \A k \in Clients : hits'[k].count <= hits[k].count
    BY <1>5, <2>1, ArrivalsStay DEF WayInv
  <2>2. CASE r \in Counting /\ \A k \in Clients : hits'[k].count <= hits[k].count + 1
    <3>1. /\ IsFiniteSet(Counting') /\ Cardinality(Counting') = Cardinality(Counting) - 1
          /\ Cardinality(Counting) \in Nat /\ Cardinality(Counting') \in Nat
      BY <1>5, <2>2, FS_RemoveElement, FS_CardinalityType DEF WayInv, ArrivalsCounted
    <3>2. \A k \in Clients : hits[k].count \in Nat /\ hits'[k].count \in Nat
      BY DEF WayInv, GInv, GatewayShape
    <3> QED BY <2>2, <3>1, <3>2 DEF WayInv, ArrivalsCounted, MoreFaults
  <2>3. /\ hits \in [Clients -> [count : Nat, expires : BOOLEAN]]
        /\ \A k \in Clients : hits[k].count \in Nat
    BY DEF WayInv, GInv, GatewayShape
  <2>4. ASSUME NEW j \in Clients, hits' = [hits EXCEPT ![j].count = @ + 1]
        PROVE  \A k \in Clients : hits'[k].count <= hits[k].count + 1
    BY <2>3, <2>4
  <2>5. ASSUME NEW j \in Clients, hits' = [hits EXCEPT ![j].expires = TRUE]
        PROVE  \A k \in Clients : hits'[k].count <= hits[k].count
    BY <2>3, <2>5
  <2>6. hits' = hits => \A k \in Clients : hits'[k].count <= hits[k].count
    BY <2>3
  <2> QED BY <1>5, <2>1, <2>2, <2>4, <2>5, <2>6
<1> QED BY <1>1, <1>6, <1>7, OneGoes

LEMMA AfterFacts ==
  ASSUME NEW path, NEW token
  PROVE  AfterSwitches(path, token) \in {"forward", "unauthorized", "forbidden"}
BY DEF AfterSwitches

LEMMA GoingWay ==
  ASSUME WayInv, GInv', MoreFaults, NEW r \in Requests,
         Increment(r) \/ Expire(r) \/ PassExempt(r) \/ Forward(r)
  PROVE  WayInv'
<1>1. ~ RequestAt(r, "none") /\ off' = off /\ arrivals' = arrivals
  BY DEF Increment, Expire, PassExempt, Forward, RequestAt, SameSwitches
<1>2. CASE Increment(r)
  <2> DEFINE client == requests[r].client
             count == hits[client].count + 1
             step == IF count = 1 THEN "expire" ELSE Verdict(count)
  <2>1. RequestAt(r, "count") /\ client \in Clients
    BY <1>1, <1>2, RequestFacts DEF Increment, WayInv, GInv, RequestRecords
  <2>2. step \in {"limited", "expire", "switches"}
    BY DEF Verdict
  <2>3. hits' = [hits EXCEPT ![client].count = count] /\ Goes(r, step)
    BY <1>2 DEF Increment
  <2>4. [hits EXCEPT ![client].count = count] = [hits EXCEPT ![client].count = @ + 1]
    BY <2>1 DEF WayInv, GInv, GatewayShape
  <2> HIDE DEF count, step, client
  <2> QED BY <1>1, <2>1, <2>2, <2>3, <2>4, GoesWay DEF RequestAt
<1>3. CASE Expire(r)
  <2> DEFINE client == requests[r].client
             step == Verdict(1)
  <2>1. /\ RequestAt(r, "expire") /\ client \in Clients /\ Goes(r, step)
        /\ hits' = hits \/ hits' = [hits EXCEPT ![client].expires = TRUE]
    BY <1>1, <1>3, RequestFacts DEF Expire, WayInv, GInv, RequestRecords
  <2>2. step \in {"limited", "switches"}
    BY DEF Verdict
  <2> HIDE DEF step, client
  <2> QED BY <1>1, <2>1, <2>2, GoesWay DEF RequestAt
<1>4. CASE PassExempt(r)
  <2> DEFINE step == AfterSwitches(requests[r].path, requests[r].token)
  <2>1. step \in {"forward", "unauthorized", "forbidden"}
    BY AfterFacts
  <2>2. Exempt(requests[r].path) /\ Goes(r, step) /\ hits' = hits
    BY <1>4 DEF PassExempt, SameCounters, limitVars
  <2> HIDE DEF step
  <2> QED BY <1>1, <2>1, <2>2, GoesWay
<1>5. CASE Forward(r)
  <2>1. /\ requests[r].step = "forward" /\ hits' = hits
        /\ Goes(r, "set") \/ Goes(r, "served") \/ Goes(r, "unavailable")
    BY <1>5 DEF Forward, SameCounters, limitVars, RequestAt
  <2> QED BY <1>1, <2>1, GoesWay
<1> QED BY <1>2, <1>3, <1>4, <1>5

\* It is sent again, or the request is let through: a fault more.
LEMMA IncrementFailsWay ==
  ASSUME WayInv, GInv', MoreFaults, NEW r \in Requests, IncrementFails(r)
  PROVE  WayInv'
<1> DEFINE x == requests[r]
           n == x.tries + 1
           again == [x EXCEPT !.tries = n]
           through == [x EXCEPT !.step = "switches"]
<1>1. /\ RequestAt(r, "count") /\ ~ RequestAt(r, "none") /\ off' = off /\ arrivals' = arrivals
      /\ redisFaults' = redisFaults + 1
  BY DEF IncrementFails, RequestAt, SameSwitches, RedisFault
<1>2. x \in RequestRecords /\ WayOK(x) /\ x.step = "count"
  BY <1>1, RequestFacts DEF WayInv, GInv, RequestAt, NoRequest
<1>3. \/ requests' = [requests EXCEPT ![r] = again]
      \/ requests' = [requests EXCEPT ![r] = through]
  <2>1. again = [x EXCEPT !.tries = @ + 1]
    BY <1>2 DEF RequestRecords
  <2> HIDE DEF again, n
  <2> QED BY <2>1 DEF IncrementFails, Goes
<1> HIDE DEF x, n
<1>4. PICK next \in {again, through} : requests' = [requests EXCEPT ![r] = next]
  BY <1>3
<1>5. /\ next.step \in {"count", "switches"} /\ next.path = x.path /\ next.stage = x.stage
      /\ next.blind = x.blind /\ next.offSince = x.offSince /\ next.offEver = x.offEver
  BY <1>2, <1>4 DEF RequestRecords
<1>6. WayOK(next)
  BY <1>2, <1>5 DEF WayOK, Passed
<1>7. Counting' \subseteq Counting
  <2>1. \A q \in Requests : q # r => requests'[q] = requests[q]
    BY <1>4 DEF WayInv, GInv, GatewayShape
  <2> QED BY <1>1, <2>1 DEF Counting, RequestAt
<1>8. \A k \in Clients : hits'[k].count <= hits[k].count + 1
  <2>1. \/ hits' = hits
        \/ \E j \in Clients : hits' = [hits EXCEPT ![j].count = @ + 1]
    BY <1>2 DEF IncrementFails, RequestRecords, x
  <2>2. /\ hits \in [Clients -> [count : Nat, expires : BOOLEAN]]
        /\ \A k \in Clients : hits[k].count \in Nat
    BY DEF WayInv, GInv, GatewayShape
  <2> QED BY <2>1, <2>2
<1>9. ArrivalsCounted'
  BY <1>1, <1>7, <1>8, ArrivalsStay DEF WayInv
<1> QED BY <1>1, <1>4, <1>6, <1>9, OneGoes

LEMMA ReadWay ==
  ASSUME WayInv, GInv', MoreFaults, NEW r \in Requests, ReadSwitch(r)
  PROVE  WayInv'
<1> DEFINE x == requests[r]
           stages == Stages(x.path)
           step == IF x.stage = Len(stages) THEN AfterSwitches(x.path, x.token) ELSE x.step
           n == x.stage + 1
           onward == [x EXCEPT !.stage = n, !.step = step]
           stopped == [x EXCEPT !.step = "maintenance"]
           blind == [onward EXCEPT !.blind = TRUE]
           off1 == stages[x.stage] # "" /\ stages[x.stage] \in off
<1>1. /\ x.step = "switches" /\ ~ Exempt(x.path) /\ off' = off /\ arrivals' = arrivals /\ hits' = hits
      /\ x # NoRequest /\ ~ RequestAt(r, "none")
  <2>1. RequestAt(r, "switches") /\ ~ Exempt(x.path) /\ SameCounters /\ SameSwitches
    BY DEF ReadSwitch
  <2>2. x.step = "switches"
    BY <2>1 DEF RequestAt
  <2>3. off' = off /\ arrivals' = arrivals /\ hits' = hits
    BY <2>1 DEF SameSwitches, SameCounters, limitVars
  <2>4. x # NoRequest /\ ~ RequestAt(r, "none")
    <3> HIDE DEF x
    <3>1. x # NoRequest
      BY <2>2 DEF NoRequest
    <3>2. requests[r].step = "switches"
      BY <2>2 DEF x
    <3> QED BY <3>1, <3>2 DEF RequestAt
  <2> HIDE DEF x, off1, stopped, onward, blind, stages, step, n
  <2> QED BY <2>1, <2>2, <2>3, <2>4
<1>2. x \in RequestRecords /\ WayOK(x) /\ x.path \in Paths
  BY <1>1, RequestFacts DEF WayInv, GInv, RequestRecords
<1>3. \/ off1 /\ requests' = [requests EXCEPT ![r] = stopped]
      \/ ~ off1 /\ requests' = [requests EXCEPT ![r] = onward]
      \/ requests' = [requests EXCEPT ![r] = blind]
  BY DEF ReadSwitch
<1>4. /\ Len(stages) \in Nat
      /\ step \in {"switches", "forward", "unauthorized", "forbidden"}
      /\ x.stage = Len(stages) => step # "switches"
      /\ x.stage # Len(stages) => step = "switches"
  BY <1>1, <1>2, WayFacts, AfterFacts
<1>5. x.stage \in 1 .. Len(stages) /\ n = x.stage + 1
  BY <1>1, <1>2, <1>4 DEF WayOK
<1> HIDE DEF step, n
<1>6. /\ stopped.step = "maintenance" /\ stopped.path = x.path /\ stopped.stage = x.stage
      /\ stopped.offSince = x.offSince /\ stopped.offEver = x.offEver
  BY <1>2 DEF RequestRecords
<1>7. /\ onward.step = step /\ onward.path = x.path /\ onward.stage = n /\ onward.blind = x.blind
      /\ onward.offSince = x.offSince /\ onward.offEver = x.offEver
      /\ DOMAIN onward = DOMAIN x
  BY <1>2 DEF RequestRecords
<1>8. "blind" \in DOMAIN x
  BY <1>2 DEF RequestRecords
<1> HIDE DEF onward
<1>9. /\ blind.step = step /\ blind.path = x.path /\ blind.stage = n /\ blind.blind = TRUE
      /\ blind.offSince = x.offSince /\ blind.offEver = x.offEver
  BY <1>7, <1>8
<1> HIDE DEF x, stopped, blind
<1>10. off1 => WayOK(stopped)
  BY <1>1, <1>2, <1>5, <1>6 DEF WayOK
<1>11. ~ off1 => Passed(x, x.stage)
  <2>1. Passed(x, x.stage - 1) /\ x.offSince \subseteq off
    BY <1>1, <1>2 DEF WayOK
  <2>2. \A i \in 1 .. x.stage : i = x.stage \/ i \in 1 .. x.stage - 1
    BY <1>5
  <2> QED BY <2>1, <2>2 DEF Passed
<1>12. ASSUME ~ off1 PROVE WayOK(onward)
  <2>1. Passed(onward, x.stage)
    BY <1>7, <1>11, <1>12 DEF Passed
  <2>2. n \in 1 .. Len(stages) + 1 /\ n - 1 = x.stage
    BY <1>4, <1>5
  <2>3. step = "switches" => n <= Len(stages)
    BY <1>4, <1>5
  <2> HIDE DEF off1
  <2>4. Stages(onward.path) = stages
    BY <1>7
  <2>5. onward.offSince \subseteq off /\ off \subseteq onward.offEver
    BY <1>2, <1>7 DEF WayOK
  <2>6. onward.step = "switches" => onward.stage <= Len(stages) /\ Passed(onward, onward.stage - 1)
    BY <1>7, <2>1, <2>2, <2>3
  <2>7. onward.step = "forward" => Passed(onward, Len(stages))
    BY <1>4, <1>7, <2>1
  <2> QED BY <1>4, <1>7, <2>2, <2>4, <2>5, <2>6, <2>7 DEF WayOK
<1>13. WayOK(blind)
  <2>1. \A i : Passed(blind, i)
    BY <1>9 DEF Passed
  <2>2. n \in 1 .. Len(stages) + 1
    BY <1>4, <1>5
  <2>3. step = "switches" => n <= Len(stages)
    BY <1>4, <1>5
  <2> QED BY <1>2, <1>4, <1>9, <2>1, <2>2, <2>3 DEF WayOK
<1>14. PICK next \in {stopped, onward, blind} :
         WayOK(next) /\ requests' = [requests EXCEPT ![r] = next]
  BY <1>3, <1>10, <1>12, <1>13
<1>15. next.step # "count"
  BY <1>4, <1>6, <1>7, <1>9
<1>16. ArrivalsCounted'
  <2>1. Counting' \subseteq Counting
    BY <1>14, <1>15, CountingOne DEF WayInv
  <2>2. \A k \in Clients : hits[k].count \in Nat
    BY DEF WayInv, GInv, GatewayShape
  <2> QED BY <1>1, <2>1, <2>2, ArrivalsStay DEF WayInv
<1> QED BY <1>1, <1>14, <1>16, OneGoes

LEMMA AnswerWay ==
  ASSUME WayInv, GInv', MoreFaults, NEW r \in Requests, Answer(r)
  PROVE  WayInv'
<1>1. /\ requests' = [requests EXCEPT ![r] = NoRequest]
      /\ off' = off /\ arrivals' = arrivals /\ hits' = hits
  BY DEF Answer, SameSwitches, SameCounters, limitVars
<1>2. ArrivalsCounted'
  <2>1. Counting' \subseteq Counting
    BY <1>1, CountingOne DEF WayInv, NoRequest
  <2>2. \A k \in Clients : hits[k].count \in Nat
    BY DEF WayInv, GInv, GatewayShape
  <2> QED BY <1>1, <2>1, <2>2, ArrivalsStay DEF WayInv
<1> QED BY <1>1, <1>2, OneGoes

LEMMA ArriveWay ==
  ASSUME WayInv, GInv', MoreFaults, NEW r \in Requests, Arrive(r)
  PROVE  WayInv'
<1>0. PICK client \in Clients, path \in Paths, token \in Bearers :
        \E change \in Changes(path.name) :
          requests' = [requests EXCEPT ![r] = NewRequest(client, path, token, change)]
  BY DEF Arrive
<1>1. PICK change \in Changes(path.name) :
        requests' = [requests EXCEPT ![r] = NewRequest(client, path, token, change)]
  BY <1>0
<1>2. /\ hits' = hits /\ off' = off /\ RequestAt(r, "none")
      /\ arrivals < MaxArrivals /\ arrivals' = arrivals + 1
  BY DEF Arrive, SameCounters, limitVars
<1> DEFINE next == NewRequest(client, path, token, change)
<1>3. /\ next.step = "count" /\ next.path = path /\ next.stage = 1
      /\ next.offSince = off /\ next.offEver = off
  BY DEF NewRequest
<1> HIDE DEF next
<1>4. WayOK(next)
  <2>1. Len(Stages(path)) \in Nat /\ Len(Stages(path)) >= 2
    BY WayFacts
  <2>2. Passed(next, 0)
    BY DEF Passed
  <2> QED BY <1>3, <2>1, <2>2 DEF WayOK
<1>5. requests'[r] = next /\ \A q \in Requests : q # r => requests'[q] = requests[q]
  BY <1>1 DEF WayInv, GInv, GatewayShape, next
<1>6. r \notin Counting /\ Counting' = Counting \cup {r}
  BY <1>2, <1>3, <1>5 DEF Counting, RequestAt
<1>7. /\ IsFiniteSet(Counting') /\ Cardinality(Counting') = Cardinality(Counting) + 1
      /\ Cardinality(Counting) \in Nat
  BY <1>6, FS_AddElement, FS_CardinalityType DEF WayInv, ArrivalsCounted
<1>8. /\ MaxArrivals \in Nat /\ \A k \in Clients : hits[k].count \in Nat
  BY GatewayAssumption DEF WayInv, GInv, GatewayShape
<1>9. ArrivalsCounted'
  BY <1>2, <1>7, <1>8 DEF WayInv, ArrivalsCounted, MoreFaults
<1> QED BY <1>1, <1>2, <1>4, <1>9, OneGoes DEF next

LEMMA WayStep ==
  ASSUME WayInv, [GatewayNext]_gatewayVars
  PROVE  WayInv'
<1>0. GInv' /\ MoreFaults /\ \A k \in Clients : hits[k].count \in Nat
  BY GatewayStep, FaultsGrow DEF WayInv, GInv, GatewayShape
<1>1. CASE UNCHANGED gatewayVars
  BY <1>0, <1>1 DEF gatewayVars, limitVars, WayInv, ArrivalsCounted, Counting, RequestAt, WayOK
<1>2. ASSUME NEW r \in Requests,
             Arrive(r) \/ Increment(r) \/ IncrementFails(r) \/ Expire(r) \/ ReadSwitch(r)
               \/ PassExempt(r) \/ Forward(r) \/ SetConfig(r) \/ Answer(r)
      PROVE  WayInv'
  BY <1>0, <1>2, ArriveWay, GoingWay, IncrementFailsWay, ReadWay, SetConfigWay, AnswerWay
<1>3. ASSUME NEW k0 \in Clients, EndWindow(k0) PROVE WayInv'
  <2>1. /\ hits' = [hits EXCEPT ![k0] = NoCounter]
        /\ requests' = requests /\ off' = off /\ arrivals' = arrivals
    BY <1>3 DEF EndWindow, SameSwitches
  <2>2. \A k \in Clients : hits'[k].count <= hits[k].count
    BY <1>0, <2>1 DEF WayInv, GInv, GatewayShape, NoCounter
  <2>3. Counting' = Counting
    BY <2>1 DEF Counting, RequestAt
  <2>4. ArrivalsCounted'
    BY <1>0, <2>1, <2>2, <2>3, ArrivalsStay DEF WayInv
  <2> QED BY <1>0, <2>1, <2>4 DEF WayInv, WayOK
<1>4. CASE Restart
  <2>1. /\ requests' = [r \in Requests |-> NoRequest]
        /\ hits' = hits /\ off' = off /\ arrivals' = arrivals
    BY <1>4 DEF Restart, SameSwitches
  <2>2. Counting' \subseteq Counting
    BY <2>1 DEF Counting, RequestAt, NoRequest
  <2>3. ArrivalsCounted'
    BY <1>0, <2>1, <2>2, ArrivalsStay DEF WayInv
  <2> QED BY <1>0, <2>1, <2>3 DEF WayInv
<1> QED BY <1>1, <1>2, <1>3, <1>4 DEF GatewayNext

\* The maintenance switches (maintenance.go, MaintenanceMode; admin_routes.go,
\* PUT /admin/config), for every number of requests, administrators, switches
\* and faults: what is answered was not switched off all the time since it
\* came, unless a read failed; what is refused met a switch that was off; and
\* the configuration and the login of an administrator are never refused.
THEOREM SwitchesAreKept == GatewaySpec => []SwitchesHold
<1>1. GatewayInit => WayInv
  <2> SUFFICES ASSUME GatewayInit PROVE WayInv
    OBVIOUS
  <2>1. GInv /\ \A r \in Requests : requests[r] = NoRequest
    BY GatewayStart DEF GatewayInit
  <2>2. Counting = {}
    BY <2>1 DEF Counting, RequestAt, NoRequest
  <2>3. IsFiniteSet(Counting) /\ Cardinality(Counting) = 0
    BY <2>2, FS_EmptySet
  <2>4. ArrivalsCounted
    BY <2>3, GatewayAssumption DEF ArrivalsCounted, GatewayInit, NoCounter
  <2> QED BY <2>1, <2>4 DEF WayInv
<1>2. WayInv /\ [GatewayNext]_gatewayVars => WayInv'
  BY WayStep
<1>3. WayInv => SwitchesHold
  <2> SUFFICES ASSUME WayInv PROVE SwitchesHold
    OBVIOUS
  <2>1. \A r \in Requests : requests[r] # NoRequest =>
          requests[r] \in RequestRecords /\ WayOK(requests[r]) /\ requests[r].path \in Paths
    BY DEF WayInv, GInv, GatewayShape, RequestRecords
  <2>2. GatewayTypeOK
    <3>1. \A k \in Clients :
            /\ hits[k] \in [count : Nat, expires : BOOLEAN]
            /\ hits[k].count + Cardinality(Counting) <= arrivals + redisFaults
            /\ arrivals <= MaxArrivals /\ redisFaults <= MaxRedisFaults
      BY DEF WayInv, GInv, GatewayShape, ArrivalsCounted
    <3>2. /\ Cardinality(Counting) \in Nat /\ arrivals \in Nat /\ MaxArrivals \in Nat
          /\ redisFaults \in Nat /\ MaxRedisFaults \in Nat
      BY FS_CardinalityType, GatewayAssumption DEF WayInv, ArrivalsCounted
    <3>3. \A k \in Clients : hits[k].count \in 0 .. MaxArrivals + MaxRedisFaults
      BY <3>1, <3>2
    <3>4. hits \in [Clients -> [count : 0 .. MaxArrivals + MaxRedisFaults, expires : BOOLEAN]]
      BY <3>1, <3>3 DEF WayInv, GInv, GatewayShape
    <3>5. ASSUME NEW r \in Requests, requests[r] # NoRequest
          PROVE  /\ requests[r].step \in {"count", "expire", "switches", "forward", "set"} \cup Answered
                 /\ requests[r].stage <= Len(Stages(requests[r].path)) + 1
      <4>1. Len(Stages(requests[r].path)) \in Nat
        BY <2>1, <3>5, WayFacts
      <4> QED BY <2>1, <3>5, <4>1 DEF RequestRecords, Steps, WayOK
    <3> QED BY <3>4, <3>5 DEF GatewayTypeOK, WayInv, GInv, GatewayShape
  <2>3. ASSUME NEW r \in Requests, requests[r].step \in {"served", "unavailable", "set"}
        PROVE  \/ requests[r].blind \/ Exempt(requests[r].path)
               \/ Counted(requests[r]) \cap requests[r].offSince = {}
    <3> DEFINE x == requests[r]
               n == Len(Stages(x.path))
    <3>1. WayOK(x) /\ x.path \in Paths
      BY <2>1, <2>3 DEF NoRequest
    <3>2. /\ n \in Nat /\ n >= 2
          /\ x.path.module # "none" =>
               /\ Stages(x.path)[n - 1] = x.path.module
               /\ Stages(x.path)[n] = getSubRouteKey(x.path.module, x.path)
      BY <3>1, WayFacts
    <3>3. x.blind \/ Exempt(x.path) \/ Passed(x, n)
      BY <2>3, <3>1 DEF WayOK
    <3>4. n - 1 \in 1 .. n /\ n \in 1 .. n
      BY <3>2
    <3>5. x.path.module = "none" => getSubRouteKey(x.path.module, x.path) = ""
      BY DEF getSubRouteKey, SubRoutes
    <3> HIDE DEF n, x
    <3>6. x.blind \/ Exempt(x.path) \/ Counted(x) \cap x.offSince = {}
      BY <3>2, <3>3, <3>4, <3>5 DEF Counted, Passed
    <3> QED BY <3>6 DEF x
  <2>4. ASSUME NEW r \in Requests, RequestAt(r, "maintenance")
        PROVE  /\ \E i \in 1 .. requests[r].stage :
                    Stages(requests[r].path)[i] \in requests[r].offEver
               /\ requests[r].path.name \notin {"read config", "set config", "admin login"}
    <3>1. /\ WayOK(requests[r]) /\ requests[r].path \in Paths
          /\ requests[r].step = "maintenance"
      BY <2>1, <2>4 DEF NoRequest, RequestAt
    <3>2. requests[r].stage \in 1 .. requests[r].stage
      <4>1. Len(Stages(requests[r].path)) \in Nat
        BY <3>1, WayFacts
      <4> QED BY <3>1, <4>1 DEF WayOK
    <3>3. PathOK(requests[r].path)
      BY <3>1, PathFacts
    <3> QED BY <3>1, <3>2, <3>3 DEF WayOK, PathOK, Rescue
  <2> QED BY <2>2, <2>3, <2>4 DEF SwitchesHold
<1> QED BY <1>1, <1>2, <1>3, PTL DEF GatewaySpec

-----------------------------------------------------------------------------
(* Pushes: what is stored of an event, and to which devices it goes. *)

HandlerSteps ==
  {"insert", "preference", "list", "send", "deactivate", "sent", "failed", "dropped", "mark"}
Sending == {"send", "deactivate", "sent", "failed", "dropped"}
Whos == {RequireRecipient(o) : o \in Owners}
DeviceRows == [who : Whos, device : Phones, token : PushTokens, active : BOOLEAN]
Mail == [event : {e.event : e \in Envelopes}, who : {e.who : e \in Envelopes},
         category : Categories, status : {"pending", "sent"}, read : BOOLEAN]
Fresh == {m \in Mail : m.status = "pending" /\ ~ m.read}
Pushes == [event : {e.event : e \in Envelopes}, who : {e.who : e \in Envelopes},
           token : PushTokens]
HandlerRecords ==
  [step : HandlerSteps, message : Fresh, left : SUBSET DeviceRows, row : DeviceRows \cup {NoRow}]

NotificationShape ==
  /\ phones \in [Phones -> Seq(PushTokens)]
  /\ \A p \in Phones : phones[p] # <<>>
  /\ devices \subseteq DeviceRows /\ inbox \subseteq Mail
  /\ preferences \subseteq [who : Whos, category : Categories, enabled : BOOLEAN]
  /\ handlers \in [Consumers -> HandlerRecords \cup {Resting}]
  /\ \A c \in Consumers :
       handlers[c].step \in {"deactivate", "sent", "failed", "dropped"} =>
         handlers[c].row \in DeviceRows
  /\ steady \subseteq [message : Fresh, row : DeviceRows] /\ tried \subseteq Pushes
  /\ revoked \subseteq DeviceRows /\ refused \subseteq DeviceRows /\ overtaken \subseteq DeviceRows
  /\ pushFaults \in 0..MaxPushFaults /\ deviceCalls \in 0..MaxDeviceCalls
  /\ twice \in BOOLEAN

\* Every token of a row is, or was, the token of some phone.
Had(token) == \E p \in Phones : \E i \in DOMAIN phones[p] : phones[p][i] = token
DeviceInv ==
  /\ \A d, e \in devices : d.token = e.token \/ SameDevice(d, e) => d = e
  /\ \A d \in devices : Had(d.token)
  /\ \A d \in devices :
       Live(d.token) /\ ~ d.active =>
         \E x \in revoked \cup refused \cup overtaken : SameDevice(d, x)

Works(c) == handlers[c].step \in HandlerSteps \ {"insert"}
IsStored(event, who) == \E m \in inbox : m.event = event /\ m.who = who

MailInv ==
  /\ \A m, n \in inbox : SameMessage(m, n) => m = n
  /\ \A p, q \in preferences : p.who = q.who /\ p.category = q.category => p = q
  /\ \A c \in Consumers : Works(c) => \E m \in inbox : AsStored(m) = handlers[c].message
  /\ \A b, c \in Consumers :
       Works(b) /\ Works(c) /\ handlers[b].message = handlers[c].message => b = c
  /\ \A t \in tried : IsStored(t.event, t.who)
  /\ \A s \in steady : s.row \in devices /\ s.row.active /\ s.row.who = s.message.who

\* What a handler that has stored its message relies on.
Relies(c) ==
  LET h == handlers[c]  m == handlers[c].message IN
  /\ h.step \in {"preference", "list"} => TriedFor(m) = {}
  /\ h.step \in Sending => \A d, e \in h.left :
       /\ [event |-> m.event, who |-> m.who, token |-> d.token] \notin tried
       /\ d.token = e.token => d = e
  /\ m \notin switched =>
       /\ h.step \in Sending \cup {"list"} => GetPreference(preferences, m.who, m.category)
       /\ h.step = "mark" => ~ GetPreference(preferences, m.who, m.category)
       /\ h.step \in Sending => \A s \in steady : s.message = m =>
            s.row \in h.left \/ \E t \in TriedFor(m) : t.token = s.row.token
PushInv == \A c \in Consumers : Works(c) => Relies(c)

NInv == NotificationShape /\ DeviceInv /\ MailInv /\ PushInv /\ PushesHold

-----------------------------------------------------------------------------
LEMMA Working ==
  ASSUME NotificationShape, NEW c \in Consumers
  PROVE  /\ Works(c) <=> ~ HandlerAt(c, "idle") /\ ~ HandlerAt(c, "insert")
         /\ ~ HandlerAt(c, "idle") => handlers[c] \in HandlerRecords
         /\ Works(c) => handlers[c] \in HandlerRecords
BY DEF NotificationShape, Works, HandlerAt, HandlerRecords, HandlerSteps, Resting

LEMMA WorkingNext ==
  ASSUME NotificationShape', NEW c \in Consumers
  PROVE  /\ Works(c)' <=> ~ HandlerAt(c, "idle")' /\ ~ HandlerAt(c, "insert")'
         /\ Works(c)' => handlers'[c] \in HandlerRecords
BY DEF NotificationShape, Works, HandlerAt, HandlerRecords, HandlerSteps, Resting

LEMMA MailFacts ==
  ASSUME NEW m \in Mail
  PROVE  /\ AsStored(m) \in Fresh /\ AsStored(m).event = m.event /\ AsStored(m).who = m.who
         /\ AsStored(m).category = m.category
         /\ m \in Fresh => AsStored(m) = m
BY DEF Mail, Fresh, AsStored

\* What the invariant says of the tables, when they stay as they are.
LEMMA HandlersMove ==
  ASSUME NInv, NotificationShape', NEW c \in Consumers,
         UNCHANGED <<inbox, devices, preferences, tried, twice, steady, switched, revoked, refused,
                     overtaken, phones>>,
         gaveUp \subseteq gaveUp',
         \A b \in Consumers : b # c => handlers'[b] = handlers[b],
         Works(c)' => Works(c) /\ handlers'[c].message = handlers[c].message /\ Relies(c)',
         Works(c) => Works(c)' \/ handlers[c].message \in gaveUp'
  PROVE  NInv'
<1>1. DeviceInv'
  BY DEF NInv, DeviceInv, Had, Live
<1>2. MailInv'
  BY DEF NInv, MailInv, Works, IsStored
<1>3. PushInv'
  <2>1. ASSUME NEW b \in Consumers, b # c, Works(b)' PROVE Relies(b)'
    BY <2>1 DEF NInv, PushInv, Works, Relies, TriedFor
  <2> QED BY <2>1 DEF PushInv
<1>4. PushesHold'
  <2>1. PushedOnce' /\ SentMeansTried'
    BY DEF NInv, PushesHold, PushedOnce, SentMeansTried, TriedFor
  <2>2. ASSUME NEW m \in inbox, AtWork(m) PROVE AtWork(m)' \/ AsStored(m) \in gaveUp'
    <3>1. PICK b \in Consumers : Works(b) /\ handlers[b].message = AsStored(m)
      BY <2>2, Working DEF AtWork, NInv
    <3>2. CASE b # c
      BY <3>1, <3>2, Working DEF NInv, AtWork, HandlerAt
    <3>3. CASE b = c
      BY <3>1, <3>3, WorkingNext DEF AtWork, HandlerAt
    <3> QED BY <3>2, <3>3
  <2>3. NoneForgotten'
    BY <2>2 DEF NInv, PushesHold, NoneForgotten
  <2> QED BY <2>1, <2>3 DEF PushesHold
<1> QED BY <1>1, <1>2, <1>3, <1>4 DEF NInv

LEMMA NotificationStart == NotificationInit => NInv
<1> SUFFICES ASSUME NotificationInit PROVE NInv
  OBVIOUS
<1>0. PICK known \in SUBSET (Owners \X Phones) :
        /\ \A x, y \in known : x[2] = y[2] => x = y
        /\ devices = {DeviceToken(RequireRecipient(x[1]), x[2], phones[x[2]][1]) : x \in known}
  BY DEF NotificationInit
<1>1. /\ phones \in [Phones -> {<<t>> : t \in PushTokens}]
      /\ \A p, q \in Phones : phones[p] = phones[q] => p = q
  BY DEF NotificationInit
<1>2. \A p \in Phones : /\ phones[p] \in Seq(PushTokens) /\ Len(phones[p]) = 1
                        /\ phones[p] = <<phones[p][1]>> /\ phones[p][1] \in PushTokens
                        /\ 1 \in DOMAIN phones[p]
  <2> TAKE p \in Phones
  <2>1. PICK t \in PushTokens : phones[p] = <<t>>
    BY <1>1
  <2> QED BY <2>1
<1>3. phones \in [Phones -> Seq(PushTokens)] /\ \A p \in Phones : phones[p] # <<>>
  BY <1>1, <1>2
<1>4. \A d \in devices : \E x \in known :
        /\ x[1] \in Owners /\ x[2] \in Phones
        /\ d = DeviceToken(RequireRecipient(x[1]), x[2], phones[x[2]][1])
  BY <1>0
<1>5. devices \subseteq DeviceRows
  <2>1. ASSUME NEW o \in Owners, NEW p \in Phones
        PROVE  DeviceToken(RequireRecipient(o), p, phones[p][1]) \in DeviceRows
    <3>1. RequireRecipient(o) \in Whos
      BY DEF Whos
    <3> QED BY <1>2, <3>1 DEF DeviceRows, DeviceToken
  <2> QED BY <1>4, <2>1
<1>6. NotificationShape
  <2>1. pushFaults \in 0..MaxPushFaults /\ deviceCalls \in 0..MaxDeviceCalls
    BY NotificationAssumption DEF NotificationInit
  <2>2. handlers \in [Consumers -> HandlerRecords \cup {Resting}]
    BY DEF NotificationInit
  <2>3. \A c \in Consumers : handlers[c].step = "idle"
    BY DEF NotificationInit, Resting
  <2> QED BY <1>3, <1>5, <2>1, <2>2, <2>3 DEF NotificationInit, NotificationShape
<1>7. DeviceInv
  <2>1. ASSUME NEW d \in devices, NEW e \in devices, d.token = e.token \/ SameDevice(d, e)
        PROVE  d = e
    <3>1. PICK x \in known : /\ x[1] \in Owners /\ x[2] \in Phones
                 /\ d = DeviceToken(RequireRecipient(x[1]), x[2], phones[x[2]][1])
      BY <1>4
    <3>2. PICK y \in known : /\ y[1] \in Owners /\ y[2] \in Phones
                 /\ e = DeviceToken(RequireRecipient(y[1]), y[2], phones[y[2]][1])
      BY <1>4
    <3>3. x[2] = y[2]
      <4>1. CASE SameDevice(d, e)
        BY <3>1, <3>2, <4>1 DEF SameDevice, DeviceToken
      <4>2. CASE d.token = e.token
        <5>1. phones[x[2]][1] = phones[y[2]][1]
          BY <3>1, <3>2, <4>2 DEF DeviceToken
        <5> QED BY <5>1, <3>1, <3>2, <1>1, <1>2
      <4> QED BY <2>1, <4>1, <4>2
    <3> QED BY <3>1, <3>2, <3>3, <1>0
  <2>2. ASSUME NEW d \in devices PROVE Had(d.token) /\ d.active
    BY <1>2, <1>4 DEF Had, DeviceToken
  <2> QED BY <2>1, <2>2 DEF DeviceInv
<1>8. MailInv /\ PushInv
  <2>1. \A c \in Consumers : ~ Works(c)
    BY DEF NotificationInit, Works, HandlerSteps, Resting
  <2> QED BY <2>1 DEF NotificationInit, MailInv, PushInv
<1>9. PushesHold
  BY DEF NotificationInit, PushesHold, PushedOnce, NoneForgotten, SentMeansTried
<1> QED BY <1>6, <1>7, <1>8, <1>9 DEF NInv

LEMMA HandleEventStep ==
  ASSUME NInv, NEW c \in Consumers, NEW e \in Envelopes, HandleEvent(c, e)
  PROVE  NInv'
<1>0. /\ HandlerAt(c, "idle")
      /\ UNCHANGED <<notificationRows, notificationGhosts, deviceCalls, pushFaults, phones>>
  BY DEF HandleEvent, SameCalls
<1> USE DEF notificationRows, notificationGhosts
<1>1. TemplateFor(e.type) # "unknown" => TemplateFor(e.type) \in Categories
  BY DEF TemplateFor, Categories
<1>2. ASSUME TemplateFor(e.type) # "unknown"
      PROVE  [Resting EXCEPT !.step = "insert",
                !.message = InboxMessage(e.event, e.who, TemplateFor(e.type))] \in HandlerRecords
  BY <1>1, <1>2 DEF Resting, HandlerRecords, HandlerSteps, InboxMessage, Fresh, Mail, NoRow
<1>3. /\ handlers' \in [Consumers -> HandlerRecords \cup {Resting}]
      /\ handlers'[c].step \in {"idle", "insert"}
      /\ \A b \in Consumers : b # c => handlers'[b] = handlers[b]
  BY <1>0, <1>2 DEF HandleEvent, NInv, NotificationShape, HandlerAt, Resting
<1>4. NotificationShape'
  BY <1>0, <1>3 DEF NInv, NotificationShape
<1>5. ~ Works(c) /\ ~ Works(c)'
  BY <1>0, <1>3 DEF Works, HandlerSteps, HandlerAt
<1> QED BY <1>0, <1>3, <1>4, <1>5, HandlersMove

\* A handler rests, or goes on with its message.
LEMMA Rests ==
  ASSUME NotificationShape, NEW c \in Consumers, Rest(c)
  PROVE  /\ handlers' \in [Consumers -> HandlerRecords \cup {Resting}]
         /\ handlers'[c] = Resting /\ ~ Works(c)'
         /\ \A b \in Consumers : b # c => handlers'[b] = handlers[b]
<1>1. /\ handlers' \in [Consumers -> HandlerRecords \cup {Resting}]
      /\ handlers'[c] = Resting
      /\ \A b \in Consumers : b # c => handlers'[b] = handlers[b]
  BY DEF NotificationShape, Rest
<1> QED BY <1>1 DEF Works, Resting, HandlerSteps

LEMMA Proceeds ==
  ASSUME NotificationShape, NEW c \in Consumers, NEW step \in HandlerSteps, Proceed(c, step),
         ~ HandlerAt(c, "idle")
  PROVE  /\ handlers' \in [Consumers -> HandlerRecords \cup {Resting}]
         /\ handlers'[c].step = step /\ handlers'[c].message = handlers[c].message
         /\ handlers'[c].left = handlers[c].left /\ handlers'[c].row = handlers[c].row
         /\ \A b \in Consumers : b # c => handlers'[b] = handlers[b]
<1>1. handlers[c] \in HandlerRecords
  BY Working
<1>2. [handlers[c] EXCEPT !.step = step] \in HandlerRecords
  BY <1>1 DEF HandlerRecords
<1> QED BY <1>1, <1>2 DEF NotificationShape, Proceed, HandlerRecords

LEMMA StoreMessageStep ==
  ASSUME NInv, NEW c \in Consumers, StoreMessage(c)
  PROVE  NInv'
<1>m. PICK m : m = handlers[c].message
  OBVIOUS
<1> DEFINE found == ListActiveTokensByRecipient(devices, m.who)
           new == {[message |-> m, row |-> d] : d \in found}
<1>0. /\ HandlerAt(c, "insert")
      /\ UNCHANGED <<devices, preferences, tried, twice, gaveUp, switched, revoked, refused,
                     overtaken, deviceCalls, pushFaults, phones>>
  BY DEF StoreMessage, SameCalls
<1>1. /\ handlers[c] \in HandlerRecords /\ ~ Works(c) /\ m \in Fresh /\ m \in Mail
      /\ m.status = "pending"
  BY <1>m, <1>0, Working DEF NInv, HandlerAt, HandlerRecords, Fresh
<1>2. CASE \E x \in inbox : SameMessage(x, m)
  <2>1. Rest(c) /\ UNCHANGED <<inbox, steady>>
    BY <1>m, <1>2 DEF StoreMessage, InsertInbox, Fail, Succeeds
  <2>2. NotificationShape'
    <3>1. handlers'[c].step = "idle"
      BY <2>1, Rests DEF NInv, Resting
    <3> QED BY <1>0, <2>1, <3>1, Rests DEF NInv, NotificationShape
  <2> QED BY <1>m, <1>0, <1>1, <2>1, <2>2, Rests, HandlersMove DEF NInv
<1>3. CASE \A x \in inbox : ~ SameMessage(x, m)
  <2>1. inbox' = inbox \cup {m} /\ Proceed(c, "preference") /\ steady' = steady \cup new
    BY <1>m, <1>3 DEF StoreMessage, InsertInbox, Ok, Succeeds
  <2>2. new \subseteq [message : Fresh, row : DeviceRows]
    BY <1>m, <1>1 DEF NInv, NotificationShape, ListActiveTokensByRecipient
  <2>3. /\ handlers' \in [Consumers -> HandlerRecords \cup {Resting}]
        /\ handlers'[c].step = "preference" /\ handlers'[c].message = m
        /\ \A b \in Consumers : b # c => handlers'[b] = handlers[b]
    BY <1>m, <2>1, <1>0, Proceeds DEF HandlerSteps, NInv, HandlerAt
  <2>4. NotificationShape'
    BY <1>m, <1>0, <1>1, <2>1, <2>2, <2>3 DEF NInv, NotificationShape
  <2>5. DeviceInv'
    BY <1>m, <1>0 DEF NInv, DeviceInv, Had, Live
  <2>6. AsStored(m) = m
    BY <1>m, <1>1, MailFacts
  <2>7. ASSUME NEW t \in tried PROVE ~ (t.event = m.event /\ t.who = m.who)
    BY <1>m, <1>3, <2>7 DEF NInv, MailInv, IsStored, SameMessage
  <2>8. MailInv'
    <3>1. \A x, y \in inbox' : SameMessage(x, y) => x = y
      BY <1>m, <1>3, <2>1 DEF NInv, MailInv, SameMessage
    <3>2. ASSUME NEW b \in Consumers, Works(b)'
          PROVE  \E x \in inbox' : AsStored(x) = handlers'[b].message
      BY <1>m, <2>1, <2>3, <2>6, <3>2 DEF NInv, MailInv, Works
    <3>3. ASSUME NEW b \in Consumers, b # c, Works(b) PROVE handlers[b].message # m
      <4>1. PICK x \in inbox : AsStored(x) = handlers[b].message
        BY <1>m, <3>3 DEF NInv, MailInv
      <4> QED BY <1>m, <4>1, <1>3, MailFacts DEF NInv, NotificationShape, SameMessage
    <3>4. \A a, b \in Consumers :
            Works(a)' /\ Works(b)' /\ handlers'[a].message = handlers'[b].message => a = b
      BY <1>m, <2>3, <3>3 DEF NInv, MailInv, Works
    <3>5. \A t \in tried' : IsStored(t.event, t.who)'
      BY <1>m, <1>0, <2>1 DEF NInv, MailInv, IsStored
    <3>6. \A s \in steady' : s.row \in devices' /\ s.row.active /\ s.row.who = s.message.who
      BY <1>m, <1>0, <2>1 DEF NInv, MailInv, ListActiveTokensByRecipient
    <3> QED BY <1>m, <1>0, <3>1, <3>2, <3>4, <3>5, <3>6 DEF NInv, MailInv
  <2>9. PushInv'
    <3>1. ASSUME NEW b \in Consumers, b # c, Works(b)' PROVE Relies(b)'
      <4>1. Works(b) /\ Relies(b) /\ handlers'[b] = handlers[b]
        BY <1>m, <2>3, <3>1 DEF Works, NInv, PushInv
      <4>2. handlers[b].message # m
        <5>1. PICK x \in inbox : AsStored(x) = handlers[b].message
          BY <1>m, <4>1 DEF NInv, MailInv
        <5> QED BY <1>m, <5>1, <1>3, MailFacts DEF NInv, NotificationShape, SameMessage
      <4>3. \A s \in steady' : s.message = handlers[b].message => s \in steady
        BY <1>m, <2>1, <4>2
      <4> QED BY <1>m, <1>0, <4>1, <4>3 DEF Relies, TriedFor
    <3>2. Relies(c)'
      <4>1. TriedFor(m)' = {}
        BY <1>m, <1>0, <2>7 DEF TriedFor
      <4> QED BY <1>m, <2>3, <4>1 DEF Relies, Sending
    <3> QED BY <1>m, <3>1, <3>2 DEF PushInv
  <2>10. PushesHold'
    <3>1. PushedOnce'
      BY <1>m, <1>0 DEF NInv, PushesHold, PushedOnce
    <3>2. ASSUME NEW x \in inbox, AtWork(x) PROVE AtWork(x)'
      BY <1>m, <1>0, <2>3, <3>2 DEF AtWork, HandlerAt
    <3>3. AtWork(m)'
      BY <1>m, <2>3, <2>6 DEF AtWork, HandlerAt
    <3>4. NoneForgotten'
      BY <1>m, <1>0, <2>1, <3>2, <3>3 DEF NInv, PushesHold, NoneForgotten
    <3>5. SentMeansTried'
      <4>1. TriedFor(m)' = {} /\ m.status # "sent"
        BY <1>m, <1>0, <1>1, <2>7 DEF TriedFor
      <4>2. ASSUME NEW x \in inbox PROVE AsStored(x) # m
        BY <1>m, <1>3, MailFacts DEF NInv, NotificationShape, SameMessage
      <4>3. ASSUME NEW x \in inbox, NEW s \in steady', s.message = AsStored(x) PROVE s \in steady
        BY <1>m, <2>1, <4>2, <4>3
      <4> QED BY <1>m, <1>0, <2>1, <4>1, <4>3 DEF NInv, PushesHold, SentMeansTried, TriedFor
    <3> QED BY <1>m, <3>1, <3>4, <3>5 DEF PushesHold
  <2> QED BY <1>m, <2>4, <2>5, <2>8, <2>9, <2>10 DEF NInv
<1> QED BY <1>m, <1>2, <1>3

LEMMA ReadPreferenceStep ==
  ASSUME NInv, NEW c \in Consumers, ReadPreference(c)
  PROVE  NInv'
<1>m. PICK m : m = handlers[c].message
  OBVIOUS
<1> DEFINE on == GetPreference(preferences, m.who, m.category)
           step == IF on THEN "list" ELSE "mark"
<1>0. /\ HandlerAt(c, "preference") /\ Proceed(c, step)
      /\ UNCHANGED <<notificationRows, notificationGhosts, deviceCalls, pushFaults, phones>>
  BY <1>m DEF ReadPreference, SameCalls
<1> USE DEF notificationRows, notificationGhosts
<1>1. step \in HandlerSteps /\ ~ HandlerAt(c, "idle") /\ step \in {"list", "mark"}
  BY <1>m, <1>0 DEF HandlerSteps, HandlerAt
<1> HIDE DEF step
<1>2. /\ handlers' \in [Consumers -> HandlerRecords \cup {Resting}]
      /\ handlers'[c].step = step /\ handlers'[c].message = m
      /\ \A b \in Consumers : b # c => handlers'[b] = handlers[b]
  BY <1>m, <1>0, <1>1, Proceeds DEF NInv
<1>3. NotificationShape'
  BY <1>m, <1>0, <1>1, <1>2 DEF NInv, NotificationShape
<1>4. Works(c)
  BY <1>m, <1>0 DEF Works, HandlerSteps, HandlerAt
<1>5. Works(c)'
  BY <1>m, <1>1, <1>2 DEF Works, HandlerSteps
<1>6. Relies(c)'
  <2>1. TriedFor(m) = {}
    BY <1>m, <1>0, <1>4 DEF NInv, PushInv, Relies, HandlerAt
  <2>2. TriedFor(m)' = {}
    BY <1>m, <2>1, <1>0 DEF TriedFor
  <2>3. step = "mark" => ~ on
    BY DEF step
  <2>4. step = "list" => on
    BY DEF step
  <2> QED BY <1>m, <1>0, <1>1, <1>2, <2>2, <2>3, <2>4 DEF Relies, Sending
<1> QED BY <1>m, <1>0, <1>2, <1>3, <1>4, <1>5, <1>6, HandlersMove

LEMMA ListDevicesStep ==
  ASSUME NInv, NEW c \in Consumers, ListDevices(c)
  PROVE  NInv'
<1>m. PICK m : m = handlers[c].message
  OBVIOUS
<1> DEFINE found == ListActiveTokensByRecipient(devices, m.who)
<1>0. /\ HandlerAt(c, "list")
      /\ handlers' = [handlers EXCEPT ![c] = [handlers[c] EXCEPT !.step = "send", !.left = found]]
      /\ UNCHANGED <<notificationRows, notificationGhosts, deviceCalls, pushFaults, phones>>
  BY <1>m DEF ListDevices, SameCalls
<1> USE DEF notificationRows, notificationGhosts
<1>1. handlers[c] \in HandlerRecords /\ Works(c)
  BY <1>m, <1>0, Working DEF NInv, HandlerAt
<1>2. found \subseteq DeviceRows
  BY <1>m DEF NInv, NotificationShape, ListActiveTokensByRecipient
<1>3. [handlers[c] EXCEPT !.step = "send", !.left = found] \in HandlerRecords
  BY <1>m, <1>1, <1>2 DEF HandlerRecords, HandlerSteps
<1>4. /\ handlers' \in [Consumers -> HandlerRecords \cup {Resting}]
      /\ handlers'[c].step = "send" /\ handlers'[c].message = m /\ handlers'[c].left = found
      /\ \A b \in Consumers : b # c => handlers'[b] = handlers[b]
  <2> HIDE DEF found
  <2> QED BY <1>m, <1>0, <1>1, <1>3 DEF NInv, NotificationShape, HandlerRecords
<1>5. NotificationShape'
  BY <1>m, <1>0, <1>4 DEF NInv, NotificationShape
<1>6. Works(c)'
  BY <1>m, <1>4 DEF Works, HandlerSteps
<1>7. Relies(c)'
  <2>1. TriedFor(m) = {}
    BY <1>m, <1>0, <1>1 DEF NInv, PushInv, Relies, HandlerAt
  <2>2. ASSUME NEW d \in found PROVE [event |-> m.event, who |-> m.who, token |-> d.token] \notin tried
    BY <1>m, <2>1 DEF TriedFor
  <2>3. \A d, e \in found : d.token = e.token => d = e
    BY <1>m DEF NInv, DeviceInv, ListActiveTokensByRecipient
  <2>4. \A s \in steady : s.message = m => s.row \in found
    BY <1>m DEF NInv, MailInv, ListActiveTokensByRecipient
  <2>5. m \notin switched => GetPreference(preferences, m.who, m.category)
    BY <1>m, <1>0, <1>1 DEF NInv, PushInv, Relies, HandlerAt
  <2> HIDE DEF found
  <2> QED BY <1>m, <1>0, <1>4, <2>2, <2>3, <2>4, <2>5 DEF Relies, Sending
<1> QED BY <1>m, <1>0, <1>1, <1>4, <1>5, <1>6, <1>7, HandlersMove

LEMMA DispatchStep ==
  ASSUME NInv, NEW c \in Consumers, Dispatch(c)
  PROVE  NInv'
<1>m. PICK m : m = handlers[c].message
  OBVIOUS
<1>d. PICK d \in handlers[c].left : \E answer \in Answers(d.token) :
        /\ HandlerAt(c, "send")
        /\ IF answer \in {"failed", "unauthorized"} THEN pushFaults < MaxPushFaults ELSE TRUE
        /\ pushFaults' = IF answer \in {"failed", "unauthorized"} THEN pushFaults + 1 ELSE pushFaults
        /\ handlers' = [handlers EXCEPT ![c].step = IF IsPermanent(answer) THEN "deactivate" ELSE answer,
                                        ![c].row = d, ![c].left = @ \ {d}]
        /\ tried' = tried \cup {[event |-> m.event, who |-> m.who, token |-> d.token]}
        /\ twice' = (twice \/ [event |-> m.event, who |-> m.who, token |-> d.token] \in tried)
  BY <1>m DEF Dispatch
<1>e. PICK answer \in Answers(d.token) :
        /\ HandlerAt(c, "send")
        /\ IF answer \in {"failed", "unauthorized"} THEN pushFaults < MaxPushFaults ELSE TRUE
        /\ pushFaults' = IF answer \in {"failed", "unauthorized"} THEN pushFaults + 1 ELSE pushFaults
        /\ handlers' = [handlers EXCEPT ![c].step = IF IsPermanent(answer) THEN "deactivate" ELSE answer,
                                        ![c].row = d, ![c].left = @ \ {d}]
        /\ tried' = tried \cup {[event |-> m.event, who |-> m.who, token |-> d.token]}
        /\ twice' = (twice \/ [event |-> m.event, who |-> m.who, token |-> d.token] \in tried)
  BY <1>d
<1>s. PICK step : step = IF IsPermanent(answer) THEN "deactivate" ELSE answer
  OBVIOUS
<1>p. PICK push : push = [event |-> m.event, who |-> m.who, token |-> d.token]
  OBVIOUS
<1>0. UNCHANGED <<inbox, devices, preferences, deviceCalls, phones, gaveUp, steady, switched,
                  revoked, refused, overtaken>>
  BY DEF Dispatch, notificationRows
<1>1. /\ handlers[c] \in HandlerRecords /\ Works(c) /\ m \in Fresh /\ d \in DeviceRows
  BY <1>m, <1>e, Working DEF NInv, HandlerAt, HandlerRecords
<1>2. step \in {"deactivate", "sent", "failed"}
  BY <1>e, <1>s DEF Answers, IsPermanent
<1>3. [handlers[c] EXCEPT !.step = step, !.row = d, !.left = handlers[c].left \ {d}] \in HandlerRecords
  BY <1>1, <1>2 DEF HandlerRecords, HandlerSteps
<1>4. /\ handlers' \in [Consumers -> HandlerRecords \cup {Resting}]
      /\ handlers'[c].step = step /\ handlers'[c].message = m /\ handlers'[c].row = d
      /\ handlers'[c].left = handlers[c].left \ {d}
      /\ \A b \in Consumers : b # c => handlers'[b] = handlers[b]
  BY <1>m, <1>e, <1>s, <1>1, <1>3 DEF NInv, NotificationShape, HandlerRecords
<1>5. push \notin tried
  BY <1>m, <1>e, <1>p, <1>1 DEF NInv, PushInv, Relies, HandlerAt, Sending
<1>6. /\ tried' = tried \cup {push} /\ twice' = twice
      /\ push.event = m.event /\ push.who = m.who /\ push.token = d.token
  <2>1. twice \in BOOLEAN
    BY DEF NInv, NotificationShape
  <2> QED BY <1>e, <1>p, <1>5, <2>1
<1>7. NotificationShape'
  <2>1. push \in Pushes
    BY <1>p, <1>1 DEF Pushes, Fresh, Mail, DeviceRows
  <2>2. pushFaults' \in 0..MaxPushFaults
    BY <1>e, NotificationAssumption DEF NInv, NotificationShape
  <2> QED BY <1>0, <1>1, <1>4, <1>6, <2>1, <2>2 DEF NInv, NotificationShape
<1>8. DeviceInv'
  BY <1>0 DEF NInv, DeviceInv, Had, Live
<1>9. Works(c)'
  BY <1>2, <1>4 DEF Works, HandlerSteps
<1>10. MailInv'
  <2>1. IsStored(m.event, m.who)
    <3>1. PICK x \in inbox : AsStored(x) = m
      BY <1>m, <1>1 DEF NInv, MailInv
    <3> QED BY <3>1, MailFacts DEF IsStored, NInv, NotificationShape
  <2>2. \A t \in tried' : IsStored(t.event, t.who)'
    BY <1>0, <1>6, <2>1 DEF NInv, MailInv, IsStored
  <2>3. \A b \in Consumers : Works(b)' => Works(b) /\ handlers'[b].message = handlers[b].message
    BY <1>m, <1>1, <1>4 DEF Works
  <2> QED BY <1>0, <2>2, <2>3 DEF NInv, MailInv
<1>11. PushInv'
  <2>1. ASSUME NEW b \in Consumers, b # c, Works(b)' PROVE Relies(b)'
    <3>1. Works(b) /\ Relies(b) /\ handlers'[b] = handlers[b]
      BY <1>4, <2>1 DEF Works, NInv, PushInv
    <3>2. handlers[b].message # m
      BY <1>m, <1>1, <2>1, <3>1 DEF NInv, MailInv
    <3>3. handlers[b].message \in Fresh
      BY <3>1, Working DEF NInv, HandlerRecords
    <3>4. ~ (m.event = handlers[b].message.event /\ m.who = handlers[b].message.who)
      <4>1. PICK x \in inbox : AsStored(x) = m
        BY <1>m, <1>1 DEF NInv, MailInv
      <4>2. PICK y \in inbox : AsStored(y) = handlers[b].message
        BY <3>1 DEF NInv, MailInv
      <4> QED BY <4>1, <4>2, <3>2, MailFacts DEF NInv, NotificationShape, MailInv, SameMessage
    <3>5. TriedFor(handlers[b].message)' = TriedFor(handlers[b].message)
      BY <1>6, <3>1, <3>4 DEF TriedFor
    <3>6. \A e \in handlers[b].left :
            push # [event |-> handlers[b].message.event, who |-> handlers[b].message.who,
                    token |-> e.token]
      BY <1>6, <3>4
    <3> QED BY <1>0, <1>6, <3>1, <3>5, <3>6 DEF Relies
  <2>2. Relies(c)'
    <3>1. \A e \in handlers[c].left \ {d} :
            /\ [event |-> m.event, who |-> m.who, token |-> e.token] \notin tried
            /\ e.token # d.token
      BY <1>m, <1>e, <1>1 DEF NInv, PushInv, Relies, HandlerAt, Sending
    <3>2. \A e \in handlers[c].left \ {d} :
            [event |-> m.event, who |-> m.who, token |-> e.token] \notin tried'
      BY <3>1, <1>6
    <3>3. \A e, f \in handlers[c].left : e.token = f.token => e = f
      BY <1>e, <1>1 DEF NInv, PushInv, Relies, HandlerAt, Sending
    <3>4. ASSUME m \notin switched
          PROVE  /\ GetPreference(preferences, m.who, m.category)
                 /\ \A s \in steady : s.message = m =>
                      s.row \in handlers[c].left \/ \E t \in TriedFor(m) : t.token = s.row.token
      BY <1>m, <1>e, <1>1, <3>4 DEF NInv, PushInv, Relies, HandlerAt, Sending
    <3>5. push \in tried' /\ \A t \in TriedFor(m) : t \in tried' /\ t.event = m.event /\ t.who = m.who
      BY <1>6 DEF TriedFor
    <3>6. ASSUME m \notin switched, NEW s \in steady, s.message = m
          PROVE  \/ s.row \in handlers[c].left \ {d}
                 \/ \E t \in tried' : t.event = m.event /\ t.who = m.who /\ t.token = s.row.token
      BY <1>6, <3>4, <3>5, <3>6
    <3> QED BY <1>0, <1>2, <1>4, <3>2, <3>3, <3>4, <3>6 DEF Relies, Sending, TriedFor
  <2> QED BY <2>1, <2>2 DEF PushInv
<1>12. PushesHold'
  <2>1. PushedOnce'
    BY <1>6 DEF NInv, PushesHold, PushedOnce
  <2>2. ASSUME NEW x \in inbox, AtWork(x) PROVE AtWork(x)'
    <3>1. PICK b \in Consumers : Works(b) /\ handlers[b].message = AsStored(x)
      BY <2>2, Working DEF AtWork, NInv
    <3>2. Works(b)' /\ handlers'[b].message = AsStored(x)
      BY <1>m, <1>4, <1>9, <3>1 DEF Works
    <3> QED BY <3>2, <1>7, WorkingNext DEF AtWork
  <2>3. NoneForgotten'
    BY <1>0, <2>2 DEF NInv, PushesHold, NoneForgotten
  <2>4. ASSUME NEW x \in inbox, AsStored(x) \notin switched
        PROVE  IF GetPreference(preferences, x.who, x.category)
               THEN x.status = "sent" =>
                      \A s \in steady : s.message = AsStored(x) =>
                        \E t \in tried' : /\ t.event = x.event /\ t.who = x.who
                                          /\ t.token = s.row.token
               ELSE \A t \in tried' : ~ (t.event = x.event /\ t.who = x.who)
    <3>1. CASE GetPreference(preferences, x.who, x.category)
      <4>1. tried \subseteq tried'
        BY <1>6
      <4> QED BY <2>4, <3>1, <4>1 DEF NInv, PushesHold, SentMeansTried, TriedFor
    <3>2. CASE ~ GetPreference(preferences, x.who, x.category)
      <4>1. TriedFor(x) = {}
        BY <2>4, <3>2 DEF NInv, PushesHold, SentMeansTried
      <4>2. ASSUME x.event = m.event, x.who = m.who PROVE FALSE
        <5>1. PICK y \in inbox : AsStored(y) = m
          BY <1>m, <1>1 DEF NInv, MailInv
        <5>2. x = y
          BY <5>1, <4>2, MailFacts DEF NInv, NotificationShape, MailInv, SameMessage
        <5>3. GetPreference(preferences, m.who, m.category)
          BY <1>m, <1>e, <1>1, <2>4, <5>1, <5>2 DEF NInv, PushInv, Relies, HandlerAt, Sending
        <5>4. m.category = x.category
          BY <5>1, <5>2, MailFacts DEF NInv, NotificationShape
        <5> QED BY <5>3, <5>4, <3>2, <4>2
      <4> QED BY <1>6, <3>2, <4>1, <4>2 DEF TriedFor
    <3> QED BY <3>1, <3>2
  <2>5. SentMeansTried'
    BY <1>0, <2>4 DEF SentMeansTried, TriedFor
  <2> QED BY <2>1, <2>3, <2>5 DEF PushesHold
<1> QED BY <1>7, <1>8, <1>10, <1>11, <1>12 DEF NInv

LEMMA WriteLogStep ==
  ASSUME NInv, NEW c \in Consumers, WriteLog(c)
  PROVE  NInv'
<1>0. /\ handlers[c].step \in {"sent", "failed", "dropped"}
      /\ handlers' = [handlers EXCEPT ![c] = [handlers[c] EXCEPT !.step = "send", !.row = NoRow]]
      /\ UNCHANGED <<inbox, devices, preferences, deviceCalls, phones, notificationGhosts>>
      /\ pushFaults' = pushFaults \/ (pushFaults < MaxPushFaults /\ pushFaults' = pushFaults + 1)
  BY DEF WriteLog
<1> USE DEF notificationGhosts
<1>1. Works(c) /\ handlers[c] \in HandlerRecords
  <2>1. Works(c)
    BY <1>0 DEF Works, HandlerSteps
  <2> QED BY <2>1, Working DEF NInv
<1>2. [handlers[c] EXCEPT !.step = "send", !.row = NoRow] \in HandlerRecords
  BY <1>1 DEF HandlerRecords, HandlerSteps
<1>3. /\ handlers' \in [Consumers -> HandlerRecords \cup {Resting}]
      /\ handlers'[c].step = "send" /\ handlers'[c].message = handlers[c].message
      /\ handlers'[c].left = handlers[c].left
      /\ \A b \in Consumers : b # c => handlers'[b] = handlers[b]
  BY <1>0, <1>1, <1>2 DEF NInv, NotificationShape, HandlerRecords
<1>4. NotificationShape'
  <2>1. pushFaults' \in 0..MaxPushFaults
    BY <1>0, NotificationAssumption DEF NInv, NotificationShape
  <2> QED BY <1>0, <1>3, <2>1 DEF NInv, NotificationShape
<1>5. Works(c)'
  BY <1>3 DEF Works, HandlerSteps
<1>6. Relies(c)'
  <2>1. Relies(c)
    BY <1>1 DEF NInv, PushInv
  <2> QED BY <1>0, <1>3, <2>1 DEF Relies, Sending, TriedFor
<1> QED BY <1>0, <1>1, <1>3, <1>4, <1>5, <1>6, HandlersMove

LEMMA GiveUpStep ==
  ASSUME NInv, NEW c \in Consumers, GiveUp(c)
  PROVE  NInv'
<1>0. /\ Rest(c) /\ gaveUp' = gaveUp \cup {handlers[c].message}
      /\ pushFaults < MaxPushFaults /\ pushFaults' = pushFaults + 1
      /\ UNCHANGED <<inbox, devices, preferences, deviceCalls, phones, tried, twice, steady,
                     switched, revoked, refused, overtaken>>
  BY DEF GiveUp, notificationRows
<1>1. NotificationShape'
  <2>1. pushFaults' \in 0..MaxPushFaults
    BY <1>0, NotificationAssumption DEF NInv, NotificationShape
  <2>2. handlers'[c].step = "idle"
    BY <1>0, Rests DEF NInv, Resting
  <2> QED BY <1>0, <2>1, <2>2, Rests DEF NInv, NotificationShape
<1> QED BY <1>0, <1>1, Rests, HandlersMove DEF NInv

\* A row of the inbox changes its status or is read.
LEMMA InboxRewritten ==
  ASSUME NInv, NotificationShape',
         \A m \in inbox : \E n \in inbox' : AsStored(n) = AsStored(m),
         \A n \in inbox' : \E m \in inbox :
           /\ AsStored(n) = AsStored(m)
           /\ n.status = "pending" => m.status = "pending" /\ (AtWork(m) => AtWork(m)')
           /\ n.status = "sent" /\ m.status # "sent" => \E c \in Consumers :
                /\ Works(c) /\ handlers[c].message = AsStored(m)
                /\ handlers[c].step # "mark" => handlers[c].step = "send" /\ handlers[c].left = {},
         \A b \in Consumers : Works(b)' => Works(b) /\ handlers'[b] = handlers[b],
         \A n, o \in inbox' : SameMessage(n, o) => n = o,
         UNCHANGED <<devices, preferences, tried, twice, gaveUp, steady, switched, revoked, refused,
                     overtaken, phones>>
  PROVE  NInv'
<1>1. DeviceInv'
  BY DEF NInv, DeviceInv, Had, Live
<1>2. \A m \in inbox \cup inbox' : m \in Mail
  BY DEF NInv, NotificationShape
<1>3. MailInv'
  <2>1. ASSUME NEW t \in tried PROVE IsStored(t.event, t.who)'
    <3>1. PICK m \in inbox : m.event = t.event /\ m.who = t.who
      BY <2>1 DEF NInv, MailInv, IsStored
    <3>2. PICK n \in inbox' : AsStored(n) = AsStored(m)
      BY <3>1
    <3> QED BY <1>2, <3>1, <3>2, MailFacts DEF IsStored
  <2>2. \A c \in Consumers : Works(c)' => \E m \in inbox' : AsStored(m) = handlers'[c].message
    BY DEF NInv, MailInv
  <2>3. \A b, c \in Consumers :
          Works(b)' /\ Works(c)' /\ handlers'[b].message = handlers'[c].message => b = c
    BY DEF NInv, MailInv
  <2> QED BY <2>1, <2>2, <2>3 DEF NInv, MailInv
<1>4. PushInv'
  BY DEF NInv, PushInv, Relies, TriedFor
<1>5. PushesHold'
  <2>1. PushedOnce'
    BY DEF NInv, PushesHold, PushedOnce
  <2>2. ASSUME NEW n \in inbox', n.status = "pending" PROVE AtWork(n)' \/ AsStored(n) \in gaveUp'
    <3>1. PICK m \in inbox : /\ AsStored(n) = AsStored(m)
                            /\ m.status = "pending" /\ (AtWork(m) => AtWork(m)')
      BY <2>2
    <3> QED BY <3>1 DEF NInv, PushesHold, NoneForgotten, AtWork
  <2>3. ASSUME NEW n \in inbox', AsStored(n) \notin switched
        PROVE  IF GetPreference(preferences, n.who, n.category)
               THEN n.status = "sent" =>
                      \A s \in steady : s.message = AsStored(n) =>
                        \E t \in TriedFor(n) : t.token = s.row.token
               ELSE TriedFor(n) = {}
    <3>1. PICK m \in inbox :
             /\ AsStored(n) = AsStored(m)
             /\ n.status = "sent" /\ m.status # "sent" => \E c \in Consumers :
                /\ Works(c) /\ handlers[c].message = AsStored(m)
                /\ handlers[c].step # "mark" => handlers[c].step = "send" /\ handlers[c].left = {}
      OBVIOUS
    <3>2. n.who = m.who /\ n.category = m.category /\ n.event = m.event
      BY <3>1, <1>2, MailFacts
    <3>3. TriedFor(n) = TriedFor(m) /\ TriedFor(AsStored(m)) = TriedFor(m)
      BY <3>2, <1>2, MailFacts DEF TriedFor
    <3>4. CASE n.status = "sent" /\ m.status # "sent"
      <4>1. PICK c \in Consumers :
                /\ Works(c) /\ handlers[c].message = AsStored(m)
                /\ handlers[c].step # "mark" => handlers[c].step = "send" /\ handlers[c].left = {}
        BY <3>1, <3>4
      <4>2. Relies(c)
        BY <4>1 DEF NInv, PushInv
      <4>3. CASE handlers[c].step = "mark"
        <5>1. ~ GetPreference(preferences, n.who, n.category)
          BY <2>3, <3>1, <3>2, <4>1, <4>2, <4>3, <1>2, MailFacts DEF Relies
        <5> QED BY <5>1, <2>3, <3>1, <3>2, <3>3 DEF NInv, PushesHold, SentMeansTried
      <4>4. CASE handlers[c].step = "send" /\ handlers[c].left = {}
        <5>1. GetPreference(preferences, n.who, n.category)
          BY <2>3, <3>1, <3>2, <4>1, <4>2, <4>4, <1>2, MailFacts DEF Relies, Sending
        <5>2. \A s \in steady : s.message = AsStored(n) =>
                \E t \in TriedFor(AsStored(m)) : t.token = s.row.token
          BY <2>3, <3>1, <4>1, <4>2, <4>4 DEF Relies, Sending
        <5> QED BY <5>1, <5>2, <3>3
      <4> QED BY <4>1, <4>3, <4>4
    <3>5. CASE ~ (n.status = "sent" /\ m.status # "sent")
      BY <2>3, <3>1, <3>2, <3>3, <3>5 DEF NInv, PushesHold, SentMeansTried
    <3> QED BY <3>4, <3>5
  <2>4. NoneForgotten'
    BY <2>2 DEF NoneForgotten
  <2>5. SentMeansTried'
    BY <2>3 DEF SentMeansTried, TriedFor
  <2> QED BY <2>1, <2>4, <2>5 DEF PushesHold
<1> QED BY <1>1, <1>3, <1>4, <1>5 DEF NInv

LEMMA MarkSentStep ==
  ASSUME NInv, NEW c \in Consumers, MarkSent(c)
  PROVE  NInv'
<1>m. PICK m : m = handlers[c].message
  OBVIOUS
<1>0. /\ HandlerAt(c, "mark") \/ (HandlerAt(c, "send") /\ handlers[c].left = {})
      /\ inbox' = MarkInboxSent(inbox, m) /\ Rest(c)
      /\ UNCHANGED <<devices, preferences, notificationGhosts, deviceCalls, pushFaults, phones>>
  BY <1>m DEF MarkSent, SameCalls
<1> USE DEF notificationGhosts
<1>1. Works(c) /\ m \in Fresh /\ m \in Mail
  <2>1. Works(c)
    BY <1>0 DEF Works, HandlerSteps, HandlerAt
  <2> QED BY <2>1, <1>m, Working DEF NInv, HandlerRecords, Fresh
<1>2. \A x \in Mail : /\ [x EXCEPT !.status = "sent"] \in Mail
                      /\ [x EXCEPT !.status = "sent"].status = "sent"
                      /\ AsStored([x EXCEPT !.status = "sent"]) = AsStored(x)
                      /\ SameMessage([x EXCEPT !.status = "sent"], m) <=> SameMessage(x, m)
  BY DEF Mail, AsStored, SameMessage
<1>3. \A x \in inbox : x \in Mail
  BY DEF NInv, NotificationShape
<1>4. \A n \in inbox' : \E x \in inbox :
        n = IF SameMessage(x, m) THEN [x EXCEPT !.status = "sent"] ELSE x
  BY <1>0 DEF MarkInboxSent
<1>5. \A x \in inbox :
        (IF SameMessage(x, m) THEN [x EXCEPT !.status = "sent"] ELSE x) \in inbox'
  BY <1>0 DEF MarkInboxSent
<1>6. NotificationShape'
  <2>1. inbox' \subseteq Mail
    BY <1>2, <1>3, <1>4
  <2>2. handlers'[c].step = "idle"
    BY <1>0, Rests DEF NInv, Resting
  <2> QED BY <1>0, <2>1, <2>2, Rests DEF NInv, NotificationShape
<1>7. \A b \in Consumers : Works(b)' => Works(b) /\ handlers'[b] = handlers[b]
  BY <1>0, Rests DEF NInv, Works
<1>8. \A x \in inbox : SameMessage(x, m) => AsStored(x) = m
  <2>1. PICK y \in inbox : AsStored(y) = m
    BY <1>m, <1>1 DEF NInv, MailInv
  <2> QED BY <2>1, <1>3, MailFacts DEF NInv, MailInv, SameMessage
<1>9. ASSUME NEW n \in inbox'
      PROVE  \E x \in inbox :
           /\ AsStored(n) = AsStored(x)
           /\ n.status = "pending" => x.status = "pending" /\ (AtWork(x) => AtWork(x)')
           /\ n.status = "sent" /\ x.status # "sent" => \E b \in Consumers :
                /\ Works(b) /\ handlers[b].message = AsStored(x)
                /\ handlers[b].step # "mark" => handlers[b].step = "send" /\ handlers[b].left = {}
  <2>1. PICK x \in inbox : n = IF SameMessage(x, m) THEN [x EXCEPT !.status = "sent"] ELSE x
    BY <1>4
  <2>2. AsStored(n) = AsStored(x)
    BY <1>2, <1>3, <2>1
  <2>3. CASE SameMessage(x, m)
    BY <1>m, <1>0, <1>1, <1>2, <1>3, <1>8, <2>1, <2>2, <2>3 DEF HandlerAt
  <2>4. CASE ~ SameMessage(x, m)
    <3>1. n = x
      BY <2>1, <2>4
    <3>2. ASSUME AtWork(x) PROVE AtWork(x)'
      <4>1. PICK b \in Consumers : /\ ~ HandlerAt(b, "idle") /\ ~ HandlerAt(b, "insert")
                                  /\ handlers[b].message = AsStored(x)
        BY <3>2 DEF AtWork
      <4>2. b # c
        BY <1>m, <1>3, <2>4, <4>1, MailFacts DEF SameMessage
      <4>3. handlers'[b] = handlers[b]
        BY <1>0, <4>2, Rests DEF NInv
      <4> QED BY <4>1, <4>3 DEF AtWork, HandlerAt
    <3> QED BY <3>1, <3>2
  <2> QED BY <2>3, <2>4
<1>10. \A x \in inbox : \E n \in inbox' : AsStored(n) = AsStored(x)
  BY <1>2, <1>3, <1>5
<1>11. \A n, o \in inbox' : SameMessage(n, o) => n = o
  <2>1. \A x, y \in Mail : AsStored(x) = AsStored(y) => SameMessage(x, y)
    BY DEF Mail, AsStored, SameMessage
  <2> TAKE n, o \in inbox'
  <2>2. PICK x \in inbox : n = IF SameMessage(x, m) THEN [x EXCEPT !.status = "sent"] ELSE x
    BY <1>4
  <2>3. PICK y \in inbox : o = IF SameMessage(y, m) THEN [y EXCEPT !.status = "sent"] ELSE y
    BY <1>4
  <2>4. x.event = n.event /\ x.who = n.who /\ y.event = o.event /\ y.who = o.who
    BY <1>3, <2>2, <2>3 DEF Mail
  <2> QED BY <2>2, <2>3, <2>4 DEF NInv, MailInv, SameMessage
<1> QED BY <1>0, <1>6, <1>7, <1>9, <1>10, <1>11, InboxRewritten

LEMMA MarkReadStep ==
  ASSUME NInv, NEW owner \in Owners, NEW event, MarkRead(owner, event)
  PROVE  NInv'
<1>w. PICK who : who = RequireRecipient(owner)
  OBVIOUS
<1>0. /\ inbox' = MarkInboxRead(inbox, event, who)
      /\ deviceCalls < MaxDeviceCalls /\ deviceCalls' = deviceCalls + 1
      /\ UNCHANGED <<devices, preferences, notificationGhosts, handlers, pushFaults, phones>>
  BY <1>w DEF MarkRead, Calls, notificationGhosts
<1> USE DEF notificationGhosts
<1>2. \A x \in Mail : /\ [x EXCEPT !.read = TRUE] \in Mail
                      /\ [x EXCEPT !.read = TRUE].status = x.status
                      /\ [x EXCEPT !.read = TRUE].event = x.event
                      /\ [x EXCEPT !.read = TRUE].who = x.who
                      /\ AsStored([x EXCEPT !.read = TRUE]) = AsStored(x)
  BY DEF Mail, AsStored
<1>3. \A x \in inbox : x \in Mail
  BY DEF NInv, NotificationShape
<1>4. \A n \in inbox' : \E x \in inbox :
        n = IF x.event = event /\ x.who = who THEN [x EXCEPT !.read = TRUE] ELSE x
  BY <1>0 DEF MarkInboxRead
<1>5. \A x \in inbox :
        (IF x.event = event /\ x.who = who THEN [x EXCEPT !.read = TRUE] ELSE x) \in inbox'
  BY <1>0 DEF MarkInboxRead
<1>6. NotificationShape'
  <2>1. inbox' \subseteq Mail
    BY <1>2, <1>3, <1>4
  <2>2. deviceCalls' \in 0..MaxDeviceCalls
    BY <1>0, NotificationAssumption DEF NInv, NotificationShape
  <2> QED BY <1>0, <2>1, <2>2 DEF NInv, NotificationShape
<1>7. \A b \in Consumers : Works(b)' => Works(b) /\ handlers'[b] = handlers[b]
  BY <1>0 DEF Works
<1>8. \A x \in inbox : AtWork(x) => AtWork(x)'
  BY <1>0 DEF AtWork, HandlerAt
<1>9. ASSUME NEW n \in inbox'
      PROVE  \E x \in inbox : AsStored(n) = AsStored(x) /\ n.status = x.status
                              /\ n.event = x.event /\ n.who = x.who
  <2>1. PICK x \in inbox : n = IF x.event = event /\ x.who = who THEN [x EXCEPT !.read = TRUE] ELSE x
    BY <1>4
  <2>2. CASE n = x
    BY <2>2
  <2>3. CASE n = [x EXCEPT !.read = TRUE]
    BY <1>2, <1>3, <2>3
  <2> QED BY <2>1, <2>2, <2>3
<1>10. \A x \in inbox : \E n \in inbox' : AsStored(n) = AsStored(x)
  BY <1>2, <1>3, <1>5
<1>11. \A n, o \in inbox' : SameMessage(n, o) => n = o
  <2> TAKE n, o \in inbox'
  <2>2. PICK x \in inbox : n = IF x.event = event /\ x.who = who THEN [x EXCEPT !.read = TRUE] ELSE x
    BY <1>4
  <2>3. PICK y \in inbox : o = IF y.event = event /\ y.who = who THEN [y EXCEPT !.read = TRUE] ELSE y
    BY <1>4
  <2>4. x.event = n.event /\ x.who = n.who /\ y.event = o.event /\ y.who = o.who
    BY <1>2, <1>3, <2>2, <2>3
  <2> QED BY <2>2, <2>3, <2>4 DEF NInv, MailInv, SameMessage
<1> QED BY <1>0, <1>6, <1>7, <1>8, <1>9, <1>10, <1>11, InboxRewritten

\* Rows of phones change, and what stays steady is not among them.
LEMMA DevicesRewritten ==
  ASSUME NInv, NotificationShape', DeviceInv',
         UNCHANGED <<inbox, preferences, tried, twice, gaveUp, switched>>,
         steady' \subseteq steady, \A s \in steady' : s.row \in devices',
         \A b \in Consumers :
           \/ handlers'[b] = handlers[b]
           \/ /\ handlers[b].step \in Sending /\ handlers'[b].step \in Sending
              /\ handlers'[b].message = handlers[b].message /\ handlers'[b].left = handlers[b].left
  PROVE  NInv'
<1>1. \A b \in Consumers :
        /\ Works(b)' <=> Works(b)
        /\ Works(b) => handlers'[b].message = handlers[b].message
  BY DEF Works, HandlerSteps, Sending
<1>2. MailInv'
  BY <1>1 DEF NInv, MailInv, IsStored
<1>3. PushInv'
  <2>1. ASSUME NEW b \in Consumers, Works(b)' PROVE Relies(b)'
    <3>1. Relies(b) /\ handlers'[b].message = handlers[b].message
      BY <1>1, <2>1 DEF NInv, PushInv
    <3>2. CASE handlers'[b] = handlers[b]
      BY <3>1, <3>2 DEF Relies, TriedFor
    <3>3. CASE /\ handlers[b].step \in Sending /\ handlers'[b].step \in Sending
               /\ handlers'[b].left = handlers[b].left
      BY <3>1, <3>3 DEF Relies, TriedFor, Sending
    <3> QED BY <3>2, <3>3
  <2> QED BY <2>1 DEF PushInv
<1>4. PushesHold'
  <2>1. PushedOnce'
    BY DEF NInv, PushesHold, PushedOnce
  <2>2. ASSUME NEW x \in inbox, AtWork(x) PROVE AtWork(x)'
    <3>1. PICK b \in Consumers : Works(b) /\ handlers[b].message = AsStored(x)
      BY <2>2, Working DEF AtWork, NInv
    <3> QED BY <3>1, <1>1, WorkingNext DEF AtWork
  <2>3. NoneForgotten'
    BY <2>2 DEF NInv, PushesHold, NoneForgotten
  <2>4. SentMeansTried'
    BY DEF NInv, PushesHold, SentMeansTried, TriedFor
  <2> QED BY <2>1, <2>3, <2>4 DEF PushesHold
<1> QED BY <1>2, <1>3, <1>4 DEF NInv

\* Rows are switched off, and what stays steady is not among them.
LEMMA SwitchedOff ==
  ASSUME NInv, NEW rows, phones' = phones,
         devices' = {IF d \in rows THEN [d EXCEPT !.active = FALSE] ELSE d : d \in devices},
         steady' \subseteq steady, \A s \in steady' : s.row \notin rows,
         revoked \subseteq revoked', refused \subseteq refused', overtaken \subseteq overtaken',
         \A d \in devices : d \in rows /\ Live(d.token) =>
           \E x \in revoked' \cup refused' \cup overtaken' : SameDevice(d, x)
  PROVE  /\ devices' \subseteq DeviceRows /\ DeviceInv' /\ \A s \in steady' : s.row \in devices'
<1>1. \A d \in devices : /\ d \in DeviceRows /\ [d EXCEPT !.active = FALSE] \in DeviceRows
                         /\ [d EXCEPT !.active = FALSE].token = d.token
                         /\ SameDevice([d EXCEPT !.active = FALSE], d)
                         /\ [d EXCEPT !.active = FALSE].active = FALSE
  BY DEF NInv, NotificationShape, DeviceRows, SameDevice
<1>2. \A n \in devices' : \E d \in devices :
        n = IF d \in rows THEN [d EXCEPT !.active = FALSE] ELSE d
  OBVIOUS
<1>3. \A d \in devices :
        (IF d \in rows THEN [d EXCEPT !.active = FALSE] ELSE d) \in devices'
  OBVIOUS
<1>4. devices' \subseteq DeviceRows
  BY <1>1, <1>2
<1>5. ASSUME NEW s \in steady' PROVE s.row \in devices'
  <2>1. s.row \in devices /\ s.row \notin rows
    BY <1>5 DEF NInv, MailInv
  <2> QED BY <2>1, <1>3
<1>6. ASSUME NEW n \in devices', NEW o \in devices', n.token = o.token \/ SameDevice(n, o)
      PROVE  n = o
  <2>1. PICK d \in devices : n = IF d \in rows THEN [d EXCEPT !.active = FALSE] ELSE d
    BY <1>2
  <2>2. PICK e \in devices : o = IF e \in rows THEN [e EXCEPT !.active = FALSE] ELSE e
    BY <1>2
  <2>3. /\ d.token = n.token /\ SameDevice(n, d)
        /\ e.token = o.token /\ SameDevice(o, e)
    BY <1>1, <2>1, <2>2 DEF SameDevice
  <2>4. d = e
    BY <1>6, <2>3 DEF NInv, DeviceInv, SameDevice
  <2> QED BY <2>1, <2>2, <2>4
<1>7. ASSUME NEW n \in devices' PROVE Had(n.token)'
  <2>1. PICK d \in devices : n = IF d \in rows THEN [d EXCEPT !.active = FALSE] ELSE d
    BY <1>2
  <2>2. d.token = n.token /\ Had(d.token)
    BY <1>1, <2>1 DEF NInv, DeviceInv
  <2> QED BY <2>2 DEF Had
<1>8. ASSUME NEW n \in devices', Live(n.token)', ~ n.active
      PROVE  \E x \in revoked' \cup refused' \cup overtaken' : SameDevice(n, x)
  <2>1. PICK d \in devices : n = IF d \in rows THEN [d EXCEPT !.active = FALSE] ELSE d
    BY <1>2
  <2>2. d.token = n.token /\ SameDevice(n, d) /\ Live(d.token)
    BY <1>1, <1>8, <2>1 DEF SameDevice, Live
  <2>3. CASE d \in rows
    BY <2>2, <2>3 DEF SameDevice
  <2>4. CASE d \notin rows
    BY <1>8, <2>1, <2>2, <2>4 DEF NInv, DeviceInv, SameDevice
  <2> QED BY <2>3, <2>4
<1>9. DeviceInv'
  BY <1>6, <1>7, <1>8 DEF DeviceInv
<1> QED BY <1>4, <1>5, <1>9

LEMMA DeactivateStep ==
  ASSUME NInv, NEW c \in Consumers, Deactivate(c)
  PROVE  NInv'
<1>d. PICK d : d = handlers[c].row
  OBVIOUS
<1>0. /\ HandlerAt(c, "deactivate") /\ Proceed(c, "dropped")
      /\ UNCHANGED <<inbox, preferences, log, deviceCalls, phones, tried, twice, gaveUp,
                     switched, revoked>>
  BY DEF Deactivate
<1>1. ~ HandlerAt(c, "idle") /\ d \in DeviceRows /\ "dropped" \in HandlerSteps
  BY <1>0, <1>d DEF HandlerAt, NInv, NotificationShape, HandlerSteps
<1>2. /\ handlers' \in [Consumers -> HandlerRecords \cup {Resting}]
      /\ handlers'[c].step = "dropped" /\ handlers'[c].message = handlers[c].message
      /\ handlers'[c].left = handlers[c].left /\ handlers'[c].row = d
      /\ \A b \in Consumers : b # c => handlers'[b] = handlers[b]
  BY <1>0, <1>1, <1>d, Proceeds DEF NInv
<1>3. CASE /\ devices' = DeactivateDeviceToken(devices, d) /\ steady' = Untouched({d})
           /\ overtaken' = overtaken \cup {x \in devices : SameDevice(x, d) /\ x.token # d.token}
           /\ refused' = IF Live(d.token) THEN refused \cup {d} ELSE refused
           /\ UNCHANGED pushFaults
  <2> DEFINE rows == {x \in devices : SameDevice(x, d)}
  <2>1. devices' = {IF x \in rows THEN [x EXCEPT !.active = FALSE] ELSE x : x \in devices}
    BY <1>3 DEF DeactivateDeviceToken
  <2>2. steady' \subseteq steady /\ \A s \in steady' : s.row \notin rows
    BY <1>3 DEF Untouched
  <2>3. ASSUME NEW x \in devices, x \in rows, Live(x.token)
        PROVE  \E y \in revoked' \cup refused' \cup overtaken' : SameDevice(x, y)
    <3>1. CASE x.token = d.token
      BY <1>3, <2>3, <3>1
    <3>2. CASE x.token # d.token
      BY <1>3, <2>3, <3>2 DEF SameDevice
    <3> QED BY <3>1, <3>2
  <2>4. revoked \subseteq revoked' /\ refused \subseteq refused' /\ overtaken \subseteq overtaken'
    BY <1>0, <1>3
  <2> HIDE DEF rows
  <2>5. devices' \subseteq DeviceRows /\ DeviceInv' /\ \A s \in steady' : s.row \in devices'
    BY <1>0, <2>1, <2>2, <2>3, <2>4, SwitchedOff
  <2>6. NotificationShape'
    <3>1. refused' \subseteq DeviceRows /\ overtaken' \subseteq DeviceRows
      BY <1>1, <1>3 DEF NInv, NotificationShape
    <3> QED BY <1>0, <1>1, <1>2, <1>3, <2>2, <2>5, <3>1 DEF NInv, NotificationShape
  <2> QED BY <1>0, <1>2, <2>2, <2>5, <2>6, DevicesRewritten DEF HandlerAt, Sending
<1>4. CASE /\ pushFaults < MaxPushFaults /\ pushFaults' = pushFaults + 1
           /\ UNCHANGED <<devices, steady, overtaken, refused>>
  <2>1. NotificationShape'
    <3>1. pushFaults' \in 0..MaxPushFaults
      BY <1>4, NotificationAssumption DEF NInv, NotificationShape
    <3> QED BY <1>0, <1>1, <1>2, <1>4, <3>1 DEF NInv, NotificationShape
  <2>2. DeviceInv'
    BY <1>0, <1>4 DEF NInv, DeviceInv, Had, Live
  <2>3. \A s \in steady' : s.row \in devices'
    BY <1>4 DEF NInv, MailInv
  <2> QED BY <1>0, <1>2, <1>4, <2>1, <2>2, <2>3, DevicesRewritten DEF HandlerAt, Sending
<1> QED BY <1>d, <1>3, <1>4 DEF Deactivate

LEMMA RevokeDeviceStep ==
  ASSUME NInv, NEW owner \in Owners, NEW p \in Phones, RevokeDevice(owner, p)
  PROVE  NInv'
<1>w. PICK who : who = RequireRecipient(owner)
  OBVIOUS
<1> DEFINE rows == {d \in devices : d.who = who /\ d.device = p}
<1>0. /\ devices' = {IF d \in rows THEN [d EXCEPT !.active = FALSE] ELSE d : d \in devices}
      /\ steady' = Untouched(rows) /\ revoked' = revoked \cup rows
      /\ deviceCalls < MaxDeviceCalls /\ deviceCalls' = deviceCalls + 1
      /\ UNCHANGED <<inbox, preferences, switched, refused, overtaken, handlers, pushFaults,
                     phones, tried, twice, gaveUp>>
  BY <1>w DEF RevokeDevice, Calls, DeactivateTokensByDevice
<1>1. steady' \subseteq steady /\ \A s \in steady' : s.row \notin rows
  BY <1>0 DEF Untouched, SameDevice
<1>2. \A d \in devices : d \in rows => SameDevice(d, d) /\ d \in revoked' /\ d \in DeviceRows
  BY <1>0 DEF SameDevice, NInv, NotificationShape
<1>3. rows \subseteq devices
  OBVIOUS
<1> HIDE DEF rows
<1>4. devices' \subseteq DeviceRows /\ DeviceInv' /\ \A s \in steady' : s.row \in devices'
  BY <1>0, <1>1, <1>2, SwitchedOff
<1>5. NotificationShape'
  <2>1. deviceCalls' \in 0..MaxDeviceCalls
    BY <1>0, NotificationAssumption DEF NInv, NotificationShape
  <2>2. revoked' \subseteq DeviceRows
    BY <1>0, <1>2, <1>3 DEF NInv, NotificationShape
  <2> QED BY <1>0, <1>1, <1>4, <2>1, <2>2 DEF NInv, NotificationShape
<1> QED BY <1>0, <1>1, <1>4, <1>5, DevicesRewritten

LEMMA RegisterDeviceStep ==
  ASSUME NInv, NEW owner \in Owners, NEW p \in Phones, RegisterDevice(owner, p)
  PROVE  NInv'
<1>1. PICK i \in DOMAIN phones[p] :
        LET row == DeviceToken(RequireRecipient(owner), p, phones[p][i])
            stored == UpsertDeviceToken(devices, row)
            others(rows) == {d \in rows : ~ SameDevice(d, row)}
        IN IF Succeeds(stored)
           THEN /\ devices' = stored.val /\ steady' = Untouched({row})
                /\ revoked' = others(revoked) /\ refused' = others(refused)
                /\ overtaken' = others(overtaken)
           ELSE UNCHANGED <<devices, steady, revoked, refused, overtaken>>
  BY DEF RegisterDevice
<1>r. PICK row : row = DeviceToken(RequireRecipient(owner), p, phones[p][i])
  OBVIOUS
<1>0. /\ deviceCalls < MaxDeviceCalls /\ deviceCalls' = deviceCalls + 1
      /\ UNCHANGED <<inbox, preferences, switched, handlers, pushFaults, phones, tried, twice, gaveUp>>
  BY DEF RegisterDevice, Calls
<1>2. row \in DeviceRows /\ row.active /\ Had(row.token)
  <2>1. RequireRecipient(owner) \in Whos
    BY DEF Whos
  <2>2. phones[p][i] \in PushTokens
    BY DEF NInv, NotificationShape
  <2> QED BY <1>r, <2>1, <2>2 DEF DeviceRows, DeviceToken, Had
<1>3. deviceCalls' \in 0..MaxDeviceCalls
  BY <1>0, NotificationAssumption DEF NInv, NotificationShape
<1>4. CASE \E d \in devices : d.token = row.token /\ ~ SameDevice(d, row)
  <2>1. UNCHANGED <<devices, steady, revoked, refused, overtaken>>
    BY <1>1, <1>r, <1>4 DEF UpsertDeviceToken, Fail, Succeeds
  <2>2. NotificationShape'
    BY <1>0, <1>3, <2>1 DEF NInv, NotificationShape
  <2>3. DeviceInv'
    BY <1>0, <2>1 DEF NInv, DeviceInv, Had, Live
  <2>4. \A s \in steady' : s.row \in devices'
    BY <2>1 DEF NInv, MailInv
  <2> QED BY <1>0, <2>1, <2>2, <2>3, <2>4, DevicesRewritten
<1>5. CASE ~ \E d \in devices : d.token = row.token /\ ~ SameDevice(d, row)
  <2>1. /\ devices' = {d \in devices : ~ SameDevice(d, row)} \cup {row}
        /\ steady' = Untouched({row})
        /\ revoked' = {d \in revoked : ~ SameDevice(d, row)}
        /\ refused' = {d \in refused : ~ SameDevice(d, row)}
        /\ overtaken' = {d \in overtaken : ~ SameDevice(d, row)}
    BY <1>1, <1>r, <1>5 DEF UpsertDeviceToken, Ok, Succeeds
  <2>2. steady' \subseteq steady /\ \A s \in steady' : s.row \in devices'
    BY <2>1 DEF Untouched, NInv, MailInv
  <2>3. NotificationShape'
    BY <1>0, <1>2, <1>3, <2>1, <2>2 DEF NInv, NotificationShape
  <2>4. DeviceInv'
    <3>1. \A d, e \in devices' : d.token = e.token \/ SameDevice(d, e) => d = e
      BY <1>5, <2>1 DEF NInv, DeviceInv, SameDevice
    <3>2. \A d \in devices' : Had(d.token)'
      BY <1>0, <1>2, <2>1 DEF NInv, DeviceInv, Had
    <3>3. ASSUME NEW d \in devices', Live(d.token)', ~ d.active
          PROVE  \E x \in revoked' \cup refused' \cup overtaken' : SameDevice(d, x)
      <4>1. d \in devices /\ ~ SameDevice(d, row) /\ Live(d.token)
        BY <1>0, <1>2, <2>1, <3>3 DEF Live
      <4>2. PICK x \in revoked \cup refused \cup overtaken : SameDevice(d, x)
        BY <4>1, <3>3 DEF NInv, DeviceInv
      <4>3. ~ SameDevice(x, row)
        BY <4>1, <4>2 DEF SameDevice
      <4> QED BY <2>1, <4>2, <4>3
    <3> QED BY <3>1, <3>2, <3>3 DEF DeviceInv
  <2> QED BY <1>0, <2>2, <2>3, <2>4, DevicesRewritten
<1> QED BY <1>4, <1>5

LEMMA RenewStep ==
  ASSUME NInv, NEW p \in Phones, Renew(p)
  PROVE  NInv'
<1>1. PICK token \in PushTokens :
        /\ \A q \in Phones : \A i \in DOMAIN phones[q] : phones[q][i] # token
        /\ phones' = [phones EXCEPT ![p] = Append(@, token)]
  BY DEF Renew
<1>0. UNCHANGED <<inbox, devices, preferences, handlers, deviceCalls, pushFaults, tried, twice, gaveUp,
                  steady, switched, revoked, refused, overtaken>>
  BY DEF Renew, notificationRows, notificationGhosts
<1>2. /\ phones' \in [Phones -> Seq(PushTokens)]
      /\ phones'[p] = Append(phones[p], token)
      /\ \A q \in Phones : q # p => phones'[q] = phones[q]
      /\ \A q \in Phones : phones[q] \in Seq(PushTokens) /\ phones[q] # <<>>
  BY <1>1 DEF NInv, NotificationShape
<1>3. /\ Len(phones'[p]) = Len(phones[p]) + 1 /\ phones'[p][Len(phones'[p])] = token
      /\ \A i \in DOMAIN phones[p] : i \in DOMAIN phones'[p] /\ phones'[p][i] = phones[p][i]
      /\ phones'[p] # <<>>
  BY <1>2, AppendProperties
<1>4. NotificationShape'
  BY <1>0, <1>2, <1>3 DEF NInv, NotificationShape
<1>5. ASSUME NEW t, Had(t) PROVE Had(t)' /\ t # token
  <2>1. PICK q \in Phones, i \in Nat : i \in DOMAIN phones[q] /\ phones[q][i] = t
    BY <1>2, <1>5 DEF Had
  <2>2. i \in DOMAIN phones'[q] /\ phones'[q][i] = t
    BY <1>2, <1>3, <2>1
  <2> QED BY <1>1, <2>1, <2>2 DEF Had
<1>6. ASSUME NEW t, t # token, Live(t)' PROVE Live(t)
  BY <1>2, <1>3, <1>6 DEF Live
<1>7. DeviceInv'
  BY <1>0, <1>5, <1>6 DEF NInv, DeviceInv
<1> QED BY <1>0, <1>4, <1>7, DevicesRewritten DEF NInv, MailInv

LEMMA SetPreferenceStep ==
  ASSUME NInv, NEW owner \in Owners, NEW category, NEW enabled \in BOOLEAN,
         SetPreference(owner, category, enabled)
  PROVE  NInv'
<1>w. PICK who : who = RequireRecipient(owner)
  OBVIOUS
<1>r. PICK row : row = Preference(who, category, enabled)
  OBVIOUS
<1>0. /\ category \in Categories
      /\ preferences' = {p \in preferences : ~ (p.who = who /\ p.category = category)} \cup {row}
      /\ row.who = who /\ row.category = category
      /\ switched' = switched \cup {AsStored(m) : m \in {x \in inbox : x.who = who /\ x.category = category}}
      /\ deviceCalls < MaxDeviceCalls /\ deviceCalls' = deviceCalls + 1
      /\ UNCHANGED <<inbox, devices, steady, revoked, refused, overtaken, handlers, pushFaults,
                     phones, tried, twice, gaveUp>>
  BY <1>w, <1>r DEF SetPreference, Calls, UpsertPreference, Preference, AsStored
<1>1. row \in [who : Whos, category : Categories, enabled : BOOLEAN]
  BY <1>0, <1>w, <1>r DEF Whos, Preference
<1>2. NotificationShape'
  <2>1. deviceCalls' \in 0..MaxDeviceCalls
    BY <1>0, NotificationAssumption DEF NInv, NotificationShape
  <2> QED BY <1>0, <1>1, <2>1 DEF NInv, NotificationShape
<1>3. DeviceInv'
  BY <1>0 DEF NInv, DeviceInv, Had, Live
<1>4. MailInv'
  <2>1. \A p, q \in preferences' : p.who = q.who /\ p.category = q.category => p = q
    BY <1>0 DEF NInv, MailInv
  <2> QED BY <1>0, <2>1 DEF NInv, MailInv, Works, IsStored
<1>5. ASSUME NEW m \in inbox, AsStored(m) \notin switched'
      PROVE  /\ AsStored(m) \notin switched
             /\ GetPreference(preferences', m.who, m.category) =
                  GetPreference(preferences, m.who, m.category)
  <2>1. ~ (m.who = who /\ m.category = category)
    BY <1>0, <1>5
  <2> QED BY <1>0, <1>5, <2>1 DEF GetPreference
<1>6. PushInv'
  <2>1. ASSUME NEW c \in Consumers, Works(c)' PROVE Relies(c)'
    <3>1. Works(c) /\ Relies(c)
      BY <1>0, <2>1 DEF Works, NInv, PushInv
    <3>2. PICK m \in inbox : AsStored(m) = handlers[c].message
      BY <3>1 DEF NInv, MailInv
    <3>3. m.who = handlers[c].message.who /\ m.category = handlers[c].message.category
      BY <3>2, MailFacts DEF NInv, NotificationShape
    <3> QED BY <1>0, <1>5, <3>1, <3>2, <3>3 DEF Relies, TriedFor
  <2> QED BY <2>1 DEF PushInv
<1>7. PushesHold'
  <2>1. PushedOnce' /\ NoneForgotten'
    BY <1>0 DEF NInv, PushesHold, PushedOnce, NoneForgotten, AtWork, HandlerAt
  <2>2. SentMeansTried'
    BY <1>0, <1>5 DEF NInv, PushesHold, SentMeansTried, TriedFor
  <2> QED BY <2>1, <2>2 DEF PushesHold
<1> QED BY <1>2, <1>3, <1>4, <1>6, <1>7 DEF NInv

LEMMA NotificationInvariant == NotificationSpec => []NInv
<1>1. ASSUME NInv, [NotificationNext]_notificationVars PROVE NInv'
  <2>1. CASE \E c \in Consumers : \E e \in Envelopes : HandleEvent(c, e)
    BY <1>1, <2>1, HandleEventStep
  <2>2. CASE \E c \in Consumers : StoreMessage(c)
    BY <1>1, <2>2, StoreMessageStep
  <2>3. CASE \E c \in Consumers : ReadPreference(c)
    BY <1>1, <2>3, ReadPreferenceStep
  <2>4. CASE \E c \in Consumers : ListDevices(c)
    BY <1>1, <2>4, ListDevicesStep
  <2>5. CASE \E c \in Consumers : Dispatch(c)
    BY <1>1, <2>5, DispatchStep
  <2>6. CASE \E c \in Consumers : Deactivate(c)
    BY <1>1, <2>6, DeactivateStep
  <2>7. CASE \E c \in Consumers : WriteLog(c)
    BY <1>1, <2>7, WriteLogStep
  <2>8. CASE \E c \in Consumers : MarkSent(c)
    BY <1>1, <2>8, MarkSentStep
  <2>9. CASE \E c \in Consumers : GiveUp(c)
    BY <1>1, <2>9, GiveUpStep
  <2>10. CASE \E owner \in Owners, p \in Phones : RegisterDevice(owner, p)
    BY <1>1, <2>10, RegisterDeviceStep
  <2>11. CASE \E owner \in Owners, p \in Phones : RevokeDevice(owner, p)
    BY <1>1, <2>11, RevokeDeviceStep
  <2>12. CASE \E owner \in Owners : \E category \in {TemplateFor(e.type) : e \in Envelopes} :
                \E enabled \in BOOLEAN : SetPreference(owner, category, enabled)
    BY <1>1, <2>12, SetPreferenceStep
  <2>13. CASE \E owner \in Owners : \E m \in inbox : MarkRead(owner, m.event)
    BY <1>1, <2>13, MarkReadStep
  <2>14. CASE \E p \in Phones : Renew(p)
    BY <1>1, <2>14, RenewStep
  <2>15. CASE UNCHANGED notificationVars
    <3>1. UNCHANGED <<inbox, devices, preferences, handlers, deviceCalls, pushFaults, phones, tried,
                      twice, gaveUp, steady, switched, revoked, refused, overtaken>>
      BY <2>15 DEF notificationVars, notificationRows, notificationGhosts
    <3>2. NotificationShape' /\ DeviceInv' /\ \A s \in steady' : s.row \in devices'
      BY <1>1, <3>1 DEF NInv, NotificationShape, DeviceInv, MailInv, Had, Live
    <3> QED BY <1>1, <3>1, <3>2, DevicesRewritten
  <2> QED BY <1>1, <2>1, <2>2, <2>3, <2>4, <2>5, <2>6, <2>7, <2>8, <2>9, <2>10, <2>11, <2>12,
             <2>13, <2>14, <2>15 DEF NotificationNext
<1> QED BY <1>1, NotificationStart, PTL DEF NotificationSpec

\* Pushes, for any number of instances, events, phones and faults
\* (notification_usecase.go, inbox_repo.go): although the consumer commits an
\* event before it handles it and may be given it again, no push is handed to
\* the provider twice, a stored message is at work, sent or left by a handler
\* that failed, and what is marked sent was tried on every phone that stayed
\* registered.
THEOREM PushesAreKept == NotificationSpec => []PushesHold
<1>1. NInv => PushesHold
  BY DEF NInv
<1> QED BY <1>1, NotificationInvariant, PTL

\* Devices (device_tokens, UpsertDeviceToken, DeactivateDeviceToken): no token
\* belongs to two rows, and a row whose token is live is switched off only by
\* its owner, by a refusal of the service itself, or by a handler that had read
\* the row before the phone registered again.
THEOREM DevicesAreKept == NotificationSpec => []DevicesHold
<1>1. NInv => DevicesHold
  <2> SUFFICES ASSUME NInv PROVE DevicesHold
    OBVIOUS
  <2>1. NotificationTypeOK
    BY DEF NInv, NotificationShape, MailInv, NotificationTypeOK, DeviceRows, Mail
  <2> QED BY <2>1 DEF NInv, DeviceInv, DevicesHold
<1> QED BY <1>1, NotificationInvariant, PTL

-----------------------------------------------------------------------------
(* Lists: complaints, reports and feedbacks, page by page. *)

Filed == [who : People, type : Roles \cup {"admin"}]
         \cup [who : People, type : Roles \cup {"admin"}, rating : Int]
ReaderRecords == [list : Tables \cup {"none", "read"}, size : Int, at : Nat,
                  want : SUBSET Nat, seen : SUBSET Nat]

SupportShape ==
  /\ tables \in [Tables -> Seq(Filed)] /\ Rows <= MaxRows
  /\ roleOf \in [People -> Roles] /\ readers \in [Readers -> ReaderRecords]
  /\ posted \in Seq(Int)

\* What the rows say of the requests they came from.
Filings ==
  /\ \A i \in DOMAIN tables["complaints"] : tables["complaints"][i].type \in Roles
  /\ \A i \in DOMAIN tables["reports"] :
       tables["reports"][i].type = "merchant" => roleOf[tables["reports"][i].who] = "merchant"
  /\ Len(posted) = Len(tables["feedbacks"])
  /\ \A i \in DOMAIN posted :
       /\ tables["feedbacks"][i].rating \in 1..5
       /\ tables["feedbacks"][i].rating = Int32(posted[i])

\* Of the rows that were there at the beginning, a reader has seen all that are
\* newer than the place it has come to; rows inserted meanwhile move that place
\* to newer ones.
Turning ==
  \A r \in Readers : LET x == readers[r] IN
    /\ x.list \in Tables => \A i \in x.want : i > 0 /\ (i > Len(tables[x.list]) - x.at => i \in x.seen)
    /\ x.list = "read" => x.want \subseteq x.seen

SInv == SupportShape /\ Filings /\ Turning

-----------------------------------------------------------------------------
LEMMA TableFacts ==
  ASSUME SupportShape
  PROVE  /\ \A t \in Tables : tables[t] \in Seq(Filed) /\ Len(tables[t]) \in Nat
         /\ "feedbacks" \in Tables /\ "complaints" \in Tables /\ "reports" \in Tables
         /\ "audit_logs" \in Tables
         /\ Rows \in Nat
BY DEF SupportShape, Tables, Rows

LEMMA SupportStart == SupportInit => SInv
<1> SUFFICES ASSUME SupportInit PROVE SInv
  OBVIOUS
<1>1. SupportShape
  <2>1. tables \in [Tables -> Seq(Filed)] /\ Rows = 0
    BY DEF SupportInit, Tables, Rows
  <2>2. NoReader \in ReaderRecords
    BY DEF NoReader, ReaderRecords
  <2> QED BY <2>1, <2>2, SupportAssumption DEF SupportInit, SupportShape, Roles
<1>2. Filings
  BY DEF SupportInit, Filings, Tables
<1>3. Turning
  BY DEF SupportInit, Turning, NoReader, Tables
<1> QED BY <1>1, <1>2, <1>3 DEF SInv

\* A row of one table is appended, and nothing else changes in the tables.
LEMMA Appended ==
  ASSUME SInv, NEW t \in Tables, NEW row \in Filed, Rows < MaxRows,
         tables' = [tables EXCEPT ![t] = Append(tables[t], row)],
         UNCHANGED <<roleOf, readers>>, posted' \in Seq(Int)
  PROVE  /\ SupportShape' /\ Turning'
         /\ tables'[t] = Append(tables[t], row) /\ Len(tables'[t]) = Len(tables[t]) + 1
         /\ \A i \in DOMAIN tables'[t] :
              \/ i \in DOMAIN tables[t] /\ tables'[t][i] = tables[t][i]
              \/ i = Len(tables[t]) + 1 /\ tables'[t][i] = row
         /\ \A u \in Tables : u # t => tables'[u] = tables[u]
<1>1. /\ tables \in [Tables -> Seq(Filed)] /\ tables[t] \in Seq(Filed) /\ Len(tables[t]) \in Nat
      /\ \A u \in Tables : Len(tables[u]) \in Nat
  BY TableFacts DEF SInv, SupportShape
<1>2. /\ tables' \in [Tables -> Seq(Filed)] /\ tables'[t] = Append(tables[t], row)
      /\ \A u \in Tables : u # t => tables'[u] = tables[u]
  BY <1>1
<1>3. /\ Len(tables'[t]) = Len(tables[t]) + 1
      /\ \A i \in DOMAIN tables'[t] :
              \/ i \in DOMAIN tables[t] /\ tables'[t][i] = tables[t][i]
              \/ i = Len(tables[t]) + 1 /\ tables'[t][i] = row
  BY <1>1, <1>2, AppendProperties
<1>4. Rows' = Rows + 1
  <2>1. t = "feedbacks" \/ t = "complaints" \/ t = "reports" \/ t = "audit_logs"
    BY DEF Tables
  <2>2. "feedbacks" \in Tables /\ "complaints" \in Tables /\ "reports" \in Tables
        /\ "audit_logs" \in Tables
    BY DEF Tables
  <2>3. \A u \in Tables : Len(tables'[u]) = IF u = t THEN Len(tables[u]) + 1 ELSE Len(tables[u])
    BY <1>2, <1>3
  <2>4. CASE t = "feedbacks"
    BY <1>1, <2>2, <2>3, <2>4 DEF Rows
  <2>5. CASE t = "complaints"
    BY <1>1, <2>2, <2>3, <2>5 DEF Rows
  <2>6. CASE t = "reports"
    BY <1>1, <2>2, <2>3, <2>6 DEF Rows
  <2>7. CASE t = "audit_logs"
    BY <1>1, <2>2, <2>3, <2>7 DEF Rows
  <2> QED BY <2>1, <2>4, <2>5, <2>6, <2>7
<1>5. SupportShape'
  <2>1. Rows' <= MaxRows
    <3>1. Rows \in Nat /\ MaxRows \in Nat
      BY SupportAssumption, TableFacts DEF SInv
    <3> QED BY <1>4, <3>1
  <2> QED BY <1>2, <2>1 DEF SInv, SupportShape
<1>6. Turning'
  <2>1. \A u \in Tables : Len(tables'[u]) \in Nat /\ Len(tables'[u]) >= Len(tables[u])
    BY <1>1, <1>2, <1>3
  <2>2. \A r \in Readers : readers[r].at \in Nat /\ readers[r].want \subseteq Nat
    BY DEF SInv, SupportShape, ReaderRecords
  <2> QED BY <1>1, <2>1, <2>2 DEF SInv, Turning
<1> QED BY <1>2, <1>3, <1>5, <1>6

LEMMA InsertFails ==
  ASSUME SInv, UNCHANGED <<tables, roleOf, readers, posted>>
  PROVE  SInv'
BY DEF SInv, SupportShape, Filings, Turning, Rows

LEMMA PostFeedbackStep ==
  ASSUME SInv, NEW p \in People, PostFeedback(p)
  PROVE  SInv'
<1>1. PICK rating \in Ratings :
        LET result == CreateFeedback(tables["feedbacks"], Feedback(p, roleOf[p], rating)) IN
        /\ Insert("feedbacks", result)
        /\ posted' = IF Succeeds(result) THEN Append(posted, rating) ELSE posted
  BY DEF PostFeedback
<1>r. PICK row : row = Feedback(p, roleOf[p], rating)
  OBVIOUS
<1>2. Rows < MaxRows /\ UNCHANGED <<roleOf, readers>>
  BY <1>1 DEF Insert
<1>3. rating \in Int /\ Int32(rating) \in Int
  BY SupportAssumption DEF Int32
<1>4. row \in Filed /\ row.rating = Int32(rating)
  BY <1>r, <1>3 DEF Feedback, Filed, SInv, SupportShape, Roles
<1>5. CASE row.rating \notin 1..5
  <2>1. UNCHANGED <<tables, posted>>
    BY <1>1, <1>r, <1>5 DEF Insert, CreateFeedback, Fail, Succeeds
  <2> QED BY <1>2, <2>1, InsertFails
<1>6. CASE row.rating \in 1..5
  <2>1. /\ tables' = [tables EXCEPT !["feedbacks"] = Append(tables["feedbacks"], row)]
        /\ posted' = Append(posted, rating)
    BY <1>1, <1>r, <1>6 DEF Insert, CreateFeedback, Ok, Succeeds
  <2>2. /\ posted \in Seq(Int) /\ posted' \in Seq(Int) /\ Len(posted') = Len(posted) + 1
        /\ \A i \in DOMAIN posted' : \/ i \in DOMAIN posted /\ posted'[i] = posted[i]
                                     \/ i = Len(posted) + 1 /\ posted'[i] = rating
    BY <1>3, <2>1, AppendProperties DEF SInv, SupportShape
  <2>3. "feedbacks" \in Tables /\ "complaints" \in Tables /\ "reports" \in Tables
    BY DEF Tables
  <2>4. /\ SupportShape' /\ Turning'
        /\ Len(tables'["feedbacks"]) = Len(tables["feedbacks"]) + 1
        /\ \A i \in DOMAIN tables'["feedbacks"] :
             \/ /\ i \in DOMAIN tables["feedbacks"]
                /\ tables'["feedbacks"][i] = tables["feedbacks"][i]
             \/ i = Len(tables["feedbacks"]) + 1 /\ tables'["feedbacks"][i] = row
        /\ \A u \in Tables : u # "feedbacks" => tables'[u] = tables[u]
    BY <1>2, <1>4, <2>1, <2>2, <2>3, Appended
  <2>5. Filings'
    <3>1. /\ DOMAIN posted = 1..Len(posted) /\ DOMAIN posted' = 1..Len(posted')
          /\ Len(posted) \in Nat /\ Len(posted) = Len(tables["feedbacks"])
          /\ DOMAIN tables'["feedbacks"] = 1..Len(tables'["feedbacks"])
          /\ DOMAIN tables["feedbacks"] = 1..Len(tables["feedbacks"])
      BY <2>2, <2>3, <2>4 DEF SInv, SupportShape, Filings
    <3>2. ASSUME NEW i \in DOMAIN posted'
          PROVE  /\ tables'["feedbacks"][i].rating \in 1..5
                 /\ tables'["feedbacks"][i].rating = Int32(posted'[i])
      <4>1. i \in DOMAIN tables'["feedbacks"]
        BY <2>2, <2>4, <3>1
      <4>2. CASE i \in DOMAIN posted
        <5>1. i # Len(tables["feedbacks"]) + 1
          BY <3>1, <4>2
        <5>2. tables'["feedbacks"][i] = tables["feedbacks"][i] /\ posted'[i] = posted[i]
          BY <2>2, <2>4, <3>1, <3>2, <4>1, <5>1
        <5> QED BY <4>2, <5>2 DEF SInv, Filings
      <4>3. CASE i \notin DOMAIN posted
        <5>1. i = Len(posted) + 1
          BY <2>2, <3>2, <4>3
        <5>2. tables'["feedbacks"][i] = row /\ posted'[i] = rating
          BY <2>2, <2>4, <3>1, <3>2, <4>1, <5>1, <4>3
        <5> QED BY <1>4, <1>6, <5>2
      <4> QED BY <4>2, <4>3
    <3>3. Len(posted') = Len(tables'["feedbacks"])
      BY <2>2, <2>4, <3>1
    <3> QED BY <1>2, <2>3, <2>4, <3>2, <3>3 DEF SInv, Filings, Int32
  <2> QED BY <2>4, <2>5 DEF SInv
<1> QED BY <1>5, <1>6

\* The other posts append a row that fits its table.
LEMMA PostStep ==
  ASSUME SInv, NEW t \in Tables \ {"feedbacks"}, NEW p \in People, NEW type,
         t # "audit_logs" => type = roleOf[p], t = "audit_logs" => type = "admin",
         Insert(t, Ok(Append(tables[t], [who |-> p, type |-> type]))), UNCHANGED posted
  PROVE  SInv'
<1>r. PICK row : row = [who |-> p, type |-> type]
  OBVIOUS
<1>1. /\ Rows < MaxRows /\ UNCHANGED <<roleOf, readers>>
      /\ tables' = [tables EXCEPT ![t] = Append(tables[t], row)]
  BY <1>r DEF Insert, Ok, Succeeds
<1>2. row \in Filed /\ roleOf[p] \in Roles /\ row.who = p /\ row.type = type
  BY <1>r DEF Filed, SInv, SupportShape
<1>3. /\ SupportShape' /\ Turning'
      /\ \A i \in DOMAIN tables'[t] :
           \/ i \in DOMAIN tables[t] /\ tables'[t][i] = tables[t][i]
           \/ i = Len(tables[t]) + 1 /\ tables'[t][i] = row
      /\ \A u \in Tables : u # t => tables'[u] = tables[u]
  <2>1. posted' \in Seq(Int)
    BY DEF SInv, SupportShape
  <2> QED BY <1>1, <1>2, <2>1, Appended
<1>4. "feedbacks" \in Tables /\ "complaints" \in Tables /\ "reports" \in Tables
  BY DEF Tables
<1>5. \A i \in DOMAIN tables'["complaints"] : tables'["complaints"][i].type \in Roles
  BY <1>2, <1>3, <1>4 DEF SInv, Filings
<1>6. \A i \in DOMAIN tables'["reports"] :
        tables'["reports"][i].type = "merchant" => roleOf'[tables'["reports"][i].who] = "merchant"
  BY <1>1, <1>2, <1>3, <1>4 DEF SInv, Filings
<1>7. Filings'
  BY <1>3, <1>4, <1>5, <1>6 DEF SInv, Filings, Int32
<1> QED BY <1>3, <1>7 DEF SInv

LEMMA PostsStep ==
  ASSUME SInv, NEW p \in People, PostComplaint(p) \/ PostReport(p) \/ PostAuditLog(p)
  PROVE  SInv'
<1>1. CASE PostComplaint(p)
  BY <1>1, PostStep DEF PostComplaint, CreateComplaint, Complaint, Tables
<1>2. CASE PostReport(p)
  BY <1>2, PostStep DEF PostReport, CreateReport, Report, Tables
<1>3. CASE PostAuditLog(p)
  BY <1>3, PostStep DEF PostAuditLog, CreateAuditLog, AuditLog, Tables
<1> QED BY <1>1, <1>2, <1>3

LEMMA ChangeRoleStep ==
  ASSUME SInv, NEW p \in People, ChangeRole(p)
  PROVE  SInv'
<1>1. /\ roleOf' = [roleOf EXCEPT ![p] = "merchant"]
      /\ UNCHANGED <<tables, readers, posted>>
  BY DEF ChangeRole
<1>2. SupportShape'
  BY <1>1 DEF SInv, SupportShape, Rows, Roles
<1>3. Filings'
  <2>1. \A q \in People : roleOf[q] = "merchant" => roleOf'[q] = "merchant"
    BY <1>1 DEF SInv, SupportShape
  <2>2. "reports" \in Tables
    BY DEF Tables
  <2>3. ASSUME NEW i \in DOMAIN tables["reports"] PROVE tables["reports"][i].who \in People
    BY <2>2 DEF SInv, SupportShape, Filed
  <2> QED BY <1>1, <2>1, <2>3 DEF SInv, Filings, Int32
<1>4. Turning'
  BY <1>1 DEF SInv, Turning
<1> QED BY <1>2, <1>3, <1>4 DEF SInv

LEMMA BeginListStep ==
  ASSUME SInv, NEW r \in Readers, NEW list \in Tables, NEW size \in Pages, BeginList(r, list, size)
  PROVE  SInv'
<1>x. PICK x : x = [NoReader EXCEPT !.list = list, !.size = size, !.want = DOMAIN tables[list]]
  OBVIOUS
<1>1. /\ readers' = [readers EXCEPT ![r] = x] /\ UNCHANGED <<tables, roleOf, posted>>
  BY <1>x DEF BeginList
<1>2. DOMAIN tables[list] = 1..Len(tables[list]) /\ Len(tables[list]) \in Nat
  BY TableFacts DEF SInv
<1>3. /\ x \in ReaderRecords /\ x.list = list /\ x.at = 0 /\ x.want = 1..Len(tables[list])
  <2>d. PICK want : want = DOMAIN tables[list]
    OBVIOUS
  <2>1. x = [list |-> list, size |-> size, at |-> 0, want |-> want, seen |-> {}]
    BY <1>x, <2>d DEF NoReader
  <2>2. want \in SUBSET Nat /\ size \in Int
    BY <1>2, <2>d, SupportAssumption
  <2> QED BY <1>2, <2>d, <2>1, <2>2 DEF ReaderRecords
<1>4. SupportShape'
  BY <1>1, <1>3 DEF SInv, SupportShape, Rows
<1>5. Filings'
  BY <1>1 DEF SInv, Filings, Int32
<1>6. Turning'
  <2>1. readers'[r] = x /\ \A q \in Readers : q # r => readers'[q] = readers[q]
    BY <1>1 DEF SInv, SupportShape
  <2>2. list # "read" /\ list # "none"
    BY DEF Tables
  <2>3. \A i \in x.want : i > 0 /\ ~ (i > Len(tables[list]) - 0)
    BY <1>2, <1>3
  <2> QED BY <1>1, <1>3, <2>1, <2>2, <2>3 DEF SInv, Turning
<1> QED BY <1>4, <1>5, <1>6 DEF SInv

\* The rows of a page, newest first: the numbers of an interval.
LEMMA PageIsInterval ==
  ASSUME NEW S, NEW rows \in Seq(S), NEW limit \in Nat, NEW offset \in Nat
  PROVE  /\ Succeeds(Page(rows, limit, offset))
         /\ \A i \in Page(rows, limit, offset).val : i \in 1..Len(rows)
         /\ \A i \in 1..Len(rows) :
              Len(rows) - offset - limit < i /\ i <= Len(rows) - offset =>
                i \in Page(rows, limit, offset).val
<1> DEFINE n == Len(rows)
           places == {j \in 1..n : offset < j /\ j <= offset + limit}
<1>1. n \in Nat
  OBVIOUS
<1>2. Page(rows, limit, offset) = Ok({Newest(rows)[j] : j \in places})
  BY DEF Page
<1>3. \A j \in 1..n : Newest(rows)[j] = n + 1 - j
  BY DEF Newest
<1>4. Page(rows, limit, offset).val = {Newest(rows)[j] : j \in places}
      /\ Succeeds(Page(rows, limit, offset))
  BY <1>2 DEF Ok, Succeeds
<1>5. \A i \in Page(rows, limit, offset).val : \E j \in places : i = Newest(rows)[j]
  BY <1>4
<1>6. \A j \in places : Newest(rows)[j] \in Page(rows, limit, offset).val
  BY <1>4
<1>7. ASSUME NEW i \in Page(rows, limit, offset).val PROVE i \in 1..n
  BY <1>1, <1>3, <1>5, <1>7
<1>8. ASSUME NEW i \in 1..n, n - offset - limit < i, i <= n - offset
      PROVE  i \in Page(rows, limit, offset).val
  <2>1. n + 1 - i \in places
    BY <1>1, <1>8
  <2>2. Newest(rows)[n + 1 - i] = i
    BY <1>1, <1>3, <2>1
  <2> QED BY <1>6, <2>1, <2>2
<1> QED BY <1>4, <1>7, <1>8

LEMMA ShortPageIsLast ==
  ASSUME NEW S, NEW rows \in Seq(S), NEW limit \in Nat, NEW offset \in Nat,
         Cardinality(Page(rows, limit, offset).val) < limit
  PROVE  Len(rows) - offset - limit < 0
<1>0. PICK n : n = Len(rows)
  OBVIOUS
<1>1. n \in Nat
  BY <1>0
<1>2. SUFFICES ASSUME n - offset - limit >= 0 PROVE FALSE
  BY <1>0, <1>1
<1> DEFINE part == (n - offset - limit + 1)..(n - offset)
           page == Page(rows, limit, offset).val
<1>3. IsFiniteSet(page) /\ Cardinality(part) = limit /\ part \subseteq page
  <2>1. page \subseteq 1..n
    BY <1>0, PageIsInterval
  <2>2. IsFiniteSet(1..n)
    BY <1>1, FS_Interval
  <2>3. IsFiniteSet(page)
    BY <2>1, <2>2, FS_Subset
  <2>4. Cardinality(part) = limit
    <3>1. n - offset - limit + 1 \in Int /\ n - offset \in Int
      BY <1>1
    <3>2. Cardinality(part) = IF n - offset - limit + 1 > n - offset THEN 0
                              ELSE n - offset - (n - offset - limit + 1) + 1
      BY <3>1, FS_Interval
    <3> HIDE DEF part
    <3> QED BY <1>1, <3>2
  <2>5. ASSUME NEW i \in part PROVE i \in page
    <3>1. i \in 1..n /\ n - offset - limit < i /\ i <= n - offset
      BY <1>1, <1>2, <2>5
    <3> QED BY <1>0, <3>1, PageIsInterval
  <2> QED BY <2>3, <2>4, <2>5
<1>4. Cardinality(part) <= Cardinality(page)
  BY <1>3, FS_Subset
<1>5. Cardinality(page) \in Nat
  BY <1>3, FS_CardinalityType
<1> HIDE DEF part
<1> QED BY <1>3, <1>4, <1>5

LEMMA TurnPageStep ==
  ASSUME SInv, NEW r \in Readers, TurnPage(r)
  PROVE  SInv'
<1>x. PICK x : x = readers[r]
  OBVIOUS
<1>p. PICK page : page = ListPage(x.list, x.size, x.at)
  OBVIOUS
<1>1. /\ x.list \in Tables
      /\ readers' = [readers EXCEPT ![r] =
          IF ~ Succeeds(page) THEN NoReader
          ELSE [x EXCEPT !.seen = x.seen \cup page.val, !.at = x.at + x.size,
                         !.list = IF Cardinality(page.val) < x.size THEN "read" ELSE x.list]]
      /\ UNCHANGED <<tables, roleOf, posted>>
  BY <1>x, <1>p DEF TurnPage
<1>2. x \in ReaderRecords
  BY <1>x DEF SInv, SupportShape
<1>3. page = Page(tables[x.list], x.size, x.at)
  BY <1>1, <1>p DEF ListPage, ListFeedbacks, ListComplaints, ListReports, ListAuditLogs, Tables
<1>n. PICK n : n = Len(tables[x.list])
  OBVIOUS
<1>4. tables[x.list] \in Seq(Filed) /\ n \in Nat
  BY <1>1, <1>n, TableFacts DEF SInv
<1>5. Filings'
  BY <1>1 DEF SInv, Filings, Int32
<1>6. CASE x.size < 0
  <2>1. ~ Succeeds(page)
    BY <1>3, <1>6 DEF Page, Fail, Succeeds
  <2>2. readers' = [readers EXCEPT ![r] = NoReader]
    BY <1>1, <2>1
  <2>3. NoReader \in ReaderRecords /\ NoReader.list = "none"
    BY DEF NoReader, ReaderRecords
  <2>4. SupportShape'
    BY <1>1, <2>2, <2>3 DEF SInv, SupportShape, Rows
  <2>5. Turning'
    BY <1>1, <2>2, <2>3 DEF SInv, SupportShape, Turning, Tables
  <2> QED BY <1>5, <2>4, <2>5 DEF SInv
<1>7. CASE ~ (x.size < 0)
  <2>1. x.size \in Nat /\ x.at \in Nat /\ x.want \subseteq Nat /\ x.seen \subseteq Nat
    BY <1>2, <1>7 DEF ReaderRecords
  <2>2. /\ Succeeds(page) /\ \A i \in page.val : i \in 1..n
        /\ \A i \in 1..n : n - x.at - x.size < i /\ i <= n - x.at => i \in page.val
    BY <1>3, <1>4, <1>n, <2>1, PageIsInterval
  <2>y. PICK y : y = [x EXCEPT !.seen = x.seen \cup page.val, !.at = x.at + x.size,
                         !.list = IF Cardinality(page.val) < x.size THEN "read" ELSE x.list]
    OBVIOUS
  <2>3. readers' = [readers EXCEPT ![r] = y]
    BY <1>1, <2>2, <2>y
  <2>4. /\ y \in ReaderRecords /\ y.want = x.want /\ y.at = x.at + x.size
        /\ y.seen = x.seen \cup page.val
        /\ y.list = IF Cardinality(page.val) < x.size THEN "read" ELSE x.list
    <3>l. PICK list : list = IF Cardinality(page.val) < x.size THEN "read" ELSE x.list
      OBVIOUS
    <3>v. PICK seen : seen = x.seen \cup page.val
      OBVIOUS
    <3>a. PICK at : at = x.at + x.size
      OBVIOUS
    <3>1. list \in Tables \cup {"none", "read"} /\ seen \in SUBSET Nat /\ at \in Nat
      BY <1>1, <1>4, <2>1, <2>2, <3>l, <3>v, <3>a
    <3>2. y = [x EXCEPT !.seen = seen, !.at = at, !.list = list]
      BY <2>y, <3>l, <3>v, <3>a
    <3> QED BY <1>2, <3>1, <3>2, <3>l, <3>v, <3>a DEF ReaderRecords
  <2>5. SupportShape'
    BY <1>1, <2>3, <2>4 DEF SInv, SupportShape, Rows
  <2>6. ASSUME NEW i \in x.want, i > n - x.at - x.size PROVE i \in y.seen
    <3>1. i > 0 /\ (i > n - x.at => i \in x.seen)
      BY <1>1, <1>x, <1>n DEF SInv, Turning
    <3>2. i \in Nat
      BY <2>1
    <3>3. CASE i > n - x.at
      BY <2>4, <3>1, <3>3
    <3>4. CASE ~ (i > n - x.at)
      <4>1. i \in 1..n /\ n - x.at - x.size < i /\ i <= n - x.at
        BY <1>4, <2>1, <2>6, <3>1, <3>2, <3>4
      <4> QED BY <2>2, <2>4, <4>1
    <3> QED BY <3>3, <3>4
  <2>7. ASSUME y.list = "read" PROVE x.want \subseteq y.seen
    <3>1. Cardinality(page.val) < x.size
      BY <1>1, <2>4, <2>7 DEF Tables
    <3>2. n - x.at - x.size < 0
      BY <1>3, <1>4, <1>n, <2>1, <3>1, ShortPageIsLast
    <3>3. \A i \in x.want : i > n - x.at - x.size
      BY <1>4, <2>1, <3>2
    <3> QED BY <2>6, <3>3
  <2>8. Turning'
    <3>1. readers'[r] = y /\ \A q \in Readers : q # r => readers'[q] = readers[q]
      BY <2>3 DEF SInv, SupportShape
    <3>2. ASSUME y.list \in Tables, NEW i \in y.want
          PROVE  i > 0 /\ (i > Len(tables[y.list]) - y.at => i \in y.seen)
      <4>1. y.list = x.list
        BY <1>1, <2>4, <3>2 DEF Tables
      <4>2. i \in Nat /\ i > 0
        BY <1>1, <1>x, <2>1, <2>4 DEF SInv, Turning
      <4>3. i > n - (x.at + x.size) => i > n - x.at - x.size
        BY <1>4, <2>1, <4>2
      <4> QED BY <1>n, <2>4, <2>6, <4>1, <4>2, <4>3
    <3>3. ASSUME NEW q \in Readers, q # r
          PROVE  LET z == readers'[q] IN
            /\ z.list \in Tables => \A i \in z.want : i > 0 /\ (i > Len(tables'[z.list]) - z.at => i \in z.seen)
            /\ z.list = "read" => z.want \subseteq z.seen
      BY <1>1, <3>1, <3>3 DEF SInv, Turning
    <3> QED BY <1>1, <2>4, <2>7, <3>1, <3>2, <3>3 DEF Turning
  <2> QED BY <1>5, <2>5, <2>8 DEF SInv
<1> QED BY <1>6, <1>7

LEMMA CloseListStep ==
  ASSUME SInv, NEW r \in Readers, CloseList(r)
  PROVE  SInv'
<1>1. readers' = [readers EXCEPT ![r] = NoReader] /\ UNCHANGED <<tables, roleOf, posted>>
  BY DEF CloseList
<1>2. NoReader \in ReaderRecords /\ NoReader.list = "none"
  BY DEF NoReader, ReaderRecords
<1>3. SupportShape'
  BY <1>1, <1>2 DEF SInv, SupportShape, Rows
<1>4. Turning'
  BY <1>1, <1>2 DEF SInv, SupportShape, Turning, Tables
<1>5. Filings'
  BY <1>1 DEF SInv, Filings, Int32
<1> QED BY <1>3, <1>4, <1>5 DEF SInv

LEMMA SupportInvariant == SupportSpec => []SInv
<1>1. ASSUME SInv, [SupportNext]_supportVars PROVE SInv'
  <2>1. CASE \E p \in People : PostFeedback(p)
    BY <1>1, <2>1, PostFeedbackStep
  <2>2. CASE \E p \in People : PostComplaint(p) \/ PostReport(p) \/ PostAuditLog(p)
    BY <1>1, <2>2, PostsStep
  <2>3. CASE \E p \in People : ChangeRole(p)
    BY <1>1, <2>3, ChangeRoleStep
  <2>4. CASE \E r \in Readers, list \in Tables, size \in Pages : BeginList(r, list, size)
    BY <1>1, <2>4, BeginListStep
  <2>5. CASE \E r \in Readers : TurnPage(r)
    BY <1>1, <2>5, TurnPageStep
  <2>6. CASE \E r \in Readers : CloseList(r)
    BY <1>1, <2>6, CloseListStep
  <2>7. CASE UNCHANGED supportVars
    BY <1>1, <2>7, InsertFails DEF supportVars
  <2> QED BY <1>1, <2>1, <2>2, <2>3, <2>4, <2>5, <2>6, <2>7 DEF SupportNext
<1> QED BY <1>1, SupportStart, PTL DEF SupportSpec

\* A rating that fits its column is stored as it was sent.
LEMMA OwnRemainder ==
  ASSUME NEW w \in Nat \ {0}, NEW k \in 0..(w - 1)
  PROVE  k % w = k
<1> DEFINE q == k \div w
           rest == k % w
           product == w * q
<1>1. k = w * q + rest /\ q \in Int /\ rest \in Int /\ 0 <= rest /\ rest < w
  OBVIOUS
<1> HIDE DEF q, rest
<1>2. /\ product \in Int /\ (q = 0 => product = 0)
      /\ (q >= 1 => product >= w) /\ (q <= -1 => product <= -w)
  BY <1>1
<1>3. k = product + rest
  BY <1>1
<1> HIDE DEF product
<1>4. q = 0
  BY <1>1, <1>2, <1>3
<1>5. rest = k
  BY <1>1, <1>2, <1>3, <1>4
<1> QED BY <1>5 DEF rest

LEMMA FittingRating ==
  ASSUME NEW n \in Int, n \in -IntLimit..(IntLimit - 1)
  PROVE  Int32(n) = n
<1>1. IntLimit \in Nat \ {0} /\ 2 * IntLimit \in Nat \ {0}
  BY SupportAssumption
<1>2. n + IntLimit \in 0..(2 * IntLimit - 1)
  BY <1>1
<1>3. (n + IntLimit) % (2 * IntLimit) = n + IntLimit
  BY <1>1, <1>2, OwnRemainder
<1> QED BY <1>1, <1>3 DEF Int32

\* Lists and ratings, for any number of people, readers, rows and page sizes
\* (query.sql.go, support_repo.go): whoever turns the pages to the end has seen
\* every row that was there at the beginning, whatever is inserted meanwhile;
\* a person's rows are found under the role they were filed with; a rating is
\* one of the five and, if it fits the column, the one that was sent.
THEOREM ListsAreComplete == SupportSpec => []SupportHolds
<1>1. SInv => SupportHolds
  <2> SUFFICES ASSUME SInv PROVE SupportHolds
    OBVIOUS
  <2>0. "complaints" \in Tables /\ "reports" \in Tables /\ "feedbacks" \in Tables
    BY DEF Tables
  <2>1. SupportTypeOK
    <3>1. ASSUME NEW t \in Tables, NEW i \in DOMAIN tables[t]
          PROVE  tables[t][i].who \in People /\ tables[t][i].type \in Roles \cup {"admin"}
      <4>1. tables[t][i] \in Filed
        BY DEF SInv, SupportShape
      <4> QED BY <4>1 DEF Filed
    <3> QED BY <3>1 DEF SInv, SupportShape, SupportTypeOK, ReaderRecords
  <2>2. \A r \in Readers : readers[r].list = "read" => readers[r].want \subseteq readers[r].seen
    BY DEF SInv, Turning
  <2>3. ASSUME NEW p \in People
        PROVE  /\ UNION {ListComplaintsByUser(p, type) : type \in Roles} =
                    {i \in DOMAIN tables["complaints"] : tables["complaints"][i].who = p}
               /\ roleOf[p] = "user" => ListReportsByUser(p, "merchant") = {}
    <3>1. \A i \in DOMAIN tables["complaints"] : tables["complaints"][i].type \in Roles
      BY DEF SInv, Filings
    <3>2. roleOf[p] = "user" => ListReportsByUser(p, "merchant") = {}
      BY DEF SInv, Filings, ListReportsByUser, OwnRows
    <3>3. UNION {ListComplaintsByUser(p, type) : type \in Roles} =
            {i \in DOMAIN tables["complaints"] : tables["complaints"][i].who = p}
      BY <3>1 DEF ListComplaintsByUser, OwnRows
    <3> QED BY <3>2, <3>3
  <2>4. ASSUME NEW i \in DOMAIN posted
        PROVE  /\ tables["feedbacks"][i].rating \in 1..5
               /\ posted[i] \in -IntLimit..(IntLimit - 1) =>
                    tables["feedbacks"][i].rating = posted[i]
    <3>1. posted[i] \in Int
      BY DEF SInv, SupportShape
    <3> QED BY <3>1, FittingRating DEF SInv, Filings
  <2> QED BY <2>1, <2>2, <2>3, <2>4 DEF SupportHolds, SInv, Filings
<1> QED BY <1>1, SupportInvariant, PTL

-----------------------------------------------------------------------------
(* Chat: the map of websockets, and the rows on their way to them. *)

SocketSteps == {"unused", "session", "store", "greet", "open", "delete", "forget", "closed"}
Everyone == Users \cup Staff \cup {Unknown}
MessageRecords == [id : Nat, sender : Everyone, receiver : Everyone, socket : Sockets \cup {None}]
RowRecords == [m : MessageRecords, id : Nat, by : Writers, read : BOOLEAN]

ChatShape ==
  /\ sockets \in [Sockets -> [step : SocketSteps, user : Users \cup {None}, at : Gateways \cup {None}]]
  /\ \A k \in Sockets : IF SocketAt(k, "unused") THEN sockets[k].at = None
                        ELSE sockets[k].user \in Users /\ sockets[k].at \in Gateways
  /\ connections \in [Gateways -> [Users -> Sockets \cup {None}]] /\ sessions \subseteq Users
  /\ incoming \in [Replicas -> Seq(MessageRecords)]
  /\ storing \in [Writers -> RowRecords \cup {NotStoring}]
  /\ published \in [Gateways -> Seq(RowRecords)] /\ pushing \in [Gateways -> {"receiver", "sender"}]
  /\ messages \subseteq RowRecords /\ IsFiniteSet(messages)
  /\ sent \in Seq(MessageRecords) /\ Len(sent) <= MaxMessages
  /\ received \in [Sockets -> Seq(RowRecords)]

\* The map.
SocketInv ==
  /\ EntriesAreLive /\ RunningIsInMap
  /\ \A k \in Sockets : sockets[k].step \in {"store", "greet", "open"} =>
       sockets[k].user \in sessions \cup unset
  /\ \A k \in stranded : k \in Sockets /\ SocketAt(k, "closed")

\* Rows: those on their way are copies of stored ones, each on its way once.
IsRow(row) == \E x \in messages : x.id = row.id /\ x.m = row.m /\ x.by = row.by
RowsInv ==
  /\ \A x \in messages : x.id \in 1..Cardinality(messages) /\ (x.by = "http" => x.m.socket = None)
  /\ \A x, y \in messages : x.id = y.id => x = y
  /\ \A x, y \in messages : x.m = y.m /\ x.by = y.by => x = y
  /\ \A w \in Writers : storing[w] # NotStoring =>
       /\ IsRow(storing[w]) /\ storing[w].by = w
       /\ \A g \in Gateways : \A i \in DOMAIN published[g] : published[g][i].id # storing[w].id
  /\ \A g \in Gateways : \A i \in DOMAIN published[g] : IsRow(published[g][i])
  /\ \A k \in Sockets : \A i \in DOMAIN received[k] :
       /\ IsRow(received[k][i]) /\ ~ SocketAt(k, "unused")
       /\ sockets[k].user \in {received[k][i].m.sender, received[k][i].m.receiver}

\* The messages one replica hears, stores and publishes, in the order they were sent.
StoredWereSent == \A x \in messages : x.m.id <= Len(sent)
Heard(r) ==
  \A i \in DOMAIN incoming[r] :
    /\ incoming[r][i].id <= Len(sent)
    /\ \A j \in DOMAIN incoming[r] : i < j => incoming[r][i].id < incoming[r][j].id
    /\ \A x \in messages : x.by = r => x.m.id < incoming[r][i].id
Behind(r, row) == storing[r] # NotStoring => row.m.id <= storing[r].m.id
OnTheWay(r) ==
  \A g \in Gateways : \A i \in DOMAIN published[g] : published[g][i].by = r =>
    /\ Behind(r, published[g][i])
    /\ \A j \in DOMAIN published[g] :
         i < j /\ published[g][j].by = r => published[g][i].m.id <= published[g][j].m.id
Arrived(r) ==
  \A k \in Sockets : \A i \in DOMAIN received[k] : received[k][i].by = r =>
    /\ Behind(r, received[k][i])
    /\ \A j \in DOMAIN published[sockets[k].at] :
         published[sockets[k].at][j].by = r =>
           received[k][i].m.id <= published[sockets[k].at][j].m.id
    /\ \A j \in DOMAIN received[k] :
         i < j /\ received[k][j].by = r => received[k][i].m.id <= received[k][j].m.id
OrderInv == StoredWereSent /\ \A r \in Replicas : Heard(r) /\ OnTheWay(r) /\ Arrived(r)

Has(k, id) == \E i \in DOMAIN received[k] : received[k][i].id = id
DueInv ==
  /\ \A d \in due :
       /\ d.socket \in Sockets /\ SocketAt(d.socket, "open") /\ EntryOf(d.socket) = d.socket
       /\ \E x \in messages : x.id = d.row /\ sockets[d.socket].user \in {x.m.sender, x.m.receiver}
  /\ DueArrives
  /\ \A g \in Gateways : pushing[g] = "sender" =>
       /\ published[g] # <<>>
       /\ \A d \in due :
            /\ sockets[d.socket].at = g /\ d.row = published[g][1].id
            /\ sockets[d.socket].user = published[g][1].m.receiver
            => Has(d.socket, d.row)

CInv == ChatShape /\ SocketInv /\ RowsInv /\ OrderInv /\ DueInv

-----------------------------------------------------------------------------
SocketRecords == [step : SocketSteps, user : Users \cup {None}, at : Gateways \cup {None}]

LEMMA SocketMoves ==
  ASSUME ChatShape, NEW k \in Sockets, NEW step \in SocketSteps, step # "unused",
         ~ SocketAt(k, "unused"), SocketTo(k, step)
  PROVE  /\ sockets' \in [Sockets -> SocketRecords]
         /\ sockets'[k].step = step /\ sockets'[k].user = sockets[k].user
         /\ sockets'[k].at = sockets[k].at
         /\ \A j \in Sockets : j # k => sockets'[j] = sockets[j]
         /\ sockets[k].user \in Users /\ sockets[k].at \in Gateways
         /\ \A j \in Sockets : IF SocketAt(j, "unused")' THEN sockets'[j].at = None
                               ELSE sockets'[j].user \in Users /\ sockets'[j].at \in Gateways
<1>1. sockets[k] \in SocketRecords
  BY DEF ChatShape, SocketRecords
<1>2. [sockets[k] EXCEPT !.step = step] \in SocketRecords
  BY <1>1 DEF SocketRecords
<1>3. sockets' = [sockets EXCEPT ![k] = [sockets[k] EXCEPT !.step = step]]
  BY DEF SocketTo
<1>4. /\ sockets' \in [Sockets -> SocketRecords]
      /\ sockets'[k] = [sockets[k] EXCEPT !.step = step]
      /\ \A j \in Sockets : j # k => sockets'[j] = sockets[j]
  BY <1>2, <1>3 DEF ChatShape, SocketRecords
<1>5. /\ sockets'[k].step = step /\ sockets'[k].user = sockets[k].user
      /\ sockets'[k].at = sockets[k].at
  BY <1>1, <1>4 DEF SocketRecords
<1> QED BY <1>4, <1>5 DEF ChatShape, SocketAt

\* Sockets change, and what is due stays with those that stay open.
LEMMA SocketsChange ==
  ASSUME CInv, ChatShape',
         UNCHANGED <<incoming, storing, published, pushing, messages, sent, received>>,
         \A k \in Sockets : ~ SocketAt(k, "unused") =>
           /\ ~ SocketAt(k, "unused")' /\ sockets'[k].user = sockets[k].user
           /\ sockets'[k].at = sockets[k].at,
         due' \subseteq due,
         \A d \in due' : SocketAt(d.socket, "open")' /\ EntryOf(d.socket)' = d.socket
  PROVE  RowsInv' /\ OrderInv' /\ DueInv'
<1>1. RowsInv'
  BY DEF CInv, RowsInv, IsRow
<1>2. OrderInv'
  <2>1. \A k \in Sockets : \A i \in DOMAIN received[k] : sockets'[k].at = sockets[k].at
    BY DEF CInv, RowsInv
  <2> QED BY <2>1 DEF CInv, OrderInv, StoredWereSent, Heard, OnTheWay, Arrived, Behind
<1>3. DueInv'
  <2>1. \A d \in due' : /\ d.socket \in Sockets /\ sockets'[d.socket].user = sockets[d.socket].user
                        /\ sockets'[d.socket].at = sockets[d.socket].at /\ d \in due
    BY DEF CInv, DueInv, SocketAt
  <2>2. ASSUME NEW d \in due'
        PROVE  /\ d.socket \in Sockets
               /\ \E x \in messages' : x.id = d.row /\ sockets'[d.socket].user \in {x.m.sender, x.m.receiver}
    BY <2>1, <2>2 DEF CInv, DueInv
  <2>3. DueArrives'
    BY <2>1 DEF CInv, DueInv, DueArrives
  <2>4. ASSUME NEW g \in Gateways, pushing'[g] = "sender"
        PROVE  /\ published'[g] # <<>>
               /\ \A d \in due' :
                    /\ sockets'[d.socket].at = g /\ d.row = published'[g][1].id
                    /\ sockets'[d.socket].user = published'[g][1].m.receiver
                    => Has(d.socket, d.row)'
    BY <2>1, <2>4 DEF CInv, DueInv, Has
  <2> QED BY <2>2, <2>3, <2>4 DEF DueInv
<1> QED BY <1>1, <1>2, <1>3

LEMMA ConnectStep ==
  ASSUME CInv, NEW k \in Sockets, NEW g \in Gateways, NEW u \in Users, Connect(k, g, u)
  PROVE  CInv'
<1>1. /\ SocketAt(k, "unused")
      /\ sockets' = [sockets EXCEPT ![k] = [step |-> "session", user |-> u, at |-> g]]
      /\ UNCHANGED <<connections, sessions, due, cut, unset, incoming, storing, published, pushing,
                     messages, sent, received, stranded>>
  BY DEF Connect, NoTraffic
<1>2. /\ sockets' \in [Sockets -> SocketRecords]
      /\ sockets'[k] = [step |-> "session", user |-> u, at |-> g]
      /\ \A j \in Sockets : j # k => sockets'[j] = sockets[j]
  BY <1>1 DEF CInv, ChatShape, SocketRecords, SocketSteps
<1>3. ChatShape'
  BY <1>1, <1>2 DEF CInv, ChatShape, SocketRecords, SocketAt
<1>4. SocketInv'
  <2>1. EntriesAreLive'
    <3>1. \A h \in Gateways, v \in Users : connections[h][v] # None => connections[h][v] # k
      BY <1>1 DEF CInv, SocketInv, EntriesAreLive, SocketAt
    <3>2. \A h \in Gateways, v \in Users : connections[h][v] \in Sockets \cup {None}
      BY DEF CInv, ChatShape
    <3> QED BY <1>1, <1>2, <3>1, <3>2 DEF CInv, SocketInv, EntriesAreLive
  <2>2. RunningIsInMap'
    <3> SUFFICES ASSUME NEW j \in Sockets, Reached(j)'
                 PROVE  \/ EntryOf(j)' = j
                        \/ /\ j \in cut'
                           /\ \E i \in Sockets \ {j} :
                                /\ sockets'[i].user = sockets'[j].user
                                /\ sockets'[i].at = sockets'[j].at
                                /\ sockets'[i].step \in {"greet", "open", "delete", "forget", "closed"}
      BY DEF RunningIsInMap
    <3>1. j # k /\ Reached(j) /\ EntryOf(j)' = EntryOf(j)
      BY <1>1, <1>2 DEF Reached, EntryOf
    <3>2. CASE EntryOf(j) = j
      BY <3>1, <3>2
    <3>3. CASE EntryOf(j) # j
      <4>1. PICK i \in Sockets \ {j} :
              /\ sockets[i].user = sockets[j].user /\ sockets[i].at = sockets[j].at
              /\ sockets[i].step \in {"greet", "open", "delete", "forget", "closed"}
        BY <3>1, <3>3 DEF CInv, SocketInv, RunningIsInMap
      <4>2. j \in cut /\ i # k
        BY <1>1, <3>1, <3>3, <4>1 DEF CInv, SocketInv, RunningIsInMap, SocketAt
      <4> QED BY <1>1, <1>2, <3>1, <4>1, <4>2
    <3> QED BY <3>2, <3>3
  <2> QED BY <1>1, <1>2, <2>1, <2>2 DEF CInv, SocketInv, SocketAt
<1>5. RowsInv' /\ OrderInv' /\ DueInv'
  <2>1. \A d \in due' : SocketAt(d.socket, "open")' /\ EntryOf(d.socket)' = d.socket
    BY <1>1, <1>2 DEF CInv, DueInv, SocketAt, EntryOf
  <2> QED BY <1>1, <1>2, <1>3, <2>1, SocketsChange DEF SocketAt
<1> QED BY <1>3, <1>4, <1>5 DEF CInv

\* A connection goes on, and the map changes at most at its own entry.  Steps
\* only go on, so whoever took an entry is still there.
LEMMA InMap ==
  ASSUME CInv, ChatShape', NEW k \in Sockets,
         ~ SocketAt(k, "unused"), sockets'[k].user = sockets[k].user, sockets'[k].at = sockets[k].at,
         \A j \in Sockets : j # k => sockets'[j] = sockets[j],
         sockets[k].step \in {"greet", "open", "delete", "forget", "closed"} =>
           sockets'[k].step \in {"greet", "open", "delete", "forget", "closed"},
         Reached(k)' => (Reached(k) /\ connections' = connections) \/ EntryOf(k)' = k,
         \/ connections' = connections /\ cut' = cut
         \/ /\ CutOff(k) /\ sockets'[k].step \in {"greet", "open", "delete", "forget", "closed"}
            /\ \E e \in {k, None} :
                 connections' = [connections EXCEPT ![sockets[k].at][sockets[k].user] = e]
  PROVE  RunningIsInMap'
<1> SUFFICES ASSUME NEW j \in Sockets, Reached(j)', EntryOf(j)' # j
             PROVE  /\ j \in cut'
                    /\ \E i \in Sockets \ {j} :
                         /\ sockets'[i].user = sockets'[j].user
                         /\ sockets'[i].at = sockets'[j].at
                         /\ sockets'[i].step \in {"greet", "open", "delete", "forget", "closed"}
  BY DEF RunningIsInMap
<1>0. Reached(j) /\ sockets'[j].user = sockets[j].user /\ sockets'[j].at = sockets[j].at
  BY DEF Reached
<1>1. /\ \A i \in Sockets : ~ SocketAt(i, "unused") => sockets[i].user \in Users /\ sockets[i].at \in Gateways
      /\ connections \in [Gateways -> [Users -> Sockets \cup {None}]]
  BY DEF CInv, ChatShape
<1>2. CASE EntryOf(j) # j
  <2>1. PICK i \in Sockets \ {j} :
          /\ sockets[i].user = sockets[j].user /\ sockets[i].at = sockets[j].at
          /\ sockets[i].step \in {"greet", "open", "delete", "forget", "closed"}
    BY <1>0, <1>2 DEF CInv, SocketInv, RunningIsInMap
  <2>2. j \in cut /\ cut \subseteq cut'
    BY <1>0, <1>2 DEF CInv, SocketInv, RunningIsInMap, CutOff
  <2>3. /\ sockets'[i].user = sockets'[j].user /\ sockets'[i].at = sockets'[j].at
        /\ sockets'[i].step \in {"greet", "open", "delete", "forget", "closed"}
    BY <1>0, <2>1
  <2> QED BY <2>2, <2>3
<1>3. CASE EntryOf(j) = j
  <2>1. connections' # connections
    BY <1>0, <1>3 DEF EntryOf
  <2>2. j # k
    BY <2>1
  <2>3. PICK e \in {k, None} : connections' = [connections EXCEPT ![sockets[k].at][sockets[k].user] = e]
    BY <2>1
  <2>4. sockets[j].at = sockets[k].at /\ sockets[j].user = sockets[k].user
    <3>1. ~ SocketAt(j, "unused")
      BY <1>0 DEF Reached, SocketAt
    <3>2. sockets[j].user \in Users /\ sockets[j].at \in Gateways
          /\ sockets[k].user \in Users /\ sockets[k].at \in Gateways
      BY <1>1, <3>1
    <3> QED BY <1>0, <1>1, <1>3, <2>3, <3>2 DEF EntryOf
  <2>5. EntryOf(k) = j /\ j # None
    BY <1>3, <2>4, ChatAssumption DEF EntryOf
  <2>6. j \in cut'
    BY <2>1, <2>2, <2>5 DEF CutOff
  <2> QED BY <1>0, <2>1, <2>2, <2>4, <2>6
<1> QED BY <1>2, <1>3

LEMMA MovesKeepShape ==
  ASSUME ChatShape, NEW k \in Sockets, NEW step \in SocketSteps, step # "unused",
         ~ SocketAt(k, "unused"), SocketTo(k, step),
         UNCHANGED <<incoming, storing, published, pushing, messages, sent, received>>,
         connections' \in [Gateways -> [Users -> Sockets \cup {None}]], sessions' \subseteq Users
  PROVE  ChatShape'
<1>1. /\ sockets' \in [Sockets -> SocketRecords]
      /\ \A j \in Sockets : IF SocketAt(j, "unused")' THEN sockets'[j].at = None
                            ELSE sockets'[j].user \in Users /\ sockets'[j].at \in Gateways
  BY SocketMoves
<1> QED BY <1>1 DEF ChatShape, SocketRecords

\* What is due to a connection whose entry does not change stays due.
LEMMA DueStays ==
  ASSUME CInv, NEW k \in Sockets, NEW step \in SocketSteps, step # "unused", step # "open",
         ~ SocketAt(k, "unused"), ~ SocketAt(k, "open"), SocketTo(k, step),
         NEW e \in {k, None},
         connections' = [connections EXCEPT ![sockets[k].at][sockets[k].user] = e],
         due' = {d \in due : d.socket # EntryOf(k)}
  PROVE  \A d \in due' : SocketAt(d.socket, "open")' /\ EntryOf(d.socket)' = d.socket
<1> SUFFICES ASSUME NEW d \in due'
             PROVE  SocketAt(d.socket, "open")' /\ EntryOf(d.socket)' = d.socket
  OBVIOUS
<1>m. PICK j \in Sockets : j = d.socket
  BY DEF CInv, DueInv
<1>1. SocketAt(j, "open") /\ EntryOf(j) = j /\ j # EntryOf(k) /\ j # k
  BY <1>m DEF CInv, DueInv
<1>2. sockets'[j] = sockets[j]
  BY <1>1, SocketMoves DEF CInv
<1>3. sockets[j].user \in Users /\ sockets[j].at \in Gateways
      /\ sockets[k].user \in Users /\ sockets[k].at \in Gateways
  BY <1>1 DEF CInv, ChatShape, SocketAt
<1>4. ~ (sockets[j].at = sockets[k].at /\ sockets[j].user = sockets[k].user)
  BY <1>1 DEF EntryOf
<1>5. connections'[sockets[j].at][sockets[j].user] = connections[sockets[j].at][sockets[j].user]
  BY <1>3, <1>4 DEF CInv, ChatShape
<1> QED BY <1>m, <1>1, <1>2, <1>5 DEF SocketAt, EntryOf

LEMMA SetSessionStep ==
  ASSUME CInv, NEW k \in Sockets, SetSession(k)
  PROVE  CInv'
<1>1. /\ SocketAt(k, "session") /\ SocketTo(k, "store") /\ NoTraffic
      /\ UNCHANGED <<connections, due, cut>>
      /\ sessions \cup unset \cup {sockets[k].user} \subseteq sessions' \cup unset'
      /\ sessions' \subseteq sessions \cup {sockets[k].user}
  BY DEF SetSession
<1>2. ~ SocketAt(k, "unused") /\ "store" \in SocketSteps
  BY <1>1 DEF SocketAt, SocketSteps
<1>3. /\ sockets'[k].step = "store" /\ sockets'[k].user = sockets[k].user
      /\ sockets'[k].at = sockets[k].at /\ sockets[k].user \in Users
      /\ \A j \in Sockets : j # k => sockets'[j] = sockets[j]
  BY <1>1, <1>2, SocketMoves DEF CInv
<1>4. ChatShape'
  <2>1. sessions' \subseteq Users /\ connections' \in [Gateways -> [Users -> Sockets \cup {None}]]
    BY <1>1, <1>3 DEF CInv, ChatShape
  <2> QED BY <1>1, <1>2, <2>1, MovesKeepShape DEF CInv, NoTraffic
<1>5. SocketInv'
  <2>1. k \notin stranded
    BY <1>1 DEF CInv, SocketInv, SocketAt
  <2>2. EntriesAreLive'
    <3>1. \A h \in Gateways, v \in Users : connections[h][v] # None => connections[h][v] # k
      BY <1>1, <2>1 DEF CInv, SocketInv, EntriesAreLive, SocketAt
    <3>2. \A h \in Gateways, v \in Users : connections[h][v] \in Sockets \cup {None}
      BY DEF CInv, ChatShape
    <3> QED BY <1>1, <1>3, <3>1, <3>2 DEF CInv, SocketInv, EntriesAreLive, NoTraffic
  <2>3. RunningIsInMap'
    BY <1>1, <1>2, <1>3, <1>4, InMap DEF Reached, SocketAt
  <2>4. \A j \in Sockets : sockets'[j].step \in {"store", "greet", "open"} =>
          sockets'[j].user \in sessions' \cup unset'
    BY <1>1, <1>3 DEF CInv, SocketInv
  <2>5. \A j \in stranded' : j \in Sockets /\ SocketAt(j, "closed")'
    BY <1>1, <1>3, <2>1 DEF CInv, SocketInv, NoTraffic, SocketAt
  <2> QED BY <2>2, <2>3, <2>4, <2>5 DEF SocketInv
<1>6. RowsInv' /\ OrderInv' /\ DueInv'
  <2>1. \A d \in due' : SocketAt(d.socket, "open")' /\ EntryOf(d.socket)' = d.socket
    BY <1>1, <1>3 DEF CInv, DueInv, SocketAt, EntryOf
  <2>2. \A j \in Sockets : ~ SocketAt(j, "unused") =>
          /\ ~ SocketAt(j, "unused")' /\ sockets'[j].user = sockets[j].user
          /\ sockets'[j].at = sockets[j].at
    BY <1>3 DEF SocketAt
  <2> QED BY <1>1, <1>4, <2>1, <2>2, SocketsChange DEF NoTraffic
<1> QED BY <1>4, <1>5, <1>6 DEF CInv

LEMMA StoreStep ==
  ASSUME CInv, NEW k \in Sockets, Store(k)
  PROVE  CInv'
<1>1. /\ SocketAt(k, "store") /\ SocketTo(k, "greet") /\ CutOff(k) /\ NoTraffic
      /\ connections' = [connections EXCEPT ![sockets[k].at][sockets[k].user] = k]
      /\ due' = {d \in due : d.socket # EntryOf(k)} /\ UNCHANGED <<sessions, unset>>
  BY DEF Store
<1>2. ~ SocketAt(k, "unused") /\ ~ SocketAt(k, "open") /\ "greet" \in SocketSteps
  BY <1>1 DEF SocketAt, SocketSteps
<1>3. /\ sockets'[k].step = "greet" /\ sockets'[k].user = sockets[k].user
      /\ sockets'[k].at = sockets[k].at /\ sockets[k].user \in Users /\ sockets[k].at \in Gateways
      /\ \A j \in Sockets : j # k => sockets'[j] = sockets[j]
  BY <1>1, <1>2, SocketMoves DEF CInv
<1>4. /\ connections' \in [Gateways -> [Users -> Sockets \cup {None}]]
      /\ connections'[sockets[k].at][sockets[k].user] = k
      /\ \A h \in Gateways, v \in Users :
           h # sockets[k].at \/ v # sockets[k].user => connections'[h][v] = connections[h][v]
  BY <1>1, <1>3 DEF CInv, ChatShape
<1>5. ChatShape'
  <2>1. sessions' \subseteq Users
    BY <1>1 DEF CInv, ChatShape
  <2> QED BY <1>1, <1>2, <1>4, <2>1, MovesKeepShape DEF CInv, NoTraffic
<1>6. SocketInv'
  <2>1. EntriesAreLive'
    <3> SUFFICES ASSUME NEW h \in Gateways, NEW v \in Users, NEW c, c = connections'[h][v], c # None
                 PROVE  /\ sockets'[c].user = v /\ sockets'[c].at = h
                        /\ sockets'[c].step \in {"greet", "open", "delete"} \/ c \in stranded'
      BY DEF EntriesAreLive
    <3>1. CASE h = sockets[k].at /\ v = sockets[k].user
      BY <1>3, <1>4, <3>1
    <3>2. CASE h # sockets[k].at \/ v # sockets[k].user
      <4>1. /\ c = connections[h][v] /\ c \in Sockets
            /\ sockets[c].user = v /\ sockets[c].at = h
            /\ sockets[c].step \in {"greet", "open", "delete"} \/ c \in stranded
        BY <1>4, <3>2 DEF CInv, ChatShape, SocketInv, EntriesAreLive
      <4> QED BY <1>1, <1>3, <3>2, <4>1 DEF NoTraffic
    <3> QED BY <3>1, <3>2
  <2>2. RunningIsInMap'
    <3>1. EntryOf(k)' = k
      BY <1>3, <1>4 DEF EntryOf
    <3>2. \E e \in {k, None} : connections' = [connections EXCEPT ![sockets[k].at][sockets[k].user] = e]
      BY <1>1
    <3> QED BY <1>1, <1>2, <1>3, <1>5, <3>1, <3>2, InMap
  <2>3. \A j \in Sockets : sockets'[j].step \in {"store", "greet", "open"} =>
          sockets'[j].user \in sessions' \cup unset'
    BY <1>1, <1>3 DEF CInv, SocketInv, SocketAt
  <2>4. \A j \in stranded' : j \in Sockets /\ SocketAt(j, "closed")'
    BY <1>1, <1>3 DEF CInv, SocketInv, NoTraffic, SocketAt
  <2> QED BY <2>1, <2>2, <2>3, <2>4 DEF SocketInv
<1>7. RowsInv' /\ OrderInv' /\ DueInv'
  <2>1. \A d \in due' : SocketAt(d.socket, "open")' /\ EntryOf(d.socket)' = d.socket
    BY <1>1, <1>2, DueStays
  <2>2. \A j \in Sockets : ~ SocketAt(j, "unused") =>
          /\ ~ SocketAt(j, "unused")' /\ sockets'[j].user = sockets[j].user
          /\ sockets'[j].at = sockets[j].at
    BY <1>3 DEF SocketAt
  <2>3. due' \subseteq due
    BY <1>1
  <2> QED BY <1>1, <1>5, <2>1, <2>2, <2>3, SocketsChange DEF NoTraffic
<1> QED BY <1>5, <1>6, <1>7 DEF CInv

LEMMA DeleteStep ==
  ASSUME CInv, NEW k \in Sockets, Delete(k)
  PROVE  CInv'
<1>1. /\ SocketAt(k, "delete") /\ SocketTo(k, "forget") /\ CutOff(k) /\ NoTraffic
      /\ connections' = [connections EXCEPT ![sockets[k].at][sockets[k].user] = None]
      /\ due' = {d \in due : d.socket # EntryOf(k)} /\ UNCHANGED <<sessions, unset>>
  BY DEF Delete
<1>2. ~ SocketAt(k, "unused") /\ ~ SocketAt(k, "open") /\ "forget" \in SocketSteps
  BY <1>1 DEF SocketAt, SocketSteps
<1>3. /\ sockets'[k].step = "forget" /\ sockets'[k].user = sockets[k].user
      /\ sockets'[k].at = sockets[k].at /\ sockets[k].user \in Users /\ sockets[k].at \in Gateways
      /\ \A j \in Sockets : j # k => sockets'[j] = sockets[j]
  BY <1>1, <1>2, SocketMoves DEF CInv
<1>4. /\ connections' \in [Gateways -> [Users -> Sockets \cup {None}]]
      /\ connections'[sockets[k].at][sockets[k].user] = None
      /\ \A h \in Gateways, v \in Users :
           h # sockets[k].at \/ v # sockets[k].user => connections'[h][v] = connections[h][v]
  BY <1>1, <1>3 DEF CInv, ChatShape
<1>5. ChatShape'
  <2>1. sessions' \subseteq Users
    BY <1>1 DEF CInv, ChatShape
  <2> QED BY <1>1, <1>2, <1>4, <2>1, MovesKeepShape DEF CInv, NoTraffic
<1>6. SocketInv'
  <2>1. EntriesAreLive'
    <3> SUFFICES ASSUME NEW h \in Gateways, NEW v \in Users, NEW c, c = connections'[h][v], c # None
                 PROVE  /\ sockets'[c].user = v /\ sockets'[c].at = h
                        /\ sockets'[c].step \in {"greet", "open", "delete"} \/ c \in stranded'
      BY DEF EntriesAreLive
    <3>1. h # sockets[k].at \/ v # sockets[k].user
      BY <1>4
    <3>2. /\ c = connections[h][v] /\ c \in Sockets
          /\ sockets[c].user = v /\ sockets[c].at = h
          /\ sockets[c].step \in {"greet", "open", "delete"} \/ c \in stranded
      BY <1>4, <3>1 DEF CInv, ChatShape, SocketInv, EntriesAreLive
    <3> QED BY <1>1, <1>3, <3>1, <3>2 DEF NoTraffic
  <2>2. RunningIsInMap'
    <3>2. \E e \in {k, None} : connections' = [connections EXCEPT ![sockets[k].at][sockets[k].user] = e]
      BY <1>1
    <3>3. ~ Reached(k)'
      BY <1>3 DEF Reached
    <3> QED BY <1>1, <1>2, <1>3, <1>5, <3>2, <3>3, InMap
  <2>3. \A j \in Sockets : sockets'[j].step \in {"store", "greet", "open"} =>
          sockets'[j].user \in sessions' \cup unset'
    BY <1>1, <1>3 DEF CInv, SocketInv, SocketAt
  <2>4. \A j \in stranded' : j \in Sockets /\ SocketAt(j, "closed")'
    BY <1>1, <1>3 DEF CInv, SocketInv, NoTraffic, SocketAt
  <2> QED BY <2>1, <2>2, <2>3, <2>4 DEF SocketInv
<1>7. RowsInv' /\ OrderInv' /\ DueInv'
  <2>1. \A d \in due' : SocketAt(d.socket, "open")' /\ EntryOf(d.socket)' = d.socket
    BY <1>1, <1>2, DueStays
  <2>2. \A j \in Sockets : ~ SocketAt(j, "unused") =>
          /\ ~ SocketAt(j, "unused")' /\ sockets'[j].user = sockets[j].user
          /\ sockets'[j].at = sockets[j].at
    BY <1>3 DEF SocketAt
  <2>3. due' \subseteq due
    BY <1>1
  <2> QED BY <1>1, <1>5, <2>1, <2>2, <2>3, SocketsChange DEF NoTraffic
<1> QED BY <1>5, <1>6, <1>7 DEF CInv

\* The steps that leave the map alone.
LEMMA GreetStep ==
  ASSUME CInv, NEW k \in Sockets, Greet(k) \/ Disconnect(k) \/ Forget(k)
  PROVE  CInv'
<1>0. PICK step \in {"open", "delete", "closed"} :
        /\ SocketTo(k, step) /\ NoTraffic /\ UNCHANGED <<connections, cut>>
        /\ step = "open" => SocketAt(k, "greet")
        /\ step = "delete" => SocketAt(k, "open")
        /\ step = "closed" => SocketAt(k, "forget")
        /\ due' \subseteq due
        /\ step = "delete" => due' = {d \in due : d.socket # k}
        /\ sessions' \subseteq sessions
        /\ step # "closed" => UNCHANGED <<sessions, unset>>
        /\ step = "closed" => /\ sessions \ {sockets[k].user} \subseteq sessions'
                              /\ unset' = unset \cup {sockets[j].user : j \in Sharing(k)}
  <2>1. CASE Greet(k)
    BY <2>1 DEF Greet
  <2>2. CASE Disconnect(k)
    BY <2>2 DEF Disconnect
  <2>3. CASE Forget(k)
    BY <2>3 DEF Forget
  <2> QED BY <2>1, <2>2, <2>3
<1>1. /\ SocketTo(k, step) /\ NoTraffic /\ UNCHANGED <<connections, cut>>
      /\ SocketAt(k, "greet") \/ SocketAt(k, "open") \/ SocketAt(k, "forget")
  BY <1>0
<1>2. ~ SocketAt(k, "unused") /\ step \in SocketSteps /\ step # "unused"
  BY <1>1 DEF SocketAt, SocketSteps
<1>3. /\ sockets'[k].step = step /\ sockets'[k].user = sockets[k].user
      /\ sockets'[k].at = sockets[k].at /\ sockets[k].user \in Users
      /\ \A j \in Sockets : j # k => sockets'[j] = sockets[j]
  BY <1>1, <1>2, SocketMoves DEF CInv
<1>4. ChatShape'
  <2>1. sessions' \subseteq Users /\ connections' \in [Gateways -> [Users -> Sockets \cup {None}]]
    BY <1>0 DEF CInv, ChatShape
  <2> QED BY <1>1, <1>2, <2>1, MovesKeepShape DEF CInv, NoTraffic
<1>5. SocketInv'
  <2>1. k \notin stranded
    BY <1>1 DEF CInv, SocketInv, SocketAt
  <2>2. EntriesAreLive'
    <3> SUFFICES ASSUME NEW h \in Gateways, NEW v \in Users, NEW c, c = connections'[h][v], c # None
                 PROVE  /\ sockets'[c].user = v /\ sockets'[c].at = h
                        /\ sockets'[c].step \in {"greet", "open", "delete"} \/ c \in stranded'
      BY DEF EntriesAreLive
    <3>1. /\ c = connections[h][v] /\ c \in Sockets
          /\ sockets[c].user = v /\ sockets[c].at = h
          /\ sockets[c].step \in {"greet", "open", "delete"} \/ c \in stranded
      BY <1>1 DEF CInv, ChatShape, SocketInv, EntriesAreLive
    <3>2. c = k => step # "closed"
      BY <1>0, <2>1, <3>1 DEF SocketAt
    <3> QED BY <1>1, <1>3, <3>1, <3>2 DEF NoTraffic
  <2>3. RunningIsInMap'
    <3>1. Reached(k)' => (Reached(k) /\ connections' = connections) \/ EntryOf(k)' = k
      BY <1>0, <1>3 DEF Reached, SocketAt
    <3>2. sockets'[k].step \in {"greet", "open", "delete", "forget", "closed"}
      BY <1>3
    <3> QED BY <1>1, <1>2, <1>3, <1>4, <3>1, <3>2, InMap
  <2>4. ASSUME NEW j \in Sockets, sockets'[j].step \in {"store", "greet", "open"}
        PROVE  sockets'[j].user \in sessions' \cup unset'
    <3>1. CASE step # "closed"
      <4>1. sockets[j].step \in {"store", "greet", "open"} /\ sockets'[j].user = sockets[j].user
        BY <1>0, <1>3, <2>4, <3>1 DEF SocketAt
      <4> QED BY <1>0, <3>1, <4>1 DEF CInv, SocketInv
    <3>2. CASE step = "closed"
      <4>1. j # k /\ sockets[j].step \in {"store", "greet", "open"} /\ sockets'[j].user = sockets[j].user
        BY <1>3, <2>4, <3>2
      <4>2. sockets[j].user = sockets[k].user => j \in Sharing(k)
        BY <4>1 DEF Sharing
      <4>3. sockets[j].user \in sessions \cup unset
        BY <4>1 DEF CInv, SocketInv
      <4> QED BY <1>0, <3>2, <4>1, <4>2, <4>3
    <3> QED BY <3>1, <3>2
  <2>5. \A j \in stranded' : j \in Sockets /\ SocketAt(j, "closed")'
    BY <1>1, <1>3, <2>1 DEF CInv, SocketInv, NoTraffic, SocketAt
  <2> QED BY <2>2, <2>3, <2>4, <2>5 DEF SocketInv
<1>6. RowsInv' /\ OrderInv' /\ DueInv'
  <2>1. ASSUME NEW d \in due'
        PROVE  SocketAt(d.socket, "open")' /\ EntryOf(d.socket)' = d.socket
    <3>m. PICK j \in Sockets : j = d.socket
      BY <1>0, <2>1 DEF CInv, DueInv
    <3>1. SocketAt(j, "open") /\ EntryOf(j) = j
      BY <1>0, <2>1, <3>m DEF CInv, DueInv
    <3>2. j # k
      BY <1>0, <2>1, <3>m, <3>1 DEF SocketAt
    <3> QED BY <1>1, <1>3, <3>m, <3>1, <3>2 DEF SocketAt, EntryOf
  <2>2. \A j \in Sockets : ~ SocketAt(j, "unused") =>
          /\ ~ SocketAt(j, "unused")' /\ sockets'[j].user = sockets[j].user
          /\ sockets'[j].at = sockets[j].at
    BY <1>2, <1>3 DEF SocketAt
  <2>3. due' \subseteq due
    BY <1>0
  <2> QED BY <1>1, <1>4, <2>1, <2>2, <2>3, SocketsChange DEF NoTraffic
<1> QED BY <1>4, <1>5, <1>6 DEF CInv

-----------------------------------------------------------------------------
\* Messages and rows on their way: no step of them touches the map.
LEMMA MapStays ==
  ASSUME CInv, NoSockets
  PROVE  SocketInv'
BY DEF CInv, NoSockets, SocketInv, EntriesAreLive, RunningIsInMap, Reached, EntryOf, SocketAt

LEMMA PublishStep ==
  ASSUME CInv, NEW k \in Sockets, NEW p \in Everyone, Publish(k, p)
  PROVE  CInv'
<1>m. PICK m : m = Message(sockets[k].user, p, k)
  OBVIOUS
<1>1. /\ SocketAt(k, "open") /\ Len(sent) < MaxMessages /\ sent' = Append(sent, m)
      /\ incoming' = Queued(incoming, m) \/ UNCHANGED incoming
      /\ NoSockets /\ UNCHANGED <<storing, published, pushing, messages, received, due>>
  BY <1>m DEF Publish
<1>t. /\ sent \in Seq(MessageRecords) /\ Len(sent) <= MaxMessages
      /\ incoming \in [Replicas -> Seq(MessageRecords)]
  BY DEF CInv, ChatShape
<1>2. m \in MessageRecords /\ m.id = Len(sent) + 1
  <2>1. sockets[k].user \in Users
    BY <1>1 DEF CInv, ChatShape, SocketAt
  <2> QED BY <1>m, <1>t, <2>1 DEF Message, MessageRecords, Everyone
<1>3. sent' \in Seq(MessageRecords) /\ Len(sent') = Len(sent) + 1
  BY <1>1, <1>2, <1>t, AppendProperties
<1>4. /\ incoming' \in [Replicas -> Seq(MessageRecords)]
      /\ \A r \in Replicas : incoming'[r] = incoming[r] \/ incoming'[r] = Append(incoming[r], m)
  <2>1. \A r \in Replicas : Append(incoming[r], m) \in Seq(MessageRecords)
    BY <1>2, <1>t, AppendProperties
  <2>2. CASE incoming' = Queued(incoming, m)
    BY <1>t, <2>1, <2>2 DEF Queued
  <2> QED BY <1>1, <1>t, <2>2
<1>5. ChatShape'
  BY <1>1, <1>3, <1>4, ChatAssumption DEF CInv, ChatShape, NoSockets, SocketAt
<1>6. RowsInv'
  BY <1>1 DEF CInv, RowsInv, NoSockets, IsRow, SocketAt
<1>7. OrderInv'
  <2>1. \A x \in messages : x.m.id <= Len(sent) /\ x.m.id \in Nat
    BY DEF CInv, OrderInv, StoredWereSent, ChatShape, RowRecords, MessageRecords
  <2>2. ASSUME NEW r \in Replicas, NEW i \in DOMAIN incoming'[r]
        PROVE  /\ incoming'[r][i].id <= Len(sent')
               /\ \A j \in DOMAIN incoming'[r] : i < j => incoming'[r][i].id < incoming'[r][j].id
               /\ \A x \in messages : x.by = r => x.m.id < incoming'[r][i].id
    <3>1. \A a \in DOMAIN incoming[r] :
            /\ incoming[r][a] \in MessageRecords /\ incoming[r][a].id <= Len(sent)
            /\ \A b \in DOMAIN incoming[r] : a < b => incoming[r][a].id < incoming[r][b].id
            /\ \A x \in messages : x.by = r => x.m.id < incoming[r][a].id
      BY <1>t DEF CInv, OrderInv, Heard
    <3>2. CASE incoming'[r] = incoming[r]
      BY <1>3, <1>t, <2>2, <3>1, <3>2 DEF MessageRecords
    <3>3. CASE incoming'[r] = Append(incoming[r], m)
      <4>1. /\ DOMAIN incoming'[r] = 1..(Len(incoming[r]) + 1)
            /\ \A a \in 1..Len(incoming[r]) : incoming'[r][a] = incoming[r][a]
            /\ incoming'[r][Len(incoming[r]) + 1] = m
        BY <1>2, <1>t, <3>3
      <4>2. \A a \in 1..Len(incoming[r]) : a \in DOMAIN incoming[r] /\ incoming[r][a].id \in Nat
        BY <1>t, <3>1 DEF MessageRecords
      <4>3. CASE i \in 1..Len(incoming[r])
        <5>1. /\ incoming'[r][i] = incoming[r][i] /\ incoming[r][i].id <= Len(sent)
              /\ incoming[r][i].id \in Nat
              /\ \A b \in 1..Len(incoming[r]) : i < b => incoming[r][i].id < incoming[r][b].id
              /\ \A x \in messages : x.by = r => x.m.id < incoming[r][i].id
          BY <1>t, <3>1, <4>1, <4>2, <4>3
        <5>2. \A b \in DOMAIN incoming'[r] : i < b => incoming[r][i].id < incoming'[r][b].id
          <6> SUFFICES ASSUME NEW b \in 1..(Len(incoming[r]) + 1), i < b
                       PROVE  incoming[r][i].id < incoming'[r][b].id
            BY <4>1
          <6>1. CASE b \in 1..Len(incoming[r])
            BY <4>1, <5>1, <6>1
          <6>2. CASE b = Len(incoming[r]) + 1
            BY <1>2, <1>t, <4>1, <5>1, <6>2
          <6> QED BY <1>t, <6>1, <6>2
        <5> QED BY <1>3, <1>t, <5>1, <5>2
      <4>4. CASE i = Len(incoming[r]) + 1
        BY <1>2, <1>3, <1>t, <2>1, <4>1, <4>4
      <4> QED BY <1>t, <2>2, <4>1, <4>3, <4>4
    <3> QED BY <1>4, <3>2, <3>3
  <2>3. \A x \in messages : x.m.id <= Len(sent')
    BY <1>3, <1>t, <2>1
  <2>4. \A r \in Replicas : OnTheWay(r)' /\ Arrived(r)'
    BY <1>1 DEF CInv, OrderInv, OnTheWay, Arrived, Behind, NoSockets
  <2> QED BY <1>1, <2>2, <2>3, <2>4 DEF OrderInv, StoredWereSent, Heard
<1>8. DueInv'
  BY <1>1 DEF CInv, DueInv, DueArrives, Has, NoSockets, EntryOf, SocketAt
<1> QED BY <1>1, <1>5, <1>6, <1>7, <1>8, MapStays DEF CInv

\* A row is inserted, with a message its writer has not stored.
LEMMA RowAdded ==
  ASSUME CInv, NEW row \in RowRecords, row.id = Cardinality(messages) + 1,
         storing[row.by] = NotStoring, messages' = messages \cup {row},
         storing' = [storing EXCEPT ![row.by] = row],
         NoSockets, UNCHANGED <<published, pushing, received, due>>,
         \A x \in messages : x.by = row.by => x.m # row.m,
         row.by = "http" => row.m.socket = None
  PROVE  /\ messages' \subseteq RowRecords /\ IsFiniteSet(messages')
         /\ storing' \in [Writers -> RowRecords \cup {NotStoring}]
         /\ RowsInv' /\ DueInv'
<1>t. /\ IsFiniteSet(messages) /\ messages \subseteq RowRecords
      /\ storing \in [Writers -> RowRecords \cup {NotStoring}]
      /\ Cardinality(messages) \in Nat
  BY FS_CardinalityType DEF CInv, ChatShape
<1>w. PICK w \in Writers : w = row.by
  BY DEF RowRecords
<1>1. /\ row.by = w /\ row.id = Cardinality(messages) + 1
      /\ storing[w] = NotStoring /\ storing' = [storing EXCEPT ![w] = row]
  BY <1>w
<1>2. \A x \in messages : x.id \in 1..Cardinality(messages)
  BY DEF CInv, RowsInv
<1>3. row \notin messages
  BY <1>1, <1>2, <1>t
<1>4. IsFiniteSet(messages') /\ Cardinality(messages') = Cardinality(messages) + 1
  BY <1>3, <1>t, FS_AddElement
<1>5. /\ storing' \in [Writers -> RowRecords \cup {NotStoring}] /\ storing'[w] = row
      /\ \A v \in Writers : v # w => storing'[v] = storing[v]
  BY <1>1, <1>w, <1>t
<1>6. RowsInv'
  <2>1. \A x \in messages' : /\ x.id \in 1..Cardinality(messages')
                             /\ x.by = "http" => x.m.socket = None
    <3>1. \A x \in messages : x.id \in 1..Cardinality(messages')
      BY <1>2, <1>4, <1>t
    <3>2. row.id \in 1..Cardinality(messages')
      BY <1>1, <1>4, <1>t
    <3> QED BY <3>1, <3>2 DEF CInv, RowsInv
  <2>2. \A x, y \in messages' : x.id = y.id => x = y
    BY <1>1, <1>2, <1>t DEF CInv, RowsInv
  <2>3. \A x, y \in messages' : x.m = y.m /\ x.by = y.by => x = y
    BY <1>1 DEF CInv, RowsInv
  <2>4. \A y : IsRow(y) => IsRow(y)' /\ y.id # row.id
    BY <1>1, <1>2, <1>t DEF IsRow
  <2>5. IsRow(row)'
    BY DEF IsRow
  <2>6. ASSUME NEW v \in Writers, storing'[v] # NotStoring
        PROVE  /\ IsRow(storing[v])' /\ storing'[v].by = v
               /\ \A g \in Gateways : \A i \in DOMAIN published[g] : published[g][i].id # storing'[v].id
    <3>0. \A g \in Gateways : \A i \in DOMAIN published[g] : published[g][i].id # row.id
      BY <2>4 DEF CInv, RowsInv
    <3>1. CASE v = w
      BY <1>1, <1>5, <3>0, <3>1 DEF IsRow
    <3>2. CASE v # w
      <4>1. storing'[v] = storing[v] /\ storing[v] # NotStoring
        BY <1>5, <2>6, <3>2
      <4>2. PICK x \in messages : x.id = storing[v].id /\ x.m = storing[v].m /\ x.by = storing[v].by
        BY <4>1 DEF CInv, RowsInv, IsRow
      <4> QED BY <4>1, <4>2 DEF CInv, RowsInv, IsRow
    <3> QED BY <3>1, <3>2
  <2>7. \A g \in Gateways : \A i \in DOMAIN published[g] : IsRow(published[g][i])'
    BY <2>4 DEF CInv, RowsInv
  <2>8. \A k \in Sockets : \A i \in DOMAIN received[k] :
          /\ IsRow(received[k][i])' /\ ~ SocketAt(k, "unused")'
          /\ sockets'[k].user \in {received[k][i].m.sender, received[k][i].m.receiver}
    BY <2>4 DEF CInv, RowsInv, NoSockets, SocketAt
  <2>9. \A v \in Writers : storing'[v] # NotStoring =>
          /\ IsRow(storing[v])' /\ storing'[v].by = v
          /\ \A g \in Gateways : \A i \in DOMAIN published'[g] : published'[g][i].id # storing'[v].id
    BY <2>6 DEF IsRow
  <2>10. \A g \in Gateways : \A i \in DOMAIN published'[g] : IsRow(published[g][i])'
    BY <2>7 DEF IsRow
  <2>11. \A k \in Sockets : \A i \in DOMAIN received'[k] :
           /\ IsRow(received[k][i])' /\ ~ SocketAt(k, "unused")'
           /\ sockets'[k].user \in {received'[k][i].m.sender, received'[k][i].m.receiver}
    BY <2>8 DEF IsRow
  <2> QED BY <2>1, <2>2, <2>3, <2>9, <2>10, <2>11 DEF RowsInv
<1>7. DueInv'
  <2>1. \A d \in due' :
          /\ d.socket \in Sockets /\ SocketAt(d.socket, "open")' /\ EntryOf(d.socket)' = d.socket
          /\ \E x \in messages' : x.id = d.row /\ sockets'[d.socket].user \in {x.m.sender, x.m.receiver}
    BY DEF CInv, DueInv, NoSockets, SocketAt, EntryOf
  <2>2. DueArrives'
    BY DEF CInv, DueInv, DueArrives, NoSockets
  <2> QED BY <2>1, <2>2 DEF CInv, DueInv, Has, NoSockets
<1> QED BY <1>1, <1>4, <1>5, <1>6, <1>7, <1>t

LEMMA PostMessageStep ==
  ASSUME CInv, NEW a \in Users \cup Staff, NEW b \in Users \cup Staff, PostMessage(a, b)
  PROVE  CInv'
<1>m. PICK m : m = Message(a, b, None)
  OBVIOUS
<1>r. PICK row : row = Row(m, "http")
  OBVIOUS
<1>t. /\ sent \in Seq(MessageRecords) /\ Len(sent) <= MaxMessages
      /\ incoming \in [Replicas -> Seq(MessageRecords)]
  BY DEF CInv, ChatShape
<1>2. m \in MessageRecords /\ m.id = Len(sent) + 1 /\ m.socket = None
  BY <1>m, <1>t DEF Message, MessageRecords, Everyone
<1>n. /\ row \in RowRecords /\ row.m = m /\ row.by = "http"
      /\ row.id = Cardinality(messages) + 1
  BY <1>2, <1>r, FS_CardinalityType DEF Row, RowRecords, Writers, CInv, ChatShape
<1>1. /\ storing["http"] = NotStoring /\ Len(sent) < MaxMessages /\ sent' = Append(sent, m)
      /\ messages' = messages \cup {row} /\ storing' = [storing EXCEPT !["http"] = row]
      /\ NoSockets /\ UNCHANGED <<incoming, published, pushing, received, due>>
  BY <1>m, <1>r, <1>n DEF PostMessage
<1>3. sent' \in Seq(MessageRecords) /\ Len(sent') = Len(sent) + 1
  BY <1>1, <1>2, <1>t, AppendProperties
<1>4. \A x \in messages : x.m.id <= Len(sent) /\ x.m.id \in Nat
  BY DEF CInv, OrderInv, StoredWereSent, ChatShape, RowRecords, MessageRecords
<1>5. /\ messages' \subseteq RowRecords /\ IsFiniteSet(messages')
      /\ storing' \in [Writers -> RowRecords \cup {NotStoring}] /\ RowsInv' /\ DueInv'
  <2>1. \A x \in messages : x.by = "http" => x.m # m
    BY <1>2, <1>4, <1>t
  <2> QED BY <1>1, <1>2, <1>n, <2>1, RowAdded
<1>6. ChatShape'
  BY <1>1, <1>3, <1>5, <1>t, ChatAssumption DEF CInv, ChatShape, NoSockets, SocketAt
<1>7. OrderInv'
  <2>1. StoredWereSent'
    BY <1>1, <1>2, <1>n, <1>3, <1>4, <1>t DEF StoredWereSent
  <2> SUFFICES ASSUME NEW r \in Replicas
               PROVE  Heard(r)' /\ OnTheWay(r)' /\ Arrived(r)'
    BY <2>1 DEF OrderInv
  <2>2. storing'[r] = storing[r] /\ row.by # r
    BY <1>1, <1>n, ChatAssumption DEF CInv, ChatShape, Writers
  <2>3. Heard(r)'
    <3>1. \A i \in DOMAIN incoming[r] :
            incoming[r][i].id \in Nat /\ incoming[r][i].id <= Len(sent)
      <4>1. \A i \in DOMAIN incoming[r] : incoming[r][i] \in MessageRecords
        BY <1>t
      <4> QED BY <4>1 DEF CInv, OrderInv, Heard, MessageRecords
    <3>2. \A i \in DOMAIN incoming[r] : incoming[r][i].id <= Len(sent')
      BY <1>3, <1>t, <3>1
    <3> QED BY <1>1, <2>2, <3>2 DEF CInv, OrderInv, Heard
  <2>4. OnTheWay(r)' /\ Arrived(r)'
    BY <1>1, <2>2 DEF CInv, OrderInv, OnTheWay, Arrived, Behind, NoSockets
  <2> QED BY <2>3, <2>4
<1> QED BY <1>1, <1>5, <1>6, <1>7, MapStays DEF CInv

LEMMA CreateChatMessageStep ==
  ASSUME CInv, NEW r \in Replicas, CreateChatMessage(r)
  PROVE  CInv'
<1>m. PICK m : m = Head(incoming[r])
  OBVIOUS
<1>r. PICK row : row = Row(m, r)
  OBVIOUS
<1>1. /\ incoming[r] # <<>> /\ storing[r] = NotStoring
      /\ incoming' = [incoming EXCEPT ![r] = Tail(@)]
      /\ \/ messages' = messages \cup {row} /\ storing' = [storing EXCEPT ![r] = row]
         \/ UNCHANGED <<messages, storing>>
      /\ NoSockets /\ UNCHANGED <<published, pushing, sent, received, due>>
  BY <1>m, <1>r DEF CreateChatMessage
<1>n. m \in MessageRecords => /\ row \in RowRecords /\ row.m = m /\ row.by = r
                              /\ row.id = Cardinality(messages) + 1
  BY <1>r, FS_CardinalityType DEF Row, RowRecords, Writers, CInv, ChatShape
<1>t. /\ sent \in Seq(MessageRecords) /\ Len(sent) \in Nat
      /\ incoming \in [Replicas -> Seq(MessageRecords)]
  BY DEF CInv, ChatShape
<1>2. /\ m = incoming[r][1] /\ 1 \in DOMAIN incoming[r] /\ m \in MessageRecords
      /\ incoming'[r] \in Seq(MessageRecords) /\ DOMAIN incoming'[r] = 1..(Len(incoming[r]) - 1)
      /\ \A i \in DOMAIN incoming'[r] : /\ incoming'[r][i] = incoming[r][i + 1]
                                        /\ i + 1 \in DOMAIN incoming[r]
      /\ \A q \in Replicas : q # r => incoming'[q] = incoming[q]
      /\ incoming' \in [Replicas -> Seq(MessageRecords)]
  <2>1. incoming[r] \in Seq(MessageRecords)
    BY <1>t
  <2>2. /\ Tail(incoming[r]) \in Seq(MessageRecords)
        /\ Len(Tail(incoming[r])) = Len(incoming[r]) - 1
        /\ \A i \in 1..Len(Tail(incoming[r])) : Tail(incoming[r])[i] = incoming[r][i + 1]
    BY <1>1, <2>1, HeadTailProperties
  <2> QED BY <1>1, <1>m, <1>t, <2>1, <2>2
<1>3. \A q \in Replicas : \A i \in DOMAIN incoming[q] :
        /\ incoming[q][i].id \in Nat /\ incoming[q][i].id <= Len(sent)
        /\ \A j \in DOMAIN incoming[q] : i < j => incoming[q][i].id < incoming[q][j].id
        /\ \A x \in messages : x.by = q => x.m.id < incoming[q][i].id
  <2>1. \A q \in Replicas : \A i \in DOMAIN incoming[q] : incoming[q][i] \in MessageRecords
    BY <1>t
  <2> QED BY <2>1 DEF CInv, OrderInv, Heard, MessageRecords
<1>4. \A q \in Replicas : \A i \in DOMAIN incoming'[q] :
        /\ incoming'[q][i].id <= Len(sent)
        /\ \A j \in DOMAIN incoming'[q] : i < j => incoming'[q][i].id < incoming'[q][j].id
        /\ \A x \in messages : x.by = q => x.m.id < incoming'[q][i].id
        /\ q = r => m.id < incoming'[q][i].id
  <2>1. ASSUME NEW i \in DOMAIN incoming'[r]
        PROVE  /\ incoming'[r][i].id <= Len(sent)
               /\ \A j \in DOMAIN incoming'[r] : i < j => incoming'[r][i].id < incoming'[r][j].id
               /\ \A x \in messages : x.by = r => x.m.id < incoming'[r][i].id
               /\ m.id < incoming'[r][i].id
    <3>1. i \in Nat /\ 1 < i + 1 /\ \A j \in DOMAIN incoming'[r] : i < j => i + 1 < j + 1
      BY <1>2, <2>1, <1>t
    <3> QED BY <1>2, <1>3, <2>1, <3>1
  <2> QED BY <1>2, <1>3, <2>1
<1>5. CASE UNCHANGED <<messages, storing>>
  <2>1. ChatShape'
    BY <1>1, <1>2, <1>5 DEF CInv, ChatShape, NoSockets, SocketAt
  <2>2. RowsInv'
    BY <1>1, <1>5 DEF CInv, RowsInv, NoSockets, IsRow, SocketAt
  <2>3. OrderInv'
    <3>1. StoredWereSent' /\ \A q \in Replicas : Heard(q)'
      BY <1>1, <1>4, <1>5 DEF CInv, OrderInv, StoredWereSent, Heard
    <3>2. \A q \in Replicas : OnTheWay(q)' /\ Arrived(q)'
      BY <1>1, <1>5 DEF CInv, OrderInv, OnTheWay, Arrived, Behind, NoSockets
    <3> QED BY <3>1, <3>2 DEF OrderInv
  <2>4. DueInv'
    BY <1>1, <1>5 DEF CInv, DueInv, DueArrives, Has, NoSockets, EntryOf, SocketAt
  <2> QED BY <1>1, <2>1, <2>2, <2>3, <2>4, MapStays DEF CInv
<1>6. CASE messages' = messages \cup {row} /\ storing' = [storing EXCEPT ![r] = row]
  <2>1. /\ messages' \subseteq RowRecords /\ IsFiniteSet(messages')
        /\ storing' \in [Writers -> RowRecords \cup {NotStoring}] /\ RowsInv' /\ DueInv'
    <3>1. \A x \in messages : x.by = r => x.m # m
      BY <1>2, <1>3 DEF MessageRecords
    <3>2. r # "http"
      BY ChatAssumption
    <3>3. /\ row \in RowRecords /\ row.id = Cardinality(messages) + 1
          /\ storing[row.by] = NotStoring /\ storing' = [storing EXCEPT ![row.by] = row]
          /\ \A x \in messages : x.by = row.by => x.m # row.m
          /\ row.by = "http" => row.m.socket = None
      BY <1>1, <1>2, <1>6, <1>n, <3>1, <3>2
    <3> QED BY <1>1, <1>6, <3>3, RowAdded
  <2>2. ChatShape'
    BY <1>1, <1>2, <2>1 DEF CInv, ChatShape, NoSockets, SocketAt
  <2>3. OrderInv'
    <3>1. StoredWereSent'
      BY <1>1, <1>2, <1>3, <1>6, <1>n DEF CInv, OrderInv, StoredWereSent
    <3>2. \A q \in Replicas : Heard(q)'
      BY <1>1, <1>2, <1>4, <1>6, <1>n DEF Heard
    <3>3. storing'[r] = row /\ \A q \in Replicas : q # r => storing'[q] = storing[q]
      BY <1>6 DEF CInv, ChatShape, Writers
    <3>4. ASSUME NEW y, IsRow(y), y.by = r
          PROVE  y.m.id <= row.m.id
      <4>1. PICK x \in messages : x.m = y.m /\ x.by = y.by
        BY <3>4 DEF IsRow
      <4>2. x.m.id \in Nat /\ x.m.id < m.id /\ m.id \in Nat
        BY <1>2, <1>3, <3>4, <4>1 DEF CInv, ChatShape, RowRecords, MessageRecords
      <4> QED BY <1>2, <1>n, <4>1, <4>2
    <3>5. \A y : IsRow(y) /\ y.by = r => Behind(r, y)'
      BY <3>3, <3>4 DEF Behind
    <3>6. \A q \in Replicas : q # r => \A y : Behind(q, y) => Behind(q, y)'
      BY <3>3 DEF Behind
    <3>7. \A q \in Replicas : OnTheWay(q)'
      BY <1>1, <3>5, <3>6 DEF CInv, OrderInv, OnTheWay, RowsInv
    <3>8. \A q \in Replicas : Arrived(q)'
      <4>1. \A q \in Replicas : Arrived(q)
        BY DEF CInv, OrderInv
      <4>2. \A k \in Sockets : \A i \in DOMAIN received[k] : IsRow(received[k][i])
        BY DEF CInv, RowsInv
      <4>3. \A q \in Replicas : \A k \in Sockets : \A i \in DOMAIN received[k] :
              received[k][i].by = q => Behind(q, received[k][i])'
        <5> SUFFICES ASSUME NEW q \in Replicas, NEW k \in Sockets, NEW i \in DOMAIN received[k],
                            received[k][i].by = q
                     PROVE  storing'[q] # NotStoring => received[k][i].m.id <= storing'[q].m.id
          BY <1>1 DEF Behind
        <5>1. CASE q = r
          BY <3>3, <3>4, <4>2, <5>1
        <5>2. CASE q # r
          BY <3>3, <4>1, <5>2 DEF Arrived, Behind
        <5> QED BY <5>1, <5>2
      <4>4. received' = received /\ sockets' = sockets /\ published' = published
        BY <1>1 DEF NoSockets
      <4> QED BY <4>1, <4>3, <4>4 DEF Arrived, Behind
    <3> QED BY <3>1, <3>2, <3>7, <3>8 DEF OrderInv
  <2> QED BY <1>1, <2>1, <2>2, <2>3, MapStays DEF CInv
<1> QED BY <1>1, <1>5, <1>6

LEMMA SendMessageStep ==
  ASSUME CInv, NEW w \in Writers, SendMessage(w)
  PROVE  CInv'
<1>r. PICK row : row = storing[w]
  OBVIOUS
<1>1. /\ row # NotStoring /\ storing' = [storing EXCEPT ![w] = NotStoring]
      /\ \/ published' = Queued(published, row) /\ due' = due \cup OpenFor(row)
         \/ UNCHANGED <<published, due>>
      /\ NoSockets /\ UNCHANGED <<incoming, pushing, messages, sent, received>>
  BY <1>r DEF SendMessage
<1>t. /\ storing \in [Writers -> RowRecords \cup {NotStoring}]
      /\ published \in [Gateways -> Seq(RowRecords)]
  BY DEF CInv, ChatShape
<1>2. /\ row \in RowRecords /\ row.by = w /\ IsRow(row)
      /\ \A g \in Gateways : \A i \in DOMAIN published[g] : published[g][i].id # row.id
  BY <1>1, <1>r, <1>t DEF CInv, RowsInv
<1>3. /\ storing' \in [Writers -> RowRecords \cup {NotStoring}] /\ storing'[w] = NotStoring
      /\ \A v \in Writers : v # w => storing'[v] = storing[v]
  BY <1>1, <1>t
<1>4. /\ published' \in [Gateways -> Seq(RowRecords)]
      /\ \A g \in Gateways : published'[g] = published[g] \/ published'[g] = Append(published[g], row)
  <2>1. \A g \in Gateways : Append(published[g], row) \in Seq(RowRecords)
    BY <1>2, <1>t, AppendProperties
  <2>2. CASE published' = Queued(published, row)
    BY <1>t, <2>1, <2>2 DEF Queued
  <2> QED BY <1>1, <1>t, <2>2
<1>5. \A g \in Gateways :
        /\ \A i \in DOMAIN published[g] : i \in DOMAIN published'[g] /\ published'[g][i] = published[g][i]
        /\ \A i \in DOMAIN published'[g] :
             \/ i \in DOMAIN published[g]
             \/ /\ published'[g][i] = row
                /\ \A j \in DOMAIN published'[g] : ~ i < j
        /\ published' = Queued(published, row) => \E i \in DOMAIN published'[g] : published'[g][i] = row
  <2> SUFFICES ASSUME NEW g \in Gateways
               PROVE  /\ \A i \in DOMAIN published[g] :
                           i \in DOMAIN published'[g] /\ published'[g][i] = published[g][i]
                      /\ \A i \in DOMAIN published'[g] :
                           \/ i \in DOMAIN published[g]
                           \/ /\ published'[g][i] = row
                              /\ \A j \in DOMAIN published'[g] : ~ i < j
                      /\ published' = Queued(published, row) =>
                           \E i \in DOMAIN published'[g] : published'[g][i] = row
    OBVIOUS
  <2>1. published[g] \in Seq(RowRecords)
    BY <1>t
  <2>2. /\ DOMAIN Append(published[g], row) = 1..(Len(published[g]) + 1)
        /\ \A i \in 1..Len(published[g]) : Append(published[g], row)[i] = published[g][i]
        /\ Append(published[g], row)[Len(published[g]) + 1] = row
    BY <1>2, <2>1
  <2>3. published' = Queued(published, row) => published'[g] = Append(published[g], row)
    BY <1>t DEF Queued
  <2>4. CASE published'[g] = Append(published[g], row)
    BY <2>1, <2>2, <2>4
  <2>5. CASE published'[g] = published[g]
    <3>1. published'[g] = Append(published[g], row) => FALSE
      <4>1. Len(Append(published[g], row)) = Len(published[g]) + 1
        BY <1>2, <2>1
      <4> QED BY <2>1, <2>5, <4>1
    <3> QED BY <2>3, <2>5, <3>1
  <2> QED BY <1>4, <2>4, <2>5
<1>6. ChatShape'
  BY <1>1, <1>3, <1>4 DEF CInv, ChatShape, NoSockets, SocketAt
<1>7. RowsInv'
  <2>1. ASSUME NEW v \in Writers, storing'[v] # NotStoring
        PROVE  /\ IsRow(storing[v])' /\ storing'[v].by = v
               /\ \A g \in Gateways : \A i \in DOMAIN published'[g] : published'[g][i].id # storing'[v].id
    <3>1. v # w /\ storing'[v] = storing[v] /\ storing[v] # NotStoring
      BY <1>3, <2>1
    <3>2. IsRow(storing[v]) /\ storing[v].by = v
      BY <3>1 DEF CInv, RowsInv
    <3>3. storing[v].id # row.id
      <4>1. PICK x \in messages : x.id = storing[v].id /\ x.by = v
        BY <3>2 DEF IsRow
      <4>2. PICK y \in messages : y.id = row.id /\ y.by = w
        BY <1>2 DEF IsRow
      <4> QED BY <3>1, <4>1, <4>2 DEF CInv, RowsInv
    <3>4. \A g \in Gateways : \A i \in DOMAIN published'[g] : published'[g][i].id # storing[v].id
      BY <1>5, <3>1, <3>3 DEF CInv, RowsInv
    <3> QED BY <1>1, <3>1, <3>2, <3>4 DEF IsRow
  <2>2. \A g \in Gateways : \A i \in DOMAIN published'[g] : IsRow(published[g][i])'
    <3>1. \A g \in Gateways : \A i \in DOMAIN published'[g] : IsRow(published'[g][i])
      BY <1>2, <1>5 DEF CInv, RowsInv
    <3> QED BY <1>1, <3>1 DEF IsRow
  <2>3. \A k \in Sockets : \A i \in DOMAIN received'[k] :
          /\ IsRow(received[k][i])' /\ ~ SocketAt(k, "unused")'
          /\ sockets'[k].user \in {received'[k][i].m.sender, received'[k][i].m.receiver}
    BY <1>1 DEF CInv, RowsInv, IsRow, NoSockets, SocketAt
  <2>4. /\ \A x \in messages' : /\ x.id \in 1..Cardinality(messages')
                                /\ x.by = "http" => x.m.socket = None
        /\ \A x, y \in messages' : x.id = y.id => x = y
        /\ \A x, y \in messages' : x.m = y.m /\ x.by = y.by => x = y
    BY <1>1 DEF CInv, RowsInv
  <2> QED BY <2>1, <2>2, <2>3, <2>4 DEF RowsInv
<1>8. OrderInv'
  <2>1. StoredWereSent'
    BY <1>1 DEF CInv, OrderInv, StoredWereSent
  <2> SUFFICES ASSUME NEW r \in Replicas
               PROVE  Heard(r)' /\ OnTheWay(r)' /\ Arrived(r)'
    BY <2>1 DEF OrderInv
  <2>2. Heard(r)'
    BY <1>1 DEF CInv, OrderInv, Heard
  <2>3. \A y : Behind(r, y) => Behind(r, y)'
    BY <1>3 DEF Behind, Writers
  <2>4. row.by = r => storing[r] = row /\ storing'[r] = NotStoring
    BY <1>2, <1>3, <1>r
  <2>5. OnTheWay(r)'
    <3> SUFFICES ASSUME NEW g \in Gateways, NEW i \in DOMAIN published'[g], published'[g][i].by = r
                 PROVE  /\ Behind(r, published[g][i])'
                        /\ \A j \in DOMAIN published'[g] :
                             i < j /\ published'[g][j].by = r =>
                               published'[g][i].m.id <= published'[g][j].m.id
      BY DEF OnTheWay
    <3>1. CASE i \in DOMAIN published[g]
      <4>1. published'[g][i] = published[g][i] /\ Behind(r, published[g][i])
        BY <1>5, <3>1 DEF CInv, OrderInv, OnTheWay
      <4>2. Behind(r, published[g][i])'
        BY <2>3, <4>1 DEF Behind
      <4>3. ASSUME NEW j \in DOMAIN published'[g], i < j, published'[g][j].by = r
            PROVE  published'[g][i].m.id <= published'[g][j].m.id
        <5>1. CASE j \in DOMAIN published[g]
          BY <1>5, <3>1, <4>3, <5>1 DEF CInv, OrderInv, OnTheWay
        <5>2. CASE published'[g][j] = row
          BY <1>1, <2>4, <4>1, <4>3, <5>2 DEF Behind
        <5> QED BY <1>5, <5>1, <5>2
      <4> QED BY <4>2, <4>3
    <3>2. CASE i \notin DOMAIN published[g]
      BY <1>5, <2>4, <3>2 DEF Behind
    <3> QED BY <3>1, <3>2
  <2>6. Arrived(r)'
    <3> SUFFICES ASSUME NEW k \in Sockets, NEW i \in DOMAIN received'[k], received'[k][i].by = r
                 PROVE  /\ Behind(r, received[k][i])'
                        /\ \A j \in DOMAIN published'[sockets'[k].at] :
                             published'[sockets'[k].at][j].by = r =>
                               received'[k][i].m.id <= published'[sockets'[k].at][j].m.id
                        /\ \A j \in DOMAIN received'[k] :
                             i < j /\ received'[k][j].by = r => received'[k][i].m.id <= received'[k][j].m.id
      BY DEF Arrived
    <3>0. /\ received' = received /\ sockets' = sockets /\ sockets[k].at \in Gateways
      BY <1>1 DEF NoSockets, CInv, RowsInv, ChatShape
    <3>1. Behind(r, received[k][i])
      BY <3>0 DEF CInv, OrderInv, Arrived
    <3>2. Behind(r, received[k][i])'
      BY <2>3, <3>0, <3>1 DEF Behind
    <3>3. ASSUME NEW j \in DOMAIN published'[sockets[k].at], published'[sockets[k].at][j].by = r
          PROVE  received[k][i].m.id <= published'[sockets[k].at][j].m.id
      <4>1. CASE j \in DOMAIN published[sockets[k].at]
        BY <1>5, <3>0, <3>3, <4>1 DEF CInv, OrderInv, Arrived
      <4>2. CASE published'[sockets[k].at][j] = row
        BY <1>1, <2>4, <3>1, <3>3, <4>2 DEF Behind
      <4> QED BY <1>5, <3>0, <4>1, <4>2
    <3> QED BY <3>0, <3>2, <3>3 DEF CInv, OrderInv, Arrived
  <2> QED BY <2>2, <2>5, <2>6
<1>9. DueInv'
  <2>1. ASSUME NEW d \in due', d \notin due
        PROVE  /\ published' = Queued(published, row) /\ d.row = row.id
               /\ d.socket \in Sockets /\ SocketAt(d.socket, "open") /\ EntryOf(d.socket) = d.socket
               /\ sockets[d.socket].user \in {row.m.sender, row.m.receiver}
    BY <1>1, <2>1 DEF OpenFor
  <2>2. ASSUME NEW d \in due'
        PROVE  /\ d.socket \in Sockets /\ SocketAt(d.socket, "open") /\ EntryOf(d.socket) = d.socket
               /\ \E x \in messages : x.id = d.row /\ sockets[d.socket].user \in {x.m.sender, x.m.receiver}
    <3>1. CASE d \in due
      BY <3>1 DEF CInv, DueInv
    <3>2. CASE d \notin due
      <4>1. PICK x \in messages : x.id = row.id /\ x.m = row.m
        BY <1>2 DEF IsRow
      <4> QED BY <2>1, <3>2, <4>1
    <3> QED BY <3>1, <3>2
  <2>3. ASSUME NEW d \in due'
        PROVE  \/ Has(d.socket, d.row)
               \/ \E i \in DOMAIN published'[sockets[d.socket].at] :
                    published'[sockets[d.socket].at][i].id = d.row
    <3>1. sockets[d.socket].at \in Gateways
      BY <2>2 DEF CInv, ChatShape, SocketAt
    <3>2. CASE d \in due
      BY <1>5, <3>1, <3>2 DEF CInv, DueInv, DueArrives, Has
    <3>3. CASE d \notin due
      BY <1>5, <2>1, <3>1, <3>3
    <3> QED BY <3>2, <3>3
  <2>4. ASSUME NEW g \in Gateways, pushing[g] = "sender"
        PROVE  /\ published'[g] # <<>>
               /\ \A d \in due' :
                    /\ sockets[d.socket].at = g /\ d.row = published'[g][1].id
                    /\ sockets[d.socket].user = published'[g][1].m.receiver
                    => Has(d.socket, d.row)
    <3>1. published[g] # <<>>
      BY <2>4 DEF CInv, DueInv
    <3>2. 1 \in DOMAIN published[g]
      BY <3>1, <1>t
    <3>3. published'[g][1] = published[g][1] /\ published'[g] # <<>>
      BY <1>5, <3>2
    <3>4. row.id # published[g][1].id
      BY <1>2, <3>2
    <3> QED BY <2>1, <2>4, <3>3, <3>4 DEF CInv, DueInv
  <2> QED BY <1>1, <2>2, <2>3, <2>4 DEF DueInv, DueArrives, Has, NoSockets, EntryOf, SocketAt
<1> QED BY <1>1, <1>6, <1>7, <1>8, <1>9, MapStays DEF CInv

LEMMA MarkMessagesAsReadStep ==
  ASSUME CInv, NEW a \in Users \cup Staff, NEW b \in Users \cup Staff, MarkMessagesAsRead(a, b)
  PROVE  CInv'
<1> DEFINE Marked(row) == IF row.m.sender = a /\ row.m.receiver = b
                          THEN [row EXCEPT !.read = TRUE] ELSE row
           f == [row \in messages |-> Marked(row)]
<1>1. /\ messages' = {Marked(row) : row \in messages}
      /\ NoSockets /\ UNCHANGED <<incoming, storing, published, pushing, sent, received, due>>
  BY DEF MarkMessagesAsRead
<1>t. messages \subseteq RowRecords /\ IsFiniteSet(messages)
  BY DEF CInv, ChatShape
<1>2. \A row \in messages : /\ Marked(row) \in RowRecords /\ Marked(row).id = row.id
                            /\ Marked(row).m = row.m /\ Marked(row).by = row.by
                            /\ Marked(row) \in messages'
  BY <1>1, <1>t DEF RowRecords
<1>3. \A y \in messages' : \E x \in messages : y = Marked(x)
  BY <1>1
<1>4. IsFiniteSet(messages') /\ Cardinality(messages') = Cardinality(messages)
  <2> HIDE DEF Marked
  <2>1. f \in [messages -> messages']
    BY <1>2
  <2>2. \A x, y \in messages : f[x] = f[y] => x = y
    BY <1>2 DEF CInv, RowsInv
  <2>3. \A y \in messages' : \E x \in messages : f[x] = y
    BY <1>3
  <2>4. f \in Bijection(messages, messages')
    <3> HIDE DEF f
    <3> QED BY <2>1, <2>2, <2>3 DEF Bijection, Injection, Surjection, IsInjective
  <2> QED BY <1>t, <2>4, FS_Bijection DEF ExistsBijection
<1> HIDE DEF Marked, f
<1>5. \A y \in messages' : \E x \in messages : y = Marked(x) /\ x.id = y.id /\ x.m = y.m /\ x.by = y.by
  BY <1>2, <1>3
<1>6. \A y : IsRow(y) => IsRow(y)'
  <2> SUFFICES ASSUME NEW y, IsRow(y)
               PROVE  \E x \in messages' : x.id = y.id /\ x.m = y.m /\ x.by = y.by
    BY DEF IsRow
  <2> QED BY <1>2 DEF IsRow
<1>7. ChatShape'
  <2>1. messages' \subseteq RowRecords
    BY <1>2, <1>3
  <2> QED BY <1>1, <1>4, <2>1 DEF CInv, ChatShape, NoSockets, SocketAt
<1>8. RowsInv'
  <2>1. \A y \in messages' : /\ y.id \in 1..Cardinality(messages')
                             /\ y.by = "http" => y.m.socket = None
    <3> SUFFICES ASSUME NEW y \in messages'
                 PROVE  /\ y.id \in 1..Cardinality(messages')
                        /\ y.by = "http" => y.m.socket = None
      OBVIOUS
    <3>1. PICK x \in messages : x.id = y.id /\ x.m = y.m /\ x.by = y.by
      BY <1>5
    <3> QED BY <1>4, <3>1 DEF CInv, RowsInv
  <2>2. \A y, z \in messages' : y.id = z.id \/ (y.m = z.m /\ y.by = z.by) => y = z
    <3> SUFFICES ASSUME NEW y \in messages', NEW z \in messages',
                        y.id = z.id \/ (y.m = z.m /\ y.by = z.by)
                 PROVE  y = z
      OBVIOUS
    <3>1. PICK x \in messages : y = Marked(x) /\ x.id = y.id /\ x.m = y.m /\ x.by = y.by
      BY <1>5
    <3>2. PICK v \in messages : z = Marked(v) /\ v.id = z.id /\ v.m = z.m /\ v.by = z.by
      BY <1>5
    <3>3. x = v
      BY <3>1, <3>2 DEF CInv, RowsInv
    <3> QED BY <3>1, <3>2, <3>3
  <2>3. \A w \in Writers : storing'[w] # NotStoring =>
          /\ IsRow(storing[w])' /\ storing'[w].by = w
          /\ \A g \in Gateways : \A i \in DOMAIN published'[g] : published'[g][i].id # storing'[w].id
    <3>1. \A w \in Writers : storing[w] # NotStoring =>
            /\ IsRow(storing[w])' /\ storing[w].by = w
            /\ \A g \in Gateways : \A i \in DOMAIN published[g] : published[g][i].id # storing[w].id
      BY <1>1, <1>6 DEF CInv, RowsInv, IsRow
    <3> QED BY <1>1, <3>1
  <2>4. \A g \in Gateways : \A i \in DOMAIN published'[g] : IsRow(published[g][i])'
    BY <1>1, <1>6 DEF CInv, RowsInv, IsRow
  <2>5. \A k \in Sockets : \A i \in DOMAIN received'[k] :
          /\ IsRow(received[k][i])' /\ ~ SocketAt(k, "unused")'
          /\ sockets'[k].user \in {received'[k][i].m.sender, received'[k][i].m.receiver}
    BY <1>1, <1>6 DEF CInv, RowsInv, IsRow, NoSockets, SocketAt
  <2> QED BY <2>1, <2>2, <2>3, <2>4, <2>5 DEF RowsInv
<1>9. OrderInv'
  <2>1. StoredWereSent'
    BY <1>1, <1>5 DEF CInv, OrderInv, StoredWereSent
  <2>2. ASSUME NEW r \in Replicas
        PROVE  Heard(r)'
    <3>1. \A y \in messages' : y.by = r => \A i \in DOMAIN incoming[r] : y.m.id < incoming[r][i].id
      BY <1>5 DEF CInv, OrderInv, Heard
    <3> QED BY <1>1, <3>1 DEF CInv, OrderInv, Heard
  <2>3. \A r \in Replicas : OnTheWay(r)' /\ Arrived(r)'
    BY <1>1 DEF CInv, OrderInv, OnTheWay, Arrived, Behind, NoSockets
  <2> QED BY <2>1, <2>2, <2>3 DEF OrderInv
<1>10. DueInv'
  <2>1. \A d \in due : \E x \in messages' :
          x.id = d.row /\ sockets[d.socket].user \in {x.m.sender, x.m.receiver}
    <3> SUFFICES ASSUME NEW d \in due
                 PROVE  \E x \in messages' :
                          x.id = d.row /\ sockets[d.socket].user \in {x.m.sender, x.m.receiver}
      OBVIOUS
    <3>1. PICK x \in messages : x.id = d.row /\ sockets[d.socket].user \in {x.m.sender, x.m.receiver}
      BY DEF CInv, DueInv
    <3> QED BY <1>2, <3>1
  <2> QED BY <1>1, <2>1 DEF CInv, DueInv, DueArrives, Has, NoSockets, EntryOf, SocketAt
<1> QED BY <1>1, <1>7, <1>8, <1>9, <1>10, MapStays DEF CInv

\* The first of the published rows is written to the addressee's connection,
\* if the map has one that takes it; the row stays or goes.
LEMMA PushToUserStep ==
  ASSUME CInv, NEW g \in Gateways, PushToUser(g)
  PROVE  CInv'
<1>r. PICK row : row = published[g][1]
  OBVIOUS
<1>k. PICK k : k = TargetOf(g, row)
  OBVIOUS
<1>t. /\ published \in [Gateways -> Seq(RowRecords)] /\ published[g] # <<>>
      /\ received \in [Sockets -> Seq(RowRecords)] /\ pushing \in [Gateways -> {"receiver", "sender"}]
      /\ 1 \in DOMAIN published[g] /\ row \in RowRecords /\ row = Head(published[g])
  <2>1. published[g] # <<>> /\ published \in [Gateways -> Seq(RowRecords)]
    BY DEF CInv, ChatShape, PushToUser
  <2>2. published[g] \in Seq(RowRecords)
    BY <2>1
  <2> QED BY <1>r, <2>1, <2>2 DEF CInv, ChatShape
<1>1. /\ received' = IF k # None /\ sockets[k].step \in {"greet", "open"}
                     THEN [received EXCEPT ![k] = Append(@, row)] ELSE received
      /\ Onward(g)
      /\ NoSockets /\ UNCHANGED <<incoming, storing, messages, sent, due>>
  BY <1>k, <1>r, <1>t DEF PushToUser
<1>2. k # None => /\ k \in Sockets /\ sockets[k].user = Addressee(g, row) /\ sockets[k].at = g
                  /\ Addressee(g, row) \in Users /\ k = connections[g][Addressee(g, row)]
  BY <1>k DEF TargetOf, CInv, ChatShape, SocketInv, EntriesAreLive
<1>3. IsRow(row)
  BY <1>r, <1>t DEF CInv, RowsInv
<1>4. /\ received' \in [Sockets -> Seq(RowRecords)]
      /\ \A j \in Sockets :
           /\ \A i \in DOMAIN received[j] : i \in DOMAIN received'[j] /\ received'[j][i] = received[j][i]
           /\ \A i \in DOMAIN received'[j] :
                \/ i \in DOMAIN received[j]
                \/ /\ received'[j][i] = row /\ j = k /\ sockets[k].step \in {"greet", "open"}
                   /\ \A h \in DOMAIN received'[j] : ~ i < h
      /\ k # None /\ sockets[k].step \in {"greet", "open"} =>
           \E i \in DOMAIN received'[k] : received'[k][i] = row
  <2>1. CASE ~ (k # None /\ sockets[k].step \in {"greet", "open"})
    BY <1>1, <1>t, <2>1
  <2>2. CASE k # None /\ sockets[k].step \in {"greet", "open"}
    <3>1. k \in Sockets /\ received' = [received EXCEPT ![k] = Append(@, row)]
      BY <1>1, <1>2, <2>2
    <3>2. received[k] \in Seq(RowRecords)
      BY <1>t, <3>1
    <3>3. /\ Append(received[k], row) \in Seq(RowRecords)
          /\ DOMAIN Append(received[k], row) = 1..(Len(received[k]) + 1)
          /\ \A i \in 1..Len(received[k]) : Append(received[k], row)[i] = received[k][i]
          /\ Append(received[k], row)[Len(received[k]) + 1] = row
      BY <1>t, <3>2
    <3>4. /\ received' \in [Sockets -> Seq(RowRecords)] /\ received'[k] = Append(received[k], row)
          /\ \A j \in Sockets : j # k => received'[j] = received[j]
      BY <1>t, <3>1, <3>3
    <3> QED BY <2>2, <3>1, <3>2, <3>3, <3>4
  <2> QED BY <2>1, <2>2
<1>5. \/ /\ pushing[g] = "receiver" /\ pushing' = [pushing EXCEPT ![g] = "sender"]
         /\ published' = published
      \/ /\ pushing[g] = "sender" /\ pushing' = [pushing EXCEPT ![g] = "receiver"]
         /\ published' = [published EXCEPT ![g] = Tail(@)]
  BY <1>1, <1>t DEF Onward
<1>6. /\ published' \in [Gateways -> Seq(RowRecords)]
      /\ \A h \in Gateways : h # g => published'[h] = published[h]
      /\ pushing[g] = "receiver" => published'[g] = published[g]
      /\ pushing[g] = "sender" =>
           /\ DOMAIN published'[g] = 1..(Len(published[g]) - 1)
           /\ \A i \in DOMAIN published'[g] : /\ published'[g][i] = published[g][i + 1]
                                              /\ i + 1 \in DOMAIN published[g]
  <2>1. published[g] \in Seq(RowRecords)
    BY <1>t
  <2>2. /\ Tail(published[g]) \in Seq(RowRecords) /\ Len(Tail(published[g])) = Len(published[g]) - 1
        /\ \A i \in 1..Len(Tail(published[g])) : Tail(published[g])[i] = published[g][i + 1]
    BY <1>t, <2>1, HeadTailProperties
  <2>3. CASE pushing[g] = "receiver" /\ published' = published
    BY <1>t, <2>3
  <2>4. CASE pushing[g] = "sender" /\ published' = [published EXCEPT ![g] = Tail(@)]
    <3>1. /\ published' \in [Gateways -> Seq(RowRecords)] /\ published'[g] = Tail(published[g])
          /\ \A h \in Gateways : h # g => published'[h] = published[h]
      BY <1>t, <2>2, <2>4
    <3>2. DOMAIN published'[g] = 1..(Len(published[g]) - 1)
      BY <2>2, <3>1
    <3>3. \A i \in 1..(Len(published[g]) - 1) : i + 1 \in 1..Len(published[g])
      BY <2>1
    <3> QED BY <2>1, <2>2, <2>4, <3>1, <3>2, <3>3
  <2> QED BY <1>5, <2>3, <2>4
<1>7. \A h \in Gateways : \A i \in DOMAIN published'[h] :
        \E c \in {0, 1} : /\ i + c \in DOMAIN published[h] /\ published'[h][i] = published[h][i + c]
                          /\ \A j \in DOMAIN published'[h] :
                               /\ j + c \in DOMAIN published[h]
                               /\ published'[h][j] = published[h][j + c]
                               /\ i < j => i + c < j + c
  <2> SUFFICES ASSUME NEW h \in Gateways, NEW i \in DOMAIN published'[h]
               PROVE  \E c \in {0, 1} :
                        /\ i + c \in DOMAIN published[h] /\ published'[h][i] = published[h][i + c]
                        /\ \A j \in DOMAIN published'[h] :
                             /\ j + c \in DOMAIN published[h]
                             /\ published'[h][j] = published[h][j + c]
                             /\ i < j => i + c < j + c
    OBVIOUS
  <2>1. /\ published[h] \in Seq(RowRecords) /\ published'[h] \in Seq(RowRecords)
        /\ \A j \in DOMAIN published'[h] : j \in Int
    BY <1>6, <1>t
  <2>2. CASE published'[h] = published[h]
    <3>1. \A j \in DOMAIN published'[h] : j + 0 = j
      BY <2>1
    <3> QED BY <2>2, <3>1
  <2>3. CASE h = g /\ pushing[g] = "sender"
    <3>1. \A j \in DOMAIN published'[h] : i < j => i + 1 < j + 1
      BY <2>1
    <3> QED BY <1>6, <2>3, <3>1
  <2> QED BY <1>5, <1>6, <2>2, <2>3
<1>8. ChatShape'
  <2>1. pushing' \in [Gateways -> {"receiver", "sender"}]
    BY <1>5, <1>t
  <2> QED BY <1>1, <1>4, <1>6, <2>1 DEF CInv, ChatShape, NoSockets, SocketAt
<1>9. RowsInv'
  <2>1. \A w \in Writers : storing'[w] # NotStoring =>
          /\ IsRow(storing[w])' /\ storing'[w].by = w
          /\ \A h \in Gateways : \A i \in DOMAIN published'[h] : published'[h][i].id # storing'[w].id
    <3>1. \A w \in Writers : storing[w] # NotStoring =>
            /\ IsRow(storing[w])' /\ storing[w].by = w
            /\ \A h \in Gateways : \A i \in DOMAIN published[h] : published[h][i].id # storing[w].id
      BY <1>1 DEF CInv, RowsInv, IsRow
    <3> QED BY <1>1, <1>7, <3>1
  <2>2. \A h \in Gateways : \A i \in DOMAIN published'[h] : IsRow(published[h][i])'
    <3>1. \A h \in Gateways : \A i \in DOMAIN published'[h] : IsRow(published'[h][i])
      BY <1>7 DEF CInv, RowsInv
    <3> QED BY <1>1, <3>1 DEF IsRow
  <2>3. \A j \in Sockets : \A i \in DOMAIN received'[j] :
          /\ IsRow(received[j][i])' /\ ~ SocketAt(j, "unused")'
          /\ sockets'[j].user \in {received'[j][i].m.sender, received'[j][i].m.receiver}
    <3>1. \A j \in Sockets : \A i \in DOMAIN received'[j] :
            /\ IsRow(received'[j][i]) /\ ~ SocketAt(j, "unused")
            /\ sockets[j].user \in {received'[j][i].m.sender, received'[j][i].m.receiver}
      <4> SUFFICES ASSUME NEW j \in Sockets, NEW i \in DOMAIN received'[j]
                   PROVE  /\ IsRow(received'[j][i]) /\ ~ SocketAt(j, "unused")
                          /\ sockets[j].user \in {received'[j][i].m.sender, received'[j][i].m.receiver}
        OBVIOUS
      <4>1. CASE i \in DOMAIN received[j]
        BY <1>4, <4>1 DEF CInv, RowsInv
      <4>2. CASE received'[j][i] = row /\ j = k /\ sockets[k].step \in {"greet", "open"}
        <5>1. k # None
          BY <4>2, ChatAssumption
        <5> QED BY <1>2, <1>3, <4>2, <5>1 DEF Addressee, SocketAt
      <4> QED BY <1>4, <4>1, <4>2
    <3>2. messages' = messages /\ sockets' = sockets
      BY <1>1 DEF NoSockets
    <3>3. \A y : IsRow(y) => \E x \in messages' : x.id = y.id /\ x.m = y.m /\ x.by = y.by
      BY <3>2 DEF IsRow
    <3>4. \A j \in Sockets : \A i \in DOMAIN received'[j] : IsRow(received[j][i])'
      BY <3>1, <3>3 DEF IsRow
    <3> QED BY <3>1, <3>2, <3>4 DEF SocketAt
  <2>4. /\ \A x \in messages' : /\ x.id \in 1..Cardinality(messages')
                                /\ x.by = "http" => x.m.socket = None
        /\ \A x, y \in messages' : x.id = y.id => x = y
        /\ \A x, y \in messages' : x.m = y.m /\ x.by = y.by => x = y
    BY <1>1 DEF CInv, RowsInv
  <2> QED BY <2>1, <2>2, <2>3, <2>4 DEF RowsInv
<1>10. OrderInv'
  <2>1. StoredWereSent'
    BY <1>1 DEF CInv, OrderInv, StoredWereSent
  <2> SUFFICES ASSUME NEW r \in Replicas
               PROVE  Heard(r)' /\ OnTheWay(r)' /\ Arrived(r)'
    BY <2>1 DEF OrderInv
  <2>2. Heard(r)'
    BY <1>1 DEF CInv, OrderInv, Heard
  <2>3. \A y : Behind(r, y) => Behind(r, y)'
    BY <1>1 DEF Behind
  <2>4. OnTheWay(r)'
    <3> SUFFICES ASSUME NEW h \in Gateways, NEW i \in DOMAIN published'[h], published'[h][i].by = r
                 PROVE  /\ Behind(r, published[h][i])'
                        /\ \A j \in DOMAIN published'[h] :
                             i < j /\ published'[h][j].by = r =>
                               published'[h][i].m.id <= published'[h][j].m.id
      BY DEF OnTheWay
    <3>1. PICK c \in {0, 1} : /\ i + c \in DOMAIN published[h] /\ published'[h][i] = published[h][i + c]
                              /\ \A j \in DOMAIN published'[h] :
                                   /\ j + c \in DOMAIN published[h]
                                   /\ published'[h][j] = published[h][j + c]
                                   /\ i < j => i + c < j + c
      BY <1>7
    <3>2. Behind(r, published[h][i + c])
      BY <3>1 DEF CInv, OrderInv, OnTheWay
    <3>3. Behind(r, published[h][i])'
      BY <1>1, <3>1, <3>2 DEF Behind
    <3> QED BY <3>1, <3>3 DEF CInv, OrderInv, OnTheWay
  <2>5. \A i \in DOMAIN published'[g] : published'[g][i].by = r /\ row.by = r =>
          row.m.id <= published'[g][i].m.id
    <3> SUFFICES ASSUME NEW i \in DOMAIN published'[g], published'[g][i].by = r, row.by = r
                 PROVE  row.m.id <= published'[g][i].m.id
      OBVIOUS
    <3>1. PICK c \in {0, 1} : i + c \in DOMAIN published[g] /\ published'[g][i] = published[g][i + c]
      BY <1>7
    <3>2. i \in Nat \ {0} /\ published[g] \in Seq(RowRecords) /\ row.m.id \in Nat
      <4>1. published[g] \in Seq(RowRecords) /\ published'[g] \in Seq(RowRecords)
        BY <1>6, <1>t
      <4>2. i \in Nat \ {0}
        BY <4>1
      <4>3. row.m.id \in Nat
        BY <1>t DEF RowRecords, MessageRecords
      <4> QED BY <4>1, <4>2, <4>3
    <3>3. CASE i + c = 1
      BY <1>r, <3>1, <3>2, <3>3
    <3>4. CASE 1 < i + c
      BY <1>r, <1>t, <3>1, <3>4 DEF CInv, OrderInv, OnTheWay
    <3> QED BY <3>2, <3>3, <3>4
  <2>6. Arrived(r)'
    <3> SUFFICES ASSUME NEW j \in Sockets, NEW i \in DOMAIN received'[j], received'[j][i].by = r
                 PROVE  /\ Behind(r, received[j][i])'
                        /\ \A n \in DOMAIN published'[sockets'[j].at] :
                             published'[sockets'[j].at][n].by = r =>
                               received'[j][i].m.id <= published'[sockets'[j].at][n].m.id
                        /\ \A n \in DOMAIN received'[j] :
                             i < n /\ received'[j][n].by = r => received'[j][i].m.id <= received'[j][n].m.id
      BY DEF Arrived
    <3>0. sockets' = sockets /\ storing' = storing
      BY <1>1 DEF NoSockets
    <3>1. CASE i \in DOMAIN received[j]
      <4>1. /\ received'[j][i] = received[j][i] /\ Behind(r, received[j][i])
            /\ sockets[j].at \in Gateways
        BY <1>4, <3>1 DEF CInv, OrderInv, Arrived, RowsInv, ChatShape
      <4>2. Behind(r, received[j][i])'
        BY <3>0, <4>1 DEF Behind
      <4>3. ASSUME NEW n \in DOMAIN published'[sockets[j].at], published'[sockets[j].at][n].by = r
            PROVE  received'[j][i].m.id <= published'[sockets[j].at][n].m.id
        <5>1. PICK c \in {0, 1} : /\ n + c \in DOMAIN published[sockets[j].at]
                                  /\ published'[sockets[j].at][n] = published[sockets[j].at][n + c]
          BY <1>7, <4>1, <4>3
        <5> QED BY <3>1, <4>1, <4>3, <5>1 DEF CInv, OrderInv, Arrived
      <4>4. ASSUME NEW n \in DOMAIN received'[j], i < n, received'[j][n].by = r
            PROVE  received'[j][i].m.id <= received'[j][n].m.id
        <5>1. CASE n \in DOMAIN received[j]
          BY <1>4, <3>1, <4>1, <4>4, <5>1 DEF CInv, OrderInv, Arrived
        <5>2. CASE received'[j][n] = row /\ j = k /\ sockets[k].step \in {"greet", "open"}
          <6>1. sockets[j].at = g
            BY <1>2, <5>2, ChatAssumption
          <6> QED BY <1>r, <1>t, <3>1, <4>1, <4>4, <5>2, <6>1 DEF CInv, OrderInv, Arrived
        <5> QED BY <1>4, <5>1, <5>2
      <4> QED BY <3>0, <4>2, <4>3, <4>4
    <3>2. CASE i \notin DOMAIN received[j]
      <4>1. /\ received'[j][i] = row /\ j = k /\ sockets[k].step \in {"greet", "open"}
            /\ \A n \in DOMAIN received'[j] : ~ i < n
        BY <1>4, <3>2
      <4>2. sockets[j].at = g
        BY <1>2, <4>1, ChatAssumption
      <4>3. Behind(r, row)
        BY <1>r, <1>t, <4>1 DEF CInv, OrderInv, OnTheWay
      <4>4. Behind(r, received[j][i])'
        BY <3>0, <4>1, <4>3 DEF Behind
      <4> QED BY <2>5, <3>0, <4>1, <4>2, <4>4
    <3> QED BY <3>1, <3>2
  <2> QED BY <2>2, <2>4, <2>6
<1>11. DueInv'
  <2>1. \A d \in due :
          /\ d.socket \in Sockets /\ SocketAt(d.socket, "open") /\ EntryOf(d.socket) = d.socket
          /\ \E x \in messages : x.id = d.row /\ sockets[d.socket].user \in {x.m.sender, x.m.receiver}
    BY DEF CInv, DueInv
  <2>2. \A j \in Sockets : \A n : Has(j, n) => Has(j, n)'
    BY <1>4 DEF Has
  \* The connection the row is due to is the one written to.
  <2>3. ASSUME NEW d \in due, sockets[d.socket].at = g, d.row = row.id,
               sockets[d.socket].user = Addressee(g, row)
        PROVE  Has(d.socket, d.row)'
    <3>m. PICK j \in Sockets : j = d.socket
      BY <2>1
    <3>1. SocketAt(j, "open") /\ EntryOf(j) = j /\ sockets[j].at = g /\ sockets[j].user = Addressee(g, row)
      BY <2>1, <2>3, <3>m
    <3>2. sockets[j].user \in Users
      BY <3>1 DEF CInv, ChatShape, SocketAt
    <3>3. k = j
      BY <1>k, <3>1, <3>2 DEF TargetOf, EntryOf
    <3>4. \E i \in DOMAIN received'[j] : received'[j][i] = row
      BY <1>4, <3>1, <3>3, ChatAssumption DEF SocketAt
    <3> QED BY <2>3, <3>m, <3>4 DEF Has
  <2>4. ASSUME NEW d \in due
        PROVE  \/ Has(d.socket, d.row)'
               \/ \E i \in DOMAIN published'[sockets[d.socket].at] :
                    published'[sockets[d.socket].at][i].id = d.row
    <3>m. PICK j \in Sockets : j = d.socket
      BY <2>1
    <3>0. sockets[j].at \in Gateways /\ sockets[j].user \in Users
      BY <2>1, <3>m DEF CInv, ChatShape, SocketAt
    <3>1. CASE Has(j, d.row)
      BY <2>2, <3>m, <3>1
    <3>2. CASE published'[sockets[j].at] = published[sockets[j].at] /\ ~ Has(j, d.row)
      BY <3>m, <3>2 DEF CInv, DueInv, DueArrives, Has
    <3>3. CASE sockets[j].at = g /\ pushing[g] = "sender" /\ ~ Has(j, d.row)
      <4>1. PICK i \in DOMAIN published[g] : published[g][i].id = d.row
        BY <3>m, <3>3 DEF CInv, DueInv, DueArrives, Has
      <4>2. CASE i = 1
        <5>1. PICK x \in messages : x.id = d.row /\ sockets[j].user \in {x.m.sender, x.m.receiver}
          BY <2>1, <3>m
        <5>2. x.m = row.m
          BY <1>3, <1>r, <4>1, <4>2, <5>1 DEF IsRow, CInv, RowsInv
        <5>3. sockets[j].user # row.m.receiver
          BY <1>r, <3>m, <3>3, <4>1, <4>2 DEF CInv, DueInv
        <5>4. sockets[j].user = Addressee(g, row)
          BY <3>3, <5>1, <5>2, <5>3 DEF Addressee
        <5> QED BY <1>r, <2>3, <3>m, <3>3, <4>1, <4>2, <5>4
      <4>3. CASE i # 1
        <5>1. /\ published[g] \in Seq(RowRecords) /\ i \in 2..Len(published[g])
          BY <1>t, <4>1, <4>3
        <5>2. i - 1 \in DOMAIN published'[g] /\ published'[g][i - 1] = published[g][i]
          <6>1. i - 1 \in DOMAIN published'[g] /\ (i - 1) + 1 = i
            BY <1>6, <3>3, <5>1
          <6> QED BY <1>6, <3>3, <6>1
        <5> QED BY <3>m, <3>3, <4>1, <5>2
      <4> QED BY <4>2, <4>3
    <3> QED BY <1>5, <1>6, <3>0, <3>1, <3>2, <3>3
  <2>5. ASSUME NEW h \in Gateways, pushing'[h] = "sender"
        PROVE  /\ published'[h] # <<>>
               /\ \A d \in due :
                    /\ sockets[d.socket].at = h /\ d.row = published'[h][1].id
                    /\ sockets[d.socket].user = published'[h][1].m.receiver
                    => Has(d.socket, d.row)'
    <3>1. CASE h = g
      <4>1. pushing[g] = "receiver" /\ published'[g] = published[g]
        BY <1>5, <1>t, <2>5, <3>1
      <4> QED BY <1>r, <1>t, <2>3, <3>1, <4>1 DEF Addressee
    <3>2. CASE h # g
      <4>1. pushing[h] = "sender" /\ published'[h] = published[h]
        BY <1>5, <1>6, <1>t, <2>5, <3>2
      <4> QED BY <2>1, <2>2, <4>1 DEF CInv, DueInv
    <3> QED BY <3>1, <3>2
  <2>6. DueArrives'
    BY <1>1, <2>4 DEF DueArrives, Has, NoSockets
  <2> QED BY <1>1, <2>1, <2>5, <2>6 DEF DueInv, Has, NoSockets, EntryOf, SocketAt
<1> QED BY <1>1, <1>8, <1>9, <1>10, <1>11, MapStays DEF CInv

-----------------------------------------------------------------------------
LEMMA StopReplicaStep ==
  ASSUME CInv, NEW r \in Replicas, StopReplica(r)
  PROVE  CInv'
<1>1. /\ incoming' = [incoming EXCEPT ![r] = <<>>] /\ storing' = [storing EXCEPT ![r] = NotStoring]
      /\ NoSockets /\ UNCHANGED <<published, pushing, messages, sent, received, due>>
  BY DEF StopReplica
<1>2. /\ incoming' \in [Replicas -> Seq(MessageRecords)]
      /\ storing' \in [Writers -> RowRecords \cup {NotStoring}]
      /\ \A q \in Replicas : incoming'[q] = <<>> \/ incoming'[q] = incoming[q]
      /\ \A w \in Writers : storing'[w] = NotStoring \/ storing'[w] = storing[w]
  BY <1>1 DEF CInv, ChatShape, Writers
<1>3. ChatShape'
  BY <1>1, <1>2 DEF CInv, ChatShape, NoSockets, SocketAt
<1>4. RowsInv'
  BY <1>1, <1>2 DEF CInv, RowsInv, NoSockets, IsRow, SocketAt
<1>5. OrderInv'
  <2>1. StoredWereSent'
    BY <1>1 DEF CInv, OrderInv, StoredWereSent
  <2>2. ASSUME NEW q \in Replicas
        PROVE  Heard(q)'
    <3>1. CASE incoming'[q] = <<>>
      BY <3>1 DEF Heard
    <3>2. CASE incoming'[q] = incoming[q]
      BY <1>1, <3>2 DEF CInv, OrderInv, Heard
    <3> QED BY <1>2, <3>1, <3>2
  <2>3. \A q \in Replicas : OnTheWay(q)' /\ Arrived(q)'
    BY <1>1, <1>2 DEF CInv, OrderInv, OnTheWay, Arrived, Behind, NoSockets, Writers
  <2> QED BY <2>1, <2>2, <2>3 DEF OrderInv
<1>6. DueInv'
  BY <1>1 DEF CInv, DueInv, DueArrives, Has, NoSockets, EntryOf, SocketAt
<1> QED BY <1>1, <1>3, <1>4, <1>5, <1>6, MapStays DEF CInv

\* A row is lost to one gateway, and it is due to nobody any more.
LEMMA MissStep ==
  ASSUME CInv, NEW g \in Gateways, Miss(g)
  PROVE  CInv'
<1>1. /\ published[g] # <<>> /\ pushing[g] = "receiver"
      /\ published' = [published EXCEPT ![g] = Tail(@)]
      /\ due' = {d \in due : d.row # Head(published[g]).id}
      /\ NoSockets /\ UNCHANGED <<incoming, storing, pushing, messages, sent, received>>
  BY DEF Miss
<1>2. /\ published[g] \in Seq(RowRecords) /\ published' \in [Gateways -> Seq(RowRecords)]
      /\ Head(published[g]) = published[g][1]
      /\ \A h \in Gateways : h # g => published'[h] = published[h]
      /\ DOMAIN published'[g] = 1..(Len(published[g]) - 1)
      /\ \A i \in DOMAIN published'[g] : published'[g][i] = published[g][i + 1]
  <2>1. published[g] \in Seq(RowRecords) /\ published \in [Gateways -> Seq(RowRecords)]
    BY DEF CInv, ChatShape
  <2>2. /\ Tail(published[g]) \in Seq(RowRecords) /\ Len(Tail(published[g])) = Len(published[g]) - 1
        /\ \A i \in 1..Len(Tail(published[g])) : Tail(published[g])[i] = published[g][i + 1]
    BY <1>1, <2>1, HeadTailProperties
  <2> QED BY <1>1, <2>1, <2>2
<1>3. \A i \in DOMAIN published'[g] : /\ i + 1 \in DOMAIN published[g]
                                      /\ \A j \in DOMAIN published'[g] : i < j => i + 1 < j + 1
  BY <1>2
<1>4. ChatShape'
  BY <1>1, <1>2 DEF CInv, ChatShape, NoSockets, SocketAt
<1>5. RowsInv'
  <2>1. \A w \in Writers : storing'[w] # NotStoring =>
          /\ IsRow(storing[w])' /\ storing'[w].by = w
          /\ \A h \in Gateways : \A i \in DOMAIN published'[h] : published'[h][i].id # storing'[w].id
    <3>1. \A w \in Writers : storing[w] # NotStoring =>
            /\ IsRow(storing[w])' /\ storing[w].by = w
            /\ \A h \in Gateways : \A i \in DOMAIN published[h] : published[h][i].id # storing[w].id
      BY <1>1 DEF CInv, RowsInv, IsRow
    <3> QED BY <1>1, <1>2, <1>3, <3>1
  <2>2. \A h \in Gateways : \A i \in DOMAIN published'[h] : IsRow(published[h][i])'
    <3>1. \A h \in Gateways : \A i \in DOMAIN published'[h] : IsRow(published'[h][i])
      BY <1>2, <1>3 DEF CInv, RowsInv
    <3> QED BY <1>1, <3>1 DEF IsRow
  <2>3. \A j \in Sockets : \A i \in DOMAIN received'[j] :
          /\ IsRow(received[j][i])' /\ ~ SocketAt(j, "unused")'
          /\ sockets'[j].user \in {received'[j][i].m.sender, received'[j][i].m.receiver}
    BY <1>1 DEF CInv, RowsInv, IsRow, NoSockets, SocketAt
  <2>4. /\ \A x \in messages' : /\ x.id \in 1..Cardinality(messages')
                                /\ x.by = "http" => x.m.socket = None
        /\ \A x, y \in messages' : x.id = y.id => x = y
        /\ \A x, y \in messages' : x.m = y.m /\ x.by = y.by => x = y
    BY <1>1 DEF CInv, RowsInv
  <2> QED BY <2>1, <2>2, <2>3, <2>4 DEF RowsInv
<1>6. OrderInv'
  <2>1. StoredWereSent' /\ \A q \in Replicas : Heard(q)'
    BY <1>1 DEF CInv, OrderInv, StoredWereSent, Heard
  <2> SUFFICES ASSUME NEW r \in Replicas
               PROVE  OnTheWay(r)' /\ Arrived(r)'
    BY <2>1 DEF OrderInv
  <2>0. OnTheWay(r) /\ Arrived(r)
    BY DEF CInv, OrderInv
  <2>2. OnTheWay(r)'
    <3>1. ASSUME NEW h \in Gateways, NEW i \in DOMAIN published'[h], published'[h][i].by = r
          PROVE  /\ Behind(r, published[h][i])'
                 /\ \A j \in DOMAIN published'[h] :
                      i < j /\ published'[h][j].by = r =>
                        published'[h][i].m.id <= published'[h][j].m.id
      <4>1. CASE h = g
        <5>1. Behind(r, published[g][i + 1]) /\ published'[g][i] = published[g][i + 1]
          BY <1>2, <1>3, <3>1, <4>1 DEF CInv, OrderInv, OnTheWay
        <5>2. Behind(r, published[h][i])'
          BY <1>1, <4>1, <5>1 DEF Behind
        <5> QED BY <1>2, <1>3, <3>1, <4>1, <5>2 DEF CInv, OrderInv, OnTheWay
      <4>2. CASE h # g
        BY <1>1, <1>2, <3>1, <4>2 DEF CInv, OrderInv, OnTheWay, Behind
      <4> QED BY <4>1, <4>2
    <3> QED BY <3>1 DEF OnTheWay
  <2>3. Arrived(r)'
    <3>1. ASSUME NEW j \in Sockets, NEW i \in DOMAIN received[j], received[j][i].by = r,
                 NEW n \in DOMAIN published'[sockets[j].at], published'[sockets[j].at][n].by = r
          PROVE  received[j][i].m.id <= published'[sockets[j].at][n].m.id
      <4>1. sockets[j].at \in Gateways
        BY <3>1 DEF CInv, RowsInv, ChatShape
      <4>2. CASE sockets[j].at = g
        <5>1. published'[g][n] = published[g][n + 1] /\ n + 1 \in DOMAIN published[g]
          BY <1>2, <1>3, <3>1, <4>2
        <5>2. published[g][n + 1].by = r
          BY <3>1, <4>2, <5>1
        <5> QED BY <2>0, <3>1, <4>2, <5>1, <5>2 DEF Arrived
      <4>3. CASE sockets[j].at # g
        BY <1>2, <2>0, <3>1, <4>1, <4>3 DEF Arrived
      <4> QED BY <4>2, <4>3
    <3>2. received' = received /\ sockets' = sockets /\ storing' = storing
      BY <1>1 DEF NoSockets
    <3> QED BY <2>0, <3>1, <3>2 DEF Arrived, Behind
  <2> QED BY <2>2, <2>3
<1>7. DueInv'
  <2>1. \A d \in due' :
          /\ d.socket \in Sockets /\ SocketAt(d.socket, "open") /\ EntryOf(d.socket) = d.socket
          /\ \E x \in messages : x.id = d.row /\ sockets[d.socket].user \in {x.m.sender, x.m.receiver}
    BY <1>1 DEF CInv, DueInv
  <2>2. ASSUME NEW d \in due'
        PROVE  \/ Has(d.socket, d.row)
               \/ \E i \in DOMAIN published'[sockets[d.socket].at] :
                    published'[sockets[d.socket].at][i].id = d.row
    <3>m. PICK at : at = sockets[d.socket].at
      OBVIOUS
    <3>0. at \in Gateways
      BY <2>1, <3>m DEF CInv, ChatShape, SocketAt
    <3>1. Has(d.socket, d.row) \/ \E i \in DOMAIN published[at] : published[at][i].id = d.row
      BY <1>1, <3>m DEF CInv, DueInv, DueArrives, Has
    <3>2. CASE at # g
      BY <1>2, <3>m, <3>0, <3>1, <3>2
    <3>3. CASE at = g /\ ~ Has(d.socket, d.row)
      <4>1. PICK i \in DOMAIN published[g] : published[g][i].id = d.row
        BY <3>1, <3>3
      <4>2. i \in 2..Len(published[g])
        BY <1>1, <1>2, <4>1
      <4>3. i - 1 \in DOMAIN published'[g] /\ (i - 1) + 1 = i
        BY <1>2, <4>2
      <4> QED BY <1>2, <3>m, <3>3, <4>1, <4>3
    <3> QED BY <3>2, <3>3
  <2>3. ASSUME NEW h \in Gateways, pushing'[h] = "sender"
        PROVE  /\ published'[h] # <<>>
               /\ \A d \in due' :
                    /\ sockets[d.socket].at = h /\ d.row = published'[h][1].id
                    /\ sockets[d.socket].user = published'[h][1].m.receiver
                    => Has(d.socket, d.row)
    <3>1. h # g /\ pushing[h] = "sender" /\ published'[h] = published[h]
      BY <1>1, <1>2, <2>3
    <3> QED BY <1>1, <3>1 DEF CInv, DueInv
  <2>4. DueArrives'
    BY <1>1, <2>2 DEF DueArrives, Has, NoSockets
  <2> QED BY <1>1, <2>1, <2>3, <2>4 DEF DueInv, Has, NoSockets, EntryOf, SocketAt
<1> QED BY <1>1, <1>4, <1>5, <1>6, <1>7, MapStays DEF CInv

\* A gateway stops with its connections and its queue.
LEMMA StopsStep ==
  ASSUME CInv, NEW g \in Gateways, Stops(g)
  PROVE  CInv'
<1>1. /\ sockets' = [k \in Sockets |-> IF sockets[k].at = g THEN [sockets[k] EXCEPT !.step = "closed"]
                                       ELSE sockets[k]]
      /\ connections' = [connections EXCEPT ![g] = [u \in Users |-> None]]
      /\ published' = [published EXCEPT ![g] = <<>>] /\ pushing' = [pushing EXCEPT ![g] = "receiver"]
      /\ due' = {d \in due : sockets[d.socket].at # g}
      /\ UNCHANGED <<sessions, incoming, storing, messages, sent, received, cut, stranded, unset>>
  BY DEF Stops
<1>2. \A k \in Sockets : /\ sockets'[k].user = sockets[k].user /\ sockets'[k].at = sockets[k].at
                         /\ sockets[k].at = g => sockets'[k].step = "closed"
                         /\ sockets[k].at # g => sockets'[k] = sockets[k]
                         /\ sockets'[k] \in SocketRecords
                         /\ SocketAt(k, "unused") <=> SocketAt(k, "unused")'
  <2> SUFFICES ASSUME NEW k \in Sockets
               PROVE  /\ sockets'[k].user = sockets[k].user /\ sockets'[k].at = sockets[k].at
                      /\ sockets[k].at = g => sockets'[k].step = "closed"
                      /\ sockets[k].at # g => sockets'[k] = sockets[k]
                      /\ sockets'[k] \in SocketRecords
                      /\ SocketAt(k, "unused") <=> SocketAt(k, "unused")'
    OBVIOUS
  <2>1. sockets[k] \in SocketRecords
    BY DEF CInv, ChatShape, SocketRecords
  <2>2. CASE sockets[k].at = g
    <3>1. sockets'[k] = [sockets[k] EXCEPT !.step = "closed"]
      BY <1>1, <2>2
    <3>2. ~ SocketAt(k, "unused")
      BY <2>2, ChatAssumption DEF CInv, ChatShape
    <3> QED BY <2>1, <2>2, <3>1, <3>2 DEF SocketRecords, SocketSteps, SocketAt
  <2>3. CASE sockets[k].at # g
    BY <1>1, <2>1, <2>3 DEF SocketAt
  <2> QED BY <2>2, <2>3
<1>3. /\ connections' \in [Gateways -> [Users -> Sockets \cup {None}]]
      /\ \A u \in Users : connections'[g][u] = None
      /\ \A h \in Gateways : h # g => connections'[h] = connections[h]
      /\ published' \in [Gateways -> Seq(RowRecords)] /\ published'[g] = <<>>
      /\ \A h \in Gateways : h # g => published'[h] = published[h]
      /\ pushing' \in [Gateways -> {"receiver", "sender"}] /\ pushing'[g] = "receiver"
      /\ \A h \in Gateways : h # g => pushing'[h] = pushing[h]
  BY <1>1 DEF CInv, ChatShape
<1>4. ChatShape'
  <2>1. /\ sockets' \in [Sockets -> SocketRecords]
        /\ \A k \in Sockets : IF SocketAt(k, "unused")' THEN sockets'[k].at = None
                              ELSE sockets'[k].user \in Users /\ sockets'[k].at \in Gateways
    BY <1>1, <1>2 DEF CInv, ChatShape
  <2> QED BY <1>1, <1>3, <2>1 DEF CInv, ChatShape, SocketRecords
<1>5. SocketInv'
  <2>1. EntriesAreLive'
    <3> SUFFICES ASSUME NEW h \in Gateways, NEW v \in Users, NEW c, c = connections'[h][v], c # None
                 PROVE  /\ sockets'[c].user = v /\ sockets'[c].at = h
                        /\ sockets'[c].step \in {"greet", "open", "delete"} \/ c \in stranded'
      BY DEF EntriesAreLive
    <3>1. h # g /\ c = connections[h][v]
      BY <1>3
    <3>2. /\ c \in Sockets /\ sockets[c].user = v /\ sockets[c].at = h
          /\ sockets[c].step \in {"greet", "open", "delete"} \/ c \in stranded
      BY <3>1 DEF CInv, ChatShape, SocketInv, EntriesAreLive
    <3> QED BY <1>1, <1>2, <3>1, <3>2
  <2>2. RunningIsInMap'
    <3> SUFFICES ASSUME NEW j \in Sockets, Reached(j)', EntryOf(j)' # j
                 PROVE  /\ j \in cut'
                        /\ \E i \in Sockets \ {j} :
                             /\ sockets'[i].user = sockets'[j].user
                             /\ sockets'[i].at = sockets'[j].at
                             /\ sockets'[i].step \in {"greet", "open", "delete", "forget", "closed"}
      BY DEF RunningIsInMap
    <3>1. sockets[j].at # g /\ sockets'[j] = sockets[j] /\ Reached(j)
      BY <1>2 DEF Reached
    <3>2. sockets[j].at \in Gateways /\ sockets[j].user \in Users
      BY <3>1 DEF CInv, ChatShape, SocketAt, Reached
    <3>3. EntryOf(j)' = EntryOf(j)
      BY <1>3, <3>1, <3>2 DEF EntryOf
    <3>4. PICK i \in Sockets \ {j} :
            /\ sockets[i].user = sockets[j].user /\ sockets[i].at = sockets[j].at
            /\ sockets[i].step \in {"greet", "open", "delete", "forget", "closed"}
      BY <3>1, <3>3 DEF CInv, SocketInv, RunningIsInMap
    <3>5. j \in cut
      BY <3>1, <3>3 DEF CInv, SocketInv, RunningIsInMap
    <3> QED BY <1>1, <1>2, <3>1, <3>4, <3>5
  <2>3. \A j \in Sockets : sockets'[j].step \in {"store", "greet", "open"} =>
          sockets'[j].user \in sessions' \cup unset'
    BY <1>1, <1>2 DEF CInv, SocketInv
  <2>4. \A j \in stranded' : j \in Sockets /\ SocketAt(j, "closed")'
    BY <1>1, <1>2 DEF CInv, SocketInv, SocketAt
  <2> QED BY <2>1, <2>2, <2>3, <2>4 DEF SocketInv
<1>6. RowsInv'
  <2>1. \A w \in Writers : storing'[w] # NotStoring =>
          /\ IsRow(storing[w])' /\ storing'[w].by = w
          /\ \A h \in Gateways : \A i \in DOMAIN published'[h] : published'[h][i].id # storing'[w].id
    <3>1. \A w \in Writers : storing[w] # NotStoring =>
            /\ IsRow(storing[w])' /\ storing[w].by = w
            /\ \A h \in Gateways : \A i \in DOMAIN published[h] : published[h][i].id # storing[w].id
      BY <1>1 DEF CInv, RowsInv, IsRow
    <3> QED BY <1>1, <1>3, <3>1
  <2>2. \A h \in Gateways : \A i \in DOMAIN published'[h] : IsRow(published[h][i])'
    <3>1. \A h \in Gateways : \A i \in DOMAIN published'[h] : IsRow(published'[h][i])
      <4>1. \A h \in Gateways : \A i \in DOMAIN published'[h] : published'[h] = published[h]
        BY <1>3
      <4> QED BY <4>1 DEF CInv, RowsInv
    <3> QED BY <1>1, <3>1 DEF IsRow
  <2>3. \A j \in Sockets : \A i \in DOMAIN received'[j] :
          /\ IsRow(received[j][i])' /\ ~ SocketAt(j, "unused")'
          /\ sockets'[j].user \in {received'[j][i].m.sender, received'[j][i].m.receiver}
    <3>1. \A j \in Sockets : \A i \in DOMAIN received[j] :
            /\ IsRow(received[j][i])' /\ ~ SocketAt(j, "unused")
            /\ sockets[j].user \in {received[j][i].m.sender, received[j][i].m.receiver}
      BY <1>1 DEF CInv, RowsInv, IsRow
    <3> SUFFICES ASSUME NEW j \in Sockets, NEW i \in DOMAIN received[j]
                 PROVE  /\ IsRow(received[j][i])' /\ ~ SocketAt(j, "unused")'
                        /\ sockets'[j].user \in {received[j][i].m.sender, received[j][i].m.receiver}
      BY <1>1 DEF IsRow
    <3>2. sockets'[j].user = sockets[j].user /\ (SocketAt(j, "unused")' => SocketAt(j, "unused"))
      BY <1>2
    <3> QED BY <3>1, <3>2
  <2>4. /\ \A x \in messages' : /\ x.id \in 1..Cardinality(messages')
                                /\ x.by = "http" => x.m.socket = None
        /\ \A x, y \in messages' : x.id = y.id => x = y
        /\ \A x, y \in messages' : x.m = y.m /\ x.by = y.by => x = y
    BY <1>1 DEF CInv, RowsInv
  <2> QED BY <2>1, <2>2, <2>3, <2>4 DEF RowsInv
<1>7. OrderInv'
  <2>1. StoredWereSent' /\ \A q \in Replicas : Heard(q)'
    BY <1>1 DEF CInv, OrderInv, StoredWereSent, Heard
  <2> SUFFICES ASSUME NEW r \in Replicas
               PROVE  OnTheWay(r)' /\ Arrived(r)'
    BY <2>1 DEF OrderInv
  <2>0. OnTheWay(r) /\ Arrived(r)
    BY DEF CInv, OrderInv
  <2>2. OnTheWay(r)'
    <3>1. \A h \in Gateways : \A i \in DOMAIN published'[h] : h # g /\ published'[h] = published[h]
      BY <1>3
    <3> QED BY <1>1, <3>1 DEF CInv, OrderInv, OnTheWay, Behind
  <2>3. Arrived(r)'
    <3>1. ASSUME NEW j \in Sockets, NEW i \in DOMAIN received[j], received[j][i].by = r,
                 NEW n \in DOMAIN published'[sockets[j].at], published'[sockets[j].at][n].by = r
          PROVE  received[j][i].m.id <= published'[sockets[j].at][n].m.id
      <4>1. sockets[j].at \in Gateways
        BY <3>1 DEF CInv, RowsInv, ChatShape
      <4>2. sockets[j].at # g
        BY <1>3, <3>1
      <4>3. published'[sockets[j].at] = published[sockets[j].at]
        BY <1>3, <4>1, <4>2
      <4> QED BY <2>0, <3>1, <4>3 DEF Arrived
    <3>2. \A j \in Sockets : \A i \in DOMAIN received[j] : received[j][i].by = r =>
            /\ Behind(r, received[j][i])'
            /\ \A n \in DOMAIN received[j] :
                 i < n /\ received[j][n].by = r => received[j][i].m.id <= received[j][n].m.id
      BY <1>1, <2>0 DEF Arrived, Behind
    <3>3. received' = received /\ \A j \in Sockets : sockets'[j].at = sockets[j].at
      BY <1>1, <1>2
    <3> QED BY <3>1, <3>2, <3>3 DEF Arrived, Behind
  <2> QED BY <2>2, <2>3
<1>8. DueInv'
  <2>1. ASSUME NEW d \in due'
        PROVE  /\ d.socket \in Sockets /\ sockets'[d.socket] = sockets[d.socket]
               /\ sockets[d.socket].at \in Gateways \ {g}
               /\ SocketAt(d.socket, "open")' /\ EntryOf(d.socket)' = d.socket
               /\ published'[sockets[d.socket].at] = published[sockets[d.socket].at]
               /\ d \in due
    <3>m. PICK j \in Sockets : j = d.socket
      BY <1>1, <2>1 DEF CInv, DueInv
    <3>1. SocketAt(j, "open") /\ EntryOf(j) = j /\ sockets[j].at # g
      BY <1>1, <2>1, <3>m DEF CInv, DueInv
    <3>2. sockets[j].at \in Gateways /\ sockets[j].user \in Users
      BY <3>1 DEF CInv, ChatShape, SocketAt
    <3>3. sockets'[j] = sockets[j] /\ d \in due
      BY <1>1, <1>2, <2>1, <3>1
    <3>4. /\ connections'[sockets[j].at] = connections[sockets[j].at]
          /\ published'[sockets[j].at] = published[sockets[j].at]
      BY <1>3, <3>1, <3>2
    <3> QED BY <3>m, <3>1, <3>2, <3>3, <3>4 DEF SocketAt, EntryOf
  <2>2. \A d \in due' : \E x \in messages' :
          x.id = d.row /\ sockets'[d.socket].user \in {x.m.sender, x.m.receiver}
    BY <1>1, <2>1 DEF CInv, DueInv
  <2>3. DueArrives'
    <3> SUFFICES ASSUME NEW d \in due'
                 PROVE  \/ \E i \in DOMAIN received'[d.socket] : received'[d.socket][i].id = d.row
                        \/ \E i \in DOMAIN published'[sockets'[d.socket].at] :
                             published'[sockets'[d.socket].at][i].id = d.row
      BY DEF DueArrives
    <3>1. /\ sockets'[d.socket] = sockets[d.socket] /\ d \in due
          /\ published'[sockets[d.socket].at] = published[sockets[d.socket].at]
      BY <2>1
    <3>2. \/ \E i \in DOMAIN received[d.socket] : received[d.socket][i].id = d.row
          \/ \E i \in DOMAIN published[sockets[d.socket].at] :
               published[sockets[d.socket].at][i].id = d.row
      BY <3>1 DEF CInv, DueInv, DueArrives
    <3> QED BY <1>1, <3>1, <3>2
  <2>4. ASSUME NEW h \in Gateways, pushing'[h] = "sender"
        PROVE  /\ published'[h] # <<>>
               /\ \A d \in due' :
                    /\ sockets'[d.socket].at = h /\ d.row = published'[h][1].id
                    /\ sockets'[d.socket].user = published'[h][1].m.receiver
                    => Has(d.socket, d.row)'
    <3>1. h # g /\ pushing[h] = "sender" /\ published'[h] = published[h]
      BY <1>3, <2>4
    <3> QED BY <1>1, <2>1, <3>1 DEF CInv, DueInv, Has
  <2> QED BY <2>1, <2>2, <2>3, <2>4 DEF DueInv
<1> QED BY <1>4, <1>5, <1>6, <1>7, <1>8 DEF CInv

\* The handler's panic leaves its entry behind.
LEMMA CollideStep ==
  ASSUME CInv, NEW g \in Gateways, Collide(g)
  PROVE  CInv'
<1>1. CASE Stops(g)
  BY <1>1, StopsStep
<1>2. CASE ~ Stops(g)
  <2>k. PICK k : k = TargetOf(g, Head(published[g]))
    OBVIOUS
  <2>1. /\ k # None /\ SocketAt(k, "greet") /\ SocketTo(k, "closed") /\ stranded' = stranded \cup {k}
        /\ UNCHANGED <<connections, sessions, due, cut, unset, incoming, storing, published,
                       pushing, messages, sent, received>>
    BY <1>2, <2>k DEF Collide
  <2>2. k \in Sockets
    BY <2>k, <2>1 DEF TargetOf, CInv, ChatShape
  <2>3. ~ SocketAt(k, "unused") /\ "closed" \in SocketSteps
    BY <2>1 DEF SocketAt, SocketSteps
  <2>4. /\ sockets'[k].step = "closed" /\ sockets'[k].user = sockets[k].user
        /\ sockets'[k].at = sockets[k].at
        /\ \A j \in Sockets : j # k => sockets'[j] = sockets[j]
    BY <2>1, <2>2, <2>3, SocketMoves DEF CInv
  <2>5. ChatShape'
    <3>1. sessions' \subseteq Users /\ connections' \in [Gateways -> [Users -> Sockets \cup {None}]]
      BY <2>1 DEF CInv, ChatShape
    <3> QED BY <2>1, <2>2, <2>3, <3>1, MovesKeepShape DEF CInv
  <2>6. SocketInv'
    <3>1. EntriesAreLive'
      <4> SUFFICES ASSUME NEW h \in Gateways, NEW v \in Users, NEW c, c = connections'[h][v], c # None
                   PROVE  /\ sockets'[c].user = v /\ sockets'[c].at = h
                          /\ sockets'[c].step \in {"greet", "open", "delete"} \/ c \in stranded'
        BY DEF EntriesAreLive
      <4>1. /\ c \in Sockets /\ sockets[c].user = v /\ sockets[c].at = h
            /\ sockets[c].step \in {"greet", "open", "delete"} \/ c \in stranded
        BY <2>1 DEF CInv, ChatShape, SocketInv, EntriesAreLive
      <4> QED BY <2>1, <2>4, <4>1
    <3>2. RunningIsInMap'
      BY <2>1, <2>2, <2>3, <2>4, <2>5, InMap DEF Reached
    <3>3. \A j \in Sockets : sockets'[j].step \in {"store", "greet", "open"} =>
            sockets'[j].user \in sessions' \cup unset'
      BY <2>1, <2>4 DEF CInv, SocketInv
    <3>4. \A j \in stranded' : j \in Sockets /\ SocketAt(j, "closed")'
      BY <2>1, <2>2, <2>4 DEF CInv, SocketInv, SocketAt
    <3> QED BY <3>1, <3>2, <3>3, <3>4 DEF SocketInv
  <2>7. RowsInv' /\ OrderInv' /\ DueInv'
    <3>1. \A d \in due' : SocketAt(d.socket, "open")' /\ EntryOf(d.socket)' = d.socket
      BY <2>1, <2>4 DEF CInv, DueInv, SocketAt, EntryOf
    <3>2. \A j \in Sockets : ~ SocketAt(j, "unused") =>
            /\ ~ SocketAt(j, "unused")' /\ sockets'[j].user = sockets[j].user
            /\ sockets'[j].at = sockets[j].at
      BY <2>4 DEF SocketAt
    <3> QED BY <2>1, <2>5, <3>1, <3>2, SocketsChange
  <2> QED BY <2>5, <2>6, <2>7 DEF CInv
<1> QED BY <1>1, <1>2

LEMMA ChatStart == ChatInit => CInv
<1> SUFFICES ASSUME ChatInit PROVE CInv
  OBVIOUS
<1>1. \A k \in Sockets : /\ sockets[k] = Unused /\ received[k] = <<>>
                         /\ sockets[k].step = "unused" /\ sockets[k].at = None
  BY DEF ChatInit, Unused
<1>2. /\ \A g \in Gateways, u \in Users : connections[g][u] = None
      /\ \A g \in Gateways : published[g] = <<>> /\ pushing[g] = "receiver"
      /\ \A r \in Replicas : incoming[r] = <<>>
      /\ \A w \in Writers : storing[w] = NotStoring
      /\ messages = {} /\ sent = <<>> /\ due = {} /\ stranded = {} /\ sessions = {}
  BY DEF ChatInit
<1>3. ChatShape
  BY <1>1, FS_EmptySet, ChatAssumption DEF ChatInit, ChatShape, Unused, SocketSteps, SocketAt
<1>4. SocketInv
  BY <1>1, <1>2 DEF SocketInv, EntriesAreLive, RunningIsInMap, Reached
<1>5. RowsInv
  <2>1. \A k \in Sockets : DOMAIN received[k] = {}
    BY <1>1
  <2>2. \A g \in Gateways : DOMAIN published[g] = {}
    BY <1>2
  <2> QED BY <1>2, <2>1, <2>2 DEF RowsInv
<1>6. OrderInv
  <2>1. \A k \in Sockets : DOMAIN received[k] = {}
    BY <1>1
  <2>2. \A g \in Gateways : DOMAIN published[g] = {}
    BY <1>2
  <2>3. \A r \in Replicas : DOMAIN incoming[r] = {}
    BY <1>2
  <2> QED BY <1>2, <2>1, <2>2, <2>3 DEF OrderInv, StoredWereSent, Heard, OnTheWay, Arrived
<1>7. DueInv
  BY <1>2 DEF DueInv, DueArrives
<1> QED BY <1>3, <1>4, <1>5, <1>6, <1>7 DEF CInv

LEMMA ChatStep == CInv /\ [ChatNext]_chatVars => CInv'
<1> SUFFICES ASSUME CInv, [ChatNext]_chatVars
             PROVE  CInv'
  OBVIOUS
<1>1. ASSUME NEW k \in Sockets, NEW g \in Gateways, NEW u \in Users, Connect(k, g, u)
      PROVE  CInv'
  BY <1>1, ConnectStep
<1>2. ASSUME NEW k \in Sockets, SetSession(k) PROVE CInv'
  BY <1>2, SetSessionStep
<1>3. ASSUME NEW k \in Sockets, Store(k) PROVE CInv'
  BY <1>3, StoreStep
<1>4. ASSUME NEW k \in Sockets, Greet(k) \/ Disconnect(k) \/ Forget(k) PROVE CInv'
  BY <1>4, GreetStep
<1>5. ASSUME NEW k \in Sockets, Delete(k) PROVE CInv'
  BY <1>5, DeleteStep
<1>6. ASSUME NEW k \in Sockets, NEW p \in Users \cup Staff \cup {Unknown}, Publish(k, p) PROVE CInv'
  BY <1>6, PublishStep DEF Everyone
<1>7. ASSUME NEW r \in Replicas, CreateChatMessage(r) PROVE CInv'
  BY <1>7, CreateChatMessageStep
<1>8. ASSUME NEW r \in Replicas, StopReplica(r) PROVE CInv'
  BY <1>8, StopReplicaStep
<1>9. ASSUME NEW w \in Writers, SendMessage(w) PROVE CInv'
  BY <1>9, SendMessageStep
<1>10. ASSUME NEW a \in Users \cup Staff, NEW b \in Users \cup Staff, PostMessage(a, b) PROVE CInv'
  BY <1>10, PostMessageStep
<1>11. ASSUME NEW a \in Users \cup Staff, NEW b \in Users \cup Staff, MarkMessagesAsRead(a, b) PROVE CInv'
  BY <1>11, MarkMessagesAsReadStep
<1>12. ASSUME NEW g \in Gateways, PushToUser(g) PROVE CInv'
  BY <1>12, PushToUserStep
<1>13. ASSUME NEW g \in Gateways, StopGateway(g) PROVE CInv'
  BY <1>13, StopsStep DEF StopGateway
<1>14. ASSUME NEW g \in Gateways, Collide(g) PROVE CInv'
  BY <1>14, CollideStep
<1>15. ASSUME NEW g \in Gateways, Miss(g) PROVE CInv'
  BY <1>15, MissStep
<1>16. CASE UNCHANGED chatVars
  <2>1. NoSockets /\ UNCHANGED <<incoming, storing, published, pushing, messages, sent, received, due>>
    BY <1>16 DEF chatVars, NoSockets
  <2>2. ChatShape'
    BY <2>1 DEF CInv, ChatShape, NoSockets, SocketAt
  <2>3. \A d \in due' : SocketAt(d.socket, "open")' /\ EntryOf(d.socket)' = d.socket
    BY <2>1 DEF CInv, DueInv, NoSockets, SocketAt, EntryOf
  <2>4. RowsInv' /\ OrderInv' /\ DueInv'
    BY <2>1, <2>2, <2>3, SocketsChange DEF NoSockets, SocketAt
  <2> QED BY <2>1, <2>2, <2>4, MapStays DEF CInv
<1> QED
  BY <1>1, <1>2, <1>3, <1>4, <1>5, <1>6, <1>7, <1>8, <1>9, <1>10, <1>11, <1>12, <1>13, <1>14, <1>15, <1>16
  DEF ChatNext

LEMMA ChatFollows == CInv => ChatHolds
<1> SUFFICES ASSUME CInv PROVE ChatHolds
  OBVIOUS
<1>1. ChatTypeOK
  <2>1. \A k \in Sockets : sockets[k].step \in SocketSteps
    BY DEF CInv, ChatShape
  <2>2. \A w \in Writers : storing[w] # NotStoring => \E row \in messages : row.id = storing[w].id
    BY DEF CInv, RowsInv, IsRow
  <2> QED BY <2>1, <2>2 DEF ChatTypeOK, SocketSteps, CInv, ChatShape, RowsInv
<1>2. EntriesAreLive /\ RunningIsInMap /\ DueArrives
  BY DEF CInv, SocketInv, DueInv
<1>3. RunningHasSession
  BY DEF RunningHasSession, CInv, SocketInv, Reached
<1>4. PushedIsStored
  BY DEF PushedIsStored, CInv, RowsInv, IsRow
<1>5. InOrder
  <2> SUFFICES ASSUME NEW k \in Sockets, NEW i \in DOMAIN received[k], NEW j \in DOMAIN received[k],
                      i < j, received[k][i].by = received[k][j].by,
                      received[k][i].m.socket # None
               PROVE  received[k][i].m.id <= received[k][j].m.id
    BY DEF InOrder
  <2>1. IsRow(received[k][i])
    BY DEF CInv, RowsInv
  <2>2. PICK x \in messages : x.m = received[k][i].m /\ x.by = received[k][i].by
    BY <2>1 DEF IsRow
  <2>3. x.by \in Writers /\ x.by # "http"
    BY <2>2 DEF CInv, ChatShape, RowRecords, RowsInv
  <2>4. received[k][i].by \in Replicas
    BY <2>2, <2>3 DEF Writers
  <2> QED BY <2>4 DEF CInv, OrderInv, Arrived
<1> QED BY <1>1, <1>2, <1>3, <1>4, <1>5 DEF ChatHolds

\* Chat (hub.go, support app.go): whatever the interleaving of connections of one
\* user, of replicas and of gateways that stop, the map holds only live entries,
\* what is pushed is stored and goes to the people it is for, what was published
\* for an open connection arrives, and one replica's messages keep their order.
THEOREM ChatIsKept == ChatSpec => []ChatHolds
<1> QED BY ChatStart, ChatStep, ChatFollows, PTL DEF ChatSpec
=============================================================================
