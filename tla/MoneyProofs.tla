----------------------------- MODULE MoneyProofs -----------------------------
(***************************************************************************)
(* What is built on the bank, for any number of people and requests.       *)
(*                                                                         *)
(* Deposits: the invariant follows one checkout; what exists of it (the    *)
(* order, the row, the credit) is determined by how far InitiateDeposit    *)
(* came and by what was told, captured and reported.                       *)
(*                                                                         *)
(* Pods: the invariant says whose pod a handler has read, and that the     *)
(* account of an id that was not handed out is as it was opened.           *)
(*                                                                         *)
(* History: the invariant keeps the times of the transfers apart, ties a   *)
(* filing to its payer, makes every balance the sum of its transactions,   *)
(* and says which rows a reader has got past.  A row that commits late     *)
(* pushes the others down, never up, so nobody misses one that was there   *)
(* before.                                                                 *)
(***************************************************************************)
EXTENDS Money, SetSums

Ordered(o) ==
  order[o].status # "none" => order[o].amount = ThroughRupees(ThroughRupees(Asked[o]))

Stored(o) ==
  IF row[o].status = "none" THEN row[o] = Nothing
                            ELSE row[o].amount = ThroughRupees(Asked[o])

\* Which parts of a checkout are there at each step of InitiateDeposit.
Progress(o) ==
  /\ initiated[o] \in {"idle", "order"} => order[o].status = "none"
  /\ initiated[o] \in {"idle", "order", "persist"} => row[o].status = "none"
  /\ initiated[o] \in {"persist", "answer", "done"} => order[o].status # "none"
  /\ initiated[o] \in {"answer", "done"} => row[o].status # "none"
  /\ row[o].status # "none" => order[o].status # "none"
  /\ initiated[o] \in {"order", "persist", "answer", "done"} \/ order[o].status # "none"
       => ThroughRupees(Asked[o]) \in MinDeposit..MaxDeposit

\* A payment needs the order's id, which is told after the row is written.
Payment(o) ==
  /\ o \in told => row[o].status # "none"
  /\ order[o].status = "captured" => row[o].status # "none"
  /\ o \in reports => order[o].status = "captured"
  /\ row[o].status = "paid" => order[o].status = "captured"
  /\ credited[o] = IF row[o].status = "paid" THEN row[o].amount ELSE 0

DInv ==
  /\ DepositsTypeOK
  /\ \A o \in Checkouts : Ordered(o) /\ Stored(o) /\ Progress(o) /\ Payment(o)

-----------------------------------------------------------------------------
\* A conversion through rupees loses a paisa or nothing.
LEMMA LossIsOnePaisa ==
  ASSUME NEW p \in Nat, p > 0
  PROVE  ThroughRupees(p) \in Nat /\ ThroughRupees(p) \in (p - 1)..p
BY DEF ThroughRupees

LEMMA AskedFacts ==
  ASSUME NEW o \in Checkouts
  PROVE  /\ ThroughRupees(Asked[o]) \in Nat
         /\ ThroughRupees(Asked[o]) \in (Asked[o] - 1)..Asked[o]
         /\ Asked[o] \in Nat
BY LossIsOnePaisa, DepositsAssumption

LEMMA DepositsStart == DepositsInit => DInv
BY DepositsAssumption
   DEF DepositsInit, DInv, DepositsTypeOK, Ordered, Stored, Progress, Payment, Nothing

LEMMA DepositsStep == DInv /\ [DepositsNext]_depositVars => DInv'
<1> SUFFICES ASSUME DInv, [DepositsNext]_depositVars PROVE DInv'
  OBVIOUS
<1> USE DepositsAssumption
<1>1. CASE UNCHANGED depositVars
  BY <1>1 DEF depositVars, DInv, DepositsTypeOK, Ordered, Stored, Progress, Payment
<1>2. ASSUME NEW o \in Checkouts, Initiate(o) PROVE DInv'
  <2>1. DepositsTypeOK'
    BY <1>2 DEF Initiate, Reached, DInv, DepositsTypeOK
  <2>2. ASSUME NEW c \in Checkouts PROVE Progress(c)'
    <3>1. CASE c = o
      BY <1>2, <3>1 DEF Initiate, Reached, DInv, DepositsTypeOK, Progress
    <3>2. CASE c # o
      BY <1>2, <3>2 DEF Initiate, Reached, DInv, DepositsTypeOK, Progress
    <3>3. QED
      BY <3>1, <3>2
  <2>3. ASSUME NEW c \in Checkouts PROVE Ordered(c)' /\ Stored(c)' /\ Payment(c)'
    BY <1>2 DEF Initiate, DInv, Ordered, Stored, Payment
  <2>4. QED
    BY <2>1, <2>2, <2>3 DEF DInv
<1>3. ASSUME NEW o \in Checkouts, CreateOrder(o) PROVE DInv'
  <2>1. ThroughRupees(Asked[o]) \in Nat /\ ThroughRupees(Asked[o]) > 0
    BY <1>3, AskedFacts DEF CreateOrder, DInv, Progress
  <2>2. ThroughRupees(ThroughRupees(Asked[o])) \in Nat
    BY <2>1, LossIsOnePaisa
  <2> QED
    BY <1>3, <2>2
       DEF CreateOrder, Reached, DInv, DepositsTypeOK, Ordered, Stored, Progress, Payment
<1>4. ASSUME NEW o \in Checkouts, Persist(o) PROVE DInv'
  BY <1>4, AskedFacts
     DEF Persist, Reached, DInv, DepositsTypeOK, Ordered, Stored, Progress, Payment, Nothing
<1>5. ASSUME NEW o \in Checkouts, AnswerClient(o) PROVE DInv'
  BY <1>5
     DEF AnswerClient, Reached, DInv, DepositsTypeOK, Ordered, Stored, Progress, Payment
<1>6. ASSUME NEW o \in Checkouts, InitiateFails(o) PROVE DInv'
  BY <1>6
     DEF InitiateFails, Reached, Lose, DInv, DepositsTypeOK, Ordered, Stored, Progress, Payment
<1>7. ASSUME NEW o \in Checkouts, Capture(o) PROVE DInv'
  BY <1>7 DEF Capture, DInv, DepositsTypeOK, Ordered, Stored, Progress, Payment
<1>8. ASSUME NEW o \in Checkouts, Report(o) PROVE DInv'
  BY <1>8 DEF Report, DInv, DepositsTypeOK, Ordered, Stored, Progress, Payment
<1>9. ASSUME NEW o \in Checkouts, LoseReport(o) PROVE DInv'
  BY <1>9 DEF LoseReport, Lose, DInv, DepositsTypeOK, Ordered, Stored, Progress, Payment
<1>10. ASSUME NEW o \in Checkouts, ConfirmReport(o) PROVE DInv'
  <2>1. CASE row[o].status = "created"
    <3>1. /\ row' = [row EXCEPT ![o].status = "paid"]
          /\ credited' = [credited EXCEPT ![o] = @ + row[o].amount]
          /\ reports' = reports \ {o} /\ o \in reports
          /\ UNCHANGED <<initiated, order, told, losses>>
      BY <1>10, <2>1 DEF ConfirmReport
    <3>2. DepositsTypeOK'
      BY <2>1, <3>1 DEF DInv, DepositsTypeOK, Nothing
    <3>3. ASSUME NEW q \in Checkouts PROVE Ordered(q)' /\ Stored(q)' /\ Progress(q)'
      BY <2>1, <3>1 DEF DInv, DepositsTypeOK, Ordered, Stored, Progress, Nothing
    <3>4. ASSUME NEW q \in Checkouts PROVE Payment(q)'
      BY <2>1, <3>1 DEF DInv, DepositsTypeOK, Payment
    <3> QED BY <3>2, <3>3, <3>4 DEF DInv
  <2>2. CASE row[o].status # "created"
    BY <1>10, <2>2
       DEF ConfirmReport, DInv, DepositsTypeOK, Ordered, Stored, Progress, Payment
  <2> QED BY <2>1, <2>2
<1> QED
  BY <1>1, <1>2, <1>3, <1>4, <1>5, <1>6, <1>7, <1>8, <1>9, <1>10 DEF DepositsNext

\* The invariant holds of every checkout at every time.
THEOREM DepositsInvariant == DepositsSpec => []DInv
BY DepositsStart, DepositsStep, PTL DEF DepositsSpec

\* ConfirmPayment: whatever is lost, repeated or failed on the way of a
\* deposit, a credit answers a captured payment, once, with the stored amount,
\* and a captured payment has a row to be credited by.
THEOREM CheckoutsAreSafe == DepositsSpec => []CheckoutsHold
<1>1. DInv => CheckoutsHold
  BY DEF DInv, CheckoutsHold, CreditedOnceIfCaptured, Payment, Stored, Nothing
<1> QED BY <1>1, DepositsInvariant, PTL

\* int(rupees * 100), twice: the order is at most two paise below what the
\* client wrote and one below what is credited, for every amount.
THEOREM RoundingIsBounded == DepositsSpec => []WithinTwoPaise
<1>1. ASSUME DInv, NEW o \in Checkouts, order[o].status # "none"
      PROVE  /\ order[o].amount \in (Asked[o] - 2)..Asked[o]
             /\ row[o].status # "none" => order[o].amount \in (row[o].amount - 1)..row[o].amount
  <2> DEFINE stored == ThroughRupees(Asked[o])
  <2>1. stored \in Nat /\ stored > 0 /\ stored \in (Asked[o] - 1)..Asked[o] /\ Asked[o] \in Nat
    BY <1>1, AskedFacts, DepositsAssumption DEF DInv, Progress
  <2>2. ThroughRupees(stored) \in (stored - 1)..stored /\ ThroughRupees(stored) \in Nat
    BY <2>1, LossIsOnePaisa
  <2>3. order[o].amount = ThroughRupees(stored)
    BY <1>1 DEF DInv, Ordered
  <2>4. row[o].status # "none" => row[o].amount = stored
    BY <1>1 DEF DInv, Stored
  <2> HIDE DEF stored
  <2> QED BY <2>1, <2>2, <2>3, <2>4
<1>2. DInv => WithinTwoPaise
  BY <1>1 DEF WithinTwoPaise
<1> QED BY <1>2, DepositsInvariant, PTL
-----------------------------------------------------------------------------
\* Pods.  A handler that is past its read of a pod serves the pod's owner, so
\* what it moves stays between two accounts of one user.

PastRead == {"deposit", "withdraw", "update", "delete", "remove"}

Serves(p) ==
  /\ pc[p] \notin {"idle", "done"} => job[p] \in Jobs
  /\ pc[p] = "create" => job[p].kind = "create"
  /\ pc[p] = "read" => job[p].kind # "create"
  /\ pc[p] \in PastRead \ {"remove"} => job[p].kind = pc[p]
  /\ pc[p] = "remove" => job[p].kind = "delete"
  /\ pc[p] \in PastRead => owner[job[p].pod] = job[p].user
  /\ pc[p] = "update" => read[p] \in PodRow /\ read[p].user = job[p].user

\* An id that was not handed out has an account nobody has used.
Untouched(d) == owner[d] = Nobody => balance[AccountOf[d]] = Opening[AccountOf[d]]

PodsInv ==
  /\ PodsTypeOK
  /\ \A p \in Clients : Serves(p)
  /\ \A d \in PodIds : Untouched(d)
  /\ TotalsUnmoved

LEMMA JobFacts ==
  ASSUME NEW j \in Jobs
  PROVE  /\ j.user \in Users /\ j.user # Nobody
         /\ j.kind = "create" => j.name \in Texts
         /\ j.kind \in {"create", "deposit", "withdraw", "update", "delete"}
         /\ j.kind # "create" => j.pod \in PodIds
         /\ j.kind \in {"deposit", "withdraw"} => j.amount \in Nat \ {0}
         /\ j.kind = "update" => j.field \in {"name", "icon"} /\ j.text \in Texts
BY JobsAssumption, WalletsAssumption DEF JobShape

LEMMA PodFacts ==
  ASSUME PodsTypeOK, NEW d \in PodIds
  PROVE  /\ NoPod \notin PodRow /\ NoPod.user = Nobody
         /\ Exists(d) <=> pods[d] \in PodRow
         /\ pods[d].user # Nobody => Exists(d) /\ pods[d].user = owner[d]
BY WalletsAssumption DEF PodsTypeOK, PodRow, NoPod, Exists

LEMMA ListFacts ==
  ASSUME NEW u \in Users
  PROVE  /\ ListAccounts(u) \subseteq Accounts /\ IsFiniteSet(ListAccounts(u))
         /\ WalletOf[u] \in ListAccounts(u)
         /\ \A d \in PodIds : AccountOf[d] \in ListAccounts(u) <=> owner[d] = u
         /\ \A v \in Users : WalletOf[v] \in ListAccounts(u) => u = v
<1>1. ListAccounts(u) \subseteq Accounts
  BY PodsAssumption, WalletsAssumption DEF ListAccounts
<1>2. IsFiniteSet(ListAccounts(u))
  BY <1>1, TablesAssumption, FS_Subset
<1>3. QED
  BY <1>1, <1>2, PodsAssumption, WalletsAssumption DEF ListAccounts

LEMMA SumOfIsSum ==
  ASSUME NEW m, NEW S
  PROVE  SumOf(m, S) = SumOver(m, S)
BY DEF SumOf, SumOver

\* A handler answers or goes on, and nothing else changes but its own state.
LEMMA HandlerMoves ==
  ASSUME PodsInv, NEW p \in Clients, UNCHANGED <<balance, pods, owner>>,
         job' \in [Clients -> Jobs \cup {NoJob}], read' \in [Clients -> PodRow \cup {NoPod}],
         NEW step \in {"idle", "create", "read", "done"} \cup PastRead, Goto(p, step),
         \A q \in Clients \ {p} : job'[q] = job[q] /\ read'[q] = read[q],
         Serves(p)'
  PROVE  PodsInv'
<1>1. pc' \in [Clients -> {"idle", "create", "read", "deposit", "withdraw",
                           "update", "delete", "remove", "done"}]
      /\ \A q \in Clients \ {p} : pc'[q] = pc[q]
  BY DEF PodsInv, PodsTypeOK, Goto, PastRead
<1>2. PodsTypeOK'
  BY <1>1 DEF PodsInv, PodsTypeOK, Exists
<1>3. \A q \in Clients : Serves(q)'
  BY <1>1 DEF PodsInv, Serves
<1>4. TotalsUnmoved'
  BY DEF PodsInv, TotalsUnmoved, GetTotalBalance, ListAccounts
<1>5. \A d \in PodIds : Untouched(d)'
  BY DEF PodsInv, Untouched
<1>6. QED
  BY <1>2, <1>3, <1>4, <1>5 DEF PodsInv

LEMMA AnswerMoves ==
  ASSUME PodsInv, NEW p \in Clients, NEW a, Answer(p, a),
         UNCHANGED <<balance, pods, owner, job, read>>
  PROVE  PodsInv'
<1>1. Goto(p, "done") /\ pc'[p] = "done"
  BY DEF Answer, Goto, PodsInv, PodsTypeOK
<1>2. Serves(p)'
  BY <1>1 DEF Serves, PastRead
<1>3. QED
  BY <1>1, <1>2, HandlerMoves DEF PodsInv, PodsTypeOK

LEMMA AskStep ==
  ASSUME PodsInv, NEW p \in Clients, Ask(p)
  PROVE  PodsInv'
<1>1. PICK j \in Jobs :
        /\ job' = [job EXCEPT ![p] = j]
        /\ Goto(p, IF j.kind = "create" THEN "create" ELSE "read")
        /\ UNCHANGED <<balance, pods, owner, read>>
  BY DEF Ask, bankVars
<1> DEFINE step == IF j.kind = "create" THEN "create" ELSE "read"
<1>2. pc'[p] = step /\ job'[p] = j /\ Goto(p, step) /\ step \in {"create", "read"}
  BY <1>1 DEF Goto, PodsInv, PodsTypeOK
<1>3. Serves(p)'
  BY <1>2 DEF Serves, PastRead
<1> HIDE DEF step
<1>4. job' \in [Clients -> Jobs \cup {NoJob}] /\ \A q \in Clients \ {p} : job'[q] = job[q]
  BY <1>1 DEF PodsInv, PodsTypeOK
<1>5. QED
  BY <1>1, <1>2, <1>3, <1>4, HandlerMoves DEF PodsInv, PodsTypeOK

LEMMA ReadPodStep ==
  ASSUME PodsInv, NEW p \in Clients, ReadPod(p)
  PROVE  PodsInv'
<1> DEFINE j == job[p]
<1>1. pc[p] = "read" /\ UNCHANGED <<balance, pods, owner, job>>
  BY DEF ReadPod, bankVars
<1>2. /\ j \in Jobs /\ j.kind # "create" /\ j.user # Nobody /\ j.pod \in PodIds
      /\ j.kind \in {"deposit", "withdraw", "update", "delete"}
  BY <1>1, JobFacts DEF PodsInv, Serves
<1>3. CASE pods[j.pod].user # j.user
  <2>1. (\E a : Answer(p, a)) /\ UNCHANGED read
    BY <1>3 DEF ReadPod
  <2>2. QED
    BY <1>1, <2>1, AnswerMoves
<1>4. CASE pods[j.pod].user = j.user
  <2>1. read' = [read EXCEPT ![p] = pods[j.pod]] /\ Goto(p, j.kind)
    BY <1>4 DEF ReadPod
  <2>2. pods[j.pod] \in PodRow /\ owner[j.pod] = j.user
    BY <1>2, <1>4, PodFacts DEF PodsInv
  <2>3. pc'[p] = j.kind /\ read'[p] = pods[j.pod] /\ job'[p] = j
    BY <1>1, <2>1 DEF Goto, PodsInv, PodsTypeOK
  <2>4. Serves(p)'
    BY <1>1, <1>2, <1>4, <2>2, <2>3 DEF Serves, PastRead
  <2>5. read' \in [Clients -> PodRow \cup {NoPod}] /\ \A q \in Clients \ {p} : read'[q] = read[q]
    BY <2>1, <2>2 DEF PodsInv, PodsTypeOK
  <2>6. j.kind \in {"idle", "create", "read", "done"} \cup PastRead
    BY <1>2 DEF PastRead
  <2> HIDE DEF j
  <2>7. QED
    BY <1>1, <2>1, <2>4, <2>5, <2>6, HandlerMoves DEF PodsInv, PodsTypeOK
<1>5. QED
  BY <1>3, <1>4

LEMMA CheckBalanceStep ==
  ASSUME PodsInv, NEW p \in Clients, CheckBalance(p)
  PROVE  PodsInv'
<1>1. pc[p] = "delete" /\ UNCHANGED <<balance, pods, owner, job, read>>
  BY DEF CheckBalance, bankVars
<1>2. CASE Answer(p, "not empty")
  BY <1>1, <1>2, AnswerMoves
<1>3. CASE Goto(p, "remove")
  <2>1. pc'[p] = "remove"
    BY <1>3 DEF Goto, PodsInv, PodsTypeOK
  <2>2. Serves(p)'
    BY <1>1, <2>1 DEF PodsInv, Serves, PastRead
  <2>3. QED
    BY <1>1, <1>3, <2>2, HandlerMoves DEF PodsInv, PodsTypeOK, PastRead
<1>4. QED
  BY <1>2, <1>3 DEF CheckBalance

\* A handler changes the row of one pod, not whose it is.
LEMMA RowStep ==
  ASSUME PodsInv, NEW p \in Clients, UpdatePod(p) \/ Remove(p)
  PROVE  PodsInv'
<1> DEFINE d == job[p].pod
<1>1. /\ UNCHANGED <<balance, owner, job, read>> /\ (\E a : Answer(p, a))
      /\ pc[p] \in {"update", "remove"}
  BY DEF UpdatePod, Remove, bankVars
<1>2. CASE UNCHANGED pods
  BY <1>1, <1>2, AnswerMoves
<1>3. ASSUME NEW new \in PodRow \cup {NoPod}, pods' = [pods EXCEPT ![d] = new],
             new = NoPod \/ new.user = owner[d]
      PROVE  PodsInv'
  <2>1. pc' = [pc EXCEPT ![p] = "done"]
    BY <1>1 DEF Answer, Goto
  <2>2. \A c \in PodIds : Exists(c)' => pods'[c].user = owner'[c]
    BY <1>1, <1>3 DEF PodsInv, PodsTypeOK, Exists
  <2>3. PodsTypeOK'
    BY <1>1, <1>3, <2>1, <2>2 DEF PodsInv, PodsTypeOK
  <2>4. \A q \in Clients : Serves(q)'
    BY <1>1, <2>1 DEF PodsInv, PodsTypeOK, Serves, PastRead
  <2>5. TotalsUnmoved'
    BY <1>1 DEF PodsInv, TotalsUnmoved, GetTotalBalance, ListAccounts
  <2>6. \A c \in PodIds : Untouched(c)'
    BY <1>1 DEF PodsInv, Untouched
  <2>7. QED
    BY <2>3, <2>4, <2>5, <2>6 DEF PodsInv
<1>4. CASE Remove(p)
  BY <1>3, <1>4 DEF Remove
<1>5. CASE UpdatePod(p) /\ pods' # pods
  <2> DEFINE x == read[p]
  <2>1. pc[p] = "update" /\ pods' = [pods EXCEPT ![d] = [x EXCEPT ![job[p].field] = job[p].text]]
    BY <1>5 DEF UpdatePod
  <2>2. /\ x \in PodRow /\ x.user = job[p].user /\ owner[d] = job[p].user
        /\ job[p] \in Jobs /\ job[p].kind = "update"
    BY <2>1 DEF PodsInv, Serves, PastRead
  <2>3. job[p].field \in {"name", "icon"} /\ job[p].text \in Texts
    BY <2>2, JobFacts
  <2> HIDE DEF x, d
  <2>4. CASE job[p].field = "name"
    <3>1. [x EXCEPT !["name"] = job[p].text] \in PodRow
          /\ [x EXCEPT !["name"] = job[p].text].user = owner[d]
      BY <2>2, <2>3 DEF PodRow
    <3>2. QED
      BY <1>3, <2>1, <2>4, <3>1
  <2>5. CASE job[p].field = "icon"
    <3>1. [x EXCEPT !["icon"] = job[p].text] \in PodRow
          /\ [x EXCEPT !["icon"] = job[p].text].user = owner[d]
      BY <2>2, <2>3 DEF PodRow
    <3>2. QED
      BY <1>3, <2>1, <2>5, <3>1
  <2>6. QED
    BY <2>3, <2>4, <2>5
<1>6. QED
  BY <1>2, <1>4, <1>5

\* A new pod adds an account nobody has used to its owner's.
LEMMA CreatePodStep ==
  ASSUME PodsInv, NEW p \in Clients, CreatePod(p)
  PROVE  PodsInv'
<1> DEFINE u == job[p].user
           pod == [user |-> u, name |-> job[p].name, icon |-> job[p].name]
<1>1. PICK d \in PodIds :
        /\ owner[d] = Nobody
        /\ owner' = [owner EXCEPT ![d] = u]
        /\ pods' = [pods EXCEPT ![d] = pod]
  BY DEF CreatePod
<1>2. /\ pc[p] = "create" /\ pc' = [pc EXCEPT ![p] = "done"]
      /\ UNCHANGED <<balance, job, read>>
  BY DEF CreatePod, Answer, Goto, bankVars
<1>3. job[p] \in Jobs /\ job[p].kind = "create"
  BY <1>2 DEF PodsInv, Serves
<1>4. u \in Users /\ u # Nobody /\ pod \in PodRow /\ pod.user = u
  BY <1>3, JobFacts DEF PodRow
<1>5. /\ owner' \in [PodIds -> Users \cup {Nobody}] /\ owner'[d] = u
      /\ \A c \in PodIds \ {d} : owner'[c] = owner[c] /\ pods'[c] = pods[c]
      /\ pods' \in [PodIds -> PodRow \cup {NoPod}] /\ pods'[d] = pod
  BY <1>1, <1>4 DEF PodsInv, PodsTypeOK
<1> HIDE DEF u, pod
<1>6. PodsTypeOK'
  BY <1>2, <1>4, <1>5 DEF PodsInv, PodsTypeOK, Exists
<1>7. \A q \in Clients : Serves(q)'
  <2> SUFFICES ASSUME NEW q \in Clients PROVE Serves(q)'
    OBVIOUS
  <2>1. pc[q] \in PastRead => /\ job[q].pod \in PodIds /\ owner[job[q].pod] = job[q].user
                              /\ job[q].user # Nobody
    BY JobFacts DEF PodsInv, Serves, PastRead
  <2>2. pc[q] \in PastRead => owner'[job[q].pod] = job[q].user
    BY <1>1, <1>5, <2>1
  <2>3. pc'[q] = pc[q] \/ pc'[q] = "done"
    BY <1>2 DEF PodsInv, PodsTypeOK
  <2>4. QED
    BY <1>2, <2>2, <2>3 DEF PodsInv, Serves, PastRead
<1>8. \A c \in PodIds : Untouched(c)'
  BY <1>2, <1>4, <1>5 DEF PodsInv, Untouched
<1>9. ASSUME NEW v \in Users
      PROVE  SumOver(balance, ListAccounts(v)') = SumOver(Opening, ListAccounts(v)')
  <2>1. SumOver(balance, ListAccounts(v)) = SumOver(Opening, ListAccounts(v))
    BY SumOfIsSum DEF PodsInv, TotalsUnmoved, GetTotalBalance
  <2>2. CASE v # u
    <3>1. ListAccounts(v)' = ListAccounts(v)
      BY <1>1, <1>5, <1>9, <2>2, WalletsAssumption DEF ListAccounts
    <3>2. QED
      BY <2>1, <3>1
  <2>3. CASE v = u
    <3> DEFINE S == ListAccounts(v)
               a == AccountOf[d]
    <3>1. ListAccounts(v)' = S \cup {a}
      <4>1. \A c \in PodIds : owner'[c] = v <=> owner[c] = v \/ c = d
        BY <1>1, <1>4, <1>5, <2>3
      <4>2. QED
        BY <4>1 DEF ListAccounts
    <3>2. a \notin S /\ IsFiniteSet(S) /\ S \subseteq Accounts /\ a \in Accounts
      BY <1>1, <1>4, <1>9, <2>3, ListFacts, PodsAssumption
    <3>3. balance[a] = Opening[a]
      BY <1>1 DEF PodsInv, Untouched
    <3>4. /\ \A b \in S \cup {a} : balance[b] \in Int
          /\ \A b \in S \cup {a} : Opening[b] \in Int
      BY <3>2, AccountsAssumption DEF PodsInv, PodsTypeOK
    <3> HIDE DEF S, a
    <3>5. /\ SumOver(balance, S \cup {a}) = SumOver(balance, S) + balance[a]
          /\ SumOver(Opening, S \cup {a}) = SumOver(Opening, S) + Opening[a]
      BY <3>2, <3>4, SumGrows
    <3>6. SumOver(balance, S) = SumOver(Opening, S)
      BY <2>1, <2>3 DEF S
    <3>7. QED
      BY <2>3, <3>1, <3>3, <3>5, <3>6
  <2>4. QED
    BY <2>2, <2>3
<1>10. TotalsUnmoved'
  <2>1. Opening' = Opening /\ balance' = balance
    BY <1>2
  <2>2. \A v \in Users : SumOf(balance, ListAccounts(v)') = SumOf(Opening, ListAccounts(v)')
    BY <1>9, SumOfIsSum
  <2>3. QED
    BY <2>1, <2>2 DEF TotalsUnmoved, GetTotalBalance
<1>11. QED
  BY <1>6, <1>7, <1>8, <1>10 DEF PodsInv

\* The two accounts of a transfer are its user's, wallet and pod.
LEMMA MoveFacts ==
  ASSUME PodsInv, NEW p \in Clients, pc[p] \in {"deposit", "withdraw"}
  PROVE  /\ job[p].user \in Users /\ job[p].pod \in PodIds
         /\ job[p].user # Nobody
         /\ owner[job[p].pod] = job[p].user
         /\ job[p].amount \in Nat /\ Move(job[p]).amount = job[p].amount
         /\ {Move(job[p]).from, Move(job[p]).to} = {WalletOf[job[p].user], AccountOf[job[p].pod]}
         /\ Move(job[p]).from # Move(job[p]).to
         /\ Move(job[p]).from \in Accounts /\ Move(job[p]).to \in Accounts
<1>1. job[p] \in Jobs /\ job[p].kind = pc[p] /\ owner[job[p].pod] = job[p].user
  BY DEF PodsInv, Serves, PastRead
<1>2. QED
  BY <1>1, JobFacts, PodsAssumption, WalletsAssumption DEF Move

LEMMA TransferStep ==
  ASSUME PodsInv, NEW p \in Clients, TransferToPod(p)
  PROVE  PodsInv'
<1>1. pc[p] \in {"deposit", "withdraw"} /\ UNCHANGED <<pods, owner, job, read>>
      /\ \E a : Answer(p, a)
  BY DEF TransferToPod
<1>2. CASE UNCHANGED bankVars
  BY <1>1, <1>2, AnswerMoves DEF bankVars
<1>3. CASE Transfer(Move(job[p]))
  <2> DEFINE from == Move(job[p]).from
             to == Move(job[p]).to
             amount == job[p].amount
             u == job[p].user
             between == [balance EXCEPT ![from] = balance[from] - amount]
  <2>1. /\ from \in Accounts /\ to \in Accounts /\ from # to /\ amount \in Nat
        /\ u \in Users /\ job[p].pod \in PodIds /\ owner[job[p].pod] = u /\ u # Nobody
        /\ {from, to} = {WalletOf[u], AccountOf[job[p].pod]}
        /\ Move(job[p]).amount = amount
    BY <1>1, MoveFacts
  <2>2. balance' = [balance EXCEPT ![from] = @ - amount, ![to] = @ + amount]
    BY <1>3, <2>1 DEF Transfer
  <2>3. balance \in [Accounts -> Int]
    BY DEF PodsInv, PodsTypeOK
  <2> HIDE DEF from, to, amount, u
  <2>4. /\ between[from] = balance[from] - amount
        /\ \A a \in Accounts \ {from} : between[a] = balance[a]
        /\ \A a \in Accounts : between[a] \in Int
    BY <2>1, <2>3
  <2>5. /\ balance' \in [Accounts -> Int]
        /\ balance'[to] = between[to] + amount
        /\ \A a \in Accounts \ {to} : balance'[a] = between[a]
    BY <2>1, <2>2, <2>3
  <2> HIDE DEF between
  <2>6. pc' = [pc EXCEPT ![p] = "done"]
    BY <1>1 DEF Answer, Goto
  <2>7. PodsTypeOK'
    BY <1>1, <2>5, <2>6 DEF PodsInv, PodsTypeOK, Exists
  <2>8. \A q \in Clients : Serves(q)'
    BY <1>1, <2>6 DEF PodsInv, PodsTypeOK, Serves, PastRead
  <2>9. \A c \in PodIds : Untouched(c)'
    <3> SUFFICES ASSUME NEW c \in PodIds, owner[c] = Nobody
                 PROVE  balance'[AccountOf[c]] = balance[AccountOf[c]]
      BY <1>1 DEF PodsInv, Untouched
    <3>1. AccountOf[c] \in Accounts /\ AccountOf[c] # from /\ AccountOf[c] # to
      BY <2>1, PodsAssumption
    <3>2. QED
      BY <2>4, <2>5, <3>1
  <2>10. ASSUME NEW v \in Users
         PROVE  SumOver(balance', ListAccounts(v)) = SumOver(balance, ListAccounts(v))
    <3> DEFINE S == ListAccounts(v)
    <3>1. S \subseteq Accounts /\ IsFiniteSet(S)
      BY ListFacts
    <3>2. CASE v = u
      <4>1. from \in S /\ to \in S
        BY <2>1, <3>2, ListFacts
      <4> HIDE DEF S
      <4>2. \A a \in S : balance[a] \in Int /\ between[a] \in Int /\ balance'[a] \in Int
        BY <2>3, <2>4, <2>5, <3>1
      <4>3. SumOver(between, S) = SumOver(balance, S) + between[from] - balance[from]
        BY <2>4, <3>1, <4>1, <4>2, SumMoves
      <4>4. SumOver(balance', S) = SumOver(between, S) + balance'[to] - between[to]
        BY <2>5, <3>1, <4>1, <4>2, SumMoves
      <4>5. SumOver(balance, S) \in Int
        BY <3>1, <4>2, SumIsInteger
      <4>6. SumOver(balance', S) = SumOver(balance, S)
        BY <2>1, <2>4, <2>5, <4>1, <4>2, <4>3, <4>4, <4>5
      <4>7. QED
        BY <4>6 DEF S
    <3>3. CASE v # u
      <4>1. from \notin S /\ to \notin S
        BY <2>1, <3>3, ListFacts
      <4> HIDE DEF S
      <4>2. \A a \in S : balance'[a] = balance[a]
        BY <2>4, <2>5, <3>1, <4>1
      <4>3. SumOver(balance', S) = SumOver(balance, S)
        BY <3>1, <4>2, SumsAgree
      <4>4. QED
        BY <4>3 DEF S
    <3>4. QED
      BY <3>2, <3>3
  <2>11. TotalsUnmoved'
    <3>1. \A v \in Users : ListAccounts(v)' = ListAccounts(v)
      BY <1>1 DEF ListAccounts
    <3>2. \A v \in Users : SumOver(balance', ListAccounts(v)) = SumOver(Opening, ListAccounts(v))
      BY <2>10, SumOfIsSum DEF PodsInv, TotalsUnmoved, GetTotalBalance
    <3>3. \A v \in Users : SumOf(balance', ListAccounts(v)) = SumOf(Opening, ListAccounts(v))
      BY <3>2, SumOfIsSum
    <3>4. QED
      BY <3>1, <3>3 DEF TotalsUnmoved, GetTotalBalance
  <2>12. QED
    BY <2>7, <2>8, <2>9, <2>11 DEF PodsInv
<1>4. QED
  BY <1>2, <1>3 DEF TransferToPod

LEMMA PodsStart == Init => PodsInv
<1> SUFFICES ASSUME Init PROVE PodsInv
  OBVIOUS
<1>1. balance = Opening /\ \A d \in PodIds : pods[d] = NoPod /\ owner[d] = Nobody
  BY DEF Init, BankInit
<1>2. PodsTypeOK
  BY <1>1, AccountsAssumption DEF Init, BankInit, PodsTypeOK, Exists
<1>3. \A p \in Clients : Serves(p)
  BY DEF Init, Serves, PastRead
<1>4. TotalsUnmoved
  BY <1>1 DEF TotalsUnmoved, GetTotalBalance
<1>5. QED
  BY <1>1, <1>2, <1>3, <1>4 DEF PodsInv, Untouched

LEMMA PodsStep == PodsInv /\ [Next]_vars => PodsInv'
<1> SUFFICES ASSUME PodsInv, [Next]_vars PROVE PodsInv'
  OBVIOUS
<1>1. CASE UNCHANGED vars
  <2>1. PodsTypeOK' /\ \A p \in Clients : Serves(p)'
    BY <1>1 DEF vars, bankVars, podVars, PodsInv, PodsTypeOK, Serves, Exists
  <2>2. TotalsUnmoved' /\ \A d \in PodIds : Untouched(d)'
    BY <1>1 DEF vars, bankVars, podVars, PodsInv, TotalsUnmoved, GetTotalBalance,
       ListAccounts, Untouched
  <2>3. QED
    BY <2>1, <2>2 DEF PodsInv
<1>2. CASE Next
  BY <1>2, AskStep, CreatePodStep, ReadPodStep, TransferStep, RowStep, CheckBalanceStep
     DEF Next
<1>3. QED
  BY <1>1, <1>2

\* GetTotalBalance (pod_usecase.go), for every number of users, pods and
\* concurrent handlers: whatever is created, moved, updated and deleted, a
\* user's wallet and pods together hold what they held, and a pod and its
\* account have one owner.
THEOREM PodTotalsStay == Spec => [](PodsTypeOK /\ TotalsUnmoved)
<1>1. PodsInv => PodsTypeOK /\ TotalsUnmoved
  BY DEF PodsInv
<1>2. QED
  BY <1>1, PodsStart, PodsStep, PTL DEF Spec

\* The same of the composed system, where another part may have the bank.
THEOREM PodTotalsStayInMoney == MoneySpec => []PodsKeepTotals
<1> DEFINE Inv == part = "pods" => PodsInv
           all == <<bankVars, podVars, historyVars, depositVars, part>>
<1>1. MoneyInit => Inv
  BY PodsStart DEF MoneyInit
<1>2. Inv /\ [MoneyNext]_all => Inv'
  <2> SUFFICES ASSUME Inv, [MoneyNext]_all, part' = "pods" PROVE PodsInv'
    OBVIOUS
  <2>1. CASE UNCHANGED all
    BY <2>1, PodsStep DEF vars
  <2>2. CASE MoneyNext
    BY <2>2, PodsStep DEF MoneyNext
  <2>3. QED
    BY <2>1, <2>2
<1>3. Inv => PodsKeepTotals
  BY DEF PodsInv, PodsKeepTotals
<1>4. QED
  BY <1>1, <1>2, <1>3, PTL DEF MoneySpec

LEMMA DeletedStays ==
  ASSUME PodsInv, PodsInv', Next, NEW d \in PodIds, Deleted(d)
  PROVE  /\ Deleted(d)'
         /\ ~ InFlight(d) => ~ InFlight(d)' /\ balance'[AccountOf[d]] = balance[AccountOf[d]]
<1>1. PICK p \in Clients :
        \/ Ask(p) \/ CreatePod(p) \/ ReadPod(p) \/ TransferToPod(p)
        \/ UpdatePod(p) \/ CheckBalance(p) \/ Remove(p)
  BY DEF Next
<1>2. owner[d] # Nobody /\ pods[d] = NoPod
  BY DEF Deleted, Exists
<1>3. Deleted(d)'
  <2>1. CASE CreatePod(p)
    <3>1. PICK c \in PodIds : /\ owner[c] = Nobody
                              /\ owner' = [owner EXCEPT ![c] = job[p].user]
                              /\ pods' = [pods EXCEPT ![c] = [user |-> job[p].user,
                                    name |-> job[p].name, icon |-> job[p].name]]
      BY <2>1 DEF CreatePod
    <3>2. QED
      BY <1>2, <3>1 DEF Deleted, Exists, PodsInv, PodsTypeOK
  <2>2. CASE UpdatePod(p)
    <3>1. owner' = owner /\ pods'[d] = pods[d]
      <4>1. CASE Exists(job[p].pod)
        BY <1>2, <2>2, <4>1 DEF UpdatePod, Exists, PodsInv, PodsTypeOK
      <4>2. CASE ~ Exists(job[p].pod)
        BY <2>2, <4>2 DEF UpdatePod
      <4>3. QED
        BY <4>1, <4>2
    <3>2. QED
      BY <1>2, <3>1 DEF Deleted, Exists
  <2>3. CASE Remove(p)
    BY <1>2, <2>3 DEF Remove, Deleted, Exists, PodsInv, PodsTypeOK
  <2>4. CASE Ask(p) \/ ReadPod(p) \/ TransferToPod(p) \/ CheckBalance(p)
    BY <1>2, <2>4 DEF Ask, ReadPod, TransferToPod, CheckBalance, Deleted, Exists
  <2>5. QED
    BY <1>1, <2>1, <2>2, <2>3, <2>4
<1>4. ASSUME ~ InFlight(d), NEW q \in Clients, pc'[q] \in {"deposit", "withdraw"},
             job'[q].pod = d
      PROVE  FALSE
  <2>1. ~ (pc[q] \in {"deposit", "withdraw"} /\ job[q].pod = d)
    BY <1>4 DEF InFlight
  <2>2. pc \in [Clients -> {"idle", "create", "read", "deposit", "withdraw",
                            "update", "delete", "remove", "done"}]
    BY DEF PodsInv, PodsTypeOK
  <2>3. CASE Ask(p)
    <3>1. PICK j \in Jobs : job' = [job EXCEPT ![p] = j]
                            /\ Goto(p, IF j.kind = "create" THEN "create" ELSE "read")
      BY <2>3 DEF Ask
    <3>2. QED
      BY <1>4, <2>1, <2>2, <3>1 DEF Goto, PodsInv, PodsTypeOK
  <2>4. CASE ReadPod(p) /\ pods[job[p].pod].user = job[p].user
    <3>1. job' = job /\ pc[p] = "read" /\ pc' = [pc EXCEPT ![p] = job[p].kind]
      BY <2>4 DEF ReadPod, Goto
    <3>2. q = p /\ job[p].pod = d
      BY <1>4, <2>1, <2>2, <3>1
    <3>3. job[p] \in Jobs
      BY <3>1 DEF PodsInv, Serves
    <3>4. job[p].user # Nobody
      BY <3>3, JobFacts
    <3>5. QED
      BY <1>2, <2>4, <3>2, <3>4 DEF NoPod
  <2>5. CASE job' = job /\ \E step \in {"done", "remove"} : pc' = [pc EXCEPT ![p] = step]
    BY <1>4, <2>1, <2>2, <2>5
  <2>6. QED
    BY <1>1, <2>3, <2>4, <2>5
       DEF CreatePod, ReadPod, TransferToPod, UpdatePod, CheckBalance, Remove, Answer, Goto
<1>5. ASSUME ~ InFlight(d)
      PROVE  balance'[AccountOf[d]] = balance[AccountOf[d]]
  <2>1. CASE UNCHANGED balance
    BY <2>1
  <2>2. CASE pc[p] \in {"deposit", "withdraw"} /\ Transfer(Move(job[p]))
    <3>1. job[p].pod # d
      BY <1>5, <2>2 DEF InFlight
    <3>2. /\ AccountOf[d] # Move(job[p]).from /\ AccountOf[d] # Move(job[p]).to
          /\ AccountOf[d] \in Accounts
      BY <2>2, <3>1, MoveFacts, PodsAssumption
    <3>3. QED
      BY <2>2, <3>2 DEF Transfer, PodsInv, PodsTypeOK
  <2>3. QED
    BY <1>1, <2>1, <2>2
       DEF Ask, CreatePod, ReadPod, TransferToPod, UpdatePod, CheckBalance, Remove, bankVars
<1>6. QED
  BY <1>3, <1>4, <1>5 DEF InFlight

\* A deleted pod (pod_usecase.go, DeletePod, UpdatePod) stays deleted for every
\* number of handlers, and once no transfer that had read it is left, none
\* begins and the balance of its account stands still.
THEOREM DeletedPodsStay == Spec => DeletedForGood
<1> DEFINE Stays ==
      \A d \in PodIds : Deleted(d) =>
          /\ Deleted(d)'
          /\ ~ InFlight(d) => /\ ~ InFlight(d)'
                              /\ balance'[AccountOf[d]] = balance[AccountOf[d]]
<1>1. PodsInv /\ PodsInv' /\ [Next]_vars => [Stays]_vars
  BY DeletedStays
<1> HIDE DEF Stays
<1>2. Spec => [][Stays]_vars
  BY <1>1, PodsStart, PodsStep, PTL DEF Spec
<1>3. QED
  BY <1>2 DEF DeletedForGood, Stays

\* No transfer of a deleted pod begins.
LEMMA DepositsEnd ==
  ASSUME PodsInv, Next, NEW d \in PodIds, Deleted(d),
         \A q \in Clients : ~ (pc[q] = "deposit" /\ job[q].pod = d)
  PROVE  \A q \in Clients : ~ (pc'[q] = "deposit" /\ job'[q].pod = d)
<1> SUFFICES ASSUME NEW q \in Clients, pc'[q] = "deposit", job'[q].pod = d PROVE FALSE
  OBVIOUS
<1>1. PICK p \in Clients :
        \/ Ask(p) \/ CreatePod(p) \/ ReadPod(p) \/ TransferToPod(p)
        \/ UpdatePod(p) \/ CheckBalance(p) \/ Remove(p)
  BY DEF Next
<1>2. /\ pods[d] = NoPod
      /\ pc \in [Clients -> {"idle", "create", "read", "deposit", "withdraw",
                             "update", "delete", "remove", "done"}]
  BY DEF Deleted, Exists, PodsInv, PodsTypeOK
<1>3. CASE Ask(p)
  <2>1. PICK j \in Jobs : job' = [job EXCEPT ![p] = j]
                          /\ Goto(p, IF j.kind = "create" THEN "create" ELSE "read")
    BY <1>3 DEF Ask
  <2>2. QED
    BY <1>2, <2>1 DEF Goto, PodsInv, PodsTypeOK
<1>4. CASE ReadPod(p) /\ pods[job[p].pod].user = job[p].user
  <2>1. job' = job /\ pc[p] = "read" /\ pc' = [pc EXCEPT ![p] = job[p].kind]
    BY <1>4 DEF ReadPod, Goto
  <2>2. q = p /\ job[p].pod = d
    BY <1>2, <2>1
  <2>3. job[p] \in Jobs
    BY <2>1 DEF PodsInv, Serves
  <2>4. job[p].user # Nobody
    BY <2>3, JobFacts
  <2>5. QED
    BY <1>2, <1>4, <2>2, <2>4 DEF NoPod
<1>5. CASE job' = job /\ \E step \in {"done", "remove"} : pc' = [pc EXCEPT ![p] = step]
  BY <1>2, <1>5
<1>6. QED
  BY <1>1, <1>3, <1>4, <1>5
     DEF CreatePod, ReadPod, TransferToPod, UpdatePod, CheckBalance, Remove, Answer, Goto

LEMMA FirstDeletion ==
  ASSUME PodsInv, PodsInv', NEW p \in Clients, NEW d \in PodIds, ~ Deleted(d), Deleted(d)',
         \/ Ask(p) \/ CreatePod(p) \/ ReadPod(p) \/ TransferToPod(p)
         \/ UpdatePod(p) \/ CheckBalance(p) \/ Remove(p)
  PROVE  /\ Remove(p) /\ job[p].pod = d /\ pc[p] = "remove" /\ UNCHANGED <<balance, job>>
         /\ pc' = [pc EXCEPT ![p] = "done"]
<1>1. ~ (UNCHANGED <<pods, owner>>)
  BY DEF Deleted, Exists
<1>2. ASSUME CreatePod(p) PROVE FALSE
  <2>1. PICK c \in PodIds : /\ owner' = [owner EXCEPT ![c] = job[p].user]
                            /\ pods' = [pods EXCEPT ![c] = [user |-> job[p].user,
                                  name |-> job[p].name, icon |-> job[p].name]]
    BY <1>2 DEF CreatePod
  <2>2. job[p] \in Jobs /\ job[p].kind = "create"
    BY <1>2 DEF CreatePod, PodsInv, Serves
  <2>3. [user |-> job[p].user, name |-> job[p].name, icon |-> job[p].name] \in PodRow
    BY <2>2, JobFacts DEF PodRow
  <2>4. pods'[c] # NoPod
    BY <2>1, <2>3, PodFacts DEF PodsInv, PodsTypeOK
  <2>5. c # d
    BY <2>4 DEF Deleted, Exists
  <2>6. QED
    BY <2>1, <2>5 DEF Deleted, Exists, PodsInv, PodsTypeOK
<1>3. ASSUME UpdatePod(p) PROVE FALSE
  <2>1. Exists(job[p].pod) /\ pc[p] = "update" /\ owner' = owner
        /\ pods' = [pods EXCEPT ![job[p].pod] = [read[p] EXCEPT ![job[p].field] = job[p].text]]
    BY <1>1, <1>3 DEF UpdatePod
  <2>2. read[p] \in PodRow /\ read[p].user = job[p].user /\ job[p] \in Jobs
        /\ job[p].kind = "update"
    BY <2>1 DEF PodsInv, Serves, PastRead
  <2>3. job[p].field \in {"name", "icon"} /\ job[p].user # Nobody
    BY <2>2, JobFacts
  <2>4. [read[p] EXCEPT ![job[p].field] = job[p].text].user = job[p].user
    BY <2>2, <2>3 DEF PodRow
  <2>5. pods'[d] = NoPod /\ pods[d] # NoPod
    BY <2>1 DEF Deleted, Exists
  <2>6. job[p].pod = d
    BY <2>1, <2>5 DEF PodsInv, PodsTypeOK
  <2>7. pods'[d].user = job[p].user
    BY <2>1, <2>4, <2>6 DEF PodsInv, PodsTypeOK
  <2>8. QED
    BY <2>3, <2>5, <2>7 DEF NoPod
<1>4. Remove(p)
  BY <1>1, <1>2, <1>3 DEF Ask, ReadPod, TransferToPod, CheckBalance
<1>5. job[p].pod = d
  BY <1>4 DEF Remove, Deleted, Exists, PodsInv, PodsTypeOK
<1>6. QED
  BY <1>4, <1>5 DEF Remove, Answer, Goto, bankVars

\* As long as no deposit overlaps a deletion, an account that a deletion has
\* found empty stays empty.
Empty(d) == balance[AccountOf[d]] = 0
Quiet ==
  /\ \A p \in Clients : pc[p] = "remove" => Empty(job[p].pod)
  /\ \A d \in PodIds : Deleted(d) =>
       Empty(d) /\ \A q \in Clients : ~ (pc[q] = "deposit" /\ job[q].pod = d)

\* Only a transfer of the pod itself moves what its account holds, and only a
\* deposit when it holds nothing.
LEMMA EmptyStays ==
  ASSUME PodsInv, Next, NEW d \in PodIds, Empty(d),
         \A q \in Clients : ~ (pc[q] = "deposit" /\ job[q].pod = d)
  PROVE  Empty(d)'
<1>1. PICK p \in Clients :
        \/ Ask(p) \/ CreatePod(p) \/ ReadPod(p) \/ TransferToPod(p)
        \/ UpdatePod(p) \/ CheckBalance(p) \/ Remove(p)
  BY DEF Next
<1>2. CASE UNCHANGED balance
  BY <1>2 DEF Empty
<1>3. CASE pc[p] \in {"deposit", "withdraw"} /\ Transfer(Move(job[p]))
  <2> DEFINE j == job[p]
  <2>1. /\ Move(j).amount = j.amount /\ Move(j).from # Move(j).to
        /\ {Move(j).from, Move(j).to} = {WalletOf[j.user], AccountOf[j.pod]}
        /\ j.user \in Users /\ j.pod \in PodIds
    BY <1>3, MoveFacts
  <2>2. CASE j.pod = d
    <3>1. pc[p] = "withdraw" /\ j \in Jobs /\ j.kind = "withdraw"
      BY <1>3, <2>2 DEF PodsInv, Serves, PastRead
    <3>2. j.amount \in Nat \ {0} /\ Move(j).from = AccountOf[d]
      BY <2>2, <3>1, JobFacts DEF Move
    <3>3. balance[AccountOf[d]] >= j.amount
      BY <1>3, <2>1, <3>2 DEF Transfer
    <3>4. QED
      BY <3>2, <3>3 DEF Empty
  <2>3. CASE j.pod # d
    <3>1. AccountOf[d] # Move(j).from /\ AccountOf[d] # Move(j).to /\ AccountOf[d] \in Accounts
      BY <2>1, <2>3, PodsAssumption
    <3>2. QED
      BY <1>3, <3>1 DEF Transfer, Empty, PodsInv, PodsTypeOK
  <2>4. QED
    BY <2>2, <2>3
<1>4. QED
  BY <1>1, <1>2, <1>3
     DEF Ask, CreatePod, ReadPod, TransferToPod, UpdatePod, CheckBalance, Remove, bankVars

LEMMA QuietStep == PodsInv /\ PodsInv' /\ Quiet /\ ~ Overlap /\ [Next]_vars => Quiet'
<1> SUFFICES ASSUME PodsInv, PodsInv', Quiet, ~ Overlap, [Next]_vars PROVE Quiet'
  OBVIOUS
<1>1. CASE UNCHANGED vars
  BY <1>1 DEF vars, bankVars, podVars, Quiet, Empty, Deleted, Exists
<1>2. CASE Next
  <2>1. PICK p \in Clients :
          \/ Ask(p) \/ CreatePod(p) \/ ReadPod(p) \/ TransferToPod(p)
          \/ UpdatePod(p) \/ CheckBalance(p) \/ Remove(p)
    BY <1>2 DEF Next
  <2>2. pc \in [Clients -> {"idle", "create", "read", "deposit", "withdraw",
                            "update", "delete", "remove", "done"}]
    BY DEF PodsInv, PodsTypeOK
  <2>3. ASSUME NEW q \in Clients, pc[q] = "remove"
        PROVE  /\ job[q].pod \in PodIds
               /\ \A r \in Clients : ~ (pc[r] = "deposit" /\ job[r].pod = job[q].pod)
    <3>1. job[q] \in Jobs /\ job[q].kind = "delete"
      BY <2>3 DEF PodsInv, Serves
    <3>2. QED
      BY <2>3, <3>1, JobFacts DEF Overlap
  <2>4. ASSUME NEW q \in Clients, pc'[q] = "remove"
        PROVE  Empty(job[q].pod)' /\ job'[q] = job[q]
    <3>1. CASE pc[q] = "remove"
      <4>1. job'[q] = job[q]
        <5>1. CASE Ask(p)
          <6>1. q # p /\ \E j \in Jobs : job' = [job EXCEPT ![p] = j]
            BY <3>1, <5>1 DEF Ask
          <6>2. QED
            BY <6>1 DEF PodsInv, PodsTypeOK
        <5>2. CASE ~ Ask(p)
          BY <2>1, <5>2 DEF CreatePod, ReadPod, TransferToPod, UpdatePod, CheckBalance, Remove
        <5>3. QED
          BY <5>1, <5>2
      <4>2. Empty(job[q].pod)
        BY <3>1 DEF Quiet
      <4> DEFINE d == job[q].pod
      <4>3. d \in PodIds /\ Empty(d) /\ \A r \in Clients : ~ (pc[r] = "deposit" /\ job[r].pod = d)
        BY <2>3, <3>1, <4>2
      <4>4. d' = d
        BY <4>1
      <4>5. balance'[AccountOf[d]] = 0
        <5> HIDE DEF d
        <5>1. \A c \in PodIds : c = d => balance'[AccountOf[c]] = 0
          BY <1>2, <4>3, EmptyStays DEF Empty
        <5>2. QED
          BY <4>3, <5>1
      <4>6. QED
        BY <4>1, <4>5 DEF Empty
    <3>2. CASE pc[q] # "remove"
      <4>1. q = p /\ CheckBalance(p) /\ balance[AccountOf[job[p].pod]] = 0
            /\ UNCHANGED <<balance, job>>
        <5>1. CASE Ask(p)
          <6>1. \E step \in {"create", "read"} : pc' = [pc EXCEPT ![p] = step]
            BY <5>1 DEF Ask, Goto
          <6>2. QED
            BY <2>2, <2>4, <3>2, <6>1
        <5>2. CASE ReadPod(p)
          <6>1. pc[p] = "read" /\ job[p] \in Jobs
            BY <5>2 DEF ReadPod, PodsInv, Serves
          <6>2. job[p].kind # "remove"
            BY <6>1, JobFacts
          <6>3. QED
            BY <2>2, <2>4, <3>2, <5>2, <6>2 DEF ReadPod, Goto, Answer
        <5>3. CASE CreatePod(p) \/ TransferToPod(p) \/ UpdatePod(p) \/ Remove(p)
          <6>1. pc' = [pc EXCEPT ![p] = "done"]
            BY <5>3 DEF CreatePod, TransferToPod, UpdatePod, Remove, Answer, Goto
          <6>2. QED
            BY <2>2, <2>4, <3>2, <6>1
        <5>4. CASE CheckBalance(p)
          BY <2>2, <2>4, <3>2, <5>4 DEF CheckBalance, Goto, Answer, bankVars
        <5>5. QED
          BY <2>1, <5>1, <5>2, <5>3, <5>4
      <4>2. QED
        BY <4>1 DEF Empty
    <3>3. QED
      BY <3>1, <3>2
  <2>5. ASSUME NEW d \in PodIds, Deleted(d)'
        PROVE  Empty(d)' /\ \A q \in Clients : ~ (pc'[q] = "deposit" /\ job'[q].pod = d)
    <3>1. CASE Deleted(d)
      <4>1. Empty(d) /\ \A q \in Clients : ~ (pc[q] = "deposit" /\ job[q].pod = d)
        BY <3>1 DEF Quiet
      <4>2. Empty(d)'
        BY <1>2, <4>1, EmptyStays
      <4>3. \A q \in Clients : ~ (pc'[q] = "deposit" /\ job'[q].pod = d)
        BY <1>2, <3>1, <4>1, DepositsEnd
      <4>4. QED
        BY <4>2, <4>3
    <3>2. CASE ~ Deleted(d)
      <4>1. Remove(p) /\ job[p].pod = d /\ pc[p] = "remove" /\ UNCHANGED <<balance, job>>
            /\ pc' = [pc EXCEPT ![p] = "done"]
        BY <2>1, <2>5, <3>2, FirstDeletion
      <4>2. Empty(d) /\ \A q \in Clients : ~ (pc[q] = "deposit" /\ job[q].pod = d)
        BY <2>3, <4>1 DEF Quiet
      <4>3. QED
        BY <2>2, <4>1, <4>2 DEF Empty
    <3>3. QED
      BY <3>1, <3>2
  <2>6. \A q \in Clients : pc'[q] = "remove" => Empty(job[q].pod)' /\ job'[q] = job[q]
    BY <2>4
  <2>7. QED
    BY <2>5, <2>6 DEF Quiet, Empty
<1>3. QED
  BY <1>1, <1>2

\* A deletion that no deposit overlaps (pod_usecase.go:379, the balance check)
\* leaves nothing behind, for every number of handlers, users and pods.
THEOREM QuietDeletionsLeaveNothing == Spec => QuietDeletesLeaveNothing
<1>1. Init => Quiet
  BY DEF Init, Quiet, Deleted
<1>2. Quiet => DeletedPodsAreEmpty
  BY DEF Quiet, DeletedPodsAreEmpty, Empty
<1>3. Init /\ [][Next]_vars => []PodsInv
  BY PodsStart, PodsStep, PTL
<1>4. QED
  BY <1>1, <1>2, <1>3, QuietStep, PTL DEF Spec, QuietDeletesLeaveNothing

-----------------------------------------------------------------------------
(* The history of transactions. *)

RowAmounts == [t \in TransactionRows |-> t.amount]
Outgoing(ts, a) == {t \in ts : t.from = a}
Incoming(ts, a) == {t \in ts : t.to = a}

FileRows == [category : CategoryIds \cup {NoCategory}, at : Nat]
CategoryRows == [user : Users \cup {Nobody}, name : Names \cup {"unborn", "gone"}]
Stages == {"asked", "category", "ready", "begun", "paid", "refused", "replayed"}

RowsFit(ts) == ts \in SUBSET TransactionRows /\ IsFiniteSet(ts) /\ \A t \in ts : t.from # t.to

HistoryShape ==
  /\ RowsFit(txns)
  /\ balance \in [Accounts -> Int]
  /\ categories \in [CategoryIds -> CategoryRows]
  /\ filed \in [txns -> FileRows]
  /\ stage \in [Payments -> Stages] /\ began \in [Payments -> Nat] /\ clock \in Nat

\* Transactions and transfers that have begun are older than the present instant.
TimesPassed ==
  /\ \A t \in txns : filed[t].at < clock
  /\ \A p \in Payments : stage[p] = "begun" => began[p] < clock

\* What a transfer has found to be its payer's category still is, or is gone
\* for ever; what a transaction is filed under is there.
FilingStands ==
  /\ \A p \in Payments : stage[p] \in {"ready", "begun"} /\ p.category # NoCategory =>
       categories[p.category].user = p.user \/ categories[p.category] = Gone
  /\ \A t \in txns : filed[t].category # NoCategory =>
       /\ categories[filed[t].category].user \in Users
       /\ WalletOf[categories[filed[t].category].user] = t.from

\* Every balance is what its transactions make of the opening one.
BalancesFollow ==
  \A a \in Accounts :
    balance[a] = Opening[a] + SumOver(RowAmounts, Incoming(txns, a))
                            - SumOver(RowAmounts, Outgoing(txns, a))

\* The rows a reader is shown, and the place of a row among them.
Shows(ts, files, a, category, range) ==
  {t \in ts : /\ Mentions(t, a)
              /\ range.from <= files[t].at /\ (range.to = NoEnd \/ files[t].at < range.to)
              /\ category = NoCategory \/ files[t].category = category}
Place(rows, files, t) == Cardinality({u \in rows : files[u].at >= files[t].at})
Untied(rows, files, t) == \A u \in rows : files[u].at = files[t].at => u = t

ReadingRecords ==
  [step : {"none", "rows", "details", "read"}, user : Users \cup {Nobody},
   category : CategoryIds \cup {NoCategory}, range : ListRanges \cup {Always}, page : Nat,
   want : SUBSET TransactionRows,
   rows : SUBSET TransactionRows,
   seen : SUBSET [row : TransactionRows, direction : {"debit", "credit"}], misled : BOOLEAN]
SeenRows(x) == {e.row : e \in x.seen}

\* Whoever has come past the first n rows has seen what was wanted of them, but
\* for rows of one instant, whose order changes from page to page.
SeenDownTo(x, rows, files, more, n) ==
  \A t \in x.want \cap rows : Untied(rows, files, t) =>
    t \in SeenRows(x) \cup more \/ Place(rows, files, t) > n
SeenAll(x, rows, files) ==
  \A t \in x.want \cap rows : Untied(rows, files, t) => t \in SeenRows(x)

\* A reader has been shown rows of its account, from the right side if every
\* lookup succeeded, and has missed no wanted row before the place it has
\* come to.
ReadingFits(x, ts, files) ==
  x.step # "none" =>
    LET a == WalletOf[x.user]
        rows == Shows(ts, files, a, x.category, x.range)
    IN /\ x.user \in Users /\ x.page >= 1
       /\ x.want \subseteq ts
       /\ \A t \in x.rows : t \in ts /\ Mentions(t, a)
       /\ \A e \in x.seen :
            /\ e.row \in ts /\ Mentions(e.row, a)
            /\ ~ x.misled => e.direction = IF e.row.from = a THEN "debit" ELSE "credit"
       /\ x.step = "rows" => SeenDownTo(x, rows, files, {}, (x.page - 1) * PageSize)
       /\ x.step = "details" => SeenDownTo(x, rows, files, x.rows, x.page * PageSize)
       /\ x.step = "read" => SeenAll(x, rows, files)

ReadingsFit ==
  /\ reading \in [Readers -> ReadingRecords]
  /\ \A r \in Readers : ReadingFits(reading[r], txns, filed)

HistoryInv == HistoryShape /\ TimesPassed /\ FilingStands /\ BalancesFollow /\ ReadingsFit

-----------------------------------------------------------------------------
\* What the invariant means.

\* AmountOfAll is the sum of the amounts.
LEMMA AmountsAdd ==
  ASSUME NEW ts, ts \subseteq TransactionRows, IsFiniteSet(ts)
  PROVE  /\ AmountOfAll(ts) = SumOver(RowAmounts, ts)
         /\ AmountOfAll(ts) \in Int
         /\ \A t \in ts : RowAmounts[t] = t.amount /\ RowAmounts[t] \in Int
<1> DEFINE m == [t \in ts |-> t.amount]
<1>1. AmountOfAll(ts) = SumOver(m, ts)
  BY DEF AmountOfAll, SumOf, SumOver
<1>2. \A t \in ts : m[t] = RowAmounts[t] /\ RowAmounts[t] = t.amount /\ RowAmounts[t] \in Int
  BY DEF RowAmounts, TransactionRows
<1> HIDE DEF m
<1>3. SumOver(m, ts) = SumOver(RowAmounts, ts)
  BY <1>2, SumsAgree
<1>4. SumOver(RowAmounts, ts) \in Int
  BY <1>2, SumIsInteger
<1> QED BY <1>1, <1>2, <1>3, <1>4

LEMMA RowSets ==
  ASSUME NEW ts, RowsFit(ts), NEW S, S \subseteq ts
  PROVE  S \subseteq TransactionRows /\ IsFiniteSet(S)
BY FS_Subset DEF RowsFit

\* A function of groups by a label that covers the rows once.
LEMMA GroupsTotal ==
  ASSUME NEW ts, ts \subseteq TransactionRows, IsFiniteSet(ts), NEW label, NEW groups,
         DOMAIN groups = Labels(label, ts),
         \A k \in Labels(label, ts) : groups[k].total = AmountOfAll(Labelled(label, ts, k))
  PROVE  TotalOf(groups) = AmountOfAll(ts)
<1> DEFINE L == Labels(label, ts)
           totals == [k \in DOMAIN groups |-> groups[k].total]
           sums == GroupSums(RowAmounts, label, ts)
<1>1. TotalOf(groups) = SumOver(totals, L)
  BY DEF TotalOf, SumOf, SumOver
<1>2. \A t \in ts : RowAmounts[t] \in Int
  BY AmountsAdd
<1>3. IsFiniteSet(L) /\ SumOver(sums, L) = SumOver(RowAmounts, ts)
  BY <1>2, SumByGroups
<1>4. ASSUME NEW k \in L PROVE totals[k] = sums[k]
  <2>1. IsFiniteSet(Labelled(label, ts, k)) /\ Labelled(label, ts, k) \subseteq TransactionRows
    BY FS_Subset DEF Labelled
  <2>2. AmountOfAll(Labelled(label, ts, k)) = SumOver(RowAmounts, Labelled(label, ts, k))
    BY <2>1, AmountsAdd
  <2> QED BY <2>2 DEF GroupSums
<1> HIDE DEF totals, sums, L
<1>5. SumOver(totals, L) = SumOver(sums, L)
  BY <1>3, <1>4, SumsAgree
<1> QED BY <1>1, <1>3, <1>5, AmountsAdd

\* Both analytics of any range are groupings of what was spent in it.
LEMMA AnalyticsTotal ==
  ASSUME RowsFit(txns), NEW a, NEW range
  PROVE  /\ TotalOf(GetSpendByCategory(a, range)) = AmountOfAll(Spent(a, range))
         /\ \A span \in Spans :
              TotalOf(GetSpendByPeriod(a, range, span)) = AmountOfAll(Spent(a, range))
<1> DEFINE ts == Spent(a, range)
           names == [t \in ts |-> NameOf(t)]
<1>1. ts \subseteq TransactionRows /\ IsFiniteSet(ts)
  <2>1. ts \subseteq txns
    BY DEF Spent
  <2> QED BY <2>1, RowSets
<1>2. TotalOf(GetSpendByCategory(a, range)) = AmountOfAll(ts)
  <2> DEFINE groups == GetSpendByCategory(a, range)
  <2>1. DOMAIN groups = Labels(names, ts)
    BY DEF GetSpendByCategory, Labels
  <2>2. ASSUME NEW k \in Labels(names, ts)
        PROVE  groups[k].total = AmountOfAll(Labelled(names, ts, k))
    <3>1. Labelled(names, ts, k) = {t \in ts : NameOf(t) = k}
      BY DEF Labelled
    <3>2. groups[k].total = AmountOfAll({t \in ts : NameOf(t) = k})
      BY DEF GetSpendByCategory, Labels, Group
    <3> QED BY <3>1, <3>2
  <2> HIDE DEF groups, names, ts
  <2>3. TotalOf(groups) = AmountOfAll(ts)
    BY <1>1, <2>1, <2>2, GroupsTotal
  <2> QED BY <2>3 DEF groups
<1>3. ASSUME NEW span \in Spans
      PROVE  TotalOf(GetSpendByPeriod(a, range, span)) = AmountOfAll(ts)
  <2> DEFINE groups == GetSpendByPeriod(a, range, span)
             periods == [t \in ts |-> filed[t].at \div span]
  <2>1. DOMAIN groups = Labels(periods, ts)
    BY DEF GetSpendByPeriod, Labels
  <2>2. ASSUME NEW k \in Labels(periods, ts)
        PROVE  groups[k].total = AmountOfAll(Labelled(periods, ts, k))
    <3>1. Labelled(periods, ts, k) = {t \in ts : filed[t].at \div span = k}
      BY DEF Labelled
    <3>2. groups[k].total = AmountOfAll({t \in ts : filed[t].at \div span = k})
      BY DEF GetSpendByPeriod, Labels, Group
    <3> QED BY <3>1, <3>2
  <2> HIDE DEF groups, periods, ts
  <2>3. TotalOf(groups) = AmountOfAll(ts)
    BY <1>1, <2>1, <2>2, GroupsTotal
  <2> QED BY <2>3 DEF groups
<1> QED BY <1>2, <1>3

\* What a wallet has spent over all time and received is its difference from
\* the opening balance.
LEMMA SpendFollows == HistoryShape /\ TimesPassed /\ BalancesFollow => SpendAgrees
<1> SUFFICES ASSUME HistoryShape, TimesPassed, BalancesFollow, NEW u \in Users
             PROVE  LET a == WalletOf[u] IN
               /\ \A range \in DateRanges :
                   LET byCategory == GetSpendByCategory(a, range) IN
                   /\ TotalOf(byCategory) = AmountOfAll(Spent(a, range))
                   /\ \A span \in Spans :
                       TotalOf(GetSpendByPeriod(a, range, span)) = TotalOf(byCategory)
                   /\ \A m, n \in DOMAIN byCategory :
                       byCategory[m].label = byCategory[n].label
                       => m = n \/ byCategory[m].label = Uncategorized
               /\ TotalOf(GetSpendByCategory(a, AllTime)) =
                    Opening[a] + AmountOfAll({t \in txns : t.to = a}) - balance[a]
  BY DEF SpendAgrees
<1> DEFINE a == WalletOf[u]
<1>1. RowsFit(txns) /\ a \in Accounts
  BY WalletsAssumption DEF HistoryShape
<1>2. ASSUME NEW range
      PROVE  \A m, n \in DOMAIN GetSpendByCategory(a, range) :
               GetSpendByCategory(a, range)[m].label = GetSpendByCategory(a, range)[n].label
               => m = n \/ GetSpendByCategory(a, range)[m].label = Uncategorized
  <2>1. \A m \in DOMAIN GetSpendByCategory(a, range) :
          GetSpendByCategory(a, range)[m].label = IF m = NoCategory THEN Uncategorized ELSE m
    BY DEF GetSpendByCategory, Group
  <2> QED BY <2>1
<1>3. Spent(a, AllTime) = Outgoing(txns, a)
  BY DEF Spent, Outgoing, In, AllTime, HistoryShape, TimesPassed, FileRows
<1>4. /\ AmountOfAll(Outgoing(txns, a)) = SumOver(RowAmounts, Outgoing(txns, a))
      /\ AmountOfAll(Outgoing(txns, a)) \in Int
      /\ AmountOfAll(Incoming(txns, a)) = SumOver(RowAmounts, Incoming(txns, a))
      /\ AmountOfAll(Incoming(txns, a)) \in Int
  <2>1. /\ Outgoing(txns, a) \subseteq TransactionRows /\ IsFiniteSet(Outgoing(txns, a))
        /\ Incoming(txns, a) \subseteq TransactionRows /\ IsFiniteSet(Incoming(txns, a))
    <3>1. Outgoing(txns, a) \subseteq txns /\ Incoming(txns, a) \subseteq txns
      BY DEF Outgoing, Incoming
    <3> QED BY <1>1, <3>1, RowSets
  <2> QED BY <2>1, AmountsAdd
<1>5. TotalOf(GetSpendByCategory(a, AllTime)) =
        Opening[a] + AmountOfAll(Incoming(txns, a)) - balance[a]
  <2>1. TotalOf(GetSpendByCategory(a, AllTime)) = AmountOfAll(Outgoing(txns, a))
    BY <1>1, <1>3, AnalyticsTotal
  <2>2. balance[a] = Opening[a] + AmountOfAll(Incoming(txns, a)) - AmountOfAll(Outgoing(txns, a))
    BY <1>1, <1>4 DEF BalancesFollow
  <2>3. Opening[a] \in Int /\ balance[a] \in Int
    BY <1>1, AccountsAssumption DEF HistoryShape
  <2> QED BY <1>4, <2>1, <2>2, <2>3
<1>6. Incoming(txns, a) = {t \in txns : t.to = a}
  BY DEF Incoming
<1> HIDE DEF a
<1> QED BY <1>1, <1>2, <1>5, <1>6, AnalyticsTotal DEF a

\* What was shown to a reader who came to the end while nothing was committed
\* are the rows of the account, each from its side.
LEMMA PagesFollow == HistoryShape /\ BalancesFollow /\ ReadingsFit => PagesAreComplete
<1> SUFFICES ASSUME HistoryShape, BalancesFollow, ReadingsFit,
                    NEW r \in Readers, reading[r].step = "read"
             PROVE  LET x == reading[r]
                        a == WalletOf[x.user]
                        now == Matching(a, x.category, x.range)
                        alone == {t \in now : Alone(t, now)}
                    IN /\ x.want \cap alone \subseteq {e.row : e \in x.seen}
                       /\ /\ x.want = now /\ alone = now
                          /\ x.category = NoCategory /\ x.range = Always /\ ~ x.misled
                          => balance[a] = Opening[a] + AmountOfAll(Shown(x, "credit"))
                                                     - AmountOfAll(Shown(x, "debit"))
  BY DEF PagesAreComplete
<1> DEFINE x == reading[r]
           a == WalletOf[x.user]
           now == Matching(a, x.category, x.range)
           alone == {t \in now : Alone(t, now)}
<1>1. now = Shows(txns, filed, a, x.category, x.range)
  BY DEF Matching, Shows, In
<1>2. /\ x.user \in Users /\ a \in Accounts
      /\ \A e \in x.seen :
            /\ e.row \in txns /\ Mentions(e.row, a)
            /\ ~ x.misled => e.direction = IF e.row.from = a THEN "debit" ELSE "credit"
      /\ x.want \cap alone \subseteq SeenRows(x)
  <2>1. x.user \in Users /\ SeenAll(x, now, filed)
        /\ \A e \in x.seen :
             /\ e.row \in txns /\ Mentions(e.row, a)
             /\ ~ x.misled => e.direction = IF e.row.from = a THEN "debit" ELSE "credit"
    BY <1>1 DEF ReadingsFit, ReadingFits
  <2>2. \A t \in alone : t \in now /\ Untied(now, filed, t)
    BY DEF Alone, Untied
  <2> HIDE DEF now, alone
  <2> QED BY <2>1, <2>2, WalletsAssumption DEF SeenAll
<1>3. RowsFit(txns) /\ filed \in [txns -> FileRows]
  BY DEF HistoryShape
<1>4. ASSUME x.want = now, alone = now, x.category = NoCategory, x.range = Always, ~ x.misled
      PROVE  balance[a] = Opening[a] + AmountOfAll(Shown(x, "credit"))
                                     - AmountOfAll(Shown(x, "debit"))
  <2>1. \A t \in txns : Mentions(t, a) => \E e \in x.seen : e.row = t
    <3>1. \A t \in txns : filed[t].at \in Nat
      BY <1>3 DEF FileRows
    <3>2. \A t \in txns : Mentions(t, a) => t \in now
      BY <1>1, <1>4, <3>1 DEF Shows, Always
    <3> HIDE DEF now, alone, a
    <3> QED BY <1>2, <1>4, <3>2 DEF SeenRows
  <2>2. \A t \in txns : Mentions(t, a) <=> t.from = a \/ t.to = a
    BY DEF Mentions
  <2>3. \A t \in txns : t.from # t.to
    BY <1>3 DEF RowsFit
  <2> HIDE DEF x, a, now
  <2>4. Shown(x, "credit") = Incoming(txns, a)
    BY <1>2, <1>4, <2>1, <2>2, <2>3 DEF Shown, Incoming
  <2>5. Shown(x, "debit") = Outgoing(txns, a)
    BY <1>2, <1>4, <2>1, <2>2, <2>3 DEF Shown, Outgoing
  <2>6. /\ AmountOfAll(Incoming(txns, a)) = SumOver(RowAmounts, Incoming(txns, a))
        /\ AmountOfAll(Outgoing(txns, a)) = SumOver(RowAmounts, Outgoing(txns, a))
    <3>1. Outgoing(txns, a) \subseteq txns /\ Incoming(txns, a) \subseteq txns
      BY DEF Outgoing, Incoming
    <3> QED BY <1>3, <3>1, RowSets, AmountsAdd
  <2> QED BY <1>2, <2>4, <2>5, <2>6 DEF BalancesFollow
<1>5. x.want \cap alone \subseteq {e.row : e \in x.seen}
  BY <1>2 DEF SeenRows
<1> HIDE DEF x, a, now, alone
<1> QED BY <1>4, <1>5 DEF x, a, now, alone

LEMMA HistoryMeans == HistoryInv => HistoryTypeOK /\ HistoryHolds
<1> SUFFICES ASSUME HistoryInv PROVE HistoryTypeOK /\ HistoryHolds
  OBVIOUS
<1>1. HistoryTypeOK
  BY DEF HistoryInv, HistoryShape, TimesPassed, HistoryTypeOK, Stages
<1>2. FiledUnderOwn
  BY DEF HistoryInv, FilingStands, FiledUnderOwn
<1> QED BY <1>1, <1>2, SpendFollows, PagesFollow DEF HistoryInv, HistoryHolds

-----------------------------------------------------------------------------
\* Every step keeps it.

LEMMA HistoryStart == HistoryInit => HistoryInv
<1> SUFFICES ASSUME HistoryInit PROVE HistoryInv
  OBVIOUS
<1>1. txns = {} /\ RowsFit(txns)
  BY FS_EmptySet DEF HistoryInit, BankInit, RowsFit
<1>2. filed \in [txns -> FileRows]
  BY <1>1 DEF HistoryInit
<1>3. /\ balance \in [Accounts -> Int] /\ categories \in [CategoryIds -> CategoryRows]
      /\ stage \in [Payments -> Stages] /\ began \in [Payments -> Nat] /\ clock \in Nat
  BY AccountsAssumption DEF HistoryInit, BankInit, CategoryRows, Unborn, Stages
<1>4. TimesPassed /\ FilingStands
  BY <1>1 DEF HistoryInit, TimesPassed, FilingStands
<1>5. BalancesFollow
  <2>1. \A a : Incoming(txns, a) = {} /\ Outgoing(txns, a) = {}
    BY <1>1 DEF Incoming, Outgoing
  <2>2. SumOver(RowAmounts, {}) = 0
    BY SumOfNothing
  <2>3. \A a \in Accounts : balance[a] = Opening[a] /\ Opening[a] \in Int
    BY AccountsAssumption DEF HistoryInit, BankInit
  <2>4. \A a : SumOver(RowAmounts, Incoming(txns, a)) = 0
                /\ SumOver(RowAmounts, Outgoing(txns, a)) = 0
    BY <2>1, <2>2
  <2> QED BY <2>3, <2>4 DEF BalancesFollow
<1>6. ReadingsFit
  BY DEF HistoryInit, ReadingsFit, ReadingFits, ReadingRecords, NotReading
<1> QED BY <1>1, <1>2, <1>3, <1>4, <1>5, <1>6 DEF HistoryInv, HistoryShape

\* A place is a number: a reader is shown finitely many rows.
LEMMA Placed ==
  ASSUME NEW rows, IsFiniteSet(rows), NEW files, NEW t
  PROVE  /\ Place(rows, files, t) \in Nat
         /\ Place(rows, files, t) <= Cardinality(rows) /\ Cardinality(rows) \in Nat
<1>1. {u \in rows : files[u].at >= files[t].at} \in SUBSET rows
  OBVIOUS
<1> QED BY <1>1, FS_Subset, FS_CardinalityType DEF Place

\* Rows that come, and rows whose category changes, push no row towards the
\* head of the list; what is gone from the list is not asked for.
LEMMA LaterFits ==
  ASSUME NEW x \in ReadingRecords, NEW ts, NEW files, NEW later, NEW filesLater,
         ReadingFits(x, ts, files), IsFiniteSet(later), ts \subseteq later,
         files \in [ts -> FileRows], filesLater \in [later -> FileRows],
         \A t \in ts : filesLater[t].at = files[t].at,
         \/ x.category = NoCategory
         \/ \A t \in ts : filesLater[t].category = files[t].category
         \/ \A t \in ts : filesLater[t].category = x.category
                          <=> files[t].category = x.category
         \/ \A t \in ts : filesLater[t].category # x.category
  PROVE  ReadingFits(x, later, filesLater)
<1> SUFFICES ASSUME x.step # "none" PROVE ReadingFits(x, later, filesLater)
  BY DEF ReadingFits
<1> DEFINE a == WalletOf[x.user]
           before == Shows(ts, files, a, x.category, x.range)
           after == Shows(later, filesLater, a, x.category, x.range)
<1>1. /\ x.user \in Users /\ x.page >= 1 /\ x.want \subseteq ts
      /\ \A t \in x.rows : t \in ts /\ Mentions(t, a)
      /\ \A e \in x.seen :
           /\ e.row \in ts /\ Mentions(e.row, a)
           /\ ~ x.misled => e.direction = IF e.row.from = a THEN "debit" ELSE "credit"
      /\ x.step = "rows" => SeenDownTo(x, before, files, {}, (x.page - 1) * PageSize)
      /\ x.step = "details" => SeenDownTo(x, before, files, x.rows, x.page * PageSize)
      /\ x.step = "read" => SeenAll(x, before, files)
  BY DEF ReadingFits
<1>2. x.want \cap after = {} \/ (x.want \cap after \subseteq before /\ before \subseteq after)
  BY <1>1 DEF Shows
<1>3. IsFiniteSet(after) /\ IsFiniteSet(before)
  BY FS_Subset DEF Shows
<1>4. before \subseteq ts
  BY DEF Shows
<1> HIDE DEF before, after, a
<1>5. ASSUME NEW t \in x.want \cap after
      PROVE  /\ Untied(after, filesLater, t) => Untied(before, files, t)
             /\ t \in before /\ Place(after, filesLater, t) \in Nat
             /\ Place(before, files, t) \in Nat
             /\ Place(after, filesLater, t) >= Place(before, files, t)
  <2>1. t \in before /\ before \subseteq after
    BY <1>2, <1>5
  <2> DEFINE above == {u \in before : files[u].at >= files[t].at}
             aboveLater == {u \in after : filesLater[u].at >= filesLater[t].at}
  <2>2. above \subseteq aboveLater
    BY <1>4, <2>1
  <2>3. IsFiniteSet(aboveLater)
    BY <1>3, FS_Subset
  <2> HIDE DEF above, aboveLater
  <2>4. Cardinality(above) <= Cardinality(aboveLater)
    BY <2>2, <2>3, FS_Subset
  <2>5. Place(after, filesLater, t) \in Nat /\ Place(before, files, t) \in Nat
    BY <1>3, Placed
  <2>6. Cardinality(above) = Place(before, files, t)
        /\ Cardinality(aboveLater) = Place(after, filesLater, t)
    BY DEF Place, above, aboveLater
  <2>7. Untied(after, filesLater, t) => Untied(before, files, t)
    BY <1>4, <2>1 DEF Untied
  <2> QED BY <2>1, <2>4, <2>5, <2>6, <2>7
<1>6. ASSUME NEW more, NEW n \in Int, SeenDownTo(x, before, files, more, n)
      PROVE  SeenDownTo(x, after, filesLater, more, n)
  BY <1>5, <1>6 DEF SeenDownTo
<1>7. (x.page - 1) * PageSize \in Int /\ x.page * PageSize \in Int
  BY HistoryAssumption DEF ReadingRecords
<1>8. x.step = "read" => SeenAll(x, after, filesLater)
  BY <1>1, <1>5 DEF SeenAll
<1>9. /\ x.step = "rows" => SeenDownTo(x, after, filesLater, {}, (x.page - 1) * PageSize)
      /\ x.step = "details" => SeenDownTo(x, after, filesLater, x.rows, x.page * PageSize)
  BY <1>1, <1>6, <1>7
<1>10. /\ x.want \subseteq later
       /\ \A t \in x.rows : t \in later
       /\ \A e \in x.seen : e.row \in later
  BY <1>1
<1> QED BY <1>1, <1>8, <1>9, <1>10 DEF ReadingFits, after, a

-----------------------------------------------------------------------------
\* Categories.

\* Categories come, change and go; a deleted one unfiles its transactions.
LEMMA CategoryCalls ==
  ASSUME HistoryInv, NEW u \in Users,
         \/ \E n \in Names : CreateCategory(u, n)
         \/ \E c \in CategoryIds : DeleteCategory(c, u) \/ \E n \in Names : UpdateCategory(c, u, n)
  PROVE  HistoryInv'
<1>1. UNCHANGED <<balance, txns, stage, began, clock, reading>>
  BY DEF CreateCategory, UpdateCategory, DeleteCategory, CallCategory, bankVars, tellVars
<1>2. HistoryShape /\ TimesPassed /\ FilingStands /\ BalancesFollow /\ ReadingsFit
  BY DEF HistoryInv
<1>3. BalancesFollow' /\ RowsFit(txns') /\ IsFiniteSet(txns)
  BY <1>1, <1>2 DEF BalancesFollow, HistoryShape, RowsFit
<1>4. u # Nobody /\ u \in Users \cup {Nobody}
  BY WalletsAssumption
<1>5. ASSUME NEW n \in Names, CreateCategory(u, n) PROVE HistoryInv'
  <2>1. PICK c \in CategoryIds : categories[c] = Unborn
                                 /\ categories' = [categories EXCEPT ![c] = [user |-> u, name |-> n]]
    BY <1>5 DEF CreateCategory
  <2>2. filed' = filed
    BY <1>5 DEF CreateCategory
  <2>3. [user |-> u, name |-> n] \in CategoryRows
    BY <1>4 DEF CategoryRows
  <2>4. categories' \in [CategoryIds -> CategoryRows]
    BY <1>2, <2>1, <2>3 DEF HistoryShape
  <2>5. HistoryShape' /\ TimesPassed'
    BY <1>1, <1>2, <1>3, <2>2, <2>4 DEF HistoryShape, TimesPassed
  <2>6. Unborn.user = Nobody /\ Unborn # Gone
    BY DEF Unborn, Gone
  <2>7. \A d \in CategoryIds : categories[d].user \in Users \/ categories[d] = Gone
                               => categories'[d] = categories[d]
    BY <1>2, <1>4, <2>1, <2>6, WalletsAssumption DEF HistoryShape
  <2>8. \A p \in Payments : p.category \in CategoryIds \cup {NoCategory} /\ p.user \in Users
    BY HistoryAssumption DEF PaymentShape
  <2>9. \A t \in txns : filed[t].category \in CategoryIds \cup {NoCategory}
    BY <1>2 DEF HistoryShape, FileRows
  <2>10. FilingStands'
    BY <1>1, <1>2, <2>2, <2>7, <2>8, <2>9 DEF FilingStands
  <2>11. ReadingsFit'
    BY <1>1, <1>2, <2>2 DEF ReadingsFit
  <2> QED BY <1>3, <2>5, <2>10, <2>11 DEF HistoryInv
<1>6. ASSUME NEW c \in CategoryIds, NEW n \in Names, UpdateCategory(c, u, n) PROVE HistoryInv'
  <2>1. categories[c].user = u /\ categories' = [categories EXCEPT ![c].name = n] /\ filed' = filed
    BY <1>6 DEF UpdateCategory
  <2>2. categories' \in [CategoryIds -> CategoryRows]
        /\ \A d \in CategoryIds : categories'[d].user = categories[d].user
    BY <1>2, <2>1 DEF HistoryShape, CategoryRows
  <2>3. HistoryShape' /\ TimesPassed'
    BY <1>1, <1>2, <1>3, <2>1, <2>2 DEF HistoryShape, TimesPassed
  <2>4. \A d \in CategoryIds : categories[d] = Gone => categories'[d] = Gone
    BY <1>2, <1>4, <2>1 DEF HistoryShape, Gone
  <2>5. \A p \in Payments : p.category \in CategoryIds \cup {NoCategory}
    BY HistoryAssumption DEF PaymentShape
  <2>6. \A t \in txns : filed[t].category \in CategoryIds \cup {NoCategory}
    BY <1>2 DEF HistoryShape, FileRows
  <2>7. FilingStands'
    BY <1>1, <1>2, <2>1, <2>2, <2>4, <2>5, <2>6 DEF FilingStands
  <2>8. ReadingsFit'
    BY <1>1, <1>2, <2>1 DEF ReadingsFit
  <2> QED BY <1>3, <2>3, <2>7, <2>8 DEF HistoryInv
<1>7. ASSUME NEW c \in CategoryIds, DeleteCategory(c, u) PROVE HistoryInv'
  <2>1. /\ categories[c].user = u /\ categories' = [categories EXCEPT ![c] = Gone]
        /\ filed' = [t \in DOMAIN filed |->
                        IF filed[t].category = c THEN [filed[t] EXCEPT !.category = NoCategory]
                        ELSE filed[t]]
    BY <1>7 DEF DeleteCategory
  <2>2. filed \in [txns -> FileRows] /\ categories \in [CategoryIds -> CategoryRows]
    BY <1>2 DEF HistoryShape
  <2>3. /\ filed' \in [txns -> FileRows]
        /\ \A t \in txns :
             /\ filed'[t].at = filed[t].at
             /\ filed'[t].category = IF filed[t].category = c THEN NoCategory
                                     ELSE filed[t].category
    BY <2>1, <2>2 DEF FileRows
  <2>4. Gone \in CategoryRows
    BY DEF Gone, CategoryRows
  <2>5. categories' \in [CategoryIds -> CategoryRows] /\ categories'[c] = Gone
        /\ \A d \in CategoryIds \ {c} : categories'[d] = categories[d]
    BY <2>1, <2>2, <2>4
  <2>6. HistoryShape'
    BY <1>1, <1>2, <1>3, <2>3, <2>5 DEF HistoryShape
  <2>7. TimesPassed'
    BY <1>1, <1>2, <2>3 DEF TimesPassed
  <2>8. \A p \in Payments : p.category \in CategoryIds \cup {NoCategory}
    BY HistoryAssumption DEF PaymentShape
  <2>9. \A t \in txns : filed[t].category \in CategoryIds \cup {NoCategory}
    BY <2>2 DEF FileRows
  <2>10. FilingStands'
    BY <1>1, <1>2, <2>3, <2>5, <2>8, <2>9 DEF FilingStands
  <2>11. ReadingsFit'
    <3> SUFFICES ASSUME NEW r \in Readers PROVE ReadingFits(reading[r], txns, filed')
      BY <1>1, <1>2 DEF ReadingsFit
    <3>1. reading[r] \in ReadingRecords /\ ReadingFits(reading[r], txns, filed)
      BY <1>2 DEF ReadingsFit
    <3> DEFINE x == reading[r]
    <3>2. \/ x.category = NoCategory
          \/ \A t \in txns : filed'[t].category = x.category <=> filed[t].category = x.category
          \/ \A t \in txns : filed'[t].category # x.category
      BY <2>3
    <3> HIDE DEF x
    <3>3. x \in ReadingRecords /\ ReadingFits(x, txns, filed)
      BY <3>1 DEF x
    <3>4. ReadingFits(x, txns, filed')
      BY <1>3, <2>2, <2>3, <3>2, <3>3, LaterFits
    <3> QED BY <3>4 DEF x
  <2> QED BY <1>3, <2>6, <2>7, <2>10, <2>11 DEF HistoryInv
<1> QED BY <1>5, <1>6, <1>7

-----------------------------------------------------------------------------
\* Transfers.

\* What Transfer hands to the ledger is a transfer between two wallets.
LEMMA MoneyFacts ==
  ASSUME NEW p \in Payments
  PROVE  /\ MoneyOf(p).from = WalletOf[p.user] /\ MoneyOf(p).to = WalletOf[p.to]
         /\ MoneyOf(p).amount = p.amount /\ p.amount \in Nat
         /\ MoneyOf(p).from \in Accounts /\ MoneyOf(p).to \in Accounts
         /\ MoneyOf(p).from # MoneyOf(p).to
         /\ Row(MoneyOf(p)) \in TransactionRows
         /\ Row(MoneyOf(p)).from = WalletOf[p.user] /\ Row(MoneyOf(p)).to = WalletOf[p.to]
         /\ Row(MoneyOf(p)).amount = p.amount
         /\ p.user \in Users /\ p.category \in CategoryIds \cup {NoCategory}
<1>1. /\ p.user \in Users /\ p.to \in Users /\ p.user # p.to
      /\ p.amount \in Nat \ {0} /\ p.key \in Keys /\ p.category \in CategoryIds \cup {NoCategory}
  BY HistoryAssumption DEF PaymentShape
<1>2. WalletOf[p.user] \in Accounts /\ WalletOf[p.to] \in Accounts /\ WalletOf[p.user] # WalletOf[p.to]
  BY <1>1, WalletsAssumption
<1> QED BY <1>1, <1>2 DEF MoneyOf, Row, TransactionRows

\* The steps of a transfer before it commits, and its refusal.
LEMMA TransferBegins ==
  ASSUME HistoryInv, NEW p \in Payments,
         \/ LookUpKey(p) \/ CheckCategory(p) \/ BeginTransfer(p)
         \/ CommitTransfer(p) /\ UNCHANGED txns
  PROVE  HistoryInv'
<1>1. HistoryShape /\ TimesPassed /\ FilingStands /\ BalancesFollow /\ ReadingsFit
  BY DEF HistoryInv
<1>2. CASE LookUpKey(p) \/ CheckCategory(p) \/ (CommitTransfer(p) /\ UNCHANGED txns)
  <2>1. /\ UNCHANGED <<balance, txns, categories, filed, began, clock, reading>>
        /\ \E s \in {"replayed", "category", "ready", "refused"} :
             /\ stage' = [stage EXCEPT ![p] = s]
             /\ s = "ready" => p.category = NoCategory \/ categories[p.category].user = p.user
    <3>1. CASE LookUpKey(p)
      BY <3>1 DEF LookUpKey, Reach, bankVars, tellVars
    <3>2. CASE CheckCategory(p)
      BY <3>2 DEF CheckCategory, Reach, bankVars, tellVars
    <3>3. CASE CommitTransfer(p) /\ UNCHANGED txns
      <4>1. ~ Transfer(MoneyOf(p))
        <5> SUFFICES ASSUME Transfer(MoneyOf(p)) PROVE FALSE
          OBVIOUS
        <5>1. txns' = txns \cup {Row(MoneyOf(p))} /\ ~ KeyTaken(txns, MoneyOf(p))
          BY DEF Transfer
        <5> DEFINE mine == Row(MoneyOf(p))
        <5>2. mine \in txns
          BY <3>3, <5>1
        <5>3. mine.key = MoneyOf(p).key /\ mine.from = MoneyOf(p).from
          BY DEF Row
        <5> QED BY <5>1, <5>2, <5>3 DEF KeyTaken, SameKey
      <4> QED BY <3>3, <4>1 DEF CommitTransfer, Reach, bankVars, tellVars
    <3> QED BY <1>2, <3>1, <3>2, <3>3
  <2>2. PICK s \in {"replayed", "category", "ready", "refused"} :
           /\ stage' = [stage EXCEPT ![p] = s]
           /\ s = "ready" => p.category = NoCategory \/ categories[p.category].user = p.user
    BY <2>1
  <2>3. stage' \in [Payments -> Stages] /\ stage'[p] = s
        /\ \A q \in Payments : q # p => stage'[q] = stage[q]
    BY <1>1, <2>2 DEF HistoryShape, Stages
  <2>4. HistoryShape' /\ BalancesFollow' /\ ReadingsFit'
    BY <1>1, <2>1, <2>3 DEF HistoryShape, RowsFit, BalancesFollow, ReadingsFit
  <2>5. TimesPassed'
    BY <1>1, <2>1, <2>3 DEF TimesPassed
  <2>6. FilingStands'
    BY <1>1, <2>1, <2>2, <2>3 DEF FilingStands
  <2> QED BY <2>4, <2>5, <2>6 DEF HistoryInv
<1>3. CASE BeginTransfer(p)
  <2>1. PICK now \in {clock - 1, clock} \cap Nat :
          /\ stage[p] = "ready" /\ stage' = [stage EXCEPT ![p] = "begun"]
          /\ began' = [began EXCEPT ![p] = now] /\ clock' = now + 1
          /\ UNCHANGED <<balance, txns, categories, filed, reading>>
    BY <1>3 DEF BeginTransfer, Reach, bankVars, tellVars
  <2>2. /\ stage' \in [Payments -> Stages] /\ stage'[p] = "begun"
        /\ \A q \in Payments : q # p => stage'[q] = stage[q]
        /\ began' \in [Payments -> Nat] /\ began'[p] = now
        /\ \A q \in Payments : q # p => began'[q] = began[q]
        /\ clock \in Nat /\ now \in Nat /\ clock' = now + 1 /\ clock <= clock'
    BY <1>1, <2>1 DEF HistoryShape, Stages
  <2>3. HistoryShape' /\ BalancesFollow' /\ ReadingsFit'
    BY <1>1, <2>1, <2>2 DEF HistoryShape, RowsFit, BalancesFollow, ReadingsFit
  <2>4. TimesPassed'
    <3>1. \A t \in txns : filed[t].at \in Nat
      BY <1>1 DEF HistoryShape, FileRows
    <3>2. \A q \in Payments : began[q] \in Nat
      BY <1>1 DEF HistoryShape
    <3> QED BY <1>1, <2>1, <2>2, <3>1, <3>2 DEF TimesPassed
  <2>5. FilingStands'
    BY <1>1, <2>1, <2>2 DEF FilingStands
  <2> QED BY <2>3, <2>4, <2>5 DEF HistoryInv
<1> QED BY <1>2, <1>3

\* A committed transfer is a row more, which moves two balances by its amount.
LEMMA BalancesMove ==
  ASSUME HistoryShape, BalancesFollow, NEW p \in Payments, Transfer(MoneyOf(p))
  PROVE  /\ RowsFit(txns') /\ Row(MoneyOf(p)) \notin txns
         /\ balance' \in [Accounts -> Int] /\ BalancesFollow'
<1> DEFINE new == Row(MoneyOf(p))
           from == WalletOf[p.user]
           to == WalletOf[p.to]
<1>1. /\ new \in TransactionRows /\ new.from = from /\ new.to = to /\ new.amount = p.amount
      /\ from \in Accounts /\ to \in Accounts /\ from # to /\ p.amount \in Nat
      /\ MoneyOf(p).from = from /\ MoneyOf(p).to = to /\ MoneyOf(p).amount = p.amount
  BY MoneyFacts
<1>2. txns' = txns \cup {new} /\ new \notin txns
  BY DEF Transfer, KeyTaken, SameKey, Row
<1>3. balance \in [Accounts -> Int] /\ RowsFit(txns)
  BY DEF HistoryShape
<1>4. balance' = [balance EXCEPT ![MoneyOf(p).from] = @ - MoneyOf(p).amount,
                                 ![MoneyOf(p).to] = @ + MoneyOf(p).amount]
  BY DEF Transfer
<1> HIDE DEF new, from, to
<1>5. /\ balance' \in [Accounts -> Int]
      /\ balance'[from] = balance[from] - p.amount
      /\ balance'[to] = balance[to] + p.amount
      /\ \A a \in Accounts \ {from, to} : balance'[a] = balance[a]
  BY <1>1, <1>3, <1>4
<1>6. RowsFit(txns')
  BY <1>1, <1>2, <1>3, FS_AddElement DEF RowsFit
<1>7. ASSUME NEW a \in Accounts
      PROVE  balance'[a] = Opening[a] + SumOver(RowAmounts, Incoming(txns', a))
                                      - SumOver(RowAmounts, Outgoing(txns', a))
  <2>1. /\ Incoming(txns', a) = Incoming(txns, a) \cup (IF a = to THEN {new} ELSE {})
        /\ Outgoing(txns', a) = Outgoing(txns, a) \cup (IF a = from THEN {new} ELSE {})
    BY <1>1, <1>2 DEF Incoming, Outgoing
  <2>2. /\ Incoming(txns, a) \subseteq TransactionRows /\ IsFiniteSet(Incoming(txns, a))
        /\ Outgoing(txns, a) \subseteq TransactionRows /\ IsFiniteSet(Outgoing(txns, a))
        /\ new \notin Incoming(txns, a) /\ new \notin Outgoing(txns, a)
    <3>1. Incoming(txns, a) \subseteq txns /\ Outgoing(txns, a) \subseteq txns
      BY DEF Incoming, Outgoing
    <3> QED BY <1>2, <1>3, <3>1, RowSets
  <2>3. /\ \A t \in TransactionRows : RowAmounts[t] \in Int
        /\ RowAmounts[new] = p.amount
    BY <1>1 DEF RowAmounts, TransactionRows
  <2>4. /\ SumOver(RowAmounts, Incoming(txns, a) \cup {new}) =
             SumOver(RowAmounts, Incoming(txns, a)) + p.amount
        /\ SumOver(RowAmounts, Outgoing(txns, a) \cup {new}) =
             SumOver(RowAmounts, Outgoing(txns, a)) + p.amount
    <3>1. /\ \A t \in Incoming(txns, a) \cup {new} : RowAmounts[t] \in Int
          /\ \A t \in Outgoing(txns, a) \cup {new} : RowAmounts[t] \in Int
      BY <1>1, <2>2, <2>3
    <3> QED BY <2>2, <2>3, <3>1, SumGrows
  <2>5. /\ SumOver(RowAmounts, Incoming(txns, a)) \in Int
        /\ SumOver(RowAmounts, Outgoing(txns, a)) \in Int
    BY <2>2, <2>3, SumIsInteger
  <2>6. /\ SumOver(RowAmounts, Incoming(txns', a)) =
             SumOver(RowAmounts, Incoming(txns, a)) + IF a = to THEN p.amount ELSE 0
        /\ SumOver(RowAmounts, Outgoing(txns', a)) =
             SumOver(RowAmounts, Outgoing(txns, a)) + IF a = from THEN p.amount ELSE 0
    <3>1. Incoming(txns', a) = IF a = to THEN Incoming(txns, a) \cup {new} ELSE Incoming(txns, a)
      BY <2>1
    <3>2. Outgoing(txns', a) = IF a = from THEN Outgoing(txns, a) \cup {new} ELSE Outgoing(txns, a)
      BY <2>1
    <3>3. SumOver(RowAmounts, Incoming(txns', a)) =
             SumOver(RowAmounts, Incoming(txns, a)) + IF a = to THEN p.amount ELSE 0
      BY <2>4, <2>5, <3>1
    <3>4. SumOver(RowAmounts, Outgoing(txns', a)) =
             SumOver(RowAmounts, Outgoing(txns, a)) + IF a = from THEN p.amount ELSE 0
      BY <2>4, <2>5, <3>2
    <3> QED BY <3>3, <3>4
  <2>7. balance'[a] = balance[a] + (IF a = to THEN p.amount ELSE 0)
                                 - (IF a = from THEN p.amount ELSE 0)
    BY <1>1, <1>3, <1>5
  <2>8. balance[a] = Opening[a] + SumOver(RowAmounts, Incoming(txns, a))
                                - SumOver(RowAmounts, Outgoing(txns, a))
        /\ Opening[a] \in Int
    BY AccountsAssumption DEF BalancesFollow
  <2> QED BY <1>1, <2>5, <2>6, <2>7, <2>8
<1>8. BalancesFollow'
  BY <1>7 DEF BalancesFollow
<1> QED BY <1>2, <1>5, <1>6, <1>8 DEF new

\* A commit adds one row, with the time the transfer began.
LEMMA TransferCommits ==
  ASSUME HistoryInv, NEW p \in Payments, CommitTransfer(p), txns' # txns
  PROVE  HistoryInv'
<1> DEFINE new == Row(MoneyOf(p))
<1>1. HistoryShape /\ TimesPassed /\ FilingStands /\ BalancesFollow /\ ReadingsFit
  BY DEF HistoryInv
<1>2. /\ stage[p] = "begun" /\ p.category \in Fileable /\ Transfer(MoneyOf(p))
      /\ filed' = [t \in txns' |->
                      IF t \in txns THEN filed[t]
                      ELSE [category |-> p.category, at |-> began[p]]]
      /\ stage' = [stage EXCEPT ![p] = "paid"]
      /\ UNCHANGED <<categories, began, clock, reading>>
  BY DEF CommitTransfer, Reach, bankVars, tellVars
<1>3. /\ RowsFit(txns') /\ new \notin txns /\ txns' = txns \cup {new}
      /\ balance' \in [Accounts -> Int] /\ BalancesFollow'
  <2>1. txns' = txns \cup {new}
    BY <1>2 DEF Transfer
  <2> QED BY <1>1, <1>2, <2>1, BalancesMove
<1>4. /\ p.category \in CategoryIds \cup {NoCategory} /\ p.user \in Users
      /\ new.from = WalletOf[p.user]
  BY MoneyFacts
<1>5. began[p] \in Nat /\ filed \in [txns -> FileRows]
  BY <1>1 DEF HistoryShape
<1> HIDE DEF new
<1>6. /\ filed' \in [txns' -> FileRows]
      /\ \A t \in txns : filed'[t] = filed[t]
      /\ filed'[new].category = p.category /\ filed'[new].at = began[p]
  <2>1. [category |-> p.category, at |-> began[p]] \in FileRows
    BY <1>4, <1>5 DEF FileRows
  <2> QED BY <1>2, <1>3, <1>5, <2>1
<1>7. /\ stage' \in [Payments -> Stages] /\ stage'[p] = "paid"
      /\ \A q \in Payments : q # p => stage'[q] = stage[q]
  BY <1>1, <1>2 DEF HistoryShape, Stages
<1>8. HistoryShape'
  BY <1>1, <1>2, <1>3, <1>6, <1>7 DEF HistoryShape
<1>9. TimesPassed'
  BY <1>1, <1>2, <1>3, <1>6, <1>7 DEF TimesPassed
<1>10. FilingStands'
  <2>1. p.category # NoCategory => categories[p.category].user = p.user
    <3>1. Gone.user = Nobody
      BY DEF Gone
    <3> QED BY <1>1, <1>2, <3>1 DEF FilingStands, Fileable
  <2>2. \A t \in txns' : filed'[t].category # NoCategory =>
          /\ categories[filed'[t].category].user \in Users
          /\ WalletOf[categories[filed'[t].category].user] = t.from
    BY <1>1, <1>3, <1>4, <1>6, <2>1 DEF FilingStands
  <2>3. \A q \in Payments : stage'[q] \in {"ready", "begun"} /\ q.category # NoCategory =>
          categories[q.category].user = q.user \/ categories[q.category] = Gone
    BY <1>1, <1>7 DEF FilingStands
  <2> QED BY <1>2, <2>2, <2>3 DEF FilingStands
<1>11. ReadingsFit'
  <2> SUFFICES ASSUME NEW r \in Readers PROVE ReadingFits(reading[r], txns', filed')
    BY <1>1, <1>2 DEF ReadingsFit
  <2>1. reading[r] \in ReadingRecords /\ ReadingFits(reading[r], txns, filed)
    BY <1>1 DEF ReadingsFit
  <2>2. txns \subseteq txns' /\ IsFiniteSet(txns')
    BY <1>3 DEF RowsFit
  <2>3. \A t \in txns : filed'[t].at = filed[t].at /\ filed'[t].category = filed[t].category
    BY <1>6
  <2> QED BY <1>5, <1>6, <2>1, <2>2, <2>3, LaterFits
<1> QED BY <1>3, <1>8, <1>9, <1>10, <1>11 DEF HistoryInv

-----------------------------------------------------------------------------
\* Pages.

\* Where the next page begins.
LEMMA PageNumbers ==
  ASSUME NEW k \in Nat
  PROVE  /\ (k - 1) * PageSize \in Int /\ k * PageSize \in Nat
         /\ (k - 1) * PageSize + PageSize = k * PageSize
         /\ (k + 1 - 1) * PageSize = k * PageSize
         /\ (1 - 1) * PageSize = 0
BY HistoryAssumption

\* A row that shares its time with no other is among the first n rows if its
\* place is.
LEMMA NewestByPlace ==
  ASSUME NEW rows, IsFiniteSet(rows), \A u \in rows : filed[u].at \in Nat,
         NEW n \in Nat, NEW top \in Newest(rows, n), NEW t \in rows, Untied(rows, filed, t)
  PROVE  t \in top <=> Place(rows, filed, t) <= n
<1> DEFINE above == {u \in rows : filed[u].at >= filed[t].at}
<1>1. /\ top \subseteq rows
      /\ Cardinality(top) = IF n < Cardinality(rows) THEN n ELSE Cardinality(rows)
      /\ \A v \in top, u \in rows \ top : filed[v].at >= filed[u].at
  BY DEF Newest
<1>2. above \subseteq rows /\ t \in above
  OBVIOUS
<1>3. \A u \in above \ {t} : filed[u].at > filed[t].at
  BY DEF Untied
<1>4. Place(rows, filed, t) = Cardinality(above)
  BY DEF Place
<1>5. \A u \in rows : u \in above <=> filed[u].at >= filed[t].at
  OBVIOUS
<1> HIDE DEF above
<1>6. /\ IsFiniteSet(top) /\ IsFiniteSet(above) /\ IsFiniteSet(above \ {t})
      /\ Cardinality(top) \in Nat /\ Cardinality(above) \in Nat /\ Cardinality(rows) \in Nat
      /\ Cardinality(above) <= Cardinality(rows)
  BY <1>1, <1>2, FS_Subset, FS_CardinalityType
<1>7. CASE t \in top
  <2>1. above \subseteq top
    BY <1>1, <1>2, <1>3, <1>7
  <2>2. Cardinality(above) <= Cardinality(top)
    BY <1>6, <2>1, FS_Subset
  <2> QED BY <1>1, <1>4, <1>6, <1>7, <2>2
<1>8. CASE t \notin top
  <2>1. top \subseteq above \ {t}
    BY <1>1, <1>5, <1>8
  <2>2. Cardinality(top) <= Cardinality(above \ {t})
    BY <1>6, <2>1, FS_Subset
  <2>3. Cardinality(above \ {t}) = Cardinality(above) - 1
    BY <1>2, <1>6, FS_RemoveElement
  <2> QED BY <1>1, <1>4, <1>6, <1>8, <2>2, <2>3
<1> QED BY <1>7, <1>8

\* A reader opens the list, reads a page, is told its details, stops.
LEMMA ReaderSteps ==
  ASSUME HistoryInv, NEW r \in Readers,
         \/ \E u \in Users, c \in CategoryIds \cup {NoCategory}, range \in ListRanges :
              BeginReading(r, u, c, range)
         \/ ReadRows(r) \/ ReadDetails(r) \/ StopReading(r)
  PROVE  HistoryInv'
<1> DEFINE x == reading[r]
           a == WalletOf[x.user]
           rows == Shows(txns, filed, a, x.category, x.range)
<1>1. HistoryShape /\ TimesPassed /\ FilingStands /\ BalancesFollow /\ ReadingsFit
  BY DEF HistoryInv
<1>2. UNCHANGED <<balance, txns, categories, filed, stage, began, clock>>
  BY DEF BeginReading, ReadRows, ReadDetails, StopReading, bankVars, fileVars
<1>3. HistoryShape' /\ TimesPassed' /\ FilingStands' /\ BalancesFollow'
  BY <1>1, <1>2 DEF HistoryShape, RowsFit, TimesPassed, FilingStands, BalancesFollow
<1>4. /\ x \in ReadingRecords /\ ReadingFits(x, txns, filed)
      /\ reading \in [Readers -> ReadingRecords]
  BY <1>1 DEF ReadingsFit
<1>5. ASSUME NEW y \in ReadingRecords, ReadingFits(y, txns, filed),
             reading' = [reading EXCEPT ![r] = y]
      PROVE  HistoryInv'
  <2>1. ReadingsFit'
    BY <1>1, <1>2, <1>4, <1>5 DEF ReadingsFit
  <2> QED BY <1>3, <2>1 DEF HistoryInv
<1>6. RowsFit(txns) /\ IsFiniteSet(rows) /\ rows \subseteq txns /\ txns \subseteq TransactionRows
  BY <1>1, FS_Subset DEF HistoryShape, RowsFit, Shows
<1>7. x.step # "none" =>
        /\ x.user \in Users /\ x.page >= 1 /\ x.want \subseteq txns
        /\ \A t \in x.rows : t \in txns /\ Mentions(t, a)
        /\ \A e \in x.seen :
             /\ e.row \in txns /\ Mentions(e.row, a)
             /\ ~ x.misled => e.direction = IF e.row.from = a THEN "debit" ELSE "credit"
        /\ x.step = "rows" => SeenDownTo(x, rows, filed, {}, (x.page - 1) * PageSize)
        /\ x.step = "details" => SeenDownTo(x, rows, filed, x.rows, x.page * PageSize)
  BY <1>4 DEF ReadingFits
<1>8. x.page \in Nat
  BY <1>4 DEF ReadingRecords
<1>9. ASSUME NEW u \in Users, NEW c \in CategoryIds \cup {NoCategory},
             NEW range \in ListRanges, BeginReading(r, u, c, range)
      PROVE  HistoryInv'
  <2> DEFINE w == Matching(WalletOf[u], c, range)
             y == [NotReading EXCEPT !.step = "rows", !.user = u, !.category = c,
                                     !.range = range, !.page = 1, !.want = w]
  <2>1. reading' = [reading EXCEPT ![r] = y]
    BY <1>9 DEF BeginReading
  <2>2. w = Shows(txns, filed, WalletOf[u], c, range) /\ w \subseteq txns
    BY DEF Matching, Shows, In
  <2>3. IsFiniteSet(w)
    BY <1>6, <2>2, FS_Subset DEF RowsFit
  <2> HIDE DEF w
  <2>4. /\ y.step = "rows" /\ y.user = u /\ y.category = c /\ y.page = 1 /\ y.want = w
        /\ y.range = range /\ y.rows = {} /\ y.seen = {}
    BY DEF NotReading
  <2>5. y \in ReadingRecords
    BY <1>6, <2>2 DEF ReadingRecords, NotReading
  <2> HIDE DEF y
  <2>6. ASSUME NEW t \in w PROVE Place(w, filed, t) > 0
    <3> DEFINE above == {v \in w : filed[v].at >= filed[t].at}
    <3>1. filed[t].at \in Nat
      BY <1>1, <2>2 DEF HistoryShape, FileRows
    <3>2. t \in above /\ IsFiniteSet(above)
      BY <2>3, <3>1, FS_Subset
    <3> HIDE DEF above
    <3>3. Cardinality(above) \in Nat /\ Cardinality(above) # 0
      BY <3>2, FS_EmptySet, FS_CardinalityType
    <3>4. Cardinality(above) = Place(w, filed, t)
      BY DEF above, Place
    <3> QED BY <3>3, <3>4
  <2>7. SeenDownTo(y, w, filed, {}, (y.page - 1) * PageSize)
    BY <2>4, <2>6, PageNumbers DEF SeenDownTo
  <2>8. ReadingFits(y, txns, filed)
    BY <2>2, <2>4, <2>7 DEF ReadingFits
  <2> QED BY <1>5, <2>1, <2>5, <2>8
<1>10. CASE ReadRows(r)
  <2> DEFINE offset == (x.page - 1) * PageSize
             pages == ListTransactionsByAccountPaginated(a, x.category, x.range, PageSize, offset)
             y(page) == [x EXCEPT !.step = "details", !.rows = page]
  <2>1. x.step = "rows" /\ \E page \in pages : reading' = [reading EXCEPT ![r] = y(page)]
    BY <1>4, <1>10 DEF ReadRows, ReadingRecords
  <2>2. PICK page \in pages : reading' = [reading EXCEPT ![r] = y(page)]
    BY <2>1
  <2>3. x.page >= 1 /\ offset \in Nat /\ PageSize \in Nat /\ offset + PageSize = x.page * PageSize
    BY <1>7, <1>8, <2>1, HistoryAssumption
  <2>4. /\ page \subseteq rows
        /\ \A t \in rows : Untied(rows, filed, t) /\ Place(rows, filed, t) > offset =>
             t \in page \/ Place(rows, filed, t) > x.page * PageSize
    <3>1. Matching(a, x.category, x.range) = rows
      BY DEF Matching, Shows, In
    <3>2. /\ page \subseteq rows
          /\ \E passed \in Newest(rows, offset), upTo \in Newest(rows, offset + PageSize) :
               passed \subseteq upTo /\ page = upTo \ passed
      BY <2>2, <3>1 DEF ListTransactionsByAccountPaginated
    <3>3. PICK passed \in Newest(rows, offset), upTo \in Newest(rows, offset + PageSize) :
            page = upTo \ passed
      BY <3>2
    <3>4. \A t \in rows : filed[t].at \in Nat
      BY <1>1, <1>6 DEF HistoryShape, FileRows
    <3>5. \A t \in rows : Place(rows, filed, t) \in Nat
      BY <1>6, Placed
    <3> HIDE DEF rows, offset
    <3>6. offset + PageSize \in Nat
      BY <2>3
    <3>7. \A t \in rows : Untied(rows, filed, t) =>
            /\ t \in passed <=> Place(rows, filed, t) <= offset
            /\ t \in upTo <=> Place(rows, filed, t) <= offset + PageSize
      BY <1>6, <2>3, <3>4, <3>6, NewestByPlace
    <3> QED BY <2>3, <3>2, <3>3, <3>5, <3>7
  <2> DEFINE z == y(page)
  <2>5. page \subseteq txns /\ \A t \in page : Mentions(t, a)
    BY <2>4 DEF Shows
  <2>6. reading' = [reading EXCEPT ![r] = z]
    BY <2>2
  <2>7. /\ z.step = "details" /\ z.user = x.user /\ z.category = x.category
        /\ z.range = x.range /\ z.page = x.page /\ z.want = x.want /\ z.rows = page
        /\ z.seen = x.seen /\ z.misled = x.misled
    BY <1>4 DEF ReadingRecords
  <2>8. z \in ReadingRecords
    BY <1>4, <1>6, <2>5 DEF ReadingRecords
  <2> HIDE DEF z, pages
  <2>9. SeenDownTo(z, rows, filed, page, x.page * PageSize)
    <3> SUFFICES ASSUME NEW t \in x.want \cap rows, Untied(rows, filed, t),
                        t \notin SeenRows(x), t \notin page
                 PROVE  Place(rows, filed, t) > x.page * PageSize
      BY <2>7 DEF SeenDownTo, SeenRows
    <3>1. Place(rows, filed, t) > offset
      BY <1>7, <2>1 DEF SeenDownTo
    <3> HIDE DEF rows, offset
    <3> QED BY <2>4, <3>1
  <2>10. ReadingFits(z, txns, filed)
    BY <1>7, <2>1, <2>5, <2>7, <2>9 DEF ReadingFits
  <2> QED BY <1>5, <2>6, <2>8, <2>10
<1>11. CASE ReadDetails(r)
  <2> DEFINE total == CountTransactionsByAccount(a, x.category, x.range)
             details(found) == {[row |-> t, direction |-> Direction(t, x.user, found)] : t \in x.rows}
             y(found) == [x EXCEPT !.step = IF x.page * PageSize < total THEN "rows" ELSE "read",
                                   !.page = @ + 1, !.rows = {}, !.misled = @ \/ ~ found,
                                   !.seen = @ \cup details(found)]
  <2>1. x.step = "details" /\ \E found \in BOOLEAN : reading' = [reading EXCEPT ![r] = y(found)]
    BY <1>11 DEF ReadDetails
  <2>2. PICK found \in BOOLEAN : reading' = [reading EXCEPT ![r] = y(found)]
    BY <2>1
  <2> DEFINE z == y(found)
             more == details(found)
             seen == x.seen \cup more
             step == IF x.page * PageSize < total THEN "rows" ELSE "read"
             misled == x.misled \/ ~ found
  <2>3. total = Cardinality(rows)
    BY DEF CountTransactionsByAccount, Matching, Shows, In
  <2>4. /\ more \subseteq [row : TransactionRows, direction : {"debit", "credit"}]
        /\ \A t \in x.rows : \E e \in more : e.row = t
        /\ \A e \in more :
             /\ e.row \in x.rows
             /\ found => e.direction = IF e.row.from = a THEN "debit" ELSE "credit"
    <3>1. x.rows \subseteq TransactionRows
      BY <1>4 DEF ReadingRecords
    <3>2. ASSUME NEW t \in x.rows
          PROVE  /\ Direction(t, x.user, found) \in {"debit", "credit"}
                 /\ found => Direction(t, x.user, found) = IF t.from = a THEN "debit" ELSE "credit"
      BY DEF Direction
    <3>3. ASSUME NEW e \in more
          PROVE  \E t \in x.rows : e = [row |-> t, direction |-> Direction(t, x.user, found)]
      OBVIOUS
    <3>4. ASSUME NEW t \in x.rows PROVE \E e \in more : e.row = t
      <4> DEFINE shown == [row |-> t, direction |-> Direction(t, x.user, found)]
      <4>1. shown \in more /\ shown.row = t
        OBVIOUS
      <4> HIDE DEF shown, more
      <4> QED BY <4>1
    <3>5. ASSUME NEW e \in more
          PROVE  /\ e \in [row : TransactionRows, direction : {"debit", "credit"}]
                 /\ e.row \in x.rows
                 /\ found => e.direction = IF e.row.from = a THEN "debit" ELSE "credit"
      <4>1. PICK t \in x.rows : e = [row |-> t, direction |-> Direction(t, x.user, found)]
        BY <3>3
      <4>2. e.row = t /\ e.direction = Direction(t, x.user, found)
        BY <4>1
      <4>3. e \in [row : TransactionRows, direction : {"debit", "credit"}]
        BY <3>1, <3>2, <4>1
      <4> QED BY <3>2, <4>2, <4>3
    <3> HIDE DEF more
    <3> QED BY <3>4, <3>5
  <2>5. x.seen \subseteq [row : TransactionRows, direction : {"debit", "credit"}]
        /\ x.misled \in BOOLEAN
    BY <1>4 DEF ReadingRecords
  <2>6. reading' = [reading EXCEPT ![r] = z]
    BY <2>2
  <2> HIDE DEF more, total
  <2>7. /\ z.step = step /\ z.user = x.user /\ z.category = x.category /\ z.range = x.range
        /\ z.page = x.page + 1 /\ z.want = x.want /\ z.rows = {} /\ z.seen = seen
        /\ z.misled = misled
    BY <1>4 DEF ReadingRecords, more
  <2>8. z \in ReadingRecords
    <3>1. seen \in SUBSET [row : TransactionRows, direction : {"debit", "credit"}]
      BY <2>4, <2>5
    <3>2. z = [x EXCEPT !.step = step, !.page = @ + 1, !.rows = {}, !.misled = misled,
                        !.seen = seen]
      BY DEF more
    <3>3. misled \in BOOLEAN /\ step \in {"rows", "read"} /\ x.page + 1 \in Nat
      BY <1>8, <2>5
    <3> HIDE DEF z, seen, misled, step
    <3> QED BY <1>4, <3>1, <3>2, <3>3 DEF ReadingRecords
  <2> HIDE DEF z
  <2>9. /\ z.user \in Users /\ z.page >= 1 /\ z.want \subseteq txns
        /\ \A e \in z.seen :
             /\ e.row \in txns /\ Mentions(e.row, a)
             /\ ~ z.misled => e.direction = IF e.row.from = a THEN "debit" ELSE "credit"
    <3>1. x.step # "none" /\ (misled <=> x.misled \/ ~ found)
      BY <2>1
    <3>2. /\ x.user \in Users /\ x.want \subseteq txns
          /\ \A t \in x.rows : t \in txns /\ Mentions(t, a)
          /\ \A e \in x.seen :
               /\ e.row \in txns /\ Mentions(e.row, a)
               /\ ~ x.misled => e.direction = IF e.row.from = a THEN "debit" ELSE "credit"
      BY <1>7, <3>1 DEF ReadingFits
    <3>3. ASSUME NEW e \in seen
          PROVE  /\ e.row \in txns /\ Mentions(e.row, a)
                 /\ ~ misled => e.direction = IF e.row.from = a THEN "debit" ELSE "credit"
      <4>1. CASE e \in x.seen
        BY <3>1, <3>2, <4>1
      <4>2. CASE e \in more
        BY <2>4, <3>1, <3>2, <4>2
      <4> QED BY <4>1, <4>2
    <3> HIDE DEF seen, misled
    <3> QED BY <1>8, <2>7, <3>2, <3>3
  <2>10. SeenRows(z) = SeenRows(x) \cup x.rows
    <3>1. \A t : t \in SeenRows(z) <=> \E e \in x.seen \cup more : e.row = t
      BY <2>7 DEF SeenRows
    <3>2. \A t : t \in SeenRows(x) <=> \E e \in x.seen : e.row = t
      BY DEF SeenRows
    <3> QED BY <2>4, <3>1, <3>2
  <2>11. ASSUME NEW t \in x.want \cap rows, Untied(rows, filed, t), t \notin SeenRows(z)
         PROVE  /\ Place(rows, filed, t) > x.page * PageSize
                /\ Place(rows, filed, t) \in Nat /\ Place(rows, filed, t) <= total
    <3>1. Place(rows, filed, t) > x.page * PageSize
      BY <1>7, <2>1, <2>10, <2>11 DEF SeenDownTo
    <3> QED BY <1>6, <2>3, <3>1, Placed
  <2>12. SeenDownTo(z, rows, filed, {}, (z.page - 1) * PageSize)
    BY <1>8, <2>7, <2>11, PageNumbers DEF SeenDownTo
  <2>13. step = "read" => SeenAll(z, rows, filed)
    <3>1. total \in Nat /\ x.page * PageSize \in Nat
      BY <1>6, <1>8, <2>3, FS_CardinalityType, PageNumbers
    <3> HIDE DEF rows
    <3> QED BY <2>7, <2>11, <3>1 DEF SeenAll
  <2>14. ReadingFits(z, txns, filed)
    BY <2>7, <2>9, <2>12, <2>13 DEF ReadingFits
  <2> QED BY <1>5, <2>6, <2>8, <2>14
<1>12. CASE StopReading(r)
  <2>1. NotReading \in ReadingRecords /\ ReadingFits(NotReading, txns, filed)
    BY DEF NotReading, ReadingRecords, ReadingFits
  <2> QED BY <1>5, <1>12, <2>1 DEF StopReading
<1> QED BY <1>9, <1>10, <1>11, <1>12

LEMMA HistoryStep == HistoryInv /\ [HistoryNext]_<<bankVars, historyVars>> => HistoryInv'
<1> SUFFICES ASSUME HistoryInv, [HistoryNext]_<<bankVars, historyVars>> PROVE HistoryInv'
  OBVIOUS
<1>1. CASE UNCHANGED <<bankVars, historyVars>>
  BY <1>1
     DEF bankVars, historyVars, HistoryInv, HistoryShape, RowsFit, TimesPassed, FilingStands,
         BalancesFollow, ReadingsFit
<1>2. ASSUME NEW p \in Payments, CommitTransfer(p) PROVE HistoryInv'
  BY <1>2, TransferBegins, TransferCommits
<1>3. CASE HistoryNext
  BY <1>2, <1>3, CategoryCalls, TransferBegins, ReaderSteps DEF HistoryNext
<1> QED BY <1>1, <1>3

-----------------------------------------------------------------------------
\* What people are told about their money (transfer_usecase.go,
\* analytics_usecase.go), for every number of people, transfers, categories
\* and readers: a transaction is filed under a category of its payer, the
\* analytics of any range count every payment of it once, and whoever turns
\* the pages to the end has missed none that was there at the beginning.
THEOREM HistoryStaysTrue == HistorySpec => [](HistoryTypeOK /\ HistoryHolds)
BY HistoryStart, HistoryStep, HistoryMeans, PTL DEF HistorySpec

\* The same of the composed system, where another part may have the bank.
THEOREM HistoryStaysTrueInMoney == MoneySpec => []HistoryIsTrue
<1> DEFINE Inv == part = "history" => HistoryInv
           all == <<bankVars, podVars, historyVars, depositVars, part>>
<1>1. MoneyInit => Inv
  BY HistoryStart DEF MoneyInit
<1>2. Inv /\ [MoneyNext]_all => Inv'
  <2> SUFFICES ASSUME Inv, [MoneyNext]_all, part' = "history" PROVE HistoryInv'
    OBVIOUS
  <2>1. CASE UNCHANGED all
    BY <2>1, HistoryStep
  <2>2. CASE MoneyNext
    BY <2>2, HistoryStep DEF MoneyNext
  <2>3. QED
    BY <2>1, <2>2
<1>3. Inv => HistoryIsTrue
  BY HistoryMeans DEF HistoryIsTrue
<1>4. QED
  BY <1>1, <1>2, <1>3, PTL DEF MoneySpec

=============================================================================
