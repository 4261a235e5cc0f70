-------------------------------- MODULE Pods --------------------------------
(***************************************************************************)
(* Savings pods (podUsecase): a pod is a row of payment.pods and an        *)
(* account of its own, created together.  Money goes in and out through    *)
(* the ledger, one whole transfer at a time as Bank allows it (Ledger      *)
(* implements Bank).  Everything else is a read followed by a statement    *)
(* that does not look at what was read, and handlers run concurrently.     *)
(***************************************************************************)
EXTENDS Wallets

CONSTANTS
    PodIds,      \* random ids: a deleted one never comes back
    AccountOf,   \* the account a pod id gets
    Texts,       \* names and icons
    Clients,     \* concurrent handlers, each serving one request
    Jobs         \* the requests callers may make, see JobShape

ASSUME PodsAssumption ==
    /\ AccountOf \in [PodIds -> Accounts]
    /\ \A c, d \in PodIds : AccountOf[c] = AccountOf[d] => c = d
    /\ \A u \in Users, d \in PodIds : WalletOf[u] # AccountOf[d]

VARIABLES
    pods,        \* payment.pods
    owner,       \* payment.accounts.user_id of the pods' accounts
    job,         \* the request each client serves
    pc,          \* what it does next
    read,        \* the pod row it has read
    answer       \* what the request was answered

podVars == <<pods, owner, job, pc, read, answer>>
vars == <<bankVars, podVars>>

NoPod == [user |-> Nobody]
NoJob == [kind |-> "none"]

\* A row of payment.pods, its amounts and dates left out.
PodRow == [user : Users, name : Texts, icon : Texts]

\* The amount of a transfer is positive; a patch names the fields it changes.
JobShape ==
    [kind : {"create"}, user : Users, name : Texts]
    \cup [kind : {"deposit", "withdraw"}, user : Users, pod : PodIds,
          amount : Nat \ {0}, key : Keys]
    \cup [kind : {"update"}, user : Users, pod : PodIds, field : {"name", "icon"},
          text : Texts]
    \cup [kind : {"delete"}, user : Users, pod : PodIds]

ASSUME JobsAssumption == Jobs \subseteq JobShape

Init ==
    /\ BankInit
    /\ pods = [d \in PodIds |-> NoPod]
    /\ owner = [d \in PodIds |-> Nobody]
    /\ job = [p \in Clients |-> NoJob]
    /\ pc = [p \in Clients |-> "idle"]
    /\ read = [p \in Clients |-> NoPod]
    /\ answer = [p \in Clients |-> "none"]

Exists(d) == pods[d] # NoPod
Deleted(d) == owner[d] # Nobody /\ ~ Exists(d)
Goto(p, step) == pc' = [pc EXCEPT ![p] = step]

Answer(p, a) ==
    /\ Goto(p, "done")
    /\ answer' = [answer EXCEPT ![p] = a]

\* A pod can only be named by an id that was handed out.
Ask(p) ==
    /\ pc[p] = "idle"
    /\ \E j \in Jobs :
        /\ j.kind # "create" => owner[j.pod] # Nobody
        /\ job' = [job EXCEPT ![p] = j]
        /\ Goto(p, IF j.kind = "create" THEN "create" ELSE "read")
    /\ UNCHANGED <<bankVars, pods, owner, read, answer>>

\* CreatePod: the account and the pod, in one transaction.
CreatePod(p) ==
    /\ pc[p] = "create"
    /\ \E d \in PodIds :
        /\ owner[d] = Nobody
        /\ owner' = [owner EXCEPT ![d] = job[p].user]
        /\ pods' = [pods EXCEPT ![d] =
                        [user |-> job[p].user, name |-> job[p].name, icon |-> job[p].name]]
    /\ Answer(p, "ok")
    /\ UNCHANGED <<bankVars, job, read>>

\* Variant: the row is read, its owner is not compared.
ReadAnyPod(p) ==
    /\ pc[p] = "read"
    /\ IF ~ Exists(job[p].pod)
       THEN Answer(p, "not found") /\ UNCHANGED read
       ELSE /\ read' = [read EXCEPT ![p] = pods[job[p].pod]]
            /\ Goto(p, job[p].kind)
            /\ UNCHANGED answer
    /\ UNCHANGED <<bankVars, pods, owner, job>>

\* GetByID and the ownership check, with which TransferToPod, UpdatePod and
\* DeletePod begin.
ReadPod(p) ==
    LET j == job[p] IN
    /\ pc[p] = "read"
    /\ \/ /\ pods[j.pod].user # j.user
          /\ Answer(p, IF Exists(j.pod) THEN "not yours" ELSE "not found")
          /\ UNCHANGED read
       \/ /\ pods[j.pod].user = j.user
          /\ read' = [read EXCEPT ![p] = pods[j.pod]]
          /\ Goto(p, j.kind)
          /\ UNCHANGED answer
    /\ UNCHANGED <<bankVars, pods, owner, job>>

\* What TransferToPod hands to the ledger: the account of the pod row it read,
\* which it does not look at again.
Move(j) ==
    LET wallet == WalletOf[j.user]
        pod == AccountOf[j.pod]
        deposits == j.kind = "deposit"
    IN [kind |-> "pod", from |-> IF deposits THEN wallet ELSE pod,
        to |-> IF deposits THEN pod ELSE wallet, amount |-> j.amount, key |-> j.key]

\* TransferToPod has no lookup of the key: a repeated one fails on the unique
\* constraint, as does a transfer that is not funded on the balance check.
TransferToPod(p) ==
    /\ pc[p] \in {"deposit", "withdraw"}
    /\ \/ /\ Transfer(Move(job[p]))
          /\ Answer(p, "ok")
       \/ /\ \/ balance[Move(job[p]).from] < job[p].amount
             \/ KeyTaken(txns, Move(job[p]))
          /\ Answer(p, "refused")
          /\ UNCHANGED bankVars
    /\ UNCHANGED <<pods, owner, job, read>>

\* Variant: an update that inserts the row when it is gone.
UpsertPod(p) ==
    /\ pc[p] = "update"
    /\ pods' = [pods EXCEPT ![job[p].pod] = [read[p] EXCEPT ![job[p].field] = job[p].text]]
    /\ Answer(p, "ok")
    /\ UNCHANGED <<bankVars, owner, job, read>>

\* UpdatePod writes every column, the patched one and the others as they were
\* read.  No row, no update: the error of RETURNING is ErrNotFound.
UpdatePod(p) ==
    LET d == job[p].pod IN
    /\ pc[p] = "update"
    /\ \/ /\ Exists(d)
          /\ pods' = [pods EXCEPT ![d] = [read[p] EXCEPT ![job[p].field] = job[p].text]]
          /\ Answer(p, "ok")
       \/ /\ ~ Exists(d)
          /\ Answer(p, "not found")
          /\ UNCHANGED pods
    /\ UNCHANGED <<bankVars, owner, job, read>>

\* Variant: DeletePod without the balance check.
CheckNoBalance(p) ==
    /\ pc[p] = "delete"
    /\ Goto(p, "remove")
    /\ UNCHANGED <<bankVars, pods, owner, job, read, answer>>

\* DeletePod reads the balance, outside any transaction ...
CheckBalance(p) ==
    /\ pc[p] = "delete"
    /\ \/ /\ balance[AccountOf[job[p].pod]] # 0
          /\ Answer(p, "not empty")
       \/ /\ balance[AccountOf[job[p].pod]] = 0
          /\ Goto(p, "remove")
          /\ UNCHANGED answer
    /\ UNCHANGED <<bankVars, pods, owner, job, read>>

\* ... and removes the pod row, whatever the balance is by now.
Remove(p) ==
    /\ pc[p] = "remove"
    /\ pods' = [pods EXCEPT ![job[p].pod] = NoPod]
    /\ Answer(p, "ok")
    /\ UNCHANGED <<bankVars, owner, job, read>>

\* The accounts of a user: the wallet and those of the pods, deleted or not.
ListAccounts(u) == {WalletOf[u]} \cup {AccountOf[d] : d \in {c \in PodIds : owner[c] = u}}

GetTotalBalance(u) == SumOf(balance, ListAccounts(u))

Next ==
    \E p \in Clients :
        \/ Ask(p) \/ CreatePod(p) \/ ReadPod(p) \/ TransferToPod(p)
        \/ UpdatePod(p) \/ CheckBalance(p) \/ Remove(p)

Spec == Init /\ [][Next]_vars

-----------------------------------------------------------------------------
(* Properties.                                                             *)

\* The shape of the state; a pod and its account have the same owner.
PodsTypeOK ==
    /\ balance \in [Accounts -> Int]
    /\ pods \in [PodIds -> PodRow \cup {NoPod}]
    /\ owner \in [PodIds -> Users \cup {Nobody}]
    /\ job \in [Clients -> Jobs \cup {NoJob}]
    /\ pc \in [Clients -> {"idle", "create", "read", "deposit", "withdraw",
                           "update", "delete", "remove", "done"}]
    /\ read \in [Clients -> PodRow \cup {NoPod}]
    /\ \A d \in PodIds : Exists(d) => pods[d].user = owner[d]

\* GetTotalBalance: whatever a user does with pods, concurrently or not, the
\* sum of the user's balances stays what it was.
TotalsUnmoved ==
    \A u \in Users : GetTotalBalance(u) = SumOf(Opening, ListAccounts(u))

\* A handler that is past its read of the pod can still transfer.
InFlight(d) ==
    \E p \in Clients : pc[p] \in {"deposit", "withdraw"} /\ job[p].pod = d

\* pod_usecase_test.go:717 "Confirm GetPodByID returns 404": a deleted pod
\* stays deleted, even if an update had read it before.  Once the transfers
\* that had read it are over, what its account holds is out of its owner's
\* reach: nothing moves it, and no transfer begins that could.
DeletedForGood ==
    [][\A d \in PodIds : Deleted(d) =>
          /\ Deleted(d)'
          /\ ~ InFlight(d) => /\ ~ InFlight(d)'
                              /\ balance'[AccountOf[d]] = balance[AccountOf[d]]]_vars

\* pod_usecase.go:379 "Before allowing deletion, check pod balance. If
\* non-zero, reject delete.": a deleted pod leaves no money behind.
DeletedPodsAreEmpty ==
    \A d \in PodIds : Deleted(d) => balance[AccountOf[d]] = 0

\* A deposit has read the pod's row and a deletion its balance.
Overlap ==
    \E p, q \in Clients :
        pc[p] = "remove" /\ pc[q] = "deposit" /\ job[p].pod = job[q].pod

\* That overlap is the only way to strand money: in a history without it no
\* deleted pod keeps any.
QuietDeletesLeaveNothing == []~ Overlap => []DeletedPodsAreEmpty
=============================================================================
