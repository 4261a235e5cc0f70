# MoneyMate backend: a TLA+ model

TLA+ specifications of the MoneyMate services, the TLC configurations that
check them on small instances, and TLAPS proofs of the theorems that hold for
every instance. Sources are named relative to `src/`; `payment/`, `rewards/`,
`auth/` and so on stand for `src/services/payment/` and its neighbours.

    tlc -config MCLedger.cfg MCLedger.tla     # a run: see "Runs" below
    tlapm LedgerProofs.tla                    # all proofs of one module

## 1. Inventory

MoneyMate is a set of Go services with a PostgreSQL schema each, joined by
HTTP/gRPC calls and by Kafka topics. Redis holds short-lived keys. Every
service may run as several replicas, and every replica serves requests
concurrently; apart from maps of websockets (gateway and merchant) nothing is kept in memory, so that
all concurrency meets in database rows, redis keys and topics.

| Component | State | Operations | Hard behaviour | What makes it correct |
|---|---|---|---|---|
| payment: ledger (`payment/internal/adapter/postgres/repo/ledger_repo.go`, use cases transfer, withdrawal, system transfer) | accounts, transactions, journal entries | ExecuteTransfer and the look-ups around it | row locks, deadlock, idempotency races, lost commit acknowledgements | no overdraft, one charge per key, double entry, atomicity |
| payment: deposits | deposits; orders at Razorpay | InitiateDeposit, ConfirmPayment | order, row, answer and report can each be lost; conversions through float | credited once, only if captured, within two paise |
| payment: pods | pods, one account each | create, transfer, update, delete | reads outside of transactions | money conserved, nothing stranded |
| payment: wallets and accounts | accounts | CreateWallet, list, seeding of the settlement account | duplicate events | one wallet per user |
| payment: analytics, history, categories | categories, the category of a transaction | create, rename, delete; paged list, spend by category and period | category deleted during a transfer; commits while pages are turned | lists and sums agree with the books |
| rewards: rules | reward_rules | create, update, deactivate; CalculateReward | reads before updates; rounding | largest reward the rule allows |
| rewards: payouts | reward_payouts | event handler, replay of failed payouts | duplicates, crashes, racing replays | paid once, settled in the end |
| auth: registration | users, outbox, redis key "verified" | Register | consume-then-commit; racing unique columns | one account per e-mail |
| auth: outbox publisher | outbox_events | poll, publish, mark | several replicas, at-least-once | every event is sent |
| auth: sessions | refresh tokens, token version in two stores | login, refresh, logout, change and reset of the password | rotation races, two stores that differ | sessions follow the password |
| auth: PIN | PIN rows | set, change, verify, lock | concurrent guesses read one counter | attempts are bounded |
| auth: one-time codes | redis keys | send, guess, spend | several keys per operation, each expiring for itself | guesses are bounded, a cool-down has its mail |
| auth: users, staff, roles, permissions | their tables | administration | creations in several statements, renamed roles | an account has a role, references hold |
| merchant: stores, KYC, registration | stores, documents, the account in auth | registration, documents, review, status | statement sequences in two databases | status follows the review |
| merchant: plans and campaigns | plans, subscriptions, catalogue, campaigns, orders | change of plan, paid upgrade, create, activate | check-then-act, errors that are dropped | campaigns within the tier, a payment buys its plan |
| merchant: outbox publisher | outbox_events | as for auth | as for auth; nobody reads `merchant.registered` | - |
| merchant: earnings, wallet, rewards, dashboard | tables dropped by migration 000008 | - | - | - |
| notification | inbox, preferences, devices | HandleEvent, push, registration of devices | replay after a crash, rows read before a push | no push twice, no message forgotten, no live phone switched off |
| gateway: websocket hub | connection map, redis session keys | connect, disconnect, push | an old connection's cleanup removes the new one | a connected user can be reached |
| gateway: proxies, middlewares, rate limit | counters and switches in redis | limit, switches, token, role, proxy | commands one at a time, switches set while requests pass | each place of a window goes to one request or is lost with a reply; what is off is not served |
| support | complaints, reports, feedback, chat messages | inserts, paged lists, store and push of chat | publish-subscribe that keeps nothing, replicas that all hear it | lists are complete, what is pushed is stored |
| shared libraries, infrastructure | none | - | - | - |

How they interact:

* A registration in auth commits a `user.registered` event in its outbox; a
  publisher in each auth replica sends it to Kafka; payment's consumer creates
  the wallet.
* A transfer resolves the receiver's handle in payment's own tables and ends in the
  ledger (auth's PIN is verified by a call of its own, which the transfer does not
  look at). Pods, withdrawals and system transfers, an internal route, end in
  the same `ExecuteTransfer`; a confirmed deposit in `ConfirmPayment`, which takes
  the same rows in another order.
* A payment-completed event reaches rewards, which pays through its payment client.
* Events of payment and campaigns reach notification, which stores a row per
  recipient and pushes to the phones registered for it.
* Every request of a client passes the gateway's limiter, switches, token and role.
  A chat message goes from a websocket or a POST to support over one redis
  channel, is stored, and comes back to the hubs over another.
* Merchant writes the status of a store in its own database and that of the
  account in auth's, found by e-mail.
* All consumers share `shared/pkg/kafka/consumer.go`, which uses `ReadMessage` of a
  consumer group: the offset is committed *before* the handler runs, and an error
  of the handler is passed over. Handling is at most once; duplicates come from
  the producers.

`PROJECT.json` lists every component with its sources, and every hazard with the
line where it bites and the properties that cover it.

## 2. Modules

    PaymentRows ── Bank ── Ledger ── LedgerProofs        (Ledger implements Bank)
                      └─── Wallets ── Pods, History ┐
                               Paise ── Deposits ───┴─ Money ── MoneyProofs; MCMoney
    Provisioning ── ProvisioningProofs
    RewardRules ── Rewards ── RewardsParts ── RewardsProofs; MCRewards
    AuthRows ── Sessions; Outcomes, Codes, Accounts ── IdentityProofs; MCIdentity
    MerchantRows ── Merchants ── MerchantsProofs; MCMerchants
    NotificationRows ── Notification; Chat, Gateway, Support ── DeliveryProofs; MCDelivery
    SetSums: lemmas about sums over finite sets, for LedgerProofs and MoneyProofs

Each `MC<Module>` gives the constants of a module their values, and composes the
modules of one service that share one configuration. Where such modules share no
state that both write (`Money`, `RewardsParts`, `MCIdentity`, `MCMerchants`,
`MCDelivery`), a variable `part` or `line` says which of them a behaviour is of:
the interleavings of unrelated parts are no new behaviours. Operators that a
comment calls *not of the code* or *a variant* are plausible wrong versions of
the definition that follows them. They are no part of any specification; one
put in the place of its definition must break the property it is listed with
in `PROJECT.json`. Variables a comment says are "remembered" for the properties are
history variables: no guard reads them.

### Payment

**PaymentRows** - the schema's rows and the requests. A request is what a use
case holds once it has resolved its accounts, so that the guards `amount > 0`,
`from # to`, `key # ""` are in the set of requests. The unique constraint
`(idempotency_key, from_account_id)` is `KeyTaken`. One assumption is worth
naming: nobody spends the external account under a key that Razorpay will use as
the id of an order.

**Bank** - the abstract promise: a transfer, or the confirmation of an order, happens at
once or not at all, in a state that allows it. `ConfirmPayment` credits the
wallet and leaves the balance column of the external account alone, as the code
does, although the transaction it records names that account as the sender.

**Ledger** - the same one SQL statement at a time. `pc` is the next statement of
each handler; `work` holds the uncommitted writes; locks are not a variable but
follow from `pc` (`Holds`, `Wants`), since PostgreSQL keeps a row lock to the end
of the transaction. Statement by statement: `Lookup` (transfer_usecase.go:109,
withdrawal_usecase.go:65), `TakeFirst`/`TakeSecond` (ledger_repo.go:35-55),
`CheckFunds` (:57), `Insert` (:64), `Journal` (:80-97), `Balances` (:99-105),
`Commit` (:107); `MarkPaid`, `Credit`, then `Insert`, `Journal`, `Commit` again
for `ConfirmPayment` (deposits_repo.go:45-119). Lock modes are those of
PostgreSQL: `FOR UPDATE`, the `NO KEY UPDATE` of an `UPDATE`, and the `KEY SHARE`
of a foreign-key check, which is what makes a confirmation and a withdrawal able
to deadlock. Faults: a statement fails or the process dies (`Fault`), the
commit's acknowledgement is lost (`CommitUnacknowledged`), the error of the
look-up is dropped (`LookupErrorIgnored`, withdrawal only), the deadlock detector
picks a victim (`DeadlockAbort`); a client may repeat what failed (`Retry`).

**Wallets** - who owns which account. **Pods** - `podUsecase`: every read and
every write is a step; the transfer itself is one step of Bank. A pod id is never
used twice. An update writes back every column as it was read, so that of two
racing updates one is lost, which is what the code does and no document forbids.

**History** - categories, the transfers filed under them (category read, then the
transfer, each a step; `created_at` is the start of the transaction, so that rows
may commit out of its order, and two may have the same), the paged list of a range of dates
with its two statements and its look-ups (rows of one instant come in any order, chosen
for each page anew, since the query orders by `created_at` alone),
and both analytics as functions of the tables, over every range of dates.

**Paise** - the conversions `int(rupees * 100)` and `float64(paise) / 100`
exactly as IEEE 754 rounds them, in integers that TLC's 32 bits can hold.
**Deposits** - initiate, order at Razorpay, row, answer, capture in the checkout,
report, confirmation. No route receives a webhook (the comment in
`deposite_usecases.go:91` speaks of one), so a client's report is the only way a
payment becomes known.

### Rewards

**RewardRules** - the administration of the rules, under the constraints of the
table, and `CalculateReward` with its clamp, cap and integer division.
**Rewards** - consumers, replays, an administrator and the payment client, which
may pay, refuse, or pay and lose its answer. The client in the repository is a fake that
always succeeds; the others are what its interface allows. **RewardsParts** sets the
administration of any number of rules beside the payouts under one.

### Auth

**Provisioning** - Register, outbox publishers, Kafka, consumers and
`CreateWallet`. A user is named by the request that created it; a partition by
the consumer that reads it. `ReadMessage` takes the copy off the partition
before the handler begins; `HandlerFails` and `ReadFails` are the two ways of the
shared consumer to go on: the first drops an event and reads the next, the second
ends the loop while the process lives on, until `RestartConsumer`.

**Outcomes** - the classes of errors a use case tells apart. **AuthRows** - users,
staff, PINs and refresh tokens as rows and the queries on them. **Sessions** -
Login, RefreshToken, Logout, LogoutAll, ChangePassword, ResetPassword, the PIN and
what administrators do to an account, one statement or redis command at a time. The two halves of
raising a token version run in parallel, as `parallelrunners` runs them.

**Codes** - the two kinds of mailed code over four redis keys: code, counter,
cool-down, verified. Each key expires for itself; the lives of code and counter are tied as
their TTLs tie them (`Outlived`). **Accounts** - users, staff, roles, permissions and the
pairs between them; creation writes the row, then the role.

### Merchant

**MerchantRows**, **Merchants** - registration, documents, reviews and status of
stores with the account in auth; plans, subscriptions and the catalogue, seeded on
first use with its errors dropped; orders paid at Razorpay; campaigns counted, then
inserted. A call is a sequence of its statements; what is one SQL transaction is one
step.

### Notification, chat, gateway, support

**NotificationRows**, **Notification** - `HandleEvent` from the committed offset
to the marked row: insert (a duplicate ends it), preference, devices, one push at a
time, switching off refused tokens by row id, mark. Phones register, change
tokens and are switched off meanwhile. `topic` counts the copies of an event.
**Chat** - the map of one hub per gateway, the session keys, the channel to support and
the one back, the table of messages. **Gateway** - the limiter, the switches of every
module a path passes in the order of registration, token, role and proxy; `Paths` and
`Modules` are the routes of `routes.go` as far as the switches tell them apart. A reply
to the limiter's INCR may be lost with the counter raised or not; go-redis then sends
the command again, up to `MaxRetries` times (the default, which the gateway keeps), or
reports an error and the request passes uncounted or counted. A counter raised to one by a
command whose reply was lost never gets its EXPIRE, because the next reply says two.
**Support** - complaints, reports and feedback, their pages, and the cut of a rating to
the width of its column.

## 3. Runs

| Run | Question | Instance and bounds |
|---|---|---|
| `ledger` | Do the books stay right, whatever interleaves and fails, and is the ledger the bank? | three handlers, two wallets and the external account *between* them in the order of ids (so that either wallet can lock it first or second), five requests of which several share a key, two orders, two faults |
| `ledger_live` | Is every request answered? | the same with three requests and one order, no fault; deadlocks do occur |
| `money` | Do pods, lists, analytics and deposits keep to the books? | pods: three handlers, two users, two pods, every job; history: three transfers, two categories (one may be called "uncategorized"), a reader with pages of one, of the whole list or of one instant, two calls about categories (one made, then renamed or deleted, or two made); deposits: an amount two conversions change twice, one they leave alone, one below the minimum, two losses |
| `pods_race`, `deposits_paise` | findings, see section 6 | as `money` |
| `rewards` | Is the reward what the rule in force says, is a payout paid once, final, and settled? | rules: three rows, nine rules around the bounds of validation and constraints, fourteen payments and eight rolls around every threshold, cap and rounding step; payouts: three events of two payouts, two consumers, two replays, one refusal, one fault |
| `rewards_crash` | finding | one event delivered twice, one fault |
| `provisioning` | Does each registered user get one wallet? | two of everything: calls, e-mails, handles, auth replicas, payment replicas; one fault |
| `identity` | Do sessions follow the password, are guesses bounded, has an account its role? | two overlapping calls of each kind about one user (and a member of staff), four operations, one fault, one lock or key that runs out early |
| `merchants` | Do stores, plans, documents and campaigns agree? | two overlapping calls, four altogether, two stores, a tier of two campaigns, one lost statement |
| `merchants_tier` | finding | as `merchants` |
| `delivery` | Does what is sent arrive, once, and is what is refused refused rightly? | two of three events (of one person, of two) or one event twice, two consumers, two phones, three tokens; three connections of a user, two support replicas, two messages; two requests at a time, three in all, a limit of two, two switches; three rows and a reader; one fault of each kind |

Why these bounds are enough to be interesting. Three handlers are the fewest
with a cycle of three waiters and with a third party between two racers; a
check-then-act violated by a race takes two calls, and a third call tells whether the
damage lasts. Two keys and two wallets give every pair of requests that share a key,
a sender, both, or neither. The settlement account's place among the ids decides who
can deadlock with a confirmation, so it sits in the middle. Two faults in `ledger`
let a retry of a lost commit be lost again. In `provisioning` two replicas on both
sides give every duplicate, and one fault is enough to lose one event, to stop one
consumer, or to send an event twice. In `delivery` three connections of a user
let the end of the first hit the entry of the second while the third arrives; a limit
of two with three requests shows the last that passes and the first that does not. The
theorems of section 5 remove the bounds for the invariants they name.

Replicas, consumers, calls and handlers that the specifications do not tell apart are
symmetric sets, in runs of invariants and in `ledger`, whose action properties do not
tell them apart either. `identity` starts the behaviours of codes also from a state
in which a first code was sent, one of those they reach anyway.

Deadlock checking is off where clients may stop asking: a behaviour ends in a
state without successor when the operations of its bound are used up.

What each property says stands before its definition. The ones that carry the
most: `ImplementsBank` (the statement-level ledger refines the atomic one),
`ReadsStayTrue` (what a transaction read still holds when it commits),
`TransfersNeverDeadlock` (every cycle of waiters contains a confirmation and a
transfer that touches the external account, so that the comment in ledger_repo.go:35
is right about transfers), `QuietDeletesLeaveNothing` (a deposit overlapping a
deletion is the *only* way to strand money), `PagesAreComplete` (what was there when the
first page was asked for is seen, and adds up to the balance when nothing commits
meanwhile, but for rows of one instant), `CarefulPaysOnce` (which histories of replays pay once),
`PublishedIsAccountedFor` and `RegisteredGetsWallet` (the only way to lose a wallet is a
fault of the payment service while it handles the event, or a stopped consumer),
`SessionsFollowPassword` (which interleavings let a session survive a change of the
password), `GuessesBounded` and `PinLockHolds` (how many guesses races, expiry and
failures allow), `CampaignsWithinTier` and `AccountFollowsStore` (only overlapping
calls break them), `NoneForgotten` and `SentMeansTried` (what a handler that stops
leaves behind), `DueArrives` (what a connection that stays must get).

Many of these have the form "P, unless a named thing happened". The exceptions are
part of the result: each one is an interleaving or a failure the code admits, the
run reaches it, and the property says that there is no other.

## 4. Fairness

* `Ledger!FairSpec`: strong fairness of a handler's next statement, because
  PostgreSQL queues the waiters of a row and a lock that is released again and
  again is granted in the end; weak fairness of the deadlock detector. No client is
  obliged to submit or repeat anything, and no fault to happen.
* `MoneySpec`: the service serves what it received (`ServiceFairness`), and a
  client reports a captured payment until it is paid (`PersistentClient`). The latter is an
  assumption about the client, and `ReportedIsCredited` depends on it: the
  code has neither a webhook nor a sweep of open orders.
* `Rewards!Fairness`: weak fairness of a consumer's and a replay's next step.
  Nobody has to start a replay.
* `Provisioning!Spec`: the publishers' ticker and the reading consumers. No
  registration has to be made, and a stopped consumer need not be restarted.
* Identity, merchants and delivery state safety alone: their calls end within a request,
  and nothing in the code retries what a failed one left.

## 5. Proofs

The theorems hold for every value of the constants under the named assumptions
of the modules; TLC evaluates those assumptions in every run.

| Theorem | Statement | Run that checks it on an instance |
|---|---|---|
| `LedgerProofs!TypeCorrect`, `MoneyIsSafe` | `Spec => []` of `TypeOK`; of no overdraft, one charge per key, double entry, orders credited once, and `ReadsStayTrue` | `ledger` |
| `AnswersAreTrue` | what a client is told agrees with the tables | `ledger` |
| `BooksBalance` | the balance of every account but the external one is what its journal adds up to; the sum of all balances moves with the paid orders alone | `ledger` |
| `TransfersDoNotDeadlock` | every circle of waiters has a confirmation, and a transfer that touches the external account | `ledger` |
| `Isolation`, `TransfersClimb` | `LocksExclude /\ ReadsStayTrue`; `WaitsClimb`, the heart of the one above | - |
| `Refinement` | `Spec => Abstract!BankSpec` | `ledger` |
| `MoneyProofs!CheckoutsAreSafe`, `RoundingIsBounded` | credits answer captured payments, once, with the stored amount; the two conversions lose two paise at most, for every amount | `money` |
| `PodTotalsStay`, `PodTotalsStayInMoney` | whatever a user does with pods, the sum of the user's balances stays what it was | `money` |
| `DeletedPodsStay`, `QuietDeletionsLeaveNothing` | a deleted pod stays deleted, and no transfer that began later touches its account; only a deposit that overlaps a deletion strands money | `money` |
| `HistoryStaysTrue`, `HistoryStaysTrueInMoney` | a transfer is filed under its payer's category; both analytics of every range count each payment once and agree with the balance; a reader who turns all pages has missed no row that was there and began in an instant of its own | `money` |
| `RewardsProofs!EngineIsRight`, `EngineOfParts` | the reward is the largest that percentage and cap allow and is monotone, for every rule, amount and roll | `rewards` |
| `CompletedIsPaid`, `PayoutsStayFinal` | a completed payout was paid and a payment has its row; no step reopens a settled payout | `rewards` |
| `CarefulHistoriesPayOnce` | a payout is paid once in every history without replays, and in every one whose replays neither overlap nor see a fault | `rewards` |
| `ProvisioningProofs!ProvisioningTypeCorrect`, `PeopleStayUnique`, `NothingPublishedIsLost` | shape; one person per handle, wallet and e-mail; a published event is accounted for | `provisioning` |
| `IdentityProofs!SessionsTypeCorrect`, `SessionsEndWithPassword` | shape; a token outlives a change of the password only by a named interleaving or fault, and one token is replaced by no more tokens than there are calls at once | `identity` |
| `VersionsDoNotDrift` | the two stores of a token version agree unless a raise is under way, or was lost | `identity` |
| `PinLockStands` | a counter at its limit means a lock, and the wrong PINs compared are bounded by limit, racers and lost locks | `identity` |
| `CooldownsAreExplained`, `GuessingIsLimited` | whoever waits was mailed the last code, or will be; the guesses a code stands and the uses it allows are bounded | `identity` |
| `AccountsAreSound`, `RolesStay` | keys, references, why an account has no role; a protected role is there unless it was renamed | `identity` |
| `MerchantsProofs!CampaignsStayWithinTier`, `PlansStayTrue`, `StandingStaysTrue` | no more campaigns than the tier allows, a paid upgrade is honoured, documents marked verified were seen and the account follows the store, unless calls about the store overlapped or an administrator acted | `merchants` |
| `DeliveryProofs!LimitsAreKept`, `SwitchesAreKept` | a counter without an end belongs to a request about to send EXPIRE, or to a lost reply, a failed EXPIRE or a restart, and never otherwise; every place of a window goes to one request or is lost with a reply, and only what redis did not answer for passes beside; what is served was not off all the time, and what is refused met a switch that was off | `delivery` |
| `PushesAreKept`, `DevicesAreKept` | no push twice, no message forgotten but by a named failure; no live phone switched off without a reason | `delivery` |
| `ListsAreComplete` | a page reader misses no row that was there when it began; a rating stored is one of five, and the one sent if it fits | `delivery` |
| `ChatIsKept` | a pushed message is stored, in order, and a connection that stays gets what is due to it, with the named exceptions | `delivery` |

`MerchantsAreSound` (`[]MInv`), `RewardsInvariant`, `Invariance` and `DepositsInvariant`
are the invariants themselves.

What each argument adds to the properties to make them inductive:

*Ledger.* That the balance suffices at the commit follows from what was read earlier,
that this is still true from the locks, and what is committed from the statements
executed so far. The inductive invariant `IInv` is therefore the conjunction of types,
exclusion of locks (`LocksExclude`), what has been written so far (`WorkIsComplete`),
what has been read (`ReadsStayTrue`) and the four facts about committed data. A step that
commits nothing is handled once (`QuietStep`); the commit is the interesting one:
`CommitApart` shows from the locks that no other transaction has read what this one writes.
*Answers* (`AnswersInv`): a step that answers `ok`, `replayed`, `duplicate` or `noop` has
the row in front of it, and no step takes a row away. *Books* (`BooksInv`): the journal's
sums move with the rows a commit adds. *Deadlocks*: along waiting transfers the rank of
the wanted account climbs, so that in a circle of transfers alone the account of least
rank would be wanted below itself; a circle therefore has a confirmation, and the only row a
transfer can hold against one that comes after it in the circle is the external account.

*Sums.* SetSums proves that `MapThenSumSet` splits off any element, grows with its
set and moves with its summands. The library's induction theorems take an operator as a
parameter; the proof uses the well-foundedness of the numbers on a set of good subsets instead,
by a smallest bad one. `SumByGroups` adds that the sums of the groups of any labelling
add up to the sum of all. PodTotalsStay, BooksBalance and HistoryStaysTrue rest on it,
with the tables finite (`TablesAssumption`).

*Provisioning.* The inductive invariant `PInv` adds that a call past its check has its
e-mail and handle (`Drafts`), that the three keys of a user are unique and its call is
over (`UsersApart`), that whatever is on its way belongs to a user (`EventsKnown`), and
that a wallet carries its user's handle (`WalletsTrue`). The last two give the heart of
the argument: an insert refused by the unique index on the handle can only mean that
the user's own wallet is there, so that `CreateWallet` never loses a user to a collision.
`SentAccounted` extends the property to events sent but not yet marked.

*Deposits.* `DInv` follows one checkout: `Progress` says which of order and row exist
at each step of InitiateDeposit, `Payment` that the id of the order is told only after
the row is written, which is why a captured payment always has a row, `Ordered` and
`Stored` which amounts they hold. The conversions are linear integer facts.

*Pods.* `PodsInv` says whose pod a handler has read, that an id which was not handed out
has an account nobody used, and that a user's accounts keep their sum. A deletion that
meets no deposit finds the account as its check of the balance left it.

*History.* `HistoryInv` has five parts. Transfers that have begun or committed are older than
the present instant (`TimesPassed`). What a transfer
found to be its payer's category still is or is gone (`FilingStands`), so that the foreign
key at the insert does the rest. A balance is the opening one and the sums of the rows
(`BalancesFollow`); the analytics are two groupings of the same rows. And a reader
has seen every row it wanted but those placed after the page it has come to
(`ReadingsFit`): a row that commits late, wherever its time puts it, only moves others
down the list, and a deleted category takes all rows of its list at once. The page of a row
that shares its instant with no other follows from its place (`NewestByPlace`), however the
others are ordered.

*Rewards.* `RInv` adds to the table's constraints that the row a consumer works on is
its own (`ConsumersOwn`), that a replay holds a key whose payout exists or is settled
(`ReplaysSettled`) and that what was paid has a row (`RowsShown`). The engine's theorem is
arithmetic: an integer quotient is compared with the products it comes from.
`CarefulInv` is kept by the steps of a careful history alone: while nothing has
failed, a payout said to have failed has not been paid, but for the one that the only
replay is about to mark.

*Sessions.* `SessionsShape` types the tables, with the token of a call that was given one.
Beside it, `FollowInv` says which password stands behind a token and what a change of the
password still has to revoke, `RotateInv` what replaced a token, `PinInv` how
the wrong PINs compared exceed the counter by those that read it together, and
`VersionInv` which raises are still owed to which store.

*Codes.* The call that sets a cool-down stores a code next, and the one that stored the
last code mails it. Every guess of a code was counted in a life of the counter, or
before the code was stored; the history variables are the measure.

*Accounts.* `TablesFit` has keys and references, `Explained` and `Assigned` why an
account is without a role, `Reserved` that whoever deletes a role has seen its name.

*Merchants.* `MInv` types tables with their keys (`RowsFit`), says that two calls about
one store have been noticed (`OverlapsNoticed`), what a call still relies on of what it
read some statements ago (`CallFits`: the count it passed, the plan it makes a subscription from,
the documents it reviews, the status it sends on), and what the tables say of each other
(`TablesAgree`). `StepKeeps` is the argument all actions share: a step changes the
rows of one store, and a call about the same store is an overlap.

*Gateway.* `GInv` says of every request between INCR and EXPIRE that its client's counter
is positive, has no expiry and was not raised by a lost command (`WaitersOwn`): the one
that was told one is the only one, since a counter comes to be by being raised to one, once,
and only an expiring one ends. The places of a window are counted client by client
(`ClientFacts`), and what a counter can reach is bounded by arrivals and lost replies
(`ArrivalsCounted`). `WayInv` adds that a request found every switch on which it has passed, unless a read failed.

*Notification* (`NInv`): no device is registered twice, one handler works on a stored
message at a time, and a push that is due is tried or still left to it. *Support*
(`SInv`): a reader has seen what was there when it began down to the place it has
reached. *Chat* (`CInv`): an entry of the map is alive or stranded (`SocketInv`), rows on their
way are copies of stored ones, each published once (`RowsInv`), in the order one
replica heard them (`OrderInv`), and a row due to a connection is queued or written (`DueInv`).

What the proofs assume is what the modules name, and it is little: finite tables
(`TablesAssumption`; `IsFiniteSet` of the calls of Sessions and Codes), distinct ranks and
ids, names for "nobody" and "none" that name nobody, bounds that are naturals, and the
values the code fixes where they matter (a limit of `growth` campaigns other than none and
one, attempts that are not zero, ratings that are integers).

Only model-checked: all liveness (`Answered`, `ReportedIsCredited`, `FaultlessSettles`,
`RegisteredIsPublished`, `RegisteredGetsWallet`), which is out of the prover's
reach. Every invariant and action property of the passing runs is proved.

## 6. Where the code and its words differ

Checked by a run that must find the violation:

* `pods_race`: pod_usecase.go:379 checks the balance before the deletion, outside
  any transaction; a deposit in between is stranded in an account no pod names.
* `deposits_paise`: deposits_repo.go:47 presents the credit as what came in; the order was a
  paisa less, since razorpay.go:30 truncates `amount * 100`.
* `rewards_crash`: the guide (REWARD_SERVICE_IMPLEMENTATION_GUIDE.md:2300, :2351)
  promises that a pending payout completes; one whose process dies stays pending,
  as duplicates stop at the unique constraint and replays list failed ones only.
* `merchants_tier`: the migration that creates subscriptions promises five campaigns
  for Growth; campaign_usecase.go:51 compares with "Growth" and "Enterprise" while the
  column holds `growth` and `enterprise`, so that every store is held to one.

Modelled as the code has it, without a run of its own:

* ledger_repo.go:76 says a unique violation becomes `ErrIdempotencyKeyUsed` and is
  handled by the use case; `MapDBErrors` makes `ErrAlreadyExists` of it and the
  replay branch of transfer_usecase.go:140 is dead. The loser of a race gets an error;
  no money moves twice.
* `ConfirmPayment` never debits the balance of the external account, so that its column
  is not the sum of its journal (`BooksAgree` leaves it out). `FailDeposit` has no caller.
* A failed look-up of the own account shows a debit as a credit (transfer_usecase.go:448).
  Page and total are read by two statements. `uncategorized` is not a reserved name.
* The list is ordered by `created_at` alone (transactions.sql:44): of two transfers that began
  in the same microsecond at the edge of a page, one may be shown twice and the other never.
* `UpdateRule` validates nothing: what creation refuses may come to be by an update, as
  far as the table's constraints let it.
* A role named in code may be renamed. An account created by an administrator has no
  `user.registered` event, hence no wallet. Two resets with one code may both pass.
* The catalogue of plans is seeded with errors dropped, and a partial one is never
  completed. `VerifyUpgrade` takes the plan from the request, not from the order. KYC
  documents sent again set `pending_kyc` even for a suspended store.
* Every support replica stores and pushes a message it hears. `VerifyAccessToken` looks among
  users only, so that staff never opens a websocket.
* The switches of a module also stop every module registered after it at the same prefix;
  a path with `/admin/config` or `/auth/admin/login` in it is exempt, so that the
  switches named for the two never act. The gateway knows no address of notification.
* The switch `reward_routes` does not stop `GET /rewards`, which the wildcard of the
  downstream routes answers (secure_routes.go:24, registered at router.go:39, a line before);
  only a websocket, registered last, meets it.
* Registering a token held by another recipient's row, even an inactive one, fails for ever.

Seen while reading, outside what is modelled: a withdrawal's list is asked for with the
user's id in the place of the account's; no route serves `/auth/refresh` although the
gateway forwards it; the token version in redis is never read; a transfer does not
look at the PIN; no service reads `merchant.registered`; migration 000008 of
merchant drops tables that use cases still write; the admin routes of reward rules want a
header the gateway does not add.

## 7. What is not modelled

Transport, validation of formats, e-mail, S3, QR codes, JWT encoding, logging and
deployment have no state worth a model. The merchant's earnings, wallet, rewards and
dashboard have no tables left. The merchant's outbox publisher is auth's code over a topic nobody
reads; its websocket hub is the gateway's with nothing that pushes. Seeding the
settlement account repeats the get-insert-get of CreateWallet. Random draws (UUIDs, handles,
codes) are choices; a guess of a code is right or wrong. PostgreSQL, Kafka, redis and Razorpay are modelled
only by what the services rely on: READ COMMITTED with row locks, commit before
handling, single-key atomicity, channels that keep nothing, signed captures.
In Deposits the confirmation is one step, and in Pods and History the transfer is, because
`Ledger` implements `Bank`. That a pool runs out of connections while a use case holds
one and asks for another (subscription_repo.go) is not modelled. The rows of Support's tables and of
the chat come in instants of their own; that two of one instant have no order between pages
is modelled for transactions alone.

## 8. Plan

What is left, the most consequential first:

1. Proof: `RegisteredIsPublished` and the other liveness properties stay with TLC; their
   safety halves (what is not published yet is in the outbox, what is not settled is pending)
   are worth theorems.
2. An abstract delivery (an event is pushed at most once) that Notification implements.
