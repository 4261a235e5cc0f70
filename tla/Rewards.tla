------------------------------ MODULE Rewards ------------------------------
(***************************************************************************)
(* The rewards service at work: consumers of payment-completed events      *)
(* (ProcessPaymentCompletedEvent), replays of failed payouts               *)
(* (ReplayFailed) and the administration of the rules, all at once.        *)
(*                                                                         *)
(* Kafka's offset is committed when a message is read, before it is        *)
(* handled; a producer or a rebalance may deliver an event again.  The     *)
(* payment client is an interface: the fake one of the repository never    *)
(* fails, a real one may, and may then have paid or not.                   *)
(***************************************************************************)
EXTENDS RewardRules

CONSTANTS
    Events,          \* payment-completed events
    PayoutOf,        \* the (transaction_id, recipient_type) of each event
    AmountOf,        \* the payment's amount
    Consumers,       \* consumer processes
    Replayers,       \* concurrent calls of the replay endpoint
    ReplayLimit,     \* payouts a replay takes on, at most
    MaxDeliveries,   \* bound: deliveries of one event
    MaxReplays,      \* bound: calls of the replay endpoint
    MaxRefusals,     \* bound: payments the client refuses
    MaxFaults        \* bound: crashes, failed statements, lost answers

VARIABLES
    payouts,         \* reward_payouts: status and amount, by the unique key
    paid,            \* how often the payment client has paid each payout
    delivered,       \* deliveries of each event so far
    pc, event, reward,      \* each consumer: next step, event, calculated reward
    todo, current,          \* each replayer: payouts left, the one it has paid
    replays, refusals, faults

payVars == <<payouts, paid>>
consumerVars == <<delivered, pc, event, reward>>
replayVars == <<todo, current, replays>>
bounds == <<refusals, faults>>
vars == <<rules, payVars, consumerVars, replayVars, bounds>>

Keys == {PayoutOf[e] : e \in Events}
None == "none"
NoPayout == [status |-> None, amount |-> 0]

ASSUME RewardsAssumption ==
    /\ AmountOf \in [Events -> Int]
    /\ {ReplayLimit, MaxDeliveries, MaxReplays, MaxRefusals, MaxFaults} \subseteq Nat
    /\ None \notin Events \cup Keys

Init ==
    /\ RulesInit
    /\ payouts = [k \in Keys |-> NoPayout]
    /\ paid = [k \in Keys |-> 0]
    /\ delivered = [e \in Events |-> 0]
    /\ pc = [c \in Consumers |-> "idle"]
    /\ event = [c \in Consumers |-> None]
    /\ reward = [c \in Consumers |-> 0]
    /\ todo = [r \in Replayers |-> {}]
    /\ current = [r \in Replayers |-> None]
    /\ replays = 0
    /\ refusals = 0
    /\ faults = 0

Key(c) == PayoutOf[event[c]]
Goto(c, step) == pc' = [pc EXCEPT ![c] = step]

\* The handler returns, with an error or without: the consumer goes on.
Return(c) ==
    /\ pc' = [pc EXCEPT ![c] = "idle"]
    /\ event' = [event EXCEPT ![c] = None]
    /\ reward' = [reward EXCEPT ![c] = 0]

Refuse ==
    /\ refusals < MaxRefusals
    /\ refusals' = refusals + 1
    /\ UNCHANGED faults

Fail ==
    /\ faults < MaxFaults
    /\ faults' = faults + 1
    /\ UNCHANGED refusals

Execute(k) == paid' = [paid EXCEPT ![k] = @ + 1]
SetStatus(k, s) == payouts' = [payouts EXCEPT ![k].status = s]

-----------------------------------------------------------------------------
(* A consumer.                                                             *)

Deliver(c) ==
    /\ pc[c] = "idle"
    /\ \E e \in Events :
        /\ delivered[e] < MaxDeliveries
        /\ delivered' = [delivered EXCEPT ![e] = @ + 1]
        /\ event' = [event EXCEPT ![c] = e]
    /\ Goto(c, "rule")
    /\ UNCHANGED <<rules, payVars, reward, replayVars, bounds>>

\* No active rule, or no reward: the event is done with.
LoadRule(c) ==
    /\ pc[c] = "rule"
    /\ \/ /\ ActiveRules = {}
          /\ Return(c)
       \/ \E i \in ActiveRules, roll \in Rolls :
            LET amount == CalculateReward(AmountOf[event[c]], rules[i], roll) IN
            \/ amount <= 0 /\ Return(c)
            \/ /\ amount > 0
               /\ reward' = [reward EXCEPT ![c] = amount]
               /\ Goto(c, "insert")
               /\ UNCHANGED event
    /\ UNCHANGED <<rules, payVars, delivered, replayVars, bounds>>

\* Variant: the unique violation is not recognised as a duplicate.
InsertAnyway(c) ==
    /\ pc[c] = "insert"
    /\ payouts' = [payouts EXCEPT ![Key(c)] = [status |-> "pending", amount |-> reward[c]]]
    /\ Goto(c, "pay")
    /\ UNCHANGED <<rules, paid, delivered, event, reward, replayVars, bounds>>

\* UNIQUE (transaction_id, recipient_type): a duplicate is done with.
InsertPayout(c) ==
    /\ pc[c] = "insert"
    /\ \/ /\ payouts[Key(c)] # NoPayout
          /\ Return(c)
          /\ UNCHANGED payouts
       \/ /\ payouts[Key(c)] = NoPayout
          /\ payouts' = [payouts EXCEPT ![Key(c)] =
                            [status |-> "pending", amount |-> reward[c]]]
          /\ Goto(c, "pay")
          /\ UNCHANGED <<event, reward>>
    /\ UNCHANGED <<rules, paid, delivered, replayVars, bounds>>

\* ExecuteRewardPayout pays, refuses, or pays and loses its answer.
Pay(c) ==
    /\ pc[c] = "pay"
    /\ \/ Execute(Key(c)) /\ Goto(c, "complete") /\ UNCHANGED bounds
       \/ Refuse /\ Goto(c, "fail") /\ UNCHANGED paid
       \/ Fail /\ Execute(Key(c)) /\ Goto(c, "fail")
    /\ UNCHANGED <<rules, payouts, delivered, event, reward, replayVars>>

\* Variant: MarkCompleted and MarkFailed swapped.
MarkSwapped(c) ==
    /\ pc[c] \in {"complete", "fail"}
    /\ SetStatus(Key(c), IF pc[c] = "fail" THEN "completed" ELSE "failed")
    /\ Return(c)
    /\ UNCHANGED <<rules, paid, delivered, replayVars, bounds>>

\* Variant: an error of the client is returned, and nothing else.
MarkCompletedOnly(c) ==
    /\ pc[c] \in {"complete", "fail"}
    /\ IF pc[c] = "complete" THEN SetStatus(Key(c), "completed") ELSE UNCHANGED payouts
    /\ Return(c)
    /\ UNCHANGED <<rules, paid, delivered, replayVars, bounds>>

\* MarkCompleted, MarkFailed.
Mark(c) ==
    /\ pc[c] \in {"complete", "fail"}
    /\ SetStatus(Key(c), IF pc[c] = "complete" THEN "completed" ELSE "failed")
    /\ Return(c)
    /\ UNCHANGED <<rules, paid, delivered, replayVars, bounds>>

\* A statement fails, or the process dies: the event is not seen again unless
\* somebody sends it again.
ConsumerFault(c) ==
    /\ pc[c] # "idle"
    /\ Fail
    /\ Return(c)
    /\ UNCHANGED <<rules, payVars, delivered, replayVars>>

-----------------------------------------------------------------------------
(* A replay of the failed payouts.                                         *)

FailedPayouts == {k \in Keys : payouts[k].status = "failed"}

\* Variant: the listing includes what is still pending.
ReplayStartAll(r) ==
    /\ todo[r] = {} /\ current[r] = None
    /\ replays < MaxReplays
    /\ replays' = replays + 1
    /\ todo' = [todo EXCEPT ![r] = {k \in Keys : payouts[k].status \in {"failed", "pending"}}]
    /\ UNCHANGED <<rules, payVars, consumerVars, current, bounds>>

\* ListFailedPayouts, the latest ReplayLimit of them.
ReplayStart(r) ==
    /\ todo[r] = {} /\ current[r] = None
    /\ replays < MaxReplays
    /\ replays' = replays + 1
    /\ \E S \in SUBSET FailedPayouts :
        /\ Cardinality(S) <= ReplayLimit
        /\ S = FailedPayouts \/ Cardinality(S) = ReplayLimit
        /\ todo' = [todo EXCEPT ![r] = S]
    /\ UNCHANGED <<rules, payVars, consumerVars, current, bounds>>

\* The status listed is not read again before the payment, and a payout that
\* cannot be paid is left for another replay.
ReplayPay(r) ==
    /\ current[r] = None
    /\ \E k \in todo[r] :
        /\ todo' = [todo EXCEPT ![r] = @ \ {k}]
        /\ \/ Execute(k) /\ current' = [current EXCEPT ![r] = k] /\ UNCHANGED bounds
           \/ Refuse /\ UNCHANGED <<paid, current>>
           \/ Fail /\ Execute(k) /\ UNCHANGED current
    /\ UNCHANGED <<rules, payouts, consumerVars, replays>>

\* MarkCompleted, whose error ReplayFailed drops.
ReplayMark(r) ==
    /\ current[r] # None
    /\ \/ SetStatus(current[r], "completed") /\ UNCHANGED bounds
       \/ Fail /\ UNCHANGED payouts
    /\ current' = [current EXCEPT ![r] = None]
    /\ UNCHANGED <<rules, paid, consumerVars, todo, replays>>

Replaying(r) == todo[r] # {} \/ current[r] # None

ReplayCrash(r) ==
    /\ Replaying(r)
    /\ Fail
    /\ todo' = [todo EXCEPT ![r] = {}]
    /\ current' = [current EXCEPT ![r] = None]
    /\ UNCHANGED <<rules, payVars, consumerVars, replays>>

Administer == RulesNext /\ UNCHANGED <<payVars, consumerVars, replayVars, bounds>>

ConsumerStep(c) == LoadRule(c) \/ InsertPayout(c) \/ Pay(c) \/ Mark(c)
ReplayStep(r) == ReplayPay(r) \/ ReplayMark(r)

Next ==
    \/ Administer
    \/ \E c \in Consumers : Deliver(c) \/ ConsumerStep(c) \/ ConsumerFault(c)
    \/ \E r \in Replayers : ReplayStart(r) \/ ReplayStep(r) \/ ReplayCrash(r)

Spec == Init /\ [][Next]_vars

\* A process that can execute its next step does.
Fairness ==
    /\ \A c \in Consumers : WF_vars(ConsumerStep(c))
    /\ \A r \in Replayers : WF_vars(ReplayStep(r))

FairSpec == Spec /\ Fairness

-----------------------------------------------------------------------------
(* Properties.                                                             *)

\* The shape of the state; a consumer has an event exactly while it works.
RewardsTypeOK ==
    /\ RulesTypeOK
    /\ payouts \in [Keys -> [status : {None, "pending", "completed", "failed"}, amount : Nat]]
    /\ paid \in [Keys -> Nat]
    /\ delivered \in [Events -> 0..MaxDeliveries]
    /\ pc \in [Consumers -> {"idle", "rule", "insert", "pay", "complete", "fail"}]
    /\ event \in [Consumers -> Events \cup {None}]
    /\ reward \in [Consumers -> Nat]
    /\ todo \in [Replayers -> SUBSET Keys]
    /\ current \in [Replayers -> Keys \cup {None}]
    /\ \A c \in Consumers : pc[c] = "idle" <=> event[c] = None

\* A payout that is said to be completed has been paid, and nothing is paid
\* that has no row to show for it.
CompletedMeansPaid ==
    \A k \in Keys :
        /\ payouts[k].status = "completed" => paid[k] >= 1
        /\ paid[k] >= 1 => payouts[k] # NoPayout

\* A payout is never reopened, and its amount never changes: rules edited
\* later, duplicates of the event and replays leave it as it is.
PayoutsAreFinal ==
    [][\A k \in Keys :
          /\ payouts[k].status = "completed" => payouts'[k] = payouts[k]
          /\ payouts[k] # NoPayout => payouts'[k].amount = payouts[k].amount]_vars

PaidOnce == \A k \in Keys : paid[k] <= 1

\* Nobody replays; or one replay runs at a time, no process dies, no statement
\* fails and an error of the client means that it has not paid.
Careful ==
    \/ replays = 0
    \/ /\ faults = 0
       /\ \A r, s \in Replayers : Replaying(r) /\ Replaying(s) => r = s

\* A payout is paid once, however often its event is delivered to however many
\* consumers, in every history that is careful throughout.  Two replays at
\* once, or a replay after a lost answer, do pay twice.
CarefulPaysOnce == []Careful => []PaidOnce

Pending(k) == payouts[k].status = "pending"

\* Without faults every payout is settled in the end.
FaultlessSettles == [](faults = 0) => \A k \in Keys : Pending(k) ~> ~ Pending(k)

\* REWARD_SERVICE_IMPLEMENTATION_GUIDE.md:2300 "pending payout becomes
\* completed": also when the process that inserted it dies.
PendingIsSettled == \A k \in Keys : Pending(k) ~> ~ Pending(k)
=============================================================================
