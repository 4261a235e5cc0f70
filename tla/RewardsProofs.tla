--------------------------- MODULE RewardsProofs ---------------------------
(***************************************************************************)
(* The safety of Rewards for any number of rules, consumers, replays and   *)
(* deliveries.  A payout that a consumer has inserted stays pending, and   *)
(* its own, until that consumer marks it; replays only hold payouts that   *)
(* are settled.  The engine is exact for every rule the table admits.      *)
(***************************************************************************)
EXTENDS RewardsParts, TLAPS

AtWork(c) == pc[c] \in {"pay", "complete", "fail"}

ConsumersOwn ==
  /\ \A c \in Consumers : pc[c] = "insert" => reward[c] > 0
  /\ \A c \in Consumers : AtWork(c) => payouts[Key(c)].status = "pending"
  /\ \A c, d \in Consumers : AtWork(c) /\ AtWork(d) /\ Key(c) = Key(d) => c = d
  /\ \A c \in Consumers : pc[c] = "complete" => paid[Key(c)] >= 1

Settled(k) == payouts[k].status \in {"failed", "completed"}

ReplaysSettled ==
  /\ \A r \in Replayers : \A k \in todo[r] : Settled(k)
  /\ \A r \in Replayers : current[r] # None => Settled(current[r]) /\ paid[current[r]] >= 1

RowsShown ==
  /\ \A k \in Keys : payouts[k].status = None => payouts[k] = NoPayout /\ paid[k] = 0
  /\ \A k \in Keys : payouts[k].status = "completed" => paid[k] >= 1

RInv ==
  /\ RewardsTypeOK
  /\ ConsumersOwn
  /\ ReplaysSettled
  /\ RowsShown

-----------------------------------------------------------------------------
(* The administration of the rules.                                        *)

\* A row changes to one the table admits.
LEMMA RowChanges ==
  ASSUME RulesTypeOK, NEW i \in RuleIds, NEW r \in RuleShape,
         Admissible(r), rules' = [rules EXCEPT ![i] = r]
  PROVE  RulesTypeOK'
<1>1. \A j \in RuleIds : rules'[j] = IF j = i THEN r ELSE rules[j]
  BY DEF RulesTypeOK
<1> QED BY <1>1 DEF RulesTypeOK

LEMMA RulesStep ==
  ASSUME RulesTypeOK, RulesNext
  PROVE  RulesTypeOK'
<1>1. CASE CreateRule
  <2>1. PICK i \in RuleIds, r \in Inputs :
          /\ rules[i] = NoRule /\ Validated(r)
          /\ rules' = [rules EXCEPT ![i] = r]
    BY <1>1 DEF CreateRule
  <2>2. Admissible(r)
    BY <2>1 DEF Validated
  <2> QED BY <2>1, <2>2, RowChanges, InputsAssumption
<1>2. CASE UpdateRule
  BY <1>2, RowChanges, InputsAssumption DEF UpdateRule
<1>3. CASE DeactivateRule
  <2>1. PICK i \in RuleIds : rules[i] # NoRule /\ rules' = [rules EXCEPT ![i].active = FALSE]
    BY <1>3 DEF DeactivateRule
  <2> DEFINE r == [rules[i] EXCEPT !.active = FALSE]
  <2>2. rules[i] \in RuleShape /\ Admissible(rules[i])
    BY <2>1 DEF RulesTypeOK
  <2>3. r \in RuleShape /\ Admissible(r)
    BY <2>2 DEF RuleShape, Admissible
  <2> QED BY <2>1, <2>3, RowChanges
<1> QED BY <1>1, <1>2, <1>3 DEF RulesNext

-----------------------------------------------------------------------------
(* The engine.                                                             *)

LEMMA Division ==
  ASSUME NEW x \in Int
  PROVE  /\ x \div 10000 \in Int
         /\ (x \div 10000) * 10000 <= x
         /\ x < (x \div 10000 + 1) * 10000
OBVIOUS

LEMMA DivisionIsMonotone ==
  ASSUME NEW x \in Int, NEW y \in Int, x <= y
  PROVE  x \div 10000 <= y \div 10000
OBVIOUS

LEMMA ProductIsMonotone ==
  ASSUME NEW a \in Nat, NEW b \in Nat, NEW s \in Nat, NEW t \in Nat, a <= b, s <= t
  PROVE  a * s <= b * t
<1>1. a * s <= b * s
  OBVIOUS
<1>2. b * s <= b * t
  OBVIOUS
<1> QED BY <1>1, <1>2

\* The rows that may be active have the shape and the constraints of the table.
LEMMA ActiveFacts ==
  ASSUME RulesTypeOK, NEW i \in ActiveRules
  PROVE  /\ rules[i] \in RuleShape /\ rules[i].active
         /\ rules[i].min \in Nat /\ rules[i].max \in Nat /\ rules[i].cap \in Nat
         /\ rules[i].threshold \in Nat /\ rules[i].cap > 0
         /\ rules[i].min <= rules[i].max
BY DEF RulesTypeOK, ActiveRules, RuleShape, NoRule, Admissible

LEMMA ClampFacts ==
  ASSUME NEW r, r.min \in Nat, r.max \in Nat, r.min <= r.max, NEW roll \in Nat
  PROVE  /\ Clamp(roll, r) \in Nat
         /\ r.min <= Clamp(roll, r) /\ Clamp(roll, r) <= r.max
BY DEF Clamp

LEMMA EngineIsExact == RulesTypeOK => RewardIsLargest
<1> SUFFICES ASSUME RulesTypeOK, NEW i \in ActiveRules, NEW amount \in Amounts,
                    NEW roll \in Rolls, amount > 0, amount >= rules[i].threshold
             PROVE  LET r == rules[i]
                        given == CalculateReward(amount, r, roll)
                    IN /\ Covered(given, amount, r, roll)
                       /\ ~ Covered(given + 1, amount, r, roll)
                       /\ given * 10000 <= amount * r.max
                       /\ given < r.cap => (given + 1) * 10000 > amount * r.min
  BY DEF RewardIsLargest
<1> DEFINE r == rules[i]
           bps == Clamp(roll, r)
           x == amount * bps
           given == CalculateReward(amount, r, roll)
<1>1. /\ r.active /\ r.min \in Nat /\ r.max \in Nat /\ r.cap \in Nat /\ r.min <= r.max
      /\ amount \in Nat /\ roll \in Nat
  BY ActiveFacts, InputsAssumption
<1>2. bps \in Nat /\ r.min <= bps /\ bps <= r.max
  BY <1>1, ClampFacts
<1>3. x \in Int /\ amount * r.min <= x /\ x <= amount * r.max
      /\ amount * r.min \in Int /\ amount * r.max \in Int
  BY <1>1, <1>2, ProductIsMonotone
<1>4. /\ x \div 10000 \in Int /\ (x \div 10000) * 10000 <= x
      /\ x < (x \div 10000 + 1) * 10000
  BY <1>3, Division
<1>5. given = IF x \div 10000 < r.cap THEN x \div 10000 ELSE r.cap
  BY <1>1 DEF CalculateReward, Lesser, Share
<1> HIDE DEF x, bps, given
<1>6. \A n \in Int : Covered(n, amount, r, roll) <=> n <= r.cap /\ n * 10000 <= x
  BY DEF Covered, x, bps
<1>7. given \in Int /\ given <= r.cap /\ given * 10000 <= x
  BY <1>1, <1>3, <1>4, <1>5
<1>8. given + 1 > r.cap \/ (given + 1) * 10000 > x
  BY <1>1, <1>3, <1>4, <1>5
<1>9. given < r.cap => (given + 1) * 10000 > x
  BY <1>1, <1>3, <1>4, <1>5
<1> HIDE DEF r
<1> QED BY <1>1, <1>3, <1>6, <1>7, <1>8, <1>9 DEF given, r

LEMMA EngineIsMonotone == RulesTypeOK => RewardIsMonotone
<1> SUFFICES ASSUME RulesTypeOK, NEW i \in ActiveRules, NEW a \in Amounts, NEW b \in Amounts,
                    NEW s \in Rolls, NEW t \in Rolls, a <= b, s <= t
             PROVE  CalculateReward(a, rules[i], s) <= CalculateReward(b, rules[i], t)
  BY DEF RewardIsMonotone
<1> DEFINE r == rules[i]
<1>1. /\ r.active /\ r.min \in Nat /\ r.max \in Nat /\ r.cap \in Nat /\ r.min <= r.max
      /\ r.threshold \in Nat /\ a \in Int /\ b \in Int /\ s \in Nat /\ t \in Nat
  BY ActiveFacts, InputsAssumption
<1>2. /\ Clamp(s, r) \in Nat /\ Clamp(t, r) \in Nat /\ Clamp(s, r) <= Clamp(t, r)
  BY <1>1 DEF Clamp
<1> HIDE DEF r
<1>3. ASSUME b > 0 PROVE Share(b, Clamp(t, r)) \in Nat
  <2>1. b * Clamp(t, r) \in Nat
    BY <1>1, <1>2, <1>3
  <2> QED BY <2>1 DEF Share
<1>4. CASE a > 0 /\ a >= r.threshold
  <2>1. a * Clamp(s, r) \in Int /\ b * Clamp(t, r) \in Int /\ a * Clamp(s, r) <= b * Clamp(t, r)
    BY <1>1, <1>2, <1>4, ProductIsMonotone
  <2>2. Share(a, Clamp(s, r)) <= Share(b, Clamp(t, r))
    BY <2>1, DivisionIsMonotone DEF Share
  <2>3. Share(a, Clamp(s, r)) \in Int /\ Share(b, Clamp(t, r)) \in Int
    BY <2>1 DEF Share
  <2>4. CalculateReward(a, r, s) <= CalculateReward(b, r, t)
    BY <1>1, <1>4, <2>2, <2>3 DEF CalculateReward, Lesser
  <2> QED BY <2>4 DEF r
<1>5. CASE ~ (a > 0 /\ a >= r.threshold)
  <2>1. CalculateReward(a, r, s) = 0
    BY <1>5 DEF CalculateReward
  <2>2. CalculateReward(b, r, t) >= 0
    BY <1>1, <1>3 DEF CalculateReward, Lesser
  <2> QED BY <2>1, <2>2 DEF r
<1> QED BY <1>4, <1>5

-----------------------------------------------------------------------------
(* Consumers and replays.                                                  *)

\* What the actions that leave the rules alone must preserve.
WorkInv ==
  /\ payouts \in [Keys -> [status : {None, "pending", "completed", "failed"}, amount : Nat]]
  /\ paid \in [Keys -> Nat]
  /\ delivered \in [Events -> 0..MaxDeliveries]
  /\ pc \in [Consumers -> {"idle", "rule", "insert", "pay", "complete", "fail"}]
  /\ event \in [Consumers -> Events \cup {None}]
  /\ reward \in [Consumers -> Nat]
  /\ todo \in [Replayers -> SUBSET Keys]
  /\ current \in [Replayers -> Keys \cup {None}]
  /\ \A c \in Consumers : pc[c] = "idle" <=> event[c] = None
  /\ ConsumersOwn
  /\ ReplaysSettled
  /\ RowsShown

LEMMA Split == RInv <=> RulesTypeOK /\ WorkInv
BY DEF RInv, RewardsTypeOK, WorkInv

LEMMA KeyFacts ==
  ASSUME WorkInv, NEW c \in Consumers, pc[c] # "idle"
  PROVE  event[c] \in Events /\ Key(c) \in Keys /\ Key(c) # None
BY RewardsAssumption DEF WorkInv, Key, Keys

LEMMA RewardsStart == Init => RInv
<1> SUFFICES ASSUME Init PROVE RInv
  OBVIOUS
<1>1. RulesTypeOK
  BY DEF Init, RulesInit, RulesTypeOK, NoRule
<1>2. WorkInv
  BY RewardsAssumption
     DEF Init, WorkInv, ConsumersOwn, ReplaysSettled, RowsShown, NoPayout, AtWork, None
<1> QED BY <1>1, <1>2, Split

LEMMA DeliverStep ==
  ASSUME WorkInv, NEW c \in Consumers, Deliver(c)
  PROVE  WorkInv'
BY RewardsAssumption
   DEF Deliver, Goto, payVars, replayVars, WorkInv, ConsumersOwn, ReplaysSettled, RowsShown,
       Settled, AtWork, Key, None

LEMMA ReturnStep ==
  ASSUME WorkInv, NEW c \in Consumers, Return(c), UNCHANGED <<payVars, delivered, replayVars>>
  PROVE  WorkInv'
BY RewardsAssumption
   DEF Return, payVars, replayVars, WorkInv, ConsumersOwn, ReplaysSettled, RowsShown,
       Settled, AtWork, Key, None

LEMMA LoadRuleStep ==
  ASSUME WorkInv, RulesTypeOK, NEW c \in Consumers, LoadRule(c)
  PROVE  WorkInv'
<1>1. CASE Return(c)
  BY <1>1, ReturnStep DEF LoadRule
<1>2. CASE ~ Return(c)
  <2>1. PICK i \in ActiveRules, roll \in Rolls :
          /\ CalculateReward(AmountOf[event[c]], rules[i], roll) > 0
          /\ reward' = [reward EXCEPT ![c] = CalculateReward(AmountOf[event[c]], rules[i], roll)]
    BY <1>2 DEF LoadRule
  <2>2. /\ Goto(c, "insert") /\ pc[c] = "rule"
        /\ UNCHANGED <<payouts, paid, delivered, event, todo, current, replays>>
    BY <1>2 DEF LoadRule, payVars, replayVars
  <2> DEFINE amount == CalculateReward(AmountOf[event[c]], rules[i], roll)
  <2>3. amount \in Nat /\ amount > 0
    <3>1. event[c] \in Events
      BY <2>2, KeyFacts
    <3>2. AmountOf[event[c]] \in Int /\ roll \in Nat
      BY <3>1, RewardsAssumption, InputsAssumption
    <3>3. /\ rules[i].min \in Nat /\ rules[i].max \in Nat /\ rules[i].cap \in Nat
          /\ rules[i].min <= rules[i].max
      BY ActiveFacts
    <3>4. Clamp(roll, rules[i]) \in Nat
      BY <3>2, <3>3, ClampFacts
    <3>5. AmountOf[event[c]] * Clamp(roll, rules[i]) \in Int
      BY <3>2, <3>4
    <3>6. Share(AmountOf[event[c]], Clamp(roll, rules[i])) \in Int
      BY <3>5, Division DEF Share
    <3>7. amount \in Int
      BY <3>3, <3>6 DEF CalculateReward, Lesser
    <3> QED BY <2>1, <3>7
  <2> HIDE DEF amount
  <2>4. reward' = [reward EXCEPT ![c] = amount]
    BY <2>1 DEF amount
  <2> QED
    BY <2>2, <2>3, <2>4
       DEF Goto, WorkInv, ConsumersOwn, ReplaysSettled, RowsShown, Settled, AtWork, Key
<1> QED BY <1>1, <1>2

LEMMA InsertStep ==
  ASSUME WorkInv, NEW c \in Consumers, InsertPayout(c)
  PROVE  WorkInv'
<1>1. CASE payouts[Key(c)] # NoPayout
  BY <1>1, ReturnStep DEF InsertPayout, payVars
<1>2. CASE payouts[Key(c)] = NoPayout
  <2>1. /\ pc[c] = "insert" /\ Goto(c, "pay")
        /\ payouts' = [payouts EXCEPT ![Key(c)] = [status |-> "pending", amount |-> reward[c]]]
        /\ UNCHANGED <<paid, delivered, event, reward, todo, current, replays>>
    BY <1>2 DEF InsertPayout, replayVars
  <2>2. event[c] \in Events /\ Key(c) \in Keys /\ Key(c) # None
    BY <2>1, KeyFacts
  <2>3. payouts[Key(c)].status = "none"
    BY <1>2 DEF NoPayout, None
  <2>4. \A d \in Consumers : AtWork(d) => Key(d) # Key(c)
    BY <2>3 DEF WorkInv, ConsumersOwn
  <2>5. /\ \A r \in Replayers : Key(c) \notin todo[r]
        /\ \A r \in Replayers : current[r] # Key(c)
    BY <2>2, <2>3 DEF WorkInv, ReplaysSettled, Settled
  <2> QED
    BY <2>1, <2>2, <2>3, <2>4, <2>5
       DEF Goto, WorkInv, ConsumersOwn, ReplaysSettled, RowsShown, Settled, AtWork, Key, None
<1> QED BY <1>1, <1>2

LEMMA PayStep ==
  ASSUME WorkInv, NEW c \in Consumers, Pay(c)
  PROVE  WorkInv'
<1>1. /\ pc[c] = "pay"
      /\ UNCHANGED <<payouts, delivered, event, reward, todo, current, replays>>
  BY DEF Pay, replayVars
<1>2. Key(c) \in Keys /\ Key(c) # None
  BY <1>1, KeyFacts
<1>3. \/ Execute(Key(c)) /\ Goto(c, "complete")
      \/ Execute(Key(c)) /\ Goto(c, "fail")
      \/ UNCHANGED paid /\ Goto(c, "fail")
  BY DEF Pay
<1>4. CASE Execute(Key(c)) /\ Goto(c, "complete")
  BY <1>1, <1>2, <1>4
     DEF Execute, Goto, WorkInv, ConsumersOwn, ReplaysSettled, RowsShown, Settled, AtWork, Key, None
<1>5. CASE Execute(Key(c)) /\ Goto(c, "fail")
  BY <1>1, <1>2, <1>5
     DEF Execute, Goto, WorkInv, ConsumersOwn, ReplaysSettled, RowsShown, Settled, AtWork, Key, None
<1>6. CASE UNCHANGED paid /\ Goto(c, "fail")
  BY <1>1, <1>2, <1>6
     DEF Goto, WorkInv, ConsumersOwn, ReplaysSettled, RowsShown, Settled, AtWork, Key
<1> QED BY <1>3, <1>4, <1>5, <1>6

LEMMA MarkStep ==
  ASSUME WorkInv, NEW c \in Consumers, Mark(c)
  PROVE  WorkInv'
<1>1. /\ AtWork(c) /\ pc[c] # "idle" /\ pc[c] \in {"complete", "fail"} /\ Return(c)
      /\ SetStatus(Key(c), IF pc[c] = "complete" THEN "completed" ELSE "failed")
      /\ UNCHANGED <<paid, delivered, todo, current, replays>>
  BY DEF Mark, AtWork, replayVars
<1>2. Key(c) \in Keys /\ Key(c) # None
  BY <1>1, KeyFacts
<1>3. \A d \in Consumers : AtWork(d) /\ d # c => Key(d) # Key(c)
  BY <1>1 DEF WorkInv, ConsumersOwn
<1> QED
  BY <1>1, <1>2, <1>3
     DEF SetStatus, Return, WorkInv, ConsumersOwn, ReplaysSettled, RowsShown, Settled, AtWork,
         Key, None

LEMMA ReplaySteps ==
  ASSUME WorkInv, NEW r \in Replayers,
         ReplayStart(r) \/ ReplayPay(r) \/ ReplayMark(r) \/ ReplayCrash(r)
  PROVE  WorkInv'
<1>1. CASE ReplayStart(r)
  BY <1>1
     DEF ReplayStart, FailedPayouts, payVars, consumerVars, WorkInv, ConsumersOwn,
         ReplaysSettled, RowsShown, Settled, AtWork, Key
<1>2. CASE ReplayPay(r)
  <2>1. PICK k \in todo[r] :
          /\ todo' = [todo EXCEPT ![r] = @ \ {k}]
          /\ \/ Execute(k) /\ current' = [current EXCEPT ![r] = k]
             \/ UNCHANGED <<paid, current>>
             \/ Execute(k) /\ UNCHANGED current
    BY <1>2 DEF ReplayPay
  <2>2. UNCHANGED <<payouts, delivered, pc, event, reward, replays>>
    BY <1>2 DEF ReplayPay, consumerVars
  <2>3. k \in Keys /\ Settled(k)
    BY DEF WorkInv, ReplaysSettled
  <2>4. \A s \in Replayers : todo'[s] \subseteq todo[s]
    BY <2>1 DEF WorkInv
  <2>5. /\ paid' \in [Keys -> Nat] /\ \A j \in Keys : paid'[j] >= paid[j]
        /\ \A j \in Keys : paid'[j] = paid[j] \/ Settled(j)
    <3>1. paid \in [Keys -> Nat]
      BY DEF WorkInv
    <3>2. CASE Execute(k)
      BY <2>3, <3>1, <3>2 DEF Execute
    <3>3. CASE UNCHANGED paid
      BY <3>1, <3>3
    <3> QED BY <2>1, <3>2, <3>3
  <2>6. /\ current' \in [Replayers -> Keys \cup {None}]
        /\ \A s \in Replayers :
             current'[s] = current[s] \/ (Settled(current'[s]) /\ paid'[current'[s]] >= 1)
    BY <2>1, <2>3 DEF Execute, WorkInv
  <2>7. todo' \in [Replayers -> SUBSET Keys]
    BY <2>1 DEF WorkInv
  <2>8. ConsumersOwn'
    BY <2>2, <2>5, KeyFacts DEF WorkInv, ConsumersOwn, AtWork, Key
  <2>9. ReplaysSettled'
    BY <2>2, <2>4, <2>5, <2>6 DEF WorkInv, ReplaysSettled, Settled
  <2>10. RowsShown'
    BY <2>2, <2>5 DEF WorkInv, RowsShown, Settled, None
  <2> QED BY <2>2, <2>5, <2>6, <2>7, <2>8, <2>9, <2>10 DEF WorkInv
<1>3. CASE ReplayMark(r)
  <2>1. /\ current[r] # None /\ current' = [current EXCEPT ![r] = None]
        /\ SetStatus(current[r], "completed") \/ UNCHANGED payouts
        /\ UNCHANGED <<paid, delivered, pc, event, reward, todo, replays>>
    BY <1>3 DEF ReplayMark, consumerVars
  <2>2. current[r] \in Keys /\ Settled(current[r]) /\ paid[current[r]] >= 1
    BY <2>1 DEF WorkInv, ReplaysSettled
  <2>3. \A c \in Consumers : AtWork(c) => Key(c) # current[r]
    BY <2>2 DEF WorkInv, ConsumersOwn, Settled
  <2>4. /\ payouts' \in [Keys -> [status : {None, "pending", "completed", "failed"}, amount : Nat]]
        /\ \A j \in Keys : j # current[r] => payouts'[j] = payouts[j]
        /\ payouts'[current[r]].status \in {"failed", "completed"}
        /\ \A j \in Keys : Settled(j) => Settled(j)'
    <3>1. payouts \in [Keys -> [status : {None, "pending", "completed", "failed"}, amount : Nat]]
      BY DEF WorkInv
    <3>2. payouts' = [payouts EXCEPT ![current[r]].status = "completed"] \/ UNCHANGED payouts
      BY <2>1 DEF SetStatus
    <3>3. CASE UNCHANGED payouts
      BY <2>2, <3>1, <3>3 DEF Settled
    <3>4. CASE payouts' = [payouts EXCEPT ![current[r]].status = "completed"]
      BY <2>2, <3>1, <3>4 DEF Settled
    <3> QED BY <3>2, <3>3, <3>4
  <2>5. current' \in [Replayers -> Keys \cup {None}]
    BY <2>1 DEF WorkInv
  <2>6. ConsumersOwn'
    BY <2>1, <2>3, <2>4, KeyFacts DEF WorkInv, ConsumersOwn, AtWork, Key
  <2>7. ReplaysSettled'
    BY <2>1, <2>4 DEF WorkInv, ReplaysSettled
  <2>8. RowsShown'
    BY <2>1, <2>2, <2>4 DEF WorkInv, RowsShown, None
  <2> QED BY <2>1, <2>4, <2>5, <2>6, <2>7, <2>8 DEF WorkInv
<1>4. CASE ReplayCrash(r)
  BY <1>4
     DEF ReplayCrash, payVars, consumerVars, WorkInv, ConsumersOwn,
         ReplaysSettled, RowsShown, Settled, AtWork, Key
<1> QED BY <1>1, <1>2, <1>3, <1>4

LEMMA RewardsStep == RInv /\ [Next]_vars => RInv'
<1> SUFFICES ASSUME RInv, [Next]_vars PROVE RInv'
  OBVIOUS
<1>1. RulesTypeOK /\ WorkInv
  BY Split
<1>2. CASE UNCHANGED vars
  BY <1>2
     DEF vars, payVars, consumerVars, replayVars, bounds, RInv, RewardsTypeOK, RulesTypeOK,
         ConsumersOwn, ReplaysSettled, RowsShown, Settled, AtWork, Key
<1>3. CASE Administer
  <2>1. RulesTypeOK'
    BY <1>1, <1>3, RulesStep DEF Administer
  <2>2. WorkInv'
    BY <1>1, <1>3
       DEF Administer, payVars, consumerVars, replayVars, WorkInv, ConsumersOwn,
           ReplaysSettled, RowsShown, Settled, AtWork, Key
  <2> QED BY <2>1, <2>2 DEF RInv, RewardsTypeOK, WorkInv
<1>4. CASE Next /\ ~ Administer
  <2>1. UNCHANGED rules
    BY <1>4
       DEF Next, Deliver, ConsumerStep, LoadRule, InsertPayout, Pay, Mark, ConsumerFault,
           ReplayStart, ReplayStep, ReplayPay, ReplayMark, ReplayCrash
  <2>2. RulesTypeOK'
    BY <1>1, <2>1 DEF RulesTypeOK
  <2>3. ASSUME NEW c \in Consumers, ConsumerFault(c) PROVE WorkInv'
    BY <1>1, <2>3, ReturnStep DEF ConsumerFault
  <2>4. WorkInv'
    BY <1>1, <1>4, <2>3, DeliverStep, LoadRuleStep, InsertStep, PayStep, MarkStep, ReplaySteps
       DEF Next, ConsumerStep, ReplayStep
  <2> QED BY <2>2, <2>4 DEF RInv, RewardsTypeOK, WorkInv
<1> QED BY <1>2, <1>3, <1>4

-----------------------------------------------------------------------------
(* What a reader should know of.                                           *)

\* The inductive invariant of rules, consumers and payouts holds at all times.
THEOREM RewardsInvariant == Spec => []RInv
BY RewardsStart, RewardsStep, PTL DEF Spec

\* CalculateReward: for every rule that can become active, every amount and
\* every roll the reward is the largest one that percentage and cap allow,
\* and no payment or roll is rewarded less than a smaller one.
THEOREM EngineIsRight == Spec => [](RewardIsLargest /\ RewardIsMonotone)
<1>1. RInv => RewardIsLargest /\ RewardIsMonotone
  BY EngineIsExact, EngineIsMonotone DEF RInv, RewardsTypeOK
<1> QED BY <1>1, RewardsInvariant, PTL

\* The same of the rules by themselves, as they are created, replaced and
\* switched off without regard to the payouts.
THEOREM EngineOfParts == RewardsSpec => []EngineHolds
<1>1. RewardsInit => Init
  BY DEF RewardsInit
<1>2. [RewardsNext]_<<vars, part>> => [Next]_vars
  BY DEF RewardsNext, Next
<1>3. RewardIsLargest /\ RewardIsMonotone => EngineHolds
  BY DEF EngineHolds
<1> QED BY <1>1, <1>2, <1>3, EngineIsRight, PTL DEF RewardsSpec, Spec

\* InsertPayout, MarkCompleted, MarkFailed: a settled payout is never reopened
\* or set to another amount, by duplicates, replays or edited rules.
THEOREM PayoutsStayFinal == Spec => PayoutsAreFinal
<1> DEFINE Final ==
      \A k \in Keys :
        /\ payouts[k].status = "completed" => payouts'[k] = payouts[k]
        /\ payouts[k] # NoPayout => payouts'[k].amount = payouts[k].amount
<1>1. ASSUME RInv, [Next]_vars PROVE [Final]_vars
  <2>1. WorkInv
    BY <1>1, Split
  <2>2. CASE UNCHANGED payouts
    BY <2>2
  <2>3. ASSUME NEW c \in Consumers, InsertPayout(c), payouts' # payouts PROVE Final
    <3>1. /\ payouts[Key(c)] = NoPayout /\ pc[c] = "insert"
          /\ payouts' = [payouts EXCEPT ![Key(c)] = [status |-> "pending", amount |-> reward[c]]]
      BY <2>3 DEF InsertPayout
    <3>2. payouts \in [Keys -> [status : {None, "pending", "completed", "failed"}, amount : Nat]]
      BY <2>1 DEF WorkInv
    <3>3. NoPayout.status # "completed"
      BY DEF NoPayout, None
    <3>4. \A k \in Keys : k # Key(c) => payouts'[k] = payouts[k]
      BY <3>1, <3>2
    <3> QED BY <3>1, <3>3, <3>4
  <2>4. ASSUME NEW c \in Consumers, Mark(c) PROVE Final
    <3>1. payouts[Key(c)].status = "pending" /\ Key(c) \in Keys
      BY <2>1, <2>4, KeyFacts DEF Mark, WorkInv, ConsumersOwn, AtWork
    <3>2. PICK s : payouts' = [payouts EXCEPT ![Key(c)].status = s]
      BY <2>4 DEF Mark, SetStatus
    <3>3. payouts \in [Keys -> [status : {None, "pending", "completed", "failed"}, amount : Nat]]
      BY <2>1 DEF WorkInv
    <3>4. \A k \in Keys : k # Key(c) => payouts'[k] = payouts[k]
      BY <3>2, <3>3
    <3>5. payouts'[Key(c)].amount = payouts[Key(c)].amount
      BY <3>1, <3>2, <3>3
    <3> QED BY <3>1, <3>4, <3>5
  <2>5. ASSUME NEW r \in Replayers, ReplayMark(r), payouts' # payouts PROVE Final
    <3>1. payouts' = [payouts EXCEPT ![current[r]].status = "completed"]
      BY <2>5 DEF ReplayMark, SetStatus
    <3>2. payouts \in [Keys -> [status : {None, "pending", "completed", "failed"}, amount : Nat]]
      BY <2>1 DEF WorkInv
    <3>3. \A k \in Keys :
            IF k = current[r] THEN payouts'[k] = [payouts[k] EXCEPT !.status = "completed"]
                              ELSE payouts'[k] = payouts[k]
      BY <3>1, <3>2
    <3>4. ASSUME NEW k \in Keys
          PROVE  /\ payouts[k].status = "completed"
                      => [payouts[k] EXCEPT !.status = "completed"] = payouts[k]
                 /\ [payouts[k] EXCEPT !.status = "completed"].amount = payouts[k].amount
      BY <3>2
    <3> QED BY <3>3, <3>4
  <2>6. payouts' # payouts =>
          \/ \E c \in Consumers : InsertPayout(c) \/ Mark(c)
          \/ \E r \in Replayers : ReplayMark(r)
    BY <1>1
       DEF vars, payVars, Next, Administer, Deliver, ConsumerStep, LoadRule, Pay, ConsumerFault,
           ReplayStart, ReplayStep, ReplayPay, ReplayCrash
  <2> QED BY <2>2, <2>3, <2>4, <2>5, <2>6
<1> QED BY <1>1, RewardsInvariant, PTL DEF Spec, PayoutsAreFinal

\* MarkCompleted: a payout that is said to be completed was paid, and a
\* payment has its row, whatever fails, is delivered again or replayed.
THEOREM CompletedIsPaid == Spec => []CompletedMeansPaid
<1>1. RInv => CompletedMeansPaid
  BY DEF RInv, RewardsTypeOK, RowsShown, CompletedMeansPaid, NoPayout, None
<1> QED BY <1>1, RewardsInvariant, PTL

-----------------------------------------------------------------------------
(* Histories that are careful throughout pay once.                         *)

\* As long as the history is careful: what is to be paid has not been paid,
\* and, while nothing has failed, neither has what is said to have failed,
\* but for the payout that a replay is about to mark.
CarefulInv ==
  /\ replays \in Nat /\ faults \in Nat
  /\ PaidOnce
  /\ \A c \in Consumers : pc[c] = "pay" => paid[Key(c)] = 0
  /\ replays = 0 => \A r \in Replayers : ~ Replaying(r)
  /\ faults = 0 =>
       /\ \A c \in Consumers : pc[c] = "fail" => paid[Key(c)] = 0
       /\ \A k \in Keys : payouts[k].status = "failed" =>
            paid[k] = 0 \/ \E r \in Replayers : current[r] = k
       /\ \A r \in Replayers :
            current[r] \notin todo[r] /\ \A k \in todo[r] : payouts[k].status = "failed"

LEMMA CarefulStart == Init => CarefulInv
BY DEF Init, CarefulInv, PaidOnce, Replaying

\* A replay that is under way is the only one, and nothing has failed.
LEMMA CarefulReplay ==
  ASSUME CarefulInv, Careful, NEW r \in Replayers, Replaying(r)
  PROVE  /\ replays # 0 /\ faults = 0
         /\ \A s \in Replayers \ {r} : todo[s] = {} /\ current[s] = None
BY DEF CarefulInv, Careful, Replaying

\* The consumers' steps do not depend on what the replays do.
LEMMA CarefulConsumer ==
  ASSUME WorkInv, CarefulInv, NEW c \in Consumers,
         Deliver(c) \/ ConsumerStep(c) \/ ConsumerFault(c)
  PROVE  CarefulInv'
<1>1. UNCHANGED <<todo, current, replays>> /\ replays \in Nat /\ faults \in Nat
  BY DEF Deliver, ConsumerStep, LoadRule, InsertPayout, Pay, Mark, ConsumerFault, replayVars,
         CarefulInv
<1>2. ASSUME Return(c), UNCHANGED <<payouts, paid>>, UNCHANGED faults \/ Fail
      PROVE  CarefulInv'
  BY <1>1, <1>2 DEF Return, Fail, WorkInv, CarefulInv, PaidOnce, Replaying, Key
<1>3. CASE Deliver(c)
  BY <1>1, <1>3
     DEF Deliver, Goto, payVars, bounds, WorkInv, CarefulInv, PaidOnce, Replaying, Key
<1>4. CASE LoadRule(c)
  <2>1. UNCHANGED <<payouts, paid, faults>>
    BY <1>4 DEF LoadRule, payVars, bounds
  <2>2. CASE Return(c)
    BY <1>2, <2>1, <2>2
  <2>3. CASE ~ Return(c)
    <3>1. Goto(c, "insert") /\ UNCHANGED event
      BY <1>4, <2>3 DEF LoadRule
    <3> QED
      BY <1>1, <2>1, <3>1 DEF Goto, WorkInv, CarefulInv, PaidOnce, Replaying, Key
  <2> QED BY <2>2, <2>3
<1>5. CASE InsertPayout(c)
  <2>1. pc[c] = "insert" /\ UNCHANGED <<paid, faults>>
    BY <1>5 DEF InsertPayout, bounds
  <2>2. CASE payouts[Key(c)] # NoPayout
    BY <1>2, <1>5, <2>1, <2>2 DEF InsertPayout
  <2>3. CASE payouts[Key(c)] = NoPayout
    <3>1. /\ Goto(c, "pay") /\ UNCHANGED event
          /\ payouts' = [payouts EXCEPT ![Key(c)] = [status |-> "pending", amount |-> reward[c]]]
      BY <1>5, <2>3 DEF InsertPayout
    <3>2. Key(c) \in Keys /\ payouts[Key(c)].status = "none"
      BY <2>1, <2>3, KeyFacts DEF NoPayout, None
    <3>3. paid[Key(c)] = 0 /\ \A r \in Replayers : Key(c) \notin todo[r]
      BY <3>2 DEF WorkInv, RowsShown, ReplaysSettled, Settled, None
    <3> QED
      BY <1>1, <2>1, <3>1, <3>2, <3>3 DEF Goto, WorkInv, CarefulInv, PaidOnce, Replaying, Key
  <2> QED BY <2>2, <2>3
<1>6. CASE Pay(c)
  <2>1. /\ pc[c] = "pay" /\ UNCHANGED <<payouts, event>>
        /\ \/ Execute(Key(c)) /\ Goto(c, "complete") /\ UNCHANGED faults
           \/ UNCHANGED <<paid, faults>> /\ Goto(c, "fail")
           \/ Fail /\ Execute(Key(c)) /\ Goto(c, "fail")
    BY <1>6 DEF Pay, Refuse, bounds
  <2>2. Key(c) \in Keys /\ payouts[Key(c)].status = "pending" /\ paid[Key(c)] = 0
    BY <2>1, KeyFacts DEF WorkInv, ConsumersOwn, AtWork, CarefulInv
  <2>3. \A d \in Consumers : d # c /\ AtWork(d) => Key(d) # Key(c)
    BY <2>1 DEF WorkInv, ConsumersOwn, AtWork
  <2>4. CASE UNCHANGED <<paid, faults>> /\ Goto(c, "fail")
    BY <1>1, <2>1, <2>2, <2>4 DEF Goto, WorkInv, CarefulInv, PaidOnce, Replaying, Key
  <2>5. CASE Execute(Key(c)) /\ Goto(c, "complete") /\ UNCHANGED faults
    BY <1>1, <2>1, <2>2, <2>3, <2>5
       DEF Execute, Goto, AtWork, WorkInv, CarefulInv, PaidOnce, Replaying, Key
  <2>6. CASE Fail /\ Execute(Key(c)) /\ Goto(c, "fail")
    BY <1>1, <2>1, <2>2, <2>3, <2>6
       DEF Fail, Execute, Goto, AtWork, WorkInv, CarefulInv, PaidOnce, Replaying, Key
  <2> QED BY <2>1, <2>4, <2>5, <2>6
<1>7. CASE Mark(c)
  <2>1. /\ pc[c] \in {"complete", "fail"} /\ Return(c) /\ UNCHANGED <<paid, faults>>
        /\ SetStatus(Key(c), IF pc[c] = "complete" THEN "completed" ELSE "failed")
    BY <1>7 DEF Mark, bounds
  <2>2. Key(c) \in Keys /\ payouts[Key(c)].status = "pending"
    BY <2>1, KeyFacts DEF WorkInv, ConsumersOwn, AtWork
  <2>3. \A r \in Replayers : Key(c) \notin todo[r]
    BY <2>2 DEF WorkInv, ReplaysSettled, Settled
  <2>4. pc[c] = "fail" /\ faults = 0 => paid[Key(c)] = 0
    BY DEF CarefulInv
  <2> QED
    BY <1>1, <2>1, <2>2, <2>3, <2>4
       DEF Return, SetStatus, WorkInv, CarefulInv, PaidOnce, Replaying, Key
<1>8. CASE ConsumerFault(c)
  BY <1>2, <1>8 DEF ConsumerFault, payVars
<1> QED BY <1>3, <1>4, <1>5, <1>6, <1>7, <1>8 DEF ConsumerStep

\* A replay neither meets another one nor fails, so that what it pays has not
\* been paid.
LEMMA CarefulReplayer ==
  ASSUME WorkInv, CarefulInv, Careful, Careful', NEW r \in Replayers,
         ReplayStart(r) \/ ReplayStep(r) \/ ReplayCrash(r)
  PROVE  CarefulInv'
<1>1. UNCHANGED <<pc, event>> /\ replays \in Nat /\ faults \in Nat
  BY DEF ReplayStart, ReplayStep, ReplayPay, ReplayMark, ReplayCrash, consumerVars, CarefulInv
<1>2. ASSUME Fail, UNCHANGED replays, Replaying(r) PROVE FALSE
  BY <1>1, <1>2, CarefulReplay DEF Fail, Careful
<1>3. CASE ReplayStart(r)
  <2>1. PICK S \in SUBSET FailedPayouts : todo' = [todo EXCEPT ![r] = S]
    BY <1>3 DEF ReplayStart
  <2>2. /\ current[r] = None /\ replays' = replays + 1
        /\ UNCHANGED <<payouts, paid, current, faults>>
    BY <1>3 DEF ReplayStart, payVars, bounds
  <2>3. S \subseteq Keys /\ \A k \in S : payouts[k].status = "failed"
    BY DEF FailedPayouts
  <2>4. None \notin S
    BY <2>3, RewardsAssumption
  <2> QED
    BY <1>1, <2>1, <2>2, <2>3, <2>4 DEF WorkInv, CarefulInv, PaidOnce, Replaying, Key
<1>4. CASE ReplayPay(r)
  <2>1. PICK k \in todo[r] :
          /\ todo' = [todo EXCEPT ![r] = @ \ {k}]
          /\ \/ Execute(k) /\ current' = [current EXCEPT ![r] = k] /\ UNCHANGED bounds
             \/ Refuse /\ UNCHANGED <<paid, current>>
             \/ Fail /\ Execute(k) /\ UNCHANGED current
    BY <1>4 DEF ReplayPay
  <2>2. Replaying(r) /\ current[r] = None /\ UNCHANGED <<payouts, replays>>
    BY <1>4 DEF ReplayPay, Replaying
  <2>3. replays # 0 /\ faults = 0 /\ \A s \in Replayers \ {r} : todo[s] = {} /\ current[s] = None
    BY <2>2, CarefulReplay
  <2>4. k \in Keys /\ k # None /\ payouts[k].status = "failed"
    BY <2>3, RewardsAssumption DEF WorkInv, CarefulInv
  <2>5. \A j \in Keys : payouts[j].status = "failed" => paid[j] = 0
    BY <2>2, <2>3, RewardsAssumption DEF CarefulInv
  <2>6. \A c \in Consumers : pc[c] \in {"pay", "fail"} => Key(c) # k
    BY <2>4 DEF WorkInv, ConsumersOwn, AtWork
  <2>7. CASE Execute(k) /\ current' = [current EXCEPT ![r] = k] /\ UNCHANGED bounds
    <3>1. /\ paid'[k] = 1 /\ \A j \in Keys : j # k => paid'[j] = paid[j]
          /\ PaidOnce'
      BY <2>4, <2>5, <2>7 DEF Execute, WorkInv, CarefulInv, PaidOnce
    <3>2. /\ current'[r] = k /\ k \notin todo'[r]
          /\ \A s \in Replayers \ {r} : todo'[s] = {} /\ current'[s] = None
          /\ todo'[r] \subseteq todo[r]
      BY <2>1, <2>3, <2>7 DEF WorkInv
    <3>3. \A c \in Consumers : pc'[c] = "pay" \/ pc'[c] = "fail" => paid'[Key(c)'] = 0
      <4> SUFFICES ASSUME NEW c \in Consumers, pc'[c] = "pay" \/ pc'[c] = "fail"
                   PROVE  paid'[Key(c)'] = 0
        OBVIOUS
      <4>1. Key(c)' = Key(c) /\ Key(c) \in Keys /\ Key(c) # k
        BY <1>1, <2>6, KeyFacts DEF Key
      <4>2. paid[Key(c)] = 0
        BY <1>1, <2>3 DEF CarefulInv
      <4> QED BY <3>1, <4>1, <4>2
    <3>4. \A j \in Keys : payouts'[j].status = "failed" =>
            paid'[j] = 0 \/ \E s \in Replayers : current'[s] = j
      BY <2>2, <2>5, <3>1, <3>2
    <3>5. /\ replays' # 0 /\ replays' \in Nat /\ faults' \in Nat
          /\ \A j \in todo'[r] : payouts'[j].status = "failed"
      BY <1>1, <2>2, <2>3, <2>7, <3>2 DEF bounds, CarefulInv
    <3> QED BY <3>1, <3>2, <3>3, <3>4, <3>5 DEF CarefulInv
  <2>8. CASE Refuse /\ UNCHANGED <<paid, current>>
    BY <1>1, <2>1, <2>2, <2>3, <2>4, <2>8
       DEF Refuse, WorkInv, CarefulInv, PaidOnce, Replaying, Key
  <2> QED BY <1>2, <2>1, <2>2, <2>7, <2>8
<1>5. CASE ReplayMark(r)
  <2>1. /\ current[r] # None /\ current' = [current EXCEPT ![r] = None]
        /\ \/ SetStatus(current[r], "completed") /\ UNCHANGED bounds
           \/ Fail
        /\ UNCHANGED <<paid, todo, replays>>
    BY <1>5 DEF ReplayMark
  <2>2. Replaying(r)
    BY <2>1 DEF Replaying
  <2>3. replays # 0 /\ faults = 0 /\ \A s \in Replayers \ {r} : todo[s] = {} /\ current[s] = None
    BY <2>2, CarefulReplay
  <2>4. SetStatus(current[r], "completed") /\ UNCHANGED bounds
    BY <1>2, <2>1, <2>2
  <2>5. current[r] \in Keys /\ current[r] \notin todo[r]
    BY <2>1, <2>3 DEF WorkInv, CarefulInv
  <2>6. /\ \A k \in Keys : k # current[r] => payouts'[k] = payouts[k]
        /\ payouts'[current[r]].status = "completed"
    BY <2>4, <2>5 DEF SetStatus, WorkInv
  <2>7. /\ faults' = 0 /\ UNCHANGED paid
        /\ current'[r] = None /\ todo'[r] = todo[r]
        /\ \A s \in Replayers \ {r} : todo'[s] = {} /\ current'[s] = None
    BY <2>1, <2>3, <2>4 DEF bounds, WorkInv
  <2>8. \A k \in todo'[r] : k \in Keys /\ k # None /\ payouts'[k].status = "failed"
    BY <2>3, <2>5, <2>6, <2>7, RewardsAssumption DEF WorkInv, CarefulInv
  <2>9. \A k \in Keys : payouts'[k].status = "failed" => paid'[k] = 0
    BY <2>3, <2>6, <2>7, RewardsAssumption DEF CarefulInv
  <2>10. \A c \in Consumers : pc'[c] = "pay" \/ pc'[c] = "fail" => paid'[Key(c)'] = 0
    BY <1>1, <2>3, <2>7 DEF CarefulInv, Key
  <2>11. PaidOnce' /\ replays' # 0 /\ replays' \in Nat
    BY <1>1, <2>1, <2>3, <2>7 DEF CarefulInv, PaidOnce
  <2> QED BY <2>7, <2>8, <2>9, <2>10, <2>11 DEF CarefulInv
<1>6. CASE ReplayCrash(r)
  BY <1>2, <1>6 DEF ReplayCrash
<1> QED BY <1>3, <1>4, <1>5, <1>6 DEF ReplayStep

LEMMA CarefulStep == RInv /\ CarefulInv /\ Careful /\ Careful' /\ [Next]_vars => CarefulInv'
<1> SUFFICES ASSUME RInv, CarefulInv, Careful, Careful', [Next]_vars PROVE CarefulInv'
  OBVIOUS
<1>1. WorkInv
  BY Split
<1>2. CASE UNCHANGED vars \/ Administer
  BY <1>2
     DEF vars, Administer, payVars, consumerVars, replayVars, bounds, CarefulInv, PaidOnce,
         Replaying, Key
<1>3. CASE Next /\ ~ Administer
  BY <1>1, <1>3, CarefulConsumer, CarefulReplayer DEF Next
<1> QED BY <1>2, <1>3

\* ReplayFailed and ProcessPaymentCompletedEvent: a payout is paid once,
\* however often its event is delivered and to however many consumers, in
\* every history without a replay, and in every one whose replays neither
\* overlap nor see a fault.
THEOREM CarefulHistoriesPayOnce == Spec => CarefulPaysOnce
<1>1. CarefulInv => PaidOnce
  BY DEF CarefulInv
<1> QED
  BY <1>1, RewardsInvariant, CarefulStart, CarefulStep, PTL DEF Spec, CarefulPaysOnce

=============================================================================
