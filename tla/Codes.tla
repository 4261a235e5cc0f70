------------------------------- MODULE Codes -------------------------------
(***************************************************************************)
(* The codes mailed to one address, to register it or to reset its         *)
(* password.  Every command to redis is a step, and a call may stop before *)
(* any of them.  A code is named by the number of its issue; a guess is    *)
(* such a number, 0 for a code that was never issued.  What a reset does   *)
(* between accepting the code and clearing it is in module Sessions.       *)
(***************************************************************************)
EXTENDS Naturals, FiniteSets

CONSTANTS CodeCalls,          \* calls that may be in progress together
          MaxVerifyAttempts,
          MaxIssues,          \* bound on the codes issued
          MaxAsked,           \* bound on the calls of a behaviour
          MaxCodeFaults       \* bound on failed commands

ASSUME CodesAssumption ==
  /\ MaxVerifyAttempts \in Nat \ {0}
  /\ {MaxIssues, MaxAsked, MaxCodeFaults} \subseteq Nat
  /\ IsFiniteSet(CodeCalls)

VARIABLES otp,         \* the keys of each kind of code
          verified,    \* auth:otp:register:<email>:verified
          registered,  \* the address has an account
          codeCalls, asked, codeFaults,
          \* what the properties remember, of the last code of each kind:
          issued,      \* how many codes were issued
          mailed,      \* which were mailed
          tries,       \* guesses compared with the last one
          accepted,    \* how often it was accepted
          rewinds      \* how often its counter went back to zero in the middle

codeVars == <<otp, verified, registered, codeCalls, asked, codeFaults,
              issued, mailed, tries, accepted, rewinds>>

Kinds == {"register", "reset"}
Issues == 0 .. MaxIssues
NoKeys == [code |-> 0, attempts |-> 0, older |-> FALSE, cooldown |-> FALSE]
NoCodeCall == [op |-> "idle", kind |-> "register", step |-> "idle", code |-> 0, count |-> 0]
PerKind(v) == [k \in Kinds |-> v]

CodesInit ==
  /\ otp = PerKind(NoKeys) /\ verified = FALSE
  /\ registered \in BOOLEAN
  /\ codeCalls = [c \in CodeCalls |-> NoCodeCall] /\ asked = 0 /\ codeFaults = 0
  /\ issued = PerKind(0) /\ mailed = PerKind({})
  /\ tries = PerKind(0) /\ accepted = PerKind(0) /\ rewinds = PerKind(0)

-----------------------------------------------------------------------------
(* The commands of the store, on the keys of one kind.  "older" says that   *)
(* the counter was there before the code: only then, or when there is no    *)
(* code, may it expire, for it lives at least as long as a code.            *)

SetOTP(keys, n) == [keys EXCEPT !.code = n, !.older = keys.attempts > 0]
DeleteOTP(keys) == [keys EXCEPT !.code = 0]
IncrementOTPAttempts(keys) == [keys EXCEPT !.attempts = @ + 1]
ResetOTPAttempts(keys) == [keys EXCEPT !.attempts = 0, !.older = FALSE]
SetCooldown(keys) == [keys EXCEPT !.cooldown = TRUE]
Outlived(keys) == keys.code = 0 \/ keys.older

-----------------------------------------------------------------------------
(* Calls *)

Ask(c, op, kind, code) ==
  /\ codeCalls[c].op = "idle" /\ asked < MaxAsked
  /\ asked' = asked + 1
  /\ codeCalls' = [codeCalls EXCEPT ![c] =
       [op |-> op, kind |-> kind, step |-> IF op = "send" THEN "lookup" ELSE "count",
        code |-> code, count |-> 0]]
  /\ UNCHANGED <<otp, verified, registered, codeFaults, issued, mailed, tries, accepted, rewinds>>

SendCode(c) == \E kind \in Kinds : Ask(c, "send", kind, 0)
GuessRegistrationCode(c) == \E n \in 0 .. issued["register"] : Ask(c, "guess", "register", n)
GuessResetCode(c) == \E n \in 0 .. issued["reset"] : Ask(c, "guess", "reset", n)

CodeAt(c, op, step) == codeCalls[c].op = op /\ codeCalls[c].step = step
Next2(c, step) == codeCalls' = [codeCalls EXCEPT ![c].step = step]
Done(c) == codeCalls' = [codeCalls EXCEPT ![c] = NoCodeCall]
Keys(c) == otp[codeCalls[c].kind]
Write(c, keys) == otp' = [otp EXCEPT ![codeCalls[c].kind] = keys]
UnchangedButCalls == UNCHANGED <<verified, registered, asked, codeFaults>>
UnchangedMemory == UNCHANGED <<issued, mailed, tries, accepted, rewinds>>

\* SendRegistrationOTP refuses an address with an account; ForgotPassword
\* answers for one without as if it had mailed.
SendRegistrationOTP(c) ==
  /\ CodeAt(c, "send", "lookup") /\ codeCalls[c].kind = "register"
  /\ IF registered THEN Done(c) ELSE Next2(c, "cooldown")
  /\ UnchangedButCalls /\ UnchangedMemory /\ UNCHANGED otp

\* Variant: the wait is imposed whether or not there is an account.
ForgotPasswordHiding(c) ==
  /\ CodeAt(c, "send", "lookup") /\ codeCalls[c].kind = "reset"
  /\ IF registered THEN Next2(c, "cooldown") /\ UNCHANGED otp
     ELSE Done(c) /\ Write(c, SetCooldown(Keys(c)))
  /\ UnchangedButCalls /\ UnchangedMemory

ForgotPassword(c) ==
  /\ CodeAt(c, "send", "lookup") /\ codeCalls[c].kind = "reset"
  /\ IF registered THEN Next2(c, "cooldown") ELSE Done(c)
  /\ UnchangedButCalls /\ UnchangedMemory /\ UNCHANGED otp

TrySetResendCooldown(c) ==
  /\ CodeAt(c, "send", "cooldown")
  /\ IF Keys(c).cooldown THEN Done(c) /\ UNCHANGED otp
     ELSE Next2(c, "store") /\ Write(c, SetCooldown(Keys(c)))
  /\ UnchangedButCalls /\ UnchangedMemory

StoreCode(c) ==
  LET k == codeCalls[c].kind
      n == issued[k] + 1
  IN /\ CodeAt(c, "send", "store") /\ n <= MaxIssues
     /\ Write(c, SetOTP(Keys(c), n))
     /\ codeCalls' = [codeCalls EXCEPT ![c].step = "rewind", ![c].code = n]
     /\ issued' = [issued EXCEPT ![k] = n]
     /\ tries' = [tries EXCEPT ![k] = 0] /\ accepted' = [accepted EXCEPT ![k] = 0]
     /\ rewinds' = [rewinds EXCEPT ![k] = 0]
     /\ UnchangedButCalls /\ UNCHANGED mailed

\* The counter of a kind goes back to zero; the property remembers when this
\* happens to a code that another call has issued.
Rewound(c) ==
  LET k == codeCalls[c].kind IN
  rewinds' = IF codeCalls[c].op = "send" /\ codeCalls[c].code = issued[k] THEN rewinds
             ELSE [rewinds EXCEPT ![k] = @ + 1]

RewindForCode(c) ==
  /\ CodeAt(c, "send", "rewind")
  /\ Write(c, ResetOTPAttempts(Keys(c))) /\ Rewound(c)
  /\ Next2(c, "mail")
  /\ UnchangedButCalls /\ UNCHANGED <<issued, mailed, tries, accepted>>

MailCode(c) ==
  /\ CodeAt(c, "send", "mail")
  /\ mailed' = [mailed EXCEPT ![codeCalls[c].kind] = @ \cup {codeCalls[c].code}]
  /\ Done(c)
  /\ UnchangedButCalls /\ UNCHANGED <<otp, issued, tries, accepted, rewinds>>

\* Variant: the code stays when the attempts are used up, and so do the guesses.
CountGuessOnly(c) ==
  /\ CodeAt(c, "guess", "count")
  /\ Write(c, IncrementOTPAttempts(Keys(c)))
  /\ Next2(c, "compare")
  /\ UnchangedButCalls /\ UnchangedMemory

\* A guess is counted before anything else.
CountGuess(c) ==
  LET keys == IncrementOTPAttempts(Keys(c)) IN
  /\ CodeAt(c, "guess", "count")
  /\ Write(c, keys)
  /\ codeCalls' = [codeCalls EXCEPT ![c].count = keys.attempts,
                     ![c].step = IF keys.attempts > MaxVerifyAttempts THEN "exhausted" ELSE "compare"]
  /\ UnchangedButCalls /\ UnchangedMemory

\* Whatever code is there by now is deleted.
Exhausted(c) ==
  /\ CodeAt(c, "guess", "exhausted")
  /\ Write(c, DeleteOTP(Keys(c))) /\ Done(c)
  /\ UnchangedButCalls /\ UnchangedMemory

Compare(c) ==
  LET k == codeCalls[c].kind
      right == codeCalls[c].code = Keys(c).code
  IN /\ CodeAt(c, "guess", "compare")
     /\ IF Keys(c).code = 0 THEN Done(c) /\ UNCHANGED <<tries, accepted>>
        ELSE /\ IF right THEN Next2(c, "spend") ELSE Done(c)
             /\ tries' = [tries EXCEPT ![k] = @ + 1]
             /\ accepted' = IF right THEN [accepted EXCEPT ![k] = @ + 1] ELSE accepted
     /\ UnchangedButCalls /\ UNCHANGED <<otp, issued, mailed, rewinds>>

\* A registration goes on once the code is deleted; a reset has changed the
\* password before, and clears the code last.
SpendCode(c) ==
  /\ CodeAt(c, "guess", "spend")
  /\ Write(c, DeleteOTP(Keys(c))) /\ Next2(c, "clear")
  /\ UnchangedButCalls /\ UnchangedMemory

ClearAttempts(c) ==
  /\ CodeAt(c, "guess", "clear")
  /\ Write(c, ResetOTPAttempts(Keys(c))) /\ Rewound(c)
  /\ IF codeCalls[c].kind = "register" THEN Next2(c, "mark") ELSE Done(c)
  /\ UnchangedButCalls /\ UNCHANGED <<issued, mailed, tries, accepted>>

MarkVerified(c) ==
  /\ CodeAt(c, "guess", "mark")
  /\ verified' = TRUE /\ Done(c)
  /\ UnchangedMemory /\ UNCHANGED <<otp, registered, asked, codeFaults>>

\* Register takes the key (module Provisioning has what follows).
ConsumeVerified ==
  /\ verified /\ ~registered
  /\ verified' = FALSE /\ registered' = TRUE
  /\ UnchangedMemory /\ UNCHANGED <<otp, codeCalls, asked, codeFaults>>

\* A command or a mail fails, or the process ends.  The two last commands of
\* a reset are tried whatever becomes of them.
FailCodeCall(c) ==
  /\ codeFaults < MaxCodeFaults /\ codeFaults' = codeFaults + 1
  /\ codeCalls[c].op # "idle"
  /\ \/ Done(c)
     \/ CodeAt(c, "guess", "spend") /\ codeCalls[c].kind = "reset" /\ Next2(c, "clear")
  /\ UnchangedMemory /\ UNCHANGED <<otp, verified, registered, asked>>

ExpireCode(k) ==
  /\ otp[k].code # 0 /\ otp' = [otp EXCEPT ![k] = DeleteOTP(@)]
  /\ UnchangedMemory /\ UNCHANGED <<verified, registered, codeCalls, asked, codeFaults>>

ExpireAttempts(k) ==
  /\ otp[k].attempts > 0 /\ Outlived(otp[k])
  /\ otp' = [otp EXCEPT ![k] = ResetOTPAttempts(@)]
  /\ rewinds' = IF otp[k].older THEN [rewinds EXCEPT ![k] = @ + 1] ELSE rewinds
  /\ UNCHANGED <<verified, registered, codeCalls, asked, codeFaults, issued, mailed, tries, accepted>>

ExpireCooldown(k) ==
  /\ otp[k].cooldown /\ otp' = [otp EXCEPT ![k].cooldown = FALSE]
  /\ UnchangedMemory /\ UNCHANGED <<verified, registered, codeCalls, asked, codeFaults>>

ExpireVerified ==
  /\ verified /\ verified' = FALSE
  /\ UnchangedMemory /\ UNCHANGED <<otp, registered, codeCalls, asked, codeFaults>>

CodesNext ==
  \/ \E c \in CodeCalls :
       \/ SendCode(c) \/ GuessRegistrationCode(c) \/ GuessResetCode(c)
       \/ SendRegistrationOTP(c) \/ ForgotPassword(c)
       \/ TrySetResendCooldown(c) \/ StoreCode(c) \/ RewindForCode(c) \/ MailCode(c)
       \/ CountGuess(c) \/ Exhausted(c) \/ Compare(c)
       \/ SpendCode(c) \/ ClearAttempts(c) \/ MarkVerified(c)
       \/ FailCodeCall(c)
  \/ \E k \in Kinds : ExpireCode(k) \/ ExpireAttempts(k) \/ ExpireCooldown(k)
  \/ ConsumeVerified \/ ExpireVerified

CodesSpec == CodesInit /\ [][CodesNext]_codeVars

-----------------------------------------------------------------------------
(* Properties *)

\* The shape of the keys and calls; no key holds a code that was not issued.
CodesTypeOK ==
  /\ \A k \in Kinds : issued[k] \in Issues /\ otp[k].code \in 0 .. issued[k]
  /\ \A k \in Kinds : mailed[k] \subseteq 1 .. issued[k]
  /\ otp \in [Kinds -> [code : Issues, attempts : Nat, older : BOOLEAN, cooldown : BOOLEAN]]
  /\ {verified, registered} \subseteq BOOLEAN

\* The limit on guesses, however calls, expiry and failures mix: a code is
\* compared at most MaxVerifyAttempts times for each life of its counter, of
\* which it has two (the one before its own reset counts) and one more each
\* time another call or an early expiry takes the counter back to zero, and
\* once by each other call that was counted before the code was there.
GuessesBounded ==
  \A k \in Kinds : tries[k] <= MaxVerifyAttempts * (2 + rewinds[k]) + Cardinality(CodeCalls) - 1

\* A code is spent by use: it is accepted at most once by each of the calls
\* that overlap, and once more for each failure that kept it alive.
CodesAreSpent ==
  \A k \in Kinds : accepted[k] <= Cardinality(CodeCalls) + codeFaults

\* One-time codes (otp.go): however calls, expiry and failures mix, a code
\* stands a bounded number of guesses and is spent by use.
CodesResistGuessing == CodesTypeOK /\ GuessesBounded /\ CodesAreSpent

\* A call that is going to store a code of this kind, or to mail the last one.
Serves(c, k) ==
  /\ codeCalls[c].op = "send" /\ codeCalls[c].kind = k
  /\ \/ codeCalls[c].step = "store"
     \/ codeCalls[c].step \in {"rewind", "mail"} /\ codeCalls[c].code = issued[k]

\* Nobody is made to wait for nothing: while no command has failed, an address
\* that must wait was sent the last code issued, or a call is about to send it.
CooldownIsExplained ==
  \A k \in Kinds : otp[k].cooldown /\ codeFaults = 0 =>
    issued[k] \in mailed[k] \/ \E c \in CodeCalls : Serves(c, k)
=============================================================================
