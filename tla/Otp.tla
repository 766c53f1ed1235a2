---------------------------------- MODULE Otp ----------------------------------
(***************************************************************************)
(* One-time codes: OtpUseCase (internal/biz/otp.go) over redisOtpCache      *)
(* (internal/data/otp_cache.go), for one kind, scene and receiver, whose    *)
(* three keys no other receiver shares.  One action below is one Redis      *)
(* command, or the call of the SMS or mail provider, with the Go code up to *)
(* the next one.                                                            *)
(***************************************************************************)
EXTENDS Naturals

CONSTANTS
    Req,            \* the goroutines that serve requests
    MaxSends,       \* bound: codes generated, numbered in the order of their SETNX
    MaxFailCount,   \* otpMaxFailCount
    Faults          \* "redis", "provider": a call may fail; "crash": a request may die

ASSUME ConstantsAssumption ==
    /\ MaxSends \in Nat
    /\ MaxFailCount \in Nat \ {0}
    /\ Faults \subseteq {"redis", "provider", "crash"}

NoCode == 0          \* an absent code key; as an input, a wrong guess
Code == 1 .. MaxSends

VARIABLES
    interval,   \* the value of otp:interval:..., 0 if absent
    code,       \* the value of otp:code:..., NoCode if absent
    fail,       \* the value of otp:fail:..., counted up to MaxFailCount
    pc,         \* the next step of each request
    mine,       \* the code a request generated, or its inputCode
    sends,      \* how many codes have been generated
    delivered,  \* history: the codes that reached the receiver
    confirmed,  \* history: the codes whose sending was answered without error
    outlived,   \* history: the codes whose interval ran out before they were stored
    over,       \* history: the codes that were stored and are not any more
    accepted    \* history: the codes that were accepted

keys == <<interval, code, fail>>
history == <<sends, delivered, confirmed, outlived, over, accepted>>
vars == <<interval, code, fail, pc, mine, sends, delivered, confirmed, outlived, over, accepted>>

Sending == {"send", "set", "clear"}
SendSteps == Sending \cup {"setnx"}
VerifySteps == {"get", "incr", "del", "delfail"}
Outcomes == {"sent", "accepted", "invalid", "expired", "failed"}

TypeOK ==
    /\ interval \in {0, 1}
    /\ code \in Code \cup {NoCode}
    /\ fail \in 0 .. MaxFailCount
    /\ pc \in [Req -> SendSteps \cup VerifySteps \cup Outcomes \cup {"idle"}]
    /\ mine \in [Req -> Code \cup {NoCode}]
    /\ sends \in 0 .. MaxSends
    /\ delivered \subseteq Code /\ confirmed \subseteq Code /\ outlived \subseteq Code
    /\ over \subseteq Code /\ accepted \subseteq Code
    /\ \A r \in Req :
        /\ pc[r] \in Sending => mine[r] \in 1 .. sends
        /\ pc[r] = "del" => mine[r] \in Code

Init ==
    /\ interval = 0 /\ code = NoCode /\ fail = 0
    /\ pc = [r \in Req |-> "idle"]
    /\ mine = [r \in Req |-> NoCode]
    /\ sends = 0
    /\ delivered = {} /\ confirmed = {} /\ outlived = {} /\ over = {} /\ accepted = {}

RedisFails == "redis" \in Faults
Goto(r, label) == pc' = [pc EXCEPT ![r] = label]

\* What a write of the code key ends: the code that was there and is not any more.
Ended == over \cup ({code} \ {NoCode, code'})

-----------------------------------------------------------------------------
(* process: SendPhoneOtp and SendEmailOtp *)

SendOtp(r) ==
    /\ pc[r] = "idle"
    /\ sends < MaxSends
    /\ Goto(r, "setnx")
    /\ UNCHANGED <<keys, mine, history>>

\* Mutant: the answer of the SETNX is not looked at.
AcquireIntervalUnchecked(r) ==
    /\ pc[r] = "setnx" /\ sends < MaxSends
    /\ interval' = 1
    /\ sends' = sends + 1
    /\ mine' = [mine EXCEPT ![r] = sends + 1]
    /\ Goto(r, "send")
    /\ UNCHANGED <<code, fail, delivered, confirmed, outlived, over, accepted>>

\* Mutant: the message is sent before a code has been generated.
AcquireIntervalNoCode(r) ==
    /\ pc[r] = "setnx"
    /\ interval = 0 /\ interval' = 1
    /\ Goto(r, "send")
    /\ UNCHANGED <<code, fail, mine, history>>

\* Mutant: an error of the SETNX is only logged.
AcquireIntervalIgnoringErrors(r) ==
    /\ pc[r] = "setnx" /\ sends < MaxSends
    /\ interval = 0 \/ RedisFails
    /\ interval' = 1
    /\ sends' = sends + 1
    /\ mine' = [mine EXCEPT ![r] = sends + 1]
    /\ Goto(r, "send")
    /\ UNCHANGED <<code, fail, delivered, confirmed, outlived, over, accepted>>

\* SETNX of the interval key, then generateCode.  At the bound of MaxSends codes a
\* request that overlapped the last round is turned away like one that came too early.
AcquireInterval(r) ==
    /\ pc[r] = "setnx"
    /\ \/ /\ interval = 0 /\ sends < MaxSends
          /\ interval' = 1
          /\ sends' = sends + 1
          /\ mine' = [mine EXCEPT ![r] = sends + 1]
          /\ Goto(r, "send")
       \/ /\ interval = 1 \/ sends = MaxSends
          /\ Goto(r, "failed")
          /\ UNCHANGED <<interval, mine, sends>>
       \/ /\ RedisFails
          /\ interval' \in {interval, 1}
          /\ Goto(r, "failed")
          /\ UNCHANGED <<mine, sends>>
    /\ UNCHANGED <<code, fail, delivered, confirmed, outlived, over, accepted>>

\* Mutant: the error of the provider is only logged.
SendCodeIgnoringErrors(r) ==
    /\ pc[r] = "send"
    /\ \/ delivered' = delivered \cup {mine[r]}
       \/ "provider" \in Faults /\ UNCHANGED delivered
    /\ Goto(r, "set")
    /\ UNCHANGED <<keys, mine, sends, confirmed, outlived, over, accepted>>

\* sendFn.  After an error the message may have gone out; the interval stays set.
SendCode(r) ==
    LET reached == delivered \cup {mine[r]} IN
    /\ pc[r] = "send"
    /\ \/ delivered' = reached /\ Goto(r, "set")
       \/ /\ "provider" \in Faults
          /\ delivered' \in {delivered, reached}
          /\ Goto(r, "failed")
    /\ UNCHANGED <<keys, mine, sends, confirmed, outlived, over, accepted>>

\* SET of the code key, which replaces the code of another round.
StoreCode(r) ==
    /\ pc[r] = "set"
    /\ \/ code' = mine[r] /\ Goto(r, "clear")
       \/ RedisFails /\ code' \in {code, mine[r]} /\ Goto(r, "failed")
    /\ over' = Ended
    /\ UNCHANGED <<interval, fail, mine, sends, delivered, confirmed, outlived, accepted>>

\* Mutant: what is deleted is the code key.
ClearFailuresWithCode(r) ==
    /\ pc[r] = "clear"
    /\ code' = NoCode
    /\ confirmed' = confirmed \cup {mine[r]}
    /\ Goto(r, "sent")
    /\ UNCHANGED <<interval, fail, mine, sends, delivered, outlived, over, accepted>>

\* DEL of the fail counter, its error ignored.
ClearFailures(r) ==
    /\ pc[r] = "clear"
    /\ fail' = 0 \/ (RedisFails /\ fail' = fail)
    /\ confirmed' = confirmed \cup {mine[r]}
    /\ Goto(r, "sent")
    /\ UNCHANGED <<interval, code, mine, sends, delivered, outlived, over, accepted>>

-----------------------------------------------------------------------------
(* verify: VerifyPhoneOtp and VerifyEmailOtp *)

\* The input is a code that reached the receiver, or a wrong guess.
VerifyOtp(r, input) ==
    /\ pc[r] = "idle"
    /\ mine' = [mine EXCEPT ![r] = input]
    /\ Goto(r, "get")
    /\ UNCHANGED <<keys, history>>

\* GET of the code key and the comparison.
CompareCode(r) ==
    /\ pc[r] = "get"
    /\ Goto(r, IF code = NoCode THEN "expired"
               ELSE IF code # mine[r] THEN "incr" ELSE "del")
       \/ (RedisFails /\ Goto(r, "failed"))
    /\ UNCHANGED <<keys, mine, history>>

\* INCR and EXPIRE in one transaction; after an error failCount is 0.
CountFailure(r) ==
    LET counted == IF fail < MaxFailCount THEN fail + 1 ELSE fail IN
    /\ pc[r] = "incr"
    /\ \/ /\ fail' = counted
          /\ Goto(r, IF counted >= MaxFailCount THEN "expired" ELSE "invalid")
       \/ /\ RedisFails
          /\ fail' \in {fail, counted}
          /\ Goto(r, "invalid")
    /\ UNCHANGED <<interval, code, mine, history>>

\* Mutant: the code is accepted although its DEL failed.
UseCodeIgnoringErrors(r) ==
    /\ pc[r] = "del"
    /\ code' = NoCode \/ (RedisFails /\ code' = code)
    /\ over' = Ended
    /\ accepted' = accepted \cup {mine[r]}
    /\ Goto(r, "delfail")
    /\ UNCHANGED <<interval, fail, mine, sends, delivered, confirmed, outlived>>

\* DEL of the code key, whatever it holds by now and whether or not it holds anything;
\* after an error the callers answer ErrorOtpInvalid.
UseCode(r) ==
    /\ pc[r] = "del"
    /\ \/ /\ code' = NoCode
          /\ accepted' = accepted \cup {mine[r]}
          /\ Goto(r, "delfail")
       \/ /\ RedisFails
          /\ code' \in {code, NoCode}
          /\ Goto(r, "failed")
          /\ UNCHANGED accepted
    /\ over' = Ended
    /\ UNCHANGED <<interval, fail, mine, sends, delivered, confirmed, outlived>>

\* DEL of the fail counter, its error ignored; the answer is true, nil.
ForgetFailures(r) ==
    /\ pc[r] = "delfail"
    /\ fail' = 0 \/ (RedisFails /\ fail' = fail)
    /\ Goto(r, "accepted")
    /\ UNCHANGED <<interval, code, mine, history>>

-----------------------------------------------------------------------------
(* The environment: TTLs, answers, processes that die. *)

\* The interval key of a round may run out while its code is still being sent.
IntervalExpires ==
    /\ interval = 1
    /\ interval' = 0
    /\ outlived' = outlived \cup {mine[r] : r \in {q \in Req : pc[q] \in Sending}}
    /\ UNCHANGED <<code, fail, pc, mine, sends, delivered, confirmed, over, accepted>>

CodeExpires ==
    /\ code # NoCode
    /\ code' = NoCode
    /\ over' = Ended
    /\ UNCHANGED <<interval, fail, pc, mine, sends, delivered, confirmed, outlived, accepted>>

FailExpires ==
    /\ fail > 0
    /\ fail' = 0
    /\ UNCHANGED <<interval, code, pc, mine, history>>

Forget(r) ==
    /\ Goto(r, "idle")
    /\ mine' = [mine EXCEPT ![r] = NoCode]
    /\ UNCHANGED <<keys, history>>

Answer(r) == pc[r] \in Outcomes /\ Forget(r)
Crash(r) == "crash" \in Faults /\ pc[r] \in SendSteps \cup VerifySteps /\ Forget(r)

-----------------------------------------------------------------------------
Next ==
    \/ \E r \in Req :
        \/ SendOtp(r) \/ AcquireInterval(r) \/ SendCode(r) \/ StoreCode(r) \/ ClearFailures(r)
        \/ \E input \in delivered \cup {NoCode} : VerifyOtp(r, input)
        \/ CompareCode(r) \/ CountFailure(r) \/ UseCode(r) \/ ForgetFailures(r)
        \/ Answer(r) \/ Crash(r)
    \/ IntervalExpires \/ CodeExpires \/ FailExpires

Spec == Init /\ [][Next]_vars

-----------------------------------------------------------------------------
(* Properties. *)

\* Whatever fails, a code that could be accepted is one the receiver was sent:
\* process sends before it stores.
StoredWasDelivered == code # NoCode => code \in delivered

\* A code that was accepted is never again in the store, where a verification could
\* find it: its DEL was not skipped after an error, and no round stores a code twice.
\* What otp.go:178 leaves open is that requests which had all compared the code before
\* the first DEL are all accepted.
AcceptedCodeEnds == code \notin accepted

\* A code never takes the place of a newer one, unless the interval of its own round ran
\* out before it was stored (otp.go:119-125): SETNX keeps the rounds in order.
NewestCodeStored == code \in Code \ outlived => \A c \in over : c < code

\* Of two codes on their way to a receiver at once, one has outlived its interval,
\* whatever fails: what the interval key is for.
SendsSpaced ==
    \A r, q \in Req :
        r # q /\ {pc[r], pc[q]} \subseteq Sending => {mine[r], mine[q]} \cap outlived # {}

-----------------------------------------------------------------------------
(* The codes as their receiver sees them. *)

\* The stored code can be used.  A verification that has compared it holds it.
Codes == INSTANCE CodeStore WITH
    Visit <- Req, received <- delivered, usable <- {code} \ {NoCode}, gone <- over,
    holds <- [r \in Req |-> IF pc[r] = "del" THEN {mine[r]} ELSE {}],
    used <- accepted, announced <- confirmed

\* The use case implements CodeStore: whatever fails and overlaps, a code is stored once
\* and after it was received, nobody gets hold of one that has ended, a use ends what is
\* stored, and what is announced was stored.
ImplementsCodes == Codes!CodeSpec

=============================================================================
