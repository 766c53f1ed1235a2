------------------------------- MODULE OtpProofs -------------------------------
(***************************************************************************)
(* Theorems about Otp, for any number of requests and of codes.             *)
(***************************************************************************)
EXTENDS Otp, TLAPS

-----------------------------------------------------------------------------
(* Types. *)

\* What AcquireInterval does to the request and the counter of codes.
LEMMA AcquireEffect ==
  ASSUME NEW r \in Req, AcquireInterval(r)
  PROVE  /\ pc[r] = "setnx"
         /\ \/ /\ sends < MaxSends /\ sends' = sends + 1
               /\ mine' = [mine EXCEPT ![r] = sends + 1]
               /\ pc' = [pc EXCEPT ![r] = "send"]
               /\ interval = 0 /\ interval' = 1
            \/ /\ mine' = mine /\ sends' = sends /\ pc' = [pc EXCEPT ![r] = "failed"]
               /\ interval = 1 => interval' = 1
         /\ interval' \in {interval, 1}
         /\ UNCHANGED <<code, fail, delivered, confirmed, outlived, over, accepted>>
BY DEF AcquireInterval, Goto

\* SendOtp changes the label of the request only.
LEMMA SendOtpTypes ==
  ASSUME TypeOK, NEW r \in Req, SendOtp(r)
  PROVE  TypeOK'
<1> USE ConstantsAssumption DEF TypeOK, Goto, Code, NoCode, Sending, SendSteps, VerifySteps,
        Outcomes
<1>1. pc' = [pc EXCEPT ![r] = "setnx"]
  BY DEF SendOtp
<1>2. UNCHANGED <<keys, mine, history>>
  BY DEF SendOtp
<1> QED
  BY <1>1, <1>2 DEF keys, history

\* AcquireInterval: the new code is within the bound.
LEMMA AcquireIntervalTypes ==
  ASSUME TypeOK, NEW r \in Req, AcquireInterval(r)
  PROVE  TypeOK'
<1> USE AcquireEffect, ConstantsAssumption DEF TypeOK, Goto, Code, NoCode, Sending, SendSteps,
        VerifySteps, Outcomes
<1>1. CASE mine' = mine /\ sends' = sends /\ pc' = [pc EXCEPT ![r] = "failed"]
  BY <1>1
<1>2. CASE  /\ sends < MaxSends /\ sends' = sends + 1
               /\ mine' = [mine EXCEPT ![r] = sends + 1]
               /\ pc' = [pc EXCEPT ![r] = "send"]
  <2>1. sends' \in 0 .. MaxSends /\ sends' \in 1 .. MaxSends
    BY <1>2
  <2>2. mine' \in [Req -> Code \cup {NoCode}]
    BY <1>2, <2>1
  <2>3. \A q \in Req : pc'[q] \in Sending => mine'[q] \in 1 .. sends'
    BY <1>2
  <2>4. pc' \in [Req -> SendSteps \cup VerifySteps \cup Outcomes \cup {"idle"}]
    BY <1>2
  <2>5. \A q \in Req : pc'[q] = "del" => pc[q] = "del" /\ mine'[q] = mine[q]
    BY <1>2
  <2> QED
    BY <2>1, <2>2, <2>3, <2>4, <2>5
<1> QED
  BY <1>1, <1>2

\* CompareCode changes the label of the request only.
LEMMA CompareCodeTypes ==
  ASSUME TypeOK, NEW r \in Req, CompareCode(r)
  PROVE  TypeOK'
<1> USE ConstantsAssumption DEF TypeOK, Goto, Code, NoCode, Sending, SendSteps, VerifySteps,
        Outcomes
<1>1. UNCHANGED <<keys, mine, history>>
  BY DEF CompareCode
<1>2. CASE Goto(r, "failed")
  BY <1>1, <1>2 DEF keys, history
<1>3. CASE Goto(r, "expired")
  BY <1>1, <1>3 DEF keys, history
<1>4. CASE Goto(r, "incr")
  BY <1>1, <1>4 DEF keys, history
<1>5. CASE Goto(r, "del") /\ code # NoCode /\ code = mine[r]
  BY <1>1, <1>5 DEF keys, history
<1> QED
  BY <1>2, <1>3, <1>4, <1>5 DEF CompareCode

\* CountFailure: the counter stays within its bound.
LEMMA CountFailureTypes ==
  ASSUME TypeOK, NEW r \in Req, CountFailure(r)
  PROVE  TypeOK'
<1> USE ConstantsAssumption DEF TypeOK, Goto, Code, NoCode, Sending, SendSteps, VerifySteps,
        Outcomes
<1>1. UNCHANGED <<interval, code, mine, history>> /\ fail' \in 0 .. MaxFailCount
  BY DEF CountFailure
<1>2. CASE Goto(r, "expired")
  BY <1>1, <1>2 DEF keys, history
<1>3. CASE Goto(r, "invalid")
  BY <1>1, <1>3 DEF keys, history
<1> QED
  BY <1>2, <1>3 DEF CountFailure

\* StoreCode: what is stored is the code of the request.
LEMMA StoreCodeTypes ==
  ASSUME TypeOK, NEW r \in Req, StoreCode(r)
  PROVE  TypeOK'
<1> USE ConstantsAssumption DEF TypeOK, Goto, Code, NoCode, Sending, SendSteps, VerifySteps,
        Outcomes, StoreCode, Ended
<1>1. CASE code' = mine[r] /\ Goto(r, "clear")
  BY <1>1
<1>2. CASE code' = mine[r] /\ Goto(r, "failed")
  BY <1>2
<1>3. CASE code' = code /\ Goto(r, "failed")
  BY <1>3
<1> QED
  BY <1>1, <1>2, <1>3

\* No step takes a variable out of its type.
LEMMA TypeStep ==
  ASSUME TypeOK, [Next]_vars
  PROVE  TypeOK'
<1>1. ASSUME NEW r \in Req, SendOtp(r) PROVE TypeOK'
  BY <1>1, SendOtpTypes
<1>2. ASSUME NEW r \in Req, AcquireInterval(r) PROVE TypeOK'
  BY <1>2, AcquireIntervalTypes
<1>3. ASSUME NEW r \in Req, StoreCode(r) PROVE TypeOK'
  BY <1>3, StoreCodeTypes
<1>4. ASSUME NEW r \in Req, CompareCode(r) PROVE TypeOK'
  BY <1>4, CompareCodeTypes
<1>5. ASSUME NEW r \in Req, CountFailure(r) PROVE TypeOK'
  BY <1>5, CountFailureTypes
<1> USE ConstantsAssumption DEF TypeOK, Goto, Code, NoCode, Sending, SendSteps, VerifySteps, Outcomes
<1>6. ASSUME NEW r \in Req, SendCode(r) PROVE TypeOK'
  <2>1. UNCHANGED <<interval, code, fail, mine, sends, confirmed, outlived, over, accepted>>
    BY <1>6 DEF SendCode, keys
  <2>2. delivered' \subseteq Code
    <3>1. mine[r] \in Code
      BY <1>6 DEF SendCode
    <3> QED
      BY <1>6, <3>1 DEF SendCode
  <2>3. CASE Goto(r, "set")
    BY <1>6, <2>1, <2>2, <2>3 DEF SendCode
  <2>4. CASE Goto(r, "failed")
    BY <2>1, <2>2, <2>4
  <2> QED
    BY <1>6, <2>3, <2>4 DEF SendCode
<1>7. ASSUME NEW r \in Req, ClearFailures(r) PROVE TypeOK'
  <2>1. UNCHANGED <<interval, code, mine, sends, delivered, outlived, over, accepted>> /\ Goto(r, "sent")
    BY <1>7 DEF ClearFailures
  <2>2. fail' \in 0 .. MaxFailCount /\ confirmed' \subseteq Code
    <3>1. mine[r] \in Code
      BY <1>7 DEF ClearFailures
    <3>2. confirmed' = confirmed \cup {mine[r]}
      BY <1>7 DEF ClearFailures
    <3>3. fail' \in {0, fail}
      BY <1>7 DEF ClearFailures
    <3>4. fail' \in 0 .. MaxFailCount
      BY <3>3
    <3>5. confirmed' \subseteq Code
      BY <3>1, <3>2
    <3> QED
      BY <3>4, <3>5
  <2> QED
    BY <2>1, <2>2
<1>8. ASSUME NEW r \in Req, NEW input \in delivered \cup {NoCode}, VerifyOtp(r, input) PROVE TypeOK'
  BY <1>8 DEF VerifyOtp, keys, history
<1>9. ASSUME NEW r \in Req, UseCode(r) PROVE TypeOK'
  <2>1. UNCHANGED <<interval, fail, mine, sends, delivered, confirmed, outlived>>
    BY <1>9 DEF UseCode
  <2>2. code' \in Code \cup {NoCode} /\ over' \subseteq Code /\ accepted' \subseteq Code
    <3>1. mine[r] \in Code /\ code' \in {code, NoCode} /\ over' = over \cup ({code} \ {NoCode, code'})
      BY <1>9 DEF UseCode, Ended
    <3>2. accepted' \in {accepted, accepted \cup {mine[r]}}
      BY <1>9 DEF UseCode
    <3> QED
      BY <3>1, <3>2
  <2>3. CASE Goto(r, "delfail")
    BY <2>1, <2>2, <2>3
  <2>4. CASE Goto(r, "failed")
    BY <2>1, <2>2, <2>4
  <2> QED
    BY <1>9, <2>3, <2>4 DEF UseCode
<1>10. ASSUME NEW r \in Req, ForgetFailures(r) PROVE TypeOK'
  BY <1>10 DEF ForgetFailures, keys, history
<1>11. ASSUME NEW r \in Req, Answer(r) PROVE TypeOK'
  BY <1>11 DEF Answer, Forget, keys, history
<1>12. ASSUME NEW r \in Req, Crash(r) PROVE TypeOK'
  BY <1>12 DEF Crash, Forget, keys, history
<1>13. CASE IntervalExpires
  <2>1. \A r \in Req : pc[r] \in Sending => mine[r] \in Code
    OBVIOUS
  <2>2. outlived' \subseteq Code
    BY <1>13, <2>1 DEF IntervalExpires
  <2> QED
    BY <1>13, <2>2 DEF IntervalExpires
<1>14. CASE CodeExpires
  BY <1>14 DEF CodeExpires, Ended, keys, history
<1>15. CASE FailExpires
  BY <1>15 DEF FailExpires, keys, history
<1>16. CASE UNCHANGED vars
  BY <1>16 DEF vars, keys, history
<1> QED
  BY <1>1, <1>2, <1>3, <1>4, <1>5, <1>6, <1>7, <1>8, <1>9, <1>10, <1>11, <1>12, <1>13, <1>14, <1>15, <1>16 DEF Next

\* Every variable keeps its type; a request that sends has generated its code.
THEOREM TypeCorrect == Spec => []TypeOK
<1>1. Init => TypeOK
  BY ConstantsAssumption DEF Init, TypeOK, Code, NoCode, Outcomes, Sending, SendSteps, VerifySteps
<1>2. TypeOK /\ [Next]_vars => TypeOK'
  BY TypeStep
<1> QED
  BY <1>1, <1>2, PTL DEF Spec

-----------------------------------------------------------------------------
(* Whatever fails: only delivered codes are stored. *)

DeliveredInv ==
    /\ StoredWasDelivered
    /\ \A r \in Req : pc[r] = "set" => mine[r] \in delivered

\* No step stores a code that has not been delivered.
LEMMA DeliveredStep ==
  ASSUME TypeOK, DeliveredInv, [Next]_vars
  PROVE  DeliveredInv'
<1> USE ConstantsAssumption DEF TypeOK, Goto, DeliveredInv, StoredWasDelivered, Code, NoCode
<1>1. ASSUME NEW r \in Req, SendOtp(r) PROVE DeliveredInv'
  BY <1>1 DEF SendOtp, keys, history
<1>2. ASSUME NEW r \in Req, AcquireInterval(r) PROVE DeliveredInv'
  <2> USE AcquireEffect
  <2>1. \A q \in Req : pc'[q] = "set" => pc[q] = "set" /\ mine'[q] = mine[q]
    BY <1>2
  <2>2. UNCHANGED <<code, delivered>>
    BY <1>2
  <2> QED
    BY <2>1, <2>2
<1>3. ASSUME NEW r \in Req, SendCode(r) PROVE DeliveredInv'
  BY <1>3 DEF SendCode, keys, history
<1>4. ASSUME NEW r \in Req, StoreCode(r) PROVE DeliveredInv'
  BY <1>4 DEF StoreCode, Ended, keys, history
<1>5. ASSUME NEW r \in Req, ClearFailures(r) PROVE DeliveredInv'
  BY <1>5 DEF ClearFailures, keys, history
<1>6. ASSUME NEW r \in Req, NEW input \in delivered \cup {NoCode}, VerifyOtp(r, input) PROVE DeliveredInv'
  BY <1>6 DEF VerifyOtp, keys, history
<1>7. ASSUME NEW r \in Req, CompareCode(r) PROVE DeliveredInv'
  BY <1>7 DEF CompareCode, keys, history
<1>8. ASSUME NEW r \in Req, CountFailure(r) PROVE DeliveredInv'
  BY <1>8 DEF CountFailure, keys, history
<1>9. ASSUME NEW r \in Req, UseCode(r) PROVE DeliveredInv'
  BY <1>9 DEF UseCode, keys, history
<1>10. ASSUME NEW r \in Req, ForgetFailures(r) PROVE DeliveredInv'
  BY <1>10 DEF ForgetFailures, keys, history
<1>11. ASSUME NEW r \in Req, Answer(r) PROVE DeliveredInv'
  BY <1>11 DEF Answer, Forget, keys, history
<1>12. ASSUME NEW r \in Req, Crash(r) PROVE DeliveredInv'
  BY <1>12 DEF Crash, Forget, keys, history
<1>13. CASE IntervalExpires
  BY <1>13 DEF IntervalExpires, keys, history
<1>14. CASE CodeExpires
  BY <1>14 DEF CodeExpires, Ended, keys, history
<1>15. CASE FailExpires
  BY <1>15 DEF FailExpires, keys, history
<1>16. CASE UNCHANGED vars
  BY <1>16 DEF vars, keys, history
<1> QED
  BY <1>1, <1>2, <1>3, <1>4, <1>5, <1>6, <1>7, <1>8, <1>9, <1>10, <1>11, <1>12, <1>13, <1>14, <1>15, <1>16 DEF Next

\* StoredWasDelivered: with failing and dying requests, slow sends and overlaps.
THEOREM OnlyDeliveredStored == Spec => []StoredWasDelivered
<1>1. Init => DeliveredInv
  BY DEF Init, DeliveredInv, StoredWasDelivered
<1>2. TypeOK /\ DeliveredInv /\ [Next]_vars => DeliveredInv'
  BY DeliveredStep
<1>3. DeliveredInv => StoredWasDelivered
  BY DEF DeliveredInv
<1> QED
  BY <1>1, <1>2, <1>3, TypeCorrect, PTL DEF Spec


-----------------------------------------------------------------------------
(* The interval key keeps the rounds apart that it outlasts. *)

\* A round whose interval did not run out holds the key and has the newest code, and no
\* two rounds have the same code.
RoundInv ==
    /\ \A r \in Req : pc[r] \in Sending /\ mine[r] \notin outlived => interval = 1 /\ mine[r] = sends
    /\ \A r, q \in Req : pc[r] \in Sending /\ pc[q] \in Sending /\ mine[r] = mine[q] => r = q

\* AcquireInterval starts a round only when all others have outlived their intervals.
LEMMA AcquireIntervalRound ==
  ASSUME TypeOK, RoundInv, NEW r \in Req, AcquireInterval(r)
  PROVE  RoundInv'
<1> USE AcquireEffect, ConstantsAssumption DEF TypeOK, Goto, Code, NoCode, Sending, SendSteps,
        VerifySteps, Outcomes, RoundInv
<1>1. CASE mine' = mine /\ sends' = sends /\ pc' = [pc EXCEPT ![r] = "failed"]
  BY <1>1
<1>2. CASE /\ sends' = sends + 1 /\ mine' = [mine EXCEPT ![r] = sends + 1]
           /\ pc' = [pc EXCEPT ![r] = "send"] /\ interval = 0 /\ interval' = 1
  <2>1. \A q \in Req \ {r} : /\ mine'[q] = mine[q] /\ pc'[q] = pc[q]
                             /\ pc[q] \in Sending => mine[q] \in outlived /\ mine[q] # sends + 1
    BY <1>2
  <2>2. mine'[r] = sends' /\ pc'[r] = "send" /\ outlived' = outlived
    BY <1>2
  <2> QED
    BY <1>2, <2>1, <2>2
<1> QED
  BY <1>1, <1>2

\* No step puts a round next to another one that still has its interval.
LEMMA RoundStep ==
  ASSUME TypeOK, RoundInv, [Next]_vars
  PROVE  RoundInv'
<1> USE ConstantsAssumption DEF TypeOK, Goto, Code, NoCode, Sending, SendSteps, VerifySteps, Outcomes,
        RoundInv
<1>1. ASSUME NEW r \in Req, SendOtp(r) PROVE RoundInv'
  BY <1>1 DEF SendOtp, keys, history
<1>2. ASSUME NEW r \in Req, AcquireInterval(r) PROVE RoundInv'
  BY <1>2, AcquireIntervalRound
<1>3. ASSUME NEW r \in Req, SendCode(r) PROVE RoundInv'
  BY <1>3 DEF SendCode, keys, history
<1>4. ASSUME NEW r \in Req, StoreCode(r) PROVE RoundInv'
  BY <1>4 DEF StoreCode, Ended, keys, history
<1>5. ASSUME NEW r \in Req, ClearFailures(r) PROVE RoundInv'
  BY <1>5 DEF ClearFailures, keys, history
<1>6. ASSUME NEW r \in Req, NEW input \in delivered \cup {NoCode}, VerifyOtp(r, input) PROVE RoundInv'
  BY <1>6 DEF VerifyOtp, keys, history
<1>7. ASSUME NEW r \in Req, CompareCode(r) PROVE RoundInv'
  BY <1>7 DEF CompareCode, keys, history
<1>8. ASSUME NEW r \in Req, CountFailure(r) PROVE RoundInv'
  BY <1>8 DEF CountFailure, keys, history
<1>9. ASSUME NEW r \in Req, UseCode(r) PROVE RoundInv'
  BY <1>9 DEF UseCode, Ended, keys, history
<1>10. ASSUME NEW r \in Req, ForgetFailures(r) PROVE RoundInv'
  BY <1>10 DEF ForgetFailures, keys, history
<1>11. ASSUME NEW r \in Req, Answer(r) PROVE RoundInv'
  BY <1>11 DEF Answer, Forget, keys, history
<1>12. ASSUME NEW r \in Req, Crash(r) PROVE RoundInv'
  BY <1>12 DEF Crash, Forget, keys, history
<1>13. CASE IntervalExpires
  BY <1>13 DEF IntervalExpires, keys, history
<1>14. CASE CodeExpires
  BY <1>14 DEF CodeExpires, Ended, keys, history
<1>15. CASE FailExpires
  BY <1>15 DEF FailExpires, keys, history
<1>16. CASE UNCHANGED vars
  BY <1>16 DEF vars, keys, history
<1> QED
  BY <1>1, <1>2, <1>3, <1>4, <1>5, <1>6, <1>7, <1>8, <1>9, <1>10, <1>11,
     <1>12, <1>13, <1>14, <1>15, <1>16 DEF Next

\* SendsSpaced: whatever fails and however requests overlap, two codes are on their way to
\* the receiver only when one of them has outlived its interval.
THEOREM SendsApart == Spec => []SendsSpaced
<1>1. Init => RoundInv
  BY DEF Init, RoundInv, Sending
<1>2. TypeOK /\ RoundInv /\ [Next]_vars => RoundInv'
  BY RoundStep
<1>3. RoundInv => SendsSpaced
  BY DEF RoundInv, SendsSpaced
<1> QED
  BY <1>1, <1>2, <1>3, TypeCorrect, PTL DEF Spec

-----------------------------------------------------------------------------
(* A code is stored once. *)

Stored == over \cup {code}

\* A code on its way was never stored, and one that is being confirmed or used was; the
\* stored one is not over, and those that were accepted are.
StoredInv ==
    /\ code \notin over
    /\ \A c \in Stored \cup delivered : c <= sends
    /\ confirmed \subseteq Stored
    /\ accepted \subseteq over
    /\ \A r \in Req :
        /\ pc[r] = "send" => mine[r] \notin delivered
        /\ pc[r] \in {"send", "set"} => mine[r] \notin Stored
        /\ pc[r] \in {"clear", "del"} => mine[r] \in Stored

\* AcquireInterval: the new code was never stored or delivered.
LEMMA AcquireIntervalStored ==
  ASSUME TypeOK, StoredInv, NEW r \in Req, AcquireInterval(r)
  PROVE  StoredInv'
<1> USE AcquireEffect, ConstantsAssumption DEF TypeOK, Goto, Code, NoCode, Sending, SendSteps,
        VerifySteps, Outcomes, StoredInv, Stored
<1>1. CASE mine' = mine /\ sends' = sends /\ pc' = [pc EXCEPT ![r] = "failed"]
  <2>1. UNCHANGED <<code, over, delivered, confirmed, accepted, mine, sends>>
    BY <1>1
  <2>2. \A q \in Req : pc'[q] \in {"send", "set", "clear", "del"} => pc'[q] = pc[q]
    BY <1>1
  <2> QED
    BY <2>1, <2>2
<1>2. CASE /\ sends' = sends + 1 /\ mine' = [mine EXCEPT ![r] = sends + 1]
           /\ pc' = [pc EXCEPT ![r] = "send"]
  <2>1. UNCHANGED <<code, over, delivered, confirmed, accepted>>
    OBVIOUS
  <2>2. \A c \in Stored \cup delivered : c <= sends' /\ c # sends + 1
    BY <1>2
  <2>3. \A q \in Req \ {r} : mine'[q] = mine[q] /\ pc'[q] = pc[q]
    BY <1>2
  <2>4. mine'[r] = sends + 1 /\ pc'[r] = "send"
    BY <1>2
  <2> QED
    BY <2>1, <2>2, <2>3, <2>4
<1> QED
  BY <1>1, <1>2

\* StoreCode: no other round stores this code.
LEMMA StoreCodeStored ==
  ASSUME TypeOK, RoundInv, StoredInv, NEW r \in Req, StoreCode(r)
  PROVE  StoredInv'
<1> USE DEF TypeOK, Goto, Code, NoCode, Sending, SendSteps, VerifySteps, Outcomes, RoundInv,
        StoredInv, Stored
<1>1. /\ pc[r] = "set" /\ mine[r] \in Code /\ mine[r] \notin Stored /\ mine[r] <= sends
      /\ UNCHANGED <<mine, sends, delivered, confirmed, accepted>>
      /\ \A q \in Req : pc'[q] \in {"send", "set"} => q # r /\ mine[q] # mine[r]
      /\ \A q \in Req \ {r} : pc'[q] = pc[q]
      /\ pc'[r] \in {"clear", "failed"}
  BY DEF StoreCode
<1>2. CASE code' = mine[r]
  <2>1. over' = over \cup ({code} \ {NoCode})
    BY <1>1, <1>2 DEF StoreCode, Ended
  <2>2. code' \notin over' /\ \A c \in over' \cup {code'} : c <= sends
    BY <1>1, <1>2, <2>1
  <2>3. confirmed' \subseteq over' \cup {code'} /\ accepted' \subseteq over'
    BY <1>1, <2>1
  <2> QED
    BY <1>1, <1>2, <2>1, <2>2, <2>3
<1>3. CASE code' = code /\ pc'[r] = "failed"
  <2>1. over' = over
    BY <1>3 DEF StoreCode, Ended
  <2> QED
    BY <1>1, <1>3, <2>1
<1> QED
  BY <1>2, <1>3 DEF StoreCode

\* UseCode: whatever is stored ends, and the code accepted is over.
LEMMA UseCodeStored ==
  ASSUME TypeOK, StoredInv, NEW r \in Req, UseCode(r)
  PROVE  StoredInv'
<1> USE DEF TypeOK, Goto, Code, NoCode, Sending, SendSteps, VerifySteps, Outcomes, StoredInv, Stored
<1>1. /\ pc[r] = "del" /\ mine[r] \in Code /\ mine[r] \in Stored
      /\ UNCHANGED <<mine, sends, delivered, confirmed>>
      /\ \A q \in Req \ {r} : pc'[q] = pc[q]
      /\ pc'[r] \in {"delfail", "failed"}
  BY DEF UseCode
<1>2. CASE code' = NoCode /\ accepted' \subseteq accepted \cup {mine[r]}
  <2>1. over' = over \cup ({code} \ {NoCode})
    BY <1>2 DEF UseCode, Ended
  <2>2. confirmed' \subseteq over' /\ accepted' \subseteq over' /\ mine[r] \in over'
    BY <1>1, <1>2, <2>1
  <2>3. \A c \in over' \cup {code'} : c <= sends
    BY <1>1, <1>2, <2>1, ConstantsAssumption
  <2> QED
    BY <1>1, <1>2, <2>1, <2>2, <2>3
<1>3. CASE code' = code /\ accepted' = accepted
  <2>1. over' = over
    BY <1>3 DEF UseCode, Ended
  <2> QED
    BY <1>1, <1>3, <2>1
<1> QED
  BY <1>2, <1>3 DEF UseCode

\* CodeExpires: the code is over.
LEMMA CodeExpiresStored ==
  ASSUME TypeOK, StoredInv, CodeExpires
  PROVE  StoredInv'
<1> USE DEF TypeOK, Code, NoCode, StoredInv, Stored
<1>1. /\ code # NoCode /\ code' = NoCode /\ over' = over \cup {code}
      /\ UNCHANGED <<pc, mine, sends, delivered, confirmed, accepted>>
  BY DEF CodeExpires, Ended
<1>2. code' \notin over' /\ \A c \in over' \cup {code'} : c \in Stored \cup {NoCode}
  BY <1>1
<1>3. \A c \in Stored' \cup delivered' : c <= sends'
  BY <1>1, <1>2, ConstantsAssumption
<1>4. \A r \in Req : /\ pc[r] \in {"send", "set"} => mine[r] \notin Stored'
                     /\ pc[r] \in {"clear", "del"} => mine[r] \in Stored'
  <2>1. Stored' = Stored \cup {NoCode}
    BY <1>1
  <2>2. \A r \in Req : pc[r] \in {"send", "set"} => mine[r] # NoCode
    BY DEF Sending
  <2> QED
    BY <2>1, <2>2
<1>5. confirmed' \subseteq Stored' /\ accepted' \subseteq over'
  BY <1>1
<1> QED
  BY <1>1, <1>2, <1>3, <1>4, <1>5

\* No step stores a code again.
LEMMA StoredStep ==
  ASSUME TypeOK, RoundInv, StoredInv, [Next]_vars
  PROVE  StoredInv'
<1> USE ConstantsAssumption DEF TypeOK, Goto, Code, NoCode, Sending, SendSteps, VerifySteps, Outcomes,
        RoundInv, StoredInv, Stored
<1>1. ASSUME NEW r \in Req, SendOtp(r) PROVE StoredInv'
  BY <1>1 DEF SendOtp, keys, history
<1>2. ASSUME NEW r \in Req, AcquireInterval(r) PROVE StoredInv'
  BY <1>2, AcquireIntervalStored
<1>3. ASSUME NEW r \in Req, SendCode(r) PROVE StoredInv'
  BY <1>3 DEF SendCode, keys, history
<1>4. ASSUME NEW r \in Req, StoreCode(r) PROVE StoredInv'
  BY <1>4, StoreCodeStored
<1>5. ASSUME NEW r \in Req, ClearFailures(r) PROVE StoredInv'
  <2>1. /\ UNCHANGED <<code, over, delivered, accepted, mine, sends>>
        /\ pc[r] = "clear" /\ pc' = [pc EXCEPT ![r] = "sent"]
        /\ confirmed' = confirmed \cup {mine[r]}
    BY <1>5 DEF ClearFailures
  <2>2. confirmed' \subseteq Stored'
    BY <2>1
  <2>3. \A q \in Req : pc'[q] \in {"send", "set", "clear", "del"} => pc'[q] = pc[q]
    BY <2>1
  <2> QED
    BY <2>1, <2>2, <2>3
<1>6. ASSUME NEW r \in Req, NEW input \in delivered \cup {NoCode}, VerifyOtp(r, input) PROVE StoredInv'
  BY <1>6 DEF VerifyOtp, keys, history
<1>7. ASSUME NEW r \in Req, CompareCode(r) PROVE StoredInv'
  BY <1>7 DEF CompareCode, keys, history
<1>8. ASSUME NEW r \in Req, CountFailure(r) PROVE StoredInv'
  BY <1>8 DEF CountFailure, keys, history
<1>9. ASSUME NEW r \in Req, UseCode(r) PROVE StoredInv'
  BY <1>9, UseCodeStored
<1>10. ASSUME NEW r \in Req, ForgetFailures(r) PROVE StoredInv'
  BY <1>10 DEF ForgetFailures, keys, history
<1>11. ASSUME NEW r \in Req, Answer(r) PROVE StoredInv'
  BY <1>11 DEF Answer, Forget, keys, history
<1>12. ASSUME NEW r \in Req, Crash(r) PROVE StoredInv'
  BY <1>12 DEF Crash, Forget, keys, history
<1>13. CASE IntervalExpires
  BY <1>13 DEF IntervalExpires, keys, history
<1>14. CASE CodeExpires
  BY <1>14, CodeExpiresStored
<1>15. CASE FailExpires
  BY <1>15 DEF FailExpires, keys, history
<1>16. CASE UNCHANGED vars
  BY <1>16 DEF vars, keys, history
<1> QED
  BY <1>1, <1>2, <1>3, <1>4, <1>5, <1>6, <1>7, <1>8, <1>9, <1>10, <1>11,
     <1>12, <1>13, <1>14, <1>15, <1>16 DEF Next

\* AcceptedCodeEnds: whatever fails and overlaps, a code that was accepted is never
\* again in the store.
THEOREM AcceptedGone == Spec => []AcceptedCodeEnds
<1>1. Init => RoundInv /\ StoredInv
  BY ConstantsAssumption DEF Init, RoundInv, StoredInv, Stored, Sending, NoCode
<1>2. TypeOK /\ RoundInv /\ StoredInv /\ [Next]_vars => RoundInv' /\ StoredInv'
  BY RoundStep, StoredStep
<1>3. StoredInv => AcceptedCodeEnds
  BY DEF StoredInv, AcceptedCodeEnds
<1> QED
  BY <1>1, <1>2, <1>3, TypeCorrect, PTL DEF Spec

-----------------------------------------------------------------------------
(* What is stored is the newest code, unless it outlived its interval. *)

LEMMA NewestStep ==
  ASSUME TypeOK, RoundInv, StoredInv, NewestCodeStored, [Next]_vars
  PROVE  NewestCodeStored'
<1> USE ConstantsAssumption DEF TypeOK, Code, NoCode, NewestCodeStored
<1>1. ASSUME NEW r \in Req, StoreCode(r) PROVE NewestCodeStored'
  <2>1. pc[r] = "set" /\ UNCHANGED outlived
    BY <1>1 DEF StoreCode
  <2>2. CASE code' = code
    BY <1>1, <2>1, <2>2 DEF StoreCode, Ended
  <2>3. CASE code' = mine[r] /\ mine[r] \notin outlived
    <3>1. mine[r] = sends /\ mine[r] \notin Stored
      BY <2>1, <2>3 DEF RoundInv, StoredInv, Sending
    <3>2. over' \subseteq Stored
      BY <1>1 DEF StoreCode, Ended, Stored
    <3>3. \A c \in over' : c <= sends /\ c # sends
      BY <3>1, <3>2 DEF StoredInv
    <3>4. over' \subseteq Code
      BY <1>1 DEF StoreCode, Ended
    <3>5. \A c \in over' : c < sends
      BY <3>3, <3>4
    <3> QED
      BY <2>3, <3>1, <3>5
  <2>4. CASE code' = mine[r] /\ mine[r] \in outlived
    BY <2>1, <2>4
  <2> QED
    BY <1>1, <2>2, <2>3, <2>4 DEF StoreCode
<1>2. ASSUME NEW r \in Req, UseCode(r) PROVE NewestCodeStored'
  <2>1. CASE code' = NoCode
    BY <2>1
  <2>2. CASE code' = code
    BY <1>2, <2>2 DEF UseCode, Ended
  <2> QED
    BY <1>2, <2>1, <2>2 DEF UseCode
<1>3. CASE CodeExpires
  BY <1>3 DEF CodeExpires
<1>4. CASE IntervalExpires
  BY <1>4 DEF IntervalExpires
<1>5. ASSUME UNCHANGED <<code, over, outlived>> PROVE NewestCodeStored'
  BY <1>5
<1>6. ASSUME NEW r \in Req, SendOtp(r) PROVE UNCHANGED <<code, over, outlived>>
  BY <1>6 DEF SendOtp, keys, history
<1>7. ASSUME NEW r \in Req, AcquireInterval(r) PROVE UNCHANGED <<code, over, outlived>>
  BY <1>7, AcquireEffect
<1>8. ASSUME NEW r \in Req, SendCode(r) PROVE UNCHANGED <<code, over, outlived>>
  BY <1>8 DEF SendCode, keys
<1>9. ASSUME NEW r \in Req, ClearFailures(r) PROVE UNCHANGED <<code, over, outlived>>
  BY <1>9 DEF ClearFailures
<1>10. ASSUME NEW r \in Req, NEW input \in delivered \cup {NoCode}, VerifyOtp(r, input)
       PROVE UNCHANGED <<code, over, outlived>>
  BY <1>10 DEF VerifyOtp, keys, history
<1>11. ASSUME NEW r \in Req, CompareCode(r) PROVE UNCHANGED <<code, over, outlived>>
  BY <1>11 DEF CompareCode, keys, history
<1>12. ASSUME NEW r \in Req, CountFailure(r) PROVE UNCHANGED <<code, over, outlived>>
  BY <1>12 DEF CountFailure, history
<1>13. ASSUME NEW r \in Req, ForgetFailures(r) PROVE UNCHANGED <<code, over, outlived>>
  BY <1>13 DEF ForgetFailures, history
<1>14. ASSUME NEW r \in Req, Answer(r) \/ Crash(r) PROVE UNCHANGED <<code, over, outlived>>
  BY <1>14 DEF Answer, Crash, Forget, keys, history
<1>15. ASSUME FailExpires \/ UNCHANGED vars PROVE UNCHANGED <<code, over, outlived>>
  BY <1>15 DEF FailExpires, vars, keys, history
<1> QED
  BY <1>1, <1>2, <1>3, <1>4, <1>5, <1>6, <1>7, <1>8, <1>9, <1>10, <1>11, <1>12, <1>13, <1>14, <1>15
     DEF Next

\* NewestCodeStored: whatever fails and overlaps, only a code that outlived its interval
\* ever takes the place of a newer one.
THEOREM NewestStored == Spec => []NewestCodeStored
<1>1. Init => RoundInv /\ StoredInv /\ NewestCodeStored
  BY ConstantsAssumption DEF Init, RoundInv, StoredInv, Stored, Sending, NoCode, NewestCodeStored
<1>2. TypeOK /\ RoundInv /\ StoredInv /\ NewestCodeStored /\ [Next]_vars
        => RoundInv' /\ StoredInv' /\ NewestCodeStored'
  BY RoundStep, StoredStep, NewestStep
<1> QED
  BY <1>1, <1>2, TypeCorrect, PTL DEF Spec

-----------------------------------------------------------------------------
(* The refinement of CodeStore. *)

\* The invariants that the refinement rests on.
CodesInv == TypeOK /\ RoundInv /\ DeliveredInv /\ StoredInv

LEMMA CodesCorrect == Spec => []CodesInv
<1>1. Init => RoundInv /\ DeliveredInv /\ StoredInv
  BY ConstantsAssumption DEF Init, RoundInv, DeliveredInv, StoredWasDelivered, StoredInv, Stored,
     Sending, NoCode
<1>2. TypeOK /\ RoundInv /\ DeliveredInv /\ StoredInv /\ [Next]_vars
        => RoundInv' /\ DeliveredInv' /\ StoredInv'
  BY RoundStep, DeliveredStep, StoredStep
<1>3. TypeOK /\ RoundInv /\ DeliveredInv /\ StoredInv => CodesInv
  BY DEF CodesInv
<1> QED
  BY <1>1, <1>2, <1>3, TypeCorrect, PTL DEF Spec

Usable == {code} \ {NoCode}
Holds == [r \in Req |-> IF pc[r] = "del" THEN {mine[r]} ELSE {}]
CodeVars == <<delivered, Usable, over, Holds, accepted, confirmed>>

\* A step that leaves the codes, and those that are held, is a stutter.
LEMMA CodesStutter ==
  ASSUME UNCHANGED <<code, delivered, over, accepted, confirmed>>, Holds' = Holds
  PROVE  UNCHANGED CodeVars
BY DEF CodeVars, Usable, NoCode

\* A request that neither takes hold of a code nor lets one go leaves what is held.
LEMMA HoldsSame ==
  ASSUME TypeOK, NEW r \in Req, NEW label, label # "del", pc' = [pc EXCEPT ![r] = label], pc[r] # "del",
         \A q \in Req \ {r} : mine'[q] = mine[q]
  PROVE  Holds' = Holds
<1>1. \A q \in Req : /\ pc'[q] = "del" <=> pc[q] = "del"
                     /\ pc[q] = "del" => mine'[q] = mine[q]
  BY DEF TypeOK
<1> QED
  BY <1>1 DEF Holds

\* A request that lets its code go holds nothing more, the others what they held.
LEMMA HoldsLeft ==
  ASSUME TypeOK, NEW r \in Req, NEW label, label # "del", pc' = [pc EXCEPT ![r] = label],
         \A q \in Req \ {r} : mine'[q] = mine[q]
  PROVE  Holds' = [Holds EXCEPT ![r] = {}]
BY DEF Holds, TypeOK

\* SendCode is Receive, or nothing when the message did not go out.
LEMMA SendCodeMaps ==
  ASSUME CodesInv, NEW r \in Req, SendCode(r)
  PROVE  Codes!CodeNext \/ UNCHANGED CodeVars
<1>1. /\ pc[r] = "send" /\ mine[r] \in Code
      /\ mine[r] \notin Stored \cup delivered
      /\ delivered' \in {delivered, delivered \cup {mine[r]}}
      /\ UNCHANGED <<code, over, accepted, confirmed, mine>>
  BY ConstantsAssumption DEF SendCode, keys, CodesInv, StoredInv, TypeOK, Code, Sending
<1>2. Holds' = Holds
  BY <1>1, HoldsSame DEF SendCode, Goto, CodesInv
<1>3. CASE delivered' = delivered
  BY <1>1, <1>2, <1>3, CodesStutter
<1>4. CASE delivered' = delivered \cup {mine[r]}
  <2>1. Codes!Receive(mine[r])
    BY <1>1, <1>2, <1>4 DEF Codes!Receive, Holds, Stored
  <2> QED
    BY <1>1, <2>1 DEF Codes!CodeNext
<1> QED
  BY <1>1, <1>3, <1>4

\* StoreCode is Issue, or nothing when the SET was not done.
LEMMA StoreCodeMaps ==
  ASSUME CodesInv, NEW r \in Req, StoreCode(r)
  PROVE  Codes!CodeNext \/ UNCHANGED CodeVars
<1>1. /\ pc[r] = "set" /\ mine[r] \in Code /\ mine[r] \in delivered
      /\ mine[r] \notin Stored
      /\ UNCHANGED <<delivered, accepted, confirmed, mine>>
      /\ code' \in {code, mine[r]} /\ over' = over \cup ({code} \ {NoCode, code'})
  BY ConstantsAssumption DEF StoreCode, Ended, CodesInv, DeliveredInv, StoredInv, TypeOK, Code, Sending
<1>2. Holds' = Holds
  BY <1>1, HoldsSame DEF StoreCode, Goto, CodesInv
<1>3. CASE code' = code
  <2>1. over' = over
    BY <1>1, <1>3
  <2> QED
    BY <1>1, <1>2, <1>3, <2>1, CodesStutter
<1>4. CASE code' = mine[r]
  <2>1. Usable' = {mine[r]} /\ over' = over \cup Usable /\ mine[r] \notin Usable \cup over
    BY <1>1, <1>4 DEF Usable, Stored, Code, NoCode
  <2>2. Codes!Issue(mine[r])
    BY <1>1, <1>2, <2>1 DEF Codes!Issue, Holds, Usable
  <2> QED
    BY <1>1, <2>2 DEF Codes!CodeNext
<1> QED
  BY <1>1, <1>3, <1>4

\* ClearFailures is Announce: the code was stored.
LEMMA ClearFailuresMaps ==
  ASSUME CodesInv, NEW r \in Req, ClearFailures(r)
  PROVE  Codes!CodeNext \/ UNCHANGED CodeVars
<1>1. /\ pc[r] = "clear" /\ mine[r] \in Code /\ mine[r] \in Stored
      /\ UNCHANGED <<code, over, delivered, accepted, mine>>
      /\ confirmed' = confirmed \cup {mine[r]}
  BY ConstantsAssumption DEF ClearFailures, CodesInv, StoredInv, TypeOK, Code, Sending
<1>2. Holds' = Holds
  BY <1>1, HoldsSame DEF ClearFailures, Goto, CodesInv
<1>3. CASE mine[r] \in confirmed
  <2>1. confirmed' = confirmed
    BY <1>1, <1>3
  <2> QED
    BY <1>1, <1>2, <2>1, CodesStutter
<1>4. CASE mine[r] \notin confirmed
  <2>1. mine[r] \in Usable \cup over
    BY <1>1 DEF Stored, Usable, Code, NoCode
  <2>2. Codes!Announce(mine[r])
    BY <1>1, <1>2, <1>4, <2>1 DEF Codes!Announce, Holds, Usable
  <2> QED
    BY <1>1, <2>2 DEF Codes!CodeNext
<1> QED
  BY <1>3, <1>4

\* CompareCode is Hold when the code is the stored one.
LEMMA CompareCodeMaps ==
  ASSUME CodesInv, NEW r \in Req, CompareCode(r)
  PROVE  Codes!CodeNext \/ UNCHANGED CodeVars
<1>1. /\ pc[r] = "get" /\ UNCHANGED <<code, over, delivered, accepted, confirmed, mine>>
      /\ \E label \in {"expired", "incr", "del", "failed"} :
            /\ pc' = [pc EXCEPT ![r] = label]
            /\ label = "del" => code # NoCode /\ code = mine[r]
  <2>1. pc[r] = "get" /\ UNCHANGED <<code, over, delivered, accepted, confirmed, mine>>
    BY DEF CompareCode, keys, history
  <2>2. \/ pc' = [pc EXCEPT ![r] = "failed"]
        \/ pc' = [pc EXCEPT ![r] = "expired"]
        \/ pc' = [pc EXCEPT ![r] = "incr"]
        \/ pc' = [pc EXCEPT ![r] = "del"] /\ code # NoCode /\ code = mine[r]
    BY DEF CompareCode, Goto
  <2> QED
    BY <2>1, <2>2
<1>2. PICK label \in {"expired", "incr", "del", "failed"} :
            /\ pc' = [pc EXCEPT ![r] = label]
            /\ label = "del" => code # NoCode /\ code = mine[r]
  BY <1>1
<1>3. CASE label # "del"
  BY <1>1, <1>2, <1>3, HoldsSame, CodesStutter DEF CodesInv
<1>4. CASE label = "del"
  <2>1. Holds[r] = {} /\ Usable = {mine[r]}
    BY <1>1, <1>2, <1>4 DEF Holds, Usable
  <2>2. Holds' = [Holds EXCEPT ![r] = {mine[r]}]
    BY <1>1, <1>2, <1>4 DEF Holds, CodesInv, TypeOK
  <2>3. Codes!Hold(r)
    BY <1>1, <2>1, <2>2 DEF Codes!Hold, Holds, Usable
  <2> QED
    BY <2>3 DEF Codes!CodeNext
<1> QED
  BY <1>3, <1>4

\* UseCode is Use, or Fail after an error.
LEMMA UseCodeMaps ==
  ASSUME CodesInv, NEW r \in Req, UseCode(r)
  PROVE  Codes!CodeNext \/ UNCHANGED CodeVars
<1>1. /\ pc[r] = "del" /\ UNCHANGED <<delivered, confirmed, mine>>
      /\ over' = over \cup ({code} \ {NoCode, code'})
  BY DEF UseCode, Ended
<1>2. Holds[r] = {mine[r]} /\ Holds' = [Holds EXCEPT ![r] = {}]
  <2>1. Holds[r] = {mine[r]}
    BY <1>1 DEF Holds
  <2>2. Holds' = [Holds EXCEPT ![r] = {}]
    BY <1>1, HoldsLeft DEF UseCode, Goto, CodesInv
  <2> QED
    BY <2>1, <2>2
<1>3. ASSUME code' = NoCode PROVE Usable' = {} /\ over' = over \cup Usable
  BY <1>1, <1>3 DEF Usable
<1>4. CASE code' = NoCode /\ accepted' = accepted \cup {mine[r]}
  <2>1. Codes!Use(r)
    BY <1>1, <1>2, <1>3, <1>4 DEF Codes!Use, Holds, Usable
  <2> QED
    BY <2>1 DEF Codes!CodeNext
<1>5. CASE code' = NoCode /\ accepted' = accepted
  <2>1. Codes!Fail(r)
    BY <1>1, <1>2, <1>3, <1>5 DEF Codes!Fail, Holds, Usable
  <2> QED
    BY <2>1 DEF Codes!CodeNext
<1>6. CASE code' = code /\ accepted' = accepted
  <2>1. over' = over /\ Usable' = Usable
    BY <1>1, <1>6 DEF Usable, NoCode
  <2>2. Codes!Fail(r)
    BY <1>1, <1>2, <1>6, <2>1 DEF Codes!Fail, Holds, Usable
  <2> QED
    BY <2>2 DEF Codes!CodeNext
<1> QED
  BY <1>4, <1>5, <1>6 DEF UseCode

\* Crash is Fail when the request held a code.
LEMMA CrashMaps ==
  ASSUME CodesInv, NEW r \in Req, Crash(r)
  PROVE  Codes!CodeNext \/ UNCHANGED CodeVars
<1>1. /\ UNCHANGED <<code, over, delivered, accepted, confirmed>>
      /\ pc' = [pc EXCEPT ![r] = "idle"]
      /\ \A q \in Req \ {r} : mine'[q] = mine[q]
  BY DEF Crash, Forget, Goto, keys, history, CodesInv, TypeOK
<1>2. CASE pc[r] # "del"
  BY <1>1, <1>2, HoldsSame, CodesStutter DEF CodesInv
<1>3. CASE pc[r] = "del"
  <2>1. Holds[r] = {mine[r]} /\ Holds' = [Holds EXCEPT ![r] = {}]
    BY <1>1, <1>3, HoldsLeft DEF Holds, CodesInv
  <2>2. Usable' = Usable
    BY <1>1 DEF Usable, NoCode
  <2>3. Codes!Fail(r)
    BY <1>1, <2>1, <2>2 DEF Codes!Fail, Holds, Usable
  <2> QED
    BY <2>3 DEF Codes!CodeNext
<1> QED
  BY <1>2, <1>3

\* CodeExpires is Lapse.
LEMMA CodeExpiresMaps ==
  ASSUME CodesInv, CodeExpires
  PROVE  Codes!CodeNext
<1>1. /\ code # NoCode /\ code' = NoCode /\ over' = over \cup {code}
      /\ UNCHANGED <<pc, mine, delivered, accepted, confirmed>>
  BY DEF CodeExpires, Ended
<1>2. Usable = {code} /\ Usable' = {} /\ Holds' = Holds
  BY <1>1 DEF Usable, Holds
<1>3. Codes!Lapse
  BY <1>1, <1>2 DEF Codes!Lapse, Holds, Usable
<1> QED
  BY <1>3 DEF Codes!CodeNext

\* Every step of the use case is a step of CodeStore or a stutter.
LEMMA CodesStep ==
  ASSUME CodesInv, [Next]_vars
  PROVE  Codes!CodeNext \/ UNCHANGED CodeVars
<1>1. ASSUME NEW r \in Req, SendCode(r) PROVE Codes!CodeNext \/ UNCHANGED CodeVars
  BY <1>1, SendCodeMaps
<1>2. ASSUME NEW r \in Req, StoreCode(r) PROVE Codes!CodeNext \/ UNCHANGED CodeVars
  BY <1>2, StoreCodeMaps
<1>3. ASSUME NEW r \in Req, ClearFailures(r) PROVE Codes!CodeNext \/ UNCHANGED CodeVars
  BY <1>3, ClearFailuresMaps
<1>4. ASSUME NEW r \in Req, CompareCode(r) PROVE Codes!CodeNext \/ UNCHANGED CodeVars
  BY <1>4, CompareCodeMaps
<1>5. ASSUME NEW r \in Req, UseCode(r) PROVE Codes!CodeNext \/ UNCHANGED CodeVars
  BY <1>5, UseCodeMaps
<1>6. ASSUME NEW r \in Req, Crash(r) PROVE Codes!CodeNext \/ UNCHANGED CodeVars
  BY <1>6, CrashMaps
<1>7. CASE CodeExpires
  BY <1>7, CodeExpiresMaps
<1> USE HoldsSame, CodesStutter DEF CodesInv, Goto, keys, history
<1>8. ASSUME NEW r \in Req, SendOtp(r) PROVE UNCHANGED CodeVars
  BY <1>8 DEF SendOtp
<1>9. ASSUME NEW r \in Req, AcquireInterval(r) PROVE UNCHANGED CodeVars
  <2>1. pc[r] = "setnx" /\ UNCHANGED <<code, over, delivered, accepted, confirmed>>
    BY <1>9, AcquireEffect
  <2>2. \A q \in Req \ {r} : mine'[q] = mine[q]
    BY <1>9, AcquireEffect DEF TypeOK
  <2>3. pc' = [pc EXCEPT ![r] = "send"] \/ pc' = [pc EXCEPT ![r] = "failed"]
    BY <1>9, AcquireEffect
  <2> QED
    BY <2>1, <2>2, <2>3
<1>10. ASSUME NEW r \in Req, NEW input \in delivered \cup {NoCode}, VerifyOtp(r, input)
      PROVE UNCHANGED CodeVars
  BY <1>10 DEF VerifyOtp, TypeOK
<1>11. ASSUME NEW r \in Req, CountFailure(r) PROVE UNCHANGED CodeVars
  <2>1. pc[r] = "incr" /\ UNCHANGED <<code, over, delivered, accepted, confirmed, mine>>
    BY <1>11 DEF CountFailure
  <2>2. pc' = [pc EXCEPT ![r] = "expired"] \/ pc' = [pc EXCEPT ![r] = "invalid"]
    BY <1>11 DEF CountFailure
  <2> QED
    BY <2>1, <2>2
<1>12. ASSUME NEW r \in Req, ForgetFailures(r) PROVE UNCHANGED CodeVars
  BY <1>12 DEF ForgetFailures
<1>13. ASSUME NEW r \in Req, Answer(r) PROVE UNCHANGED CodeVars
  BY <1>13 DEF Answer, Forget, Outcomes, TypeOK
<1>14. CASE IntervalExpires \/ FailExpires \/ UNCHANGED vars
  <2>1. UNCHANGED <<code, pc, mine, over, delivered, accepted, confirmed>>
    BY <1>14 DEF IntervalExpires, FailExpires, vars
  <2> QED
    BY <2>1 DEF Holds
<1> QED
  BY <1>1, <1>2, <1>3, <1>4, <1>5, <1>6, <1>7, <1>8, <1>9, <1>10, <1>11, <1>12, <1>13, <1>14 DEF Next

\* ImplementsCodes: whatever fails, however requests overlap and sends are late, what a
\* receiver sees of the use case is one code at a time that he received, which nobody can
\* get hold of after it ended.
THEOREM Implementation == Spec => ImplementsCodes
<1>1. Init => Codes!CodeInit
  BY DEF Init, Codes!CodeInit, NoCode
<1>2. CodesInv /\ [Next]_vars => [Codes!CodeNext]_CodeVars
  BY CodesStep
<1> QED
  BY <1>1, <1>2, CodesCorrect, PTL
     DEF Spec, ImplementsCodes, Codes!CodeSpec, Codes!states, CodeVars, Usable, Holds

\* What CodeStore promises a receiver thus holds of the use case: one code at a time is
\* usable and none that has ended, whoever holds one was there before it ended, and what
\* was announced was stored.
THEOREM PromiseKept == Spec => []Codes!Promise
<1>1. Codes!CodeSpec => []Codes!Promise
  BY Codes!Promised
<1> QED
  BY <1>1, Implementation, PTL DEF ImplementsCodes

=============================================================================
