----------------------------- MODULE GatewayProofs -----------------------------
(***************************************************************************)
(* Theorems about Gateway, for any number of requests, sessions and         *)
(* captchas, any public paths and any scenes that are configured.           *)
(***************************************************************************)
EXTENDS Gateway, TLAPS

-----------------------------------------------------------------------------
(* The invariant *)

\* A request whose token had ended is not past the middleware.
Ended(r) == stale[r] =>
    /\ token[r] \in Session /\ state[token[r]] = "ended"
    /\ pc[r] \in {"recheck", "upgrade", "done"} /\ reply[r] # "ok"

\* The scenes of the API are configured.
ScenesFound == {"register", "login", "bind", "reset"} \subseteq PhoneScenes

\* What is known of the message and of the answer.
Replied(r) ==
    /\ pc[r] # "done" => reply[r] = "none"
    /\ op[r] = Public("SendSmsOtp") /\ in[r].valid => in[r].scene \in 1 .. 4
    /\ ScenesFound /\ reply[r] = "scene" => ~in[r].valid

Reading(r, c) == pc[r] = "del" /\ in[r].captcha = c

\* A captcha that was compared is gone and read by nobody; one that is not spoiled has
\* one reader.
Compared == \A c \in Captcha \ spoiled :
    /\ compared[c] <= 1
    /\ compared[c] = 1 => captcha[c] = "gone" /\ \A r \in Req : ~Reading(r, c)
    /\ \A r, q \in Req : Reading(r, c) /\ Reading(q, c) => r = q

GatewayInv ==
    /\ TypeOK
    /\ \A r \in Req : Ended(r) /\ Replied(r)
    /\ Compared

LEMMA Digests ==
    /\ Nothing \in Digest
    /\ \A v, m \in BOOLEAN : Says(v, m) \in Digest
    /\ \A v, m \in BOOLEAN : Says(v, m).valid = v
<1>1. 0 \in 0 .. 5
  OBVIOUS
<1> QED
  BY <1>1, Zenon DEF Nothing, Digest, Says

LEMMA OperationsDiffer ==
    /\ Ws # Public("SendSmsOtp")
    /\ \A m \in {"Register", "LoginByPassword", "LoginByOtp", "Logout", "UserInfo",
        "UpdatePassword", "BindMobile", "UpdateMobile", "ResetPassword"} :
          Passport(m) \in Operations /\ Passport(m) # Public("SendSmsOtp")
    /\ \A m \in {"GetCaptcha", "SendSmsOtp"} : Public(m) \in Operations
    /\ Public("GetCaptcha") # Public("SendSmsOtp")
<1>1. Ws # Public("SendSmsOtp")
  BY DEF Ws, Public
<1>2. \A m : Passport(m) # Public("SendSmsOtp")
  BY DEF Passport, Public
<1>3. Public("GetCaptcha") # Public("SendSmsOtp")
  BY DEF Public
<1> QED
  BY <1>1, <1>2, <1>3 DEF Operations

LEMMA GatewayInit == Init => GatewayInv
<1> SUFFICES ASSUME Init PROVE GatewayInv
  OBVIOUS
<1>1. TypeOK
  BY Digests, ConstantsAssumption DEF Init, TypeOK, S!SessionInit, Answers
<1>2. \A r \in Req : Ended(r) /\ Replied(r)
  BY OperationsDiffer DEF Init, Ended, Replied
<1>3. Compared
  BY DEF Init, Compared, Reading
<1> QED
  BY <1>1, <1>2, <1>3 DEF GatewayInv

-----------------------------------------------------------------------------
(* What a step of one request has to keep *)

\* The sessions of the other requests: what has ended stays ended.
SessionsGrow ==
    /\ owner' \in [Session -> User \cup {Nobody}]
    /\ state' \in [Session -> {"free", "live", "ended"}]
    /\ \A s \in Session : state[s] = "ended" => state'[s] = "ended"

LEMMA OpenGrows ==
  ASSUME TypeOK, NEW s \in Session, NEW u \in User, S!Open(s, u)
  PROVE  SessionsGrow
  BY DEF TypeOK, S!Open, SessionsGrow

LEMMA EndGrows ==
  ASSUME TypeOK, NEW gone, NEW u, S!End(gone, u)
  PROVE  SessionsGrow
  BY DEF TypeOK, S!End, SessionsGrow

LEMMA SameGrows ==
  ASSUME TypeOK, UNCHANGED sessions
  PROVE  SessionsGrow
  BY DEF TypeOK, sessions, SessionsGrow

OthersSame(r) == \A q \in Req \ {r} :
    /\ pc'[q] = pc[q] /\ op'[q] = op[q] /\ token'[q] = token[q]
    /\ in'[q] = in[q] /\ reply'[q] = reply[q] /\ stale'[q] = stale[q]

LEMMA OneRequest ==
  ASSUME GatewayInv, TypeOK', NEW r \in Req, OthersSame(r), SessionsGrow,
         Ended(r)', Replied(r)', Compared'
  PROVE  GatewayInv'
<1>1. ASSUME NEW q \in Req \ {r} PROVE Ended(q)' /\ Replied(q)'
  BY DEF GatewayInv, Ended, Replied, OthersSame, SessionsGrow
<1>2. \A q \in Req : Ended(q)' /\ Replied(q)'
  BY <1>1
<1> QED
  BY <1>2 DEF GatewayInv

LEMMA NobodyReads ==
  ASSUME Compared, UNCHANGED captchas,
         \A q \in Req, c \in Captcha : Reading(q, c)' => Reading(q, c)
  PROVE  Compared'
  BY DEF Compared, captchas

\* A request that is past the middleware is answered.
LEMMA AnswerKeeps ==
  ASSUME GatewayInv, NEW r \in Req, pc[r] = "serve", NEW what \in Answers,
         Answer(r, what), UNCHANGED <<op, token, in, stale, captchas>>, SessionsGrow,
         ScenesFound /\ what = "scene" => ~in[r].valid
  PROVE  GatewayInv'
<1>1. TypeOK'
  BY DEF GatewayInv, TypeOK, Answer, SessionsGrow, captchas
<1>2. OthersSame(r) /\ pc'[r] = "done" /\ reply'[r] = what
  BY DEF GatewayInv, TypeOK, Answer, OthersSame
<1>3. Ended(r)' /\ Replied(r)'
  BY <1>2 DEF GatewayInv, Ended, Replied
<1>4. Compared'
  BY <1>2, NobodyReads DEF GatewayInv, Reading, OthersSame
<1> QED
  BY <1>1, <1>2, <1>3, <1>4, OneRequest

\* Handle, for a request whose token has not ended.
LEMMA HandleGives ==
  ASSUME TypeOK, NEW r \in Req, NEW operation, NEW m \in Digest, Handle(r, operation, m)
  PROVE  \/ Goto(r, "serve")
         \/ Goto(r, "get") /\ m.captcha \in Captcha
         \/ Answer(r, "captcha")
  BY DEF Handle, Digest

LEMMA ArriveKeeps ==
  ASSUME GatewayInv, NEW r \in Req, NEW operation \in Operations, NEW m \in Digest,
         Arrive(r, operation, m),
         operation = Public("SendSmsOtp") /\ m.valid => m.scene \in 1 .. 4
  PROVE  GatewayInv'
<1> USE DEF Goto, Answer
<1>1. TypeOK /\ Ended(r) /\ Replied(r) /\ Compared
  BY DEF GatewayInv
<1>2. /\ pc[r] = "idle" /\ reply[r] = "none" /\ stale[r] = FALSE
      /\ op' = [op EXCEPT ![r] = operation] /\ in' = [in EXCEPT ![r] = m]
      /\ UNCHANGED <<sessions, captchas>>
  BY <1>1, Zenon DEF Arrive, TypeOK, Ended, Replied
<1>3. /\ \/ Goto(r, "serve")
         \/ Goto(r, "get") /\ m.captcha \in Captcha
         \/ Answer(r, "captcha")
         \/ Answer(r, "unauthorized")
         \/ Goto(r, "recheck") /\ token'[r] \in Session
      /\ \/ UNCHANGED <<token, stale>>
         \/ /\ Goto(r, "recheck")
            /\ \E s \in Session : /\ token' = [token EXCEPT ![r] = s]
                                  /\ stale' = [stale EXCEPT ![r] = state[s] = "ended"]
  <2>1. CASE IsPublicPath(operation)
    <3>1. Handle(r, operation, m) /\ UNCHANGED <<token, stale>>
      BY <2>1 DEF Arrive
    <3>2. \/ Goto(r, "serve")
          \/ Goto(r, "get") /\ m.captcha \in Captcha
          \/ Answer(r, "captcha")
      <4> HIDE DEF Goto, Answer
      <4> QED
        BY <1>1, <3>1, HandleGives
    <3> HIDE DEF Goto, Answer
    <3> QED
      BY <3>1, <3>2
  <2>2. CASE ~IsPublicPath(operation) /\ Answer(r, "unauthorized") /\ UNCHANGED <<token, stale>>
    BY <2>2
  <2>3. CASE /\ ~IsPublicPath(operation) /\ Goto(r, "recheck")
             /\ \E s \in Session : /\ token' = [token EXCEPT ![r] = s]
                                   /\ stale' = [stale EXCEPT ![r] = state[s] = "ended"]
    <3>1. token'[r] \in Session
      BY <1>1, <2>3 DEF TypeOK
    <3> QED
      BY <2>3, <3>1
  <2> QED
    BY <2>1, <2>2, <2>3 DEF Arrive
<1>4. /\ pc' \in [Req -> {"idle", "recheck", "upgrade", "get", "del", "serve", "done"}]
      /\ reply' \in [Req -> Answers]
      /\ token' \in [Req -> Session \cup {NoSession}]
      /\ op' \in [Req -> Operations \cup {Ws}] /\ in' \in [Req -> Digest]
  BY <1>1, <1>2, <1>3 DEF TypeOK, Answers
<1>5. stale' \in [Req -> BOOLEAN]
  BY <1>1, <1>3 DEF TypeOK
<1>6. OthersSame(r)
  BY <1>1, <1>2, <1>3 DEF TypeOK, OthersSame
<1>7. TypeOK'
  BY <1>1, <1>2, <1>3, <1>4, <1>5, <1>6 DEF TypeOK, OthersSame, sessions, captchas
<1>8. Ended(r)'
  BY <1>1, <1>2, <1>3, <1>4 DEF TypeOK, Ended, sessions
<1>9. Replied(r)'
  BY <1>1, <1>2, <1>3 DEF TypeOK, Replied
<1>10. Compared'
  <2>1. pc'[r] # "del"
    BY <1>1, <1>3 DEF TypeOK
  <2> QED
    BY <1>1, <1>2, <1>6, <2>1, NobodyReads DEF Reading, OthersSame
<1> QED
  BY <1>1, <1>2, <1>6, <1>7, <1>8, <1>9, <1>10, OneRequest, SameGrows

-----------------------------------------------------------------------------
(* The handlers *)

LEMMA Validates ==
    /\ \A m : ValidRegister(m) \in BOOLEAN /\ ValidLoginByPassword(m) \in BOOLEAN
    /\ \A m : ValidLoginByOtp(m) \in BOOLEAN /\ ValidUpdatePassword(m) \in BOOLEAN
    /\ \A m : ValidBindMobile(m) \in BOOLEAN /\ ValidUpdateMobile(m) \in BOOLEAN
    /\ \A m : ValidResetPassword(m) \in BOOLEAN /\ ValidSendSmsOtp(m) \in BOOLEAN
  BY DEF ValidRegister, ValidLoginByPassword, ValidLoginByOtp, ValidUpdatePassword,
    ValidBindMobile, ValidUpdateMobile, ValidResetPassword, ValidSendSmsOtp

LEMMA RequestKeeps ==
  ASSUME GatewayInv, NEW r \in Req, Request(r)
  PROVE  GatewayInv'
<1>1. CASE RegisterHandler(r)
  <2>1. PICK m \in RegisterRequest : Arrive(r, Passport("Register"), Says(ValidRegister(m), m.password = m.confirmPassword))
    BY <1>1 DEF RegisterHandler
  <2>2. Says(ValidRegister(m), m.password = m.confirmPassword) \in Digest
    BY Digests, Validates
  <2> QED
    BY <2>1, <2>2, ArriveKeeps, OperationsDiffer
<1>2. CASE LoginByOtpHandler(r)
  <2>1. PICK m \in LoginByOtpRequest : Arrive(r, Passport("LoginByOtp"), Says(ValidLoginByOtp(m), TRUE))
    BY <1>2 DEF LoginByOtpHandler
  <2>2. Says(ValidLoginByOtp(m), TRUE) \in Digest
    BY Digests, Validates
  <2> QED
    BY <2>1, <2>2, ArriveKeeps, OperationsDiffer
<1>3. CASE UpdatePasswordHandler(r)
  <2>1. PICK m \in UpdatePasswordRequest : Arrive(r, Passport("UpdatePassword"), Says(ValidUpdatePassword(m), m.newPassword = m.confirmPassword))
    BY <1>3 DEF UpdatePasswordHandler
  <2>2. Says(ValidUpdatePassword(m), m.newPassword = m.confirmPassword) \in Digest
    BY Digests, Validates
  <2> QED
    BY <2>1, <2>2, ArriveKeeps, OperationsDiffer
<1>4. CASE BindMobileHandler(r)
  <2>1. PICK m \in BindMobileRequest : Arrive(r, Passport("BindMobile"), Says(ValidBindMobile(m), TRUE))
    BY <1>4 DEF BindMobileHandler
  <2>2. Says(ValidBindMobile(m), TRUE) \in Digest
    BY Digests, Validates
  <2> QED
    BY <2>1, <2>2, ArriveKeeps, OperationsDiffer
<1>5. CASE UpdateMobileHandler(r)
  <2>1. PICK m \in UpdateMobileRequest : Arrive(r, Passport("UpdateMobile"), Says(ValidUpdateMobile(m), TRUE))
    BY <1>5 DEF UpdateMobileHandler
  <2>2. Says(ValidUpdateMobile(m), TRUE) \in Digest
    BY Digests, Validates
  <2> QED
    BY <2>1, <2>2, ArriveKeeps, OperationsDiffer
<1>6. CASE ResetPasswordHandler(r)
  <2>1. PICK m \in ResetPasswordRequest : Arrive(r, Passport("ResetPassword"), Says(ValidResetPassword(m), m.newPassword = m.confirmPassword))
    BY <1>6 DEF ResetPasswordHandler
  <2>2. Says(ValidResetPassword(m), m.newPassword = m.confirmPassword) \in Digest
    BY Digests, Validates
  <2> QED
    BY <2>1, <2>2, ArriveKeeps, OperationsDiffer
<1>7. CASE LogoutHandler(r)
  BY <1>7, ArriveKeeps, OperationsDiffer, Digests DEF LogoutHandler
<1>8. CASE UserInfoHandler(r)
  BY <1>8, ArriveKeeps, OperationsDiffer, Digests DEF UserInfoHandler
<1>9. CASE GetCaptchaHandler(r)
  BY <1>9, ArriveKeeps, OperationsDiffer, Digests DEF GetCaptchaHandler
<1>10. CASE LoginByPasswordHandler(r)
  <2> DEFINE D(m) == [Nothing EXCEPT !.valid = ValidLoginByPassword(m),
                                    !.captcha = m.captchaId, !.answer = m.captcha]
  <2>1. PICK m \in LoginByPasswordRequest : Arrive(r, Passport("LoginByPassword"), D(m))
    BY <1>10 DEF LoginByPasswordHandler
  <2>2. D(m) \in Digest
    <3>1. 0 \in 0 .. 5
      OBVIOUS
    <3> QED
      BY <3>1, Validates, Zenon DEF LoginByPasswordRequest, Nothing, Digest
  <2> QED
    BY <2>1, <2>2, ArriveKeeps, OperationsDiffer
<1>11. CASE SendSmsOtpHandler(r)
  <2> DEFINE D(m) == [Nothing EXCEPT !.valid = ValidSendSmsOtp(m), !.captcha = m.captchaId,
                                    !.answer = m.captcha, !.scene = m.scene]
  <2>1. PICK m \in SendSmsOtpRequest : Arrive(r, Public("SendSmsOtp"), D(m))
    BY <1>11 DEF SendSmsOtpHandler
  <2>2. D(m) \in Digest /\ D(m).valid = ValidSendSmsOtp(m) /\ D(m).scene = m.scene
    BY Validates DEF SendSmsOtpRequest, Nothing, Digest
  <2>3. ValidSendSmsOtp(m) => m.scene \in 1 .. 4
    BY DEF ValidSendSmsOtp
  <2> HIDE DEF D
  <2> QED
    BY <2>1, <2>2, <2>3, ArriveKeeps, OperationsDiffer
<1>12. CASE WSHandler(r)
  <2> USE DEF Goto, Answer
  <2>1. TypeOK /\ Ended(r) /\ Replied(r) /\ Compared
    BY DEF GatewayInv
  <2>2. /\ pc[r] = "idle" /\ reply[r] = "none" /\ stale[r] = FALSE
        /\ op' = [op EXCEPT ![r] = Ws] /\ UNCHANGED <<sessions, captchas, in>>
    BY <2>1, <1>12, Zenon DEF WSHandler, TypeOK, Ended, Replied
  <2>3. \/ Answer(r, "unauthorized") /\ UNCHANGED <<token, stale>>
        \/ /\ Goto(r, "upgrade")
           /\ \E s \in Session : /\ token' = [token EXCEPT ![r] = s]
                                 /\ stale' = [stale EXCEPT ![r] = state[s] = "ended"]
    BY <1>12 DEF WSHandler
  <2>4. OthersSame(r) /\ pc'[r] # "del"
    BY <2>1, <2>2, <2>3 DEF TypeOK, OthersSame
  <2>5. /\ pc' \in [Req -> {"idle", "recheck", "upgrade", "get", "del", "serve", "done"}]
        /\ reply' \in [Req -> Answers]
        /\ token' \in [Req -> Session \cup {NoSession}]
        /\ op' \in [Req -> Operations \cup {Ws}]
    BY <2>1, <2>2, <2>3 DEF TypeOK, Answers
  <2>6. stale' \in [Req -> BOOLEAN]
    BY <2>1, <2>3 DEF TypeOK
  <2>7. TypeOK'
    BY <2>1, <2>2, <2>3, <2>4, <2>5, <2>6 DEF TypeOK, OthersSame, sessions, captchas
  <2>8. Ended(r)'
    BY <2>1, <2>2, <2>3 DEF TypeOK, Ended, sessions
  <2>9. Replied(r)'
    BY <2>1, <2>2, <2>3, OperationsDiffer DEF TypeOK, Replied
  <2>10. Compared'
    BY <2>1, <2>2, <2>4, NobodyReads DEF Reading, OthersSame
  <2> QED
    BY <2>1, <2>2, <2>4, <2>7, <2>8, <2>9, <2>10, OneRequest, SameGrows
<1> QED
  BY <1>1, <1>2, <1>3, <1>4, <1>5, <1>6, <1>7, <1>8, <1>9, <1>10, <1>11, <1>12 DEF Request

-----------------------------------------------------------------------------
(* The middleware and the captcha *)

LEMMA RecheckKeeps ==
  ASSUME GatewayInv, NEW r \in Req, JWTRecheck(r) \/ VerifyToken(r)
  PROVE  GatewayInv'
<1> USE DEF Goto, Answer
<1>1. TypeOK /\ Ended(r) /\ Replied(r) /\ Compared
  BY DEF GatewayInv
<1>2. /\ reply[r] = "none" /\ token[r] \in Session /\ in[r] \in Digest
      /\ UNCHANGED <<sessions, captchas, op, token, in, stale>>
      /\ pc[r] \in {"recheck", "upgrade"}
  BY <1>1 DEF JWTRecheck, VerifyToken, TypeOK, Replied
<1>3. \/ Answer(r, "unauthorized")
      \/ /\ state[token[r]] = "live"
         /\ \/ Goto(r, "serve")
            \/ Goto(r, "get") /\ in[r].captcha \in Captcha
            \/ \E what \in {"ok", "refused", "captcha"} : Answer(r, what)
  <2>1. CASE JWTRecheck(r)
    <3>1. \/ state[token[r]] = "live" /\ Handle(r, op[r], in[r])
          \/ Answer(r, "unauthorized")
      BY <2>1 DEF JWTRecheck
    <3>2. Handle(r, op[r], in[r]) =>
            \/ Goto(r, "serve")
            \/ Goto(r, "get") /\ in[r].captcha \in Captcha
            \/ Answer(r, "captcha")
      <4> HIDE DEF Goto, Answer
      <4> QED
        BY <1>1, <1>2, HandleGives
    <3> HIDE DEF Goto, Answer
    <3> QED
      BY <3>1, <3>2
  <2>2. CASE VerifyToken(r)
    BY <2>2 DEF VerifyToken
  <2> QED
    BY <2>1, <2>2
<1>4. OthersSame(r) /\ pc'[r] \in {"serve", "get", "done"}
  BY <1>1, <1>2, <1>3 DEF TypeOK, OthersSame
<1>5. /\ pc' \in [Req -> {"idle", "recheck", "upgrade", "get", "del", "serve", "done"}]
      /\ reply' \in [Req -> Answers]
      /\ pc'[r] = "get" => in[r].captcha \in Captcha
  BY <1>1, <1>3 DEF TypeOK, Answers
<1>6. TypeOK'
  BY <1>1, <1>2, <1>4, <1>5 DEF TypeOK, OthersSame, sessions, captchas
<1>7. Ended(r)' /\ Replied(r)'
  BY <1>1, <1>2, <1>3 DEF TypeOK, Ended, Replied, sessions
<1>8. Compared'
  BY <1>1, <1>2, <1>4, NobodyReads DEF Reading, OthersSame
<1> QED
  BY <1>1, <1>2, <1>4, <1>6, <1>7, <1>8, OneRequest, SameGrows

LEMMA CaptchaGetKeeps ==
  ASSUME GatewayInv, NEW r \in Req, CaptchaGet(r)
  PROVE  GatewayInv'
<1> DEFINE c == in[r].captcha
<1> USE DEF Goto, Answer
<1>1. TypeOK /\ Ended(r) /\ Replied(r) /\ Compared
  BY DEF GatewayInv
<1>2. /\ pc[r] = "get" /\ reply[r] = "none" /\ c \in Captcha /\ ~stale[r]
      /\ UNCHANGED <<sessions, captcha, compared, op, token, in, stale>>
  BY <1>1 DEF CaptchaGet, TypeOK, Replied, Ended
<1> HIDE DEF c
<1>3. CASE Answer(r, "captcha") /\ UNCHANGED spoiled
  <2>1. OthersSame(r) /\ pc'[r] = "done" /\ reply'[r] = "captcha"
    BY <1>1, <1>2, <1>3 DEF TypeOK, OthersSame
  <2>2. TypeOK'
    BY <1>1, <1>2, <1>3 DEF TypeOK, sessions, Answers
  <2>3. Ended(r)' /\ Replied(r)'
    BY <1>1, <1>2, <2>1 DEF Ended, Replied
  <2>4. Compared'
    BY <1>1, <1>2, <1>3, <2>1, NobodyReads DEF Reading, OthersSame, captchas
  <2> QED
    BY <1>1, <1>2, <2>1, <2>2, <2>3, <2>4, OneRequest, SameGrows
<1>4. CASE /\ captcha[c] = "stored" /\ Goto(r, "del")
           /\ spoiled' = IF Others(r, c) THEN spoiled \cup {c} ELSE spoiled
  <2>1. OthersSame(r) /\ pc'[r] = "del" /\ reply'[r] = "none" /\ spoiled \subseteq spoiled'
    BY <1>1, <1>2, <1>4 DEF TypeOK, OthersSame
  <2>2. TypeOK'
    BY <1>1, <1>2, <1>4 DEF TypeOK, sessions, c
  <2>3. Ended(r)' /\ Replied(r)'
    BY <1>1, <1>2, <2>1 DEF Ended, Replied
  <2>4. \A q \in Req, k \in Captcha : Reading(q, k)' => Reading(q, k) \/ (q = r /\ k = c)
    BY <1>2, <2>1 DEF Reading, OthersSame, c
  <2>5. c \notin spoiled' => \A q \in Req \ {r} : ~Reading(q, c)
    BY <1>4 DEF Others, Reading
  <2>6. c \notin spoiled' => compared[c] # 1
    BY <1>1, <1>2, <1>4, <2>1 DEF Compared
  <2>7. ASSUME NEW k \in Captcha \ spoiled'
        PROVE  /\ compared'[k] <= 1
               /\ compared'[k] = 1 => captcha'[k] = "gone" /\ \A q \in Req : ~Reading(q, k)'
               /\ \A p, q \in Req : Reading(p, k)' /\ Reading(q, k)' => p = q
    <3>1. k \notin spoiled
      BY <2>1
    <3>2. CASE k = c
      BY <1>1, <1>2, <2>4, <2>5, <2>6, <3>1, <3>2 DEF Compared
    <3>3. CASE k # c
      BY <1>1, <1>2, <2>4, <3>1, <3>3 DEF Compared
    <3> QED
      BY <3>2, <3>3
  <2>8. Compared'
    BY <2>7 DEF Compared
  <2> QED
    BY <1>1, <1>2, <2>1, <2>2, <2>3, <2>8, OneRequest, SameGrows
<1> QED
  BY <1>3, <1>4 DEF CaptchaGet, c

LEMMA CaptchaDelKeeps ==
  ASSUME GatewayInv, NEW r \in Req, CaptchaDel(r)
  PROVE  GatewayInv'
<1> DEFINE c == in[r].captcha
<1> USE DEF Goto, Answer
<1>1. TypeOK /\ Ended(r) /\ Replied(r) /\ Compared
  BY DEF GatewayInv
<1>2. /\ pc[r] = "del" /\ reply[r] = "none" /\ c \in Captcha /\ ~stale[r] /\ Reading(r, c)
      /\ UNCHANGED <<sessions, op, token, in, stale>>
      /\ compared' = [compared EXCEPT ![c] = IF compared[c] < 2 THEN compared[c] + 1 ELSE 2]
      /\ Goto(r, "serve") \/ Answer(r, "captcha")
      /\ \/ captcha' = [captcha EXCEPT ![c] = "gone"] /\ UNCHANGED spoiled
         \/ spoiled' = spoiled \cup {c} /\ UNCHANGED captcha
  BY <1>1 DEF CaptchaDel, Compare, TypeOK, Replied, Ended, Reading
<1> HIDE DEF c
<1>3. /\ OthersSame(r) /\ pc'[r] \in {"serve", "done"} /\ reply'[r] \in {"none", "captcha"}
      /\ pc'[r] = "serve" => reply'[r] = "none"
  BY <1>1, <1>2 DEF TypeOK, OthersSame
<1>4. TypeOK'
  <2>1. compared' \in [Captcha -> 0 .. 2]
    BY <1>1, <1>2 DEF TypeOK
  <2>2. captcha' \in [Captcha -> {"free", "stored", "gone"}] /\ spoiled' \subseteq Captcha
    BY <1>1, <1>2 DEF TypeOK
  <2>3. /\ pc' \in [Req -> {"idle", "recheck", "upgrade", "get", "del", "serve", "done"}]
        /\ reply' \in [Req -> Answers]
    BY <1>1, <1>2 DEF TypeOK, Answers
  <2> QED
    BY <1>1, <1>2, <1>3, <2>1, <2>2, <2>3 DEF TypeOK, OthersSame, sessions
<1>5. Ended(r)' /\ Replied(r)'
  BY <1>1, <1>2, <1>3 DEF Ended, Replied
<1>6. \A q \in Req, k \in Captcha : Reading(q, k)' => Reading(q, k) /\ q # r
  BY <1>2, <1>3 DEF Reading, OthersSame
<1>7. ASSUME NEW k \in Captcha \ spoiled'
      PROVE  /\ compared'[k] <= 1
             /\ compared'[k] = 1 => captcha'[k] = "gone" /\ \A q \in Req : ~Reading(q, k)'
             /\ \A p, q \in Req : Reading(p, k)' /\ Reading(q, k)' => p = q
  <2>1. k \notin spoiled
    BY <1>2
  <2>2. CASE k # c
    <3>1. compared'[k] = compared[k] /\ (captcha[k] = "gone" => captcha'[k] = "gone")
      BY <1>1, <1>2, <2>2 DEF TypeOK
    <3> QED
      BY <1>1, <1>6, <2>1, <3>1 DEF Compared
  <2>3. CASE k = c
    <3>1. compared[c] = 0
      BY <1>1, <1>2, <2>1, <2>3 DEF Compared, TypeOK
    <3>2. compared'[c] = 1 /\ captcha'[c] = "gone"
      BY <1>1, <1>2, <2>3, <3>1 DEF TypeOK
    <3>3. Reading(r, k)
      BY <1>2, <2>3
    <3>4. ASSUME NEW q \in Req, Reading(q, k)' PROVE FALSE
      BY <1>1, <1>6, <2>1, <3>3, <3>4 DEF Compared
    <3>5. compared'[k] = 1 /\ captcha'[k] = "gone"
      BY <2>3, <3>2
    <3> QED
      BY <3>4, <3>5
  <2> QED
    BY <2>2, <2>3
<1>8. Compared'
  BY <1>7 DEF Compared
<1> QED
  BY <1>1, <1>2, <1>3, <1>4, <1>5, <1>8, OneRequest, SameGrows

-----------------------------------------------------------------------------
(* The services *)

LEMMA ServeKeeps ==
  ASSUME GatewayInv, NEW r \in Req,
         \/ Register(r) \/ LoginByPassword(r) \/ LoginByOtp(r) \/ Logout(r) \/ UserInfo(r)
         \/ UpdatePassword(r) \/ BindMobile(r) \/ UpdateMobile(r) \/ ResetPassword(r)
         \/ SendSmsOtp(r)
  PROVE  GatewayInv'
<1>1. TypeOK
  BY DEF GatewayInv
<1>2. pc[r] = "serve" /\ UNCHANGED <<op, token, in, stale>>
  BY DEF Register, LoginByPassword, LoginByOtp, Logout, UserInfo, UpdatePassword, BindMobile,
    UpdateMobile, ResetPassword, SendSmsOtp, Serving
<1>3. SUFFICES /\ SessionsGrow /\ UNCHANGED captchas
               /\ \E what \in Answers : Answer(r, what) /\ (ScenesFound /\ what = "scene" => ~in[r].valid)
  BY <1>2, AnswerKeeps
<1> USE DEF Answers
<1>4. CASE UNCHANGED <<sessions, captchas>>
           /\ \E what \in {"ok", "refused", "mismatch"} : Answer(r, what)
  BY <1>1, <1>4, SameGrows
<1>5. CASE SendSmsOtp(r)
  <2>1. in[r].scene \in 0 .. 5 /\ op[r] = Public("SendSmsOtp")
    BY <1>1, <1>5 DEF TypeOK, Digest, SendSmsOtp, Serving
  <2>2. in[r].valid => in[r].scene \in 1 .. 4
    BY <2>1 DEF GatewayInv, Replied
  <2>3. ScenesFound /\ in[r].scene \in 1 .. 4 => SceneName(in[r].scene) \in PhoneScenes
    BY <2>1 DEF SceneName, ScenesFound
  <2>4. UNCHANGED <<sessions, captchas>>
    BY <1>5 DEF SendSmsOtp
  <2> QED
    BY <1>1, <1>5, <2>2, <2>3, <2>4, SameGrows DEF SendSmsOtp
<1>6. CASE Register(r) \/ LoginByPassword(r) \/ LoginByOtp(r)
  <2>1. \/ UNCHANGED <<sessions, captchas>>
           /\ \E what \in {"ok", "refused", "mismatch"} : Answer(r, what)
        \/ /\ \E s \in Session, u \in User : S!Open(s, u)
           /\ Answer(r, "ok") /\ UNCHANGED captchas
    BY <1>6 DEF Register, LoginByPassword, LoginByOtp, LogIn, Refuse, Mismatch
  <2> QED
    BY <1>1, <1>4, <2>1, OpenGrows
<1>7. CASE Logout(r) \/ UpdatePassword(r) \/ ResetPassword(r)
  <2>1. \/ UNCHANGED <<sessions, captchas>>
           /\ \E what \in {"ok", "refused", "mismatch"} : Answer(r, what)
        \/ /\ \E gone, u : S!End(gone, u)
           /\ Answer(r, "ok") /\ UNCHANGED captchas
    BY <1>7 DEF Logout, UpdatePassword, ResetPassword, Refuse, Mismatch, Purge
  <2> QED
    BY <1>1, <1>4, <2>1, EndGrows
<1>8. CASE UserInfo(r) \/ BindMobile(r) \/ UpdateMobile(r)
  BY <1>4, <1>8 DEF UserInfo, BindMobile, UpdateMobile, Refuse
<1> QED
  BY <1>5, <1>6, <1>7, <1>8

\* A captcha comes or goes by itself: one that was compared is gone and stays so.
LEMMA CaptchaMoves ==
  ASSUME GatewayInv, NEW c \in Captcha, NEW to \in {"stored", "gone"},
         captcha' = [captcha EXCEPT ![c] = to], captcha[c] # "gone",
         UNCHANGED <<compared, spoiled>>,
         \A q \in Req, k \in Captcha : Reading(q, k)' => Reading(q, k)
  PROVE  Compared' /\ captcha' \in [Captcha -> {"free", "stored", "gone"}]
<1>1. captcha' \in [Captcha -> {"free", "stored", "gone"}]
  BY DEF GatewayInv, TypeOK
<1>2. ASSUME NEW k \in Captcha \ spoiled, compared[k] = 1 PROVE captcha'[k] = "gone"
  BY <1>2 DEF GatewayInv, TypeOK, Compared
<1>3. Compared'
  BY <1>2 DEF GatewayInv, Compared
<1> QED
  BY <1>1, <1>3

LEMMA GetCaptchaKeeps ==
  ASSUME GatewayInv, NEW r \in Req, GetCaptcha(r)
  PROVE  GatewayInv'
<1>1. /\ TypeOK /\ Ended(r) /\ Replied(r) /\ pc[r] = "serve"
      /\ UNCHANGED <<sessions, op, token, in, stale>>
  BY DEF GatewayInv, GetCaptcha, Serving, Refuse
<1>2. CASE Refuse(r)
  BY <1>1, <1>2, AnswerKeeps, SameGrows DEF Refuse, Answers
<1>3. CASE ~Refuse(r)
  <2>1. PICK c \in Captcha : captcha[c] = "free" /\ captcha' = [captcha EXCEPT ![c] = "stored"]
    BY <1>3 DEF GetCaptcha
  <2>2. Answer(r, "ok") /\ UNCHANGED <<compared, spoiled>>
    BY <1>3 DEF GetCaptcha
  <2>3. OthersSame(r) /\ pc'[r] = "done" /\ reply'[r] = "ok"
    BY <1>1, <2>2 DEF TypeOK, Answer, OthersSame
  <2>4. Compared' /\ captcha' \in [Captcha -> {"free", "stored", "gone"}]
    BY <1>1, <2>1, <2>2, <2>3, CaptchaMoves DEF Reading, OthersSame
  <2>5. TypeOK'
    BY <1>1, <2>2, <2>4 DEF TypeOK, Answer, Answers, sessions
  <2>6. Ended(r)' /\ Replied(r)'
    BY <1>1, <2>3 DEF Ended, Replied
  <2> QED
    BY <1>1, <2>3, <2>4, <2>5, <2>6, OneRequest, SameGrows
<1> QED
  BY <1>2, <1>3

LEMMA FinishKeeps ==
  ASSUME GatewayInv, NEW r \in Req, Finish(r)
  PROVE  GatewayInv'
<1>1. TypeOK /\ Compared
  BY DEF GatewayInv
<1>2. OthersSame(r) /\ pc'[r] = "idle" /\ reply'[r] = "none" /\ ~stale'[r] /\ op'[r] = Ws
  BY <1>1 DEF Finish, TypeOK, OthersSame
<1>3. TypeOK'
  <2>1. /\ pc' \in [Req -> {"idle", "recheck", "upgrade", "get", "del", "serve", "done"}]
        /\ op' \in [Req -> Operations \cup {Ws}]
        /\ token' \in [Req -> Session \cup {NoSession}]
        /\ in' \in [Req -> Digest]
        /\ reply' \in [Req -> Answers]
        /\ stale' \in [Req -> BOOLEAN]
    BY <1>1, Digests DEF Finish, TypeOK, Answers
  <2> QED
    BY <1>1, <1>2, <2>1 DEF Finish, TypeOK, OthersSame, sessions, captchas
<1>4. Ended(r)' /\ Replied(r)'
  BY <1>2, OperationsDiffer DEF Ended, Replied
<1>5. Compared'
  BY <1>1, <1>2, NobodyReads DEF Finish, Reading, OthersSame
<1> QED
  BY <1>1, <1>2, <1>3, <1>4, <1>5, OneRequest, SameGrows DEF Finish

LEMMA GatewayStep ==
  ASSUME GatewayInv, [Next]_vars
  PROVE  GatewayInv'
<1>1. ASSUME NEW r \in Req, Request(r) PROVE GatewayInv'
  BY <1>1, RequestKeeps
<1>2. ASSUME NEW r \in Req, Step(r) PROVE GatewayInv'
  BY <1>2, RecheckKeeps, CaptchaGetKeeps, CaptchaDelKeeps, ServeKeeps, GetCaptchaKeeps DEF Step
<1>3. ASSUME NEW r \in Req, Finish(r) PROVE GatewayInv'
  BY <1>3, FinishKeeps
<1>4. ASSUME NEW s \in Session, SessionExpires(s) PROVE GatewayInv'
  <2>1. TypeOK /\ SessionsGrow
    BY <1>4, EndGrows DEF GatewayInv, SessionExpires
  <2>2. TypeOK'
    BY <1>4, <2>1 DEF TypeOK, SessionsGrow, SessionExpires, captchas, requests
  <2>3. \A r \in Req : Ended(r)' /\ Replied(r)'
    BY <1>4, <2>1 DEF GatewayInv, Ended, Replied, SessionsGrow, SessionExpires, requests
  <2>4. Compared'
    BY <1>4, NobodyReads DEF GatewayInv, SessionExpires, Reading, requests
  <2> QED
    BY <2>2, <2>3, <2>4 DEF GatewayInv
<1>5. ASSUME NEW c \in Captcha, CaptchaExpires(c) PROVE GatewayInv'
  <2>1. UNCHANGED <<sessions, requests, compared, spoiled>>
    BY <1>5 DEF CaptchaExpires
  <2>2. Compared' /\ captcha' \in [Captcha -> {"free", "stored", "gone"}]
    BY <1>5, <2>1, CaptchaMoves DEF CaptchaExpires, Reading, requests
  <2>3. TypeOK'
    BY <2>1, <2>2 DEF GatewayInv, TypeOK, sessions, requests
  <2>4. \A r \in Req : Ended(r)' /\ Replied(r)'
    BY <2>1 DEF GatewayInv, Ended, Replied, sessions, requests
  <2> QED
    BY <2>2, <2>3, <2>4 DEF GatewayInv
<1>6. CASE UNCHANGED vars
  <2>1. TypeOK' /\ \A r \in Req : Ended(r)' /\ Replied(r)'
    BY <1>6 DEF GatewayInv, TypeOK, Ended, Replied, vars, sessions, requests, captchas
  <2>2. Compared'
    BY <1>6, NobodyReads DEF GatewayInv, Reading, vars, requests
  <2> QED
    BY <2>1, <2>2 DEF GatewayInv
<1> QED
  BY <1>1, <1>2, <1>3, <1>4, <1>5, <1>6 DEF Next

LEMMA GatewayInvariant == Spec => []GatewayInv
<1>1. GatewayInv /\ [Next]_vars => GatewayInv'
  BY GatewayStep
<1> QED
  BY GatewayInit, <1>1, PTL DEF Spec

-----------------------------------------------------------------------------
(* The theorems *)

\* The variables of the gateway keep their types; a request that is compared with a
\* captcha names one, and one whose token is looked up has one.
THEOREM TypeCorrect == Spec => []TypeOK
<1>1. GatewayInv => TypeOK
  BY DEF GatewayInv
<1> QED
  BY GatewayInvariant, <1>1, PTL

\* A request whose token the middleware or the WebSocket handler asks for is not answered
\* "ok", nor is a WebSocket opened for it, when the token had ended before it came: also by
\* Logout, which does not ask the store itself.
THEOREM NoAnswerForEnded == Spec => []EndedTokensRefused
<1>1. GatewayInv => EndedTokensRefused
  BY DEF GatewayInv, Ended, EndedTokensRefused
<1> QED
  BY GatewayInvariant, <1>1, PTL

\* However many requests name a captcha, it is compared once, unless a DEL failed or
\* two had read it.
THEOREM OneAnswerEach == Spec => []ComparedOnce
<1>1. GatewayInv => ComparedOnce
  BY DEF GatewayInv, Compared, ComparedOnce
<1> QED
  BY GatewayInvariant, <1>1, PTL

\* When the four scenes of the API are configured, no message that keeps the rules is
\* answered that its scene is unknown.
THEOREM ScenesAgree ==
  ASSUME ScenesFound PROVE Spec => []ScenesConfigured
<1>1. GatewayInv => ScenesConfigured
  BY DEF GatewayInv, Replied, ScenesConfigured
<1> QED
  BY GatewayInvariant, <1>1, PTL

=============================================================================
