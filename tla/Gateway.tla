-------------------------------- MODULE Gateway --------------------------------
(***************************************************************************)
(* What stands between an HTTP request and the use cases: the generated     *)
(* handlers (api/*/v1/*_http.pb.go), the access control around them         *)
(* (internal/server/http.go, internal/pkg/auth/middleware.go), the captcha  *)
(* (internal/biz/captcha.go, internal/data/captcha_store.go), the checks of *)
(* the services (internal/service), and the upgrade to a WebSocket.  The use*)
(* cases behind are Otp and Accounts: here they answer, and open or end     *)
(* sessions of SessionStore, which TokenStore implements.                   *)
(***************************************************************************)
EXTENDS Messages, Sequences

CONSTANTS
    Req,                  \* concurrent requests
    Session, NoSession,   \* tokens; a request without one
    User, Nobody,
    PublicPaths,          \* app.auth.public_paths
    PhoneScenes,          \* the keys of app.otp.phone_scenes
    Faults                \* {"redis"}: commands may fail

ASSUME ConstantsAssumption ==
    /\ NoSession \notin Session /\ Nobody \notin User /\ NoCaptcha \notin Captcha
    /\ Text \subseteq Nat
    /\ NoPhone \notin Phone /\ BadPhone \notin Phone
    /\ Faults \subseteq {"redis"}

VARIABLES
    owner, state,   \* the sessions
    captcha,        \* captcha[c]: its key is not there yet, there, or gone
    pc,             \* where each request is
    op,             \* its operation
    token,          \* the token it came with
    in,             \* what its message says, see Nothing
    reply,          \* what it was answered
    stale,          \* history: its token had ended before it came
    compared,       \* history: how often each captcha was compared with an answer, up to 2
    spoiled         \* history: captchas that two requests read, or a DEL has missed

requests == <<pc, op, token, in, reply, stale>>
captchas == <<captcha, compared, spoiled>>
sessions == <<owner, state>>
vars == <<sessions, captchas, requests>>

S == INSTANCE SessionStore

\* A path is its segments; one that ends in "/" is the service alone.
Passport(method) == <<"api.passport.v1.Passport", method>>
Public(method) == <<"api.public.v1.Public", method>>
Ws == <<"ws">>
Operations ==
    {Passport(m) : m \in {"Register", "LoginByPassword", "LoginByOtp", "Logout", "UserInfo",
        "UpdatePassword", "BindMobile", "UpdateMobile", "ResetPassword"}} \cup
    {Public(m) : m \in {"GetCaptcha", "SendSmsOtp"}}

\* What later steps ask of a message: whether it keeps the rules, whether the two
\* passwords are equal, which captcha it names, how it answers it, and the scene.
Nothing == [valid |-> TRUE, match |-> TRUE, captcha |-> NoCaptcha, answer |-> "", scene |-> 0]
Digest == [valid : BOOLEAN, match : BOOLEAN, captcha : Captcha \cup {NoCaptcha},
           answer : {"", "right", "wrong"}, scene : 0 .. 5]

Answers == {"none", "ok", "unauthorized", "captcha", "mismatch", "scene", "refused"}

TypeOK ==
    /\ owner \in [Session -> User \cup {Nobody}]
    /\ state \in [Session -> {"free", "live", "ended"}]
    /\ captcha \in [Captcha -> {"free", "stored", "gone"}]
    /\ pc \in [Req -> {"idle", "recheck", "upgrade", "get", "del", "serve", "done"}]
    /\ op \in [Req -> Operations \cup {Ws}]
    /\ token \in [Req -> Session \cup {NoSession}]
    /\ in \in [Req -> Digest]
    /\ reply \in [Req -> Answers]
    /\ stale \in [Req -> BOOLEAN]
    /\ compared \in [Captcha -> 0 .. 2]
    /\ spoiled \subseteq Captcha
    /\ \A r \in Req : pc[r] \in {"get", "del"} => in[r].captcha \in Captcha
    /\ \A r \in Req : pc[r] \in {"recheck", "upgrade"} => token[r] \in Session

Init ==
    /\ S!SessionInit
    /\ captcha = [c \in Captcha |-> "free"]
    /\ pc = [r \in Req |-> "idle"]
    /\ op = [r \in Req |-> Ws]
    /\ token = [r \in Req |-> NoSession]
    /\ in = [r \in Req |-> Nothing]
    /\ reply = [r \in Req |-> "none"]
    /\ stale = [r \in Req |-> FALSE]
    /\ compared = [c \in Captcha |-> 0]
    /\ spoiled = {}

Goto(r, label) == pc' = [pc EXCEPT ![r] = label] /\ UNCHANGED reply
Answer(r, what) == pc' = [pc EXCEPT ![r] = "done"] /\ reply' = [reply EXCEPT ![r] = what]

-----------------------------------------------------------------------------
(* The middleware. *)

Match(operation, paths) ==
    \/ operation \in paths
    \/ \E path \in paths : Len(path) = 1 /\ path[1] = operation[1]

IsPublicPath(operation) == Match(operation, PublicPaths)

\* The services that ask for a captcha first; Verify refuses empty fields at once.
AsksCaptcha(operation) == operation \in {Passport("LoginByPassword"), Public("SendSmsOtp")}

\* Mutant: the fields are not looked at.
HandleEmpty(r, operation, m) ==
    IF ~AsksCaptcha(operation) THEN Goto(r, "serve") ELSE Goto(r, "get")

Handle(r, operation, m) ==
    IF ~AsksCaptcha(operation) THEN Goto(r, "serve")
    ELSE IF m.captcha = NoCaptcha \/ m.answer = "" THEN Answer(r, "captcha")
    ELSE Goto(r, "get")

\* A request is decoded and meets the middleware: public operations are handled, the
\* others need a token that is signed by the service and not expired.
Arrive(r, operation, m) ==
    /\ pc[r] = "idle"
    /\ op' = [op EXCEPT ![r] = operation]
    /\ in' = [in EXCEPT ![r] = m]
    /\ \/ /\ IsPublicPath(operation)
          /\ Handle(r, operation, m)
          /\ UNCHANGED <<token, stale>>
       \/ /\ ~IsPublicPath(operation)
          /\ Answer(r, "unauthorized")
          /\ UNCHANGED <<token, stale>>
       \/ /\ ~IsPublicPath(operation)
          /\ \E s \in Session :
                /\ state[s] # "free"
                /\ token' = [token EXCEPT ![r] = s]
                /\ stale' = [stale EXCEPT ![r] = state[s] = "ended"]
          /\ Goto(r, "recheck")
    /\ UNCHANGED <<sessions, captchas>>

\* Mutant: the token is parsed again, the answer of the store is not looked at.
JWTRecheckSignature(r) ==
    /\ pc[r] = "recheck"
    /\ Handle(r, op[r], in[r])
    /\ UNCHANGED <<sessions, captchas, op, token, in, stale>>

\* JWTRecheck: the store must still have the token.
JWTRecheck(r) ==
    /\ pc[r] = "recheck"
    /\ \/ /\ state[token[r]] = "live"
          /\ Handle(r, op[r], in[r])
       \/ /\ state[token[r]] # "live" \/ "redis" \in Faults
          /\ Answer(r, "unauthorized")
    /\ UNCHANGED <<sessions, captchas, op, token, in, stale>>

\* /ws is registered beside the middleware and looks at its token itself.
WSHandler(r) ==
    /\ pc[r] = "idle"
    /\ op' = [op EXCEPT ![r] = Ws]
    /\ \/ /\ \E s \in Session :
                /\ state[s] # "free"
                /\ token' = [token EXCEPT ![r] = s]
                /\ stale' = [stale EXCEPT ![r] = state[s] = "ended"]
          /\ Goto(r, "upgrade")
       \/ Answer(r, "unauthorized") /\ UNCHANGED <<token, stale>>
    /\ UNCHANGED <<sessions, captchas, in>>

\* ParseTokenFromTokenString, then the upgrade, which may fail, and Hub.Register.
VerifyToken(r) ==
    /\ pc[r] = "upgrade"
    /\ \/ /\ state[token[r]] = "live"
          /\ \E what \in {"ok", "refused"} : Answer(r, what)
       \/ /\ state[token[r]] # "live" \/ "redis" \in Faults
          /\ Answer(r, "unauthorized")
    /\ UNCHANGED <<sessions, captchas, op, token, in, stale>>

-----------------------------------------------------------------------------
(* The generated handlers: any message may come, and none is validated. *)

Says(valid, match) == [Nothing EXCEPT !.valid = valid, !.match = match]

RegisterHandler(r) == \E m \in RegisterRequest :
    Arrive(r, Passport("Register"), Says(ValidRegister(m), m.password = m.confirmPassword))

LoginByPasswordHandler(r) == \E m \in LoginByPasswordRequest :
    Arrive(r, Passport("LoginByPassword"),
        [Nothing EXCEPT !.valid = ValidLoginByPassword(m),
                        !.captcha = m.captchaId, !.answer = m.captcha])

LoginByOtpHandler(r) == \E m \in LoginByOtpRequest :
    Arrive(r, Passport("LoginByOtp"), Says(ValidLoginByOtp(m), TRUE))

LogoutHandler(r) == Arrive(r, Passport("Logout"), Nothing)

UserInfoHandler(r) == Arrive(r, Passport("UserInfo"), Nothing)

UpdatePasswordHandler(r) == \E m \in UpdatePasswordRequest :
    Arrive(r, Passport("UpdatePassword"),
        Says(ValidUpdatePassword(m), m.newPassword = m.confirmPassword))

BindMobileHandler(r) == \E m \in BindMobileRequest :
    Arrive(r, Passport("BindMobile"), Says(ValidBindMobile(m), TRUE))

UpdateMobileHandler(r) == \E m \in UpdateMobileRequest :
    Arrive(r, Passport("UpdateMobile"), Says(ValidUpdateMobile(m), TRUE))

ResetPasswordHandler(r) == \E m \in ResetPasswordRequest :
    Arrive(r, Passport("ResetPassword"),
        Says(ValidResetPassword(m), m.newPassword = m.confirmPassword))

GetCaptchaHandler(r) == Arrive(r, Public("GetCaptcha"), Nothing)

SendSmsOtpHandler(r) == \E m \in SendSmsOtpRequest :
    Arrive(r, Public("SendSmsOtp"),
        [Nothing EXCEPT !.valid = ValidSendSmsOtp(m), !.captcha = m.captchaId,
                        !.answer = m.captcha, !.scene = m.scene])

-----------------------------------------------------------------------------
(* The captcha: RedisCaptchaStore.Verify is a GET, a DEL whose error is dropped,    *)
(* and the comparison.                                                              *)

Others(r, c) == \E q \in Req \ {r} : pc[q] = "del" /\ in[q].captcha = c

CaptchaGet(r) ==
    LET c == in[r].captcha IN
    /\ pc[r] = "get"
    /\ \/ /\ captcha[c] = "stored"
          /\ Goto(r, "del")
          /\ spoiled' = IF Others(r, c) THEN spoiled \cup {c} ELSE spoiled
       \/ /\ captcha[c] # "stored" \/ "redis" \in Faults
          /\ Answer(r, "captcha")
          /\ UNCHANGED spoiled
    /\ UNCHANGED <<sessions, captcha, compared, op, token, in, stale>>

Compare(r) ==
    LET c == in[r].captcha IN
    /\ compared' = [compared EXCEPT ![c] = IF @ < 2 THEN @ + 1 ELSE 2]
    /\ IF in[r].answer = "right" THEN Goto(r, "serve") ELSE Answer(r, "captcha")

\* Mutant: the captcha is deleted when the answer is right.
CaptchaDelRight(r) ==
    LET c == in[r].captcha IN
    /\ pc[r] = "del"
    /\ captcha' = IF in[r].answer = "right" THEN [captcha EXCEPT ![c] = "gone"] ELSE captcha
    /\ Compare(r)
    /\ UNCHANGED <<sessions, spoiled, op, token, in, stale>>

\* Right or wrong, the captcha is deleted, unless the DEL fails.
CaptchaDel(r) ==
    LET c == in[r].captcha IN
    /\ pc[r] = "del"
    /\ \/ /\ captcha' = [captcha EXCEPT ![c] = "gone"]
          /\ UNCHANGED spoiled
       \/ /\ "redis" \in Faults
          /\ spoiled' = spoiled \cup {c}
          /\ UNCHANGED captcha
    /\ Compare(r)
    /\ UNCHANGED <<sessions, op, token, in, stale>>

-----------------------------------------------------------------------------
(* The services.  What the use cases refuse is up to Otp and Accounts. *)

Serving(r, operation) ==
    /\ pc[r] = "serve" /\ op[r] = operation
    /\ UNCHANGED <<op, token, in, stale>>

Refuse(r) == Answer(r, "refused") /\ UNCHANGED <<sessions, captchas>>

\* GenerateToken, at the end of a registration or a login.
LogIn(r) ==
    \/ /\ \E s \in Session, u \in User : S!Open(s, u)
       /\ Answer(r, "ok")
       /\ UNCHANGED captchas
    \/ Refuse(r)

Mismatch(r) == ~in[r].match /\ Answer(r, "mismatch") /\ UNCHANGED <<sessions, captchas>>

\* ParseTokenFromContext in the use case: the store is asked a second time.
Parsed(r) == token[r] \in Session /\ state[token[r]] = "live"

Register(r) ==
    /\ Serving(r, Passport("Register"))
    /\ Mismatch(r) \/ (in[r].match /\ LogIn(r))

LoginByPassword(r) == Serving(r, Passport("LoginByPassword")) /\ LogIn(r)

LoginByOtp(r) == Serving(r, Passport("LoginByOtp")) /\ LogIn(r)

\* RevokeToken takes the token from the claims of the context and does not ask whether
\* the store still has it: the answer is "ok" when the token ended meanwhile, and when the
\* user's set lacks it or cannot be read, which leaves it live (LogoutRevokes in TokenStore).
Logout(r) ==
    /\ Serving(r, Passport("Logout"))
    /\ \/ /\ token[r] \in Session
          /\ S!End({token[r]}, owner[token[r]])
          /\ Answer(r, "ok")
          /\ UNCHANGED captchas
       \/ token[r] \in Session /\ Answer(r, "ok") /\ UNCHANGED <<sessions, captchas>>
       \/ /\ token[r] = NoSession \/ "redis" \in Faults
          /\ Refuse(r)

UserInfo(r) ==
    /\ Serving(r, Passport("UserInfo"))
    /\ \/ Parsed(r) /\ Answer(r, "ok") /\ UNCHANGED <<sessions, captchas>>
       \/ Refuse(r)

\* The sessions of u end; errors of Redis, and a login that overlaps, may hide any of them.
Purge(u) ==
    \E gone \in SUBSET {s \in Session : state[s] = "live" /\ owner[s] = u} : S!End(gone, u)

UpdatePassword(r) ==
    /\ Serving(r, Passport("UpdatePassword"))
    /\ \/ Mismatch(r)
       \/ /\ in[r].match /\ Parsed(r)
          /\ Purge(owner[token[r]])
          /\ Answer(r, "ok")
          /\ UNCHANGED captchas
       \/ in[r].match /\ Refuse(r)

BindMobile(r) ==
    /\ Serving(r, Passport("BindMobile"))
    /\ \/ Parsed(r) /\ Answer(r, "ok") /\ UNCHANGED <<sessions, captchas>>
       \/ Refuse(r)

UpdateMobile(r) ==
    /\ Serving(r, Passport("UpdateMobile"))
    /\ \/ Parsed(r) /\ Answer(r, "ok") /\ UNCHANGED <<sessions, captchas>>
       \/ Refuse(r)

ResetPassword(r) ==
    /\ Serving(r, Passport("ResetPassword"))
    /\ \/ Mismatch(r)
       \/ /\ in[r].match
          /\ \E u \in User : Purge(u)
          /\ Answer(r, "ok")
          /\ UNCHANGED captchas
       \/ in[r].match /\ Refuse(r)

\* Generate: the id is new, the answer is stored under it.
GetCaptcha(r) ==
    /\ Serving(r, Public("GetCaptcha"))
    /\ \/ /\ \E c \in Captcha :
                /\ captcha[c] = "free"
                /\ captcha' = [captcha EXCEPT ![c] = "stored"]
          /\ Answer(r, "ok")
          /\ UNCHANGED <<sessions, compared, spoiled>>
       \/ Refuse(r)

\* Mutant: the name of the scene as the enum spells it.
SendSmsOtpUpperCase(r) ==
    /\ Serving(r, Public("SendSmsOtp"))
    /\ Answer(r, "scene")
    /\ UNCHANGED <<sessions, captchas>>

\* A phone that is not registered is refused in the scene "reset"; then SendPhoneOtp
\* looks the scene up and sends.
SendSmsOtp(r) ==
    LET scene == SceneName(in[r].scene) IN
    /\ Serving(r, Public("SendSmsOtp"))
    /\ \/ scene = "reset" /\ Answer(r, "refused")
       \/ scene \notin PhoneScenes /\ Answer(r, "scene")
       \/ scene \in PhoneScenes /\ \E what \in {"ok", "refused"} : Answer(r, what)
    /\ UNCHANGED <<sessions, captchas>>

-----------------------------------------------------------------------------
\* The client has its answer; the slot is free for the next request.
Finish(r) ==
    /\ pc[r] = "done"
    /\ pc' = [pc EXCEPT ![r] = "idle"]
    /\ op' = [op EXCEPT ![r] = Ws]
    /\ token' = [token EXCEPT ![r] = NoSession]
    /\ in' = [in EXCEPT ![r] = Nothing]
    /\ reply' = [reply EXCEPT ![r] = "none"]
    /\ stale' = [stale EXCEPT ![r] = FALSE]
    /\ UNCHANGED <<sessions, captchas>>

SessionExpires(s) == S!End({s}, owner[s]) /\ UNCHANGED <<captchas, requests>>

\* Ten minutes after Set.
CaptchaExpires(c) ==
    /\ captcha[c] = "stored"
    /\ captcha' = [captcha EXCEPT ![c] = "gone"]
    /\ UNCHANGED <<sessions, compared, spoiled, requests>>

Request(r) ==
    \/ RegisterHandler(r) \/ LoginByPasswordHandler(r) \/ LoginByOtpHandler(r)
    \/ LogoutHandler(r) \/ UserInfoHandler(r) \/ UpdatePasswordHandler(r)
    \/ BindMobileHandler(r) \/ UpdateMobileHandler(r) \/ ResetPasswordHandler(r)
    \/ GetCaptchaHandler(r) \/ SendSmsOtpHandler(r) \/ WSHandler(r)

Step(r) ==
    \/ JWTRecheck(r) \/ VerifyToken(r) \/ CaptchaGet(r) \/ CaptchaDel(r)
    \/ Register(r) \/ LoginByPassword(r) \/ LoginByOtp(r) \/ Logout(r) \/ UserInfo(r)
    \/ UpdatePassword(r) \/ BindMobile(r) \/ UpdateMobile(r) \/ ResetPassword(r)
    \/ GetCaptcha(r) \/ SendSmsOtp(r)

Next ==
    \/ \E r \in Req : Request(r) \/ Step(r) \/ Finish(r)
    \/ \E s \in Session : SessionExpires(s)
    \/ \E c \in Captcha : CaptchaExpires(c)

Spec == Init /\ [][Next]_vars

-----------------------------------------------------------------------------
(* Properties. *)

\* Revocation reaches the gateway: a request whose token had ended before it came is
\* never answered "ok", whichever handler it was for and whatever overlaps it, nor is
\* a WebSocket opened for it.
EndedTokensRefused == \A r \in Req : stale[r] => reply[r] # "ok"

\* "verify and delete (against replay)" (captcha.go:87), as far as it goes: a captcha
\* is compared with one answer, right or wrong, unless a DEL failed or two requests
\* had read it before either deleted it.
ComparedOnce == \A c \in Captcha \ spoiled : compared[c] <= 1

\* A message that keeps the rules names a scene that is configured: the enum of the
\* API and the keys of phone_scenes agree.
ScenesConfigured == \A r \in Req : reply[r] = "scene" => ~in[r].valid

\* "3-20 characters", "11 digits" and the like (passport.proto:116): a service is
\* only given messages that keep the rules.
RulesEnforced == \A r \in Req : pc[r] = "serve" => in[r].valid

=============================================================================
