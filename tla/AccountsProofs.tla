---------------------------- MODULE AccountsProofs ----------------------------
(***************************************************************************)
(* Theorems about Accounts, for any users, sessions and requests.           *)
(***************************************************************************)
EXTENDS Accounts, TLAPS

-----------------------------------------------------------------------------
(* Types. *)

\* Initially every variable has its type.
LEMMA InitTypes == Init => TypeOK
  BY DEF Init, TypeOK, Operations, Steps, Outcomes, UserSteps

\* A request that starts with arguments of the right types keeps the types.
LEMMA EnterTypes ==
  ASSUME TypeOK, NEW r \in Req, NEW o \in Operations, NEW first \in Steps,
         NEW u \in Id \cup {None}, NEW s \in Session \cup {None},
         NEW h \in Name \cup Phone \cup {None}, NEW p \in Name \cup Phone \cup {None},
         Enter(r, o, first, u, s, h, p), proven' \subseteq Phone,
         first \in UserSteps => u \in Id,
         o = "update" => s \in Session,
         first # "reparse",
         first \in {"name", "phone", "create", "byName"} \/ o = "otp" => h # None,
         o # "password" => p \in Phone \cup {None},
         first \in {"name", "phone"} => o = "register",
         first = "create" => o \in {"register", "otp"},
         first = "byName" => o = "password",
         first \in {"free", "bind"} => o = "bind" /\ p # None
  PROVE  TypeOK'
  BY DEF TypeOK, Enter, Goto, table, sessions, Operations, Steps, Outcomes, UserSteps

\* Every operation starts with the types.
LEMMA BeginTypes ==
  ASSUME TypeOK, NEW r \in Req, Begin(r)
  PROVE  TypeOK'
<1>1. CASE \E n \in Name, p \in Phone \cup {None} : Register(r, n, p)
  <2> PICK n \in Name, p \in Phone \cup {None} : Register(r, n, p)
    BY <1>1
  <2>1. proven' \subseteq Phone
    BY DEF Register, Proves, TypeOK
  <2>2. Enter(r, "register", "name", None, None, n, p) /\ n # None
    BY ConstantsAssumption DEF Register
  <2> QED
    BY <2>1, <2>2, EnterTypes DEF Operations, Steps, UserSteps
<1>2. CASE \E h \in Name \cup Phone : LoginByPassword(r, h)
  <2> PICK h \in Name \cup Phone : LoginByPassword(r, h)
    BY <1>2
  <2>1. proven' \subseteq Phone
    BY DEF LoginByPassword, TypeOK
  <2>2. Enter(r, "password", "byName", None, None, h, None) /\ h # None
    BY ConstantsAssumption DEF LoginByPassword
  <2> QED
    BY <2>1, <2>2, EnterTypes DEF Operations, Steps, UserSteps
<1>3. CASE \E p \in Phone : LoginByOtp(r, p)
  <2> PICK p \in Phone : LoginByOtp(r, p)
    BY <1>3
  <2>1. proven' \subseteq Phone
    BY DEF LoginByOtp, Proves, TypeOK
  <2>2. Enter(r, "otp", "byPhone", None, None, p, p) /\ p # None
    BY ConstantsAssumption DEF LoginByOtp
  <2> QED
    BY <2>1, <2>2, EnterTypes DEF Operations, Steps, UserSteps
<1>4. CASE \E p \in Phone : ResetPassword(r, p)
  <2> PICK p \in Phone : ResetPassword(r, p)
    BY <1>4
  <2>1. proven' \subseteq Phone
    BY DEF ResetPassword, Proves, TypeOK
  <2>2. Enter(r, "reset", "byPhone", None, None, None, p)
    BY DEF ResetPassword
  <2> QED
    BY <2>1, <2>2, EnterTypes DEF Operations, Steps, UserSteps
<1>5. CASE \E s \in Session : UpdatePassword(r, s)
  <2> PICK s \in Session : UpdatePassword(r, s)
    BY <1>5
  <2>1. proven' \subseteq Phone /\ owner[s] \in Id
    BY DEF UpdatePassword, TypeOK
  <2>2. Enter(r, "update", "load", owner[s], s, None, None)
    BY DEF UpdatePassword
  <2> QED
    BY <2>1, <2>2, EnterTypes DEF Operations, Steps, UserSteps
<1>6. CASE \E s \in Session, p \in Phone : BindMobile(r, s, p)
  <2> PICK s \in Session, p \in Phone : BindMobile(r, s, p)
    BY <1>6
  <2>1. proven' \subseteq Phone /\ owner[s] \in Id
    BY DEF BindMobile, Proves, TypeOK
  <2>2. Enter(r, "bind", "free", owner[s], s, None, p) /\ p # None
    BY ConstantsAssumption DEF BindMobile
  <2> QED
    BY <2>1, <2>2, EnterTypes DEF Operations, Steps, UserSteps
<1> QED
  BY <1>1, <1>2, <1>3, <1>4, <1>5, <1>6 DEF Begin

\* A request that only goes on keeps the types.
LEMMA GoOnTypes ==
  ASSUME TypeOK, NEW r \in Req, NEW label \in Steps \cup Outcomes, GoOn(r, label),
         label \in UserSteps => usr[r] \in Id,
         label = "reparse" => op[r] = "update",
         label \in {"name", "phone", "create", "byName"} => handle[r] # None,
         label \in {"name", "phone"} => op[r] = "register",
         label = "create" => op[r] \in {"register", "otp"},
         label = "byName" => op[r] = "password",
         label \in {"free", "bind"} => op[r] = "bind" /\ mobile[r] # None
  PROVE  TypeOK'
  BY DEF TypeOK, GoOn, Goto, table, sessions, locals, history

\* A request ends.
LEMMA GoOnEnds ==
  ASSUME TypeOK, NEW r \in Req, NEW label \in Outcomes, GoOn(r, label)
  PROVE  TypeOK'
  BY GoOnTypes DEF Outcomes, UserSteps

\* A login that has found a user, or refuses him, keeps the types.
LEMMA LogInTypes ==
  ASSUME TypeOK, NEW r \in Req, pc[r] \in {"byName", "byPhone"}, NEW u \in Id,
         LogIn(r, u) \/ CheckPassword(r, u)
  PROVE  TypeOK'
<1>1. CASE LogIn(r, u)
  BY <1>1 DEF TypeOK, LogIn, Goto, table, sessions, history, Steps, Outcomes, UserSteps
<1>2. CASE GoOn(r, "refused")
  BY <1>2, GoOnEnds DEF Outcomes
<1> QED
  BY <1>1, <1>2 DEF CheckPassword

LEMMA RegisterTypes ==
  ASSUME TypeOK, NEW r \in Req,
         RegisterCheckName(r) \/ RegisterCheckPhone(r) \/ CreateUser(r) \/ GenerateToken(r)
  PROVE  TypeOK'
<1>1. CASE RegisterCheckName(r)
  <2>1. handle[r] # None /\ op[r] = "register"
    BY <1>1 DEF RegisterCheckName, TypeOK
  <2>2. CASE GoOn(r, "refused")
    BY <2>2, GoOnEnds DEF Outcomes
  <2>3. CASE GoOn(r, "create")
    BY <2>1, <2>3, GoOnTypes DEF Steps, UserSteps
  <2>4. CASE GoOn(r, "phone")
    BY <2>1, <2>4, GoOnTypes DEF Steps, UserSteps
  <2> QED
    BY <1>1, <2>2, <2>3, <2>4 DEF RegisterCheckName
<1>2. CASE RegisterCheckPhone(r)
  <2>1. handle[r] # None /\ op[r] = "register"
    BY <1>2 DEF RegisterCheckPhone, TypeOK
  <2>2. CASE GoOn(r, "refused")
    BY <2>2, GoOnEnds DEF Outcomes
  <2>3. CASE GoOn(r, "create")
    BY <2>1, <2>3, GoOnTypes DEF Steps, UserSteps
  <2> QED
    BY <1>2, <2>2, <2>3 DEF RegisterCheckPhone
<1>3. CASE CreateUser(r)
  <2>1. handle[r] \in Name \cup Phone /\ op[r] \in {"register", "otp"}
        /\ mobile[r] \in Phone \cup {None}
    BY <1>3 DEF CreateUser, TypeOK
  <2>2. CASE GoOn(r, "refused") \/ GoOn(r, "failed")
    BY <2>2, GoOnEnds DEF Outcomes
  <2>3. ASSUME NEW u \in Id, NEW w \in Password \cup {None}, Insert(r, u, w),
               UNCHANGED <<sessions, op, own, handle, mobile, history>>,
               \/ Goto(r, "token") /\ usr' = [usr EXCEPT ![r] = u]
                                  /\ read' = [read EXCEPT ![r] = w]
               \/ Goto(r, "failed") /\ UNCHANGED <<usr, read>>
        PROVE  TypeOK'
    <3>1. name' \in [Id -> Name \cup Phone \cup {None}] /\ phone' \in [Id -> Phone \cup {None}]
          /\ hash' \in [Id -> Password \cup {None}]
      BY <2>1, <2>3 DEF Insert, TypeOK
    <3> QED
      BY <2>3, <3>1 DEF TypeOK, Goto, sessions, history, Steps, Outcomes, UserSteps
  <2> QED
    BY <1>3, <2>2, <2>3 DEF CreateUser
<1>4. CASE GenerateToken(r)
  <2>1. usr[r] \in Id
    BY <1>4 DEF GenerateToken, TypeOK, UserSteps
  <2>2. CASE GoOn(r, "failed")
    BY <2>2, GoOnEnds DEF Outcomes
  <2>3. ASSUME NEW s \in Session, Open(s, usr[r]), basis' = [basis EXCEPT ![s] = read[r]],
               Goto(r, "ok") \/ Goto(r, "failed"), missed' \subseteq missed \cup {s},
               UNCHANGED <<table, locals, proven, unrevoked>>
        PROVE  TypeOK'
    <3>1. owner' = [owner EXCEPT ![s] = usr[r]] /\ state' = [state EXCEPT ![s] = "live"]
      BY <2>3 DEF Open
    <3> QED
      BY <2>1, <2>3, <3>1 DEF TypeOK, Goto, table, locals, Outcomes, UserSteps
  <2> QED
    BY <1>4, <2>2, <2>3 DEF GenerateToken
<1> QED
  BY <1>1, <1>2, <1>3, <1>4

LEMMA LoginTypes ==
  ASSUME TypeOK, NEW r \in Req, LoginByName(r) \/ LoginByPhone(r) \/ LoginByOtpFind(r)
  PROVE  TypeOK'
<1>1. CASE LoginByName(r)
  <2>1. CASE \E u \in Named(handle[r]) : CheckPassword(r, u)
    BY <1>1, <2>1, LogInTypes DEF LoginByName, Named
  <2>2. CASE GoOn(r, "failed")
    BY <2>2, GoOnEnds DEF Outcomes
  <2>3. CASE /\ Goto(r, "byPhone")
             /\ mobile' = [mobile EXCEPT ![r] = handle[r]]
             /\ UNCHANGED <<table, sessions, op, usr, own, handle, read, history>>
    <3>1. op[r] = "password"
      BY <1>1 DEF LoginByName, TypeOK
    <3> QED
      BY <2>3, <3>1 DEF TypeOK, Goto, table, sessions, history, Steps, UserSteps
  <2> QED
    BY <1>1, <2>1, <2>2, <2>3 DEF LoginByName
<1>2. CASE LoginByPhone(r)
  <2>1. CASE \E u \in Bound(mobile[r]) : CheckPassword(r, u)
    BY <1>2, <2>1, LogInTypes DEF LoginByPhone, Bound
  <2>2. CASE GoOn(r, "failed") \/ GoOn(r, "refused")
    BY <2>2, GoOnEnds DEF Outcomes
  <2> QED
    BY <1>2, <2>1, <2>2 DEF LoginByPhone
<1>3. CASE LoginByOtpFind(r)
  <2>1. CASE \E u \in Bound(mobile[r]) : LogIn(r, u)
    BY <1>3, <2>1, LogInTypes DEF LoginByOtpFind, Bound
  <2>2. CASE GoOn(r, "failed") \/ GoOn(r, "refused")
    BY <2>2, GoOnEnds DEF Outcomes
  <2>3. CASE GoOn(r, "create")
    <3>1. op[r] = "otp" /\ handle[r] # None
      BY <1>3 DEF LoginByOtpFind, TypeOK
    <3> QED
      BY <2>3, <3>1, GoOnTypes DEF Steps, UserSteps
  <2> QED
    BY <1>3, <2>1, <2>2, <2>3 DEF LoginByOtpFind
<1> QED
  BY <1>1, <1>2, <1>3

LEMMA ChangeTypes ==
  ASSUME TypeOK, NEW r \in Req,
         \/ UpdatePasswordCheck(r) \/ ResetPasswordFind(r) \/ StorePassword(r)
         \/ RevokeAllParse(r) \/ Purge(r)
  PROVE  TypeOK'
<1>1. CASE UpdatePasswordCheck(r)
  <2>1. CASE GoOn(r, "store")
    BY <1>1, <2>1, GoOnTypes DEF UpdatePasswordCheck, TypeOK, Steps, UserSteps
  <2>2. CASE GoOn(r, "refused") \/ GoOn(r, "failed")
    BY <2>2, GoOnEnds DEF Outcomes
  <2> QED
    BY <1>1, <2>1, <2>2 DEF UpdatePasswordCheck
<1>2. CASE ResetPasswordFind(r)
  <2>1. ASSUME NEW u \in Bound(mobile[r]), Goto(r, "store"), usr' = [usr EXCEPT ![r] = u],
               UNCHANGED <<table, sessions, op, own, handle, mobile, read, history>>
        PROVE  TypeOK'
    <3>1. u \in Id
      BY DEF Bound
    <3> QED
      BY <2>1, <3>1 DEF TypeOK, Goto, table, sessions, history, Steps, UserSteps
  <2>2. CASE GoOn(r, "refused")
    BY <2>2, GoOnEnds DEF Outcomes
  <2> QED
    BY <1>2, <2>1, <2>2 DEF ResetPasswordFind
<1>3. CASE StorePassword(r)
  <2>1. usr[r] \in Id
    BY <1>3 DEF StorePassword, TypeOK, UserSteps
  <2>2. CASE GoOn(r, "failed")
    BY <2>2, GoOnEnds DEF Outcomes
  <2>3. ASSUME NEW w \in Password, hash' = [hash EXCEPT ![usr[r]] = w],
               UNCHANGED <<name, phone, sessions, locals, basis, proven, missed>>,
               \/ Goto(r, IF op[r] = "update" THEN "reparse" ELSE "purge") /\ UNCHANGED unrevoked
               \/ Goto(r, "failed") /\ unrevoked' = unrevoked \cup {usr[r]}
        PROVE  TypeOK'
    <3>1. hash' \in [Id -> Password \cup {None}] /\ unrevoked' \subseteq Id
      BY <2>1, <2>3 DEF TypeOK
    <3> QED
      BY <2>1, <2>3, <3>1 DEF TypeOK, Goto, sessions, locals, Steps, Outcomes, UserSteps
  <2> QED
    BY <1>3, <2>2, <2>3 DEF StorePassword
<1>4. CASE RevokeAllParse(r)
  <2>1. usr[r] \in Id
    BY <1>4 DEF RevokeAllParse, TypeOK, UserSteps
  <2>2. CASE GoOn(r, "purge")
    BY <2>1, <2>2, GoOnTypes DEF Steps, UserSteps
  <2>3. CASE /\ Goto(r, "failed") /\ unrevoked' = unrevoked \cup {usr[r]}
             /\ UNCHANGED <<table, sessions, locals, basis, proven, missed>>
    BY <2>1, <2>3 DEF TypeOK, Goto, table, sessions, locals, Outcomes, UserSteps
  <2> QED
    BY <1>4, <2>2, <2>3 DEF RevokeAllParse
<1>5. CASE Purge(r)
  <2>1. usr[r] \in Id
    BY <1>5 DEF Purge, TypeOK, UserSteps
  <2>2. /\ UNCHANGED <<table, locals, basis, proven, owner>>
        /\ Goto(r, "ok") \/ Goto(r, "failed")
        /\ unrevoked' \subseteq Id /\ missed' \subseteq Session
    BY <1>5, <2>1 DEF Purge, End, Live, TypeOK
  <2>3. PICK gone \in SUBSET Session :
          state' = [s \in Session |-> IF s \in gone THEN "ended" ELSE state[s]]
    BY <1>5 DEF Purge, End, Live
  <2> QED
    BY <2>2, <2>3 DEF TypeOK, Goto, table, locals, Outcomes, UserSteps
<1> QED
  BY <1>1, <1>2, <1>3, <1>4, <1>5

LEMMA BindTypes ==
  ASSUME TypeOK, NEW r \in Req, BindMobileCheck(r) \/ UpdatePhone(r)
  PROVE  TypeOK'
<1>1. CASE BindMobileCheck(r)
  <2>1. CASE GoOn(r, "bind")
    <3>1. usr[r] \in Id /\ op[r] = "bind" /\ mobile[r] # None
      BY <1>1 DEF BindMobileCheck, TypeOK, UserSteps
    <3> QED
      BY <2>1, <3>1, GoOnTypes DEF Steps, UserSteps
  <2>2. CASE GoOn(r, "refused")
    BY <2>2, GoOnEnds DEF Outcomes
  <2> QED
    BY <1>1, <2>1, <2>2 DEF BindMobileCheck
<1>2. CASE UpdatePhone(r)
  <2>1. usr[r] \in Id /\ mobile[r] \in Phone \cup {None}
    BY <1>2 DEF UpdatePhone, TypeOK, UserSteps
  <2>2. CASE GoOn(r, "failed")
    BY <2>2, GoOnEnds DEF Outcomes
  <2>3. CASE /\ phone' = [phone EXCEPT ![usr[r]] = mobile[r]]
             /\ Goto(r, "ok") \/ Goto(r, "failed")
             /\ UNCHANGED <<name, hash, sessions, locals, history>>
    BY <2>1, <2>3 DEF TypeOK, Goto, sessions, locals, history, Outcomes, UserSteps
  <2> QED
    BY <1>2, <2>2, <2>3 DEF UpdatePhone
<1> QED
  BY <1>1, <1>2

\* Answers, deaths and ends of sessions.
LEMMA OtherTypes ==
  ASSUME TypeOK, \/ \E r \in Req : Answer(r) \/ Crash(r)
                 \/ \E s \in Session : LogoutSRem(s) \/ Logout(s)
  PROVE  TypeOK'
<1>1. ASSUME NEW r \in Req, Forget(r), unrevoked' \subseteq Id
      PROVE  TypeOK'
  BY <1>1, ConstantsAssumption DEF TypeOK, Forget, Goto, table, sessions, Operations, UserSteps
<1>2. ASSUME NEW r \in Req, Answer(r) PROVE TypeOK'
  BY <1>1, <1>2 DEF Answer, TypeOK
<1>3. ASSUME NEW r \in Req, Crash(r) PROVE TypeOK'
  <2>1. unrevoked' \subseteq Id
    BY <1>3 DEF Crash, TypeOK, UserSteps
  <2> QED
    BY <1>1, <1>3, <2>1 DEF Crash
<1>4. ASSUME NEW s \in Session, LogoutSRem(s) \/ Logout(s) PROVE TypeOK'
  BY <1>4 DEF LogoutSRem, Logout, End, TypeOK, table, sessions, locals
<1> QED
  BY <1>2, <1>3, <1>4

LEMMA NextTypes == TypeOK /\ [Next]_vars => TypeOK'
<1> SUFFICES ASSUME TypeOK, [Next]_vars PROVE TypeOK'
  OBVIOUS
<1>1. CASE UNCHANGED vars
  BY <1>1 DEF vars, TypeOK
<1>2. CASE \E r \in Req : Begin(r)
  BY <1>2, BeginTypes
<1>3. CASE \E r \in Req : Continue(r)
  BY <1>3, RegisterTypes, LoginTypes, ChangeTypes, BindTypes DEF Continue
<1> QED
  BY <1>1, <1>2, <1>3, OtherTypes DEF Next

\* Every variable keeps its type, and each step of a flow has what it needs: a user
\* found, a name or a phone to look up, the session the request came with.
THEOREM TypeCorrect == Spec => []TypeOK
  BY InitTypes, NextTypes, PTL DEF Spec

-----------------------------------------------------------------------------
(* Phones are proven. *)

\* Every phone that a request may yet write was proven when the request came.
MobilesProven ==
    \A r \in Req : op[r] # "password" /\ mobile[r] # None => mobile[r] \in proven

ProvenInv == PhonesProven /\ MobilesProven

\* Steps that write neither the table's phones nor the arguments of a request.
LEMMA ProvenUntouched ==
  ASSUME ProvenInv, UNCHANGED <<phone, op, mobile>>, proven \subseteq proven'
  PROVE  ProvenInv'
  BY DEF ProvenInv, PhonesProven, MobilesProven

LEMMA BeginProven ==
  ASSUME TypeOK, ProvenInv, NEW r \in Req, Begin(r)
  PROVE  ProvenInv'
<1>1. ASSUME NEW o \in Operations, NEW first, NEW u, NEW s, NEW h, NEW p \in Phone \cup {None},
             Enter(r, o, first, u, s, h, p), proven \subseteq proven',
             o # "password" /\ p # None => p \in proven'
      PROVE  ProvenInv'
  <2>1. UNCHANGED phone /\ op' = [op EXCEPT ![r] = o] /\ mobile' = [mobile EXCEPT ![r] = p]
    BY <1>1 DEF Enter, table
  <2>2. PhonesProven'
    BY <1>1, <2>1 DEF ProvenInv, PhonesProven
  <2>3. ASSUME NEW q \in Req, op'[q] # "password", mobile'[q] # None
        PROVE  mobile'[q] \in proven'
    <3>1. CASE q = r
      BY <1>1, <2>1, <2>3, <3>1 DEF TypeOK
    <3>2. CASE q # r
      BY <1>1, <2>1, <2>3, <3>2 DEF TypeOK, ProvenInv, MobilesProven
    <3> QED
      BY <3>1, <3>2
  <2> QED
    BY <2>2, <2>3 DEF ProvenInv, MobilesProven
<1>2. ASSUME NEW p, Proves(p)
      PROVE  proven \subseteq proven' /\ (p # None => p \in proven')
  BY <1>2 DEF Proves
<1>3. ASSUME NEW n \in Name, NEW p \in Phone \cup {None}, Register(r, n, p) PROVE ProvenInv'
  BY <1>1, <1>2, <1>3 DEF Register, Operations
<1>4. ASSUME NEW h \in Name \cup Phone, LoginByPassword(r, h) PROVE ProvenInv'
  BY <1>1, <1>4 DEF LoginByPassword, Operations
<1>5. ASSUME NEW p \in Phone, LoginByOtp(r, p) PROVE ProvenInv'
  BY <1>1, <1>2, <1>5 DEF LoginByOtp, Operations
<1>6. ASSUME NEW p \in Phone, ResetPassword(r, p) PROVE ProvenInv'
  BY <1>1, <1>2, <1>6 DEF ResetPassword, Operations
<1>7. ASSUME NEW s \in Session, UpdatePassword(r, s) PROVE ProvenInv'
  BY <1>1, <1>7 DEF UpdatePassword, Operations
<1>8. ASSUME NEW s \in Session, NEW p \in Phone, BindMobile(r, s, p) PROVE ProvenInv'
  BY <1>1, <1>2, <1>8 DEF BindMobile, Operations
<1> QED
  BY <1>3, <1>4, <1>5, <1>6, <1>7, <1>8 DEF Begin

\* Only CreateUser and UpdatePhone write phones, and only LoginByName an argument.
LEMMA ContinueProven ==
  ASSUME TypeOK, ProvenInv, NEW r \in Req, Continue(r)
  PROVE  ProvenInv'
<1>1. ASSUME NEW label, GoOn(r, label) PROVE ProvenInv'
  BY <1>1, ProvenUntouched DEF GoOn, table, locals, history
<1>2. ASSUME NEW u, LogIn(r, u) \/ CheckPassword(r, u) PROVE ProvenInv'
  BY <1>1, <1>2, ProvenUntouched DEF LogIn, CheckPassword, table, history
<1>3. CASE RegisterCheckName(r) \/ RegisterCheckPhone(r)
  BY <1>1, <1>3 DEF RegisterCheckName, RegisterCheckPhone
<1>4. CASE CreateUser(r)
  <2>1. op[r] # "password" /\ (mobile[r] # None => mobile[r] \in proven)
    BY <1>4 DEF CreateUser, TypeOK, ProvenInv, MobilesProven
  <2>2. ASSUME NEW u \in Id, NEW w, Insert(r, u, w), UNCHANGED <<op, mobile, proven>>
        PROVE  ProvenInv'
    BY <2>1, <2>2 DEF Insert, TypeOK, ProvenInv, PhonesProven, MobilesProven
  <2>3. CASE GoOn(r, "refused") \/ GoOn(r, "failed")
    BY <1>1, <2>3
  <2> QED
    BY <1>4, <2>2, <2>3 DEF CreateUser, history
<1>5. CASE GenerateToken(r)
  <2>1. UNCHANGED <<phone, op, mobile, proven>> \/ GoOn(r, "failed")
    BY <1>5 DEF GenerateToken, table, locals
  <2> QED
    BY <1>1, <2>1, ProvenUntouched
<1>6. CASE LoginByName(r)
  <2>1. CASE \E u \in Named(handle[r]) : CheckPassword(r, u)
    BY <1>2, <2>1
  <2>2. CASE GoOn(r, "failed")
    BY <1>1, <2>2
  <2>3. CASE /\ mobile' = [mobile EXCEPT ![r] = handle[r]]
             /\ UNCHANGED <<table, op, history>>
    <3>1. op[r] = "password"
      BY <1>6 DEF LoginByName, TypeOK
    <3> QED
      BY <2>3, <3>1 DEF table, history, TypeOK, ProvenInv, PhonesProven, MobilesProven
  <2> QED
    BY <1>6, <2>1, <2>2, <2>3 DEF LoginByName
<1>7. CASE LoginByPhone(r) \/ LoginByOtpFind(r)
  BY <1>1, <1>2, <1>7 DEF LoginByPhone, LoginByOtpFind
<1>8. CASE UpdatePasswordCheck(r) \/ ResetPasswordFind(r)
  <2>1. UNCHANGED <<phone, op, mobile, proven>> \/ \E label \in Outcomes \cup Steps : GoOn(r, label)
    BY <1>8 DEF UpdatePasswordCheck, ResetPasswordFind, table, history, Outcomes, Steps
  <2> QED
    BY <1>1, <2>1, ProvenUntouched
<1>9. CASE StorePassword(r) \/ RevokeAllParse(r) \/ Purge(r)
  <2>1. UNCHANGED <<phone, op, mobile, proven>>
        \/ \E label \in Outcomes \cup Steps : GoOn(r, label)
    BY <1>9 DEF StorePassword, RevokeAllParse, Purge, table, locals, Outcomes, Steps
  <2> QED
    BY <1>1, <2>1, ProvenUntouched
<1>10. CASE BindMobileCheck(r)
  BY <1>1, <1>10 DEF BindMobileCheck
<1>11. CASE UpdatePhone(r)
  <2>1. mobile[r] \in proven
    BY <1>11 DEF UpdatePhone, TypeOK, ProvenInv, MobilesProven
  <2>2. CASE phone' = [phone EXCEPT ![usr[r]] = mobile[r]] /\ UNCHANGED <<locals, history>>
    BY <2>1, <2>2 DEF locals, history, TypeOK, ProvenInv, PhonesProven, MobilesProven
  <2> QED
    BY <1>1, <1>11, <2>2 DEF UpdatePhone
<1> QED
  BY <1>3, <1>4, <1>5, <1>6, <1>7, <1>8, <1>9, <1>10, <1>11 DEF Continue

LEMMA NextProven == TypeOK /\ ProvenInv /\ [Next]_vars => ProvenInv'
<1> SUFFICES ASSUME TypeOK, ProvenInv, [Next]_vars PROVE ProvenInv'
  OBVIOUS
<1>1. CASE UNCHANGED vars
  BY <1>1, ProvenUntouched DEF vars
<1>2. ASSUME NEW r \in Req, Answer(r) \/ Crash(r) PROVE ProvenInv'
  <2>1. UNCHANGED <<phone, proven>> /\ mobile' = [mobile EXCEPT ![r] = None]
        /\ op' = [op EXCEPT ![r] = "register"]
    BY <1>2 DEF Answer, Crash, Forget, table
  <2> QED
    BY <2>1 DEF TypeOK, ProvenInv, PhonesProven, MobilesProven
<1>3. ASSUME NEW s \in Session, LogoutSRem(s) \/ Logout(s) PROVE ProvenInv'
  BY <1>3, ProvenUntouched DEF LogoutSRem, Logout, table, locals
<1> QED
  BY <1>1, <1>2, <1>3, BeginProven, ContinueProven DEF Next

\* Whatever fails and overlaps, no row has a phone for which no code was accepted.
THEOREM OnlyProvenPhones == Spec => []PhonesProven
<1>1. Init => ProvenInv
  BY DEF Init, ProvenInv, PhonesProven, MobilesProven
<1>2. ProvenInv => PhonesProven
  BY DEF ProvenInv
<1> QED
  BY <1>1, <1>2, NextProven, TypeCorrect, PTL DEF Spec

-----------------------------------------------------------------------------
(* Rows stay, and sessions and requests are of users that have one. *)

RowsNamed == \A u \in Id : phone[u] # None => name[u] # None
SessionsOwned == \A s \in Session : state[s] = "live" => name[owner[s]] # None
RequestsFound == \A r \in Req : pc[r] \in UserSteps => name[usr[r]] # None

RowsInv == RowsNamed /\ SessionsOwned /\ RequestsFound

\* A step of r leaves the requests beside it alone.
Beside(r) ==
    \A q \in Req \ {r} : pc'[q] = pc[q] /\ usr'[q] = usr[q] /\ read'[q] = read[q]

LEMMA BesideBegin ==
  ASSUME TypeOK, NEW r \in Req, Begin(r)
  PROVE  Beside(r)
<1>1. ASSUME NEW o, NEW first, NEW u, NEW s, NEW h, NEW p, Enter(r, o, first, u, s, h, p)
      PROVE  Beside(r)
  BY <1>1 DEF Enter, Goto, Beside, TypeOK
<1> QED
  BY <1>1 DEF Begin, Register, LoginByPassword, LoginByOtp, ResetPassword, UpdatePassword, BindMobile

LEMMA BesideGoOn ==
  ASSUME TypeOK, NEW r \in Req, NEW label, GoOn(r, label)
  PROVE  Beside(r) /\ pc'[r] = label /\ usr'[r] = usr[r] /\ read'[r] = read[r]
         /\ UNCHANGED <<table, sessions, locals, history>>
  BY DEF GoOn, Goto, Beside, TypeOK, locals

LEMMA BesideLogIn ==
  ASSUME TypeOK, NEW r \in Req, NEW u, LogIn(r, u)
  PROVE  Beside(r) /\ pc'[r] = "token" /\ usr'[r] = u /\ read'[r] = hash[u]
         /\ UNCHANGED <<table, sessions, history>>
  BY DEF LogIn, Goto, Beside, TypeOK

\* Steps that change no row and open no session.
LEMMA RowsUntouched ==
  ASSUME TypeOK, RowsInv, NEW r \in Req, Beside(r), UNCHANGED <<name, phone, owner>>,
         \A s \in Session : state'[s] = "live" => state[s] = "live",
         pc'[r] \in UserSteps => name[usr'[r]] # None
  PROVE  RowsInv'
<1>1. RowsNamed' /\ SessionsOwned'
  BY DEF RowsInv, RowsNamed, SessionsOwned
<1>2. ASSUME NEW q \in Req, pc'[q] \in UserSteps PROVE name'[usr'[q]] # None
  <2>1. CASE q = r
    BY <1>2, <2>1
  <2>2. CASE q # r
    BY <1>2, <2>2 DEF RowsInv, RequestsFound, Beside
  <2> QED
    BY <2>1, <2>2
<1> QED
  BY <1>1, <1>2 DEF RowsInv, RequestsFound, UserSteps

LEMMA RowsGoOn ==
  ASSUME TypeOK, RowsInv, NEW r \in Req, NEW label, GoOn(r, label),
         label \in UserSteps => pc[r] \in UserSteps
  PROVE  RowsInv'
<1>1. UNCHANGED <<name, phone, owner, state>>
  BY BesideGoOn DEF table, sessions
<1>2. pc'[r] \in UserSteps => name[usr'[r]] # None
  BY BesideGoOn DEF RowsInv, RequestsFound
<1> QED
  BY <1>1, <1>2, BesideGoOn, RowsUntouched

\* A user who is found by his name or phone has a row.
LEMMA RowsLogIn ==
  ASSUME TypeOK, RowsInv, NEW r \in Req, NEW u \in Id, name[u] # None,
         LogIn(r, u) \/ CheckPassword(r, u)
  PROVE  RowsInv'
<1>1. CASE LogIn(r, u)
  <2>1. UNCHANGED <<name, phone, owner, state>>
    BY <1>1, BesideLogIn DEF table, sessions
  <2> QED
    BY <1>1, <2>1, BesideLogIn, RowsUntouched
<1>2. CASE GoOn(r, "refused")
  BY <1>2, RowsGoOn DEF UserSteps
<1> QED
  BY <1>1, <1>2 DEF CheckPassword

LEMMA BeginRows ==
  ASSUME TypeOK, RowsInv, NEW r \in Req, Begin(r)
  PROVE  RowsInv'
<1>1. ASSUME NEW o, NEW first, NEW u, NEW s, NEW h, NEW p, Enter(r, o, first, u, s, h, p),
             first \in UserSteps => name[u] # None
      PROVE  RowsInv'
  <2>1. /\ UNCHANGED <<name, phone, owner, state>> /\ pc'[r] = first /\ usr'[r] = u
    BY <1>1 DEF Enter, Goto, table, sessions, TypeOK
  <2> QED
    BY <1>1, <2>1, BesideBegin, RowsUntouched
<1>2. ASSUME NEW s \in Session, state[s] = "live" PROVE name[owner[s]] # None
  BY <1>2 DEF RowsInv, SessionsOwned
<1> QED
  BY <1>1, <1>2
     DEF Begin, Register, LoginByPassword, LoginByOtp, ResetPassword, UpdatePassword,
         BindMobile, UserSteps

LEMMA CreateRows ==
  ASSUME TypeOK, RowsInv, NEW r \in Req, CreateUser(r)
  PROVE  RowsInv' /\ Beside(r)
<1>1. CASE GoOn(r, "refused") \/ GoOn(r, "failed")
  BY <1>1, RowsGoOn, BesideGoOn DEF UserSteps
<1>2. ASSUME NEW u \in Id, NEW w, Insert(r, u, w), UNCHANGED sessions,
             \/ Goto(r, "token") /\ usr' = [usr EXCEPT ![r] = u]
                                /\ read' = [read EXCEPT ![r] = w]
             \/ Goto(r, "failed") /\ UNCHANGED <<usr, read>>
      PROVE  RowsInv' /\ Beside(r)
  <2>1. handle[r] # None
    BY DEF CreateUser, TypeOK
  <2>2. /\ name' = [name EXCEPT ![u] = handle[r]] /\ phone' = [phone EXCEPT ![u] = mobile[r]]
        /\ UNCHANGED <<owner, state>>
    BY <1>2 DEF Insert, sessions
  <2>3. RowsNamed' /\ SessionsOwned'
    BY <2>1, <2>2 DEF TypeOK, RowsInv, RowsNamed, SessionsOwned
  <2>4. RequestsFound' /\ Beside(r)
    BY <1>2, <2>1, <2>2 DEF TypeOK, RowsInv, RequestsFound, UserSteps, Beside, Goto
  <2> QED
    BY <2>3, <2>4 DEF RowsInv
<1> QED
  BY <1>1, <1>2 DEF CreateUser

LEMMA GenerateRows ==
  ASSUME TypeOK, RowsInv, NEW r \in Req, GenerateToken(r)
  PROVE  RowsInv' /\ Beside(r)
<1>1. CASE GoOn(r, "failed")
  BY <1>1, RowsGoOn, BesideGoOn DEF UserSteps
<1>2. ASSUME NEW s \in Session, Open(s, usr[r]), Goto(r, "ok") \/ Goto(r, "failed"),
             UNCHANGED <<table, locals>>
      PROVE  RowsInv' /\ Beside(r)
  <2>1. name[usr[r]] # None
    BY DEF GenerateToken, RowsInv, RequestsFound, UserSteps
  <2>2. /\ owner' = [owner EXCEPT ![s] = usr[r]] /\ state' = [state EXCEPT ![s] = "live"]
        /\ UNCHANGED <<name, phone, usr, read>>
    BY <1>2 DEF Open, table, locals
  <2>3. RowsNamed' /\ SessionsOwned'
    BY <2>1, <2>2 DEF TypeOK, RowsInv, RowsNamed, SessionsOwned
  <2>4. RequestsFound' /\ Beside(r)
    BY <1>2, <2>2 DEF TypeOK, RowsInv, RequestsFound, UserSteps, Beside, Goto
  <2> QED
    BY <2>3, <2>4 DEF RowsInv
<1> QED
  BY <1>1, <1>2 DEF GenerateToken

\* The steps of a change or a binding: none writes a name or opens a session.
LEMMA UpdateRows ==
  ASSUME TypeOK, RowsInv, NEW r \in Req,
         \/ UpdatePasswordCheck(r) \/ ResetPasswordFind(r) \/ StorePassword(r)
         \/ RevokeAllParse(r) \/ Purge(r) \/ BindMobileCheck(r) \/ UpdatePhone(r)
  PROVE  RowsInv' /\ Beside(r)
<1>1. ASSUME NEW label, GoOn(r, label), label \in UserSteps => pc[r] \in UserSteps
      PROVE  RowsInv' /\ Beside(r)
  BY <1>1, RowsGoOn, BesideGoOn
<1>2. ASSUME NEW label, Goto(r, label), UNCHANGED <<usr, read>> PROVE Beside(r) /\ pc'[r] = label
  BY <1>2 DEF Goto, Beside, TypeOK
<1>3. CASE UpdatePasswordCheck(r)
  BY <1>1, <1>3 DEF UpdatePasswordCheck, UserSteps
<1>4. CASE ResetPasswordFind(r)
  <2>1. ASSUME NEW u \in Bound(mobile[r]), Goto(r, "store"), usr' = [usr EXCEPT ![r] = u],
               UNCHANGED <<table, sessions, read>>
        PROVE  RowsInv' /\ Beside(r)
    <3>1. name[u] # None
      BY DEF Bound, RowsInv, RowsNamed
    <3>2. Beside(r) /\ usr'[r] = u /\ UNCHANGED <<name, phone, owner, state>>
      BY <2>1 DEF Goto, Beside, TypeOK, table, sessions
    <3> QED
      BY <3>1, <3>2, RowsUntouched
  <2>2. CASE GoOn(r, "refused")
    BY <1>1, <2>2 DEF UserSteps
  <2> QED
    BY <1>4, <2>1, <2>2 DEF ResetPasswordFind
<1>5. CASE StorePassword(r)
  <2>1. CASE GoOn(r, "failed")
    BY <1>1, <2>1 DEF UserSteps
  <2>2. CASE /\ UNCHANGED <<name, phone, sessions, locals>>
             /\ \E label \in {"reparse", "purge", "failed"} : Goto(r, label)
    <3>1. name[usr[r]] # None
      BY <1>5 DEF StorePassword, RowsInv, RequestsFound, UserSteps
    <3> QED
      BY <1>2, <2>2, <3>1, RowsUntouched DEF sessions, locals
  <2> QED
    BY <1>5, <2>1, <2>2 DEF StorePassword
<1>6. CASE RevokeAllParse(r)
  <2>1. CASE GoOn(r, "purge")
    BY <1>1, <1>6, <2>1 DEF RevokeAllParse, UserSteps
  <2>2. CASE Goto(r, "failed") /\ UNCHANGED <<table, sessions, locals>>
    BY <1>2, <2>2, RowsUntouched DEF table, sessions, locals, UserSteps
  <2> QED
    BY <1>6, <2>1, <2>2 DEF RevokeAllParse
<1>7. CASE Purge(r)
  <2>1. /\ UNCHANGED <<name, phone, owner, usr, read>>
        /\ \E label \in {"ok", "failed"} : Goto(r, label)
    BY <1>7 DEF Purge, End, table, locals
  <2>2. \A s \in Session : state'[s] = "live" => state[s] = "live"
    BY <1>7 DEF Purge, End
  <2> QED
    BY <1>2, <2>1, <2>2, RowsUntouched DEF UserSteps
<1>8. CASE BindMobileCheck(r)
  BY <1>1, <1>8 DEF BindMobileCheck, UserSteps
<1>9. CASE UpdatePhone(r)
  <2>1. CASE GoOn(r, "failed")
    BY <1>1, <2>1 DEF UserSteps
  <2>2. CASE /\ phone' = [phone EXCEPT ![usr[r]] = mobile[r]]
             /\ \E label \in {"ok", "failed"} : Goto(r, label)
             /\ UNCHANGED <<name, sessions, locals>>
    <3>1. name[usr[r]] # None
      BY <1>9 DEF UpdatePhone, RowsInv, RequestsFound, UserSteps
    <3>2. RowsNamed' /\ SessionsOwned'
      BY <2>2, <3>1 DEF sessions, TypeOK, RowsInv, RowsNamed, SessionsOwned
    <3>3. Beside(r) /\ RequestsFound'
      BY <1>2, <2>2 DEF locals, TypeOK, RowsInv, RequestsFound, UserSteps, Beside, Goto
    <3> QED
      BY <3>2, <3>3 DEF RowsInv
  <2> QED
    BY <1>9, <2>1, <2>2 DEF UpdatePhone
<1> QED
  BY <1>3, <1>4, <1>5, <1>6, <1>7, <1>8, <1>9

LEMMA LookupRows ==
  ASSUME TypeOK, RowsInv, NEW r \in Req,
         \/ RegisterCheckName(r) \/ RegisterCheckPhone(r)
         \/ LoginByName(r) \/ LoginByPhone(r) \/ LoginByOtpFind(r)
  PROVE  RowsInv'
<1>1. ASSUME NEW label, GoOn(r, label), label \notin UserSteps PROVE RowsInv'
  BY <1>1, RowsGoOn
<1>2. ASSUME NEW u \in Named(handle[r]) \cup Bound(mobile[r]), LogIn(r, u) \/ CheckPassword(r, u)
      PROVE  RowsInv'
  <2>1. u \in Id /\ name[u] # None
    BY DEF Named, Bound, RowsInv, RowsNamed
  <2> QED
    BY <1>2, <2>1, RowsLogIn
<1>3. CASE RegisterCheckName(r) \/ RegisterCheckPhone(r)
  BY <1>1, <1>3 DEF RegisterCheckName, RegisterCheckPhone, UserSteps
<1>4. CASE LoginByName(r)
  <2>1. CASE /\ Goto(r, "byPhone") /\ UNCHANGED <<table, sessions, usr, read>>
    BY <2>1, RowsUntouched DEF Goto, Beside, TypeOK, table, sessions, UserSteps
  <2> QED
    BY <1>1, <1>2, <1>4, <2>1 DEF LoginByName, UserSteps
<1>5. CASE LoginByPhone(r) \/ LoginByOtpFind(r)
  BY <1>1, <1>2, <1>5 DEF LoginByPhone, LoginByOtpFind, UserSteps
<1> QED
  BY <1>3, <1>4, <1>5

\* An answered request, or one that died.
LEMMA ForgetRows ==
  ASSUME TypeOK, RowsInv, NEW r \in Req, Forget(r)
  PROVE  RowsInv' /\ Beside(r) /\ pc'[r] = "idle"
<1>1. Beside(r) /\ pc'[r] = "idle" /\ UNCHANGED <<name, phone, owner, state>>
  BY DEF Forget, Goto, Beside, TypeOK, table, sessions
<1> QED
  BY <1>1, RowsUntouched DEF UserSteps

LEMMA LogoutRows ==
  ASSUME TypeOK, RowsInv, NEW s \in Session, LogoutSRem(s) \/ Logout(s)
  PROVE  RowsInv'
  BY DEF LogoutSRem, Logout, End, table, sessions, locals, RowsInv, RowsNamed, SessionsOwned, RequestsFound, UserSteps

LEMMA NextRows == TypeOK /\ RowsInv /\ [Next]_vars => RowsInv'
<1> SUFFICES ASSUME TypeOK, RowsInv, [Next]_vars PROVE RowsInv'
  OBVIOUS
<1>1. CASE UNCHANGED vars
  BY <1>1 DEF vars, RowsInv, RowsNamed, SessionsOwned, RequestsFound, UserSteps
<1>2. ASSUME NEW r \in Req, Continue(r) PROVE RowsInv'
  BY <1>2, CreateRows, GenerateRows, UpdateRows, LookupRows DEF Continue
<1>3. ASSUME NEW r \in Req, Answer(r) \/ Crash(r) PROVE RowsInv'
  BY <1>3, ForgetRows DEF Answer, Crash
<1> QED
  BY <1>1, <1>2, <1>3, BeginRows, LogoutRows DEF Next

-----------------------------------------------------------------------------
(* Passwords and sessions. *)

\* A step of r leaves alone whatever excuses the usable session s of u.
LEMMA StaysCurrent ==
  ASSUME OldPasswordSessionsEnd, NEW s \in Session, NEW u, s \in missed => s \in missed',
         state[s] = "live", owner[s] = u, owner'[s] = u, basis'[s] = basis[s],
         hash'[u] = hash[u],
         Revoking(u) \/ u \in unrevoked =>
            Revoking(u)' \/ u \in unrevoked' \/ s \in missed'
  PROVE  \/ basis'[s] = hash'[u]
         \/ Revoking(u)' \/ u \in unrevoked'
         \/ s \in missed'
  BY DEF OldPasswordSessionsEnd

\* What OldPasswordSessionsEnd asks of every usable session after a step.
LEMMA AllCurrent ==
  ASSUME TypeOK',
         \A s \in Session, u \in Id : state'[s] = "live" /\ owner'[s] = u =>
            \/ basis'[s] = hash'[u]
            \/ Revoking(u)' \/ u \in unrevoked'
            \/ s \in missed'
  PROVE  OldPasswordSessionsEnd'
<1> SUFFICES ASSUME NEW s \in Session, state'[s] = "live"
             PROVE  \/ basis'[s] = hash'[owner'[s]]
                    \/ (\E q \in Req : pc'[q] \in {"reparse", "purge"} /\ usr'[q] = owner'[s])
                    \/ owner'[s] \in unrevoked' \/ s \in missed'
  BY DEF OldPasswordSessionsEnd, Revoking
<1>1. owner'[s] \in Id
  BY DEF TypeOK
<1>2. PICK u \in Id : owner'[s] = u
  BY <1>1
<1>3. \/ basis'[s] = hash'[u]
      \/ Revoking(u)' \/ u \in unrevoked'
      \/ s \in missed'
  BY <1>2
<1> QED
  BY <1>2, <1>3 DEF Revoking

\* No password changes, no session is opened, and no revocation is forgotten.
LEMMA KeepsSessions ==
  ASSUME TypeOK, TypeOK', OldPasswordSessionsEnd, UNCHANGED <<hash, basis, owner>>,
         \A s \in Session : state'[s] = "live" =>
            state[s] = "live" /\ (s \in missed => s \in missed'),
         \A s \in Session, u \in Id :
            state'[s] = "live" /\ owner[s] = u /\ (Revoking(u) \/ u \in unrevoked) =>
                Revoking(u)' \/ u \in unrevoked' \/ s \in missed'
  PROVE  OldPasswordSessionsEnd'
<1>1. ASSUME NEW s \in Session, NEW u \in Id, state'[s] = "live", owner'[s] = u
      PROVE  \/ basis'[s] = hash'[u]
             \/ Revoking(u)' \/ u \in unrevoked'
             \/ s \in missed'
  <2>1. state[s] = "live" /\ owner[s] = u /\ (s \in missed => s \in missed')
    BY <1>1
  <2>2. Revoking(u) \/ u \in unrevoked => Revoking(u)' \/ u \in unrevoked' \/ s \in missed'
    BY <1>1, <2>1
  <2> QED
    BY <1>1, <2>1, <2>2, StaysCurrent
<1> QED
  BY <1>1, AllCurrent

\* A revocation goes on beside r's step.
LEMMA RevokingBeside ==
  ASSUME NEW r \in Req, Beside(r), NEW u \in Id, Revoking(u),
         pc[r] \in {"reparse", "purge"} /\ usr[r] = u =>
            pc'[r] \in {"reparse", "purge"} /\ usr'[r] = u
  PROVE  Revoking(u)'
  BY DEF Revoking, Beside

\* Steps outside a revocation that store no password and open no session.
LEMMA PasswordUntouched ==
  ASSUME TypeOK, TypeOK', OldPasswordSessionsEnd, NEW r \in Req, Beside(r),
         UNCHANGED <<hash, basis, owner, state, unrevoked, missed>>,
         pc[r] \in {"reparse", "purge"} =>
            pc'[r] \in {"reparse", "purge"} /\ usr'[r] = usr[r]
  PROVE  OldPasswordSessionsEnd'
<1>1. \A u \in Id : Revoking(u) => Revoking(u)'
  BY RevokingBeside
<1> QED
  BY <1>1, KeepsSessions

LEMMA GoOnPassword ==
  ASSUME TypeOK, TypeOK', OldPasswordSessionsEnd, NEW r \in Req, NEW label, GoOn(r, label),
         pc[r] \in {"reparse", "purge"} => label \in {"reparse", "purge"}
  PROVE  OldPasswordSessionsEnd'
<1>1. UNCHANGED <<hash, basis, owner, state, unrevoked, missed>>
  BY BesideGoOn DEF table, sessions, history
<1> QED
  BY <1>1, BesideGoOn, PasswordUntouched

LEMMA BeginPassword ==
  ASSUME TypeOK, TypeOK', OldPasswordSessionsEnd, NEW r \in Req, Begin(r)
  PROVE  OldPasswordSessionsEnd'
<1>1. ASSUME NEW o, NEW first, NEW u, NEW s, NEW h, NEW p, Enter(r, o, first, u, s, h, p)
      PROVE  UNCHANGED <<hash, basis, owner, state, unrevoked, missed>> /\ pc[r] = "idle"
  BY <1>1 DEF Enter, table, sessions
<1>2. UNCHANGED <<hash, basis, owner, state, unrevoked, missed>> /\ pc[r] = "idle"
  BY <1>1
     DEF Begin, Register, LoginByPassword, LoginByOtp, ResetPassword, UpdatePassword, BindMobile
<1> QED
  BY <1>2, BesideBegin, PasswordUntouched

\* The lookups of the flows, and the writes of phones.
LEMMA LookupPassword ==
  ASSUME TypeOK, TypeOK', OldPasswordSessionsEnd, NEW r \in Req,
         \/ RegisterCheckName(r) \/ RegisterCheckPhone(r)
         \/ LoginByName(r) \/ LoginByPhone(r) \/ LoginByOtpFind(r)
         \/ UpdatePasswordCheck(r) \/ ResetPasswordFind(r)
         \/ BindMobileCheck(r) \/ UpdatePhone(r)
  PROVE  OldPasswordSessionsEnd'
<1>1. pc[r] \notin {"reparse", "purge"}
  BY DEF RegisterCheckName, RegisterCheckPhone, LoginByName, LoginByPhone, LoginByOtpFind,
         UpdatePasswordCheck, ResetPasswordFind, BindMobileCheck, UpdatePhone
<1>2. ASSUME NEW label, GoOn(r, label) PROVE OldPasswordSessionsEnd'
  BY <1>1, <1>2, GoOnPassword
<1>3. ASSUME Beside(r), UNCHANGED <<hash, sessions, history>> PROVE OldPasswordSessionsEnd'
  BY <1>1, <1>3, PasswordUntouched DEF sessions, history
<1>4. ASSUME NEW u, LogIn(r, u) \/ CheckPassword(r, u) PROVE OldPasswordSessionsEnd'
  <2>1. CASE LogIn(r, u)
    BY <1>3, <2>1, BesideLogIn DEF table
  <2>2. CASE GoOn(r, "refused")
    BY <1>2, <2>2
  <2> QED
    BY <1>4, <2>1, <2>2 DEF CheckPassword
<1>5. CASE RegisterCheckName(r) \/ RegisterCheckPhone(r)
  BY <1>2, <1>5 DEF RegisterCheckName, RegisterCheckPhone
<1>6. CASE LoginByName(r)
  <2>1. CASE Goto(r, "byPhone") /\ UNCHANGED <<table, sessions, usr, read, history>>
    <3>1. Beside(r)
      BY <2>1 DEF Goto, Beside, TypeOK
    <3> QED
      BY <1>3, <2>1, <3>1 DEF table
  <2> QED
    BY <1>2, <1>4, <1>6, <2>1 DEF LoginByName
<1>7. CASE LoginByPhone(r) \/ LoginByOtpFind(r)
  BY <1>2, <1>4, <1>7 DEF LoginByPhone, LoginByOtpFind
<1>8. CASE UpdatePasswordCheck(r) \/ BindMobileCheck(r)
  BY <1>2, <1>8 DEF UpdatePasswordCheck, BindMobileCheck
<1>9. CASE ResetPasswordFind(r)
  <2>1. ASSUME NEW u, Goto(r, "store"), usr' = [usr EXCEPT ![r] = u],
               UNCHANGED <<table, sessions, read, history>>
        PROVE  OldPasswordSessionsEnd'
    <3>1. Beside(r)
      BY <2>1 DEF Goto, Beside, TypeOK
    <3> QED
      BY <1>3, <2>1, <3>1 DEF table
  <2> QED
    BY <1>2, <1>9, <2>1 DEF ResetPasswordFind
<1>10. CASE UpdatePhone(r)
  <2>1. ASSUME NEW label, Goto(r, label), UNCHANGED <<hash, sessions, locals, history>>
        PROVE  OldPasswordSessionsEnd'
    <3>1. Beside(r)
      BY <2>1 DEF Goto, Beside, TypeOK, locals
    <3> QED
      BY <1>3, <2>1, <3>1
  <2> QED
    BY <1>2, <1>10, <2>1 DEF UpdatePhone
<1> QED
  BY <1>5, <1>6, <1>7, <1>8, <1>9, <1>10

\* A new row has no sessions yet.
LEMMA CreatePassword ==
  ASSUME TypeOK, TypeOK', RowsInv, OldPasswordSessionsEnd, NEW r \in Req, CreateUser(r)
  PROVE  OldPasswordSessionsEnd'
<1>0. pc[r] = "create" /\ Beside(r)
  BY CreateRows DEF CreateUser
<1>1. CASE GoOn(r, "refused") \/ GoOn(r, "failed")
  BY <1>0, <1>1, GoOnPassword
<1>2. ASSUME NEW u \in Id, NEW w, Insert(r, u, w), UNCHANGED <<sessions, history>>
      PROVE  OldPasswordSessionsEnd'
  <2>1. /\ hash' = [hash EXCEPT ![u] = w] /\ name[u] = None
        /\ UNCHANGED <<owner, state, basis, unrevoked, missed>>
    BY <1>2 DEF Insert, sessions, history
  <2>2. ASSUME NEW s \in Session, NEW v \in Id, state'[s] = "live", owner'[s] = v
        PROVE  \/ basis'[s] = hash'[v]
               \/ Revoking(v)' \/ v \in unrevoked'
               \/ s \in missed'
    <3>1. state[s] = "live" /\ owner[s] = v /\ v # u
      BY <2>1, <2>2 DEF RowsInv, SessionsOwned
    <3>2. hash'[v] = hash[v]
      BY <2>1, <3>1 DEF TypeOK
    <3>3. Revoking(v) => Revoking(v)'
      BY <1>0, RevokingBeside
    <3> QED
      BY <2>1, <2>2, <3>1, <3>2, <3>3, StaysCurrent
  <2> QED
    BY <2>2, AllCurrent
<1> QED
  BY <1>1, <1>2 DEF CreateUser

\* A session is opened with the password of its user, or a change has overlapped the login.
LEMMA GeneratePassword ==
  ASSUME TypeOK, TypeOK', RowsInv, OldPasswordSessionsEnd, NEW r \in Req, GenerateToken(r)
  PROVE  OldPasswordSessionsEnd'
<1>0. pc[r] = "token" /\ Beside(r)
  BY GenerateRows DEF GenerateToken
<1>1. CASE GoOn(r, "failed")
  BY <1>0, <1>1, GoOnPassword
<1>2. ASSUME NEW s \in Session, Open(s, usr[r]), basis' = [basis EXCEPT ![s] = read[r]],
             UNCHANGED <<table, unrevoked>>, missed \subseteq missed',
             read[r] = hash[usr[r]] \/ s \in missed'
      PROVE  OldPasswordSessionsEnd'
  <2>1. /\ owner' = [owner EXCEPT ![s] = usr[r]] /\ state' = [state EXCEPT ![s] = "live"]
        /\ UNCHANGED hash
    BY <1>2 DEF Open, table
  <2>2. ASSUME NEW t \in Session, NEW v \in Id, state'[t] = "live", owner'[t] = v
        PROVE  \/ basis'[t] = hash'[v]
               \/ Revoking(v)' \/ v \in unrevoked'
               \/ t \in missed'
    <3>1. CASE t = s
      BY <1>2, <2>1, <2>2, <3>1 DEF TypeOK
    <3>2. CASE t # s
      <4>1. state[t] = "live" /\ owner[t] = v /\ basis'[t] = basis[t]
        BY <1>2, <2>1, <2>2, <3>2 DEF TypeOK
      <4>2. Revoking(v) => Revoking(v)'
        BY <1>0, RevokingBeside
      <4> QED
        BY <1>2, <2>1, <2>2, <4>1, <4>2, StaysCurrent
    <3> QED
      BY <3>1, <3>2
  <2> QED
    BY <2>2, AllCurrent
<1> QED
  BY <1>1, <1>2 DEF GenerateToken, Overlapped

\* The password is stored: the sessions of the user are now to be revoked.
LEMMA StoreKeepsPassword ==
  ASSUME TypeOK, TypeOK', OldPasswordSessionsEnd, NEW r \in Req, StorePassword(r)
  PROVE  OldPasswordSessionsEnd'
<1>0. pc[r] = "store" /\ usr[r] \in Id
  BY DEF StorePassword, TypeOK, UserSteps
<1>1. CASE GoOn(r, "failed")
  BY <1>0, <1>1, GoOnPassword
<1>2. ASSUME NEW w, NEW label \in {"reparse", "purge", "failed"}, Goto(r, label),
             hash' = [hash EXCEPT ![usr[r]] = w],
             unrevoked' = IF label = "failed" THEN unrevoked \cup {usr[r]} ELSE unrevoked,
             UNCHANGED <<sessions, locals, basis, missed>>
      PROVE  OldPasswordSessionsEnd'
  <2>1. /\ Beside(r) /\ pc'[r] = label /\ usr'[r] = usr[r]
        /\ UNCHANGED <<owner, state, basis>> /\ unrevoked \subseteq unrevoked'
    BY <1>2 DEF Goto, Beside, TypeOK, sessions, locals
  <2>2. ASSUME NEW s \in Session, NEW v \in Id, state'[s] = "live", owner'[s] = v
        PROVE  \/ basis'[s] = hash'[v]
               \/ Revoking(v)' \/ v \in unrevoked'
               \/ s \in missed'
    <3>1. CASE v = usr[r]
      BY <1>2, <2>1, <3>1 DEF Revoking
    <3>2. CASE v # usr[r]
      <4>1. hash'[v] = hash[v]
        BY <1>2, <3>2 DEF TypeOK
      <4>2. Revoking(v) => Revoking(v)'
        BY <1>0, <2>1, RevokingBeside
      <4> QED
        BY <1>2, <2>1, <2>2, <4>1, <4>2, StaysCurrent
    <3> QED
      BY <3>1, <3>2
  <2> QED
    BY <2>2, AllCurrent
<1> QED
  BY <1>1, <1>2 DEF StorePassword

\* A revocation that ends early leaves its user marked.
LEMMA LeavingPassword ==
  ASSUME TypeOK, TypeOK', OldPasswordSessionsEnd, NEW r \in Req, Beside(r),
         UNCHANGED <<hash, basis, owner, state, missed>>,
         unrevoked' = unrevoked \cup {usr[r]}
  PROVE  OldPasswordSessionsEnd'
<1>1. ASSUME NEW v \in Id, Revoking(v) PROVE Revoking(v)' \/ v \in unrevoked'
  BY <1>1, RevokingBeside
<1> QED
  BY <1>1, KeepsSessions

LEMMA RevokePassword ==
  ASSUME TypeOK, TypeOK', OldPasswordSessionsEnd, NEW r \in Req, RevokeAllParse(r) \/ Purge(r)
  PROVE  OldPasswordSessionsEnd'
<1>1. CASE RevokeAllParse(r)
  <2>1. CASE GoOn(r, "purge")
    BY <2>1, GoOnPassword
  <2>2. CASE /\ Goto(r, "failed") /\ unrevoked' = unrevoked \cup {usr[r]}
             /\ UNCHANGED <<table, sessions, locals, basis, missed>>
    <3>1. Beside(r)
      BY <2>2 DEF Goto, Beside, TypeOK, locals
    <3> QED
      BY <2>2, <3>1, LeavingPassword DEF table, sessions
  <2> QED
    BY <1>1, <2>1, <2>2 DEF RevokeAllParse
<1>2. CASE Purge(r)
  <2>1. PICK left \in SUBSET Live(usr[r]) :
           /\ End(Live(usr[r]) \ left, usr[r])
           /\ missed' = (missed \ Live(usr[r])) \cup left
    BY <1>2 DEF Purge
  <2>2. /\ UNCHANGED <<hash, basis, owner>> /\ unrevoked' = unrevoked \ {usr[r]}
        /\ Beside(r)
    BY <1>2, <2>1 DEF Purge, End, Goto, Beside, TypeOK, table, locals
  <2>3. \A s \in Session : state'[s] = "live" =>
           /\ state[s] = "live" /\ (s \in missed => s \in missed')
           /\ owner[s] = usr[r] => s \in missed'
    BY <2>1 DEF End, Live
  <2>4. ASSUME NEW s \in Session, NEW v \in Id, state'[s] = "live", owner[s] = v,
               Revoking(v) \/ v \in unrevoked
        PROVE  Revoking(v)' \/ v \in unrevoked' \/ s \in missed'
    <3>1. CASE v = usr[r]
      BY <2>3, <2>4, <3>1
    <3>2. CASE v # usr[r]
      BY <2>2, <2>4, <3>2, RevokingBeside
    <3> QED
      BY <3>1, <3>2
  <2> QED
    BY <2>2, <2>3, <2>4, KeepsSessions
<1> QED
  BY <1>1, <1>2

LEMMA OtherPassword ==
  ASSUME TypeOK, TypeOK', RowsInv, OldPasswordSessionsEnd,
         \/ \E r \in Req : Answer(r) \/ Crash(r)
         \/ \E s \in Session : LogoutSRem(s) \/ Logout(s)
  PROVE  OldPasswordSessionsEnd'
<1>1. ASSUME NEW r \in Req, Forget(r)
      PROVE  Beside(r) /\ UNCHANGED <<hash, basis, owner, state, missed>>
  BY <1>1, ForgetRows DEF Forget, table, sessions
<1>2. ASSUME NEW r \in Req, Answer(r) PROVE OldPasswordSessionsEnd'
  BY <1>1, <1>2, PasswordUntouched DEF Answer, Outcomes
<1>3. ASSUME NEW r \in Req, Crash(r) PROVE OldPasswordSessionsEnd'
  <2>1. CASE pc[r] \in {"reparse", "purge"}
    BY <1>1, <1>3, <2>1, LeavingPassword DEF Crash
  <2>2. CASE pc[r] \notin {"reparse", "purge"}
    BY <1>1, <1>3, <2>2, PasswordUntouched DEF Crash
  <2> QED
    BY <2>1, <2>2
<1>4. ASSUME NEW t \in Session, LogoutSRem(t) \/ Logout(t) PROVE OldPasswordSessionsEnd'
  <2>1. /\ UNCHANGED <<hash, basis, owner, unrevoked, pc, usr>>
        /\ \A s \in Session : state'[s] = "live" =>
              state[s] = "live" /\ (s \in missed => s \in missed')
    BY <1>4 DEF LogoutSRem, Logout, End, TypeOK, table, sessions, locals
  <2>2. \A v \in Id : Revoking(v) => Revoking(v)'
    BY <2>1 DEF Revoking
  <2> QED
    BY <2>1, <2>2, KeepsSessions
<1> QED
  BY <1>2, <1>3, <1>4

LEMMA NextPassword ==
  TypeOK /\ TypeOK' /\ RowsInv /\ OldPasswordSessionsEnd /\ [Next]_vars => OldPasswordSessionsEnd'
<1> SUFFICES ASSUME TypeOK, TypeOK', RowsInv, OldPasswordSessionsEnd, [Next]_vars
             PROVE  OldPasswordSessionsEnd'
  OBVIOUS
<1>1. CASE UNCHANGED vars
  BY <1>1 DEF vars, OldPasswordSessionsEnd, Revoking
<1>2. ASSUME NEW r \in Req, Continue(r) PROVE OldPasswordSessionsEnd'
  BY <1>2, LookupPassword, CreatePassword, GeneratePassword, StoreKeepsPassword, RevokePassword
     DEF Continue
<1> QED
  BY <1>1, <1>2, BeginPassword, OtherPassword DEF Next

\* However logins, changes and logouts overlap, and whatever fails: a usable session was
\* opened under its user's present password, unless a change is still revoking or ended
\* with an error or cut off before it revoked, or the session is one a revocation may
\* miss: of an overlapped login, of a login answered with an error, taken out of its set
\* by a logout, or left by an earlier revocation when Redis failed it.
THEOREM PasswordChangeRevokes == Spec => []OldPasswordSessionsEnd
<1>1. Init => RowsInv /\ OldPasswordSessionsEnd
  BY DEF Init, RowsInv, RowsNamed, SessionsOwned, RequestsFound, OldPasswordSessionsEnd, UserSteps
<1> QED
  BY <1>1, NextRows, NextPassword, TypeCorrect, PTL DEF Spec

=============================================================================
