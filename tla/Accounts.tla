------------------------------- MODULE Accounts -------------------------------
(***************************************************************************)
(* Accounts: PassportUseCase (internal/biz/passport.go) behind its handlers *)
(* (internal/service/passport.go), over the table users (internal/data/     *)
(* user.go) and the sessions that the token service promises (SessionStore).*)
(* One action below is one statement on the table or one call of the token  *)
(* service, with the Go code up to the next one.  A request that the captcha,*)
(* the one-time code or a comparison of its arguments refuses changes       *)
(* nothing here and is left out; so is is_available, TRUE in every row that *)
(* the program writes.  An argument that is only passed on is chosen where  *)
(* it is used.                                                              *)
(***************************************************************************)
CONSTANTS
    Id,              \* bound: the primary keys there are
    Name, Phone,     \* user names to register with; phones.  A name may be a phone
    Password,
    Session,         \* bound: the sessions that are ever opened
    None,            \* NULL, the empty string, no user
    Req,             \* the goroutines that serve requests
    AutoRegister,    \* app.auth.passport.auto_register
    Faults           \* "db", "redis": a call may fail; "crash": a request may die

ASSUME ConstantsAssumption ==
    /\ None \notin Id \cup Name \cup Phone \cup Password \cup Session
    /\ AutoRegister \in BOOLEAN
    /\ Faults \subseteq {"db", "redis", "crash"}

VARIABLES
    name,       \* users.username, None if there is no such row
    phone,      \* users.phone
    hash,       \* the password behind users.password_hash, None for an empty hash
    owner,      \* of each session: the user it was opened for
    state,      \*   not opened yet, usable or ended
    pc,         \* the next call of each request
    op,         \* what the request does
    usr,        \* the user it has found or created
    own,        \* the session it came with
    handle,     \* the user name to register or to log in with
    mobile,     \* the phone to look up, to register or to bind
    read,       \* user.PasswordHash as the request read or wrote it
    basis,      \* history: the owner's password as the login of a session read it
    proven,     \* history: the phones for which a one-time code was accepted
    unrevoked,  \* history: users whose password was stored by a request that ended,
                \* with an error or cut off, before it revoked their sessions
    missed      \* history: usable sessions that a revocation may miss, see GenerateToken,
                \* LogoutSRem and Purge

table == <<name, phone, hash>>
sessions == <<owner, state>>
locals == <<op, usr, own, handle, mobile, read>>
history == <<basis, proven, unrevoked, missed>>
vars == <<name, phone, hash, owner, state, pc, op, usr, own, handle, mobile, read,
          basis, proven, unrevoked, missed>>

INSTANCE SessionStore WITH User <- Id, Nobody <- None

Operations == {"register", "password", "otp", "update", "reset", "bind"}
Steps == {"name", "phone", "create", "token", "byName", "byPhone", "load", "store",
          "reparse", "purge", "free", "bind"}
Outcomes == {"ok", "refused", "failed"}
UserSteps == {"token", "load", "store", "reparse", "purge", "free", "bind"}

TypeOK ==
    /\ name \in [Id -> Name \cup Phone \cup {None}]
    /\ phone \in [Id -> Phone \cup {None}]
    /\ hash \in [Id -> Password \cup {None}]
    /\ owner \in [Session -> Id \cup {None}]
    /\ state \in [Session -> {"free", "live", "ended"}]
    /\ pc \in [Req -> Steps \cup Outcomes \cup {"idle"}]
    /\ op \in [Req -> Operations]
    /\ usr \in [Req -> Id \cup {None}]
    /\ own \in [Req -> Session \cup {None}]
    /\ handle \in [Req -> Name \cup Phone \cup {None}]
    /\ mobile \in [Req -> Name \cup Phone \cup {None}]
    /\ read \in [Req -> Password \cup {None}]
    /\ basis \in [Session -> Password \cup {None}]
    /\ proven \subseteq Phone
    /\ unrevoked \subseteq Id
    /\ missed \subseteq Session
    /\ \A s \in Session : state[s] = "live" => owner[s] \in Id
    /\ \A r \in Req :
        /\ pc[r] \in UserSteps => usr[r] \in Id
        /\ op[r] = "update" => own[r] \in Session
        /\ pc[r] = "reparse" => op[r] = "update"
        /\ pc[r] \in {"name", "phone", "create", "byName"} \/ op[r] = "otp" => handle[r] # None
        /\ op[r] # "password" => mobile[r] \in Phone \cup {None}
        /\ pc[r] \in {"name", "phone"} => op[r] = "register"
        /\ pc[r] = "create" => op[r] \in {"register", "otp"}
        /\ pc[r] = "byName" => op[r] = "password"
        /\ pc[r] \in {"free", "bind"} => op[r] = "bind" /\ mobile[r] # None

Init ==
    /\ name = [u \in Id |-> None]
    /\ phone = [u \in Id |-> None]
    /\ hash = [u \in Id |-> None]
    /\ owner = [s \in Session |-> None]
    /\ state = [s \in Session |-> "free"]
    /\ pc = [r \in Req |-> "idle"]
    /\ op = [r \in Req |-> "register"]
    /\ usr = [r \in Req |-> None]
    /\ own = [r \in Req |-> None]
    /\ handle = [r \in Req |-> None]
    /\ mobile = [r \in Req |-> None]
    /\ read = [r \in Req |-> None]
    /\ basis = [s \in Session |-> None]
    /\ proven = {}
    /\ unrevoked = {}
    /\ missed = {}

DbFails == "db" \in Faults
RedisFails == "redis" \in Faults
Goto(r, label) == pc' = [pc EXCEPT ![r] = label]

Live(u) == {s \in Session : state[s] = "live" /\ owner[s] = u}
Named(h) == {u \in Id : name[u] # None /\ name[u] = h}
Bound(p) == {u \in Id : phone[u] # None /\ phone[u] = p}

\* A change of the password of u has stored it and not yet revoked his sessions.
Revoking(u) == \E r \in Req : pc[r] \in {"reparse", "purge"} /\ usr[r] = u

\* A request starts: its arguments are set, its first call is due.
Enter(r, operation, first, u, s, h, p) ==
    /\ pc[r] = "idle"
    /\ Goto(r, first)
    /\ op' = [op EXCEPT ![r] = operation]
    /\ usr' = [usr EXCEPT ![r] = u]
    /\ own' = [own EXCEPT ![r] = s]
    /\ handle' = [handle EXCEPT ![r] = h]
    /\ mobile' = [mobile EXCEPT ![r] = p]
    /\ read' = [read EXCEPT ![r] = None]
    /\ UNCHANGED <<table, sessions, basis, unrevoked, missed>>

\* The handler had the one-time code for p accepted, or needs none.
Proves(p) == proven' = proven \cup ({p} \ {None})

\* The request goes on, or ends, and nothing else changes.
GoOn(r, label) == Goto(r, label) /\ UNCHANGED <<table, sessions, locals, history>>

-----------------------------------------------------------------------------
(* Register *)

\* Mutant: the phone is taken over without a code.
RegisterUnproven(r, n, p) ==
    /\ Enter(r, "register", "name", None, None, n, p)
    /\ Proves(None)

\* The phone is registered only with a code; without one it is dropped.
Register(r, n, p) ==
    /\ Enter(r, "register", "name", None, None, n, p)
    /\ Proves(p)

\* GetUserByUsername, an error of it taken for "not found".
RegisterCheckName(r) ==
    /\ pc[r] = "name"
    /\ \/ Named(handle[r]) # {} /\ GoOn(r, "refused")
       \/ /\ Named(handle[r]) = {} \/ DbFails
          /\ GoOn(r, IF mobile[r] = None THEN "create" ELSE "phone")

RegisterCheckPhone(r) ==
    /\ pc[r] = "phone"
    /\ \/ Bound(mobile[r]) # {} /\ GoOn(r, "refused")
       \/ (Bound(mobile[r]) = {} \/ DbFails) /\ GoOn(r, "create")

\* INSERT of a row with a new id.
Insert(r, u, w) ==
    /\ name[u] = None
    /\ name' = [name EXCEPT ![u] = handle[r]]
    /\ phone' = [phone EXCEPT ![u] = mobile[r]]
    /\ hash' = [hash EXCEPT ![u] = w]

\* CreateUser: the unique columns stop a second row; the id generator may refuse.
\* An auto-registered user has no password.
CreateUser(r) ==
    LET taken == Named(handle[r]) \cup Bound(mobile[r])
        words == IF op[r] = "otp" THEN {None} ELSE Password IN
    /\ pc[r] = "create"
    /\ \/ taken # {} /\ GoOn(r, "refused")
       \/ GoOn(r, "failed")
       \/ /\ taken = {}
          /\ \E u \in Id, w \in words :
                /\ Insert(r, u, w)
                /\ \/ /\ Goto(r, "token")
                      /\ usr' = [usr EXCEPT ![r] = u]
                      /\ read' = [read EXCEPT ![r] = w]
                   \/ /\ DbFails
                      /\ Goto(r, "failed")
                      /\ UNCHANGED <<usr, read>>
          /\ UNCHANGED <<sessions, op, own, handle, mobile, history>>

\* A change of the password of u has overlapped the login r: it is revoking, or it has
\* stored another password since the login read it.
Overlapped(r, u) == Revoking(u) \/ read[r] # hash[u]

\* GenerateToken.  A failed one may have saved the session nevertheless, without its
\* entry in the set of the user; one that overlaps a revocation may lose the entry.
GenerateToken(r) ==
    /\ pc[r] = "token"
    /\ \/ /\ \E s \in Session :
                /\ Open(s, usr[r])
                /\ basis' = [basis EXCEPT ![s] = read[r]]
                /\ \/ /\ Goto(r, "ok")
                      /\ missed' = missed \cup (IF Overlapped(r, usr[r]) THEN {s} ELSE {})
                   \/ /\ RedisFails
                      /\ Goto(r, "failed")
                      /\ missed' = missed \cup {s}
          /\ UNCHANGED <<table, locals, proven, unrevoked>>
       \/ /\ RedisFails \/ \A s \in Session : state[s] # "free"
          /\ GoOn(r, "failed")

-----------------------------------------------------------------------------
(* LoginByPassword and LoginByOtp *)

LoginByPassword(r, h) ==
    /\ Enter(r, "password", "byName", None, None, h, None)
    /\ UNCHANGED proven

\* u is read, and becomes the user whose session is opened.
LogIn(r, u) ==
    /\ Goto(r, "token")
    /\ usr' = [usr EXCEPT ![r] = u]
    /\ read' = [read EXCEPT ![r] = hash[u]]
    /\ UNCHANGED <<table, sessions, op, own, handle, mobile, history>>

\* checkPassword: no password fits an empty hash.
CheckPassword(r, u) == (hash[u] # None /\ LogIn(r, u)) \/ GoOn(r, "refused")

\* GetUserByUsername; if there is none, what was entered may be a phone.
LoginByName(r) ==
    /\ pc[r] = "byName"
    /\ \/ \E u \in Named(handle[r]) : CheckPassword(r, u)
       \/ /\ Named(handle[r]) = {}
          /\ Goto(r, "byPhone")
          /\ mobile' = [mobile EXCEPT ![r] = handle[r]]
          /\ UNCHANGED <<table, sessions, op, usr, own, handle, read, history>>
       \/ DbFails /\ GoOn(r, "failed")

LoginByPhone(r) ==
    /\ pc[r] = "byPhone" /\ op[r] = "password"
    /\ \/ \E u \in Bound(mobile[r]) : CheckPassword(r, u)
       \/ Bound(mobile[r]) = {} /\ GoOn(r, "refused")
       \/ DbFails /\ GoOn(r, "failed")

\* With the code accepted.  The phone is also the name of the user it may create.
LoginByOtp(r, p) ==
    /\ Enter(r, "otp", "byPhone", None, None, p, p)
    /\ Proves(p)

\* Mutant: with no user found the login goes on.
LoginByOtpFindAnyway(r) ==
    /\ pc[r] = "byPhone" /\ op[r] = "otp"
    /\ \/ \E u \in Bound(mobile[r]) : LogIn(r, u)
       \/ Bound(mobile[r]) = {} /\ GoOn(r, "token")
       \/ DbFails /\ GoOn(r, "failed")

LoginByOtpFind(r) ==
    /\ pc[r] = "byPhone" /\ op[r] = "otp"
    /\ \/ \E u \in Bound(mobile[r]) : LogIn(r, u)
       \/ /\ Bound(mobile[r]) = {}
          /\ GoOn(r, IF AutoRegister THEN "create" ELSE "refused")
       \/ DbFails /\ GoOn(r, "failed")

-----------------------------------------------------------------------------
(* Logout, and the end of a session by time *)

\* DeleteToken takes the session out of the set of its user, and has yet to delete it: that
\* may come late, fail or never come.
LogoutSRem(s) ==
    /\ state[s] = "live" /\ s \notin missed
    /\ missed' = missed \cup {s}
    /\ UNCHANGED <<table, sessions, pc, locals, basis, proven, unrevoked>>

Logout(s) ==
    /\ state[s] = "live"
    /\ End({s}, owner[s])
    /\ missed' = missed \ {s}
    /\ UNCHANGED <<table, pc, locals, basis, proven, unrevoked>>

-----------------------------------------------------------------------------
(* UpdatePassword and ResetPassword *)

\* GetUserIDFromContext: the session was usable.
UpdatePassword(r, s) ==
    /\ state[s] = "live"
    /\ Enter(r, "update", "load", owner[s], s, None, None)
    /\ UNCHANGED proven

\* GetUserByID, and the comparison with the old password.
UpdatePasswordCheck(r) ==
    /\ pc[r] = "load"
    /\ \/ hash[usr[r]] # None /\ GoOn(r, "store")
       \/ GoOn(r, "refused")
       \/ DbFails /\ GoOn(r, "failed")

\* With the code accepted.
ResetPassword(r, p) ==
    /\ Enter(r, "reset", "byPhone", None, None, None, p)
    /\ Proves(p)

ResetPasswordFind(r) ==
    /\ pc[r] = "byPhone" /\ op[r] = "reset"
    /\ \/ \E u \in Bound(mobile[r]) :
            /\ Goto(r, "store")
            /\ usr' = [usr EXCEPT ![r] = u]
            /\ UNCHANGED <<table, sessions, op, own, handle, mobile, read, history>>
       \/ (Bound(mobile[r]) = {} \/ DbFails) /\ GoOn(r, "refused")

\* Mutant: a change by the user himself leaves his sessions alone.
StorePasswordOnly(r) ==
    /\ pc[r] = "store"
    /\ \E w \in Password : hash' = [hash EXCEPT ![usr[r]] = w]
    /\ Goto(r, IF op[r] = "update" THEN "ok" ELSE "purge")
    /\ UNCHANGED <<name, phone, sessions, locals, history>>

\* UpdatePassword of the repository.
StorePassword(r) ==
    /\ pc[r] = "store"
    /\ \/ /\ \E w \in Password : hash' = [hash EXCEPT ![usr[r]] = w]
          /\ \/ Goto(r, IF op[r] = "update" THEN "reparse" ELSE "purge") /\ UNCHANGED unrevoked
             \/ DbFails /\ Goto(r, "failed") /\ unrevoked' = unrevoked \cup {usr[r]}
          /\ UNCHANGED <<name, phone, sessions, locals, basis, proven, missed>>
       \/ DbFails /\ GoOn(r, "failed")

\* RevokeAllTokens looks at the caller's own session once more.
RevokeAllParse(r) ==
    /\ pc[r] = "reparse"
    /\ \/ state[own[r]] = "live" /\ GoOn(r, "purge")
       \/ /\ state[own[r]] # "live" \/ RedisFails
          /\ Goto(r, "failed")
          /\ unrevoked' = unrevoked \cup {usr[r]}
          /\ UNCHANGED <<table, sessions, locals, basis, proven, missed>>

\* DeleteUserTokens ends the sessions in the set of the user, which it then deletes.  When
\* Redis fails it may leave any of them, may delete the set of those it leaves, and may
\* answer nil all the same (see TokenStore).
Purge(r) ==
    /\ pc[r] = "purge"
    /\ \E left \in SUBSET Live(usr[r]) :
          /\ left \subseteq missed \/ RedisFails
          /\ End(Live(usr[r]) \ left, usr[r])
          /\ missed' = (missed \ Live(usr[r])) \cup left
    /\ Goto(r, "ok") \/ (RedisFails /\ Goto(r, "failed"))
    /\ unrevoked' = unrevoked \ {usr[r]}
    /\ UNCHANGED <<table, locals, basis, proven>>

-----------------------------------------------------------------------------
(* BindMobile and UpdateMobile *)

\* With the code accepted, and the session usable.
BindMobile(r, s, p) ==
    /\ state[s] = "live"
    /\ Enter(r, "bind", "free", owner[s], s, None, p)
    /\ Proves(p)

BindMobileCheck(r) ==
    /\ pc[r] = "free"
    /\ \/ Bound(mobile[r]) # {} /\ GoOn(r, "refused")
       \/ (Bound(mobile[r]) = {} \/ DbFails) /\ GoOn(r, "bind")

\* UpdatePhone, of any phone the user had; the unique column stops a second user.
UpdatePhone(r) ==
    /\ pc[r] = "bind"
    /\ \/ /\ Bound(mobile[r]) \subseteq {usr[r]}
          /\ phone' = [phone EXCEPT ![usr[r]] = mobile[r]]
          /\ Goto(r, "ok") \/ (DbFails /\ Goto(r, "failed"))
          /\ UNCHANGED <<name, hash, sessions, locals, history>>
       \/ (DbFails \/ ~ Bound(mobile[r]) \subseteq {usr[r]}) /\ GoOn(r, "failed")

-----------------------------------------------------------------------------
(* Answered and dying requests *)

Forget(r) ==
    /\ Goto(r, "idle")
    /\ op' = [op EXCEPT ![r] = "register"]
    /\ usr' = [usr EXCEPT ![r] = None]
    /\ own' = [own EXCEPT ![r] = None]
    /\ handle' = [handle EXCEPT ![r] = None]
    /\ mobile' = [mobile EXCEPT ![r] = None]
    /\ read' = [read EXCEPT ![r] = None]
    /\ UNCHANGED <<table, sessions, basis, proven, missed>>

Answer(r) == pc[r] \in Outcomes /\ Forget(r) /\ UNCHANGED unrevoked

\* A password that was stored stays stored, and nobody revokes the sessions.
Crash(r) ==
    /\ "crash" \in Faults /\ pc[r] \in Steps
    /\ Forget(r)
    /\ unrevoked' = unrevoked \cup (IF pc[r] \in {"reparse", "purge"} THEN {usr[r]} ELSE {})

-----------------------------------------------------------------------------
Begin(r) ==
    \/ \E n \in Name, p \in Phone \cup {None} : Register(r, n, p)
    \/ \E h \in Name \cup Phone : LoginByPassword(r, h)
    \/ \E p \in Phone : LoginByOtp(r, p) \/ ResetPassword(r, p)
    \/ \E s \in Session : \/ UpdatePassword(r, s)
                         \/ \E p \in Phone : BindMobile(r, s, p)

Continue(r) ==
    \/ RegisterCheckName(r) \/ RegisterCheckPhone(r) \/ CreateUser(r) \/ GenerateToken(r)
    \/ LoginByName(r) \/ LoginByPhone(r) \/ LoginByOtpFind(r)
    \/ UpdatePasswordCheck(r) \/ ResetPasswordFind(r) \/ StorePassword(r)
    \/ RevokeAllParse(r) \/ Purge(r) \/ BindMobileCheck(r) \/ UpdatePhone(r)

Next ==
    \/ \E r \in Req : Begin(r) \/ Continue(r) \/ Answer(r) \/ Crash(r)
    \/ \E s \in Session : LogoutSRem(s) \/ Logout(s)

Spec == Init /\ [][Next]_vars

-----------------------------------------------------------------------------
(* Properties. *)

\* After a password change "revoke all tokens of the user" (passport.go:203, 262): a usable
\* session was opened under the password its user has now, except
\*   - while a change is revoking, or after one that stored the password was answered
\*     with an error or cut off before it revoked anything;
\*   - sessions of a login that a change overlapped, whose GenerateToken was answered with
\*     an error, that a logout has taken out of the set of their user and not deleted
\*     (redis_store.go:81), or that an earlier revocation left when Redis failed it, which
\*     may have been answered "ok" (redis_store.go:88, 94).
OldPasswordSessionsEnd ==
    \A s \in Session : state[s] = "live" =>
        \/ basis[s] = hash[owner[s]]
        \/ Revoking(owner[s]) \/ owner[s] \in unrevoked
        \/ s \in missed

\* A phone in the table is one for which a code was accepted, whichever flow
\* brought it there, and however lookups, inserts and updates interleave.
PhonesProven == \A u \in Id : phone[u] # None => phone[u] \in proven

=============================================================================
