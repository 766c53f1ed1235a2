------------------------------ MODULE TokenStore ------------------------------
(***************************************************************************)
(* The life of a login session: JWTTokenService (internal/pkg/auth/auth.go) *)
(* over RedisTokenStore (internal/pkg/auth/store/redis_store.go).           *)
(*                                                                         *)
(* Redis holds one key per token, jwt:token:{jti}, and one set per user,    *)
(* jwt:user:{userID}:tokens.  No operation of the store is a transaction:   *)
(* each is a sequence of Redis commands, and the commands of concurrent     *)
(* requests interleave.  One action below is one Redis command together     *)
(* with the Go code up to the next one.                                     *)
(***************************************************************************)
CONSTANTS
    User,            \* user identifiers
    Jti,             \* token identifiers; uuid.New() never returns one twice
    Req,             \* the goroutines that serve requests
    NoUser, NoJti,   \* an absent key; a request that has no token yet
    Ops,             \* the operations that clients call
    Faults,          \* "redis": a command may fail; "crash": a request may die
    LoginExclusive   \* TRUE: no login of a user runs during a purge of that user

Operations == {"generate", "logout", "purge", "list"}

ASSUME ConstantsAssumption ==
    /\ NoUser \notin User
    /\ NoJti \notin Jti
    /\ Ops \subseteq Operations
    /\ Faults \subseteq {"redis", "crash"}
    /\ LoginExclusive \in BOOLEAN

VARIABLES
    token,     \* token[j]: the UserID in key jwt:token:{j}, NoUser if no such key
    index,     \* index[u]: the members of jwt:user:{u}:tokens
    expired,   \* the tokens whose ExpiresAt has passed
    subject,   \* subject[j]: the Subject claim signed into the JWT with id j
    issued,    \* the tokens that GenerateToken returned to a client
    pc,        \* the next Redis command of each request
    op,        \* what the request does
    usr,       \* the userID argument, or the one the request read
    jti,       \* the jti argument, or the token being generated
    seen,      \* jtiSet, as the request read it
    due        \* history: the tokens that r's client asked to revoke

keys == <<token, index, expired>>
jwts == <<subject, issued>>
locals == <<op, usr, jti, seen, due>>
vars == <<token, index, expired, subject, issued, pc, op, usr, jti, seen, due>>

Steps == {"set", "sadd", "contains", "get", "srem", "del",
          "reparse", "smembers", "delKeys", "delIndex",
          "members", "lookup", "drop"}
Outcomes == {"ok", "failed"}

\* The commands whose key or member is the request's jti.
TokenSteps == {"set", "sadd", "contains", "get", "srem", "del", "reparse", "drop"}

TypeOK ==
    /\ token \in [Jti -> User \cup {NoUser}]
    /\ index \in [User -> SUBSET Jti]
    /\ expired \subseteq Jti
    /\ subject \in [Jti -> User \cup {NoUser}]
    /\ issued \subseteq Jti
    /\ pc \in [Req -> Steps \cup Outcomes \cup {"idle"}]
    /\ op \in [Req -> Operations]
    /\ usr \in [Req -> User \cup {NoUser}]
    /\ jti \in [Req -> Jti \cup {NoJti}]
    /\ seen \in [Req -> SUBSET Jti]
    /\ due \in [Req -> SUBSET Jti]
    /\ \A r \in Req : pc[r] \in Steps => usr[r] \in User
    /\ \A r \in Req : pc[r] \in TokenSteps => jti[r] \in Jti

Init ==
    /\ token = [j \in Jti |-> NoUser]
    /\ index = [u \in User |-> {}]
    /\ expired = {}
    /\ subject = [j \in Jti |-> NoUser]
    /\ issued = {}
    /\ pc = [r \in Req |-> "idle"]
    /\ op = [r \in Req |-> "list"]
    /\ usr = [r \in Req |-> NoUser]
    /\ jti = [r \in Req |-> NoJti]
    /\ seen = [r \in Req |-> {}]
    /\ due = [r \in Req |-> {}]

Stored(j) == token[j] # NoUser

\* ParseTokenFromContext: the key is there and ExpiresAt is not before now.
Valid(j) == Stored(j) /\ j \notin expired

RedisFails == "redis" \in Faults
Goto(r, label) == pc' = [pc EXCEPT ![r] = label]

\* A request starts: its arguments are set, its first command is due.
Enter(r, name, first, u, j) ==
    /\ pc[r] = "idle"
    /\ name \in Ops
    /\ Goto(r, first)
    /\ op' = [op EXCEPT ![r] = name]
    /\ usr' = [usr EXCEPT ![r] = u]
    /\ jti' = [jti EXCEPT ![r] = j]
    /\ seen' = [seen EXCEPT ![r] = {}]

Busy(name, u) == \E r \in Req : pc[r] \in Steps /\ op[r] = name /\ usr[r] = u

-----------------------------------------------------------------------------
(* GenerateToken: sign a JWT with a new id, then SaveToken. *)

\* Mutant: an id that is only not in use now, not one that never was.
GenerateTokenReusingIds(r, u) ==
    /\ LoginExclusive => ~Busy("purge", u)
    /\ \E j \in Jti :
        /\ ~Stored(j)
        /\ subject' = [subject EXCEPT ![j] = u]
        /\ Enter(r, "generate", "set", u, j)
    /\ due' = [due EXCEPT ![r] = {}]
    /\ UNCHANGED <<keys, issued>>

GenerateToken(r, u) ==
    /\ LoginExclusive => ~Busy("purge", u)
    /\ \E j \in Jti :
        /\ subject[j] = NoUser
        /\ subject' = [subject EXCEPT ![j] = u]
        /\ Enter(r, "generate", "set", u, j)
    /\ due' = [due EXCEPT ![r] = {}]
    /\ UNCHANGED <<keys, issued>>

\* SET jwt:token:{jti}.  After an error the key may or may not be there.
SaveTokenSet(r) ==
    LET saved == [token EXCEPT ![jti[r]] = usr[r]] IN
    /\ pc[r] = "set"
    /\ \/ token' = saved /\ Goto(r, "sadd")
       \/ RedisFails /\ token' \in {token, saved} /\ Goto(r, "failed")
    /\ UNCHANGED <<index, expired, jwts, locals>>

\* SADD jwt:user:{userID}:tokens.  Only after it is the JWT returned.
SaveTokenSAdd(r) ==
    LET added == [index EXCEPT ![usr[r]] = @ \cup {jti[r]}] IN
    /\ pc[r] = "sadd"
    /\ \/ /\ index' = added
          /\ issued' = issued \cup {jti[r]}
          /\ Goto(r, "ok")
       \/ /\ RedisFails
          /\ index' \in {index, added}
          /\ Goto(r, "failed")
          /\ UNCHANGED issued
    /\ UNCHANGED <<token, expired, subject, locals>>

-----------------------------------------------------------------------------
(* RevokeToken(ctx, jti): DeleteUserToken(claims.Subject, jti), where an    *)
(* empty jti argument stands for the id of the caller's own token.          *)

IssuedTo(u) == {j \in issued : subject[j] = u}

\* The middleware let the caller's token through; it names itself (Logout passes
\* the empty jti) or any other id.  Only its own user's tokens are his to revoke.
RevokeToken(r, own, target) ==
    /\ own \in issued /\ Valid(own)
    /\ Enter(r, "logout", "contains", subject[own], target)
    /\ due' = [due EXCEPT ![r] = {target} \cap IssuedTo(subject[own])]
    /\ UNCHANGED <<keys, jwts>>

\* Mutant: no check that the caller's set holds the id.
DeleteUserTokenOfAnyone(r) ==
    /\ pc[r] = "contains"
    /\ Goto(r, "get")
    /\ UNCHANGED <<keys, jwts, locals>>

\* SMEMBERS, its error ignored: an empty reply means "not contained", answer nil.
DeleteUserTokenContains(r) ==
    /\ pc[r] = "contains"
    /\ \/ /\ jti[r] \in index[usr[r]]
          /\ Goto(r, "get")
       \/ /\ jti[r] \notin index[usr[r]] \/ RedisFails
          /\ Goto(r, "ok")
    /\ UNCHANGED <<keys, jwts, locals>>

\* Mutant: the record is used although the GET found none.
DeleteTokenGetUnchecked(r) ==
    /\ pc[r] = "get"
    /\ Goto(r, "srem")
    /\ usr' = [usr EXCEPT ![r] = token[jti[r]]]
    /\ UNCHANGED <<keys, jwts, op, jti, seen, due>>

\* GET jwt:token:{jti}: without the record the SREM is skipped.
DeleteTokenGet(r) ==
    /\ pc[r] = "get"
    /\ \/ /\ Stored(jti[r])
          /\ Goto(r, "srem")
          /\ usr' = [usr EXCEPT ![r] = token[jti[r]]]
       \/ /\ ~Stored(jti[r]) \/ RedisFails
          /\ Goto(r, "del")
          /\ UNCHANGED usr
    /\ UNCHANGED <<keys, jwts, op, jti, seen, due>>

\* SREM jwt:user:{token.UserID}:tokens, its error ignored.
DeleteTokenSRem(r) ==
    LET removed == [index EXCEPT ![usr[r]] = @ \ {jti[r]}] IN
    /\ pc[r] = "srem"
    /\ index' = removed \/ (RedisFails /\ index' = index)
    /\ Goto(r, "del")
    /\ UNCHANGED <<token, expired, jwts, locals>>

\* DEL jwt:token:{jti}, its error returned.
DeleteTokenDel(r) ==
    LET deleted == [token EXCEPT ![jti[r]] = NoUser] IN
    /\ pc[r] = "del"
    /\ \/ token' = deleted /\ Goto(r, "ok")
       \/ RedisFails /\ token' \in {token, deleted} /\ Goto(r, "failed")
    /\ UNCHANGED <<index, expired, jwts, locals>>

-----------------------------------------------------------------------------
(* RevokeAllTokens and RevokeAllTokensByUserID: DeleteUserTokens(userID).   *)

\* UpdatePassword: the caller is authenticated, and parsed a second time below.
RevokeAllTokens(r, own) ==
    /\ own \in issued /\ Valid(own)
    /\ LoginExclusive => ~Busy("generate", subject[own])
    /\ Enter(r, "purge", "reparse", subject[own], own)
    /\ due' = [due EXCEPT ![r] = IssuedTo(subject[own])]
    /\ UNCHANGED <<keys, jwts>>

\* ResetPassword: the user row gives the id, no token is involved.
RevokeAllTokensByUserID(r, u) ==
    /\ LoginExclusive => ~Busy("generate", u)
    /\ Enter(r, "purge", "smembers", u, NoJti)
    /\ due' = [due EXCEPT ![r] = IssuedTo(u)]
    /\ UNCHANGED <<keys, jwts>>

\* GET jwt:token:{own jti} again; a token that has gone meanwhile ends the purge.
RevokeAllParse(r) ==
    /\ pc[r] = "reparse"
    /\ \/ /\ Valid(jti[r])
          /\ Goto(r, "smembers")
          /\ usr' = [usr EXCEPT ![r] = token[jti[r]]]
       \/ /\ ~Valid(jti[r]) \/ RedisFails
          /\ Goto(r, "failed")
          /\ UNCHANGED usr
    /\ UNCHANGED <<keys, jwts, op, jti, seen, due>>

\* Mutant: the DEL of the token keys is skipped for a set of one member.
DeleteUserTokensOffByOne(r) ==
    /\ pc[r] = "smembers"
    /\ seen' = [seen EXCEPT ![r] = index[usr[r]]]
    /\ Goto(r, IF \E j \in Jti : seen'[r] \subseteq {j} THEN "delIndex" ELSE "delKeys")
    /\ UNCHANGED <<keys, jwts, op, usr, jti, due>>

\* SMEMBERS, its error ignored; an empty set skips the DEL of the token keys.
DeleteUserTokensSMembers(r) ==
    /\ pc[r] = "smembers"
    /\ \E s \in {index[usr[r]]} \cup (IF RedisFails THEN {{}} ELSE {}) :
        /\ seen' = [seen EXCEPT ![r] = s]
        /\ Goto(r, IF s = {} THEN "delIndex" ELSE "delKeys")
    /\ UNCHANGED <<keys, jwts, op, usr, jti, due>>

\* DEL of all the token keys read, one command, its error ignored.
DeleteUserTokensDelKeys(r) ==
    LET deleted == [j \in Jti |-> IF j \in seen[r] THEN NoUser ELSE token[j]] IN
    /\ pc[r] = "delKeys"
    /\ token' = deleted \/ (RedisFails /\ token' = token)
    /\ Goto(r, "delIndex")
    /\ UNCHANGED <<index, expired, jwts, locals>>

\* DEL jwt:user:{userID}:tokens, whatever it holds by now.
DeleteUserTokensDelIndex(r) ==
    LET cleared == [index EXCEPT ![usr[r]] = {}] IN
    /\ pc[r] = "delIndex"
    /\ \/ index' = cleared /\ Goto(r, "ok")
       \/ RedisFails /\ index' \in {index, cleared} /\ Goto(r, "failed")
    /\ UNCHANGED <<token, expired, jwts, locals>>

-----------------------------------------------------------------------------
(* GetUserTokens(userID): read the set, look every member up, and drop from *)
(* the set each one that cannot be read.                                    *)

GetUserTokens(r, u) ==
    /\ Enter(r, "list", "members", u, NoJti)
    /\ due' = [due EXCEPT ![r] = {}]
    /\ UNCHANGED <<keys, jwts>>

GetUserTokensSMembers(r) ==
    /\ pc[r] = "members"
    /\ \/ /\ seen' = [seen EXCEPT ![r] = index[usr[r]]]
          /\ Goto(r, "lookup")
       \/ /\ RedisFails
          /\ Goto(r, "ok")
          /\ UNCHANGED seen
    /\ UNCHANGED <<keys, jwts, op, usr, jti, due>>

\* Mutant: a member whose token has expired is dropped, its key still there.
GetUserTokensLookupExpired(r) ==
    /\ pc[r] = "lookup"
    /\ \/ seen[r] = {} /\ Goto(r, "ok") /\ UNCHANGED <<jti, seen>>
       \/ \E j \in seen[r] :
            /\ seen' = [seen EXCEPT ![r] = @ \ {j}]
            /\ \/ Valid(j) /\ UNCHANGED <<pc, jti>>
               \/ ~Valid(j) /\ Goto(r, "drop") /\ jti' = [jti EXCEPT ![r] = j]
    /\ UNCHANGED <<keys, jwts, op, usr, due>>

\* GET of the next member; after the last one the list is returned.
GetUserTokensLookup(r) ==
    /\ pc[r] = "lookup"
    /\ \/ /\ seen[r] = {}
          /\ Goto(r, "ok")
          /\ UNCHANGED <<jti, seen>>
       \/ \E j \in seen[r] :
            /\ seen' = [seen EXCEPT ![r] = @ \ {j}]
            /\ \/ /\ Stored(j)
                  /\ UNCHANGED <<pc, jti>>
               \/ /\ ~Stored(j) \/ RedisFails
                  /\ Goto(r, "drop")
                  /\ jti' = [jti EXCEPT ![r] = j]
    /\ UNCHANGED <<keys, jwts, op, usr, due>>

\* SREM of the member whose GET failed, the error of the SREM ignored.
GetUserTokensDrop(r) ==
    LET removed == [index EXCEPT ![usr[r]] = @ \ {jti[r]}] IN
    /\ pc[r] = "drop"
    /\ index' = removed \/ (RedisFails /\ index' = index)
    /\ Goto(r, "lookup")
    /\ UNCHANGED <<token, expired, jwts, locals>>

-----------------------------------------------------------------------------
(* The environment: time, Redis' own expiry, answered and dying requests. *)

\* ExpiresAt passes for a token that has been signed.
Expire(j) ==
    /\ subject[j] # NoUser /\ j \notin expired
    /\ expired' = expired \cup {j}
    /\ UNCHANGED <<token, index, jwts, pc, locals>>

\* The TTL of the key runs out.  The user's set has no TTL: it keeps the id.
Evict(j) ==
    /\ j \in expired /\ Stored(j)
    /\ token' = [token EXCEPT ![j] = NoUser]
    /\ UNCHANGED <<index, expired, jwts, pc, locals>>

Forget(r) ==
    /\ Goto(r, "idle")
    /\ op' = [op EXCEPT ![r] = "list"]
    /\ usr' = [usr EXCEPT ![r] = NoUser]
    /\ jti' = [jti EXCEPT ![r] = NoJti]
    /\ seen' = [seen EXCEPT ![r] = {}]
    /\ due' = [due EXCEPT ![r] = {}]
    /\ UNCHANGED <<keys, jwts>>

Answer(r) == pc[r] \in Outcomes /\ Forget(r)

\* The process is killed between two commands of a request.
Crash(r) == "crash" \in Faults /\ pc[r] \in Steps /\ Forget(r)

-----------------------------------------------------------------------------
Begin(r) ==
    \/ \E u \in User : \/ GenerateToken(r, u)
                       \/ RevokeAllTokensByUserID(r, u)
                       \/ GetUserTokens(r, u)
    \/ \E own \in Jti : RevokeAllTokens(r, own)
    \/ \E own, target \in Jti : RevokeToken(r, own, target)

Continue(r) ==
    \/ SaveTokenSet(r) \/ SaveTokenSAdd(r)
    \/ DeleteUserTokenContains(r) \/ DeleteTokenGet(r)
    \/ DeleteTokenSRem(r) \/ DeleteTokenDel(r)
    \/ RevokeAllParse(r) \/ DeleteUserTokensSMembers(r)
    \/ DeleteUserTokensDelKeys(r) \/ DeleteUserTokensDelIndex(r)
    \/ GetUserTokensSMembers(r) \/ GetUserTokensLookup(r) \/ GetUserTokensDrop(r)

Next ==
    \/ \E r \in Req : Begin(r) \/ Continue(r) \/ Answer(r) \/ Crash(r)
    \/ \E j \in Jti : Expire(j) \/ Evict(j)

Spec == Init /\ [][Next]_vars

-----------------------------------------------------------------------------
(* Properties. *)

\* q is about to send the DEL of j's key: j is as good as gone.
Doomed(j) == \E q \in Req : pc[q] = "del" /\ jti[q] = j

\* Nobody is logged out by somebody else: whatever fails and however requests
\* interleave, a key jwt:token:{jti} disappears before its expiry only by a step
\* of a request that authenticated as, or looked up, the token's own user.  This
\* is what the `contains` check of DeleteUserToken is there for.
RevokedByItsUser ==
    \A j \in Jti :
        Stored(j) /\ token'[j] = NoUser /\ j \notin expired =>
            \E r \in Req : /\ pc[r] \in {"del", "delKeys"} /\ pc'[r] # pc[r]
                           /\ op[r] \in {"logout", "purge"}
                           /\ usr[r] = subject[j]
RevocationIsolated == [][RevokedByItsUser]_vars

\* "Revoke the current token" (internal/biz/passport.go:167): a Logout of the
\* caller's own token that answered nil has revoked it, as it is written.
LogoutRevokes ==
    \A r \in Req : pc[r] = "ok" /\ op[r] = "logout" =>
        \A j \in due[r] : Stored(j) => Doomed(j)

\* "Revoke all tokens of the user" (passport.go:203 and 262, auth.go:40): after a
\* purge that answered nil, none of the user's earlier tokens is usable.
PurgeRevokesAll ==
    \A r \in Req : pc[r] = "ok" /\ op[r] = "purge" =>
        \A j \in due[r] : Stored(j) => Doomed(j)

\* Logout and the purge after a password change do revoke: when one answers nil,
\* each token it was asked to revoke is gone, or a concurrent logout is about to
\* send its DEL.  Holds while Redis answers and no login overlaps a purge.
RevocationSettles == LogoutRevokes /\ PurgeRevokesAll

\* Every usable token can be found again through its user's set (else no logout
\* and no purge ever revokes it), except while a logout is about to delete it.
LiveTokensIndexed ==
    \A j \in issued : Stored(j) => j \in index[subject[j]] \/ Doomed(j)

\* The sessions that a client sees: a token is usable from its SET to the end of
\* its key, and used up when its login failed before the key was there.
Signing(j) == \E r \in Req : pc[r] = "set" /\ jti[r] = j

SessionState ==
    [j \in Jti |-> IF Stored(j) THEN "live"
                   ELSE IF subject[j] = NoUser \/ Signing(j) THEN "free" ELSE "ended"]

SessionOwner ==
    [j \in Jti |-> IF SessionState[j] = "free" THEN NoUser ELSE subject[j]]

Sessions == INSTANCE SessionStore WITH
    Session <- Jti, Nobody <- NoUser, owner <- SessionOwner, state <- SessionState

\* The store implements SessionStore: no token is valid for two users, none comes
\* back after a logout, a purge or its expiry, and no step ends tokens of two users.
ImplementsSessions == Sessions!SessionSpec

=============================================================================
