--------------------------- MODULE TokenStoreProofs ---------------------------
(***************************************************************************)
(* Theorems about TokenStore, for any users, tokens and requests.           *)
(***************************************************************************)
EXTENDS TokenStore, TLAPS

-----------------------------------------------------------------------------
(* The inductive invariants. *)

Signers == {r \in Req : pc[r] \in {"set", "sadd"}}
Walking == {"lookup", "drop", "delKeys", "delIndex"}

\* What the keys, the JWTs and the requests say of a token's user agrees.
Ownership ==
    /\ \A j \in Jti : Stored(j) => token[j] = subject[j]
    /\ \A u \in User : \A j \in index[u] : subject[j] = u
    /\ \A j \in issued : subject[j] # NoUser
    /\ \A r \in Req :
        /\ pc[r] \in {"set", "sadd", "get", "srem", "del", "reparse"}
               => subject[jti[r]] = usr[r]
        /\ pc[r] \in Walking => \A j \in seen[r] : subject[j] = usr[r]
        /\ pc[r] = "drop" => subject[jti[r]] = usr[r]
        /\ pc[r] \in {"set", "sadd"} => op[r] = "generate"
        /\ pc[r] \in {"contains", "get", "srem", "del"} => op[r] = "logout"
        /\ pc[r] \in {"reparse", "smembers", "delKeys", "delIndex"} => op[r] = "purge"
        /\ pc[r] \in {"members", "lookup", "drop"} => op[r] = "list"

\* A token that is being signed is known to its own request only.
SigningPrivate ==
    /\ \A r, q \in Signers : jti[r] = jti[q] => r = q
    /\ \A r \in Signers :
        /\ jti[r] \notin issued
        /\ pc[r] = "set" =>
            /\ ~Stored(jti[r])
            /\ \A u \in User : jti[r] \notin index[u]
            /\ \A q \in Req : /\ pc[q] \in Walking => jti[r] \notin seen[q]
                              /\ pc[q] = "drop" => jti[r] # jti[q]

BaseInv == TypeOK /\ Ownership /\ SigningPrivate

\* The assumption under which revocation is complete.
Quiet == Faults = {} /\ LoginExclusive

LoginsApart ==
    \A r, q \in Req :
        (pc[r] \in Steps /\ pc[q] \in Steps /\ op[r] = "generate" /\ op[q] = "purge")
            => usr[r] # usr[q]

Found(j) == \/ j \in index[subject[j]]
            \/ \E r \in Signers : jti[r] = j
            \/ Doomed(j)

\* No walk over a user's set leaves a usable token behind.
WalksComplete ==
    /\ \A j \in Jti : Stored(j) => Found(j)
    /\ \A r \in Req :
        /\ pc[r] = "drop" => ~Stored(jti[r])
        /\ pc[r] = "delKeys" => index[usr[r]] \subseteq seen[r]
        /\ pc[r] = "delIndex" => \A j \in index[usr[r]] : ~Stored(j)

\* What is left of a request's task at each of its steps.
DueInv ==
    \A r \in Req :
        /\ due[r] \subseteq issued
        /\ pc[r] \in Steps => \A j \in due[r] : subject[j] = usr[r]
        /\ op[r] = "logout" => due[r] \subseteq {jti[r]}
        /\ op[r] \in {"generate", "list"} => due[r] = {}
        /\ pc[r] \in {"delIndex", "ok"} => \A j \in due[r] : Stored(j) => Doomed(j)
        /\ pc[r] = "delKeys" => \A j \in due[r] : Stored(j) => j \in seen[r] \/ Doomed(j)

QuietInv == BaseInv /\ LoginsApart /\ WalksComplete /\ DueInv

-----------------------------------------------------------------------------
(* Type correctness. *)

\* A step of the store leaves every variable in its type.
LEMMA TypeStep ==
  ASSUME TypeOK, Ownership, [Next]_vars
  PROVE  TypeOK'
<1> USE ConstantsAssumption DEF Ownership, Stored, keys, jwts, locals
<1>1. ASSUME NEW r \in Req, NEW u \in User, GenerateToken(r, u)
     PROVE  TypeOK'
  BY <1>1 DEF GenerateToken, Enter, TypeOK, Goto, Operations, Steps, TokenSteps, Outcomes
<1>2. ASSUME NEW r \in Req, SaveTokenSet(r)
     PROVE  TypeOK'
  BY <1>2 DEF SaveTokenSet, TypeOK, Goto, Operations, Steps, TokenSteps, Outcomes
<1>3. ASSUME NEW r \in Req, SaveTokenSAdd(r)
     PROVE  TypeOK'
  BY <1>3 DEF SaveTokenSAdd, TypeOK, Goto, Operations, Steps, TokenSteps, Outcomes
<1>4. ASSUME NEW r \in Req, NEW own \in Jti, NEW target \in Jti, RevokeToken(r, own, target)
     PROVE  TypeOK'
  BY <1>4 DEF RevokeToken, Enter, IssuedTo, Valid, TypeOK, Goto, Operations, Steps, TokenSteps, Outcomes
<1>5. ASSUME NEW r \in Req, DeleteUserTokenContains(r)
     PROVE  TypeOK'
  BY <1>5 DEF DeleteUserTokenContains, TypeOK, Goto, Operations, Steps, TokenSteps, Outcomes
<1>6. ASSUME NEW r \in Req, DeleteTokenGet(r)
     PROVE  TypeOK'
  BY <1>6 DEF DeleteTokenGet, TypeOK, Goto, Operations, Steps, TokenSteps, Outcomes
<1>7. ASSUME NEW r \in Req, DeleteTokenSRem(r)
     PROVE  TypeOK'
  BY <1>7 DEF DeleteTokenSRem, TypeOK, Goto, Operations, Steps, TokenSteps, Outcomes
<1>8. ASSUME NEW r \in Req, DeleteTokenDel(r)
     PROVE  TypeOK'
  BY <1>8 DEF DeleteTokenDel, TypeOK, Goto, Operations, Steps, TokenSteps, Outcomes
<1>9. ASSUME NEW r \in Req, NEW own \in Jti, RevokeAllTokens(r, own)
     PROVE  TypeOK'
  BY <1>9 DEF RevokeAllTokens, Enter, IssuedTo, Valid, TypeOK, Goto, Operations, Steps, TokenSteps, Outcomes
<1>10. ASSUME NEW r \in Req, NEW u \in User, RevokeAllTokensByUserID(r, u)
     PROVE  TypeOK'
  BY <1>10 DEF RevokeAllTokensByUserID, Enter, IssuedTo, TypeOK, Goto, Operations, Steps, TokenSteps, Outcomes
<1>11. ASSUME NEW r \in Req, RevokeAllParse(r)
     PROVE  TypeOK'
  BY <1>11 DEF RevokeAllParse, Valid, TypeOK, Goto, Operations, Steps, TokenSteps, Outcomes
<1>12. ASSUME NEW r \in Req, DeleteUserTokensSMembers(r)
     PROVE  TypeOK'
  BY <1>12 DEF DeleteUserTokensSMembers, TypeOK, Goto, Operations, Steps, TokenSteps, Outcomes
<1>13. ASSUME NEW r \in Req, DeleteUserTokensDelKeys(r)
     PROVE  TypeOK'
  BY <1>13 DEF DeleteUserTokensDelKeys, TypeOK, Goto, Operations, Steps, TokenSteps, Outcomes
<1>14. ASSUME NEW r \in Req, DeleteUserTokensDelIndex(r)
     PROVE  TypeOK'
  BY <1>14 DEF DeleteUserTokensDelIndex, TypeOK, Goto, Operations, Steps, TokenSteps, Outcomes
<1>15. ASSUME NEW r \in Req, NEW u \in User, GetUserTokens(r, u)
     PROVE  TypeOK'
  BY <1>15 DEF GetUserTokens, Enter, TypeOK, Goto, Operations, Steps, TokenSteps, Outcomes
<1>16. ASSUME NEW r \in Req, GetUserTokensSMembers(r)
     PROVE  TypeOK'
  BY <1>16 DEF GetUserTokensSMembers, TypeOK, Goto, Operations, Steps, TokenSteps, Outcomes
<1>17. ASSUME NEW r \in Req, GetUserTokensLookup(r)
     PROVE  TypeOK'
  BY <1>17 DEF GetUserTokensLookup, TypeOK, Goto, Operations, Steps, TokenSteps, Outcomes
<1>18. ASSUME NEW r \in Req, GetUserTokensDrop(r)
     PROVE  TypeOK'
  BY <1>18 DEF GetUserTokensDrop, TypeOK, Goto, Operations, Steps, TokenSteps, Outcomes
<1>19. ASSUME NEW j \in Jti, Expire(j)
     PROVE  TypeOK'
  BY <1>19 DEF Expire, TypeOK, Goto, Operations, Steps, TokenSteps, Outcomes
<1>20. ASSUME NEW j \in Jti, Evict(j)
     PROVE  TypeOK'
  BY <1>20 DEF Evict, TypeOK, Goto, Operations, Steps, TokenSteps, Outcomes
<1>21. ASSUME NEW r \in Req, Answer(r)
     PROVE  TypeOK'
  BY <1>21 DEF Answer, Forget, TypeOK, Goto, Operations, Steps, TokenSteps, Outcomes
<1>22. ASSUME NEW r \in Req, Crash(r)
     PROVE  TypeOK'
  BY <1>22 DEF Crash, Forget, TypeOK, Goto, Operations, Steps, TokenSteps, Outcomes
<1>23. CASE UNCHANGED vars
  BY <1>23 DEF TypeOK, vars
<1> QED
  BY <1>1, <1>2, <1>3, <1>4, <1>5, <1>6, <1>7, <1>8, <1>9, <1>10, <1>11, <1>12, <1>13, <1>14, <1>15, <1>16, <1>17, <1>18, <1>19, <1>20, <1>21, <1>22, <1>23 DEF Next, Begin, Continue

-----------------------------------------------------------------------------
(* Whose token is whose. *)

\* No step makes the keys, the JWTs and the requests disagree on a token's user.
LEMMA OwnershipStep ==
  ASSUME TypeOK, Ownership, SigningPrivate, [Next]_vars
  PROVE  Ownership'
<1> USE ConstantsAssumption DEF TypeOK, Steps, TokenSteps, SigningPrivate, Signers,
        Stored, keys, jwts, locals
<1>1. ASSUME NEW r \in Req, NEW u \in User, GenerateToken(r, u)
     PROVE  Ownership'
  BY <1>1 DEF GenerateToken, Enter, Ownership, Goto, Walking
<1>2. ASSUME NEW r \in Req, SaveTokenSet(r)
     PROVE  Ownership'
  BY <1>2 DEF SaveTokenSet, Ownership, Goto, Walking
<1>3. ASSUME NEW r \in Req, SaveTokenSAdd(r)
     PROVE  Ownership'
  BY <1>3 DEF SaveTokenSAdd, Ownership, Goto, Walking
<1>4. ASSUME NEW r \in Req, NEW own \in Jti, NEW target \in Jti, RevokeToken(r, own, target)
     PROVE  Ownership'
  BY <1>4 DEF RevokeToken, Enter, IssuedTo, Valid, Ownership, Goto, Walking
<1>5. ASSUME NEW r \in Req, DeleteUserTokenContains(r)
     PROVE  Ownership'
  BY <1>5 DEF DeleteUserTokenContains, Ownership, Goto, Walking
<1>6. ASSUME NEW r \in Req, DeleteTokenGet(r)
     PROVE  Ownership'
  BY <1>6 DEF DeleteTokenGet, Ownership, Goto, Walking
<1>7. ASSUME NEW r \in Req, DeleteTokenSRem(r)
     PROVE  Ownership'
  BY <1>7 DEF DeleteTokenSRem, Ownership, Goto, Walking
<1>8. ASSUME NEW r \in Req, DeleteTokenDel(r)
     PROVE  Ownership'
  BY <1>8 DEF DeleteTokenDel, Ownership, Goto, Walking
<1>9. ASSUME NEW r \in Req, NEW own \in Jti, RevokeAllTokens(r, own)
     PROVE  Ownership'
  BY <1>9 DEF RevokeAllTokens, Enter, IssuedTo, Valid, Ownership, Goto, Walking
<1>10. ASSUME NEW r \in Req, NEW u \in User, RevokeAllTokensByUserID(r, u)
     PROVE  Ownership'
  BY <1>10 DEF RevokeAllTokensByUserID, Enter, IssuedTo, Ownership, Goto, Walking
<1>11. ASSUME NEW r \in Req, RevokeAllParse(r)
     PROVE  Ownership'
  BY <1>11 DEF RevokeAllParse, Valid, Ownership, Goto, Walking
<1>12. ASSUME NEW r \in Req, DeleteUserTokensSMembers(r)
     PROVE  Ownership'
  BY <1>12 DEF DeleteUserTokensSMembers, Ownership, Goto, Walking
<1>13. ASSUME NEW r \in Req, DeleteUserTokensDelKeys(r)
     PROVE  Ownership'
  BY <1>13 DEF DeleteUserTokensDelKeys, Ownership, Goto, Walking
<1>14. ASSUME NEW r \in Req, DeleteUserTokensDelIndex(r)
     PROVE  Ownership'
  BY <1>14 DEF DeleteUserTokensDelIndex, Ownership, Goto, Walking
<1>15. ASSUME NEW r \in Req, NEW u \in User, GetUserTokens(r, u)
     PROVE  Ownership'
  BY <1>15 DEF GetUserTokens, Enter, Ownership, Goto, Walking
<1>16. ASSUME NEW r \in Req, GetUserTokensSMembers(r)
     PROVE  Ownership'
  BY <1>16 DEF GetUserTokensSMembers, Ownership, Goto, Walking
<1>17. ASSUME NEW r \in Req, GetUserTokensLookup(r)
     PROVE  Ownership'
  BY <1>17 DEF GetUserTokensLookup, Ownership, Goto, Walking
<1>18. ASSUME NEW r \in Req, GetUserTokensDrop(r)
     PROVE  Ownership'
  BY <1>18 DEF GetUserTokensDrop, Ownership, Goto, Walking
<1>19. ASSUME NEW j \in Jti, Expire(j)
     PROVE  Ownership'
  BY <1>19 DEF Expire, Ownership, Goto, Walking
<1>20. ASSUME NEW j \in Jti, Evict(j)
     PROVE  Ownership'
  BY <1>20 DEF Evict, Ownership, Goto, Walking
<1>21. ASSUME NEW r \in Req, Answer(r)
     PROVE  Ownership'
  BY <1>21 DEF Answer, Forget, Ownership, Goto, Walking
<1>22. ASSUME NEW r \in Req, Crash(r)
     PROVE  Ownership'
  BY <1>22 DEF Crash, Forget, Ownership, Goto, Walking
<1>23. CASE UNCHANGED vars
  BY <1>23 DEF Ownership, vars
<1> QED
  BY <1>1, <1>2, <1>3, <1>4, <1>5, <1>6, <1>7, <1>8, <1>9, <1>10, <1>11, <1>12, <1>13, <1>14, <1>15, <1>16, <1>17, <1>18, <1>19, <1>20, <1>21, <1>22, <1>23 DEF Next, Begin, Continue

\* No step lets another request come across a token that is being signed.
LEMMA SigningStep ==
  ASSUME TypeOK, Ownership, SigningPrivate, [Next]_vars
  PROVE  SigningPrivate'
<1> USE ConstantsAssumption DEF TypeOK, Steps, TokenSteps, Ownership, Signers,
        Stored, keys, jwts, locals
<1>1. ASSUME NEW r \in Req, NEW u \in User, GenerateToken(r, u)
     PROVE  SigningPrivate'
  BY <1>1 DEF GenerateToken, Enter, SigningPrivate, Goto, Walking
<1>2. ASSUME NEW r \in Req, SaveTokenSet(r)
     PROVE  SigningPrivate'
  BY <1>2 DEF SaveTokenSet, SigningPrivate, Goto, Walking
<1>3. ASSUME NEW r \in Req, SaveTokenSAdd(r)
     PROVE  SigningPrivate'
  BY <1>3 DEF SaveTokenSAdd, SigningPrivate, Goto, Walking
<1>4. ASSUME NEW r \in Req, NEW own \in Jti, NEW target \in Jti, RevokeToken(r, own, target)
     PROVE  SigningPrivate'
  BY <1>4 DEF RevokeToken, Enter, IssuedTo, Valid, SigningPrivate, Goto, Walking
<1>5. ASSUME NEW r \in Req, DeleteUserTokenContains(r)
     PROVE  SigningPrivate'
  BY <1>5 DEF DeleteUserTokenContains, SigningPrivate, Goto, Walking
<1>6. ASSUME NEW r \in Req, DeleteTokenGet(r)
     PROVE  SigningPrivate'
  BY <1>6 DEF DeleteTokenGet, SigningPrivate, Goto, Walking
<1>7. ASSUME NEW r \in Req, DeleteTokenSRem(r)
     PROVE  SigningPrivate'
  BY <1>7 DEF DeleteTokenSRem, SigningPrivate, Goto, Walking
<1>8. ASSUME NEW r \in Req, DeleteTokenDel(r)
     PROVE  SigningPrivate'
  BY <1>8 DEF DeleteTokenDel, SigningPrivate, Goto, Walking
<1>9. ASSUME NEW r \in Req, NEW own \in Jti, RevokeAllTokens(r, own)
     PROVE  SigningPrivate'
  BY <1>9 DEF RevokeAllTokens, Enter, IssuedTo, Valid, SigningPrivate, Goto, Walking
<1>10. ASSUME NEW r \in Req, NEW u \in User, RevokeAllTokensByUserID(r, u)
     PROVE  SigningPrivate'
  BY <1>10 DEF RevokeAllTokensByUserID, Enter, IssuedTo, SigningPrivate, Goto, Walking
<1>11. ASSUME NEW r \in Req, RevokeAllParse(r)
     PROVE  SigningPrivate'
  BY <1>11 DEF RevokeAllParse, Valid, SigningPrivate, Goto, Walking
<1>12. ASSUME NEW r \in Req, DeleteUserTokensSMembers(r)
     PROVE  SigningPrivate'
  BY <1>12 DEF DeleteUserTokensSMembers, SigningPrivate, Goto, Walking
<1>13. ASSUME NEW r \in Req, DeleteUserTokensDelKeys(r)
     PROVE  SigningPrivate'
  BY <1>13 DEF DeleteUserTokensDelKeys, SigningPrivate, Goto, Walking
<1>14. ASSUME NEW r \in Req, DeleteUserTokensDelIndex(r)
     PROVE  SigningPrivate'
  BY <1>14 DEF DeleteUserTokensDelIndex, SigningPrivate, Goto, Walking
<1>15. ASSUME NEW r \in Req, NEW u \in User, GetUserTokens(r, u)
     PROVE  SigningPrivate'
  BY <1>15 DEF GetUserTokens, Enter, SigningPrivate, Goto, Walking
<1>16. ASSUME NEW r \in Req, GetUserTokensSMembers(r)
     PROVE  SigningPrivate'
  BY <1>16 DEF GetUserTokensSMembers, SigningPrivate, Goto, Walking
<1>17. ASSUME NEW r \in Req, GetUserTokensLookup(r)
     PROVE  SigningPrivate'
  BY <1>17 DEF GetUserTokensLookup, SigningPrivate, Goto, Walking
<1>18. ASSUME NEW r \in Req, GetUserTokensDrop(r)
     PROVE  SigningPrivate'
  BY <1>18 DEF GetUserTokensDrop, SigningPrivate, Goto, Walking
<1>19. ASSUME NEW j \in Jti, Expire(j)
     PROVE  SigningPrivate'
  BY <1>19 DEF Expire, SigningPrivate, Goto, Walking
<1>20. ASSUME NEW j \in Jti, Evict(j)
     PROVE  SigningPrivate'
  BY <1>20 DEF Evict, SigningPrivate, Goto, Walking
<1>21. ASSUME NEW r \in Req, Answer(r)
     PROVE  SigningPrivate'
  BY <1>21 DEF Answer, Forget, SigningPrivate, Goto, Walking
<1>22. ASSUME NEW r \in Req, Crash(r)
     PROVE  SigningPrivate'
  BY <1>22 DEF Crash, Forget, SigningPrivate, Goto, Walking
<1>23. CASE UNCHANGED vars
  BY <1>23 DEF SigningPrivate, vars
<1> QED
  BY <1>1, <1>2, <1>3, <1>4, <1>5, <1>6, <1>7, <1>8, <1>9, <1>10, <1>11, <1>12, <1>13, <1>14, <1>15, <1>16, <1>17, <1>18, <1>19, <1>20, <1>21, <1>22, <1>23 DEF Next, Begin, Continue

\* The invariant the other theorems rest on.
THEOREM BaseCorrect == Spec => []BaseInv
<1>1. Init => BaseInv
  BY ConstantsAssumption DEF Init, BaseInv, TypeOK, Ownership, SigningPrivate, Signers,
     Stored, Operations, Steps, Outcomes, TokenSteps, Walking
<1>2. BaseInv /\ [Next]_vars => BaseInv'
  BY TypeStep, OwnershipStep, SigningStep DEF BaseInv
<1> QED
  BY <1>1, <1>2, PTL DEF Spec

\* Every variable keeps its type, whatever fails and however requests interleave;
\* in particular a Redis command is never sent without its user or token id.
THEOREM TypeCorrect == Spec => []TypeOK
<1>1. BaseInv => TypeOK
  BY DEF BaseInv
<1> QED
  BY <1>1, BaseCorrect, PTL

-----------------------------------------------------------------------------
(* Isolation. *)

\* A step that removes an unexpired token belongs to a request of its user.
LEMMA IsolationStep ==
  ASSUME BaseInv, [Next]_vars
  PROVE  RevokedByItsUser
<1> USE ConstantsAssumption DEF BaseInv, TypeOK, Ownership, RevokedByItsUser, Stored, Steps,
        keys, jwts, locals
<1>1. ASSUME NEW r \in Req, NEW u \in User, GenerateToken(r, u)
     PROVE  RevokedByItsUser
  BY <1>1 DEF GenerateToken, Enter, SigningPrivate, Signers, Goto, Walking
<1>2. ASSUME NEW r \in Req, SaveTokenSet(r)
     PROVE  RevokedByItsUser
  BY <1>2 DEF SaveTokenSet, SigningPrivate, Signers, Goto, Walking
<1>3. ASSUME NEW r \in Req, SaveTokenSAdd(r)
     PROVE  RevokedByItsUser
  BY <1>3 DEF SaveTokenSAdd, SigningPrivate, Signers, Goto, Walking
<1>4. ASSUME NEW r \in Req, NEW own \in Jti, NEW target \in Jti, RevokeToken(r, own, target)
     PROVE  RevokedByItsUser
  BY <1>4 DEF RevokeToken, Enter, IssuedTo, Valid, SigningPrivate, Signers, Goto, Walking
<1>5. ASSUME NEW r \in Req, DeleteUserTokenContains(r)
     PROVE  RevokedByItsUser
  BY <1>5 DEF DeleteUserTokenContains, SigningPrivate, Signers, Goto, Walking
<1>6. ASSUME NEW r \in Req, DeleteTokenGet(r)
     PROVE  RevokedByItsUser
  BY <1>6 DEF DeleteTokenGet, SigningPrivate, Signers, Goto, Walking
<1>7. ASSUME NEW r \in Req, DeleteTokenSRem(r)
     PROVE  RevokedByItsUser
  BY <1>7 DEF DeleteTokenSRem, SigningPrivate, Signers, Goto, Walking
<1>8. ASSUME NEW r \in Req, DeleteTokenDel(r)
     PROVE  RevokedByItsUser
  BY <1>8 DEF DeleteTokenDel, SigningPrivate, Signers, Goto, Walking
<1>9. ASSUME NEW r \in Req, NEW own \in Jti, RevokeAllTokens(r, own)
     PROVE  RevokedByItsUser
  BY <1>9 DEF RevokeAllTokens, Enter, IssuedTo, Valid, SigningPrivate, Signers, Goto, Walking
<1>10. ASSUME NEW r \in Req, NEW u \in User, RevokeAllTokensByUserID(r, u)
     PROVE  RevokedByItsUser
  BY <1>10 DEF RevokeAllTokensByUserID, Enter, IssuedTo, SigningPrivate, Signers, Goto, Walking
<1>11. ASSUME NEW r \in Req, RevokeAllParse(r)
     PROVE  RevokedByItsUser
  BY <1>11 DEF RevokeAllParse, Valid, SigningPrivate, Signers, Goto, Walking
<1>12. ASSUME NEW r \in Req, DeleteUserTokensSMembers(r)
     PROVE  RevokedByItsUser
  BY <1>12 DEF DeleteUserTokensSMembers, SigningPrivate, Signers, Goto, Walking
<1>13. ASSUME NEW r \in Req, DeleteUserTokensDelKeys(r)
     PROVE  RevokedByItsUser
  BY <1>13 DEF DeleteUserTokensDelKeys, SigningPrivate, Signers, Goto, Walking
<1>14. ASSUME NEW r \in Req, DeleteUserTokensDelIndex(r)
     PROVE  RevokedByItsUser
  BY <1>14 DEF DeleteUserTokensDelIndex, SigningPrivate, Signers, Goto, Walking
<1>15. ASSUME NEW r \in Req, NEW u \in User, GetUserTokens(r, u)
     PROVE  RevokedByItsUser
  BY <1>15 DEF GetUserTokens, Enter, SigningPrivate, Signers, Goto, Walking
<1>16. ASSUME NEW r \in Req, GetUserTokensSMembers(r)
     PROVE  RevokedByItsUser
  BY <1>16 DEF GetUserTokensSMembers, SigningPrivate, Signers, Goto, Walking
<1>17. ASSUME NEW r \in Req, GetUserTokensLookup(r)
     PROVE  RevokedByItsUser
  BY <1>17 DEF GetUserTokensLookup, SigningPrivate, Signers, Goto, Walking
<1>18. ASSUME NEW r \in Req, GetUserTokensDrop(r)
     PROVE  RevokedByItsUser
  BY <1>18 DEF GetUserTokensDrop, SigningPrivate, Signers, Goto, Walking
<1>19. ASSUME NEW j \in Jti, Expire(j)
     PROVE  RevokedByItsUser
  BY <1>19 DEF Expire, SigningPrivate, Signers, Goto, Walking
<1>20. ASSUME NEW j \in Jti, Evict(j)
     PROVE  RevokedByItsUser
  BY <1>20 DEF Evict, SigningPrivate, Signers, Goto, Walking
<1>21. ASSUME NEW r \in Req, Answer(r)
     PROVE  RevokedByItsUser
  BY <1>21 DEF Answer, Forget, SigningPrivate, Signers, Goto, Walking
<1>22. ASSUME NEW r \in Req, Crash(r)
     PROVE  RevokedByItsUser
  BY <1>22 DEF Crash, Forget, SigningPrivate, Signers, Goto, Walking
<1>23. CASE UNCHANGED vars
  BY <1>23 DEF SigningPrivate, Signers, vars
<1> QED
  BY <1>1, <1>2, <1>3, <1>4, <1>5, <1>6, <1>7, <1>8, <1>9, <1>10, <1>11, <1>12, <1>13, <1>14, <1>15, <1>16, <1>17, <1>18, <1>19, <1>20, <1>21, <1>22, <1>23 DEF Next, Begin, Continue

\* RevocationIsolated: nobody is logged out by a request of somebody else, for
\* any number of users, tokens and requests, with failing and dying requests.
THEOREM Isolation == Spec => RevocationIsolated
<1>1. BaseInv /\ [Next]_vars => [RevokedByItsUser]_vars
  BY IsolationStep
<1> QED
  BY <1>1, BaseCorrect, PTL DEF Spec, RevocationIsolated

-----------------------------------------------------------------------------
(* The store implements SessionStore. *)

SessionVars == <<SessionOwner, SessionState>>

\* The refinement mapping is a pair of functions on the tokens.
LEMMA MapsAreFunctions ==
  /\ SessionOwner = [j \in Jti |-> SessionOwner[j]]
  /\ SessionState = [j \in Jti |-> SessionState[j]]
  /\ SessionOwner' = [j \in Jti |-> SessionOwner'[j]]
  /\ SessionState' = [j \in Jti |-> SessionState'[j]]
  BY DEF SessionOwner, SessionState

\* A step that touches no token key and no signing request is a stutter.
LEMMA StutterMaps ==
  ASSUME UNCHANGED <<token, subject>>,
         \A j \in Jti : Signing(j)' <=> Signing(j)
  PROVE  UNCHANGED SessionVars
<1>1. \A j \in Jti : SessionState'[j] = SessionState[j]
  BY DEF SessionState, Stored
<1>2. SessionState' = SessionState
  BY <1>1 DEF SessionState
<1> QED
  BY <1>2 DEF SessionOwner, SessionVars

\* Signing a JWT opens nothing yet.
LEMMA FreshMaps ==
  ASSUME BaseInv, NEW r \in Req, NEW u \in User, GenerateToken(r, u)
  PROVE  UNCHANGED SessionVars
<1> USE ConstantsAssumption DEF BaseInv, TypeOK, Ownership, SigningPrivate, Signers
<1>1. PICK j \in Jti : /\ subject[j] = NoUser
                      /\ subject' = [subject EXCEPT ![j] = u]
                      /\ Enter(r, "generate", "set", u, j)
  BY DEF GenerateToken
<1>2. token' = token
  BY DEF GenerateToken, keys
<1>3. /\ ~Stored(j)
      /\ Signing(j)'
      /\ \A k \in Jti \ {j} : Signing(k)' <=> Signing(k)
  BY <1>1 DEF Signing, Enter, Goto, Stored
<1>4. \A k \in Jti : SessionState'[k] = SessionState[k]
  BY <1>1, <1>2, <1>3 DEF SessionState, Stored
<1>5. SessionState' = SessionState
  BY <1>4 DEF SessionState
<1>6. \A k \in Jti : SessionOwner'[k] = SessionOwner[k]
  BY <1>1, <1>3, <1>5 DEF SessionOwner, SessionState
<1> QED
  BY <1>5, <1>6 DEF SessionOwner, SessionVars

\* The SET opens the session, or uses it up when it fails.
LEMMA SaveMaps ==
  ASSUME BaseInv, NEW r \in Req, SaveTokenSet(r)
  PROVE  Sessions!SessionNext
<1> USE ConstantsAssumption DEF BaseInv, TypeOK, Ownership, SigningPrivate, Signers, Steps,
        TokenSteps
<1>1. PICK j \in Jti, u \in User :
        /\ j = jti[r] /\ u = usr[r] /\ subject[j] = u
        /\ ~Stored(j) /\ Signing(j)
  BY DEF SaveTokenSet, Signing
<1>2. /\ subject' = subject
      /\ token' \in {token, [token EXCEPT ![j] = u]}
      /\ ~Signing(j)'
      /\ \A k \in Jti \ {j} : Signing(k)' <=> Signing(k)
  BY <1>1 DEF SaveTokenSet, Signing, Goto, jwts, locals
<1>3. \A k \in Jti \ {j} : /\ SessionState'[k] = SessionState[k]
                            /\ SessionOwner'[k] = SessionOwner[k]
  BY <1>2 DEF SessionState, SessionOwner, Stored
<1>4. SessionState[j] = "free" /\ SessionState'[j] \in {"live", "ended"}
  BY <1>1, <1>2 DEF SessionState, Stored
<1>5. SessionOwner'[j] = u
  BY <1>1, <1>2, <1>4 DEF SessionOwner
<1>6. SessionOwner' = [SessionOwner EXCEPT ![j] = u]
  BY <1>1, <1>3, <1>5, MapsAreFunctions
<1>7. SessionState' = [SessionState EXCEPT ![j] = SessionState'[j]]
  BY <1>1, <1>3, MapsAreFunctions
<1>8. CASE SessionState'[j] = "live"
  <2>1. Sessions!Open(j, u)
    BY <1>4, <1>6, <1>7, <1>8 DEF Sessions!Open
  <2> QED
    BY <2>1, <1>1 DEF Sessions!SessionNext
<1>9. CASE SessionState'[j] = "ended"
  <2>1. Sessions!Waste(j, u)
    BY <1>4, <1>6, <1>7, <1>9 DEF Sessions!Waste
  <2> QED
    BY <2>1, <1>1 DEF Sessions!SessionNext
<1> QED
  BY <1>4, <1>8, <1>9

\* A process that dies before its SET uses the session up; later, nothing changes.
LEMMA CrashMaps ==
  ASSUME BaseInv, NEW r \in Req, Crash(r)
  PROVE  Sessions!SessionNext \/ UNCHANGED SessionVars
<1> USE ConstantsAssumption DEF BaseInv, TypeOK, Ownership, SigningPrivate, Signers, Steps,
        TokenSteps
<1>1. UNCHANGED <<token, subject>> /\ pc' = [pc EXCEPT ![r] = "idle"]
  BY DEF Crash, Forget, Goto, keys, jwts
<1>2. CASE pc[r] # "set"
  <2>1. \A k \in Jti : Signing(k)' <=> Signing(k)
    BY <1>1, <1>2 DEF Signing, Crash, Forget
  <2> QED
    BY <1>1, <2>1, StutterMaps
<1>3. CASE pc[r] = "set"
  <2>1. PICK j \in Jti, u \in User :
          j = jti[r] /\ u = usr[r] /\ subject[j] = u /\ ~Stored(j) /\ Signing(j)
    BY <1>3 DEF Signing
  <2>2. ~Signing(j)' /\ \A k \in Jti \ {j} : Signing(k)' <=> Signing(k)
    BY <1>1, <1>3, <2>1 DEF Signing, Crash, Forget
  <2>3. \A k \in Jti \ {j} : /\ SessionState'[k] = SessionState[k]
                              /\ SessionOwner'[k] = SessionOwner[k]
    BY <1>1, <2>2 DEF SessionState, SessionOwner, Stored
  <2>4. SessionState[j] = "free" /\ SessionState'[j] = "ended" /\ SessionOwner'[j] = u
    BY <1>1, <2>1, <2>2 DEF SessionState, SessionOwner, Stored
  <2>5. SessionOwner' = [SessionOwner EXCEPT ![j] = u]
    BY <2>1, <2>3, <2>4, MapsAreFunctions
  <2>6. SessionState' = [SessionState EXCEPT ![j] = "ended"]
    BY <2>1, <2>3, <2>4, MapsAreFunctions
  <2>7. Sessions!Waste(j, u)
    BY <2>4, <2>5, <2>6 DEF Sessions!Waste
  <2> QED
    BY <2>1, <2>7 DEF Sessions!SessionNext
<1> QED
  BY <1>2, <1>3

\* Removing keys of one user's tokens ends those sessions.
LEMMA EndMaps ==
  ASSUME BaseInv, NEW u \in User, NEW gone \in SUBSET Jti,
         \A j \in gone : Stored(j) /\ subject[j] = u,
         token' = [j \in Jti |-> IF j \in gone THEN NoUser ELSE token[j]],
         subject' = subject,
         \A j \in Jti : Signing(j)' <=> Signing(j)
  PROVE  Sessions!SessionNext
<1> USE ConstantsAssumption DEF BaseInv, TypeOK, Ownership, SigningPrivate, Signers
<1>1. \A j \in gone : ~Signing(j) /\ subject[j] # NoUser
  BY DEF Signing, Stored
<1>2. \A j \in gone : SessionState[j] = "live" /\ SessionOwner[j] = u
  BY DEF SessionState, SessionOwner
<1>3. \A j \in Jti : SessionState'[j] = IF j \in gone THEN "ended" ELSE SessionState[j]
  BY <1>1 DEF SessionState, Stored
<1>4. SessionState' = [j \in Jti |-> IF j \in gone THEN "ended" ELSE SessionState[j]]
  BY <1>3 DEF SessionState
<1>5. \A j \in Jti : SessionOwner'[j] = SessionOwner[j]
  BY <1>2, <1>3 DEF SessionOwner
<1>6. SessionOwner' = SessionOwner
  BY <1>5 DEF SessionOwner
<1>7. Sessions!End(gone, u)
  BY <1>2, <1>4, <1>6 DEF Sessions!End
<1> QED
  BY <1>7 DEF Sessions!SessionNext

\* Every step of the store is a step of SessionStore or a stutter.
LEMMA SessionStep ==
  ASSUME BaseInv, [Next]_vars
  PROVE  Sessions!SessionNext \/ UNCHANGED SessionVars
<1> USE ConstantsAssumption DEF BaseInv
<1>1. ASSUME NEW r \in Req, NEW u \in User, GenerateToken(r, u)
     PROVE  Sessions!SessionNext \/ UNCHANGED SessionVars
  BY <1>1, FreshMaps
<1>2. ASSUME NEW r \in Req, SaveTokenSet(r)
     PROVE  Sessions!SessionNext \/ UNCHANGED SessionVars
  BY <1>2, SaveMaps
<1>3. ASSUME NEW r \in Req, SaveTokenSAdd(r)
     PROVE  Sessions!SessionNext \/ UNCHANGED SessionVars
  BY <1>3, StutterMaps DEF SaveTokenSAdd, Goto, Signing, keys, jwts, locals, TypeOK, Outcomes
<1>4. ASSUME NEW r \in Req, NEW own \in Jti, NEW target \in Jti, RevokeToken(r, own, target)
     PROVE  Sessions!SessionNext \/ UNCHANGED SessionVars
  BY <1>4, StutterMaps DEF RevokeToken, Enter, IssuedTo, Valid, Goto, Signing, keys, jwts, locals, TypeOK, Outcomes
<1>5. ASSUME NEW r \in Req, DeleteUserTokenContains(r)
     PROVE  Sessions!SessionNext \/ UNCHANGED SessionVars
  BY <1>5, StutterMaps DEF DeleteUserTokenContains, Goto, Signing, keys, jwts, locals, TypeOK, Outcomes
<1>6. ASSUME NEW r \in Req, DeleteTokenGet(r)
     PROVE  Sessions!SessionNext \/ UNCHANGED SessionVars
  BY <1>6, StutterMaps DEF DeleteTokenGet, Goto, Signing, keys, jwts, locals, TypeOK, Outcomes
<1>7. ASSUME NEW r \in Req, DeleteTokenSRem(r)
     PROVE  Sessions!SessionNext \/ UNCHANGED SessionVars
  BY <1>7, StutterMaps DEF DeleteTokenSRem, Goto, Signing, keys, jwts, locals, TypeOK, Outcomes
<1>8. ASSUME NEW r \in Req, DeleteTokenDel(r)
     PROVE  Sessions!SessionNext \/ UNCHANGED SessionVars
  <2> DEFINE gone == {j \in Jti : j = jti[r] /\ Stored(j)}
  <2>1. /\ jti[r] \in Jti /\ usr[r] \in User
        /\ \A j \in gone : Stored(j) /\ subject[j] = usr[r]
    BY <1>8 DEF DeleteTokenDel, TypeOK, Ownership, Steps, TokenSteps
  <2>2. subject' = subject /\ \A j \in Jti : Signing(j)' <=> Signing(j)
    BY <1>8 DEF DeleteTokenDel, Goto, Signing, jwts, locals, TypeOK
  <2>3. CASE token' = token
    BY <2>2, <2>3, StutterMaps
  <2>4. CASE token' = [token EXCEPT ![jti[r]] = NoUser]
    <3>1. token' = [j \in Jti |-> IF j \in gone THEN NoUser ELSE token[j]]
      BY <2>1, <2>4 DEF TypeOK, Stored
    <3> QED
      BY <2>1, <2>2, <3>1, EndMaps
  <2> QED
    BY <1>8, <2>3, <2>4 DEF DeleteTokenDel
<1>9. ASSUME NEW r \in Req, NEW own \in Jti, RevokeAllTokens(r, own)
     PROVE  Sessions!SessionNext \/ UNCHANGED SessionVars
  BY <1>9, StutterMaps DEF RevokeAllTokens, Enter, IssuedTo, Valid, Goto, Signing, keys, jwts, locals, TypeOK, Outcomes
<1>10. ASSUME NEW r \in Req, NEW u \in User, RevokeAllTokensByUserID(r, u)
     PROVE  Sessions!SessionNext \/ UNCHANGED SessionVars
  BY <1>10, StutterMaps DEF RevokeAllTokensByUserID, Enter, IssuedTo, Goto, Signing, keys, jwts, locals, TypeOK, Outcomes
<1>11. ASSUME NEW r \in Req, RevokeAllParse(r)
     PROVE  Sessions!SessionNext \/ UNCHANGED SessionVars
  BY <1>11, StutterMaps DEF RevokeAllParse, Valid, Goto, Signing, keys, jwts, locals, TypeOK, Outcomes
<1>12. ASSUME NEW r \in Req, DeleteUserTokensSMembers(r)
     PROVE  Sessions!SessionNext \/ UNCHANGED SessionVars
  BY <1>12, StutterMaps DEF DeleteUserTokensSMembers, Goto, Signing, keys, jwts, locals, TypeOK, Outcomes
<1>13. ASSUME NEW r \in Req, DeleteUserTokensDelKeys(r)
     PROVE  Sessions!SessionNext \/ UNCHANGED SessionVars
  <2> DEFINE gone == {j \in seen[r] : Stored(j)}
  <2>1. /\ gone \in SUBSET Jti /\ usr[r] \in User
        /\ \A j \in gone : Stored(j) /\ subject[j] = usr[r]
    BY <1>13 DEF DeleteUserTokensDelKeys, TypeOK, Ownership, Steps, Walking
  <2>2. subject' = subject /\ \A j \in Jti : Signing(j)' <=> Signing(j)
    BY <1>13 DEF DeleteUserTokensDelKeys, Goto, Signing, jwts, locals, TypeOK
  <2>3. CASE token' = token
    BY <2>2, <2>3, StutterMaps
  <2>4. CASE token' = [j \in Jti |-> IF j \in seen[r] THEN NoUser ELSE token[j]]
    <3>1. token' = [j \in Jti |-> IF j \in gone THEN NoUser ELSE token[j]]
      BY <2>1, <2>4 DEF TypeOK, Stored
    <3> QED
      BY <2>1, <2>2, <3>1, EndMaps
  <2> QED
    BY <1>13, <2>3, <2>4 DEF DeleteUserTokensDelKeys
<1>14. ASSUME NEW r \in Req, DeleteUserTokensDelIndex(r)
     PROVE  Sessions!SessionNext \/ UNCHANGED SessionVars
  BY <1>14, StutterMaps DEF DeleteUserTokensDelIndex, Goto, Signing, keys, jwts, locals, TypeOK, Outcomes
<1>15. ASSUME NEW r \in Req, NEW u \in User, GetUserTokens(r, u)
     PROVE  Sessions!SessionNext \/ UNCHANGED SessionVars
  BY <1>15, StutterMaps DEF GetUserTokens, Enter, Goto, Signing, keys, jwts, locals, TypeOK, Outcomes
<1>16. ASSUME NEW r \in Req, GetUserTokensSMembers(r)
     PROVE  Sessions!SessionNext \/ UNCHANGED SessionVars
  BY <1>16, StutterMaps DEF GetUserTokensSMembers, Goto, Signing, keys, jwts, locals, TypeOK, Outcomes
<1>17. ASSUME NEW r \in Req, GetUserTokensLookup(r)
     PROVE  Sessions!SessionNext \/ UNCHANGED SessionVars
  BY <1>17, StutterMaps DEF GetUserTokensLookup, Goto, Signing, keys, jwts, locals, TypeOK, Outcomes
<1>18. ASSUME NEW r \in Req, GetUserTokensDrop(r)
     PROVE  Sessions!SessionNext \/ UNCHANGED SessionVars
  BY <1>18, StutterMaps DEF GetUserTokensDrop, Goto, Signing, keys, jwts, locals, TypeOK, Outcomes
<1>19. ASSUME NEW j \in Jti, Expire(j)
     PROVE  Sessions!SessionNext \/ UNCHANGED SessionVars
  BY <1>19, StutterMaps DEF Expire, Goto, Signing, keys, jwts, locals, TypeOK, Outcomes
<1>20. ASSUME NEW j \in Jti, Evict(j)
     PROVE  Sessions!SessionNext \/ UNCHANGED SessionVars
  <2> DEFINE gone == {j}
  <2>1. subject[j] \in User /\ Stored(j) /\ gone \in SUBSET Jti
    BY <1>20, ConstantsAssumption DEF Evict, TypeOK, Ownership, Stored
  <2>3. token' = [k \in Jti |-> IF k \in gone THEN NoUser ELSE token[k]]
    BY <1>20 DEF Evict, TypeOK
  <2>2. subject' = subject /\ \A k \in Jti : Signing(k)' <=> Signing(k)
    BY <1>20 DEF Evict, Signing, jwts, locals
  <2> QED
    BY <2>1, <2>2, <2>3, EndMaps
<1>21. ASSUME NEW r \in Req, Answer(r)
     PROVE  Sessions!SessionNext \/ UNCHANGED SessionVars
  BY <1>21, StutterMaps DEF Answer, Forget, Goto, Signing, keys, jwts, locals, TypeOK, Outcomes
<1>22. ASSUME NEW r \in Req, Crash(r)
     PROVE  Sessions!SessionNext \/ UNCHANGED SessionVars
  BY <1>22, CrashMaps
<1>23. CASE UNCHANGED vars
  BY <1>23, StutterMaps DEF vars, Signing
<1> QED
  BY <1>1, <1>2, <1>3, <1>4, <1>5, <1>6, <1>7, <1>8, <1>9, <1>10, <1>11, <1>12, <1>13, <1>14, <1>15, <1>16, <1>17, <1>18, <1>19, <1>20, <1>21, <1>22, <1>23 DEF Next, Begin, Continue

\* ImplementsSessions: whatever fails and however requests interleave, a session
\* is opened once, for one user, and never comes back after it ended.
THEOREM Implementation == Spec => ImplementsSessions
<1>1. Init => Sessions!SessionInit
  BY DEF Init, Sessions!SessionInit, SessionOwner, SessionState, Stored, Signing
<1>2. BaseInv /\ [Next]_vars => [Sessions!SessionNext]_SessionVars
  BY SessionStep
<1> QED
  BY <1>1, <1>2, BaseCorrect, PTL DEF Spec, ImplementsSessions, Sessions!SessionSpec, SessionVars

\* What a client relies on: a session keeps its user from the login on, and one that
\* has ended is never usable again.
NeverBack ==
    \A j \in Jti : SessionState[j] # "free" =>
        /\ SessionOwner'[j] = SessionOwner[j]
        /\ SessionState[j] = "ended" => SessionState'[j] = "ended"

\* SessionStore allows nothing else.
LEMMA SessionsKeepState ==
  ASSUME Sessions!SessionNext \/ UNCHANGED SessionVars
  PROVE  NeverBack
<1>1. SUFFICES ASSUME NEW j \in Jti, SessionState[j] # "free"
               PROVE  /\ SessionOwner'[j] = SessionOwner[j]
                      /\ SessionState[j] = "ended" => SessionState'[j] = "ended"
  BY DEF NeverBack
<1>2. ASSUME NEW u \in User, NEW k \in Jti, Sessions!Open(k, u) \/ Sessions!Waste(k, u)
      PROVE  SessionOwner'[j] = SessionOwner[j] /\ SessionState'[j] = SessionState[j]
  <2>1. /\ SessionState[k] = "free"
        /\ SessionOwner' = [SessionOwner EXCEPT ![k] = u]
        /\ \E l \in {"live", "ended"} : SessionState' = [SessionState EXCEPT ![k] = l]
    BY <1>2 DEF Sessions!Open, Sessions!Waste
  <2>2. j # k
    BY <1>1, <2>1
  <2> QED
    BY <2>1, <2>2, MapsAreFunctions
<1>3. ASSUME NEW u \in User, NEW gone \in SUBSET Jti, Sessions!End(gone, u)
      PROVE  /\ SessionOwner'[j] = SessionOwner[j]
             /\ SessionState[j] = "ended" => SessionState'[j] = "ended"
  BY <1>3 DEF Sessions!End
<1>4. CASE UNCHANGED SessionVars
  BY <1>4 DEF SessionVars
<1> QED
  BY <1>2, <1>3, <1>4 DEF Sessions!SessionNext

\* A token that was revoked, purged or has expired never works again, and never for
\* another user, whatever fails, also when its login has still to answer or a logout
\* of it is repeated.
THEOREM EndedForGood == Spec => [][NeverBack]_vars
<1>1. [Sessions!SessionNext]_SessionVars => [NeverBack]_vars
  BY SessionsKeepState
<1> QED
  BY <1>1, Implementation, PTL DEF ImplementsSessions, Sessions!SessionSpec, SessionVars

-----------------------------------------------------------------------------
(* Revocation is complete while Redis answers and no login overlaps a purge. *)

\* The one place where the two assumptions on the environment are used.
LEMMA ApartStep ==
  ASSUME Quiet, BaseInv, LoginsApart, [Next]_vars
  PROVE  LoginsApart'
<1> USE ConstantsAssumption DEF Quiet, BaseInv, TypeOK, Ownership, Steps, TokenSteps, Busy,
        Stored, RedisFails, keys, jwts, locals
<1>1. ASSUME NEW r \in Req, NEW u \in User, GenerateToken(r, u)
     PROVE  LoginsApart'
  BY <1>1 DEF GenerateToken, Enter, LoginsApart, Goto, Walking, Outcomes
<1>2. ASSUME NEW r \in Req, SaveTokenSet(r)
     PROVE  LoginsApart'
  BY <1>2 DEF SaveTokenSet, LoginsApart, Goto, Walking, Outcomes
<1>3. ASSUME NEW r \in Req, SaveTokenSAdd(r)
     PROVE  LoginsApart'
  BY <1>3 DEF SaveTokenSAdd, LoginsApart, Goto, Walking, Outcomes
<1>4. ASSUME NEW r \in Req, NEW own \in Jti, NEW target \in Jti, RevokeToken(r, own, target)
     PROVE  LoginsApart'
  BY <1>4 DEF RevokeToken, Enter, IssuedTo, Valid, LoginsApart, Goto, Walking, Outcomes
<1>5. ASSUME NEW r \in Req, DeleteUserTokenContains(r)
     PROVE  LoginsApart'
  BY <1>5 DEF DeleteUserTokenContains, LoginsApart, Goto, Walking, Outcomes
<1>6. ASSUME NEW r \in Req, DeleteTokenGet(r)
     PROVE  LoginsApart'
  BY <1>6 DEF DeleteTokenGet, LoginsApart, Goto, Walking, Outcomes
<1>7. ASSUME NEW r \in Req, DeleteTokenSRem(r)
     PROVE  LoginsApart'
  BY <1>7 DEF DeleteTokenSRem, LoginsApart, Goto, Walking, Outcomes
<1>8. ASSUME NEW r \in Req, DeleteTokenDel(r)
     PROVE  LoginsApart'
  BY <1>8 DEF DeleteTokenDel, LoginsApart, Goto, Walking, Outcomes
<1>9. ASSUME NEW r \in Req, NEW own \in Jti, RevokeAllTokens(r, own)
     PROVE  LoginsApart'
  BY <1>9 DEF RevokeAllTokens, Enter, IssuedTo, Valid, LoginsApart, Goto, Walking, Outcomes
<1>10. ASSUME NEW r \in Req, NEW u \in User, RevokeAllTokensByUserID(r, u)
     PROVE  LoginsApart'
  BY <1>10 DEF RevokeAllTokensByUserID, Enter, IssuedTo, LoginsApart, Goto, Walking, Outcomes
<1>11. ASSUME NEW r \in Req, RevokeAllParse(r)
     PROVE  LoginsApart'
  BY <1>11 DEF RevokeAllParse, Valid, LoginsApart, Goto, Walking, Outcomes
<1>12. ASSUME NEW r \in Req, DeleteUserTokensSMembers(r)
     PROVE  LoginsApart'
  BY <1>12 DEF DeleteUserTokensSMembers, LoginsApart, Goto, Walking, Outcomes
<1>13. ASSUME NEW r \in Req, DeleteUserTokensDelKeys(r)
     PROVE  LoginsApart'
  BY <1>13 DEF DeleteUserTokensDelKeys, LoginsApart, Goto, Walking, Outcomes
<1>14. ASSUME NEW r \in Req, DeleteUserTokensDelIndex(r)
     PROVE  LoginsApart'
  BY <1>14 DEF DeleteUserTokensDelIndex, LoginsApart, Goto, Walking, Outcomes
<1>15. ASSUME NEW r \in Req, NEW u \in User, GetUserTokens(r, u)
     PROVE  LoginsApart'
  BY <1>15 DEF GetUserTokens, Enter, LoginsApart, Goto, Walking, Outcomes
<1>16. ASSUME NEW r \in Req, GetUserTokensSMembers(r)
     PROVE  LoginsApart'
  BY <1>16 DEF GetUserTokensSMembers, LoginsApart, Goto, Walking, Outcomes
<1>17. ASSUME NEW r \in Req, GetUserTokensLookup(r)
     PROVE  LoginsApart'
  BY <1>17 DEF GetUserTokensLookup, LoginsApart, Goto, Walking, Outcomes
<1>18. ASSUME NEW r \in Req, GetUserTokensDrop(r)
     PROVE  LoginsApart'
  BY <1>18 DEF GetUserTokensDrop, LoginsApart, Goto, Walking, Outcomes
<1>19. ASSUME NEW j \in Jti, Expire(j)
     PROVE  LoginsApart'
  BY <1>19 DEF Expire, LoginsApart, Goto, Walking, Outcomes
<1>20. ASSUME NEW j \in Jti, Evict(j)
     PROVE  LoginsApart'
  BY <1>20 DEF Evict, LoginsApart, Goto, Walking, Outcomes
<1>21. ASSUME NEW r \in Req, Answer(r)
     PROVE  LoginsApart'
  BY <1>21 DEF Answer, Forget, LoginsApart, Goto, Walking, Outcomes
<1>22. ASSUME NEW r \in Req, Crash(r)
     PROVE  LoginsApart'
  BY <1>22 DEF Crash, Forget, LoginsApart, Goto, Walking, Outcomes
<1>23. CASE UNCHANGED vars
  BY <1>23 DEF LoginsApart, vars, Outcomes
<1> QED
  BY <1>1, <1>2, <1>3, <1>4, <1>5, <1>6, <1>7, <1>8, <1>9, <1>10, <1>11, <1>12, <1>13, <1>14, <1>15, <1>16, <1>17, <1>18, <1>19, <1>20, <1>21, <1>22, <1>23 DEF Next, Begin, Continue

\* No step loses track of a usable token.
LEMMA WalksStep ==
  ASSUME Quiet, BaseInv, LoginsApart, WalksComplete, [Next]_vars
  PROVE  WalksComplete'
<1> USE ConstantsAssumption DEF Quiet, BaseInv, TypeOK, Ownership, SigningPrivate, LoginsApart,
        Steps, TokenSteps, Signers, Found, Doomed, Stored, RedisFails, keys, jwts, locals
<1>1. ASSUME NEW r \in Req, NEW u \in User, GenerateToken(r, u)
     PROVE  WalksComplete'
  BY <1>1 DEF GenerateToken, Enter, WalksComplete, Goto, Walking, Outcomes
<1>2. ASSUME NEW r \in Req, SaveTokenSet(r)
     PROVE  WalksComplete'
  BY <1>2 DEF SaveTokenSet, WalksComplete, Goto, Walking, Outcomes
<1>3. ASSUME NEW r \in Req, SaveTokenSAdd(r)
     PROVE  WalksComplete'
  BY <1>3 DEF SaveTokenSAdd, WalksComplete, Goto, Walking, Outcomes
<1>4. ASSUME NEW r \in Req, NEW own \in Jti, NEW target \in Jti, RevokeToken(r, own, target)
     PROVE  WalksComplete'
  BY <1>4 DEF RevokeToken, Enter, IssuedTo, Valid, WalksComplete, Goto, Walking, Outcomes
<1>5. ASSUME NEW r \in Req, DeleteUserTokenContains(r)
     PROVE  WalksComplete'
  BY <1>5 DEF DeleteUserTokenContains, WalksComplete, Goto, Walking, Outcomes
<1>6. ASSUME NEW r \in Req, DeleteTokenGet(r)
     PROVE  WalksComplete'
  BY <1>6 DEF DeleteTokenGet, WalksComplete, Goto, Walking, Outcomes
<1>7. ASSUME NEW r \in Req, DeleteTokenSRem(r)
     PROVE  WalksComplete'
  BY <1>7 DEF DeleteTokenSRem, WalksComplete, Goto, Walking, Outcomes
<1>8. ASSUME NEW r \in Req, DeleteTokenDel(r)
     PROVE  WalksComplete'
  BY <1>8 DEF DeleteTokenDel, WalksComplete, Goto, Walking, Outcomes
<1>9. ASSUME NEW r \in Req, NEW own \in Jti, RevokeAllTokens(r, own)
     PROVE  WalksComplete'
  BY <1>9 DEF RevokeAllTokens, Enter, IssuedTo, Valid, WalksComplete, Goto, Walking, Outcomes
<1>10. ASSUME NEW r \in Req, NEW u \in User, RevokeAllTokensByUserID(r, u)
     PROVE  WalksComplete'
  BY <1>10 DEF RevokeAllTokensByUserID, Enter, IssuedTo, WalksComplete, Goto, Walking, Outcomes
<1>11. ASSUME NEW r \in Req, RevokeAllParse(r)
     PROVE  WalksComplete'
  BY <1>11 DEF RevokeAllParse, Valid, WalksComplete, Goto, Walking, Outcomes
<1>12. ASSUME NEW r \in Req, DeleteUserTokensSMembers(r)
     PROVE  WalksComplete'
  BY <1>12 DEF DeleteUserTokensSMembers, WalksComplete, Goto, Walking, Outcomes
<1>13. ASSUME NEW r \in Req, DeleteUserTokensDelKeys(r)
     PROVE  WalksComplete'
  BY <1>13 DEF DeleteUserTokensDelKeys, WalksComplete, Goto, Walking, Outcomes
<1>14. ASSUME NEW r \in Req, DeleteUserTokensDelIndex(r)
     PROVE  WalksComplete'
  BY <1>14 DEF DeleteUserTokensDelIndex, WalksComplete, Goto, Walking, Outcomes
<1>15. ASSUME NEW r \in Req, NEW u \in User, GetUserTokens(r, u)
     PROVE  WalksComplete'
  BY <1>15 DEF GetUserTokens, Enter, WalksComplete, Goto, Walking, Outcomes
<1>16. ASSUME NEW r \in Req, GetUserTokensSMembers(r)
     PROVE  WalksComplete'
  BY <1>16 DEF GetUserTokensSMembers, WalksComplete, Goto, Walking, Outcomes
<1>17. ASSUME NEW r \in Req, GetUserTokensLookup(r)
     PROVE  WalksComplete'
  BY <1>17 DEF GetUserTokensLookup, WalksComplete, Goto, Walking, Outcomes
<1>18. ASSUME NEW r \in Req, GetUserTokensDrop(r)
     PROVE  WalksComplete'
  BY <1>18 DEF GetUserTokensDrop, WalksComplete, Goto, Walking, Outcomes
<1>19. ASSUME NEW j \in Jti, Expire(j)
     PROVE  WalksComplete'
  BY <1>19 DEF Expire, WalksComplete, Goto, Walking, Outcomes
<1>20. ASSUME NEW j \in Jti, Evict(j)
     PROVE  WalksComplete'
  BY <1>20 DEF Evict, WalksComplete, Goto, Walking, Outcomes
<1>21. ASSUME NEW r \in Req, Answer(r)
     PROVE  WalksComplete'
  BY <1>21 DEF Answer, Forget, WalksComplete, Goto, Walking, Outcomes
<1>22. ASSUME NEW r \in Req, Crash(r)
     PROVE  WalksComplete'
  BY <1>22 DEF Crash, Forget, WalksComplete, Goto, Walking, Outcomes
<1>23. CASE UNCHANGED vars
  BY <1>23 DEF WalksComplete, vars, Outcomes
<1> QED
  BY <1>1, <1>2, <1>3, <1>4, <1>5, <1>6, <1>7, <1>8, <1>9, <1>10, <1>11, <1>12, <1>13, <1>14, <1>15, <1>16, <1>17, <1>18, <1>19, <1>20, <1>21, <1>22, <1>23 DEF Next, Begin, Continue

\* No step of a revocation forgets one of the tokens it was asked to revoke.
LEMMA DueStep ==
  ASSUME Quiet, BaseInv, LoginsApart, WalksComplete, DueInv, [Next]_vars
  PROVE  DueInv'
<1> USE ConstantsAssumption DEF Quiet, BaseInv, TypeOK, Ownership, SigningPrivate, WalksComplete,
        Steps, TokenSteps, Signers, Found, Doomed, Stored, RedisFails, keys, jwts, locals
<1>1. ASSUME NEW r \in Req, NEW u \in User, GenerateToken(r, u)
     PROVE  DueInv'
  BY <1>1 DEF GenerateToken, Enter, DueInv, Goto, Walking, Outcomes
<1>2. ASSUME NEW r \in Req, SaveTokenSet(r)
     PROVE  DueInv'
  BY <1>2 DEF SaveTokenSet, DueInv, Goto, Walking, Outcomes
<1>3. ASSUME NEW r \in Req, SaveTokenSAdd(r)
     PROVE  DueInv'
  BY <1>3 DEF SaveTokenSAdd, DueInv, Goto, Walking, Outcomes
<1>4. ASSUME NEW r \in Req, NEW own \in Jti, NEW target \in Jti, RevokeToken(r, own, target)
     PROVE  DueInv'
  BY <1>4 DEF RevokeToken, Enter, IssuedTo, Valid, DueInv, Goto, Walking, Outcomes
<1>5. ASSUME NEW r \in Req, DeleteUserTokenContains(r)
     PROVE  DueInv'
  BY <1>5 DEF DeleteUserTokenContains, DueInv, Goto, Walking, Outcomes
<1>6. ASSUME NEW r \in Req, DeleteTokenGet(r)
     PROVE  DueInv'
  BY <1>6 DEF DeleteTokenGet, DueInv, Goto, Walking, Outcomes
<1>7. ASSUME NEW r \in Req, DeleteTokenSRem(r)
     PROVE  DueInv'
  BY <1>7 DEF DeleteTokenSRem, DueInv, Goto, Walking, Outcomes
<1>8. ASSUME NEW r \in Req, DeleteTokenDel(r)
     PROVE  DueInv'
  BY <1>8 DEF DeleteTokenDel, DueInv, Goto, Walking, Outcomes
<1>9. ASSUME NEW r \in Req, NEW own \in Jti, RevokeAllTokens(r, own)
     PROVE  DueInv'
  BY <1>9 DEF RevokeAllTokens, Enter, IssuedTo, Valid, DueInv, Goto, Walking, Outcomes
<1>10. ASSUME NEW r \in Req, NEW u \in User, RevokeAllTokensByUserID(r, u)
     PROVE  DueInv'
  BY <1>10 DEF RevokeAllTokensByUserID, Enter, IssuedTo, DueInv, Goto, Walking, Outcomes
<1>11. ASSUME NEW r \in Req, RevokeAllParse(r)
     PROVE  DueInv'
  BY <1>11 DEF RevokeAllParse, Valid, DueInv, Goto, Walking, Outcomes
<1>12. ASSUME NEW r \in Req, DeleteUserTokensSMembers(r)
     PROVE  DueInv'
  BY <1>12 DEF DeleteUserTokensSMembers, DueInv, Goto, Walking, Outcomes
<1>13. ASSUME NEW r \in Req, DeleteUserTokensDelKeys(r)
     PROVE  DueInv'
  BY <1>13 DEF DeleteUserTokensDelKeys, DueInv, Goto, Walking, Outcomes
<1>14. ASSUME NEW r \in Req, DeleteUserTokensDelIndex(r)
     PROVE  DueInv'
  BY <1>14 DEF DeleteUserTokensDelIndex, DueInv, Goto, Walking, Outcomes
<1>15. ASSUME NEW r \in Req, NEW u \in User, GetUserTokens(r, u)
     PROVE  DueInv'
  BY <1>15 DEF GetUserTokens, Enter, DueInv, Goto, Walking, Outcomes
<1>16. ASSUME NEW r \in Req, GetUserTokensSMembers(r)
     PROVE  DueInv'
  BY <1>16 DEF GetUserTokensSMembers, DueInv, Goto, Walking, Outcomes
<1>17. ASSUME NEW r \in Req, GetUserTokensLookup(r)
     PROVE  DueInv'
  BY <1>17 DEF GetUserTokensLookup, DueInv, Goto, Walking, Outcomes
<1>18. ASSUME NEW r \in Req, GetUserTokensDrop(r)
     PROVE  DueInv'
  BY <1>18 DEF GetUserTokensDrop, DueInv, Goto, Walking, Outcomes
<1>19. ASSUME NEW j \in Jti, Expire(j)
     PROVE  DueInv'
  BY <1>19 DEF Expire, DueInv, Goto, Walking, Outcomes
<1>20. ASSUME NEW j \in Jti, Evict(j)
     PROVE  DueInv'
  BY <1>20 DEF Evict, DueInv, Goto, Walking, Outcomes
<1>21. ASSUME NEW r \in Req, Answer(r)
     PROVE  DueInv'
  BY <1>21 DEF Answer, Forget, DueInv, Goto, Walking, Outcomes
<1>22. ASSUME NEW r \in Req, Crash(r)
     PROVE  DueInv'
  BY <1>22 DEF Crash, Forget, DueInv, Goto, Walking, Outcomes
<1>23. CASE UNCHANGED vars
  BY <1>23 DEF DueInv, vars, Outcomes
<1> QED
  BY <1>1, <1>2, <1>3, <1>4, <1>5, <1>6, <1>7, <1>8, <1>9, <1>10, <1>11, <1>12, <1>13, <1>14, <1>15, <1>16, <1>17, <1>18, <1>19, <1>20, <1>21, <1>22, <1>23 DEF Next, Begin, Continue

\* The invariant that both follow from.
THEOREM QuietCorrect == Quiet => (Spec => []QuietInv)
<1> SUFFICES ASSUME Quiet PROVE Spec => []QuietInv
  OBVIOUS
<1>1. Init => LoginsApart /\ WalksComplete /\ DueInv
  BY DEF Init, LoginsApart, WalksComplete, DueInv, Stored, Steps
<1>2. BaseInv /\ LoginsApart /\ WalksComplete /\ DueInv /\ [Next]_vars
        => LoginsApart' /\ WalksComplete' /\ DueInv'
  BY ApartStep, WalksStep, DueStep
<1> QED
  BY <1>1, <1>2, BaseCorrect, PTL DEF Spec, QuietInv

\* RevocationSettles: when Redis answers, no process dies and no login overlaps a
\* purge of the same user, a logout or purge that answers nil has revoked what it
\* was asked to, whatever other logouts, purges and listings run at the same time.
THEOREM RevocationComplete == Quiet => (Spec => []RevocationSettles)
<1> SUFFICES ASSUME Quiet PROVE Spec => []RevocationSettles
  OBVIOUS
<1>1. QuietInv => RevocationSettles
  BY DEF QuietInv, DueInv, RevocationSettles, LogoutRevokes, PurgeRevokesAll
<1> QED
  BY <1>1, QuietCorrect, PTL

\* LiveTokensIndexed: under the same assumption every usable token that a client
\* holds can be found through its user's set, or is about to be deleted.
THEOREM TokensFindable == Quiet => (Spec => []LiveTokensIndexed)
<1> SUFFICES ASSUME Quiet PROVE Spec => []LiveTokensIndexed
  OBVIOUS
<1>1. QuietInv => LiveTokensIndexed
  BY DEF QuietInv, BaseInv, TypeOK, SigningPrivate, WalksComplete, Found, LiveTokensIndexed
<1> QED
  BY <1>1, QuietCorrect, PTL

=============================================================================
